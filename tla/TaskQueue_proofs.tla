-------------------------- MODULE TaskQueue_proofs --------------------------
(***************************************************************************)
(* Theorems about TaskQueue, for any number of segments, stitch slots,     *)
(* agents, buyers and hosts, any kinds of job and any bounds.              *)
(*                                                                         *)
(* An invariant is proved in three layers.  The effect lemmas say what     *)
(* each action does to its worker and to the rows, and that it keeps the   *)
(* types; NextActs gathers them into Acts(w), so that no later proof       *)
(* expands an action.  FreshInv adds who may be where: one submission, one *)
(* handler for each stitch task, a row for whatever a worker has in hand.  *)
(* On these rest HandInv (a task handed out once), SettledInv (a segment   *)
(* done is a booking settled), WholeInv (a job ends whole) and ClusterInv  *)
(* (a cluster is formed whole or not at all), each inductive together with *)
(* TypeInv and FreshInv.                                                   *)
(***************************************************************************)
EXTENDS TaskQueue, TLAPS

-----------------------------------------------------------------------------
(* Where a worker is *)

SubLabels == {"sub_book", "sub_task", "sub_seg", "sub_unwind"}
ResultLabels == {"submit", "submit_failed", "pay", "fail_read", "fail_set", "advance", "stitched",
                 "seg_done", "check", "complete", "fin_book", "fin_task", "fin_set"}
TaskLabels == {"claim", "mark", "work", "retry", "restore"} \cup ResultLabels
Submitter(w) == pc[w] \in SubLabels

-----------------------------------------------------------------------------
(* The inductive invariants *)

(* TypeOK does not say that a worker that is busy has a task in hand, nor  *)
(* which: the actions index the rows with it.                               *)
InHand(w) ==
  /\ pc[w] # "idle" => loc[w].t \in Tasks
  /\ pc[w] \in SubLabels \cup {"seg_done"} => loc[w].t \in Segments
  /\ pc[w] \in {"fin_task", "fin_set"} => loc[w].n \in Tasks \ Segments
  /\ pc[w] = "retry" => loc[w].n < MaxRetries
TypeInv == TypeOK /\ \A w \in Workers : InHand(w)

(* What a worker finds in the rows: a submission has not reached the later *)
(* segments, who creates a task finds it booked and not created, and who   *)
(* has one in hand finds its row.                                           *)
FreshOK(w) ==
  /\ pc[w] # "idle" => job.status # "none"
  /\ pc[w] \in {"sub_book", "sub_task", "sub_seg"} =>
       \A s \in Segments : s > loc[w].t => booking[s] = "none"
  /\ pc[w] = "sub_book" => booking[loc[w].t] = "none"
  /\ pc[w] = "sub_task" => booking[loc[w].t] # "none" /\ task[loc[w].t].status = "none"
  /\ pc[w] = "fin_task" => booking[loc[w].n] # "none" /\ task[loc[w].n].status = "none"
  /\ pc[w] \in TaskLabels => task[loc[w].t].status # "none"
OneSubmitter == \A v, w \in Workers : Submitter(v) /\ Submitter(w) => v = w
OneMaker == \A v, w \in Workers :
  pc[v] = "fin_task" /\ pc[w] = "fin_task" /\ loc[v].n = loc[w].n => v = w
RowsOK == \A t \in Tasks :
  /\ booking[t] = "none" => task[t].status = "none"
  /\ task[t].saved => task[t].status # "none"
  /\ job.status = "none" => booking[t] = "none"
FreshInv == OneSubmitter /\ OneMaker /\ RowsOK /\ \A w \in Workers : FreshOK(w)

(* The claim's CAS needs the task to be pending: it never is while an      *)
(* agent holds it, unless a retry, a restore or the reaper queued it again. *)
HandInv ==
  /\ HandedOutOnce
  /\ \A t \in Tasks \ requeued, a \in Agents : Holds(a, t) => task[t].status # "pending"

(* _advance_manifest runs after the release, and a settled booking stays so *)
Settled(t) == booking[t] \in {"released", "refunded"}
SettledInv == /\ DoneIsSettled
              /\ \A w \in Workers : pc[w] \in {"advance", "seg_done"} => Settled(loc[w].t)

(* A segment without a row is one the submission has still to record, or   *)
(* one a fan-out job does without; a handler that goes on to the end of    *)
(* the job has seen none pending, when no submission was running.           *)
Gap == job.kind = "fanout" /\ count.refusals + count.crashes > 0
Whole == \A s \in Segments : segment[s] = "done" \/ (segment[s] = "none" /\ Gap)
Ending == {"complete", "fin_book", "fin_task", "fin_set", "stitched"}
InProgress(s) == \E w \in Workers : Submitter(w) /\ (s >= loc[w].t \/ pc[w] = "sub_unwind")
WholeInv ==
  /\ job.kind \in Kinds
  /\ \A w \in Workers : Submitter(w) =>
       job.status = "running" /\ job.stitch = 0 /\ \A v \in Workers : pc[v] \notin ResultLabels
  /\ job.status = "running" =>
       \A s \in Segments : segment[s] = "none" => Gap \/ InProgress(s)
  /\ \A w \in Workers : pc[w] \in Ending => Whole
  /\ job.stitch # 0 => Whole
  /\ job.status \in {"assembling", "complete"} => Whole
  /\ (job.status = "none" => job.stitch = 0)

(* The live bookings of a cluster being submitted are the ones its request *)
(* remembers; once a rank is refused it only gives them back.               *)
LiveTasks == {t \in Tasks : booking[t] = "live"}
InBooking(w) == loc[w].todo \cup (IF pc[w] \in {"sub_task", "sub_seg"} THEN {loc[w].t} ELSE {})
ClusterInv ==
  /\ job.status = "none" => count.refusals = 0
  /\ job.kind = "distributed" =>
     /\ \A w \in Workers : pc[w] \notin {"fin_book", "fin_task", "fin_set"}
     /\ count.crashes = 0 =>
       /\ \A w \in Workers : Submitter(w) => LiveTasks \subseteq InBooking(w)
       /\ count.refusals > 0 =>
          /\ \A w \in Workers : pc[w] \notin {"sub_book", "sub_task", "sub_seg"}
          /\ LiveTasks = {} \/ \E w \in Workers : pc[w] = "sub_unwind"

-----------------------------------------------------------------------------
(* Rows, local variables and how a step moves its worker *)

Statuses == {"none", "completed", "failed"} \cup Open
JobStatuses == {"none", "running", "assembling", "complete", "failed"}
StepOf(w) == \A v \in Workers \ {w} : pc'[v] = pc[v] /\ loc'[v] = loc[v]

LEMMA LabelNames ==
  /\ "idle" \in Labels /\ "sub_book" \in Labels /\ "sub_task" \in Labels /\ "sub_seg" \in Labels
  /\ "sub_unwind" \in Labels /\ "claim" \in Labels /\ "mark" \in Labels /\ "work" \in Labels
  /\ "submit" \in Labels /\ "submit_failed" \in Labels /\ "pay" \in Labels
  /\ "fail_read" \in Labels /\ "fail_set" \in Labels /\ "advance" \in Labels
  /\ "stitched" \in Labels /\ "seg_done" \in Labels /\ "check" \in Labels
  /\ "complete" \in Labels /\ "fin_book" \in Labels /\ "fin_task" \in Labels
  /\ "fin_set" \in Labels /\ "retry" \in Labels /\ "restore" \in Labels /\ "reap" \in Labels
  /\ "refund_fail" \in Labels
  BY DEF Labels

LEMMA TaskNumbers ==
  /\ Parts \in Nat /\ Stitches \in Nat /\ MaxRetries \in Nat /\ Parts + Stitches \in Nat
  /\ Segments \subseteq Tasks /\ 1 \in Segments /\ 0 \notin Tasks
  /\ \A t \in Tasks : t \in Nat
  BY CountAssumption, PartsAssumption DEF Segments, Tasks

LEMMA TaskFields ==
  ASSUME NEW r \in TaskRow
  PROVE  r.status \in Statuses /\ r.retries \in 0 .. MaxRetries /\ r.saved \in BOOLEAN
         /\ r.interrupted \in BOOLEAN
  BY DEF TaskRow, Statuses

LEMMA LocalFields ==
  ASSUME NEW l \in Locals
  PROVE  l.t \in Tasks \cup {0} /\ l.n \in Nat /\ l.todo \subseteq Segments
         /\ l.was \in Statuses \cup JobStatuses
  BY DEF Locals, Statuses, JobStatuses, Open

LEMMA NoLocalsType == NoLocals \in Locals
  BY DEF NoLocals, Locals

LEMMA LocalsFor ==
  ASSUME NEW t \in Tasks
  PROVE  LET l == [NoLocals EXCEPT !.t = t] IN l \in Locals /\ l.t = t /\ l.todo = {}
  BY DEF NoLocals, Locals

LEMMA LocalsTodo ==
  ASSUME NEW t \in Tasks, NEW s \in SUBSET Segments
  PROVE  LET l == [NoLocals EXCEPT !.t = t, !.todo = s] IN l \in Locals /\ l.t = t /\ l.todo = s
  BY DEF NoLocals, Locals

LEMMA LocalsRetries ==
  ASSUME NEW t \in Tasks, NEW n \in Nat
  PROVE  LET l == [NoLocals EXCEPT !.t = t, !.n = n] IN l \in Locals /\ l.t = t /\ l.n = n
  BY DEF NoLocals, Locals

LEMMA LocalsWas ==
  ASSUME NEW t \in Tasks, NEW s \in Statuses
  PROVE  LET l == [NoLocals EXCEPT !.t = t, !.was = s] IN l \in Locals /\ l.t = t
  BY DEF NoLocals, Locals, Statuses

LEMMA LocalsChanged ==
  ASSUME NEW l \in Locals
  PROVE  /\ \A n \in Nat : /\ [l EXCEPT !.n = n] \in Locals /\ [l EXCEPT !.n = n].t = l.t
                           /\ [l EXCEPT !.n = n].n = n /\ [l EXCEPT !.n = n].todo = l.todo
         /\ \A s \in Statuses \cup JobStatuses :
              [l EXCEPT !.was = s] \in Locals /\ [l EXCEPT !.was = s].t = l.t
         /\ \A s \in SUBSET Segments :
              /\ [l EXCEPT !.todo = s] \in Locals /\ [l EXCEPT !.todo = s].t = l.t
              /\ [l EXCEPT !.todo = s].todo = s
  <1>1. Statuses \cup JobStatuses
          \subseteq {"none", "assembling", "complete", "failed", "completed"} \cup Open
    BY DEF Statuses, JobStatuses, Open
  <1>2. QED BY <1>1 DEF Locals

LEMMA GotoMoves ==
  ASSUME TypeOK, NEW w \in Workers, NEW from, NEW to, Goto(w, from, to)
  PROVE  StepOf(w) /\ pc[w] = from /\ pc'[w] = to /\ loc'[w] = loc[w]
         /\ (to \in Labels => pc' \in [Workers -> Labels]) /\ loc' \in [Workers -> Locals]
  BY DEF Goto, TypeOK, StepOf

LEMMA GotoWithMoves ==
  ASSUME TypeOK, NEW w \in Workers, NEW from, NEW to, NEW l, GotoWith(w, from, to, l)
  PROVE  StepOf(w) /\ pc[w] = from /\ pc'[w] = to /\ loc'[w] = l
         /\ (to \in Labels => pc' \in [Workers -> Labels])
         /\ (l \in Locals => loc' \in [Workers -> Locals])
  BY DEF GotoWith, TypeOK, StepOf

LEMMA FinishMoves ==
  ASSUME TypeOK, NEW w \in Workers, NEW from, Finish(w, from)
  PROVE  StepOf(w) /\ pc[w] = from /\ pc'[w] = "idle"
         /\ pc' \in [Workers -> Labels] /\ loc' \in [Workers -> Locals]
  BY NoLocalsType, LabelNames DEF Finish, GotoWith, TypeOK, StepOf

LEMMA SetTaskEffect ==
  ASSUME TypeOK, NEW t \in Tasks, NEW s \in Statuses, SetTask(t, s)
  PROVE  /\ task' \in [Tasks -> TaskRow]
         /\ task'[t].status = s /\ task'[t].saved = task[t].saved
         /\ \A u \in Tasks \ {t} : task'[u] = task[u]
  BY DEF SetTask, TypeOK, TaskRow, Statuses

LEMMA SetJobEffect ==
  ASSUME TypeOK, NEW s \in JobStatuses, SetJob(s)
  PROVE  job' \in JobRow /\ job'.status = s /\ job'.kind = job.kind /\ job'.stitch = job.stitch
  BY DEF SetJob, TypeOK, JobRow, JobStatuses

LEMMA SettleEffect ==
  ASSUME TypeOK, NEW t \in Tasks, NEW s \in {"released", "refunded"}, Settle(t, s)
  PROVE  /\ booking' \in [Tasks -> {"none", "live", "released", "refunded"}]
         /\ booking'[t] = IF booking[t] = "live" THEN s ELSE booking[t]
         /\ \A u \in Tasks \ {t} : booking'[u] = booking[u]
  BY DEF Settle, TypeOK

LEMMA BookEffect ==
  ASSUME TypeOK, NEW t \in Tasks, booking' = [booking EXCEPT ![t] = "live"]
  PROVE  /\ booking' \in [Tasks -> {"none", "live", "released", "refunded"}]
         /\ booking'[t] = "live" /\ \A u \in Tasks \ {t} : booking'[u] = booking[u]
  BY DEF TypeOK

LEMMA CountEffect ==
  ASSUME TypeOK
  PROVE  /\ [count EXCEPT !.refusals = @ + 1] \in Counts
         /\ [count EXCEPT !.failures = @ + 1] \in Counts
         /\ [count EXCEPT !.restores = @ + 1] \in Counts
         /\ [count EXCEPT !.silences = @ + 1] \in Counts
         /\ [count EXCEPT !.crashes = @ + 1] \in Counts
  BY DEF TypeOK, Counts

LEMMA CountFields ==
  ASSUME TypeOK
  PROVE  /\ count.refusals \in Nat /\ count.crashes \in Nat
         /\ \A c : \/ c = [count EXCEPT !.failures = @ + 1]
                   \/ c = [count EXCEPT !.restores = @ + 1]
                   \/ c = [count EXCEPT !.silences = @ + 1]
                   => c.refusals = count.refusals /\ c.crashes = count.crashes
         /\ \A c : c = [count EXCEPT !.refusals = @ + 1]
                   => c.refusals = count.refusals + 1 /\ c.crashes = count.crashes
         /\ \A c : c = [count EXCEPT !.crashes = @ + 1]
                   => c.refusals = count.refusals /\ c.crashes = count.crashes + 1
  BY DEF TypeOK, Counts

LEMMA WorkerRoles ==
  Agents \subseteq Workers /\ Buyers \subseteq Workers /\ Reaper \in Workers
  BY DEF Workers

-----------------------------------------------------------------------------
(* What each action does.  The proofs below cite these effects instead of   *)
(* expanding the action: what it does to its worker, to the rows, and that  *)
(* it keeps TypeInv.                                                        *)

LEMMA TypeFrame ==
  ASSUME TypeInv, NEW w \in Workers, StepOf(w), TypeOK', InHand(w)'
  PROVE  TypeInv'
  BY DEF TypeInv, InHand, StepOf

(* The task in a worker's hands. *)
LEMMA HandTypes ==
  ASSUME TypeInv, NEW w \in Workers
  PROVE  /\ TypeOK /\ loc[w] \in Locals /\ (pc[w] # "idle" => loc[w].t \in Tasks)
         /\ loc[w].todo \subseteq Segments
         /\ pc[w] \in SubLabels \cup {"seg_done"} => loc[w].t \in Segments
         /\ pc[w] \in {"fin_task", "fin_set"} => loc[w].n \in Tasks \ Segments
         /\ pc[w] = "retry" => loc[w].n < MaxRetries
         /\ job.status \in JobStatuses
         /\ \A t \in Tasks : task[t].status \in Statuses
  BY LocalFields, TaskFields DEF TypeInv, TypeOK, InHand, JobRow, JobStatuses

SameRefusals == count'.refusals = count.refusals /\ count'.crashes = count.crashes

LEMMA SubmitEffect ==
  ASSUME TypeInv, NEW w \in Workers, Submit(w)
  PROVE  /\ TypeInv' /\ StepOf(w) /\ pc[w] = "idle" /\ pc'[w] = "sub_book"
         /\ loc'[w].t = 1 /\ loc'[w].todo = {}
         /\ job.status = "none" /\ job'.status = "running" /\ job'.kind = job.kind
         /\ job'.stitch = job.stitch
         /\ UNCHANGED <<task, booking, segment, requeued, count>>
  <1>1. TypeOK /\ 1 \in Tasks /\ 1 \in Segments
    BY HandTypes, TaskNumbers
  <1>2. /\ StepOf(w) /\ pc[w] = "idle" /\ pc'[w] = "sub_book" /\ loc'[w].t = 1 /\ loc'[w].todo = {}
        /\ pc' \in [Workers -> Labels] /\ loc' \in [Workers -> Locals]
    <2> DEFINE l == [NoLocals EXCEPT !.t = 1]
    <2>1. l \in Locals /\ l.t = 1 /\ l.todo = {}
      BY <1>1, LocalsFor
    <2>2. GotoWith(w, "idle", "sub_book", l)
      BY DEF Submit
    <2> HIDE DEF l
    <2>3. QED BY <1>1, <2>1, <2>2, GotoWithMoves, LabelNames
  <1>3. /\ job' \in JobRow /\ job.status = "none" /\ job'.status = "running"
        /\ job'.kind = job.kind /\ job'.stitch = job.stitch
    BY <1>1, SetJobEffect DEF Submit, JobStatuses
  <1>4. TypeOK'
    BY <1>1, <1>2, <1>3 DEF TypeOK, Submit
  <1>5. InHand(w)'
    BY <1>1, <1>2 DEF InHand
  <1>6. QED BY <1>2, <1>3, <1>4, <1>5, TypeFrame DEF Submit

(* a worker takes a task up: the agent's poll, and the reads of a retry, a  *)
(* restore and the reaper                                                   *)
TakesUp(w) ==
  /\ StepOf(w) /\ pc[w] = "idle" /\ pc'[w] \in {"claim", "retry", "restore", "reap"}
  /\ pc'[w] \in {"claim", "retry", "restore"} =>
       task[loc'[w].t].status # "none" \/ task[loc'[w].t].saved
  /\ pc'[w] = "reap" => booking[loc'[w].t] = "live"
  /\ UNCHANGED <<task, booking, segment, job, requeued>> /\ SameRefusals

LEMMA TakeUp ==
  ASSUME TypeInv, NEW w \in Workers, NEW t \in Tasks, NEW l \in Locals, l.t = t,
         NEW to \in {"claim", "retry", "restore", "reap"}, GotoWith(w, "idle", to, l),
         to = "retry" => l.n < MaxRetries,
         to \in {"claim", "retry", "restore"} => task[t].status # "none" \/ task[t].saved,
         to = "reap" => booking[t] = "live",
         UNCHANGED <<task, booking, segment, job, online, requeued>>,
         count' \in Counts, SameRefusals
  PROVE  TypeInv' /\ TakesUp(w)
  <1>1. TypeOK /\ to \in Labels
    BY HandTypes, LabelNames
  <1>2. /\ StepOf(w) /\ pc[w] = "idle" /\ pc'[w] = to /\ loc'[w] = l
        /\ pc' \in [Workers -> Labels] /\ loc' \in [Workers -> Locals]
    BY <1>1, GotoWithMoves
  <1>3. TypeOK'
    BY <1>1, <1>2 DEF TypeOK
  <1>4. InHand(w)'
    BY <1>2 DEF InHand, SubLabels
  <1>5. QED BY <1>2, <1>3, <1>4, TypeFrame DEF TakesUp

LEMMA TakesUpEffect ==
  ASSUME TypeInv, NEW w \in Workers, NEW t \in Tasks,
         \/ w \in Agents /\ ClaimRead(w)
         \/ RetryRead(w, t) \/ RestoreRead(w, t)
         \/ w = Reaper /\ ReapRead(t)
  PROVE  TypeInv' /\ TakesUp(w)
  <1>1. TypeOK /\ count \in Counts
    BY HandTypes DEF TypeOK
  <1>2. CASE w \in Agents /\ ClaimRead(w)
    <2>1. PICK u \in Owned[w] : task[u].status = "pending"
                                /\ GotoWith(w, "idle", "claim", [NoLocals EXCEPT !.t = u])
      BY <1>2 DEF ClaimRead
    <2>2. u \in Tasks
      BY <1>2, PlaceAssumption
    <2>3. UNCHANGED <<task, booking, segment, job, online, requeued, count>>
      BY <1>2 DEF ClaimRead
    <2> DEFINE l == [NoLocals EXCEPT !.t = u]
    <2>4. l \in Locals /\ l.t = u
      BY <2>2, LocalsFor
    <2>5. GotoWith(w, "idle", "claim", l)
      BY <2>1
    <2> HIDE DEF l
    <2>6. QED BY <1>1, <2>1, <2>2, <2>3, <2>4, <2>5, TakeUp DEF SameRefusals
  <1>3. CASE RetryRead(w, t)
    <2>1. PICK n \in Nat : n = task[t].retries /\ n < MaxRetries /\ task[t].status = "failed"
      BY <1>1, <1>3, TaskFields, TaskNumbers DEF RetryRead, TypeOK
    <2> DEFINE l == [NoLocals EXCEPT !.t = t, !.n = n]
    <2>2. l \in Locals /\ l.t = t /\ l.n = n
      BY LocalsRetries
    <2>3. GotoWith(w, "idle", "retry", l)
      BY <1>3, <2>1 DEF RetryRead
    <2>4. UNCHANGED <<task, booking, segment, job, online, requeued, count>>
      BY <1>3 DEF RetryRead
    <2> HIDE DEF l
    <2>5. QED BY <1>1, <2>1, <2>2, <2>3, <2>4, TakeUp DEF SameRefusals
  <1>4. CASE RestoreRead(w, t)
    <2> DEFINE l == [NoLocals EXCEPT !.t = t, !.was = task[t].status]
    <2>1. task[t].status \in Statuses /\ task[t].saved
      BY <1>4, HandTypes DEF RestoreRead
    <2>2. l \in Locals /\ l.t = t
      BY <2>1, LocalsWas
    <2>3. GotoWith(w, "idle", "restore", l)
      BY <1>4 DEF RestoreRead
    <2>4. UNCHANGED <<task, booking, segment, job, online, requeued>>
      BY <1>4 DEF RestoreRead
    <2>5. count' \in Counts /\ SameRefusals
      BY <1>1, <1>4, CountEffect, CountFields DEF RestoreRead, SameRefusals
    <2> HIDE DEF l
    <2>6. QED BY <2>1, <2>2, <2>3, <2>4, <2>5, TakeUp
  <1>5. CASE w = Reaper /\ ReapRead(t)
    <2> DEFINE l == [NoLocals EXCEPT !.t = t, !.was = task[t].status]
    <2>1. task[t].status \in Statuses /\ booking[t] = "live"
      BY <1>5, HandTypes DEF ReapRead
    <2>2. l \in Locals /\ l.t = t
      BY <2>1, LocalsWas
    <2>3. GotoWith(w, "idle", "reap", l)
      BY <1>5 DEF ReapRead
    <2>4. UNCHANGED <<task, booking, segment, job, online, requeued, count>>
      BY <1>5 DEF ReapRead
    <2> HIDE DEF l
    <2>5. QED BY <1>1, <2>1, <2>2, <2>3, <2>4, TakeUp DEF SameRefusals
  <1>6. QED BY <1>2, <1>3, <1>4, <1>5

LEMMA SubmitBookEffect ==
  ASSUME TypeInv, NEW w \in Workers, SubmitBook(w)
  PROVE  /\ TypeInv' /\ StepOf(w) /\ pc[w] = "sub_book" /\ pc'[w] = "sub_task" /\ loc'[w] = loc[w]
         /\ loc[w].t \in Segments /\ booking'[loc[w].t] = "live"
         /\ \A u \in Tasks \ {loc[w].t} : booking'[u] = booking[u]
         /\ UNCHANGED <<task, segment, job, requeued, count>>
  <1>1. TypeOK /\ "sub_task" \in Labels /\ Segments \subseteq Tasks
    BY HandTypes, LabelNames, TaskNumbers
  <1>2. /\ StepOf(w) /\ pc[w] = "sub_book" /\ pc'[w] = "sub_task" /\ loc'[w] = loc[w]
        /\ pc' \in [Workers -> Labels] /\ loc' \in [Workers -> Locals]
    BY <1>1, GotoMoves DEF SubmitBook
  <1>3. loc[w].t \in Segments
    BY <1>2, HandTypes DEF SubLabels
  <1>4. PICK t \in Tasks : t = loc[w].t
    BY <1>1, <1>3
  <1>5. /\ booking' \in [Tasks -> {"none", "live", "released", "refunded"}]
        /\ booking'[t] = "live" /\ \A u \in Tasks \ {t} : booking'[u] = booking[u]
    BY <1>1, <1>4, BookEffect DEF SubmitBook
  <1>6. TypeOK'
    BY <1>1, <1>2, <1>5 DEF TypeOK, SubmitBook
  <1>7. InHand(w)'
    BY <1>1, <1>2, <1>3 DEF InHand
  <1>8. QED BY <1>2, <1>3, <1>4, <1>5, <1>6, <1>7, TypeFrame DEF SubmitBook

(* on to the next segment, or the end of the submission *)
NextMoves(w, todo) ==
  \/ /\ pc'[w] = "sub_book" /\ loc'[w].t = loc[w].t + 1 /\ loc'[w].t \in Segments
     /\ loc'[w].todo = todo
  \/ pc'[w] = "idle" /\ loc[w].t = Parts

LEMMA NextPartEffect ==
  ASSUME TypeInv, NEW w \in Workers, NEW from \in SubLabels, NEW todo \in SUBSET Segments,
         NextPart(w, from, todo)
  PROVE  /\ StepOf(w) /\ pc[w] = from /\ NextMoves(w, todo) /\ InHand(w)'
         /\ pc' \in [Workers -> Labels] /\ loc' \in [Workers -> Locals]
  <1>1. TypeOK /\ pc[w] = from
    BY HandTypes DEF NextPart, GotoWith, Finish
  <1>2. loc[w].t \in Segments /\ Parts \in Nat /\ Segments \subseteq Tasks
    BY <1>1, HandTypes, TaskNumbers
  <1>3. CASE loc[w].t < Parts
    <2>1. PICK t \in Segments : t = loc[w].t + 1
      BY <1>2, <1>3 DEF Segments
    <2> DEFINE l == [NoLocals EXCEPT !.t = t, !.todo = todo]
    <2>2. t \in Tasks /\ l \in Locals /\ l.t = t /\ l.todo = todo
      BY <1>2, LocalsTodo
    <2>3. GotoWith(w, from, "sub_book", l)
      BY <1>3, <2>1 DEF NextPart
    <2> HIDE DEF l
    <2>4. /\ StepOf(w) /\ pc'[w] = "sub_book" /\ loc'[w] = l
          /\ pc' \in [Workers -> Labels] /\ loc' \in [Workers -> Locals]
      BY <1>1, <2>2, <2>3, GotoWithMoves, LabelNames
    <2>5. QED BY <1>1, <2>1, <2>2, <2>4 DEF NextMoves, InHand
  <1>4. CASE ~(loc[w].t < Parts)
    <2>1. loc[w].t = Parts
      BY <1>2, <1>4 DEF Segments
    <2>2. /\ StepOf(w) /\ pc'[w] = "idle"
          /\ pc' \in [Workers -> Labels] /\ loc' \in [Workers -> Locals]
      BY <1>1, <1>4, FinishMoves DEF NextPart
    <2>3. QED BY <1>1, <2>1, <2>2 DEF NextMoves, InHand, SubLabels
  <1>5. QED BY <1>3, <1>4

LEMMA SubmitRefusedEffect ==
  ASSUME TypeInv, NEW w \in Workers, SubmitRefused(w)
  PROVE  /\ TypeInv' /\ StepOf(w) /\ pc[w] = "sub_book"
         /\ \/ job.kind = "fanout" /\ NextMoves(w, loc[w].todo)
            \/ job.kind = "distributed" /\ pc'[w] = "sub_unwind" /\ loc'[w] = loc[w]
         /\ count'.refusals = count.refusals + 1 /\ count'.crashes = count.crashes
         /\ UNCHANGED <<task, booking, segment, job, requeued>>
  <1>1. /\ TypeOK /\ loc[w].todo \in SUBSET Segments
        /\ count' \in Counts /\ count'.refusals = count.refusals + 1
        /\ count'.crashes = count.crashes
    BY HandTypes, CountEffect, CountFields DEF SubmitRefused, Refused
  <1>2. CASE job.kind = "fanout" /\ NextPart(w, "sub_book", loc[w].todo)
    <2>1. /\ StepOf(w) /\ pc[w] = "sub_book" /\ NextMoves(w, loc[w].todo) /\ InHand(w)'
          /\ pc' \in [Workers -> Labels] /\ loc' \in [Workers -> Locals]
      BY <1>1, <1>2, NextPartEffect DEF SubLabels
    <2>2. TypeOK'
      BY <1>1, <2>1 DEF TypeOK, SubmitRefused
    <2>3. QED BY <1>1, <1>2, <2>1, <2>2, TypeFrame DEF SubmitRefused
  <1>3. CASE job.kind = "distributed" /\ Goto(w, "sub_book", "sub_unwind")
    <2>1. /\ StepOf(w) /\ pc[w] = "sub_book" /\ pc'[w] = "sub_unwind" /\ loc'[w] = loc[w]
          /\ pc' \in [Workers -> Labels] /\ loc' \in [Workers -> Locals]
      BY <1>1, <1>3, GotoMoves, LabelNames
    <2>2. TypeOK'
      BY <1>1, <2>1 DEF TypeOK, SubmitRefused
    <2>3. InHand(w)'
      BY <2>1, HandTypes DEF InHand, SubLabels
    <2>4. QED BY <1>1, <1>3, <2>1, <2>2, <2>3, TypeFrame DEF SubmitRefused
  <1>4. QED BY <1>2, <1>3 DEF SubmitRefused

LEMMA SubmitTaskEffect ==
  ASSUME TypeInv, NEW w \in Workers, SubmitTask(w)
  PROVE  /\ TypeInv' /\ StepOf(w) /\ pc[w] = "sub_task" /\ pc'[w] = "sub_seg" /\ loc'[w] = loc[w]
         /\ loc[w].t \in Segments
         /\ task'[loc[w].t].status = "pending" /\ task'[loc[w].t].saved = task[loc[w].t].saved
         /\ \A u \in Tasks \ {loc[w].t} : task'[u] = task[u]
         /\ UNCHANGED <<booking, segment, job, requeued, count>>
  <1>1. /\ TypeOK /\ StepOf(w) /\ pc[w] = "sub_task" /\ pc'[w] = "sub_seg" /\ loc'[w] = loc[w]
        /\ pc' \in [Workers -> Labels] /\ loc' \in [Workers -> Locals]
    BY HandTypes, GotoMoves, LabelNames DEF SubmitTask
  <1>2. PICK t \in Segments : t = loc[w].t
    BY <1>1, HandTypes DEF SubLabels
  <1>3. /\ task' \in [Tasks -> TaskRow] /\ t \in Tasks
        /\ task'[t].status = "pending" /\ task'[t].saved = task[t].saved
        /\ \A u \in Tasks \ {t} : task'[u] = task[u]
    BY <1>1, <1>2, TaskNumbers, SetTaskEffect DEF SubmitTask, NewTask, Statuses, Open
  <1>4. TypeOK'
    BY <1>1, <1>3 DEF TypeOK, SubmitTask
  <1>5. InHand(w)'
    BY <1>1, <1>2, <1>3 DEF InHand
  <1>6. QED BY <1>1, <1>2, <1>3, <1>4, <1>5, TypeFrame DEF SubmitTask

LEMMA SubmitSegmentEffect ==
  ASSUME TypeInv, NEW w \in Workers, SubmitSegment(w)
  PROVE  /\ TypeInv' /\ StepOf(w) /\ pc[w] = "sub_seg" /\ loc[w].t \in Segments
         /\ NextMoves(w, loc[w].todo \cup {loc[w].t})
         /\ segment'[loc[w].t] = "pending"
         /\ \A s \in Segments \ {loc[w].t} : segment'[s] = segment[s]
         /\ UNCHANGED <<task, booking, job, requeued, count>>
  <1>1. TypeOK /\ pc[w] = "sub_seg"
    BY HandTypes DEF SubmitSegment, NextPart, GotoWith, Finish
  <1>2. loc[w].t \in Segments /\ loc[w].todo \cup {loc[w].t} \in SUBSET Segments
    BY <1>1, HandTypes DEF SubLabels
  <1>3. /\ StepOf(w) /\ NextMoves(w, loc[w].todo \cup {loc[w].t}) /\ InHand(w)'
        /\ pc' \in [Workers -> Labels] /\ loc' \in [Workers -> Locals]
    BY <1>2, NextPartEffect DEF SubmitSegment, SubLabels
  <1>4. /\ segment' \in [Segments -> {"none", "pending", "done"}]
        /\ segment'[loc[w].t] = "pending"
        /\ \A s \in Segments \ {loc[w].t} : segment'[s] = segment[s]
    BY <1>1, <1>2 DEF TypeOK, SubmitSegment
  <1>5. TypeOK'
    BY <1>1, <1>3, <1>4 DEF TypeOK, SubmitSegment
  <1>6. QED BY <1>1, <1>2, <1>3, <1>4, <1>5, TypeFrame DEF SubmitSegment

LEMMA SubmitUnwindEffect ==
  ASSUME TypeInv, NEW w \in Workers, SubmitUnwind(w)
  PROVE  /\ TypeInv' /\ StepOf(w) /\ pc[w] = "sub_unwind"
         /\ \/ /\ pc'[w] = "sub_unwind" /\ loc'[w].t = loc[w].t /\ job' = job
               /\ \E t \in loc[w].todo :
                    /\ t \in Tasks /\ loc'[w].todo = loc[w].todo \ {t}
                    /\ booking'[t] = IF booking[t] = "live" THEN "refunded" ELSE booking[t]
                    /\ \A u \in Tasks \ {t} : booking'[u] = booking[u]
            \/ /\ pc'[w] = "idle" /\ loc[w].todo = {} /\ booking' = booking
               /\ job'.status = "failed" /\ job'.kind = job.kind /\ job'.stitch = job.stitch
         /\ UNCHANGED <<task, segment, requeued, count>>
  <1>1. /\ TypeOK /\ loc[w] \in Locals /\ loc[w].todo \subseteq Segments /\ Segments \subseteq Tasks
        /\ pc[w] = "sub_unwind"
    BY HandTypes, TaskNumbers DEF SubmitUnwind, GotoWith, Finish
  <1>2. loc[w].t \in Segments
    BY <1>1, HandTypes DEF SubLabels
  <1>3. ASSUME NEW t \in loc[w].todo, UNCHANGED job, Settle(t, "refunded"),
               GotoWith(w, "sub_unwind", "sub_unwind", [loc[w] EXCEPT !.todo = @ \ {t}])
        PROVE  /\ TypeInv' /\ StepOf(w) /\ pc'[w] = "sub_unwind" /\ loc'[w].t = loc[w].t
               /\ t \in Tasks /\ loc'[w].todo = loc[w].todo \ {t}
               /\ booking'[t] = IF booking[t] = "live" THEN "refunded" ELSE booking[t]
               /\ \A u \in Tasks \ {t} : booking'[u] = booking[u]
    <2> DEFINE l == [loc[w] EXCEPT !.todo = @ \ {t}]
    <2>1. l \in Locals /\ l.t = loc[w].t /\ l.todo = loc[w].todo \ {t}
      <3>1. PICK s \in SUBSET Segments : s = loc[w].todo \ {t}
        BY <1>1
      <3>2. l = [loc[w] EXCEPT !.todo = s]
        BY <3>1
      <3>3. QED BY <1>1, <3>1, <3>2, LocalsChanged
    <2>2. GotoWith(w, "sub_unwind", "sub_unwind", l)
      BY <1>3
    <2> HIDE DEF l
    <2>3. /\ StepOf(w) /\ pc'[w] = "sub_unwind" /\ loc'[w] = l
          /\ pc' \in [Workers -> Labels] /\ loc' \in [Workers -> Locals]
      BY <1>1, <2>1, <2>2, GotoWithMoves, LabelNames
    <2>4. /\ booking' \in [Tasks -> {"none", "live", "released", "refunded"}] /\ t \in Tasks
          /\ booking'[t] = IF booking[t] = "live" THEN "refunded" ELSE booking[t]
          /\ \A u \in Tasks \ {t} : booking'[u] = booking[u]
      BY <1>1, <1>3, SettleEffect
    <2>5. TypeOK'
      BY <1>1, <1>3, <2>3, <2>4 DEF TypeOK, SubmitUnwind
    <2>6. InHand(w)'
      BY <1>1, <1>2, <2>1, <2>3 DEF InHand
    <2>7. QED BY <2>1, <2>3, <2>4, <2>5, <2>6, TypeFrame
  <1>4. ASSUME Finish(w, "sub_unwind"), SetJob("failed"), UNCHANGED booking
        PROVE  /\ TypeInv' /\ StepOf(w) /\ pc'[w] = "idle"
               /\ job'.status = "failed" /\ job'.kind = job.kind /\ job'.stitch = job.stitch
    <2>1. /\ StepOf(w) /\ pc'[w] = "idle"
          /\ pc' \in [Workers -> Labels] /\ loc' \in [Workers -> Locals]
      BY <1>1, <1>4, FinishMoves
    <2>2. /\ job' \in JobRow /\ job'.status = "failed" /\ job'.kind = job.kind
          /\ job'.stitch = job.stitch
      BY <1>1, <1>4, SetJobEffect DEF JobStatuses
    <2>3. TypeOK'
      BY <1>1, <1>4, <2>1, <2>2 DEF TypeOK, SubmitUnwind
    <2>4. InHand(w)'
      BY <2>1 DEF InHand, SubLabels
    <2>5. QED BY <2>1, <2>2, <2>3, <2>4, TypeFrame
  <1>5. UNCHANGED <<task, segment, requeued, count>>
    BY DEF SubmitUnwind
  <1>6. QED BY <1>1, <1>3, <1>4, <1>5 DEF SubmitUnwind

(* a task is queued again, or its row keeps its status: the writes of a     *)
(* retry, a restore and a rescheduling                                      *)
PutsBack(w) ==
  LET t == loc[w].t IN
  /\ StepOf(w) /\ pc[w] \in {"retry", "restore", "reap"} /\ pc'[w] = "idle" /\ t \in Tasks
  /\ task'[t].saved = task[t].saved
  /\ \/ task'[t].status = "pending" /\ t \in requeued' /\ requeued' = requeued \cup {t}
     \/ task'[t].status = task[t].status /\ requeued' = requeued
  /\ pc[w] = "reap" => task[t].saved
  /\ \A u \in Tasks \ {t} : task'[u] = task[u]
  /\ UNCHANGED <<booking, segment, job, count>>

LEMMA PutBack ==
  ASSUME TypeInv, NEW w \in Workers, NEW from, Finish(w, from),
         from \in {"retry", "restore", "reap"}, NEW t \in Tasks, t = loc[w].t,
         from = "reap" => task[t].saved,
         task' \in [Tasks -> TaskRow], \A u \in Tasks \ {t} : task'[u] = task[u],
         task'[t].saved = task[t].saved,
         \/ task'[t].status = "pending" /\ Requeue(t)
         \/ task'[t].status = task[t].status /\ requeued' = requeued,
         UNCHANGED <<booking, segment, job, online, count>>
  PROVE  TypeInv' /\ PutsBack(w)
  <1>1. /\ TypeOK /\ StepOf(w) /\ pc[w] = from /\ pc'[w] = "idle"
        /\ pc' \in [Workers -> Labels] /\ loc' \in [Workers -> Locals]
    BY HandTypes, FinishMoves
  <1>2. requeued' \subseteq Tasks
    BY <1>1 DEF Requeue, TypeOK
  <1>3. TypeOK'
    BY <1>1, <1>2 DEF TypeOK
  <1>4. InHand(w)'
    BY <1>1 DEF InHand, SubLabels
  <1>5. QED BY <1>1, <1>3, <1>4, TypeFrame DEF PutsBack, Requeue

LEMMA PutsBackEffect ==
  ASSUME TypeInv, NEW w \in Workers,
         RetryWrite(w) \/ RestoreWrite(w) \/ (w = Reaper /\ Reschedule)
  PROVE  TypeInv' /\ PutsBack(w)
  <1> USE DEF Statuses, Open
  <1>1. PICK from \in {"retry", "restore", "reap"} : Finish(w, from) /\ pc[w] = from
    BY DEF RetryWrite, RestoreWrite, Reschedule, Finish, GotoWith
  <1>2. TypeOK
    BY HandTypes
  <1>3. PICK t \in Tasks : t = loc[w].t
    BY <1>1, HandTypes
  <1>4. task[t] \in TaskRow /\ task \in [Tasks -> TaskRow]
    BY <1>2 DEF TypeOK
  <1>5. CASE RetryWrite(w)
    <2>1. pc[w] = "retry" /\ from = "retry"
      BY <1>1, <1>5 DEF RetryWrite, Finish, GotoWith
    <2>2. PICK n \in 0 .. MaxRetries : n = loc[w].n + 1
      BY <1>2, <2>1, HandTypes, LocalFields, TaskNumbers
    <2>3. task' = [task EXCEPT ![t].status = "pending", ![t].retries = n]
      BY <1>3, <1>5, <2>2 DEF RetryWrite
    <2>4. /\ task' \in [Tasks -> TaskRow] /\ \A u \in Tasks \ {t} : task'[u] = task[u]
          /\ task'[t].status = "pending" /\ task'[t].saved = task[t].saved
      BY <1>4, <2>3 DEF TaskRow
    <2>5. Requeue(t) /\ UNCHANGED <<booking, segment, job, online, count>>
      BY <1>3, <1>5 DEF RetryWrite
    <2>6. QED BY <1>1, <1>3, <2>1, <2>4, <2>5, PutBack
  <1>6. CASE RestoreWrite(w)
    <2>1. from = "restore" /\ UNCHANGED <<booking, segment, job, online, count>>
      BY <1>1, <1>6 DEF RestoreWrite, Finish, GotoWith
    <2>2. CASE UNCHANGED <<task, requeued>>
      BY <1>1, <1>3, <1>4, <2>1, <2>2, PutBack
    <2>3. CASE SetTask(t, "pending") /\ Requeue(t)
      <3>1. /\ task' \in [Tasks -> TaskRow] /\ \A u \in Tasks \ {t} : task'[u] = task[u]
            /\ task'[t].status = "pending" /\ task'[t].saved = task[t].saved
        BY <1>2, <2>3, SetTaskEffect
      <3>2. QED BY <1>1, <1>3, <2>1, <2>3, <3>1, PutBack
    <2>4. QED BY <1>3, <1>6, <2>2, <2>3 DEF RestoreWrite
  <1>7. CASE w = Reaper /\ Reschedule
    <2>1. /\ from = "reap" /\ UNCHANGED <<booking, segment, job, online, count>>
          /\ task[t].saved
      BY <1>1, <1>3, <1>7 DEF Reschedule, Resumable, Finish, GotoWith
    <2>2. CASE task' = [task EXCEPT ![t].interrupted = TRUE] /\ UNCHANGED requeued
      <3>1. /\ task' \in [Tasks -> TaskRow] /\ \A u \in Tasks \ {t} : task'[u] = task[u]
            /\ task'[t].status = task[t].status /\ task'[t].saved = task[t].saved
        BY <1>4, <2>2 DEF TaskRow
      <3>2. QED BY <1>1, <1>3, <2>1, <2>2, <3>1, PutBack
    <2>3. CASE /\ task' = [task EXCEPT ![t].status = "pending", ![t].interrupted = TRUE]
               /\ Requeue(t)
      <3>1. /\ task' \in [Tasks -> TaskRow] /\ \A u \in Tasks \ {t} : task'[u] = task[u]
            /\ task'[t].status = "pending" /\ task'[t].saved = task[t].saved
        BY <1>4, <2>3 DEF TaskRow
      <3>2. QED BY <1>1, <1>3, <2>1, <2>3, <3>1, PutBack
    <2>4. QED BY <1>3, <1>7, <2>2, <2>3 DEF Reschedule
  <1>8. QED BY <1>5, <1>6, <1>7

LEMMA ClaimEffect ==
  ASSUME TypeInv, NEW w \in Workers, Claim(w)
  PROVE  /\ TypeInv' /\ StepOf(w) /\ pc[w] = "claim" /\ loc[w].t \in Tasks
         /\ \/ /\ pc'[w] = "mark" /\ loc'[w] = loc[w] /\ task[loc[w].t].status = "pending"
               /\ task'[loc[w].t].status = "assigned"
               /\ task'[loc[w].t].saved = task[loc[w].t].saved
               /\ \A u \in Tasks \ {loc[w].t} : task'[u] = task[u]
            \/ pc'[w] = "idle" /\ task' = task
         /\ UNCHANGED <<booking, segment, job, requeued, count>>
  <1>1. TypeOK /\ pc[w] = "claim"
    BY HandTypes DEF Claim
  <1>2. PICK t \in Tasks : t = loc[w].t
    BY <1>1, HandTypes
  <1>3. UNCHANGED <<booking, segment, job, online, requeued, count>>
    BY DEF Claim
  <1>4. CASE task[t].status = "pending" /\ Goto(w, "claim", "mark") /\ SetTask(t, "assigned")
    <2>1. /\ StepOf(w) /\ pc'[w] = "mark" /\ loc'[w] = loc[w]
          /\ pc' \in [Workers -> Labels] /\ loc' \in [Workers -> Locals]
      BY <1>1, <1>4, GotoMoves, LabelNames
    <2>2. /\ task' \in [Tasks -> TaskRow] /\ \A u \in Tasks \ {t} : task'[u] = task[u]
          /\ task'[t].status = "assigned" /\ task'[t].saved = task[t].saved
      BY <1>1, <1>4, SetTaskEffect DEF Statuses, Open
    <2>3. TypeOK'
      BY <1>1, <1>3, <2>1, <2>2 DEF TypeOK
    <2>4. InHand(w)'
      BY <1>2, <2>1 DEF InHand, SubLabels
    <2>5. QED BY <1>1, <1>2, <1>3, <1>4, <2>1, <2>2, <2>3, <2>4, TypeFrame
  <1>5. CASE Finish(w, "claim") /\ UNCHANGED task
    <2>1. /\ StepOf(w) /\ pc'[w] = "idle"
          /\ pc' \in [Workers -> Labels] /\ loc' \in [Workers -> Locals]
      BY <1>1, <1>5, FinishMoves
    <2>2. TypeOK'
      BY <1>1, <1>3, <1>5, <2>1 DEF TypeOK
    <2>3. InHand(w)'
      BY <2>1 DEF InHand, SubLabels
    <2>4. QED BY <1>1, <1>2, <1>3, <1>5, <2>1, <2>2, <2>3, TypeFrame
  <1>6. QED BY <1>2, <1>4, <1>5 DEF Claim

(* a blind write of a task's status by the worker that has it in hand *)
Writes(w, from, to, s) ==
  LET t == loc[w].t IN
  /\ StepOf(w) /\ pc[w] = from /\ pc'[w] = to /\ loc'[w] = loc[w] /\ t \in Tasks
  /\ task'[t].status \in {s, task[t].status} /\ task'[t].saved = task[t].saved
  /\ \A u \in Tasks \ {t} : task'[u] = task[u]
  /\ UNCHANGED <<booking, segment, job, requeued, count>>

LEMMA WritesEffect ==
  ASSUME TypeInv, NEW w \in Workers,
         MarkRunning(w) \/ SubmitCompleted(w) \/ SubmitFailed(w)
  PROVE  /\ TypeInv'
         /\ \/ Writes(w, "mark", "work", "running")
            \/ Writes(w, "submit", "pay", "completed")
            \/ Writes(w, "submit_failed", "fail_read", "failed")
  <1>1. PICK from, to, s :
          /\ Goto(w, from, to) /\ (SetTask(loc[w].t, s) \/ UNCHANGED task)
          /\ UNCHANGED <<booking, segment, job, online, requeued, count>>
          /\ \/ from = "mark" /\ to = "work" /\ s = "running"
             \/ from = "submit" /\ to = "pay" /\ s = "completed"
             \/ from = "submit_failed" /\ to = "fail_read" /\ s = "failed"
    <2>1. CASE MarkRunning(w)
      BY <2>1 DEF MarkRunning
    <2>2. CASE SubmitCompleted(w)
      BY <2>2 DEF SubmitCompleted, SubmitResult
    <2>3. CASE SubmitFailed(w)
      BY <2>3 DEF SubmitFailed, SubmitResult
    <2>4. QED BY <2>1, <2>2, <2>3
  <1>2. /\ TypeOK /\ StepOf(w) /\ pc[w] = from /\ pc'[w] = to /\ loc'[w] = loc[w]
        /\ pc' \in [Workers -> Labels] /\ loc' \in [Workers -> Locals]
    BY <1>1, HandTypes, GotoMoves, LabelNames
  <1>3. PICK t \in Tasks : t = loc[w].t
    BY <1>1, <1>2, HandTypes
  <1>4. s \in Statuses
    BY <1>1 DEF Statuses, Open
  <1>5. /\ task' \in [Tasks -> TaskRow] /\ \A u \in Tasks \ {t} : task'[u] = task[u]
        /\ task'[t].status \in {s, task[t].status} /\ task'[t].saved = task[t].saved
    <2>1. CASE SetTask(t, s)
      BY <1>2, <1>4, <2>1, SetTaskEffect
    <2>2. CASE UNCHANGED task
      BY <1>2, <2>2 DEF TypeOK
    <2>3. QED BY <1>1, <1>3, <2>1, <2>2
  <1>6. TypeOK'
    BY <1>1, <1>2, <1>5 DEF TypeOK
  <1>7. InHand(w)'
    BY <1>1, <1>2, <1>3 DEF InHand, SubLabels
  <1>8. Writes(w, from, to, s)
    BY <1>1, <1>2, <1>3, <1>5 DEF Writes
  <1>9. QED BY <1>1, <1>2, <1>6, <1>7, <1>8, TypeFrame

(* a step of a result's handler, or of its agent, that changes no row *)
ResultMoves ==
  {<<"fail_read", "fail_set">>, <<"advance", "stitched">>, <<"advance", "seg_done">>,
   <<"check", "complete">>, <<"check", "fin_book">>, <<"fail_read", "idle">>,
   <<"advance", "idle">>, <<"check", "idle">>, <<"work", "submit">>, <<"work", "submit_failed">>}

Moves(w) ==
  /\ StepOf(w) /\ <<pc[w], pc'[w]>> \in ResultMoves /\ (pc'[w] # "idle" => loc'[w].t = loc[w].t)
  /\ UNCHANGED <<task, booking, segment, job, requeued>> /\ SameRefusals
  /\ pc[w] = "work" => Instant \/ ~Submitting
  /\ pc'[w] = "stitched" => job.stitch = loc[w].t
  /\ pc'[w] = "seg_done" => loc[w].t \in Segments
  /\ pc'[w] = "complete" => job.status = "running" /\ AllSegmentsDone
  /\ pc'[w] = "fin_book" => job.status = "running" /\ AllSegmentsDone /\ job.kind # "distributed"

LEMMA ReportEffect ==
  ASSUME TypeInv, NEW w \in Workers, ReportCompleted(w) \/ ReportFailed(w)
  PROVE  TypeInv' /\ Moves(w)
  <1>1. PICK to \in {"submit", "submit_failed"} : Report(w, to)
    BY DEF ReportCompleted, ReportFailed
  <1>2. TypeOK /\ pc[w] = "work" /\ count' \in Counts /\ SameRefusals
    BY HandTypes, CountEffect, CountFields
    DEF ReportCompleted, ReportFailed, Report, GotoWith, SameRefusals, TypeOK
  <1>3. loc[w] \in Locals /\ loc[w].t \in Tasks /\ task[loc[w].t].status \in Statuses
    BY <1>2, HandTypes
  <1> DEFINE l == [loc[w] EXCEPT !.was = task[loc[w].t].status]
  <1>4. l \in Locals /\ l.t = loc[w].t
    BY <1>3, LocalsChanged
  <1>5. GotoWith(w, "work", to, l) /\ (Instant \/ ~Submitting)
        /\ UNCHANGED <<task, booking, segment, job, online, requeued>>
    BY <1>1 DEF Report
  <1> HIDE DEF l
  <1>6. /\ StepOf(w) /\ pc'[w] = to /\ loc'[w] = l
        /\ pc' \in [Workers -> Labels] /\ loc' \in [Workers -> Locals]
    BY <1>2, <1>4, <1>5, GotoWithMoves, LabelNames
  <1>7. TypeOK'
    BY <1>2, <1>5, <1>6 DEF TypeOK
  <1>8. InHand(w)'
    BY <1>3, <1>4, <1>6 DEF InHand, SubLabels
  <1>9. <<pc[w], pc'[w]>> \in ResultMoves
    BY <1>2, <1>6 DEF ResultMoves
  <1>10. QED BY <1>2, <1>4, <1>5, <1>6, <1>7, <1>8, <1>9, TypeFrame DEF Moves

LEMMA MoveOn ==
  ASSUME TypeInv, NEW w \in Workers, NEW from, NEW to, <<from, to>> \in ResultMoves, from # "work",
         \/ Goto(w, from, to) /\ to \in Labels /\ to # "idle" /\ to # "stitched"
         \/ Finish(w, from) /\ to = "idle",
         to = "seg_done" => loc[w].t \in Segments,
         to = "complete" => job.status = "running" /\ AllSegmentsDone,
         to = "fin_book" => job.status = "running" /\ AllSegmentsDone /\ job.kind # "distributed",
         UNCHANGED <<task, booking, segment, job, online, requeued, count>>
  PROVE  TypeInv' /\ Moves(w)
  <1>1. /\ TypeOK /\ StepOf(w) /\ pc[w] = from /\ pc'[w] = to /\ (to # "idle" => loc'[w] = loc[w])
        /\ pc' \in [Workers -> Labels] /\ loc' \in [Workers -> Locals]
    BY HandTypes, GotoMoves, FinishMoves
  <1>2. TypeOK'
    BY <1>1 DEF TypeOK
  <1>3. from # "idle" /\ to \notin SubLabels \cup {"fin_task", "fin_set", "retry"}
    BY DEF ResultMoves, SubLabels
  <1>4. InHand(w)'
    BY <1>1, <1>3, HandTypes DEF InHand
  <1>5. to # "stitched"
    OBVIOUS
  <1>6. QED BY <1>1, <1>2, <1>4, <1>5, TypeFrame DEF Moves, SameRefusals

LEMMA FailReadEffect ==
  ASSUME TypeInv, NEW w \in Workers, FailRead(w)
  PROVE  TypeInv' /\ Moves(w)
  <1>1. \/ Goto(w, "fail_read", "fail_set")
        \/ Finish(w, "fail_read")
    BY DEF FailRead
  <1>2. UNCHANGED <<task, booking, segment, job, online, requeued, count>>
    BY DEF FailRead
  <1>3. CASE Goto(w, "fail_read", "fail_set")
    BY <1>2, <1>3, MoveOn, LabelNames DEF ResultMoves
  <1>4. CASE Finish(w, "fail_read")
    BY <1>2, <1>4, MoveOn DEF ResultMoves
  <1>5. QED BY <1>1, <1>3, <1>4

LEMMA AdvanceEffect ==
  ASSUME TypeInv, NEW w \in Workers, Advance(w)
  PROVE  TypeInv' /\ Moves(w)
  <1>1. UNCHANGED <<task, booking, segment, job, online, requeued, count>>
    BY DEF Advance
  <1>2. CASE job.stitch = loc[w].t
             /\ GotoWith(w, "advance", "stitched", [loc[w] EXCEPT !.was = job.status])
    <2> DEFINE l == [loc[w] EXCEPT !.was = job.status]
    <2>1. TypeOK /\ pc[w] = "advance" /\ loc[w] \in Locals /\ loc[w].t \in Tasks
          /\ job.status \in JobStatuses
      BY <1>2, HandTypes DEF GotoWith
    <2>2. l \in Locals /\ l.t = loc[w].t
      BY <2>1, LocalsChanged
    <2>3. GotoWith(w, "advance", "stitched", l)
      BY <1>2
    <2> HIDE DEF l
    <2>4. /\ StepOf(w) /\ pc'[w] = "stitched" /\ loc'[w] = l
          /\ pc' \in [Workers -> Labels] /\ loc' \in [Workers -> Locals]
      BY <2>1, <2>2, <2>3, GotoWithMoves, LabelNames
    <2>5. TypeOK'
      BY <1>1, <2>1, <2>4 DEF TypeOK
    <2>6. InHand(w)'
      BY <2>1, <2>2, <2>4 DEF InHand, SubLabels
    <2>7. <<pc[w], pc'[w]>> \in ResultMoves
      BY <2>1, <2>4 DEF ResultMoves
    <2>8. QED BY <1>1, <1>2, <2>1, <2>2, <2>4, <2>5, <2>6, <2>7, TypeFrame DEF Moves, SameRefusals
  <1>3. CASE HasSegment(loc[w].t) /\ Goto(w, "advance", "seg_done")
    BY <1>1, <1>3, MoveOn, LabelNames DEF ResultMoves, HasSegment
  <1>4. CASE Finish(w, "advance")
    BY <1>1, <1>4, MoveOn DEF ResultMoves
  <1>5. QED BY <1>2, <1>3, <1>4 DEF Advance

LEMMA CheckAllDoneEffect ==
  ASSUME TypeInv, NEW w \in Workers, CheckAllDone(w)
  PROVE  TypeInv' /\ Moves(w)
  <1>1. UNCHANGED <<task, booking, segment, job, online, requeued, count>>
    BY DEF CheckAllDone
  <1>2. CASE job.status = "running" /\ AllSegmentsDone /\ job.kind = "distributed"
    <2>1. Goto(w, "check", "complete")
      BY <1>2 DEF CheckAllDone
    <2>2. QED BY <1>1, <1>2, <2>1, MoveOn, LabelNames DEF ResultMoves
  <1>3. CASE job.status = "running" /\ AllSegmentsDone /\ job.kind # "distributed"
    <2>1. Goto(w, "check", "fin_book")
      BY <1>3 DEF CheckAllDone
    <2>2. QED BY <1>1, <1>3, <2>1, MoveOn, LabelNames DEF ResultMoves
  <1>4. CASE ~(job.status = "running" /\ AllSegmentsDone)
    <2>1. Finish(w, "check")
      BY <1>4 DEF CheckAllDone
    <2>2. QED BY <1>1, <2>1, MoveOn DEF ResultMoves
  <1>5. QED BY <1>2, <1>3, <1>4

LEMMA PayEffect ==
  ASSUME TypeInv, NEW w \in Workers, Pay(w)
  PROVE  /\ TypeInv' /\ StepOf(w) /\ pc[w] = "pay" /\ pc'[w] = "advance" /\ loc'[w] = loc[w]
         /\ loc[w].t \in Tasks
         /\ booking'[loc[w].t] = IF booking[loc[w].t] = "live" THEN "released" ELSE booking[loc[w].t]
         /\ \A u \in Tasks \ {loc[w].t} : booking'[u] = booking[u]
         /\ UNCHANGED <<task, segment, job, requeued, count>>
  <1>1. /\ TypeOK /\ StepOf(w) /\ pc[w] = "pay" /\ pc'[w] = "advance" /\ loc'[w] = loc[w]
        /\ pc' \in [Workers -> Labels] /\ loc' \in [Workers -> Locals]
    BY HandTypes, GotoMoves, LabelNames DEF Pay
  <1>2. PICK t \in Tasks : t = loc[w].t
    BY <1>1, HandTypes
  <1>3. /\ booking' \in [Tasks -> {"none", "live", "released", "refunded"}]
        /\ booking'[t] = IF booking[t] = "live" THEN "released" ELSE booking[t]
        /\ \A u \in Tasks \ {t} : booking'[u] = booking[u]
    BY <1>1, <1>2, SettleEffect DEF Pay
  <1>4. TypeOK'
    BY <1>1, <1>3 DEF TypeOK, Pay
  <1>5. InHand(w)'
    BY <1>1, <1>2 DEF InHand, SubLabels
  <1>6. QED BY <1>1, <1>2, <1>3, <1>4, <1>5, TypeFrame DEF Pay

(* the last step of a handler that writes the job's status *)
EndsJob(w) ==
  /\ StepOf(w) /\ pc[w] \in {"fail_set", "stitched", "complete", "fin_book"} /\ pc'[w] = "idle"
  /\ job'.kind = job.kind /\ job'.stitch = job.stitch
  /\ job'.status \in CASE pc[w] = "fail_set" -> {"failed"}
                       [] pc[w] = "stitched" -> {job.status, "complete"}
                       [] pc[w] = "complete" -> {"complete"}
                       [] OTHER -> {"assembling"}
  /\ count'.refusals = IF pc[w] = "fin_book" THEN count.refusals + 1 ELSE count.refusals
  /\ count'.crashes = count.crashes
  /\ UNCHANGED <<task, booking, segment, requeued>>

LEMMA EndsJobEffect ==
  ASSUME TypeInv, NEW w \in Workers,
         FailSet(w) \/ Stitched(w) \/ CompleteCluster(w) \/ FinalizeRefused(w)
  PROVE  TypeInv' /\ EndsJob(w)
  <1>1. PICK from \in {"fail_set", "stitched", "complete", "fin_book"} : Finish(w, from)
    BY DEF FailSet, Stitched, CompleteCluster, FinalizeRefused
  <1>2. /\ TypeOK /\ StepOf(w) /\ pc[w] = from /\ pc'[w] = "idle"
        /\ pc' \in [Workers -> Labels] /\ loc' \in [Workers -> Locals]
    BY <1>1, HandTypes, FinishMoves
  <1>3. /\ \/ from = "fail_set" /\ SetJob("failed")
           \/ from = "stitched" /\ (SetJob("complete") \/ UNCHANGED job)
           \/ from = "complete" /\ SetJob("complete")
           \/ from = "fin_book" /\ SetJob("assembling")
        /\ (from = "fin_book" /\ Refused) \/ (from # "fin_book" /\ UNCHANGED count)
        /\ UNCHANGED <<task, booking, segment, online, requeued>>
    BY <1>2 DEF FailSet, Stitched, CompleteCluster, FinalizeRefused, Finish, GotoWith
  <1>4. /\ job' \in JobRow /\ job'.kind = job.kind /\ job'.stitch = job.stitch
        /\ job'.status \in CASE from = "fail_set" -> {"failed"}
                             [] from = "stitched" -> {job.status, "complete"}
                             [] from = "complete" -> {"complete"}
                             [] OTHER -> {"assembling"}
    <2>1. CASE UNCHANGED job /\ from = "stitched"
      BY <1>2, <2>1 DEF TypeOK
    <2>2. CASE from = "fail_set" /\ SetJob("failed")
      BY <1>2, <2>2, SetJobEffect DEF JobStatuses
    <2>3. CASE from \in {"stitched", "complete"} /\ SetJob("complete")
      BY <1>2, <2>3, SetJobEffect DEF JobStatuses
    <2>4. CASE from = "fin_book" /\ SetJob("assembling")
      BY <1>2, <2>4, SetJobEffect DEF JobStatuses
    <2>5. QED BY <1>3, <2>1, <2>2, <2>3, <2>4
  <1>5. /\ count' \in Counts /\ count'.crashes = count.crashes
        /\ count'.refusals = IF from = "fin_book" THEN count.refusals + 1 ELSE count.refusals
    <2>1. CASE from = "fin_book" /\ Refused
      BY <1>2, <2>1, CountEffect, CountFields DEF Refused
    <2>2. CASE from # "fin_book" /\ UNCHANGED count
      BY <1>2, <2>2 DEF TypeOK
    <2>3. QED BY <1>3, <2>1, <2>2
  <1>6. TypeOK'
    BY <1>2, <1>3, <1>4, <1>5 DEF TypeOK
  <1>7. InHand(w)'
    BY <1>2 DEF InHand, SubLabels
  <1>8. QED BY <1>2, <1>3, <1>4, <1>5, <1>6, <1>7, TypeFrame DEF EndsJob

LEMMA CompleteSegmentEffect ==
  ASSUME TypeInv, NEW w \in Workers, CompleteSegment(w)
  PROVE  /\ TypeInv' /\ StepOf(w) /\ pc[w] = "seg_done" /\ pc'[w] = "check" /\ loc'[w] = loc[w]
         /\ loc[w].t \in Segments /\ segment'[loc[w].t] = "done"
         /\ \A s \in Segments \ {loc[w].t} : segment'[s] = segment[s]
         /\ UNCHANGED <<task, booking, job, requeued, count>>
  <1>1. /\ TypeOK /\ StepOf(w) /\ pc[w] = "seg_done" /\ pc'[w] = "check" /\ loc'[w] = loc[w]
        /\ pc' \in [Workers -> Labels] /\ loc' \in [Workers -> Locals]
    BY HandTypes, GotoMoves, LabelNames DEF CompleteSegment
  <1>2. loc[w].t \in Segments /\ Segments \subseteq Tasks
    BY <1>1, HandTypes, TaskNumbers
  <1>3. /\ segment' \in [Segments -> {"none", "pending", "done"}]
        /\ segment'[loc[w].t] = "done"
        /\ \A s \in Segments \ {loc[w].t} : segment'[s] = segment[s]
    BY <1>1, <1>2 DEF TypeOK, CompleteSegment
  <1>4. TypeOK'
    BY <1>1, <1>3 DEF TypeOK, CompleteSegment
  <1>5. InHand(w)'
    BY <1>1, <1>2 DEF InHand, SubLabels
  <1>6. QED BY <1>1, <1>2, <1>3, <1>4, <1>5, TypeFrame DEF CompleteSegment

LEMMA FinalizeBookEffect ==
  ASSUME TypeInv, NEW w \in Workers, FinalizeBook(w)
  PROVE  /\ TypeInv' /\ StepOf(w) /\ pc[w] = "fin_book" /\ pc'[w] = "fin_task"
         /\ loc'[w].t = loc[w].t /\ loc'[w].n \in Tasks \ Segments
         /\ booking[loc'[w].n] = "none" /\ booking'[loc'[w].n] = "live"
         /\ \A u \in Tasks : u # loc'[w].n => booking'[u] = booking[u]
         /\ UNCHANGED <<task, segment, job, requeued, count>>
  <1>1. PICK t \in Unused :
          /\ GotoWith(w, "fin_book", "fin_task", [loc[w] EXCEPT !.n = t])
          /\ booking' = [booking EXCEPT ![t] = "live"]
    BY DEF FinalizeBook
  <1>2. t \in Tasks \ Segments /\ booking[t] = "none" /\ t \in Nat
    BY TaskNumbers DEF Unused
  <1>3. TypeOK /\ pc[w] = "fin_book" /\ loc[w] \in Locals /\ loc[w].t \in Tasks
    BY <1>1, HandTypes DEF GotoWith
  <1> DEFINE l == [loc[w] EXCEPT !.n = t]
  <1>4. l \in Locals /\ l.t = loc[w].t /\ l.n = t
    BY <1>2, <1>3, LocalsChanged
  <1>5. GotoWith(w, "fin_book", "fin_task", l)
    BY <1>1
  <1> HIDE DEF l
  <1>6. /\ StepOf(w) /\ pc'[w] = "fin_task" /\ loc'[w] = l
        /\ pc' \in [Workers -> Labels] /\ loc' \in [Workers -> Locals]
    BY <1>3, <1>4, <1>5, GotoWithMoves, LabelNames
  <1>7. /\ booking' \in [Tasks -> {"none", "live", "released", "refunded"}]
        /\ booking'[t] = "live" /\ \A u \in Tasks \ {t} : booking'[u] = booking[u]
    BY <1>1, <1>2, <1>3, BookEffect
  <1>8. TypeOK'
    BY <1>3, <1>6, <1>7 DEF TypeOK, FinalizeBook
  <1>9. InHand(w)'
    BY <1>2, <1>3, <1>4, <1>6 DEF InHand, SubLabels
  <1>10. QED BY <1>2, <1>3, <1>4, <1>6, <1>7, <1>8, <1>9, TypeFrame DEF FinalizeBook

LEMMA FinalizeTaskEffect ==
  ASSUME TypeInv, NEW w \in Workers, FinalizeTask(w)
  PROVE  /\ TypeInv' /\ StepOf(w) /\ pc[w] = "fin_task" /\ pc'[w] = "fin_set" /\ loc'[w] = loc[w]
         /\ loc[w].n \in Tasks \ Segments
         /\ task'[loc[w].n].status = "pending" /\ task'[loc[w].n].saved = task[loc[w].n].saved
         /\ \A u \in Tasks \ {loc[w].n} : task'[u] = task[u]
         /\ UNCHANGED <<booking, segment, job, requeued, count>>
  <1>1. /\ TypeOK /\ StepOf(w) /\ pc[w] = "fin_task" /\ pc'[w] = "fin_set" /\ loc'[w] = loc[w]
        /\ pc' \in [Workers -> Labels] /\ loc' \in [Workers -> Locals]
    BY HandTypes, GotoMoves, LabelNames DEF FinalizeTask
  <1>2. PICK t \in Tasks \ Segments : t = loc[w].n
    BY <1>1, HandTypes
  <1>3. /\ task' \in [Tasks -> TaskRow]
        /\ task'[t].status = "pending" /\ task'[t].saved = task[t].saved
        /\ \A u \in Tasks \ {t} : task'[u] = task[u]
    BY <1>1, <1>2, SetTaskEffect DEF FinalizeTask, NewTask, Statuses, Open
  <1>4. TypeOK'
    BY <1>1, <1>3 DEF TypeOK, FinalizeTask
  <1>5. InHand(w)'
    BY <1>1, <1>2, HandTypes DEF InHand, SubLabels
  <1>6. QED BY <1>1, <1>2, <1>3, <1>4, <1>5, TypeFrame DEF FinalizeTask

LEMMA FinalizeSetEffect ==
  ASSUME TypeInv, NEW w \in Workers, FinalizeSet(w)
  PROVE  /\ TypeInv' /\ StepOf(w) /\ pc[w] = "fin_set" /\ pc'[w] = "idle"
         /\ loc[w].n \in Tasks \ Segments
         /\ job'.status = "assembling" /\ job'.kind = job.kind /\ job'.stitch = loc[w].n
         /\ UNCHANGED <<task, booking, segment, requeued, count>>
  <1>1. /\ TypeOK /\ StepOf(w) /\ pc[w] = "fin_set" /\ pc'[w] = "idle"
        /\ pc' \in [Workers -> Labels] /\ loc' \in [Workers -> Locals]
    BY HandTypes, FinishMoves DEF FinalizeSet
  <1>2. loc[w].n \in Tasks \ Segments
    BY <1>1, HandTypes
  <1>3. /\ job' \in JobRow /\ job'.status = "assembling" /\ job'.kind = job.kind
        /\ job'.stitch = loc[w].n
    BY <1>1, <1>2 DEF FinalizeSet, TypeOK, JobRow
  <1>4. TypeOK'
    BY <1>1, <1>3 DEF TypeOK, FinalizeSet
  <1>5. InHand(w)'
    BY <1>1 DEF InHand, SubLabels
  <1>6. QED BY <1>1, <1>2, <1>3, <1>4, <1>5, TypeFrame DEF FinalizeSet

LEMMA CheckpointEffect ==
  ASSUME TypeInv, NEW w \in Workers, Checkpoint(w)
  PROVE  /\ TypeInv' /\ pc[w] = "work" /\ loc[w].t \in Tasks
         /\ task'[loc[w].t].status = task[loc[w].t].status
         /\ \A u \in Tasks \ {loc[w].t} : task'[u] = task[u]
         /\ UNCHANGED <<booking, segment, job, requeued, count, pc, loc>>
  <1>1. TypeOK /\ pc[w] = "work"
    BY HandTypes DEF Checkpoint
  <1>2. PICK t \in Tasks : t = loc[w].t
    BY <1>1, HandTypes
  <1>3. /\ task' \in [Tasks -> TaskRow] /\ task'[t].status = task[t].status
        /\ \A u \in Tasks \ {t} : task'[u] = task[u]
    BY <1>1, <1>2 DEF Checkpoint, TypeOK, TaskRow
  <1>4. TypeOK'
    BY <1>1, <1>3 DEF TypeOK, Checkpoint
  <1>5. StepOf(w) /\ InHand(w)'
    BY DEF StepOf, Checkpoint, TypeInv, InHand
  <1>6. QED BY <1>1, <1>2, <1>3, <1>4, <1>5, TypeFrame DEF Checkpoint

LEMMA RefundEffect ==
  ASSUME TypeInv, NEW w \in Workers, w = Reaper, Refund
  PROVE  /\ TypeInv' /\ StepOf(w) /\ pc[w] = "reap" /\ loc[w].t \in Tasks
         /\ (pc'[w] = "refund_fail" /\ loc'[w] = loc[w]) \/ pc'[w] = "idle"
         /\ booking'[loc[w].t] = IF booking[loc[w].t] = "live" THEN "refunded" ELSE booking[loc[w].t]
         /\ \A u \in Tasks \ {loc[w].t} : booking'[u] = booking[u]
         /\ UNCHANGED <<task, segment, job, requeued, count>>
  <1>1. TypeOK /\ w \in Workers /\ pc[w] = "reap"
    BY HandTypes, WorkerRoles DEF Refund
  <1>2. PICK t \in Tasks : t = loc[w].t
    BY <1>1, HandTypes
  <1>3. /\ booking' \in [Tasks -> {"none", "live", "released", "refunded"}]
        /\ booking'[t] = IF booking[t] = "live" THEN "refunded" ELSE booking[t]
        /\ \A u \in Tasks \ {t} : booking'[u] = booking[u]
    BY <1>1, <1>2, SettleEffect DEF Refund
  <1>4. Goto(w, "reap", "refund_fail") \/ Finish(w, "reap")
    BY DEF Refund
  <1>5. /\ StepOf(w) /\ ((pc'[w] = "refund_fail" /\ loc'[w] = loc[w]) \/ pc'[w] = "idle")
        /\ pc' \in [Workers -> Labels] /\ loc' \in [Workers -> Locals]
    <2>1. CASE Goto(w, "reap", "refund_fail")
      BY <1>1, <2>1, GotoMoves, LabelNames
    <2>2. CASE Finish(w, "reap")
      BY <1>1, <2>2, FinishMoves
    <2>3. QED BY <1>4, <2>1, <2>2
  <1>6. TypeOK'
    BY <1>1, <1>3, <1>5 DEF TypeOK, Refund
  <1>7. InHand(w)'
    BY <1>2, <1>5 DEF InHand, SubLabels
  <1>8. QED BY <1>1, <1>2, <1>3, <1>5, <1>6, <1>7, TypeFrame DEF Refund

LEMMA RefundFailEffect ==
  ASSUME TypeInv, NEW w \in Workers, w = Reaper, RefundFail
  PROVE  /\ TypeInv' /\ StepOf(w) /\ pc[w] = "refund_fail" /\ pc'[w] = "idle"
         /\ loc[w].t \in Tasks
         /\ \/ task'[loc[w].t].status = task[loc[w].t].status
            \/ task[loc[w].t].status # "none" /\ task'[loc[w].t].status = "failed"
         /\ task'[loc[w].t].saved = task[loc[w].t].saved
         /\ \A u \in Tasks \ {loc[w].t} : task'[u] = task[u]
         /\ UNCHANGED <<booking, segment, job, requeued, count>>
  <1>1. /\ TypeOK /\ w \in Workers /\ StepOf(w) /\ pc[w] = "refund_fail" /\ pc'[w] = "idle"
        /\ pc' \in [Workers -> Labels] /\ loc' \in [Workers -> Locals]
    BY HandTypes, WorkerRoles, FinishMoves DEF RefundFail
  <1>2. PICK t \in Tasks : t = loc[w].t
    BY <1>1, HandTypes
  <1>3. /\ task' \in [Tasks -> TaskRow] /\ task'[t].saved = task[t].saved
        /\ \/ task'[t].status = task[t].status
           \/ task[t].status # "none" /\ task'[t].status = "failed"
        /\ \A u \in Tasks \ {t} : task'[u] = task[u]
    <2>1. CASE task[t].status \in Open /\ SetTask(t, "failed")
      BY <1>1, <2>1, SetTaskEffect DEF Statuses, Open
    <2>2. CASE UNCHANGED task
      BY <1>1, <2>2 DEF TypeOK
    <2>3. QED BY <1>2, <2>1, <2>2 DEF RefundFail
  <1>4. TypeOK'
    BY <1>1, <1>3 DEF TypeOK, RefundFail
  <1>5. InHand(w)'
    BY <1>1 DEF InHand, SubLabels
  <1>6. QED BY <1>1, <1>2, <1>3, <1>4, <1>5, TypeFrame DEF RefundFail

LEMMA CrashEffect ==
  ASSUME TypeInv, NEW w \in Workers, Crash(w)
  PROVE  /\ TypeInv' /\ StepOf(w) /\ pc[w] # "idle" /\ pc'[w] = "idle" /\ MaxCrashes # 0
         /\ count'.refusals = count.refusals /\ count'.crashes = count.crashes + 1
         /\ UNCHANGED <<task, booking, segment, job, requeued>>
  <1>1. /\ TypeOK /\ StepOf(w) /\ pc[w] # "idle" /\ pc'[w] = "idle"
        /\ pc' \in [Workers -> Labels] /\ loc' \in [Workers -> Locals]
    BY HandTypes, FinishMoves DEF Crash
  <1>2. /\ count' \in Counts /\ count'.refusals = count.refusals
        /\ count'.crashes = count.crashes + 1 /\ MaxCrashes # 0
    <2>1. count.crashes \in Nat /\ count.crashes < MaxCrashes
      BY <1>1, CountFields DEF Crash
    <2>2. MaxCrashes # 0
      BY <2>1
    <2>3. QED BY <1>1, <2>2, CountEffect, CountFields DEF Crash
  <1>3. TypeOK'
    BY <1>1, <1>2 DEF TypeOK, Crash
  <1>4. InHand(w)'
    BY <1>1 DEF InHand, SubLabels
  <1>5. QED BY <1>1, <1>2, <1>3, <1>4, TypeFrame DEF Crash

(* a step of no worker: a heartbeat, a silence, a buyer who accepts *)
Outside ==
  /\ UNCHANGED <<task, segment, job, requeued, pc, loc>> /\ SameRefusals
  /\ \A t \in Tasks : booking'[t] = booking[t]
                      \/ (booking[t] = "live" /\ booking'[t] = "released")

LEMMA StutterOutside ==
  ASSUME TypeInv, UNCHANGED vars
  PROVE  TypeInv' /\ Outside
  BY DEF vars, TypeInv, TypeOK, InHand, Outside, SameRefusals

LEMMA OutsideEffect ==
  ASSUME TypeInv,
         \/ \E h \in Hosts : GoSilent(h) \/ Heartbeat(h)
         \/ \E t \in Tasks : Accept(t)
  PROVE  TypeInv' /\ Outside
  <1>1. TypeOK /\ UNCHANGED <<task, segment, job, requeued, pc, loc>>
    BY HandTypes, WorkerRoles DEF GoSilent, Heartbeat, Accept
  <1>2. ASSUME TypeOK' PROVE TypeInv'
    BY <1>1, <1>2 DEF TypeInv, InHand
  <1>3. ASSUME NEW h \in Hosts, GoSilent(h) \/ Heartbeat(h) PROVE TypeInv' /\ Outside
    <2>1. online' \in [Hosts -> BOOLEAN] /\ booking' = booking
      BY <1>1, <1>3 DEF GoSilent, Heartbeat, TypeOK
    <2>2. count' \in Counts /\ SameRefusals
      <3>1. CASE GoSilent(h)
        BY <1>1, <3>1, CountEffect, CountFields DEF GoSilent, SameRefusals
      <3>2. CASE Heartbeat(h)
        BY <1>1, <3>2 DEF Heartbeat, SameRefusals, TypeOK
      <3>3. QED BY <1>3, <3>1, <3>2
    <2>3. TypeOK'
      BY <1>1, <2>1, <2>2 DEF TypeOK
    <2>4. QED BY <1>1, <1>2, <2>1, <2>2, <2>3 DEF Outside
  <1>4. ASSUME NEW t \in Tasks, Accept(t) PROVE TypeInv' /\ Outside
    <2>1. /\ booking' \in [Tasks -> {"none", "live", "released", "refunded"}]
          /\ \A u \in Tasks : booking'[u] = booking[u]
                              \/ (booking[u] = "live" /\ booking'[u] = "released")
      BY <1>1, <1>4, SettleEffect DEF Accept
    <2>2. UNCHANGED <<online, count>>
      BY <1>4 DEF Accept
    <2>3. TypeOK'
      BY <1>1, <2>1, <2>2 DEF TypeOK
    <2>4. QED BY <1>1, <1>2, <2>1, <2>2, <2>3 DEF Outside, SameRefusals
  <1>5. QED BY <1>3, <1>4

WritesStatus(w) == \/ Writes(w, "mark", "work", "running")
                   \/ Writes(w, "submit", "pay", "completed")
                   \/ Writes(w, "submit_failed", "fail_read", "failed")

(* what a worker does in one step *)
Acts(w) ==
  \/ Submit(w) \/ SubmitBook(w) \/ SubmitRefused(w) \/ SubmitTask(w) \/ SubmitSegment(w)
  \/ SubmitUnwind(w) \/ TakesUp(w) \/ PutsBack(w) \/ Claim(w) \/ WritesStatus(w)
  \/ Checkpoint(w) \/ Moves(w) \/ Pay(w) \/ EndsJob(w) \/ CompleteSegment(w)
  \/ FinalizeBook(w) \/ FinalizeTask(w) \/ FinalizeSet(w)
  \/ (w = Reaper /\ Refund) \/ (w = Reaper /\ RefundFail) \/ Crash(w)

LEMMA NextActs ==
  ASSUME TypeInv, [Next]_vars
  PROVE  TypeInv' /\ (Outside \/ \E w \in Workers : Acts(w))
  <1>1. CASE UNCHANGED vars
    BY <1>1, StutterOutside
  <1>2. ASSUME NEW w \in Buyers, BuyerArrive(w) \/ BuyerStep(w)
        PROVE  TypeInv' /\ Acts(w)
    <2>1. w \in Workers
      BY WorkerRoles
    <2>2. CASE Submit(w)
      BY <2>1, <2>2, SubmitEffect DEF Acts
    <2>3. ASSUME NEW t \in Tasks, RetryRead(w, t) \/ RestoreRead(w, t)
          PROVE  TypeInv' /\ Acts(w)
      BY <2>1, <2>3, TakesUpEffect DEF Acts
    <2>4. CASE RetryWrite(w) \/ RestoreWrite(w)
      BY <2>1, <2>4, PutsBackEffect DEF Acts
    <2>5. CASE SubmitStep(w)
      BY <2>1, <2>5, SubmitBookEffect, SubmitRefusedEffect, SubmitTaskEffect,
         SubmitSegmentEffect, SubmitUnwindEffect DEF SubmitStep, Acts
    <2>6. QED BY <1>2, <2>2, <2>3, <2>4, <2>5 DEF BuyerArrive, BuyerStep
  <1>3. ASSUME NEW w \in Agents, AgentStep(w) \/ Checkpoint(w)
        PROVE  TypeInv' /\ Acts(w)
    <2>1. w \in Workers
      BY WorkerRoles
    <2>2. CASE ClaimRead(w)
      <3>1. 1 \in Tasks
        BY TaskNumbers
      <3>2. QED BY <2>1, <2>2, <3>1, TakesUpEffect DEF Acts
    <2>3. CASE Claim(w) \/ Checkpoint(w)
      BY <2>1, <2>3, ClaimEffect, CheckpointEffect DEF Acts
    <2>4. CASE MarkRunning(w) \/ SubmitCompleted(w) \/ SubmitFailed(w)
      BY <2>1, <2>4, WritesEffect DEF Acts, WritesStatus
    <2>5. CASE ReportCompleted(w) \/ ReportFailed(w)
      BY <2>1, <2>5, ReportEffect DEF Acts
    <2>6. CASE FailRead(w) \/ Advance(w) \/ CheckAllDone(w)
      BY <2>1, <2>6, FailReadEffect, AdvanceEffect, CheckAllDoneEffect DEF Acts
    <2>7. CASE FailSet(w) \/ Stitched(w) \/ CompleteCluster(w) \/ FinalizeRefused(w)
      BY <2>1, <2>7, EndsJobEffect DEF Acts
    <2>8. CASE Pay(w) \/ CompleteSegment(w)
      BY <2>1, <2>8, PayEffect, CompleteSegmentEffect DEF Acts
    <2>9. CASE FinalizeBook(w) \/ FinalizeTask(w) \/ FinalizeSet(w)
      BY <2>1, <2>9, FinalizeBookEffect, FinalizeTaskEffect, FinalizeSetEffect DEF Acts
    <2>10. QED BY <1>3, <2>2, <2>3, <2>4, <2>5, <2>6, <2>7, <2>8, <2>9 DEF AgentStep, ResultStep
  <1>4. CASE ReaperStep
    <2>1. Reaper \in Workers
      BY WorkerRoles
    <2>2. ASSUME NEW t \in Tasks, ReapRead(t) PROVE TypeInv' /\ Acts(Reaper)
      BY <2>1, <2>2, TakesUpEffect DEF Acts
    <2>3. CASE Reschedule
      BY <2>1, <2>3, PutsBackEffect DEF Acts
    <2>4. CASE Refund
      BY <2>1, <2>4, RefundEffect DEF Acts
    <2>5. CASE RefundFail
      BY <2>1, <2>5, RefundFailEffect DEF Acts
    <2>6. QED BY <1>4, <2>1, <2>2, <2>3, <2>4, <2>5 DEF ReaperStep
  <1>5. CASE (\E h \in Hosts : GoSilent(h) \/ Heartbeat(h)) \/ (\E t \in Tasks : Accept(t))
    BY <1>5, OutsideEffect
  <1>6. ASSUME NEW w \in Workers, Crash(w) PROVE TypeInv' /\ Acts(w)
    BY <1>6, CrashEffect DEF Acts
  <1>7. QED BY <1>1, <1>2, <1>3, <1>4, <1>5, <1>6, WorkerRoles DEF Next

-----------------------------------------------------------------------------
(* Types *)

LEMMA TypeInit ==
  ASSUME Init
  PROVE  TypeInv
  <1>1. /\ pc \in [Workers -> Labels] /\ loc \in [Workers -> Locals]
        /\ \A w \in Workers : pc[w] = "idle"
    BY NoLocalsType, LabelNames DEF Init
  <1>2. job \in JobRow /\ job.status = "none" /\ job.stitch = 0
    BY SetAssumption DEF Init, JobRow
  <1>3. task \in [Tasks -> TaskRow]
    BY TaskNumbers DEF Init, TaskRow
  <1>4. count \in Counts
    BY DEF Init, Counts
  <1>5. TypeOK
    BY <1>1, <1>2, <1>3, <1>4 DEF Init, TypeOK
  <1>6. QED BY <1>1, <1>5 DEF TypeInv, InHand, SubLabels

(* A busy worker always has a task of the job in hand, and a retry one that *)
(* has retries left: no handler of a task, a result or a segment is left     *)
(* without the row it indexes.                                              *)
THEOREM TypeInvHolds == Spec => []TypeInv
  <1>1. TypeInv /\ [Next]_vars => TypeInv'
    BY NextActs
  <1>2. QED BY TypeInit, <1>1, PTL DEF Spec

(* The tasks, bookings, segments, the job and the workers keep their types; *)
(* in particular retry_task never takes retries above max_retries, although *)
(* it writes what it read before.                                           *)
THEOREM TypeCorrect == Spec => []TypeOK
  <1>1. TypeInv => TypeOK
    BY DEF TypeInv
  <1>2. QED BY TypeInvHolds, <1>1, PTL

-----------------------------------------------------------------------------
(* FreshInv: one submission, one handler for each stitch task, and a row   *)
(* for whatever a worker has in hand.                                       *)

LEMMA FreshInit ==
  ASSUME Init
  PROVE  FreshInv
  <1>1. /\ \A w \in Workers : pc[w] = "idle"
        /\ \A t \in Tasks : booking[t] = "none" /\ task[t].status = "none" /\ ~task[t].saved
    BY DEF Init
  <1>2. QED
    BY <1>1 DEF FreshInv, OneSubmitter, OneMaker, RowsOK, FreshOK, Submitter, SubLabels,
       TaskLabels, ResultLabels

SameRows ==
  /\ \A t \in Tasks : /\ (booking'[t] = "none") <=> (booking[t] = "none")
                      /\ (task'[t].status = "none") <=> (task[t].status = "none")
                      /\ task'[t].saved => task[t].saved \/ task[t].status # "none"
  /\ (job'.status = "none") <=> (job.status = "none")

LEMMA FreshFrame ==
  ASSUME TypeInv, FreshInv, NEW w \in Workers, StepOf(w), SameRows, FreshOK(w)',
         Submitter(w)' => Submitter(w), pc'[w] # "fin_task"
  PROVE  FreshInv'
  <1>1. OneSubmitter'
    BY DEF FreshInv, OneSubmitter, StepOf, Submitter
  <1>2. OneMaker'
    BY DEF FreshInv, OneMaker, StepOf
  <1>3. RowsOK'
    BY DEF FreshInv, RowsOK, SameRows
  <1>4. ASSUME NEW v \in Workers \ {w} PROVE FreshOK(v)'
    <2>1. /\ pc'[v] = pc[v] /\ loc'[v] = loc[v] /\ FreshOK(v)
          /\ (pc[v] # "idle" => loc[v].t \in Tasks) /\ (pc[v] = "fin_task" => loc[v].n \in Tasks)
      BY HandTypes DEF StepOf, FreshInv
    <2>2. Segments \subseteq Tasks
      BY TaskNumbers
    <2>3. "idle" \notin TaskLabels
      BY DEF TaskLabels, ResultLabels
    <2>4. QED BY <2>1, <2>2, <2>3 DEF FreshOK, SameRows
  <1>5. QED BY <1>1, <1>2, <1>3, <1>4 DEF FreshInv

LEMMA FreshSubmit ==
  ASSUME TypeInv, FreshInv, NEW w \in Workers, Submit(w)
  PROVE  FreshInv'
  <1>1. /\ StepOf(w) /\ pc'[w] = "sub_book" /\ loc'[w].t = 1
        /\ job.status = "none" /\ job'.status = "running" /\ UNCHANGED <<task, booking>>
    BY SubmitEffect
  <1>2. \A v \in Workers \ {w} : pc[v] = "idle" /\ pc'[v] = "idle"
    BY <1>1 DEF FreshInv, FreshOK, StepOf
  <1>3. \A t \in Tasks : booking[t] = "none"
    BY <1>1 DEF FreshInv, RowsOK
  <1>4. OneSubmitter' /\ OneMaker'
    BY <1>1, <1>2 DEF OneSubmitter, OneMaker, Submitter, SubLabels
  <1>5. RowsOK'
    BY <1>1 DEF FreshInv, RowsOK
  <1>6. FreshOK(w)'
    BY <1>1, <1>3, TaskNumbers DEF FreshOK, TaskLabels, ResultLabels
  <1>7. \A v \in Workers \ {w} : FreshOK(v)'
    BY <1>2 DEF FreshOK, TaskLabels, ResultLabels
  <1>8. QED BY <1>4, <1>5, <1>6, <1>7 DEF FreshInv

LEMMA FreshSubmitBook ==
  ASSUME TypeInv, FreshInv, NEW w \in Workers, SubmitBook(w)
  PROVE  FreshInv'
  <1>1. /\ StepOf(w) /\ pc[w] = "sub_book" /\ pc'[w] = "sub_task" /\ loc'[w] = loc[w]
        /\ loc[w].t \in Segments /\ booking'[loc[w].t] = "live"
        /\ \A u \in Tasks \ {loc[w].t} : booking'[u] = booking[u]
        /\ UNCHANGED <<task, job>>
    BY SubmitBookEffect
  <1>2. PICK t \in Segments : t = loc[w].t /\ t \in Tasks /\ t \in Nat
    BY <1>1, TaskNumbers
  <1>3. /\ Submitter(w) /\ FreshOK(w) /\ booking[t] = "none" /\ task[t].status = "none"
        /\ job.status # "none"
    BY <1>1, <1>2 DEF FreshInv, FreshOK, RowsOK, Submitter, SubLabels
  <1>4. OneSubmitter' /\ OneMaker'
    BY <1>1, <1>3 DEF FreshInv, OneSubmitter, OneMaker, StepOf, Submitter
  <1>5. RowsOK'
    BY <1>1, <1>2, <1>3 DEF FreshInv, RowsOK
  <1>6. FreshOK(w)'
    <2>1. \A s \in Segments : s > t => s \in Tasks /\ s # t /\ booking[s] = "none"
      BY <1>1, <1>2, <1>3, TaskNumbers DEF FreshOK
    <2>2. QED BY <1>1, <1>2, <1>3, <2>1 DEF FreshOK, TaskLabels, ResultLabels
  <1>7. ASSUME NEW v \in Workers \ {w} PROVE FreshOK(v)'
    <2>1. pc'[v] = pc[v] /\ loc'[v] = loc[v] /\ FreshOK(v) /\ ~Submitter(v)
      BY <1>1, <1>3 DEF FreshInv, OneSubmitter, StepOf
    <2>2. pc[v] = "fin_task" => loc[v].n \in Tasks
      BY HandTypes
    <2>3. QED BY <1>1, <1>2, <2>1, <2>2 DEF FreshOK, Submitter, SubLabels
  <1>8. QED BY <1>4, <1>5, <1>6, <1>7 DEF FreshInv

LEMMA FreshMakeTask ==
  ASSUME TypeInv, FreshInv, NEW w \in Workers, NEW t \in Tasks, StepOf(w), loc'[w] = loc[w],
         \/ pc[w] = "sub_task" /\ pc'[w] = "sub_seg" /\ t = loc[w].t
         \/ pc[w] = "fin_task" /\ pc'[w] = "fin_set" /\ t = loc[w].n,
         task'[t].status = "pending", \A u \in Tasks \ {t} : task'[u] = task[u],
         UNCHANGED <<booking, job>>
  PROVE  FreshInv'
  <1>1. FreshOK(w) /\ job.status # "none" /\ booking[t] # "none" /\ task[t].status = "none"
    BY DEF FreshInv, FreshOK
  <1>2. OneSubmitter' /\ OneMaker'
    BY DEF FreshInv, OneSubmitter, OneMaker, StepOf, Submitter, SubLabels
  <1>3. RowsOK'
    BY <1>1 DEF FreshInv, RowsOK
  <1>4. FreshOK(w)'
    <2>1. CASE pc[w] = "sub_task"
      BY <1>1, <2>1 DEF FreshOK, TaskLabels, ResultLabels
    <2>2. CASE pc[w] = "fin_task"
      <3>1. loc[w].t \in Tasks /\ task[loc[w].t].status # "none"
        BY <1>1, <2>2, HandTypes DEF FreshOK, TaskLabels, ResultLabels
      <3>2. QED BY <1>1, <2>2, <3>1 DEF FreshOK, TaskLabels, ResultLabels
    <2>3. QED BY <2>1, <2>2
  <1>5. ASSUME NEW v \in Workers \ {w} PROVE FreshOK(v)'
    <2>1. /\ pc'[v] = pc[v] /\ loc'[v] = loc[v] /\ FreshOK(v)
          /\ (pc[v] # "idle" => loc[v].t \in Tasks)
          /\ (pc[v] = "fin_task" => loc[v].n \in Tasks \ Segments)
          /\ (pc[v] = "sub_task" => loc[v].t \in Segments)
      BY HandTypes DEF StepOf, FreshInv, SubLabels
    <2>2. /\ (pc[v] = "sub_task" => loc[v].t # t) /\ (pc[v] = "fin_task" => loc[v].n # t)
      <3>1. CASE pc[w] = "sub_task"
        <4>1. t \in Segments /\ pc[v] # "sub_task"
          BY <3>1, HandTypes DEF FreshInv, OneSubmitter, Submitter, SubLabels
        <4>2. QED BY <2>1, <4>1
      <3>2. CASE pc[w] = "fin_task"
        <4>1. t \notin Segments /\ (pc[v] = "fin_task" => loc[v].n # t)
          BY <3>2, HandTypes DEF FreshInv, OneMaker
        <4>2. QED BY <2>1, <4>1
      <3>3. QED BY <3>1, <3>2
    <2>3. "idle" \notin TaskLabels
      BY DEF TaskLabels, ResultLabels
    <2>4. QED BY <2>1, <2>2, <2>3 DEF FreshOK
  <1>6. QED BY <1>2, <1>3, <1>4, <1>5 DEF FreshInv

LEMMA FreshFinalizeBook ==
  ASSUME TypeInv, FreshInv, NEW w \in Workers, FinalizeBook(w)
  PROVE  FreshInv'
  <1>1. /\ StepOf(w) /\ pc[w] = "fin_book" /\ pc'[w] = "fin_task" /\ loc'[w].t = loc[w].t
        /\ UNCHANGED <<task, job>>
    BY FinalizeBookEffect
  <1>2. PICK n \in Tasks \ Segments :
          /\ n = loc'[w].n /\ booking[n] = "none" /\ booking'[n] = "live"
          /\ \A u \in Tasks \ {n} : booking'[u] = booking[u]
    BY FinalizeBookEffect
  <1>3. /\ FreshOK(w) /\ job.status # "none" /\ task[n].status = "none"
        /\ loc[w].t \in Tasks /\ task[loc[w].t].status # "none"
    BY <1>1, <1>2, HandTypes DEF FreshInv, FreshOK, RowsOK, TaskLabels, ResultLabels
  <1>4. OneSubmitter'
    BY <1>1 DEF FreshInv, OneSubmitter, StepOf, Submitter, SubLabels
  <1>5. \A v \in Workers \ {w} :
          /\ pc'[v] = pc[v] /\ loc'[v] = loc[v] /\ FreshOK(v)
          /\ (pc[v] = "fin_task" => loc[v].n \in Tasks /\ booking[loc[v].n] # "none")
    BY <1>1, HandTypes DEF StepOf, FreshInv, FreshOK
  <1>6. OneMaker'
    <2>1. \A v \in Workers \ {w} : pc'[v] = "fin_task" => loc'[v].n # n
      BY <1>2, <1>5
    <2>2. \A u, v \in Workers \ {w} :
            pc'[u] = "fin_task" /\ pc'[v] = "fin_task" /\ loc'[u].n = loc'[v].n => u = v
      BY <1>5 DEF FreshInv, OneMaker
    <2>3. QED BY <1>2, <2>1, <2>2 DEF OneMaker
  <1>7. RowsOK'
    BY <1>1, <1>2, <1>3 DEF FreshInv, RowsOK
  <1>8. FreshOK(w)'
    BY <1>1, <1>2, <1>3 DEF FreshOK
  <1>9. ASSUME NEW v \in Workers \ {w} PROVE FreshOK(v)'
    <2>1. Segments \subseteq Tasks /\ (pc[v] \in SubLabels => loc[v].t \in Segments)
      BY HandTypes, TaskNumbers
    <2>2. \A s \in Segments : booking'[s] = booking[s]
      BY <1>2, <2>1
    <2>3. \A s \in Tasks : booking[s] # "none" => booking'[s] # "none"
      BY <1>2
    <2>4. QED BY <1>1, <1>5, <2>1, <2>2, <2>3 DEF FreshOK, SubLabels
  <1>10. QED BY <1>4, <1>6, <1>7, <1>8, <1>9 DEF FreshInv

(* the next part is not booked yet *)
LEMMA FreshNext ==
  ASSUME TypeInv, FreshInv, NEW w \in Workers, pc[w] \in {"sub_book", "sub_seg"},
         NEW todo, NextMoves(w, todo), UNCHANGED <<task, booking, job>>
  PROVE  FreshOK(w)'
  <1>1. /\ FreshOK(w) /\ job.status # "none" /\ loc[w].t \in Segments /\ loc[w].t \in Nat
        /\ \A s \in Segments : s > loc[w].t => booking[s] = "none"
    BY HandTypes, TaskNumbers DEF FreshInv, FreshOK, SubLabels
  <1>2. CASE pc'[w] = "sub_book" /\ loc'[w].t = loc[w].t + 1 /\ loc'[w].t \in Segments
    <2>1. PICK t \in Segments : t = loc[w].t + 1 /\ t = loc'[w].t
      BY <1>2
    <2>2. booking[t] = "none" /\ \A s \in Segments : s > t => s > loc[w].t
      BY <1>1, <2>1, TaskNumbers
    <2>3. QED BY <1>1, <1>2, <2>1, <2>2 DEF FreshOK, TaskLabels, ResultLabels
  <1>3. CASE pc'[w] = "idle"
    BY <1>3 DEF FreshOK, TaskLabels, ResultLabels
  <1>4. QED BY <1>2, <1>3 DEF NextMoves

(* a row that a worker has in hand does not disappear *)
LEMMA FreshKept ==
  ASSUME TypeInv, FreshInv, NEW w \in Workers, StepOf(w), SameRows,
         pc[w] \in TaskLabels, pc'[w] \in TaskLabels \cup {"idle"}, pc'[w] # "fin_task",
         pc'[w] # "idle" => loc'[w].t = loc[w].t
  PROVE  FreshInv'
  <1>1. /\ pc[w] # "idle" /\ "idle" \notin TaskLabels
        /\ \A l \in TaskLabels : l \notin SubLabels
    BY DEF TaskLabels, ResultLabels, SubLabels
  <1>2. /\ loc[w].t \in Tasks /\ task[loc[w].t].status # "none" /\ job.status # "none"
    BY <1>1, HandTypes DEF FreshInv, FreshOK
  <1>3. job'.status # "none" /\ task'[loc[w].t].status # "none"
    BY <1>2 DEF SameRows
  <1>4. pc'[w] \notin SubLabels /\ pc'[w] # "fin_task"
    BY <1>1 DEF SubLabels
  <1>5. FreshOK(w)' /\ ~Submitter(w)'
    BY <1>1, <1>3, <1>4 DEF FreshOK, Submitter, SubLabels
  <1>6. QED BY <1>4, <1>5, FreshFrame

LEMMA FreshIdle ==
  ASSUME TypeInv, FreshInv, NEW w \in Workers, StepOf(w), SameRows, pc'[w] = "idle"
  PROVE  FreshInv'
  <1>1. FreshOK(w)' /\ ~Submitter(w)'
    BY DEF FreshOK, Submitter, SubLabels, TaskLabels, ResultLabels
  <1>2. QED BY <1>1, FreshFrame

LEMMA FreshStep ==
  ASSUME TypeInv, TypeInv', FreshInv, Outside \/ \E w \in Workers : Acts(w)
  PROVE  FreshInv'
  <1>1. CASE Outside
    <2>1. SameRows /\ UNCHANGED <<pc, loc>>
      BY <1>1 DEF Outside, SameRows
    <2>2. 1 \in Tasks /\ Reaper \in Workers
      BY TaskNumbers, WorkerRoles
    <2>3. StepOf(Reaper) /\ (Submitter(Reaper)' => Submitter(Reaper))
      BY <2>1 DEF StepOf, Submitter
    <2>4. \A w \in Workers : FreshOK(w)'
      <3>1. ASSUME NEW w \in Workers PROVE FreshOK(w)'
        <4>1. /\ FreshOK(w) /\ (pc[w] # "idle" => loc[w].t \in Tasks)
              /\ (pc[w] = "fin_task" => loc[w].n \in Tasks)
          BY HandTypes DEF FreshInv
        <4>2. Segments \subseteq Tasks /\ "idle" \notin TaskLabels
          BY TaskNumbers DEF TaskLabels, ResultLabels
        <4>3. QED BY <2>1, <4>1, <4>2 DEF FreshOK, SameRows
      <3>2. QED BY <3>1
    <2>5. OneSubmitter' /\ OneMaker'
      BY <2>1 DEF FreshInv, OneSubmitter, OneMaker, Submitter
    <2>6. RowsOK'
      BY <2>1 DEF FreshInv, RowsOK, SameRows
    <2>7. QED BY <2>4, <2>5, <2>6 DEF FreshInv
  <1>2. ASSUME NEW w \in Workers, Acts(w)
        PROVE  FreshInv'
    <2>1. CASE Submit(w)
      BY <2>1, FreshSubmit
    <2>2. CASE SubmitBook(w)
      BY <2>2, FreshSubmitBook
    <2>3. CASE SubmitRefused(w)
      <3>1. /\ StepOf(w) /\ pc[w] = "sub_book" /\ Submitter(w)
            /\ \/ NextMoves(w, loc[w].todo)
               \/ pc'[w] = "sub_unwind" /\ loc'[w] = loc[w]
            /\ UNCHANGED <<task, booking, job>>
        BY <2>3, SubmitRefusedEffect DEF Submitter, SubLabels
      <3>2. SameRows /\ pc'[w] # "fin_task"
        BY <3>1 DEF SameRows, NextMoves
      <3>3. FreshOK(w)'
        <4>1. CASE NextMoves(w, loc[w].todo)
          BY <3>1, <4>1, FreshNext
        <4>2. CASE pc'[w] = "sub_unwind" /\ loc'[w] = loc[w]
          BY <3>1, <4>2 DEF FreshInv, FreshOK, TaskLabels, ResultLabels
        <4>3. QED BY <3>1, <4>1, <4>2
      <3>4. QED BY <3>1, <3>2, <3>3, FreshFrame
    <2>4. CASE SubmitTask(w)
      <3>1. PICK t \in Tasks : t = loc[w].t
        BY <2>4, SubmitTaskEffect, TaskNumbers
      <3>2. /\ StepOf(w) /\ pc[w] = "sub_task" /\ pc'[w] = "sub_seg" /\ loc'[w] = loc[w]
            /\ task'[t].status = "pending" /\ \A u \in Tasks \ {t} : task'[u] = task[u]
            /\ UNCHANGED <<booking, job>>
        BY <2>4, <3>1, SubmitTaskEffect
      <3>3. QED BY <3>1, <3>2, FreshMakeTask
    <2>5. CASE SubmitSegment(w)
      <3>1. /\ StepOf(w) /\ pc[w] = "sub_seg" /\ Submitter(w)
            /\ NextMoves(w, loc[w].todo \cup {loc[w].t}) /\ UNCHANGED <<task, booking, job>>
        BY <2>5, SubmitSegmentEffect DEF Submitter, SubLabels
      <3>2. SameRows /\ pc'[w] # "fin_task"
        BY <3>1 DEF SameRows, NextMoves
      <3>3. FreshOK(w)'
        BY <3>1, FreshNext
      <3>4. QED BY <3>1, <3>2, <3>3, FreshFrame
    <2>6. CASE SubmitUnwind(w)
      <3>1. StepOf(w) /\ pc[w] = "sub_unwind" /\ Submitter(w) /\ task' = task
        BY <2>6, SubmitUnwindEffect DEF Submitter, SubLabels
      <3>2. job.status # "none"
        BY <3>1 DEF FreshInv, FreshOK
      <3>3. CASE pc'[w] = "idle" /\ booking' = booking /\ job'.status = "failed"
        <4>1. SameRows
          BY <3>1, <3>2, <3>3 DEF SameRows
        <4>2. QED BY <3>1, <3>3, <4>1, FreshIdle
      <3>4. ASSUME pc'[w] = "sub_unwind", job' = job, NEW t \in Tasks,
                   booking'[t] = IF booking[t] = "live" THEN "refunded" ELSE booking[t],
                   \A u \in Tasks \ {t} : booking'[u] = booking[u]
            PROVE  FreshInv'
        <4>1. SameRows
          <5>1. \A u \in Tasks : (booking'[u] = "none") <=> (booking[u] = "none")
            BY <3>4
          <5>2. QED BY <3>1, <3>4, <5>1 DEF SameRows
        <4>2. FreshOK(w)'
          BY <3>2, <3>4 DEF FreshOK, TaskLabels, ResultLabels
        <4>3. QED BY <3>1, <3>4, <4>1, <4>2, FreshFrame
      <3>5. QED BY <2>6, <3>3, <3>4, SubmitUnwindEffect
    <2>7. CASE TakesUp(w)
      <3>1. StepOf(w) /\ SameRows /\ pc'[w] \in {"claim", "retry", "restore", "reap"}
        BY <2>7 DEF TakesUp, SameRows
      <3>2. PICK t \in Tasks : t = loc'[w].t
        BY <3>1 DEF TypeInv, InHand
      <3>3. /\ pc'[w] \in {"claim", "retry", "restore"} => task[t].status # "none"
            /\ pc'[w] = "reap" => booking[t] = "live"
        BY <2>7, <3>2 DEF TakesUp, FreshInv, RowsOK
      <3>4. job'.status # "none" /\ task' = task
        BY <2>7, <3>1, <3>3 DEF TakesUp, FreshInv, RowsOK
      <3>5. FreshOK(w)' /\ ~Submitter(w)'
        BY <3>1, <3>2, <3>3, <3>4 DEF FreshOK, Submitter, SubLabels, TaskLabels, ResultLabels
      <3>6. QED BY <3>1, <3>5, FreshFrame
    <2>8. CASE PutsBack(w)
      <3>1. PICK t \in Tasks : t = loc[w].t
        BY <2>8 DEF PutsBack
      <3>2. /\ StepOf(w) /\ pc'[w] = "idle" /\ UNCHANGED <<booking, job>>
            /\ task[t].status # "none" /\ task'[t].saved = task[t].saved
            /\ task'[t].status \in {"pending", task[t].status}
            /\ \A u \in Tasks \ {t} : task'[u] = task[u]
        BY <2>8, <3>1 DEF PutsBack, FreshInv, FreshOK, RowsOK, TaskLabels, ResultLabels
      <3>3. SameRows
        BY <3>1, <3>2 DEF SameRows
      <3>4. QED BY <3>2, <3>3, FreshIdle
    <2>9. CASE Claim(w)
      <3>1. PICK t \in Tasks : t = loc[w].t
        BY <2>9, ClaimEffect
      <3>2. /\ StepOf(w) /\ pc[w] = "claim" /\ UNCHANGED <<booking, job>>
            /\ task[t].status # "none"
            /\ \/ /\ pc'[w] = "mark" /\ loc'[w] = loc[w] /\ task'[t].status = "assigned"
                  /\ task'[t].saved = task[t].saved
                  /\ \A u \in Tasks \ {t} : task'[u] = task[u]
               \/ pc'[w] = "idle" /\ task' = task
        BY <2>9, <3>1, ClaimEffect DEF FreshInv, FreshOK, TaskLabels
      <3>3. SameRows
        BY <3>1, <3>2 DEF SameRows
      <3>4. QED BY <3>2, <3>3, FreshKept DEF TaskLabels
    <2>10. CASE WritesStatus(w)
      <3>1. PICK t \in Tasks : t = loc[w].t
        BY <2>10 DEF WritesStatus, Writes
      <3>2. PICK to, s :
            /\ StepOf(w) /\ loc'[w] = loc[w] /\ UNCHANGED <<booking, job>>
            /\ <<pc[w], pc'[w]>> \in {<<"mark", "work">>, <<"submit", "pay">>,
                                      <<"submit_failed", "fail_read">>}
            /\ s # "none" /\ task'[t].status \in {s, task[t].status}
            /\ task'[t].saved = task[t].saved /\ \A u \in Tasks \ {t} : task'[u] = task[u]
        BY <2>10, <3>1 DEF WritesStatus, Writes
      <3>3. pc[w] \in TaskLabels /\ pc'[w] \in TaskLabels /\ pc'[w] # "fin_task"
        BY <3>2 DEF TaskLabels, ResultLabels
      <3>4. task[t].status # "none"
        BY <3>1, <3>3 DEF FreshInv, FreshOK
      <3>5. SameRows
        BY <3>1, <3>2, <3>4 DEF SameRows
      <3>6. QED BY <3>2, <3>3, <3>5, FreshKept
    <2>11. CASE Checkpoint(w)
      <3>1. PICK t \in Tasks : t = loc[w].t
        BY <2>11, CheckpointEffect
      <3>2. /\ pc[w] = "work" /\ task'[t].status = task[t].status
            /\ \A u \in Tasks \ {t} : task'[u] = task[u]
            /\ UNCHANGED <<booking, job, pc, loc>>
        BY <2>11, <3>1, CheckpointEffect
      <3>3. task[t].status # "none"
        BY <3>1, <3>2 DEF FreshInv, FreshOK, TaskLabels
      <3>4. SameRows /\ StepOf(w)
        BY <3>1, <3>2, <3>3 DEF SameRows, StepOf
      <3>5. QED BY <3>2, <3>4, FreshKept DEF TaskLabels
    <2>12. CASE Moves(w)
      <3>1. StepOf(w) /\ SameRows /\ (pc'[w] # "idle" => loc'[w].t = loc[w].t)
        BY <2>12 DEF Moves, SameRows
      <3>2. pc[w] \in TaskLabels /\ pc'[w] \in TaskLabels \cup {"idle"} /\ pc'[w] # "fin_task"
        BY <2>12 DEF Moves, ResultMoves, TaskLabels, ResultLabels
      <3>3. QED BY <3>1, <3>2, FreshKept
    <2>13. CASE Pay(w)
      <3>1. PICK t \in Tasks : t = loc[w].t
        BY <2>13, PayEffect
      <3>2. /\ StepOf(w) /\ pc[w] = "pay" /\ pc'[w] = "advance" /\ loc'[w] = loc[w]
            /\ booking'[t] = IF booking[t] = "live" THEN "released" ELSE booking[t]
            /\ \A u \in Tasks \ {t} : booking'[u] = booking[u]
            /\ UNCHANGED <<task, job>>
        BY <2>13, <3>1, PayEffect
      <3>3. \A u \in Tasks : (booking'[u] = "none") <=> (booking[u] = "none")
        BY <3>2
      <3>4. SameRows
        BY <3>2, <3>3 DEF SameRows
      <3>5. QED BY <3>2, <3>4, FreshKept DEF TaskLabels, ResultLabels
    <2>14. CASE EndsJob(w)
      <3>1. /\ StepOf(w) /\ pc'[w] = "idle" /\ UNCHANGED <<task, booking>>
            /\ job'.status \in {"failed", "complete", "assembling", job.status}
            /\ pc[w] # "idle"
        BY <2>14 DEF EndsJob
      <3>2. job.status # "none"
        BY <3>1 DEF FreshInv, FreshOK
      <3>3. SameRows
        BY <3>1, <3>2 DEF SameRows
      <3>4. QED BY <3>1, <3>3, FreshIdle
    <2>15. CASE CompleteSegment(w)
      <3>1. /\ StepOf(w) /\ pc[w] = "seg_done" /\ pc'[w] = "check" /\ loc'[w] = loc[w]
            /\ UNCHANGED <<task, booking, job>>
        BY <2>15, CompleteSegmentEffect
      <3>2. SameRows
        BY <3>1 DEF SameRows
      <3>3. QED BY <3>1, <3>2, FreshKept DEF TaskLabels, ResultLabels
    <2>16. CASE FinalizeBook(w)
      BY <2>16, FreshFinalizeBook
    <2>17. CASE FinalizeTask(w)
      <3>1. PICK t \in Tasks : t = loc[w].n
        BY <2>17, FinalizeTaskEffect
      <3>2. /\ StepOf(w) /\ pc[w] = "fin_task" /\ pc'[w] = "fin_set" /\ loc'[w] = loc[w]
            /\ task'[t].status = "pending" /\ \A u \in Tasks \ {t} : task'[u] = task[u]
            /\ UNCHANGED <<booking, job>>
        BY <2>17, <3>1, FinalizeTaskEffect
      <3>3. QED BY <3>1, <3>2, FreshMakeTask
    <2>18. CASE FinalizeSet(w)
      <3>1. /\ StepOf(w) /\ pc[w] = "fin_set" /\ pc'[w] = "idle" /\ UNCHANGED <<task, booking>>
            /\ job'.status = "assembling"
        BY <2>18, FinalizeSetEffect
      <3>2. job.status # "none"
        BY <3>1 DEF FreshInv, FreshOK
      <3>3. SameRows
        BY <3>1, <3>2 DEF SameRows
      <3>4. QED BY <3>1, <3>3, FreshIdle
    <2>19. CASE w = Reaper /\ Refund
      <3>1. PICK t \in Tasks : t = loc[w].t
        BY <2>19, RefundEffect
      <3>2. /\ StepOf(w) /\ pc[w] = "reap" /\ pc'[w] \in {"refund_fail", "idle"}
            /\ booking'[t] = IF booking[t] = "live" THEN "refunded" ELSE booking[t]
            /\ \A u \in Tasks \ {t} : booking'[u] = booking[u]
            /\ UNCHANGED <<task, job>>
        BY <2>19, <3>1, RefundEffect
      <3>3. \A u \in Tasks : (booking'[u] = "none") <=> (booking[u] = "none")
        BY <3>2
      <3>4. SameRows /\ job'.status # "none"
        BY <3>2, <3>3 DEF SameRows, FreshInv, FreshOK
      <3>5. FreshOK(w)' /\ ~Submitter(w)' /\ pc'[w] # "fin_task"
        BY <3>2, <3>4 DEF FreshOK, Submitter, SubLabels, TaskLabels, ResultLabels
      <3>6. QED BY <3>2, <3>4, <3>5, FreshFrame
    <2>20. CASE w = Reaper /\ RefundFail
      <3>1. PICK t \in Tasks : t = loc[w].t
        BY <2>20, RefundFailEffect
      <3>2. /\ StepOf(w) /\ pc'[w] = "idle"
            /\ \/ task'[t].status = task[t].status
               \/ task[t].status # "none" /\ task'[t].status = "failed"
            /\ task'[t].saved = task[t].saved
            /\ \A u \in Tasks \ {t} : task'[u] = task[u]
            /\ UNCHANGED <<booking, job>>
        BY <2>20, <3>1, RefundFailEffect
      <3>3. SameRows
        BY <3>1, <3>2 DEF SameRows
      <3>4. QED BY <3>2, <3>3, FreshIdle
    <2>21. CASE Crash(w)
      <3>1. StepOf(w) /\ pc'[w] = "idle" /\ UNCHANGED <<task, booking, job>>
        BY <2>21, CrashEffect
      <3>2. SameRows
        BY <3>1 DEF SameRows
      <3>3. QED BY <3>1, <3>2, FreshIdle
    <2>22. QED
      BY <1>2, <2>1, <2>2, <2>3, <2>4, <2>5, <2>6, <2>7, <2>8, <2>9, <2>10, <2>11, <2>12,
         <2>13, <2>14, <2>15, <2>16, <2>17, <2>18, <2>19, <2>20, <2>21 DEF Acts
  <1>3. QED BY <1>1, <1>2

(* One request submits the job, one handler creates each stitch task, and   *)
(* every row a worker writes to exists.                                     *)
LEMMA FreshInvHolds == Spec => [](TypeInv /\ FreshInv)
  <1>1. Init => TypeInv /\ FreshInv
    BY TypeInit, FreshInit
  <1>2. TypeInv /\ FreshInv /\ [Next]_vars => TypeInv' /\ FreshInv'
    BY NextActs, FreshStep
  <1>3. QED BY <1>1, <1>2, PTL DEF Spec

-----------------------------------------------------------------------------
(* HandInv: who holds a task that was never queued again has it alone, and *)
(* it is not pending any more.                                              *)

LEMMA HandFrame ==
  ASSUME TypeInv, FreshInv, HandInv, NEW w \in Workers, StepOf(w), requeued \subseteq requeued',
         pc'[w] \in {"mark", "work"} => pc[w] \in {"mark", "work"} /\ loc'[w].t = loc[w].t,
         \A t \in Tasks \ requeued' :
            task'[t].status = "pending" => task[t].status \in {"none", "pending"}
  PROVE  HandInv'
  <1>1. \A a \in Agents, t \in Tasks : Holds(a, t)' => Holds(a, t)
    BY WorkerRoles DEF Holds, StepOf
  <1>2. \A a \in Agents, t \in Tasks : Holds(a, t) => task[t].status # "none"
    BY WorkerRoles DEF Holds, FreshInv, FreshOK, TaskLabels
  <1>3. HandedOutOnce'
    BY <1>1 DEF HandInv, HandedOutOnce
  <1>4. ASSUME NEW t \in Tasks \ requeued', NEW a \in Agents, Holds(a, t)'
        PROVE  task'[t].status # "pending"
    BY <1>1, <1>2, <1>4 DEF HandInv
  <1>5. QED BY <1>3, <1>4 DEF HandInv

LEMMA HandRows ==
  ASSUME TypeInv, FreshInv, HandInv, NEW w \in Workers, StepOf(w),
         pc'[w] \notin {"mark", "work"}, UNCHANGED <<task, requeued>>
  PROVE  HandInv'
  BY HandFrame

LEMMA HandClaim ==
  ASSUME TypeInv, FreshInv, HandInv, NEW w \in Workers, StepOf(w), NEW t \in Tasks, t = loc[w].t,
         pc'[w] = "mark", loc'[w] = loc[w], task[t].status = "pending",
         task'[t].status = "assigned", \A u \in Tasks \ {t} : task'[u] = task[u],
         requeued' = requeued
  PROVE  HandInv'
  <1>1. \A a \in Agents, u \in Tasks : Holds(a, u)' => Holds(a, u) \/ (a = w /\ u = t)
    BY WorkerRoles DEF Holds, StepOf
  <1>2. t \notin requeued => \A a \in Agents : ~Holds(a, t)
    BY DEF HandInv
  <1>3. HandedOutOnce'
    <2>1. ASSUME NEW u \in Tasks \ requeued', NEW a \in Agents, NEW b \in Agents,
                 Holds(a, u)', Holds(b, u)'
          PROVE  a = b
      <3>1. CASE u = t
        BY <1>1, <1>2, <2>1, <3>1
      <3>2. CASE u # t
        BY <1>1, <2>1, <3>2 DEF HandInv, HandedOutOnce
      <3>3. QED BY <3>1, <3>2
    <2>2. QED BY <2>1 DEF HandedOutOnce
  <1>4. ASSUME NEW u \in Tasks \ requeued', NEW a \in Agents, Holds(a, u)'
        PROVE  task'[u].status # "pending"
    <2>1. CASE u = t
      BY <2>1
    <2>2. CASE u # t
      BY <1>1, <1>4, <2>2 DEF HandInv
    <2>3. QED BY <2>1, <2>2
  <1>5. QED BY <1>3, <1>4 DEF HandInv

LEMMA HandStep ==
  ASSUME TypeInv, FreshInv, HandInv, Outside \/ \E w \in Workers : Acts(w)
  PROVE  HandInv'
  <1>1. CASE Outside
    BY <1>1 DEF Outside, HandInv, HandedOutOnce, Holds
  <1>2. ASSUME NEW w \in Workers, Acts(w)
        PROVE  HandInv'
    <2>1. CASE Submit(w)
      <3>1. StepOf(w) /\ pc'[w] = "sub_book" /\ UNCHANGED <<task, requeued>>
        BY <2>1, SubmitEffect
      <3>2. QED BY <3>1, HandRows
    <2>2. CASE SubmitBook(w)
      <3>1. StepOf(w) /\ pc'[w] = "sub_task" /\ UNCHANGED <<task, requeued>>
        BY <2>2, SubmitBookEffect
      <3>2. QED BY <3>1, HandRows
    <2>3. CASE SubmitRefused(w)
      <3>1. StepOf(w) /\ pc'[w] \notin {"mark", "work"} /\ UNCHANGED <<task, requeued>>
        BY <2>3, SubmitRefusedEffect DEF NextMoves
      <3>2. QED BY <3>1, HandRows
    <2>4. CASE SubmitTask(w)
      <3>1. PICK t \in Tasks : t = loc[w].t
        BY <2>4, SubmitTaskEffect, TaskNumbers
      <3>2. /\ StepOf(w) /\ pc[w] = "sub_task" /\ pc'[w] = "sub_seg" /\ requeued' = requeued
            /\ \A u \in Tasks \ {t} : task'[u] = task[u]
        BY <2>4, <3>1, SubmitTaskEffect
      <3>3. task[t].status = "none"
        BY <3>1, <3>2 DEF FreshInv, FreshOK
      <3>4. \A u \in Tasks : task'[u].status = "pending" => task[u].status \in {"none", "pending"}
        BY <3>2, <3>3
      <3>5. QED BY <3>2, <3>4, HandFrame
    <2>5. CASE SubmitSegment(w)
      <3>1. StepOf(w) /\ pc'[w] \notin {"mark", "work"} /\ UNCHANGED <<task, requeued>>
        BY <2>5, SubmitSegmentEffect DEF NextMoves
      <3>2. QED BY <3>1, HandRows
    <2>6. CASE SubmitUnwind(w)
      <3>1. StepOf(w) /\ pc'[w] \notin {"mark", "work"} /\ UNCHANGED <<task, requeued>>
        BY <2>6, SubmitUnwindEffect
      <3>2. QED BY <3>1, HandRows
    <2>7. CASE TakesUp(w)
      <3>1. StepOf(w) /\ pc'[w] \notin {"mark", "work"} /\ UNCHANGED <<task, requeued>>
        BY <2>7 DEF TakesUp
      <3>2. QED BY <3>1, HandRows
    <2>8. CASE PutsBack(w)
      <3>1. PICK t \in Tasks : t = loc[w].t
        BY <2>8 DEF PutsBack
      <3>2. /\ StepOf(w) /\ pc'[w] = "idle" /\ requeued \subseteq requeued'
            /\ (t \in requeued' \/ task'[t].status = task[t].status)
            /\ \A u \in Tasks \ {t} : task'[u] = task[u]
        BY <2>8, <3>1 DEF PutsBack
      <3>3. QED BY <3>2, HandFrame
    <2>9. CASE Claim(w)
      <3>1. PICK t \in Tasks : t = loc[w].t
        BY <2>9, ClaimEffect
      <3>2. CASE pc'[w] = "idle" /\ task' = task
        BY <2>9, <3>2, ClaimEffect, HandRows
      <3>3. CASE pc'[w] # "idle"
        BY <2>9, <3>1, <3>3, ClaimEffect, HandClaim
      <3>4. QED BY <2>9, <3>2, <3>3, ClaimEffect
    <2>10. CASE WritesStatus(w)
      <3>1. PICK t \in Tasks : t = loc[w].t
        BY <2>10 DEF WritesStatus, Writes
      <3>2. PICK s :
            /\ StepOf(w) /\ loc'[w] = loc[w] /\ requeued' = requeued
            /\ pc'[w] \in {"mark", "work"} => pc[w] \in {"mark", "work"}
            /\ s # "pending" /\ task'[t].status \in {s, task[t].status}
            /\ \A u \in Tasks \ {t} : task'[u] = task[u]
        BY <2>10, <3>1 DEF WritesStatus, Writes
      <3>3. QED BY <3>2, HandFrame
    <2>11. CASE Checkpoint(w)
      <3>1. PICK t \in Tasks : t = loc[w].t
        BY <2>11, CheckpointEffect
      <3>2. /\ task'[t].status = task[t].status /\ \A u \in Tasks \ {t} : task'[u] = task[u]
            /\ UNCHANGED <<requeued, pc, loc>>
        BY <2>11, <3>1, CheckpointEffect
      <3>3. StepOf(w)
        BY <3>2 DEF StepOf
      <3>4. QED BY <3>2, <3>3, HandFrame
    <2>12. CASE Moves(w)
      <3>1. StepOf(w) /\ UNCHANGED <<task, requeued>> /\ pc'[w] \notin {"mark", "work"}
        BY <2>12 DEF Moves, ResultMoves
      <3>2. QED BY <3>1, HandRows
    <2>13. CASE Pay(w)
      <3>1. StepOf(w) /\ UNCHANGED <<task, requeued>> /\ pc'[w] = "advance"
        BY <2>13, PayEffect
      <3>2. QED BY <3>1, HandRows
    <2>14. CASE EndsJob(w)
      <3>1. StepOf(w) /\ UNCHANGED <<task, requeued>> /\ pc'[w] = "idle"
        BY <2>14 DEF EndsJob
      <3>2. QED BY <3>1, HandRows
    <2>15. CASE CompleteSegment(w)
      <3>1. StepOf(w) /\ UNCHANGED <<task, requeued>> /\ pc'[w] = "check"
        BY <2>15, CompleteSegmentEffect
      <3>2. QED BY <3>1, HandRows
    <2>16. CASE FinalizeBook(w)
      <3>1. StepOf(w) /\ UNCHANGED <<task, requeued>> /\ pc'[w] = "fin_task"
        BY <2>16, FinalizeBookEffect
      <3>2. QED BY <3>1, HandRows
    <2>17. CASE FinalizeTask(w)
      <3>1. PICK t \in Tasks : t = loc[w].n
        BY <2>17, FinalizeTaskEffect
      <3>2. /\ StepOf(w) /\ pc[w] = "fin_task" /\ pc'[w] = "fin_set" /\ requeued' = requeued
            /\ \A u \in Tasks \ {t} : task'[u] = task[u]
        BY <2>17, <3>1, FinalizeTaskEffect
      <3>3. task[t].status = "none"
        BY <3>1, <3>2 DEF FreshInv, FreshOK
      <3>4. \A u \in Tasks : task'[u].status = "pending" => task[u].status \in {"none", "pending"}
        BY <3>2, <3>3
      <3>5. QED BY <3>2, <3>4, HandFrame
    <2>18. CASE FinalizeSet(w)
      <3>1. StepOf(w) /\ UNCHANGED <<task, requeued>> /\ pc'[w] = "idle"
        BY <2>18, FinalizeSetEffect
      <3>2. QED BY <3>1, HandRows
    <2>19. CASE w = Reaper /\ Refund
      <3>1. StepOf(w) /\ UNCHANGED <<task, requeued>> /\ pc'[w] \in {"refund_fail", "idle"}
        BY <2>19, RefundEffect
      <3>2. QED BY <3>1, HandRows
    <2>20. CASE w = Reaper /\ RefundFail
      <3>1. PICK t \in Tasks : t = loc[w].t
        BY <2>20, RefundFailEffect
      <3>2. /\ StepOf(w) /\ pc'[w] = "idle" /\ requeued' = requeued
            /\ task'[t].status \in {"failed", task[t].status}
            /\ \A u \in Tasks \ {t} : task'[u] = task[u]
        BY <2>20, <3>1, RefundFailEffect
      <3>3. QED BY <3>2, HandFrame
    <2>21. CASE Crash(w)
      <3>1. StepOf(w) /\ UNCHANGED <<task, requeued>> /\ pc'[w] = "idle"
        BY <2>21, CrashEffect
      <3>2. QED BY <3>1, HandRows
    <2>22. QED
      BY <1>2, <2>1, <2>2, <2>3, <2>4, <2>5, <2>6, <2>7, <2>8, <2>9, <2>10, <2>11, <2>12,
         <2>13, <2>14, <2>15, <2>16, <2>17, <2>18, <2>19, <2>20, <2>21 DEF Acts
  <1>3. QED BY <1>1, <1>2

(* A task that was never queued again is held by one agent at most, however *)
(* the polls of a seller's machines race: the CAS of jobs_next is enough,   *)
(* although mark_task_running and submit_task_result write blindly.         *)
THEOREM HandedOutOnceHolds == Spec => []HandedOutOnce
  <1>1. Init => HandInv
    BY DEF Init, HandInv, HandedOutOnce, Holds, Workers
  <1>2. TypeInv /\ FreshInv /\ HandInv /\ [Next]_vars => HandInv'
    BY NextActs, HandStep
  <1>3. HandInv => HandedOutOnce
    BY DEF HandInv
  <1>4. QED BY FreshInvHolds, <1>1, <1>2, <1>3, PTL DEF Spec

-----------------------------------------------------------------------------
(* SettledInv: the booking is settled before the manifest is advanced.      *)

BookingsKept == \A t \in Tasks : Settled(t) => Settled(t)'
DoneKept == \A s \in Segments : segment'[s] = "done" => segment[s] = "done"

LEMMA SettledFrame ==
  ASSUME TypeInv, SettledInv, NEW w \in Workers, StepOf(w), BookingsKept, DoneKept,
         pc'[w] \in {"advance", "seg_done"} => Settled(loc[w].t)'
  PROVE  SettledInv'
  <1>1. DoneIsSettled'
    BY TaskNumbers DEF SettledInv, DoneIsSettled, BookingsKept, DoneKept, Settled
  <1>2. ASSUME NEW v \in Workers \ {w}, pc'[v] \in {"advance", "seg_done"}
        PROVE  Settled(loc[v].t)'
    <2>1. pc[v] \in {"advance", "seg_done"} /\ loc'[v] = loc[v]
      BY <1>2 DEF StepOf
    <2>2. PICK t \in Tasks : t = loc[v].t /\ t = loc'[v].t
      BY <2>1, HandTypes
    <2>3. Settled(t)
      BY <2>1, <2>2 DEF SettledInv
    <2>4. Settled(t)'
      BY <2>3 DEF BookingsKept
    <2>5. QED BY <2>2, <2>4 DEF Settled
  <1>3. QED BY <1>1, <1>2 DEF SettledInv

LEMMA SettledRows ==
  ASSUME TypeInv, SettledInv, NEW w \in Workers, StepOf(w),
         UNCHANGED <<booking, segment>>, pc'[w] \notin {"advance", "seg_done"}
  PROVE  SettledInv'
  <1>1. BookingsKept /\ DoneKept
    BY DEF BookingsKept, DoneKept, Settled
  <1>2. QED BY <1>1, SettledFrame

(* one booking of which no money has gone yet changes *)
LEMMA SettledBooking ==
  ASSUME TypeInv, SettledInv, NEW w \in Workers, StepOf(w), NEW t \in Tasks,
         ~Settled(t) \/ booking'[t] \in {"released", "refunded"},
         \A u \in Tasks \ {t} : booking'[u] = booking[u],
         UNCHANGED segment, pc'[w] \notin {"advance", "seg_done"}
  PROVE  SettledInv'
  <1>1. BookingsKept /\ DoneKept
    BY DEF BookingsKept, DoneKept, Settled
  <1>2. QED BY <1>1, SettledFrame

LEMMA SettledStep ==
  ASSUME TypeInv, FreshInv, SettledInv, Outside \/ \E w \in Workers : Acts(w)
  PROVE  SettledInv'
  <1>1. CASE Outside
    <2>1. UNCHANGED <<segment, pc, loc>> /\ BookingsKept
      BY <1>1 DEF Outside, BookingsKept, Settled
    <2>2. DoneIsSettled'
      BY <2>1, TaskNumbers DEF SettledInv, DoneIsSettled, BookingsKept, Settled
    <2>3. ASSUME NEW v \in Workers, pc'[v] \in {"advance", "seg_done"}
          PROVE  Settled(loc[v].t)'
      <3>1. PICK t \in Tasks : t = loc[v].t /\ t = loc'[v].t
        BY <2>1, <2>3, HandTypes
      <3>2. Settled(t)
        BY <2>1, <2>3, <3>1 DEF SettledInv
      <3>3. QED BY <2>1, <3>1, <3>2 DEF BookingsKept
    <2>4. QED BY <2>2, <2>3 DEF SettledInv
  <1>2. ASSUME NEW w \in Workers, Acts(w)
        PROVE  SettledInv'
    <2>1. CASE Submit(w)
      <3>1. StepOf(w) /\ pc'[w] = "sub_book" /\ UNCHANGED <<booking, segment>>
        BY <2>1, SubmitEffect
      <3>2. QED BY <3>1, SettledRows
    <2>2. CASE SubmitBook(w)
      <3>1. PICK t \in Tasks : t = loc[w].t
        BY <2>2, SubmitBookEffect, TaskNumbers
      <3>2. /\ StepOf(w) /\ pc[w] = "sub_book" /\ pc'[w] = "sub_task" /\ segment' = segment
            /\ \A u \in Tasks \ {t} : booking'[u] = booking[u]
        BY <2>2, <3>1, SubmitBookEffect
      <3>3. ~Settled(t)
        BY <3>1, <3>2 DEF FreshInv, FreshOK, Settled
      <3>4. QED BY <3>2, <3>3, SettledBooking
    <2>3. CASE SubmitRefused(w)
      <3>1. StepOf(w) /\ pc'[w] \notin {"advance", "seg_done"} /\ UNCHANGED <<booking, segment>>
        BY <2>3, SubmitRefusedEffect DEF NextMoves
      <3>2. QED BY <3>1, SettledRows
    <2>4. CASE SubmitTask(w)
      <3>1. StepOf(w) /\ pc'[w] = "sub_seg" /\ UNCHANGED <<booking, segment>>
        BY <2>4, SubmitTaskEffect
      <3>2. QED BY <3>1, SettledRows
    <2>5. CASE SubmitSegment(w)
      <3>1. PICK t \in Segments : t = loc[w].t
        BY <2>5, SubmitSegmentEffect
      <3>2. /\ StepOf(w) /\ pc'[w] \notin {"advance", "seg_done"} /\ segment'[t] = "pending"
            /\ \A s \in Segments \ {t} : segment'[s] = segment[s]
            /\ booking' = booking
        BY <2>5, <3>1, SubmitSegmentEffect DEF NextMoves
      <3>3. BookingsKept /\ DoneKept
        BY <3>2 DEF BookingsKept, DoneKept, Settled
      <3>4. QED BY <3>2, <3>3, SettledFrame
    <2>6. CASE SubmitUnwind(w)
      <3>1. /\ StepOf(w) /\ pc'[w] \notin {"advance", "seg_done"} /\ segment' = segment
        BY <2>6, SubmitUnwindEffect
      <3>2. CASE booking' = booking
        BY <3>1, <3>2, SettledRows
      <3>3. ASSUME NEW t \in Tasks,
                   booking'[t] = IF booking[t] = "live" THEN "refunded" ELSE booking[t],
                   \A u \in Tasks \ {t} : booking'[u] = booking[u]
            PROVE  SettledInv'
        <4>1. ~Settled(t) \/ booking'[t] \in {"released", "refunded"}
          BY <3>3 DEF Settled
        <4>2. QED BY <3>1, <3>3, <4>1, SettledBooking
      <3>4. QED BY <2>6, <3>2, <3>3, SubmitUnwindEffect
    <2>7. CASE TakesUp(w)
      <3>1. StepOf(w) /\ pc'[w] \notin {"advance", "seg_done"} /\ UNCHANGED <<booking, segment>>
        BY <2>7 DEF TakesUp
      <3>2. QED BY <3>1, SettledRows
    <2>8. CASE PutsBack(w)
      <3>1. StepOf(w) /\ pc'[w] = "idle" /\ UNCHANGED <<booking, segment>>
        BY <2>8 DEF PutsBack
      <3>2. QED BY <3>1, SettledRows
    <2>9. CASE Claim(w)
      <3>1. StepOf(w) /\ pc'[w] \in {"mark", "idle"} /\ UNCHANGED <<booking, segment>>
        BY <2>9, ClaimEffect
      <3>2. QED BY <3>1, SettledRows
    <2>10. CASE WritesStatus(w)
      <3>1. StepOf(w) /\ pc'[w] \notin {"advance", "seg_done"} /\ UNCHANGED <<booking, segment>>
        BY <2>10 DEF WritesStatus, Writes
      <3>2. QED BY <3>1, SettledRows
    <2>11. CASE Checkpoint(w)
      <3>1. StepOf(w) /\ pc'[w] = "work" /\ UNCHANGED <<booking, segment>>
        BY <2>11, CheckpointEffect DEF StepOf
      <3>2. QED BY <3>1, SettledRows
    <2>12. CASE Moves(w)
      <3>1. /\ StepOf(w) /\ UNCHANGED <<booking, segment>>
            /\ pc'[w] \in {"advance", "seg_done"} => pc[w] = "advance" /\ loc'[w].t = loc[w].t
        BY <2>12 DEF Moves, ResultMoves
      <3>2. CASE pc'[w] \notin {"advance", "seg_done"}
        BY <3>1, <3>2, SettledRows
      <3>3. CASE pc'[w] \in {"advance", "seg_done"}
        <4>1. PICK t \in Tasks : t = loc[w].t /\ t = loc'[w].t
          BY <3>1, <3>3, HandTypes
        <4>2. Settled(t) /\ Settled(t)'
          BY <3>1, <3>3, <4>1 DEF SettledInv, Settled
        <4>3. BookingsKept /\ DoneKept
          BY <3>1 DEF BookingsKept, DoneKept, Settled
        <4>4. Settled(loc[w].t)'
          BY <4>1, <4>2 DEF Settled
        <4>5. QED BY <3>1, <4>3, <4>4, SettledFrame
      <3>4. QED BY <3>2, <3>3
    <2>13. CASE Pay(w)
      <3>1. PICK t \in Tasks : t = loc[w].t /\ t = loc'[w].t
        BY <2>13, PayEffect
      <3>2. /\ StepOf(w) /\ pc[w] = "pay" /\ segment' = segment
            /\ booking'[t] = IF booking[t] = "live" THEN "released" ELSE booking[t]
            /\ \A u \in Tasks \ {t} : booking'[u] = booking[u]
        BY <2>13, <3>1, PayEffect
      <3>3. booking[t] # "none"
        BY <3>1, <3>2 DEF FreshInv, FreshOK, RowsOK, TaskLabels, ResultLabels
      <3>4. booking[t] \in {"none", "live", "released", "refunded"}
        BY HandTypes DEF TypeOK
      <3>5. Settled(t)'
        BY <3>2, <3>3, <3>4 DEF Settled
      <3>6. BookingsKept /\ DoneKept
        BY <3>2, <3>5 DEF BookingsKept, DoneKept, Settled
      <3>7. Settled(loc[w].t)'
        BY <3>1, <3>5 DEF Settled
      <3>8. QED BY <3>2, <3>6, <3>7, SettledFrame
    <2>14. CASE EndsJob(w)
      <3>1. StepOf(w) /\ pc'[w] = "idle" /\ UNCHANGED <<booking, segment>>
        BY <2>14 DEF EndsJob
      <3>2. QED BY <3>1, SettledRows
    <2>15. CASE CompleteSegment(w)
      <3>1. PICK t \in Segments : t = loc[w].t
        BY <2>15, CompleteSegmentEffect
      <3>2. /\ StepOf(w) /\ pc[w] = "seg_done" /\ pc'[w] = "check" /\ loc'[w] = loc[w]
            /\ \A s \in Segments \ {t} : segment'[s] = segment[s]
            /\ booking' = booking
        BY <2>15, <3>1, CompleteSegmentEffect
      <3>3. booking[t] \in {"released", "refunded"}
        BY <3>1, <3>2 DEF SettledInv, Settled
      <3>4. DoneIsSettled'
        BY <3>2, <3>3 DEF SettledInv, DoneIsSettled
      <3>5. \A v \in Workers : pc'[v] \in {"advance", "seg_done"} => Settled(loc[v].t)'
        BY <3>2 DEF SettledInv, StepOf, Settled
      <3>6. QED BY <3>4, <3>5 DEF SettledInv
    <2>16. CASE FinalizeBook(w)
      <3>1. PICK t \in Tasks : t = loc'[w].n
        BY <2>16, FinalizeBookEffect
      <3>2. /\ StepOf(w) /\ pc'[w] = "fin_task" /\ segment' = segment /\ booking[t] = "none"
            /\ \A u \in Tasks \ {t} : booking'[u] = booking[u]
        BY <2>16, <3>1, FinalizeBookEffect
      <3>3. ~Settled(t)
        BY <3>2 DEF Settled
      <3>4. QED BY <3>2, <3>3, SettledBooking
    <2>17. CASE FinalizeTask(w)
      <3>1. StepOf(w) /\ pc'[w] = "fin_set" /\ UNCHANGED <<booking, segment>>
        BY <2>17, FinalizeTaskEffect
      <3>2. QED BY <3>1, SettledRows
    <2>18. CASE FinalizeSet(w)
      <3>1. StepOf(w) /\ pc'[w] = "idle" /\ UNCHANGED <<booking, segment>>
        BY <2>18, FinalizeSetEffect
      <3>2. QED BY <3>1, SettledRows
    <2>19. CASE w = Reaper /\ Refund
      <3>1. PICK t \in Tasks : t = loc[w].t
        BY <2>19, RefundEffect
      <3>2. /\ StepOf(w) /\ pc'[w] \in {"refund_fail", "idle"} /\ segment' = segment
            /\ booking'[t] = IF booking[t] = "live" THEN "refunded" ELSE booking[t]
            /\ \A u \in Tasks \ {t} : booking'[u] = booking[u]
        BY <2>19, <3>1, RefundEffect
      <3>3. ~Settled(t) \/ booking'[t] \in {"released", "refunded"}
        BY <3>2 DEF Settled
      <3>4. QED BY <3>2, <3>3, SettledBooking
    <2>20. CASE w = Reaper /\ RefundFail
      <3>1. StepOf(w) /\ pc'[w] = "idle" /\ UNCHANGED <<booking, segment>>
        BY <2>20, RefundFailEffect
      <3>2. QED BY <3>1, SettledRows
    <2>21. CASE Crash(w)
      <3>1. StepOf(w) /\ pc'[w] = "idle" /\ UNCHANGED <<booking, segment>>
        BY <2>21, CrashEffect
      <3>2. QED BY <3>1, SettledRows
    <2>22. QED
      BY <1>2, <2>1, <2>2, <2>3, <2>4, <2>5, <2>6, <2>7, <2>8, <2>9, <2>10, <2>11, <2>12,
         <2>13, <2>14, <2>15, <2>16, <2>17, <2>18, <2>19, <2>20, <2>21 DEF Acts
  <1>3. QED BY <1>1, <1>2

(* A segment is never done while its booking is live: jobs_result releases  *)
(* before it advances the manifest, and no handler makes a settled booking  *)
(* live again, whatever the reaper, a buyer or a late result does.          *)
THEOREM DoneIsSettledHolds == Spec => []DoneIsSettled
  <1>1. Init => SettledInv
    BY DEF Init, SettledInv, DoneIsSettled
  <1>2. TypeInv /\ FreshInv /\ SettledInv /\ [Next]_vars => SettledInv'
    BY NextActs, SettledStep
  <1>3. SettledInv => DoneIsSettled
    BY DEF SettledInv
  <1>4. QED BY FreshInvHolds, <1>1, <1>2, <1>3, PTL DEF Spec

-----------------------------------------------------------------------------
(* WholeInv: while a job is being submitted no result is taken; a part     *)
(* without a segment is still to come or was given up; what ends the job   *)
(* has found every segment done.                                            *)

(* The cluster's submission keeps no trace of the ranks it has not booked:  *)
(* a process that dies in it leaves a job that its other ranks complete.    *)
NoCrashOfCluster == MaxCrashes = 0 \/ "distributed" \notin Kinds

CountGrows == /\ count'.refusals \in {count.refusals, count.refusals + 1}
              /\ count'.crashes \in {count.crashes, count.crashes + 1}

LEMMA GapKept ==
  ASSUME TypeOK, TypeOK', job'.kind = job.kind, CountGrows
  PROVE  /\ Gap => Gap'
         /\ (count'.refusals = count.refusals + 1 \/ count'.crashes = count.crashes + 1)
              /\ job.kind = "fanout" => Gap'
  <1>1. PICK r \in Nat, c \in Nat : r = count.refusals /\ c = count.crashes
    BY CountFields
  <1>2. PICK r2 \in {r, r + 1}, c2 \in {c, c + 1} : r2 = count'.refusals /\ c2 = count'.crashes
    BY <1>1 DEF CountGrows
  <1>3. r + c > 0 => r2 + c2 > 0
    BY <1>1, <1>2
  <1>4. r2 = r + 1 \/ c2 = c + 1 => r2 + c2 > 0
    BY <1>1, <1>2
  <1>5. Gap <=> (job.kind = "fanout" /\ r + c > 0)
    BY <1>1 DEF Gap
  <1>6. Gap' <=> (job.kind = "fanout" /\ r2 + c2 > 0)
    BY <1>2 DEF Gap
  <1>7. QED BY <1>1, <1>2, <1>3, <1>4, <1>5, <1>6

NoSubmitter == \A v \in Workers : ~Submitter(v)
SegmentsKept == \A s \in Segments : segment'[s] = segment[s] \/ segment'[s] = "done"

LEMMA WholeKept ==
  ASSUME TypeOK, TypeOK', job'.kind = job.kind, CountGrows, SegmentsKept
  PROVE  Whole => Whole'
  BY GapKept DEF Whole, SegmentsKept

(* a step of a worker that submits nothing *)
LEMMA WholeFrame ==
  ASSUME TypeInv, TypeInv', WholeInv, NEW w \in Workers, StepOf(w),
         ~Submitter(w), ~Submitter(w)', CountGrows, SegmentsKept,
         pc'[w] \in ResultLabels => pc[w] \in ResultLabels \/ NoSubmitter,
         pc'[w] \in Ending => Whole, job'.kind = job.kind,
         \/ job' = job
         \/ /\ pc[w] \in ResultLabels /\ job'.status \notin {"none", "running"}
            /\ job'.stitch = job.stitch \/ Whole
            /\ job'.status \in {"assembling", "complete"} => Whole
  PROVE  WholeInv'
  <1>1. TypeOK /\ TypeOK'
    BY DEF TypeInv
  <1>2. (Whole => Whole') /\ (Gap => Gap')
    BY <1>1, WholeKept, GapKept
  <1>3. \A v \in Workers : (Submitter(v)' <=> Submitter(v)) /\ (Submitter(v) => loc'[v] = loc[v] /\ pc'[v] = pc[v])
    BY DEF StepOf, Submitter
  <1>4. \A s \in Segments : InProgress(s) => InProgress(s)'
    BY <1>3 DEF InProgress
  <1>5. \A v \in Workers : Submitter(v)' =>
           job'.status = "running" /\ job'.stitch = 0 /\ \A u \in Workers : pc'[u] \notin ResultLabels
    <2>1. ASSUME NEW v \in Workers, Submitter(v)' PROVE pc[w] \notin ResultLabels /\ job' = job
                   /\ job.status = "running" /\ job.stitch = 0 /\ \A u \in Workers : pc[u] \notin ResultLabels
      BY <1>3, <2>1 DEF WholeInv
    <2>2. ASSUME NEW v \in Workers, Submitter(v)', NEW u \in Workers PROVE pc'[u] \notin ResultLabels
      BY <1>3, <2>1, <2>2 DEF StepOf, NoSubmitter
    <2>3. QED BY <2>1, <2>2
  <1>6. job'.status = "running" => \A s \in Segments : segment'[s] = "none" => Gap' \/ InProgress(s)'
    <2>1. ASSUME job'.status = "running", NEW s \in Segments, segment'[s] = "none"
          PROVE  Gap' \/ InProgress(s)'
      <3>1. job' = job /\ segment[s] = "none"
        BY <2>1 DEF SegmentsKept
      <3>2. QED BY <1>2, <1>4, <2>1, <3>1 DEF WholeInv
    <2>2. QED BY <2>1
  <1>7. \A v \in Workers : pc'[v] \in Ending => Whole'
    BY <1>2 DEF WholeInv, StepOf
  <1>8. /\ job'.stitch # 0 => Whole'
        /\ job'.status \in {"assembling", "complete"} => Whole'
        /\ job'.status = "none" => job'.stitch = 0
        /\ job'.kind \in Kinds
    BY <1>2 DEF WholeInv
  <1>9. QED BY <1>5, <1>6, <1>7, <1>8 DEF WholeInv

(* a step of the submission *)
LEMMA WholeSubmitter ==
  ASSUME TypeInv, FreshInv, WholeInv, NEW w \in Workers, StepOf(w), Submitter(w),
         pc'[w] \in SubLabels \cup {"idle"}, job'.kind = job.kind, job'.stitch = job.stitch,
         \/ /\ job' = job
            /\ \A s \in Segments : segment'[s] = "none" => Gap' \/ InProgress(s)'
         \/ job'.status = "failed" /\ pc'[w] = "idle"
  PROVE  WholeInv'
  <1>1. /\ job.status = "running" /\ job.stitch = 0 /\ job.kind \in Kinds
        /\ \A v \in Workers : pc[v] \notin ResultLabels
    BY DEF WholeInv
  <1>2. \A v \in Workers : pc'[v] \notin ResultLabels
    BY <1>1 DEF StepOf, SubLabels, ResultLabels
  <1>3. \A v \in Workers : pc'[v] \notin Ending
    BY <1>2 DEF Ending, ResultLabels
  <1>4. ASSUME job'.status = "failed", pc'[w] = "idle"
        PROVE  \A v \in Workers : ~Submitter(v)'
    BY <1>4 DEF FreshInv, OneSubmitter, StepOf, Submitter, SubLabels
  <1>5. CASE job' = job /\ \A s \in Segments : segment'[s] = "none" => Gap' \/ InProgress(s)'
    BY <1>1, <1>2, <1>3, <1>5 DEF WholeInv
  <1>6. CASE job'.status = "failed" /\ pc'[w] = "idle"
    BY <1>1, <1>2, <1>3, <1>4, <1>6 DEF WholeInv
  <1>7. QED BY <1>5, <1>6

LEMMA WholeSubmit ==
  ASSUME TypeInv, FreshInv, WholeInv, NEW w \in Workers, Submit(w)
  PROVE  WholeInv'
  <1>1. /\ StepOf(w) /\ pc[w] = "idle" /\ pc'[w] = "sub_book" /\ loc'[w].t = 1
        /\ job.status = "none" /\ job'.status = "running" /\ job'.kind = job.kind
        /\ job'.stitch = job.stitch
    BY SubmitEffect
  <1>2. job.stitch = 0 /\ job.kind \in Kinds
    BY <1>1 DEF WholeInv
  <1>3. \A v \in Workers : pc'[v] \in {"idle", "sub_book"}
    BY <1>1 DEF FreshInv, FreshOK, StepOf
  <1>4. \A v \in Workers : pc'[v] \notin ResultLabels /\ pc'[v] \notin Ending
    BY <1>3 DEF ResultLabels, Ending
  <1>5. \A s \in Segments : InProgress(s)'
    <2>1. Submitter(w)' /\ \A s \in Segments : s >= 1
      BY <1>1 DEF Submitter, SubLabels, Segments
    <2>2. QED BY <1>1, <2>1 DEF InProgress
  <1>6. QED BY <1>1, <1>2, <1>4, <1>5 DEF WholeInv

LEMMA WholeSubmitSteps ==
  ASSUME TypeInv, TypeInv', FreshInv, WholeInv, NEW w \in Workers,
         SubmitBook(w) \/ SubmitRefused(w) \/ SubmitTask(w) \/ SubmitSegment(w) \/ SubmitUnwind(w)
  PROVE  WholeInv'
  <1>1. TypeOK /\ TypeOK'
    BY DEF TypeInv
  <1>2. Submitter(w) /\ StepOf(w) /\ pc'[w] \in SubLabels \cup {"idle"}
    <2>1. CASE SubmitBook(w)
      BY <2>1, SubmitBookEffect DEF Submitter, SubLabels
    <2>2. CASE SubmitRefused(w)
      BY <2>2, SubmitRefusedEffect DEF Submitter, SubLabels, NextMoves
    <2>3. CASE SubmitTask(w)
      BY <2>3, SubmitTaskEffect DEF Submitter, SubLabels
    <2>4. CASE SubmitSegment(w)
      BY <2>4, SubmitSegmentEffect DEF Submitter, SubLabels, NextMoves
    <2>5. CASE SubmitUnwind(w)
      BY <2>5, SubmitUnwindEffect DEF Submitter, SubLabels
    <2>6. QED BY <2>1, <2>2, <2>3, <2>4, <2>5
  <1>3. PICK t \in Segments : t = loc[w].t /\ t \in Nat
    BY <1>2, HandTypes, TaskNumbers DEF Submitter
  <1>4. \A s \in Segments : segment[s] = "none" => Gap \/ InProgress(s)
    BY <1>2 DEF WholeInv
  <1>5. \A s \in Segments : InProgress(s) <=> (s >= t \/ pc[w] = "sub_unwind")
    BY <1>2, <1>3 DEF InProgress, FreshInv, OneSubmitter
  <1>6. CASE SubmitBook(w) \/ SubmitTask(w)
    <2>1. /\ pc'[w] \in {"sub_task", "sub_seg"} /\ loc'[w] = loc[w] /\ pc[w] # "sub_unwind"
          /\ UNCHANGED <<segment, job, count>>
      BY <1>6, SubmitBookEffect, SubmitTaskEffect
    <2>2. Gap' <=> Gap
      BY <2>1 DEF Gap
    <2>3. \A s \in Segments : s >= t => InProgress(s)'
      BY <1>3, <2>1 DEF InProgress, Submitter, SubLabels
    <2>4. \A s \in Segments : segment'[s] = "none" => Gap' \/ InProgress(s)'
      BY <1>4, <1>5, <2>1, <2>2, <2>3
    <2>5. QED BY <1>2, <2>1, <2>4, WholeSubmitter
  <1>7. CASE SubmitRefused(w)
    <2>1. /\ count'.refusals = count.refusals + 1 /\ count'.crashes = count.crashes
          /\ UNCHANGED <<segment, job>>
          /\ \/ job.kind = "fanout"
             \/ pc'[w] = "sub_unwind"
      BY <1>7, SubmitRefusedEffect
    <2>2. job.kind = "fanout" => Gap'
      BY <1>1, <2>1, GapKept DEF CountGrows
    <2>3. pc'[w] = "sub_unwind" => \A s \in Segments : InProgress(s)'
      BY DEF InProgress, Submitter, SubLabels
    <2>4. QED BY <1>2, <2>1, <2>2, <2>3, WholeSubmitter
  <1>8. CASE SubmitSegment(w)
    <2>1. /\ pc[w] = "sub_seg" /\ UNCHANGED <<job, count>> /\ segment'[t] = "pending"
          /\ \A s \in Segments \ {t} : segment'[s] = segment[s]
          /\ NextMoves(w, loc[w].todo \cup {t})
      BY <1>3, <1>8, SubmitSegmentEffect
    <2>2. Gap' <=> Gap
      BY <2>1 DEF Gap
    <2>3. ASSUME NEW s \in Segments, segment'[s] = "none", ~Gap PROVE InProgress(s)'
      <3>1. s # t /\ segment[s] = "none" /\ s >= t /\ s \in Nat /\ s <= Parts
        BY <1>3, <1>4, <1>5, <2>1, <2>3 DEF Segments
      <3>2. s >= t + 1 /\ t # Parts
        BY <1>3, <3>1, TaskNumbers
      <3>3. pc'[w] = "sub_book" /\ loc'[w].t = t + 1
        BY <1>3, <2>1, <3>2 DEF NextMoves
      <3>4. QED BY <3>2, <3>3 DEF InProgress, Submitter, SubLabels
    <2>4. QED BY <1>2, <2>1, <2>2, <2>3, WholeSubmitter
  <1>9. CASE SubmitUnwind(w)
    <2>1. /\ UNCHANGED <<segment, count>>
          /\ \/ pc'[w] = "sub_unwind" /\ job' = job
             \/ pc'[w] = "idle" /\ job'.status = "failed" /\ job'.kind = job.kind
                /\ job'.stitch = job.stitch
      BY <1>9, SubmitUnwindEffect
    <2>2. pc'[w] = "sub_unwind" => \A s \in Segments : InProgress(s)'
      BY DEF InProgress, Submitter, SubLabels
    <2>3. QED BY <1>2, <2>1, <2>2, WholeSubmitter
  <1>10. QED BY <1>6, <1>7, <1>8, <1>9

(* a step that touches neither the job, its segments nor the counts *)
LEMMA WholeRows ==
  ASSUME TypeInv, TypeInv', WholeInv, NEW w \in Workers, StepOf(w),
         pc[w] \notin SubLabels, pc'[w] \notin SubLabels \cup Ending,
         pc'[w] \in ResultLabels => pc[w] \in ResultLabels, UNCHANGED <<segment, job>>, SameRefusals
  PROVE  WholeInv'
  <1>1. ~Submitter(w) /\ ~Submitter(w)' /\ CountGrows /\ SegmentsKept
    BY DEF Submitter, CountGrows, SegmentsKept, SameRefusals
  <1>2. QED BY <1>1, WholeFrame

LEMMA WholeStep ==
  ASSUME TypeInv, TypeInv', FreshInv, WholeInv, ~Instant, NoCrashOfCluster,
         Outside \/ \E w \in Workers : Acts(w)
  PROVE  WholeInv'
  <1> USE DEF SubLabels, ResultLabels, Ending
  <1>1. CASE Outside
    <2>1. /\ UNCHANGED <<segment, job, pc, loc>>
          /\ count'.refusals = count.refusals /\ count'.crashes = count.crashes
      BY <1>1 DEF Outside, SameRefusals
    <2>2. (Gap' <=> Gap) /\ (Whole' <=> Whole)
      BY <2>1 DEF Gap, Whole
    <2>3. \A s \in Segments : InProgress(s)' <=> InProgress(s)
      BY <2>1 DEF InProgress, Submitter
    <2>4. QED BY <2>1, <2>2, <2>3 DEF WholeInv, Submitter
  <1>2. ASSUME NEW w \in Workers, Acts(w)
        PROVE  WholeInv'
    <2>1. CASE Submit(w)
      BY <2>1, WholeSubmit
    <2>2. CASE SubmitBook(w) \/ SubmitRefused(w) \/ SubmitTask(w) \/ SubmitSegment(w) \/ SubmitUnwind(w)
      BY <2>2, WholeSubmitSteps
    <2>3. CASE TakesUp(w)
      BY <2>3, WholeRows DEF TakesUp
    <2>4. CASE PutsBack(w)
      BY <2>4, WholeRows DEF PutsBack, SameRefusals
    <2>5. CASE Claim(w)
      BY <2>5, ClaimEffect, WholeRows DEF SameRefusals
    <2>6. CASE WritesStatus(w)
      BY <2>6, WholeRows DEF WritesStatus, Writes, SameRefusals
    <2>7. CASE Checkpoint(w)
      <3>1. StepOf(w) /\ pc[w] = "work" /\ pc'[w] = "work" /\ UNCHANGED <<segment, job, count>>
        BY <2>7, CheckpointEffect DEF StepOf
      <3>2. QED BY <3>1, WholeRows DEF SameRefusals
    <2>8. CASE Moves(w)
      <3>1. /\ StepOf(w) /\ UNCHANGED <<segment, job>> /\ SameRefusals
            /\ pc[w] \notin SubLabels /\ pc'[w] \notin SubLabels
            /\ pc'[w] \in ResultLabels => pc[w] \in ResultLabels \/ pc[w] = "work"
            /\ pc'[w] \in Ending => pc'[w] \in {"stitched", "complete", "fin_book"}
                                    /\ pc[w] \in {"advance", "check"}
        BY <2>8 DEF Moves, ResultMoves
      <3>2. pc[w] = "work" => NoSubmitter
        BY <2>8 DEF Moves, Submitting, NoSubmitter, Submitter
      <3>3. pc'[w] = "stitched" => Whole
        <4>1. ASSUME pc'[w] = "stitched" PROVE Whole
          <5>1. job.stitch = loc[w].t /\ loc[w].t \in Tasks
            BY <2>8, <3>1, <4>1, HandTypes DEF Moves
          <5>2. QED BY <5>1, TaskNumbers DEF WholeInv
        <4>2. QED BY <4>1
      <3>4. pc'[w] \in {"complete", "fin_book"} => Whole
        <4>1. ASSUME pc'[w] \in {"complete", "fin_book"} PROVE Whole
          <5>1. /\ job.status = "running" /\ pc[w] \in ResultLabels
                /\ \A s \in Segments : segment[s] # "pending"
            BY <2>8, <3>1, <4>1 DEF Moves, AllSegmentsDone
          <5>2. \A v \in Workers : ~Submitter(v)
            BY <5>1 DEF WholeInv
          <5>3. \A s \in Segments : segment[s] = "none" => Gap
            BY <5>1, <5>2 DEF WholeInv, InProgress
          <5>4. \A s \in Segments : segment[s] \in {"none", "pending", "done"}
            BY HandTypes DEF TypeOK
          <5>5. QED BY <5>1, <5>3, <5>4 DEF Whole
        <4>2. QED BY <4>1
      <3>5. ~Submitter(w) /\ ~Submitter(w)' /\ CountGrows /\ SegmentsKept
        BY <3>1 DEF Submitter, CountGrows, SegmentsKept, SameRefusals
      <3>6. QED BY <3>1, <3>2, <3>3, <3>4, <3>5, WholeFrame
    <2>9. CASE Pay(w)
      <3>1. /\ StepOf(w) /\ pc[w] = "pay" /\ pc'[w] = "advance"
            /\ UNCHANGED <<segment, job, count>>
        BY <2>9, PayEffect
      <3>2. QED BY <3>1, WholeRows DEF SameRefusals
    <2>10. CASE EndsJob(w)
      <3>1. /\ StepOf(w) /\ pc[w] \in {"fail_set", "stitched", "complete", "fin_book"}
            /\ pc'[w] = "idle" /\ job'.kind = job.kind /\ job'.stitch = job.stitch
            /\ segment' = segment
            /\ \/ pc[w] = "fail_set" /\ job'.status = "failed"
               \/ pc[w] # "fail_set" /\ job'.status \in {job.status, "assembling", "complete"}
        BY <2>10 DEF EndsJob
      <3>2. job.status # "none" /\ (pc[w] # "fail_set" => Whole)
        BY <3>1 DEF FreshInv, FreshOK, WholeInv
      <3>3. ~Submitter(w) /\ ~Submitter(w)' /\ CountGrows /\ SegmentsKept
        BY <2>10, <3>1 DEF Submitter, CountGrows, SegmentsKept, EndsJob
      <3>4. job' = job \/ job'.status # "running" \/ job'.status = job.status
        BY <3>1
      <3>5. CASE job'.status = job.status
        <4>1. job' = job
          <5>1. TypeOK /\ TypeOK'
            BY DEF TypeInv
          <5>2. QED BY <3>1, <3>5, <5>1 DEF TypeOK, JobRow
        <4>2. QED BY <3>1, <3>3, <4>1, WholeFrame
      <3>6. CASE job'.status # job.status
        <4>1. /\ pc[w] \in ResultLabels /\ job'.status \in {"failed", "assembling", "complete"}
              /\ job'.status \in {"assembling", "complete"} => Whole
          BY <3>1, <3>2, <3>6
        <4>2. QED BY <3>1, <3>3, <4>1, WholeFrame
      <3>7. QED BY <3>5, <3>6
    <2>11. CASE CompleteSegment(w)
      <3>1. PICK t \in Segments : t = loc[w].t
        BY <2>11, CompleteSegmentEffect
      <3>2. /\ StepOf(w) /\ pc[w] = "seg_done" /\ pc'[w] = "check" /\ segment'[t] = "done"
            /\ \A s \in Segments \ {t} : segment'[s] = segment[s]
            /\ UNCHANGED <<job, count>>
        BY <2>11, <3>1, CompleteSegmentEffect
      <3>3. ~Submitter(w) /\ ~Submitter(w)' /\ CountGrows /\ SegmentsKept
        BY <3>2 DEF Submitter, CountGrows, SegmentsKept
      <3>4. QED BY <3>2, <3>3, WholeFrame
    <2>12. CASE FinalizeBook(w) \/ FinalizeTask(w)
      <3>1. /\ StepOf(w) /\ pc[w] \in {"fin_book", "fin_task"} /\ pc'[w] \in {"fin_task", "fin_set"}
            /\ UNCHANGED <<segment, job, count>>
        BY <2>12, FinalizeBookEffect, FinalizeTaskEffect
      <3>2. Whole
        BY <3>1 DEF WholeInv
      <3>3. ~Submitter(w) /\ ~Submitter(w)' /\ CountGrows /\ SegmentsKept
        BY <3>1 DEF Submitter, CountGrows, SegmentsKept
      <3>4. QED BY <3>1, <3>2, <3>3, WholeFrame
    <2>13. CASE FinalizeSet(w)
      <3>1. /\ StepOf(w) /\ pc[w] = "fin_set" /\ pc'[w] = "idle" /\ job'.status = "assembling"
            /\ job'.kind = job.kind /\ UNCHANGED <<segment, count>>
        BY <2>13, FinalizeSetEffect
      <3>2. Whole
        BY <3>1 DEF WholeInv
      <3>3. ~Submitter(w) /\ ~Submitter(w)' /\ CountGrows /\ SegmentsKept
        BY <3>1 DEF Submitter, CountGrows, SegmentsKept
      <3>4. QED BY <3>1, <3>2, <3>3, WholeFrame
    <2>14. CASE w = Reaper /\ Refund
      BY <2>14, RefundEffect, WholeRows DEF SameRefusals
    <2>15. CASE w = Reaper /\ RefundFail
      BY <2>15, RefundFailEffect, WholeRows DEF SameRefusals
    <2>16. CASE Crash(w)
      <3>1. /\ StepOf(w) /\ pc'[w] = "idle" /\ MaxCrashes # 0
            /\ count'.refusals = count.refusals /\ count'.crashes = count.crashes + 1
            /\ UNCHANGED <<segment, job>>
        BY <2>16, CrashEffect
      <3>2. CountGrows /\ SegmentsKept /\ ~Submitter(w)'
        BY <3>1 DEF Submitter, CountGrows, SegmentsKept
      <3>3. CASE Submitter(w)
        <4>1. TypeOK /\ TypeOK' /\ job.kind = "fanout"
          BY <3>1 DEF WholeInv, NoCrashOfCluster, TypeInv, TypeOK, JobRow
        <4>2. Gap'
          BY <3>1, <3>2, <4>1, GapKept
        <4>3. QED BY <3>1, <3>3, <4>2, WholeSubmitter
      <3>4. CASE ~Submitter(w)
        BY <3>1, <3>2, <3>4, WholeFrame
      <3>5. QED BY <3>3, <3>4
    <2>17. QED
      BY <1>2, <2>1, <2>2, <2>3, <2>4, <2>5, <2>6, <2>7, <2>8, <2>9, <2>10, <2>11, <2>12,
         <2>13, <2>14, <2>15, <2>16 DEF Acts
  <1>3. QED BY <1>1, <1>2

(* A job is assembled, or a cluster complete, only when every part is done, *)
(* except for those a fan-out could not book: _advance_manifest counts only *)
(* the segments that have rows, and this is enough when no task ends before *)
(* the request that creates the job, and no process dies in a cluster's.    *)
THEOREM CompleteMeansWholeHolds ==
  ASSUME ~Instant, NoCrashOfCluster
  PROVE  Spec => []CompleteMeansWhole
  <1>1. Init => WholeInv
    BY DEF Init, WholeInv, Submitter, SubLabels, Ending
  <1>2. TypeInv /\ FreshInv /\ WholeInv /\ [Next]_vars => WholeInv'
    BY NextActs, WholeStep
  <1>3. WholeInv => CompleteMeansWhole
    BY DEF WholeInv, Whole, Gap, CompleteMeansWhole
  <1>4. QED BY FreshInvHolds, <1>1, <1>2, <1>3, PTL DEF Spec

-----------------------------------------------------------------------------
(* ClusterInv: what a cluster's submission has booked is in its hands, and *)
(* a refused one is unwinding or keeps nothing live.                        *)

FinLabels == {"fin_book", "fin_task", "fin_set"}

(* a step of a worker that submits nothing *)
LEMMA ClusterFrame ==
  ASSUME TypeInv, TypeInv', ClusterInv, NEW w \in Workers, StepOf(w),
         ~Submitter(w), ~Submitter(w)', LiveTasks' \subseteq LiveTasks \/ job.kind # "distributed",
         job'.kind = job.kind, job'.status = "none" => job.status = "none",
         pc'[w] \in FinLabels => pc[w] \in FinLabels \/ job.kind # "distributed",
         \/ SameRefusals
         \/ count'.refusals = count.refusals + 1 /\ job.kind # "distributed" /\ job'.status # "none"
         \/ count'.refusals = count.refusals /\ count'.crashes = count.crashes + 1
  PROVE  ClusterInv'
  <1>1. \A v \in Workers : /\ (Submitter(v)' <=> Submitter(v))
                           /\ (Submitter(v) => loc'[v] = loc[v] /\ pc'[v] = pc[v])
    BY DEF StepOf, Submitter
  <1>2. \A v \in Workers : InBooking(v)' = InBooking(v) \/ ~Submitter(v)
    BY <1>1 DEF InBooking
  <1>3. job'.status = "none" => count'.refusals = 0
    BY DEF ClusterInv, SameRefusals
  <1>4. job.kind = "distributed" => \A v \in Workers : pc'[v] \notin FinLabels
    BY DEF ClusterInv, StepOf, FinLabels
  <1>5. ASSUME job.kind = "distributed", count'.crashes = 0
        PROVE  /\ SameRefusals /\ LiveTasks' \subseteq LiveTasks
    <2>1. PICK c \in Nat : c = count.crashes
      BY CountFields DEF TypeInv
    <2>2. c + 1 # 0
      BY <2>1
    <2>3. QED BY <1>5, <2>1, <2>2 DEF SameRefusals
  <1>6. ASSUME job.kind = "distributed", count'.crashes = 0
        PROVE  \A v \in Workers : Submitter(v)' => LiveTasks' \subseteq InBooking(v)'
    BY <1>1, <1>2, <1>5, <1>6 DEF ClusterInv, SameRefusals
  <1>7. ASSUME job.kind = "distributed", count'.crashes = 0, count'.refusals > 0
        PROVE  /\ \A v \in Workers : pc'[v] \notin {"sub_book", "sub_task", "sub_seg"}
               /\ LiveTasks' = {} \/ \E v \in Workers : pc'[v] = "sub_unwind"
    <2>1. /\ \A v \in Workers : pc[v] \notin {"sub_book", "sub_task", "sub_seg"}
          /\ LiveTasks = {} \/ \E v \in Workers : pc[v] = "sub_unwind"
      BY <1>5, <1>7 DEF ClusterInv, SameRefusals
    <2>2. \A v \in Workers : pc[v] = "sub_unwind" => pc'[v] = "sub_unwind"
      BY <1>1 DEF Submitter, SubLabels
    <2>3. \A v \in Workers : pc'[v] \notin {"sub_book", "sub_task", "sub_seg"}
      BY <1>1, <2>1 DEF Submitter, SubLabels
    <2>4. QED BY <1>5, <1>7, <2>1, <2>2, <2>3
  <1>8. QED BY <1>3, <1>4, <1>6, <1>7 DEF ClusterInv, FinLabels

(* a step of the only submission *)
LEMMA ClusterSubmitter ==
  ASSUME TypeInv, FreshInv, ClusterInv, NEW w \in Workers, StepOf(w), Submitter(w),
         pc'[w] \in SubLabels \cup {"idle"}, job'.kind = job.kind, job'.status # "none",
         job.kind = "distributed" /\ count'.crashes = 0 =>
           /\ Submitter(w)' => LiveTasks' \subseteq InBooking(w)'
           /\ count'.refusals > 0 =>
                /\ pc'[w] \in {"sub_unwind", "idle"}
                /\ LiveTasks' = {} \/ pc'[w] = "sub_unwind"
  PROVE  ClusterInv'
  <1>1. \A v \in Workers \ {w} : ~Submitter(v) /\ ~Submitter(v)' /\ pc'[v] = pc[v]
    BY DEF FreshInv, OneSubmitter, StepOf, Submitter
  <1>2. job.kind = "distributed" => \A v \in Workers : pc'[v] \notin FinLabels
    BY <1>1 DEF ClusterInv, FinLabels, SubLabels
  <1>3. QED BY <1>1, <1>2 DEF ClusterInv, FinLabels, Submitter, SubLabels

LEMMA ClusterSubmit ==
  ASSUME TypeInv, FreshInv, ClusterInv, NEW w \in Workers, Submit(w)
  PROVE  ClusterInv'
  <1>1. /\ StepOf(w) /\ pc[w] = "idle" /\ pc'[w] = "sub_book" /\ loc'[w].todo = {}
        /\ job.status = "none" /\ job'.status = "running" /\ job'.kind = job.kind
        /\ UNCHANGED <<booking, count>>
    BY SubmitEffect
  <1>2. count'.refusals = 0 /\ LiveTasks' = {}
    BY <1>1 DEF ClusterInv, FreshInv, RowsOK, LiveTasks
  <1>3. \A v \in Workers : pc'[v] \in {"idle", "sub_book"}
    BY <1>1 DEF FreshInv, FreshOK, StepOf
  <1>4. QED BY <1>1, <1>2, <1>3 DEF ClusterInv

LEMMA ClusterSubmitSteps ==
  ASSUME TypeInv, FreshInv, ClusterInv, NEW w \in Workers,
         SubmitBook(w) \/ SubmitRefused(w) \/ SubmitTask(w) \/ SubmitSegment(w) \/ SubmitUnwind(w)
  PROVE  ClusterInv'
  <1> USE DEF Submitter, SubLabels
  <1>1. CASE SubmitBook(w)
    <2>1. /\ StepOf(w) /\ pc[w] = "sub_book" /\ pc'[w] = "sub_task" /\ loc'[w] = loc[w]
          /\ \A u \in Tasks \ {loc[w].t} : booking'[u] = booking[u]
          /\ UNCHANGED <<job, count>> /\ job.status # "none"
      BY <1>1, SubmitBookEffect DEF FreshInv, FreshOK
    <2>2. LiveTasks' \subseteq LiveTasks \cup {loc[w].t} /\ InBooking(w)' = InBooking(w) \cup {loc[w].t}
      BY <2>1 DEF LiveTasks, InBooking
    <2>3. job.kind = "distributed" /\ count.crashes = 0 =>
            LiveTasks \subseteq InBooking(w) /\ ~(count.refusals > 0)
      BY <2>1 DEF ClusterInv
    <2>4. QED BY <2>1, <2>2, <2>3, ClusterSubmitter
  <1>2. CASE SubmitRefused(w)
    <2>1. /\ StepOf(w) /\ pc[w] = "sub_book" /\ UNCHANGED <<booking, job>> /\ job.status # "none"
          /\ \/ job.kind = "fanout" /\ pc'[w] \in {"sub_book", "idle"}
             \/ job.kind = "distributed" /\ pc'[w] = "sub_unwind" /\ loc'[w] = loc[w]
          /\ count'.crashes = count.crashes
      BY <1>2, SubmitRefusedEffect DEF FreshInv, FreshOK, NextMoves
    <2>2. LiveTasks' = LiveTasks
      BY <2>1 DEF LiveTasks
    <2>3. pc'[w] = "sub_unwind" /\ loc'[w] = loc[w] => InBooking(w)' = InBooking(w)
      BY <2>1 DEF InBooking
    <2>4. job.kind = "distributed" /\ count.crashes = 0 => LiveTasks \subseteq InBooking(w)
      BY <2>1 DEF ClusterInv
    <2>5. CASE job.kind = "fanout"
      BY <2>1, <2>5, ClusterSubmitter
    <2>6. CASE job.kind = "distributed" /\ pc'[w] = "sub_unwind" /\ loc'[w] = loc[w]
      BY <2>1, <2>2, <2>3, <2>4, <2>6, ClusterSubmitter
    <2>7. QED BY <2>1, <2>5, <2>6
  <1>3. CASE SubmitTask(w)
    <2>1. /\ StepOf(w) /\ pc[w] = "sub_task" /\ pc'[w] = "sub_seg" /\ loc'[w] = loc[w]
          /\ UNCHANGED <<booking, job, count>> /\ job.status # "none"
      BY <1>3, SubmitTaskEffect DEF FreshInv, FreshOK
    <2>2. LiveTasks' = LiveTasks /\ InBooking(w)' = InBooking(w)
      BY <2>1 DEF LiveTasks, InBooking
    <2>3. job.kind = "distributed" /\ count.crashes = 0 =>
            LiveTasks \subseteq InBooking(w) /\ ~(count.refusals > 0)
      BY <2>1 DEF ClusterInv
    <2>4. QED BY <2>1, <2>2, <2>3, ClusterSubmitter
  <1>4. CASE SubmitSegment(w)
    <2>1. /\ StepOf(w) /\ pc[w] = "sub_seg" /\ UNCHANGED <<booking, job, count>>
          /\ job.status # "none" /\ NextMoves(w, loc[w].todo \cup {loc[w].t})
      BY <1>4, SubmitSegmentEffect DEF FreshInv, FreshOK
    <2>2. LiveTasks' = LiveTasks /\ InBooking(w) = loc[w].todo \cup {loc[w].t}
      BY <2>1 DEF LiveTasks, InBooking
    <2>3. \/ pc'[w] = "sub_book" /\ InBooking(w)' = InBooking(w)
          \/ pc'[w] = "idle"
      BY <2>1, <2>2 DEF InBooking, NextMoves
    <2>4. job.kind = "distributed" /\ count.crashes = 0 =>
            LiveTasks \subseteq InBooking(w) /\ ~(count.refusals > 0)
      BY <2>1 DEF ClusterInv
    <2>5. QED BY <2>1, <2>2, <2>3, <2>4, ClusterSubmitter
  <1>5. CASE SubmitUnwind(w)
    <2>1. /\ StepOf(w) /\ pc[w] = "sub_unwind" /\ count' = count /\ job.status # "none"
          /\ InBooking(w) = loc[w].todo
      BY <1>5, SubmitUnwindEffect DEF FreshInv, FreshOK, InBooking
    <2>2. job.kind = "distributed" /\ count.crashes = 0 => LiveTasks \subseteq InBooking(w)
      BY <2>1 DEF ClusterInv
    <2>3. CASE /\ pc'[w] = "idle" /\ loc[w].todo = {} /\ booking' = booking
               /\ job'.status = "failed" /\ job'.kind = job.kind
      <3>1. LiveTasks' = LiveTasks
        BY <2>3 DEF LiveTasks
      <3>2. QED BY <2>1, <2>2, <2>3, <3>1, ClusterSubmitter
    <2>4. ASSUME NEW t \in Tasks, pc'[w] = "sub_unwind", job' = job,
                 loc'[w].todo = loc[w].todo \ {t},
                 booking'[t] = IF booking[t] = "live" THEN "refunded" ELSE booking[t],
                 \A u \in Tasks \ {t} : booking'[u] = booking[u]
          PROVE  ClusterInv'
      <3>1. LiveTasks' = LiveTasks \ {t} /\ InBooking(w)' = InBooking(w) \ {t}
        BY <2>1, <2>4 DEF LiveTasks, InBooking
      <3>2. QED BY <2>1, <2>2, <2>4, <3>1, ClusterSubmitter
    <2>5. QED BY <1>5, <2>3, <2>4, SubmitUnwindEffect
  <1>6. QED BY <1>1, <1>2, <1>3, <1>4, <1>5

(* a step that touches neither a booking, the job's row nor the refusals *)
LEMMA ClusterRows ==
  ASSUME TypeInv, TypeInv', ClusterInv, NEW w \in Workers, StepOf(w),
         pc[w] \notin SubLabels, pc'[w] \notin SubLabels,
         pc'[w] \in FinLabels => pc[w] \in FinLabels \/ job.kind # "distributed",
         UNCHANGED <<booking, job>>, SameRefusals
  PROVE  ClusterInv'
  <1>1. LiveTasks' = LiveTasks /\ ~Submitter(w) /\ ~Submitter(w)'
    BY DEF LiveTasks, Submitter
  <1>2. QED BY <1>1, ClusterFrame

(* a booking is settled *)
LEMMA ClusterSettle ==
  ASSUME TypeInv, TypeInv', ClusterInv, NEW w \in Workers, StepOf(w), NEW t \in Tasks,
         pc[w] \notin SubLabels, pc'[w] \notin SubLabels \cup FinLabels,
         booking[t] # "live" => booking'[t] = booking[t],
         \A u \in Tasks \ {t} : booking'[u] = booking[u], UNCHANGED <<job, count>>
  PROVE  ClusterInv'
  <1>1. LiveTasks' \subseteq LiveTasks /\ ~Submitter(w) /\ ~Submitter(w)'
    BY DEF LiveTasks, Submitter
  <1>2. QED BY <1>1, ClusterFrame DEF SameRefusals

LEMMA ClusterStep ==
  ASSUME TypeInv, TypeInv', FreshInv, ClusterInv, Outside \/ \E w \in Workers : Acts(w)
  PROVE  ClusterInv'
  <1> USE DEF SubLabels, FinLabels
  <1>1. CASE Outside
    <2>1. /\ UNCHANGED <<job, pc, loc>> /\ LiveTasks' \subseteq LiveTasks
          /\ count'.refusals = count.refusals /\ count'.crashes = count.crashes
      BY <1>1 DEF Outside, SameRefusals, LiveTasks
    <2>2. \A v \in Workers : InBooking(v)' = InBooking(v)
      BY <2>1 DEF InBooking
    <2>3. QED BY <2>1, <2>2 DEF ClusterInv, Submitter
  <1>2. ASSUME NEW w \in Workers, Acts(w)
        PROVE  ClusterInv'
    <2>1. CASE Submit(w)
      BY <2>1, ClusterSubmit
    <2>2. CASE SubmitBook(w) \/ SubmitRefused(w) \/ SubmitTask(w) \/ SubmitSegment(w) \/ SubmitUnwind(w)
      BY <2>2, ClusterSubmitSteps
    <2>3. CASE TakesUp(w)
      BY <2>3, ClusterRows DEF TakesUp
    <2>4. CASE PutsBack(w)
      BY <2>4, ClusterRows DEF PutsBack, SameRefusals
    <2>5. CASE Claim(w)
      BY <2>5, ClaimEffect, ClusterRows DEF SameRefusals
    <2>6. CASE WritesStatus(w)
      BY <2>6, ClusterRows DEF WritesStatus, Writes, SameRefusals
    <2>7. CASE Checkpoint(w)
      <3>1. StepOf(w) /\ pc[w] = "work" /\ pc'[w] = "work" /\ UNCHANGED <<booking, job, count>>
        BY <2>7, CheckpointEffect DEF StepOf
      <3>2. QED BY <3>1, ClusterRows DEF SameRefusals
    <2>8. CASE Moves(w)
      <3>1. /\ StepOf(w) /\ UNCHANGED <<booking, job>> /\ SameRefusals
            /\ pc[w] \notin SubLabels /\ pc'[w] \notin SubLabels
            /\ pc'[w] \in FinLabels => job.kind # "distributed"
        BY <2>8 DEF Moves, ResultMoves
      <3>2. QED BY <3>1, ClusterRows
    <2>9. CASE Pay(w)
      <3>1. PICK t \in Tasks : t = loc[w].t
        BY <2>9, PayEffect
      <3>2. /\ StepOf(w) /\ pc[w] = "pay" /\ pc'[w] = "advance"
            /\ booking[t] # "live" => booking'[t] = booking[t]
            /\ \A u \in Tasks \ {t} : booking'[u] = booking[u]
            /\ UNCHANGED <<job, count>>
        BY <2>9, <3>1, PayEffect
      <3>3. QED BY <3>2, ClusterSettle
    <2>10. CASE EndsJob(w)
      <3>1. /\ StepOf(w) /\ pc[w] \in {"fail_set", "stitched", "complete", "fin_book"}
            /\ pc'[w] = "idle" /\ job'.kind = job.kind /\ booking' = booking
            /\ job'.status \in {job.status, "failed", "assembling", "complete"}
            /\ count'.crashes = count.crashes
            /\ \/ pc[w] = "fin_book" /\ count'.refusals = count.refusals + 1
               \/ pc[w] # "fin_book" /\ count'.refusals = count.refusals
        BY <2>10 DEF EndsJob
      <3>2. job.status # "none" /\ (pc[w] = "fin_book" => job.kind # "distributed")
        BY <3>1 DEF FreshInv, FreshOK, ClusterInv
      <3>3. LiveTasks' = LiveTasks /\ ~Submitter(w) /\ ~Submitter(w)'
        BY <3>1 DEF LiveTasks, Submitter
      <3>4. QED BY <3>1, <3>2, <3>3, ClusterFrame DEF SameRefusals
    <2>11. CASE CompleteSegment(w)
      <3>1. /\ StepOf(w) /\ pc[w] = "seg_done" /\ pc'[w] = "check"
            /\ UNCHANGED <<booking, job, count>>
        BY <2>11, CompleteSegmentEffect
      <3>2. QED BY <3>1, ClusterRows DEF SameRefusals
    <2>12. CASE FinalizeBook(w)
      <3>1. /\ StepOf(w) /\ pc[w] = "fin_book" /\ pc'[w] = "fin_task" /\ UNCHANGED <<job, count>>
        BY <2>12, FinalizeBookEffect
      <3>2. job.kind # "distributed" /\ ~Submitter(w) /\ ~Submitter(w)'
        BY <3>1 DEF ClusterInv, Submitter
      <3>3. QED BY <3>1, <3>2, ClusterFrame DEF SameRefusals
    <2>13. CASE FinalizeTask(w)
      <3>1. /\ StepOf(w) /\ pc[w] = "fin_task" /\ pc'[w] = "fin_set"
            /\ UNCHANGED <<booking, job, count>>
        BY <2>13, FinalizeTaskEffect
      <3>2. QED BY <3>1, ClusterRows DEF SameRefusals
    <2>14. CASE FinalizeSet(w)
      <3>1. /\ StepOf(w) /\ pc[w] = "fin_set" /\ pc'[w] = "idle" /\ UNCHANGED <<booking, count>>
            /\ job'.kind = job.kind /\ job'.status = "assembling"
        BY <2>14, FinalizeSetEffect
      <3>2. LiveTasks' = LiveTasks /\ ~Submitter(w) /\ ~Submitter(w)'
        BY <3>1 DEF LiveTasks, Submitter
      <3>3. QED BY <3>1, <3>2, ClusterFrame DEF SameRefusals
    <2>15. CASE w = Reaper /\ Refund
      <3>1. PICK t \in Tasks : t = loc[w].t
        BY <2>15, RefundEffect
      <3>2. /\ StepOf(w) /\ pc[w] = "reap" /\ pc'[w] \in {"refund_fail", "idle"}
            /\ booking[t] # "live" => booking'[t] = booking[t]
            /\ \A u \in Tasks \ {t} : booking'[u] = booking[u]
            /\ UNCHANGED <<job, count>>
        BY <2>15, <3>1, RefundEffect
      <3>3. QED BY <3>2, ClusterSettle
    <2>16. CASE w = Reaper /\ RefundFail
      <3>1. /\ StepOf(w) /\ pc[w] = "refund_fail" /\ pc'[w] = "idle"
            /\ UNCHANGED <<booking, job, count>>
        BY <2>16, RefundFailEffect
      <3>2. QED BY <3>1, ClusterRows DEF SameRefusals
    <2>17. CASE Crash(w)
      <3>1. /\ StepOf(w) /\ pc'[w] = "idle" /\ pc[w] # "idle"
            /\ count'.refusals = count.refusals /\ count'.crashes = count.crashes + 1
            /\ UNCHANGED <<booking, job>>
        BY <2>17, CrashEffect
      <3>2. LiveTasks' = LiveTasks
        BY <3>1 DEF LiveTasks
      <3>3. CASE Submitter(w)
        <4>1. PICK c \in Nat : c = count.crashes
          BY CountFields DEF TypeInv
        <4>2. count'.crashes # 0
          BY <3>1, <4>1
        <4>3. job.status # "none"
          BY <3>1 DEF FreshInv, FreshOK
        <4>4. QED BY <3>1, <3>3, <4>2, <4>3, ClusterSubmitter
      <3>4. CASE ~Submitter(w)
        <4>1. ~Submitter(w)'
          BY <3>1 DEF Submitter
        <4>2. QED BY <3>1, <3>2, <3>4, <4>1, ClusterFrame
      <3>5. QED BY <3>3, <3>4
    <2>18. QED
      BY <1>2, <2>1, <2>2, <2>3, <2>4, <2>5, <2>6, <2>7, <2>8, <2>9, <2>10, <2>11, <2>12,
         <2>13, <2>14, <2>15, <2>16, <2>17 DEF Acts
  <1>3. QED BY <1>1, <1>2

(* When a rank of a cluster is refused, distributed_job gives back every    *)
(* booking it made before: none is live once the request has ended, even    *)
(* when results, retries, refunds and acceptances of the ranks that were    *)
(* already created come in while it unwinds.                                *)
THEOREM AllOrNothingHolds == Spec => []AllOrNothing
  <1>1. Init => ClusterInv
    BY DEF Init, ClusterInv, LiveTasks, Submitter, SubLabels
  <1>2. TypeInv /\ FreshInv /\ ClusterInv /\ [Next]_vars => ClusterInv'
    BY NextActs, ClusterStep
  <1>3. ClusterInv => AllOrNothing
    BY DEF ClusterInv, AllOrNothing, LiveTasks, Submitting
  <1>4. QED BY FreshInvHolds, <1>1, <1>2, <1>3, PTL DEF Spec
=============================================================================
