------------------------------ MODULE TaskQueue ------------------------------
(***************************************************************************)
(* The task queue and a job made of several tasks: agents claim, run and   *)
(* report tasks, buyers retry and restore them, the reaper reschedules or  *)
(* refunds what a dead host left, and results advance the manifest of a    *)
(* fan-out job (segments, then a stitch task) or of a distributed cluster  *)
(* (lumaris_api/db.py, main.py; lumaris_agent/task_fetcher.py).            *)
(*                                                                         *)
(* Tasks 1 .. Parts belong to the segments of one job, the others are the  *)
(* slots its stitch tasks can take.  Each task has one booking, of which   *)
(* RentalEscrow models the money and VMFailover the capacity: here it is   *)
(* live, released or refunded.  An action is what one commit makes         *)
(* visible, or one read whose stale result a later step uses; pc[w] is     *)
(* what worker w does next.  An agent is its own worker: it waits for the  *)
(* answer of every request it sends.                                       *)
(***************************************************************************)
EXTENDS Integers, FiniteSets

CONSTANTS
  Parts, Stitches,  \* segments of the job, and slots for stitch tasks
  Agents, Buyers,   \* polling machines; the buyer's request threads
  Reaper,           \* the maintenance loop
  Owned,            \* the tasks on hardware of each agent's seller
  Hosts, Place,     \* hosts, and the host each task is booked on
  Kinds,            \* kinds of job: subset of {"fanout", "distributed"}
  Backups,          \* tasks with backup_enabled
  Handlers,         \* buyer's requests enabled: subset of AllHandlers
  Instant,          \* may a task end before the request that created it
  MaxRetries,       \* retry_task's max_retries
  MaxRefusals,      \* bound on the bookings refused for funds or capacity
  MaxFailures,      \* bound on the failed results
  MaxRestores,      \* bound on the restores
  MaxSilences,      \* bound on the hosts that stop their heartbeats
  MaxCrashes        \* bound on the workers that die half way

AllHandlers == {"retry", "restore", "accept"}
Tasks == 1 .. (Parts + Stitches)
Segments == 1 .. Parts
Workers == Agents \cup Buyers \cup {Reaper}

ASSUME CountAssumption == /\ {Parts, Stitches, MaxRetries, MaxRefusals, MaxFailures,
                              MaxRestores, MaxSilences, MaxCrashes} \subseteq Nat
                          /\ Instant \in BOOLEAN
ASSUME PartsAssumption == Parts > 0
ASSUME PlaceAssumption == Owned \in [Agents -> SUBSET Tasks] /\ Place \in [Tasks -> Hosts]
ASSUME SetAssumption == /\ Kinds \subseteq {"fanout", "distributed"}
                        /\ Handlers \subseteq AllHandlers /\ Backups \subseteq Tasks
ASSUME WorkerAssumption == /\ Agents \cap Buyers = {} /\ Reaper \notin Agents \cup Buyers

VARIABLES
  task,      \* tasks: status, retries, has a checkpoint, interrupted_at is set
  booking,   \* bookings.status of each task's booking
  segment,   \* job_segments.status of each segment
  job,       \* multinode_jobs: kind, status, stitch_task_id
  online,    \* specs.status = "online"
  requeued,  \* the tasks ever put back to pending after their creation
  count,     \* refusals, failures, restores, silences and crashes so far
  pc, loc    \* where each worker is, and its local variables

vars == <<task, booking, segment, job, online, requeued, count, pc, loc>>

Open == {"pending", "assigned", "running"}
TaskRow == [status : {"none", "completed", "failed"} \cup Open, retries : 0 .. MaxRetries,
            saved : BOOLEAN, interrupted : BOOLEAN]
JobRow == [kind : {"fanout", "distributed"}, stitch : Tasks \cup {0},
           status : {"none", "running", "assembling", "complete", "failed"}]
Counts == [refusals : Nat, failures : Nat, restores : Nat, silences : Nat, crashes : Nat]

(* t: the task in hand; was: a status as loaded; n: the retries as loaded, *)
(* or the stitch task being booked; todo: the tasks a submission has made. *)
Locals == [t : Tasks \cup {0}, n : Nat, todo : SUBSET Segments,
           was : {"none", "assembling", "complete", "failed", "completed"} \cup Open]
NoLocals == [t |-> 0, was |-> "none", n |-> 0, todo |-> {}]
Labels == {"idle", "sub_book", "sub_task", "sub_seg", "sub_unwind",
           "claim", "mark", "work", "submit", "submit_failed", "pay",
           "fail_read", "fail_set", "advance", "stitched", "seg_done", "check",
           "complete", "fin_book", "fin_task", "fin_set",
           "retry", "restore", "reap", "refund_fail"}

TypeOK ==
  /\ task \in [Tasks -> TaskRow]
  /\ booking \in [Tasks -> {"none", "live", "released", "refunded"}]
  /\ segment \in [Segments -> {"none", "pending", "done"}]
  /\ job \in JobRow /\ online \in [Hosts -> BOOLEAN]
  /\ requeued \subseteq Tasks /\ count \in Counts
  /\ pc \in [Workers -> Labels] /\ loc \in [Workers -> Locals]

Init ==
  /\ task = [t \in Tasks |-> [status |-> "none", retries |-> 0,
                              saved |-> FALSE, interrupted |-> FALSE]]
  /\ booking = [t \in Tasks |-> "none"] /\ segment = [s \in Segments |-> "none"]
  /\ \E k \in Kinds : job = [kind |-> k, status |-> "none", stitch |-> 0]
  /\ online = [h \in Hosts |-> TRUE] /\ requeued = {}
  /\ count = [refusals |-> 0, failures |-> 0, restores |-> 0, silences |-> 0, crashes |-> 0]
  /\ pc = [w \in Workers |-> "idle"] /\ loc = [w \in Workers |-> NoLocals]

-----------------------------------------------------------------------------
(* Helpers *)

Goto(w, from, to) == pc[w] = from /\ pc' = [pc EXCEPT ![w] = to] /\ UNCHANGED loc
GotoWith(w, from, to, l) ==
  pc[w] = from /\ pc' = [pc EXCEPT ![w] = to] /\ loc' = [loc EXCEPT ![w] = l]
Finish(w, from) == GotoWith(w, from, "idle", NoLocals)

SetTask(t, s) == task' = [task EXCEPT ![t].status = s]
SetJob(s) == job' = [job EXCEPT !.status = s]
NewTask(t) == SetTask(t, "pending")
Requeue(t) == requeued' = requeued \cup {t}
Settle(t, s) == booking' = [booking EXCEPT ![t] = IF @ = "live" THEN s ELSE @]

(* no unit left on the node, or not enough in the wallet *)
Refused == /\ count.refusals < MaxRefusals
           /\ count' = [count EXCEPT !.refusals = @ + 1]

-----------------------------------------------------------------------------
(* render_job, transcode_job and distributed_job: the segments are booked, *)
(* created and recorded one after the other.                               *)

Submit(w) ==
  /\ job.status = "none" /\ SetJob("running")
  /\ GotoWith(w, "idle", "sub_book", [NoLocals EXCEPT !.t = 1])
  /\ UNCHANGED <<task, booking, segment, online, requeued, count>>

(* on to the next segment, if there is one *)
NextPart(w, from, todo) ==
  IF loc[w].t < Parts
  THEN GotoWith(w, from, "sub_book", [NoLocals EXCEPT !.t = loc[w].t + 1, !.todo = todo])
  ELSE Finish(w, from)

SubmitBook(w) ==
  /\ Goto(w, "sub_book", "sub_task") /\ booking' = [booking EXCEPT ![loc[w].t] = "live"]
  /\ UNCHANGED <<task, segment, job, online, requeued, count>>

(* a fan-out job skips the segment, a cluster unwinds those it has booked *)
SubmitRefused(w) ==
  /\ Refused
  /\ \/ job.kind = "fanout" /\ NextPart(w, "sub_book", loc[w].todo)
     \/ job.kind = "distributed" /\ Goto(w, "sub_book", "sub_unwind")
  /\ UNCHANGED <<task, booking, segment, job, online, requeued>>

SubmitTask(w) ==
  /\ Goto(w, "sub_task", "sub_seg") /\ NewTask(loc[w].t)
  /\ UNCHANGED <<booking, segment, job, online, requeued, count>>

SubmitSegment(w) ==
  /\ NextPart(w, "sub_seg", loc[w].todo \cup {loc[w].t})
  /\ segment' = [segment EXCEPT ![loc[w].t] = "pending"]
  /\ UNCHANGED <<task, booking, job, online, requeued, count>>

(* Mutant: the job is failed and nothing given back. *)
SubmitUnwindForgotten(w) ==
  /\ Finish(w, "sub_unwind") /\ SetJob("failed")
  /\ UNCHANGED <<task, booking, segment, online, requeued, count>>

SubmitUnwind(w) ==
  /\ \/ \E t \in loc[w].todo :
          /\ GotoWith(w, "sub_unwind", "sub_unwind", [loc[w] EXCEPT !.todo = @ \ {t}])
          /\ Settle(t, "refunded") /\ UNCHANGED job
     \/ /\ loc[w].todo = {}
        /\ Finish(w, "sub_unwind") /\ SetJob("failed") /\ UNCHANGED booking
  /\ UNCHANGED <<task, segment, online, requeued, count>>

(* a job is being submitted, or its stitch task being recorded *)
Submitting == \E w \in Workers : pc[w] \in {"sub_book", "sub_task", "sub_seg",
                                            "sub_unwind", "fin_task", "fin_set"}

-----------------------------------------------------------------------------
(* jobs_next: the oldest pending task of the agent's seller *)

ClaimRead(a) ==
  LET pending == {t \in Owned[a] : task[t].status = "pending"} IN
  /\ \E t \in pending : /\ \A u \in pending : t <= u
                        /\ GotoWith(a, "idle", "claim", [NoLocals EXCEPT !.t = t])
  /\ UNCHANGED <<task, booking, segment, job, online, requeued, count>>

(* Mutant: the claim does not look at the status again. *)
ClaimUnguarded(a) ==
  /\ Goto(a, "claim", "mark") /\ SetTask(loc[a].t, "assigned")
  /\ UNCHANGED <<booking, segment, job, online, requeued, count>>

(* the CAS on the status; who loses it polls again *)
Claim(a) ==
  /\ pc[a] = "claim"
  /\ \/ /\ task[loc[a].t].status = "pending"
        /\ Goto(a, "claim", "mark") /\ SetTask(loc[a].t, "assigned")
     \/ /\ task[loc[a].t].status # "pending"
        /\ Finish(a, "claim") /\ UNCHANGED task
  /\ UNCHANGED <<booking, segment, job, online, requeued, count>>

(* mark_task_running: a blind write *)
MarkRunning(a) ==
  /\ Goto(a, "mark", "work") /\ SetTask(loc[a].t, "running")
  /\ UNCHANGED <<booking, segment, job, online, requeued, count>>

(* record_checkpoint, while the task runs *)
Checkpoint(a) ==
  /\ pc[a] = "work" /\ loc[a].t \in Backups /\ ~task[loc[a].t].saved
  /\ task' = [task EXCEPT ![loc[a].t].saved = TRUE]
  /\ UNCHANGED <<booking, segment, job, online, requeued, count, pc, loc>>

-----------------------------------------------------------------------------
(* jobs_result *)

(* a result, and the task's row as the handler loads it *)
Report(a, to) ==
  /\ Instant \/ ~Submitting
  /\ GotoWith(a, "work", to, [loc[a] EXCEPT !.was = task[loc[a].t].status])
  /\ UNCHANGED <<task, booking, segment, job, online, requeued>>

ReportCompleted(a) == Report(a, "submit") /\ UNCHANGED count

ReportFailed(a) ==
  /\ count.failures < MaxFailures /\ Report(a, "submit_failed")
  /\ count' = [count EXCEPT !.failures = @ + 1]

(* submit_task_result: a blind write of the status, if it is not the one   *)
(* that was loaded                                                         *)
SubmitResult(a, from, to, s) ==
  /\ Goto(a, from, to)
  /\ IF loc[a].was = s THEN UNCHANGED task ELSE SetTask(loc[a].t, s)
  /\ UNCHANGED <<booking, segment, job, online, requeued, count>>

SubmitCompleted(a) == SubmitResult(a, "submit", "pay", "completed")
SubmitFailed(a) == SubmitResult(a, "submit_failed", "fail_read", "failed")

(* Mutant: the manifest is advanced whether or not the seller is paid. *)
PayForgotten(a) ==
  /\ Goto(a, "pay", "advance")
  /\ UNCHANGED <<task, booking, segment, job, online, requeued, count>>

(* release_booking, if it is not settled yet *)
Pay(a) ==
  /\ Goto(a, "pay", "advance") /\ Settle(loc[a].t, "released")
  /\ UNCHANGED <<task, segment, job, online, requeued, count>>

(* segment_for_task *)
HasSegment(t) == t \in Segments /\ segment[t] # "none"

(* _fail_distributed_if_member: the status is read, then written *)
FailRead(a) ==
  /\ IF HasSegment(loc[a].t) /\ job.kind = "distributed" /\ job.status = "running"
     THEN Goto(a, "fail_read", "fail_set") ELSE Finish(a, "fail_read")
  /\ UNCHANGED <<task, booking, segment, job, online, requeued, count>>

FailSet(a) ==
  /\ Finish(a, "fail_set") /\ SetJob("failed")
  /\ UNCHANGED <<task, booking, segment, online, requeued, count>>

-----------------------------------------------------------------------------
(* _advance_manifest and _finalize_job *)

Advance(a) ==
  LET t == loc[a].t IN
  /\ pc[a] = "advance"
  /\ \/ /\ job.stitch = t
        /\ GotoWith(a, "advance", "stitched", [loc[a] EXCEPT !.was = job.status])
     \/ job.stitch # t /\ HasSegment(t) /\ Goto(a, "advance", "seg_done")
     \/ job.stitch # t /\ ~HasSegment(t) /\ Finish(a, "advance")
  /\ UNCHANGED <<task, booking, segment, job, online, requeued, count>>

Stitched(a) ==
  /\ Finish(a, "stitched")
  /\ IF loc[a].was = "complete" THEN UNCHANGED job ELSE SetJob("complete")
  /\ UNCHANGED <<task, booking, segment, online, requeued, count>>

CompleteSegment(a) ==
  /\ Goto(a, "seg_done", "check")
  /\ segment' = [segment EXCEPT ![loc[a].t] = "done"]
  /\ UNCHANGED <<task, booking, job, online, requeued, count>>

(* Mutant: one segment is enough. *)
AnySegmentDone == \E s \in Segments : segment[s] = "done"
AllSegmentsDone == /\ \E s \in Segments : segment[s] = "done"
                   /\ \A s \in Segments : segment[s] # "pending"

(* Mutant: the last segment does not start the assembly. *)
CheckForgotten(a) ==
  /\ Finish(a, "check")
  /\ UNCHANGED <<task, booking, segment, job, online, requeued, count>>

CheckAllDone(a) ==
  /\ IF job.status = "running" /\ AllSegmentsDone
     THEN Goto(a, "check", IF job.kind = "distributed" THEN "complete" ELSE "fin_book")
     ELSE Finish(a, "check")
  /\ UNCHANGED <<task, booking, segment, job, online, requeued, count>>

CompleteCluster(a) ==
  /\ Finish(a, "complete") /\ SetJob("complete")
  /\ UNCHANGED <<task, booking, segment, online, requeued, count>>

Unused == {t \in Tasks \ Segments : booking[t] = "none"}

FinalizeBook(a) ==
  /\ \E t \in Unused :
       /\ online[Place[t]] /\ GotoWith(a, "fin_book", "fin_task", [loc[a] EXCEPT !.n = t])
       /\ booking' = [booking EXCEPT ![t] = "live"]
  /\ UNCHANGED <<task, segment, job, online, requeued, count>>

(* no node, no unit or no funds: the job is left assembling *)
FinalizeRefused(a) ==
  /\ Finish(a, "fin_book") /\ Refused /\ SetJob("assembling")
  /\ UNCHANGED <<task, booking, segment, online, requeued>>

FinalizeTask(a) ==
  /\ Goto(a, "fin_task", "fin_set") /\ NewTask(loc[a].n)
  /\ UNCHANGED <<booking, segment, job, online, requeued, count>>

FinalizeSet(a) ==
  /\ Finish(a, "fin_set")
  /\ job' = [job EXCEPT !.status = "assembling", !.stitch = loc[a].n]
  /\ UNCHANGED <<task, booking, segment, online, requeued, count>>

-----------------------------------------------------------------------------
(* The buyer's requests *)

(* Mutant: the limit of retries is not checked. *)
RetryReadUnlimited(w, t) ==
  /\ "retry" \in Handlers /\ task[t].status = "failed"
  /\ GotoWith(w, "idle", "retry", [NoLocals EXCEPT !.t = t, !.n = task[t].retries])
  /\ UNCHANGED <<task, booking, segment, job, online, requeued, count>>

(* retry_task checks the row it loads and rewrites it *)
RetryRead(w, t) ==
  /\ "retry" \in Handlers /\ task[t].status = "failed" /\ task[t].retries < MaxRetries
  /\ GotoWith(w, "idle", "retry", [NoLocals EXCEPT !.t = t, !.n = task[t].retries])
  /\ UNCHANGED <<task, booking, segment, job, online, requeued, count>>

RetryWrite(w) ==
  LET t == loc[w].t IN
  /\ Finish(w, "retry") /\ Requeue(t)
  /\ task' = [task EXCEPT ![t].status = "pending", ![t].retries = loc[w].n + 1]
  /\ UNCHANGED <<booking, segment, job, online, count>>

(* restore_task, whatever the task's status *)
RestoreRead(w, t) ==
  /\ "restore" \in Handlers /\ task[t].saved /\ count.restores < MaxRestores
  /\ count' = [count EXCEPT !.restores = @ + 1]
  /\ GotoWith(w, "idle", "restore", [NoLocals EXCEPT !.t = t, !.was = task[t].status])
  /\ UNCHANGED <<task, booking, segment, job, online, requeued>>

RestoreWrite(w) ==
  /\ Finish(w, "restore")
  /\ IF loc[w].was = "pending" THEN UNCHANGED <<task, requeued>>
     ELSE SetTask(loc[w].t, "pending") /\ Requeue(loc[w].t)
  /\ UNCHANGED <<booking, segment, job, online, count>>

(* release_endpoint: the buyer pays without waiting for the result *)
Accept(t) ==
  /\ "accept" \in Handlers /\ booking[t] = "live" /\ Settle(t, "released")
  /\ UNCHANGED <<task, segment, job, online, requeued, count, pc, loc>>

-----------------------------------------------------------------------------
(* Hosts and settle_dead_specs *)

GoSilent(h) ==
  /\ online[h] /\ count.silences < MaxSilences
  /\ online' = [online EXCEPT ![h] = FALSE]
  /\ count' = [count EXCEPT !.silences = @ + 1]
  /\ UNCHANGED <<task, booking, segment, job, requeued, pc, loc>>

Heartbeat(h) ==
  /\ ~online[h] /\ online' = [online EXCEPT ![h] = TRUE]
  /\ UNCHANGED <<task, booking, segment, job, requeued, count, pc, loc>>

(* the live bookings of an offline host, and the task's row *)
ReapRead(t) ==
  /\ ~online[Place[t]] /\ booking[t] = "live"
  /\ GotoWith(Reaper, "idle", "reap", [NoLocals EXCEPT !.t = t, !.was = task[t].status])
  /\ UNCHANGED <<task, booking, segment, job, online, requeued, count>>

(* backup_enabled with a checkpoint *)
Resumable(t) == loc[Reaper].was \in Open /\ task[t].saved

(* a resumable task is queued again, until its grace has elapsed *)
Reschedule ==
  LET t == loc[Reaper].t IN
  /\ pc[Reaper] = "reap" /\ Resumable(t) /\ Finish(Reaper, "reap")
  /\ IF loc[Reaper].was = "pending"
     THEN task' = [task EXCEPT ![t].interrupted = TRUE] /\ UNCHANGED requeued
     ELSE /\ task' = [task EXCEPT ![t].status = "pending", ![t].interrupted = TRUE]
          /\ Requeue(t)
  /\ UNCHANGED <<booking, segment, job, online, count>>

(* refund_booking, unless a settlement was faster *)
Refund ==
  LET t == loc[Reaper].t IN
  /\ pc[Reaper] = "reap" /\ (Resumable(t) => task[t].interrupted)
  /\ IF booking[t] = "live"
     THEN Goto(Reaper, "reap", "refund_fail") ELSE Finish(Reaper, "reap")
  /\ Settle(t, "refunded")
  /\ UNCHANGED <<task, segment, job, online, requeued, count>>

RefundFail ==
  LET t == loc[Reaper].t IN
  /\ Finish(Reaper, "refund_fail")
  /\ IF task[t].status \in Open THEN SetTask(t, "failed") ELSE UNCHANGED task
  /\ UNCHANGED <<booking, segment, job, online, requeued, count>>

(* an agent restarts, its report is lost, or a handler dies half way *)
Crash(w) ==
  /\ pc[w] # "idle" /\ count.crashes < MaxCrashes
  /\ count' = [count EXCEPT !.crashes = @ + 1] /\ Finish(w, pc[w])
  /\ UNCHANGED <<task, booking, segment, job, online, requeued>>

-----------------------------------------------------------------------------
SubmitStep(w) == \/ SubmitBook(w) \/ SubmitRefused(w) \/ SubmitTask(w)
                 \/ SubmitSegment(w) \/ SubmitUnwind(w)
BuyerStep(w) == SubmitStep(w) \/ RetryWrite(w) \/ RestoreWrite(w)
BuyerArrive(w) == Submit(w) \/ \E t \in Tasks : RetryRead(w, t) \/ RestoreRead(w, t)

ResultStep(a) == \/ SubmitCompleted(a) \/ SubmitFailed(a) \/ Pay(a) \/ FailRead(a)
                 \/ FailSet(a) \/ Advance(a) \/ Stitched(a) \/ CompleteSegment(a)
                 \/ CheckAllDone(a) \/ CompleteCluster(a) \/ FinalizeBook(a)
                 \/ FinalizeRefused(a) \/ FinalizeTask(a) \/ FinalizeSet(a)
(* job_loop: poll, run, report *)
AgentStep(a) == \/ ClaimRead(a) \/ Claim(a) \/ MarkRunning(a)
                \/ ReportCompleted(a) \/ ReportFailed(a) \/ ResultStep(a)
ReaperStep == (\E t \in Tasks : ReapRead(t)) \/ Reschedule \/ Refund \/ RefundFail

Next == \/ \E w \in Buyers : BuyerArrive(w) \/ BuyerStep(w)
        \/ \E a \in Agents : AgentStep(a) \/ Checkpoint(a)
        \/ ReaperStep
        \/ \E h \in Hosts : GoSilent(h) \/ Heartbeat(h)
        \/ \E t \in Tasks : Accept(t)
        \/ \E w \in Workers : Crash(w)

Spec == Init /\ [][Next]_vars

(* Agents poll, their tasks end and a handler that began goes on, and so   *)
(* does the maintenance loop; buyers need not retry, nor hosts come back.  *)
FairSpec == /\ Spec
            /\ \A w \in Buyers : WF_vars(BuyerStep(w))
            /\ \A a \in Agents : WF_vars(AgentStep(a))
            /\ WF_vars(ReaperStep)

-----------------------------------------------------------------------------
(* Safety *)

(* A task is handed out once for each time it is queued: one that was never *)
(* queued again is never held by two agents, however they race for it.     *)
Holds(a, t) == pc[a] \in {"mark", "work"} /\ loc[a].t = t
HandedOutOnce ==
  \A t \in Tasks \ requeued : \A a, b \in Agents : Holds(a, t) /\ Holds(b, t) => a = b

(* A segment counts as done only when the booking of its task is settled:   *)
(* a job never goes on with work whose seller still waits for the money.   *)
DoneIsSettled ==
  \A s \in Segments : segment[s] = "done" => booking[s] \in {"released", "refunded"}

(* A job is assembled, or a cluster complete, only when every one of the    *)
(* parts it was split into is done; the only parts it can do without are   *)
(* the ones a fan-out submission could not book or died before booking.    *)
CompleteMeansWhole ==
  job.status \in {"assembling", "complete"} =>
    \A s \in Segments : \/ segment[s] = "done"
                        \/ segment[s] = "none" /\ job.kind = "fanout"
                             /\ count.refusals + count.crashes > 0

(* A cluster is formed whole or not at all: when a rank could not be booked *)
(* and the submission has ended, no booking of the others keeps the money. *)
AllOrNothing ==
  job.kind = "distributed" /\ count.refusals > 0 /\ count.crashes = 0 /\ ~Submitting
    => \A t \in Tasks : booking[t] # "live"

(* A task runs for a booking that still holds its money in escrow, or that  *)
(* has paid the seller; nobody is handed work whose escrow went back.      *)
WorkIsPaid ==
  [][\A a \in Agents : pc[a] = "claim" /\ pc'[a] = "mark" => booking[loc[a].t] # "refunded"]_vars

(* One stitch task is booked for a job. *)
StitchedOnce == Cardinality({t \in Tasks \ Segments : booking[t] # "none"}) <= 1

(* Liveness *)

(* A job that nothing goes wrong with is completed: unless a part was       *)
(* refused, failed or refunded, or a worker died, results of the segments   *)
(* lead to the assembly, and the assembly to the end.                      *)
Disturbed == \/ count.refusals + count.failures + count.crashes > 0
             \/ \E t \in Tasks : booking[t] = "refunded"
JobCompletes == job.status = "running" ~> (job.status = "complete" \/ Disturbed)
=============================================================================
