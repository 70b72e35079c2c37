------------------------------ MODULE ComputeTx ------------------------------
(***************************************************************************)
(* One card transaction up to its capture: authorization, reservation of a *)
(* GPU unit, dispatch of one task, metering, capture, cancellation, the    *)
(* provider's webhooks and the reclaim of abandoned reservations           *)
(* (lumaris_api/stripe_connect.py, main.py).  Payouts takes over when the  *)
(* payment is captured.                                                    *)
(*                                                                         *)
(* A handler works on the row it loaded: transition() checks the status in *)
(* the loaded row and writes the next one unconditionally, then reloads    *)
(* the row (in one step here: a write of another worker between the commit *)
(* and the reload is left out).  An action is one commit, one call of the  *)
(* provider, or one read whose result a later step uses.                   *)
(***************************************************************************)
EXTENDS TxStates, Integers, FiniteSets

CONSTANTS
  Requests,      \* API worker threads
  Reaper,        \* the maintenance loop
  Units,         \* specs.total_units of the seller's node
  Handlers,      \* kinds of request enabled: subset of AllHandlers
  Faults,        \* provider faults: "refused" (StripeError), "raw" (another exception)
  Verdicts,      \* outcomes of settlement_verification: "settle", "fail", "defer"
  Opening,       \* where a run starts: before authorize(), or with an authorized card
  Slots,         \* bound on the bookings and on the tasks made for the transaction
  MaxRetries,    \* bound on the buyer's retries of a failed task
  MaxOthers,     \* bound on the units other buyers hold
  MaxDowns,      \* bound on the times the node stops its heartbeats
  MaxErrors,     \* bound on the database errors in the compensated sections
  MaxCrashes     \* bound on the workers that die half way

AllHandlers == {"confirm", "reserve", "dispatch", "meter", "capture", "cancel", "retry"}
Workers == Requests \cup {Reaper}
Keys == {"reserve", "dispatch", "capture1", "capture2", "cancel"}

ASSUME CountAssumption == {Units, Slots, MaxOthers, MaxRetries, MaxDowns, MaxErrors,
                           MaxCrashes} \subseteq Nat
ASSUME SetAssumption == /\ Handlers \subseteq AllHandlers /\ Faults \subseteq {"refused", "raw"}
                        /\ Verdicts \subseteq {"settle", "fail", "defer"}
                        /\ Opening \in {"none", "PAYMENT_AUTHORIZED"}
                        /\ Reaper \notin Requests

VARIABLES
  tx,         \* the compute_transactions row
  op,         \* payment_operations.state by key
  booking,    \* bookings.status of the rows made for the transaction
  task,       \* tasks.status of the rows made for the transaction
  free,       \* specs.available_units
  others,     \* units other buyers hold
  up,         \* the seller's node sends heartbeats
  pi,         \* status of the PaymentIntent at the provider
  events,     \* provider events sent and not yet recorded as processed
  posted,     \* number of compute_capture entries in the ledger
  settled,    \* settlements rows, by settlement version
  owed,       \* the payout obligation of the transaction exists
  count,      \* retries, downs, errors and crashes so far
  pc, loc     \* where each worker is, and its local variables

vars == <<tx, op, booking, task, free, others, up, pi, events, posted, settled,
          owed, count, pc, loc>>
node == <<free, others, up>>
books == <<posted, settled, owed>>
provider == <<pi, events>>

(* pi: the PaymentIntent id is saved; metered: a billable amount was metered *)
Row == [status : Statuses \cup {"none"}, pi : BOOLEAN, booking : 0 .. Slots, task : 0 .. Slots,
        metered : {"none", "zero", "billable"}, version : 0 .. 2]
Counts == [retries : Nat, downs : Nat, errors : Nat, crashes : Nat]
Events == {"capturable", "failed", "canceled"}

(* row: the row as loaded; n: the booking or task in hand; go, key: where  *)
(* a helper returns to and the operation it claims; event: the webhook in  *)
(* hand.                                                                   *)
Labels ==
  {"idle", "retake", "reload",
   "a_call", "a_fail", "a_save", "a_move", "h_event", "h_done", "m_check", "m_move",
   "r_op", "r_offline", "r_none", "r_book", "r_full", "r_link", "r_free", "r_drop", "r_undo",
   "r_finish", "r_move",
   "d_check", "d_op", "d_task", "d_link", "d_undo", "d_drop", "d_finish", "d_move", "d_run",
   "s_find", "s_settle", "s_meter", "s_metered", "i_meter", "i_metered", "j_find", "j_fail",
   "c_start", "c_op", "c_pend", "c_call", "c_fail", "c_failed", "c_save", "c_finish",
   "c_settle", "c_post", "c_owe",
   "x_op", "x_call", "x_done", "x_fail", "x_move", "x_refund", "x_refunded",
   "b_read", "b_mark", "b_free", "f_call", "f_end", "k_call", "k_path", "k_last"}
Locals == [row : Row, n : 0 .. Slots, go : Labels, key : Keys \cup {"none"},
           event : Events \cup {"none"}]
NewRow == [status |-> "none", pi |-> FALSE, booking |-> 0, task |-> 0, metered |-> "none",
           version |-> 0]
NoLocals == [row |-> NewRow, n |-> 0, go |-> "idle", key |-> "none",
             event |-> "none"]

TypeOK ==
  /\ tx \in Row /\ op \in [Keys -> {"none", "pending", "failed", "succeeded"}]
  /\ booking \in [1 .. Slots -> {"none", "stripe_reserved", "released_unused"}]
  /\ task \in [1 .. Slots -> {"none", "pending", "completed", "failed"}]
  /\ free \in 0 .. Units /\ others \in Nat /\ up \in BOOLEAN
  /\ pi \in {"none", "requires_payment_method", "requires_capture", "succeeded", "canceled"}
  /\ events \subseteq Events
  /\ posted \in Nat /\ settled \subseteq 1 .. 2 /\ owed \in BOOLEAN
  /\ count \in Counts /\ pc \in [Workers -> Labels] /\ loc \in [Workers -> Locals]

Init ==
  /\ IF Opening = "none" THEN tx = NewRow /\ pi = "none"
     ELSE tx = [NewRow EXCEPT !.status = Opening, !.pi = TRUE] /\ pi = "requires_capture"
  /\ op = [k \in Keys |-> "none"]
  /\ booking = [b \in 1 .. Slots |-> "none"] /\ task = [t \in 1 .. Slots |-> "none"]
  /\ free = Units /\ others = 0 /\ up = TRUE
  /\ events = {}
  /\ posted = 0 /\ settled = {} /\ owed = FALSE
  /\ count = [retries |-> 0, downs |-> 0, errors |-> 0, crashes |-> 0]
  /\ pc = [w \in Workers |-> "idle"] /\ loc = [w \in Workers |-> NoLocals]

-----------------------------------------------------------------------------
(* Helpers: the loaded row, the state machine and the operation log *)

Seen(w) == loc[w].row
Put(w, row) == [loc[w] EXCEPT !.row = row]

GotoWith(w, from, to, l) ==
  pc[w] = from /\ pc' = [pc EXCEPT ![w] = to] /\ loc' = [loc EXCEPT ![w] = l]
Goto(w, from, to) == GotoWith(w, from, to, loc[w])
Done(w, from) == GotoWith(w, from, "idle", NoLocals)

(* transition(): the check is on the loaded status, the write is not       *)
(* conditional, and the row is reloaded afterwards.                        *)
Transition(w, from, s, to, raise) ==
  \/ /\ pc[w] = from /\ s \in Transitions[Seen(w).status]
     /\ tx' = [tx EXCEPT !.status = s]
     /\ GotoWith(w, from, to, IF to = "idle" THEN NoLocals ELSE Put(w, tx'))
  \/ /\ pc[w] = from /\ s \notin Transitions[Seen(w).status]
     /\ IF raise = "idle" THEN Done(w, from) ELSE Goto(w, from, raise)
     /\ UNCHANGED tx

(* a committed write of one column, by a worker that does not reload *)
Write(w, from, to, row, seen) == tx' = row /\ GotoWith(w, from, to, Put(w, seen))

Working(w, k) ==
  pc[w] \in CASE k = "reserve"  -> {"r_book", "r_full", "r_link", "r_free", "r_drop", "r_undo",
                                    "r_finish"}
              [] k = "dispatch" -> {"d_task", "d_link", "d_undo", "d_drop", "d_finish"}
              [] OTHER -> {}

(* _begin_op(): the first insert of the key wins; a failed operation is    *)
(* read, then retaken; a stale pending one of a worker that died is taken  *)
(* over by compare-and-set; otherwise there is nothing to do.              *)
Begin(w, from, k, to, recoverable) ==
  \/ /\ op[k] = "none" /\ op' = [op EXCEPT ![k] = "pending"] /\ Goto(w, from, to)
  \/ /\ op[k] = "failed"
     /\ GotoWith(w, from, "retake", [loc[w] EXCEPT !.key = k, !.go = to]) /\ UNCHANGED op
  \/ /\ recoverable /\ op[k] = "pending" /\ \A v \in Workers : ~Working(v, k)
     /\ GotoWith(w, from, "reload", [loc[w] EXCEPT !.go = to]) /\ UNCHANGED op
  \/ /\ op[k] \in {"pending", "succeeded"} /\ Done(w, from) /\ UNCHANGED op

Retake(w) ==
  /\ op' = [op EXCEPT ![loc[w].key] = "pending"]
  /\ Goto(w, "retake", "reload")
  /\ UNCHANGED <<tx, booking, task, node, provider, books, count>>

(* the rollback of the failed insert made the session reload the row *)
Reload(w) ==
  /\ GotoWith(w, "reload", loc[w].go, Put(w, tx))
  /\ UNCHANGED <<tx, op, booking, task, node, provider, books, count>>

FinishOp(w, from, k, s, to) == op' = [op EXCEPT ![k] = s] /\ Goto(w, from, to)

Fault(f) == f \in Faults
DBError == count.errors < MaxErrors /\ count' = [count EXCEPT !.errors = @ + 1]
(* mutant: the release is not capped at total_units *)
ReleasableUncapped(n) == n + 1

Releasable(n) == IF n < Units THEN n + 1 ELSE n
FreeSlot(rows) == {i \in 1 .. Slots : rows[i] = "none" /\ \A j \in 1 .. i - 1 : rows[j] # "none"}

(* a request loads the row, if there is one *)
Start(w, h, to) ==
  /\ w \in Requests /\ h \in Handlers /\ tx.status # "none"
  /\ GotoWith(w, "idle", to, [NoLocals EXCEPT !.row = tx])

-----------------------------------------------------------------------------
(* authorize(): the row, then the PaymentIntent, then its id *)

Authorize(w) ==
  /\ w \in Requests /\ tx.status = "none"
  /\ tx' = [tx EXCEPT !.status = "DRAFT"]
  /\ GotoWith(w, "idle", "a_call", [NoLocals EXCEPT !.row = tx'])
  /\ UNCHANGED <<op, booking, task, node, provider, books, count>>

AuthorizeCall(w) ==
  /\ \/ Goto(w, "a_call", "a_save") /\ pi' = "requires_payment_method"
     \/ Fault("refused") /\ Goto(w, "a_call", "a_fail") /\ UNCHANGED pi
     \/ Fault("raw") /\ Done(w, "a_call") /\ pi' \in {pi, "requires_payment_method"}
  /\ UNCHANGED <<tx, op, booking, task, node, events, books, count>>

AuthorizeFail(w) ==
  /\ Transition(w, "a_fail", "PAYMENT_FAILED", "idle", "idle")
  /\ UNCHANGED <<op, booking, task, node, provider, books, count>>

AuthorizeSave(w) ==
  /\ Write(w, "a_save", "a_move", [tx EXCEPT !.pi = TRUE], [Seen(w) EXCEPT !.pi = TRUE])
  /\ UNCHANGED <<op, booking, task, node, provider, books, count>>

AuthorizeMove(w) ==
  /\ Transition(w, "a_move", "PAYMENT_REQUIRES_ACTION", "idle", "idle")
  /\ UNCHANGED <<op, booking, task, node, provider, books, count>>

-----------------------------------------------------------------------------
(* The provider, as stripe_connect.py uses it: the buyer's card, the       *)
(* expiry of an authorization, and the webhooks that tell of them.         *)

CardConfirmed ==
  /\ pi = "requires_payment_method" /\ tx.status \notin {"none", "DRAFT"}
  /\ pi' = "requires_capture" /\ events' = events \cup {"capturable"}
  /\ UNCHANGED <<tx, op, booking, task, node, books, count, pc, loc>>

CardDeclined ==
  /\ pi = "requires_payment_method" /\ tx.status \notin {"none", "DRAFT"}
  /\ "failed" \notin events /\ events' = events \cup {"failed"}
  /\ UNCHANGED <<tx, op, booking, task, node, pi, books, count, pc, loc>>

AuthorizationExpires ==
  /\ pi = "requires_capture"
  /\ pi' = "canceled" /\ events' = events \cup {"canceled"}
  /\ UNCHANGED <<tx, op, booking, task, node, books, count, pc, loc>>

(* what a call of cancel_payment_intent does at the provider *)
Void == /\ pi' = IF pi = "succeeded" THEN pi ELSE "canceled"
        /\ events' = IF pi \in {"succeeded", "canceled"} THEN events ELSE events \cup {"canceled"}

-----------------------------------------------------------------------------
(* process_webhook_event(): an event is delivered until it is processed,   *)
(* two deliveries of it may overlap.                                       *)

Deliver(w, e) ==
  /\ w \in Requests /\ e \in events /\ tx.pi
  /\ GotoWith(w, "idle", "h_event", [NoLocals EXCEPT !.row = tx, !.event = e, !.go = "h_done"])
  /\ UNCHANGED <<tx, op, booking, task, node, provider, books, count>>

(* _handle_event(): which transition an event asks for, if any *)
HandleCapturable(w) ==
  /\ pc[w] = "h_event" /\ loc[w].event = "capturable"
  /\ Goto(w, "h_event", IF Seen(w).status = "PAYMENT_REQUIRES_ACTION" THEN "m_check" ELSE "h_done")
  /\ UNCHANGED <<tx, op, booking, task, node, provider, books, count>>

HandleFailed(w) ==
  /\ pc[w] = "h_event" /\ loc[w].event = "failed"
  /\ IF Seen(w).status \in {"DRAFT", "PAYMENT_REQUIRES_ACTION"}
     THEN Transition(w, "h_event", "PAYMENT_FAILED", "h_done", "h_done")
     ELSE Goto(w, "h_event", "h_done") /\ UNCHANGED tx
  /\ UNCHANGED <<op, booking, task, node, provider, books, count>>

HandleCanceled(w) ==
  /\ pc[w] = "h_event" /\ loc[w].event = "canceled"
  /\ IF Seen(w).status \notin TERMINAL
     THEN Transition(w, "h_event", "CANCELLED", "h_done", "h_done")
     ELSE Goto(w, "h_event", "h_done") /\ UNCHANGED tx
  /\ UNCHANGED <<op, booking, task, node, provider, books, count>>

EventDone(w) ==
  /\ events' = events \ {loc[w].event} /\ Done(w, "h_done")
  /\ UNCHANGED <<tx, op, booking, task, node, pi, books, count>>

(* mark_authorized(), from a webhook or from the buyer's confirm *)
Confirm(w) ==
  /\ Start(w, "confirm", "m_check") /\ tx.status # "PAYMENT_AUTHORIZED" /\ tx.pi
  /\ UNCHANGED <<tx, op, booking, task, node, provider, books, count>>

MarkCheck(w) ==
  /\ pc[w] = "m_check"
  /\ IF pi = "requires_capture" THEN Goto(w, "m_check", "m_move")
     ELSE IF loc[w].go = "idle" THEN Done(w, "m_check") ELSE Goto(w, "m_check", loc[w].go)
  /\ UNCHANGED <<tx, op, booking, task, node, provider, books, count>>

MarkMove(w) ==
  /\ Transition(w, "m_move", "PAYMENT_AUTHORIZED", loc[w].go, loc[w].go)
  /\ UNCHANGED <<op, booking, task, node, provider, books, count>>

-----------------------------------------------------------------------------
(* reserve_gpu() *)

Reserve(w) ==
  /\ Start(w, "reserve", IF up THEN "r_op" ELSE "r_offline") /\ tx.status = "PAYMENT_AUTHORIZED"
  /\ UNCHANGED <<tx, op, booking, task, node, provider, books, count>>

ReserveOffline(w) ==
  /\ \/ Transition(w, "r_offline", "RESERVATION_FAILED", "idle", "idle")
     \/ Transition(w, "r_none", "RESERVATION_FAILED", "idle", "idle")
  /\ UNCHANGED <<op, booking, task, node, provider, books, count>>

ReserveClaim(w) ==
  /\ Begin(w, "r_op", "reserve", "r_book", TRUE)
  /\ UNCHANGED <<tx, booking, task, node, provider, books, count>>

(* try_reserve_unit() does not commit: the unit and the booking are one    *)
(* commit, and a rollback gives the unit back.                             *)
ReserveBook(w) ==
  /\ free > 0 /\ free' = free - 1
  /\ \E b \in FreeSlot(booking) :
       /\ booking' = [booking EXCEPT ![b] = "stripe_reserved"]
       /\ GotoWith(w, "r_book", "r_link", [loc[w] EXCEPT !.n = b])
  /\ UNCHANGED <<tx, op, task, others, up, provider, books, count>>

ReserveFull(w) ==
  /\ free = 0 /\ Goto(w, "r_book", "r_full")
  /\ UNCHANGED <<tx, op, booking, task, node, provider, books, count>>

ReserveFullOp(w) ==
  /\ FinishOp(w, "r_full", "reserve", "failed", "r_none")
  /\ UNCHANGED <<tx, booking, task, node, provider, books, count>>

ReserveLink(w) ==
  /\ Write(w, "r_link", "r_finish", [tx EXCEPT !.booking = loc[w].n],
           [Seen(w) EXCEPT !.booking = loc[w].n])
  /\ UNCHANGED <<op, booking, task, node, provider, books, count>>

(* a database error while the booking is inserted or linked: the handler   *)
(* releases a unit, deletes the booking and marks the operation failed     *)
ReserveError(w) ==
  /\ DBError
  /\ (free > 0 /\ Goto(w, "r_book", "r_free")) \/ Goto(w, "r_link", "r_free")
  /\ UNCHANGED <<tx, op, booking, task, node, provider, books>>

ReserveCompensate(w) ==
  /\ free' = Releasable(free) /\ Goto(w, "r_free", "r_drop")
  /\ UNCHANGED <<tx, op, booking, task, others, up, provider, books, count>>

ReserveDrop(w) ==
  /\ booking' = [b \in DOMAIN booking |-> IF b = loc[w].n THEN "none" ELSE booking[b]]
  /\ Goto(w, "r_drop", "r_undo")
  /\ UNCHANGED <<tx, op, task, node, provider, books, count>>

ReserveUndo(w) ==
  /\ op' = [op EXCEPT !["reserve"] = "failed"] /\ Done(w, "r_undo")
  /\ UNCHANGED <<tx, booking, task, node, provider, books, count>>

ReserveFinish(w) ==
  /\ FinishOp(w, "r_finish", "reserve", "succeeded", "r_move")
  /\ UNCHANGED <<tx, booking, task, node, provider, books, count>>

ReserveMove(w) ==
  /\ Transition(w, "r_move", "GPU_RESERVED", "idle", "idle")
  /\ UNCHANGED <<op, booking, task, node, provider, books, count>>

-----------------------------------------------------------------------------
(* dispatch_job() *)

Dispatch(w) ==
  /\ Start(w, "dispatch", "d_check") /\ tx.task = 0 /\ tx.status = "GPU_RESERVED"
  /\ UNCHANGED <<tx, op, booking, task, node, provider, books, count>>

DispatchCheck(w) ==
  /\ IF pi = "requires_capture" THEN Goto(w, "d_check", "d_op") ELSE Done(w, "d_check")
  /\ UNCHANGED <<tx, op, booking, task, node, provider, books, count>>

(* mutant: dispatch without claiming the operation *)
DispatchClaimAlways(w) ==
  /\ Goto(w, "d_op", "d_task")
  /\ UNCHANGED <<tx, op, booking, task, node, provider, books, count>>

DispatchClaim(w) ==
  /\ Begin(w, "d_op", "dispatch", "d_task", TRUE)
  /\ UNCHANGED <<tx, booking, task, node, provider, books, count>>

DispatchTask(w) ==
  /\ \E t \in FreeSlot(task) :
       /\ task' = [task EXCEPT ![t] = "pending"]
       /\ GotoWith(w, "d_task", "d_link", [loc[w] EXCEPT !.n = t])
  /\ UNCHANGED <<tx, op, booking, node, provider, books, count>>

DispatchLink(w) ==
  /\ Write(w, "d_link", "d_finish", [tx EXCEPT !.task = loc[w].n],
           [Seen(w) EXCEPT !.task = loc[w].n])
  /\ UNCHANGED <<op, booking, task, node, provider, books, count>>

DispatchError(w) ==
  /\ DBError
  /\ Goto(w, "d_task", "d_undo") \/ Goto(w, "d_link", "d_undo")
  /\ UNCHANGED <<tx, op, booking, task, node, provider, books>>

DispatchUndo(w) ==
  /\ FinishOp(w, "d_undo", "dispatch", "failed", "d_drop")
  /\ UNCHANGED <<tx, booking, task, node, provider, books, count>>

DispatchDrop(w) ==
  /\ task' = [t \in DOMAIN task |-> IF t = loc[w].n THEN "none" ELSE task[t]]
  /\ Done(w, "d_drop")
  /\ UNCHANGED <<tx, op, booking, node, provider, books, count>>

DispatchFinish(w) ==
  /\ FinishOp(w, "d_finish", "dispatch", "succeeded", "d_move")
  /\ UNCHANGED <<tx, booking, task, node, provider, books, count>>

DispatchMove(w) ==
  /\ Transition(w, "d_move", "DISPATCHING", "d_run", "idle")
  /\ UNCHANGED <<op, booking, task, node, provider, books, count>>

DispatchRun(w) ==
  /\ Transition(w, "d_run", "RUNNING", "idle", "idle")
  /\ UNCHANGED <<op, booking, task, node, provider, books, count>>

-----------------------------------------------------------------------------
(* jobs_result(): the task's status is committed first; then the           *)
(* transaction that carries the task is looked up and settled, failed, or  *)
(* left to an administrator (settlement_verification.decide).              *)

Result(w, t) ==
  /\ w \in Requests /\ up /\ task[t] = "pending"
  /\ \E s \in {"completed", "failed"} :
       /\ task' = [task EXCEPT ![t] = s]
       /\ GotoWith(w, "idle", IF s = "completed" THEN "s_find" ELSE "j_find",
                   [NoLocals EXCEPT !.n = t])
  /\ UNCHANGED <<tx, op, booking, node, provider, books, count>>

(* retry_task(): a failed task goes back to the queue.  The endpoint       *)
(* refuses when it sees a failed transaction, but the transaction moves    *)
(* after the task: the model refuses no retry.                             *)
RetryTask(t) ==
  /\ "retry" \in Handlers /\ task[t] = "failed" /\ count.retries < MaxRetries
  /\ task' = [task EXCEPT ![t] = "pending"] /\ count' = [count EXCEPT !.retries = @ + 1]
  /\ UNCHANGED <<tx, op, booking, node, provider, books, pc, loc>>

SettleFind(w) ==
  /\ pc[w] = "s_find"
  /\ IF tx.task # loc[w].n THEN Done(w, "s_find")
     ELSE \E v \in Verdicts :
            CASE v = "settle" -> GotoWith(w, "s_find", "s_settle", [NoLocals EXCEPT !.row = tx])
              [] v = "fail"   -> GotoWith(w, "s_find", "j_fail", [NoLocals EXCEPT !.row = tx])
              [] v = "defer"  -> Done(w, "s_find")
  /\ UNCHANGED <<tx, op, booking, task, node, provider, books, count>>

(* settle_after_result() *)
SettleAfterResult(w) ==
  /\ pc[w] = "s_settle"
  /\ CASE Seen(w).status \in {"RUNNING", "DISPATCHING"} -> Goto(w, "s_settle", "s_meter")
       [] Seen(w).status \in {"METERING_FINALIZED", "CAPTURE_FAILED", "JOB_FAILED"} ->
            Goto(w, "s_settle", "c_start")
       [] OTHER -> Done(w, "s_settle")
  /\ UNCHANGED <<tx, op, booking, task, node, provider, books, count>>

(* record_metering(), here and from the administrators' endpoint: a short  *)
(* run may round to nothing                                                *)
AdminMeter(w) ==
  /\ Start(w, "meter", "i_meter") /\ tx.status \in {"RUNNING", "DISPATCHING"}
  /\ UNCHANGED <<tx, op, booking, task, node, provider, books, count>>

RecordMetering(w) ==
  /\ pc[w] \in {"s_meter", "i_meter"}
  /\ \E m \in {"zero", "billable"} :
       Write(w, pc[w], IF pc[w] = "s_meter" THEN "s_metered" ELSE "i_metered",
             [tx EXCEPT !.metered = m], [Seen(w) EXCEPT !.metered = m])
  /\ UNCHANGED <<op, booking, task, node, provider, books, count>>

MeteringMove(w) ==
  /\ \/ Transition(w, "s_metered", "METERING_FINALIZED", "c_start", "idle")
     \/ Transition(w, "i_metered", "METERING_FINALIZED", "idle", "idle")
  /\ UNCHANGED <<op, booking, task, node, provider, books, count>>

-----------------------------------------------------------------------------
(* capture() *)

AdminCapture(w) ==
  /\ Start(w, "capture", "c_start")
  /\ tx.status \in {"METERING_FINALIZED", "CAPTURE_FAILED", "JOB_FAILED"}
  /\ UNCHANGED <<tx, op, booking, task, node, provider, books, count>>

Version(w) == IF loc[w].key = "capture1" THEN 1 ELSE 2

(* the operation's key holds the settlement version it was computed for *)
CaptureKey(w) == IF Seen(w).version = 0 THEN "capture1" ELSE "capture2"

(* mutant: captures without a metered amount *)
CaptureStartUnmetered(w) ==
  /\ GotoWith(w, "c_start", "c_op", [loc[w] EXCEPT !.key = CaptureKey(w)])
  /\ UNCHANGED <<tx, op, booking, task, node, provider, books, count>>

CaptureStart(w) ==
  /\ pc[w] = "c_start"
  /\ IF Seen(w).metered = "billable"
     THEN GotoWith(w, "c_start", "c_op", [loc[w] EXCEPT !.key = CaptureKey(w)])
     ELSE Goto(w, "c_start", "x_op")
  /\ UNCHANGED <<tx, op, booking, task, node, provider, books, count>>

CaptureClaim(w) ==
  /\ pc[w] = "c_op" /\ Begin(w, "c_op", loc[w].key, "c_pend", FALSE)
  /\ UNCHANGED <<tx, booking, task, node, provider, books, count>>

CapturePending(w) ==
  /\ Transition(w, "c_pend", "PAYMENT_CAPTURE_PENDING", "c_call", "idle")
  /\ UNCHANGED <<op, booking, task, node, provider, books, count>>

(* the provider replays the answer of a key it has captured with *)
Capturable(w) == pi = "requires_capture" \/ (pi = "succeeded" /\ loc[w].key = "capture1")

(* mutants: a refusal falls through to the success path, and any exception *)
(* is taken for a refusal                                                  *)
CaptureCallFallsThrough(w) ==
  /\ \/ Capturable(w) /\ pi' = "succeeded" /\ Goto(w, "c_call", "c_save")
     \/ /\ ~Capturable(w) \/ Fault("refused")
        /\ UNCHANGED pi /\ Goto(w, "c_call", "c_save")
  /\ UNCHANGED <<tx, op, booking, task, node, events, books, count>>
CaptureCallCatchesAll(w) ==
  /\ \/ Capturable(w) /\ pi' = "succeeded" /\ Goto(w, "c_call", "c_save")
     \/ /\ Fault("raw") /\ Goto(w, "c_call", "c_fail")
        /\ pi' \in IF Capturable(w) THEN {pi, "succeeded"} ELSE {pi}
  /\ UNCHANGED <<tx, op, booking, task, node, events, books, count>>

CaptureCall(w) ==
  /\ \/ Capturable(w) /\ pi' = "succeeded" /\ Goto(w, "c_call", "c_save")
     \/ /\ ~Capturable(w) \/ Fault("refused")
        /\ UNCHANGED pi /\ Goto(w, "c_call", "c_fail")
     \/ /\ Fault("raw") /\ Done(w, "c_call")
        /\ pi' \in IF Capturable(w) THEN {pi, "succeeded"} ELSE {pi}
  /\ UNCHANGED <<tx, op, booking, task, node, events, books, count>>

CaptureFail(w) ==
  /\ pc[w] = "c_fail" /\ FinishOp(w, "c_fail", loc[w].key, "failed", "c_failed")
  /\ UNCHANGED <<tx, booking, task, node, provider, books, count>>

CaptureFailed(w) ==
  /\ Transition(w, "c_failed", "CAPTURE_FAILED", "idle", "idle")
  /\ UNCHANGED <<op, booking, task, node, provider, books, count>>

CaptureSave(w) ==
  /\ pc[w] = "c_save"
  /\ LET v == Version(w) IN
     Write(w, "c_save", "c_finish", [tx EXCEPT !.version = v], [Seen(w) EXCEPT !.version = v])
  /\ UNCHANGED <<op, booking, task, node, provider, books, count>>

CaptureFinish(w) ==
  /\ pc[w] = "c_finish" /\ FinishOp(w, "c_finish", loc[w].key, "succeeded", "c_settle")
  /\ UNCHANGED <<tx, booking, task, node, provider, books, count>>

(* mutant: settlements without their unique (tx, version) *)
CaptureSettleTwice(w) ==
  /\ pc[w] = "c_settle" /\ settled' = settled \cup {Version(w)}
  /\ Goto(w, "c_settle", "c_post")
  /\ UNCHANGED <<tx, op, booking, task, node, provider, posted, owed, count>>

(* _write_settlement(): one row per version, the second insert raises *)
CaptureSettle(w) ==
  /\ pc[w] = "c_settle"
  /\ LET v == Version(w) IN
     IF v \in settled THEN Done(w, "c_settle") /\ UNCHANGED settled
     ELSE settled' = settled \cup {v} /\ Goto(w, "c_settle", "c_post")
  /\ UNCHANGED <<tx, op, booking, task, node, provider, posted, owed, count>>

(* post() does not commit: the entry is committed by the transition *)
CapturePost(w) ==
  /\ pc[w] = "c_post"
  /\ Transition(w, "c_post", "PAYMENT_CAPTURED", "c_owe", "idle")
  /\ posted' = IF "PAYMENT_CAPTURED" \in Transitions[Seen(w).status] THEN posted + 1 ELSE posted
  /\ UNCHANGED <<op, booking, task, node, provider, settled, owed, count>>

CaptureOwe(w) ==
  /\ owed' = TRUE /\ Done(w, "c_owe")
  /\ UNCHANGED <<tx, op, booking, task, node, provider, posted, settled, count>>

-----------------------------------------------------------------------------
(* cancel_authorization(), the buyer's or the one capture() falls back to *)

Cancel(w) ==
  /\ tx.task = 0 \/ tx.status \in TX_FAILED
  /\ Start(w, "cancel", IF tx.status \in TX_FAILED THEN "f_call" ELSE "x_op")
  /\ UNCHANGED <<tx, op, booking, task, node, provider, books, count>>

CancelClaim(w) ==
  /\ Begin(w, "x_op", "cancel", "x_call", FALSE)
  /\ UNCHANGED <<tx, booking, task, node, provider, books, count>>

CancelCall(w) ==
  /\ pc[w] = "x_call"
  /\ IF ~Seen(w).pi THEN Goto(w, "x_call", "x_done") /\ UNCHANGED <<pi, events>>
     ELSE \/ pi # "succeeded" /\ Void /\ Goto(w, "x_call", "x_done")
          \/ /\ pi \in {"succeeded", "canceled"} \/ Fault("refused")
             /\ UNCHANGED <<pi, events>> /\ Goto(w, "x_call", "x_fail")
          \/ Fault("raw") /\ Done(w, "x_call") /\ (Void \/ UNCHANGED <<pi, events>>)
  /\ UNCHANGED <<tx, op, booking, task, node, books, count>>

(* either way the reservation is released and the row cancelled *)
CancelFinish(w) ==
  /\ \E s \in {"succeeded", "failed"} :
       LET from == IF s = "succeeded" THEN "x_done" ELSE "x_fail" IN
       /\ pc[w] = from /\ op' = [op EXCEPT !["cancel"] = s]
       /\ GotoWith(w, from, "b_read", [loc[w] EXCEPT !.go = "x_move"])
  /\ UNCHANGED <<tx, booking, task, node, provider, books, count>>

CancelMove(w) ==
  /\ Transition(w, "x_move", "CANCELLED", "idle", "x_refund")
  /\ UNCHANGED <<op, booking, task, node, provider, books, count>>

CancelRefund(w) ==
  /\ \/ Transition(w, "x_refund", "REFUND_PENDING", "x_refunded", "idle")
     \/ Transition(w, "x_refunded", "REFUNDED", "idle", "idle")
  /\ UNCHANGED <<op, booking, task, node, provider, books, count>>

-----------------------------------------------------------------------------
(* _release_reservation(): read the booking, mark it, free the unit *)

ReleaseRead(w) ==
  /\ pc[w] = "b_read"
  /\ LET b == Seen(w).booking IN
     Goto(w, "b_read", IF b # 0 /\ booking[b] = "stripe_reserved" THEN "b_mark"
                       ELSE loc[w].go)
  /\ UNCHANGED <<tx, op, booking, task, node, provider, books, count>>

(* mutant: marks the booking released and keeps the unit *)
ReleaseMarkOnly(w) ==
  /\ pc[w] = "b_mark"
  /\ booking' = [booking EXCEPT ![Seen(w).booking] = "released_unused"]
  /\ Goto(w, "b_mark", loc[w].go)
  /\ UNCHANGED <<tx, op, task, node, provider, books, count>>

ReleaseMark(w) ==
  /\ pc[w] = "b_mark"
  /\ booking' = [booking EXCEPT ![Seen(w).booking] = "released_unused"]
  /\ Goto(w, "b_mark", "b_free")
  /\ UNCHANGED <<tx, op, task, node, provider, books, count>>

ReleaseFree(w) ==
  /\ free' = Releasable(free) /\ Goto(w, "b_free", loc[w].go)
  /\ UNCHANGED <<tx, op, booking, task, others, up, provider, books, count>>

(* release_failed_reservation(): void the authorization as well as it goes *)
ReleaseFailed(w) ==
  /\ pc[w] = "f_call"
  /\ \/ Seen(w).pi /\ Void
     \/ (~Seen(w).pi \/ Faults # {} \/ pi = "canceled") /\ UNCHANGED <<pi, events>>
  /\ GotoWith(w, "f_call", "b_read", [loc[w] EXCEPT !.go = "f_end"])
  /\ UNCHANGED <<tx, op, booking, task, node, books, count>>

ReleaseEnd(w) ==
  /\ Done(w, "f_end")
  /\ UNCHANGED <<tx, op, booking, task, node, provider, books, count>>

(* fail_job() *)
FailFind(w) ==
  /\ pc[w] = "j_find"
  /\ IF tx.task # loc[w].n THEN Done(w, "j_find")
     ELSE GotoWith(w, "j_find", "j_fail", [NoLocals EXCEPT !.row = tx])
  /\ UNCHANGED <<tx, op, booking, task, node, provider, books, count>>

FailJob(w) ==
  /\ pc[w] = "j_fail"
  /\ CASE Seen(w).status \in TX_FAILED /\ Seen(w).booking # 0 ->
            Goto(w, "j_fail", "f_call") /\ UNCHANGED tx
       [] Seen(w).status \in {"DISPATCHING", "RUNNING"} ->
            Transition(w, "j_fail", "JOB_FAILED", "f_call", "idle")
       [] OTHER -> Done(w, "j_fail") /\ UNCHANGED tx
  /\ UNCHANGED <<op, booking, task, node, provider, books, count>>

-----------------------------------------------------------------------------
(* reclaim_abandoned_reservations(): a reservation whose transaction has   *)
(* failed, and one untouched for 26 hours on a node without heartbeat.     *)

PreCaptureActive == {"GPU_RESERVED", "DISPATCHING", "RUNNING", "METERING_FINALIZED",
                     "PAYMENT_CAPTURE_PENDING"}
Reserved == tx.booking # 0 /\ booking[tx.booking] = "stripe_reserved"

(* where a request under way has not written the row yet: a row untouched  *)
(* for 26 hours has no other request at work on it                         *)
Unwritten == {"idle", "m_check", "h_event", "r_op", "r_book", "r_full", "r_link",
              "d_check", "d_op", "d_task", "d_link", "x_op", "x_call", "x_done", "x_fail",
              "s_find", "s_settle", "s_meter", "i_meter", "j_find", "j_fail"}
Untouched == \A w \in Requests : pc[w] \in Unwritten

(* mutant: only cancelled transactions count as failed *)
ReclaimFailedCancelled ==
  /\ Reserved /\ tx.status = "CANCELLED"
  /\ GotoWith(Reaper, "idle", "b_read", [NoLocals EXCEPT !.row = tx, !.go = "f_end"])
  /\ UNCHANGED <<tx, op, booking, task, node, provider, books, count>>

ReclaimFailed ==
  /\ Reserved /\ tx.status \in TX_FAILED
  /\ GotoWith(Reaper, "idle", "b_read", [NoLocals EXCEPT !.row = tx, !.go = "f_end"])
  /\ UNCHANGED <<tx, op, booking, task, node, provider, books, count>>

ReclaimStuck ==
  /\ Reserved /\ tx.status \in PreCaptureActive /\ Untouched /\ ~up
  /\ GotoWith(Reaper, "idle", "k_call", [NoLocals EXCEPT !.row = tx, !.go = "k_path"])
  /\ UNCHANGED <<tx, op, booking, task, node, provider, books, count>>

ReclaimVoid ==
  /\ \/ Void
     \/ (Faults # {} \/ pi = "canceled") /\ UNCHANGED <<pi, events>>
  /\ Goto(Reaper, "k_call", "b_read")
  /\ UNCHANGED <<tx, op, booking, task, node, books, count>>

(* _cancel_reclaimed(): the legal path from the loaded status to CANCELLED *)
ReclaimPath ==
  /\ pc[Reaper] = "k_path"
  /\ CASE Seen(Reaper).status \in {"DISPATCHING", "RUNNING"} ->
            Transition(Reaper, "k_path", "JOB_FAILED", "k_last", "idle")
       [] Seen(Reaper).status = "PAYMENT_CAPTURE_PENDING" ->
            Transition(Reaper, "k_path", "CAPTURE_FAILED", "k_last", "idle")
       [] OTHER -> Transition(Reaper, "k_path", "CANCELLED", "idle", "idle")
  /\ UNCHANGED <<op, booking, task, node, provider, books, count>>

ReclaimLast ==
  /\ Transition(Reaper, "k_last", "CANCELLED", "idle", "idle")
  /\ UNCHANGED <<op, booking, task, node, provider, books, count>>

-----------------------------------------------------------------------------
(* The node, its other buyers, and workers that die *)

OthersTake == /\ free > 0 /\ others < MaxOthers /\ free' = free - 1 /\ others' = others + 1
              /\ UNCHANGED <<tx, op, booking, task, up, provider, books, count, pc, loc>>
OthersLeave == /\ others > 0 /\ others' = others - 1 /\ free' = Releasable(free)
               /\ UNCHANGED <<tx, op, booking, task, up, provider, books, count, pc, loc>>

NodeDown == /\ up /\ count.downs < MaxDowns /\ up' = FALSE
            /\ count' = [count EXCEPT !.downs = @ + 1]
            /\ UNCHANGED <<tx, op, booking, task, free, others, provider, books, pc, loc>>
NodeUp == /\ ~up /\ up' = TRUE
          /\ UNCHANGED <<tx, op, booking, task, free, others, provider, books, count, pc, loc>>

Crash(w) == /\ pc[w] # "idle" /\ count.crashes < MaxCrashes
            /\ count' = [count EXCEPT !.crashes = @ + 1]
            /\ pc' = [pc EXCEPT ![w] = "idle"] /\ loc' = [loc EXCEPT ![w] = NoLocals]
            /\ UNCHANGED <<tx, op, booking, task, node, provider, books>>

-----------------------------------------------------------------------------
Requested(w) ==
  \/ Authorize(w) \/ Confirm(w) \/ Reserve(w) \/ Dispatch(w) \/ AdminMeter(w)
  \/ AdminCapture(w) \/ Cancel(w)

(* the next step of a handler under way *)
Proceed(w) ==
  \/ Retake(w) \/ Reload(w)
  \/ AuthorizeCall(w) \/ AuthorizeFail(w) \/ AuthorizeSave(w) \/ AuthorizeMove(w)
  \/ HandleCapturable(w) \/ HandleFailed(w) \/ HandleCanceled(w) \/ EventDone(w)
  \/ MarkCheck(w) \/ MarkMove(w)
  \/ ReserveOffline(w) \/ ReserveClaim(w) \/ ReserveBook(w) \/ ReserveFull(w)
  \/ ReserveFullOp(w) \/ ReserveLink(w) \/ ReserveError(w) \/ ReserveCompensate(w)
  \/ ReserveDrop(w) \/ ReserveUndo(w) \/ ReserveFinish(w) \/ ReserveMove(w)
  \/ DispatchCheck(w) \/ DispatchClaim(w) \/ DispatchTask(w) \/ DispatchLink(w)
  \/ DispatchError(w) \/ DispatchUndo(w) \/ DispatchDrop(w) \/ DispatchFinish(w)
  \/ DispatchMove(w) \/ DispatchRun(w)
  \/ SettleFind(w) \/ SettleAfterResult(w) \/ RecordMetering(w) \/ MeteringMove(w)
  \/ CaptureStart(w) \/ CaptureClaim(w) \/ CapturePending(w) \/ CaptureCall(w)
  \/ CaptureFail(w) \/ CaptureFailed(w) \/ CaptureSave(w) \/ CaptureFinish(w)
  \/ CaptureSettle(w) \/ CapturePost(w) \/ CaptureOwe(w)
  \/ CancelClaim(w) \/ CancelCall(w) \/ CancelFinish(w) \/ CancelMove(w) \/ CancelRefund(w)
  \/ ReleaseRead(w) \/ ReleaseMark(w) \/ ReleaseFree(w) \/ ReleaseFailed(w) \/ ReleaseEnd(w)
  \/ FailFind(w) \/ FailJob(w)

Reclaim == ReclaimFailed \/ ReclaimStuck
ReclaimProceed == ReclaimVoid \/ ReclaimPath \/ ReclaimLast

Environment ==
  \/ CardConfirmed \/ CardDeclined \/ AuthorizationExpires
  \/ OthersTake \/ OthersLeave \/ NodeDown \/ NodeUp
  \/ \E t \in 1 .. Slots : RetryTask(t)

Next ==
  \/ \E w \in Workers : Proceed(w) \/ Crash(w)
  \/ \E w \in Requests : \/ Requested(w)
                         \/ \E e \in Events : Deliver(w, e)
                         \/ \E t \in 1 .. Slots : Result(w, t)
  \/ Reclaim \/ ReclaimProceed \/ Environment

Spec == Init /\ [][Next]_vars

(* Handlers under way finish, and the maintenance loop comes round again.  *)
FairSpec ==
  /\ Spec
  /\ \A w \in Requests : WF_vars(Proceed(w))
  /\ SF_vars(Reclaim) /\ WF_vars(Proceed(Reaper) \/ ReclaimProceed)

(* Besides, the provider delivers an event until it is processed and lets  *)
(* an authorization expire, and a node that is up answers.                 *)
ResponsiveSpec ==
  /\ FairSpec
  /\ SF_vars(\E w \in Requests, e \in Events : Deliver(w, e))
  /\ SF_vars(\E w \in Requests, t \in 1 .. Slots : Result(w, t))
  /\ WF_vars(AuthorizationExpires)

-----------------------------------------------------------------------------
(* Properties *)

AtRest == \A w \in Workers : pc[w] = "idle"
Held == Cardinality({b \in 1 .. Slots : booking[b] = "stripe_reserved"})
Unhurt == count.crashes = 0 /\ count.errors = 0

(* However often results, administrators and retries drive capture(), the  *)
(* ledger books the charge once, and only for a payment the provider took. *)
BookedOnce == posted <= 1 /\ (posted = 1 => pi = "succeeded")

(* "one booking, one unit, ever" (reserve_gpu): as long as no worker dies  *)
(* and the database answers, a transaction has at most one booking.        *)
OneBooking == Unhurt => \A b \in 2 .. Slots : booking[b] = "none"

(* "retries never run the workload twice" (dispatch_job): however requests *)
(* for the same transaction overlap, one task is made for it.              *)
OneTask == Unhurt => \A t \in 2 .. Slots : task[t] = "none"

(* Between requests, every unit of the node is free, held by another buyer *)
(* or held by a reservation: no interleaving of reserve, cancel, fail and  *)
(* reclaim loses one.                                                      *)
NoUnitLost == AtRest /\ Unhurt => free + others + Held >= Units

(* "Metering is the ONLY input to the final charge" (record_metering): the *)
(* card is charged after a billable run was metered, and for a task that   *)
(* was dispatched.                                                         *)
ChargedForMeteredWork ==
  [][pi # "succeeded" /\ pi' = "succeeded" => tx.metered # "none" /\ tx.task # 0]_vars

(* A transaction shown as paid was charged and booked. *)
PaidMeansCharged == tx.status \in SETTLED => pi = "succeeded" /\ posted = 1

(* "a genuinely in-flight transfer/capture is never double-run" (_begin_op) *)
(* and a capture is never forgotten: whatever dies or fails after the      *)
(* provider took the money, it is booked, or its operation says that a     *)
(* capture is under way.                                                   *)
ChargeLeavesTrace ==
  pi = "succeeded" => posted = 1 \/ op["capture1"] \in {"pending", "succeeded"}

(* "Two SAFE cases are reclaimed" (reclaim_abandoned_reservations): no     *)
(* reservation stays for ever with a transaction that has failed, or with  *)
(* one under way on a node without heartbeat, whatever other requests read *)
(* before and write after.                                                 *)
Abandoned ==
  Reserved /\ (tx.status \in TX_FAILED \/ (~up /\ tx.status \in PreCaptureActive))
AbandonedIsReleased == Abandoned ~> ~Abandoned

-----------------------------------------------------------------------------
(* What the code's comments claim and a run refutes *)

(* "a genuinely in-flight transfer/capture is never double-run"            *)
(* (_begin_op): one worker at a time waits for the provider's answer to a  *)
(* capture.                                                                *)
OneCapture == Cardinality({w \in Workers : pc[w] = "c_call"}) <= 1

(* "Buyer cancels: void the authorization, release the GPU, charge $0"     *)
(* (payments_cancel): a cancelled transaction was not charged.             *)
CancelledIsFree == tx.status = "CANCELLED" => posted = 0

(* "so a failed or stuck rental can never hold capacity indefinitely"      *)
(* (reclaim_abandoned_reservations): a reservation is released unless its  *)
(* payment is captured, or a worker died.                                  *)
ReservationEnds == Reserved ~> (~Reserved \/ posted > 0 \/ count.crashes > 0)

(* "the release helpers are no-ops once released"                          *)
(* (reclaim_abandoned_reservations): no unit is given back twice.          *)
NeverOversold == free + others + Held <= Units
=============================================================================
