-------------------------- MODULE ComputeTx_proofs --------------------------
(***************************************************************************)
(* Theorems about ComputeTx, for any number of workers, slots and units,   *)
(* any set of handlers, faults and verdicts, and any bounds: its type      *)
(* invariant, that a charge is booked once, that a paid transaction was    *)
(* charged and booked, that a card is charged for metered work only, that  *)
(* one task is made for a transaction, that no unit is lost, and, with one *)
(* request at a time, that a charge is never forgotten.                    *)
(*                                                                         *)
(* TxInv is the inductive invariant.  Most steps are mild: they move one   *)
(* worker between labels no part of TxInv speaks of, and keep what TxInv   *)
(* says of the row, the provider, the ledger and the tasks.  The lemmas    *)
(* Mild... prove once that such a step keeps TxInv; the other steps, those *)
(* of authorize(), dispatch_job(), record_metering() and capture(), are    *)
(* taken one by one.                                                       *)
(***************************************************************************)
EXTENDS ComputeTx, FiniteSetTheorems, TLAPS

Ran == {"DISPATCHING", "RUNNING"}
Unsaved == {"none", "canceled"}
NoTasks == \A t \in 1 .. Slots : task[t] = "none"

Claiming(w) == pc[w] \in {"retake", "reload"}
Tasking(w) == pc[w] \in {"d_task", "d_link", "d_finish"}
Capturing(w) == \/ pc[w] \in {"c_op", "c_pend", "c_call"}
                \/ Claiming(w) /\ loc[w].go = "c_pend"

(* Where a helper may return to, by the handlers that call it. *)
ReturnOK(w) ==
  /\ Claiming(w) => loc[w].go \in {"r_book", "d_task", "c_pend", "x_call"}
  /\ pc[w] \in {"b_read", "b_mark", "b_free", "k_call"} =>
       loc[w].go \in {"x_move", "f_end", "k_path"}
  /\ pc[w] \in {"m_check", "m_move", "h_event"} => loc[w].go \in {"idle", "h_done"}
  /\ pc[w] = "retake" /\ loc[w].key = "dispatch" => loc[w].go = "d_task"

(* One worker at most creates the PaymentIntent, and there is none before: *)
(* so no charge is forgotten by a second creation.                         *)
AuthInv ==
  /\ tx.status = "none" => pi \in Unsaved /\ \A w \in Workers : pc[w] # "a_call"
  /\ \A w \in Workers : pc[w] = "a_call" => pi \in Unsaved
  /\ \A w, v \in Workers : pc[w] = "a_call" /\ pc[v] = "a_call" => w = v

(* A row, loaded or not, that says dispatched has its task, and one that   *)
(* says metered was metered; a worker that captures saw a metered row.     *)
MeterOK(w) ==
  /\ Seen(w).status \in Ran => tx.task # 0
  /\ Seen(w).metered # "none" => tx.metered # "none"
  /\ pc[w] = "d_link" => loc[w].n # 0
  /\ pc[w] \in {"d_finish", "d_move", "d_run", "s_meter", "i_meter"} => tx.task # 0
  /\ Capturing(w) => tx.metered # "none"
MeterInv ==
  /\ tx.status \in Ran => tx.task # 0
  /\ tx.metered # "none" => tx.task # 0
  /\ \A w \in Workers : MeterOK(w)

(* A worker past the provider's answer holds the first key, whatever the   *)
(* version of the row it loaded: the second key cannot capture.  Only one  *)
(* worker writes the first settlement, so only one posts.                  *)
CaptureOK(w) ==
  /\ Seen(w).version # 0 \/ loc[w].key = "capture2" => pi = "succeeded"
  /\ Capturing(w) \/ pc[w] = "c_fail" => loc[w].key \in {"capture1", "capture2"}
  /\ pc[w] \in {"c_save", "c_finish", "c_settle", "c_post"} =>
       pi = "succeeded" /\ loc[w].key = "capture1"
  /\ pc[w] = "c_post" => posted = 0 /\ 1 \in settled
CaptureInv ==
  /\ tx.version # 0 => pi = "succeeded"
  /\ posted <= 1 /\ (posted = 1 => pi = "succeeded")
  /\ 1 \notin settled => posted = 0
  /\ tx.status \in SETTLED => posted = 1
  /\ \A w \in Workers : CaptureOK(w)
  /\ \A w, v \in Workers : pc[w] = "c_post" /\ pc[v] = "c_post" => w = v

(* While no worker died and the database answered, the dispatch operation  *)
(* is pending exactly while one worker makes the task, it is never failed, *)
(* and no worker is on its way to take it over.                            *)
TaskOK(w) ==
  /\ pc[w] = "d_task" => NoTasks
  /\ pc[w] \notin {"d_undo", "d_drop"}
  /\ Claiming(w) => loc[w].go # "d_task"
TaskInv ==
  Unhurt =>
    /\ op["dispatch"] = "none" => NoTasks
    /\ op["dispatch"] = "pending" <=> \E w \in Workers : Tasking(w)
    /\ op["dispatch"] # "failed"
    /\ \A t \in 2 .. Slots : task[t] = "none"
    /\ \A w \in Workers : TaskOK(w)
    /\ \A w, v \in Workers : Tasking(w) /\ Tasking(v) => w = v

TxInv == /\ TypeOK /\ \A w \in Workers : ReturnOK(w)
         /\ AuthInv /\ MeterInv /\ CaptureInv /\ TaskInv

-----------------------------------------------------------------------------
(* Types of labels, rows and local variables *)

LEMMA LabelNames ==
  /\ "idle" \in Labels /\ "retake" \in Labels /\ "reload" \in Labels /\ "a_call" \in Labels
  /\ "a_fail" \in Labels /\ "a_save" \in Labels /\ "a_move" \in Labels /\ "h_event" \in Labels
  /\ "h_done" \in Labels /\ "m_check" \in Labels /\ "m_move" \in Labels /\ "r_op" \in Labels
  /\ "r_offline" \in Labels /\ "r_none" \in Labels /\ "r_book" \in Labels /\ "r_full" \in Labels
  /\ "r_link" \in Labels /\ "r_free" \in Labels /\ "r_drop" \in Labels /\ "r_undo" \in Labels
  /\ "r_finish" \in Labels /\ "r_move" \in Labels /\ "d_check" \in Labels /\ "d_op" \in Labels
  /\ "d_task" \in Labels /\ "d_link" \in Labels /\ "d_undo" \in Labels /\ "d_drop" \in Labels
  /\ "d_finish" \in Labels /\ "d_move" \in Labels /\ "d_run" \in Labels /\ "s_find" \in Labels
  /\ "s_settle" \in Labels /\ "s_meter" \in Labels /\ "s_metered" \in Labels /\ "i_meter" \in Labels
  /\ "i_metered" \in Labels /\ "j_find" \in Labels /\ "j_fail" \in Labels /\ "c_start" \in Labels
  /\ "c_op" \in Labels /\ "c_pend" \in Labels /\ "c_call" \in Labels /\ "c_fail" \in Labels
  /\ "c_failed" \in Labels /\ "c_save" \in Labels /\ "c_finish" \in Labels /\ "c_settle" \in Labels
  /\ "c_post" \in Labels /\ "c_owe" \in Labels /\ "x_op" \in Labels /\ "x_call" \in Labels
  /\ "x_done" \in Labels /\ "x_fail" \in Labels /\ "x_move" \in Labels /\ "x_refund" \in Labels
  /\ "x_refunded" \in Labels /\ "b_read" \in Labels /\ "b_mark" \in Labels /\ "b_free" \in Labels
  /\ "f_call" \in Labels /\ "f_end" \in Labels /\ "k_call" \in Labels /\ "k_path" \in Labels
  /\ "k_last" \in Labels
BY DEF Labels

LEMMA StatusNames ==
  /\ {"DRAFT", "PAYMENT_REQUIRES_ACTION", "PAYMENT_AUTHORIZED", "GPU_RESERVED", "DISPATCHING",
      "RUNNING", "METERING_FINALIZED", "PAYMENT_CAPTURE_PENDING", "PAYMENT_CAPTURED",
      "CAPTURE_FAILED", "JOB_FAILED", "RESERVATION_FAILED", "REFUND_PENDING", "PAYMENT_FAILED",
      "CANCELLED", "REFUNDED"} \subseteq Statuses
BY DEF Statuses, Transitions

(* A move of a worker to a label, with well-typed local variables. *)
LEMMA GotoWithType ==
  ASSUME TypeOK, NEW w \in Workers, NEW from, NEW to \in Labels, NEW l \in Locals,
         GotoWith(w, from, to, l)
  PROVE  /\ pc[w] = from /\ pc' \in [Workers -> Labels] /\ loc' \in [Workers -> Locals]
         /\ pc'[w] = to /\ loc'[w] = l
         /\ \A v \in Workers \ {w} : pc'[v] = pc[v] /\ loc'[v] = loc[v]
BY DEF TypeOK, GotoWith

LEMMA LocalType ==
  ASSUME TypeOK, NEW w \in Workers
  PROVE  /\ loc[w] \in Locals /\ loc[w].row \in Row /\ loc[w].n \in 0 .. Slots
         /\ loc[w].go \in Labels /\ loc[w].key \in Keys \cup {"none"}
         /\ loc[w].event \in Events \cup {"none"}
BY DEF TypeOK, Locals

LEMMA IdleType == NoLocals \in Locals /\ NewRow \in Row
<1>1. Slots \in Nat
  BY CountAssumption
<1>2. NewRow \in Row
  BY <1>1 DEF NewRow, Row
<1>3. NoLocals \in Locals
  BY <1>1, <1>2 DEF NoLocals, Locals, Labels
<1> QED BY <1>2, <1>3

LEMMA PutType ==
  ASSUME TypeOK, NEW w \in Workers, NEW r \in Row
  PROVE  Put(w, r) \in Locals /\ Put(w, r).row = r /\ Put(w, r).n = loc[w].n
         /\ Put(w, r).go = loc[w].go /\ Put(w, r).key = loc[w].key
BY LocalType DEF Put, Locals

LEMMA LocalFieldType ==
  ASSUME NEW l \in Locals
  PROVE  /\ \A r \in Row : [l EXCEPT !.row = r] \in Locals
         /\ \A n \in 0 .. Slots : [l EXCEPT !.n = n] \in Locals
         /\ \A g \in Labels : [l EXCEPT !.go = g] \in Locals
         /\ \A k \in Keys : [l EXCEPT !.key = k] \in Locals
         /\ \A k \in Keys, g \in Labels : [l EXCEPT !.key = k, !.go = g] \in Locals
BY DEF Locals

LEMMA RowFieldType ==
  ASSUME NEW r \in Row
  PROVE  /\ \A s \in Statuses : [r EXCEPT !.status = s] \in Row
         /\ \A b \in 0 .. Slots : [r EXCEPT !.booking = b] \in Row
         /\ \A t \in 0 .. Slots : [r EXCEPT !.task = t] \in Row
         /\ \A m \in {"zero", "billable"} : [r EXCEPT !.metered = m] \in Row
         /\ \A v \in 0 .. 2 : [r EXCEPT !.version = v] \in Row
         /\ [r EXCEPT !.pi = TRUE] \in Row
BY DEF Row

(* transition() on a well-typed row: it moves the row or refuses, and      *)
(* leaves the other workers alone.                                         *)
LEMMA TransitionType ==
  ASSUME TypeOK, NEW w \in Workers, NEW from, NEW s \in Statuses, NEW to \in Labels,
         NEW raise \in Labels, Transition(w, from, s, to, raise)
  PROVE  /\ pc[w] = from /\ tx' \in Row
         /\ pc' \in [Workers -> Labels] /\ loc' \in [Workers -> Locals]
         /\ \A v \in Workers \ {w} : pc'[v] = pc[v] /\ loc'[v] = loc[v]
         /\ \/ /\ tx' = [tx EXCEPT !.status = s] /\ s \in Transitions[Seen(w).status]
               /\ pc'[w] = to /\ loc'[w] = IF to = "idle" THEN NoLocals ELSE Put(w, tx')
            \/ /\ tx' = tx /\ s \notin Transitions[Seen(w).status]
               /\ pc'[w] = raise /\ loc'[w] = IF raise = "idle" THEN NoLocals ELSE loc[w]
<1>1. tx \in Row
  BY DEF TypeOK
<1>2. CASE /\ tx' = [tx EXCEPT !.status = s] /\ s \in Transitions[Seen(w).status]
           /\ GotoWith(w, from, to, IF to = "idle" THEN NoLocals ELSE Put(w, tx'))
  <2>1. tx' \in Row
    BY <1>1, <1>2, RowFieldType
  <2>2. (IF to = "idle" THEN NoLocals ELSE Put(w, tx')) \in Locals
    BY <2>1, IdleType, PutType
  <2> QED BY <1>2, <2>1, <2>2, GotoWithType
<1>3. CASE /\ tx' = tx /\ s \notin Transitions[Seen(w).status]
           /\ IF raise = "idle" THEN Done(w, from) ELSE Goto(w, from, raise)
  <2>1. GotoWith(w, from, raise, IF raise = "idle" THEN NoLocals ELSE loc[w])
    BY <1>3 DEF Done, Goto
  <2>2. (IF raise = "idle" THEN NoLocals ELSE loc[w]) \in Locals
    BY IdleType, LocalType
  <2> QED BY <1>1, <1>3, <2>1, <2>2, GotoWithType
<1> QED BY <1>2, <1>3 DEF Transition

-----------------------------------------------------------------------------
(* The steps that disturb nothing but the worker's place *)

(* the labels TxInv speaks of, besides those of the helpers' callers *)
Delicate == {"a_call", "d_task", "d_link", "d_finish", "d_move", "d_run", "d_undo", "d_drop",
             "s_meter", "i_meter", "c_op", "c_pend", "c_call", "c_fail", "c_save", "c_finish",
             "c_settle", "c_post"}

StepOf(w) ==
  /\ pc' \in [Workers -> Labels] /\ loc' \in [Workers -> Locals]
  /\ \A v \in Workers \ {w} : pc'[v] = pc[v] /\ loc'[v] = loc[v]
(* What a mild step keeps: of the row, of the payment, of the tasks, and   *)
(* of the worker's own variables, which come from a row that was there.    *)
RowKept == /\ tx'.task = tx.task /\ tx'.metered = tx.metered /\ tx'.version = tx.version
           /\ tx'.status \in Ran => tx.status \in Ran
           /\ tx'.status \in SETTLED => tx.status \in SETTLED
           /\ tx'.status = "none" => tx.status = "none"
PaymentKept == /\ pi = "succeeded" => pi' = "succeeded"
               /\ pi \in Unsaved => pi' \in Unsaved
               /\ posted' = posted /\ settled' = settled
TasksKept == /\ op'["dispatch"] = op["dispatch"]
             /\ \A t \in 1 .. Slots : task'[t] = "none" <=> task[t] = "none"
             /\ Unhurt' => Unhurt
LocalKept(w) ==
  /\ \E r \in {loc[w].row, tx', NewRow} :
       /\ loc'[w].row.status = r.status /\ loc'[w].row.metered = r.metered
       /\ loc'[w].row.version = r.version
  /\ loc'[w].key = "capture2" => loc[w].key = "capture2"
  /\ pc[w] \notin Delicate \/ (pc'[w] = "idle" /\ (Tasking(w) => ~Unhurt'))
  /\ pc'[w] \notin Delicate
  /\ Claiming(w)' => loc'[w].go \in {"r_book", "x_call"}

Mild(w) == /\ TypeOK' /\ StepOf(w) /\ ReturnOK(w)'
           /\ RowKept /\ PaymentKept /\ TasksKept /\ LocalKept(w)

(* A mild step keeps each part of the invariant. *)
LEMMA MildAuth == ASSUME TxInv, NEW w \in Workers, Mild(w) PROVE AuthInv'
BY DEF TxInv, AuthInv, Mild, StepOf, RowKept, PaymentKept, LocalKept, Delicate

LEMMA MildMeter == ASSUME TxInv, NEW w \in Workers, Mild(w) PROVE MeterInv'
<1> USE DEF TxInv, MeterInv, MeterOK, Mild, StepOf, RowKept, LocalKept, Delicate, Seen, Capturing,
            Claiming, NewRow, Ran
<1>1. (tx.status \in Ran => tx.task # 0)' /\ (tx.metered # "none" => tx.task # 0)'
  OBVIOUS
<1>2. ASSUME NEW v \in Workers \ {w} PROVE MeterOK(v)'
  BY <1>2
<1>3. MeterOK(w)'
  OBVIOUS
<1> QED BY <1>1, <1>2, <1>3

LEMMA MildCapture == ASSUME TxInv, NEW w \in Workers, Mild(w) PROVE CaptureInv'
BY DEF TxInv, CaptureInv, CaptureOK, Mild, StepOf, RowKept, PaymentKept, LocalKept, Delicate,
   Seen, Capturing, Claiming, NewRow

LEMMA MildTask == ASSUME TxInv, NEW w \in Workers, Mild(w) PROVE TaskInv'
BY DEF TxInv, TaskInv, TaskOK, Mild, StepOf, TasksKept, LocalKept, Delicate, Tasking, Claiming,
   NoTasks

LEMMA MildReturn == ASSUME TxInv, NEW w \in Workers, Mild(w) PROVE (\A v \in Workers : ReturnOK(v))'
BY DEF TxInv, ReturnOK, Mild, StepOf, Claiming

-----------------------------------------------------------------------------
(* Mild steps, by the helper they are made of *)

Returning == {"retake", "reload", "b_read", "b_mark", "b_free", "k_call",
              "m_check", "m_move", "h_event"}
Plain == Labels \ (Delicate \cup Returning)

(* what a step that only moves a worker leaves alone *)
Still == UNCHANGED <<tx, op, booking, task, node, provider, books, count>>

LEMMA StillKeeps == ASSUME TxInv, Still PROVE RowKept /\ PaymentKept /\ TasksKept
BY DEF Still, RowKept, PaymentKept, TasksKept, provider, books, Unhurt

SharedType ==
  /\ tx' \in Row /\ op' \in [Keys -> {"none", "pending", "failed", "succeeded"}]
  /\ booking' \in [1 .. Slots -> {"none", "stripe_reserved", "released_unused"}]
  /\ task' \in [1 .. Slots -> {"none", "pending", "completed", "failed"}]
  /\ free' \in 0 .. Units /\ others' \in Nat /\ up' \in BOOLEAN
  /\ pi' \in {"none", "requires_payment_method", "requires_capture", "succeeded", "canceled"}
  /\ events' \subseteq Events
  /\ posted' \in Nat /\ settled' \subseteq 1 .. 2 /\ owed' \in BOOLEAN
  /\ count' \in Counts

LEMMA StillType == ASSUME TypeOK, Still PROVE SharedType
BY DEF Still, SharedType, TypeOK, node, provider, books

LEMMA MildMove ==
  ASSUME TxInv, NEW w \in Workers, NEW from, NEW to \in Labels \ Delicate, NEW l \in Locals,
         GotoWith(w, from, to, l),
         pc[w] \notin Delicate \/ (to = "idle" /\ (Tasking(w) => ~Unhurt')),
         \E r \in {loc[w].row, tx', NewRow} :
            l.row.status = r.status /\ l.row.metered = r.metered /\ l.row.version = r.version,
         l.key = "capture2" => loc[w].key = "capture2",
         to \in {"retake", "reload"} => l.go \in {"r_book", "x_call"},
         to = "retake" => l.key # "dispatch",
         to \in {"b_read", "b_mark", "b_free", "k_call"} => l.go \in {"x_move", "f_end", "k_path"},
         to \in {"m_check", "m_move", "h_event"} => l.go \in {"idle", "h_done"},
         SharedType, RowKept, PaymentKept, TasksKept
  PROVE  Mild(w)
<1>0. TypeOK
  BY DEF TxInv
<1>1. StepOf(w) /\ pc[w] = from /\ pc'[w] = to /\ loc'[w] = l
  BY <1>0 DEF StepOf, GotoWith, TypeOK
<1>2. TypeOK'
  BY <1>1 DEF SharedType, TypeOK, StepOf
<1>3. ReturnOK(w)'
  BY <1>1 DEF ReturnOK, Claiming
<1>4. LocalKept(w)
  BY <1>1 DEF LocalKept, Claiming, Tasking
<1> QED BY <1>1, <1>2, <1>3, <1>4 DEF Mild

(* The forms of a move: into another row of the shared state, or not. *)
LEMMA MildShared ==
  ASSUME TxInv, NEW w \in Workers, NEW from, NEW to \in Plain, Goto(w, from, to),
         pc[w] \notin Delicate, SharedType, RowKept, PaymentKept, TasksKept
  PROVE  Mild(w)
<1>1. GotoWith(w, from, to, loc[w]) /\ loc[w] \in Locals
  BY LocalType DEF TxInv, Goto
<1>2. to \in Labels \ Delicate /\ to \notin Returning
  BY DEF Plain
<1> QED BY <1>1, <1>2, MildMove DEF Returning

LEMMA MildGoto ==
  ASSUME TxInv, NEW w \in Workers, NEW from, NEW to \in Plain, Goto(w, from, to),
         pc[w] \notin Delicate, Still
  PROVE  Mild(w)
BY MildShared, StillType, StillKeeps DEF TxInv

LEMMA MildEnd ==
  ASSUME TxInv, NEW w \in Workers, NEW from, Done(w, from),
         Tasking(w) => ~Unhurt', SharedType, RowKept, PaymentKept, TasksKept
  PROVE  Mild(w)
BY IdleType, LabelNames, MildMove DEF Done, NoLocals, Delicate

LEMMA MildDone ==
  ASSUME TxInv, NEW w \in Workers, NEW from, Done(w, from), ~Tasking(w), Still
  PROVE  Mild(w)
BY MildEnd, StillType, StillKeeps DEF TxInv

LEMMA MildTransition ==
  ASSUME TxInv, NEW w \in Workers, NEW from \in Labels \ Delicate,
     NEW s \in Statuses \ (Ran \cup SETTLED \cup {"none"}),
         NEW to \in Plain, NEW raise \in Plain, Transition(w, from, s, to, raise),
         UNCHANGED <<op, booking, task, node, provider, books, count>>
  PROVE  Mild(w)
<1> TypeOK
  BY DEF TxInv
<1>0. tx \in Row
  BY DEF TypeOK
<1> to \in Labels /\ raise \in Labels
  BY DEF Plain
<1>1. StepOf(w) /\ pc[w] = from /\ tx' \in Row
  BY TransitionType DEF StepOf
<1>2. TypeOK'
  BY <1>1 DEF TxInv, TypeOK, StepOf, node, provider, books
<1>3. \/ /\ tx' = [tx EXCEPT !.status = s] /\ pc'[w] = to
         /\ loc'[w] = IF to = "idle" THEN NoLocals ELSE Put(w, tx')
      \/ tx' = tx /\ pc'[w] = raise /\ loc'[w] = (IF raise = "idle" THEN NoLocals ELSE loc[w])
  BY <1>0, <1>1 DEF Transition, GotoWith, Done, Goto, TypeOK
<1>4. RowKept /\ PaymentKept /\ TasksKept
  BY <1>0, <1>3 DEF RowKept, PaymentKept, TasksKept, provider, books, Unhurt, Row
<1>5. ReturnOK(w)'
  BY <1>3 DEF ReturnOK, Claiming, Plain, Returning
<1>6. LocalKept(w)
  <2>1. loc'[w].row \in {loc[w].row, tx', NewRow} /\ loc'[w].key \in {loc[w].key, "none"}
    BY <1>1, <1>3, <1>0, PutType DEF NoLocals
  <2> QED BY <1>1, <1>3, <2>1 DEF LocalKept, Claiming, Tasking, Plain, Returning
<1> QED BY <1>1, <1>2, <1>4, <1>5, <1>6 DEF Mild

LEMMA LoadedType ==
  ASSUME TypeOK
  PROVE  LET l == [NoLocals EXCEPT !.row = tx]
         IN  l \in Locals /\ l.row = tx /\ l.key = "none" /\ l.go = "idle"
BY IdleType, LocalFieldType DEF TypeOK, NoLocals

(* A worker begins with the row as it is now. *)
LEMMA MildLoad ==
  ASSUME TxInv, NEW w \in Workers, NEW from, NEW to \in Plain \cup {"m_check", "m_move", "h_event"},
         GotoWith(w, from, to, [NoLocals EXCEPT !.row = tx]), pc[w] \notin Delicate, Still
  PROVE  Mild(w)
<1>1. to \in Labels \ Delicate /\ to \notin {"retake", "reload", "b_read", "b_mark", "b_free",
   "k_call"}
  BY LabelNames DEF Plain, Delicate, Returning
<1>2. tx' = tx /\ SharedType /\ RowKept /\ PaymentKept /\ TasksKept
  BY StillType, StillKeeps DEF TxInv, Still
<1> QED BY <1>1, <1>2, LoadedType, MildMove DEF TxInv

LEMMA AuthorizeSaveMild == ASSUME TxInv, NEW w \in Workers, AuthorizeSave(w) PROVE Mild(w)
<1>1. tx \in Row /\ loc[w].row \in Row /\ TypeOK
  BY LocalType DEF TxInv, TypeOK
<1> DEFINE r == [Seen(w) EXCEPT !.pi = TRUE]
<1>2. r \in Row /\ tx' = [tx EXCEPT !.pi = TRUE] /\ tx' \in Row
  BY <1>1, RowFieldType DEF Seen, AuthorizeSave, Write
<1>3. Put(w, r) \in Locals /\ Put(w, r).row = r /\ Put(w, r).key = loc[w].key
  BY <1>1, <1>2, PutType
<1>4. /\ r.status = loc[w].row.status /\ r.metered = loc[w].row.metered
      /\ r.version = loc[w].row.version
  BY <1>1 DEF Seen, Row
<1>5. SharedType /\ RowKept /\ PaymentKept /\ TasksKept
  BY <1>1, <1>2 DEF AuthorizeSave, SharedType, RowKept, PaymentKept, TasksKept, TypeOK, Row,
                    node, provider, books, Unhurt
<1>6. GotoWith(w, "a_save", "a_move", Put(w, r)) /\ pc[w] \notin Delicate
  BY DEF AuthorizeSave, Write, GotoWith, Delicate
<1>7. "a_move" \in Plain
  BY LabelNames DEF Plain, Delicate, Returning
<1> QED BY <1>3, <1>4, <1>5, <1>6, <1>7, MildMove DEF Plain, Returning

LEMMA MarkCheckMild == ASSUME TxInv, NEW w \in Workers, MarkCheck(w) PROVE Mild(w)
<1>1. loc[w].go \in {"idle", "h_done"} /\ pc[w] = "m_check" /\ Still /\ loc[w] \in Locals
  BY LocalType DEF TxInv, ReturnOK, MarkCheck, Still
<1>2. CASE Goto(w, "m_check", "m_move")
  BY <1>1, <1>2, MildMove, StillType, StillKeeps, LabelNames DEF TxInv, Goto, Delicate
<1>3. CASE Done(w, "m_check")
  BY <1>1, <1>3, MildDone DEF Tasking
<1>4. CASE Goto(w, "m_check", loc[w].go)
  BY <1>1, <1>4, MildGoto, LabelNames DEF Plain, Delicate, Returning
<1> QED BY <1>2, <1>3, <1>4 DEF MarkCheck

LEMMA MarkMoveMild == ASSUME TxInv, NEW w \in Workers, MarkMove(w) PROVE Mild(w)
<1>1. pc[w] = "m_move" => loc[w].go \in {"idle", "h_done"}
  BY DEF TxInv, ReturnOK
<1>2. Transition(w, "m_move", "PAYMENT_AUTHORIZED", loc[w].go, loc[w].go)
  BY DEF MarkMove
<1>3. pc[w] = "m_move"
  BY <1>2 DEF Transition
<1>4. loc[w].go \in Plain /\ "m_move" \in Labels \ Delicate
  BY <1>1, <1>3, LabelNames DEF Plain, Delicate, Returning
<1>5. "PAYMENT_AUTHORIZED" \in Statuses \ (Ran \cup SETTLED \cup {"none"})
  BY StatusNames DEF Ran, SETTLED
<1> QED BY <1>2, <1>4, <1>5, MildTransition DEF MarkMove

LEMMA SettleFindMild == ASSUME TxInv, NEW w \in Workers, SettleFind(w) PROVE Mild(w)
<1>1. pc[w] = "s_find" /\ Still /\ ~Tasking(w) /\ pc[w] \notin Delicate
  BY DEF SettleFind, Still, Delicate, Tasking
<1>2. {"s_settle", "j_fail"} \subseteq Plain
  BY LabelNames DEF Plain, Delicate, Returning
<1>3. CASE Done(w, "s_find")
  BY <1>1, <1>3, MildDone
<1>4. CASE \E to \in {"s_settle", "j_fail"} : GotoWith(w, "s_find", to,
   [NoLocals EXCEPT !.row = tx])
  BY <1>1, <1>2, <1>4, MildLoad
<1> QED BY <1>3, <1>4, SetAssumption DEF SettleFind

LEMMA ReleaseReadMild == ASSUME TxInv, NEW w \in Workers, ReleaseRead(w) PROVE Mild(w)
<1>1. loc[w].go \in {"x_move", "f_end", "k_path"} /\ pc[w] = "b_read" /\ Still /\ loc[w] \in Locals
  BY LocalType DEF TxInv, ReturnOK, ReleaseRead, Still
<1>2. CASE Goto(w, "b_read", "b_mark")
  BY <1>1, <1>2, MildMove, StillType, StillKeeps, LabelNames DEF TxInv, Goto, Delicate
<1>3. CASE Goto(w, "b_read", loc[w].go)
  BY <1>1, <1>3, MildGoto, LabelNames DEF Plain, Delicate, Returning
<1> QED BY <1>2, <1>3 DEF ReleaseRead

LEMMA FailFindMild == ASSUME TxInv, NEW w \in Workers, FailFind(w) PROVE Mild(w)
<1>1. pc[w] = "j_find" /\ Still /\ ~Tasking(w) /\ pc[w] \notin Delicate
  BY DEF FailFind, Still, Delicate, Tasking
<1>2. "j_fail" \in Plain
  BY LabelNames DEF Plain, Delicate, Returning
<1> QED BY <1>1, <1>2, MildDone, MildLoad DEF FailFind

LEMMA AuthorizeFailMild == ASSUME TxInv, NEW w \in Workers, AuthorizeFail(w) PROVE Mild(w)
BY MildTransition, StatusNames, LabelNames
DEF AuthorizeFail, Plain, Delicate, Returning, Ran, SETTLED

LEMMA AuthorizeMoveMild == ASSUME TxInv, NEW w \in Workers, AuthorizeMove(w) PROVE Mild(w)
BY MildTransition, StatusNames, LabelNames
DEF AuthorizeMove, Plain, Delicate, Returning, Ran, SETTLED

LEMMA HandleCapturableMild == ASSUME TxInv, NEW w \in Workers, HandleCapturable(w) PROVE Mild(w)
BY MildMove, LabelNames, StillType, StillKeeps, LocalFieldType, LocalType, MildGoto
DEF HandleCapturable, Still, Plain, Delicate, Returning, TxInv, ReturnOK, Goto, Goto, Done, GotoWith

LEMMA HandleFailedMild == ASSUME TxInv, NEW w \in Workers, HandleFailed(w) PROVE Mild(w)
BY MildTransition, StatusNames, LabelNames, MildGoto
DEF HandleFailed, Plain, Delicate, Returning, Ran, SETTLED, Still, Goto, Done, GotoWith

LEMMA HandleCanceledMild == ASSUME TxInv, NEW w \in Workers, HandleCanceled(w) PROVE Mild(w)
BY MildTransition, StatusNames, LabelNames, MildGoto
DEF HandleCanceled, Plain, Delicate, Returning, Ran, SETTLED, Still, Goto, Done, GotoWith

LEMMA EventDoneMild == ASSUME TxInv, NEW w \in Workers, EventDone(w) PROVE Mild(w)
BY MildEnd
DEF EventDone, SharedType, RowKept, PaymentKept, TasksKept, TxInv, TypeOK, node, books, Unhurt,
    Tasking, Done, GotoWith, Goto, Done, GotoWith

LEMMA ReserveOfflineMild == ASSUME TxInv, NEW w \in Workers, ReserveOffline(w) PROVE Mild(w)
BY MildTransition, StatusNames, LabelNames
DEF ReserveOffline, Plain, Delicate, Returning, Ran, SETTLED

LEMMA ReserveMoveMild == ASSUME TxInv, NEW w \in Workers, ReserveMove(w) PROVE Mild(w)
BY MildTransition, StatusNames, LabelNames DEF ReserveMove, Plain, Delicate, Returning, Ran, SETTLED

LEMMA MeteringMoveMild == ASSUME TxInv, NEW w \in Workers, MeteringMove(w) PROVE Mild(w)
BY MildTransition, StatusNames, LabelNames
DEF MeteringMove, Plain, Delicate, Returning, Ran, SETTLED

LEMMA CaptureFailedMild == ASSUME TxInv, NEW w \in Workers, CaptureFailed(w) PROVE Mild(w)
BY MildTransition, StatusNames, LabelNames
DEF CaptureFailed, Plain, Delicate, Returning, Ran, SETTLED

LEMMA CancelMoveMild == ASSUME TxInv, NEW w \in Workers, CancelMove(w) PROVE Mild(w)
BY MildTransition, StatusNames, LabelNames DEF CancelMove, Plain, Delicate, Returning, Ran, SETTLED

LEMMA CancelRefundMild == ASSUME TxInv, NEW w \in Workers, CancelRefund(w) PROVE Mild(w)
BY MildTransition, StatusNames, LabelNames
DEF CancelRefund, Plain, Delicate, Returning, Ran, SETTLED

LEMMA ReserveFullMild == ASSUME TxInv, NEW w \in Workers, ReserveFull(w) PROVE Mild(w)
BY MildGoto, LabelNames DEF ReserveFull, Still, Plain, Delicate, Returning, Goto, Done, GotoWith

LEMMA DispatchCheckMild == ASSUME TxInv, NEW w \in Workers, DispatchCheck(w) PROVE Mild(w)
BY MildGoto, LabelNames, MildDone
DEF DispatchCheck, Still, Plain, Delicate, Returning, Tasking, Goto, Done, GotoWith

LEMMA ReleaseEndMild == ASSUME TxInv, NEW w \in Workers, ReleaseEnd(w) PROVE Mild(w)
BY MildDone DEF ReleaseEnd, Still, Done, GotoWith, Tasking, Goto, Done, GotoWith

LEMMA MildClaim ==
  ASSUME TxInv, NEW w \in Workers, NEW from, NEW recoverable,
         NEW k \in {"reserve", "cancel"},
         NEW to \in {"r_book", "x_call"}, Begin(w, from, k, to, recoverable), pc[w] \notin Delicate,
         UNCHANGED <<tx, booking, task, node, provider, books, count>>
  PROVE  Mild(w)
<1>0. TypeOK /\ loc[w] \in Locals /\ k \in Keys /\ k \notin {"dispatch",
   "capture2"} /\ to \in Labels
  BY LocalType, LabelNames DEF TxInv, Keys
<1>1. op' \in [Keys -> {"none", "pending", "failed",
   "succeeded"}] /\ op'["dispatch"] = op["dispatch"]
  BY <1>0 DEF TypeOK, Begin, Keys
<1>2. SharedType /\ RowKept /\ PaymentKept /\ TasksKept /\ tx' = tx
  BY <1>0, <1>1
  DEF SharedType, RowKept, PaymentKept, TasksKept, TypeOK, node, provider, books, Unhurt
<1>3. CASE Goto(w, from, to)
  <2>1. to \in Plain
    BY <1>0 DEF Plain, Delicate, Returning
  <2> QED BY <1>2, <1>3, <2>1, MildShared
<1>4. CASE GotoWith(w, from, "retake", [loc[w] EXCEPT !.key = k, !.go = to])
  <2> DEFINE l == [loc[w] EXCEPT !.key = k, !.go = to]
  <2>1. l \in Locals /\ l.key = k /\ l.go = to /\ l.row = loc[w].row
    BY <1>0, LocalFieldType DEF Locals
  <2>2. "retake" \in Labels \ Delicate
    BY LabelNames DEF Delicate
  <2> QED BY <1>0, <1>2, <1>4, <2>1, <2>2, MildMove
<1>5. CASE GotoWith(w, from, "reload", [loc[w] EXCEPT !.go = to])
  <2> DEFINE l == [loc[w] EXCEPT !.go = to]
  <2>1. l \in Locals /\ l.key = loc[w].key /\ l.go = to /\ l.row = loc[w].row
    BY <1>0, LocalFieldType DEF Locals
  <2>2. "reload" \in Labels \ Delicate
    BY LabelNames DEF Delicate
  <2> QED BY <1>0, <1>2, <1>5, <2>1, <2>2, MildMove
<1>6. CASE Done(w, from)
  BY <1>2, <1>6, MildEnd DEF Tasking, Delicate
<1> QED BY <1>3, <1>4, <1>5, <1>6 DEF Begin

LEMMA ReserveClaimMild == ASSUME TxInv, NEW w \in Workers, ReserveClaim(w) PROVE Mild(w)
BY MildClaim DEF ReserveClaim, Begin, Goto, Done, GotoWith, Delicate

LEMMA CancelClaimMild == ASSUME TxInv, NEW w \in Workers, CancelClaim(w) PROVE Mild(w)
BY MildClaim DEF CancelClaim, Begin, Goto, Done, GotoWith, Delicate

(* A worker closes an operation other than the dispatch. *)
LEMMA OpKeeps ==
  ASSUME TxInv, NEW k \in Keys \ {"dispatch"}, NEW s \in {"failed", "succeeded"},
         op' = [op EXCEPT ![k] = s], UNCHANGED <<tx, booking, task, node, provider, books, count>>
  PROVE  SharedType /\ RowKept /\ PaymentKept /\ TasksKept /\ tx' = tx
BY DEF TxInv, SharedType, RowKept, PaymentKept, TasksKept, TypeOK, node, provider, books, Unhurt,
   Keys

LEMMA ReserveFullOpMild == ASSUME TxInv, NEW w \in Workers, ReserveFullOp(w) PROVE Mild(w)
BY OpKeeps, MildShared, LabelNames
DEF ReserveFullOp, FinishOp, Goto, GotoWith, Plain, Delicate, Returning, Keys

LEMMA ReserveFinishMild == ASSUME TxInv, NEW w \in Workers, ReserveFinish(w) PROVE Mild(w)
BY OpKeeps, MildShared, LabelNames
DEF ReserveFinish, FinishOp, Goto, GotoWith, Plain, Delicate, Returning, Keys

LEMMA ReserveUndoMild == ASSUME TxInv, NEW w \in Workers, ReserveUndo(w) PROVE Mild(w)
BY OpKeeps, MildEnd DEF ReserveUndo, Done, GotoWith, Tasking, Keys

LEMMA CancelFinishMild == ASSUME TxInv, NEW w \in Workers, CancelFinish(w) PROVE Mild(w)
<1>1. PICK s \in {"succeeded", "failed"} :
        LET from == IF s = "succeeded" THEN "x_done" ELSE "x_fail" IN
        /\ pc[w] = from /\ op' = [op EXCEPT !["cancel"] = s]
        /\ GotoWith(w, from, "b_read", [loc[w] EXCEPT !.go = "x_move"])
  BY DEF CancelFinish
<1>2. SharedType /\ RowKept /\ PaymentKept /\ TasksKept /\ tx' = tx
  BY <1>1, OpKeeps DEF Keys, CancelFinish
<1> DEFINE l == [loc[w] EXCEPT !.go = "x_move"]
<1>0. loc[w] \in Locals /\ "x_move" \in Labels
  BY LocalType, LabelNames DEF TxInv
<1>3. l \in Locals /\ l.go = "x_move" /\ l.key = loc[w].key /\ l.row = loc[w].row
  BY <1>0, LocalFieldType DEF Locals
<1>4. pc[w] \notin Delicate /\ "b_read" \in Labels \ Delicate
  BY <1>1, LabelNames DEF Delicate
<1> QED BY <1>1, <1>2, <1>3, <1>4, MildMove

(* The booking or the free units change. *)
NodeStep == UNCHANGED <<tx, op, task, up, provider, books, count>>
LEMMA NodeKeeps == ASSUME TxInv, NodeStep PROVE RowKept /\ PaymentKept /\ TasksKept /\ tx' = tx
BY DEF NodeStep, RowKept, PaymentKept, TasksKept, provider, books, Unhurt
LEMMA NodeType ==
  ASSUME TypeOK, NodeStep, free' \in 0 .. Units, others' \in Nat,
         booking' \in [1 .. Slots -> {"none", "stripe_reserved", "released_unused"}]
  PROVE  SharedType
BY DEF NodeStep, SharedType, TypeOK, provider, books
LEMMA ReleasableType == ASSUME TypeOK PROVE Releasable(free) \in 0 .. Units
<1>1. Units \in Nat
  BY CountAssumption
<1> QED BY <1>1 DEF TypeOK, Releasable

LEMMA ReserveBookMild == ASSUME TxInv, NEW w \in Workers, ReserveBook(w) PROVE Mild(w)
<1>1. PICK b \in FreeSlot(booking) :
        /\ booking' = [booking EXCEPT ![b] = "stripe_reserved"]
        /\ GotoWith(w, "r_book", "r_link", [loc[w] EXCEPT !.n = b])
  BY DEF ReserveBook
<1>2. TypeOK /\ Slots \in Nat /\ Units \in Nat
  BY CountAssumption DEF TxInv
<1>3. b \in 1 .. Slots
  BY DEF FreeSlot
<1>4. NodeStep /\ others' \in Nat
      /\ booking' \in [1 .. Slots -> {"none", "stripe_reserved", "released_unused"}]
  BY <1>1, <1>2, <1>3 DEF ReserveBook, NodeStep, TypeOK
<1>8. free' \in 0 .. Units
  BY <1>2 DEF ReserveBook, TypeOK
<1> DEFINE l == [loc[w] EXCEPT !.n = b]
<1>9. loc[w] \in Locals /\ b \in 0 .. Slots
  BY <1>2, <1>3, LocalType
<1>5. l \in Locals /\ l.key = loc[w].key /\ l.row = loc[w].row
  BY <1>9, LocalFieldType DEF Locals
<1>6. "r_link" \in Plain /\ pc[w] \notin Delicate
  BY <1>1, LabelNames DEF Plain, Delicate, Returning, GotoWith
<1>7. SharedType /\ RowKept /\ PaymentKept /\ TasksKept
  BY <1>2, <1>4, <1>8, NodeType, NodeKeeps
<1> QED BY <1>1, <1>5, <1>6, <1>7, MildMove DEF Plain, Returning

LEMMA ReserveCompensateMild == ASSUME TxInv, NEW w \in Workers, ReserveCompensate(w) PROVE Mild(w)
<1>1. NodeStep /\ free' \in 0 .. Units /\ others' = others /\ booking' = booking
  BY ReleasableType DEF TxInv, ReserveCompensate, NodeStep
<1>2. SharedType
  BY <1>1, NodeType DEF TxInv, TypeOK
<1> QED BY <1>1, <1>2, NodeKeeps, MildShared, LabelNames
        DEF ReserveCompensate, Goto, GotoWith, Plain, Delicate, Returning

LEMMA ReserveDropMild == ASSUME TxInv, NEW w \in Workers, ReserveDrop(w) PROVE Mild(w)
<1>1. NodeStep /\ free' = free /\ others' = others
  BY DEF ReserveDrop, NodeStep, node
<1>2. booking' \in [1 .. Slots -> {"none", "stripe_reserved", "released_unused"}]
  BY DEF TxInv, TypeOK, ReserveDrop
<1>3. SharedType
  BY <1>1, <1>2, NodeType DEF TxInv, TypeOK
<1> QED BY <1>1, <1>3, NodeKeeps, MildShared, LabelNames
        DEF ReserveDrop, Goto, GotoWith, Plain, Delicate, Returning

LEMMA ReleaseMarkMild == ASSUME TxInv, NEW w \in Workers, ReleaseMark(w) PROVE Mild(w)
<1>1. NodeStep /\ free' = free /\ others' = others
  BY DEF ReleaseMark, NodeStep, node
<1>2. booking' \in [1 .. Slots -> {"none", "stripe_reserved", "released_unused"}]
  BY DEF TxInv, TypeOK, ReleaseMark
<1>3. SharedType /\ loc[w] \in Locals
  BY <1>1, <1>2, NodeType, LocalType DEF TxInv, TypeOK
<1>4. loc[w].go \in {"x_move", "f_end", "k_path"}
  BY DEF TxInv, ReturnOK, ReleaseMark
<1>5. GotoWith(w, "b_mark", "b_free",
   loc[w]) /\ pc[w] \notin Delicate /\ "b_free" \in Labels \ Delicate
  BY LabelNames DEF ReleaseMark, Goto, Delicate
<1> QED BY <1>1, <1>3, <1>4, <1>5, NodeKeeps, MildMove

LEMMA ReleaseFreeMild == ASSUME TxInv, NEW w \in Workers, ReleaseFree(w) PROVE Mild(w)
<1>1. NodeStep /\ free' \in 0 .. Units /\ others' = others /\ booking' = booking
  BY ReleasableType DEF TxInv, ReleaseFree, NodeStep
<1>2. SharedType
  BY <1>1, NodeType DEF TxInv, TypeOK
<1>3. loc[w].go \in {"x_move", "f_end", "k_path"} /\ pc[w] = "b_free"
  BY DEF TxInv, ReturnOK, ReleaseFree, Goto, GotoWith
<1>4. loc[w].go \in Plain /\ pc[w] \notin Delicate
  BY <1>3, LabelNames DEF Plain, Delicate, Returning
<1> QED BY <1>1, <1>2, <1>4, NodeKeeps, MildShared DEF ReleaseFree

LEMMA ReserveLinkMild == ASSUME TxInv, NEW w \in Workers, ReserveLink(w) PROVE Mild(w)
<1>1. tx \in Row /\ loc[w].row \in Row /\ TypeOK /\ loc[w].n \in 0 .. Slots
  BY LocalType DEF TxInv, TypeOK
<1> DEFINE r == [Seen(w) EXCEPT !.booking = loc[w].n]
<1>2. r \in Row /\ tx' = [tx EXCEPT !.booking = loc[w].n] /\ tx' \in Row
  BY <1>1, RowFieldType DEF Seen, ReserveLink, Write
<1>3. Put(w, r) \in Locals /\ Put(w, r).row = r /\ Put(w, r).key = loc[w].key
  BY <1>1, <1>2, PutType
<1>4. /\ r.status = loc[w].row.status /\ r.metered = loc[w].row.metered
      /\ r.version = loc[w].row.version
  BY <1>1 DEF Seen, Row
<1>5. SharedType /\ RowKept /\ PaymentKept /\ TasksKept
  BY <1>1, <1>2 DEF ReserveLink, SharedType, RowKept, PaymentKept, TasksKept, TypeOK, Row,
                    node, provider, books, Unhurt
<1>6. GotoWith(w, "r_link", "r_finish", Put(w, r)) /\ pc[w] \notin Delicate
  BY DEF ReserveLink, Write, GotoWith, Delicate
<1>7. "r_finish" \in Plain
  BY LabelNames DEF Plain, Delicate, Returning
<1> QED BY <1>3, <1>4, <1>5, <1>6, <1>7, MildMove DEF Plain, Returning

LEMMA ReserveErrorMild == ASSUME TxInv, NEW w \in Workers, ReserveError(w) PROVE Mild(w)
<1>1. SharedType /\ RowKept /\ PaymentKept /\ TasksKept
  BY DEF TxInv, ReserveError, DBError, SharedType, RowKept, PaymentKept, TasksKept, TypeOK, Counts,
         node, provider, books, Unhurt
<1> QED BY <1>1, MildShared, LabelNames DEF ReserveError, Goto, GotoWith, Plain, Delicate, Returning

LEMMA CaptureOweMild == ASSUME TxInv, NEW w \in Workers, CaptureOwe(w) PROVE Mild(w)
<1>1. SharedType /\ RowKept /\ PaymentKept /\ TasksKept
  BY DEF TxInv, CaptureOwe, SharedType, RowKept, PaymentKept, TasksKept, TypeOK, node, provider,
     Unhurt
<1> QED BY <1>1, MildEnd DEF CaptureOwe, Done, GotoWith, Tasking

(* The authorization is voided at the provider, or not. *)
LEMMA VoidKeeps ==
  ASSUME TxInv, Void \/ UNCHANGED <<pi, events>>,
         UNCHANGED <<tx, op, booking, task, node, books, count>>
  PROVE  SharedType /\ RowKept /\ PaymentKept /\ TasksKept /\ tx' = tx
BY DEF TxInv, Void, SharedType, RowKept, PaymentKept, TasksKept, TypeOK, node, books, Unhurt,
       Events, Unsaved

LEMMA CancelCallMild == ASSUME TxInv, NEW w \in Workers, CancelCall(w) PROVE Mild(w)
<1>1. pc[w] = "x_call" /\ SharedType /\ RowKept /\ PaymentKept /\ TasksKept
  BY VoidKeeps DEF CancelCall
<1>2. {"x_done", "x_fail"} \subseteq Plain /\ pc[w] \notin Delicate
  BY <1>1, LabelNames DEF Plain, Delicate, Returning
<1>3. CASE Done(w, "x_call")
  BY <1>1, <1>3, MildEnd DEF Tasking
<1>4. CASE \E to \in {"x_done", "x_fail"} : Goto(w, "x_call", to)
  BY <1>1, <1>2, <1>4, MildShared
<1> QED BY <1>3, <1>4 DEF CancelCall

LEMMA ReleaseFailedMild == ASSUME TxInv, NEW w \in Workers, ReleaseFailed(w) PROVE Mild(w)
<1> DEFINE l == [loc[w] EXCEPT !.go = "f_end"]
<1>1. loc[w] \in Locals /\ "f_end" \in Labels
  BY LocalType, LabelNames DEF TxInv
<1>2. l \in Locals /\ l.go = "f_end" /\ l.key = loc[w].key /\ l.row = loc[w].row
  BY <1>1, LocalFieldType DEF Locals
<1>3. SharedType /\ RowKept /\ PaymentKept /\ TasksKept
  BY VoidKeeps DEF ReleaseFailed
<1>4. pc[w] \notin Delicate /\ "b_read" \in Labels \ Delicate /\ GotoWith(w, "f_call", "b_read", l)
  BY LabelNames DEF ReleaseFailed, Delicate
<1> QED BY <1>2, <1>3, <1>4, MildMove

LEMMA FailJobMild == ASSUME TxInv, NEW w \in Workers, FailJob(w) PROVE Mild(w)
<1>1. pc[w] = "j_fail" /\ pc[w] \notin Delicate /\ "f_call" \in Plain
  BY LabelNames DEF FailJob, Delicate, Plain, Returning
<1>2. CASE Goto(w, "j_fail", "f_call") /\ UNCHANGED tx
  BY <1>1, <1>2, MildGoto DEF FailJob, Still
<1>3. CASE Transition(w, "j_fail", "JOB_FAILED", "f_call", "idle")
  BY <1>3, MildTransition, StatusNames, LabelNames
  DEF FailJob, Plain, Delicate, Returning, Ran, SETTLED
<1>4. CASE Done(w, "j_fail") /\ UNCHANGED tx
  BY <1>1, <1>4, MildDone DEF FailJob, Still, Tasking
<1> QED BY <1>2, <1>3, <1>4 DEF FailJob

(* A request begins, and loads the row. *)
LEMMA MildStart ==
  ASSUME TxInv, NEW w \in Workers, NEW h, NEW to \in Plain \cup {"m_check"}, Start(w, h, to), Still
  PROVE  Mild(w)
BY MildLoad DEF Start, GotoWith, Delicate

LEMMA ConfirmMild == ASSUME TxInv, NEW w \in Workers, Confirm(w) PROVE Mild(w)
BY MildStart DEF Confirm, Still

LEMMA ReserveMild == ASSUME TxInv, NEW w \in Workers, Reserve(w) PROVE Mild(w)
<1>1. {"r_op", "r_offline"} \subseteq Plain
  BY LabelNames DEF Plain, Delicate, Returning
<1> QED BY <1>1, MildStart DEF Reserve, Still

LEMMA DispatchMild == ASSUME TxInv, NEW w \in Workers, Dispatch(w) PROVE Mild(w)
<1>1. "d_check" \in Plain
  BY LabelNames DEF Plain, Delicate, Returning
<1> QED BY <1>1, MildStart DEF Dispatch, Still

LEMMA AdminCaptureMild == ASSUME TxInv, NEW w \in Workers, AdminCapture(w) PROVE Mild(w)
<1>1. "c_start" \in Plain
  BY LabelNames DEF Plain, Delicate, Returning
<1> QED BY <1>1, MildStart DEF AdminCapture, Still

LEMMA CancelMild == ASSUME TxInv, NEW w \in Workers, Cancel(w) PROVE Mild(w)
<1>1. {"f_call", "x_op"} \subseteq Plain
  BY LabelNames DEF Plain, Delicate, Returning
<1> QED BY <1>1, MildStart DEF Cancel, Still

LEMMA DeliverMild == ASSUME TxInv, NEW w \in Workers, NEW e \in Events, Deliver(w, e) PROVE Mild(w)
<1> DEFINE l == [NoLocals EXCEPT !.row = tx, !.event = e, !.go = "h_done"]
<1>1. NoLocals \in Locals /\ tx \in Row /\ "h_done" \in Labels /\ tx' = tx
  BY IdleType, LabelNames DEF TxInv, TypeOK, Deliver
<1>2. l \in Locals /\ l.row = tx /\ l.key = "none" /\ l.go = "h_done"
  BY <1>1 DEF Locals, NoLocals
<1>3. Still /\ GotoWith(w, "idle", "h_event", l) /\ pc[w] \notin Delicate
  BY DEF Deliver, Still, GotoWith, Delicate
<1>4. "h_event" \in Labels \ Delicate
  BY LabelNames DEF Delicate
<1> QED BY <1>1, <1>2, <1>3, <1>4, StillType, StillKeeps, MildMove DEF TxInv

LEMMA ResultMild ==
  ASSUME TxInv, NEW w \in Workers, NEW t \in 1 .. Slots, Result(w, t)
  PROVE  Mild(w)
<1>1. PICK s \in {"completed", "failed"} :
        /\ task' = [task EXCEPT ![t] = s]
        /\ GotoWith(w, "idle", IF s = "completed" THEN "s_find" ELSE "j_find",
                    [NoLocals EXCEPT !.n = t])
  BY DEF Result
<1> DEFINE l == [NoLocals EXCEPT !.n = t]
<1>2. NoLocals \in Locals /\ t \in 0 .. Slots /\ Slots \in Nat
  BY IdleType, CountAssumption
<1>3. l \in Locals /\ l.row = NewRow /\ l.key = "none"
  BY <1>2, LocalFieldType DEF NoLocals
<1>4. SharedType /\ RowKept /\ PaymentKept /\ TasksKept
  BY <1>1 DEF TxInv, Result, SharedType, RowKept, PaymentKept, TasksKept, TypeOK, node, provider,
              books, Unhurt
<1>5. {"s_find", "j_find"} \subseteq Plain /\ pc[w] \notin Delicate
  BY <1>1, LabelNames DEF Plain, Delicate, Returning, GotoWith
<1> QED BY <1>1, <1>3, <1>4, <1>5, MildMove DEF Plain, Returning

(* the sweep starts on a row, to come back to "f_end" or "k_path" *)
LEMMA MildSweep ==
  ASSUME TxInv, NEW w \in Workers, NEW to \in {"b_read", "k_call"}, NEW g \in {"f_end", "k_path"},
         GotoWith(w, "idle", to, [NoLocals EXCEPT !.row = tx, !.go = g]), Still
  PROVE  Mild(w)
<1> DEFINE l == [NoLocals EXCEPT !.row = tx, !.go = g]
<1>1. NoLocals \in Locals /\ tx \in Row /\ g \in Labels /\ tx' = tx
  BY IdleType, LabelNames DEF TxInv, TypeOK, Still
<1>2. l \in Locals /\ l.row = tx /\ l.key = "none" /\ l.go = g
  BY <1>1 DEF Locals, NoLocals
<1>3. pc[w] \notin Delicate /\ to \in Labels \ Delicate
  BY LabelNames DEF Delicate, GotoWith
<1> QED BY <1>1, <1>2, <1>3, StillType, StillKeeps, MildMove DEF TxInv

LEMMA ReclaimFailedMild == ASSUME TxInv, ReclaimFailed PROVE Mild(Reaper)
BY MildSweep DEF ReclaimFailed, Still, Workers

LEMMA ReclaimStuckMild == ASSUME TxInv, ReclaimStuck PROVE Mild(Reaper)
BY MildSweep DEF ReclaimStuck, Still, Workers

LEMMA ReclaimVoidMild == ASSUME TxInv, ReclaimVoid PROVE Mild(Reaper)
<1>1. Reaper \in Workers /\ pc[Reaper] = "k_call" /\ pc[Reaper] \notin Delicate
  BY DEF ReclaimVoid, Goto, GotoWith, Workers, Delicate
<1>2. loc[Reaper] \in Locals /\ loc[Reaper].go \in {"x_move", "f_end", "k_path"}
  BY <1>1, LocalType DEF TxInv, ReturnOK
<1>3. SharedType /\ RowKept /\ PaymentKept /\ TasksKept
  BY VoidKeeps DEF ReclaimVoid
<1>4. GotoWith(Reaper, "k_call", "b_read", loc[Reaper]) /\ "b_read" \in Labels \ Delicate
  BY LabelNames DEF ReclaimVoid, Goto, Delicate
<1> QED BY <1>1, <1>2, <1>3, <1>4, MildMove

LEMMA ReclaimPathMild == ASSUME TxInv, ReclaimPath PROVE Mild(Reaper)
<1>1. Reaper \in Workers /\ "k_path" \in Labels \ Delicate /\ {"k_last", "idle"} \subseteq Plain
  BY LabelNames DEF Workers, Plain, Delicate, Returning
<1>2. {"JOB_FAILED", "CAPTURE_FAILED",
   "CANCELLED"} \subseteq Statuses \ (Ran \cup SETTLED \cup {"none"})
  BY StatusNames DEF Ran, SETTLED
<1>3. \E s \in {"JOB_FAILED", "CAPTURE_FAILED", "CANCELLED"}, to \in {"k_last", "idle"} :
        Transition(Reaper, "k_path", s, to, "idle")
  BY DEF ReclaimPath
<1> QED BY <1>1, <1>2, <1>3, MildTransition DEF ReclaimPath

LEMMA ReclaimLastMild == ASSUME TxInv, ReclaimLast PROVE Mild(Reaper)
BY MildTransition, StatusNames, LabelNames
DEF ReclaimLast, Workers, Plain, Delicate, Returning, Ran, SETTLED

(* A worker that dies forgets all it held. *)
LEMMA CrashMild == ASSUME TxInv, NEW w \in Workers, Crash(w) PROVE Mild(w)
<1>1. ~Unhurt' /\ count' \in Counts
  BY DEF Crash, Unhurt, TxInv, TypeOK, Counts
<1>2. SharedType /\ RowKept /\ PaymentKept /\ TasksKept
  BY <1>1
  DEF TxInv, Crash, SharedType, RowKept, PaymentKept, TasksKept, TypeOK, node, provider, books
<1>3. Done(w, pc[w])
  BY DEF Crash, Done, GotoWith
<1> QED BY <1>1, <1>2, <1>3, MildEnd

-----------------------------------------------------------------------------
(* The other steps: what each part of the invariant asks of a step of w *)

LEMMA AuthStays ==
  ASSUME TxInv, NEW w \in Workers, StepOf(w), pc'[w] # "a_call",
         tx'.status = "none" => tx.status = "none", pi \in Unsaved => pi' \in Unsaved
  PROVE  AuthInv'
BY DEF TxInv, AuthInv, StepOf

LEMMA MeterStays ==
  ASSUME TxInv, NEW w \in Workers, StepOf(w), MeterOK(w)',
         tx.task # 0 => tx'.task # 0, tx.metered # "none" => tx'.metered # "none",
         tx'.status \in Ran \/ tx'.metered # "none" => tx'.task # 0
  PROVE  MeterInv'
<1>1. ASSUME NEW v \in Workers \ {w} PROVE MeterOK(v)'
  BY <1>1 DEF TxInv, MeterInv, MeterOK, StepOf, Seen, Capturing, Claiming
<1> QED BY <1>1 DEF MeterInv

LEMMA CaptureStays ==
  ASSUME TxInv, NEW w \in Workers, StepOf(w), CaptureOK(w)',
         pi = "succeeded" => pi' = "succeeded", tx'.version # 0 => pi' = "succeeded",
         tx'.status \in SETTLED => tx.status \in SETTLED,
         posted' = posted, settled \subseteq settled',
         pc'[w] = "c_post" => \A v \in Workers : pc[v] # "c_post"
  PROVE  CaptureInv'
<1>1. ASSUME NEW v \in Workers \ {w} PROVE CaptureOK(v)'
  BY <1>1 DEF TxInv, CaptureInv, CaptureOK, StepOf, Seen, Capturing, Claiming
<1> QED BY <1>1 DEF TxInv, CaptureInv, StepOf

LEMMA TaskStays ==
  ASSUME TxInv, NEW w \in Workers, StepOf(w),
         Unhurt' => /\ Unhurt /\ op'["dispatch"] = op["dispatch"]
                    /\ \A t \in 1 .. Slots : task'[t] = "none" <=> task[t] = "none"
                    /\ Tasking(w)' <=> Tasking(w)
                    /\ TaskOK(w)'
  PROVE  TaskInv'
<1> SUFFICES ASSUME Unhurt' PROVE TaskInv'
  BY DEF TaskInv
<1>1. Unhurt /\ op'["dispatch"] = op["dispatch"] /\ NoTasks' = NoTasks
  BY DEF NoTasks
<1>2. ASSUME NEW v \in Workers PROVE Tasking(v)' <=> Tasking(v)
  BY <1>2 DEF StepOf, Tasking
<1>3. ASSUME NEW v \in Workers PROVE TaskOK(v)'
  BY <1>1, <1>3 DEF TxInv, TaskInv, TaskOK, StepOf, Claiming
<1> QED BY <1>1, <1>2, <1>3 DEF TxInv, TaskInv

LEMMA ReturnStays ==
  ASSUME TxInv, NEW w \in Workers, StepOf(w), ReturnOK(w)'
  PROVE  \A v \in Workers : ReturnOK(v)'
BY DEF TxInv, ReturnOK, StepOf, Claiming

LEMMA MildKeepsInv == ASSUME TxInv, NEW w \in Workers, Mild(w) PROVE TxInv'
BY MildReturn, MildAuth, MildMeter, MildCapture, MildTask DEF TxInv, Mild

(* A step of the provider, of the node or of the buyer moves no worker. *)
LEMMA CalmKeepsInv ==
  ASSUME TxInv, SharedType, RowKept, PaymentKept, TasksKept, UNCHANGED <<pc, loc>>
  PROVE  TxInv'
<1>1. TypeOK'
  BY DEF TxInv, TypeOK, SharedType
<1>2. \A w \in Workers : ReturnOK(w)'
  BY DEF TxInv, ReturnOK, Claiming
<1>3. AuthInv'
  BY DEF TxInv, AuthInv, RowKept, PaymentKept
<1>4. MeterInv'
  BY DEF TxInv, MeterInv, MeterOK, RowKept, Seen, Capturing, Claiming
<1>5. CaptureInv'
  BY DEF TxInv, CaptureInv, CaptureOK, RowKept, PaymentKept, Seen, Capturing, Claiming
<1>6. TaskInv'
  BY DEF TxInv, TaskInv, TaskOK, TasksKept, Tasking, Claiming, NoTasks
<1> QED BY <1>1, <1>2, <1>3, <1>4, <1>5, <1>6 DEF TxInv

LEMMA EnvironmentKeepsInv == ASSUME TxInv, Environment PROVE TxInv'
<1> USE DEF SharedType, RowKept, PaymentKept, TasksKept, node, provider, books, Unhurt
<1>0. TypeOK /\ Units \in Nat /\ (tx.status = "none" => pi \in Unsaved)
  BY CountAssumption DEF TxInv, AuthInv
<1>1. CASE CardConfirmed \/ CardDeclined \/ AuthorizationExpires
  <2>1. SharedType /\ RowKept /\ PaymentKept /\ TasksKept
    BY <1>0, <1>1 DEF CardConfirmed, CardDeclined, AuthorizationExpires, TypeOK, Unsaved, Events
  <2> QED BY <1>1, <2>1, CalmKeepsInv DEF CardConfirmed, CardDeclined, AuthorizationExpires
<1>2. CASE OthersTake
  <2>1. free' \in 0 .. Units /\ others' \in Nat
    BY <1>0, <1>2 DEF OthersTake, TypeOK
  <2>2. SharedType /\ RowKept /\ PaymentKept /\ TasksKept
    BY <1>0, <1>2, <2>1 DEF OthersTake, TypeOK
  <2> QED BY <1>2, <2>2, CalmKeepsInv DEF OthersTake
<1>3. CASE OthersLeave
  <2>1. free' \in 0 .. Units /\ others' \in Nat
    BY <1>0, <1>3, ReleasableType DEF OthersLeave, TypeOK
  <2>2. SharedType /\ RowKept /\ PaymentKept /\ TasksKept
    BY <1>0, <1>3, <2>1 DEF OthersLeave, TypeOK
  <2> QED BY <1>3, <2>2, CalmKeepsInv DEF OthersLeave
<1>4. CASE NodeDown \/ NodeUp
  <2>1. count' \in Counts /\ (Unhurt' => Unhurt)
    BY <1>0, <1>4 DEF NodeDown, NodeUp, TypeOK, Counts
  <2>2. SharedType /\ RowKept /\ PaymentKept /\ TasksKept
    BY <1>0, <1>4, <2>1 DEF NodeDown, NodeUp, TypeOK
  <2> QED BY <1>4, <2>2, CalmKeepsInv DEF NodeDown, NodeUp
<1>5. CASE \E t \in 1 .. Slots : RetryTask(t)
  <2>1. count' \in Counts /\ (Unhurt' => Unhurt)
    BY <1>0, <1>5 DEF RetryTask, TypeOK, Counts
  <2>2. SharedType /\ RowKept /\ PaymentKept /\ TasksKept
    BY <1>0, <1>5, <2>1 DEF RetryTask, TypeOK
  <2> QED BY <1>5, <2>2, CalmKeepsInv DEF RetryTask
<1> QED BY <1>1, <1>2, <1>3, <1>4, <1>5 DEF Environment

-----------------------------------------------------------------------------
(* The steps that hand a claimed operation back to its handler *)

LEMMA TxInvParts ==
  ASSUME TxInv
  PROVE  /\ TypeOK /\ AuthInv /\ MeterInv /\ CaptureInv /\ TaskInv
         /\ \A w \in Workers : ReturnOK(w) /\ MeterOK(w) /\ CaptureOK(w)
         /\ Unhurt => \A w \in Workers : TaskOK(w)
BY DEF TxInv, MeterInv, CaptureInv, TaskInv

LEMMA RetakeKeeps == ASSUME TxInv, NEW w \in Workers, Retake(w) PROVE TxInv'
<1>1. /\ TypeOK /\ ReturnOK(w) /\ MeterOK(w) /\ CaptureOK(w) /\ (Unhurt => TaskOK(w))
      /\ loc[w] \in Locals /\ "reload" \in Labels
  BY TxInvParts, LocalType, LabelNames
<1>2. /\ StepOf(w) /\ pc[w] = "retake" /\ pc'[w] = "reload" /\ loc'[w] = loc[w]
      /\ op' = [op EXCEPT ![loc[w].key] = "pending"]
      /\ UNCHANGED <<tx, booking, task, node, provider, books, count>>
  BY <1>1 DEF Retake, Goto, GotoWith, StepOf, TypeOK
<1>3. TypeOK'
  BY <1>1, <1>2 DEF TypeOK, StepOf, node, provider, books
<1>4. \A v \in Workers : ReturnOK(v)'
  BY <1>1, <1>2, ReturnStays DEF ReturnOK, Claiming
<1>5. AuthInv'
  BY <1>2, AuthStays DEF provider
<1>6. MeterInv'
  <2>1. MeterOK(w)'
    BY <1>1, <1>2 DEF MeterOK, Seen, Capturing, Claiming
  <2> QED BY <1>2, <2>1, MeterStays DEF TxInv, MeterInv
<1>7. CaptureInv'
  <2>1. CaptureOK(w)'
    BY <1>1, <1>2 DEF CaptureOK, Seen, Capturing, Claiming, provider
  <2> QED BY <1>2, <2>1, CaptureStays DEF TxInv, CaptureInv, provider, books
<1>8. TaskInv'
  <2>1. ASSUME Unhurt PROVE loc[w].key # "dispatch" /\ TaskOK(w)'
    BY <1>1, <1>2, <2>1 DEF ReturnOK, TaskOK, Claiming
  <2> QED BY <1>1, <1>2, <2>1, TaskStays DEF Unhurt, Tasking, TypeOK, Keys
<1> QED BY <1>3, <1>4, <1>5, <1>6, <1>7, <1>8 DEF TxInv

LEMMA ReloadKeeps == ASSUME TxInv, NEW w \in Workers, Reload(w) PROVE TxInv'
<1>1. /\ TypeOK /\ ReturnOK(w) /\ MeterOK(w) /\ CaptureOK(w) /\ (Unhurt => TaskOK(w))
      /\ Put(w, tx) \in Locals /\ Put(w, tx).row = tx /\ Put(w, tx).n = loc[w].n
      /\ Put(w, tx).go = loc[w].go /\ Put(w, tx).key = loc[w].key /\ loc[w].go \in Labels
  BY TxInvParts, LocalType, PutType DEF TypeOK
<1>2. /\ StepOf(w) /\ pc[w] = "reload" /\ pc'[w] = loc[w].go /\ loc'[w] = Put(w, tx)
      /\ UNCHANGED <<tx, op, booking, task, node, provider, books, count>>
  BY <1>1 DEF Reload, GotoWith, StepOf, TypeOK
<1>3. TypeOK'
  BY <1>1, <1>2 DEF TypeOK, StepOf, node, provider, books
<1>0. loc[w].go \in {"r_book", "d_task", "c_pend", "x_call"}
  BY <1>1, <1>2 DEF ReturnOK, Claiming
<1>4. \A v \in Workers : ReturnOK(v)'
  BY <1>0, <1>1, <1>2, ReturnStays DEF ReturnOK, Claiming
<1>5. AuthInv'
  BY <1>0, <1>2, AuthStays DEF provider
<1>6. MeterInv'
  <2>1. MeterOK(w)'
    BY <1>0, <1>1, <1>2 DEF MeterOK, Seen, Capturing, Claiming, TxInv, MeterInv
  <2> QED BY <1>2, <2>1, MeterStays DEF TxInv, MeterInv
<1>7. CaptureInv'
  <2>1. CaptureOK(w)'
    BY <1>0, <1>1, <1>2 DEF CaptureOK, Seen, Capturing, Claiming, provider, TxInv, CaptureInv
  <2> QED BY <1>0, <1>2, <2>1, CaptureStays DEF TxInv, CaptureInv, provider, books
<1>8. TaskInv'
  <2>1. ASSUME Unhurt PROVE loc[w].go # "d_task" /\ TaskOK(w)'
    BY <1>0, <1>1, <1>2, <2>1 DEF TaskOK, Claiming
  <2> QED BY <1>0, <1>2, <2>1, TaskStays DEF Unhurt, Tasking
<1> QED BY <1>3, <1>4, <1>5, <1>6, <1>7, <1>8 DEF TxInv

-----------------------------------------------------------------------------
(* authorize() *)

LEMMA AuthorizeKeeps == ASSUME TxInv, NEW w \in Workers, Authorize(w) PROVE TxInv'
<1> DEFINE l == [NoLocals EXCEPT !.row = tx']
<1>1. TypeOK /\ tx \in Row /\ tx' \in Row /\ tx' = [tx EXCEPT !.status = "DRAFT"]
  BY TxInvParts, RowFieldType, StatusNames DEF TypeOK, Authorize
<1>2. l \in Locals /\ l.row = tx' /\ l.key = "none" /\ "a_call" \in Labels
  BY <1>1, IdleType, LocalFieldType, LabelNames DEF NoLocals
<1>3. /\ StepOf(w) /\ pc[w] = "idle" /\ pc'[w] = "a_call" /\ loc'[w] = l
      /\ UNCHANGED <<op, booking, task, node, provider, books, count>>
  BY <1>1, <1>2 DEF Authorize, GotoWith, StepOf, TypeOK
<1>4. TypeOK'
  BY <1>1, <1>3 DEF TypeOK, StepOf, node, provider, books
<1>5. \A v \in Workers : ReturnOK(v)'
  BY <1>3, ReturnStays DEF ReturnOK, Claiming
<1>6. AuthInv'
  BY <1>1, <1>3 DEF TxInv, AuthInv, StepOf, provider, Row, Authorize
<1>7. MeterInv'
  <2>1. MeterOK(w)'
    BY <1>1, <1>2, <1>3 DEF MeterOK, Seen, Capturing, Claiming, TxInv, MeterInv, Row, Ran
  <2> QED BY <1>1, <1>3, <2>1, MeterStays DEF TxInv, MeterInv, Row, Ran
<1>8. CaptureInv'
  <2>1. CaptureOK(w)'
    BY <1>1, <1>2, <1>3 DEF CaptureOK, Seen, Capturing, Claiming, provider, TxInv, CaptureInv, Row
  <2> QED BY <1>1, <1>3, <2>1, CaptureStays DEF TxInv, CaptureInv, provider, books, Row, SETTLED
<1>9. TaskInv'
  BY <1>3, TaskStays DEF Unhurt, Tasking, TaskOK, Claiming
<1> QED BY <1>4, <1>5, <1>6, <1>7, <1>8, <1>9 DEF TxInv

LEMMA AuthorizeCallKeeps == ASSUME TxInv, NEW w \in Workers, AuthorizeCall(w) PROVE TxInv'
<1>1. /\ TypeOK /\ loc[w] \in Locals /\ NoLocals \in Locals
      /\ {"a_save", "a_fail", "idle"} \subseteq Labels /\ MeterOK(w) /\ CaptureOK(w)
  BY TxInvParts, LocalType, IdleType, LabelNames
<1>2. /\ StepOf(w) /\ pc[w] = "a_call" /\ pc'[w] \in {"a_save", "a_fail", "idle"}
      /\ loc'[w] \in {loc[w], NoLocals} /\ pi' \in {pi, "requires_payment_method"}
      /\ UNCHANGED <<tx, op, booking, task, node, events, books, count>>
  BY <1>1 DEF AuthorizeCall, Goto, Done, GotoWith, StepOf, TypeOK
<1>3. tx.status # "none" /\ pi \in Unsaved /\ \A v \in Workers \ {w} : pc[v] # "a_call"
  BY <1>2 DEF TxInv, AuthInv
<1>4. TypeOK'
  BY <1>1, <1>2 DEF TypeOK, StepOf, node, books
<1>5. \A v \in Workers : ReturnOK(v)'
  BY <1>2, ReturnStays DEF ReturnOK, Claiming
<1>6. AuthInv'
  BY <1>2, <1>3 DEF TxInv, AuthInv, StepOf
<1>7. MeterInv'
  <2>1. MeterOK(w)'
    BY <1>1, <1>2 DEF MeterOK, Seen, Capturing, Claiming, NoLocals, NewRow, Ran
  <2> QED BY <1>2, <2>1, MeterStays DEF TxInv, MeterInv
<1>8. CaptureInv'
  <2>1. CaptureOK(w)'
    BY <1>1, <1>2, <1>3 DEF CaptureOK, Seen, Capturing, Claiming, NoLocals, NewRow, Unsaved
  <2> QED BY <1>2, <1>3, <2>1, CaptureStays DEF TxInv, CaptureInv, books, Unsaved
<1>9. TaskInv'
  BY <1>2, TaskStays DEF Unhurt, Tasking, TaskOK, Claiming
<1> QED BY <1>4, <1>5, <1>6, <1>7, <1>8, <1>9 DEF TxInv

-----------------------------------------------------------------------------
(* dispatch_job() *)

LEMMA DispatchClaimKeeps == ASSUME TxInv, NEW w \in Workers, DispatchClaim(w) PROVE TxInv'
<1>1. /\ TypeOK /\ loc[w] \in Locals /\ NoLocals \in Locals /\ MeterOK(w) /\ CaptureOK(w)
      /\ {"idle", "retake", "reload", "d_task"} \subseteq Labels /\ "dispatch" \in Keys
      /\ (Unhurt => TaskOK(w))
  BY TxInvParts, LocalType, IdleType, LabelNames DEF Keys
<1> DEFINE taken == [loc[w] EXCEPT !.key = "dispatch", !.go = "d_task"]
           stale == [loc[w] EXCEPT !.go = "d_task"]
<1>2. /\ taken \in Locals /\ taken.row = loc[w].row /\ taken.go = "d_task"
      /\ taken.key = "dispatch"
      /\ stale \in Locals /\ stale.row = loc[w].row /\ stale.go = "d_task"
      /\ stale.key = loc[w].key
  BY <1>1, LocalFieldType DEF Locals
<1>3. UNCHANGED <<tx, booking, task, node, provider, books, count>> /\ pc[w] = "d_op"
  BY DEF DispatchClaim, Begin, Goto, Done, GotoWith
<1>4. /\ StepOf(w) /\ op' \in [Keys -> {"none", "pending", "failed", "succeeded"}]
      /\ \/ /\ op["dispatch"] = "none" /\ op' = [op EXCEPT !["dispatch"] = "pending"]
            /\ pc'[w] = "d_task" /\ loc'[w] = loc[w]
         \/ op["dispatch"] = "failed" /\ op' = op /\ pc'[w] = "retake" /\ loc'[w] = taken
         \/ /\ op["dispatch"] = "pending" /\ \A v \in Workers : ~Working(v, "dispatch")
            /\ op' = op /\ pc'[w] = "reload" /\ loc'[w] = stale
         \/ op' = op /\ pc'[w] = "idle" /\ loc'[w] = NoLocals
  BY <1>1, <1>2 DEF DispatchClaim, Begin, Goto, Done, GotoWith, StepOf, TypeOK
<1>5. TypeOK'
  BY <1>1, <1>3, <1>4 DEF TypeOK, StepOf, node, provider, books
<1>6. \A v \in Workers : ReturnOK(v)'
  BY <1>2, <1>4, ReturnStays DEF ReturnOK, Claiming
<1>7. AuthInv'
  BY <1>3, <1>4, AuthStays DEF provider
<1>11. /\ loc'[w].row \in {loc[w].row, NewRow} /\ loc'[w].key \in {loc[w].key, "dispatch", "none"}
       /\ pc'[w] \in {"idle", "retake", "reload", "d_task"} /\ ~Capturing(w)'
  <2>1. NoLocals.row = NewRow /\ NoLocals.key = "none"
    BY DEF NoLocals
  <2> HIDE DEF taken, stale
  <2> QED BY <1>2, <1>4, <2>1 DEF Capturing, Claiming
<1>8. MeterInv'
  <2>1. MeterOK(w)'
    BY <1>1, <1>3, <1>11 DEF MeterOK, Seen, NewRow, Ran
  <2> QED BY <1>3, <1>4, <2>1, MeterStays DEF TxInv, MeterInv
<1>9. CaptureInv'
  <2>1. CaptureOK(w)'
    BY <1>1, <1>3, <1>11 DEF CaptureOK, Seen, NewRow, provider
  <2> QED BY <1>3, <1>4, <2>1, CaptureStays DEF TxInv, CaptureInv, provider, books
<1>10. TaskInv'
  <2>1. Unhurt' = Unhurt /\ NoTasks' = NoTasks
    BY <1>3 DEF Unhurt, NoTasks
  <2>2. CASE /\ op["dispatch"] = "none" /\ op' = [op EXCEPT !["dispatch"] = "pending"]
             /\ pc'[w] = "d_task" /\ loc'[w] = loc[w]
    <3>1. op'["dispatch"] = "pending" /\ Tasking(w)'
      BY <1>1, <2>2 DEF Tasking, TypeOK
    <3>2. Unhurt => NoTasks /\ \A v \in Workers : ~Tasking(v)
      BY <2>2 DEF TxInv, TaskInv
    <3>3. Unhurt => \A v \in Workers \ {w} : ~Tasking(v)' /\ TaskOK(v)'
      BY <1>4, <2>1, <3>2 DEF TxInv, TaskInv, TaskOK, Claiming, Tasking, StepOf
    <3>4. Unhurt => TaskOK(w)'
      BY <2>1, <2>2, <3>2 DEF TaskOK, Claiming
    <3> QED BY <1>3, <2>1, <3>1, <3>2, <3>3, <3>4 DEF TxInv, TaskInv
  <2>3. CASE op' = op /\ pc'[w] \in {"retake", "reload"} /\ op["dispatch"] = "failed"
    BY <1>3, <1>4, <2>1, <2>3, TaskStays DEF TxInv, TaskInv
  <2>4. CASE op["dispatch"] = "pending" /\ \A v \in Workers : ~Working(v, "dispatch")
    <3>1. \A v \in Workers : ~Tasking(v)
      BY <2>4 DEF Working, Tasking
    <3> QED BY <2>1, <2>4, <3>1 DEF TxInv, TaskInv
  <2>5. CASE op' = op /\ pc'[w] = "idle"
    <3>1. TaskOK(w)' /\ (Tasking(w)' <=> Tasking(w))
      BY <1>3, <2>5 DEF TaskOK, Claiming, Tasking
    <3> QED BY <1>3, <1>4, <2>1, <2>5, <3>1, TaskStays
  <2> QED BY <1>4, <2>2, <2>3, <2>4, <2>5
<1> QED BY <1>5, <1>6, <1>7, <1>8, <1>9, <1>10 DEF TxInv

LEMMA DispatchTaskKeeps == ASSUME TxInv, NEW w \in Workers, DispatchTask(w) PROVE TxInv'
<1>1. PICK t \in FreeSlot(task) :
        /\ task' = [task EXCEPT ![t] = "pending"]
        /\ GotoWith(w, "d_task", "d_link", [loc[w] EXCEPT !.n = t])
  BY DEF DispatchTask
<1>2. /\ TypeOK /\ loc[w] \in Locals /\ MeterOK(w) /\ CaptureOK(w) /\ "d_link" \in Labels
      /\ t \in 1 .. Slots /\ t \in 0 .. Slots /\ Slots \in Nat
  BY TxInvParts, LocalType, LabelNames, CountAssumption DEF FreeSlot
<1> DEFINE l == [loc[w] EXCEPT !.n = t]
<1>3. l \in Locals /\ l.row = loc[w].row /\ l.key = loc[w].key /\ l.n = t
  BY <1>2, LocalFieldType DEF Locals
<1>4. /\ StepOf(w) /\ pc[w] = "d_task" /\ pc'[w] = "d_link" /\ loc'[w] = l
      /\ UNCHANGED <<tx, op, booking, node, provider, books, count>>
  BY <1>1, <1>2, <1>3 DEF GotoWith, StepOf, TypeOK, DispatchTask
<1>5. TypeOK'
  BY <1>1, <1>2, <1>4 DEF TypeOK, StepOf, node, provider, books
<1>6. \A v \in Workers : ReturnOK(v)'
  BY <1>4, ReturnStays DEF ReturnOK, Claiming
<1>7. AuthInv'
  BY <1>4, AuthStays DEF provider
<1>8. MeterInv'
  <2>1. MeterOK(w)'
    BY <1>2, <1>3, <1>4 DEF MeterOK, Seen, Capturing, Claiming
  <2> QED BY <1>4, <2>1, MeterStays DEF TxInv, MeterInv
<1>9. CaptureInv'
  <2>1. CaptureOK(w)'
    BY <1>2, <1>3, <1>4 DEF CaptureOK, Seen, Capturing, Claiming, provider
  <2> QED BY <1>4, <2>1, CaptureStays DEF TxInv, CaptureInv, provider, books
<1>10. TaskInv'
  <2> SUFFICES ASSUME Unhurt PROVE TaskInv'
    BY <1>4 DEF TaskInv, Unhurt
  <2>1. NoTasks /\ op["dispatch"] = "pending" /\ Tasking(w)
    BY <1>4 DEF TxInv, TaskInv, TaskOK, Tasking
  <2>2. t = 1
    BY <1>2, <2>1 DEF FreeSlot, NoTasks
  <2>3. \A s \in 2 .. Slots : task'[s] = "none"
    BY <1>1, <1>2, <2>1, <2>2 DEF NoTasks, TypeOK
  <2>4. \A v \in Workers : (Tasking(v)' <=> Tasking(v)) /\ (Tasking(v) => v = w)
    BY <1>4, <2>1 DEF TxInv, TaskInv, Tasking, StepOf
  <2>5. ASSUME NEW v \in Workers PROVE TaskOK(v)'
    BY <1>4, <2>4, <2>5 DEF TxInv, TaskInv, TaskOK, Claiming, Tasking, StepOf
  <2> QED BY <1>4, <2>1, <2>3, <2>4, <2>5 DEF TxInv, TaskInv
<1> QED BY <1>5, <1>6, <1>7, <1>8, <1>9, <1>10 DEF TxInv

LEMMA DispatchLinkKeeps == ASSUME TxInv, NEW w \in Workers, DispatchLink(w) PROVE TxInv'
<1>1. /\ TypeOK /\ loc[w] \in Locals /\ loc[w].row \in Row /\ loc[w].n \in 0 .. Slots
      /\ MeterOK(w) /\ CaptureOK(w) /\ (Unhurt => TaskOK(w)) /\ "d_finish" \in Labels
      /\ tx \in Row
  BY TxInvParts, LocalType, LabelNames DEF TypeOK
<1> DEFINE r == [Seen(w) EXCEPT !.task = loc[w].n]
<1>0. r \in Row
  BY <1>1, RowFieldType DEF Seen
<1>2. /\ r \in Row /\ r.status = loc[w].row.status /\ r.metered = loc[w].row.metered
      /\ r.version = loc[w].row.version
  BY <1>0, <1>1 DEF Seen, Row
<1>3. /\ tx' \in Row /\ tx' = [tx EXCEPT !.task = loc[w].n]
      /\ Put(w, r) \in Locals /\ Put(w, r).row = r /\ Put(w, r).key = loc[w].key
  BY <1>1, <1>2, RowFieldType, PutType DEF DispatchLink, Write
<1>4. /\ StepOf(w) /\ pc[w] = "d_link" /\ pc'[w] = "d_finish" /\ loc'[w] = Put(w, r)
      /\ UNCHANGED <<op, booking, task, node, provider, books, count>>
  BY <1>1, <1>3 DEF DispatchLink, Write, GotoWith, StepOf, TypeOK
<1>5. /\ tx'.task # 0 /\ tx'.metered = tx.metered /\ tx'.version = tx.version
      /\ tx'.status = tx.status
  BY <1>1, <1>3, <1>4 DEF MeterOK, Row
<1>6. TypeOK'
  BY <1>1, <1>3, <1>4 DEF TypeOK, StepOf, node, provider, books
<1>7. \A v \in Workers : ReturnOK(v)'
  BY <1>4, ReturnStays DEF ReturnOK, Claiming
<1>8. AuthInv'
  BY <1>4, <1>5, AuthStays DEF provider
<1>9. MeterInv'
  <2>1. MeterOK(w)'
    BY <1>1, <1>2, <1>3, <1>4, <1>5 DEF MeterOK, Seen, Capturing, Claiming
  <2> QED BY <1>4, <1>5, <2>1, MeterStays
<1>10. CaptureInv'
  <2>1. CaptureOK(w)'
    BY <1>1, <1>2, <1>3, <1>4 DEF CaptureOK, Seen, Capturing, Claiming, provider
  <2> QED BY <1>4, <1>5, <2>1, CaptureStays DEF TxInv, CaptureInv, provider, books
<1>11. TaskInv'
  BY <1>4, TaskStays DEF Unhurt, Tasking, TaskOK, Claiming
<1> QED BY <1>6, <1>7, <1>8, <1>9, <1>10, <1>11 DEF TxInv

(* The steps of a dispatch that failed: not without a database error. *)
LEMMA DispatchErrorKeeps == ASSUME TxInv, NEW w \in Workers, DispatchError(w) PROVE TxInv'
<1>1. /\ TypeOK /\ loc[w] \in Locals /\ MeterOK(w) /\ CaptureOK(w) /\ "d_undo" \in Labels
  BY TxInvParts, LocalType, LabelNames
<1>2. /\ StepOf(w) /\ pc[w] \in {"d_task", "d_link"} /\ pc'[w] = "d_undo" /\ loc'[w] = loc[w]
      /\ UNCHANGED <<tx, op, booking, task, node, provider, books>>
  BY <1>1 DEF DispatchError, Goto, GotoWith, StepOf, TypeOK
<1>3. count' \in Counts /\ ~Unhurt'
  BY <1>1 DEF DispatchError, DBError, TypeOK, Counts, Unhurt
<1>4. TypeOK'
  BY <1>1, <1>2, <1>3 DEF TypeOK, StepOf, node, provider, books
<1>5. \A v \in Workers : ReturnOK(v)'
  BY <1>2, ReturnStays DEF ReturnOK, Claiming
<1>6. AuthInv'
  BY <1>2, AuthStays DEF provider
<1>7. MeterInv'
  <2>1. MeterOK(w)'
    BY <1>1, <1>2 DEF MeterOK, Seen, Capturing, Claiming
  <2> QED BY <1>2, <2>1, MeterStays DEF TxInv, MeterInv
<1>8. CaptureInv'
  <2>1. CaptureOK(w)'
    BY <1>1, <1>2 DEF CaptureOK, Seen, Capturing, Claiming, provider
  <2> QED BY <1>2, <2>1, CaptureStays DEF TxInv, CaptureInv, provider, books
<1>9. TaskInv'
  BY <1>3 DEF TaskInv
<1> QED BY <1>4, <1>5, <1>6, <1>7, <1>8, <1>9 DEF TxInv

LEMMA DispatchUndoKeeps ==
  ASSUME TxInv, NEW w \in Workers, DispatchUndo(w) \/ DispatchDrop(w) PROVE TxInv'
<1>1. /\ TypeOK /\ loc[w] \in Locals /\ MeterOK(w) /\ CaptureOK(w) /\ (Unhurt => TaskOK(w))
      /\ NoLocals \in Locals /\ {"d_drop", "idle"} \subseteq Labels
  BY TxInvParts, LocalType, IdleType, LabelNames
<1>2. /\ StepOf(w) /\ pc[w] \in {"d_undo", "d_drop"} /\ pc'[w] \in {"d_drop", "idle"}
      /\ loc'[w] \in {loc[w], NoLocals}
      /\ UNCHANGED <<tx, booking, node, provider, books, count>>
  BY <1>1 DEF DispatchUndo, DispatchDrop, FinishOp, Done, Goto, GotoWith, StepOf, TypeOK
<1>3. /\ op' \in [Keys -> {"none", "pending", "failed", "succeeded"}]
      /\ task' \in [1 .. Slots -> {"none", "pending", "completed", "failed"}]
  BY <1>1 DEF DispatchUndo, DispatchDrop, FinishOp, TypeOK
<1>4. TypeOK'
  BY <1>1, <1>2, <1>3 DEF TypeOK, StepOf, node, provider, books
<1>5. \A v \in Workers : ReturnOK(v)'
  BY <1>2, ReturnStays DEF ReturnOK, Claiming
<1>6. AuthInv'
  BY <1>2, AuthStays DEF provider
<1>7. MeterInv'
  <2>1. MeterOK(w)'
    BY <1>1, <1>2 DEF MeterOK, Seen, Capturing, Claiming, NoLocals, NewRow, Ran
  <2> QED BY <1>2, <2>1, MeterStays DEF TxInv, MeterInv
<1>8. CaptureInv'
  <2>1. CaptureOK(w)'
    BY <1>1, <1>2 DEF CaptureOK, Seen, Capturing, Claiming, NoLocals, NewRow, provider
  <2> QED BY <1>2, <2>1, CaptureStays DEF TxInv, CaptureInv, provider, books
<1>9. TaskInv'
  BY <1>1, <1>2 DEF TaskInv, TaskOK, Unhurt
<1> QED BY <1>4, <1>5, <1>6, <1>7, <1>8, <1>9 DEF TxInv

LEMMA DispatchFinishKeeps == ASSUME TxInv, NEW w \in Workers, DispatchFinish(w) PROVE TxInv'
<1>1. /\ TypeOK /\ loc[w] \in Locals /\ MeterOK(w) /\ CaptureOK(w) /\ "d_move" \in Labels
  BY TxInvParts, LocalType, LabelNames
<1>2. /\ StepOf(w) /\ pc[w] = "d_finish" /\ pc'[w] = "d_move" /\ loc'[w] = loc[w]
      /\ op' = [op EXCEPT !["dispatch"] = "succeeded"]
      /\ UNCHANGED <<tx, booking, task, node, provider, books, count>>
  BY <1>1 DEF DispatchFinish, FinishOp, Goto, GotoWith, StepOf, TypeOK
<1>3. TypeOK'
  BY <1>1, <1>2 DEF TypeOK, StepOf, node, provider, books
<1>4. \A v \in Workers : ReturnOK(v)'
  BY <1>2, ReturnStays DEF ReturnOK, Claiming
<1>5. AuthInv'
  BY <1>2, AuthStays DEF provider
<1>6. MeterInv'
  <2>1. MeterOK(w)'
    BY <1>1, <1>2 DEF MeterOK, Seen, Capturing, Claiming
  <2> QED BY <1>2, <2>1, MeterStays DEF TxInv, MeterInv
<1>7. CaptureInv'
  <2>1. CaptureOK(w)'
    BY <1>1, <1>2 DEF CaptureOK, Seen, Capturing, Claiming, provider
  <2> QED BY <1>2, <2>1, CaptureStays DEF TxInv, CaptureInv, provider, books
<1>8. TaskInv'
  <2> SUFFICES ASSUME Unhurt PROVE TaskInv'
    BY <1>2 DEF TaskInv, Unhurt
  <2>1. op'["dispatch"] = "succeeded"
    BY <1>1, <1>2 DEF TypeOK, Keys
  <2>2. \A v \in Workers : ~Tasking(v)'
    BY <1>2 DEF TxInv, TaskInv, Tasking, StepOf
  <2>3. ASSUME NEW v \in Workers PROVE TaskOK(v)'
    BY <1>2, <2>3 DEF TxInv, TaskInv, TaskOK, Claiming, StepOf, Tasking
  <2> QED BY <1>2, <2>1, <2>2, <2>3 DEF TxInv, TaskInv
<1> QED BY <1>3, <1>4, <1>5, <1>6, <1>7, <1>8 DEF TxInv

LEMMA DispatchMoveKeeps ==
  ASSUME TxInv, NEW w \in Workers, DispatchMove(w) \/ DispatchRun(w) PROVE TxInv'
<1>1. /\ TypeOK /\ loc[w] \in Locals /\ MeterOK(w) /\ CaptureOK(w) /\ NoLocals \in Locals
      /\ {"d_run", "idle"} \subseteq Labels /\ Ran \subseteq Statuses /\ tx \in Row
  BY TxInvParts, LocalType, IdleType, LabelNames, StatusNames DEF Ran, TypeOK
<1>2. /\ StepOf(w) /\ pc[w] \in {"d_move", "d_run"} /\ tx' \in Row
      /\ \/ /\ \E s \in Ran : tx' = [tx EXCEPT !.status = s]
            /\ pc'[w] \in {"d_run", "idle"} /\ loc'[w] \in {NoLocals, Put(w, tx')}
         \/ tx' = tx /\ pc'[w] = "idle" /\ loc'[w] = NoLocals
      /\ UNCHANGED <<op, booking, task, node, provider, books, count>>
  <2>1. \E s \in Ran, from \in {"d_move", "d_run"}, to \in {"d_run", "idle"} :
          Transition(w, from, s, to, "idle")
    BY DEF DispatchMove, DispatchRun, Ran
  <2> QED BY <1>1, <2>1, TransitionType DEF DispatchMove, DispatchRun, StepOf
<1>3. /\ tx'.task = tx.task /\ tx.task # 0 /\ tx'.metered = tx.metered
      /\ tx'.version = tx.version /\ tx'.status \in {tx.status} \cup Ran
  BY <1>1, <1>2 DEF MeterOK, Row
<1>4. /\ Put(w, tx').row = tx' /\ Put(w, tx').key = loc[w].key
  BY <1>1, <1>2, PutType
<1>5. TypeOK'
  BY <1>1, <1>2 DEF TypeOK, StepOf, node, provider, books
<1>6. \A v \in Workers : ReturnOK(v)'
  BY <1>2, ReturnStays DEF ReturnOK, Claiming
<1>7. AuthInv'
  BY <1>2, <1>3, AuthStays DEF provider, Ran
<1>8. MeterInv'
  <2>1. MeterOK(w)'
    BY <1>1, <1>2, <1>3, <1>4 DEF MeterOK, Seen, Capturing, Claiming, NoLocals, NewRow, Ran
  <2> QED BY <1>2, <1>3, <2>1, MeterStays
<1>9. CaptureInv'
  <2>1. CaptureOK(w)'
    BY <1>1, <1>2, <1>3, <1>4
    DEF CaptureOK, Seen, Capturing, Claiming, NoLocals, NewRow, provider, TxInv, CaptureInv
  <2> QED BY <1>2, <1>3, <2>1, CaptureStays DEF TxInv, CaptureInv, provider, books, Ran, SETTLED
<1>10. TaskInv'
  BY <1>2, TaskStays DEF Unhurt, Tasking, TaskOK, Claiming
<1> QED BY <1>5, <1>6, <1>7, <1>8, <1>9, <1>10 DEF TxInv

-----------------------------------------------------------------------------
(* settle_after_result(), record_metering() *)

LEMMA SettleAfterResultKeeps == ASSUME TxInv, NEW w \in Workers, SettleAfterResult(w) PROVE TxInv'
<1>1. CASE Goto(w, "s_settle", "c_start")
  <2>1. "c_start" \in Plain
    BY LabelNames DEF Plain, Delicate, Returning
  <2> QED BY <1>1, <2>1, MildGoto, MildKeepsInv DEF SettleAfterResult, Still, Delicate
<1>2. CASE Done(w, "s_settle")
  BY <1>2, MildDone, MildKeepsInv DEF SettleAfterResult, Still, Tasking
<1>3. CASE Seen(w).status \in Ran /\ Goto(w, "s_settle", "s_meter")
  <2>1. /\ TypeOK /\ loc[w] \in Locals /\ MeterOK(w) /\ CaptureOK(w) /\ "s_meter" \in Labels
    BY TxInvParts, LocalType, LabelNames
  <2>2. /\ StepOf(w) /\ pc[w] = "s_settle" /\ pc'[w] = "s_meter" /\ loc'[w] = loc[w]
        /\ UNCHANGED <<tx, op, booking, task, node, provider, books, count>>
    BY <1>3, <2>1 DEF SettleAfterResult, Goto, GotoWith, StepOf, TypeOK
  <2>3. TypeOK'
    BY <2>1, <2>2 DEF TypeOK, StepOf, node, provider, books
  <2>4. \A v \in Workers : ReturnOK(v)'
    BY <2>2, ReturnStays DEF ReturnOK, Claiming
  <2>5. AuthInv'
    BY <2>2, AuthStays DEF provider
  <2>6. MeterInv'
    <3>1. MeterOK(w)'
      BY <1>3, <2>1, <2>2 DEF MeterOK, Seen, Capturing, Claiming
    <3> QED BY <2>2, <3>1, MeterStays DEF TxInv, MeterInv
  <2>7. CaptureInv'
    <3>1. CaptureOK(w)'
      BY <2>1, <2>2 DEF CaptureOK, Seen, Capturing, Claiming, provider
    <3> QED BY <2>2, <3>1, CaptureStays DEF TxInv, CaptureInv, provider, books
  <2>8. TaskInv'
    BY <2>2, TaskStays DEF Unhurt, Tasking, TaskOK, Claiming
  <2> QED BY <2>3, <2>4, <2>5, <2>6, <2>7, <2>8 DEF TxInv
<1> QED BY <1>1, <1>2, <1>3 DEF SettleAfterResult, Ran

LEMMA AdminMeterKeeps == ASSUME TxInv, NEW w \in Workers, AdminMeter(w) PROVE TxInv'
<1> DEFINE l == [NoLocals EXCEPT !.row = tx]
<1>1. /\ TypeOK /\ l \in Locals /\ l.row = tx /\ l.key = "none" /\ "i_meter" \in Labels
  BY TxInvParts, LoadedType, LabelNames
<1>2. /\ StepOf(w) /\ pc[w] = "idle" /\ pc'[w] = "i_meter" /\ loc'[w] = l /\ tx.status \in Ran
      /\ UNCHANGED <<tx, op, booking, task, node, provider, books, count>>
  BY <1>1 DEF AdminMeter, Start, GotoWith, StepOf, TypeOK, Ran
<1>3. TypeOK'
  BY <1>1, <1>2 DEF TypeOK, StepOf, node, provider, books
<1>4. \A v \in Workers : ReturnOK(v)'
  BY <1>2, ReturnStays DEF ReturnOK, Claiming
<1>5. AuthInv'
  BY <1>2, AuthStays DEF provider
<1>6. MeterInv'
  <2>1. MeterOK(w)'
    BY <1>1, <1>2 DEF TxInv, MeterInv, MeterOK, Seen, Capturing, Claiming
  <2> QED BY <1>2, <2>1, MeterStays DEF TxInv, MeterInv
<1>7. CaptureInv'
  <2>1. CaptureOK(w)'
    BY <1>1, <1>2 DEF TxInv, CaptureInv, CaptureOK, Seen, Capturing, Claiming, provider
  <2> QED BY <1>2, <2>1, CaptureStays DEF TxInv, CaptureInv, provider, books
<1>8. TaskInv'
  BY <1>2, TaskStays DEF Unhurt, Tasking, TaskOK, Claiming
<1> QED BY <1>3, <1>4, <1>5, <1>6, <1>7, <1>8 DEF TxInv

LEMMA RecordMeteringKeeps == ASSUME TxInv, NEW w \in Workers, RecordMetering(w) PROVE TxInv'
<1>1. PICK m \in {"zero", "billable"} :
        Write(w, pc[w], IF pc[w] = "s_meter" THEN "s_metered" ELSE "i_metered",
              [tx EXCEPT !.metered = m], [Seen(w) EXCEPT !.metered = m])
  BY DEF RecordMetering
<1>2. /\ TypeOK /\ loc[w].row \in Row /\ tx \in Row /\ MeterOK(w) /\ CaptureOK(w)
      /\ {"s_metered", "i_metered"} \subseteq Labels /\ pc[w] \in {"s_meter", "i_meter"}
  BY TxInvParts, LocalType, LabelNames DEF TypeOK, RecordMetering
<1> DEFINE r == [Seen(w) EXCEPT !.metered = m]
<1>3. r \in Row /\ tx' \in Row /\ tx' = [tx EXCEPT !.metered = m]
  BY <1>1, <1>2, RowFieldType DEF Seen, Write
<1>4. /\ Put(w, r) \in Locals /\ Put(w, r).row = r /\ Put(w, r).key = loc[w].key
  BY <1>2, <1>3, PutType
<1>5. /\ r.status = loc[w].row.status /\ r.version = loc[w].row.version
      /\ tx'.status = tx.status /\ tx'.version = tx.version
      /\ tx'.task = tx.task /\ tx.task # 0 /\ tx'.metered # "none"
  BY <1>2, <1>3 DEF Seen, Row, MeterOK
<1>6. /\ StepOf(w) /\ pc'[w] \in {"s_metered", "i_metered"} /\ loc'[w] = Put(w, r)
      /\ UNCHANGED <<op, booking, task, node, provider, books, count>>
  BY <1>1, <1>2, <1>4 DEF RecordMetering, Write, GotoWith, StepOf, TypeOK
<1>7. TypeOK'
  BY <1>2, <1>3, <1>6 DEF TypeOK, StepOf, node, provider, books
<1>8. \A v \in Workers : ReturnOK(v)'
  BY <1>6, ReturnStays DEF ReturnOK, Claiming
<1>9. AuthInv'
  BY <1>5, <1>6, AuthStays DEF provider
<1>10. MeterInv'
  <2>1. MeterOK(w)'
    BY <1>4, <1>5, <1>6 DEF MeterOK, Seen, Capturing, Claiming
  <2> QED BY <1>5, <1>6, <2>1, MeterStays
<1>11. CaptureInv'
  <2>1. CaptureOK(w)'
    BY <1>2, <1>4, <1>5, <1>6 DEF CaptureOK, Seen, Capturing, Claiming, provider
  <2> QED BY <1>5, <1>6, <2>1, CaptureStays DEF TxInv, CaptureInv, provider, books
<1>12. TaskInv'
  BY <1>2, <1>6, TaskStays DEF Unhurt, Tasking, TaskOK, Claiming
<1> QED BY <1>7, <1>8, <1>9, <1>10, <1>11, <1>12 DEF TxInv

-----------------------------------------------------------------------------
(* capture() *)

LEMMA CaptureStartKeeps == ASSUME TxInv, NEW w \in Workers, CaptureStart(w) PROVE TxInv'
<1>1. CASE Goto(w, "c_start", "x_op")
  <2>1. "x_op" \in Plain
    BY LabelNames DEF Plain, Delicate, Returning
  <2> QED BY <1>1, <2>1, MildGoto, MildKeepsInv DEF CaptureStart, Still, Delicate
<1> DEFINE l == [loc[w] EXCEPT !.key = CaptureKey(w)]
<1>2. CASE Seen(w).metered = "billable" /\ GotoWith(w, "c_start", "c_op", l)
  <2>1. /\ TypeOK /\ loc[w] \in Locals /\ MeterOK(w) /\ CaptureOK(w) /\ "c_op" \in Labels
        /\ CaptureKey(w) \in {"capture1", "capture2"} /\ CaptureKey(w) \in Keys
        /\ (CaptureKey(w) = "capture2" => Seen(w).version # 0)
    BY TxInvParts, LocalType, LabelNames DEF CaptureKey, Keys
  <2>2. l \in Locals /\ l.row = loc[w].row /\ l.key = CaptureKey(w)
    BY <2>1, LocalFieldType DEF Locals
  <2>3. /\ StepOf(w) /\ pc[w] = "c_start" /\ pc'[w] = "c_op" /\ loc'[w] = l
        /\ UNCHANGED <<tx, op, booking, task, node, provider, books, count>>
    BY <1>2, <2>1, <2>2 DEF CaptureStart, GotoWith, StepOf, TypeOK
  <2>4. TypeOK'
    BY <2>1, <2>3 DEF TypeOK, StepOf, node, provider, books
  <2>5. \A v \in Workers : ReturnOK(v)'
    BY <2>3, ReturnStays DEF ReturnOK, Claiming
  <2>6. AuthInv'
    BY <2>3, AuthStays DEF provider
  <2>7. MeterInv'
    <3>1. MeterOK(w)'
      BY <1>2, <2>1, <2>2, <2>3 DEF MeterOK, Seen, Capturing, Claiming
    <3> QED BY <2>3, <3>1, MeterStays DEF TxInv, MeterInv
  <2>8. CaptureInv'
    <3>1. CaptureOK(w)'
      BY <2>1, <2>2, <2>3 DEF CaptureOK, Seen, Capturing, Claiming, provider
    <3> QED BY <2>3, <3>1, CaptureStays DEF TxInv, CaptureInv, provider, books
  <2>9. TaskInv'
    BY <2>3, TaskStays DEF Unhurt, Tasking, TaskOK, Claiming
  <2> QED BY <2>4, <2>5, <2>6, <2>7, <2>8, <2>9 DEF TxInv
<1> QED BY <1>1, <1>2 DEF CaptureStart

LEMMA CaptureClaimKeeps == ASSUME TxInv, NEW w \in Workers, CaptureClaim(w) PROVE TxInv'
<1>1. /\ TypeOK /\ loc[w] \in Locals /\ NoLocals \in Locals /\ MeterOK(w) /\ CaptureOK(w)
      /\ {"idle", "retake", "c_pend"} \subseteq Labels /\ pc[w] = "c_op"
  BY TxInvParts, LocalType, IdleType, LabelNames DEF CaptureClaim
<1>2. loc[w].key \in {"capture1", "capture2"} /\ loc[w].key \in Keys
  BY <1>1 DEF CaptureOK, Capturing, Keys
<1> DEFINE taken == [loc[w] EXCEPT !.key = loc[w].key, !.go = "c_pend"]
<1>3. taken \in Locals /\ taken.row = loc[w].row /\ taken.go = "c_pend" /\ taken.key = loc[w].key
  BY <1>1, <1>2, LocalFieldType DEF Locals
<1>4. /\ StepOf(w) /\ op' \in [Keys -> {"none", "pending", "failed", "succeeded"}]
      /\ op'["dispatch"] = op["dispatch"]
      /\ \/ pc'[w] = "c_pend" /\ loc'[w] = loc[w]
         \/ pc'[w] = "retake" /\ loc'[w] = taken
         \/ pc'[w] = "idle" /\ loc'[w] = NoLocals
      /\ UNCHANGED <<tx, booking, task, node, provider, books, count>>
  BY <1>1, <1>2, <1>3 DEF CaptureClaim, Begin, Goto, Done, GotoWith, StepOf, TypeOK, Keys
<1>5. /\ loc'[w].row \in {loc[w].row, NewRow} /\ loc'[w].key \in {loc[w].key, "none"}
      /\ pc'[w] \in {"idle", "retake", "c_pend"}
      /\ (Claiming(w)' => loc'[w].go = "c_pend")
      /\ (pc'[w] # "idle" => loc'[w].key = loc[w].key)
  <2>1. NoLocals.row = NewRow /\ NoLocals.key = "none"
    BY DEF NoLocals
  <2> HIDE DEF taken
  <2> QED BY <1>3, <1>4, <2>1 DEF Claiming
<1>6. TypeOK'
  BY <1>1, <1>4 DEF TypeOK, StepOf, node, provider, books
<1>7. \A v \in Workers : ReturnOK(v)'
  BY <1>2, <1>4, <1>5, ReturnStays DEF ReturnOK, Claiming
<1>8. AuthInv'
  BY <1>4, <1>5, AuthStays DEF provider
<1>9. MeterInv'
  <2>1. MeterOK(w)'
    BY <1>1, <1>4, <1>5 DEF MeterOK, Seen, Capturing, NewRow, Ran
  <2> QED BY <1>4, <2>1, MeterStays DEF TxInv, MeterInv
<1>10. CaptureInv'
  <2>1. CaptureOK(w)'
    BY <1>1, <1>2, <1>4, <1>5 DEF CaptureOK, Seen, Capturing, Claiming, NewRow, provider
  <2> QED BY <1>4, <1>5, <2>1, CaptureStays DEF TxInv, CaptureInv, provider, books
<1>11. TaskInv'
  BY <1>1, <1>4, <1>5, TaskStays DEF Unhurt, Tasking, TaskOK, Claiming
<1> QED BY <1>6, <1>7, <1>8, <1>9, <1>10, <1>11 DEF TxInv

LEMMA CapturePendingKeeps == ASSUME TxInv, NEW w \in Workers, CapturePending(w) PROVE TxInv'
<1>1. /\ TypeOK /\ loc[w] \in Locals /\ MeterOK(w) /\ CaptureOK(w) /\ NoLocals \in Locals
      /\ {"c_call", "idle"} \subseteq Labels /\ "PAYMENT_CAPTURE_PENDING" \in Statuses
      /\ tx \in Row
  BY TxInvParts, LocalType, IdleType, LabelNames, StatusNames DEF TypeOK
<1>2. /\ StepOf(w) /\ pc[w] = "c_pend" /\ tx' \in Row
      /\ \/ /\ tx' = [tx EXCEPT !.status = "PAYMENT_CAPTURE_PENDING"]
            /\ pc'[w] = "c_call" /\ loc'[w] = Put(w, tx')
         \/ tx' = tx /\ pc'[w] = "idle" /\ loc'[w] = NoLocals
      /\ UNCHANGED <<op, booking, task, node, provider, books, count>>
  BY <1>1, TransitionType DEF CapturePending, StepOf
<1>3. /\ tx'.task = tx.task /\ tx'.metered = tx.metered /\ tx'.version = tx.version
      /\ tx'.status \in {tx.status, "PAYMENT_CAPTURE_PENDING"}
      /\ Put(w, tx').row = tx' /\ Put(w, tx').key = loc[w].key
  BY <1>1, <1>2, PutType DEF Row
<1>4. TypeOK'
  BY <1>1, <1>2 DEF TypeOK, StepOf, node, provider, books
<1>5. \A v \in Workers : ReturnOK(v)'
  BY <1>2, ReturnStays DEF ReturnOK, Claiming
<1>6. AuthInv'
  BY <1>2, <1>3, AuthStays DEF provider
<1>7. MeterInv'
  <2>1. MeterOK(w)'
    BY <1>1, <1>2, <1>3
    DEF TxInv, MeterInv, MeterOK, Seen, Capturing, Claiming, NoLocals, NewRow, Ran
  <2> QED BY <1>2, <1>3, <2>1, MeterStays DEF TxInv, MeterInv, Ran
<1>8. CaptureInv'
  <2>1. CaptureOK(w)'
    BY <1>1, <1>2, <1>3
    DEF TxInv, CaptureInv, CaptureOK, Seen, Capturing, Claiming, NoLocals, NewRow, provider
  <2> QED BY <1>2, <1>3, <2>1, CaptureStays DEF TxInv, CaptureInv, provider, books, SETTLED
<1>9. TaskInv'
  BY <1>2, TaskStays DEF Unhurt, Tasking, TaskOK, Claiming
<1> QED BY <1>4, <1>5, <1>6, <1>7, <1>8, <1>9 DEF TxInv

LEMMA CaptureCallKeeps == ASSUME TxInv, NEW w \in Workers, CaptureCall(w) PROVE TxInv'
<1>1. /\ TypeOK /\ loc[w] \in Locals /\ MeterOK(w) /\ CaptureOK(w) /\ NoLocals \in Locals
      /\ {"c_save", "c_fail", "idle"} \subseteq Labels
  BY TxInvParts, LocalType, IdleType, LabelNames
<1>2. /\ StepOf(w) /\ pc[w] = "c_call"
      /\ \/ Capturable(w) /\ pi' = "succeeded" /\ pc'[w] = "c_save" /\ loc'[w] = loc[w]
         \/ pi' = pi /\ pc'[w] = "c_fail" /\ loc'[w] = loc[w]
         \/ /\ pi' = pi \/ (Capturable(w) /\ pi' = "succeeded")
            /\ pc'[w] = "idle" /\ loc'[w] = NoLocals
      /\ UNCHANGED <<tx, op, booking, task, node, events, books, count>>
  BY <1>1 DEF CaptureCall, Goto, Done, GotoWith, StepOf, TypeOK
<1>3. loc[w].key \in {"capture1", "capture2"} /\ (loc[w].key = "capture2" => pi = "succeeded")
  BY <1>1, <1>2 DEF CaptureOK, Capturing
<1>4. /\ pi = "succeeded" => pi' = "succeeded"
      /\ pi \in Unsaved => pi' \in Unsaved
      /\ pc'[w] = "c_save" => pi' = "succeeded" /\ loc[w].key = "capture1"
      /\ pc'[w] \in {"c_save", "c_fail", "idle"} /\ loc'[w] \in {loc[w], NoLocals}
      /\ pi' \in {pi, "succeeded"} /\ (pc'[w] # "idle" => loc'[w] = loc[w])
  BY <1>2, <1>3 DEF Capturable, Unsaved
<1>5. TypeOK'
  BY <1>1, <1>2, <1>4 DEF TypeOK, StepOf, node, books
<1>6. \A v \in Workers : ReturnOK(v)'
  BY <1>2, <1>4, ReturnStays DEF ReturnOK, Claiming
<1>7. AuthInv'
  BY <1>2, <1>4, AuthStays
<1>8. MeterInv'
  <2>1. MeterOK(w)'
    BY <1>1, <1>2, <1>4 DEF MeterOK, Seen, Capturing, Claiming, NoLocals, NewRow, Ran
  <2> QED BY <1>2, <2>1, MeterStays DEF TxInv, MeterInv
<1>9. CaptureInv'
  <2>1. CaptureOK(w)'
    BY <1>1, <1>2, <1>3, <1>4 DEF CaptureOK, Seen, Capturing, Claiming, NoLocals, NewRow
  <2> QED BY <1>2, <1>4, <2>1, CaptureStays DEF TxInv, CaptureInv, books
<1>10. TaskInv'
  BY <1>2, TaskStays DEF Unhurt, Tasking, TaskOK, Claiming
<1> QED BY <1>5, <1>6, <1>7, <1>8, <1>9, <1>10 DEF TxInv

(* What a successful or failed capture leaves in the operation log. *)
LEMMA CaptureCloseKeeps ==
  ASSUME TxInv, NEW w \in Workers, CaptureFail(w) \/ CaptureFinish(w) PROVE TxInv'
<1>1. /\ TypeOK /\ loc[w] \in Locals /\ MeterOK(w) /\ CaptureOK(w)
      /\ {"c_failed", "c_settle"} \subseteq Labels
  BY TxInvParts, LocalType, LabelNames
<1>2. /\ StepOf(w) /\ loc'[w] = loc[w]
      /\ \/ pc[w] = "c_fail" /\ pc'[w] = "c_failed"
         \/ pc[w] = "c_finish" /\ pc'[w] = "c_settle"
      /\ UNCHANGED <<tx, booking, task, node, provider, books, count>>
  BY <1>1 DEF CaptureFail, CaptureFinish, FinishOp, Goto, GotoWith, StepOf, TypeOK
<1>3. loc[w].key \in {"capture1", "capture2"}
  BY <1>1, <1>2 DEF CaptureOK
<1>4. /\ op' \in [Keys -> {"none", "pending", "failed", "succeeded"}]
      /\ op'["dispatch"] = op["dispatch"]
  BY <1>1, <1>3 DEF CaptureFail, CaptureFinish, FinishOp, TypeOK, Keys
<1>5. TypeOK'
  BY <1>1, <1>2, <1>4 DEF TypeOK, StepOf, node, provider, books
<1>6. \A v \in Workers : ReturnOK(v)'
  BY <1>2, ReturnStays DEF ReturnOK, Claiming
<1>7. AuthInv'
  BY <1>2, AuthStays DEF provider
<1>8. MeterInv'
  <2>1. MeterOK(w)'
    BY <1>1, <1>2 DEF MeterOK, Seen, Capturing, Claiming
  <2> QED BY <1>2, <2>1, MeterStays DEF TxInv, MeterInv
<1>9. CaptureInv'
  <2>1. CaptureOK(w)'
    BY <1>1, <1>2 DEF CaptureOK, Seen, Capturing, Claiming, provider
  <2> QED BY <1>2, <2>1, CaptureStays DEF TxInv, CaptureInv, provider, books
<1>10. TaskInv'
  BY <1>2, <1>4, TaskStays DEF Unhurt, Tasking, TaskOK, Claiming
<1> QED BY <1>5, <1>6, <1>7, <1>8, <1>9, <1>10 DEF TxInv

LEMMA CaptureSaveKeeps == ASSUME TxInv, NEW w \in Workers, CaptureSave(w) PROVE TxInv'
<1>1. /\ TypeOK /\ loc[w].row \in Row /\ tx \in Row /\ MeterOK(w) /\ CaptureOK(w)
      /\ "c_finish" \in Labels /\ pc[w] = "c_save"
  BY TxInvParts, LocalType, LabelNames DEF TypeOK, CaptureSave
<1>2. pi = "succeeded" /\ loc[w].key = "capture1" /\ Version(w) = 1
  BY <1>1 DEF CaptureOK, Version
<1> DEFINE r == [Seen(w) EXCEPT !.version = 1]
<1>0. tx' = [tx EXCEPT !.version = 1] /\ 1 \in 0 .. 2
  BY <1>2 DEF Write, CaptureSave
<1>3. r \in Row /\ tx' \in Row /\ tx' = [tx EXCEPT !.version = 1]
  BY <1>0, <1>1, RowFieldType DEF Seen
<1>4. /\ Put(w, r) \in Locals /\ Put(w, r).row = r /\ Put(w, r).key = loc[w].key
  BY <1>1, <1>3, PutType
<1>5. /\ r.status = loc[w].row.status /\ r.metered = loc[w].row.metered
      /\ tx'.status = tx.status /\ tx'.task = tx.task /\ tx'.metered = tx.metered
  BY <1>1, <1>3 DEF Seen, Row
<1>6. /\ StepOf(w) /\ pc'[w] = "c_finish" /\ loc'[w] = Put(w, r)
      /\ UNCHANGED <<op, booking, task, node, provider, books, count>>
  BY <1>1, <1>2, <1>4 DEF CaptureSave, Write, GotoWith, StepOf, TypeOK
<1>7. TypeOK'
  BY <1>1, <1>3, <1>6 DEF TypeOK, StepOf, node, provider, books
<1>8. \A v \in Workers : ReturnOK(v)'
  BY <1>6, ReturnStays DEF ReturnOK, Claiming
<1>9. AuthInv'
  BY <1>5, <1>6, AuthStays DEF provider
<1>10. MeterInv'
  <2>1. MeterOK(w)'
    BY <1>1, <1>4, <1>5, <1>6 DEF MeterOK, Seen, Capturing, Claiming
  <2> QED BY <1>5, <1>6, <2>1, MeterStays DEF TxInv, MeterInv
<1>11. CaptureInv'
  <2>1. CaptureOK(w)'
    BY <1>2, <1>4, <1>6 DEF CaptureOK, Seen, Capturing, Claiming, provider
  <2> QED BY <1>2, <1>5, <1>6, <2>1, CaptureStays DEF TxInv, CaptureInv, provider, books
<1>12. TaskInv'
  BY <1>1, <1>6, TaskStays DEF Unhurt, Tasking, TaskOK, Claiming
<1> QED BY <1>7, <1>8, <1>9, <1>10, <1>11, <1>12 DEF TxInv

LEMMA CaptureSettleKeeps == ASSUME TxInv, NEW w \in Workers, CaptureSettle(w) PROVE TxInv'
<1>1. /\ TypeOK /\ loc[w] \in Locals /\ NoLocals \in Locals /\ MeterOK(w) /\ CaptureOK(w)
      /\ {"c_post", "idle"} \subseteq Labels /\ pc[w] = "c_settle"
  BY TxInvParts, LocalType, IdleType, LabelNames DEF CaptureSettle
<1>2. pi = "succeeded" /\ loc[w].key = "capture1" /\ Version(w) = 1
  BY <1>1 DEF CaptureOK, Version
<1>3. /\ StepOf(w) /\ loc'[w] \in {loc[w], NoLocals} /\ pc'[w] \in {"c_post", "idle"}
      /\ pc'[w] = "c_post" => 1 \notin settled /\ 1 \in settled' /\ loc'[w] = loc[w]
      /\ settled' \in {settled, settled \cup {1}}
      /\ UNCHANGED <<tx, op, booking, task, node, provider, posted, owed, count>>
  BY <1>1, <1>2 DEF CaptureSettle, Goto, Done, GotoWith, StepOf, TypeOK
<1>4. TypeOK'
  BY <1>1, <1>3 DEF TypeOK, StepOf, node, provider
<1>5. \A v \in Workers : ReturnOK(v)'
  BY <1>3, ReturnStays DEF ReturnOK, Claiming
<1>6. AuthInv'
  BY <1>3, AuthStays DEF provider
<1>7. MeterInv'
  <2>1. MeterOK(w)'
    BY <1>1, <1>3 DEF MeterOK, Seen, Capturing, Claiming, NoLocals, NewRow, Ran
  <2> QED BY <1>3, <2>1, MeterStays DEF TxInv, MeterInv
<1>8. CaptureInv'
  <2>1. pc'[w] = "c_post" => posted = 0 /\ \A v \in Workers : pc[v] # "c_post"
    BY <1>3 DEF TxInv, CaptureInv, CaptureOK
  <2>2. CaptureOK(w)'
    BY <1>1, <1>2, <1>3, <2>1
    DEF CaptureOK, Seen, Capturing, Claiming, NoLocals, NewRow, provider
  <2> QED BY <1>2, <1>3, <2>1, <2>2, CaptureStays DEF TxInv, CaptureInv, provider
<1>9. TaskInv'
  BY <1>1, <1>3, TaskStays DEF Unhurt, Tasking, TaskOK, Claiming
<1> QED BY <1>4, <1>5, <1>6, <1>7, <1>8, <1>9 DEF TxInv

LEMMA CapturePostKeeps == ASSUME TxInv, NEW w \in Workers, CapturePost(w) PROVE TxInv'
<1>1. /\ TypeOK /\ loc[w] \in Locals /\ MeterOK(w) /\ CaptureOK(w) /\ NoLocals \in Locals
      /\ {"c_owe", "idle"} \subseteq Labels /\ "PAYMENT_CAPTURED" \in Statuses
      /\ tx \in Row /\ pc[w] = "c_post"
  BY TxInvParts, LocalType, IdleType, LabelNames, StatusNames DEF TypeOK, CapturePost
<1>2. /\ StepOf(w) /\ tx' \in Row
      /\ \/ /\ tx' = [tx EXCEPT !.status = "PAYMENT_CAPTURED"] /\ posted' = posted + 1
            /\ pc'[w] = "c_owe" /\ loc'[w] = Put(w, tx')
         \/ tx' = tx /\ posted' = posted /\ pc'[w] = "idle" /\ loc'[w] = NoLocals
      /\ UNCHANGED <<op, booking, task, node, provider, settled, owed, count>>
  BY <1>1, TransitionType DEF CapturePost, StepOf
<1>3. /\ tx'.task = tx.task /\ tx'.metered = tx.metered /\ tx'.version = tx.version
      /\ tx'.status \in {tx.status, "PAYMENT_CAPTURED"}
      /\ Put(w, tx').row = tx' /\ Put(w, tx').key = loc[w].key
  BY <1>1, <1>2, PutType DEF Row
<1>4. pi = "succeeded" /\ loc[w].key = "capture1" /\ posted = 0 /\ 1 \in settled
  BY <1>1 DEF CaptureOK
<1>5. TypeOK'
  BY <1>1, <1>2, <1>4 DEF TypeOK, StepOf, node, provider
<1>6. \A v \in Workers : ReturnOK(v)'
  BY <1>2, ReturnStays DEF ReturnOK, Claiming
<1>7. AuthInv'
  BY <1>2, <1>3, AuthStays DEF provider
<1>8. MeterInv'
  <2>1. MeterOK(w)'
    BY <1>1, <1>2, <1>3
    DEF TxInv, MeterInv, MeterOK, Seen, Capturing, Claiming, NoLocals, NewRow, Ran
  <2> QED BY <1>2, <1>3, <2>1, MeterStays DEF TxInv, MeterInv, Ran
<1>9. CaptureInv'
  <2>1. CaptureOK(w)'
    BY <1>1, <1>2, <1>3, <1>4
    DEF CaptureOK, Seen, Capturing, Claiming, NoLocals, NewRow, provider
  <2>2. ASSUME NEW v \in Workers \ {w} PROVE CaptureOK(v)' /\ pc'[v] # "c_post"
    BY <1>1, <1>2, <2>2
    DEF TxInv, CaptureInv, CaptureOK, Seen, Capturing, Claiming, StepOf, provider
  <2> QED BY <1>2, <1>3, <1>4, <2>1, <2>2 DEF TxInv, CaptureInv, provider, SETTLED
<1>10. TaskInv'
  BY <1>1, <1>2, TaskStays DEF Unhurt, Tasking, TaskOK, Claiming
<1> QED BY <1>5, <1>6, <1>7, <1>8, <1>9, <1>10 DEF TxInv

-----------------------------------------------------------------------------
(* The invariant holds, and what follows from it *)

LEMMA InitInv == Init => TxInv
<1> SUFFICES ASSUME Init PROVE TxInv
  OBVIOUS
<1>1. /\ {Units, Slots, MaxOthers, MaxRetries, MaxDowns, MaxErrors, MaxCrashes} \subseteq Nat
      /\ NoLocals \in Locals /\ NewRow \in Row /\ "idle" \in Labels
      /\ "PAYMENT_AUTHORIZED" \in Statuses
  BY CountAssumption, IdleType, LabelNames, StatusNames
<1>2. /\ tx \in Row /\ tx.status \in {"none", "PAYMENT_AUTHORIZED"} /\ tx.task = 0
      /\ tx.metered = "none" /\ tx.version = 0
      /\ pi \in {"none", "requires_capture"} /\ (tx.status = "none" => pi = "none")
  <2>1. CASE Opening = "none"
    <3>1. tx = NewRow /\ pi = "none"
      BY <2>1 DEF Init
    <3>2. /\ NewRow.status = "none" /\ NewRow.task = 0 /\ NewRow.metered = "none"
          /\ NewRow.version = 0
      BY DEF NewRow
    <3> QED BY <1>1, <3>1, <3>2
  <2>2. CASE Opening # "none"
    <3>1. Opening = "PAYMENT_AUTHORIZED"
      BY <2>2, SetAssumption
    <3> QED BY <1>1, <2>2, <3>1 DEF Init, NewRow, Row
  <2> QED BY <2>1, <2>2
<1>3. \A w \in Workers : pc[w] = "idle" /\ loc[w] = NoLocals
  BY DEF Init
<1>4. TypeOK
  <2>1. count \in Counts
    BY DEF Init, Counts
  <2>2. free \in 0 .. Units /\ others \in Nat /\ up \in BOOLEAN /\ posted \in Nat
    BY <1>1 DEF Init
  <2>3. pc \in [Workers -> Labels] /\ loc \in [Workers -> Locals]
    BY <1>1 DEF Init
  <2>4. /\ op \in [Keys -> {"none", "pending", "failed", "succeeded"}]
        /\ booking \in [1 .. Slots -> {"none", "stripe_reserved", "released_unused"}]
        /\ task \in [1 .. Slots -> {"none", "pending", "completed", "failed"}]
    BY DEF Init
  <2>5. events \subseteq Events /\ settled \subseteq 1 .. 2 /\ owed \in BOOLEAN
    BY DEF Init
  <2> QED BY <1>2, <2>1, <2>2, <2>3, <2>4, <2>5 DEF TypeOK
<1>5. \A w \in Workers : ReturnOK(w)
  BY <1>3 DEF ReturnOK, Claiming
<1>6. AuthInv
  BY <1>2, <1>3 DEF AuthInv, Unsaved
<1>7. MeterInv
  BY <1>2, <1>3 DEF MeterInv, MeterOK, Capturing, Claiming, Seen, NoLocals, NewRow, Ran
<1>8. CaptureInv
  BY <1>2, <1>3
  DEF CaptureInv, CaptureOK, Capturing, Claiming, Seen, NoLocals, NewRow, Init, SETTLED
<1>9. TaskInv
  <2>1. op["dispatch"] = "none" /\ NoTasks /\ \A t \in 2 .. Slots : task[t] = "none"
    BY <1>1 DEF Init, Keys, NoTasks
  <2> QED BY <1>3, <2>1 DEF TaskInv, TaskOK, Tasking, Claiming
<1> QED BY <1>4, <1>5, <1>6, <1>7, <1>8, <1>9 DEF TxInv

LEMMA ProceedKeepsInv == ASSUME TxInv, NEW w \in Workers, Proceed(w) PROVE TxInv'
<1>1. CASE \/ Retake(w) \/ Reload(w) \/ AuthorizeCall(w) \/ DispatchClaim(w) \/ DispatchTask(w)
           \/ DispatchLink(w) \/ DispatchError(w) \/ DispatchUndo(w) \/ DispatchDrop(w)
           \/ DispatchFinish(w) \/ DispatchMove(w) \/ DispatchRun(w) \/ SettleAfterResult(w)
           \/ RecordMetering(w) \/ CaptureStart(w) \/ CaptureClaim(w) \/ CapturePending(w)
           \/ CaptureCall(w) \/ CaptureFail(w) \/ CaptureSave(w) \/ CaptureFinish(w)
           \/ CaptureSettle(w) \/ CapturePost(w)
  BY <1>1, RetakeKeeps, ReloadKeeps, AuthorizeCallKeeps, DispatchClaimKeeps, DispatchTaskKeeps,
     DispatchLinkKeeps,
     DispatchErrorKeeps, DispatchUndoKeeps, DispatchFinishKeeps, DispatchMoveKeeps,
        SettleAfterResultKeeps,
     RecordMeteringKeeps, CaptureStartKeeps, CaptureClaimKeeps, CapturePendingKeeps,
        CaptureCallKeeps,
     CaptureCloseKeeps, CaptureSaveKeeps, CaptureSettleKeeps, CapturePostKeeps
<1>2. CASE \/ AuthorizeFail(w) \/ AuthorizeSave(w) \/ AuthorizeMove(w) \/ HandleCapturable(w)
           \/ HandleFailed(w) \/ HandleCanceled(w) \/ EventDone(w) \/ MarkCheck(w) \/ MarkMove(w)
           \/ SettleFind(w) \/ MeteringMove(w) \/ CaptureFailed(w) \/ CaptureOwe(w)
           \/ DispatchCheck(w) \/ FailFind(w) \/ FailJob(w)
  <2>1. Mild(w)
    BY <1>2, AuthorizeFailMild, AuthorizeSaveMild, AuthorizeMoveMild, HandleCapturableMild,
       HandleFailedMild,
       HandleCanceledMild, EventDoneMild, MarkCheckMild, MarkMoveMild, SettleFindMild,
          MeteringMoveMild,
       CaptureFailedMild, CaptureOweMild, DispatchCheckMild, FailFindMild, FailJobMild
  <2> QED BY <2>1, MildKeepsInv
<1>3. CASE \/ ReserveOffline(w) \/ ReserveClaim(w) \/ ReserveBook(w) \/ ReserveFull(w)
           \/ ReserveFullOp(w) \/ ReserveLink(w) \/ ReserveError(w) \/ ReserveCompensate(w)
           \/ ReserveDrop(w) \/ ReserveUndo(w) \/ ReserveFinish(w) \/ ReserveMove(w)
           \/ CancelClaim(w) \/ CancelCall(w) \/ CancelFinish(w) \/ CancelMove(w) \/ CancelRefund(w)
           \/ ReleaseRead(w) \/ ReleaseMark(w) \/ ReleaseFree(w) \/ ReleaseFailed(w)
           \/ ReleaseEnd(w)
  <2>1. Mild(w)
    BY <1>3, ReserveOfflineMild, ReserveClaimMild, ReserveBookMild, ReserveFullMild,
       ReserveFullOpMild,
       ReserveLinkMild, ReserveErrorMild, ReserveCompensateMild, ReserveDropMild, ReserveUndoMild,
       ReserveFinishMild, ReserveMoveMild, CancelClaimMild, CancelCallMild, CancelFinishMild,
          CancelMoveMild,
       CancelRefundMild, ReleaseReadMild, ReleaseMarkMild, ReleaseFreeMild, ReleaseFailedMild,
          ReleaseEndMild
  <2> QED BY <2>1, MildKeepsInv
<1> QED BY <1>1, <1>2, <1>3 DEF Proceed

LEMMA NextKeepsInv == ASSUME TxInv, Next PROVE TxInv'
<1>1. CASE \E w \in Workers : Proceed(w) \/ Crash(w)
  BY <1>1, ProceedKeepsInv, CrashMild, MildKeepsInv
<1>2. ASSUME NEW w \in Requests, Requested(w) PROVE TxInv'
  <2>1. w \in Workers
    BY DEF Workers
  <2>2. CASE Authorize(w) \/ AdminMeter(w)
    BY <2>1, <2>2, AuthorizeKeeps, AdminMeterKeeps
  <2>3. CASE Confirm(w) \/ Reserve(w) \/ Dispatch(w) \/ AdminCapture(w) \/ Cancel(w)
    BY <2>1, <2>3, ConfirmMild, ReserveMild, DispatchMild, AdminCaptureMild, CancelMild,
       MildKeepsInv
  <2> QED BY <1>2, <2>2, <2>3 DEF Requested
<1>3. CASE \E w \in Requests : \/ \E e \in Events : Deliver(w, e)
                               \/ \E t \in 1 .. Slots : Result(w, t)
  BY <1>3, DeliverMild, ResultMild, MildKeepsInv DEF Workers
<1>4. CASE Reclaim \/ ReclaimProceed
  BY <1>4, ReclaimFailedMild, ReclaimStuckMild, ReclaimVoidMild, ReclaimPathMild,
     ReclaimLastMild, MildKeepsInv
  DEF Reclaim, ReclaimProceed, Workers
<1>5. CASE Environment
  BY <1>5, EnvironmentKeepsInv
<1> QED BY <1>1, <1>2, <1>3, <1>4, <1>5 DEF Next

LEMMA StutterKeepsInv == ASSUME TxInv, UNCHANGED vars PROVE TxInv'
<1>1. SharedType /\ RowKept /\ PaymentKept /\ TasksKept /\ UNCHANGED <<pc, loc>>
  BY DEF TxInv, TypeOK, vars, SharedType, RowKept, PaymentKept, TasksKept, Unhurt
<1> QED BY <1>1, CalmKeepsInv

(* TxInv is an invariant: it holds initially and every step keeps it. *)
THEOREM TxInvHolds == Spec => []TxInv
<1>1. TxInv /\ [Next]_vars => TxInv'
  BY NextKeepsInv, StutterKeepsInv
<1> QED BY InitInv, <1>1, PTL DEF Spec

(* Every variable of the model keeps its type, whatever is interleaved,    *)
(* refused or killed.                                                      *)
THEOREM TypeCorrect == Spec => []TypeOK
<1>1. TxInv => TypeOK
  BY DEF TxInv
<1> QED BY <1>1, TxInvHolds, PTL

(* However results, administrators and retries drive capture(), the ledger *)
(* books the charge at most once, and only for a payment the provider took *)
(* (capture(), _write_settlement()).                                       *)
THEOREM BookedOnceHolds == Spec => []BookedOnce
<1>1. TxInv => BookedOnce
  BY DEF TxInv, CaptureInv, BookedOnce
<1> QED BY <1>1, TxInvHolds, PTL

(* A transaction whose status counts as paid was charged by the provider   *)
(* and booked in the ledger (capture()).                                   *)
THEOREM PaidMeansChargedHolds == Spec => []PaidMeansCharged
<1>1. TxInv => PaidMeansCharged
  BY DEF TxInv, CaptureInv, PaidMeansCharged
<1> QED BY <1>1, TxInvHolds, PTL

(* While no worker dies and the database answers, dispatch_job() makes one *)
(* task for a transaction, however many requests overlap (_begin_op()).    *)
THEOREM OneTaskHolds == Spec => []OneTask
<1>1. TxInv => OneTask
  BY DEF TxInv, TaskInv, OneTask
<1> QED BY <1>1, TxInvHolds, PTL

(* The only step that charges the card is capture()'s call of the provider. *)
LEMMA OnlyCaptureCharges ==
  ASSUME TxInv, Next, pi # "succeeded", pi' = "succeeded"
  PROVE  \E w \in Workers : CaptureCall(w)
<1> SUFFICES ASSUME \A w \in Workers : ~CaptureCall(w) PROVE FALSE
  OBVIOUS
<1> USE DEF provider
<1>1. ASSUME NEW w \in Workers, Proceed(w) PROVE FALSE
  <2>1. CASE AuthorizeCall(w) \/ CancelCall(w) \/ ReleaseFailed(w)
    BY <2>1 DEF AuthorizeCall, CancelCall, ReleaseFailed, Void
  <2>2. CASE UNCHANGED pi
    BY <2>2
  <2>3. CASE \/ Retake(w) \/ Reload(w) \/ AuthorizeFail(w) \/ AuthorizeSave(w) \/ AuthorizeMove(w)
             \/ HandleCapturable(w) \/ HandleFailed(w) \/ HandleCanceled(w) \/ EventDone(w)
             \/ MarkCheck(w) \/ MarkMove(w)
    BY <2>3 DEF Retake, Reload, AuthorizeFail, AuthorizeSave, AuthorizeMove, HandleCapturable,
                HandleFailed, HandleCanceled, EventDone, MarkCheck, MarkMove
  <2>4. CASE \/ ReserveOffline(w) \/ ReserveClaim(w) \/ ReserveBook(w) \/ ReserveFull(w)
             \/ ReserveFullOp(w) \/ ReserveLink(w) \/ ReserveError(w) \/ ReserveCompensate(w)
             \/ ReserveDrop(w) \/ ReserveUndo(w) \/ ReserveFinish(w) \/ ReserveMove(w)
    BY <2>4 DEF ReserveOffline, ReserveClaim, ReserveBook, ReserveFull, ReserveFullOp,
                ReserveLink, ReserveError, ReserveCompensate, ReserveDrop, ReserveUndo,
                ReserveFinish, ReserveMove
  <2>5. CASE \/ DispatchCheck(w) \/ DispatchClaim(w) \/ DispatchTask(w) \/ DispatchLink(w)
             \/ DispatchError(w) \/ DispatchUndo(w) \/ DispatchDrop(w) \/ DispatchFinish(w)
             \/ DispatchMove(w) \/ DispatchRun(w)
    BY <2>5 DEF DispatchCheck, DispatchClaim, DispatchTask, DispatchLink, DispatchError,
                DispatchUndo, DispatchDrop, DispatchFinish, DispatchMove, DispatchRun
  <2>6. CASE \/ SettleFind(w) \/ SettleAfterResult(w) \/ RecordMetering(w) \/ MeteringMove(w)
             \/ CaptureStart(w) \/ CaptureClaim(w) \/ CapturePending(w) \/ CaptureFail(w)
             \/ CaptureFailed(w) \/ CaptureSave(w) \/ CaptureFinish(w) \/ CaptureSettle(w)
             \/ CapturePost(w) \/ CaptureOwe(w)
    BY <2>6 DEF SettleFind, SettleAfterResult, RecordMetering, MeteringMove, CaptureStart,
                CaptureClaim, CapturePending, CaptureFail, CaptureFailed, CaptureSave,
                CaptureFinish, CaptureSettle, CapturePost, CaptureOwe
  <2>7. CASE \/ CancelClaim(w) \/ CancelFinish(w) \/ CancelMove(w) \/ CancelRefund(w)
             \/ ReleaseRead(w) \/ ReleaseMark(w) \/ ReleaseFree(w) \/ ReleaseEnd(w)
             \/ FailFind(w) \/ FailJob(w)
    BY <2>7 DEF CancelClaim, CancelFinish, CancelMove, CancelRefund, ReleaseRead, ReleaseMark,
                ReleaseFree, ReleaseEnd, FailFind, FailJob
  <2> QED BY <1>1, <2>1, <2>3, <2>4, <2>5, <2>6, <2>7 DEF Proceed
<1>2. ASSUME NEW w \in Requests, Requested(w) PROVE FALSE
  BY <1>2 DEF Requested, Authorize, Confirm, Reserve, Dispatch, AdminMeter, AdminCapture, Cancel
<1>3. ASSUME NEW w \in Workers PROVE /\ ~Crash(w) /\ (\A e \in Events : ~Deliver(w, e))
                                     /\ \A t \in 1 .. Slots : ~Result(w, t)
  BY <1>3 DEF Crash, Deliver, Result
<1>4. ~Reclaim /\ ~ReclaimProceed
  BY DEF Reclaim, ReclaimFailed, ReclaimStuck, ReclaimProceed, ReclaimVoid, ReclaimPath,
         ReclaimLast, Void
<1>5. ~Environment
  BY DEF Environment, CardConfirmed, CardDeclined, AuthorizationExpires, OthersTake, OthersLeave,
         NodeDown, NodeUp, RetryTask
<1> QED BY <1>1, <1>2, <1>3, <1>4, <1>5 DEF Next, Workers

(* The card is charged for a run that was dispatched and metered, under    *)
(* every interleaving of dispatch, metering and capture                    *)
(* (record_metering(), capture()).                                         *)
THEOREM ChargedForMeteredWorkHolds == Spec => ChargedForMeteredWork
<1>1. ASSUME TxInv, [Next]_vars
      PROVE  [pi # "succeeded" /\ pi' = "succeeded" => tx.metered # "none" /\ tx.task # 0]_vars
  <2> SUFFICES ASSUME Next, pi # "succeeded", pi' = "succeeded"
               PROVE  tx.metered # "none" /\ tx.task # 0
    BY <1>1 DEF vars
  <2>1. PICK w \in Workers : CaptureCall(w)
    BY <1>1, OnlyCaptureCharges
  <2>2. Capturing(w)
    BY <2>1 DEF CaptureCall, Goto, Done, GotoWith, Capturing
  <2> QED BY <1>1, <2>2 DEF TxInv, MeterInv, MeterOK
<1> QED BY <1>1, TxInvHolds, PTL DEF Spec, ChargedForMeteredWork

-----------------------------------------------------------------------------
(* No unit is lost.  Between ReleaseMark and ReleaseFree a unit belongs to *)
(* no booking and is not free yet: it is with a worker at b_free, and two  *)
(* such workers may hold one unit, which is why the sum is a bound.  The   *)
(* worker set need not be finite: the workers at b_free are, because each  *)
(* step adds one.                                                          *)

Reservations == {b \in 1 .. Slots : booking[b] = "stripe_reserved"}
Freeing == {w \in Workers : pc[w] = "b_free"}
Compensating == {"r_free", "r_drop"}

UnitInv ==
  /\ IsFiniteSet(Freeing)
  /\ Unhurt => /\ \A w \in Workers : pc[w] \notin Compensating
               /\ free + others + Held + Cardinality(Freeing) >= Units

(* A step that gives no unit away and takes none, and leaves b_free and    *)
(* the compensation of reserve_gpu() to others.                            *)
NodeKept == UNCHANGED <<free, others, booking>> /\ (Unhurt' => Unhurt)
Quiet(w) == /\ NodeKept /\ pc[w] # "b_free" /\ pc'[w] \notin Compensating
            /\ \A v \in Workers \ {w} : pc'[v] = pc[v]

LEMMA UnitTypes ==
  ASSUME TypeOK, IsFiniteSet(Freeing)
  PROVE  /\ IsFiniteSet(Reservations) /\ Held = Cardinality(Reservations) /\ Held \in Nat
         /\ Cardinality(Freeing) \in Nat /\ free \in Nat /\ others \in Nat /\ Units \in Nat
<1>1. Slots \in Nat /\ Units \in Nat
  BY CountAssumption
<1>2. IsFiniteSet(Reservations)
  BY <1>1, FS_Interval, FS_Subset DEF Reservations
<1>3. Held = Cardinality(Reservations)
  BY DEF Held, Reservations
<1> QED BY <1>1, <1>2, <1>3, FS_CardinalityType DEF TypeOK

(* The workers at b_free, when one worker moves. *)
LEMMA FreeingMoves ==
  ASSUME TypeOK, IsFiniteSet(Freeing), NEW w \in Workers,
         \A v \in Workers \ {w} : pc'[v] = pc[v]
  PROVE  /\ IsFiniteSet(Freeing') /\ Cardinality(Freeing') \in Nat /\ Cardinality(Freeing) \in Nat
         /\ Cardinality(Freeing') + (IF pc[w] = "b_free" THEN 1 ELSE 0)
              = Cardinality(Freeing) + (IF pc'[w] = "b_free" THEN 1 ELSE 0)
<1>1. CASE pc[w] = "b_free" /\ pc'[w] # "b_free"
  <2>1. Freeing' = Freeing \ {w} /\ w \in Freeing
    BY <1>1 DEF Freeing
  <2>2. IsFiniteSet(Freeing') /\ Cardinality(Freeing') = Cardinality(Freeing) - 1
    BY <2>1, FS_RemoveElement
  <2>3. Cardinality(Freeing') \in Nat /\ Cardinality(Freeing) \in Nat
    BY <2>2, FS_CardinalityType
  <2> QED BY <1>1, <2>2, <2>3
<1>2. CASE pc[w] # "b_free" /\ pc'[w] = "b_free"
  <2>1. Freeing' = Freeing \cup {w} /\ w \notin Freeing
    BY <1>2 DEF Freeing
  <2> QED BY <1>2, <2>1, FS_AddElement, FS_CardinalityType
<1>3. CASE (pc[w] = "b_free") <=> (pc'[w] = "b_free")
  <2>1. Freeing' = Freeing
    BY <1>3 DEF Freeing
  <2> QED BY <1>3, <2>1, FS_CardinalityType
<1> QED BY <1>1, <1>2, <1>3

LEMMA QuietKeeps == ASSUME TypeOK, UnitInv, NEW w \in Workers, Quiet(w) PROVE UnitInv'
<1>1. Held' = Held /\ free' = free /\ others' = others /\ (Unhurt' => Unhurt)
  BY DEF Quiet, NodeKept, Held
<1>2. /\ IsFiniteSet(Freeing') /\ Cardinality(Freeing') \in Nat /\ Cardinality(Freeing) \in Nat
      /\ Cardinality(Freeing') >= Cardinality(Freeing)
  BY FreeingMoves DEF UnitInv, Quiet
<1>3. Unhurt' => \A v \in Workers : pc'[v] \notin Compensating
  BY <1>1 DEF UnitInv, Quiet
<1>4. Held \in Nat /\ free \in Nat /\ others \in Nat /\ Units \in Nat
  BY UnitTypes DEF UnitInv
<1> QED BY <1>1, <1>2, <1>3, <1>4 DEF UnitInv

(* The steps of reserve_gpu() that book, and of the compensation: a        *)
(* booking takes the unit it counts for, and the compensation runs after a *)
(* database error only.                                                    *)
LEMMA ReserveBookKeepsUnits ==
  ASSUME TxInv, UnitInv, NEW w \in Workers, ReserveBook(w) PROVE UnitInv'
<1>1. PICK b \in FreeSlot(booking) :
        /\ booking' = [booking EXCEPT ![b] = "stripe_reserved"]
        /\ GotoWith(w, "r_book", "r_link", [loc[w] EXCEPT !.n = b])
  BY DEF ReserveBook
<1>2. TypeOK /\ free' = free - 1 /\ others' = others /\ Unhurt' = Unhurt
  BY DEF TxInv, ReserveBook, Unhurt
<1>3. /\ pc[w] = "r_book" /\ pc'[w] = "r_link" /\ \A v \in Workers \ {w} : pc'[v] = pc[v]
  BY <1>1, <1>2 DEF GotoWith, TypeOK
<1>4. b \in 1 .. Slots /\ booking[b] = "none"
  BY <1>1 DEF FreeSlot
<1>5. Reservations' = Reservations \cup {b} /\ b \notin Reservations
  BY <1>1, <1>2, <1>4 DEF Reservations, TypeOK
<1>6. Held' = Cardinality(Reservations')
  BY DEF Held, Reservations
<1>7. Held' = Held + 1
  BY <1>2, <1>5, <1>6, UnitTypes, FS_AddElement DEF UnitInv
<1>8. IsFiniteSet(Freeing') /\ Cardinality(Freeing') = Cardinality(Freeing)
  BY <1>2, <1>3, FreeingMoves DEF UnitInv
<1>9. Unhurt' => \A v \in Workers : pc'[v] \notin Compensating
  BY <1>2, <1>3 DEF UnitInv, Compensating
<1> QED BY <1>2, <1>7, <1>8, <1>9, UnitTypes DEF UnitInv

LEMMA HurtKeepsUnits ==
  ASSUME TxInv, UnitInv, NEW w \in Workers,
         ~Unhurt', \A v \in Workers \ {w} : pc'[v] = pc[v]
  PROVE  UnitInv'
BY FreeingMoves DEF TxInv, UnitInv

LEMMA ReserveCompensateKeepsUnits ==
  ASSUME TxInv, UnitInv, NEW w \in Workers, ReserveCompensate(w) \/ ReserveDrop(w) PROVE UnitInv'
<1>1. pc[w] \in Compensating /\ count' = count
  BY DEF ReserveCompensate, ReserveDrop, Goto, GotoWith, Compensating
<1>2. ~Unhurt'
  BY <1>1 DEF UnitInv, Unhurt
<1>3. \A v \in Workers \ {w} : pc'[v] = pc[v]
  BY DEF TxInv, TypeOK, ReserveCompensate, ReserveDrop, Goto, GotoWith
<1> QED BY <1>2, <1>3, HurtKeepsUnits

LEMMA ErrorKeepsUnits ==
  ASSUME TxInv, UnitInv, NEW w \in Workers, ReserveError(w) \/ DispatchError(w) \/ Crash(w)
  PROVE  UnitInv'
<1>1. \A v \in Workers \ {w} : pc'[v] = pc[v]
  BY DEF TxInv, TypeOK, ReserveError, DispatchError, Crash, Goto, GotoWith
<1>2. count \in Counts
  BY DEF TxInv, TypeOK
<1>3. ~Unhurt'
  BY <1>2 DEF ReserveError, DispatchError, Crash, DBError, Counts, Unhurt
<1> QED BY <1>1, <1>3, HurtKeepsUnits

(* The steps of _release_reservation(): marking the booking passes its     *)
(* unit to the worker, and freeing passes it to the node, up to its total. *)
LEMMA ReleaseMarkKeepsUnits ==
  ASSUME TxInv, UnitInv, NEW w \in Workers, ReleaseMark(w) PROVE UnitInv'
<1>1. /\ TypeOK /\ free' = free /\ others' = others /\ Unhurt' = Unhurt
      /\ booking' = [booking EXCEPT ![Seen(w).booking] = "released_unused"]
  BY DEF TxInv, ReleaseMark, node, Unhurt
<1>2. pc[w] = "b_mark" /\ pc'[w] = "b_free" /\ \A v \in Workers \ {w} : pc'[v] = pc[v]
  BY <1>1 DEF ReleaseMark, Goto, GotoWith, TypeOK
<1>3. Reservations' = Reservations \ {Seen(w).booking}
  BY <1>1 DEF Reservations, TypeOK
<1>4. Held' = Cardinality(Reservations')
  BY DEF Held, Reservations
<1>5. Held' \in {Held, Held - 1}
  BY <1>1, <1>3, <1>4, UnitTypes, FS_RemoveElement DEF UnitInv
<1>6. IsFiniteSet(Freeing') /\ Cardinality(Freeing') = Cardinality(Freeing) + 1
  <2>1. /\ IsFiniteSet(Freeing') /\ Cardinality(Freeing') \in Nat /\ Cardinality(Freeing) \in Nat
        /\ Cardinality(Freeing') + 0 = Cardinality(Freeing) + 1
    BY <1>1, <1>2, FreeingMoves DEF UnitInv
  <2> QED BY <2>1
<1>7. Unhurt' => \A v \in Workers : pc'[v] \notin Compensating
  BY <1>1, <1>2 DEF UnitInv, Compensating
<1> QED BY <1>1, <1>5, <1>6, <1>7, UnitTypes DEF UnitInv

LEMMA ReleaseFreeKeepsUnits ==
  ASSUME TxInv, UnitInv, NEW w \in Workers, ReleaseFree(w) PROVE UnitInv'
<1>1. /\ TypeOK /\ free' = Releasable(free) /\ others' = others /\ booking' = booking
      /\ Unhurt' = Unhurt
  BY DEF TxInv, ReleaseFree, Unhurt
<1>2. /\ pc[w] = "b_free" /\ pc'[w] = loc[w].go /\ \A v \in Workers \ {w} : pc'[v] = pc[v]
  BY <1>1 DEF ReleaseFree, Goto, GotoWith, TypeOK
<1>3. pc'[w] \in {"x_move", "f_end", "k_path"}
  BY <1>2 DEF TxInv, ReturnOK
<1>4. /\ IsFiniteSet(Freeing') /\ Cardinality(Freeing') \in Nat /\ Cardinality(Freeing) \in Nat
      /\ Cardinality(Freeing') + 1 = Cardinality(Freeing)
  <2>1. /\ IsFiniteSet(Freeing') /\ Cardinality(Freeing') \in Nat /\ Cardinality(Freeing) \in Nat
        /\ Cardinality(Freeing') + 1 = Cardinality(Freeing) + 0
    BY <1>1, <1>2, <1>3, FreeingMoves DEF UnitInv
  <2> QED BY <2>1
<1>5. Held' = Held
  BY <1>1 DEF Held
<1>6. Unhurt' => \A v \in Workers : pc'[v] \notin Compensating
  BY <1>1, <1>2, <1>3 DEF UnitInv, Compensating
<1>7. CASE free < Units
  <2>1. free' = free + 1
    BY <1>1, <1>7 DEF Releasable
  <2> QED BY <1>1, <1>4, <1>5, <1>6, <2>1, UnitTypes DEF UnitInv
<1>8. CASE ~(free < Units)
  <2>1. free' >= Units
    BY <1>1, <1>8, UnitTypes DEF UnitInv, Releasable
  <2>2. free' \in Nat /\ others' \in Nat /\ Held' \in Nat
    BY <1>1, <1>5, <1>8, UnitTypes DEF UnitInv, Releasable
  <2>3. free' + others' + Held' + Cardinality(Freeing') >= Units
    BY <1>1, <1>4, <2>1, <2>2, UnitTypes DEF UnitInv
  <2> QED BY <1>4, <1>6, <2>3 DEF UnitInv
<1> QED BY <1>7, <1>8

(* The other buyers and the node. *)
LEMMA EnvironmentKeepsUnits == ASSUME TxInv, UnitInv, Environment PROVE UnitInv'
<1> USE DEF TxInv
<1>1. pc' = pc /\ booking' = booking /\ (Unhurt' = Unhurt)
  <2>1. count \in Counts
    BY DEF TypeOK
  <2> QED BY <2>1 DEF Environment, CardConfirmed, CardDeclined, AuthorizationExpires, OthersTake,
       OthersLeave, NodeDown, NodeUp, RetryTask, Unhurt, Counts
<1>2. Held' = Held /\ Freeing' = Freeing
  BY <1>1 DEF Held, Freeing
<1>3. \/ free' = free /\ others' = others
      \/ free' = free - 1 /\ others' = others + 1
      \/ others > 0 /\ others' = others - 1 /\ free' = Releasable(free)
  BY DEF Environment, CardConfirmed, CardDeclined, AuthorizationExpires, OthersTake, OthersLeave,
         NodeDown, NodeUp, RetryTask, node
<1>4. /\ Held \in Nat /\ Cardinality(Freeing) \in Nat /\ free \in Nat /\ others \in Nat
      /\ Units \in Nat
  BY UnitTypes DEF UnitInv
<1>5. free' + others' + Held + Cardinality(Freeing) >= free + others + Held + Cardinality(Freeing)
      \/ free' + others' + Held + Cardinality(Freeing) >= Units
  BY <1>3, <1>4 DEF Releasable
<1>6. free' \in Int /\ others' \in Int
  BY <1>3, <1>4 DEF Releasable
<1> QED BY <1>1, <1>2, <1>4, <1>5, <1>6 DEF UnitInv

(* The quiet steps.  A step moves one worker from a label other than       *)
(* b_free to one outside the compensation, and leaves the node alone.      *)
Leaves(w, from, to) ==
  /\ from # "b_free" /\ to \notin Compensating /\ pc[w] = from
  /\ pc' = [pc EXCEPT ![w] = to] /\ NodeKept

LEMMA LeavesQuiet ==
  ASSUME TxInv, NEW w \in Workers, NEW from, NEW to, Leaves(w, from, to) PROVE Quiet(w)
BY DEF TxInv, TypeOK, Leaves, Quiet

LEMMA MovesQuiet ==
  ASSUME TxInv, NEW w \in Workers, NEW from, NEW to, NEW l, GotoWith(w, from, to, l),
         from # "b_free", to \notin Compensating, NodeKept
  PROVE  Quiet(w)
BY LeavesQuiet DEF GotoWith, Leaves

LEMMA GotoQuiet ==
  ASSUME TxInv, NEW w \in Workers, NEW from, NEW to, Goto(w, from, to),
         from # "b_free", to \notin Compensating, NodeKept
  PROVE  Quiet(w)
BY MovesQuiet DEF Goto

LEMMA DoneQuiet ==
  ASSUME TxInv, NEW w \in Workers, NEW from, Done(w, from), from # "b_free", NodeKept
  PROVE  Quiet(w)
BY MovesQuiet DEF Done, Compensating

LEMMA TransitionQuiet ==
  ASSUME TxInv, NEW w \in Workers, NEW from, NEW s, NEW to, NEW raise,
         Transition(w, from, s, to, raise), from # "b_free",
         to \notin Compensating, raise \notin Compensating, NodeKept
  PROVE  Quiet(w)
BY MovesQuiet, GotoQuiet, DoneQuiet DEF Transition

LEMMA StillKept == (UNCHANGED <<free, others, booking, count>>) => NodeKept
BY DEF NodeKept, Unhurt

LEMMA EnteringQuiet ==
  ASSUME TxInv, NEW w \in Workers,
         \/ Retake(w) \/ Reload(w) \/ AuthorizeCall(w) \/ AuthorizeFail(w) \/ AuthorizeSave(w)
         \/ AuthorizeMove(w) \/ HandleCapturable(w) \/ HandleFailed(w) \/ HandleCanceled(w)
         \/ EventDone(w) \/ MarkCheck(w) \/ MarkMove(w)
  PROVE  Quiet(w)
<1> USE StillKept DEF node, Compensating
<1>1. ReturnOK(w)
  BY DEF TxInv
<1>2. CASE Retake(w)
  BY <1>2, GotoQuiet DEF Retake
<1>3. CASE Reload(w)
  <2>1. loc[w].go \notin Compensating
    BY <1>1, <1>3 DEF Reload, GotoWith, ReturnOK, Claiming
  <2> QED BY <1>3, <2>1, MovesQuiet DEF Reload
<1>4. CASE AuthorizeCall(w)
  BY <1>4, GotoQuiet, DoneQuiet DEF AuthorizeCall
<1>5. CASE AuthorizeFail(w) \/ AuthorizeMove(w)
  BY <1>5, TransitionQuiet DEF AuthorizeFail, AuthorizeMove
<1>6. CASE AuthorizeSave(w)
  BY <1>6, MovesQuiet DEF AuthorizeSave, Write
<1>7. CASE HandleCapturable(w)
  BY <1>7, GotoQuiet DEF HandleCapturable
<1>8. CASE HandleFailed(w) \/ HandleCanceled(w)
  BY <1>8, GotoQuiet, TransitionQuiet DEF HandleFailed, HandleCanceled
<1>9. CASE EventDone(w)
  BY <1>9, DoneQuiet DEF EventDone
<1>10. CASE MarkCheck(w)
  <2>1. loc[w].go \notin Compensating
    BY <1>1, <1>10 DEF MarkCheck, ReturnOK
  <2> QED BY <1>10, <2>1, GotoQuiet, DoneQuiet DEF MarkCheck
<1>11. CASE MarkMove(w)
  <2>1. pc[w] = "m_move"
    BY <1>11 DEF MarkMove, Transition
  <2>2. loc[w].go \notin Compensating
    BY <1>1, <2>1 DEF ReturnOK
  <2> QED BY <1>11, <2>2, TransitionQuiet DEF MarkMove
<1> QED BY <1>2, <1>3, <1>4, <1>5, <1>6, <1>7, <1>8, <1>9, <1>10, <1>11

LEMMA ReservingQuiet ==
  ASSUME TxInv, NEW w \in Workers,
         \/ ReserveOffline(w) \/ ReserveClaim(w) \/ ReserveFull(w) \/ ReserveFullOp(w)
         \/ ReserveLink(w) \/ ReserveUndo(w) \/ ReserveFinish(w) \/ ReserveMove(w)
  PROVE  Quiet(w)
<1> USE StillKept DEF node, Compensating
<1>1. CASE ReserveOffline(w) \/ ReserveMove(w)
  BY <1>1, TransitionQuiet DEF ReserveOffline, ReserveMove
<1>2. CASE ReserveClaim(w)
  BY <1>2, MovesQuiet, GotoQuiet, DoneQuiet DEF ReserveClaim, Begin
<1>3. CASE ReserveFull(w) \/ ReserveFullOp(w) \/ ReserveFinish(w)
  BY <1>3, GotoQuiet DEF ReserveFull, ReserveFullOp, ReserveFinish, FinishOp
<1>4. CASE ReserveLink(w)
  BY <1>4, MovesQuiet DEF ReserveLink, Write
<1>5. CASE ReserveUndo(w)
  BY <1>5, DoneQuiet DEF ReserveUndo
<1> QED BY <1>1, <1>2, <1>3, <1>4, <1>5

LEMMA DispatchingQuiet ==
  ASSUME TxInv, NEW w \in Workers,
         \/ DispatchCheck(w) \/ DispatchClaim(w) \/ DispatchTask(w) \/ DispatchLink(w)
         \/ DispatchUndo(w) \/ DispatchDrop(w) \/ DispatchFinish(w) \/ DispatchMove(w)
         \/ DispatchRun(w)
  PROVE  Quiet(w)
<1> USE StillKept DEF node, Compensating
<1>1. CASE DispatchCheck(w)
  BY <1>1, GotoQuiet, DoneQuiet DEF DispatchCheck
<1>2. CASE DispatchClaim(w)
  BY <1>2, MovesQuiet, GotoQuiet, DoneQuiet DEF DispatchClaim, Begin
<1>3. CASE DispatchTask(w)
  <2>1. PICK t \in FreeSlot(task) : GotoWith(w, "d_task", "d_link", [loc[w] EXCEPT !.n = t])
    BY <1>3 DEF DispatchTask
  <2>2. NodeKept
    BY <1>3 DEF DispatchTask
  <2> QED BY <2>1, <2>2, MovesQuiet
<1>4. CASE DispatchLink(w)
  BY <1>4, MovesQuiet DEF DispatchLink, Write
<1>5. CASE DispatchUndo(w) \/ DispatchFinish(w)
  BY <1>5, GotoQuiet DEF DispatchUndo, DispatchFinish, FinishOp
<1>6. CASE DispatchDrop(w)
  BY <1>6, DoneQuiet DEF DispatchDrop
<1>7. CASE DispatchMove(w) \/ DispatchRun(w)
  BY <1>7, TransitionQuiet DEF DispatchMove, DispatchRun
<1> QED BY <1>1, <1>2, <1>3, <1>4, <1>5, <1>6, <1>7

LEMMA SettlingQuiet ==
  ASSUME TxInv, NEW w \in Workers,
         \/ SettleFind(w) \/ SettleAfterResult(w) \/ RecordMetering(w) \/ MeteringMove(w)
         \/ FailFind(w) \/ FailJob(w)
  PROVE  Quiet(w)
<1> USE StillKept DEF node, Compensating
<1>1. CASE SettleFind(w)
  <2>1. NodeKept
    BY <1>1 DEF SettleFind
  <2>2. \/ Done(w, "s_find")
        \/ \E to \in {"s_settle", "j_fail"} :
              GotoWith(w, "s_find", to, [NoLocals EXCEPT !.row = tx])
    BY <1>1, SetAssumption DEF SettleFind
  <2> QED BY <2>1, <2>2, MovesQuiet, DoneQuiet
<1>2. CASE FailFind(w)
  BY <1>2, MovesQuiet, DoneQuiet DEF FailFind
<1>3. CASE SettleAfterResult(w)
  BY <1>3, GotoQuiet, DoneQuiet DEF SettleAfterResult
<1>4. CASE RecordMetering(w)
  BY <1>4, MovesQuiet DEF RecordMetering, Write
<1>5. CASE MeteringMove(w)
  BY <1>5, TransitionQuiet DEF MeteringMove
<1>6. CASE FailJob(w)
  BY <1>6, GotoQuiet, DoneQuiet, TransitionQuiet DEF FailJob
<1> QED BY <1>1, <1>2, <1>3, <1>4, <1>5, <1>6

LEMMA CapturingQuiet ==
  ASSUME TxInv, NEW w \in Workers,
         \/ CaptureStart(w) \/ CaptureClaim(w) \/ CapturePending(w) \/ CaptureCall(w)
         \/ CaptureFail(w) \/ CaptureFailed(w) \/ CaptureSave(w) \/ CaptureFinish(w)
         \/ CaptureSettle(w) \/ CapturePost(w) \/ CaptureOwe(w)
  PROVE  Quiet(w)
<1> USE StillKept DEF node, Compensating
<1>1. CASE CaptureStart(w)
  BY <1>1, MovesQuiet, GotoQuiet DEF CaptureStart
<1>2. CASE CaptureClaim(w)
  BY <1>2, MovesQuiet, GotoQuiet, DoneQuiet DEF CaptureClaim, Begin
<1>3. CASE CapturePending(w) \/ CaptureFailed(w) \/ CapturePost(w)
  BY <1>3, TransitionQuiet DEF CapturePending, CaptureFailed, CapturePost
<1>4. CASE CaptureCall(w)
  BY <1>4, GotoQuiet, DoneQuiet DEF CaptureCall
<1>5. CASE CaptureFail(w) \/ CaptureFinish(w)
  BY <1>5, GotoQuiet DEF CaptureFail, CaptureFinish, FinishOp
<1>6. CASE CaptureSave(w)
  BY <1>6, MovesQuiet DEF CaptureSave, Write
<1>7. CASE CaptureSettle(w) \/ CaptureOwe(w)
  BY <1>7, GotoQuiet, DoneQuiet DEF CaptureSettle, CaptureOwe
<1> QED BY <1>1, <1>2, <1>3, <1>4, <1>5, <1>6, <1>7

LEMMA ReleasingQuiet ==
  ASSUME TxInv, NEW w \in Workers,
         \/ CancelClaim(w) \/ CancelCall(w) \/ CancelFinish(w) \/ CancelMove(w)
         \/ CancelRefund(w) \/ ReleaseRead(w) \/ ReleaseFailed(w) \/ ReleaseEnd(w)
  PROVE  Quiet(w)
<1> USE StillKept DEF node, Compensating
<1>1. CASE CancelClaim(w)
  BY <1>1, MovesQuiet, GotoQuiet, DoneQuiet DEF CancelClaim, Begin
<1>2. CASE CancelCall(w)
  BY <1>2, GotoQuiet, DoneQuiet DEF CancelCall
<1>3. CASE CancelFinish(w)
  BY <1>3, MovesQuiet DEF CancelFinish
<1>4. CASE CancelMove(w) \/ CancelRefund(w)
  BY <1>4, TransitionQuiet DEF CancelMove, CancelRefund
<1>5. CASE ReleaseRead(w)
  <2>1. loc[w].go \notin Compensating
    BY <1>5 DEF TxInv, ReturnOK, ReleaseRead
  <2> QED BY <1>5, <2>1, GotoQuiet DEF ReleaseRead
<1>6. CASE ReleaseFailed(w)
  BY <1>6, MovesQuiet DEF ReleaseFailed
<1>7. CASE ReleaseEnd(w)
  BY <1>7, DoneQuiet DEF ReleaseEnd
<1> QED BY <1>1, <1>2, <1>3, <1>4, <1>5, <1>6, <1>7

LEMMA ProceedKeepsUnits == ASSUME TxInv, UnitInv, NEW w \in Workers, Proceed(w) PROVE UnitInv'
<1>1. CASE Quiet(w)
  BY <1>1, QuietKeeps DEF TxInv
<1>2. CASE \/ ReserveBook(w) \/ ReserveError(w) \/ ReserveCompensate(w) \/ ReserveDrop(w)
           \/ DispatchError(w) \/ ReleaseMark(w) \/ ReleaseFree(w)
  BY <1>2, ReserveBookKeepsUnits, ErrorKeepsUnits, ReserveCompensateKeepsUnits,
     ReleaseMarkKeepsUnits, ReleaseFreeKeepsUnits
<1> QED BY <1>1, <1>2, EnteringQuiet, ReservingQuiet, DispatchingQuiet, SettlingQuiet,
           CapturingQuiet, ReleasingQuiet
        DEF Proceed

(* the first step of a request, of a webhook, of a result, and of a sweep *)
LEMMA StartQuiet ==
  ASSUME TxInv, NEW w \in Workers,
         \/ Requested(w)
         \/ \E e \in Events : Deliver(w, e)
         \/ \E t \in 1 .. Slots : Result(w, t)
  PROVE  Quiet(w)
<1> USE StillKept DEF node, Compensating
<1>1. CASE Authorize(w)
  BY <1>1, MovesQuiet DEF Authorize
<1>2. CASE \/ Confirm(w) \/ Reserve(w) \/ Dispatch(w) \/ AdminMeter(w) \/ AdminCapture(w)
           \/ Cancel(w)
  BY <1>2, MovesQuiet DEF Confirm, Reserve, Dispatch, AdminMeter, AdminCapture, Cancel, Start
<1>3. CASE \E e \in Events : Deliver(w, e)
  <2>1. NodeKept
    BY <1>3 DEF Deliver
  <2>2. PICK e \in Events : GotoWith(w, "idle", "h_event",
                                    [NoLocals EXCEPT !.row = tx, !.event = e, !.go = "h_done"])
    BY <1>3 DEF Deliver
  <2> QED BY <2>1, <2>2, MovesQuiet
<1>4. CASE \E t \in 1 .. Slots : Result(w, t)
  <2>1. NodeKept
    BY <1>4 DEF Result
  <2>2. PICK t \in 1 .. Slots, to \in {"s_find", "j_find"} :
          GotoWith(w, "idle", to, [NoLocals EXCEPT !.n = t])
    BY <1>4 DEF Result
  <2> QED BY <2>1, <2>2, MovesQuiet
<1> QED BY <1>1, <1>2, <1>3, <1>4 DEF Requested

LEMMA ReclaimQuiet == ASSUME TxInv, Reclaim \/ ReclaimProceed PROVE Quiet(Reaper)
<1> USE StillKept DEF node, Compensating
<1>1. Reaper \in Workers
  BY DEF Workers
<1>2. CASE Reclaim
  BY <1>1, <1>2, MovesQuiet DEF Reclaim, ReclaimFailed, ReclaimStuck
<1>3. CASE ReclaimVoid
  BY <1>1, <1>3, GotoQuiet DEF ReclaimVoid
<1>4. CASE ReclaimPath \/ ReclaimLast
  BY <1>1, <1>4, TransitionQuiet DEF ReclaimPath, ReclaimLast
<1> QED BY <1>2, <1>3, <1>4 DEF ReclaimProceed

LEMMA NextKeepsUnits == ASSUME TxInv, UnitInv, [Next]_vars PROVE UnitInv'
<1>1. TypeOK
  BY DEF TxInv
<1>2. CASE \E w \in Workers : Proceed(w) \/ Crash(w)
  BY <1>2, ProceedKeepsUnits, ErrorKeepsUnits
<1>3. ASSUME NEW w \in Requests,
             \/ Requested(w)
             \/ \E e \in Events : Deliver(w, e)
             \/ \E t \in 1 .. Slots : Result(w, t)
      PROVE  UnitInv'
  BY <1>1, <1>3, StartQuiet, QuietKeeps DEF Workers
<1>4. CASE Reclaim \/ ReclaimProceed
  BY <1>1, <1>4, ReclaimQuiet, QuietKeeps DEF Workers
<1>5. CASE Environment
  BY <1>5, EnvironmentKeepsUnits
<1>6. CASE UNCHANGED vars
  BY <1>6 DEF vars, UnitInv, Unhurt, Held, Freeing
<1> QED BY <1>2, <1>3, <1>4, <1>5, <1>6 DEF Next

LEMMA InitUnits == Init => UnitInv
<1> SUFFICES ASSUME Init PROVE UnitInv
  OBVIOUS
<1>1. Freeing = {} /\ \A w \in Workers : pc[w] \notin Compensating
  BY DEF Init, Freeing, Compensating
<1>2. Reservations = {}
  BY DEF Init, Reservations
<1>3. Held = 0
  BY <1>2, FS_EmptySet DEF Held, Reservations
<1> QED BY <1>1, <1>3, FS_EmptySet, CountAssumption DEF Init, UnitInv

(* Between requests every unit of the node is free, with another buyer or  *)
(* with a reservation, unless a worker died or the database failed: no     *)
(* interleaving of reserve, cancel, fail and reclaim loses one             *)
(* (_release_reservation(), release_unit()).                               *)
THEOREM NoUnitLostHolds == Spec => []NoUnitLost
<1>1. TxInv /\ UnitInv => NoUnitLost
  <2> SUFFICES ASSUME TxInv, UnitInv, AtRest, Unhurt PROVE free + others + Held >= Units
    BY DEF NoUnitLost
  <2>1. Freeing = {}
    BY DEF AtRest, Freeing
  <2>2. Cardinality(Freeing) = 0
    BY <2>1, FS_EmptySet
  <2> QED BY <2>2, UnitTypes DEF TxInv, UnitInv
<1>2. Spec => []UnitInv
  BY InitUnits, NextKeepsUnits, TxInvHolds, PTL DEF Spec
<1> QED BY <1>1, <1>2, TxInvHolds, PTL

-----------------------------------------------------------------------------
(* A charge leaves a trace, with one request at a time: a worker on its    *)
(* way to capture with the first key has that operation pending, and none  *)
(* is on its way once the provider has the money.  With two workers both   *)
(* may retake the failed operation, and the refusal of one marks failed    *)
(* what the other captures.                                                *)

OneRequest == \A v, w \in Requests : v = w

Sending(w) == \/ pc[w] \in {"c_pend", "c_call", "c_fail"}
              \/ Claiming(w) /\ loc[w].go = "c_pend"
SendingOK(w) ==
  Sending(w) /\ loc[w].key = "capture1" =>
    /\ pi # "succeeded"
    /\ pc[w] # "retake" => op["capture1"] = "pending"

(* where the maintenance loop may be: it never captures *)
Sweeping == {"idle", "k_call", "k_path", "k_last", "b_read", "b_mark", "b_free", "f_end",
             "x_move", "x_refund", "x_refunded"}

TraceInv ==
  /\ pi = "succeeded" => op["capture1"] \in {"pending", "succeeded"}
  /\ \A w \in Workers : SendingOK(w)
  /\ pc[Reaper] \in Sweeping

(* A step by which nobody sets out to capture keeps the trace. *)
Aside(w) == /\ StepOf(w) /\ ~Sending(w)' /\ op'["capture1"] = op["capture1"]
            /\ pi' = "succeeded" => pi = "succeeded"

LEMMA AsideKeeps ==
  ASSUME TraceInv, NEW w \in Workers, Aside(w), pc'[Reaper] \in Sweeping PROVE TraceInv'
<1>1. ASSUME NEW v \in Workers PROVE SendingOK(v)'
  BY <1>1 DEF TraceInv, SendingOK, Sending, Claiming, Aside, StepOf
<1> QED BY <1>1 DEF TraceInv, Aside

(* Who moves the maintenance loop, and where to. *)
LEMMA OthersSweep ==
  ASSUME TraceInv, NEW w \in Workers, StepOf(w), w # Reaper PROVE pc'[Reaper] \in Sweeping
BY DEF TraceInv, StepOf, Workers

(* The steps of Proceed that set out to capture, or change its operation. *)
CaptureStep(w) == \/ Retake(w) \/ Reload(w) \/ CaptureClaim(w) \/ CapturePending(w)
                  \/ CaptureCall(w) \/ CaptureFail(w) \/ CaptureFinish(w)

LEMMA OpKept ==
  ASSUME TypeOK, NEW w \in Workers, Proceed(w), ~CaptureStep(w)
  PROVE  op'["capture1"] = op["capture1"]
<1> DEFINE Other == \E k \in {"reserve", "dispatch", "cancel"},
                       s \in {"pending", "failed", "succeeded"} : op' = [op EXCEPT ![k] = s]
<1>0. op' = op \/ Other => op'["capture1"] = op["capture1"]
  BY DEF TypeOK, Keys
<1>2. CASE \/ AuthorizeCall(w) \/ AuthorizeFail(w) \/ AuthorizeSave(w) \/ AuthorizeMove(w)
           \/ HandleCapturable(w) \/ HandleFailed(w) \/ HandleCanceled(w) \/ EventDone(w)
           \/ MarkCheck(w) \/ MarkMove(w)
  BY <1>2 DEF AuthorizeCall, AuthorizeFail, AuthorizeSave, AuthorizeMove, HandleCapturable,
              HandleFailed, HandleCanceled, EventDone, MarkCheck, MarkMove
<1>3. CASE ReserveClaim(w) \/ DispatchClaim(w) \/ CancelClaim(w)
  <2>1. op' = op \/ Other
    BY <1>3 DEF ReserveClaim, DispatchClaim, CancelClaim, Begin
  <2> QED BY <1>0, <2>1
<1>4. CASE \/ ReserveOffline(w) \/ ReserveBook(w) \/ ReserveFull(w) \/ ReserveFullOp(w)
           \/ ReserveLink(w) \/ ReserveError(w) \/ ReserveCompensate(w) \/ ReserveDrop(w)
           \/ ReserveUndo(w) \/ ReserveFinish(w) \/ ReserveMove(w)
  <2>1. op' = op \/ Other
    BY <1>4 DEF ReserveOffline, ReserveBook, ReserveFull, ReserveFullOp, ReserveLink, ReserveError,
                ReserveCompensate, ReserveDrop, ReserveUndo, ReserveFinish, ReserveMove, FinishOp
  <2> QED BY <1>0, <2>1
<1>5. CASE \/ DispatchCheck(w) \/ DispatchTask(w) \/ DispatchLink(w) \/ DispatchError(w)
           \/ DispatchUndo(w) \/ DispatchDrop(w) \/ DispatchFinish(w) \/ DispatchMove(w)
           \/ DispatchRun(w)
  <2>1. op' = op \/ Other
    BY <1>5 DEF DispatchCheck, DispatchTask, DispatchLink, DispatchError, DispatchUndo,
                DispatchDrop, DispatchFinish, DispatchMove, DispatchRun, FinishOp
  <2> QED BY <1>0, <2>1
<1>6. CASE \/ SettleFind(w) \/ SettleAfterResult(w) \/ RecordMetering(w) \/ MeteringMove(w)
           \/ CaptureStart(w) \/ CaptureFailed(w) \/ CaptureSave(w) \/ CaptureSettle(w)
           \/ CapturePost(w) \/ CaptureOwe(w)
  BY <1>6 DEF SettleFind, SettleAfterResult, RecordMetering, MeteringMove, CaptureStart,
              CaptureFailed, CaptureSave, CaptureSettle, CapturePost, CaptureOwe
<1>7. CASE \/ CancelCall(w) \/ CancelFinish(w) \/ CancelMove(w) \/ CancelRefund(w)
           \/ ReleaseRead(w) \/ ReleaseMark(w) \/ ReleaseFree(w) \/ ReleaseFailed(w)
           \/ ReleaseEnd(w) \/ FailFind(w) \/ FailJob(w)
  <2>1. op' = op \/ Other
    BY <1>7 DEF CancelCall, CancelFinish, CancelMove, CancelRefund, ReleaseRead, ReleaseMark,
                ReleaseFree, ReleaseFailed, ReleaseEnd, FailFind, FailJob
  <2> QED BY <1>0, <2>1
<1> QED BY <1>0, <1>2, <1>3, <1>4, <1>5, <1>6, <1>7 DEF Proceed, CaptureStep

(* A move to a label that is not on the way to the capture. *)
LEMMA MoveAside ==
  ASSUME TypeOK, TypeOK', NEW w \in Workers, NEW from, NEW to, NEW l, GotoWith(w, from, to, l),
         to \notin {"c_pend", "c_call", "c_fail"},
         to \in {"retake", "reload"} => l.go # "c_pend"
  PROVE  StepOf(w) /\ ~Sending(w)' /\ pc[w] = from /\ pc'[w] = to
BY DEF TypeOK, GotoWith, StepOf, Sending, Claiming

LEMMA GotoAside ==
  ASSUME TypeOK, TypeOK', NEW w \in Workers, NEW from, NEW to, Goto(w, from, to),
         to \notin {"c_pend", "c_call", "c_fail", "retake", "reload"}
  PROVE  StepOf(w) /\ ~Sending(w)' /\ pc[w] = from /\ pc'[w] = to
BY MoveAside DEF Goto

LEMMA DoneAside ==
  ASSUME TypeOK, TypeOK', NEW w \in Workers, NEW from, Done(w, from)
  PROVE  StepOf(w) /\ ~Sending(w)' /\ pc[w] = from /\ pc'[w] = "idle"
BY MoveAside DEF Done

LEMMA TransitionAside ==
  ASSUME TypeOK, TypeOK', NEW w \in Workers, NEW from, NEW s, NEW to, NEW raise,
         Transition(w, from, s, to, raise),
         to \notin {"c_pend", "c_call", "c_fail", "retake", "reload"},
         raise \notin {"c_pend", "c_call", "c_fail", "retake", "reload"}
  PROVE  StepOf(w) /\ ~Sending(w)' /\ pc[w] = from /\ pc'[w] \in {to, raise}
BY MoveAside, GotoAside, DoneAside DEF Transition

LEMMA MildAside == ASSUME NEW w \in Workers, Mild(w) PROVE StepOf(w) /\ ~Sending(w)'
BY DEF Mild, LocalKept, Delicate, Sending

(* Whatever a worker does that is no step of a capture, it stays aside. *)
LEMMA ProceedAside ==
  ASSUME TxInv, TypeOK', NEW w \in Workers, Proceed(w), ~CaptureStep(w)
  PROVE  StepOf(w) /\ ~Sending(w)'
<1>1. TypeOK
  BY DEF TxInv
<1>2. CASE \/ AuthorizeFail(w) \/ AuthorizeSave(w) \/ AuthorizeMove(w) \/ HandleCapturable(w)
           \/ HandleFailed(w) \/ HandleCanceled(w) \/ EventDone(w) \/ MarkCheck(w) \/ MarkMove(w)
           \/ SettleFind(w) \/ MeteringMove(w) \/ CaptureFailed(w) \/ CaptureOwe(w)
           \/ DispatchCheck(w) \/ FailFind(w) \/ FailJob(w)
  BY <1>2, MildAside, AuthorizeFailMild, AuthorizeSaveMild, AuthorizeMoveMild,
     HandleCapturableMild, HandleFailedMild, HandleCanceledMild, EventDoneMild, MarkCheckMild,
     MarkMoveMild, SettleFindMild, MeteringMoveMild, CaptureFailedMild, CaptureOweMild,
     DispatchCheckMild, FailFindMild, FailJobMild
<1>3. CASE \/ ReserveOffline(w) \/ ReserveClaim(w) \/ ReserveBook(w) \/ ReserveFull(w)
           \/ ReserveFullOp(w) \/ ReserveLink(w) \/ ReserveError(w) \/ ReserveCompensate(w)
           \/ ReserveDrop(w) \/ ReserveUndo(w) \/ ReserveFinish(w) \/ ReserveMove(w)
  BY <1>3, MildAside, ReserveOfflineMild, ReserveClaimMild, ReserveBookMild, ReserveFullMild,
     ReserveFullOpMild, ReserveLinkMild, ReserveErrorMild, ReserveCompensateMild,
     ReserveDropMild, ReserveUndoMild, ReserveFinishMild, ReserveMoveMild
<1>4. CASE \/ CancelClaim(w) \/ CancelCall(w) \/ CancelFinish(w) \/ CancelMove(w)
           \/ CancelRefund(w) \/ ReleaseRead(w) \/ ReleaseMark(w) \/ ReleaseFree(w)
           \/ ReleaseFailed(w) \/ ReleaseEnd(w)
  BY <1>4, MildAside, CancelClaimMild, CancelCallMild, CancelFinishMild, CancelMoveMild,
     CancelRefundMild, ReleaseReadMild, ReleaseMarkMild, ReleaseFreeMild, ReleaseFailedMild,
     ReleaseEndMild
<1>5. CASE AuthorizeCall(w) \/ DispatchError(w) \/ DispatchUndo(w) \/ DispatchDrop(w)
           \/ DispatchFinish(w)
  BY <1>1, <1>5, GotoAside, DoneAside
  DEF AuthorizeCall, DispatchError, DispatchUndo, DispatchDrop, DispatchFinish, FinishOp
<1>6. CASE DispatchClaim(w)
  <2> DEFINE taken == [loc[w] EXCEPT !.key = "dispatch", !.go = "d_task"]
             stale == [loc[w] EXCEPT !.go = "d_task"]
  <2>1. taken.go = "d_task" /\ stale.go = "d_task"
    BY <1>1, LocalType DEF Locals
  <2>2. \/ Goto(w, "d_op", "d_task") \/ Done(w, "d_op")
        \/ GotoWith(w, "d_op", "retake", taken) \/ GotoWith(w, "d_op", "reload", stale)
    BY <1>6 DEF DispatchClaim, Begin
  <2> HIDE DEF taken, stale
  <2> QED BY <1>1, <2>1, <2>2, MoveAside, GotoAside, DoneAside
<1>7. CASE DispatchTask(w)
  <2>1. PICK t \in FreeSlot(task) : GotoWith(w, "d_task", "d_link", [loc[w] EXCEPT !.n = t])
    BY <1>7 DEF DispatchTask
  <2> QED BY <1>1, <2>1, MoveAside
<1>8. CASE DispatchLink(w) \/ RecordMetering(w) \/ CaptureSave(w)
  BY <1>1, <1>8, MoveAside DEF DispatchLink, RecordMetering, CaptureSave, Write
<1>9. CASE DispatchMove(w) \/ DispatchRun(w) \/ CapturePost(w)
  BY <1>1, <1>9, TransitionAside DEF DispatchMove, DispatchRun, CapturePost
<1>10. CASE SettleAfterResult(w) \/ CaptureSettle(w)
  BY <1>1, <1>10, GotoAside, DoneAside DEF SettleAfterResult, CaptureSettle
<1>11. CASE CaptureStart(w)
  BY <1>1, <1>11, MoveAside, GotoAside DEF CaptureStart
<1> QED BY <1>2, <1>3, <1>4, <1>5, <1>6, <1>7, <1>8, <1>9, <1>10, <1>11 DEF Proceed, CaptureStep

(* The maintenance loop takes the steps of a release and of the paths to   *)
(* CANCELLED, and no others.                                               *)
SweepStep(w) == \/ CancelMove(w) \/ CancelRefund(w) \/ ReleaseRead(w) \/ ReleaseMark(w)
                \/ ReleaseFree(w) \/ ReleaseEnd(w)

LEMMA OnlySweeps ==
  ASSUME NEW w \in Workers, Proceed(w), pc[w] \in Sweeping PROVE SweepStep(w)
<1> USE DEF Sweeping, Goto, Done, GotoWith, Transition, Write, FinishOp, Begin
<1>1. CASE \/ Retake(w) \/ Reload(w) \/ AuthorizeCall(w) \/ AuthorizeFail(w) \/ AuthorizeSave(w)
           \/ AuthorizeMove(w) \/ HandleCapturable(w) \/ HandleFailed(w) \/ HandleCanceled(w)
           \/ EventDone(w) \/ MarkCheck(w) \/ MarkMove(w)
  BY <1>1 DEF Retake, Reload, AuthorizeCall, AuthorizeFail, AuthorizeSave, AuthorizeMove,
              HandleCapturable, HandleFailed, HandleCanceled, EventDone, MarkCheck, MarkMove
<1>2. CASE \/ ReserveOffline(w) \/ ReserveClaim(w) \/ ReserveBook(w) \/ ReserveFull(w)
           \/ ReserveFullOp(w) \/ ReserveLink(w) \/ ReserveError(w) \/ ReserveCompensate(w)
           \/ ReserveDrop(w) \/ ReserveUndo(w) \/ ReserveFinish(w) \/ ReserveMove(w)
  BY <1>2 DEF ReserveOffline, ReserveClaim, ReserveBook, ReserveFull, ReserveFullOp,
              ReserveLink, ReserveError, ReserveCompensate, ReserveDrop, ReserveUndo,
              ReserveFinish, ReserveMove
<1>3. CASE \/ DispatchCheck(w) \/ DispatchClaim(w) \/ DispatchTask(w) \/ DispatchLink(w)
           \/ DispatchError(w) \/ DispatchUndo(w) \/ DispatchDrop(w) \/ DispatchFinish(w)
           \/ DispatchMove(w) \/ DispatchRun(w)
  BY <1>3 DEF DispatchCheck, DispatchClaim, DispatchTask, DispatchLink, DispatchError,
              DispatchUndo, DispatchDrop, DispatchFinish, DispatchMove, DispatchRun
<1>4. CASE \/ SettleFind(w) \/ SettleAfterResult(w) \/ RecordMetering(w) \/ MeteringMove(w)
           \/ CaptureStart(w) \/ CaptureClaim(w) \/ CapturePending(w) \/ CaptureCall(w)
           \/ CaptureFail(w) \/ CaptureFailed(w) \/ CaptureSave(w) \/ CaptureFinish(w)
           \/ CaptureSettle(w) \/ CapturePost(w) \/ CaptureOwe(w)
  BY <1>4 DEF SettleFind, SettleAfterResult, RecordMetering, MeteringMove, CaptureStart,
              CaptureClaim, CapturePending, CaptureCall, CaptureFail, CaptureFailed, CaptureSave,
              CaptureFinish, CaptureSettle, CapturePost, CaptureOwe
<1>5. CASE \/ CancelClaim(w) \/ CancelCall(w) \/ CancelFinish(w) \/ ReleaseFailed(w)
           \/ FailFind(w) \/ FailJob(w)
  BY <1>5 DEF CancelClaim, CancelCall, CancelFinish, ReleaseFailed, FailFind, FailJob
<1> QED BY <1>1, <1>2, <1>3, <1>4, <1>5 DEF Proceed, SweepStep

LEMMA SweepStays ==
  ASSUME TxInv, TypeOK', NEW w \in Workers, SweepStep(w) PROVE pc'[w] \in Sweeping
<1>1. TypeOK /\ ReturnOK(w)
  BY DEF TxInv
<1> USE DEF Sweeping
<1>2. CASE CancelMove(w) \/ CancelRefund(w)
  BY <1>1, <1>2, TransitionAside DEF CancelMove, CancelRefund
<1>3. CASE ReleaseRead(w) \/ ReleaseMark(w) \/ ReleaseFree(w)
  <2>1. loc[w].go \in {"x_move", "f_end", "k_path"}
    BY <1>1, <1>3 DEF ReturnOK, ReleaseRead, ReleaseMark, ReleaseFree, Goto, GotoWith
  <2> QED BY <1>1, <1>3, <2>1, GotoAside DEF ReleaseRead, ReleaseMark, ReleaseFree
<1>4. CASE ReleaseEnd(w)
  BY <1>1, <1>4, DoneAside DEF ReleaseEnd
<1> QED BY <1>2, <1>3, <1>4 DEF SweepStep

LEMMA ProceedSweeps ==
  ASSUME TxInv, TypeOK', TraceInv, NEW w \in Workers, Proceed(w), StepOf(w)
  PROVE  pc'[Reaper] \in Sweeping
<1>1. CASE w = Reaper
  BY <1>1, OnlySweeps, SweepStays DEF TraceInv
<1>2. CASE w # Reaper
  BY <1>2, OthersSweep
<1> QED BY <1>1, <1>2

(* The steps of a capture: the one request there is takes them. *)
LEMMA CaptureStepAlone ==
  ASSUME OneRequest, TraceInv, NEW w \in Workers, StepOf(w), pc[w] \notin Sweeping,
         SendingOK(w)', pi' = "succeeded" => op'["capture1"] \in {"pending", "succeeded"}
  PROVE  TraceInv'
<1>1. w # Reaper /\ w \in Requests
  BY DEF TraceInv, Workers
<1>2. pc'[Reaper] \in Sweeping
  BY <1>1, OthersSweep
<1>3. SendingOK(Reaper)'
  BY <1>2 DEF SendingOK, Sending, Claiming, Sweeping
<1>4. \A v \in Workers : v \in {w, Reaper}
  BY <1>1 DEF OneRequest, Workers
<1> QED BY <1>2, <1>3, <1>4 DEF TraceInv

LEMMA MoveType ==
  ASSUME TypeOK, TypeOK', NEW w \in Workers, NEW from, NEW to, NEW l, GotoWith(w, from, to, l)
  PROVE  StepOf(w) /\ pc[w] = from /\ pc'[w] = to /\ loc'[w] = l
BY DEF TypeOK, GotoWith, StepOf

LEMMA RetakeTraced ==
  ASSUME TxInv, TypeOK', OneRequest, TraceInv, NEW w \in Workers, Retake(w) PROVE TraceInv'
<1>1. /\ StepOf(w) /\ pc[w] = "retake" /\ pc'[w] = "reload" /\ loc'[w] = loc[w]
      /\ pi' = pi /\ op' = [op EXCEPT ![loc[w].key] = "pending"]
  BY MoveType DEF TxInv, Retake, Goto, provider
<1>2. loc[w].key = "capture1" => op'["capture1"] = "pending"
  BY <1>1 DEF TxInv, TypeOK, Keys
<1>3. op'["capture1"] \in {op["capture1"], "pending"}
  BY <1>1 DEF TxInv, TypeOK, Keys
<1>4. SendingOK(w)'
  BY <1>1, <1>2 DEF TraceInv, SendingOK, Sending, Claiming
<1>5. pi' = "succeeded" => op'["capture1"] \in {"pending", "succeeded"}
  BY <1>1, <1>3 DEF TraceInv
<1> QED BY <1>1, <1>4, <1>5, CaptureStepAlone DEF Sweeping

LEMMA ReloadTraced ==
  ASSUME TxInv, TypeOK', OneRequest, TraceInv, NEW w \in Workers, Reload(w) PROVE TraceInv'
<1>1. /\ StepOf(w) /\ pc[w] = "reload" /\ pc'[w] = loc[w].go /\ loc'[w] = Put(w, tx)
      /\ pi' = pi /\ op' = op
  BY MoveType DEF TxInv, Reload, provider
<1>2. loc'[w].key = loc[w].key /\ loc'[w].go = loc[w].go
  BY <1>1, PutType DEF TxInv, TypeOK
<1>3. loc[w].go \in {"r_book", "d_task", "c_pend", "x_call"}
  BY <1>1 DEF TxInv, ReturnOK, Claiming
<1>4. SendingOK(w)'
  BY <1>1, <1>2, <1>3 DEF TraceInv, SendingOK, Sending, Claiming
<1> QED BY <1>1, <1>4, CaptureStepAlone DEF Sweeping, TraceInv

LEMMA CaptureClaimTraced ==
  ASSUME TxInv, TypeOK', OneRequest, TraceInv, NEW w \in Workers, CaptureClaim(w) PROVE TraceInv'
<1> DEFINE k == loc[w].key
           taken == [loc[w] EXCEPT !.key = k, !.go = "c_pend"]
<1>1. taken.key = k /\ taken.go = "c_pend" /\ NoLocals.key = "none"
  BY LocalType DEF TxInv, Locals, NoLocals
<1>2. pc[w] = "c_op" /\ pi' = pi /\ k \in {"capture1", "capture2"}
  BY DEF CaptureClaim, provider, TxInv, CaptureInv, CaptureOK, Capturing
<1>3. \/ op[k] = "none" /\ op' = [op EXCEPT ![k] = "pending"] /\ Goto(w, "c_op", "c_pend")
      \/ op[k] = "failed" /\ op' = op /\ GotoWith(w, "c_op", "retake", taken)
      \/ op' = op /\ Done(w, "c_op")
  BY DEF CaptureClaim, Begin
<1>4. TypeOK
  BY DEF TxInv
<1> HIDE DEF taken
<1>5. CASE op[k] = "none" /\ op' = [op EXCEPT ![k] = "pending"] /\ Goto(w, "c_op", "c_pend")
  <2>1. StepOf(w) /\ pc'[w] = "c_pend" /\ loc'[w] = loc[w]
    BY <1>4, <1>5, MoveType DEF Goto
  <2>2. /\ k = "capture1" => op["capture1"] = "none" /\ op'["capture1"] = "pending"
        /\ k = "capture2" => op'["capture1"] = op["capture1"]
    BY <1>4, <1>5 DEF TypeOK, Keys
  <2>3. SendingOK(w)'
    BY <1>2, <2>1, <2>2 DEF SendingOK, TraceInv
  <2> QED BY <1>2, <2>1, <2>2, <2>3, CaptureStepAlone DEF Sweeping, TraceInv
<1>6. CASE op[k] = "failed" /\ op' = op /\ GotoWith(w, "c_op", "retake", taken)
  <2>1. StepOf(w) /\ pc'[w] = "retake" /\ loc'[w] = taken
    BY <1>4, <1>6, MoveType
  <2>2. SendingOK(w)'
    BY <1>1, <1>2, <1>6, <2>1 DEF SendingOK, TraceInv
  <2> QED BY <1>2, <1>6, <2>1, <2>2, CaptureStepAlone DEF Sweeping, TraceInv
<1>7. CASE op' = op /\ Done(w, "c_op")
  <2>1. StepOf(w) /\ pc'[w] = "idle"
    BY <1>4, <1>7, MoveType DEF Done
  <2>2. SendingOK(w)'
    BY <2>1 DEF SendingOK, Sending, Claiming
  <2> QED BY <1>2, <1>7, <2>1, <2>2, CaptureStepAlone DEF Sweeping, TraceInv
<1> QED BY <1>3, <1>5, <1>6, <1>7

LEMMA CapturePendingTraced ==
  ASSUME TxInv, TypeOK', OneRequest, TraceInv, NEW w \in Workers, CapturePending(w) PROVE TraceInv'
<1>1. TypeOK /\ TypeOK' /\ pi' = pi /\ op' = op
  BY DEF TxInv, CapturePending, provider
<1>2. CASE GotoWith(w, "c_pend", "c_call", Put(w, tx'))
  <2>1. StepOf(w) /\ pc[w] = "c_pend" /\ pc'[w] = "c_call" /\ loc'[w] = Put(w, tx')
    BY <1>1, <1>2, MoveType
  <2>2. loc'[w].key = loc[w].key
    BY <1>1, <2>1, PutType DEF TypeOK
  <2>3. SendingOK(w)'
    BY <1>1, <2>1, <2>2 DEF TraceInv, SendingOK, Sending, Claiming
  <2> QED BY <1>1, <2>1, <2>3, CaptureStepAlone DEF Sweeping, TraceInv
<1>3. CASE Done(w, "c_pend")
  <2>1. StepOf(w) /\ pc[w] = "c_pend" /\ pc'[w] = "idle"
    BY <1>1, <1>3, MoveType DEF Done
  <2>2. SendingOK(w)'
    BY <2>1 DEF SendingOK, Sending, Claiming
  <2> QED BY <1>1, <2>1, <2>2, CaptureStepAlone DEF Sweeping, TraceInv
<1> QED BY <1>2, <1>3 DEF CapturePending, Transition

LEMMA CaptureCallTraced ==
  ASSUME TxInv, TypeOK', OneRequest, TraceInv, NEW w \in Workers, CaptureCall(w) PROVE TraceInv'
<1>1. TypeOK /\ TypeOK' /\ op' = op
  BY DEF TxInv, CaptureCall
<1>2. /\ StepOf(w) /\ pc[w] = "c_call"
      /\ \/ pc'[w] = "c_save" \/ pc'[w] = "idle"
         \/ pc'[w] = "c_fail" /\ loc'[w] = loc[w] /\ pi' = pi
  BY <1>1, MoveType DEF CaptureCall, Goto, Done
<1>3. SendingOK(w)'
  BY <1>1, <1>2 DEF TraceInv, SendingOK, Sending, Claiming
<1>4. op["capture1"] \in {"pending", "succeeded"}
  <2>1. loc[w].key = "capture1" => op["capture1"] = "pending"
    BY <1>2 DEF TraceInv, SendingOK, Sending
  <2>2. loc[w].key = "capture2" => pi = "succeeded"
    BY DEF TxInv, CaptureInv, CaptureOK
  <2>3. loc[w].key \in {"capture1", "capture2"}
    BY <1>2 DEF TxInv, CaptureInv, CaptureOK, Capturing
  <2> QED BY <2>1, <2>2, <2>3 DEF TraceInv
<1> QED BY <1>1, <1>2, <1>3, <1>4, CaptureStepAlone DEF Sweeping

LEMMA CaptureCloseTraced ==
  ASSUME TxInv, TypeOK', OneRequest, TraceInv, NEW w \in Workers, CaptureFail(w) \/ CaptureFinish(w)
  PROVE  TraceInv'
<1>1. TypeOK /\ TypeOK' /\ pi' = pi
  BY DEF TxInv, CaptureFail, CaptureFinish, provider
<1>2. /\ StepOf(w) /\ pc'[w] \in {"c_failed", "c_settle"}
      /\ \/ pc[w] = "c_fail" /\ op' = [op EXCEPT ![loc[w].key] = "failed"]
         \/ pc[w] = "c_finish" /\ op' = [op EXCEPT ![loc[w].key] = "succeeded"]
  BY <1>1, MoveType DEF CaptureFail, CaptureFinish, FinishOp, Goto
<1>3. SendingOK(w)'
  BY <1>2 DEF SendingOK, Sending, Claiming
<1>4. pi' = "succeeded" => op'["capture1"] \in {"pending", "succeeded"}
  <2>1. CASE pc[w] = "c_fail" /\ op' = [op EXCEPT ![loc[w].key] = "failed"]
    <3>1. loc[w].key = "capture1" => pi # "succeeded"
      BY <2>1 DEF TraceInv, SendingOK, Sending
    <3>2. loc[w].key # "capture1" => op'["capture1"] = op["capture1"]
      BY <1>1, <2>1 DEF TypeOK, Keys
    <3> QED BY <1>1, <3>1, <3>2 DEF TraceInv
  <2>2. CASE pc[w] = "c_finish" /\ op' = [op EXCEPT ![loc[w].key] = "succeeded"]
    BY <1>1, <2>2 DEF TypeOK, Keys, TraceInv
  <2> QED BY <1>2, <2>1, <2>2
<1> QED BY <1>2, <1>3, <1>4, CaptureStepAlone DEF Sweeping

(* A step of one worker that is no answer of the provider to its capture   *)
(* charges nothing.                                                        *)
LEMMA NoChargeAside ==
  ASSUME TxInv, TypeOK', Next, NEW w \in Workers, StepOf(w), ~CaptureCall(w), pi' = "succeeded"
  PROVE  pi = "succeeded"
<1> SUFFICES ASSUME pi # "succeeded" PROVE FALSE
  OBVIOUS
<1>1. PICK v \in Workers : CaptureCall(v)
  BY OnlyCaptureCharges
<1>2. pc[v] = "c_call" /\ pc'[v] # "c_call"
  BY <1>1, MoveType DEF TxInv, CaptureCall, Goto, Done
<1> QED BY <1>1, <1>2 DEF StepOf

LEMMA ProceedTraced ==
  ASSUME TxInv, TypeOK', OneRequest, TraceInv, Next, NEW w \in Workers, Proceed(w) PROVE TraceInv'
<1>1. CASE CaptureStep(w)
  BY <1>1, RetakeTraced, ReloadTraced, CaptureClaimTraced, CapturePendingTraced,
     CaptureCallTraced, CaptureCloseTraced DEF CaptureStep
<1>2. CASE ~CaptureStep(w)
  <2>1. StepOf(w) /\ ~Sending(w)' /\ op'["capture1"] = op["capture1"]
    BY <1>2, ProceedAside, OpKept DEF TxInv
  <2>2. pi' = "succeeded" => pi = "succeeded"
    BY <1>2, <2>1, NoChargeAside DEF CaptureStep
  <2> QED BY <2>1, <2>2, ProceedSweeps, AsideKeeps DEF Aside
<1> QED BY <1>1, <1>2

(* The first step of a request: a worker that was idle is no sender yet. *)
LEMMA StartTraced ==
  ASSUME TxInv, TypeOK', TraceInv, NEW w \in Requests,
         \/ Requested(w)
         \/ \E e \in Events : Deliver(w, e)
         \/ \E t \in 1 .. Slots : Result(w, t)
  PROVE  TraceInv'
<1>1. w \in Workers /\ w # Reaper
  BY SetAssumption DEF Workers
<1>2. op' = op /\ pi' = pi
  BY DEF Requested, Authorize, Confirm, Reserve, Dispatch, AdminMeter, AdminCapture, Cancel,
         Deliver, Result, provider
<1>3. CASE Authorize(w) \/ AdminMeter(w)
  <2>1. StepOf(w) /\ ~Sending(w)'
    BY <1>1, <1>3, MoveAside DEF TxInv, Authorize, AdminMeter, Start
  <2> QED BY <1>1, <1>2, <2>1, OthersSweep, AsideKeeps DEF Aside
<1>4. CASE \/ Confirm(w) \/ Reserve(w) \/ Dispatch(w) \/ AdminCapture(w) \/ Cancel(w)
           \/ \E e \in Events : Deliver(w, e)
           \/ \E t \in 1 .. Slots : Result(w, t)
  <2>1. Mild(w)
    BY <1>1, <1>4, ConfirmMild, ReserveMild, DispatchMild, AdminCaptureMild, CancelMild,
       DeliverMild, ResultMild
  <2> QED BY <1>1, <1>2, <2>1, MildAside, OthersSweep, AsideKeeps DEF Aside
<1> QED BY <1>3, <1>4 DEF Requested

LEMMA ReclaimTraced ==
  ASSUME TxInv, TypeOK', TraceInv, Next, Reclaim \/ ReclaimProceed PROVE TraceInv'
<1>1. Reaper \in Workers /\ TypeOK
  BY DEF Workers, TxInv
<1>2. op' = op
  BY DEF Reclaim, ReclaimFailed, ReclaimStuck, ReclaimProceed, ReclaimVoid, ReclaimPath,
         ReclaimLast
<1>3. StepOf(Reaper) /\ ~Sending(Reaper)' /\ pc[Reaper] # "c_call" /\ pc'[Reaper] \in Sweeping
  <2>1. CASE Reclaim
    BY <1>1, <2>1, MoveAside DEF Reclaim, ReclaimFailed, ReclaimStuck, Sweeping
  <2>2. CASE ReclaimVoid
    BY <1>1, <2>2, GotoAside DEF ReclaimVoid, Sweeping
  <2>3. CASE ReclaimPath \/ ReclaimLast
    BY <1>1, <2>3, TransitionAside DEF ReclaimPath, ReclaimLast, Sweeping
  <2> QED BY <2>1, <2>2, <2>3 DEF ReclaimProceed
<1>4. ~CaptureCall(Reaper)
  BY <1>3 DEF CaptureCall, Goto, Done, GotoWith
<1> QED BY <1>1, <1>2, <1>3, <1>4, NoChargeAside, AsideKeeps DEF Aside

(* A worker that dies is no sender any more; the operation keeps saying    *)
(* what it said.                                                           *)
LEMMA CrashTraced ==
  ASSUME TxInv, TypeOK', TraceInv, NEW w \in Workers, Crash(w) PROVE TraceInv'
<1>1. StepOf(w) /\ pc'[w] = "idle"
  BY DEF TxInv, TypeOK, Crash, StepOf
<1>2. ~Sending(w)' /\ op' = op /\ pi' = pi
  BY <1>1 DEF Sending, Claiming, Crash, provider
<1>3. pc'[Reaper] \in Sweeping
  BY <1>1, OthersSweep DEF Sweeping
<1> QED BY <1>1, <1>2, <1>3, AsideKeeps DEF Aside

LEMMA EnvironmentTraced ==
  ASSUME TxInv, TraceInv, Environment \/ UNCHANGED vars PROVE TraceInv'
<1>1. op' = op /\ pc' = pc /\ loc' = loc /\ (pi' = "succeeded" => pi = "succeeded")
  BY DEF Environment, CardConfirmed, CardDeclined, AuthorizationExpires, OthersTake, OthersLeave,
         NodeDown, NodeUp, RetryTask, vars, provider
<1> QED BY <1>1 DEF TraceInv, SendingOK, Sending, Claiming

LEMMA NextTraced ==
  ASSUME TxInv, TxInv', OneRequest, TraceInv, [Next]_vars PROVE TraceInv'
<1>1. TypeOK'
  BY DEF TxInv
<1>2. CASE UNCHANGED vars
  BY <1>2, EnvironmentTraced
<1>3. CASE Next
  <2>1. CASE \E w \in Workers : Proceed(w) \/ Crash(w)
    BY <1>1, <1>3, <2>1, ProceedTraced, CrashTraced
  <2>2. CASE \E w \in Requests : \/ Requested(w)
                                 \/ \E e \in Events : Deliver(w, e)
                                 \/ \E t \in 1 .. Slots : Result(w, t)
    BY <1>1, <2>2, StartTraced
  <2>3. CASE Reclaim \/ ReclaimProceed
    BY <1>1, <1>3, <2>3, ReclaimTraced
  <2>4. CASE Environment
    BY <2>4, EnvironmentTraced
  <2> QED BY <1>3, <2>1, <2>2, <2>3, <2>4 DEF Next
<1> QED BY <1>2, <1>3

(* Whatever dies or fails after the provider took the money, the charge is *)
(* booked, or its operation says that a capture is under way, if requests  *)
(* for the transaction come one at a time (_begin_op(), capture()).        *)
THEOREM ChargeLeavesTraceHolds ==
  ASSUME OneRequest PROVE Spec => []ChargeLeavesTrace
<1>1. Init => TraceInv
  BY DEF Init, TraceInv, SendingOK, Sending, Claiming, Sweeping, NewRow, Workers
<1>2. TraceInv => ChargeLeavesTrace
  BY DEF TraceInv, ChargeLeavesTrace
<1>3. TxInv /\ TxInv' /\ TraceInv /\ [Next]_vars => TraceInv'
  BY NextTraced
<1> QED BY <1>1, <1>2, <1>3, TxInvHolds, PTL DEF Spec

=============================================================================
