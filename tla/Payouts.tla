------------------------------- MODULE Payouts -------------------------------
(***************************************************************************)
(* A seller's earnings after the capture of their payments: the payout     *)
(* obligation of each, its risk hold, the direct transfer, the batch       *)
(* payout, refunds and their clawback, and the provider's webhooks         *)
(* (lumaris_api/stripe_connect.py, payout_routing.py, payout_rails.py,     *)
(* db.py).  ComputeTx ends where this module begins.                       *)
(*                                                                         *)
(* An action is one commit, one call of the provider, or one read whose    *)
(* result a later step uses.  A handler works on the rows it loaded.       *)
(***************************************************************************)
EXTENDS TxStates, Integers, FiniteSets, Sequences, Functions

CONSTANTS
  Workers,       \* processes: administrators' requests, payout runs, webhooks
  Does,          \* [Workers -> SUBSET Kinds]: what each is used for
  Earnings,      \* captured transactions of one seller
  None,          \* no transaction in hand
  Captured,      \* captured_amount of each, in minor units
  Net,           \* seller_net_amount of each
  Amounts,       \* refunds asked for
  Missing,       \* earnings whose obligation the capture may have failed to create
  AutoNet,       \* PAYOUT_AUTONET_CLAWBACK
  MaxBatches,    \* bound on the payout batches
  MaxHolds,      \* bound on the payout holds placed
  MaxFaults,     \* bound on the provider's errors
  MaxOutside,    \* bound on refunds and disputes that start at the provider
  MaxCrashes     \* bound on the workers that die half way

Kinds == {"transfer", "refund", "batch", "dry_run", "webhook"}
Keys == {<<"transfer", 0>>} \cup ({"refund", "reversal"} \X (1 .. Captured))

ASSUME MoneyAssumption == /\ {Captured, Net} \subseteq Nat \ {0} /\ Net <= Captured
                          /\ Amounts \subseteq 1 .. Captured
ASSUME WorkAssumption == Does \in [Workers -> SUBSET Kinds] /\ Missing \subseteq Earnings
                         /\ AutoNet \in BOOLEAN /\ IsFiniteSet(Earnings) /\ None \notin Earnings
ASSUME BoundAssumption == {MaxBatches, MaxHolds, MaxFaults, MaxOutside, MaxCrashes} \subseteq Nat

VARIABLES
  tx,        \* the compute_transactions rows
  obl,       \* the payout_obligations rows
  op,        \* payment_operations.state by earning and key
  due,       \* earnings whose risk hold has elapsed
  hold,      \* the seller's latest risk decision is a payout hold
  batch,     \* the payout_batches rows, in the order of their insertion
  payable,   \* the ledger's seller_payable balance
  booked,    \* compute_refund postings by earning
  sent,      \* transfers made by the provider
  given,     \* amount of each charge refunded by the provider, and by which key
  events,    \* webhooks sent and not yet recorded as processed
  count,     \* holds, faults, outside refunds and crashes so far
  pc, loc    \* where each worker is, and its local variables

vars == <<tx, obl, op, due, hold, batch, payable, booked, sent, given, events, count, pc, loc>>
rows == <<tx, obl, op, due, hold, batch>>
ledger == <<payable, booked>>
provider == <<sent, given, events>>

Row == [status : Statuses, moved : BOOLEAN, refunded : 0 .. Captured, reversed : Nat,
        review : {"none", "needs_review", "reconciled"}]
States == {"none", "accrued", "available", "batched", "transferring", "reconciling", "paid",
           "reversed"}
Obligation == [state : States, net : 0 .. Net, batch : 0 .. MaxBatches]

(* of, attempt: what the idempotency key is made of; cut: the clawbacks    *)
(* this batch nets                                                         *)
Batch == [of : SUBSET Earnings, attempt : Nat, total : Int, cut : SUBSET Earnings,
          state : {"created", "failed", "aborted", "needs_reconciliation", "paid"}]
Event == [kind : {"refunded", "dispute"}, of : Earnings, amount : 0 .. Captured]

(* e, row: the transaction in hand and its row as loaded; amount: of the   *)
(* refund; ok: the seller's share was recovered; set, nets, n: of a payout *)
(* run.                                                                    *)
NewRow == [status |-> "PAYMENT_CAPTURED", moved |-> FALSE, refunded |-> 0, reversed |-> 0,
           review |-> "none"]
NoLocals == [e |-> None, row |-> NewRow, amount |-> 0, ok |-> FALSE, event |-> {},
             set |-> {}, nets |-> [e \in Earnings |-> 0], n |-> 0, dry |-> FALSE,
             key |-> <<"transfer", 0>>, go |-> "idle"]

TypeOK ==
  /\ tx \in [Earnings -> Row] /\ obl \in [Earnings -> Obligation]
  /\ op \in [Earnings \X Keys -> {"none", "pending", "failed", "succeeded"}]
  /\ due \subseteq Earnings /\ hold \in BOOLEAN
  /\ batch \in Seq(Batch) /\ Len(batch) <= MaxBatches
  /\ payable \in Int /\ booked \in [Earnings -> Nat]
  /\ \A s \in sent : s.of \subseteq Earnings /\ s.of # {} /\ s.amount > 0
  /\ given \in [Earnings -> [amount : 0 .. Captured, keys : SUBSET (1 .. Captured)]]
  /\ events \subseteq Event
  /\ count \in [holds : Nat, faults : Nat, outside : Nat, crashes : Nat]
  /\ pc \in [Workers -> STRING]

Init ==
  /\ tx = [e \in Earnings |-> NewRow]
  /\ \E lost \in SUBSET Missing :
       obl = [e \in Earnings |-> [state |-> IF e \in lost THEN "none" ELSE "accrued",
                                  net |-> Net, batch |-> 0]]
  /\ op = [k \in Earnings \X Keys |-> "none"]
  /\ due = {} /\ hold = FALSE /\ batch = <<>>
  /\ payable = Net * Cardinality(Earnings) /\ booked = [e \in Earnings |-> 0]
  /\ sent = {} /\ given = [e \in Earnings |-> [amount |-> 0, keys |-> {}]] /\ events = {}
  /\ count = [holds |-> 0, faults |-> 0, outside |-> 0, crashes |-> 0]
  /\ pc = [w \in Workers |-> "idle"] /\ loc = [w \in Workers |-> NoLocals]

-----------------------------------------------------------------------------
(* Helpers *)

Seen(w) == loc[w].row
Put(w, row) == [loc[w] EXCEPT !.row = row]

GotoWith(w, from, to, l) ==
  pc[w] = from /\ pc' = [pc EXCEPT ![w] = to] /\ loc' = [loc EXCEPT ![w] = l]
Goto(w, from, to) == GotoWith(w, from, to, loc[w])
Done(w, from) == GotoWith(w, from, "idle", NoLocals)

(* the end of a refund: a request returns, a webhook is recorded *)
Return(w, from) ==
  IF loc[w].event = {} THEN Done(w, from) ELSE Goto(w, from, "h_done")

(* transition(): the check is on the loaded status, the write is not       *)
(* conditional, and the row is reloaded afterwards; otherwise it raises.   *)
Transition(w, from, s, to) ==
  LET e == loc[w].e IN
  \/ /\ pc[w] = from /\ s \in Transitions[Seen(w).status]
     /\ tx' = [tx EXCEPT ![e].status = s]
     /\ GotoWith(w, from, to, IF to = "idle" THEN NoLocals ELSE Put(w, tx'[e]))
  \/ /\ pc[w] = from /\ s \notin Transitions[Seen(w).status]
     /\ Done(w, from) /\ UNCHANGED tx

(* _begin_op(): the first insert of the key wins; a failed operation is    *)
(* read, then retaken, and the rollback of the insert reloads the row.     *)
Begin(w, from, k, to) ==
  LET key == <<loc[w].e, k>> IN
  /\ pc[w] = from
  /\ \/ op[key] = "none" /\ op' = [op EXCEPT ![key] = "pending"] /\ Goto(w, from, to)
     \/ /\ op[key] = "failed" /\ UNCHANGED op
        /\ GotoWith(w, from, "retake", [loc[w] EXCEPT !.key = k, !.go = to])
     \/ op[key] \in {"pending", "succeeded"} /\ Return(w, from) /\ UNCHANGED op

Retake(w) ==
  /\ pc[w] = "retake" /\ op' = [op EXCEPT ![<<loc[w].e, loc[w].key>>] = "pending"]
  /\ GotoWith(w, "retake", loc[w].go, Put(w, tx[loc[w].e]))
  /\ UNCHANGED <<tx, obl, due, hold, batch, ledger, provider, count>>

FinishOp(w, from, k, s, to) ==
  pc[w] = from /\ op' = [op EXCEPT ![<<loc[w].e, k>>] = s] /\ Goto(w, from, to)

Fault == count.faults < MaxFaults /\ count' = [count EXCEPT !.faults = @ + 1]

Within(states) == {e \in Earnings : obl[e].state \in states}
Nets == [e \in Earnings |-> obl[e].net]

(* the seller's share of a refund *)
P == INSTANCE Pricing
Share(a) == P!SellerPart(Captured, Net, a)

(* seller_recoverable_debt_minor() *)
Debt == LET d == SumFunctionOnSet(Nets, Within({"accrued", "available", "batched"})) - payable
        IN IF d > 0 THEN d ELSE 0

(* _clawback_tx_ids() *)
Clawbacks == {e \in Earnings : tx[e].review = "needs_review" /\ tx[e].refunded > 0 /\ ~tx[e].moved}

-----------------------------------------------------------------------------
(* The world around: time, reviews, refunds and disputes at the provider *)

Mature(e) ==
  /\ e \notin due /\ due' = due \cup {e}
  /\ UNCHANGED <<tx, obl, op, hold, batch, ledger, provider, count, pc, loc>>

PlaceHold ==
  /\ ~hold /\ hold' = TRUE
  /\ count.holds < MaxHolds /\ count' = [count EXCEPT !.holds = @ + 1]
  /\ UNCHANGED <<tx, obl, op, due, batch, ledger, provider, pc, loc>>

ClearHold ==
  /\ hold /\ hold' = FALSE
  /\ UNCHANGED <<tx, obl, op, due, batch, ledger, provider, count, pc, loc>>

Outside == count.outside < MaxOutside /\ count' = [count EXCEPT !.outside = @ + 1]

(* a refund of a charge at the provider, announced with the cumulative sum *)
Give(e, a, keys) ==
  /\ given' = [given EXCEPT ![e].amount = @ + a, ![e].keys = @ \cup keys]
  /\ events' = events \cup {[kind |-> "refunded", of |-> e, amount |-> given[e].amount + a]}

DashboardRefund(e, a) ==
  /\ Outside /\ given[e].amount + a <= Captured /\ Give(e, a, {})
  /\ UNCHANGED <<rows, ledger, sent, pc, loc>>

Dispute(e) ==
  /\ Outside /\ events' = events \cup {[kind |-> "dispute", of |-> e, amount |-> 0]}
  /\ UNCHANGED <<rows, ledger, sent, given, pc, loc>>

-----------------------------------------------------------------------------
(* transfer_to_seller() *)

TransferStart(w, e) ==
  /\ "transfer" \in Does[w]
  /\ ~tx[e].moved /\ tx[e].status \in {"PAYMENT_CAPTURED", "TRANSFER_FAILED"}
  /\ GotoWith(w, "idle", "t_allow", [NoLocals EXCEPT !.e = e, !.row = tx[e]])
  /\ UNCHANGED <<rows, ledger, provider, count>>

(* _assert_payout_allowed() *)
TransferAllow(w) ==
  /\ pc[w] = "t_allow"
  /\ IF hold THEN Done(w, "t_allow")
     ELSE Goto(w, "t_allow", IF obl[loc[w].e].state = "none" THEN "t_ensure" ELSE "t_claim")
  /\ UNCHANGED <<rows, ledger, provider, count>>

(* create_payout_obligation(): once, with the whole seller's net *)
TransferEnsure(w) ==
  /\ pc[w] = "t_ensure"
  /\ obl' = IF obl[loc[w].e].state = "none" THEN [obl EXCEPT ![loc[w].e].state = "accrued"] ELSE obl
  /\ Goto(w, "t_ensure", "t_claim")
  /\ UNCHANGED <<tx, op, due, hold, batch, ledger, provider, count>>

TransferClaim(w) ==
  LET e == loc[w].e
      free == obl[e].state \in {"accrued", "available", "reconciling"} IN
  /\ pc[w] = "t_claim"
  /\ obl' = IF free THEN [obl EXCEPT ![e].state = "transferring"] ELSE obl
  /\ Goto(w, "t_claim", IF free THEN "t_begin" ELSE "t_own")
  /\ UNCHANGED <<tx, op, due, hold, batch, ledger, provider, count>>

(* not claimed: only an obligation this path owns already is transferred *)
TransferOwn(w) ==
  /\ pc[w] = "t_own"
  /\ IF obl[loc[w].e].state = "transferring" THEN Goto(w, "t_own", "t_begin") ELSE Done(w, "t_own")
  /\ UNCHANGED <<rows, ledger, provider, count>>

TransferBegin(w) ==
  /\ Begin(w, "t_begin", <<"transfer", 0>>, "t_pending")
  /\ UNCHANGED <<tx, obl, due, hold, batch, ledger, provider, count>>

TransferPending(w) ==
  /\ Transition(w, "t_pending", "SELLER_TRANSFER_PENDING", "t_call")
  /\ UNCHANGED <<obl, op, due, hold, batch, ledger, provider, count>>

(* the provider makes one transfer per idempotency key *)
Transferred(e) ==
  IF \E s \in sent : s.by = "transfer" /\ s.of = {e} THEN sent
  ELSE sent \cup {[by |-> "transfer", of |-> {e}, amount |-> Net, n |-> 0]}

(* an error does not say whether the money moved *)
TransferCall(w) ==
  /\ \/ Goto(w, "t_call", "t_save") /\ sent' = Transferred(loc[w].e) /\ UNCHANGED count
     \/ Goto(w, "t_call", "t_fail") /\ Fault /\ sent' \in {sent, Transferred(loc[w].e)}
  /\ UNCHANGED <<rows, ledger, given, events>>

TransferFail(w) ==
  /\ FinishOp(w, "t_fail", <<"transfer", 0>>, "failed", "t_keep")
  /\ UNCHANGED <<tx, obl, due, hold, batch, ledger, provider, count>>

TransferKeep(w) ==
  LET e == loc[w].e IN
  /\ pc[w] = "t_keep"
  /\ obl' = IF obl[e].state = "transferring" THEN [obl EXCEPT ![e].state = "reconciling"] ELSE obl
  /\ tx' = [tx EXCEPT ![e].review = "needs_review"]
  /\ GotoWith(w, "t_keep", "t_failed", Put(w, [Seen(w) EXCEPT !.review = "needs_review"]))
  /\ UNCHANGED <<op, due, hold, batch, ledger, provider, count>>

TransferFailed(w) ==
  /\ Transition(w, "t_failed", "TRANSFER_FAILED", "idle")
  /\ UNCHANGED <<obl, op, due, hold, batch, ledger, provider, count>>

TransferSave(w) ==
  /\ pc[w] = "t_save"
  /\ tx' = [tx EXCEPT ![loc[w].e].moved = TRUE]
  /\ GotoWith(w, "t_save", "t_finish", Put(w, [Seen(w) EXCEPT !.moved = TRUE]))
  /\ UNCHANGED <<obl, op, due, hold, batch, ledger, provider, count>>

TransferFinish(w) ==
  /\ FinishOp(w, "t_finish", <<"transfer", 0>>, "succeeded", "t_post")
  /\ UNCHANGED <<tx, obl, due, hold, batch, ledger, provider, count>>

(* the posting and the transition are one commit *)
TransferPost(w) ==
  /\ Transition(w, "t_post", "SELLER_TRANSFERRED", "t_reconcile")
  /\ payable' = IF "SELLER_TRANSFERRED" \in Transitions[Seen(w).status] THEN payable - Net
                ELSE payable
  /\ UNCHANGED <<obl, op, due, hold, batch, booked, provider, count>>

TransferReconcile(w) ==
  /\ pc[w] = "t_reconcile"
  /\ tx' = [tx EXCEPT ![loc[w].e].review = "reconciled"]
  /\ GotoWith(w, "t_reconcile", "t_paid", Put(w, [Seen(w) EXCEPT !.review = "reconciled"]))
  /\ UNCHANGED <<obl, op, due, hold, batch, ledger, provider, count>>

TransferPaid(w) ==
  LET e == loc[w].e IN
  /\ pc[w] = "t_paid"
  /\ obl' = IF obl[e].state \in {"transferring", "accrued", "available"}
            THEN [obl EXCEPT ![e].state = "paid"] ELSE obl
  /\ Goto(w, "t_paid", "t_complete")
  /\ UNCHANGED <<tx, op, due, hold, batch, ledger, provider, count>>

TransferComplete(w) ==
  /\ Transition(w, "t_complete", "COMPLETED", "idle")
  /\ UNCHANGED <<obl, op, due, hold, batch, ledger, provider, count>>

Transfer(w) ==
  \/ TransferAllow(w) \/ TransferEnsure(w) \/ TransferClaim(w) \/ TransferOwn(w)
  \/ TransferBegin(w) \/ TransferPending(w) \/ TransferCall(w) \/ TransferFail(w)
  \/ TransferKeep(w) \/ TransferFailed(w) \/ TransferSave(w)
  \/ TransferFinish(w) \/ TransferPost(w) \/ TransferReconcile(w) \/ TransferPaid(w)
  \/ TransferComplete(w)

-----------------------------------------------------------------------------
(* refund() and, for it and for the webhook, _reconcile_refund_ledger() *)

Refundable == {"PAYMENT_CAPTURED", "SELLER_TRANSFERRED", "COMPLETED", "DISPUTED", "REFUND_PENDING"}

RefundStart(w, e, a) ==
  LET left == Captured - tx[e].refunded
      amount == IF a < left THEN a ELSE left IN
  /\ "refund" \in Does[w] /\ tx[e].status \in Refundable /\ amount > 0
  /\ GotoWith(w, "idle", "f_pending", [NoLocals EXCEPT !.e = e, !.row = tx[e], !.amount = amount])
  /\ UNCHANGED <<rows, ledger, provider, count>>

RefundPending(w) ==
  /\ IF Seen(w).status = "REFUND_PENDING" THEN Goto(w, "f_pending", "f_begin") /\ UNCHANGED tx
     ELSE Transition(w, "f_pending", "REFUND_PENDING", "f_begin")
  /\ UNCHANGED <<obl, op, due, hold, batch, ledger, provider, count>>

RefundBegin(w) ==
  /\ Begin(w, "f_begin", <<"refund", loc[w].amount>>, "f_call")
  /\ UNCHANGED <<tx, obl, due, hold, batch, ledger, provider, count>>

(* the provider refunds once per idempotency key and never more than was   *)
(* captured; an error does not say whether it did                          *)
RefundCall(w) ==
  LET e == loc[w].e
      a == loc[w].amount
      fits == given[e].amount + a <= Captured
      once == IF a \in given[e].keys THEN UNCHANGED <<given, events>> ELSE fits /\ Give(e, a, {a}) IN
  /\ \/ Goto(w, "f_call", "f_finish") /\ once /\ UNCHANGED count
     \/ Goto(w, "f_call", "f_fail") /\ Fault /\ once
     \/ Goto(w, "f_call", "f_fail") /\ Fault /\ UNCHANGED <<given, events>>
     \/ Goto(w, "f_call", "f_fail") /\ ~fits /\ UNCHANGED <<given, events, count>>
  /\ UNCHANGED <<rows, ledger, sent>>

RefundFail(w) ==
  /\ pc[w] = "f_fail" /\ op' = [op EXCEPT ![<<loc[w].e, <<"refund", loc[w].amount>>>>] = "failed"]
  /\ Done(w, "f_fail")
  /\ UNCHANGED <<tx, obl, due, hold, batch, ledger, provider, count>>

RefundFinish(w) ==
  /\ FinishOp(w, "f_finish", <<"refund", loc[w].amount>>, "succeeded", "s_post")
  /\ UNCHANGED <<tx, obl, due, hold, batch, ledger, provider, count>>

(* The refunded amount, the refund's posting and what is done for the      *)
(* seller's share are one commit: here, for an earning that was not        *)
(* transferred, the claim of its unpaid obligation.                        *)
Refunded(w) == Seen(w).refunded + loc[w].amount
Fully(w) == Seen(w).refunded >= Captured

(* mutant: obligations claimed by a batch are reversed too *)
UnpaidOrBatched == {"accrued", "available", "batched"}

Unpaid == {"accrued", "available"}

PostRefund(w, share) ==
  LET e == loc[w].e IN
  /\ tx' = [tx EXCEPT ![e].refunded = Refunded(w)]
  /\ booked' = [booked EXCEPT ![e] = @ + loc[w].amount] /\ payable' = payable - share

AfterPost(w, to, ok) ==
  GotoWith(w, "s_post", to, [Put(w, [Seen(w) EXCEPT !.refunded = Refunded(w)]) EXCEPT !.ok = ok])

(* mutant: a partial refund leaves the obligation as it was *)
SettleShareKeepsNet(w) ==
  LET e == loc[w].e
      share == Share(loc[w].amount)
      full == Refunded(w) >= Captured
      unpaid == obl[e].state \in Unpaid IN
  /\ pc[w] = "s_post" /\ (share = 0 \/ ~Seen(w).moved)
  /\ PostRefund(w, share)
  /\ obl' = IF share > 0 /\ unpaid /\ full THEN [obl EXCEPT ![e].state = "reversed"] ELSE obl
  /\ AfterPost(w, "s_mark", share = 0 \/ unpaid)
  /\ UNCHANGED <<op, due, hold, batch, provider, count>>

SettleShare(w) ==
  LET e == loc[w].e
      share == Share(loc[w].amount)
      full == Refunded(w) >= Captured
      unpaid == obl[e].state \in Unpaid /\ (full \/ obl[e].net >= share) IN
  /\ pc[w] = "s_post" /\ (share = 0 \/ ~Seen(w).moved)
  /\ PostRefund(w, share)
  /\ obl' = IF share = 0 \/ ~unpaid THEN obl
            ELSE IF full THEN [obl EXCEPT ![e].state = "reversed"]
            ELSE [obl EXCEPT ![e].net = @ - share]
  /\ AfterPost(w, "s_mark", share = 0 \/ unpaid)
  /\ UNCHANGED <<op, due, hold, batch, provider, count>>

(* A transferred earning: the claim of the reversal commits the posting; a *)
(* reversal of the same amount rolls it back with the claim.               *)
ReversalBegin(w) ==
  LET e == loc[w].e
      key == <<e, <<"reversal", loc[w].amount>>>> IN
  /\ pc[w] = "s_post" /\ Share(loc[w].amount) > 0 /\ Seen(w).moved
  /\ \/ /\ op[key] = "none" /\ op' = [op EXCEPT ![key] = "pending"]
        /\ PostRefund(w, Share(loc[w].amount)) /\ AfterPost(w, "s_call", FALSE)
     \/ /\ op[key] = "failed" /\ UNCHANGED <<tx, op, ledger>>
        /\ GotoWith(w, "s_post", "retake", [loc[w] EXCEPT !.key = key[2], !.go = "s_call"])
     \/ /\ op[key] \in {"pending", "succeeded"} /\ Return(w, "s_post")
        /\ UNCHANGED <<tx, op, ledger>>
  /\ UNCHANGED <<obl, due, hold, batch, provider, count>>

ReversalCall(w) ==
  /\ \/ Goto(w, "s_call", "s_finish") /\ UNCHANGED count
     \/ Goto(w, "s_call", "s_fail") /\ Fault
  /\ UNCHANGED <<rows, ledger, provider>>

ReversalFail(w) ==
  /\ FinishOp(w, "s_fail", <<"reversal", loc[w].amount>>, "failed", "s_escalate")
  /\ UNCHANGED <<tx, obl, due, hold, batch, ledger, provider, count>>

(* raises: a webhook stays unprocessed and is delivered again *)
ReversalEscalate(w) ==
  /\ pc[w] = "s_escalate"
  /\ tx' = [tx EXCEPT ![loc[w].e].review = "needs_review"] /\ Done(w, "s_escalate")
  /\ UNCHANGED <<obl, op, due, hold, batch, ledger, provider, count>>

ReversalFinish(w) ==
  /\ FinishOp(w, "s_finish", <<"reversal", loc[w].amount>>, "succeeded", "s_back")
  /\ UNCHANGED <<tx, obl, due, hold, batch, ledger, provider, count>>

ReversalBack(w) ==
  LET e == loc[w].e
      reversed == Seen(w).reversed + Share(loc[w].amount)
      review == IF reversed >= Share(loc[w].amount) THEN "reconciled" ELSE "needs_review" IN
  /\ pc[w] = "s_back"
  /\ tx' = [tx EXCEPT ![e].reversed = reversed, ![e].review = review]
  /\ payable' = payable + Share(loc[w].amount)
  /\ GotoWith(w, "s_back", "s_full", Put(w, [Seen(w) EXCEPT !.reversed = reversed, !.review = review]))
  /\ UNCHANGED <<obl, op, due, hold, batch, booked, provider, count>>

RefundMark(w) ==
  LET review == IF loc[w].ok THEN "reconciled" ELSE "needs_review" IN
  /\ pc[w] = "s_mark"
  /\ tx' = [tx EXCEPT ![loc[w].e].review = review]
  /\ GotoWith(w, "s_mark", "s_full", Put(w, [Seen(w) EXCEPT !.review = review]))
  /\ UNCHANGED <<obl, op, due, hold, batch, ledger, provider, count>>

RefundFull(w) ==
  /\ IF Fully(w) THEN Transition(w, "s_full", "REFUNDED", IF loc[w].event = {} THEN "idle" ELSE "h_done")
     ELSE pc[w] = "s_full" /\ Return(w, "s_full") /\ UNCHANGED tx
  /\ UNCHANGED <<obl, op, due, hold, batch, ledger, provider, count>>

Refund(w) ==
  \/ RefundPending(w) \/ RefundBegin(w) \/ RefundCall(w) \/ RefundFail(w) \/ RefundFinish(w)
  \/ SettleShare(w) \/ ReversalBegin(w) \/ ReversalCall(w) \/ ReversalFail(w)
  \/ ReversalEscalate(w) \/ ReversalFinish(w) \/ ReversalBack(w) \/ RefundMark(w)
  \/ RefundFull(w)

-----------------------------------------------------------------------------
(* process_webhook_event(): charge.refunded and charge.dispute.created *)

(* mutant: the cumulative amount is taken for the amount of this refund *)
DeliverWhole(w, ev) ==
  /\ "webhook" \in Does[w] /\ ev \in events
  /\ GotoWith(w, "idle", IF ev.kind = "refunded" THEN "h_refund" ELSE "h_dispute",
              [NoLocals EXCEPT !.e = ev.of, !.row = tx[ev.of], !.event = {ev}, !.amount = ev.amount])
  /\ UNCHANGED <<rows, ledger, provider, count>>

Deliver(w, ev) ==
  /\ "webhook" \in Does[w] /\ ev \in events
  /\ GotoWith(w, "idle", IF ev.kind = "refunded" THEN "h_refund" ELSE "h_dispute",
              [NoLocals EXCEPT !.e = ev.of, !.row = tx[ev.of], !.event = {ev},
                               !.amount = ev.amount - tx[ev.of].refunded])
  /\ UNCHANGED <<rows, ledger, provider, count>>

(* mutant: the webhook notes the amount and leaves the ledger alone *)
HandleRefundedCounts(w) ==
  LET reported == loc[w].amount + Seen(w).refunded IN
  /\ pc[w] = "h_refund"
  /\ tx' = IF loc[w].amount > 0 THEN [tx EXCEPT ![loc[w].e].refunded = reported] ELSE tx
  /\ Goto(w, "h_refund", "h_done")
  /\ UNCHANGED <<obl, op, due, hold, batch, ledger, provider, count>>

HandleRefunded(w) ==
  LET e == loc[w].e
      reported == loc[w].amount + Seen(w).refunded IN
  /\ pc[w] = "h_refund"
  /\ \/ loc[w].amount <= 0 /\ Goto(w, "h_refund", "h_done") /\ UNCHANGED tx
     \/ /\ loc[w].amount > 0 /\ Seen(w).status \notin Refundable
        /\ tx' = [tx EXCEPT ![e].refunded = reported, ![e].review = "needs_review"]
        /\ Goto(w, "h_refund", "h_done")
     \/ /\ loc[w].amount > 0 /\ Seen(w).status = "REFUND_PENDING"
        /\ Goto(w, "h_refund", "s_post") /\ UNCHANGED tx
     \/ /\ loc[w].amount > 0 /\ Seen(w).status \in Refundable \ {"REFUND_PENDING"}
        /\ Transition(w, "h_refund", "REFUND_PENDING", "s_post")
  /\ UNCHANGED <<obl, op, due, hold, batch, ledger, provider, count>>

HandleDispute(w) ==
  /\ IF Seen(w).status \notin TERMINAL /\ "DISPUTED" \in Transitions[Seen(w).status]
     THEN Transition(w, "h_dispute", "DISPUTED", "h_review")
     ELSE Goto(w, "h_dispute", "h_done") /\ UNCHANGED tx
  /\ UNCHANGED <<obl, op, due, hold, batch, ledger, provider, count>>

HandleReview(w) ==
  /\ pc[w] = "h_review"
  /\ tx' = [tx EXCEPT ![loc[w].e].review = "needs_review"] /\ Goto(w, "h_review", "h_done")
  /\ UNCHANGED <<obl, op, due, hold, batch, ledger, provider, count>>

EventDone(w) ==
  /\ events' = events \ loc[w].event /\ Done(w, "h_done")
  /\ UNCHANGED <<rows, ledger, sent, given, count>>

Webhook(w) == HandleRefunded(w) \/ HandleDispute(w) \/ HandleReview(w) \/ EventDone(w)

-----------------------------------------------------------------------------
(* run_scheduled_payouts() and create_and_send_batch() for the seller *)

Promoted == IF hold THEN obl
            ELSE [e \in Earnings |->
                    IF obl[e].state = "accrued" /\ obl[e].batch = 0 /\ e \in due
                    THEN [obl[e] EXCEPT !.state = "available"] ELSE obl[e]]

(* promote_due_obligations() *)
RunStart(w, dry) ==
  /\ IF dry THEN "dry_run" \in Does[w] ELSE "batch" \in Does[w]
  /\ Promoted # obl \/ Within({"available"}) # {}
  /\ obl' = Promoted
  /\ GotoWith(w, "idle", "b_check", [NoLocals EXCEPT !.dry = dry])
  /\ UNCHANGED <<tx, op, due, hold, batch, ledger, provider, count>>

(* payout_hold_active() *)
RunCheck(w) ==
  /\ pc[w] = "b_check"
  /\ IF hold THEN Done(w, "b_check") ELSE Goto(w, "b_check", "b_read")
  /\ UNCHANGED <<rows, ledger, provider, count>>

(* available_obligations() promotes once more and reads *)
RunRead(w) ==
  LET ready == {e \in Earnings : Promoted[e].state = "available" /\ Promoted[e].batch = 0} IN
  /\ pc[w] = "b_read" /\ obl' = Promoted
  /\ IF ready = {} THEN Done(w, "b_read")
     ELSE GotoWith(w, "b_read", "b_prior", [loc[w] EXCEPT !.set = ready, !.nets = Nets])
  /\ UNCHANGED <<tx, op, due, hold, batch, ledger, provider, count>>

(* a live batch of the same obligations is returned and not sent again;    *)
(* otherwise the attempt is numbered by the dead ones                      *)
Dead == {"failed", "aborted"}
Prior(set) == {b \in DOMAIN batch : batch[b].of = set}

RunPrior(w) ==
  /\ pc[w] = "b_prior"
  /\ IF \E b \in Prior(loc[w].set) : batch[b].state \notin Dead THEN Done(w, "b_prior")
     ELSE GotoWith(w, "b_prior", "b_insert", [loc[w] EXCEPT !.n = Cardinality(Prior(loc[w].set))])
  /\ UNCHANGED <<rows, ledger, provider, count>>

RunInsert(w) ==
  /\ pc[w] = "b_insert"
  /\ IF \E b \in Prior(loc[w].set) : batch[b].attempt = loc[w].n
     THEN Done(w, "b_insert") /\ UNCHANGED batch
     ELSE /\ Len(batch) < MaxBatches
          /\ batch' = Append(batch, [of |-> loc[w].set, attempt |-> loc[w].n, cut |-> {},
                                     state |-> "created",
                                     total |-> SumFunctionOnSet(loc[w].nets, loc[w].set)])
          /\ GotoWith(w, "b_insert", "b_claim", [loc[w] EXCEPT !.n = Len(batch) + 1])
  /\ UNCHANGED <<tx, obl, op, due, hold, ledger, provider, count>>

(* The claims and the new total are one commit; the total is made of the   *)
(* amounts read with the obligations.                                      *)
RunClaim(w) ==
  LET n == loc[w].n
      mine == {e \in loc[w].set : obl[e].state = "available" /\ obl[e].batch = 0}
      total == SumFunctionOnSet(loc[w].nets, mine) IN
  /\ pc[w] = "b_claim"
  /\ obl' = [e \in Earnings |-> IF e \in mine THEN [obl[e] EXCEPT !.state = "batched", !.batch = n]
                                ELSE obl[e]]
  /\ IF mine = {} THEN batch' = [batch EXCEPT ![n].state = "failed"] /\ Done(w, "b_claim")
     ELSE batch' = [batch EXCEPT ![n].total = total] /\ Goto(w, "b_claim", "b_net")
  /\ UNCHANGED <<tx, op, due, hold, ledger, provider, count>>

(* clawback auto-netting: the batch pays less by the seller's debt *)
RunNet(w) ==
  LET n == loc[w].n
      cut == IF AutoNet /\ ~loc[w].dry /\ Debt > 0 /\ batch[n].total - Debt >= 1 THEN Debt ELSE 0 IN
  /\ pc[w] = "b_net" /\ batch' = IF cut = 0 THEN batch
              ELSE [batch EXCEPT ![n].total = @ - cut, ![n].cut = Clawbacks]
  /\ Goto(w, "b_net", "b_recheck")
  /\ UNCHANGED <<tx, obl, op, due, hold, ledger, provider, count>>

(* a batch that will not be sent gives its obligations back *)
Release(n) ==
  [e \in Earnings |-> IF obl[e].batch = n THEN [obl[e] EXCEPT !.state = "available", !.batch = 0]
                      ELSE obl[e]]

(* select_rail() again: the seller may have become ineligible *)
RunRecheck(w) ==
  LET n == loc[w].n IN
  /\ pc[w] = "b_recheck"
  /\ \/ /\ IF loc[w].dry THEN Done(w, "b_recheck") ELSE Goto(w, "b_recheck", "b_send")
        /\ UNCHANGED <<obl, batch, count>>
     \/ /\ Fault /\ obl' = Release(n) /\ batch' = [batch EXCEPT ![n].state = "aborted"]
        /\ Done(w, "b_recheck")
  /\ UNCHANGED <<tx, op, due, hold, ledger, provider>>

(* execute_batch(): paid, failed before anything moved, or unknown *)
Paid(w) ==
  sent \cup {[by |-> "batch", of |-> {e \in Earnings : obl[e].batch = loc[w].n},
              amount |-> batch[loc[w].n].total, n |-> loc[w].n]}

RunSend(w) ==
  /\ pc[w] = "b_send"
  /\ \/ Goto(w, "b_send", "b_paid") /\ sent' = Paid(w) /\ UNCHANGED count
     \/ Goto(w, "b_send", "b_release") /\ Fault /\ UNCHANGED sent
     \/ Goto(w, "b_send", "b_unknown") /\ Fault /\ sent' \in {sent, Paid(w)}
  /\ UNCHANGED <<rows, ledger, given, events>>

(* mutant: the obligations of a failed batch keep its id *)
RunReleaseKeepsBatch(w) ==
  LET n == loc[w].n IN
  /\ pc[w] = "b_release"
  /\ obl' = [e \in Earnings |-> IF obl[e].batch = n THEN [obl[e] EXCEPT !.state = "available"] ELSE obl[e]]
  /\ batch' = [batch EXCEPT ![n].state = "failed"] /\ Done(w, "b_release")
  /\ UNCHANGED <<tx, op, due, hold, ledger, provider, count>>

RunRelease(w) ==
  LET n == loc[w].n IN
  /\ pc[w] = "b_release" /\ obl' = Release(n) /\ batch' = [batch EXCEPT ![n].state = "failed"] /\ Done(w, "b_release")
  /\ UNCHANGED <<tx, op, due, hold, ledger, provider, count>>

(* mutant: an unknown outcome releases the obligations like a failure *)
RunUnknownReleases(w) ==
  LET n == loc[w].n IN
  /\ pc[w] = "b_unknown" /\ obl' = Release(n) /\ batch' = [batch EXCEPT ![n].state = "failed"] /\ Done(w, "b_unknown")
  /\ UNCHANGED <<tx, op, due, hold, ledger, provider, count>>

RunUnknown(w) ==
  /\ pc[w] = "b_unknown" /\ batch' = [batch EXCEPT ![loc[w].n].state = "needs_reconciliation"] /\ Done(w, "b_unknown")
  /\ UNCHANGED <<tx, obl, op, due, hold, ledger, provider, count>>

(* batch, obligations and the ledger's debit are one commit *)
RunPaid(w) ==
  LET n == loc[w].n IN
  /\ pc[w] = "b_paid" /\ batch' = [batch EXCEPT ![n].state = "paid"]
  /\ obl' = [e \in Earnings |-> IF obl[e].batch = n THEN [obl[e] EXCEPT !.state = "paid"] ELSE obl[e]]
  /\ payable' = payable - batch[n].total
  /\ Goto(w, "b_paid", "b_recover")
  /\ UNCHANGED <<tx, op, due, hold, booked, provider, count>>

(* _apply_clawback_recovery() *)
RunRecover(w) ==
  /\ pc[w] = "b_recover"
  /\ tx' = [e \in Earnings |->
              IF e \in batch[loc[w].n].cut /\ tx[e].review = "needs_review"
              THEN [tx[e] EXCEPT !.review = "reconciled"] ELSE tx[e]]
  /\ Done(w, "b_recover")
  /\ UNCHANGED <<obl, op, due, hold, batch, ledger, provider, count>>

Run(w) ==
  \/ RunCheck(w) \/ RunRead(w) \/ RunPrior(w) \/ RunInsert(w) \/ RunClaim(w) \/ RunNet(w)
  \/ RunRecheck(w) \/ RunSend(w) \/ RunRelease(w) \/ RunUnknown(w) \/ RunPaid(w)
  \/ RunRecover(w)

-----------------------------------------------------------------------------
(* A process dies between two commits *)
Crash(w) ==
  /\ pc[w] # "idle" /\ count.crashes < MaxCrashes
  /\ count' = [count EXCEPT !.crashes = @ + 1] /\ Done(w, pc[w])
  /\ UNCHANGED <<rows, ledger, provider>>

Proceed(w) == Transfer(w) \/ Refund(w) \/ Webhook(w) \/ Run(w) \/ Retake(w)

Begins(w) ==
  \/ \E e \in Earnings : TransferStart(w, e) \/ \E a \in Amounts : RefundStart(w, e, a)
  \/ \E ev \in events : Deliver(w, ev)
  \/ \E dry \in BOOLEAN : RunStart(w, dry)

Environment ==
  \/ PlaceHold \/ ClearHold
  \/ \E e \in Earnings : Mature(e) \/ Dispute(e) \/ \E a \in Amounts : DashboardRefund(e, a)

Next == Environment \/ \E w \in Workers : Begins(w) \/ Proceed(w) \/ Crash(w)

Spec == Init /\ [][Next]_vars

(* Time passes, a hold is reviewed, requests under way finish, the payout  *)
(* run comes round again and the provider delivers an event until it is    *)
(* processed.                                                              *)
FairSpec ==
  /\ Spec
  /\ WF_vars(\E e \in Earnings : Mature(e)) /\ WF_vars(ClearHold)
  /\ \A w \in Workers : /\ WF_vars(Proceed(w))
                         /\ SF_vars(RunStart(w, FALSE))

-----------------------------------------------------------------------------
(* Properties *)

AtRest == \A w \in Workers : pc[w] = "idle"

(* A seller's earning leaves the platform at most once: by one transfer or *)
(* in one batch, across retries, unknown outcomes, races of payout runs    *)
(* with the administrator's transfer, and deaths half way.                 *)
LeavesOnce == \A e \in Earnings : Cardinality({s \in sent : e \in s.of}) <= 1

(* "persist before any send so we can never over-transfer"                 *)
(* (create_and_send_batch): what a batch sends, with the debts it nets, is *)
(* what its obligations come to, and a refunded earning is not among them. *)
BatchPaysItsEarnings ==
  \A s \in sent : s.by = "batch" =>
    s.amount <= SumFunctionOnSet(Nets, s.of) /\ \A e \in s.of : obl[e].state # "reversed"

(* Between requests, unless an operator is asked to review one of the      *)
(* transactions, the ledger owes the seller what the unpaid obligations    *)
(* come to: "zero when the books are square"                               *)
(* (seller_recoverable_debt_minor).                                        *)
Owed == {"none", "accrued", "available", "batched", "transferring", "reconciling"}
SquareBooks ==
  AtRest /\ count.crashes = 0 /\ (\A e \in Earnings : tx[e].review # "needs_review")
    => payable = SumFunctionOnSet(Nets, Within(Owed))

(* "the books balance ... no matter where the refund started"              *)
(* (_reconcile_refund_ledger): when every webhook is processed, the ledger *)
(* holds what the provider refunded, or the transaction is under review.   *)
RefundsAreBooked ==
  AtRest /\ events = {} /\ count.crashes = 0 =>
    \A e \in Earnings : booked[e] = given[e].amount \/ tx[e].review = "needs_review"

(* "hold each job's earnings for 14 days, then pay the accumulated total   *)
(* once" (run_scheduled_payouts): an earning is paid, reversed or kept by  *)
(* a transfer whose outcome is unknown, or its batch waits for             *)
(* reconciliation, unless a worker died.                                   *)
Unresolved(e) == obl[e].batch # 0 /\ batch[obl[e].batch].state = "needs_reconciliation"
EarningsLeave ==
  \A e \in Earnings : obl[e].state = "accrued" ~>
    (obl[e].state \in {"paid", "reversed", "reconciling"} \/ Unresolved(e) \/ count.crashes > 0)

-----------------------------------------------------------------------------
(* What the code's comments claim and a run refutes *)

(* "still-held money stays 'accrued' past the risk hold and is never       *)
(* batched" (payout_hold_active): nothing is claimed under a hold.         *)
HeldIsNotBatched == [][hold => \A e \in Earnings : obl[e].batch = 0 => obl'[e].batch = 0]_vars

(* "a dispute/report can be reviewed before the money leaves"              *)
(* (_ensure_payout_obligation): a disputed earning is not paid.            *)
DisputedStays ==
  [][\A s \in sent' \ sent : \A e \in s.of : tx[e].status # "DISPUTED"]_vars
=============================================================================
