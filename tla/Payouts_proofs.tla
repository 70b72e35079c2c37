--------------------------- MODULE Payouts_proofs ---------------------------
(***************************************************************************)
(* Three properties of Payouts for any earnings, workers, amounts and      *)
(* bounds: an earning leaves the platform at most once (LeavesOnce), a     *)
(* batch pays no more than its earnings come to (BatchPaysItsEarnings,     *)
(* under the hypothesis that names what breaks it), and a refund recorded  *)
(* as done was made by the provider (RefundsWereMade).                     *)
(*                                                                         *)
(* Two paths take money out: the direct transfer and the batch.  Each      *)
(* claims the obligation first.  LeaveInv says what a claim is worth: an   *)
(* obligation a transfer has claimed is Committed, in no batch and never   *)
(* free again; one in a batch carries its number; a number belongs to one  *)
(* worker, and no payment has been sent under it before that worker sends  *)
(* it.  PayInv adds the amounts in a batch's hands, MadeInv what a request *)
(* knows of its refund before it records it.                               *)
(***************************************************************************)
EXTENDS Payouts, SumTheorems, SequenceTheorems

Fields == DOMAIN NoLocals

(* the places of a worker, by what it may rely on there *)
Choosing == {"t_allow", "t_ensure", "t_claim", "t_own"}
Moving == {"t_begin", "t_pending", "t_call", "t_fail", "t_keep", "t_failed", "t_save",
           "t_finish", "t_post", "t_reconcile", "t_paid", "t_complete"}
Unsending == {"b_claim", "b_net", "b_recheck", "b_send", "b_release"}
Batching == Unsending \cup {"b_paid", "b_unknown"}
Elsewhere == {"idle", "f_pending", "f_begin", "f_call", "f_fail", "f_finish", "s_post", "s_mark",
              "s_call", "s_fail", "s_escalate", "s_finish", "s_back", "s_full", "h_refund",
              "h_dispute", "h_review", "h_done", "b_check", "b_read", "b_prior", "b_insert",
              "b_recover"}

Transfers(w) == pc[w] \in Moving \/ (pc[w] = "retake" /\ loc[w].go = "t_pending")

(* Claimed for a transfer: no batch can claim the obligation any more. *)
Committed(e) == obl[e].batch = 0 /\ obl[e].state \in {"transferring", "reconciling", "paid"}

Shape ==
  /\ DOMAIN pc = Workers /\ DOMAIN loc = Workers /\ \A w \in Workers : DOMAIN loc[w] = Fields
  /\ \E S : batch \in Seq(S)

OblShape ==
  /\ DOMAIN obl = Earnings
  /\ \A e \in Earnings : DOMAIN obl[e] = {"state", "net", "batch"}
  /\ \A e \in Earnings : obl[e].batch \in 0 .. Len(batch)
  /\ \A e \in Earnings : obl[e].state \notin {"batched", "paid"} => obl[e].batch = 0

WorkerOK(w) ==
  /\ pc[w] \in Choosing => loc[w].e \in Earnings
  /\ Transfers(w) => loc[w].e \in Earnings /\ Committed(loc[w].e)
  /\ pc[w] \in Batching => loc[w].n \in 1 .. Len(batch)
  /\ pc[w] = "retake" => loc[w].go \in {"t_pending", "f_call", "s_call"}

OneOwner ==
  \A w, v \in Workers :
    pc[w] \in Batching /\ pc[v] \in Batching /\ loc[w].n = loc[v].n => w = v

IsTransfer(s, e) == s = [by |-> "transfer", of |-> {e}, amount |-> Net, n |-> 0]
IsBatch(s) == s.by = "batch" /\ s.n \in 1 .. Len(batch) /\ s.of \subseteq Earnings

SentOK ==
  \A s \in sent : \/ \E e \in Earnings : IsTransfer(s, e) /\ Committed(e)
                  \/ IsBatch(s) /\ \A e \in s.of : obl[e].batch = s.n

SentOnce ==
  /\ \A s, t \in sent : IsBatch(s) /\ IsBatch(t) /\ s.n = t.n => s = t
  /\ \A s \in sent : \A w \in Workers : IsBatch(s) /\ pc[w] \in Unsending => loc[w].n # s.n

LeaveInv ==
  /\ Shape /\ OblShape /\ (\A w \in Workers : WorkerOK(w)) /\ OneOwner /\ SentOK /\ SentOnce

-----------------------------------------------------------------------------
(* One worker moves *)

Others(w) == \A v \in Workers \ {w} : pc'[v] = pc[v] /\ loc'[v] = loc[v]

LEMMA MoveFacts ==
  ASSUME Shape, NEW w \in Workers, NEW from, NEW to, NEW l, DOMAIN l = Fields,
         GotoWith(w, from, to, l)
  PROVE  /\ pc[w] = from /\ pc'[w] = to /\ loc'[w] = l /\ Others(w)
         /\ DOMAIN pc' = Workers /\ DOMAIN loc' = Workers
         /\ \A v \in Workers : DOMAIN loc'[v] = Fields
BY DEF Shape, GotoWith, Others

LEMMA LocalFields ==
  /\ Fields = {"e", "row", "amount", "ok", "event", "set", "nets", "n", "dry", "key", "go"}
  /\ DOMAIN NoLocals = Fields
BY DEF Fields, NoLocals

(* What a step may do to the obligations: a commitment stays, and so does  *)
(* the number of an obligation that was sent.                              *)
OblStep ==
  \A e \in Earnings :
    /\ Committed(e) => Committed(e)'
    /\ \A s \in sent : IsBatch(s) /\ e \in s.of => obl'[e].batch = obl[e].batch

SameBatches == Len(batch') = Len(batch) /\ \E S : batch' \in Seq(S)

LEMMA WorkerStep ==
  ASSUME LeaveInv, NEW w \in Workers, NEW to, NEW l, DOMAIN l = Fields,
         GotoWith(w, pc[w], to, l), OblStep, OblShape', SameBatches, sent' = sent,
         WorkerOK(w)', to \in Batching => pc[w] \in Batching /\ l.n = loc[w].n,
         to \in Unsending => pc[w] \in Unsending
  PROVE  LeaveInv'
<1>1. /\ pc'[w] = to /\ loc'[w] = l /\ Others(w)
      /\ DOMAIN pc' = Workers /\ DOMAIN loc' = Workers
      /\ \A v \in Workers : DOMAIN loc'[v] = Fields
  BY MoveFacts DEF LeaveInv
<1>2. Shape'
  BY <1>1 DEF Shape, SameBatches
<1>3. ASSUME NEW v \in Workers PROVE WorkerOK(v)'
  <2>1. CASE v = w
    BY <2>1
  <2>2. CASE v # w
    <3>1. pc'[v] = pc[v] /\ loc'[v] = loc[v] /\ WorkerOK(v)
      BY <1>1, <2>2 DEF Others, LeaveInv
    <3> QED BY <3>1 DEF WorkerOK, Transfers, OblStep, SameBatches
  <2> QED BY <2>1, <2>2
<1>8. \A v \in Workers : pc'[v] \in Batching => pc[v] \in Batching /\ loc'[v].n = loc[v].n
  BY <1>1 DEF Others
<1>4. OneOwner'
  <2>1. ASSUME NEW u \in Workers, NEW v \in Workers,
               pc'[u] \in Batching, pc'[v] \in Batching, loc'[u].n = loc'[v].n
        PROVE  u = v
    <3>1. pc[u] \in Batching /\ pc[v] \in Batching /\ loc[u].n = loc[v].n
      BY <1>8, <2>1
    <3> QED BY <3>1 DEF LeaveInv, OneOwner
  <2> QED BY <2>1 DEF OneOwner
<1>5. SentOK'
  BY DEF LeaveInv, SentOK, OblStep, SameBatches, IsBatch
<1>6. \A v \in Workers : pc'[v] \in Unsending => pc[v] \in Unsending /\ loc'[v].n = loc[v].n
  BY <1>1 DEF Others, Batching
<1>7. SentOnce'
  BY <1>6 DEF LeaveInv, SentOnce, SameBatches, IsBatch
<1> QED BY <1>2, <1>3, <1>4, <1>5, <1>7 DEF LeaveInv

LEMMA SameObligations ==
  ASSUME LeaveInv, obl' = obl, batch' = batch
  PROVE  OblStep /\ OblShape' /\ SameBatches
BY DEF LeaveInv, OblShape, OblStep, Committed, SameBatches, Shape

(* to a place where nothing is relied on *)
LEMMA ElsewhereStep ==
  ASSUME LeaveInv, NEW w \in Workers, NEW from, NEW to \in Elsewhere, NEW l, DOMAIN l = Fields,
         GotoWith(w, from, to, l), OblStep, OblShape', SameBatches, sent' = sent
  PROVE  LeaveInv'
<1>1. pc[w] = from /\ pc'[w] = to /\ loc'[w] = l
  BY MoveFacts DEF LeaveInv
<1>2. to \notin Choosing /\ to \notin Moving /\ to \notin Batching /\ to # "retake"
      /\ to \notin Unsending
  BY DEF Elsewhere, Choosing, Moving, Batching, Unsending
<1>3. WorkerOK(w)'
  BY <1>1, <1>2 DEF WorkerOK, Transfers
<1> QED BY <1>1, <1>2, <1>3, WorkerStep

LEMMA DoneStep ==
  ASSUME LeaveInv, NEW w \in Workers, NEW from, Done(w, from),
         OblStep, OblShape', SameBatches, sent' = sent
  PROVE  LeaveInv'
<1>1. "idle" \in Elsewhere
  BY DEF Elsewhere
<1> QED BY <1>1, ElsewhereStep, LocalFields DEF Done

LEMMA ReturnStep ==
  ASSUME LeaveInv, NEW w \in Workers, NEW from, Return(w, from),
         OblStep, OblShape', SameBatches, sent' = sent
  PROVE  LeaveInv'
<1>1. "h_done" \in Elsewhere
  BY DEF Elsewhere
<1>2. DOMAIN loc[w] = Fields
  BY DEF LeaveInv, Shape
<1> QED BY <1>1, <1>2, DoneStep, ElsewhereStep DEF Return, Goto

(* between two places of the transfer *)
LEMMA TransferStep ==
  ASSUME LeaveInv, NEW w \in Workers, NEW from, NEW to \in Moving, NEW l, DOMAIN l = Fields,
         GotoWith(w, from, to, l), l.e = loc[w].e, Transfers(w),
         OblStep, OblShape', SameBatches, sent' = sent
  PROVE  LeaveInv'
<1>1. pc[w] = from /\ pc'[w] = to /\ loc'[w] = l
  BY MoveFacts DEF LeaveInv
<1>2. to \notin Choosing /\ to \notin Batching /\ to # "retake" /\ to \notin Unsending
  BY DEF Choosing, Moving, Batching, Unsending
<1>3. loc[w].e \in Earnings /\ Committed(loc[w].e)
  BY DEF LeaveInv, WorkerOK
<1>4. WorkerOK(w)'
  BY <1>1, <1>2, <1>3 DEF WorkerOK, Transfers, OblStep
<1> QED BY <1>1, <1>2, <1>4, WorkerStep

(* between two places of a batch *)
LEMMA BatchStep ==
  ASSUME LeaveInv, NEW w \in Workers, NEW from \in Batching, NEW to \in Batching,
         Goto(w, from, to), to \in Unsending => from \in Unsending,
         OblStep, OblShape', SameBatches, sent' = sent
  PROVE  LeaveInv'
<1>1. DOMAIN loc[w] = Fields
  BY DEF LeaveInv, Shape
<1>2. pc[w] = from /\ pc'[w] = to /\ loc'[w] = loc[w]
  BY <1>1, MoveFacts DEF LeaveInv, Goto
<1>3. to \notin Choosing /\ to \notin Moving /\ to # "retake"
  BY DEF Choosing, Moving, Batching, Unsending
<1>4. WorkerOK(w)'
  BY <1>2, <1>3 DEF LeaveInv, WorkerOK, Transfers, SameBatches
<1> QED BY <1>1, <1>2, <1>4, WorkerStep DEF Goto

(* transition(): as told, or it raises *)
LEMMA TransitionMoves ==
  ASSUME LeaveInv, NEW w \in Workers, NEW from, NEW s, NEW to, Transition(w, from, s, to)
  PROVE  \/ Done(w, from)
         \/ \E r : /\ GotoWith(w, from, to, Put(w, r)) /\ pc[w] = from
                   /\ DOMAIN Put(w, r) = Fields /\ Put(w, r).e = loc[w].e
<1>1. CASE to = "idle" /\ GotoWith(w, from, to, NoLocals)
  BY <1>1 DEF Done
<1>2. CASE GotoWith(w, from, to, Put(w, tx'[loc[w].e]))
  <2> DEFINE r == tx'[loc[w].e]
  <2>1. DOMAIN Put(w, r) = Fields /\ Put(w, r).e = loc[w].e
    BY LocalFields DEF Put, LeaveInv, Shape
  <2> QED BY <1>2, <2>1 DEF GotoWith
<1> QED BY <1>1, <1>2 DEF Transition

-----------------------------------------------------------------------------
(* Who moves without touching obligations or batches *)

LEMMA InvTransferStart ==
  ASSUME LeaveInv, NEW w \in Workers
  PROVE  /\ \A e \in Earnings : TransferStart(w, e) => LeaveInv'
         /\ TransferAllow(w) \/ TransferOwn(w) => LeaveInv'
<1>1. ASSUME NEW e \in Earnings, TransferStart(w, e) PROVE LeaveInv'
  <2> DEFINE l == [NoLocals EXCEPT !.e = e, !.row = tx[e]]
  <2>1. /\ GotoWith(w, "idle", "t_allow", l) /\ sent' = sent
        /\ OblStep /\ OblShape' /\ SameBatches
    BY <1>1, SameObligations DEF TransferStart, rows, provider
  <2>2. DOMAIN l = Fields /\ l.e = e
    BY LocalFields DEF NoLocals
  <2> HIDE DEF l
  <2>3. pc[w] = "idle" /\ pc'[w] = "t_allow" /\ loc'[w] = l
    BY <2>1, <2>2, MoveFacts DEF LeaveInv
  <2>4. WorkerOK(w)'
    BY <2>2, <2>3 DEF WorkerOK, Transfers, Moving, Batching, Unsending
  <2> QED BY <2>1, <2>2, <2>3, <2>4, WorkerStep DEF Batching, Unsending
<1>2. ASSUME TransferAllow(w) PROVE LeaveInv'
  <2>1. /\ sent' = sent /\ OblStep /\ OblShape' /\ SameBatches
        /\ DOMAIN loc[w] = Fields /\ pc[w] = "t_allow"
    BY <1>2, SameObligations DEF TransferAllow, rows, provider, LeaveInv, Shape
  <2>2. CASE Done(w, "t_allow")
    BY <2>1, <2>2, DoneStep
  <2>3. ASSUME NEW to \in {"t_ensure", "t_claim"}, Goto(w, "t_allow", to) PROVE LeaveInv'
    <3>1. pc'[w] = to /\ loc'[w] = loc[w]
      BY <2>1, <2>3, MoveFacts DEF LeaveInv, Goto
    <3>2. WorkerOK(w)'
      BY <2>1, <3>1 DEF WorkerOK, Transfers, Moving, Batching, Unsending, Choosing, LeaveInv
    <3> QED BY <2>1, <2>3, <3>2, WorkerStep DEF Batching, Unsending, Goto
  <2> QED BY <1>2, <2>2, <2>3 DEF TransferAllow
<1>3. ASSUME TransferOwn(w) PROVE LeaveInv'
  <2>1. /\ sent' = sent /\ OblStep /\ OblShape' /\ SameBatches
        /\ DOMAIN loc[w] = Fields /\ pc[w] = "t_own"
    BY <1>3, SameObligations DEF TransferOwn, rows, provider, LeaveInv, Shape
  <2>2. CASE Done(w, "t_own")
    BY <2>1, <2>2, DoneStep
  <2>3. CASE obl[loc[w].e].state = "transferring" /\ Goto(w, "t_own", "t_begin")
    <3>1. pc'[w] = "t_begin" /\ loc'[w] = loc[w]
      BY <2>1, <2>3, MoveFacts DEF LeaveInv, Goto
    <3>2. loc[w].e \in Earnings
      BY <2>1 DEF LeaveInv, WorkerOK, Choosing
    <3>3. Committed(loc[w].e)
      BY <2>3, <3>2 DEF LeaveInv, OblShape, Committed
    <3>4. WorkerOK(w)'
      BY <2>1, <3>1, <3>2, <3>3
      DEF WorkerOK, Transfers, Moving, Batching, Unsending, Choosing, OblStep
    <3> QED BY <2>1, <2>3, <3>4, WorkerStep DEF Batching, Unsending, Goto
  <2> QED BY <1>3, <2>2, <2>3 DEF TransferOwn
<1> QED BY <1>1, <1>2, <1>3

(* _begin_op(), and the retake of a failed operation *)
LEMMA InvBegin ==
  ASSUME LeaveInv, NEW w \in Workers, NEW from, NEW k, NEW to, Begin(w, from, k, to),
         obl' = obl, batch' = batch, sent' = sent,
         \/ to \in {"f_call", "s_call"}
         \/ to = "t_pending" /\ Transfers(w)
  PROVE  LeaveInv'
<1>1. /\ OblStep /\ OblShape' /\ SameBatches /\ DOMAIN loc[w] = Fields
  BY SameObligations DEF LeaveInv, Shape
<1>2. CASE Goto(w, from, to)
  <2>1. CASE to \in {"f_call", "s_call"}
    BY <1>1, <1>2, <2>1, ElsewhereStep DEF Goto, Elsewhere
  <2>2. CASE to = "t_pending" /\ Transfers(w)
    BY <1>1, <1>2, <2>2, TransferStep DEF Goto, Moving
  <2> QED BY <2>1, <2>2
<1>3. CASE GotoWith(w, from, "retake", [loc[w] EXCEPT !.key = k, !.go = to])
  <2> DEFINE l == [loc[w] EXCEPT !.key = k, !.go = to]
  <2>1. DOMAIN l = Fields /\ l.go = to /\ l.e = loc[w].e
    BY <1>1, LocalFields
  <2>2. GotoWith(w, from, "retake", l)
    BY <1>3
  <2> HIDE DEF l
  <2>3. pc[w] = from /\ pc'[w] = "retake" /\ loc'[w] = l
    BY <2>1, <2>2, MoveFacts DEF LeaveInv
  <2>4. Transfers(w)' => Transfers(w)
    BY <2>1, <2>3 DEF Transfers, Moving
  <2>5. WorkerOK(w)'
    <3>1. loc'[w].e = loc[w].e /\ loc'[w].go \in {"t_pending", "f_call", "s_call"}
      BY <2>1, <2>3
    <3>2. pc'[w] \notin Choosing /\ pc'[w] \notin Batching
      BY <2>3 DEF Choosing, Batching, Unsending
    <3>3. Transfers(w) => loc[w].e \in Earnings /\ Committed(loc[w].e)
      BY DEF LeaveInv, WorkerOK
    <3>4. Transfers(w)' => (loc[w].e \in Earnings /\ Committed(loc[w].e))'
      BY <1>1, <2>4, <3>1, <3>3 DEF OblStep, Committed
    <3> QED BY <3>1, <3>2, <3>4 DEF WorkerOK, Choosing, Batching, Unsending
  <2> QED BY <1>1, <2>1, <2>2, <2>3, <2>5, WorkerStep DEF Batching, Unsending
<1>4. CASE Return(w, from)
  BY <1>1, <1>4, ReturnStep
<1> QED BY <1>2, <1>3, <1>4 DEF Begin

LEMMA InvRetake ==
  ASSUME LeaveInv, NEW w \in Workers, Retake(w)
  PROVE  LeaveInv'
<1> DEFINE l == Put(w, tx[loc[w].e])
<1>1. /\ sent' = sent /\ OblStep /\ OblShape' /\ SameBatches
      /\ GotoWith(w, "retake", loc[w].go, l) /\ pc[w] = "retake"
  BY SameObligations DEF Retake, provider
<1>2. DOMAIN l = Fields /\ l.e = loc[w].e
  BY LocalFields DEF Put, LeaveInv, Shape
<1> HIDE DEF l
<1>3. loc[w].go \in {"t_pending", "f_call", "s_call"}
  BY <1>1 DEF LeaveInv, WorkerOK
<1>4. CASE loc[w].go = "t_pending"
  BY <1>1, <1>2, <1>4, TransferStep DEF Moving, Transfers
<1>5. CASE loc[w].go \in {"f_call", "s_call"}
  BY <1>1, <1>2, <1>5, ElsewhereStep DEF Elsewhere
<1> QED BY <1>3, <1>4, <1>5

(* the steps of the transfer that leave the obligation alone *)
LEMMA InvTransferQuiet ==
  ASSUME LeaveInv, NEW w \in Workers, obl' = obl, batch' = batch, sent' = sent
  PROVE  /\ TransferBegin(w) => LeaveInv'
         /\ TransferPending(w) \/ TransferPost(w) => LeaveInv'
         /\ TransferFailed(w) \/ TransferComplete(w) => LeaveInv'
         /\ TransferFail(w) \/ TransferFinish(w) => LeaveInv'
         /\ TransferSave(w) \/ TransferReconcile(w) => LeaveInv'
<1>1. /\ OblStep /\ OblShape' /\ SameBatches /\ DOMAIN loc[w] = Fields
  BY SameObligations DEF LeaveInv, Shape
<1>2. ASSUME TransferBegin(w) PROVE LeaveInv'
  <2>1. Begin(w, "t_begin", <<"transfer", 0>>, "t_pending") /\ pc[w] = "t_begin"
    BY <1>2 DEF TransferBegin, Begin
  <2> QED BY <2>1, InvBegin DEF Transfers, Moving
<1>3. ASSUME NEW from \in Moving, NEW s, NEW to \in Moving \cup {"idle"}, Transition(w, from, s, to)
      PROVE  LeaveInv'
  <2>1. CASE Done(w, from)
    BY <1>1, <2>1, DoneStep
  <2>2. CASE \E r : /\ GotoWith(w, from, to, Put(w, r)) /\ pc[w] = from
                    /\ DOMAIN Put(w, r) = Fields /\ Put(w, r).e = loc[w].e
    <3>1. PICK r : /\ GotoWith(w, from, to, Put(w, r)) /\ pc[w] = from
                   /\ DOMAIN Put(w, r) = Fields /\ Put(w, r).e = loc[w].e
      BY <2>2
    <3>2. CASE to \in Moving
      BY <1>1, <3>1, <3>2, TransferStep DEF Transfers
    <3>3. CASE to = "idle"
      BY <1>1, <3>1, <3>3, ElsewhereStep DEF Elsewhere
    <3> QED BY <3>2, <3>3
  <2> QED BY <1>3, <2>1, <2>2, TransitionMoves
<1>4. TransferPending(w) \/ TransferPost(w) => LeaveInv'
  BY <1>3 DEF TransferPending, TransferPost, Moving
<1>5. TransferFailed(w) \/ TransferComplete(w) => LeaveInv'
  BY <1>3 DEF TransferFailed, TransferComplete, Moving
<1>6. ASSUME NEW from \in Moving, NEW to \in Moving, NEW r,
             GotoWith(w, from, to, Put(w, r)) \/ Goto(w, from, to)
      PROVE  LeaveInv'
  <2>1. Transfers(w)
    BY <1>6 DEF Transfers, GotoWith, Goto
  <2>2. DOMAIN Put(w, r) = Fields /\ Put(w, r).e = loc[w].e
    BY <1>1, LocalFields DEF Put
  <2> QED BY <1>1, <1>6, <2>1, <2>2, TransferStep DEF Goto
<1>7. TransferFail(w) \/ TransferFinish(w) => LeaveInv'
  BY <1>6 DEF TransferFail, TransferFinish, FinishOp, Moving
<1>8. TransferSave(w) \/ TransferReconcile(w) => LeaveInv'
  BY <1>6 DEF TransferSave, TransferReconcile, Moving
<1> QED BY <1>2, <1>4, <1>5, <1>7, <1>8

-----------------------------------------------------------------------------
(* The steps of the transfer that change an obligation or the transfers *)

LEMMA StateStep ==
  ASSUME LeaveInv, NEW e \in Earnings, NEW s, obl' = [obl EXCEPT ![e].state = s],
         batch' = batch, obl[e].state \notin {"batched", "paid"},
         Committed(e) => s \in {"transferring", "reconciling", "paid"}
  PROVE  OblStep /\ OblShape' /\ SameBatches
<1>1. /\ DOMAIN obl = Earnings /\ DOMAIN obl[e] = {"state", "net", "batch"} /\ obl[e].batch = 0
  BY DEF LeaveInv, OblShape
<1>2. /\ obl'[e].batch = obl[e].batch /\ obl'[e].state = s
      /\ DOMAIN obl'[e] = {"state", "net", "batch"} /\ DOMAIN obl' = Earnings
      /\ \A f \in Earnings \ {e} : obl'[f] = obl[f]
  BY <1>1
<1>3. OblStep
  BY <1>1, <1>2 DEF OblStep, Committed
<1>4. OblShape'
  BY <1>1, <1>2 DEF LeaveInv, OblShape
<1> QED BY <1>3, <1>4 DEF SameBatches, LeaveInv, Shape

LEMMA InvTransferClaims ==
  ASSUME LeaveInv, NEW w \in Workers
  PROVE  /\ TransferEnsure(w) => LeaveInv'
         /\ TransferClaim(w) => LeaveInv'
         /\ TransferKeep(w) => LeaveInv'
         /\ TransferPaid(w) => LeaveInv'
<1> DEFINE e == loc[w].e
<1>1. DOMAIN loc[w] = Fields
  BY DEF LeaveInv, Shape
<1>2. ASSUME TransferEnsure(w) PROVE LeaveInv'
  <2>1. /\ pc[w] = "t_ensure" /\ Goto(w, "t_ensure", "t_claim") /\ sent' = sent /\ batch' = batch
        /\ e \in Earnings
    BY <1>2 DEF TransferEnsure, provider, LeaveInv, WorkerOK, Choosing
  <2>2. OblStep /\ OblShape' /\ SameBatches
    BY <1>2, <2>1, StateStep, SameObligations DEF TransferEnsure, Committed
  <2>3. pc'[w] = "t_claim" /\ loc'[w] = loc[w]
    BY <1>1, <2>1, MoveFacts DEF LeaveInv, Goto
  <2>4. WorkerOK(w)'
    BY <2>1, <2>3 DEF WorkerOK, Transfers, Moving, Batching, Unsending
  <2> QED BY <1>1, <2>1, <2>2, <2>4, WorkerStep DEF Batching, Unsending, Goto
<1>3. ASSUME TransferClaim(w) PROVE LeaveInv'
  <2>1. /\ pc[w] = "t_claim" /\ sent' = sent /\ batch' = batch /\ e \in Earnings
    BY <1>3 DEF TransferClaim, provider, LeaveInv, WorkerOK, Choosing
  <2>2. CASE /\ obl[e].state \in {"accrued", "available", "reconciling"}
             /\ obl' = [obl EXCEPT ![e].state = "transferring"] /\ Goto(w, "t_claim", "t_begin")
    <3>1. OblStep /\ OblShape' /\ SameBatches
      BY <2>1, <2>2, StateStep
    <3>2. pc'[w] = "t_begin" /\ loc'[w] = loc[w]
      BY <1>1, <2>2, MoveFacts DEF LeaveInv, Goto
    <3>3. Committed(e)'
      BY <2>1, <2>2, <3>2 DEF LeaveInv, OblShape, Committed
    <3>4. WorkerOK(w)'
      BY <2>1, <3>2, <3>3 DEF WorkerOK, Choosing, Batching, Unsending
    <3> QED BY <1>1, <2>1, <2>2, <3>1, <3>4, WorkerStep DEF Batching, Unsending, Goto
  <2>3. CASE obl' = obl /\ Goto(w, "t_claim", "t_own")
    <3>1. OblStep /\ OblShape' /\ SameBatches
      BY <2>1, <2>3, SameObligations
    <3>2. pc'[w] = "t_own" /\ loc'[w] = loc[w]
      BY <1>1, <2>3, MoveFacts DEF LeaveInv, Goto
    <3>3. WorkerOK(w)'
      BY <2>1, <3>2 DEF WorkerOK, Transfers, Moving, Batching, Unsending
    <3> QED BY <1>1, <2>1, <2>3, <3>1, <3>3, WorkerStep DEF Batching, Unsending, Goto
  <2> QED BY <1>3, <2>2, <2>3 DEF TransferClaim
<1>4. ASSUME TransferKeep(w) PROVE LeaveInv'
  <2> DEFINE l == Put(w, [Seen(w) EXCEPT !.review = "needs_review"])
  <2>1. /\ pc[w] = "t_keep" /\ GotoWith(w, "t_keep", "t_failed", l) /\ sent' = sent /\ batch' = batch
        /\ Transfers(w) /\ e \in Earnings
    BY <1>4 DEF TransferKeep, provider, LeaveInv, WorkerOK, Transfers, Moving
  <2>2. OblStep /\ OblShape' /\ SameBatches
    BY <1>4, <2>1, StateStep, SameObligations DEF TransferKeep
  <2>3. DOMAIN l = Fields /\ l.e = loc[w].e
    BY <1>1, LocalFields DEF Put
  <2> QED BY <2>1, <2>2, <2>3, TransferStep DEF Moving
<1>5. ASSUME TransferPaid(w) PROVE LeaveInv'
  <2>1. /\ pc[w] = "t_paid" /\ Goto(w, "t_paid", "t_complete") /\ sent' = sent /\ batch' = batch
        /\ Transfers(w) /\ e \in Earnings
    BY <1>5 DEF TransferPaid, provider, LeaveInv, WorkerOK, Transfers, Moving
  <2>2. OblStep /\ OblShape' /\ SameBatches
    BY <1>5, <2>1, StateStep, SameObligations DEF TransferPaid
  <2> QED BY <1>1, <2>1, <2>2, TransferStep DEF Moving, Goto
<1> QED BY <1>2, <1>3, <1>4, <1>5

(* a transfer is made of a committed obligation *)
LEMMA InvTransferCall ==
  ASSUME LeaveInv, NEW w \in Workers, TransferCall(w)
  PROVE  LeaveInv'
<1> DEFINE e == loc[w].e
           s == [by |-> "transfer", of |-> {e}, amount |-> Net, n |-> 0]
<1>1. /\ pc[w] = "t_call" /\ obl' = obl /\ batch' = batch /\ sent' \in {sent, sent \cup {s}}
      /\ \E to \in {"t_save", "t_fail"} : Goto(w, "t_call", to)
  BY DEF TransferCall, Transferred, rows, Goto, GotoWith
<1>2. e \in Earnings /\ Committed(e)
  BY <1>1 DEF LeaveInv, WorkerOK, Transfers, Moving
<1>3. PICK to \in {"t_save", "t_fail"} : Goto(w, "t_call", to)
  BY <1>1
<1>4. OblStep /\ OblShape' /\ SameBatches /\ DOMAIN loc[w] = Fields
  BY <1>1, SameObligations DEF LeaveInv, Shape
<1>5. /\ pc'[w] = to /\ loc'[w] = loc[w] /\ Others(w)
      /\ DOMAIN pc' = Workers /\ DOMAIN loc' = Workers
      /\ \A v \in Workers : DOMAIN loc'[v] = Fields
  BY <1>3, <1>4, MoveFacts DEF LeaveInv, Goto
<1>6. Shape'
  BY <1>4, <1>5 DEF Shape, SameBatches
<1>7. ASSUME NEW v \in Workers PROVE WorkerOK(v)'
  <2>1. CASE v = w
    BY <1>1, <1>2, <1>5, <2>1
    DEF WorkerOK, Transfers, Committed, Choosing, Moving, Batching, Unsending
  <2>2. CASE v # w
    BY <1>1, <1>5, <2>2 DEF Others, LeaveInv, WorkerOK, Transfers, Committed
  <2> QED BY <2>1, <2>2
<1>8. \A v \in Workers : pc'[v] \in Batching => pc[v] \in Batching /\ loc'[v].n = loc[v].n
  BY <1>5 DEF Others, Batching, Unsending
<1>9. OneOwner'
  BY <1>8 DEF LeaveInv, OneOwner
<1>10. IsTransfer(s, e) /\ ~IsBatch(s)
  BY DEF IsTransfer, IsBatch
<1>11. SentOK'
  BY <1>1, <1>2, <1>10 DEF LeaveInv, SentOK, IsBatch, Committed, IsTransfer
<1>12. \A v \in Workers : pc'[v] \in Unsending => pc[v] \in Unsending /\ loc'[v].n = loc[v].n
  BY <1>5 DEF Others, Unsending
<1>13. SentOnce'
  <2> HIDE DEF s
  <2> QED BY <1>1, <1>10, <1>12 DEF LeaveInv, SentOnce, IsBatch
<1> QED BY <1>4, <1>6, <1>7, <1>9, <1>11, <1>13 DEF LeaveInv

-----------------------------------------------------------------------------
(* Refunds, webhooks and the world around rely on nothing. *)

(* what every step of a refund or a webhook is: a move to elsewhere *)
Wanders(w) ==
  \/ \E from : Done(w, from) \/ Return(w, from)
  \/ \E from, to, l : to \in Elsewhere /\ DOMAIN l = Fields /\ GotoWith(w, from, to, l)

LEMMA WanderStep ==
  ASSUME LeaveInv, NEW w \in Workers, Wanders(w), OblStep, OblShape', SameBatches, sent' = sent
  PROVE  LeaveInv'
BY DoneStep, ReturnStep, ElsewhereStep DEF Wanders

LEMMA GotoWanders ==
  ASSUME LeaveInv, NEW w \in Workers
  PROVE  /\ \A from : \A to \in Elsewhere : Goto(w, from, to) => Wanders(w)
         /\ \A from, r : \A to \in Elsewhere : GotoWith(w, from, to, Put(w, r)) => Wanders(w)
         /\ \A from, r, ok : \A to \in Elsewhere :
              GotoWith(w, from, to, [Put(w, r) EXCEPT !.ok = ok]) => Wanders(w)
         /\ \A from, s : \A to \in Elsewhere : Transition(w, from, s, to) => Wanders(w)
<1>1. DOMAIN loc[w] = Fields
  BY DEF LeaveInv, Shape
<1>2. \A r, ok : DOMAIN Put(w, r) = Fields /\ DOMAIN [Put(w, r) EXCEPT !.ok = ok] = Fields
  BY <1>1 DEF Put
<1>3. ASSUME NEW from, NEW s, NEW to \in Elsewhere, Transition(w, from, s, to)
      PROVE  Wanders(w)
  BY <1>3, TransitionMoves DEF Wanders
<1>4. \A from : \A to \in Elsewhere : Goto(w, from, to) => Wanders(w)
  BY <1>1 DEF Goto, Wanders
<1>5. \A from, r : \A to \in Elsewhere : GotoWith(w, from, to, Put(w, r)) => Wanders(w)
  BY <1>2 DEF Wanders
<1>6. \A from, r, ok : \A to \in Elsewhere :
        GotoWith(w, from, to, [Put(w, r) EXCEPT !.ok = ok]) => Wanders(w)
  BY <1>2 DEF Wanders
<1> QED BY <1>3, <1>4, <1>5, <1>6

LEMMA InvRefundQuiet ==
  ASSUME LeaveInv, NEW w \in Workers, obl' = obl, batch' = batch, sent' = sent
  PROVE  /\ RefundPending(w) \/ RefundBegin(w) \/ RefundCall(w) => LeaveInv'
         /\ RefundFail(w) \/ RefundFinish(w) \/ RefundMark(w) \/ RefundFull(w) => LeaveInv'
         /\ ReversalCall(w) \/ ReversalFail(w) \/ ReversalEscalate(w) => LeaveInv'
         /\ ReversalFinish(w) \/ ReversalBack(w) => LeaveInv'
<1>1. OblStep /\ OblShape' /\ SameBatches
  BY SameObligations
<1>2. Wanders(w) => LeaveInv'
  BY <1>1, WanderStep
<1>3. RefundPending(w) => Wanders(w)
  BY GotoWanders DEF RefundPending, Elsewhere
<1>4. RefundBegin(w) => LeaveInv'
  BY InvBegin DEF RefundBegin
<1>5. RefundCall(w) => Wanders(w)
  BY GotoWanders DEF RefundCall, Elsewhere
<1>6. RefundFail(w) \/ RefundFinish(w) \/ RefundMark(w) => Wanders(w)
  BY GotoWanders DEF RefundFail, RefundFinish, RefundMark, FinishOp, Elsewhere, Wanders
<1>7. RefundFull(w) => Wanders(w)
  BY GotoWanders DEF RefundFull, Elsewhere, Wanders
<1>8. ReversalCall(w) \/ ReversalFail(w) \/ ReversalEscalate(w) => Wanders(w)
  BY GotoWanders DEF ReversalCall, ReversalFail, ReversalEscalate, FinishOp, Elsewhere, Wanders
<1>9. ReversalFinish(w) \/ ReversalBack(w) => Wanders(w)
  BY GotoWanders DEF ReversalFinish, ReversalBack, FinishOp, Elsewhere
<1> QED BY <1>2, <1>3, <1>4, <1>5, <1>6, <1>7, <1>8, <1>9

LEMMA InvWebhook ==
  ASSUME LeaveInv, NEW w \in Workers, obl' = obl, batch' = batch, sent' = sent
  PROVE  /\ \A e \in Earnings, a \in Amounts : RefundStart(w, e, a) => LeaveInv'
         /\ \A ev \in events : Deliver(w, ev) => LeaveInv'
         /\ Webhook(w) => LeaveInv'
<1>1. Wanders(w) => LeaveInv'
  BY SameObligations, WanderStep
<1>2. ASSUME NEW e \in Earnings, NEW a \in Amounts, RefundStart(w, e, a) PROVE Wanders(w)
  <2> DEFINE left == Captured - tx[e].refunded
             l == [NoLocals EXCEPT !.e = e, !.row = tx[e], !.amount = IF a < left THEN a ELSE left]
  <2>1. GotoWith(w, "idle", "f_pending", l) /\ DOMAIN l = Fields
    BY <1>2, LocalFields DEF RefundStart
  <2> HIDE DEF l
  <2> QED BY <2>1 DEF Wanders, Elsewhere
<1>3. ASSUME NEW ev \in events, Deliver(w, ev) PROVE Wanders(w)
  <2> DEFINE to == IF ev.kind = "refunded" THEN "h_refund" ELSE "h_dispute"
             l == [NoLocals EXCEPT !.e = ev.of, !.row = tx[ev.of], !.event = {ev},
                                   !.amount = ev.amount - tx[ev.of].refunded]
  <2>1. GotoWith(w, "idle", to, l) /\ DOMAIN l = Fields /\ to \in {"h_refund", "h_dispute"}
    BY <1>3, LocalFields DEF Deliver
  <2> HIDE DEF l, to
  <2> QED BY <2>1 DEF Wanders, Elsewhere
<1>4. HandleRefunded(w) => Wanders(w)
  BY GotoWanders DEF HandleRefunded, Elsewhere
<1>5. HandleDispute(w) \/ HandleReview(w) => Wanders(w)
  BY GotoWanders DEF HandleDispute, HandleReview, Elsewhere
<1>6. EventDone(w) => Wanders(w)
  BY DEF EventDone, Wanders
<1> QED BY <1>1, <1>2, <1>3, <1>4, <1>5, <1>6 DEF Webhook

LEMMA InvShare ==
  ASSUME LeaveInv, NEW w \in Workers
  PROVE  /\ SettleShare(w) => LeaveInv'
         /\ ReversalBegin(w) => LeaveInv'
<1>1. ASSUME SettleShare(w) PROVE LeaveInv'
  <2> DEFINE e == loc[w].e
  <2>1. batch' = batch /\ sent' = sent
    BY <1>1 DEF SettleShare, provider
  <2>2. Wanders(w)
    BY <1>1, GotoWanders DEF SettleShare, AfterPost, Elsewhere
  <2>3. CASE obl' = obl
    BY <2>1, <2>2, <2>3, SameObligations, WanderStep
  <2>4. CASE obl' # obl
    <3>1. /\ obl[e].state \in Unpaid /\ DOMAIN obl = Earnings
          /\ \/ obl' = [obl EXCEPT ![e].state = "reversed"]
             \/ obl' = [obl EXCEPT ![e].net = @ - Share(loc[w].amount)]
      BY <1>1, <2>4 DEF SettleShare, LeaveInv, OblShape
    <3>2. OblStep /\ OblShape' /\ SameBatches
      <4>1. CASE e \in Earnings /\ obl' = [obl EXCEPT ![e].state = "reversed"]
        BY <2>1, <3>1, <4>1, StateStep DEF Unpaid, Committed
      <4>2. CASE e \notin Earnings \/ obl' = [obl EXCEPT ![e].net = @ - Share(loc[w].amount)]
        <5>1. DOMAIN obl' = Earnings
          BY <3>1
        <5>2. \A f \in Earnings : /\ obl'[f].state = obl[f].state /\ obl'[f].batch = obl[f].batch
                                   /\ DOMAIN obl'[f] = {"state", "net", "batch"}
          BY <3>1, <4>2 DEF LeaveInv, OblShape
        <5> QED BY <2>1, <5>1, <5>2 DEF OblStep, OblShape, SameBatches, LeaveInv, Shape, Committed
      <4> QED BY <3>1, <4>1, <4>2
    <3> QED BY <2>1, <2>2, <3>2, WanderStep
  <2> QED BY <2>3, <2>4
<1>2. ASSUME ReversalBegin(w) PROVE LeaveInv'
  <2>1. /\ obl' = obl /\ batch' = batch /\ sent' = sent /\ pc[w] = "s_post"
        /\ OblStep /\ OblShape' /\ SameBatches /\ DOMAIN loc[w] = Fields
    BY <1>2, SameObligations DEF ReversalBegin, provider, LeaveInv, Shape
  <2>2. CASE AfterPost(w, "s_call", FALSE) \/ Return(w, "s_post")
    BY <2>1, <2>2, GotoWanders, WanderStep DEF AfterPost, Elsewhere, Wanders
  <2>3. ASSUME NEW k, GotoWith(w, "s_post", "retake", [loc[w] EXCEPT !.key = k, !.go = "s_call"])
        PROVE  LeaveInv'
    <3> DEFINE l == [loc[w] EXCEPT !.key = k, !.go = "s_call"]
    <3>1. DOMAIN l = Fields /\ l.go = "s_call" /\ GotoWith(w, "s_post", "retake", l)
      BY <2>1, <2>3, LocalFields
    <3> HIDE DEF l
    <3>2. pc'[w] = "retake" /\ loc'[w] = l
      BY <3>1, MoveFacts DEF LeaveInv
    <3>3. WorkerOK(w)'
      BY <3>1, <3>2 DEF WorkerOK, Transfers, Choosing, Moving, Batching, Unsending
    <3> QED BY <2>1, <3>1, <3>2, <3>3, WorkerStep DEF Batching, Unsending
  <2> QED BY <1>2, <2>2, <2>3 DEF ReversalBegin
<1> QED BY <1>1, <1>2

(* the world around *)
LEMMA InvEnvironment ==
  ASSUME LeaveInv, \/ Environment
                   \/ UNCHANGED vars
  PROVE  LeaveInv'
<1>1. /\ pc' = pc /\ loc' = loc /\ obl' = obl /\ batch' = batch /\ sent' = sent
  BY DEF Environment, PlaceHold, ClearHold, Mature, Dispute, DashboardRefund, Give, rows, vars, ledger,
         provider
<1> QED BY <1>1 DEF LeaveInv, Shape, OblShape, WorkerOK, Transfers, OneOwner, SentOK, SentOnce,
                    IsBatch, Committed

-----------------------------------------------------------------------------
(* The payout run *)

LEMMA SameLength ==
  ASSUME LeaveInv, NEW n \in 1 .. Len(batch), NEW b, batch' = [batch EXCEPT ![n] = b]
  PROVE  SameBatches
<1>1. PICK S : batch \in Seq(S)
  BY DEF LeaveInv, Shape
<1>2. batch \in Seq(S \cup {b})
  BY <1>1
<1> QED BY <1>2, ExceptSeq DEF SameBatches

(* the number of a batch is in hand *)
LEMMA InHand ==
  ASSUME LeaveInv, NEW w \in Workers, pc[w] \in Batching
  PROVE  loc[w].n \in 1 .. Len(batch) /\ DOMAIN loc[w] = Fields
BY DEF LeaveInv, WorkerOK, Shape

(* a payment sent in a batch carries the batch's number *)
LEMMA SentNumbers ==
  ASSUME LeaveInv, NEW s \in sent, IsBatch(s)
  PROVE  \A e \in s.of : obl[e].batch = s.n /\ e \in Earnings
BY DEF LeaveInv, SentOK, IsBatch, IsTransfer

LEMMA PromotedStep ==
  ASSUME LeaveInv, obl' = Promoted, batch' = batch
  PROVE  OblStep /\ OblShape' /\ SameBatches
<1>1. /\ DOMAIN obl' = Earnings
      /\ \A e \in Earnings : /\ DOMAIN obl'[e] = {"state", "net", "batch"}
                             /\ obl'[e].batch = obl[e].batch
                             /\ \/ obl'[e].state = obl[e].state
                                \/ /\ obl[e].state = "accrued" /\ obl[e].batch = 0
                                   /\ obl'[e].state = "available"
  BY DEF Promoted, LeaveInv, OblShape
<1> QED BY <1>1 DEF OblStep, OblShape, SameBatches, LeaveInv, Shape, Committed

LEMMA ReleaseStep ==
  ASSUME LeaveInv, NEW w \in Workers, pc[w] \in Unsending, obl' = Release(loc[w].n), SameBatches
  PROVE  OblStep /\ OblShape'
<1> DEFINE n == loc[w].n
<1>1. n \in 1 .. Len(batch)
  BY InHand DEF Batching
<1>2. /\ DOMAIN obl' = Earnings
      /\ \A e \in Earnings : /\ DOMAIN obl'[e] = {"state", "net", "batch"}
                             /\ obl[e].batch = n => obl'[e].batch = 0
                             /\ obl[e].batch # n => obl'[e] = obl[e]
  BY DEF Release, LeaveInv, OblShape
<1>3. \A s \in sent : IsBatch(s) => s.n # n
  BY DEF LeaveInv, SentOnce
<1>4. OblStep
  BY <1>1, <1>2, <1>3, SentNumbers DEF OblStep, Committed
<1>5. OblShape'
  <2>1. \A e \in Earnings : obl'[e].batch \in 0 .. Len(batch)
    BY <1>1, <1>2 DEF LeaveInv, OblShape
  <2>2. \A e \in Earnings : obl'[e].state \notin {"batched", "paid"} => obl'[e].batch = 0
    BY <1>2 DEF LeaveInv, OblShape
  <2> QED BY <1>2, <2>1, <2>2 DEF OblShape, SameBatches
<1> QED BY <1>4, <1>5

(* before there is a batch, and after it is paid *)
LEMMA InvRunReads ==
  ASSUME LeaveInv, NEW w \in Workers
  PROVE  /\ \A dry \in BOOLEAN : RunStart(w, dry) => LeaveInv'
         /\ RunCheck(w) \/ RunPrior(w) \/ RunRecover(w) => LeaveInv'
         /\ RunRead(w) => LeaveInv'
<1>1. DOMAIN loc[w] = Fields
  BY DEF LeaveInv, Shape
<1>2. ASSUME NEW dry \in BOOLEAN, RunStart(w, dry) PROVE LeaveInv'
  <2> DEFINE l == [NoLocals EXCEPT !.dry = dry]
  <2>1. /\ GotoWith(w, "idle", "b_check", l) /\ DOMAIN l = Fields
        /\ obl' = Promoted /\ batch' = batch /\ sent' = sent
    BY <1>2, LocalFields DEF RunStart, provider
  <2> HIDE DEF l
  <2> QED BY <2>1, PromotedStep, ElsewhereStep DEF Elsewhere
<1>3. ASSUME RunCheck(w) \/ RunPrior(w) \/ RunRecover(w) PROVE LeaveInv'
  <2>1. obl' = obl /\ batch' = batch /\ sent' = sent
    BY <1>3 DEF RunCheck, RunPrior, RunRecover, rows, provider
  <2>2. RunCheck(w) => Wanders(w)
    BY GotoWanders DEF RunCheck, Elsewhere, Wanders
  <2>3. RunPrior(w) => Wanders(w)
    <3> DEFINE l == [loc[w] EXCEPT !.n = Cardinality(Prior(loc[w].set))]
    <3>1. DOMAIN l = Fields
      BY <1>1
    <3>2. RunPrior(w) => Done(w, "b_prior") \/ GotoWith(w, "b_prior", "b_insert", l)
      BY DEF RunPrior
    <3> HIDE DEF l
    <3> QED BY <3>1, <3>2 DEF Wanders, Elsewhere
  <2>4. RunRecover(w) => Wanders(w)
    BY DEF RunRecover, Wanders
  <2> QED BY <1>3, <2>1, <2>2, <2>3, <2>4, SameObligations, WanderStep
<1>4. ASSUME RunRead(w) PROVE LeaveInv'
  <2>1. obl' = Promoted /\ batch' = batch /\ sent' = sent
    BY <1>4 DEF RunRead, provider
  <2> DEFINE ready == {e \in Earnings : Promoted[e].state = "available" /\ Promoted[e].batch = 0}
             l == [loc[w] EXCEPT !.set = ready, !.nets = Nets]
  <2>2. DOMAIN l = Fields
    BY <1>1
  <2>3. Done(w, "b_read") \/ GotoWith(w, "b_read", "b_prior", l)
    BY <1>4 DEF RunRead
  <2> HIDE DEF l
  <2>4. Wanders(w)
    BY <2>2, <2>3 DEF Wanders, Elsewhere
  <2> QED BY <2>1, <2>4, PromotedStep, WanderStep
<1> QED BY <1>2, <1>3, <1>4

(* a new batch has a number nobody else holds and nothing was sent under *)
LEMMA InvRunInsert ==
  ASSUME LeaveInv, NEW w \in Workers, RunInsert(w)
  PROVE  LeaveInv'
<1>1. obl' = obl /\ sent' = sent /\ DOMAIN loc[w] = Fields
  BY DEF RunInsert, provider, LeaveInv, Shape
<1>2. CASE Done(w, "b_insert") /\ batch' = batch
  BY <1>1, <1>2, SameObligations, DoneStep
<1>3. ASSUME NEW b, batch' = Append(batch, b),
             GotoWith(w, "b_insert", "b_claim", [loc[w] EXCEPT !.n = Len(batch) + 1])
      PROVE  LeaveInv'
  <2> DEFINE l == [loc[w] EXCEPT !.n = Len(batch) + 1]
  <2>1. DOMAIN l = Fields /\ l.n = Len(batch) + 1
    BY <1>1, LocalFields
  <2>2. GotoWith(w, "b_insert", "b_claim", l)
    BY <1>3
  <2> HIDE DEF l
  <2>3. /\ pc[w] = "b_insert" /\ pc'[w] = "b_claim" /\ loc'[w] = l /\ Others(w)
        /\ DOMAIN pc' = Workers /\ DOMAIN loc' = Workers
        /\ \A v \in Workers : DOMAIN loc'[v] = Fields
    BY <2>1, <2>2, MoveFacts DEF LeaveInv
  <2>4. Len(batch) \in Nat /\ Len(batch') = Len(batch) + 1 /\ \E S : batch' \in Seq(S)
    <3>1. PICK S : batch \in Seq(S)
      BY DEF LeaveInv, Shape
    <3>2. batch \in Seq(S \cup {b})
      BY <3>1
    <3> QED BY <1>3, <3>1, <3>2, AppendProperties, LenProperties
  <2>5. Shape' /\ OblShape'
    BY <1>1, <2>3, <2>4 DEF LeaveInv, Shape, OblShape
  <2>6. ASSUME NEW v \in Workers PROVE WorkerOK(v)'
    <3>1. CASE v = w
      BY <2>1, <2>3, <2>4, <3>1
      DEF WorkerOK, Transfers, Choosing, Moving, Batching, Unsending
    <3>2. CASE v # w
      <4>1. pc'[v] = pc[v] /\ loc'[v] = loc[v] /\ WorkerOK(v)
        BY <2>3, <3>2 DEF Others, LeaveInv
      <4> QED BY <1>1, <2>4, <4>1 DEF WorkerOK, Transfers, Committed
    <3> QED BY <3>1, <3>2
  <2>7. \A v \in Workers : pc[v] \in Batching => loc[v].n \in 1 .. Len(batch)
    BY DEF LeaveInv, WorkerOK
  <2>8. ASSUME NEW u \in Workers, NEW v \in Workers,
               pc'[u] \in Batching, pc'[v] \in Batching, loc'[u].n = loc'[v].n
        PROVE  u = v
    BY <2>1, <2>3, <2>4, <2>7, <2>8 DEF Others, LeaveInv, OneOwner
  <2>9. OneOwner'
    BY <2>8 DEF OneOwner
  <2>10. \A s \in sent : IsBatch(s) => IsBatch(s)'
    BY <2>4 DEF IsBatch
  <2>11. SentOK'
    BY <1>1, <2>10 DEF LeaveInv, SentOK, Committed
  <2>12. \A s \in sent : IsBatch(s)' => IsBatch(s)
    BY DEF LeaveInv, SentOK, IsBatch, IsTransfer
  <2>13. SentOnce'
    BY <1>1, <2>1, <2>3, <2>4, <2>12 DEF LeaveInv, SentOnce, IsBatch, Others, Batching
  <2> QED BY <2>5, <2>6, <2>9, <2>11, <2>13 DEF LeaveInv
<1> QED BY <1>2, <1>3 DEF RunInsert

(* a claim takes only what is free; nothing sent or committed is *)
LEMMA InvRunClaim ==
  ASSUME LeaveInv, NEW w \in Workers, RunClaim(w)
  PROVE  LeaveInv'
<1> DEFINE n == loc[w].n
           mine == {e \in loc[w].set : obl[e].state = "available" /\ obl[e].batch = 0}
           total == SumFunctionOnSet(loc[w].nets, mine)
<1>1. /\ pc[w] = "b_claim" /\ sent' = sent
      /\ obl' = [e \in Earnings |-> IF e \in mine THEN [obl[e] EXCEPT !.state = "batched", !.batch = n]
                                   ELSE obl[e]]
  BY DEF RunClaim, provider
<1>2. n \in 1 .. Len(batch)
  BY <1>1, InHand DEF Batching, Unsending
<1>3. \/ batch' = [batch EXCEPT ![n].state = "failed"] /\ Done(w, "b_claim")
      \/ batch' = [batch EXCEPT ![n].total = total] /\ Goto(w, "b_claim", "b_net")
  BY DEF RunClaim
<1> HIDE DEF total
<1>4. SameBatches
  <2>1. PICK b : batch' = [batch EXCEPT ![n] = b]
    BY <1>3
  <2> QED BY <1>2, <2>1, SameLength
<1>5. /\ DOMAIN obl' = Earnings
      /\ \A e \in Earnings \ mine : obl'[e] = obl[e]
      /\ \A e \in Earnings \cap mine :
           /\ DOMAIN obl'[e] = {"state", "net", "batch"} /\ obl'[e].batch = n /\ obl'[e].state = "batched"
           /\ obl[e].batch = 0 /\ obl[e].state = "available"
  BY <1>1 DEF LeaveInv, OblShape
<1> HIDE DEF n, mine
<1>6. OblShape'
  BY <1>2, <1>4, <1>5 DEF LeaveInv, OblShape, SameBatches
<1>7. OblStep
  <2>1. ASSUME NEW e \in Earnings, NEW s \in sent, IsBatch(s), e \in s.of
        PROVE  obl'[e].batch = obl[e].batch
    BY <1>5, <2>1, SentNumbers DEF IsBatch
  <2> QED BY <1>5, <2>1 DEF OblStep, Committed
<1> QED BY <1>1, <1>3, <1>4, <1>6, <1>7, DoneStep, BatchStep DEF Batching, Unsending

LEMMA InvRunBatch ==
  ASSUME LeaveInv, NEW w \in Workers
  PROVE  /\ RunNet(w) => LeaveInv'
         /\ RunRecheck(w) \/ RunRelease(w) => LeaveInv'
         /\ RunUnknown(w) => LeaveInv'
         /\ RunPaid(w) => LeaveInv'
<1> DEFINE n == loc[w].n
<1>1. ASSUME RunNet(w) PROVE LeaveInv'
  <2>1. /\ pc[w] = "b_net" /\ Goto(w, "b_net", "b_recheck") /\ obl' = obl /\ sent' = sent
        /\ n \in 1 .. Len(batch)
    BY <1>1, InHand DEF RunNet, provider, Batching, Unsending
  <2>2. batch' = batch \/ \E b : batch' = [batch EXCEPT ![n] = b]
    BY <1>1 DEF RunNet
  <2>3. SameBatches
    BY <2>1, <2>2, SameLength, SameObligations
  <2>4. OblStep /\ OblShape'
    BY <2>1, <2>3 DEF OblStep, OblShape, SameBatches, LeaveInv, Committed
  <2> QED BY <2>1, <2>3, <2>4, BatchStep DEF Batching, Unsending
<1>2. ASSUME RunRecheck(w) \/ RunRelease(w) PROVE LeaveInv'
  <2>1. /\ pc[w] \in {"b_recheck", "b_release"} /\ sent' = sent /\ n \in 1 .. Len(batch)
    BY <1>2, InHand DEF RunRecheck, RunRelease, provider, Batching, Unsending
  <2>2. CASE /\ obl' = Release(n) /\ \E from : Done(w, from)
             /\ \E s : batch' = [batch EXCEPT ![n].state = s]
    <3>1. PICK s : batch' = [batch EXCEPT ![n].state = s]
      BY <2>2
    <3> DEFINE b == [batch[n] EXCEPT !.state = s]
    <3>2. batch' = [batch EXCEPT ![n] = b]
      BY <3>1
    <3> HIDE DEF b
    <3>3. SameBatches
      BY <2>1, <3>2, SameLength
    <3> QED BY <2>1, <2>2, <3>3, ReleaseStep, DoneStep DEF Unsending
  <2>3. CASE obl' = obl /\ batch' = batch /\ (Done(w, "b_recheck") \/ Goto(w, "b_recheck", "b_send"))
    BY <2>1, <2>3, SameObligations, DoneStep, BatchStep DEF Batching, Unsending
  <2> QED BY <1>2, <2>2, <2>3 DEF RunRecheck, RunRelease
<1>3. ASSUME RunUnknown(w) PROVE LeaveInv'
  <2>1. /\ pc[w] = "b_unknown" /\ Done(w, "b_unknown") /\ obl' = obl /\ sent' = sent
        /\ n \in 1 .. Len(batch)
    BY <1>3, InHand DEF RunUnknown, provider, Batching
  <2>2. \E b : batch' = [batch EXCEPT ![n] = b]
    BY <1>3 DEF RunUnknown
  <2>3. SameBatches
    BY <2>1, <2>2, SameLength
  <2>4. OblStep /\ OblShape'
    BY <2>1, <2>3 DEF OblStep, OblShape, SameBatches, LeaveInv, Committed
  <2> QED BY <2>1, <2>3, <2>4, DoneStep
<1>4. ASSUME RunPaid(w) PROVE LeaveInv'
  <2>1. /\ pc[w] = "b_paid" /\ Goto(w, "b_paid", "b_recover") /\ sent' = sent
        /\ n \in 1 .. Len(batch)
        /\ obl' = [e \in Earnings |-> IF obl[e].batch = n THEN [obl[e] EXCEPT !.state = "paid"]
                                     ELSE obl[e]]
    BY <1>4, InHand DEF RunPaid, provider, Batching
  <2>2. \E b : batch' = [batch EXCEPT ![n] = b]
    BY <1>4 DEF RunPaid
  <2>3. SameBatches
    BY <2>1, <2>2, SameLength
  <2>4. /\ DOMAIN obl' = Earnings
        /\ \A e \in Earnings : /\ DOMAIN obl'[e] = {"state", "net", "batch"}
                               /\ obl'[e].batch = obl[e].batch
                               /\ obl'[e].state \in {obl[e].state, "paid"}
                               /\ obl[e].batch = 0 => obl'[e] = obl[e]
    BY <2>1 DEF LeaveInv, OblShape
  <2>5. OblStep
    BY <2>4 DEF OblStep, Committed
  <2>6. OblShape'
    BY <2>3, <2>4 DEF OblShape, SameBatches, LeaveInv
  <2>7. Wanders(w)
    BY <2>1, GotoWanders DEF Elsewhere
  <2> QED BY <2>1, <2>3, <2>5, <2>6, <2>7, WanderStep
<1> QED BY <1>1, <1>2, <1>3, <1>4

(* one payment under the number in hand, and it is not in hand afterwards *)
LEMMA InvRunSend ==
  ASSUME LeaveInv, NEW w \in Workers, RunSend(w)
  PROVE  LeaveInv'
<1> DEFINE n == loc[w].n
           of == {e \in Earnings : obl[e].batch = n}
           s == [by |-> "batch", of |-> of, amount |-> batch[n].total, n |-> n]
<1>1. pc[w] = "b_send" /\ obl' = obl /\ batch' = batch /\ n \in 1 .. Len(batch)
  BY InHand DEF RunSend, Goto, GotoWith, rows, Batching, Unsending
<1>2. OblStep /\ OblShape' /\ SameBatches /\ DOMAIN loc[w] = Fields
  BY <1>1, SameObligations DEF LeaveInv, Shape
<1>3. CASE Goto(w, "b_send", "b_release") /\ sent' = sent
  BY <1>2, <1>3, BatchStep DEF Batching, Unsending
<1>4. CASE Goto(w, "b_send", "b_unknown") /\ sent' = sent
  BY <1>2, <1>4, BatchStep DEF Batching, Unsending
<1>5. ASSUME NEW to \in {"b_paid", "b_unknown"}, Goto(w, "b_send", to), sent' = sent \cup {s}
      PROVE  LeaveInv'
  <2>1. /\ pc'[w] = to /\ loc'[w] = loc[w] /\ Others(w)
        /\ DOMAIN pc' = Workers /\ DOMAIN loc' = Workers
        /\ \A v \in Workers : DOMAIN loc'[v] = Fields
    BY <1>2, <1>5, MoveFacts DEF LeaveInv, Goto
  <2>2. Shape'
    BY <1>2, <2>1 DEF Shape, SameBatches
  <2>3. ASSUME NEW v \in Workers PROVE WorkerOK(v)'
    <3>1. CASE v = w
      BY <1>1, <2>1, <3>1 DEF WorkerOK, Transfers, Choosing, Moving, Batching, Unsending
    <3>2. CASE v # w
      <4>1. pc'[v] = pc[v] /\ loc'[v] = loc[v] /\ WorkerOK(v)
        BY <2>1, <3>2 DEF Others, LeaveInv
      <4> QED BY <1>1, <4>1 DEF WorkerOK, Transfers, Committed
    <3> QED BY <3>1, <3>2
  <2>4. \A v \in Workers : pc'[v] \in Batching => pc[v] \in Batching /\ loc'[v].n = loc[v].n
    BY <1>1, <2>1 DEF Others, Batching, Unsending
  <2>5. OneOwner'
    BY <2>4 DEF LeaveInv, OneOwner
  <2>6. IsBatch(s) /\ s.n = n /\ \A e \in s.of : obl[e].batch = s.n
    BY <1>1 DEF IsBatch
  <2> HIDE DEF s
  <2>7. SentOK'
    BY <1>1, <1>5, <2>6 DEF LeaveInv, SentOK, IsBatch, Committed, IsTransfer
  <2>8. \A t \in sent : IsBatch(t) => t.n # n
    BY <1>1 DEF LeaveInv, SentOnce, Unsending
  <2>9. \A v \in Workers : pc'[v] \in Unsending =>
          pc[v] \in Unsending /\ loc'[v].n = loc[v].n /\ loc[v].n # n
    BY <1>1, <1>5, <2>1 DEF Others, LeaveInv, OneOwner, Batching, Unsending
  <2>10. SentOnce'
    BY <1>1, <1>5, <2>6, <2>8, <2>9 DEF LeaveInv, SentOnce, IsBatch
  <2> QED BY <1>2, <2>2, <2>3, <2>5, <2>7, <2>10 DEF LeaveInv
<1> QED BY <1>3, <1>4, <1>5 DEF RunSend, Paid

-----------------------------------------------------------------------------
LEMMA InitLeaves == Init => LeaveInv
<1> SUFFICES ASSUME Init PROVE LeaveInv
  OBVIOUS
<1>1. batch = <<>> /\ sent = {} /\ Len(batch) = 0 /\ \E S : batch \in Seq(S)
  BY DEF Init
<1>2. /\ DOMAIN pc = Workers /\ DOMAIN loc = Workers
      /\ \A w \in Workers : pc[w] = "idle" /\ loc[w] = NoLocals
  BY DEF Init
<1>3. Shape
  BY <1>1, <1>2, LocalFields DEF Shape
<1>4. OblShape
  BY <1>1 DEF Init, OblShape
<1>5. \A w \in Workers : WorkerOK(w) /\ pc[w] \notin Batching /\ pc[w] \notin Unsending
  BY <1>2 DEF WorkerOK, Transfers, Choosing, Moving, Batching, Unsending
<1> QED BY <1>1, <1>3, <1>4, <1>5 DEF LeaveInv, OneOwner, SentOK, SentOnce

LEMMA NextLeaves == LeaveInv /\ [Next]_vars => LeaveInv'
<1> SUFFICES ASSUME LeaveInv, [Next]_vars PROVE LeaveInv'
  OBVIOUS
<1>1. CASE Environment \/ UNCHANGED vars
  BY <1>1, InvEnvironment
<1>2. ASSUME NEW w \in Workers, Begins(w) PROVE LeaveInv'
  <2>1. CASE \E e \in Earnings : TransferStart(w, e)
    BY <2>1, InvTransferStart
  <2>2. CASE \E e \in Earnings, a \in Amounts : RefundStart(w, e, a)
    BY <2>2, InvWebhook DEF RefundStart, rows, provider
  <2>3. CASE \E ev \in events : Deliver(w, ev)
    BY <2>3, InvWebhook DEF Deliver, rows, provider
  <2>4. CASE \E dry \in BOOLEAN : RunStart(w, dry)
    BY <2>4, InvRunReads
  <2> QED BY <1>2, <2>1, <2>2, <2>3, <2>4 DEF Begins
<1>3. ASSUME NEW w \in Workers, Transfer(w) PROVE LeaveInv'
  <2>1. CASE TransferAllow(w) \/ TransferOwn(w)
    BY <2>1, InvTransferStart
  <2>2. CASE TransferEnsure(w) \/ TransferClaim(w) \/ TransferKeep(w) \/ TransferPaid(w)
    BY <2>2, InvTransferClaims
  <2>3. CASE TransferCall(w)
    BY <2>3, InvTransferCall
  <2>4. CASE TransferBegin(w) \/ TransferPending(w) \/ TransferFail(w) \/ TransferFailed(w)
    BY <2>4, InvTransferQuiet
    DEF TransferBegin, TransferPending, TransferFail, TransferFailed, provider
  <2>5. CASE \/ TransferSave(w) \/ TransferFinish(w) \/ TransferPost(w)
             \/ TransferReconcile(w) \/ TransferComplete(w)
    BY <2>5, InvTransferQuiet
    DEF TransferSave, TransferFinish, TransferPost, TransferReconcile, TransferComplete, provider
  <2> QED BY <1>3, <2>1, <2>2, <2>3, <2>4, <2>5 DEF Transfer
<1>4. ASSUME NEW w \in Workers, Refund(w) PROVE LeaveInv'
  <2>1. CASE SettleShare(w) \/ ReversalBegin(w)
    BY <2>1, InvShare
  <2>2. CASE \/ RefundPending(w) \/ RefundBegin(w) \/ RefundCall(w) \/ RefundFail(w)
             \/ RefundFinish(w) \/ RefundMark(w) \/ RefundFull(w)
    <3>1. obl' = obl /\ batch' = batch /\ sent' = sent
      BY <2>2 DEF RefundPending, RefundBegin, RefundCall, RefundFail, RefundFinish, RefundMark,
                  RefundFull, rows, provider
    <3> QED BY <2>2, <3>1, InvRefundQuiet
  <2>3. CASE \/ ReversalCall(w) \/ ReversalFail(w) \/ ReversalEscalate(w)
             \/ ReversalFinish(w) \/ ReversalBack(w)
    <3>1. obl' = obl /\ batch' = batch /\ sent' = sent
      BY <2>3 DEF ReversalCall, ReversalFail, ReversalEscalate, ReversalFinish, ReversalBack,
                  rows, provider
    <3> QED BY <2>3, <3>1, InvRefundQuiet
  <2> QED BY <1>4, <2>1, <2>2, <2>3 DEF Refund
<1>5. ASSUME NEW w \in Workers, Webhook(w) PROVE LeaveInv'
  <2>1. obl' = obl /\ batch' = batch /\ sent' = sent
    BY <1>5 DEF Webhook, HandleRefunded, HandleDispute, HandleReview, EventDone, rows, provider
  <2> QED BY <1>5, <2>1, InvWebhook
<1>6. ASSUME NEW w \in Workers, Run(w) PROVE LeaveInv'
  <2>1. CASE RunCheck(w) \/ RunRead(w) \/ RunPrior(w) \/ RunRecover(w)
    BY <2>1, InvRunReads
  <2>2. CASE RunInsert(w) \/ RunClaim(w) \/ RunSend(w)
    BY <2>2, InvRunInsert, InvRunClaim, InvRunSend
  <2>3. CASE RunNet(w) \/ RunRecheck(w) \/ RunRelease(w) \/ RunUnknown(w) \/ RunPaid(w)
    BY <2>3, InvRunBatch
  <2> QED BY <1>6, <2>1, <2>2, <2>3 DEF Run
<1>7. ASSUME NEW w \in Workers, Crash(w) PROVE LeaveInv'
  <2>1. Done(w, pc[w]) /\ obl' = obl /\ batch' = batch /\ sent' = sent
    BY <1>7 DEF Crash, rows, provider
  <2> QED BY <2>1, SameObligations, DoneStep
<1> QED BY <1>1, <1>2, <1>3, <1>4, <1>5, <1>6, <1>7, InvRetake DEF Next, Proceed

(* Two payments of one earning are the same payment: a transfer's earning  *)
(* is in no batch, and a batch's number is the one on its obligations.     *)
LEMMA InvLeavesOnce == LeaveInv => LeavesOnce
<1> SUFFICES ASSUME LeaveInv, NEW e \in Earnings
             PROVE  Cardinality({s \in sent : e \in s.of}) <= 1
  BY DEF LeavesOnce
<1>1. ASSUME NEW s \in sent, NEW t \in sent, e \in s.of, e \in t.of PROVE s = t
  <2>1. \A u \in sent : e \in u.of => \/ IsTransfer(u, e) /\ obl[e].batch = 0
                                      \/ IsBatch(u) /\ obl[e].batch = u.n /\ u.n # 0
    BY DEF LeaveInv, SentOK, IsTransfer, IsBatch, Committed
  <2>2. CASE obl[e].batch = 0
    BY <1>1, <2>1, <2>2 DEF IsTransfer
  <2>3. CASE obl[e].batch # 0
    BY <1>1, <2>1, <2>3 DEF LeaveInv, SentOnce
  <2> QED BY <2>2, <2>3
<1> DEFINE S == {s \in sent : e \in s.of}
<1>2. S = {} \/ \E s : S = {s}
  BY <1>1
<1> HIDE DEF S
<1>3. Cardinality(S) <= 1
  <2>1. CASE S = {}
    BY <2>1, FS_EmptySet
  <2>2. ASSUME NEW s, S = {s} PROVE Cardinality(S) = 1
    BY <2>2, FS_Singleton
  <2> QED BY <1>2, <2>1, <2>2
<1> QED BY <1>3 DEF S

(* A seller's earning leaves the platform at most once, however transfers, *)
(* batches, refunds, webhooks, errors of the provider and deaths of        *)
(* processes follow each other.                                            *)
THEOREM EarningLeavesOnce == Spec => []LeavesOnce
<1>1. Spec => []LeaveInv
  BY InitLeaves, NextLeaves, PTL DEF Spec
<1> QED BY <1>1, InvLeavesOnce, PTL

-----------------------------------------------------------------------------
(* What a batch sends (BatchPaysItsEarnings): when refunds are full, or    *)
(* when no other process refunds while one pays out.  A partial refund     *)
(* between the reading of the obligations and the claim is why there is a  *)
(* hypothesis.                                                             *)

FullRefunds == Amounts \subseteq {Captured}
Paying == {"batch", "dry_run"}
Refunders == {"refund", "webhook"}
Apart ==
  \A w, v \in Workers : w # v /\ Does[w] \cap Paying # {} => Does[v] \cap Refunders = {}

Refunding == {"f_pending", "f_begin", "f_call", "f_fail", "f_finish", "s_post", "s_mark",
              "s_call", "s_fail", "s_escalate", "s_finish", "s_back", "s_full"}
Handling == {"h_refund", "h_dispute", "h_review", "h_done"}
Reading == {"b_prior", "b_insert", "b_claim"}
Holding == {"b_net", "b_recheck", "b_send", "b_paid"}
Running == Reading \cup Holding \cup {"b_check", "b_read", "b_release", "b_unknown", "b_recover"}

RowFields == {"status", "moved", "refunded", "reversed", "review"}
BatchFields == {"of", "attempt", "total", "cut", "state"}

(* a transaction's row, and the amount of a refund *)
RowOK(row) ==
  /\ DOMAIN row = RowFields /\ row.refunded \in Int
  /\ FullRefunds => row.refunded = 0 \/ row.refunded >= Captured
Whole(a) == a \in Int /\ (FullRefunds => a >= Captured)

(* what a worker's local variables say of themselves *)
LocalsOK(w, p, l) ==
  /\ DOMAIN l = Fields /\ RowOK(l.row)
  /\ p \in Choosing \cup Moving \cup Refunding \cup Handling \cup {"retake"} => l.e \in Earnings
  /\ p \in Refunding \/ (p = "retake" /\ l.go # "t_pending") =>
       Whole(l.amount) /\ Does[w] \cap Refunders # {}
  /\ p = "h_refund" => /\ l.amount \in Int /\ Does[w] \cap Refunders # {}
                       /\ FullRefunds /\ l.amount > 0 => l.amount >= Captured
  /\ p \in Running => Does[w] \cap Paying # {}
  /\ p \in Reading => l.set \subseteq Earnings

TxOK == DOMAIN tx = Earnings /\ \A e \in Earnings : RowOK(tx[e])

RowsOK ==
  /\ TxOK
  /\ \A e \in Earnings : obl[e].net \in Int
  /\ payable \in Int
  /\ \A n \in 1 .. Len(batch) : DOMAIN batch[n] = BatchFields

ProviderOK ==
  /\ DOMAIN given = Earnings
  /\ \A e \in Earnings : /\ DOMAIN given[e] = {"amount", "keys"} /\ given[e].amount \in Int
                         /\ FullRefunds => given[e].amount >= 0
  /\ \A ev \in events : /\ ev.of \in Earnings /\ ev.amount \in Int
                        /\ FullRefunds /\ ev.kind = "refunded" => ev.amount = Captured

(* the batch in hand: it was made of the obligations' amounts, none carried *)
(* its number before the claim, and it comes to no more than those that do *)
HandOK(w) ==
  /\ pc[w] \in Reading => \A e \in loc[w].set : loc[w].nets[e] = obl[e].net
  /\ pc[w] = "b_claim" => \A e \in Earnings : obl[e].batch # loc[w].n
  /\ pc[w] \in Holding =>
       /\ batch[loc[w].n].total \in Int
       /\ batch[loc[w].n].total <= SumFunctionOnSet(Nets, {e \in Earnings : obl[e].batch = loc[w].n})

SentPays ==
  \A s \in sent : s.by = "batch" => s.amount <= SumFunctionOnSet(Nets, s.of)

PayInv ==
  /\ \A w \in Workers : LocalsOK(w, pc[w], loc[w]) /\ HandOK(w)
  /\ RowsOK /\ ProviderOK /\ SentPays

-----------------------------------------------------------------------------
(* Sums over the obligations *)

LEMMA SumKept ==
  ASSUME NEW S \in SUBSET Earnings, NEW f, NEW g, \A e \in S : f[e] = g[e]
  PROVE  SumFunctionOnSet(f, S) = SumFunctionOnSet(g, S)
BY FS_Subset, SumSame, WorkAssumption

LEMMA SumInt ==
  ASSUME NEW S \in SUBSET Earnings, NEW f, \A e \in S : f[e] \in Int
  PROVE  SumFunctionOnSet(f, S) \in Int
BY FS_Subset, SumType, WorkAssumption

(* What a worker's step leaves to the others: the amounts of obligations   *)
(* in a batch, the amounts another one has read, the batch in its hand.    *)
KeepsNets(w) ==
  /\ \A e \in Earnings : obl[e].batch # 0 => obl'[e].net = obl[e].net
  /\ \A v \in Workers \ {w} : pc[v] \in Reading => \A e \in Earnings : obl'[e].net = obl[e].net

KeepsHands(w) ==
  \A v \in Workers \ {w} : pc[v] \in Batching =>
    /\ batch'[loc[v].n].total = batch[loc[v].n].total
    /\ \A e \in Earnings : obl'[e].batch = loc[v].n <=> obl[e].batch = loc[v].n

LEMMA SameHands ==
  ASSUME NEW w \in Workers, obl' = obl, batch' = batch
  PROVE  KeepsNets(w) /\ KeepsHands(w)
BY DEF KeepsNets, KeepsHands

LEMMA OtherHands ==
  ASSUME LeaveInv, PayInv, NEW w \in Workers, NEW v \in Workers \ {w},
         Others(w), KeepsNets(w), KeepsHands(w)
  PROVE  LocalsOK(v, pc[v], loc[v])' /\ HandOK(v)'
<1>1. /\ pc'[v] = pc[v] /\ loc'[v] = loc[v]
      /\ LocalsOK(v, pc[v], loc[v]) /\ HandOK(v)
  BY DEF Others, PayInv
<1>2. LocalsOK(v, pc[v], loc[v])'
  BY <1>1 DEF LocalsOK
<1>3. /\ Reading \cap Batching = {"b_claim"} /\ Holding \subseteq Batching
  BY DEF Reading, Holding, Batching, Unsending
<1>4. pc[v] \in Reading => \A e \in loc[v].set : loc[v].nets[e] = obl'[e].net
  BY <1>1 DEF HandOK, LocalsOK, KeepsNets
<1>5. pc[v] = "b_claim" => \A e \in Earnings : obl'[e].batch # loc[v].n
  BY <1>1, <1>3 DEF HandOK, KeepsHands
<1>6. ASSUME pc[v] \in Holding
      PROVE  /\ batch'[loc[v].n].total \in Int
             /\ batch'[loc[v].n].total
                  <= SumFunctionOnSet(Nets', {e \in Earnings : obl'[e].batch = loc[v].n})
  <2> DEFINE n == loc[v].n
             S == {e \in Earnings : obl[e].batch = n}
  <2>1. n \in 1 .. Len(batch) /\ Len(batch) \in Nat
    BY <1>3, <1>6, InHand, LenProperties DEF LeaveInv, Shape
  <2>2. S = {e \in Earnings : obl'[e].batch = n}
    BY <1>3, <1>6 DEF KeepsHands
  <2>3. \A e \in S : Nets[e] = Nets'[e]
    BY <2>1 DEF Nets, KeepsNets
  <2>4. SumFunctionOnSet(Nets, S) = SumFunctionOnSet(Nets', S)
    BY <2>3, SumKept
  <2>5. batch'[n].total = batch[n].total
    BY <1>3, <1>6 DEF KeepsHands
  <2>6. batch[n].total \in Int /\ batch[n].total <= SumFunctionOnSet(Nets, S)
    BY <1>1, <1>6 DEF HandOK
  <2> QED BY <2>2, <2>4, <2>5, <2>6
<1> QED BY <1>1, <1>2, <1>4, <1>5, <1>6 DEF HandOK

(* what was sent keeps paying for its obligations *)
LEMMA SentStays ==
  ASSUME LeaveInv, PayInv, \A e \in Earnings : obl[e].batch # 0 => obl'[e].net = obl[e].net
  PROVE  \A s \in sent : s.by = "batch" => s.amount <= SumFunctionOnSet(Nets', s.of)
<1> SUFFICES ASSUME NEW s \in sent, s.by = "batch"
             PROVE  s.amount <= SumFunctionOnSet(Nets', s.of)
  OBVIOUS
<1>1. IsBatch(s) /\ \A e \in s.of : obl[e].batch = s.n
  BY DEF LeaveInv, SentOK, IsTransfer
<1>2. s.of \subseteq Earnings /\ \A e \in s.of : obl[e].batch # 0
  BY <1>1 DEF IsBatch
<1>3. \A e \in s.of : Nets[e] = Nets'[e]
  BY <1>2 DEF Nets
<1>4. SumFunctionOnSet(Nets, s.of) = SumFunctionOnSet(Nets', s.of)
  BY <1>2, <1>3, SumKept
<1> QED BY <1>4 DEF PayInv, SentPays

-----------------------------------------------------------------------------
(* A worker lands where nothing of a batch is in hand. *)
Lands(w) ==
  \E to, l : /\ GotoWith(w, pc[w], to, l) /\ LocalsOK(w, to, l)
             /\ to \notin Reading \cup Holding

LEMMA LandingPays ==
  ASSUME LeaveInv, PayInv, NEW w \in Workers, Lands(w), KeepsNets(w), KeepsHands(w),
         RowsOK', ProviderOK', \A s \in sent' : s \in sent \/ s.by # "batch"
  PROVE  PayInv'
<1>1. PICK to, l : /\ GotoWith(w, pc[w], to, l) /\ LocalsOK(w, to, l)
                   /\ to \notin Reading \cup Holding
  BY DEF Lands
<1>2. pc'[w] = to /\ loc'[w] = l /\ Others(w)
  BY <1>1, MoveFacts DEF LeaveInv, LocalsOK
<1>3. LocalsOK(w, pc[w], loc[w])'
  BY <1>1, <1>2 DEF LocalsOK
<1>4. HandOK(w)'
  BY <1>1, <1>2 DEF HandOK, Reading
<1>5. \A v \in Workers \ {w} : LocalsOK(v, pc[v], loc[v])' /\ HandOK(v)'
  BY <1>2, OtherHands
<1>6. SentPays'
  BY SentStays DEF SentPays, KeepsNets
<1> QED BY <1>3, <1>4, <1>5, <1>6 DEF PayInv

(* the common case: neither obligations nor batches change *)
LEMMA QuietPays ==
  ASSUME LeaveInv, PayInv, NEW w \in Workers, Lands(w), obl' = obl, batch' = batch,
         TxOK', payable' \in Int, ProviderOK', \A s \in sent' : s \in sent \/ s.by # "batch"
  PROVE  PayInv'
<1>1. RowsOK'
  BY DEF PayInv, RowsOK
<1> QED BY <1>1, LandingPays, SameHands

LEMMA MyLocals ==
  ASSUME PayInv, NEW w \in Workers
  PROVE  LocalsOK(w, pc[w], loc[w]) /\ DOMAIN loc[w] = Fields /\ RowOK(Seen(w))
BY DEF PayInv, LocalsOK, Seen

LEMMA DoneLands ==
  ASSUME NEW w \in Workers, NEW from, Done(w, from)
  PROVE  Lands(w)
<1>1. RowOK(NoLocals.row)
  BY DEF NoLocals, NewRow, RowOK, RowFields
<1>2. LocalsOK(w, "idle", NoLocals)
  BY <1>1, LocalFields
  DEF LocalsOK, Choosing, Moving, Refunding, Handling, Running, Reading, Holding
<1>3. GotoWith(w, pc[w], "idle", NoLocals)
  BY DEF Done, GotoWith
<1>4. "idle" \notin Reading \cup Holding
  BY DEF Reading, Holding
<1> QED BY <1>2, <1>3, <1>4 DEF Lands

LEMMA GotoLands ==
  ASSUME NEW w \in Workers, NEW from, NEW to, Goto(w, from, to), LocalsOK(w, to, loc[w]),
         to \notin Reading \cup Holding
  PROVE  Lands(w)
BY DEF Goto, GotoWith, Lands

LEMMA PutLands ==
  ASSUME PayInv, NEW w \in Workers, NEW from, NEW to, NEW r, GotoWith(w, from, to, Put(w, r)),
         RowOK(r), LocalsOK(w, to, loc[w]), to \notin Reading \cup Holding
  PROVE  Lands(w)
<1> DEFINE l == Put(w, r)
<1>1. /\ DOMAIN l = Fields /\ l.row = r
      /\ l.e = loc[w].e /\ l.go = loc[w].go /\ l.amount = loc[w].amount /\ l.set = loc[w].set
  BY MyLocals, LocalFields DEF Put
<1>2. GotoWith(w, from, to, l)
  OBVIOUS
<1> HIDE DEF l
<1>3. LocalsOK(w, to, l)
  BY <1>1 DEF LocalsOK
<1> QED BY <1>2, <1>3 DEF GotoWith, Lands

(* where the same local variables will do *)
LEMMA LocalsMove ==
  ASSUME NEW w, NEW p, NEW q, NEW l, LocalsOK(w, p, l)
  PROVE  /\ p \in Choosing \cup Moving /\ q \in Choosing \cup Moving => LocalsOK(w, q, l)
         /\ p \in Refunding /\ q \in Refunding \cup {"h_done"} => LocalsOK(w, q, l)
         /\ p \in Handling /\ q \in Handling \ {"h_refund"} => LocalsOK(w, q, l)
         /\ p = "h_refund" /\ l.amount > 0 /\ q = "s_post" => LocalsOK(w, q, l)
         /\ p \in Running /\ q \in Running \ Reading => LocalsOK(w, q, l)
BY DEF LocalsOK, Whole, Choosing, Moving, Refunding, Handling, Running, Reading, Holding

LEMMA ReturnLands ==
  ASSUME PayInv, NEW w \in Workers, NEW from \in Refunding, pc[w] = from, Return(w, from)
  PROVE  Lands(w)
<1>1. LocalsOK(w, "h_done", loc[w])
  BY MyLocals, LocalsMove
<1> QED BY <1>1, DoneLands, GotoLands DEF Return, Reading, Holding

LEMMA TransitionLands ==
  ASSUME PayInv, NEW w \in Workers, NEW from, NEW s, NEW to, Transition(w, from, s, to),
         to = "idle" \/ (loc[w].e \in Earnings /\ LocalsOK(w, to, loc[w])),
         to \notin Reading \cup Holding
  PROVE  Lands(w) /\ TxOK'
<1>1. TxOK'
  <2>1. TxOK /\ (tx' = tx \/ tx' = [tx EXCEPT ![loc[w].e].status = s])
    BY DEF Transition, PayInv, RowsOK
  <2>2. ASSUME NEW e \in Earnings PROVE DOMAIN tx'[e] = RowFields /\ tx'[e].refunded = tx[e].refunded
    BY <2>1 DEF TxOK, RowOK, RowFields
  <2> QED BY <2>1, <2>2 DEF TxOK, RowOK
<1>2. CASE Done(w, from)
  BY <1>1, <1>2, DoneLands
<1>3. CASE to # "idle" /\ GotoWith(w, from, to, Put(w, tx'[loc[w].e]))
  <2> DEFINE r == tx'[loc[w].e]
  <2>1. RowOK(r)
    BY <1>1, <1>3 DEF TxOK
  <2> QED BY <1>1, <1>3, <2>1, PutLands
<1> QED BY <1>2, <1>3 DEF Transition, Done

LEMMA BeginLands ==
  ASSUME PayInv, NEW w \in Workers, NEW from, NEW k, NEW to, Begin(w, from, k, to),
         \/ from = "t_begin" /\ to = "t_pending"
         \/ from = "f_begin" /\ to = "f_call"
  PROVE  Lands(w)
<1>1. /\ LocalsOK(w, from, loc[w]) /\ DOMAIN loc[w] = Fields /\ pc[w] = from
  BY MyLocals DEF Begin
<1>2. LocalsOK(w, to, loc[w])
  BY <1>1, LocalsMove DEF Moving, Refunding
<1>3. CASE Goto(w, from, to)
  BY <1>2, <1>3, GotoLands DEF Reading, Holding
<1>4. CASE GotoWith(w, from, "retake", [loc[w] EXCEPT !.key = k, !.go = to])
  <2> DEFINE l == [loc[w] EXCEPT !.key = k, !.go = to]
  <2>1. /\ DOMAIN l = Fields /\ l.row = loc[w].row /\ l.go = to
        /\ l.e = loc[w].e /\ l.amount = loc[w].amount
        /\ GotoWith(w, from, "retake", l)
    BY <1>1, <1>4, LocalFields
  <2> HIDE DEF l
  <2>2. LocalsOK(w, "retake", l)
    BY <1>2, <2>1 DEF LocalsOK, Choosing, Moving, Refunding, Handling, Running, Reading, Holding
  <2> QED BY <1>1, <2>1, <2>2 DEF Lands, Reading, Holding
<1>5. CASE Return(w, from)
  <2>1. LocalsOK(w, "h_done", loc[w])
    BY <1>1 DEF LocalsOK, Choosing, Moving, Refunding, Handling, Running, Reading, Holding
  <2> QED BY <1>5, <2>1, DoneLands, GotoLands DEF Return, Reading, Holding
<1> QED BY <1>3, <1>4, <1>5 DEF Begin

LEMMA RetakePays ==
  ASSUME LeaveInv, PayInv, NEW w \in Workers, Retake(w)
  PROVE  PayInv'
<1>1. /\ pc[w] = "retake" /\ loc[w].go \in {"t_pending", "f_call", "s_call"}
      /\ LocalsOK(w, "retake", loc[w])
  BY MyLocals DEF Retake, LeaveInv, WorkerOK
<1>2. LocalsOK(w, loc[w].go, loc[w]) /\ loc[w].go \notin Reading \cup Holding
  BY <1>1 DEF LocalsOK, Choosing, Moving, Refunding, Handling, Running, Reading, Holding
<1> DEFINE r == tx[loc[w].e]
<1>3. RowOK(r)
  BY <1>1 DEF LocalsOK, PayInv, RowsOK, TxOK
<1>4. GotoWith(w, "retake", loc[w].go, Put(w, r))
  BY DEF Retake
<1> HIDE DEF r
<1>5. Lands(w)
  BY <1>2, <1>3, <1>4, PutLands
<1>6. /\ obl' = obl /\ batch' = batch /\ sent' = sent /\ TxOK' /\ payable' \in Int /\ ProviderOK'
  BY DEF Retake, ledger, provider, PayInv, RowsOK, TxOK, ProviderOK
<1> QED BY <1>5, <1>6, QuietPays

-----------------------------------------------------------------------------
(* Rows *)

LEMMA RowsKept ==
  ASSUME NEW row, RowOK(row)
  PROVE  /\ \A x : RowOK([row EXCEPT !.status = x]) /\ RowOK([row EXCEPT !.moved = x])
         /\ \A x : RowOK([row EXCEPT !.review = x])
         /\ \A x, y : RowOK([row EXCEPT !.reversed = x, !.review = y])
BY DEF RowOK, RowFields

LEMMA RowRefunded ==
  ASSUME NEW row, RowOK(row), NEW r \in Int, FullRefunds => r >= Captured
  PROVE  /\ RowOK([row EXCEPT !.refunded = r])
         /\ \A x : RowOK([row EXCEPT !.refunded = r, !.review = x])
BY DEF RowOK, RowFields

LEMMA TxSet ==
  ASSUME TxOK, NEW e \in Earnings, NEW r, RowOK(r), tx' = [tx EXCEPT ![e] = r]
  PROVE  TxOK'
BY DEF TxOK

(* the steps that change an obligation's state, or nothing of it *)
LEMMA StatePays ==
  ASSUME LeaveInv, PayInv, NEW w \in Workers, Lands(w), batch' = batch,
         obl' = obl \/ (\E e, s : obl' = [obl EXCEPT ![e].state = s]),
         TxOK', payable' \in Int, ProviderOK', \A s \in sent' : s \in sent \/ s.by # "batch"
  PROVE  PayInv'
<1>1. CASE obl' = obl
  BY <1>1, QuietPays
<1>2. ASSUME NEW e, NEW s, obl' = [obl EXCEPT ![e].state = s] PROVE PayInv'
  <2>1. \A f \in Earnings : obl'[f].net = obl[f].net /\ obl'[f].batch = obl[f].batch
    BY <1>2 DEF LeaveInv, OblShape
  <2>2. KeepsNets(w) /\ KeepsHands(w)
    BY <2>1 DEF KeepsNets, KeepsHands
  <2>3. RowsOK'
    BY <2>1 DEF PayInv, RowsOK
  <2> QED BY <2>2, <2>3, LandingPays
<1> QED BY <1>1, <1>2

-----------------------------------------------------------------------------
(* The world around, and the transfer *)

LEMMA GivenOK ==
  ASSUME PayInv, NEW e \in Earnings, NEW a \in Int, NEW keys, Give(e, a, keys),
         FullRefunds => a >= Captured /\ given[e].amount + a <= Captured
  PROVE  ProviderOK'
<1>1. ProviderOK /\ Captured \in Nat
  BY MoneyAssumption DEF PayInv
<1>2. /\ DOMAIN given' = Earnings
      /\ \A f \in Earnings \ {e} : given'[f] = given[f]
      /\ given'[e].amount = given[e].amount + a /\ DOMAIN given'[e] = {"amount", "keys"}
  BY <1>1 DEF Give, ProviderOK
<1> DEFINE ev == [kind |-> "refunded", of |-> e, amount |-> given[e].amount + a]
<1>3. events' = events \cup {ev}
  BY DEF Give
<1>4. ev.of \in Earnings /\ ev.amount \in Int /\ (FullRefunds => ev.amount = Captured)
  BY <1>1 DEF ProviderOK
<1> HIDE DEF ev
<1>5. \A f \in Earnings : /\ DOMAIN given'[f] = {"amount", "keys"} /\ given'[f].amount \in Int
                          /\ FullRefunds => given'[f].amount >= 0
  BY <1>1, <1>2 DEF ProviderOK
<1> QED BY <1>1, <1>2, <1>3, <1>4, <1>5 DEF ProviderOK

LEMMA EnvironmentPays ==
  ASSUME LeaveInv, PayInv, Environment \/ UNCHANGED vars
  PROVE  PayInv'
<1>1. /\ pc' = pc /\ loc' = loc /\ obl' = obl /\ batch' = batch /\ sent' = sent
      /\ tx' = tx /\ payable' = payable
  BY DEF Environment, PlaceHold, ClearHold, Mature, Dispute, DashboardRefund, Give, rows, vars, ledger,
         provider
<1>2. ProviderOK'
  <2>1. CASE given' = given /\ events' = events
    BY <2>1 DEF PayInv, ProviderOK
  <2>2. ASSUME NEW e \in Earnings, Dispute(e) PROVE ProviderOK'
    BY <2>2 DEF Dispute, PayInv, ProviderOK
  <2>3. ASSUME NEW e \in Earnings, NEW a \in Amounts, DashboardRefund(e, a) PROVE ProviderOK'
    <3>1. Give(e, a, {}) /\ given[e].amount + a <= Captured
      BY <2>3 DEF DashboardRefund
    <3>2. a \in Int /\ Captured \in Nat /\ (FullRefunds => a = Captured)
      BY MoneyAssumption DEF FullRefunds
    <3> QED BY <3>1, <3>2, GivenOK
  <2> QED BY <2>1, <2>2, <2>3 DEF Environment, PlaceHold, ClearHold, Mature, vars, provider
<1>3. Nets' = Nets
  BY <1>1 DEF Nets
<1> QED BY <1>1, <1>2, <1>3 DEF PayInv, LocalsOK, HandOK, RowsOK, TxOK, SentPays

LEMMA TransferPays ==
  ASSUME LeaveInv, PayInv, NEW w \in Workers,
         Transfer(w) \/ \E e \in Earnings : TransferStart(w, e)
  PROVE  PayInv'
<1>1. /\ batch' = batch /\ given' = given /\ events' = events
      /\ ProviderOK' /\ TxOK /\ payable \in Int
  BY DEF Transfer, TransferAllow, TransferEnsure, TransferClaim, TransferOwn, TransferBegin,
         TransferPending, TransferCall, TransferFail, TransferKeep, TransferFailed, TransferSave,
         TransferFinish, TransferPost, TransferReconcile, TransferPaid, TransferComplete,
         TransferStart, rows, provider, PayInv, ProviderOK, RowsOK
<1>2. /\ LocalsOK(w, pc[w], loc[w]) /\ RowOK(Seen(w))
  BY MyLocals
<1>3. \A to \in Choosing \cup Moving : to \notin Reading \cup Holding
  BY DEF Choosing, Moving, Reading, Holding
<1>4. \A from, to \in Choosing \cup Moving : pc[w] = from => LocalsOK(w, to, loc[w])
  BY <1>2, LocalsMove
<1>5. pc[w] \in Choosing \cup Moving => loc[w].e \in Earnings
  BY <1>2 DEF LocalsOK
<1>6. \A from, to \in Choosing \cup Moving : Goto(w, from, to) => Lands(w)
  BY <1>3, <1>4, GotoLands DEF Goto, GotoWith
<1>7. \A from, to \in Choosing \cup Moving : \A r :
        RowOK(r) /\ GotoWith(w, from, to, Put(w, r)) => Lands(w)
  BY <1>3, <1>4, PutLands DEF GotoWith
<1>8. ASSUME NEW from \in Moving, NEW to \in Moving \cup {"idle"}, NEW s, Transition(w, from, s, to)
      PROVE  Lands(w) /\ TxOK'
  <2>1. pc[w] = from /\ to \notin Reading \cup Holding
    BY <1>3, <1>8 DEF Transition, Done, GotoWith, Reading, Holding
  <2> QED BY <1>4, <1>5, <1>8, <2>1, TransitionLands
<1>9. ASSUME NEW e \in Earnings, TransferStart(w, e) PROVE PayInv'
  <2> DEFINE l == [NoLocals EXCEPT !.e = e, !.row = tx[e]]
  <2>1. /\ GotoWith(w, "idle", "t_allow", l) /\ DOMAIN l = Fields /\ l.e = e /\ l.row = tx[e]
        /\ obl' = obl /\ tx' = tx /\ payable' = payable /\ sent' = sent
    BY <1>9, LocalFields DEF TransferStart, NoLocals, rows, ledger, provider
  <2> HIDE DEF l
  <2>2. LocalsOK(w, "t_allow", l)
    BY <1>1, <2>1 DEF LocalsOK, TxOK, Choosing, Moving, Refunding, Handling, Running, Reading, Holding
  <2>3. Lands(w)
    BY <1>3, <2>1, <2>2 DEF Lands, GotoWith, Choosing
  <2> QED BY <1>1, <2>1, <2>3, QuietPays DEF TxOK
<1>10. ASSUME TransferAllow(w) \/ TransferOwn(w) \/ TransferBegin(w) \/ TransferCall(w)
              \/ TransferFail(w) \/ TransferFinish(w)
       PROVE  PayInv'
  <2>1. /\ obl' = obl /\ tx' = tx /\ payable' = payable
        /\ \A s \in sent' : s \in sent \/ s.by # "batch"
    BY <1>10 DEF TransferAllow, TransferOwn, TransferBegin, TransferCall, TransferFail,
                 TransferFinish, Transferred, rows, ledger, provider
  <2>2. TransferBegin(w) => Lands(w)
    BY BeginLands DEF TransferBegin
  <2>3. TransferAllow(w) \/ TransferOwn(w) => Lands(w)
    BY <1>6, DoneLands DEF TransferAllow, TransferOwn, Choosing, Moving
  <2>4. TransferCall(w) \/ TransferFail(w) \/ TransferFinish(w) => Lands(w)
    BY <1>6 DEF TransferCall, TransferFail, TransferFinish, FinishOp, Choosing, Moving
  <2> QED BY <1>1, <1>10, <2>1, <2>2, <2>3, <2>4, QuietPays DEF TxOK
<1>11. ASSUME TransferEnsure(w) \/ TransferClaim(w) \/ TransferPaid(w)
       PROVE  PayInv'
  <2>1. /\ obl' = obl \/ \E e, s : obl' = [obl EXCEPT ![e].state = s]
        /\ tx' = tx /\ payable' = payable /\ sent' = sent
    BY <1>11 DEF TransferEnsure, TransferClaim, TransferPaid, rows, ledger, provider
  <2>2. Lands(w)
    BY <1>6, <1>11 DEF TransferEnsure, TransferClaim, TransferPaid, Choosing, Moving
  <2> QED BY <1>1, <2>1, <2>2, StatePays DEF TxOK
<1>12. ASSUME TransferKeep(w) PROVE PayInv'
  <2>1. /\ obl' = obl \/ \E e, s : obl' = [obl EXCEPT ![e].state = s]
        /\ tx' = [tx EXCEPT ![loc[w].e].review = "needs_review"] /\ pc[w] = "t_keep"
        /\ payable' = payable /\ sent' = sent
        /\ GotoWith(w, "t_keep", "t_failed", Put(w, [Seen(w) EXCEPT !.review = "needs_review"]))
    BY <1>12 DEF TransferKeep, ledger, provider
  <2>2. TxOK'
    BY <1>1, <1>5, <2>1, TxSet, RowsKept DEF TxOK, Moving
  <2>3. Lands(w)
    BY <1>2, <1>7, <2>1, RowsKept DEF Moving
  <2> QED BY <1>1, <2>1, <2>2, <2>3, StatePays
<1>13. ASSUME TransferPending(w) \/ TransferFailed(w) \/ TransferPost(w) \/ TransferComplete(w)
       PROVE  PayInv'
  <2>1. /\ obl' = obl /\ sent' = sent /\ payable' \in {payable, payable - Net}
    BY <1>13 DEF TransferPending, TransferFailed, TransferPost, TransferComplete, ledger, provider
  <2>2. Lands(w) /\ TxOK'
    BY <1>8, <1>13 DEF TransferPending, TransferFailed, TransferPost, TransferComplete, Moving
  <2>3. payable' \in Int
    BY <1>1, <2>1, MoneyAssumption
  <2> QED BY <1>1, <2>1, <2>2, <2>3, QuietPays
<1>14. ASSUME NEW from \in Moving, NEW to \in Moving, NEW r, RowOK(r), GotoWith(w, from, to, Put(w, r)),
              obl' = obl, sent' = sent, payable' = payable,
              \E x : \/ tx' = [tx EXCEPT ![loc[w].e].moved = x]
                     \/ tx' = [tx EXCEPT ![loc[w].e].review = x]
       PROVE  PayInv'
  <2>1. TxOK'
    <3>1. loc[w].e \in Earnings
      BY <1>5, <1>14 DEF GotoWith
    <3> QED BY <1>1, <1>14, <3>1, TxSet, RowsKept DEF TxOK
  <2> QED BY <1>1, <1>7, <1>14, <2>1, QuietPays
<1>15. TransferSave(w) => PayInv'
  BY <1>2, <1>14, RowsKept DEF TransferSave, ledger, provider, Moving
<1>16. TransferReconcile(w) => PayInv'
  BY <1>2, <1>14, RowsKept DEF TransferReconcile, ledger, provider, Moving
<1> QED BY <1>9, <1>10, <1>11, <1>12, <1>13, <1>15, <1>16 DEF Transfer

-----------------------------------------------------------------------------
(* Refunds and webhooks *)

LEMMA ShareInt == \A a \in Int : Share(a) \in Int
<1>1. Captured \in Nat /\ Net \in Nat
  BY MoneyAssumption
<1> QED BY <1>1 DEF Share, P!SellerPart, P!Refunded, P!Most, P!Least

LEMMA RefundMoves ==
  ASSUME PayInv, NEW w \in Workers, NEW from \in Refunding, NEW to \in Refunding \cup {"h_done"}
  PROVE  /\ Goto(w, from, to) => Lands(w)
         /\ \A r : RowOK(r) /\ GotoWith(w, from, to, Put(w, r)) => Lands(w)
         /\ \A s : Transition(w, from, s, to) => Lands(w) /\ TxOK'
         /\ \A s : Transition(w, from, s, "idle") => Lands(w) /\ TxOK'
         /\ Return(w, from) => Lands(w)
         /\ pc[w] = from => /\ loc[w].e \in Earnings /\ Whole(loc[w].amount) /\ RowOK(Seen(w))
                            /\ Does[w] \cap Refunders # {}
<1>1. LocalsOK(w, pc[w], loc[w]) /\ RowOK(Seen(w))
  BY MyLocals
<1>2. to \notin Reading \cup Holding /\ "idle" \notin Reading \cup Holding
  BY DEF Refunding, Reading, Holding
<1>3. pc[w] = from => LocalsOK(w, to, loc[w]) /\ loc[w].e \in Earnings
  BY <1>1, LocalsMove DEF LocalsOK
<1>4. Goto(w, from, to) => Lands(w)
  BY <1>2, <1>3, GotoLands DEF Goto, GotoWith
<1>5. ASSUME NEW r, RowOK(r), GotoWith(w, from, to, Put(w, r)) PROVE Lands(w)
  <2>1. pc[w] = from
    BY <1>5 DEF GotoWith
  <2> QED BY <1>2, <1>3, <1>5, <2>1, PutLands
<1>6. ASSUME NEW s, Transition(w, from, s, to) PROVE Lands(w) /\ TxOK'
  <2>1. pc[w] = from
    BY <1>6 DEF Transition
  <2> QED BY <1>2, <1>3, <1>6, <2>1, TransitionLands
<1>7. ASSUME NEW s, Transition(w, from, s, "idle") PROVE Lands(w) /\ TxOK'
  BY <1>2, <1>7, TransitionLands
<1>8. Return(w, from) => Lands(w)
  BY ReturnLands DEF Return, Done, Goto, GotoWith
<1>9. pc[w] = from => Whole(loc[w].amount) /\ Does[w] \cap Refunders # {}
  BY <1>1 DEF LocalsOK
<1> QED BY <1>1, <1>3, <1>4, <1>5, <1>6, <1>7, <1>8, <1>9

(* no other process has read the amounts a refund changes *)
LEMMA SharePays ==
  ASSUME LeaveInv, PayInv, FullRefunds \/ Apart, NEW w \in Workers, SettleShare(w)
  PROVE  PayInv'
<1> DEFINE e == loc[w].e
           share == Share(loc[w].amount)
           row == [Seen(w) EXCEPT !.refunded = Refunded(w)]
           l == [Put(w, row) EXCEPT !.ok = share = 0 \/ (obl[e].state \in Unpaid /\ (Refunded(w) >= Captured \/ obl[e].net >= share))]
<1>1. /\ pc[w] = "s_post" /\ batch' = batch /\ sent' = sent /\ given' = given /\ events' = events
      /\ tx' = [tx EXCEPT ![e].refunded = Refunded(w)] /\ payable' = payable - share
  BY DEF SettleShare, PostRefund, provider
<1>2. /\ \/ obl' = obl
         \/ obl[e].state \in Unpaid /\ obl' = [obl EXCEPT ![e].state = "reversed"]
         \/ /\ obl[e].state \in Unpaid /\ ~(Refunded(w) >= Captured)
            /\ obl' = [obl EXCEPT ![e].net = @ - share]
  BY DEF SettleShare
<1>3. /\ e \in Earnings /\ Whole(loc[w].amount) /\ RowOK(Seen(w)) /\ Does[w] \cap Refunders # {}
      /\ LocalsOK(w, pc[w], loc[w]) /\ DOMAIN loc[w] = Fields
  BY <1>1, RefundMoves, MyLocals DEF Refunding
<1>4. Refunded(w) \in Int /\ share \in Int /\ (FullRefunds => Refunded(w) >= Captured)
  BY <1>3, ShareInt, MoneyAssumption DEF Refunded, Whole, RowOK
<1>5. RowOK(row) /\ TxOK'
  <2>1. TxOK /\ RowOK(tx[e])
    BY <1>3 DEF PayInv, RowsOK, TxOK
  <2> QED BY <1>1, <1>3, <1>4, <2>1, RowRefunded, TxSet
<1>6. GotoWith(w, "s_post", "s_mark", l)
  BY DEF SettleShare, AfterPost
<1>7. /\ DOMAIN l = Fields /\ l.row = row /\ l.e = e /\ l.amount = loc[w].amount
  BY <1>3, LocalFields DEF Put
<1> HIDE DEF l
<1>8. Lands(w)
  <2>1. LocalsOK(w, "s_mark", l)
    BY <1>3, <1>5, <1>7
    DEF LocalsOK, Choosing, Moving, Refunding, Handling, Running, Reading, Holding
  <2> QED BY <1>1, <1>6, <2>1 DEF Lands, Reading, Holding
<1>9. /\ \A f \in Earnings : obl'[f].batch = obl[f].batch /\ obl'[f].net \in Int
      /\ \A f \in Earnings : obl[f].batch # 0 \/ FullRefunds => obl'[f].net = obl[f].net
  <2>1. obl[e].state \in Unpaid => obl[e].batch = 0
    BY <1>3 DEF LeaveInv, OblShape, Unpaid
  <2>2. \A f \in Earnings : DOMAIN obl[f] = {"state", "net", "batch"} /\ obl[f].net \in Int
    BY DEF LeaveInv, OblShape, PayInv, RowsOK
  <2>3. DOMAIN obl = Earnings
    BY DEF LeaveInv, OblShape
  <2> HIDE DEF e, share
  <2>4. CASE obl' = obl
    BY <2>2, <2>4
  <2>5. CASE obl' = [obl EXCEPT ![e].state = "reversed"]
    BY <1>3, <2>2, <2>3, <2>5
  <2>6. CASE /\ obl[e].state \in Unpaid /\ ~(Refunded(w) >= Captured)
             /\ obl' = [obl EXCEPT ![e].net = @ - share]
    BY <1>3, <1>4, <2>1, <2>2, <2>3, <2>6
  <2> QED BY <1>2, <2>4, <2>5, <2>6
<1>10. KeepsNets(w)
  <2>1. ASSUME NEW v \in Workers \ {w}, pc[v] \in Reading, ~FullRefunds PROVE FALSE
    <3>1. Does[v] \cap Paying # {}
      BY <2>1, MyLocals DEF LocalsOK, Running
    <3> QED BY <1>3, <2>1, <3>1 DEF Apart
  <2> QED BY <1>9, <2>1 DEF KeepsNets
<1>11. KeepsHands(w)
  BY <1>1, <1>9 DEF KeepsHands
<1>12. RowsOK'
  <2>1. payable \in Int
    BY DEF PayInv, RowsOK
  <2> HIDE DEF share
  <2>2. payable' \in Int
    BY <1>1, <1>4, <2>1
  <2> QED BY <1>1, <1>5, <1>9, <2>2 DEF PayInv, RowsOK
<1>13. ProviderOK'
  BY <1>1 DEF PayInv, ProviderOK
<1> QED BY <1>1, <1>8, <1>10, <1>11, <1>12, <1>13, LandingPays

LEMMA ReversalPays ==
  ASSUME LeaveInv, PayInv, NEW w \in Workers, ReversalBegin(w)
  PROVE  PayInv'
<1>1. /\ pc[w] = "s_post" /\ obl' = obl /\ batch' = batch /\ sent' = sent
      /\ given' = given /\ events' = events
  BY DEF ReversalBegin, provider
<1>2. /\ loc[w].e \in Earnings /\ Whole(loc[w].amount) /\ RowOK(Seen(w))
      /\ LocalsOK(w, pc[w], loc[w]) /\ DOMAIN loc[w] = Fields
  BY <1>1, RefundMoves, MyLocals DEF Refunding
<1>3. ProviderOK' /\ TxOK /\ RowOK(tx[loc[w].e]) /\ payable \in Int
  BY <1>1, <1>2 DEF PayInv, ProviderOK, RowsOK, TxOK
<1>4. CASE PostRefund(w, Share(loc[w].amount)) /\ AfterPost(w, "s_call", FALSE)
  <2> DEFINE row == [Seen(w) EXCEPT !.refunded = Refunded(w)]
             l == [Put(w, row) EXCEPT !.ok = FALSE]
  <2>1. Refunded(w) \in Int /\ Share(loc[w].amount) \in Int /\ (FullRefunds => Refunded(w) >= Captured)
    BY <1>2, ShareInt, MoneyAssumption DEF Refunded, Whole, RowOK
  <2>2. RowOK(row) /\ TxOK'
    BY <1>2, <1>3, <1>4, <2>1, RowRefunded, TxSet DEF PostRefund
  <2>3. GotoWith(w, "s_post", "s_call", l)
    BY <1>4 DEF AfterPost
  <2>4. /\ DOMAIN l = Fields /\ l.row = row /\ l.e = loc[w].e /\ l.amount = loc[w].amount
    BY <1>2, LocalFields DEF Put
  <2> HIDE DEF l
  <2>5. LocalsOK(w, "s_call", l)
    BY <1>1, <1>2, <2>2, <2>4
    DEF LocalsOK, Choosing, Moving, Refunding, Handling, Running, Reading, Holding
  <2>6. Lands(w)
    BY <1>1, <2>3, <2>5 DEF Lands, Reading, Holding
  <2>7. payable' \in Int
    BY <1>3, <1>4, <2>1 DEF PostRefund
  <2> QED BY <1>1, <1>3, <2>2, <2>6, <2>7, QuietPays
<1>5. ASSUME NEW k, GotoWith(w, "s_post", "retake", [loc[w] EXCEPT !.key = k, !.go = "s_call"]),
             tx' = tx, payable' = payable
      PROVE  PayInv'
  <2> DEFINE l == [loc[w] EXCEPT !.key = k, !.go = "s_call"]
  <2>1. /\ DOMAIN l = Fields /\ l.go = "s_call" /\ GotoWith(w, "s_post", "retake", l)
        /\ l.row = loc[w].row /\ l.e = loc[w].e /\ l.amount = loc[w].amount
    BY <1>2, <1>5, LocalFields
  <2> HIDE DEF l
  <2>2. LocalsOK(w, "retake", l)
    BY <1>1, <1>2, <2>1
    DEF LocalsOK, Choosing, Moving, Refunding, Handling, Running, Reading, Holding
  <2>3. Lands(w)
    BY <1>1, <2>1, <2>2 DEF Lands, Reading, Holding
  <2> QED BY <1>1, <1>3, <1>5, <2>3, QuietPays DEF TxOK
<1>6. CASE Return(w, "s_post") /\ tx' = tx /\ payable' = payable
  <2>1. Lands(w)
    BY <1>6, RefundMoves DEF Refunding
  <2> QED BY <1>1, <1>3, <1>6, <2>1, QuietPays DEF TxOK
<1> QED BY <1>4, <1>5, <1>6 DEF ReversalBegin, ledger

LEMMA RefundPays ==
  ASSUME LeaveInv, PayInv, FullRefunds \/ Apart, NEW w \in Workers, Refund(w)
  PROVE  PayInv'
<1>1. CASE SettleShare(w) \/ ReversalBegin(w)
  BY <1>1, SharePays, ReversalPays
<1>2. CASE \/ RefundPending(w) \/ RefundBegin(w) \/ RefundCall(w) \/ RefundFail(w) \/ RefundFinish(w)
           \/ RefundMark(w) \/ RefundFull(w) \/ ReversalCall(w) \/ ReversalFail(w)
           \/ ReversalEscalate(w) \/ ReversalFinish(w) \/ ReversalBack(w)
  <2>1. /\ obl' = obl /\ batch' = batch /\ sent' = sent
        /\ TxOK /\ ProviderOK /\ payable \in Int /\ RowOK(Seen(w))
    BY <1>2, MyLocals
    DEF RefundPending, RefundBegin, RefundCall, RefundFail, RefundFinish, RefundMark, RefundFull,
        ReversalCall, ReversalFail, ReversalEscalate, ReversalFinish, ReversalBack,
        rows, provider, PayInv, RowsOK
  <2>2. ASSUME Lands(w), TxOK', payable' \in Int, ProviderOK' PROVE PayInv'
    BY <2>1, <2>2, QuietPays
  <2>3. given' = given /\ events' = events => ProviderOK'
    BY <2>1 DEF ProviderOK
  <2>4. tx' = tx => TxOK'
    BY <2>1 DEF TxOK
  <2>5. RefundPending(w) => PayInv'
    <3>1. RefundPending(w) => Lands(w) /\ TxOK'
      BY <2>4, RefundMoves DEF RefundPending, Refunding
    <3> QED BY <2>1, <2>2, <2>3, <3>1 DEF RefundPending, ledger, provider
  <2>6. RefundBegin(w) => PayInv'
    <3>1. RefundBegin(w) => Lands(w)
      BY BeginLands DEF RefundBegin
    <3> QED BY <2>1, <2>2, <2>3, <2>4, <3>1 DEF RefundBegin, ledger, provider
  <2>7. ASSUME RefundCall(w) PROVE PayInv'
    <3>1. Lands(w) /\ pc[w] = "f_call"
      BY <2>7, RefundMoves DEF RefundCall, Refunding, Goto, GotoWith
    <3>2. loc[w].e \in Earnings /\ Whole(loc[w].amount)
      BY <3>1, RefundMoves DEF Refunding
    <3>3. \/ given' = given /\ events' = events
          \/ /\ given[loc[w].e].amount + loc[w].amount <= Captured
             /\ Give(loc[w].e, loc[w].amount, {loc[w].amount})
      BY <2>7 DEF RefundCall
    <3>4. ProviderOK'
      BY <2>3, <3>2, <3>3, GivenOK DEF Whole
    <3> QED BY <2>1, <2>2, <2>4, <2>7, <3>1, <3>4 DEF RefundCall, rows, ledger
  <2>8. RefundFail(w) \/ RefundFinish(w) \/ ReversalCall(w) \/ ReversalFail(w) \/ ReversalFinish(w)
          => PayInv'
    <3>1. RefundFail(w) => Lands(w)
      BY DoneLands DEF RefundFail
    <3>2. RefundFinish(w) \/ ReversalFail(w) \/ ReversalFinish(w) => Lands(w)
      BY RefundMoves DEF RefundFinish, ReversalFail, ReversalFinish, FinishOp, Refunding
    <3>3. ReversalCall(w) => Lands(w)
      BY RefundMoves DEF ReversalCall, Refunding
    <3> QED BY <2>1, <2>2, <2>3, <2>4, <3>1, <3>2, <3>3
            DEF RefundFail, RefundFinish, ReversalCall, ReversalFail, ReversalFinish,
                rows, ledger, provider
  <2>9. ASSUME RefundMark(w) PROVE PayInv'
    <3> DEFINE review == IF loc[w].ok THEN "reconciled" ELSE "needs_review"
    <3>1. /\ pc[w] = "s_mark" /\ tx' = [tx EXCEPT ![loc[w].e].review = review]
          /\ GotoWith(w, "s_mark", "s_full", Put(w, [Seen(w) EXCEPT !.review = review]))
          /\ given' = given /\ events' = events /\ payable' = payable
      BY <2>9 DEF RefundMark, ledger, provider
    <3> HIDE DEF review
    <3>2. loc[w].e \in Earnings
      BY <3>1, RefundMoves DEF Refunding
    <3>3. TxOK'
      BY <2>1, <3>1, <3>2, TxSet, RowsKept DEF TxOK
    <3>4. Lands(w)
      BY <2>1, <3>1, RefundMoves, RowsKept DEF Refunding
    <3> QED BY <2>1, <2>2, <2>3, <3>1, <3>3, <3>4
  <2>10. ASSUME RefundFull(w) PROVE PayInv'
    <3>1. Lands(w) /\ TxOK'
      BY <2>4, <2>10, RefundMoves DEF RefundFull, Refunding
    <3> QED BY <2>1, <2>2, <2>3, <2>10, <3>1 DEF RefundFull, ledger, provider
  <2>11. ASSUME ReversalEscalate(w) PROVE PayInv'
    <3>1. /\ pc[w] = "s_escalate" /\ tx' = [tx EXCEPT ![loc[w].e].review = "needs_review"]
          /\ Done(w, "s_escalate")
          /\ given' = given /\ events' = events /\ payable' = payable
      BY <2>11 DEF ReversalEscalate, ledger, provider
    <3>2. loc[w].e \in Earnings
      BY <3>1, RefundMoves DEF Refunding
    <3>3. TxOK'
      BY <2>1, <3>1, <3>2, TxSet, RowsKept DEF TxOK
    <3> QED BY <2>1, <2>2, <2>3, <3>1, <3>3, DoneLands
  <2>12. ASSUME ReversalBack(w) PROVE PayInv'
    <3>1. PICK x, y : /\ tx' = [tx EXCEPT ![loc[w].e].reversed = x, ![loc[w].e].review = y]
                      /\ GotoWith(w, "s_back", "s_full", Put(w, [Seen(w) EXCEPT !.reversed = x, !.review = y]))
      BY <2>12 DEF ReversalBack
    <3>2. /\ pc[w] = "s_back" /\ payable' = payable + Share(loc[w].amount)
          /\ given' = given /\ events' = events
      BY <2>12 DEF ReversalBack, provider
    <3>3. loc[w].e \in Earnings /\ Whole(loc[w].amount)
      BY <3>2, RefundMoves DEF Refunding
    <3> DEFINE r == [tx[loc[w].e] EXCEPT !.reversed = x, !.review = y]
    <3>4. RowOK(r) /\ tx' = [tx EXCEPT ![loc[w].e] = r]
      BY <2>1, <3>1, <3>3, RowsKept DEF TxOK
    <3> HIDE DEF r
    <3>5. TxOK'
      BY <2>1, <3>3, <3>4, TxSet
    <3>6. Lands(w)
      BY <2>1, <3>1, RefundMoves, RowsKept DEF Refunding
    <3>7. payable' \in Int
      BY <2>1, <3>2, <3>3, ShareInt DEF Whole
    <3> QED BY <2>1, <2>2, <2>3, <3>2, <3>5, <3>6, <3>7
  <2> QED BY <1>2, <2>5, <2>6, <2>7, <2>8, <2>9, <2>10, <2>11, <2>12
<1> QED BY <1>1, <1>2 DEF Refund

LEMMA RefundStartPays ==
  ASSUME LeaveInv, PayInv, NEW w \in Workers, NEW e \in Earnings, NEW a \in Amounts,
         RefundStart(w, e, a)
  PROVE  PayInv'
<1> DEFINE left == Captured - tx[e].refunded
           amount == IF a < left THEN a ELSE left
           l == [NoLocals EXCEPT !.e = e, !.row = tx[e], !.amount = amount]
<1>1. /\ GotoWith(w, "idle", "f_pending", l) /\ amount > 0 /\ "refund" \in Does[w]
      /\ obl' = obl /\ batch' = batch /\ sent' = sent /\ given' = given /\ events' = events
      /\ tx' = tx /\ payable' = payable
  BY DEF RefundStart, rows, ledger, provider
<1>2. /\ DOMAIN l = Fields /\ l.e = e /\ l.row = tx[e] /\ l.amount = amount
  BY LocalFields DEF NoLocals
<1>3. RowOK(tx[e])
  BY DEF PayInv, RowsOK, TxOK
<1>4. Whole(amount)
  <2>1. a \in Int /\ Captured \in Int /\ Captured > 0 /\ (FullRefunds => a = Captured)
    BY MoneyAssumption DEF FullRefunds
  <2> QED BY <1>1, <1>3, <2>1 DEF Whole, RowOK
<1> HIDE DEF l, amount
<1>5. LocalsOK(w, "f_pending", l)
  BY <1>1, <1>2, <1>3, <1>4
  DEF LocalsOK, Refunders, Choosing, Moving, Refunding, Handling, Running, Reading, Holding
<1>6. Lands(w)
  <2>1. GotoWith(w, pc[w], "f_pending", l) /\ "f_pending" \notin Reading \cup Holding
    BY <1>1 DEF GotoWith, Reading, Holding
  <2> QED BY <1>5, <2>1 DEF Lands
<1>7. TxOK' /\ payable' \in Int /\ ProviderOK'
  BY <1>1 DEF PayInv, RowsOK, TxOK, ProviderOK
<1> QED BY <1>1, <1>6, <1>7, QuietPays

LEMMA DeliverPays ==
  ASSUME LeaveInv, PayInv, NEW w \in Workers, NEW ev \in events, Deliver(w, ev)
  PROVE  PayInv'
<1> DEFINE to == IF ev.kind = "refunded" THEN "h_refund" ELSE "h_dispute"
           amount == ev.amount - tx[ev.of].refunded
           l == [NoLocals EXCEPT !.e = ev.of, !.row = tx[ev.of], !.event = {ev}, !.amount = amount]
<1>1. /\ GotoWith(w, "idle", to, l) /\ "webhook" \in Does[w] /\ to \in {"h_refund", "h_dispute"}
      /\ obl' = obl /\ batch' = batch /\ sent' = sent /\ given' = given /\ events' = events
      /\ tx' = tx /\ payable' = payable
  BY DEF Deliver, rows, ledger, provider
<1>2. /\ DOMAIN l = Fields /\ l.e = ev.of /\ l.row = tx[ev.of] /\ l.amount = amount
  BY LocalFields DEF NoLocals
<1>3. /\ ev.of \in Earnings /\ RowOK(tx[ev.of]) /\ ev.amount \in Int
      /\ FullRefunds /\ to = "h_refund" => ev.amount = Captured
  BY DEF PayInv, RowsOK, TxOK, ProviderOK
<1>4. amount \in Int /\ (FullRefunds /\ to = "h_refund" /\ amount > 0 => amount >= Captured)
  BY <1>3, MoneyAssumption DEF RowOK
<1> HIDE DEF l, amount, to
<1>5. LocalsOK(w, to, l)
  BY <1>1, <1>2, <1>3, <1>4
  DEF LocalsOK, Refunders, Choosing, Moving, Refunding, Handling, Running, Reading, Holding
<1>6. Lands(w)
  <2>1. GotoWith(w, pc[w], to, l) /\ to \notin Reading \cup Holding
    BY <1>1 DEF GotoWith, Reading, Holding
  <2> QED BY <1>5, <2>1 DEF Lands
<1>7. TxOK' /\ payable' \in Int /\ ProviderOK'
  BY <1>1 DEF PayInv, RowsOK, TxOK, ProviderOK
<1> QED BY <1>1, <1>6, <1>7, QuietPays

LEMMA WebhookPays ==
  ASSUME LeaveInv, PayInv, NEW w \in Workers, Webhook(w)
  PROVE  PayInv'
<1>1. /\ obl' = obl /\ batch' = batch /\ sent' = sent /\ payable' = payable
      /\ TxOK /\ ProviderOK /\ payable \in Int /\ RowOK(Seen(w))
      /\ LocalsOK(w, pc[w], loc[w])
  BY MyLocals
  DEF Webhook, HandleRefunded, HandleDispute, HandleReview, EventDone, rows, ledger, provider,
      PayInv, RowsOK
<1>2. ProviderOK'
  BY <1>1 DEF Webhook, HandleRefunded, HandleDispute, HandleReview, EventDone, provider, ProviderOK
<1>3. pc[w] \in Handling => loc[w].e \in Earnings
  BY <1>1 DEF LocalsOK
<1>4. \A from \in Handling : \A to \in Handling \ {"h_refund"} :
        pc[w] = from => LocalsOK(w, to, loc[w]) /\ to \notin Reading \cup Holding
  BY <1>1, LocalsMove DEF Handling, Reading, Holding
<1>5. \A from \in Handling : \A to \in Handling \ {"h_refund"} :
        /\ Goto(w, from, to) => Lands(w)
        /\ \A s : Transition(w, from, s, to) => Lands(w) /\ TxOK'
  BY <1>3, <1>4, GotoLands, TransitionLands DEF Goto, GotoWith, Transition
<1>6. ASSUME HandleRefunded(w) PROVE Lands(w) /\ TxOK'
  <2> DEFINE reported == loc[w].amount + Seen(w).refunded
  <2>1. pc[w] = "h_refund"
    BY <1>6 DEF HandleRefunded
  <2>2. CASE Goto(w, "h_refund", "h_done") /\ tx' = tx
    BY <1>1, <1>5, <2>2 DEF Handling, TxOK
  <2>3. CASE /\ loc[w].amount > 0 /\ Goto(w, "h_refund", "h_done")
             /\ tx' = [tx EXCEPT ![loc[w].e].refunded = reported,
                                 ![loc[w].e].review = "needs_review"]
    <3>1. reported \in Int /\ (FullRefunds => reported >= Captured)
      BY <1>1, <2>1, <2>3, MoneyAssumption DEF LocalsOK, RowOK
    <3> HIDE DEF reported
    <3>2. loc[w].e \in Earnings
      BY <1>3, <2>1 DEF Handling
    <3>3. TxOK'
      <4> DEFINE r == [tx[loc[w].e] EXCEPT !.refunded = reported, !.review = "needs_review"]
      <4>1. RowOK(r) /\ tx' = [tx EXCEPT ![loc[w].e] = r]
        BY <1>1, <2>3, <3>1, <3>2, RowRefunded DEF TxOK
      <4> HIDE DEF r
      <4> QED BY <1>1, <3>2, <4>1, TxSet
    <3> QED BY <1>5, <2>3, <3>3 DEF Handling
  <2>4. ASSUME loc[w].amount > 0, \/ Goto(w, "h_refund", "s_post") /\ tx' = tx
                                  \/ Transition(w, "h_refund", "REFUND_PENDING", "s_post")
        PROVE  Lands(w) /\ TxOK'
    <3>1. LocalsOK(w, "s_post", loc[w]) /\ "s_post" \notin Reading \cup Holding
      BY <1>1, <2>1, <2>4, LocalsMove DEF Reading, Holding
    <3>2. loc[w].e \in Earnings
      BY <1>3, <2>1 DEF Handling
    <3> QED BY <1>1, <2>4, <3>1, <3>2, GotoLands, TransitionLands DEF TxOK
  <2> QED BY <1>6, <2>2, <2>3, <2>4 DEF HandleRefunded
<1>7. HandleDispute(w) => Lands(w) /\ TxOK'
  BY <1>1, <1>5 DEF HandleDispute, Handling, TxOK
<1>8. ASSUME HandleReview(w) PROVE Lands(w) /\ TxOK'
  <2>1. /\ tx' = [tx EXCEPT ![loc[w].e].review = "needs_review"]
        /\ Goto(w, "h_review", "h_done") /\ pc[w] = "h_review"
    BY <1>8 DEF HandleReview
  <2>2. loc[w].e \in Earnings
    BY <1>3, <2>1 DEF Handling
  <2> QED BY <1>1, <1>5, <2>1, <2>2, TxSet, RowsKept DEF Handling, TxOK
<1>9. EventDone(w) => Lands(w) /\ TxOK'
  BY <1>1, DoneLands DEF EventDone, rows, TxOK
<1>10. Lands(w) /\ TxOK'
  BY <1>6, <1>7, <1>8, <1>9 DEF Webhook
<1> QED BY <1>1, <1>2, <1>10, QuietPays

LEMMA CrashPays ==
  ASSUME LeaveInv, PayInv, NEW w \in Workers, Crash(w)
  PROVE  PayInv'
<1>1. /\ obl' = obl /\ batch' = batch /\ sent' = sent /\ Done(w, pc[w])
      /\ TxOK' /\ payable' \in Int /\ ProviderOK'
  BY DEF Crash, rows, ledger, provider, PayInv, RowsOK, TxOK, ProviderOK
<1> QED BY <1>1, DoneLands, QuietPays

-----------------------------------------------------------------------------
(* The payout run *)

LEMMA PromotedKeeps ==
  ASSUME LeaveInv, NEW w \in Workers, obl' = Promoted, batch' = batch
  PROVE  /\ KeepsNets(w) /\ KeepsHands(w)
         /\ \A e \in Earnings : obl'[e].net = obl[e].net
<1>1. \A e \in Earnings : obl'[e].net = obl[e].net /\ obl'[e].batch = obl[e].batch
  BY DEF Promoted, LeaveInv, OblShape
<1> QED BY <1>1 DEF KeepsNets, KeepsHands

(* a batch's row, updated *)
LEMMA BatchSet ==
  ASSUME LeaveInv, PayInv, NEW n \in 1 .. Len(batch), NEW b, DOMAIN b = BatchFields,
         batch' = [batch EXCEPT ![n] = b]
  PROVE  /\ Len(batch') = Len(batch) /\ batch'[n] = b
         /\ \A i \in 1 .. Len(batch) : DOMAIN batch'[i] = BatchFields
         /\ \A i \in (1 .. Len(batch)) \ {n} : batch'[i] = batch[i]
<1>1. PICK S : batch \in Seq(S)
  BY DEF LeaveInv, Shape
<1>2. batch \in Seq(S \cup {b})
  BY <1>1
<1>3. /\ Len(batch') = Len(batch) /\ batch'[n] = b
      /\ \A i \in (1 .. Len(batch)) \ {n} : batch'[i] = batch[i]
  BY <1>2, ExceptSeq
<1> QED BY <1>3 DEF PayInv, RowsOK

LEMMA BatchState ==
  ASSUME LeaveInv, PayInv, NEW n \in 1 .. Len(batch), NEW s,
         batch' = [batch EXCEPT ![n].state = s]
  PROVE  /\ Len(batch') = Len(batch)
         /\ \A i \in 1 .. Len(batch) : DOMAIN batch'[i] = BatchFields /\ batch'[i].total = batch[i].total
<1> DEFINE b == [batch[n] EXCEPT !.state = s]
<1>1. DOMAIN batch[n] = BatchFields
  BY DEF PayInv, RowsOK
<1>2. DOMAIN b = BatchFields /\ b.total = batch[n].total /\ batch' = [batch EXCEPT ![n] = b]
  BY <1>1 DEF BatchFields
<1> HIDE DEF b
<1> QED BY <1>2, BatchSet

(* before the batch, and after it *)
LEMMA RunQuietPays ==
  ASSUME LeaveInv, PayInv, NEW w \in Workers
  PROVE  /\ \A dry \in BOOLEAN : RunStart(w, dry) => PayInv'
         /\ RunCheck(w) => PayInv'
         /\ RunUnknown(w) => PayInv'
         /\ RunRecover(w) => PayInv'
<1>1. /\ TxOK /\ ProviderOK /\ payable \in Int /\ LocalsOK(w, pc[w], loc[w])
  BY MyLocals DEF PayInv, RowsOK
<1>2. given' = given /\ events' = events => ProviderOK'
  BY <1>1 DEF ProviderOK
<1>3. ASSUME NEW dry \in BOOLEAN, RunStart(w, dry) PROVE PayInv'
  <2> DEFINE l == [NoLocals EXCEPT !.dry = dry]
  <2>1. /\ GotoWith(w, "idle", "b_check", l) /\ Does[w] \cap Paying # {}
        /\ obl' = Promoted /\ batch' = batch /\ sent' = sent /\ tx' = tx /\ payable' = payable
        /\ given' = given /\ events' = events
    BY <1>3 DEF RunStart, Paying, ledger, provider
  <2>2. DOMAIN l = Fields /\ l.row = NoLocals.row
    BY LocalFields DEF NoLocals
  <2> HIDE DEF l
  <2>3. RowOK(l.row)
    BY <2>2 DEF NoLocals, NewRow, RowOK, RowFields
  <2>4. LocalsOK(w, "b_check", l)
    BY <2>1, <2>2, <2>3
    DEF LocalsOK, Choosing, Moving, Refunding, Handling, Running, Reading, Holding
  <2>5. Lands(w)
    <3>1. GotoWith(w, pc[w], "b_check", l) /\ "b_check" \notin Reading \cup Holding
      BY <2>1 DEF GotoWith, Reading, Holding
    <3> QED BY <2>4, <3>1 DEF Lands
  <2>6. RowsOK'
    BY <1>1, <2>1, PromotedKeeps DEF PayInv, RowsOK, TxOK
  <2> QED BY <1>2, <2>1, <2>5, <2>6, PromotedKeeps, LandingPays
<1>4. ASSUME RunCheck(w) PROVE PayInv'
  <2>1. /\ obl' = obl /\ batch' = batch /\ sent' = sent /\ tx' = tx /\ payable' = payable
        /\ given' = given /\ events' = events /\ pc[w] = "b_check"
        /\ Done(w, "b_check") \/ Goto(w, "b_check", "b_read")
    BY <1>4 DEF RunCheck, rows, ledger, provider
  <2>2. LocalsOK(w, "b_read", loc[w])
    BY <1>1, <2>1, LocalsMove DEF Running, Reading, Holding
  <2>3. Lands(w)
    BY <2>1, <2>2, DoneLands, GotoLands DEF Reading, Holding
  <2> QED BY <1>1, <1>2, <2>1, <2>3, QuietPays DEF TxOK
<1>5. ASSUME RunRecover(w) PROVE PayInv'
  <2>1. /\ obl' = obl /\ batch' = batch /\ sent' = sent /\ payable' = payable
        /\ given' = given /\ events' = events /\ Done(w, "b_recover")
        /\ DOMAIN tx' = Earnings
        /\ \A e \in Earnings : tx'[e] \in {tx[e], [tx[e] EXCEPT !.review = "reconciled"]}
    BY <1>5 DEF RunRecover, ledger, provider
  <2>2. ASSUME NEW e \in Earnings PROVE RowOK(tx'[e])
    <3>1. RowOK(tx[e]) /\ RowOK([tx[e] EXCEPT !.review = "reconciled"])
      BY <1>1, RowsKept DEF TxOK
    <3>2. tx'[e] = tx[e] \/ tx'[e] = [tx[e] EXCEPT !.review = "reconciled"]
      BY <2>1
    <3> QED BY <3>1, <3>2
  <2>3. TxOK'
    BY <2>1, <2>2 DEF TxOK
  <2> QED BY <1>1, <1>2, <2>1, <2>3, DoneLands, QuietPays
<1>6. ASSUME RunUnknown(w) PROVE PayInv'
  <2> DEFINE n == loc[w].n
  <2>1. /\ obl' = obl /\ sent' = sent /\ tx' = tx /\ payable' = payable
        /\ given' = given /\ events' = events /\ Done(w, "b_unknown") /\ pc[w] = "b_unknown"
        /\ batch' = [batch EXCEPT ![n].state = "needs_reconciliation"]
    BY <1>6 DEF RunUnknown, ledger, provider
  <2>2. n \in 1 .. Len(batch)
    BY <2>1, InHand DEF Batching
  <2>3. /\ Len(batch') = Len(batch)
        /\ \A i \in 1 .. Len(batch) : DOMAIN batch'[i] = BatchFields /\ batch'[i].total = batch[i].total
    BY <2>1, <2>2, BatchState
  <2>4. KeepsNets(w) /\ KeepsHands(w)
    BY <2>1, <2>3, InHand DEF KeepsNets, KeepsHands
  <2>5. RowsOK'
    BY <1>1, <2>1, <2>3 DEF PayInv, RowsOK, TxOK
  <2> QED BY <1>2, <2>1, <2>4, <2>5, DoneLands, LandingPays
<1> QED BY <1>3, <1>4, <1>5, <1>6

(* a run's step to where its variables or its batch matter *)
LEMMA HoldingPays ==
  ASSUME LeaveInv, PayInv, NEW w \in Workers, Others(w),
         LocalsOK(w, pc[w], loc[w])', HandOK(w)', KeepsNets(w), KeepsHands(w),
         RowsOK', ProviderOK', SentPays'
  PROVE  PayInv'
<1>1. \A v \in Workers \ {w} : LocalsOK(v, pc[v], loc[v])' /\ HandOK(v)'
  BY OtherHands
<1> QED BY <1>1 DEF PayInv

(* it reads the obligations and their amounts at once *)
LEMMA RunReadPays ==
  ASSUME LeaveInv, PayInv, NEW w \in Workers, RunRead(w)
  PROVE  PayInv'
<1> DEFINE ready == {e \in Earnings : Promoted[e].state = "available" /\ Promoted[e].batch = 0}
           l == [loc[w] EXCEPT !.set = ready, !.nets = Nets]
<1>1. /\ pc[w] = "b_read" /\ obl' = Promoted /\ batch' = batch /\ sent' = sent /\ tx' = tx
      /\ payable' = payable /\ given' = given /\ events' = events
      /\ Done(w, "b_read") \/ GotoWith(w, "b_read", "b_prior", l)
  BY DEF RunRead, ledger, provider
<1>2. /\ KeepsNets(w) /\ KeepsHands(w) /\ \A e \in Earnings : obl'[e].net = obl[e].net
  BY <1>1, PromotedKeeps
<1>3. RowsOK' /\ ProviderOK'
  BY <1>1, <1>2 DEF PayInv, RowsOK, TxOK, ProviderOK
<1>4. CASE Done(w, "b_read")
  BY <1>1, <1>2, <1>3, <1>4, DoneLands, LandingPays
<1>5. CASE GotoWith(w, "b_read", "b_prior", l)
  <2>1. /\ DOMAIN l = Fields /\ l.row = loc[w].row /\ l.set = ready /\ l.nets = Nets
    BY MyLocals, LocalFields
  <2>2. ready \subseteq Earnings
    OBVIOUS
  <2> HIDE DEF l, ready
  <2>3. LocalsOK(w, pc[w], loc[w])
    BY MyLocals
  <2>4. LocalsOK(w, "b_prior", l)
    BY <1>1, <2>1, <2>2, <2>3
    DEF LocalsOK, Choosing, Moving, Refunding, Handling, Running, Reading, Holding
  <2>5. pc'[w] = "b_prior" /\ loc'[w] = l /\ Others(w)
    BY <1>5, <2>1, MoveFacts DEF LeaveInv
  <2>6. LocalsOK(w, pc[w], loc[w])'
    BY <2>4, <2>5 DEF LocalsOK
  <2>7. HandOK(w)'
    BY <1>2, <2>1, <2>2, <2>5 DEF HandOK, Nets, Reading, Holding
  <2>8. SentPays'
    BY <1>1, <1>2, SentStays DEF SentPays
  <2> QED BY <1>2, <1>3, <2>5, <2>6, <2>7, <2>8, HoldingPays
<1> QED BY <1>1, <1>4, <1>5

LEMMA RunPriorPays ==
  ASSUME LeaveInv, PayInv, NEW w \in Workers, RunPrior(w)
  PROVE  PayInv'
<1> DEFINE k == Cardinality(Prior(loc[w].set))
           l == [loc[w] EXCEPT !.n = k]
<1>1. /\ pc[w] = "b_prior" /\ obl' = obl /\ batch' = batch /\ sent' = sent /\ tx' = tx
      /\ payable' = payable /\ given' = given /\ events' = events
      /\ Done(w, "b_prior") \/ GotoWith(w, "b_prior", "b_insert", l)
  BY DEF RunPrior, rows, ledger, provider
<1>2. /\ TxOK' /\ RowsOK' /\ ProviderOK' /\ payable' \in Int
  BY <1>1 DEF PayInv, RowsOK, TxOK, ProviderOK
<1>3. CASE Done(w, "b_prior")
  BY <1>1, <1>2, <1>3, DoneLands, QuietPays
<1>4. CASE GotoWith(w, "b_prior", "b_insert", l)
  <2>1. /\ DOMAIN l = Fields /\ l.row = loc[w].row /\ l.set = loc[w].set /\ l.nets = loc[w].nets
    BY MyLocals, LocalFields
  <2> HIDE DEF l
  <2>2. LocalsOK(w, pc[w], loc[w]) /\ HandOK(w)
    BY MyLocals DEF PayInv
  <2>3. LocalsOK(w, "b_insert", l)
    BY <1>1, <2>1, <2>2
    DEF LocalsOK, Choosing, Moving, Refunding, Handling, Running, Reading, Holding
  <2>4. pc'[w] = "b_insert" /\ loc'[w] = l /\ Others(w)
    BY <1>4, <2>1, MoveFacts DEF LeaveInv
  <2>5. LocalsOK(w, pc[w], loc[w])'
    BY <2>3, <2>4 DEF LocalsOK
  <2>6. HandOK(w)'
    BY <1>1, <2>1, <2>2, <2>4 DEF HandOK, Reading, Holding
  <2>7. SentPays'
    BY <1>1, SentStays DEF SentPays
  <2> QED BY <1>1, <1>2, <2>4, <2>5, <2>6, <2>7, SameHands, HoldingPays
<1> QED BY <1>1, <1>3, <1>4

(* the number of a new batch is on no obligation *)
LEMMA RunInsertPays ==
  ASSUME LeaveInv, PayInv, NEW w \in Workers, RunInsert(w)
  PROVE  PayInv'
<1> DEFINE b == [of |-> loc[w].set, attempt |-> loc[w].n, cut |-> {}, state |-> "created",
                 total |-> SumFunctionOnSet(loc[w].nets, loc[w].set)]
           l == [loc[w] EXCEPT !.n = Len(batch) + 1]
<1>1. /\ pc[w] = "b_insert" /\ obl' = obl /\ sent' = sent /\ tx' = tx
      /\ payable' = payable /\ given' = given /\ events' = events
      /\ \/ Done(w, "b_insert") /\ batch' = batch
         \/ batch' = Append(batch, b) /\ GotoWith(w, "b_insert", "b_claim", l)
  BY DEF RunInsert, Done, GotoWith, ledger, provider
<1>2. /\ TxOK' /\ ProviderOK' /\ payable' \in Int
  BY <1>1 DEF PayInv, RowsOK, TxOK, ProviderOK
<1>3. CASE Done(w, "b_insert") /\ batch' = batch
  BY <1>1, <1>2, <1>3, DoneLands, QuietPays
<1>4. CASE batch' = Append(batch, b) /\ GotoWith(w, "b_insert", "b_claim", l)
  <2>1. /\ DOMAIN l = Fields /\ l.row = loc[w].row /\ l.set = loc[w].set /\ l.nets = loc[w].nets
        /\ l.n = Len(batch) + 1
    BY MyLocals, LocalFields
  <2>2. DOMAIN b = BatchFields
    BY DEF BatchFields
  <2> HIDE DEF l, b
  <2>3. /\ Len(batch) \in Nat /\ Len(batch') = Len(batch) + 1
        /\ batch'[Len(batch) + 1] = b
        /\ \A i \in 1 .. Len(batch) : batch'[i] = batch[i]
    <3>1. PICK S : batch \in Seq(S)
      BY DEF LeaveInv, Shape
    <3>2. batch \in Seq(S \cup {b})
      BY <3>1
    <3> QED BY <1>4, <3>2, AppendProperties, LenProperties
  <2>4. LocalsOK(w, pc[w], loc[w]) /\ HandOK(w)
    BY MyLocals DEF PayInv
  <2>5. LocalsOK(w, "b_claim", l)
    BY <1>1, <2>1, <2>4
    DEF LocalsOK, Choosing, Moving, Refunding, Handling, Running, Reading, Holding
  <2>6. pc'[w] = "b_claim" /\ loc'[w] = l /\ Others(w)
    BY <1>4, <2>1, MoveFacts DEF LeaveInv
  <2>7. LocalsOK(w, pc[w], loc[w])'
    BY <2>5, <2>6 DEF LocalsOK
  <2>8. \A e \in Earnings : obl[e].batch # Len(batch) + 1
    BY <2>3 DEF LeaveInv, OblShape
  <2>9. HandOK(w)'
    BY <1>1, <2>1, <2>4, <2>6, <2>8 DEF HandOK, Reading, Holding
  <2>10. SentPays'
    BY <1>1, SentStays DEF SentPays
  <2>11. KeepsNets(w) /\ KeepsHands(w)
    BY <1>1, <2>3, InHand DEF KeepsNets, KeepsHands
  <2>12. RowsOK'
    BY <1>1, <1>2, <2>2, <2>3 DEF PayInv, RowsOK
  <2> QED BY <1>2, <2>6, <2>7, <2>9, <2>10, <2>11, <2>12, HoldingPays
<1> QED BY <1>1, <1>3, <1>4

(* What is claimed was read with its amount; nothing else carries the      *)
(* number, so the total is the sum over the obligations that do.           *)
LEMMA RunClaimPays ==
  ASSUME LeaveInv, PayInv, NEW w \in Workers, RunClaim(w)
  PROVE  PayInv'
<1> DEFINE n == loc[w].n
           mine == {e \in loc[w].set : obl[e].state = "available" /\ obl[e].batch = 0}
           total == SumFunctionOnSet(loc[w].nets, mine)
<1>1. /\ pc[w] = "b_claim" /\ sent' = sent /\ tx' = tx
      /\ payable' = payable /\ given' = given /\ events' = events
      /\ obl' = [e \in Earnings |-> IF e \in mine THEN [obl[e] EXCEPT !.state = "batched", !.batch = n]
                                   ELSE obl[e]]
      /\ \/ batch' = [batch EXCEPT ![n].state = "failed"] /\ Done(w, "b_claim")
         \/ batch' = [batch EXCEPT ![n].total = total] /\ Goto(w, "b_claim", "b_net")
  BY DEF RunClaim, ledger, provider
<1>2. /\ n \in 1 .. Len(batch) /\ DOMAIN loc[w] = Fields /\ Len(batch) \in Nat
      /\ LocalsOK(w, pc[w], loc[w]) /\ HandOK(w)
  BY <1>1, InHand, MyLocals, LenProperties DEF Batching, Unsending, PayInv, LeaveInv, Shape
<1>3. mine \subseteq Earnings /\ \A e \in mine : loc[w].nets[e] = obl[e].net /\ obl[e].batch = 0
  BY <1>1, <1>2 DEF LocalsOK, HandOK, Reading
<1>4. \A e \in Earnings : obl[e].batch # n
  BY <1>1, <1>2 DEF HandOK
<1>5. /\ \A e \in mine : obl'[e].batch = n /\ obl'[e].net = obl[e].net
      /\ \A e \in Earnings \ mine : obl'[e] = obl[e]
  BY <1>1, <1>3 DEF LeaveInv, OblShape
<1>6. \A e \in mine : loc[w].nets[e] \in Int /\ loc[w].nets[e] = Nets'[e]
  BY <1>3, <1>5 DEF PayInv, RowsOK, Nets
<1>7. total \in Int /\ total = SumFunctionOnSet(Nets', mine)
  BY <1>3, <1>6, SumInt, SumKept
<1> HIDE DEF total, mine
<1>8. {e \in Earnings : obl'[e].batch = n} = mine
  BY <1>3, <1>4, <1>5
<1>9. /\ Len(batch') = Len(batch)
      /\ \A i \in 1 .. Len(batch) : DOMAIN batch'[i] = BatchFields
      /\ \A i \in (1 .. Len(batch)) \ {n} : batch'[i].total = batch[i].total
  <2>1. CASE batch' = [batch EXCEPT ![n].state = "failed"]
    BY <1>2, <2>1, BatchState
  <2>2. CASE batch' = [batch EXCEPT ![n].total = total]
    <3> DEFINE b == [batch[n] EXCEPT !.total = total]
    <3>1. DOMAIN b = BatchFields /\ batch' = [batch EXCEPT ![n] = b]
      BY <1>2, <2>2 DEF PayInv, RowsOK
    <3> HIDE DEF b
    <3> QED BY <1>2, <3>1, BatchSet
  <2> QED BY <1>1, <2>1, <2>2
<1>10. KeepsNets(w)
  BY <1>5 DEF KeepsNets
<1>11. KeepsHands(w)
  <2>1. ASSUME NEW v \in Workers \ {w}, pc[v] \in Batching
        PROVE  loc[v].n \in (1 .. Len(batch)) \ {n}
    BY <1>1, <2>1, InHand DEF LeaveInv, OneOwner, Batching, Unsending
  <2>2. \A m \in (1 .. Len(batch)) \ {n} : \A e \in Earnings : obl'[e].batch = m <=> obl[e].batch = m
    BY <1>2, <1>3, <1>5
  <2> QED BY <1>9, <2>1, <2>2 DEF KeepsHands
<1>12. RowsOK' /\ ProviderOK'
  <2>1. \A e \in Earnings : obl'[e].net = obl[e].net
    BY <1>5
  <2> QED BY <1>1, <1>9, <2>1 DEF PayInv, RowsOK, TxOK, ProviderOK
<1>13. CASE Done(w, "b_claim")
  BY <1>1, <1>10, <1>11, <1>12, <1>13, DoneLands, LandingPays
<1>14. CASE batch' = [batch EXCEPT ![n].total = total] /\ Goto(w, "b_claim", "b_net")
  <2>1. pc'[w] = "b_net" /\ loc'[w] = loc[w] /\ Others(w)
    BY <1>2, <1>14, MoveFacts DEF LeaveInv, Goto
  <2>2. LocalsOK(w, "b_net", loc[w])
    <3>1. LocalsOK(w, "b_claim", loc[w])
      BY <1>1, <1>2
    <3>2. "b_claim" \in Running /\ "b_net" \in Running \ Reading
      BY DEF Running, Reading, Holding
    <3> QED BY <3>1, <3>2, LocalsMove
  <2>3. LocalsOK(w, pc[w], loc[w])'
    BY <2>1, <2>2 DEF LocalsOK
  <2>4. batch'[n].total = total
    <3> DEFINE b == [batch[n] EXCEPT !.total = total]
    <3>1. DOMAIN b = BatchFields /\ batch' = [batch EXCEPT ![n] = b] /\ b.total = total
      BY <1>2, <1>14 DEF PayInv, RowsOK, BatchFields
    <3> HIDE DEF b
    <3> QED BY <1>2, <3>1, BatchSet
  <2>5. HandOK(w)'
    <3>1. /\ batch'[n].total \in Int
          /\ batch'[n].total <= SumFunctionOnSet(Nets', {e \in Earnings : obl'[e].batch = n})
      BY <1>7, <1>8, <2>4
    <3>2. pc'[w] \notin Reading /\ pc'[w] # "b_claim" /\ loc'[w].n = n
      BY <2>1 DEF Reading
    <3> QED BY <3>1, <3>2 DEF HandOK
  <2>6. SentPays'
    BY <1>1, <1>10, SentStays DEF SentPays, KeepsNets
  <2> QED BY <1>10, <1>11, <1>12, <2>1, <2>3, <2>5, <2>6, HoldingPays
<1> QED BY <1>1, <1>13, <1>14

(* the debt it nets makes the batch smaller *)
LEMMA RunNetPays ==
  ASSUME LeaveInv, PayInv, NEW w \in Workers, RunNet(w)
  PROVE  PayInv'
<1> DEFINE n == loc[w].n
           cut == IF AutoNet /\ ~loc[w].dry /\ Debt > 0 /\ batch[n].total - Debt >= 1 THEN Debt ELSE 0
           b == [batch[n] EXCEPT !.total = @ - cut, !.cut = Clawbacks]
           S == {e \in Earnings : obl[e].batch = n}
<1>1. /\ pc[w] = "b_net" /\ obl' = obl /\ sent' = sent /\ tx' = tx
      /\ payable' = payable /\ given' = given /\ events' = events
      /\ batch' = batch \/ batch' = [batch EXCEPT ![n] = b]
      /\ Goto(w, "b_net", "b_recheck")
  BY DEF RunNet, ledger, provider
<1>2. cut \in Nat
  <2>1. SumFunctionOnSet(Nets, Within({"accrued", "available", "batched"})) \in Int
    BY SumInt DEF Within, Nets, PayInv, RowsOK
  <2>2. payable \in Int
    BY DEF PayInv, RowsOK
  <2> QED BY <2>1, <2>2 DEF Debt
<1> HIDE DEF cut
<1>3. /\ n \in 1 .. Len(batch) /\ DOMAIN loc[w] = Fields
      /\ LocalsOK(w, pc[w], loc[w]) /\ HandOK(w)
  BY <1>1, InHand, MyLocals DEF Batching, Unsending, PayInv
<1>4. batch[n].total \in Int /\ batch[n].total <= SumFunctionOnSet(Nets, S)
  BY <1>1, <1>3 DEF HandOK, Holding
<1>5. DOMAIN batch[n] = BatchFields
  BY <1>3 DEF PayInv, RowsOK
<1>6. DOMAIN b = BatchFields /\ b.total = batch[n].total - cut
  BY <1>5 DEF BatchFields
<1> HIDE DEF b
<1>7. /\ Len(batch') = Len(batch)
      /\ \A i \in 1 .. Len(batch) : DOMAIN batch'[i] = BatchFields
      /\ \A i \in (1 .. Len(batch)) \ {n} : batch'[i].total = batch[i].total
      /\ batch'[n].total \in {batch[n].total, batch[n].total - cut}
  <2>1. CASE batch' = batch
    BY <2>1 DEF PayInv, RowsOK
  <2>2. CASE batch' = [batch EXCEPT ![n] = b]
    BY <1>3, <1>6, <2>2, BatchSet
  <2> QED BY <1>1, <2>1, <2>2
<1>8. SumFunctionOnSet(Nets, S) \in Int
  BY SumInt DEF Nets, PayInv, RowsOK
<1>9. /\ pc'[w] = "b_recheck" /\ loc'[w] = loc[w] /\ Others(w)
  BY <1>1, <1>3, MoveFacts DEF LeaveInv, Goto
<1>10. LocalsOK(w, pc[w], loc[w])'
  <2>1. LocalsOK(w, "b_recheck", loc[w])
    BY <1>1, <1>3, LocalsMove DEF Running, Reading, Holding
  <2> QED BY <1>9, <2>1 DEF LocalsOK
<1>11. HandOK(w)'
  <2>1. /\ batch'[n].total \in Int
        /\ batch'[n].total <= SumFunctionOnSet(Nets', {e \in Earnings : obl'[e].batch = n})
    <3>1. Nets' = Nets /\ {e \in Earnings : obl'[e].batch = n} = S
      BY <1>1 DEF Nets
    <3>2. batch'[n].total \in Int /\ batch'[n].total <= batch[n].total
      BY <1>2, <1>4, <1>7
    <3>3. SumFunctionOnSet(Nets', {e \in Earnings : obl'[e].batch = n}) = SumFunctionOnSet(Nets, S)
      BY <3>1
    <3>4. batch'[n].total <= SumFunctionOnSet(Nets, S)
      <4> HIDE DEF S
      <4> QED BY <1>4, <1>8, <3>2
    <3> QED BY <3>2, <3>3, <3>4
  <2>2. pc'[w] \notin Reading /\ pc'[w] # "b_claim" /\ loc'[w].n = n
    BY <1>9 DEF Reading
  <2> QED BY <2>1, <2>2 DEF HandOK
<1>12. KeepsNets(w) /\ KeepsHands(w)
  <2>1. ASSUME NEW v \in Workers \ {w}, pc[v] \in Batching
        PROVE  loc[v].n \in (1 .. Len(batch)) \ {n}
    BY <1>1, <2>1, InHand DEF LeaveInv, OneOwner, Batching, Unsending
  <2> QED BY <1>1, <1>7, <2>1 DEF KeepsNets, KeepsHands
<1>13. RowsOK' /\ ProviderOK'
  BY <1>1, <1>7 DEF PayInv, RowsOK, TxOK, ProviderOK
<1>14. SentPays'
  BY <1>1, SentStays DEF SentPays
<1> QED BY <1>9, <1>10, <1>11, <1>12, <1>13, <1>14, HoldingPays

(* a batch that is not sent: the obligations of no other one are released *)
LEMMA RunReleasePays ==
  ASSUME LeaveInv, PayInv, NEW w \in Workers, RunRecheck(w) \/ RunRelease(w)
  PROVE  PayInv'
<1> DEFINE n == loc[w].n
<1>1. /\ pc[w] \in {"b_recheck", "b_release"} /\ sent' = sent /\ tx' = tx
      /\ payable' = payable /\ given' = given /\ events' = events
      /\ n \in 1 .. Len(batch) /\ DOMAIN loc[w] = Fields
      /\ LocalsOK(w, pc[w], loc[w]) /\ HandOK(w)
  BY InHand, MyLocals DEF RunRecheck, RunRelease, ledger, provider, Batching, Unsending, PayInv
<1>2. /\ TxOK' /\ ProviderOK' /\ payable' \in Int
  BY <1>1 DEF PayInv, RowsOK, TxOK, ProviderOK
<1>3. ASSUME NEW from, NEW s, Done(w, from), obl' = Release(n), batch' = [batch EXCEPT ![n].state = s]
      PROVE  PayInv'
  <2>1. /\ Len(batch') = Len(batch)
        /\ \A i \in 1 .. Len(batch) : DOMAIN batch'[i] = BatchFields /\ batch'[i].total = batch[i].total
    BY <1>1, <1>3, BatchState
  <2>2. \A e \in Earnings : /\ obl'[e].net = obl[e].net
                            /\ obl[e].batch = n => obl'[e].batch = 0
                            /\ obl[e].batch # n => obl'[e].batch = obl[e].batch
    BY <1>3 DEF Release, LeaveInv, OblShape
  <2>3. ASSUME NEW v \in Workers \ {w}, pc[v] \in Batching
        PROVE  loc[v].n \in (1 .. Len(batch)) \ {n}
    BY <1>1, <2>3, InHand DEF LeaveInv, OneOwner, Batching, Unsending
  <2>4. \A m \in (1 .. Len(batch)) \ {n} : \A e \in Earnings : obl'[e].batch = m <=> obl[e].batch = m
    BY <2>2
  <2>5. KeepsNets(w) /\ KeepsHands(w)
    BY <2>1, <2>2, <2>3, <2>4 DEF KeepsNets, KeepsHands
  <2>6. RowsOK'
    BY <1>2, <2>1, <2>2 DEF PayInv, RowsOK
  <2> QED BY <1>1, <1>2, <1>3, <2>5, <2>6, DoneLands, LandingPays
<1>4. CASE obl' = obl /\ batch' = batch /\ Done(w, "b_recheck")
  BY <1>1, <1>2, <1>4, DoneLands, QuietPays
<1>5. CASE obl' = obl /\ batch' = batch /\ Goto(w, "b_recheck", "b_send")
  <2>1. pc[w] = "b_recheck" /\ pc'[w] = "b_send" /\ loc'[w] = loc[w] /\ Others(w)
    BY <1>1, <1>5, MoveFacts DEF LeaveInv, Goto
  <2>2. LocalsOK(w, pc[w], loc[w])'
    <3>1. LocalsOK(w, "b_send", loc[w])
      BY <1>1, <2>1, LocalsMove DEF Running, Reading, Holding
    <3> QED BY <2>1, <3>1 DEF LocalsOK
  <2>3. Nets' = Nets
    BY <1>5 DEF Nets
  <2>4. HandOK(w)'
    BY <1>1, <1>5, <2>1, <2>3 DEF HandOK, Reading, Holding
  <2>5. SentPays'
    BY <1>1, <2>3 DEF SentPays, PayInv
  <2>6. RowsOK'
    BY <1>2, <1>5 DEF PayInv, RowsOK
  <2> QED BY <1>2, <1>5, <2>1, <2>2, <2>4, <2>5, <2>6, SameHands, HoldingPays
<1> QED BY <1>3, <1>4, <1>5 DEF RunRecheck, RunRelease

(* what is sent is the total in hand *)
LEMMA RunSendPays ==
  ASSUME LeaveInv, PayInv, NEW w \in Workers, RunSend(w)
  PROVE  PayInv'
<1> DEFINE n == loc[w].n
           S == {e \in Earnings : obl[e].batch = n}
           s == [by |-> "batch", of |-> S, amount |-> batch[n].total, n |-> n]
<1>1. /\ pc[w] = "b_send" /\ sent' \in {sent, sent \cup {s}} /\ tx' = tx /\ obl' = obl /\ batch' = batch
      /\ payable' = payable /\ given' = given /\ events' = events
      /\ \E to \in {"b_paid", "b_release", "b_unknown"} : Goto(w, "b_send", to)
  BY DEF RunSend, Paid, Goto, GotoWith, rows, ledger
<1>2. PICK to \in {"b_paid", "b_release", "b_unknown"} : Goto(w, "b_send", to)
  BY <1>1
<1>3. /\ DOMAIN loc[w] = Fields /\ LocalsOK(w, pc[w], loc[w]) /\ HandOK(w)
  BY MyLocals DEF PayInv
<1>4. batch[n].total \in Int /\ batch[n].total <= SumFunctionOnSet(Nets, S)
  BY <1>1, <1>3 DEF HandOK, Holding
<1>5. pc'[w] = to /\ loc'[w] = loc[w] /\ Others(w)
  BY <1>2, <1>3, MoveFacts DEF LeaveInv, Goto
<1>6. LocalsOK(w, pc[w], loc[w])'
  <2>1. LocalsOK(w, to, loc[w])
    BY <1>1, <1>3, LocalsMove DEF Running, Reading, Holding
  <2> QED BY <1>5, <2>1 DEF LocalsOK
<1>7. Nets' = Nets
  BY <1>1 DEF Nets
<1>8. HandOK(w)'
  BY <1>1, <1>4, <1>5, <1>7 DEF HandOK, Reading, Holding
<1>9. SentPays'
  <2>1. s.amount <= SumFunctionOnSet(Nets, s.of)
    BY <1>4
  <2> HIDE DEF s
  <2> QED BY <1>1, <1>7, <2>1 DEF PayInv, SentPays
<1>10. RowsOK' /\ ProviderOK'
  BY <1>1 DEF PayInv, RowsOK, TxOK, ProviderOK
<1> QED BY <1>1, <1>5, <1>6, <1>8, <1>9, <1>10, SameHands, HoldingPays

LEMMA RunPaidPays ==
  ASSUME LeaveInv, PayInv, NEW w \in Workers, RunPaid(w)
  PROVE  PayInv'
<1> DEFINE n == loc[w].n
<1>1. /\ pc[w] = "b_paid" /\ sent' = sent /\ tx' = tx /\ given' = given /\ events' = events
      /\ batch' = [batch EXCEPT ![n].state = "paid"] /\ payable' = payable - batch[n].total
      /\ obl' = [e \in Earnings |-> IF obl[e].batch = n THEN [obl[e] EXCEPT !.state = "paid"] ELSE obl[e]]
      /\ Goto(w, "b_paid", "b_recover")
  BY DEF RunPaid, provider
<1>2. /\ n \in 1 .. Len(batch) /\ DOMAIN loc[w] = Fields
      /\ LocalsOK(w, pc[w], loc[w]) /\ HandOK(w)
  BY <1>1, InHand, MyLocals DEF Batching, PayInv
<1>3. /\ Len(batch') = Len(batch)
      /\ \A i \in 1 .. Len(batch) : DOMAIN batch'[i] = BatchFields /\ batch'[i].total = batch[i].total
  BY <1>1, <1>2, BatchState
<1>4. \A e \in Earnings : obl'[e].net = obl[e].net /\ obl'[e].batch = obl[e].batch
  BY <1>1 DEF LeaveInv, OblShape
<1>5. KeepsNets(w) /\ KeepsHands(w)
  BY <1>3, <1>4, InHand DEF KeepsNets, KeepsHands
<1>6. batch[n].total \in Int /\ payable \in Int
  BY <1>1, <1>2 DEF HandOK, Holding, PayInv, RowsOK
<1>7. RowsOK' /\ ProviderOK'
  BY <1>1, <1>3, <1>4, <1>6 DEF PayInv, RowsOK, TxOK, ProviderOK
<1>8. Lands(w)
  <2>1. LocalsOK(w, "b_recover", loc[w])
    BY <1>1, <1>2, LocalsMove DEF Running, Reading, Holding
  <2> QED BY <1>1, <2>1, GotoLands DEF Reading, Holding
<1> QED BY <1>1, <1>5, <1>7, <1>8, LandingPays

-----------------------------------------------------------------------------
LEMMA InitPays == Init => PayInv
<1> SUFFICES ASSUME Init PROVE PayInv
  OBVIOUS
<1>1. /\ Net \in Nat /\ Captured \in Nat
      /\ Cardinality(Earnings) \in Nat
  BY MoneyAssumption, WorkAssumption, FS_CardinalityType
<1>2. RowOK(NewRow) /\ RowOK(NoLocals.row)
  BY DEF NoLocals, NewRow, RowOK, RowFields
<1>3. \A w \in Workers : LocalsOK(w, pc[w], loc[w]) /\ HandOK(w)
  <2> SUFFICES ASSUME NEW w \in Workers PROVE LocalsOK(w, pc[w], loc[w]) /\ HandOK(w)
    OBVIOUS
  <2>1. pc[w] = "idle" /\ loc[w] = NoLocals
    BY DEF Init
  <2>2. LocalsOK(w, pc[w], loc[w])
    BY <1>2, <2>1, LocalFields
    DEF LocalsOK, Choosing, Moving, Refunding, Handling, Running, Reading, Holding
  <2> QED BY <2>1, <2>2 DEF HandOK, Reading, Holding
<1>4. RowsOK
  <2>1. Len(batch) = 0
    BY DEF Init
  <2>2. /\ DOMAIN tx = Earnings /\ \A e \in Earnings : tx[e] = NewRow /\ obl[e].net = Net
    BY DEF Init
  <2>3. payable \in Int
    BY <1>1 DEF Init
  <2> QED BY <1>1, <1>2, <2>1, <2>2, <2>3 DEF RowsOK, TxOK
<1>5. ProviderOK
  BY DEF Init, ProviderOK
<1> QED BY <1>3, <1>4, <1>5 DEF PayInv, SentPays, Init

LEMMA NextPays ==
  ASSUME LeaveInv, PayInv, FullRefunds \/ Apart, [Next]_vars
  PROVE  PayInv'
<1>1. CASE Environment \/ UNCHANGED vars
  BY <1>1, EnvironmentPays
<1>2. ASSUME NEW w \in Workers, Begins(w) PROVE PayInv'
  BY <1>2, TransferPays, RefundStartPays, DeliverPays, RunQuietPays DEF Begins
<1>3. ASSUME NEW w \in Workers, Run(w) PROVE PayInv'
  BY <1>3, RunQuietPays, RunReadPays, RunPriorPays, RunInsertPays, RunClaimPays, RunNetPays,
     RunReleasePays, RunSendPays, RunPaidPays DEF Run
<1>4. ASSUME NEW w \in Workers, Proceed(w) \/ Crash(w) PROVE PayInv'
  BY <1>3, <1>4, TransferPays, RefundPays, WebhookPays, RetakePays, CrashPays DEF Proceed
<1> QED BY <1>1, <1>2, <1>4 DEF Next

LEMMA InvBatchPays == LeaveInv /\ PayInv => BatchPaysItsEarnings
<1> SUFFICES ASSUME LeaveInv, PayInv, NEW s \in sent, s.by = "batch"
             PROVE  /\ s.amount <= SumFunctionOnSet(Nets, s.of)
                    /\ \A e \in s.of : obl[e].state # "reversed"
  BY DEF BatchPaysItsEarnings
<1>1. IsBatch(s) /\ \A e \in s.of : obl[e].batch = s.n
  BY DEF LeaveInv, SentOK, IsTransfer
<1>2. \A e \in s.of : obl[e].state # "reversed"
  BY <1>1 DEF LeaveInv, OblShape, IsBatch
<1> QED BY <1>2 DEF PayInv, SentPays

(* What a batch pays the seller is no more than its obligations come to,   *)
(* clawbacks included, when every refund is a full one or no process       *)
(* refunds while another one pays out.                                     *)
THEOREM BatchPaysHolds == FullRefunds \/ Apart => (Spec => []BatchPaysItsEarnings)
<1> SUFFICES ASSUME FullRefunds \/ Apart PROVE Spec => []BatchPaysItsEarnings
  OBVIOUS
<1>1. Init => LeaveInv /\ PayInv
  BY InitLeaves, InitPays
<1>2. LeaveInv /\ PayInv /\ [Next]_vars => (LeaveInv /\ PayInv)'
  BY NextLeaves, NextPays
<1>3. Spec => [](LeaveInv /\ PayInv)
  BY <1>1, <1>2, PTL DEF Spec
<1> QED BY <1>3, InvBatchPays, PTL

-----------------------------------------------------------------------------
(* What the operation log says of refunds (RefundsWereMade)                *)

(* An operation that is recorded as succeeded is never repeated: the       *)
(* refund it stands for must have been made.                               *)
RefundsWereMade ==
  \A e \in Earnings, a \in 1 .. Captured :
    op[<<e, <<"refund", a>>>>] = "succeeded" => a \in given[e].keys

(* a refund that is not recorded yet *)
Asking == {"f_pending", "f_begin", "f_call", "f_fail", "f_finish"}
Asks(p, l) == p \in Asking \/ (p = "retake" /\ l.go = "f_call")

AskOK(w) ==
  /\ Asks(pc[w], loc[w]) => loc[w].e \in Earnings
  /\ pc[w] = "f_finish" => loc[w].amount \in given[loc[w].e].keys

MadeShape ==
  /\ DOMAIN op = Earnings \X Keys /\ DOMAIN given = Earnings
  /\ \A e \in Earnings : DOMAIN given[e] = {"amount", "keys"}

MadeInv == MadeShape /\ RefundsWereMade /\ \A w \in Workers : AskOK(w)

(* no refund is recorded, and what the provider made stays made *)
OpMild ==
  /\ DOMAIN op' = DOMAIN op
  /\ \A e \in Earnings, a \in 1 .. Captured :
       op'[<<e, <<"refund", a>>>>] = "succeeded" => op[<<e, <<"refund", a>>>>] = "succeeded"

GivenGrows ==
  /\ DOMAIN given' = Earnings
  /\ \A e \in Earnings : DOMAIN given'[e] = {"amount", "keys"} /\ given[e].keys \subseteq given'[e].keys

Turns(w) ==
  \E from, to, l : GotoWith(w, from, to, l) /\ ~Asks(to, l)

LEMMA RefundKeys ==
  \A e \in Earnings, a \in 1 .. Captured : <<e, <<"refund", a>>>> \in Earnings \X Keys
BY DEF Keys

LEMMA OpSteps ==
  ASSUME MadeInv
  PROVE  /\ op' = op => OpMild
         /\ \A k, s : op' = [op EXCEPT ![k] = s] /\ s # "succeeded" => OpMild
         /\ \A e, k, s : op' = [op EXCEPT ![<<e, k>>] = s] /\ k[1] # "refund" => OpMild
<1>1. DOMAIN op = Earnings \X Keys
  BY DEF MadeInv, MadeShape
<1>2. ASSUME NEW k, NEW s, op' = [op EXCEPT ![k] = s], s # "succeeded" PROVE OpMild
  BY <1>1, <1>2, RefundKeys DEF OpMild
<1>3. ASSUME NEW e, NEW k, NEW s, op' = [op EXCEPT ![<<e, k>>] = s], k[1] # "refund" PROVE OpMild
  <2>1. ASSUME NEW f \in Earnings, NEW a \in 1 .. Captured
        PROVE  op'[<<f, <<"refund", a>>>>] = op[<<f, <<"refund", a>>>>]
    <3>1. <<f, <<"refund", a>>>> # <<e, k>>
      BY <1>3
    <3> QED BY <1>1, <1>3, <3>1, RefundKeys
  <2> QED BY <1>3, <2>1 DEF OpMild
<1> QED BY <1>2, <1>3 DEF OpMild

LEMMA MadeKept ==
  ASSUME MadeInv, OpMild, GivenGrows,
         \A w \in Workers : AskOK(w)'
  PROVE  MadeInv'
BY DEF MadeInv, MadeShape, RefundsWereMade, OpMild, GivenGrows

LEMMA AskKept ==
  ASSUME MadeInv, GivenGrows, NEW w \in Workers, pc'[w] = pc[w], loc'[w] = loc[w]
  PROVE  AskOK(w)'
BY DEF MadeInv, GivenGrows, AskOK, Asks, Asking

LEMMA SameGiven ==
  ASSUME MadeInv, given' = given
  PROVE  GivenGrows
BY DEF MadeInv, MadeShape, GivenGrows

LEMMA AskStep ==
  ASSUME LeaveInv, MadeInv, NEW w \in Workers, NEW from, NEW to, NEW l, GotoWith(w, from, to, l),
         OpMild, GivenGrows, Asks(to, l) => l.e \in Earnings,
         to = "f_finish" => l.amount \in given'[l.e].keys
  PROVE  MadeInv'
<1>1. pc'[w] = to /\ loc'[w] = l /\ \A v \in Workers \ {w} : pc'[v] = pc[v] /\ loc'[v] = loc[v]
  BY DEF GotoWith, LeaveInv, Shape
<1>2. AskOK(w)'
  BY <1>1 DEF AskOK
<1> QED BY <1>1, <1>2, AskKept, MadeKept

LEMMA TurnStep ==
  ASSUME LeaveInv, MadeInv, NEW w \in Workers, Turns(w), OpMild, given' = given
  PROVE  MadeInv'
<1>1. PICK from, to, l : GotoWith(w, from, to, l) /\ ~Asks(to, l)
  BY DEF Turns
<1> QED BY <1>1, SameGiven, AskStep DEF Asks, Asking

LEMMA GotoTurns ==
  ASSUME NEW w \in Workers
  PROVE  /\ \A from, to, l : to \notin Asking \cup {"retake"} /\ GotoWith(w, from, to, l) => Turns(w)
         /\ \A from, to : to \notin Asking \cup {"retake"} /\ Goto(w, from, to) => Turns(w)
         /\ \A from : Done(w, from) \/ Return(w, from) => Turns(w)
         /\ \A from, s, to : to \notin Asking \cup {"retake"} /\ Transition(w, from, s, to) => Turns(w)
<1>1. \A from, to, l : to \notin Asking \cup {"retake"} /\ GotoWith(w, from, to, l) => Turns(w)
  BY DEF Turns, Asks
<1>2. \A from : Done(w, from) => Turns(w)
  BY <1>1 DEF Done, Asking
<1>3. \A from, to : to \notin Asking \cup {"retake"} /\ Goto(w, from, to) => Turns(w)
  BY <1>1 DEF Goto
<1>4. \A from : Return(w, from) => Turns(w)
  BY <1>2, <1>3 DEF Return, Asking
<1>5. \A from, s, to : to \notin Asking \cup {"retake"} /\ Transition(w, from, s, to) => Turns(w)
  BY <1>1, <1>2 DEF Transition
<1> QED BY <1>1, <1>2, <1>3, <1>4, <1>5

(* a step of another kind of operation, or of a key that is retaken *)
LEMMA OtherKey ==
  ASSUME LeaveInv, MadeInv, NEW w \in Workers, NEW from, NEW to, NEW k, NEW s,
         k[1] # "refund", to \notin Asking \cup {"retake"},
         Begin(w, from, k, to) \/ FinishOp(w, from, k, s, to)
  PROVE  OpMild /\ Turns(w)
<1>1. CASE FinishOp(w, from, k, s, to)
  BY <1>1, OpSteps, GotoTurns DEF FinishOp
<1>2. CASE Begin(w, from, k, to)
  <2>1. OpMild
    <3>1. op' = op \/ op' = [op EXCEPT ![<<loc[w].e, k>>] = "pending"]
      BY <1>2 DEF Begin
    <3> QED BY <3>1, OpSteps
  <2>2. CASE Goto(w, from, to) \/ Return(w, from)
    BY <1>2, <2>1, <2>2, GotoTurns
  <2>3. CASE GotoWith(w, from, "retake", [loc[w] EXCEPT !.key = k, !.go = to])
    <3> DEFINE l == [loc[w] EXCEPT !.key = k, !.go = to]
    <3>1. GotoWith(w, from, "retake", l) /\ l.go = to
      BY <2>3, LocalFields DEF LeaveInv, Shape
    <3> HIDE DEF l
    <3>2. ~Asks("retake", l)
      BY <1>2, <3>1 DEF Asks, Asking
    <3> QED BY <2>1, <3>1, <3>2 DEF Turns
  <2> QED BY <1>2, <2>2, <2>3 DEF Begin
<1> QED BY <1>1, <1>2

LEMMA TransferMade ==
  ASSUME LeaveInv, MadeInv, NEW w \in Workers, Transfer(w) \/ \E e \in Earnings : TransferStart(w, e)
  PROVE  MadeInv'
<1>1. CASE TransferBegin(w)
  <2> DEFINE k == <<"transfer", 0>>
  <2>1. Begin(w, "t_begin", k, "t_pending")
    BY <1>1 DEF TransferBegin
  <2>2. k[1] # "refund" /\ "t_pending" \notin Asking \cup {"retake"}
    BY DEF Asking
  <2> HIDE DEF k
  <2>3. OpMild /\ Turns(w)
    BY <2>1, <2>2, OtherKey
  <2> QED BY <1>1, <2>3, TurnStep DEF TransferBegin, provider
<1>2. CASE TransferFail(w)
  <2> DEFINE k == <<"transfer", 0>>
  <2>1. FinishOp(w, "t_fail", k, "failed", "t_keep")
    BY <1>2 DEF TransferFail
  <2>2. k[1] # "refund" /\ "t_keep" \notin Asking \cup {"retake"}
    BY DEF Asking
  <2> HIDE DEF k
  <2>3. OpMild /\ Turns(w)
    BY <2>1, <2>2, OtherKey
  <2> QED BY <1>2, <2>3, TurnStep DEF TransferFail, provider
<1>3. CASE TransferFinish(w)
  <2> DEFINE k == <<"transfer", 0>>
  <2>1. FinishOp(w, "t_finish", k, "succeeded", "t_post")
    BY <1>3 DEF TransferFinish
  <2>2. k[1] # "refund" /\ "t_post" \notin Asking \cup {"retake"}
    BY DEF Asking
  <2> HIDE DEF k
  <2>3. OpMild /\ Turns(w)
    BY <2>1, <2>2, OtherKey
  <2> QED BY <1>3, <2>3, TurnStep DEF TransferFinish, provider
<1>4. CASE TransferAllow(w) \/ TransferEnsure(w) \/ TransferClaim(w) \/ TransferOwn(w)
  <2>1. given' = given /\ op' = op
    BY <1>4 DEF TransferAllow, TransferEnsure, TransferClaim, TransferOwn, rows, provider
  <2>2. Turns(w)
    BY <1>4, GotoTurns DEF TransferAllow, TransferEnsure, TransferClaim, TransferOwn, Asking
  <2> QED BY <2>1, <2>2, OpSteps, TurnStep
<1>5. CASE TransferPending(w) \/ TransferFailed(w) \/ TransferPost(w) \/ TransferComplete(w)
  <2>1. given' = given /\ op' = op
    BY <1>5 DEF TransferPending, TransferFailed, TransferPost, TransferComplete, provider
  <2>2. Turns(w)
    BY <1>5, GotoTurns DEF TransferPending, TransferFailed, TransferPost, TransferComplete, Asking
  <2> QED BY <2>1, <2>2, OpSteps, TurnStep
<1>6. CASE TransferCall(w) \/ TransferPaid(w) \/ TransferKeep(w)
  <2>1. given' = given /\ op' = op
    BY <1>6 DEF TransferCall, TransferPaid, TransferKeep, rows, provider
  <2>2. Turns(w)
    BY <1>6, GotoTurns DEF TransferCall, TransferPaid, TransferKeep, Asking
  <2> QED BY <2>1, <2>2, OpSteps, TurnStep
<1>7. CASE TransferSave(w) \/ TransferReconcile(w)
  <2>1. given' = given /\ op' = op
    BY <1>7 DEF TransferSave, TransferReconcile, provider
  <2>2. Turns(w)
    BY <1>7, GotoTurns DEF TransferSave, TransferReconcile, Asking
  <2> QED BY <2>1, <2>2, OpSteps, TurnStep
<1>8. ASSUME NEW e \in Earnings, TransferStart(w, e) PROVE MadeInv'
  <2> DEFINE l == [NoLocals EXCEPT !.e = e, !.row = tx[e]]
  <2>1. GotoWith(w, "idle", "t_allow", l) /\ UNCHANGED <<rows, ledger, provider, count>>
    BY <1>8, Zenon DEF TransferStart
  <2> HIDE DEF l
  <2>2. given' = given /\ op' = op
    BY <2>1 DEF rows, provider
  <2>3. Turns(w)
    BY <2>1, GotoTurns DEF Asking
  <2> QED BY <2>2, <2>3, OpSteps, TurnStep
<1> QED BY <1>1, <1>2, <1>3, <1>4, <1>5, <1>6, <1>7, <1>8 DEF Transfer

LEMMA RunMade ==
  ASSUME LeaveInv, MadeInv, NEW w \in Workers, Run(w) \/ \E dry \in BOOLEAN : RunStart(w, dry)
  PROVE  MadeInv'
<1>0. DOMAIN loc[w] = Fields
  BY DEF LeaveInv, Shape
<1>1. CASE RunCheck(w) \/ RunRead(w) \/ RunRecover(w)
  <2>1. given' = given /\ op' = op
    BY <1>1 DEF RunCheck, RunRead, RunRecover, rows, provider
  <2>2. Turns(w)
    BY <1>1, GotoTurns DEF RunCheck, RunRead, RunRecover, Asking
  <2> QED BY <2>1, <2>2, OpSteps, TurnStep
<1>2. CASE RunPrior(w) \/ RunInsert(w)
  <2>1. given' = given /\ op' = op
    BY <1>2, <1>0 DEF RunPrior, RunInsert, rows, provider
  <2>2. RunPrior(w) => Turns(w)
    <3> DEFINE l == [loc[w] EXCEPT !.n = Cardinality(Prior(loc[w].set))]
    <3>1. RunPrior(w) => Done(w, "b_prior") \/ GotoWith(w, "b_prior", "b_insert", l)
      BY Zenon DEF RunPrior
    <3> HIDE DEF l
    <3> QED BY <3>1, GotoTurns DEF Asking
  <2>3. RunInsert(w) => Turns(w)
    <3> DEFINE l == [loc[w] EXCEPT !.n = Len(batch) + 1]
    <3>1. RunInsert(w) => Done(w, "b_insert") \/ GotoWith(w, "b_insert", "b_claim", l)
      BY Zenon DEF RunInsert
    <3> HIDE DEF l
    <3> QED BY <3>1, GotoTurns DEF Asking
  <2> QED BY <1>2, <2>1, <2>2, <2>3, OpSteps, TurnStep
<1>6. CASE RunClaim(w)
  <2>1. /\ UNCHANGED <<tx, op, due, hold, ledger, provider, count>>
        /\ Done(w, "b_claim") \/ Goto(w, "b_claim", "b_net")
    BY <1>6, Zenon DEF RunClaim
  <2>2. given' = given /\ op' = op
    BY <2>1 DEF provider
  <2>3. Turns(w)
    BY <2>1, GotoTurns DEF Asking
  <2> QED BY <2>2, <2>3, OpSteps, TurnStep
<1>3. CASE RunNet(w) \/ RunRecheck(w) \/ RunSend(w)
  <2>1. given' = given /\ op' = op
    BY <1>3 DEF RunNet, RunRecheck, RunSend, rows, provider
  <2>2. Turns(w)
    BY <1>3, GotoTurns DEF RunNet, RunRecheck, RunSend, Asking
  <2> QED BY <2>1, <2>2, OpSteps, TurnStep
<1>4. CASE RunRelease(w) \/ RunUnknown(w) \/ RunPaid(w)
  <2>1. given' = given /\ op' = op
    BY <1>4 DEF RunRelease, RunUnknown, RunPaid, provider
  <2>2. Turns(w)
    BY <1>4, GotoTurns DEF RunRelease, RunUnknown, RunPaid, Asking
  <2> QED BY <2>1, <2>2, OpSteps, TurnStep
<1>5. ASSUME NEW dry \in BOOLEAN, RunStart(w, dry) PROVE MadeInv'
  <2>1. given' = given /\ op' = op
    BY <1>5 DEF RunStart, provider
  <2>2. GotoWith(w, "idle", "b_check", [NoLocals EXCEPT !.dry = dry])
    BY <1>5 DEF RunStart
  <2>3. Turns(w)
    BY <2>2, GotoTurns DEF Asking
  <2> QED BY <2>1, <2>3, OpSteps, TurnStep
<1> QED BY <1>1, <1>2, <1>3, <1>4, <1>5, <1>6 DEF Run

LEMMA WebhookMade ==
  ASSUME LeaveInv, MadeInv, NEW w \in Workers,
         Webhook(w) \/ Crash(w) \/ \E ev \in events : Deliver(w, ev)
  PROVE  MadeInv'
<1>1. CASE Webhook(w)
  <2>1. given' = given /\ op' = op
    BY <1>1 DEF Webhook, HandleRefunded, HandleDispute, HandleReview, EventDone, rows, provider
  <2>2. Turns(w)
    BY <1>1, GotoTurns
    DEF Webhook, HandleRefunded, HandleDispute, HandleReview, EventDone, Asking
  <2> QED BY <2>1, <2>2, OpSteps, TurnStep
<1>2. CASE Crash(w)
  <2>1. given' = given /\ op' = op
    BY <1>2 DEF Crash, rows, provider
  <2>2. Turns(w)
    BY <1>2, GotoTurns DEF Crash
  <2> QED BY <2>1, <2>2, OpSteps, TurnStep
<1>3. ASSUME NEW ev \in events, Deliver(w, ev) PROVE MadeInv'
  <2> DEFINE to == IF ev.kind = "refunded" THEN "h_refund" ELSE "h_dispute"
             l == [NoLocals EXCEPT !.e = ev.of, !.row = tx[ev.of], !.event = {ev},
                                   !.amount = ev.amount - tx[ev.of].refunded]
  <2>1. GotoWith(w, "idle", to, l) /\ UNCHANGED <<rows, ledger, provider, count>>
    BY <1>3, Zenon DEF Deliver
  <2> HIDE DEF l
  <2>2. to \notin Asking \cup {"retake"}
    BY DEF Asking
  <2> HIDE DEF to
  <2>3. given' = given /\ op' = op
    BY <2>1 DEF rows, provider
  <2>4. Turns(w)
    BY <2>1, <2>2, GotoTurns
  <2> QED BY <2>3, <2>4, OpSteps, TurnStep
<1> QED BY <1>1, <1>2, <1>3

(* what follows the refund: its posting, the reversal, the marks *)
LEMMA ShareMade ==
  ASSUME LeaveInv, MadeInv, NEW w \in Workers,
         \/ SettleShare(w) \/ ReversalBegin(w) \/ ReversalCall(w) \/ ReversalFail(w)
         \/ ReversalEscalate(w) \/ ReversalFinish(w) \/ ReversalBack(w) \/ RefundMark(w)
         \/ RefundFull(w) \/ RefundFail(w)
  PROVE  MadeInv'
<1>1. CASE ReversalBegin(w)
  <2> DEFINE k == <<"reversal", loc[w].amount>>
  <2>1. given' = given
    BY <1>1 DEF ReversalBegin, provider
  <2>2. OpMild
    <3>1. op' = op \/ op' = [op EXCEPT ![<<loc[w].e, k>>] = "pending"]
      BY <1>1 DEF ReversalBegin
    <3> QED BY <3>1, OpSteps
  <2>3. CASE AfterPost(w, "s_call", FALSE) \/ Return(w, "s_post")
    BY <2>1, <2>2, <2>3, GotoTurns, TurnStep DEF AfterPost, Asking
  <2>4. ASSUME NEW h, GotoWith(w, "s_post", "retake", [loc[w] EXCEPT !.key = h, !.go = "s_call"])
        PROVE  MadeInv'
    <3> DEFINE l == [loc[w] EXCEPT !.key = h, !.go = "s_call"]
    <3>1. GotoWith(w, "s_post", "retake", l) /\ l.go = "s_call"
      BY <2>4, LocalFields DEF LeaveInv, Shape
    <3> HIDE DEF l
    <3>2. Turns(w)
      BY <3>1 DEF Turns, Asks, Asking
    <3> QED BY <2>1, <2>2, <3>2, TurnStep
  <2>5. \/ AfterPost(w, "s_call", FALSE) \/ Return(w, "s_post")
        \/ \E h : GotoWith(w, "s_post", "retake", [loc[w] EXCEPT !.key = h, !.go = "s_call"])
    BY <1>1, Zenon DEF ReversalBegin
  <2> QED BY <2>3, <2>4, <2>5, Zenon
<1>2. CASE ReversalFail(w)
  <2> DEFINE k == <<"reversal", loc[w].amount>>
  <2>1. FinishOp(w, "s_fail", k, "failed", "s_escalate")
    BY <1>2 DEF ReversalFail
  <2>2. k[1] # "refund" /\ "s_escalate" \notin Asking \cup {"retake"}
    BY DEF Asking
  <2> HIDE DEF k
  <2>3. OpMild /\ Turns(w)
    BY <2>1, <2>2, OtherKey
  <2> QED BY <1>2, <2>3, TurnStep DEF ReversalFail, provider
<1>3. CASE ReversalFinish(w)
  <2> DEFINE k == <<"reversal", loc[w].amount>>
  <2>1. FinishOp(w, "s_finish", k, "succeeded", "s_back")
    BY <1>3 DEF ReversalFinish
  <2>2. k[1] # "refund" /\ "s_back" \notin Asking \cup {"retake"}
    BY DEF Asking
  <2> HIDE DEF k
  <2>3. OpMild /\ Turns(w)
    BY <2>1, <2>2, OtherKey
  <2> QED BY <1>3, <2>3, TurnStep DEF ReversalFinish, provider
<1>4. CASE RefundFail(w)
  <2>1. OpMild /\ given' = given
    BY <1>4, OpSteps DEF RefundFail, provider
  <2> QED BY <1>4, <2>1, GotoTurns, TurnStep DEF RefundFail
<1>5. CASE SettleShare(w) \/ ReversalCall(w) \/ ReversalEscalate(w)
  <2>1. given' = given /\ op' = op
    BY <1>5 DEF SettleShare, ReversalCall, ReversalEscalate, rows, provider
  <2>2. Turns(w)
    BY <1>5, GotoTurns DEF SettleShare, AfterPost, ReversalCall, ReversalEscalate, Asking
  <2> QED BY <2>1, <2>2, OpSteps, TurnStep
<1>6. CASE ReversalBack(w) \/ RefundMark(w) \/ RefundFull(w)
  <2>1. given' = given /\ op' = op
    BY <1>6 DEF ReversalBack, RefundMark, RefundFull, provider
  <2>2. Turns(w)
    BY <1>6, GotoTurns DEF ReversalBack, RefundMark, RefundFull, Asking
  <2> QED BY <2>1, <2>2, OpSteps, TurnStep
<1> QED BY <1>1, <1>2, <1>3, <1>4, <1>5, <1>6

(* the refund itself: the provider's answer comes before the record *)
LEMMA RefundMade ==
  ASSUME LeaveInv, MadeInv, NEW w \in Workers,
         \/ RefundPending(w) \/ RefundBegin(w) \/ RefundCall(w) \/ RefundFinish(w) \/ Retake(w)
         \/ \E e \in Earnings, a \in Amounts : RefundStart(w, e, a)
  PROVE  MadeInv'
<1>0. /\ AskOK(w) /\ DOMAIN loc[w] = Fields
      /\ DOMAIN given = Earnings /\ \A e \in Earnings : DOMAIN given[e] = {"amount", "keys"}
  BY DEF MadeInv, MadeShape, LeaveInv, Shape
<1>1. ASSUME NEW e \in Earnings, NEW a \in Amounts, RefundStart(w, e, a) PROVE MadeInv'
  <2> DEFINE left == Captured - tx[e].refunded
             amount == IF a < left THEN a ELSE left
             l == [NoLocals EXCEPT !.e = e, !.row = tx[e], !.amount = amount]
  <2>1. GotoWith(w, "idle", "f_pending", l) /\ UNCHANGED <<rows, ledger, provider, count>>
    BY <1>1, Zenon DEF RefundStart
  <2>2. l.e = e
    BY LocalFields
  <2> HIDE DEF l
  <2>3. given' = given /\ op' = op
    BY <2>1 DEF rows, provider
  <2> QED BY <2>1, <2>2, <2>3, OpSteps, SameGiven, AskStep
<1>2. CASE RefundPending(w)
  <2>1. given' = given /\ op' = op /\ pc[w] = "f_pending"
    BY <1>2 DEF RefundPending, Goto, GotoWith, Transition, Done, provider
  <2>2. loc[w].e \in Earnings
    BY <1>0, <2>1 DEF AskOK, Asks, Asking
  <2>3. CASE Goto(w, "f_pending", "f_begin")
    BY <2>1, <2>2, <2>3, OpSteps, SameGiven, AskStep DEF Goto
  <2>4. CASE Transition(w, "f_pending", "REFUND_PENDING", "f_begin")
    <3>1. CASE Done(w, "f_pending")
      BY <2>1, <3>1, OpSteps, GotoTurns, TurnStep
    <3>2. CASE GotoWith(w, "f_pending", "f_begin", Put(w, tx'[loc[w].e]))
      <4> DEFINE l == Put(w, tx'[loc[w].e])
      <4>1. l.e = loc[w].e
        BY <1>0, LocalFields DEF Put
      <4>2. GotoWith(w, "f_pending", "f_begin", l)
        BY <3>2
      <4> HIDE DEF l
      <4> QED BY <2>1, <2>2, <4>1, <4>2, OpSteps, SameGiven, AskStep
    <3> QED BY <2>4, <3>1, <3>2 DEF Transition
  <2> QED BY <1>2, <2>3, <2>4 DEF RefundPending
<1>3. CASE RefundBegin(w)
  <2> DEFINE k == <<"refund", loc[w].amount>>
             l == [loc[w] EXCEPT !.key = k, !.go = "f_call"]
  <2>1. Begin(w, "f_begin", k, "f_call") /\ UNCHANGED provider
    BY <1>3 DEF RefundBegin
  <2>2. l.e = loc[w].e
    BY <1>0, LocalFields
  <2> HIDE DEF k
  <2>3. given' = given /\ pc[w] = "f_begin"
    BY <2>1 DEF provider, Begin
  <2>4. loc[w].e \in Earnings
    BY <1>0, <2>3 DEF AskOK, Asks, Asking
  <2>5. op' = op \/ op' = [op EXCEPT ![<<loc[w].e, k>>] = "pending"]
    BY <2>1, Zenon DEF Begin
  <2>6. Goto(w, "f_begin", "f_call") \/ GotoWith(w, "f_begin", "retake", l) \/ Return(w, "f_begin")
    BY <2>1, Zenon DEF Begin
  <2> HIDE DEF l
  <2>7. OpMild /\ GivenGrows
    BY <2>3, <2>5, OpSteps, SameGiven
  <2>8. CASE Goto(w, "f_begin", "f_call")
    BY <2>4, <2>7, <2>8, AskStep DEF Goto
  <2>9. CASE GotoWith(w, "f_begin", "retake", l)
    BY <2>2, <2>4, <2>7, <2>9, AskStep
  <2>10. CASE Return(w, "f_begin")
    BY <2>3, <2>7, <2>10, GotoTurns, TurnStep
  <2> QED BY <2>6, <2>8, <2>9, <2>10
<1>4. CASE RefundCall(w)
  <2> DEFINE e == loc[w].e
             a == loc[w].amount
  <2>1. /\ op' = op /\ pc[w] = "f_call"
        /\ Goto(w, "f_call", "f_finish") \/ Goto(w, "f_call", "f_fail")
        /\ \/ given' = given /\ (pc'[w] = "f_finish" => a \in given[e].keys)
           \/ given' = [given EXCEPT ![e].amount = @ + a, ![e].keys = @ \cup {a}]
    BY <1>4 DEF RefundCall, Give, Goto, GotoWith, rows, LeaveInv, Shape
  <2>2. e \in Earnings
    BY <1>0, <2>1 DEF AskOK, Asks, Asking
  <2>3. GivenGrows /\ (pc'[w] = "f_finish" => a \in given'[e].keys)
    <3>1. CASE given' = given /\ (pc'[w] = "f_finish" => a \in given[e].keys)
      BY <3>1, SameGiven
    <3>2. CASE given' = [given EXCEPT ![e].amount = @ + a, ![e].keys = @ \cup {a}]
      <4>1. /\ \A f \in Earnings \ {e} : given'[f] = given[f]
            /\ given'[e].keys = given[e].keys \cup {a} /\ DOMAIN given'[e] = {"amount", "keys"}
            /\ DOMAIN given' = Earnings
        BY <1>0, <2>2, <3>2
      <4> QED BY <1>0, <4>1 DEF GivenGrows
    <3> QED BY <2>1, <3>1, <3>2
  <2>4. \A to : Goto(w, "f_call", to) => pc'[w] = to
    BY DEF Goto, GotoWith, LeaveInv, Shape
  <2>5. OpMild
    BY <2>1, OpSteps
  <2>6. CASE Goto(w, "f_call", "f_finish")
    BY <2>2, <2>3, <2>4, <2>5, <2>6, AskStep DEF Goto
  <2>7. CASE Goto(w, "f_call", "f_fail")
    BY <2>2, <2>3, <2>5, <2>7, AskStep DEF Goto
  <2> QED BY <2>1, <2>6, <2>7
<1>5. CASE RefundFinish(w)
  <2> DEFINE e == loc[w].e
             a == loc[w].amount
  <2>1. /\ Goto(w, "f_finish", "s_post") /\ pc[w] = "f_finish" /\ given' = given
        /\ op' = [op EXCEPT ![<<e, <<"refund", a>>>>] = "succeeded"]
    BY <1>5 DEF RefundFinish, FinishOp, provider
  <2>2. a \in given[e].keys
    BY <1>0, <2>1 DEF AskOK
  <2>3. pc'[w] = "s_post" /\ \A v \in Workers \ {w} : pc'[v] = pc[v] /\ loc'[v] = loc[v]
    BY <2>1 DEF Goto, GotoWith, LeaveInv, Shape
  <2>4. AskOK(w)'
    BY <2>3 DEF AskOK, Asks, Asking
  <2>5. RefundsWereMade'
    <3> SUFFICES ASSUME NEW f \in Earnings, NEW b \in 1 .. Captured,
                        op'[<<f, <<"refund", b>>>>] = "succeeded"
                 PROVE  b \in given[f].keys
      BY <2>1 DEF RefundsWereMade
    <3>1. CASE f = e /\ b = a
      BY <2>2, <3>1
    <3>2. CASE ~(f = e /\ b = a)
      <4>1. <<f, <<"refund", b>>>> # <<e, <<"refund", a>>>>
        BY <3>2
      <4>2. op'[<<f, <<"refund", b>>>>] = op[<<f, <<"refund", b>>>>]
        BY <2>1, <4>1, RefundKeys DEF MadeInv, MadeShape
      <4> QED BY <4>2 DEF MadeInv, RefundsWereMade
    <3> QED BY <3>1, <3>2
  <2>6. MadeShape'
    BY <2>1 DEF MadeInv, MadeShape
  <2>7. \A v \in Workers : AskOK(v)'
    BY <2>1, <2>3, <2>4, SameGiven, AskKept
  <2> QED BY <2>5, <2>6, <2>7 DEF MadeInv
<1>6. CASE Retake(w)
  <2> DEFINE l == Put(w, tx[loc[w].e])
  <2>1. /\ GotoWith(w, "retake", loc[w].go, l) /\ pc[w] = "retake" /\ given' = given
        /\ op' = [op EXCEPT ![<<loc[w].e, loc[w].key>>] = "pending"]
    BY <1>6 DEF Retake, provider
  <2>2. l.e = loc[w].e
    BY <1>0, LocalFields DEF Put
  <2> HIDE DEF l
  <2>3. loc[w].go \in {"t_pending", "f_call", "s_call"}
    BY <2>1 DEF LeaveInv, WorkerOK
  <2>4. loc[w].go = "f_call" => loc[w].e \in Earnings
    BY <1>0, <2>1 DEF AskOK, Asks
  <2>5. Asks(loc[w].go, l) => l.e \in Earnings
    BY <2>2, <2>3, <2>4 DEF Asks, Asking
  <2>6. OpMild /\ GivenGrows
    BY <2>1, OpSteps, SameGiven
  <2> QED BY <2>1, <2>3, <2>5, <2>6, AskStep
<1> QED BY <1>1, <1>2, <1>3, <1>4, <1>5, <1>6

LEMMA EnvironmentMade ==
  ASSUME MadeInv, Environment \/ UNCHANGED vars
  PROVE  MadeInv'
<1>1. op' = op /\ pc' = pc /\ loc' = loc
  BY DEF Environment, PlaceHold, ClearHold, Mature, Dispute, DashboardRefund, rows, vars
<1>2. GivenGrows
  <2>1. CASE given' = given
    BY <2>1, SameGiven
  <2>2. ASSUME NEW e \in Earnings, NEW a \in Amounts, DashboardRefund(e, a) PROVE GivenGrows
    <3>1. /\ DOMAIN given = Earnings /\ \A f \in Earnings : DOMAIN given[f] = {"amount", "keys"}
          /\ given' = [given EXCEPT ![e].amount = @ + a, ![e].keys = @ \cup {}]
      BY <2>2 DEF DashboardRefund, Give, MadeInv, MadeShape
    <3>2. /\ \A f \in Earnings \ {e} : given'[f] = given[f]
          /\ given'[e].keys = given[e].keys /\ DOMAIN given'[e] = {"amount", "keys"}
          /\ DOMAIN given' = Earnings
      BY <3>1
    <3> QED BY <3>1, <3>2 DEF GivenGrows
  <2>3. given' = given \/ \E e \in Earnings, a \in Amounts : DashboardRefund(e, a)
    BY DEF Environment, PlaceHold, ClearHold, Mature, Dispute, vars, provider
  <2> QED BY <2>1, <2>2, <2>3
<1>3. \A w \in Workers : AskOK(w)'
  BY <1>1, <1>2, AskKept
<1> QED BY <1>1, <1>2, <1>3, OpSteps, MadeKept

LEMMA NextMade == LeaveInv /\ MadeInv /\ [Next]_vars => MadeInv'
<1> SUFFICES ASSUME LeaveInv, MadeInv, [Next]_vars PROVE MadeInv'
  OBVIOUS
<1>1. CASE Environment \/ UNCHANGED vars
  BY <1>1, EnvironmentMade
<1>2. ASSUME NEW w \in Workers, Begins(w) PROVE MadeInv'
  BY <1>2, TransferMade, RefundMade, WebhookMade, RunMade DEF Begins
<1>3. ASSUME NEW w \in Workers, Refund(w) PROVE MadeInv'
  BY <1>3, RefundMade, ShareMade DEF Refund
<1>4. ASSUME NEW w \in Workers, Proceed(w) \/ Crash(w) PROVE MadeInv'
  BY <1>3, <1>4, TransferMade, RefundMade, WebhookMade, RunMade DEF Proceed
<1> QED BY <1>1, <1>2, <1>4 DEF Next

LEMMA InitMade == Init => MadeInv
<1> SUFFICES ASSUME Init PROVE MadeInv
  OBVIOUS
<1>1. MadeShape
  BY DEF Init, MadeShape
<1>2. RefundsWereMade
  BY RefundKeys DEF Init, RefundsWereMade
<1>3. \A w \in Workers : pc[w] = "idle"
  BY DEF Init
<1> QED BY <1>1, <1>2, <1>3 DEF MadeInv, AskOK, Asks, Asking

(* A refund whose operation reads as succeeded, and which is therefore not *)
(* asked for again, was made by the provider under its key: whatever       *)
(* requests, webhooks and retries of one payment overtake each other, and  *)
(* whatever answers are lost or processes die.                             *)
THEOREM RefundsWereMadeHolds == Spec => []RefundsWereMade
<1>1. Spec => [](LeaveInv /\ MadeInv)
  BY InitLeaves, NextLeaves, InitMade, NextMade, PTL DEF Spec
<1>2. LeaveInv /\ MadeInv => RefundsWereMade
  BY DEF MadeInv
<1> QED BY <1>1, <1>2, PTL

=============================================================================
