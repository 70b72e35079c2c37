------------------------- MODULE RentalEscrow_proofs -------------------------
(***************************************************************************)
(* Theorems about RentalEscrow, for any number of bookings, wallets and    *)
(* workers, any price and any bounds, under every interleaving of the      *)
(* handlers: its type invariant, that a booking is paid at most once, that *)
(* a settled booking stays settled, that the host's units are never        *)
(* oversold and none is lost, that it implements the abstract settlement,  *)
(* that the escrow accounts match the bookings and that the balances match *)
(* the ledger.  The last two say which handlers they leave out; the others *)
(* hold with all of them, and with handlers dying anywhere.                *)
(***************************************************************************)
EXTENDS RentalEscrow, SumTheorems, FiniteSetTheorems, TLAPS

-----------------------------------------------------------------------------
(* Amounts *)

(* An hour's price splits exactly into the seller's and the platform's share. *)
LEMMA SplitExact ==
  ASSUME NEW h \in Int
  PROVE  Gross(h) \in Int /\ Payout(h) \in Int /\ FeeOf(h) \in Int
         /\ Payout(h) + FeeOf(h) = Gross(h)
  BY MoneyAssumption DEF Gross, Payout, FeeOf

(* More hours never cost less, and hours never cost less than nothing. *)
LEMMA GrossMonotone ==
  ASSUME NEW h \in Nat, NEW k \in Nat, h <= k
  PROVE  Gross(h) <= Gross(k) /\ Gross(h) \in Nat
  BY MoneyAssumption DEF Gross

(* The hours a metered stop bills are a number of hours. *)
LEMMA UsedType ==
  ASSUME NEW held \in Int, NEW hours \in Nat
  PROVE  Used(held, hours) \in Nat
  BY DEF Used

-----------------------------------------------------------------------------
(* The types of rows and of the workers' control state.  Each action of the *)
(* proof of TypeInductive cites these instead of expanding the row sets.    *)

Control == /\ pc \in [Workers -> Labels] /\ req \in [Workers -> Request]
           /\ \A w \in Workers : pc[w] # "idle" => req[w].bk \in Bookings

LEMMA LabelNames ==
  /\ "idle" \in Labels /\ "book_debit" \in Labels /\ "book_unreserve" \in Labels
  /\ "book_insert" \in Labels /\ "book_comp" \in Labels /\ "book_giveback" \in Labels
  /\ "book_post" \in Labels /\ "launch" \in Labels /\ "ext_grow" \in Labels
  /\ "ext_giveback" \in Labels /\ "ext_post" \in Labels /\ "ext_window" \in Labels
  /\ "stop_settle" \in Labels /\ "stop_pay" \in Labels /\ "stop_post" \in Labels
  /\ "rel_cas" \in Labels /\ "rel_read" \in Labels /\ "rel_pay" \in Labels
  /\ "unit" \in Labels /\ "exp_stop" \in Labels /\ "ref_cas" \in Labels
  /\ "ref_read" \in Labels /\ "ref_write" \in Labels /\ "ref_org" \in Labels
  /\ "ref_org_unit" \in Labels /\ "ref_post" \in Labels /\ "topup" \in Labels
  BY DEF Labels

LEMMA NoRequestType == NoRequest \in Request
  BY DEF NoRequest, Request

LEMMA RequestFields ==
  ASSUME NEW q \in Request
  PROVE  q.hrs \in Nat /\ q.seen \in Int /\ q.rev \in Int /\ q.bk \in Bookings \cup {"none"}
  BY DEF Request

LEMMA BookingFields ==
  ASSUME NEW r \in BookingRow
  PROVE  r.hours \in Nat /\ r.status \in {"none"} \cup Live \cup Terminal
  BY DEF BookingRow

LEMMA LegFields ==
  ASSUME NEW l \in EscrowLegs
  PROVE  l.hold \in Int /\ l.seller \in Int /\ l.platform \in Int /\ l.back \in Int
  BY DEF EscrowLegs

LEMMA BeginType ==
  ASSUME TypeOK, NEW w \in Workers, NEW op \in AllHandlers, NEW to \in Labels,
         NEW b \in Bookings, NEW h \in Nat, NEW s \in Int, Begin(w, op, to, b, h, s)
  PROVE  Control'
  <1>1. [op |-> op, bk |-> b, hrs |-> h, seen |-> s, rev |-> 0] \in Request
    BY DEF Request
  <1>2. QED BY <1>1 DEF Begin, TypeOK, Control

LEMMA GotoType ==
  ASSUME TypeOK, NEW w \in Workers, NEW from, from # "idle", NEW to \in Labels, Goto(w, from, to)
  PROVE  Control'
  BY DEF Goto, TypeOK, Control

LEMMA GotoWithType ==
  ASSUME TypeOK, NEW w \in Workers, NEW from, from # "idle", NEW to \in Labels, NEW h \in Nat,
         NEW s \in Int, NEW r \in Int, GotoWith(w, from, to, h, s, r)
  PROVE  Control'
  <1> DEFINE q == [req[w] EXCEPT !.hrs = h, !.seen = s, !.rev = r]
  <1>1. q \in Request /\ q.bk = req[w].bk
    <2>1. req[w] \in Request
      BY DEF TypeOK
    <2>2. q \in Request
      BY <2>1 DEF Request
    <2>3. q.bk = req[w].bk
      BY <2>1 DEF Request
    <2>4. QED BY <2>2, <2>3
  <1>2. pc[w] # "idle" /\ pc' = [pc EXCEPT ![w] = to] /\ req' = [req EXCEPT ![w] = q]
    BY DEF GotoWith
  <1> HIDE DEF q
  <1>3. QED BY <1>1, <1>2 DEF TypeOK, Control

LEMMA FinishType ==
  ASSUME TypeOK, NEW w \in Workers, NEW from, Finish(w, from)
  PROVE  Control'
  BY NoRequestType, LabelNames DEF Finish, TypeOK, Control

LEMMA StatusUpdate ==
  ASSUME TypeOK, NEW b, NEW st \in Live \cup Terminal,
         booking' = [booking EXCEPT ![b].status = st]
  PROVE  booking' \in [Bookings -> BookingRow]
  BY DEF TypeOK, BookingRow

LEMMA HoursUpdate ==
  ASSUME TypeOK, NEW b, NEW h \in Nat, booking' = [booking EXCEPT ![b].hours = @ + h]
  PROVE  booking' \in [Bookings -> BookingRow]
  <1>1. CASE b \in Bookings
    <2>1. booking[b].hours + h \in Nat
      BY <1>1, BookingFields DEF TypeOK
    <2>2. [booking[b] EXCEPT !.hours = @ + h] \in BookingRow
      BY <1>1, <2>1 DEF TypeOK, BookingRow
    <2>3. QED BY <1>1, <2>2 DEF TypeOK
  <1>2. CASE b \notin Bookings
    BY <1>2 DEF TypeOK
  <1>3. QED BY <1>1, <1>2

LEMMA HoldType ==
  ASSUME TypeOK, NEW b, NEW m \in Int, PostHold(b, m)
  PROVE  legs' \in [Bookings -> EscrowLegs]
  <1>1. CASE b \in Bookings
    <2>1. legs[b].hold + m \in Int
      BY <1>1, LegFields DEF TypeOK
    <2>2. [legs[b] EXCEPT !.hold = @ + m] \in EscrowLegs
      BY <1>1, <2>1 DEF TypeOK, EscrowLegs
    <2>3. QED BY <1>1, <2>2 DEF TypeOK, PostHold
  <1>2. CASE b \notin Bookings
    BY <1>2 DEF TypeOK, PostHold
  <1>3. QED BY <1>1, <1>2

LEMMA OutType ==
  ASSUME TypeOK, NEW b, NEW s \in Int, NEW p \in Int, NEW r \in Int, PostOut(b, s, p, r)
  PROVE  legs' \in [Bookings -> EscrowLegs]
  <1>1. CASE b \in Bookings
    <2>1. [hold |-> legs[b].hold, seller |-> legs[b].seller + s,
           platform |-> legs[b].platform + p, back |-> legs[b].back + r] \in EscrowLegs
      BY <1>1, LegFields DEF TypeOK, EscrowLegs
    <2>2. QED BY <1>1, <2>1 DEF TypeOK, PostOut
  <1>2. CASE b \notin Bookings
    BY <1>2 DEF TypeOK, PostOut
  <1>3. QED BY <1>1, <1>2

LEMMA CreditType ==
  ASSUME TypeOK, NEW x, NEW m \in Int, Credit(x, m)
  PROVE  wallet' \in [Wallets -> Int]
  <1>1. CASE x \in Wallets
    <2>1. wallet[x] + m \in Int
      BY <1>1 DEF TypeOK
    <2>2. QED BY <2>1 DEF TypeOK, Credit
  <1>2. CASE x \notin Wallets
    BY <1>2 DEF TypeOK, Credit
  <1>3. QED BY <1>1, <1>2

LEMMA UnitType ==
  ASSUME TypeOK, IncUnit
  PROVE  avail' \in 0 .. Units
  BY SizeAssumption DEF TypeOK, IncUnit

LEMMA VMStopType ==
  ASSUME TypeOK, NEW b, vm' = [vm EXCEPT ![b].status = "stopped"]
  PROVE  vm' \in [Bookings -> VMRow]
  BY DEF TypeOK, VMRow

LEMMA VMWindowType ==
  ASSUME TypeOK, NEW b, NEW u \in Nat, vm' = [vm EXCEPT ![b].until = u]
  PROVE  vm' \in [Bookings -> VMRow]
  BY DEF TypeOK, VMRow

LEMMA VMLaunchType ==
  ASSUME TypeOK, NEW b, NEW h \in Nat,
         vm' = [vm EXCEPT ![b] = [status |-> "live", started |-> clock, until |-> clock + h]]
  PROVE  vm' \in [Bookings -> VMRow]
  <1>1. [status |-> "live", started |-> clock, until |-> clock + h] \in VMRow
    BY DEF TypeOK, VMRow
  <1>2. QED BY <1>1 DEF TypeOK

LEMMA CountType ==
  ASSUME TypeOK
  PROVE  /\ [count EXCEPT !.topups = @ + 1] \in Counts
         /\ [count EXCEPT !.pauses = @ + 1] \in Counts
         /\ [count EXCEPT !.crashes = @ + 1] \in Counts
  BY DEF TypeOK, Counts

(* What a worker's request and its booking's row hold, and their amounts. *)
LEMMA RequestValues ==
  ASSUME TypeOK, NEW w \in Workers
  PROVE  /\ req[w].hrs \in Nat /\ req[w].seen \in Int /\ req[w].rev \in Int
         /\ Gross(req[w].hrs) \in Int /\ -Gross(req[w].hrs) \in Int
         /\ Payout(req[w].hrs) \in Int /\ FeeOf(req[w].hrs) \in Int
  BY RequestFields, SplitExact DEF TypeOK


LEMMA VMFields ==
  ASSUME NEW r \in VMRow
  PROVE  r.started \in Nat /\ r.until \in Nat /\ r.status \in {"none", "live", "stopped"}
  BY DEF VMRow

LEMMA AmountOf ==
  ASSUME NEW h \in Nat
  PROVE  Gross(h) \in Int /\ -Gross(h) \in Int
  BY SplitExact

LEMMA UsedHours ==
  ASSUME TypeOK, NEW w \in Workers, req[w].bk \in Bookings
  PROVE  LET u == Used(req[w].seen, booking[req[w].bk].hours)
             g == Gross(booking[req[w].bk].hours)
         IN  Payout(u) \in Int /\ FeeOf(u) \in Int /\ g - Gross(u) \in Int
  <1>1. Used(req[w].seen, booking[req[w].bk].hours) \in Nat /\ booking[req[w].bk].hours \in Nat
    BY UsedType, RequestFields, BookingFields DEF TypeOK
  <1>2. QED BY <1>1, SplitExact

-----------------------------------------------------------------------------
(* Type correctness: every action, from any typed state, leads to a typed one. *)

LEMMA TypeArrive ==
  ASSUME TypeOK, NEW w \in Workers, Arrive(w)
  PROVE  TypeOK'
  <1> USE SizeAssumption, MoneyAssumption, NameAssumption
  <1>0. PICK b \in Bookings :
          \/ \E h \in Hours : BookLoad(w, b, h)
          \/ \E h \in Hours : ExtendDebit(w, b, h)
          \/ StopVM(w, b) \/ AcceptRead(w, b) \/ ResultRead(w, b)
          \/ ExpireRead(w, b) \/ ReapRead(w, b) \/ TopupRead(w, b)
    BY DEF Arrive
  <1> DEFINE row == booking[b]
  <1>a. row \in BookingRow /\ vm[b] \in VMRow /\ Payer[b] \in Wallets /\ wallet[Payer[b]] \in Int
    BY DEF TypeOK
  <1>b. row.hours \in Nat /\ vm[b].until \in Nat /\ vm[b].started \in Nat /\ clock \in Nat
    BY <1>a, BookingFields, VMFields DEF TypeOK
  <1>1. ASSUME NEW h \in Hours, BookLoad(w, b, h) PROVE TypeOK'
    <2>1. Control'
      <3> DEFINE known == IF IsOrg(b) THEN 0 ELSE wallet[Payer[b]]
      <3>1. Begin(w, "book", "book_debit", b, h, known)
        BY <1>1 DEF BookLoad
      <3>2. known \in Int /\ h \in Nat
        BY <1>a
      <3> HIDE DEF known
      <3>3. QED BY <3>1, <3>2, BeginType, LabelNames DEF AllHandlers
    <2>2. QED BY <1>1, <2>1 DEF BookLoad, TypeOK, Control, moneyVars, ledgerVars, envVars
  <1>2. ASSUME NEW h \in Hours, ExtendDebit(w, b, h) PROVE TypeOK'
    <2>1. Control'
      <3>1. h \in Nat /\ vm[b].until \in Int
        BY <1>b
      <3>2. QED BY <1>2, <3>1, BeginType, LabelNames DEF ExtendDebit, AllHandlers
    <2>2. wallet' \in [Wallets -> Int]
      BY <1>2, <1>a, AmountOf, CreditType DEF ExtendDebit
    <2>3. QED BY <1>2, <2>1, <2>2 DEF ExtendDebit, TypeOK, Control, moneyVars, ledgerVars, envVars
  <1>3. ASSUME StopVM(w, b) PROVE TypeOK'
    <2>1. Control'
      <3>1. clock - vm[b].started \in Int
        BY <1>b
      <3>2. QED BY <1>3, <3>1, BeginType, LabelNames DEF StopVM, AllHandlers
    <2>2. vm' \in [Bookings -> VMRow]
      BY <1>3, VMStopType DEF StopVM
    <2>3. QED BY <1>3, <2>1, <2>2 DEF StopVM, TypeOK, Control, moneyVars, ledgerVars, envVars
  <1>4. ASSUME AcceptRead(w, b) PROVE TypeOK'
    <2>1. Control'
      BY <1>4, <1>a, <1>b, BeginType, LabelNames DEF AcceptRead, AllHandlers
    <2>2. QED BY <1>4, <2>1 DEF AcceptRead, TypeOK, Control, moneyVars, ledgerVars, envVars
  <1>5. ASSUME ResultRead(w, b) PROVE TypeOK'
    <2>1. Control'
      BY <1>5, <1>a, <1>b, BeginType, LabelNames DEF ResultRead, AllHandlers
    <2>2. QED BY <1>5, <2>1 DEF ResultRead, TypeOK, Control, moneyVars, ledgerVars, envVars
  <1>6. ASSUME ExpireRead(w, b) PROVE TypeOK'
    <2>1. Control'
      BY <1>6, <1>a, <1>b, BeginType, LabelNames DEF ExpireRead, AllHandlers
    <2>2. QED BY <1>6, <2>1 DEF ExpireRead, TypeOK, Control, moneyVars, ledgerVars, envVars
  <1>7. ASSUME ReapRead(w, b) PROVE TypeOK'
    <2>1. Control'
      BY <1>7, <1>a, <1>b, BeginType, LabelNames DEF ReapRead, AllHandlers
    <2>2. QED BY <1>7, <2>1 DEF ReapRead, TypeOK, Control, moneyVars, ledgerVars, envVars
  <1>8. ASSUME TopupRead(w, b) PROVE TypeOK'
    <2>1. Control'
      BY <1>8, <1>a, <1>b, BeginType, LabelNames DEF TopupRead, AllHandlers
    <2>2. count' \in Counts
      BY <1>8, CountType DEF TopupRead
    <2>3. QED BY <1>8, <2>1, <2>2 DEF TopupRead, TypeOK, Control, moneyVars, ledgerVars, envVars
  <1>9. QED BY <1>0, <1>1, <1>2, <1>3, <1>4, <1>5, <1>6, <1>7, <1>8

LEMMA TypeBookStep ==
  ASSUME TypeOK, NEW w \in Workers, BookStep(w)
  PROVE  TypeOK'
  <1> DEFINE b == req[w].bk
  <1>0. /\ pc[w] # "idle" => b \in Bookings /\ booking[b] \in BookingRow
                              /\ booking[b].hours \in Nat /\ Payer[b] \in Wallets
        /\ req[w].hrs \in Nat /\ req[w].seen \in Int /\ req[w].rev \in Int
    BY NameAssumption, RequestFields, BookingFields DEF TypeOK
  <1>1. ASSUME BookRefused(w) PROVE TypeOK'
    <2>1. Control'
      BY <1>1, <1>0, FinishType, LabelNames DEF BookRefused
    <2>2. QED BY <1>1, <2>1 DEF BookRefused, TypeOK, Control, moneyVars, ledgerVars, envVars
  <1>2. ASSUME BookDebit(w) PROVE TypeOK'
    <2>1. Control'
      <3> DEFINE g == Gross(req[w].hrs)
                 s == IF req[w].seen >= g THEN req[w].seen - g ELSE req[w].seen
      <3>1. s \in Int
        BY <1>0, AmountOf
      <3>2. \/ GotoWith(w, "book_debit", "book_insert", req[w].hrs, s, 0)
            \/ Goto(w, "book_debit", "book_unreserve")
        BY <1>2 DEF BookDebit
      <3> HIDE DEF s
      <3>3. QED BY <1>0, <3>1, <3>2, GotoType, GotoWithType, LabelNames
    <2>2. avail' \in 0 .. Units
      BY <1>2, <1>0, SizeAssumption DEF BookDebit, TypeOK, UnitFree
    <2>3. wallet' \in [Wallets -> Int]
      BY <1>2, <1>0, AmountOf, CreditType DEF BookDebit, TypeOK
    <2>4. QED BY <1>2, <2>1, <2>2, <2>3 DEF BookDebit, TypeOK, Control, moneyVars, ledgerVars, envVars
  <1>3. ASSUME BookUnreserve(w) PROVE TypeOK'
    <2>1. Control'
      BY <1>3, <1>0, FinishType, LabelNames DEF BookUnreserve
    <2>2. avail' \in 0 .. Units
      BY <1>3, <1>0, UnitType DEF BookUnreserve
    <2>3. QED BY <1>3, <2>1, <2>2 DEF BookUnreserve, TypeOK, Control, moneyVars, ledgerVars, envVars
  <1>4. ASSUME BookInsert(w) PROVE TypeOK'
    <2>1. Control'
      BY <1>4, <1>0, GotoType, LabelNames DEF BookInsert
    <2>2. booking' \in [Bookings -> BookingRow]
      BY <1>4, <1>0 DEF BookInsert, TypeOK, BookingRow, Live
    <2>3. QED BY <1>4, <2>1, <2>2 DEF BookInsert, TypeOK, Control, moneyVars, ledgerVars, envVars
  <1>5. ASSUME BookCompUnit(w) PROVE TypeOK'
    <2>1. Control'
      BY <1>5, <1>0, GotoType, LabelNames DEF BookCompUnit
    <2>2. avail' \in 0 .. Units
      BY <1>5, <1>0, UnitType DEF BookCompUnit
    <2>3. QED BY <1>5, <2>1, <2>2 DEF BookCompUnit, TypeOK, Control, moneyVars, ledgerVars, envVars
  <1>6. ASSUME BookGiveBack(w) PROVE TypeOK'
    <2>1. Control'
      BY <1>6, <1>0, FinishType, LabelNames DEF BookGiveBack
    <2>2. wallet' \in [Wallets -> Int] /\ deposited' \in [Wallets -> Int]
      BY <1>6, <1>0, AmountOf, CreditType DEF BookGiveBack, TypeOK
    <2>3. QED BY <1>6, <2>1, <2>2 DEF BookGiveBack, TypeOK, Control, moneyVars, ledgerVars, envVars
  <1>7. ASSUME BookPost(w) PROVE TypeOK'
    <2>1. Control'
      BY <1>7, <1>0, GotoType, FinishType, LabelNames DEF BookPost
    <2>2. legs' \in [Bookings -> EscrowLegs]
      BY <1>7, <1>0, AmountOf, HoldType DEF BookPost
    <2>3. QED BY <1>7, <2>1, <2>2 DEF BookPost, TypeOK, Control, moneyVars, ledgerVars, envVars
  <1>8. ASSUME LaunchVM(w) PROVE TypeOK'
    <2>1. Control'
      BY <1>8, <1>0, FinishType, LabelNames DEF LaunchVM
    <2>2. vm' \in [Bookings -> VMRow]
      BY <1>8, <1>0, VMLaunchType DEF LaunchVM
    <2>3. QED BY <1>8, <2>1, <2>2 DEF LaunchVM, TypeOK, Control, moneyVars, ledgerVars, envVars
  <1>9. QED BY <1>1, <1>2, <1>3, <1>4, <1>5, <1>6, <1>7, <1>8 DEF BookStep

LEMMA TypeExtendStep ==
  ASSUME TypeOK, NEW w \in Workers, ExtendStep(w)
  PROVE  TypeOK'
  <1> DEFINE b == req[w].bk
  <1>0. /\ pc[w] # "idle" => b \in Bookings /\ booking[b] \in BookingRow
                              /\ booking[b].hours \in Nat /\ Payer[b] \in Wallets
        /\ req[w].hrs \in Nat /\ req[w].seen \in Int /\ req[w].rev \in Int
    BY NameAssumption, RequestFields, BookingFields DEF TypeOK
  <1>1. ASSUME ExtendGrow(w) PROVE TypeOK'
    <2>1. Control'
      BY <1>1, <1>0, GotoType, LabelNames DEF ExtendGrow
    <2>2. booking' \in [Bookings -> BookingRow]
      <3>1. CASE booking' = [booking EXCEPT ![b].hours = @ + req[w].hrs]
        BY <1>0, <3>1, HoursUpdate
      <3>2. CASE booking' = booking
        BY <3>2 DEF TypeOK
      <3>3. QED BY <1>1, <3>1, <3>2 DEF ExtendGrow
    <2>3. QED BY <1>1, <2>1, <2>2 DEF ExtendGrow, TypeOK, Control, moneyVars, ledgerVars, envVars
  <1>2. ASSUME ExtendGiveBack(w) PROVE TypeOK'
    <2>1. Control'
      BY <1>2, <1>0, FinishType, LabelNames DEF ExtendGiveBack
    <2>2. wallet' \in [Wallets -> Int]
      BY <1>2, <1>0, AmountOf, CreditType DEF ExtendGiveBack
    <2>3. QED BY <1>2, <2>1, <2>2 DEF ExtendGiveBack, TypeOK, Control, moneyVars, ledgerVars, envVars
  <1>3. ASSUME ExtendPost(w) PROVE TypeOK'
    <2>1. Control'
      BY <1>3, <1>0, GotoType, LabelNames DEF ExtendPost
    <2>2. legs' \in [Bookings -> EscrowLegs]
      BY <1>3, <1>0, AmountOf, HoldType DEF ExtendPost
    <2>3. QED BY <1>3, <2>1, <2>2 DEF ExtendPost, TypeOK, Control, moneyVars, ledgerVars, envVars
  <1>4. ASSUME ExtendWindow(w) PROVE TypeOK'
    <2>1. Control'
      BY <1>4, <1>0, FinishType, LabelNames DEF ExtendWindow
    <2>2. (IF req[w].seen > clock THEN req[w].seen ELSE clock) + req[w].hrs \in Nat
      BY <1>4, <1>0 DEF TypeOK
    <2>3. vm' \in [Bookings -> VMRow]
      BY <1>4, <1>0, <2>2, VMWindowType DEF ExtendWindow
    <2>4. QED BY <1>4, <2>1, <2>2, <2>3 DEF ExtendWindow, TypeOK, Control, moneyVars, ledgerVars, envVars
  <1>5. QED BY <1>1, <1>2, <1>3, <1>4 DEF ExtendStep

LEMMA TypeStopStep ==
  ASSUME TypeOK, NEW w \in Workers, StopStep(w)
  PROVE  TypeOK'
  <1> DEFINE b == req[w].bk
  <1>0. /\ pc[w] # "idle" => b \in Bookings /\ booking[b] \in BookingRow
                              /\ booking[b].hours \in Nat /\ Payer[b] \in Wallets
        /\ req[w].hrs \in Nat /\ req[w].seen \in Int /\ req[w].rev \in Int
    BY NameAssumption, RequestFields, BookingFields DEF TypeOK
  <1>1. ASSUME StopSettle(w) PROVE TypeOK'
    <2>1. Control'
      BY <1>1, <1>0, GotoType, FinishType, LabelNames DEF StopSettle
    <2>2. booking' \in [Bookings -> BookingRow]
      <3>1. CASE booking' = [booking EXCEPT ![b].status = "released"]
        BY <3>1, StatusUpdate DEF Terminal
      <3>2. CASE booking' = booking
        BY <3>2 DEF TypeOK
      <3>3. QED BY <1>1, <3>1, <3>2 DEF StopSettle
    <2>3. QED BY <1>1, <2>1, <2>2 DEF StopSettle, TypeOK, Control, moneyVars, ledgerVars, envVars
  <1>2. ASSUME StopPay(w) PROVE TypeOK'
    <2>1. Control'
      BY <1>2, <1>0, GotoType, LabelNames DEF StopPay
    <2>2. b \in Bookings
      BY <1>2, <1>0 DEF StopPay
    <2>3. legs' \in [Bookings -> EscrowLegs]
      BY <1>2, <1>0, <2>2, UsedHours, OutType DEF StopPay, PostMetered, TypeOK
    <2>4. earnings' \in Int /\ revenue' \in Int
      BY <1>2, <1>0, <2>2, UsedHours DEF StopPay, TypeOK
    <2>5. wallet' \in [Wallets -> Int]
      BY <1>2, <1>0, <2>2, UsedHours, CreditType DEF StopPay, TypeOK
    <2>6. QED BY <1>2, <2>1, <2>2, <2>3, <2>4, <2>5 DEF StopPay, TypeOK, Control, moneyVars, ledgerVars, envVars
  <1>3. ASSUME StopPost(w) PROVE TypeOK'
    <2>1. Control'
      BY <1>3, <1>0, GotoType, LabelNames DEF StopPost
    <2>2. b \in Bookings
      BY <1>3, <1>0 DEF StopPost, Goto
    <2>3. legs' \in [Bookings -> EscrowLegs]
      BY <1>3, <1>0, <2>2, UsedHours, OutType DEF StopPost, PostMetered, TypeOK
    <2>4. QED BY <1>3, <2>1, <2>2, <2>3 DEF StopPost, TypeOK, Control, moneyVars, ledgerVars, envVars
  <1>4. QED BY <1>1, <1>2, <1>3 DEF StopStep

LEMMA TypeReleaseStep ==
  ASSUME TypeOK, NEW w \in Workers, ReleaseStep(w)
  PROVE  TypeOK'
  <1> DEFINE b == req[w].bk
  <1>0. /\ pc[w] # "idle" => b \in Bookings /\ booking[b] \in BookingRow
                              /\ booking[b].hours \in Nat /\ Payer[b] \in Wallets
        /\ req[w].hrs \in Nat /\ req[w].seen \in Int /\ req[w].rev \in Int
    BY NameAssumption, RequestFields, BookingFields DEF TypeOK
  <1>1. ASSUME ReleaseCas(w) PROVE TypeOK'
    <2>1. Control'
      <3> DEFINE row == IF req[w].op = "accept" THEN req[w].hrs ELSE booking[b].hours
      <3>1. \/ GotoWith(w, "rel_cas", "rel_read", row, 0, 0)
            \/ Goto(w, "rel_cas", "exp_stop")
            \/ Finish(w, "rel_cas")
        BY <1>1 DEF ReleaseCas
      <3>2. row \in Nat
        BY <1>0, <3>1 DEF GotoWith, Goto, Finish
      <3> HIDE DEF row
      <3>3. QED BY <3>1, <3>2, GotoType, GotoWithType, FinishType, LabelNames
    <2>2. booking' \in [Bookings -> BookingRow]
      <3>1. CASE booking' = [booking EXCEPT ![b].status = "released"]
        BY <3>1, StatusUpdate DEF Terminal
      <3>2. CASE booking' = booking
        BY <3>2 DEF TypeOK
      <3>3. QED BY <1>1, <3>1, <3>2 DEF ReleaseCas
    <2>3. QED BY <1>1, <2>1, <2>2 DEF ReleaseCas, TypeOK, Control, moneyVars, ledgerVars, envVars
  <1>2. ASSUME ReleaseRead(w) PROVE TypeOK'
    <2>1. Control'
      BY <1>2, <1>0, GotoWithType, LabelNames DEF ReleaseRead, TypeOK
    <2>2. QED BY <1>2, <2>1 DEF ReleaseRead, TypeOK, Control, moneyVars, ledgerVars, envVars
  <1>3. ASSUME ReleasePay(w) PROVE TypeOK'
    <2>1. Control'
      BY <1>3, <1>0, GotoType, LabelNames DEF ReleasePay
    <2>2. legs' \in [Bookings -> EscrowLegs]
      BY <1>3, <1>0, SplitExact, OutType DEF ReleasePay
    <2>3. earnings' \in Int /\ revenue' \in Int
      BY <1>3, <1>0, SplitExact DEF ReleasePay
    <2>4. QED BY <1>3, <2>1, <2>2, <2>3 DEF ReleasePay, TypeOK, Control, moneyVars, ledgerVars, envVars
  <1>4. ASSUME ReleaseUnit(w) PROVE TypeOK'
    <2>1. Control'
      BY <1>4, <1>0, GotoType, FinishType, LabelNames DEF ReleaseUnit
    <2>2. avail' \in 0 .. Units
      BY <1>4, <1>0, UnitType DEF ReleaseUnit
    <2>3. QED BY <1>4, <2>1, <2>2 DEF ReleaseUnit, TypeOK, Control, moneyVars, ledgerVars, envVars
  <1>5. ASSUME ExpireStop(w) PROVE TypeOK'
    <2>1. Control'
      BY <1>5, <1>0, FinishType, LabelNames DEF ExpireStop
    <2>2. vm' \in [Bookings -> VMRow]
      BY <1>5, <1>0, VMStopType DEF ExpireStop
    <2>3. QED BY <1>5, <2>1, <2>2 DEF ExpireStop, TypeOK, Control, moneyVars, ledgerVars, envVars
  <1>6. QED BY <1>1, <1>2, <1>3, <1>4, <1>5 DEF ReleaseStep

LEMMA TypeRefundStep ==
  ASSUME TypeOK, NEW w \in Workers, RefundStep(w)
  PROVE  TypeOK'
  <1> DEFINE b == req[w].bk
  <1>0. /\ pc[w] # "idle" => b \in Bookings /\ booking[b] \in BookingRow
                              /\ booking[b].hours \in Nat /\ Payer[b] \in Wallets
        /\ req[w].hrs \in Nat /\ req[w].seen \in Int /\ req[w].rev \in Int
    BY NameAssumption, RequestFields, BookingFields DEF TypeOK
  <1>1. ASSUME RefundCas(w) PROVE TypeOK'
    <2>1. Control'
      BY <1>1, <1>0, GotoType, FinishType, LabelNames DEF RefundCas
    <2>2. booking' \in [Bookings -> BookingRow]
      <3>1. CASE booking' = [booking EXCEPT ![b].status = "refunded"]
        BY <3>1, StatusUpdate DEF Terminal
      <3>2. CASE booking' = booking
        BY <3>2 DEF TypeOK
      <3>3. QED BY <1>1, <3>1, <3>2 DEF RefundCas
    <2>3. QED BY <1>1, <2>1, <2>2 DEF RefundCas, TypeOK, Control, moneyVars, ledgerVars, envVars
  <1>2. ASSUME RefundRead(w) PROVE TypeOK'
    <2>1. Control'
      <3> DEFINE held == wallet[Payer[req[w].bk]]
      <3>1. GotoWith(w, "ref_read", "ref_write", req[w].hrs, held, 0)
        BY <1>2 DEF RefundRead
      <3>2. held \in Int
        BY <1>0, <3>1 DEF GotoWith, TypeOK
      <3> HIDE DEF held
      <3>3. QED BY <1>0, <3>1, <3>2, GotoWithType, LabelNames
    <2>2. QED BY <1>2, <2>1 DEF RefundRead, TypeOK, Control, moneyVars, ledgerVars, envVars
  <1>3. ASSUME RefundWrite(w) PROVE TypeOK'
    <2>1. Control'
      BY <1>3, <1>0, GotoType, LabelNames DEF RefundWrite
    <2>2. wallet' \in [Wallets -> Int]
      <3>1. req[w].seen + Gross(req[w].hrs) \in Int
        BY <1>0, AmountOf
      <3>2. QED BY <1>3, <3>1 DEF RefundWrite, TypeOK
    <2>3. avail' \in 0 .. Units
      BY <1>3, <1>0, UnitType DEF RefundWrite
    <2>4. QED BY <1>3, <2>1, <2>2, <2>3 DEF RefundWrite, TypeOK, Control, moneyVars, ledgerVars, envVars
  <1>4. ASSUME RefundPost(w) PROVE TypeOK'
    <2>1. Control'
      BY <1>4, <1>0, FinishType, LabelNames DEF RefundPost
    <2>2. legs' \in [Bookings -> EscrowLegs]
      BY <1>4, <1>0, AmountOf, OutType DEF RefundPost
    <2>3. QED BY <1>4, <2>1, <2>2 DEF RefundPost, TypeOK, Control, moneyVars, ledgerVars, envVars
  <1>5. ASSUME RefundOrg(w) PROVE TypeOK'
    <2>1. Control'
      BY <1>5, <1>0, GotoType, LabelNames DEF RefundOrg
    <2>2. wallet' \in [Wallets -> Int]
      BY <1>5, <1>0, AmountOf, CreditType DEF RefundOrg
    <2>3. QED BY <1>5, <2>1, <2>2 DEF RefundOrg, TypeOK, Control, moneyVars, ledgerVars, envVars
  <1>6. ASSUME RefundOrgUnit(w) PROVE TypeOK'
    <2>1. Control'
      BY <1>6, <1>0, FinishType, LabelNames DEF RefundOrgUnit
    <2>2. avail' \in 0 .. Units
      BY <1>6, <1>0, UnitType DEF RefundOrgUnit
    <2>3. QED BY <1>6, <2>1, <2>2 DEF RefundOrgUnit, TypeOK, Control, moneyVars, ledgerVars, envVars
  <1>7. QED BY <1>1, <1>2, <1>3, <1>4, <1>5, <1>6 DEF RefundStep

LEMMA TypeInductive == TypeOK /\ [Next]_vars => TypeOK'
  <1> SUFFICES ASSUME TypeOK, [Next]_vars PROVE TypeOK'
    OBVIOUS
  <1>1. ASSUME NEW w \in Workers, TopupWrite(w) PROVE TypeOK'
    <2>1. Control'
      BY <1>1, FinishType DEF TopupWrite
    <2>2. req[w].seen + Rate \in Int
      BY MoneyAssumption, RequestFields DEF TypeOK
    <2>3. deposited' \in [Wallets -> Int]
      <3>1. \A x \in Wallets : deposited[x] + Rate \in Int
        BY MoneyAssumption DEF TypeOK
      <3>2. QED BY <1>1, <3>1 DEF TopupWrite, TypeOK
    <2>4. QED BY <1>1, <2>1, <2>2, <2>3 DEF TopupWrite, TypeOK, Control, envVars
  <1>2. ASSUME NEW w \in Workers, Crash(w) PROVE TypeOK'
    <2>1. Control' /\ count' \in Counts
      BY <1>2, CountType, NoRequestType, LabelNames DEF Crash, TypeOK, Control
    <2>2. QED BY <1>2, <2>1 DEF Crash, TypeOK, Control, moneyVars, ledgerVars
  <1>3. ASSUME NEW b \in Bookings, MarkActive(b) PROVE TypeOK'
    <2>1. booking' \in [Bookings -> BookingRow]
      BY <1>3, StatusUpdate DEF MarkActive, Live
    <2>2. QED BY <1>3, <2>1 DEF MarkActive, TypeOK, moneyVars, ledgerVars, envVars
  <1>4. CASE SetPaused \/ Tick
    <2>1. count' \in Counts /\ clock' \in Nat
      BY <1>4, CountType DEF SetPaused, Tick, TypeOK
    <2>2. paused' \in BOOLEAN
      BY <1>4, Zenon DEF SetPaused, Tick, TypeOK
    <2>3. QED BY <1>4, <2>1, <2>2 DEF SetPaused, Tick, TypeOK, moneyVars, ledgerVars
  <1>5. CASE UNCHANGED vars
    BY <1>5 DEF vars, TypeOK
  <1>6. QED
    BY <1>1, <1>2, <1>3, <1>4, <1>5, TypeArrive, TypeBookStep, TypeExtendStep,
       TypeStopStep, TypeReleaseStep, TypeRefundStep
    DEF Next, Continue

LEMMA TypeInit == Init => TypeOK
  <1>1. [status |-> "none", hours |-> 0] \in BookingRow
        /\ [status |-> "none", started |-> 0, until |-> 0] \in VMRow
        /\ NoLegs \in EscrowLegs
        /\ [topups |-> 0, pauses |-> 0, crashes |-> 0] \in Counts
    BY DEF BookingRow, VMRow, NoLegs, EscrowLegs, Counts
  <1>2. SUFFICES ASSUME Init PROVE TypeOK
    OBVIOUS
  <1>3. booking \in [Bookings -> BookingRow] /\ vm \in [Bookings -> VMRow]
        /\ legs \in [Bookings -> EscrowLegs] /\ count \in Counts
    BY <1>1, <1>2 DEF Init
  <1>4. wallet \in [Wallets -> Int] /\ deposited \in [Wallets -> Int] /\ avail \in 0 .. Units
    BY <1>2, MoneyAssumption, SizeAssumption DEF Init
  <1>5. pc \in [Workers -> Labels] /\ req \in [Workers -> Request]
        /\ \A w \in Workers : pc[w] = "idle"
    BY <1>2, NoRequestType, LabelNames DEF Init
  <1>6. earnings \in Int /\ revenue \in Int /\ clock \in Nat
    BY <1>2 DEF Init
  <1>7. paused \in BOOLEAN
    BY <1>2, Zenon DEF Init
  <1>8. QED
    BY <1>3, <1>4, <1>5, <1>6, <1>7 DEF TypeOK

(* TypeOK: every variable keeps its type, whatever the handlers do. *)
THEOREM TypeCorrect == Spec => []TypeOK
  BY TypeInit, TypeInductive, PTL DEF Spec

-----------------------------------------------------------------------------
(* Paid at most once *)
(* PaymentInv is inductive.  A step moves one worker w and leaves the others *)
(* alone; it leaves every booking and what left its escrow account alone    *)
(* (QuietStep), or changes the row of one booking that is not yet settled   *)
(* (RowStep), or posts the settlement of the booking w owns (PostStep).     *)

Others(w) == \A v \in Workers \ {w} : pc'[v] = pc[v] /\ req'[v] = req[v]
SameOut(b) == /\ legs'[b].seller = legs[b].seller
              /\ legs'[b].platform = legs[b].platform
              /\ legs'[b].back = legs[b].back
BookOK(b) ==
  /\ booking[b].status \notin Terminal => NoneOut(b)
  /\ Out(b) <= Gross(booking[b].hours)
  /\ booking[b].status = "refunded" => legs[b].seller = 0 /\ legs[b].platform = 0

(* PaymentInv says BookOK of every booking, and is made of it. *)
LEMMA InvParts ==
  ASSUME TypeOK
  PROVE  PaymentInv <=> /\ OneOwner /\ OneBooker
                        /\ \A w \in Workers : RequestOK(w)
                        /\ \A b \in Bookings : BookOK(b)
  BY DEF PaymentInv, PaidAtMostOnce, BookOK, NoneOut, Out

LEMMA InvPartsNext ==
  ASSUME TypeOK', OneOwner', OneBooker', \A w \in Workers : RequestOK(w)',
         \A b \in Bookings : BookOK(b)'
  PROVE  PaymentInv'
  BY DEF PaymentInv, PaidAtMostOnce, BookOK, NoneOut, Out

(* What keeps the facts about a worker that does not move. *)
LEMMA RequestKept ==
  ASSUME NEW v \in Workers, RequestOK(v), pc'[v] = pc[v], req'[v] = req[v], TypeOK, TypeOK',
         pc[v] \in PreInsert => booking'[req[v].bk].status = "none",
         pc[v] \in Owning => booking'[req[v].bk] = booking[req[v].bk] /\ SameOut(req[v].bk),
         KeepsRow(v) =>
           /\ booking'[req[v].bk].status # "none"
           /\ booking'[req[v].bk].hours >= booking[req[v].bk].hours
  PROVE  RequestOK(v)'
  <1>1. req[v].hrs \in Nat /\ (pc[v] # "idle" => booking[req[v].bk].hours \in Nat
                                                /\ booking'[req[v].bk].hours \in Nat)
    BY RequestFields, BookingFields DEF TypeOK
  <1>2. QED BY <1>1 DEF RequestOK, KeepsRow, Owning, Releasing, Refunding, PreInsert, NoneOut, SameOut

LEMMA QuietStep ==
  ASSUME PaymentInv, TypeOK', NEW w \in Workers, Others(w),
         \A b \in Bookings : booking'[b] = booking[b] /\ SameOut(b),
         RequestOK(w)',
         pc'[w] \in Owning => pc[w] \in Owning /\ req'[w].bk = req[w].bk,
         req'[w].op = "book" =>
           \A v \in Workers \ {w} : req[v].op = "book" => req[v].bk # req'[w].bk
  PROVE  PaymentInv'
  <1>1. TypeOK /\ OneOwner /\ OneBooker /\ \A v \in Workers : RequestOK(v)
    BY DEF PaymentInv
  <1>2. \A b \in Bookings : BookOK(b)
    BY <1>1, InvParts
  <1>3. \A b \in Bookings : BookOK(b)'
    BY <1>2 DEF BookOK, SameOut, NoneOut, Out
  <1>4. ASSUME NEW v \in Workers \ {w} PROVE RequestOK(v)'
    <2>1. pc[v] # "idle" => req[v].bk \in Bookings /\ booking[req[v].bk].hours \in Nat
      BY <1>1, BookingFields DEF TypeOK
    <2>2. pc[v] \in PreInsert => booking[req[v].bk].status = "none"
      BY <1>1 DEF RequestOK
    <2>3. KeepsRow(v) => booking[req[v].bk].status # "none"
      BY <1>1 DEF RequestOK
    <2>4. (pc[v] \in PreInsert \cup Owning \/ KeepsRow(v)) => pc[v] # "idle"
      BY DEF KeepsRow, PreInsert, Owning, Releasing, Refunding
    <2>5. QED BY <1>1, <2>1, <2>2, <2>3, <2>4, RequestKept DEF Others
  <1>5. OneOwner' /\ OneBooker'
    BY <1>1 DEF OneOwner, OneBooker, Others
  <1>6. QED BY <1>3, <1>4, <1>5, InvPartsNext

LEMMA RowStep ==
  ASSUME PaymentInv, TypeOK', NEW w \in Workers, NEW c \in Bookings, Others(w),
         booking[c].status \notin Terminal,
         \A b \in Bookings \ {c} : booking'[b] = booking[b],
         booking'[c].status # "none",
         booking[c].status # "none" => booking'[c].hours >= booking[c].hours,
         legs' = legs,
         RequestOK(w)',
         pc'[w] \in Owning => req'[w].bk = c,
         booking[c].status = "none" => pc[w] \in PreInsert /\ req[w].bk = c,
         req'[w].op = "book" => req[w].op = "book" /\ req'[w].bk = req[w].bk
  PROVE  PaymentInv'
  <1>1. TypeOK /\ OneOwner /\ OneBooker /\ \A v \in Workers : RequestOK(v)
    BY DEF PaymentInv
  <1>2. \A b \in Bookings : BookOK(b)
    BY <1>1, InvParts
  <1>3. \A b \in Bookings : BookOK(b)'
    <2>1. NoneOut(c) /\ NoneOut(c)'
      BY <1>2 DEF BookOK, NoneOut
    <2>2. booking'[c].hours \in Nat
      BY BookingFields DEF TypeOK
    <2>3. 0 <= Gross(booking'[c].hours)
      BY <2>2, MoneyAssumption DEF Gross
    <2>4. BookOK(c)'
      BY <2>1, <2>3 DEF BookOK, NoneOut, Out
    <2>5. ASSUME NEW b \in Bookings \ {c} PROVE BookOK(b)'
      BY <1>2 DEF BookOK, NoneOut, Out
    <2>6. QED BY <2>4, <2>5
  <1>4. ASSUME NEW v \in Workers \ {w} PROVE RequestOK(v)'
    <2>1. pc[v] # "idle" => req[v].bk \in Bookings /\ booking[req[v].bk].hours \in Nat
      BY <1>1, BookingFields DEF TypeOK
    <2>2. pc[v] \in PreInsert => booking[req[v].bk].status = "none" /\ req[v].bk # c
      <3>1. pc[v] \in PreInsert => req[v].op = "book" /\ booking[req[v].bk].status = "none"
        BY <1>1 DEF RequestOK
      <3>2. pc[w] \in PreInsert => req[w].op = "book"
        BY <1>1 DEF RequestOK
      <3>3. QED BY <1>1, <3>1, <3>2 DEF OneBooker
    <2>3. KeepsRow(v) => booking[req[v].bk].status # "none"
      BY <1>1 DEF RequestOK
    <2>4. pc[v] \in Owning => req[v].bk # c
      BY <1>1 DEF RequestOK, Owning, Terminal
    <2>5. (pc[v] \in PreInsert \cup Owning \/ KeepsRow(v)) => pc[v] # "idle"
      BY DEF KeepsRow, PreInsert, Owning, Releasing, Refunding
    <2>6. QED BY <1>1, <2>1, <2>2, <2>3, <2>4, <2>5, RequestKept DEF Others, SameOut
  <1>5. OneOwner'
    <2>1. \A v \in Workers : pc[v] \in Owning => req[v].bk # c
      BY <1>1 DEF RequestOK, Owning, Terminal
    <2>2. QED BY <1>1, <2>1 DEF OneOwner, Others
  <1>6. OneBooker'
    BY <1>1 DEF OneBooker, Others
  <1>7. QED BY <1>3, <1>4, <1>5, <1>6, InvPartsNext

LEMMA PostStep ==
  ASSUME PaymentInv, TypeOK', NEW w \in Workers, NEW c \in Bookings, Others(w),
         pc[w] \in Owning, req[w].bk = c, booking' = booking,
         \A b \in Bookings \ {c} : legs'[b] = legs[b],
         Out(c)' <= Gross(booking[c].hours),
         booking[c].status = "refunded" => legs'[c].seller = 0 /\ legs'[c].platform = 0,
         RequestOK(w)', pc'[w] \notin Owning,
         req'[w].op = "book" => req[w].op = "book" /\ req'[w].bk = req[w].bk
  PROVE  PaymentInv'
  <1>1. TypeOK /\ OneOwner /\ OneBooker /\ \A v \in Workers : RequestOK(v)
    BY DEF PaymentInv
  <1>2. \A b \in Bookings : BookOK(b)
    BY <1>1, InvParts
  <1>3. \A b \in Bookings : BookOK(b)'
    <2>1. booking[c].status \in Terminal
      BY <1>1 DEF RequestOK, Owning, Terminal
    <2>2. BookOK(c)'
      BY <2>1 DEF BookOK
    <2>3. ASSUME NEW b \in Bookings \ {c} PROVE BookOK(b)'
      BY <1>2 DEF BookOK, NoneOut, Out
    <2>4. QED BY <2>2, <2>3
  <1>4. ASSUME NEW v \in Workers \ {w} PROVE RequestOK(v)'
    <2>1. pc[v] # "idle" => req[v].bk \in Bookings /\ booking[req[v].bk].hours \in Nat
      BY <1>1, BookingFields DEF TypeOK
    <2>2. pc[v] \in PreInsert => booking[req[v].bk].status = "none"
      BY <1>1 DEF RequestOK
    <2>3. KeepsRow(v) => booking[req[v].bk].status # "none"
      BY <1>1 DEF RequestOK
    <2>4. pc[v] \in Owning => req[v].bk # c
      BY <1>1 DEF OneOwner
    <2>5. (pc[v] \in PreInsert \cup Owning \/ KeepsRow(v)) => pc[v] # "idle"
      BY DEF KeepsRow, PreInsert, Owning, Releasing, Refunding
    <2>6. QED BY <1>1, <2>1, <2>2, <2>3, <2>4, <2>5, RequestKept DEF Others, SameOut
  <1>5. OneOwner' /\ OneBooker'
    BY <1>1 DEF OneOwner, OneBooker, Others
  <1>6. QED BY <1>3, <1>4, <1>5, InvPartsNext

-----------------------------------------------------------------------------
(* How a step moves its worker: what each of the control operators leaves   *)
(* of the others, and of the worker's own facts when it reaches a label     *)
(* that PaymentInv says nothing about.                                      *)

Untracked(l) == l \notin Owning \cup PreInsert \cup {"idle", "rel_cas", "ref_cas"}

LEMMA GotoMoves ==
  ASSUME TypeOK, NEW w \in Workers, NEW from, NEW to, Goto(w, from, to)
  PROVE  Others(w) /\ pc[w] = from /\ pc'[w] = to /\ req'[w] = req[w]
  BY DEF Goto, TypeOK, Others

LEMMA GotoWithMoves ==
  ASSUME TypeOK, NEW w \in Workers, NEW from, NEW to, NEW h, NEW s, NEW r,
         GotoWith(w, from, to, h, s, r)
  PROVE  /\ Others(w) /\ pc[w] = from /\ pc'[w] = to
         /\ req'[w].op = req[w].op /\ req'[w].bk = req[w].bk /\ req'[w].hrs = h
  <1>1. req[w] \in Request /\ req' = [req EXCEPT ![w] = [req[w] EXCEPT !.hrs = h, !.seen = s, !.rev = r]]
    BY DEF GotoWith, TypeOK
  <1>2. req'[w] = [req[w] EXCEPT !.hrs = h, !.seen = s, !.rev = r]
    BY <1>1 DEF TypeOK
  <1>3. req'[w].op = req[w].op /\ req'[w].bk = req[w].bk /\ req'[w].hrs = h
    <2> DEFINE q == req[w]
               u == [q EXCEPT !.hrs = h, !.seen = s, !.rev = r]
    <2>1. q \in [op : AllHandlers \cup {"none"}, bk : Bookings \cup {"none"},
                 hrs : Nat, seen : Int, rev : Int]
      BY <1>1 DEF Request
    <2> HIDE DEF q
    <2>2. u.op = q.op
      BY <2>1
    <2>3. u.bk = q.bk
      BY <2>1
    <2>4. u.hrs = h
      BY <2>1
    <2>5. QED BY <1>2, <2>2, <2>3, <2>4 DEF q
  <1>4. QED BY <1>3 DEF GotoWith, TypeOK, Others

LEMMA FinishMoves ==
  ASSUME TypeOK, NEW w \in Workers, NEW from, Finish(w, from)
  PROVE  Others(w) /\ pc[w] = from /\ pc'[w] = "idle" /\ req'[w] = NoRequest /\ RequestOK(w)'
  <1>1. Others(w) /\ pc[w] = from /\ pc'[w] = "idle" /\ req'[w] = NoRequest
    BY DEF Finish, TypeOK, Others
  <1>2. QED BY <1>1 DEF RequestOK, KeepsRow, Owning, Releasing, Refunding, PreInsert

LEMMA BeginMoves ==
  ASSUME TypeOK, NEW w \in Workers, NEW op, NEW to, NEW b, NEW h, NEW s, Begin(w, op, to, b, h, s)
  PROVE  /\ Others(w) /\ pc[w] = "idle" /\ pc'[w] = to
         /\ req'[w].op = op /\ req'[w].bk = b /\ req'[w].hrs = h
  BY DEF Begin, TypeOK, Others

LEMMA UntrackedOK ==
  ASSUME NEW w \in Workers, Untracked(pc'[w])
  PROVE  RequestOK(w)' /\ pc'[w] \notin Owning
  BY DEF Untracked, RequestOK, KeepsRow, Owning, Releasing, Refunding

LEMMA OneBookerStays ==
  ASSUME OneBooker, NEW w \in Workers, req'[w].op = req[w].op, req'[w].bk = req[w].bk,
         req'[w].op = "book"
  PROVE  \A v \in Workers \ {w} : req[v].op = "book" => req[v].bk # req'[w].bk
  BY DEF OneBooker

(* Bookings and what left their escrow accounts are as they were. *)
Untouched == \A b \in Bookings : booking'[b] = booking[b] /\ SameOut(b)

LEMMA UntouchedHold ==
  ASSUME TypeOK, booking' = booking, NEW b, NEW m, PostHold(b, m) \/ UNCHANGED legs
  PROVE  Untouched
  BY DEF TypeOK, PostHold, Untouched, SameOut, EscrowLegs

LEMMA QuietFinish ==
  ASSUME PaymentInv, TypeOK', NEW w \in Workers, NEW from, Finish(w, from), Untouched
  PROVE  PaymentInv'
  <1>1. NoRequest.op # "book" /\ "idle" \notin Owning
    BY DEF NoRequest, Owning, Releasing, Refunding
  <1>2. TypeOK
    BY DEF PaymentInv
  <1>3. QED BY <1>1, <1>2, FinishMoves, QuietStep DEF Untouched

LEMMA QuietGoto ==
  ASSUME PaymentInv, TypeOK', NEW w \in Workers, NEW from, NEW to, Goto(w, from, to),
         Untracked(to), Untouched
  PROVE  PaymentInv'
  <1>1. TypeOK /\ OneBooker
    BY DEF PaymentInv
  <1>2. Others(w) /\ pc'[w] = to /\ req'[w] = req[w]
    BY <1>1, GotoMoves
  <1>3. RequestOK(w)' /\ pc'[w] \notin Owning
    BY <1>2, UntrackedOK
  <1>4. QED BY <1>1, <1>2, <1>3, OneBookerStays, QuietStep DEF Untouched

LEMMA QuietBegin ==
  ASSUME PaymentInv, TypeOK', NEW w \in Workers, NEW op, NEW to, NEW b, NEW h, NEW s,
         Begin(w, op, to, b, h, s), op # "book", to \notin Owning, RequestOK(w)', Untouched
  PROVE  PaymentInv'
  <1>1. TypeOK
    BY DEF PaymentInv
  <1>2. Others(w) /\ pc'[w] = to /\ req'[w].op = op
    BY <1>1, BeginMoves
  <1>3. QED BY <1>2, QuietStep DEF Untouched

-----------------------------------------------------------------------------
(* PaymentInv, action by action. *)

(* Labels that PaymentInv says nothing about. *)
LEMMA UntrackedLabels ==
  /\ Untracked("book_unreserve") /\ Untracked("book_comp") /\ Untracked("book_giveback")
  /\ Untracked("book_post") /\ Untracked("launch") /\ Untracked("ext_grow")
  /\ Untracked("ext_giveback") /\ Untracked("ext_post") /\ Untracked("ext_window")
  /\ Untracked("stop_settle") /\ Untracked("unit") /\ Untracked("exp_stop")
  /\ Untracked("topup")
  BY DEF Untracked, Owning, Releasing, Refunding, PreInsert

LEMMA BeginUntracked ==
  ASSUME PaymentInv, TypeOK', NEW w \in Workers, NEW op, NEW to, NEW b, NEW h, NEW s,
         Begin(w, op, to, b, h, s), op # "book", Untracked(to), Untouched
  PROVE  PaymentInv'
  <1>1. TypeOK
    BY DEF PaymentInv
  <1>2. pc'[w] = to
    BY <1>1, BeginMoves
  <1>3. RequestOK(w)' /\ to \notin Owning
    BY <1>2, UntrackedOK
  <1>4. QED BY <1>3, QuietBegin

LEMMA InvArrive ==
  ASSUME PaymentInv, TypeOK', NEW w \in Workers, Arrive(w)
  PROVE  PaymentInv'
  <1>0. PICK b \in Bookings :
          \/ \E h \in Hours : BookLoad(w, b, h)
          \/ \E h \in Hours : ExtendDebit(w, b, h)
          \/ StopVM(w, b) \/ AcceptRead(w, b) \/ ResultRead(w, b)
          \/ ExpireRead(w, b) \/ ReapRead(w, b) \/ TopupRead(w, b)
    BY DEF Arrive
  <1>a. TypeOK /\ booking[b].hours \in Nat
    BY BookingFields DEF PaymentInv, TypeOK
  <1>b. Untouched
    BY <1>0, <1>a, UntouchedHold
    DEF BookLoad, ExtendDebit, StopVM, AcceptRead, ResultRead, ExpireRead, ReapRead, TopupRead,
        ledgerVars
  <1>1. ASSUME NEW h \in Hours, BookLoad(w, b, h) PROVE PaymentInv'
    <2>1. /\ Others(w) /\ pc'[w] = "book_debit" /\ req'[w].op = "book" /\ req'[w].bk = b
      BY <1>1, <1>a, BeginMoves DEF BookLoad
    <2>2. booking'[b].status = "none" /\ \A v \in Workers : req[v].op = "book" => req[v].bk # b
      BY <1>1 DEF BookLoad
    <2>3. RequestOK(w)' /\ pc'[w] \notin Owning
      BY <2>1, <2>2 DEF RequestOK, KeepsRow, Owning, Releasing, Refunding, PreInsert
    <2>4. QED BY <1>b, <2>1, <2>2, <2>3, QuietStep DEF Untouched
  <1>2. ASSUME NEW h \in Hours, ExtendDebit(w, b, h) PROVE PaymentInv'
    BY <1>2, <1>b, BeginUntracked, UntrackedLabels DEF ExtendDebit
  <1>3. ASSUME StopVM(w, b) PROVE PaymentInv'
    BY <1>3, <1>b, BeginUntracked, UntrackedLabels DEF StopVM
  <1>4. ASSUME TopupRead(w, b) PROVE PaymentInv'
    BY <1>4, <1>b, BeginUntracked, UntrackedLabels DEF TopupRead
  <1>5. ASSUME AcceptRead(w, b) PROVE PaymentInv'
    <2>1. Begin(w, "accept", "rel_cas", b, booking[b].hours, 0) /\ booking[b].status # "none"
          /\ booking' = booking
      BY <1>5 DEF AcceptRead
    <2>2. /\ pc'[w] = "rel_cas" /\ req'[w].bk = b /\ req'[w].hrs = booking[b].hours
      BY <2>1, <1>a, BeginMoves
    <2>3. RequestOK(w)' /\ "rel_cas" \notin Owning
      BY <2>1, <2>2, <1>a DEF RequestOK, KeepsRow, Owning, Releasing, Refunding, PreInsert
    <2>4. QED BY <1>b, <2>1, <2>3, QuietBegin
  <1>6. ASSUME ResultRead(w, b) \/ ExpireRead(w, b) PROVE PaymentInv'
    <2>1. PICK op \in {"result", "expire"} : Begin(w, op, "rel_cas", b, 0, 0)
      BY <1>6 DEF ResultRead, ExpireRead
    <2>2. /\ pc'[w] = "rel_cas" /\ req'[w].op = op
      BY <2>1, <1>a, BeginMoves
    <2>3. RequestOK(w)' /\ "rel_cas" \notin Owning
      BY <2>1, <2>2, <1>a DEF RequestOK, KeepsRow, Owning, Releasing, Refunding, PreInsert
    <2>4. QED BY <1>b, <2>1, <2>3, QuietBegin
  <1>7. ASSUME ReapRead(w, b) PROVE PaymentInv'
    <2>1. Begin(w, "reap", "ref_cas", b, booking[b].hours, 0) /\ booking[b].status # "none"
          /\ booking' = booking
      BY <1>7 DEF ReapRead, Live
    <2>2. /\ pc'[w] = "ref_cas" /\ req'[w].bk = b /\ req'[w].hrs = booking[b].hours
      BY <2>1, <1>a, BeginMoves
    <2>3. RequestOK(w)' /\ "ref_cas" \notin Owning
      BY <2>1, <2>2, <1>a DEF RequestOK, KeepsRow, Owning, Releasing, Refunding, PreInsert
    <2>4. QED BY <1>b, <2>1, <2>3, QuietBegin
  <1>8. QED BY <1>0, <1>1, <1>2, <1>3, <1>4, <1>5, <1>6, <1>7

LEMMA InvBookStep ==
  ASSUME PaymentInv, TypeOK', NEW w \in Workers, BookStep(w)
  PROVE  PaymentInv'
  <1> DEFINE b == req[w].bk
  <1>a. TypeOK /\ OneBooker /\ RequestOK(w)
    BY DEF PaymentInv
  <1>1. CASE BookRefused(w) \/ BookUnreserve(w) \/ BookGiveBack(w) \/ LaunchVM(w)
    <2>1. Untouched
      BY <1>1, <1>a, UntouchedHold DEF BookRefused, BookUnreserve, BookGiveBack, LaunchVM, ledgerVars
    <2>2. QED
      BY <1>1, <2>1, QuietFinish DEF BookRefused, BookUnreserve, BookGiveBack, LaunchVM
  <1>2. CASE BookDebit(w)
    <2>1. Untouched
      BY <1>2, <1>a, UntouchedHold DEF BookDebit, ledgerVars
    <2>2. CASE Goto(w, "book_debit", "book_unreserve")
      BY <2>1, <2>2, QuietGoto, UntrackedLabels
    <2>3. ASSUME NEW s, GotoWith(w, "book_debit", "book_insert", req[w].hrs, s, 0)
          PROVE  PaymentInv'
      <3>1. /\ Others(w) /\ pc[w] = "book_debit" /\ pc'[w] = "book_insert"
            /\ req'[w].op = req[w].op /\ req'[w].bk = b
        BY <2>3, <1>a, GotoWithMoves
      <3>2. req[w].op = "book" /\ booking[b].status = "none" /\ b \in Bookings
        BY <3>1, <1>a DEF RequestOK, PreInsert, TypeOK
      <3>3. RequestOK(w)' /\ pc'[w] \notin Owning
        BY <2>1, <3>1, <3>2
        DEF RequestOK, KeepsRow, Owning, Releasing, Refunding, PreInsert, Untouched
      <3>4. QED BY <1>a, <2>1, <3>1, <3>3, OneBookerStays, QuietStep DEF Untouched
    <2>4. QED BY <1>2, <2>2, <2>3 DEF BookDebit
  <1>3. CASE BookInsert(w)
    <2>1. CASE booking' = booking /\ Goto(w, "book_insert", "book_comp")
      <3>1. Untouched
        BY <1>3, <1>a, <2>1, UntouchedHold DEF BookInsert, ledgerVars
      <3>2. QED BY <2>1, <3>1, QuietGoto, UntrackedLabels
    <2>2. CASE /\ booking' = [booking EXCEPT ![b] = [status |-> "escrowed", hours |-> req[w].hrs]]
               /\ Goto(w, "book_insert", "book_post")
      <3>1. Others(w) /\ pc[w] = "book_insert" /\ pc'[w] = "book_post" /\ req'[w] = req[w]
        BY <2>2, <1>a, GotoMoves
      <3>2. booking[b].status = "none" /\ b \in Bookings /\ pc[w] \in PreInsert
        BY <3>1, <1>a DEF RequestOK, PreInsert, TypeOK
      <3>3. booking'[b].status = "escrowed" /\ \A c \in Bookings \ {b} : booking'[c] = booking[c]
        BY <2>2, <3>2, <1>a DEF TypeOK
      <3>4. RequestOK(w)' /\ pc'[w] \notin Owning
        BY <3>1, UntrackedOK, UntrackedLabels
      <3>5. booking[b].status \notin Terminal /\ legs' = legs
        BY <1>3, <3>2 DEF Terminal, BookInsert, ledgerVars
      <3>6. QED BY <3>1, <3>2, <3>3, <3>4, <3>5, RowStep
    <2>3. QED BY <1>3, <2>1, <2>2 DEF BookInsert
  <1>4. CASE BookCompUnit(w)
    <2>1. Untouched
      BY <1>4, <1>a, UntouchedHold DEF BookCompUnit, ledgerVars
    <2>2. QED BY <1>4, <2>1, QuietGoto, UntrackedLabels DEF BookCompUnit
  <1>5. CASE BookPost(w)
    <2>1. Untouched
      BY <1>5, <1>a, UntouchedHold DEF BookPost
    <2>2. QED BY <1>5, <2>1, QuietGoto, QuietFinish, UntrackedLabels DEF BookPost
  <1>6. QED BY <1>1, <1>2, <1>3, <1>4, <1>5 DEF BookStep

LEMMA InvExtendStep ==
  ASSUME PaymentInv, TypeOK', NEW w \in Workers, ExtendStep(w)
  PROVE  PaymentInv'
  <1> DEFINE b == req[w].bk
  <1>a. TypeOK
    BY DEF PaymentInv
  <1>1. CASE ExtendGiveBack(w) \/ ExtendWindow(w)
    <2>1. Untouched
      BY <1>1, <1>a, UntouchedHold DEF ExtendGiveBack, ExtendWindow, ledgerVars
    <2>2. QED BY <1>1, <2>1, QuietFinish DEF ExtendGiveBack, ExtendWindow
  <1>2. CASE ExtendPost(w)
    <2>1. Untouched
      BY <1>2, <1>a, UntouchedHold DEF ExtendPost
    <2>2. QED BY <1>2, <2>1, QuietGoto, UntrackedLabels DEF ExtendPost
  <1>3. CASE ExtendGrow(w)
    <2>1. CASE booking' = booking /\ Goto(w, "ext_grow", "ext_giveback")
      <3>1. Untouched
        BY <1>3, <1>a, <2>1, UntouchedHold DEF ExtendGrow, ledgerVars
      <3>2. QED BY <2>1, <3>1, QuietGoto, UntrackedLabels
    <2>2. CASE /\ Unsettled(b) /\ booking' = [booking EXCEPT ![b].hours = @ + req[w].hrs]
               /\ Goto(w, "ext_grow", "ext_post")
      <3>1. Others(w) /\ pc[w] = "ext_grow" /\ pc'[w] = "ext_post" /\ req'[w] = req[w]
        BY <2>2, <1>a, GotoMoves
      <3>2. b \in Bookings /\ booking[b] \in BookingRow /\ req[w].hrs \in Nat
        BY <3>1, <1>a, RequestFields DEF TypeOK
      <3>3. booking'[b] = [booking[b] EXCEPT !.hours = @ + req[w].hrs]
            /\ \A c \in Bookings \ {b} : booking'[c] = booking[c]
        BY <2>2, <3>2, <1>a DEF TypeOK
      <3>4. booking'[b].hours = booking[b].hours + req[w].hrs
        BY <3>2, <3>3 DEF BookingRow
      <3>5. booking'[b].status = booking[b].status /\ booking'[b].hours >= booking[b].hours
        BY <3>2, <3>3, <3>4 DEF BookingRow
      <3>6. booking[b].status \notin Terminal /\ booking[b].status # "none" /\ legs' = legs
        BY <1>3, <2>2 DEF Terminal, Live, Unsettled, ExtendGrow, ledgerVars
      <3>7. RequestOK(w)' /\ pc'[w] \notin Owning
        BY <3>1, UntrackedOK, UntrackedLabels
      <3>8. QED BY <3>1, <3>2, <3>3, <3>5, <3>6, <3>7, RowStep
    <2>3. QED BY <1>3, <2>1, <2>2 DEF ExtendGrow
  <1>4. QED BY <1>1, <1>2, <1>3 DEF ExtendStep

(* What a settlement's posting leaves in the escrow legs of its booking. *)
LEMMA PostOutValue ==
  ASSUME TypeOK, NEW c \in Bookings, NoneOut(c), NEW s \in Int, NEW p \in Int, NEW r \in Int,
         PostOut(c, s, p, r)
  PROVE  /\ Out(c)' = s + p + r /\ legs'[c].seller = s /\ legs'[c].platform = p
         /\ \A b \in Bookings \ {c} : legs'[b] = legs[b]
  <1>1. legs'[c] = [hold |-> legs[c].hold, seller |-> legs[c].seller + s,
                    platform |-> legs[c].platform + p, back |-> legs[c].back + r]
        /\ \A b \in Bookings \ {c} : legs'[b] = legs[b]
    BY DEF TypeOK, PostOut
  <1>2. legs'[c].seller = s /\ legs'[c].platform = p /\ legs'[c].back = r
    BY <1>1 DEF NoneOut
  <1>3. QED BY <1>1, <1>2 DEF Out

(* A worker that owns a settlement posts it, and is done with it. *)
LEMMA OwnerPosts ==
  ASSUME PaymentInv, TypeOK', NEW w \in Workers, Others(w), pc[w] \in Owning, pc'[w] \notin Owning,
         RequestOK(w)', req'[w].op = "book" => req[w].op = "book" /\ req'[w].bk = req[w].bk,
         booking' = booking, NEW s \in Int, NEW p \in Int, NEW r \in Int,
         PostOut(req[w].bk, s, p, r), s + p + r <= Gross(booking[req[w].bk].hours),
         booking[req[w].bk].status = "refunded" => s = 0 /\ p = 0
  PROVE  PaymentInv'
  <1>1. TypeOK /\ RequestOK(w)
    BY DEF PaymentInv
  <1>2. PICK c \in Bookings : c = req[w].bk
    BY <1>1 DEF TypeOK, Owning, Releasing, Refunding
  <1>3. NoneOut(c)
    BY <1>1, <1>2 DEF RequestOK, Owning
  <1>4. /\ Out(c)' = s + p + r /\ legs'[c].seller = s /\ legs'[c].platform = p
        /\ \A b \in Bookings \ {c} : legs'[b] = legs[b]
    BY <1>1, <1>2, <1>3, PostOutValue
  <1>5. Out(c)' <= Gross(booking[c].hours)
    BY <1>2, <1>4
  <1>6. QED BY <1>2, <1>4, <1>5, PostStep

(* The settlement of a booking, won by its CAS from a live status. *)
LEMMA WonCas ==
  ASSUME PaymentInv, TypeOK', NEW w \in Workers, NEW c \in Bookings, NEW st \in Terminal,
         Unsettled(c), booking' = [booking EXCEPT ![c].status = st], legs' = legs,
         Others(w), req'[w].bk = c, req'[w].op = req[w].op, req[w].bk = c,
         pc'[w] # "stop_pay" => req'[w].hrs <= booking[c].hours,
         \/ pc'[w] \in {"stop_pay", "rel_read"} /\ st = "released"
         \/ pc'[w] \in Refunding /\ st = "refunded"
  PROVE  PaymentInv'
  <1>1. TypeOK /\ NoneOut(c)
    BY DEF PaymentInv, Unsettled, Live, Terminal
  <1>2. booking'[c].status = st /\ booking'[c].hours = booking[c].hours
        /\ booking[c].hours \in Nat /\ \A b \in Bookings \ {c} : booking'[b] = booking[b]
    BY <1>1 DEF TypeOK, BookingRow
  <1>3. booking[c].status \notin Terminal \cup {"none"} /\ booking'[c].status # "none"
    BY <1>2 DEF Unsettled, Live, Terminal
  <1>4. NoneOut(c)'
    BY <1>1 DEF NoneOut
  <1>5. RequestOK(w)'
    BY <1>2, <1>4 DEF RequestOK, KeepsRow, Owning, Releasing, Refunding, PreInsert
  <1>6. QED BY <1>2, <1>3, <1>5, RowStep

(* A worker that owns a settlement reaches another step of it. *)
LEMMA OwnerMoves ==
  ASSUME PaymentInv, TypeOK', NEW w \in Workers, Others(w), Untouched,
         \/ pc[w] \in Releasing /\ pc'[w] \in Releasing
         \/ pc[w] \in Refunding /\ pc'[w] \in Refunding,
         req'[w].op = req[w].op, req'[w].bk = req[w].bk, req'[w].hrs = req[w].hrs,
         pc'[w] \in {"rel_read", "rel_pay"} => pc[w] \in {"rel_read", "rel_pay"}
  PROVE  PaymentInv'
  <1>1. TypeOK /\ OneBooker /\ RequestOK(w)
    BY DEF PaymentInv
  <1>2. req[w].bk \in Bookings
    BY <1>1 DEF TypeOK, Releasing, Refunding
  <1>3. booking'[req[w].bk] = booking[req[w].bk] /\ SameOut(req[w].bk)
    BY <1>2 DEF Untouched
  <1>4. RequestOK(w)'
    BY <1>1, <1>3 DEF RequestOK, KeepsRow, Releasing, Refunding, PreInsert, NoneOut, SameOut
  <1>5. QED BY <1>1, <1>4, QuietStep, OneBookerStays DEF Untouched, Owning

LEMMA InvStopStep ==
  ASSUME PaymentInv, TypeOK', NEW w \in Workers, StopStep(w)
  PROVE  PaymentInv'
  <1> DEFINE b == req[w].bk
             u == Used(req[w].seen, booking[b].hours)
             refund == Gross(booking[b].hours) - Gross(u)
  <1>a. TypeOK /\ RequestOK(w)
    BY DEF PaymentInv
  <1>1. CASE StopSettle(w)
    <2>1. CASE Finish(w, "stop_settle") /\ booking' = booking
      <3>1. Untouched
        BY <1>1, <1>a, <2>1, UntouchedHold DEF StopSettle, ledgerVars
      <3>2. QED BY <2>1, <3>1, QuietFinish
    <2>2. CASE /\ Unsettled(b) /\ booking' = [booking EXCEPT ![b].status = "released"]
               /\ Goto(w, "stop_settle", "stop_pay")
      <3>1. Others(w) /\ pc[w] = "stop_settle" /\ pc'[w] = "stop_pay" /\ req'[w] = req[w]
        BY <2>2, <1>a, GotoMoves
      <3>2. b \in Bookings /\ legs' = legs
        BY <1>1, <3>1, <1>a DEF TypeOK, StopSettle, ledgerVars
      <3>3. QED BY <2>2, <3>1, <3>2, WonCas DEF Terminal
    <2>3. QED BY <1>1, <2>1, <2>2 DEF StopSettle
  <1>2. ASSUME pc[w] \in {"stop_pay", "stop_post"}, Goto(w, pc[w], "unit"), PostMetered(w),
               booking' = booking
        PROVE  PaymentInv'
    <2>1. Others(w) /\ pc'[w] = "unit" /\ req'[w] = req[w]
      BY <1>2, <1>a, GotoMoves
    <2>2. b \in Bookings /\ booking[b].status = "released" /\ NoneOut(b) /\ pc[w] \in Owning
      BY <1>2, <1>a DEF TypeOK, RequestOK, Owning, Releasing
    <2>3. u \in Nat /\ booking[b].hours \in Nat
      BY <2>2, <1>a, UsedType, RequestFields, BookingFields DEF TypeOK
    <2>4. Payout(u) \in Int /\ FeeOf(u) \in Int /\ Gross(u) \in Int /\ Gross(booking[b].hours) \in Int
          /\ Payout(u) + FeeOf(u) = Gross(u)
      BY <2>3, SplitExact
    <2> HIDE DEF u
    <2>5. PostOut(b, Payout(u), FeeOf(u), refund)
      BY <1>2 DEF PostMetered, u
    <2>6. refund \in Int
      BY <2>4
    <2> HIDE DEF refund
    <2>7. Payout(u) + FeeOf(u) + refund <= Gross(booking[b].hours)
      BY <2>4 DEF refund
    <2>8. RequestOK(w)' /\ pc'[w] \notin Owning
      BY <2>1, UntrackedOK, UntrackedLabels
    <2>9. booking[b].status # "refunded"
      BY <2>2
    <2>10. QED BY <1>2, <2>1, <2>2, <2>4, <2>5, <2>6, <2>7, <2>8, <2>9, OwnerPosts
  <1>3. CASE StopPay(w)
    <2>1. CASE Goto(w, "stop_pay", "stop_post") /\ UNCHANGED legs
      <3>1. Untouched
        BY <1>3, <1>a, <2>1, UntouchedHold DEF StopPay
      <3>2. Others(w) /\ pc[w] = "stop_pay" /\ pc'[w] = "stop_post" /\ req'[w] = req[w]
        BY <2>1, <1>a, GotoMoves
      <3>3. pc[w] \in Releasing /\ pc'[w] \in Releasing /\ pc'[w] \notin {"rel_read", "rel_pay"}
        BY <3>2 DEF Releasing
      <3>4. QED BY <3>1, <3>2, <3>3, OwnerMoves
    <2>2. CASE Goto(w, "stop_pay", "unit") /\ PostMetered(w)
      <3>1. pc[w] = "stop_pay" /\ booking' = booking
        BY <1>3 DEF StopPay
      <3>2. QED BY <1>2, <2>2, <3>1
    <2>3. QED BY <1>3, <2>1, <2>2 DEF StopPay
  <1>4. CASE StopPost(w)
    <2>1. pc[w] = "stop_post" /\ booking' = booking /\ Goto(w, "stop_post", "unit") /\ PostMetered(w)
      BY <1>4 DEF StopPost, Goto
    <2>2. QED BY <1>2, <2>1
  <1>5. QED BY <1>1, <1>3, <1>4 DEF StopStep

LEMMA InvReleaseStep ==
  ASSUME PaymentInv, TypeOK', NEW w \in Workers, ReleaseStep(w)
  PROVE  PaymentInv'
  <1> DEFINE b == req[w].bk
             h == req[w].hrs
             row == IF req[w].op = "accept" THEN req[w].hrs ELSE booking[b].hours
  <1>a. TypeOK /\ RequestOK(w)
    BY DEF PaymentInv
  <1>1. CASE ReleaseCas(w)
    <2>1. ASSUME booking' = booking, Goto(w, "rel_cas", "exp_stop") \/ Finish(w, "rel_cas")
          PROVE  PaymentInv'
      <3>1. Untouched
        BY <1>1, <1>a, <2>1, UntouchedHold DEF ReleaseCas, ledgerVars
      <3>2. QED BY <2>1, <3>1, QuietFinish, QuietGoto, UntrackedLabels
    <2>2. ASSUME Unsettled(b), booking' = [booking EXCEPT ![b].status = "released"],
                 GotoWith(w, "rel_cas", "rel_read", row, 0, 0)
          PROVE  PaymentInv'
      <3>1. /\ Others(w) /\ pc[w] = "rel_cas" /\ pc'[w] = "rel_read"
            /\ req'[w].op = req[w].op /\ req'[w].bk = b /\ req'[w].hrs = row
        BY <2>2, <1>a, GotoWithMoves
      <3>2. b \in Bookings /\ legs' = legs
        BY <1>1, <3>1, <1>a DEF TypeOK, ReleaseCas, ledgerVars
      <3>3. booking[b].hours \in Nat
        BY <3>2, <1>a, BookingFields DEF TypeOK
      <3>4. row <= booking[b].hours
        BY <3>1, <3>3, <1>a DEF RequestOK, KeepsRow
      <3> HIDE DEF row
      <3>5. QED BY <2>2, <3>1, <3>2, <3>4, WonCas DEF Terminal
    <2>3. QED BY <1>1, <2>1, <2>2 DEF ReleaseCas
  <1>2. CASE ReleaseRead(w)
    <2>1. Untouched
      BY <1>2, <1>a, UntouchedHold DEF ReleaseRead, ledgerVars
    <2>2. /\ Others(w) /\ pc[w] = "rel_read" /\ pc'[w] = "rel_pay"
          /\ req'[w].op = req[w].op /\ req'[w].bk = b /\ req'[w].hrs = h
      BY <1>2, <1>a, GotoWithMoves DEF ReleaseRead
    <2>3. pc[w] \in Releasing /\ pc'[w] \in Releasing
      BY <2>2 DEF Releasing
    <2>4. QED BY <2>1, <2>2, <2>3, OwnerMoves
  <1>3. CASE ReleasePay(w)
    <2>1. Others(w) /\ pc[w] = "rel_pay" /\ pc'[w] = "unit" /\ req'[w] = req[w]
      BY <1>3, <1>a, GotoMoves DEF ReleasePay
    <2>2. /\ b \in Bookings /\ booking[b].status = "released" /\ NoneOut(b)
          /\ pc[w] \in Owning /\ h <= booking[b].hours
      BY <2>1, <1>a DEF TypeOK, RequestOK, Owning, Releasing
    <2>3. h \in Nat /\ booking[b].hours \in Nat
      BY <2>2, <1>a, RequestFields, BookingFields DEF TypeOK
    <2>4. Payout(h) \in Int /\ FeeOf(h) \in Int /\ Payout(h) + FeeOf(h) = Gross(h)
          /\ Gross(h) <= Gross(booking[b].hours)
      BY <2>2, <2>3, SplitExact, GrossMonotone
    <2>5. PostOut(b, Payout(h), FeeOf(h), 0) /\ booking' = booking
      BY <1>3 DEF ReleasePay
    <2>6. Payout(h) + FeeOf(h) + 0 <= Gross(booking[b].hours) /\ booking[b].status # "refunded"
      BY <2>2, <2>4, <2>3, SplitExact
    <2>7. RequestOK(w)' /\ pc'[w] \notin Owning
      BY <2>1, UntrackedOK, UntrackedLabels
    <2>8. QED BY <2>1, <2>2, <2>4, <2>5, <2>6, <2>7, OwnerPosts
  <1>4. CASE ReleaseUnit(w) \/ ExpireStop(w)
    <2>1. Untouched
      BY <1>4, <1>a, UntouchedHold DEF ReleaseUnit, ExpireStop, ledgerVars
    <2>2. QED
      BY <1>4, <2>1, QuietFinish, QuietGoto, UntrackedLabels DEF ReleaseUnit, ExpireStop
  <1>5. QED BY <1>1, <1>2, <1>3, <1>4 DEF ReleaseStep

LEMMA InvRefundStep ==
  ASSUME PaymentInv, TypeOK', NEW w \in Workers, RefundStep(w)
  PROVE  PaymentInv'
  <1> DEFINE b == req[w].bk
             h == req[w].hrs
  <1>a. TypeOK /\ RequestOK(w)
    BY DEF PaymentInv
  <1>1. CASE RefundCas(w)
    <2>1. CASE booking' = booking /\ Finish(w, "ref_cas")
      <3>1. Untouched
        BY <1>1, <1>a, <2>1, UntouchedHold DEF RefundCas, ledgerVars
      <3>2. QED BY <2>1, <3>1, QuietFinish
    <2>2. ASSUME Unsettled(b), booking' = [booking EXCEPT ![b].status = "refunded"],
                 NEW to \in {"ref_org", "ref_read"}, Goto(w, "ref_cas", to)
          PROVE  PaymentInv'
      <3>1. Others(w) /\ pc[w] = "ref_cas" /\ pc'[w] = to /\ req'[w] = req[w]
        BY <2>2, <1>a, GotoMoves
      <3>2. b \in Bookings /\ legs' = legs /\ h <= booking[b].hours
        BY <1>1, <3>1, <1>a DEF TypeOK, RefundCas, ledgerVars, RequestOK, KeepsRow
      <3>3. to \in Refunding
        BY DEF Refunding
      <3>4. QED BY <2>2, <3>1, <3>2, <3>3, WonCas DEF Terminal
    <2>3. QED BY <1>1, <2>1, <2>2 DEF RefundCas
  <1>2. CASE RefundRead(w) \/ RefundWrite(w) \/ RefundOrg(w)
    <2>1. Untouched
      BY <1>2, <1>a, UntouchedHold DEF RefundRead, RefundWrite, RefundOrg, ledgerVars
    <2>2. /\ Others(w) /\ pc[w] \in Refunding /\ pc'[w] \in Refunding
          /\ req'[w].op = req[w].op /\ req'[w].bk = b /\ req'[w].hrs = h
      <3>1. CASE RefundRead(w)
        BY <3>1, <1>a, GotoWithMoves DEF RefundRead, Refunding
      <3>2. CASE RefundWrite(w) \/ RefundOrg(w)
        BY <3>2, <1>a, GotoMoves DEF RefundWrite, RefundOrg, Refunding
      <3>3. QED BY <1>2, <3>1, <3>2
    <2>3. pc'[w] \notin {"rel_read", "rel_pay"}
      BY <2>2 DEF Refunding
    <2>4. QED BY <2>1, <2>2, <2>3, OwnerMoves
  <1>3. CASE RefundPost(w)
    <2>1. /\ Others(w) /\ pc[w] = "ref_post" /\ pc'[w] = "idle" /\ req'[w] = NoRequest
          /\ RequestOK(w)'
      BY <1>3, <1>a, FinishMoves DEF RefundPost
    <2>2. /\ b \in Bookings /\ booking[b].status = "refunded" /\ NoneOut(b)
          /\ pc[w] \in Owning /\ h <= booking[b].hours
      BY <2>1, <1>a DEF TypeOK, RequestOK, Owning, Refunding
    <2>3. h \in Nat /\ booking[b].hours \in Nat
      BY <2>2, <1>a, RequestFields, BookingFields DEF TypeOK
    <2>4. Gross(h) \in Int /\ Gross(h) <= Gross(booking[b].hours)
      BY <2>2, <2>3, SplitExact, GrossMonotone
    <2>5. PostOut(b, 0, 0, Gross(h)) /\ booking' = booking
      BY <1>3 DEF RefundPost
    <2>6. 0 + 0 + Gross(h) <= Gross(booking[b].hours)
      BY <2>4
    <2>7. pc'[w] \notin Owning /\ req'[w].op # "book"
      BY <2>1 DEF NoRequest, Owning, Releasing, Refunding
    <2>8. QED BY <2>1, <2>2, <2>4, <2>5, <2>6, <2>7, OwnerPosts
  <1>4. CASE RefundOrgUnit(w)
    <2>1. Untouched
      BY <1>4, <1>a, UntouchedHold DEF RefundOrgUnit, ledgerVars
    <2>2. QED BY <1>4, <2>1, QuietFinish DEF RefundOrgUnit
  <1>5. QED BY <1>1, <1>2, <1>3, <1>4 DEF RefundStep

(* mark_booking_active moves no worker. *)
LEMMA InvMarkActive ==
  ASSUME PaymentInv, TypeOK', NEW c \in Bookings, MarkActive(c)
  PROVE  PaymentInv'
  <1>1. TypeOK /\ OneOwner /\ OneBooker /\ \A v \in Workers : RequestOK(v)
    BY DEF PaymentInv
  <1>2. /\ booking[c].status = "escrowed" /\ booking'[c].status = "active"
        /\ booking'[c].hours = booking[c].hours /\ booking[c].hours \in Nat
        /\ \A b \in Bookings \ {c} : booking'[b] = booking[b]
        /\ legs' = legs /\ pc' = pc /\ req' = req
    BY <1>1 DEF MarkActive, TypeOK, BookingRow, ledgerVars
  <1>3. \A b \in Bookings : BookOK(b)'
    <2>1. \A b \in Bookings : BookOK(b)
      BY <1>1, InvParts
    <2>2. QED BY <1>2, <2>1 DEF BookOK, NoneOut, Out, Terminal
  <1>4. ASSUME NEW v \in Workers PROVE RequestOK(v)'
    <2>1. pc[v] # "idle" => req[v].bk \in Bookings /\ booking[req[v].bk].hours \in Nat
      BY <1>1, BookingFields DEF TypeOK
    <2>2. pc[v] \in PreInsert => booking[req[v].bk].status = "none" /\ req[v].bk # c
      BY <1>1, <1>2 DEF RequestOK
    <2>3. KeepsRow(v) => booking[req[v].bk].status # "none"
      BY <1>1 DEF RequestOK
    <2>4. pc[v] \in Owning => req[v].bk # c
      BY <1>1, <1>2 DEF RequestOK, Owning
    <2>5. (pc[v] \in PreInsert \cup Owning \/ KeepsRow(v)) => pc[v] # "idle"
      BY DEF KeepsRow, PreInsert, Owning, Releasing, Refunding
    <2>6. QED BY <1>1, <1>2, <2>1, <2>2, <2>3, <2>4, <2>5, RequestKept DEF SameOut
  <1>5. OneOwner' /\ OneBooker'
    BY <1>1, <1>2 DEF OneOwner, OneBooker
  <1>6. QED BY <1>3, <1>4, <1>5, InvPartsNext

LEMMA PaymentInvStutter ==
  ASSUME PaymentInv, TypeOK', UNCHANGED <<booking, legs, pc, req>>
  PROVE  PaymentInv'
  BY DEF PaymentInv, OneOwner, OneBooker, RequestOK, KeepsRow, NoneOut, PaidAtMostOnce, Out

LEMMA PaymentInvInductive == PaymentInv /\ [Next]_vars => PaymentInv'
  <1> SUFFICES ASSUME PaymentInv, [Next]_vars PROVE PaymentInv'
    OBVIOUS
  <1>a. TypeOK
    BY DEF PaymentInv
  <1>b. TypeOK'
    BY <1>a, TypeInductive
  <1>1. ASSUME NEW w \in Workers, TopupWrite(w) \/ Crash(w) PROVE PaymentInv'
    <2>1. PICK from : Finish(w, from)
      BY <1>1 DEF TopupWrite, Crash, Finish
    <2>2. Untouched
      BY <1>1, <1>a, UntouchedHold DEF TopupWrite, Crash, ledgerVars
    <2>3. QED BY <1>b, <2>1, <2>2, QuietFinish
  <1>2. CASE SetPaused \/ Tick \/ UNCHANGED vars
    BY <1>2, <1>b, PaymentInvStutter DEF SetPaused, Tick, vars, ledgerVars
  <1>3. QED
    BY <1>b, <1>1, <1>2, InvArrive, InvBookStep, InvExtendStep, InvStopStep, InvReleaseStep,
       InvRefundStep, InvMarkActive
    DEF Next, Continue

LEMMA PaymentInvInit == Init => PaymentInv
  <1> SUFFICES ASSUME Init PROVE PaymentInv
    OBVIOUS
  <1>1. TypeOK
    BY TypeInit
  <1>2. \A w \in Workers : pc[w] = "idle" /\ req[w] = NoRequest
    BY DEF Init
  <1>3. OneOwner /\ OneBooker /\ \A w \in Workers : RequestOK(w)
    BY <1>2 DEF OneOwner, OneBooker, RequestOK, KeepsRow, Owning, Releasing, Refunding, PreInsert,
                NoRequest
  <1>4. ASSUME NEW b \in Bookings PROVE BookOK(b)
    <2>1. booking[b].status = "none" /\ booking[b].hours = 0 /\ legs[b] = NoLegs
      BY DEF Init
    <2>2. Gross(0) \in Nat
      BY GrossMonotone
    <2>3. NoneOut(b)
      BY <2>1 DEF NoLegs, NoneOut
    <2>4. QED BY <2>1, <2>2, <2>3 DEF BookOK, NoneOut, Out
  <1>5. QED BY <1>1, <1>3, <1>4, InvParts

(* The strengthening holds throughout: at most one worker ever owns a       *)
(* booking's settlement, and nothing has left its escrow before it posts.   *)
THEOREM PaymentInvHolds == Spec => []PaymentInv
  BY PaymentInvInit, PaymentInvInductive, PTL DEF Spec

(* A booking is settled at most once, for no more than it was charged, and  *)
(* a refunded one pays nobody else: for every interleaving of stop, release,*)
(* job result, expiry, reaping and extension, and every crash of a handler. *)
THEOREM PaidOnce == Spec => []PaidAtMostOnce
  <1>1. PaymentInv => PaidAtMostOnce
    BY DEF PaymentInv
  <1>2. QED BY <1>1, PaymentInvHolds, PTL

-----------------------------------------------------------------------------
(* A settled booking stays settled: each action that rewrites a booking's    *)
(* row does so under a guard on its status, or, for the insert, on a slot    *)
(* that PaymentInv says is still empty.                                     *)

Frozen == \A b \in Bookings : booking[b].status \in Terminal => booking'[b] = booking[b]

LEMMA FrozenRow ==
  ASSUME TypeOK, NEW c \in Bookings, NEW row, booking[c].status \notin Terminal,
         booking' = [booking EXCEPT ![c] = row]
  PROVE  Frozen
  BY DEF Frozen, TypeOK

LEMMA FrozenStep == PaymentInv /\ [Next]_vars => Frozen
  <1> SUFFICES ASSUME PaymentInv, [Next]_vars PROVE Frozen
    OBVIOUS
  <1>a. TypeOK /\ \A w \in Workers : RequestOK(w)
    BY DEF PaymentInv
  <1>1. ASSUME booking' = booking PROVE Frozen
    BY <1>1 DEF Frozen
  <1>2. ASSUME NEW w \in Workers, Arrive(w) \/ TopupWrite(w) \/ Crash(w) PROVE Frozen
    BY <1>1, <1>2 DEF Arrive, BookLoad, ExtendDebit, StopVM, AcceptRead, ResultRead, ExpireRead,
                      ReapRead, TopupRead, TopupWrite, Crash
  <1>3. ASSUME NEW w \in Workers, BookStep(w) PROVE Frozen
    <2>1. CASE BookInsert(w)
      <3>1. pc[w] \in PreInsert
        BY <2>1 DEF BookInsert, PreInsert
      <3>2. req[w].bk \in Bookings /\ booking[req[w].bk].status = "none"
        BY <1>a, <3>1 DEF RequestOK, TypeOK, PreInsert
      <3>3. booking[req[w].bk].status \notin Terminal
        BY <3>2 DEF Terminal
      <3>4. QED BY <1>1, <1>a, <2>1, <3>2, <3>3, FrozenRow DEF BookInsert
    <2>2. CASE ~BookInsert(w)
      BY <1>1, <1>3, <2>2 DEF BookStep, BookRefused, BookDebit, BookUnreserve, BookCompUnit,
                              BookGiveBack, BookPost, LaunchVM
    <2>3. QED BY <2>1, <2>2
  <1>4. ASSUME NEW w \in Workers, Unsettled(req[w].bk), pc[w] # "idle", NEW row,
               booking' = [booking EXCEPT ![req[w].bk] = row]
        PROVE  Frozen
    <2>1. req[w].bk \in Bookings /\ booking[req[w].bk].status \notin Terminal
      BY <1>4, <1>a DEF TypeOK, Unsettled, Live, Terminal
    <2>2. QED BY <1>4, <1>a, <2>1, FrozenRow
  <1>5. ASSUME NEW w \in Workers, ExtendStep(w) PROVE Frozen
    <2>1. CASE ExtendGrow(w)
      BY <1>1, <1>4, <2>1 DEF ExtendGrow
    <2>2. CASE ~ExtendGrow(w)
      BY <1>1, <1>5, <2>2 DEF ExtendStep, ExtendGiveBack, ExtendPost, ExtendWindow
    <2>3. QED BY <2>1, <2>2
  <1>6. ASSUME NEW w \in Workers, StopStep(w) PROVE Frozen
    <2>1. CASE StopSettle(w)
      BY <1>1, <1>4, <2>1 DEF StopSettle
    <2>2. CASE ~StopSettle(w)
      BY <1>1, <1>6, <2>2 DEF StopStep, StopPay, StopPost
    <2>3. QED BY <2>1, <2>2
  <1>7. ASSUME NEW w \in Workers, ReleaseStep(w) PROVE Frozen
    <2>1. CASE ReleaseCas(w)
      BY <1>1, <1>4, <2>1 DEF ReleaseCas
    <2>2. CASE ~ReleaseCas(w)
      BY <1>1, <1>7, <2>2 DEF ReleaseStep, ReleaseRead, ReleasePay, ReleaseUnit, ExpireStop
    <2>3. QED BY <2>1, <2>2
  <1>8. ASSUME NEW w \in Workers, RefundStep(w) PROVE Frozen
    <2>1. CASE RefundCas(w)
      BY <1>1, <1>4, <2>1 DEF RefundCas
    <2>2. CASE ~RefundCas(w)
      BY <1>1, <1>8, <2>2 DEF RefundStep, RefundRead, RefundWrite, RefundPost, RefundOrg,
                              RefundOrgUnit
    <2>3. QED BY <2>1, <2>2
  <1>9. ASSUME NEW b \in Bookings, MarkActive(b) PROVE Frozen
    BY <1>9, <1>a DEF MarkActive, Terminal, TypeOK, Frozen
  <1>10. CASE SetPaused \/ Tick \/ UNCHANGED vars
    BY <1>1, <1>10 DEF SetPaused, Tick, vars
  <1>11. QED
    BY <1>2, <1>3, <1>5, <1>6, <1>7, <1>8, <1>9, <1>10 DEF Next, Continue

(* TerminalIsFinal: no step changes the row of a released or refunded       *)
(* booking, neither its status nor the hours it was settled for.            *)
THEOREM SettledStays == Spec => TerminalIsFinal
  <1>1. PaymentInv /\ [Next]_vars => [Frozen]_vars
    BY FrozenStep
  <1>2. Frozen = \A b \in Bookings : booking[b].status \in Terminal => booking'[b] = booking[b]
    BY DEF Frozen
  <1>3. QED BY <1>1, PaymentInvHolds, PTL DEF Spec, TerminalIsFinal, Frozen
-----------------------------------------------------------------------------
(* Capacity.  A unit of the host is free, or in the escrow of a live booking, *)
(* or in the hands of a handler: CapInv counts them, and is inductive with   *)
(* TypeOK and PaymentInv.  A step moves at most one worker and changes the   *)
(* row of at most one booking, so both sets change by at most one member.    *)

LiveBookings == {b \in Bookings : Unsettled(b)}
Holders == {w \in Workers : HoldsUnit(w)}
CapInv == NeverOversold /\ NoUnitLost

Ind(p) == IF p THEN 1 ELSE 0

(* Two finite sets that agree but for x. *)
LEMMA OneMore ==
  ASSUME NEW S, NEW T, IsFiniteSet(S), IsFiniteSet(T), NEW x, T \ {x} = S \ {x}
  PROVE  /\ Cardinality(S) \in Nat /\ Cardinality(T) \in Nat
         /\ Cardinality(T) + Ind(x \in S) = Cardinality(S) + Ind(x \in T)
  <1>1. Cardinality(S) \in Nat /\ Cardinality(T) \in Nat
    BY FS_CardinalityType
  <1>2. CASE (x \in S) <=> (x \in T)
    <2>1. S = T
      BY <1>2
    <2>2. QED BY <1>1, <2>1
  <1>3. CASE x \in S /\ x \notin T
    <2>1. S = T \cup {x}
      BY <1>3
    <2>2. Cardinality(S) = Cardinality(T) + 1
      BY <1>3, <2>1, FS_AddElement
    <2>3. QED BY <1>1, <1>3, <2>2 DEF Ind
  <1>4. CASE x \notin S /\ x \in T
    <2>1. T = S \cup {x}
      BY <1>4
    <2>2. Cardinality(T) = Cardinality(S) + 1
      BY <1>4, <2>1, FS_AddElement
    <2>3. QED BY <1>1, <1>4, <2>2 DEF Ind
  <1>5. QED BY <1>2, <1>3, <1>4

LEMMA CapSets ==
  /\ IsFiniteSet(LiveBookings) /\ IsFiniteSet(Holders)
  /\ IsFiniteSet(LiveBookings') /\ IsFiniteSet(Holders')
  /\ UnitsInUse = Cardinality(LiveBookings) + Cardinality(Holders)
  /\ UnitsInUse' = Cardinality(LiveBookings') + Cardinality(Holders')
  <1>1. /\ LiveBookings \subseteq Bookings /\ Holders \subseteq Workers
        /\ LiveBookings' \subseteq Bookings /\ Holders' \subseteq Workers
    BY DEF LiveBookings, Holders
  <1>2. QED
    BY <1>1, FiniteAssumption, FS_Subset DEF UnitsInUse, LiveBookings, Holders

(* What a worker holds is not free: the cap of release_unit never bites. *)
LEMMA HeldIsNotFree ==
  ASSUME CapInv, TypeOK, NEW w \in Workers, HoldsUnit(w)
  PROVE  avail < Units
  <1>1. Holders # {}
    BY DEF Holders
  <1>2. Cardinality(Holders) \in Nat \ {0} /\ Cardinality(LiveBookings) \in Nat
    BY <1>1, CapSets, FS_CardinalityType, FS_EmptySet
  <1>3. QED BY <1>2, CapSets, SizeAssumption DEF CapInv, NeverOversold, TypeOK

LEMMA SumKept ==
  ASSUME NEW a \in Int, NEW L \in Int, NEW H \in Int, NEW l \in Int, NEW h \in Int,
         NEW x \in Int, NEW M \in Int, NEW J \in Int, NEW m \in Int, NEW j \in Int,
         M + l = L + m, J + h = H + j, x + m + j = a + l + h
  PROVE  x + (M + J) = a + (L + H)
  OBVIOUS

(* A step of worker w that changes at most the row of booking c and loses no *)
(* unit: what it frees, what booking c holds and what w holds add up to what *)
(* they did.                                                                 *)
LEMMA CapMove ==
  ASSUME CapInv, TypeOK, TypeOK', NEW w, NEW c,
         LiveBookings' \ {c} = LiveBookings \ {c}, Holders' \ {w} = Holders \ {w},
         avail' + Ind(c \in LiveBookings') + Ind(w \in Holders')
           = avail + Ind(c \in LiveBookings) + Ind(w \in Holders),
         count'.crashes = count.crashes
  PROVE  CapInv'
  <1>1. /\ Cardinality(LiveBookings) \in Int /\ Cardinality(LiveBookings') \in Int
        /\ Cardinality(Holders) \in Int /\ Cardinality(Holders') \in Int
        /\ Cardinality(LiveBookings') + Ind(c \in LiveBookings)
             = Cardinality(LiveBookings) + Ind(c \in LiveBookings')
        /\ Cardinality(Holders') + Ind(w \in Holders) = Cardinality(Holders) + Ind(w \in Holders')
    BY CapSets, OneMore
  <1>2. avail \in Int /\ avail' \in Int
    BY DEF TypeOK
  <1>3. /\ Ind(c \in LiveBookings) \in Int /\ Ind(c \in LiveBookings') \in Int
        /\ Ind(w \in Holders) \in Int /\ Ind(w \in Holders') \in Int
    BY DEF Ind
  <1>4. avail' + (Cardinality(LiveBookings') + Cardinality(Holders'))
          = avail + (Cardinality(LiveBookings) + Cardinality(Holders))
    <2>1. PICK l \in Int, m \in Int, h \in Int, j \in Int :
            /\ l = Ind(c \in LiveBookings) /\ m = Ind(c \in LiveBookings')
            /\ h = Ind(w \in Holders) /\ j = Ind(w \in Holders')
      BY <1>3, Zenon
    <2>2. PICK L \in Int, M \in Int, H \in Int, J \in Int :
            /\ L = Cardinality(LiveBookings) /\ M = Cardinality(LiveBookings')
            /\ H = Cardinality(Holders) /\ J = Cardinality(Holders')
      BY <1>1, Zenon
    <2>3. PICK a \in Int, x \in Int : a = avail /\ x = avail'
      BY <1>2, Zenon
    <2>4. M + l = L + m /\ J + h = H + j /\ x + m + j = a + l + h
      BY <1>1, <2>1, <2>2, <2>3, Zenon
    <2>5. x + (M + J) = a + (L + H)
      BY <2>4, SumKept
    <2>6. QED BY <2>2, <2>3, <2>5, Zenon
  <1>5. avail' + UnitsInUse' = avail + UnitsInUse
    BY <1>4, CapSets
  <1>6. (NeverOversold => NeverOversold') /\ (NoUnitLost => NoUnitLost')
    BY <1>5 DEF NeverOversold, NoUnitLost
  <1>7. QED BY <1>6 DEF CapInv

(* A worker's step that leaves the bookings alone. *)
LEMMA CapWorker ==
  ASSUME CapInv, TypeOK, TypeOK', NEW w \in Workers, Others(w), booking' = booking,
         avail' + Ind(HoldsUnit(w)') = avail + Ind(HoldsUnit(w)), count' = count
  PROVE  CapInv'
  <1>1. LiveBookings' = LiveBookings
    BY DEF LiveBookings, Unsettled
  <1>2. Holders' \ {w} = Holders \ {w}
    BY DEF Holders, HoldsUnit, Others
  <1>3. Ind(w \in Holders) = Ind(HoldsUnit(w)) /\ Ind(w \in Holders') = Ind(HoldsUnit(w)')
    BY DEF Holders, Ind
  <1>4. Ind(w \in LiveBookings') = Ind(w \in LiveBookings)
    BY <1>1
  <1>5. /\ avail \in Int /\ avail' \in Int /\ Ind(w \in LiveBookings) \in Int
        /\ Ind(HoldsUnit(w)) \in Int /\ Ind(HoldsUnit(w)') \in Int
    BY DEF TypeOK, Ind
  <1>6. avail' + Ind(w \in LiveBookings') + Ind(w \in Holders')
          = avail + Ind(w \in LiveBookings) + Ind(w \in Holders)
    BY <1>3, <1>4, <1>5
  <1>7. QED BY <1>1, <1>2, <1>6, CapMove

(* A step that changes nothing CapInv speaks of. *)
LEMMA CapStutter ==
  ASSUME CapInv, TypeOK, TypeOK', UNCHANGED <<booking, avail, pc>>,
         count'.crashes = count.crashes
  PROVE  CapInv'
  BY DEF CapInv, NeverOversold, NoUnitLost, UnitsInUse, Unsettled, HoldsUnit

(* Which labels hold a unit. *)
Holding == {"book_unreserve", "book_insert", "book_comp", "stop_pay", "stop_post", "rel_read",
            "rel_pay", "unit", "ref_read", "ref_write", "ref_org", "ref_org_unit"}

LEMMA HoldingLabels ==
  \A w \in Workers : (HoldsUnit(w) <=> pc[w] \in Holding) /\ (HoldsUnit(w)' <=> pc'[w] \in Holding)
  BY DEF HoldsUnit, Holding

(* A step between two labels of which both hold a unit or neither does. *)
LEMMA CapKeeps ==
  ASSUME CapInv, TypeOK, TypeOK', NEW w \in Workers, Others(w), booking' = booking,
         avail' = avail, count'.crashes = count.crashes, pc'[w] \in Holding <=> pc[w] \in Holding
  PROVE  CapInv'
  <1>1. LiveBookings' = LiveBookings
    BY DEF LiveBookings, Unsettled
  <1>2. Holders' = Holders
    BY HoldingLabels DEF Holders, HoldsUnit, Others
  <1>3. QED BY <1>1, <1>2, CapSets DEF CapInv, NeverOversold, NoUnitLost

(* A handler returns the unit it held. *)
LEMMA CapReturns ==
  ASSUME CapInv, TypeOK, TypeOK', NEW w \in Workers, Others(w), booking' = booking,
         IncUnit, count' = count, pc[w] \in Holding, pc'[w] \notin Holding
  PROVE  CapInv'
  <1>1. HoldsUnit(w) /\ ~HoldsUnit(w)'
    BY HoldingLabels
  <1>2. avail < Units
    BY <1>1, HeldIsNotFree
  <1>3. avail' = avail + 1 /\ avail \in Int
    BY <1>2 DEF IncUnit, TypeOK
  <1>4. avail' + Ind(HoldsUnit(w)') = avail + Ind(HoldsUnit(w))
    BY <1>1, <1>3 DEF Ind
  <1>5. QED BY <1>4, CapWorker

(* A unit goes from a booking to the handler that settled it, or from the    *)
(* handler that reserved it to its booking.                                  *)
LEMMA CapHandsOver ==
  ASSUME CapInv, TypeOK, TypeOK', NEW w \in Workers, NEW c \in Bookings, Others(w),
         \A b \in Bookings \ {c} : booking'[b] = booking[b], avail' = avail, count' = count,
         \/ Unsettled(c) /\ ~Unsettled(c)' /\ pc[w] \notin Holding /\ pc'[w] \in Holding
         \/ ~Unsettled(c) /\ Unsettled(c)' /\ pc[w] \in Holding /\ pc'[w] \notin Holding
  PROVE  CapInv'
  <1>1. LiveBookings' \ {c} = LiveBookings \ {c}
    BY DEF LiveBookings, Unsettled
  <1>2. Holders' \ {w} = Holders \ {w}
    BY DEF Holders, HoldsUnit, Others
  <1>3. /\ w \in Holders <=> pc[w] \in Holding
        /\ w \in Holders' <=> pc'[w] \in Holding
        /\ c \in LiveBookings <=> Unsettled(c)
        /\ c \in LiveBookings' <=> Unsettled(c)'
    BY HoldingLabels DEF Holders, LiveBookings
  <1>4. avail \in Int
    BY DEF TypeOK
  <1>5. avail' + Ind(c \in LiveBookings') + Ind(w \in Holders')
          = avail + Ind(c \in LiveBookings) + Ind(w \in Holders)
    BY <1>3, <1>4 DEF Ind
  <1>6. QED BY <1>1, <1>2, <1>5, CapMove

(* A booking that stays live, or stays out of the escrow. *)
LEMMA CapSameLive ==
  ASSUME CapInv, TypeOK, TypeOK', NEW w \in Workers, NEW c \in Bookings, Others(w),
         \A b \in Bookings \ {c} : booking'[b] = booking[b], avail' = avail, count' = count,
         Unsettled(c)' <=> Unsettled(c), pc'[w] \in Holding <=> pc[w] \in Holding
  PROVE  CapInv'
  <1>1. LiveBookings' = LiveBookings
    BY DEF LiveBookings, Unsettled
  <1>2. Holders' = Holders
    BY HoldingLabels DEF Holders, HoldsUnit, Others
  <1>3. QED BY <1>1, <1>2, CapSets DEF CapInv, NeverOversold, NoUnitLost

(* Of the control operators, those that neither take nor give up a unit. *)
LEMMA CapBegin ==
  ASSUME CapInv, TypeOK, TypeOK', NEW w \in Workers, NEW op, NEW to, NEW b, NEW h, NEW s,
         Begin(w, op, to, b, h, s), to \notin Holding, booking' = booking, avail' = avail,
         count'.crashes = count.crashes
  PROVE  CapInv'
  BY BeginMoves, CapKeeps DEF Holding

LEMMA CapFinish ==
  ASSUME CapInv, TypeOK, TypeOK', NEW w \in Workers, NEW from, Finish(w, from),
         from \notin Holding, booking' = booking, avail' = avail, count' = count
  PROVE  CapInv'
  BY FinishMoves, CapKeeps DEF Holding

LEMMA CapGoto ==
  ASSUME CapInv, TypeOK, TypeOK', NEW w \in Workers, NEW from, NEW to, Goto(w, from, to),
         from \in Holding <=> to \in Holding, booking' = booking, avail' = avail, count' = count
  PROVE  CapInv'
  BY GotoMoves, CapKeeps

LEMMA CapGotoWith ==
  ASSUME CapInv, TypeOK, TypeOK', NEW w \in Workers, NEW from, NEW to, NEW h, NEW s, NEW r,
         GotoWith(w, from, to, h, s, r),
         from \in Holding <=> to \in Holding, booking' = booking, avail' = avail, count' = count
  PROVE  CapInv'
  BY GotoWithMoves, CapKeeps

LEMMA CapArrive ==
  ASSUME CapInv, TypeOK, TypeOK', NEW w \in Workers, Arrive(w)
  PROVE  CapInv'
  <1>1. PICK op, to, b, h, s :
          /\ Begin(w, op, to, b, h, s)
          /\ to \in {"book_debit", "ext_grow", "stop_settle", "rel_cas", "ref_cas", "topup"}
    BY DEF Arrive, BookLoad, ExtendDebit, StopVM, AcceptRead, ResultRead, ExpireRead, ReapRead,
           TopupRead
  <1>2. booking' = booking /\ avail' = avail
    BY DEF Arrive, BookLoad, ExtendDebit, StopVM, AcceptRead, ResultRead, ExpireRead, ReapRead,
           TopupRead
  <1>3. count' = count \/ count' = [count EXCEPT !.topups = @ + 1]
    BY DEF Arrive, BookLoad, ExtendDebit, StopVM, AcceptRead, ResultRead, ExpireRead, ReapRead,
           TopupRead, envVars
  <1>4. count'.crashes = count.crashes
    BY <1>3 DEF TypeOK, Counts
  <1>5. to \notin Holding
    BY <1>1 DEF Holding
  <1>6. QED BY <1>1, <1>2, <1>4, <1>5, CapBegin

LEMMA CapBookStep ==
  ASSUME CapInv, PaymentInv, TypeOK', NEW w \in Workers, BookStep(w)
  PROVE  CapInv'
  <1> DEFINE b == req[w].bk
  <1>a. TypeOK /\ RequestOK(w)
    BY DEF PaymentInv
  <1>1. CASE BookRefused(w) \/ BookGiveBack(w) \/ LaunchVM(w)
    BY <1>1, <1>a, CapFinish DEF BookRefused, BookGiveBack, LaunchVM, envVars, Holding
  <1>2. CASE BookDebit(w)
    <2>1. Others(w) /\ pc[w] = "book_debit" /\ pc'[w] \in {"book_insert", "book_unreserve"}
      BY <1>2, <1>a, GotoMoves, GotoWithMoves DEF BookDebit
    <2>2. avail' = avail - 1 /\ avail \in Int /\ booking' = booking /\ count' = count
      BY <1>2, <1>a DEF BookDebit, TypeOK, envVars
    <2>3. ~HoldsUnit(w) /\ HoldsUnit(w)'
      BY <2>1 DEF HoldsUnit
    <2>4. avail' + Ind(HoldsUnit(w)') = avail + Ind(HoldsUnit(w))
      BY <2>2, <2>3 DEF Ind
    <2>5. QED BY <1>a, <2>1, <2>2, <2>4, CapWorker
  <1>3. CASE BookUnreserve(w)
    <2>1. Others(w) /\ pc[w] = "book_unreserve" /\ pc'[w] = "idle"
      BY <1>3, <1>a, FinishMoves DEF BookUnreserve
    <2>2. QED BY <1>3, <1>a, <2>1, CapReturns DEF BookUnreserve, envVars, Holding
  <1>4. CASE BookInsert(w)
    <2>1. CASE booking' = booking /\ Goto(w, "book_insert", "book_comp")
      BY <1>4, <1>a, <2>1, CapGoto DEF BookInsert, envVars, Holding
    <2>2. CASE /\ booking' = [booking EXCEPT ![b] = [status |-> "escrowed", hours |-> req[w].hrs]]
               /\ Goto(w, "book_insert", "book_post")
      <3>1. Others(w) /\ pc[w] = "book_insert" /\ pc'[w] = "book_post"
        BY <2>2, <1>a, GotoMoves
      <3>2. booking[b].status = "none" /\ b \in Bookings
        BY <3>1, <1>a DEF RequestOK, PreInsert, TypeOK
      <3>3. booking'[b].status = "escrowed" /\ \A c \in Bookings \ {b} : booking'[c] = booking[c]
        BY <2>2, <3>2, <1>a DEF TypeOK
      <3>4. pc[w] \in Holding /\ pc'[w] \notin Holding
        BY <3>1 DEF Holding
      <3>5. PICK c \in Bookings : c = b
        BY <3>2
      <3>6. ~Unsettled(c) /\ Unsettled(c)'
        BY <3>2, <3>3, <3>5 DEF Unsettled, Live
      <3>7. avail' = avail /\ count' = count
        BY <1>4 DEF BookInsert, envVars
      <3>8. QED BY <1>a, <3>1, <3>3, <3>4, <3>5, <3>6, <3>7, CapHandsOver
    <2>3. QED BY <1>4, <2>1, <2>2 DEF BookInsert
  <1>5. CASE BookCompUnit(w)
    <2>1. Others(w) /\ pc[w] = "book_comp" /\ pc'[w] = "book_giveback"
      BY <1>5, <1>a, GotoMoves DEF BookCompUnit
    <2>2. QED BY <1>5, <1>a, <2>1, CapReturns DEF BookCompUnit, envVars, Holding
  <1>6. CASE BookPost(w)
    BY <1>6, <1>a, CapGoto, CapFinish DEF BookPost, envVars, Holding
  <1>7. QED BY <1>1, <1>2, <1>3, <1>4, <1>5, <1>6 DEF BookStep

(* The worker that wins a settlement takes over the unit of its booking. *)
LEMMA CapWon ==
  ASSUME CapInv, TypeOK, TypeOK', NEW w \in Workers, Others(w), req[w].bk \in Bookings,
         Unsettled(req[w].bk), NEW st \in Terminal,
         booking' = [booking EXCEPT ![req[w].bk].status = st],
         avail' = avail, count' = count, pc[w] \notin Holding, pc'[w] \in Holding
  PROVE  CapInv'
  <1>1. PICK c \in Bookings : c = req[w].bk
    OBVIOUS
  <1>2. booking'[c].status = st /\ \A b \in Bookings \ {c} : booking'[b] = booking[b]
    BY <1>1 DEF TypeOK, BookingRow
  <1>3. Unsettled(c) /\ ~Unsettled(c)'
    BY <1>1, <1>2 DEF Unsettled, Live, Terminal
  <1>4. QED BY <1>2, <1>3, CapHandsOver

LEMMA CapExtendStep ==
  ASSUME CapInv, TypeOK, TypeOK', NEW w \in Workers, ExtendStep(w)
  PROVE  CapInv'
  <1> DEFINE b == req[w].bk
  <1>1. CASE ExtendGiveBack(w) \/ ExtendPost(w) \/ ExtendWindow(w)
    BY <1>1, CapFinish, CapGoto DEF ExtendGiveBack, ExtendPost, ExtendWindow, envVars, Holding
  <1>2. CASE ExtendGrow(w)
    <2>1. Others(w) /\ pc[w] = "ext_grow" /\ pc'[w] \in {"ext_post", "ext_giveback"}
      BY <1>2, GotoMoves DEF ExtendGrow
    <2>2. PICK c \in Bookings : c = b
      BY <2>1 DEF TypeOK
    <2>3. /\ booking'[c].status = booking[c].status
          /\ \A d \in Bookings \ {c} : booking'[d] = booking[d]
      BY <1>2, <2>2 DEF ExtendGrow, TypeOK, BookingRow
    <2>4. Unsettled(c)' <=> Unsettled(c)
      BY <2>3 DEF Unsettled
    <2>5. QED BY <1>2, <2>1, <2>3, <2>4, CapSameLive DEF ExtendGrow, envVars, Holding
  <1>3. QED BY <1>1, <1>2 DEF ExtendStep

LEMMA CapStopStep ==
  ASSUME CapInv, TypeOK, TypeOK', NEW w \in Workers, StopStep(w)
  PROVE  CapInv'
  <1>1. CASE StopSettle(w)
    <2>1. CASE Finish(w, "stop_settle") /\ booking' = booking
      BY <1>1, <2>1, CapFinish DEF StopSettle, envVars, Holding
    <2>2. CASE /\ Unsettled(req[w].bk)
               /\ booking' = [booking EXCEPT ![req[w].bk].status = "released"]
               /\ Goto(w, "stop_settle", "stop_pay")
      <3>1. Others(w) /\ pc[w] = "stop_settle" /\ pc'[w] = "stop_pay" /\ req[w].bk \in Bookings
        BY <2>2, GotoMoves DEF TypeOK
      <3>2. QED BY <1>1, <2>2, <3>1, CapWon DEF StopSettle, envVars, Holding, Terminal
    <2>3. QED BY <1>1, <2>1, <2>2 DEF StopSettle
  <1>2. CASE StopPay(w) \/ StopPost(w)
    BY <1>2, CapGoto DEF StopPay, StopPost, envVars, Holding
  <1>3. QED BY <1>1, <1>2 DEF StopStep

LEMMA CapReleaseStep ==
  ASSUME CapInv, TypeOK, TypeOK', NEW w \in Workers, ReleaseStep(w)
  PROVE  CapInv'
  <1>1. CASE ReleaseCas(w)
    <2>1. CASE booking' = booking /\ (Goto(w, "rel_cas", "exp_stop") \/ Finish(w, "rel_cas"))
      BY <1>1, <2>1, CapFinish, CapGoto DEF ReleaseCas, envVars, Holding
    <2>2. ASSUME Unsettled(req[w].bk), NEW row,
                 booking' = [booking EXCEPT ![req[w].bk].status = "released"],
                 GotoWith(w, "rel_cas", "rel_read", row, 0, 0)
          PROVE  CapInv'
      <3>1. Others(w) /\ pc[w] = "rel_cas" /\ pc'[w] = "rel_read" /\ req[w].bk \in Bookings
        BY <2>2, GotoWithMoves DEF TypeOK
      <3>2. QED BY <1>1, <2>2, <3>1, CapWon DEF ReleaseCas, envVars, Holding, Terminal
    <2>3. QED BY <1>1, <2>1, <2>2 DEF ReleaseCas
  <1>2. CASE ReleaseRead(w) \/ ReleasePay(w) \/ ExpireStop(w)
    BY <1>2, CapGoto, CapGotoWith, CapFinish
    DEF ReleaseRead, ReleasePay, ExpireStop, envVars, Holding
  <1>3. CASE ReleaseUnit(w)
    <2>1. Others(w) /\ pc[w] = "unit" /\ pc'[w] \in {"exp_stop", "idle"}
      BY <1>3, GotoMoves, FinishMoves DEF ReleaseUnit
    <2>2. QED BY <1>3, <2>1, CapReturns DEF ReleaseUnit, envVars, Holding
  <1>4. QED BY <1>1, <1>2, <1>3 DEF ReleaseStep

LEMMA CapRefundStep ==
  ASSUME CapInv, TypeOK, TypeOK', NEW w \in Workers, RefundStep(w)
  PROVE  CapInv'
  <1>1. CASE RefundCas(w)
    <2>1. CASE Finish(w, "ref_cas") /\ booking' = booking
      BY <1>1, <2>1, CapFinish DEF RefundCas, envVars, Holding
    <2>2. ASSUME Unsettled(req[w].bk), NEW to \in {"ref_org", "ref_read"},
                 booking' = [booking EXCEPT ![req[w].bk].status = "refunded"],
                 Goto(w, "ref_cas", to)
          PROVE  CapInv'
      <3>1. Others(w) /\ pc[w] = "ref_cas" /\ pc'[w] = to /\ req[w].bk \in Bookings
        BY <2>2, GotoMoves DEF TypeOK
      <3>2. QED BY <1>1, <2>2, <3>1, CapWon DEF RefundCas, envVars, Holding, Terminal
    <2>3. QED BY <1>1, <2>1, <2>2 DEF RefundCas
  <1>2. CASE RefundRead(w) \/ RefundPost(w) \/ RefundOrg(w)
    BY <1>2, CapGoto, CapGotoWith, CapFinish DEF RefundRead, RefundPost, RefundOrg, envVars, Holding
  <1>3. CASE RefundWrite(w)
    <2>1. Others(w) /\ pc[w] = "ref_write" /\ pc'[w] = "ref_post"
      BY <1>3, GotoMoves DEF RefundWrite
    <2>2. QED BY <1>3, <2>1, CapReturns DEF RefundWrite, envVars, Holding
  <1>4. CASE RefundOrgUnit(w)
    <2>1. Others(w) /\ pc[w] = "ref_org_unit" /\ pc'[w] = "idle"
      BY <1>4, FinishMoves DEF RefundOrgUnit
    <2>2. QED BY <1>4, <2>1, CapReturns DEF RefundOrgUnit, envVars, Holding
  <1>5. QED BY <1>1, <1>2, <1>3, <1>4 DEF RefundStep

(* A handler that dies takes the unit it held with it. *)
LEMMA CapCrash ==
  ASSUME CapInv, TypeOK, TypeOK', NEW w \in Workers, Crash(w)
  PROVE  CapInv'
  <1>1. LiveBookings' = LiveBookings
    BY DEF Crash, LiveBookings, Unsettled
  <1>2. pc' = [pc EXCEPT ![w] = "idle"] /\ avail' = avail
    BY DEF Crash
  <1>3. Holders' \subseteq Holders
    BY <1>2 DEF TypeOK, Holders, HoldsUnit
  <1>4. Cardinality(Holders') <= Cardinality(Holders)
    BY <1>3, CapSets, FS_Subset
  <1>5. count'.crashes # 0
    <2>1. count'.crashes = count.crashes + 1 /\ count.crashes \in Nat
      BY DEF Crash, TypeOK, Counts
    <2>2. QED BY <2>1
  <1>6. /\ Cardinality(Holders) \in Nat /\ Cardinality(Holders') \in Nat
        /\ Cardinality(LiveBookings) \in Nat /\ avail \in Int /\ Units \in Int
    BY CapSets, FS_CardinalityType, SizeAssumption DEF TypeOK
  <1>7. QED BY <1>1, <1>2, <1>4, <1>5, <1>6, CapSets DEF CapInv, NeverOversold, NoUnitLost

LEMMA CapMarkActive ==
  ASSUME CapInv, TypeOK, TypeOK', NEW c \in Bookings, MarkActive(c)
  PROVE  CapInv'
  <1>1. booking'[c].status = "active" /\ booking[c].status = "escrowed"
        /\ \A b \in Bookings \ {c} : booking'[b] = booking[b]
    BY DEF MarkActive, TypeOK, BookingRow
  <1>2. LiveBookings' = LiveBookings
    BY <1>1 DEF LiveBookings, Unsettled, Live
  <1>3. Holders' = Holders /\ avail' = avail /\ count' = count
    BY DEF MarkActive, Holders, HoldsUnit, envVars
  <1>4. QED BY <1>2, <1>3, CapSets DEF CapInv, NeverOversold, NoUnitLost

LEMMA CapInvInductive == PaymentInv /\ CapInv /\ [Next]_vars => CapInv'
  <1> SUFFICES ASSUME PaymentInv, CapInv, [Next]_vars PROVE CapInv'
    OBVIOUS
  <1>a. TypeOK
    BY DEF PaymentInv
  <1>b. TypeOK'
    BY <1>a, TypeInductive
  <1>1. ASSUME NEW w \in Workers, TopupWrite(w) PROVE CapInv'
    BY <1>1, <1>a, <1>b, CapFinish DEF TopupWrite, envVars, Holding
  <1>2. CASE SetPaused \/ Tick \/ UNCHANGED vars
    <2>1. count' = count \/ count' = [count EXCEPT !.pauses = @ + 1]
      BY <1>2 DEF SetPaused, Tick, vars
    <2>2. count'.crashes = count.crashes
      BY <2>1, <1>a DEF TypeOK, Counts
    <2>3. QED BY <1>2, <1>a, <1>b, <2>2, CapStutter DEF SetPaused, Tick, vars
  <1>3. QED
    BY <1>a, <1>b, <1>1, <1>2, CapArrive, CapBookStep, CapExtendStep, CapStopStep,
       CapReleaseStep, CapRefundStep, CapCrash, CapMarkActive
    DEF Next, Continue

LEMMA CapInvInit == Init => CapInv
  <1> SUFFICES ASSUME Init PROVE CapInv
    OBVIOUS
  <1>1. LiveBookings = {} /\ Holders = {}
    BY DEF Init, LiveBookings, Holders, Unsettled, Live, HoldsUnit
  <1>2. UnitsInUse = 0
    BY <1>1, CapSets, FS_EmptySet
  <1>3. QED BY <1>2, SizeAssumption DEF Init, CapInv, NeverOversold, NoUnitLost

(* The host's units are counted for exactly, as long as no handler died.    *)
THEOREM CapInvHolds == Spec => []CapInv
  BY CapInvInit, CapInvInductive, PaymentInvHolds, PTL DEF Spec

(* Capacity is never sold twice: for any number of units, bookings and      *)
(* workers, any interleaving of booking, settlement, refund and             *)
(* compensation, and with handlers dying between any two of their commits.  *)
THEOREM NeverOversoldHolds == Spec => []NeverOversold
  <1>1. CapInv => NeverOversold
    BY DEF CapInv
  <1>2. QED BY <1>1, CapInvHolds, PTL

(* As long as no handler dies, every unit is free, in a live booking, or in *)
(* the hands of the handler that will free it.                              *)
THEOREM NoUnitLostHolds == Spec => []NoUnitLost
  <1>1. CapInv => NoUnitLost
    BY DEF CapInv
  <1>2. QED BY <1>1, CapInvHolds, PTL

-----------------------------------------------------------------------------
(* RentalEscrow implements Settlement: every step of a handler, under the   *)
(* refinement mapping Contract, is a step of the abstract settlement of one *)
(* booking or changes no booking's contract.  The steps are grouped by what *)
(* they change: no contract, a booking's row under a guard on its status,   *)
(* or the entries that leave its escrow account.                            *)

Mapped == [b \in Bookings |-> ContractOf(b)]
Simulates == [Contract!Next]_Mapped

(* A step that keeps every row and what has left every escrow account. *)
LEMMA Stutters ==
  ASSUME \A b \in Bookings : ContractOf(b)' = ContractOf(b)
  PROVE  Simulates
  BY DEF Simulates, Mapped

LEMMA KeptContracts ==
  ASSUME \A b \in Bookings : booking'[b] = booking[b] /\ SameOut(b)
  PROVE  Simulates
  BY Stutters DEF ContractOf, StateOf, SameOut

(* A step of one booking's contract. *)
LEMMA OneContract ==
  ASSUME NEW c \in Bookings, Contract!Step(ContractOf(c), ContractOf(c)'),
         \A b \in Bookings \ {c} : ContractOf(b)' = ContractOf(b)
  PROVE  Simulates
  <1> DEFINE old == [b \in Bookings |-> ContractOf(b)]
             new == [b \in Bookings |-> ContractOf(b)']
  <1>1. old[c] = ContractOf(c) /\ new[c] = ContractOf(c)' /\ DOMAIN new = Bookings
    OBVIOUS
  <1>2. \A b \in Bookings \ {c} : new[b] = old[b]
    OBVIOUS
  <1>3. Contract!Step(old[c], new[c])
    BY <1>1
  <1>4. Contract!Next
    BY <1>1, <1>2, <1>3 DEF Contract!Next
  <1>5. QED BY <1>4 DEF Simulates

(* A row that is rewritten while nothing leaves the escrow account: the     *)
(* insert, the extension and the settlement of a booking.                   *)
LEMMA RowContract ==
  ASSUME TypeOK, TypeOK', NEW c \in Bookings, legs' = legs,
         \A b \in Bookings \ {c} : booking'[b] = booking[b],
         \/ StateOf(c) = "none" /\ NoneOut(c) /\ StateOf(c)' = "open"
         \/ StateOf(c) = "open" /\ StateOf(c)' = "open" /\ booking'[c].hours >= booking[c].hours
         \/ /\ StateOf(c) = "open" /\ StateOf(c)' \in {"released", "refunded"}
            /\ booking'[c].hours = booking[c].hours
  PROVE  Simulates
  <1> DEFINE old == ContractOf(c)
             new == ContractOf(c)'
  <1>1. \A b \in Bookings \ {c} : ContractOf(b)' = ContractOf(b)
    BY DEF ContractOf, StateOf
  <1>2. old = [state |-> StateOf(c), hours |-> booking[c].hours, seller |-> legs[c].seller,
               platform |-> legs[c].platform, back |-> legs[c].back]
    BY DEF ContractOf
  <1>3. new = [state |-> StateOf(c)', hours |-> booking'[c].hours, seller |-> legs[c].seller,
               platform |-> legs[c].platform, back |-> legs[c].back]
    BY DEF ContractOf
  <1>4. booking[c].hours \in Nat /\ booking'[c].hours \in Nat
    BY BookingFields DEF TypeOK
  <1> HIDE DEF old, new
  <1>5. ASSUME StateOf(c) = "none", NoneOut(c), StateOf(c)' = "open" PROVE Contract!Step(old, new)
    <2>1. new = [state |-> "open", hours |-> new.hours, seller |-> 0, platform |-> 0, back |-> 0]
      BY <1>3, <1>5 DEF NoneOut
    <2>2. Contract!Open(old, new)
      BY <1>2, <1>3, <1>4, <1>5, <2>1 DEF Contract!Open
    <2>3. QED BY <2>2 DEF Contract!Step
  <1>6. ASSUME StateOf(c) = "open", StateOf(c)' = "open", booking'[c].hours >= booking[c].hours
        PROVE  Contract!Step(old, new)
    <2>1. new = [old EXCEPT !.hours = new.hours]
      BY <1>2, <1>3, <1>6
    <2>2. Contract!Extend(old, new)
      BY <1>2, <1>3, <1>4, <1>6, <2>1 DEF Contract!Extend
    <2>3. QED BY <2>2 DEF Contract!Step
  <1>7. ASSUME StateOf(c) = "open", StateOf(c)' \in {"released", "refunded"},
               booking'[c].hours = booking[c].hours
        PROVE  Contract!Step(old, new)
    <2>1. new = [old EXCEPT !.state = StateOf(c)']
      BY <1>2, <1>3, <1>7
    <2>2. Contract!Settle(old, new)
      BY <1>2, <1>7, <2>1 DEF Contract!Settle
    <2>3. QED BY <2>2 DEF Contract!Step
  <1>8. Contract!Step(old, new)
    BY <1>5, <1>6, <1>7
  <1>9. QED BY <1>1, <1>8, OneContract DEF old, new

(* The posting that drains the escrow account of a settled booking. *)
LEMMA PaidContract ==
  ASSUME TypeOK, TypeOK', NEW c \in Bookings, booking' = booking, NoneOut(c),
         NEW s \in Int, NEW p \in Int, NEW r \in Int, PostOut(c, s, p, r),
         NEW u \in Nat,
         \/ /\ booking[c].status = "released" /\ (u <= booking[c].hours \/ u = 1)
            /\ s = Payout(u) /\ p = FeeOf(u) /\ r \in {0, Gross(booking[c].hours) - Gross(u)}
         \/ /\ booking[c].status = "refunded" /\ u <= booking[c].hours
            /\ s = 0 /\ p = 0 /\ r = Gross(u)
  PROVE  Simulates
  <1> DEFINE old == ContractOf(c)
             new == ContractOf(c)'
             h == booking[c].hours
  <1>1. legs'[c].seller = s /\ legs'[c].platform = p /\ legs'[c].back = r
        /\ \A b \in Bookings \ {c} : legs'[b] = legs[b]
    BY DEF TypeOK, PostOut, NoneOut
  <1>2. \A b \in Bookings \ {c} : ContractOf(b)' = ContractOf(b)
    BY <1>1 DEF ContractOf, StateOf
  <1>3. h \in Nat /\ StateOf(c) = booking[c].status
    BY BookingFields DEF TypeOK, StateOf, Live
  <1>4. old = [state |-> booking[c].status, hours |-> h, seller |-> 0, platform |-> 0, back |-> 0]
    BY <1>3 DEF ContractOf, NoneOut
  <1>5. new = [state |-> booking[c].status, hours |-> h, seller |-> s, platform |-> p, back |-> r]
    BY <1>1, <1>3 DEF ContractOf, StateOf
  <1>6. /\ Payout(u) = (Rate - Fee) * u /\ FeeOf(u) = Fee * u /\ Gross(u) = Rate * u
        /\ Gross(h) - Gross(u) = Rate * (h - u)
    BY <1>3, MoneyAssumption DEF Payout, FeeOf, Gross
  <1> HIDE DEF old, new, h
  <1>7. ASSUME booking[c].status = "released" PROVE Contract!Step(old, new)
    <2>1. u \in (0 .. h) \cup {1} /\ r \in {0, Rate * (h - u)} /\ s = (Rate - Fee) * u /\ p = Fee * u
      BY <1>3, <1>6, <1>7 DEF h
    <2>2. old.state = "released" /\ Contract!Unpaid(old) /\ old.hours = h
      BY <1>4, <1>7 DEF Contract!Unpaid
    <2>3. new = Contract!Paid(old, s, p, r)
      BY <1>4, <1>5 DEF Contract!Paid
    <2>4. new = Contract!Paid(old, (Rate - Fee) * u, Fee * u, r)
      BY <2>1, <2>3
    <2>5. Contract!PayOut(old, new)
      BY <2>1, <2>2, <2>4 DEF Contract!PayOut
    <2>6. QED BY <2>5 DEF Contract!Step
  <1>8. ASSUME booking[c].status = "refunded" PROVE Contract!Step(old, new)
    <2>1. u \in 0 .. h /\ r = Rate * u /\ s = 0 /\ p = 0
      BY <1>3, <1>6, <1>8 DEF h
    <2>2. old.state = "refunded" /\ Contract!Unpaid(old) /\ old.hours = h
      BY <1>4, <1>8 DEF Contract!Unpaid
    <2>3. new = Contract!Paid(old, 0, 0, Rate * u)
      BY <1>4, <1>5, <2>1 DEF Contract!Paid
    <2>4. Contract!PayBack(old, new)
      BY <2>1, <2>2, <2>3 DEF Contract!PayBack
    <2>5. QED BY <2>4 DEF Contract!Step
  <1>9. Contract!Step(old, new)
    BY <1>7, <1>8
  <1>10. QED BY <1>2, <1>9, OneContract DEF old, new
-----------------------------------------------------------------------------
(* Every step, by what it changes. *)

(* The settlement of an unsettled booking, by the CAS on its status. *)
LEMMA SettleContract ==
  ASSUME TypeOK, TypeOK', NEW c \in Bookings, Unsettled(c), legs' = legs,
         NEW st \in {"released", "refunded"}, booking' = [booking EXCEPT ![c].status = st]
  PROVE  Simulates
  <1>1. /\ booking'[c].status = st /\ booking'[c].hours = booking[c].hours
        /\ \A b \in Bookings \ {c} : booking'[b] = booking[b]
    BY DEF TypeOK, BookingRow
  <1>2. StateOf(c) = "open" /\ StateOf(c)' = st
    BY <1>1 DEF StateOf, Unsettled, Live
  <1>3. QED BY <1>1, <1>2, RowContract

(* The growth of an escrow, and the insert of a booking. *)
LEMMA GrowContract ==
  ASSUME TypeOK, TypeOK', NEW w \in Workers, ExtendGrow(w), Unsettled(req[w].bk)
  PROVE  Simulates
  <1>1. req[w].bk \in Bookings /\ req[w].hrs \in Nat
    BY RequestFields DEF TypeOK, ExtendGrow
  <1>2. PICK c \in Bookings : c = req[w].bk
    BY <1>1
  <1>3. booking' = [booking EXCEPT ![c].hours = @ + req[w].hrs] /\ legs' = legs
    BY <1>2 DEF ExtendGrow, ledgerVars
  <1>4. booking[c].hours \in Nat
    BY BookingFields DEF TypeOK
  <1>5. /\ booking'[c].status = booking[c].status
        /\ booking'[c].hours = booking[c].hours + req[w].hrs
        /\ \A b \in Bookings \ {c} : booking'[b] = booking[b]
    BY <1>3 DEF TypeOK, BookingRow
  <1>6. StateOf(c) = "open" /\ StateOf(c)' = "open"
    BY <1>2, <1>5 DEF StateOf, Unsettled
  <1>7. booking'[c].hours >= booking[c].hours
    BY <1>1, <1>4, <1>5
  <1>8. QED BY <1>3, <1>5, <1>6, <1>7, RowContract

LEMMA InsertContract ==
  ASSUME PaymentInv, TypeOK', NEW w \in Workers, BookInsert(w), booking' # booking
  PROVE  Simulates
  <1>1. TypeOK /\ RequestOK(w) /\ pc[w] \in PreInsert /\ legs' = legs
    BY DEF PaymentInv, BookInsert, PreInsert, ledgerVars
  <1>2. PICK c \in Bookings : c = req[w].bk
    BY <1>1 DEF TypeOK, PreInsert
  <1>3. booking[c].status = "none"
    BY <1>1, <1>2 DEF RequestOK
  <1>4. NoneOut(c)
    BY <1>3 DEF PaymentInv, Terminal
  <1>5. booking' = [booking EXCEPT ![c] = [status |-> "escrowed", hours |-> req[w].hrs]]
    BY <1>2 DEF BookInsert
  <1>6. /\ booking'[c].status = "escrowed"
        /\ \A b \in Bookings \ {c} : booking'[b] = booking[b]
    BY <1>1, <1>5 DEF TypeOK
  <1>7. StateOf(c) = "none" /\ StateOf(c)' = "open"
    BY <1>3, <1>6 DEF StateOf, Live
  <1>8. QED BY <1>1, <1>4, <1>6, <1>7, RowContract

(* The first task of a booking keeps it open. *)
LEMMA ActiveContract ==
  ASSUME TypeOK, NEW c \in Bookings, MarkActive(c)
  PROVE  Simulates
  <1>1. legs' = legs /\ booking[c].status = "escrowed"
        /\ booking' = [booking EXCEPT ![c].status = "active"]
    BY DEF MarkActive, ledgerVars
  <1>2. /\ booking'[c].status = "active" /\ booking'[c].hours = booking[c].hours
        /\ \A b \in Bookings \ {c} : booking'[b] = booking[b]
    BY <1>1 DEF TypeOK, BookingRow
  <1>3. \A b \in Bookings : StateOf(b)' = StateOf(b) /\ booking'[b].hours = booking[b].hours
    BY <1>1, <1>2 DEF StateOf, Live
  <1>4. QED BY <1>1, <1>3, Stutters DEF ContractOf

(* The metered settlement's posting, with the hours the stop measured. *)
LEMMA MeteredContract ==
  ASSUME PaymentInv, TypeOK', NEW w \in Workers, pc[w] \in {"stop_pay", "stop_post"},
         PostMetered(w), booking' = booking
  PROVE  Simulates
  <1> DEFINE b == req[w].bk
             h == booking[b].hours
             u == Used(req[w].seen, h)
             refund == Gross(h) - Gross(u)
  <1>1. b \in Bookings /\ booking[b].status = "released" /\ NoneOut(b) /\ TypeOK
    BY DEF PaymentInv, TypeOK, RequestOK, Releasing
  <1>2. req[w].seen \in Int /\ h \in Nat
    BY <1>1, RequestFields, BookingFields DEF TypeOK
  <1>3. u \in Nat /\ (u <= h \/ u = 1)
    BY <1>2 DEF Used
  <1> HIDE DEF u
  <1>4. Payout(u) \in Int /\ FeeOf(u) \in Int /\ refund \in Int
    BY <1>2, <1>3, SplitExact
  <1>5. PostOut(b, Payout(u), FeeOf(u), refund)
    BY DEF PostMetered, u
  <1> HIDE DEF b, h, refund
  <1>6. booking[b].hours = h /\ refund = Gross(booking[b].hours) - Gross(u)
    BY DEF b, h, refund
  <1>7. QED BY <1>1, <1>3, <1>4, <1>5, <1>6, PaidContract

(* The posting of a release, for the hours of the row its handler kept. *)
LEMMA ReleaseContract ==
  ASSUME PaymentInv, TypeOK', NEW w \in Workers, ReleasePay(w)
  PROVE  Simulates
  <1> DEFINE b == req[w].bk
             h == req[w].hrs
  <1>1. pc[w] = "rel_pay" /\ PostOut(b, Payout(h), FeeOf(h), 0) /\ booking' = booking
    BY DEF ReleasePay, Goto
  <1>2. /\ b \in Bookings /\ booking[b].status = "released" /\ NoneOut(b)
        /\ h <= booking[b].hours /\ TypeOK
    BY <1>1 DEF PaymentInv, TypeOK, RequestOK, Releasing
  <1>3. h \in Nat
    BY <1>2, RequestFields DEF TypeOK
  <1>4. Payout(h) \in Int /\ FeeOf(h) \in Int /\ 0 \in Int
    BY <1>3, SplitExact
  <1> HIDE DEF b, h
  <1>5. QED BY <1>1, <1>2, <1>3, <1>4, PaidContract

(* The posting of a refund. *)
LEMMA RefundContract ==
  ASSUME PaymentInv, TypeOK', NEW w \in Workers, RefundPost(w)
  PROVE  Simulates
  <1> DEFINE b == req[w].bk
             h == req[w].hrs
  <1>1. pc[w] = "ref_post" /\ PostOut(b, 0, 0, Gross(h)) /\ booking' = booking
    BY DEF RefundPost, Finish
  <1>2. /\ b \in Bookings /\ booking[b].status = "refunded" /\ NoneOut(b)
        /\ h <= booking[b].hours /\ TypeOK
    BY <1>1 DEF PaymentInv, TypeOK, RequestOK, Refunding
  <1>3. h \in Nat
    BY <1>2, RequestFields DEF TypeOK
  <1>4. Gross(h) \in Int /\ 0 \in Int
    BY <1>3, SplitExact
  <1> HIDE DEF b, h
  <1>5. QED BY <1>1, <1>2, <1>3, <1>4, PaidContract

(* A posting to the escrow account, or none. *)
LEMMA KeptStep ==
  ASSUME TypeOK, booking' = booking, NEW b, NEW m, PostHold(b, m) \/ UNCHANGED legs
  PROVE  Simulates
  BY UntouchedHold, KeptContracts DEF Untouched

(* A step of a handler takes one booking through one step of the abstract   *)
(* settlement, or none through any.                                         *)
LEMMA SimulatesStep == PaymentInv /\ TypeOK' /\ [Next]_vars => Simulates
  <1> SUFFICES ASSUME PaymentInv, TypeOK', [Next]_vars PROVE Simulates
    OBVIOUS
  <1>a. TypeOK /\ \A w \in Workers : RequestOK(w)
    BY DEF PaymentInv
  <1>1. ASSUME booking' = booking, legs' = legs PROVE Simulates
    BY <1>1, KeptContracts DEF SameOut
  <1>2. ASSUME NEW w \in Workers, Arrive(w) \/ TopupWrite(w) \/ Crash(w) PROVE Simulates
    BY <1>1, <1>2 DEF Arrive, BookLoad, ExtendDebit, StopVM, AcceptRead, ResultRead, ExpireRead,
                      ReapRead, TopupRead, TopupWrite, Crash, ledgerVars
  <1>3. ASSUME NEW w \in Workers, BookStep(w) PROVE Simulates
    <2>1. CASE BookInsert(w) /\ booking' # booking
      BY <2>1, InsertContract
    <2>2. CASE BookPost(w)
      BY <2>2, <1>a, KeptStep DEF BookPost
    <2>3. CASE ~BookPost(w) /\ ~(BookInsert(w) /\ booking' # booking)
      BY <1>1, <1>3, <2>3 DEF BookStep, BookInsert, BookRefused, BookDebit, BookUnreserve,
                              BookCompUnit, BookGiveBack, LaunchVM, ledgerVars
    <2>4. QED BY <2>1, <2>2, <2>3
  <1>4. ASSUME NEW w \in Workers, ExtendStep(w) PROVE Simulates
    <2>1. CASE ExtendGrow(w) /\ Unsettled(req[w].bk)
      BY <2>1, <1>a, GrowContract
    <2>2. CASE ExtendPost(w)
      BY <2>2, <1>a, KeptStep DEF ExtendPost
    <2>3. CASE ~ExtendPost(w) /\ ~(ExtendGrow(w) /\ Unsettled(req[w].bk))
      BY <1>1, <1>4, <2>3 DEF ExtendStep, ExtendGrow, ExtendGiveBack, ExtendWindow, ledgerVars
    <2>4. QED BY <2>1, <2>2, <2>3
  <1>5. ASSUME NEW w \in Workers, pc[w] # "idle", Unsettled(req[w].bk), legs' = legs,
               NEW st \in {"released", "refunded"},
               booking' = [booking EXCEPT ![req[w].bk].status = st]
        PROVE  Simulates
    BY <1>5, <1>a, SettleContract DEF TypeOK
  <1>6. ASSUME NEW w \in Workers, StopStep(w) PROVE Simulates
    <2>1. CASE StopSettle(w)
      BY <1>1, <1>5, <2>1 DEF StopSettle, ledgerVars
    <2>2. CASE StopPay(w)
      <3>1. CASE UNCHANGED legs
        BY <1>1, <2>2, <3>1 DEF StopPay
      <3>2. CASE ~UNCHANGED legs
        <4>1. pc[w] \in {"stop_pay", "stop_post"} /\ PostMetered(w) /\ booking' = booking
          BY <2>2, <3>2 DEF StopPay
        <4>2. QED BY <4>1, MeteredContract
      <3>3. QED BY <3>1, <3>2
    <2>3. CASE StopPost(w)
      BY <2>3, MeteredContract DEF StopPost, Goto
    <2>4. QED BY <1>6, <2>1, <2>2, <2>3 DEF StopStep
  <1>7. ASSUME NEW w \in Workers, ReleaseStep(w) PROVE Simulates
    <2>1. CASE ReleaseCas(w)
      BY <1>1, <1>5, <2>1 DEF ReleaseCas, ledgerVars
    <2>2. CASE ReleasePay(w)
      BY <2>2, ReleaseContract
    <2>3. CASE ~ReleaseCas(w) /\ ~ReleasePay(w)
      BY <1>1, <1>7, <2>3 DEF ReleaseStep, ReleaseRead, ReleaseUnit, ExpireStop, ledgerVars
    <2>4. QED BY <2>1, <2>2, <2>3
  <1>8. ASSUME NEW w \in Workers, RefundStep(w) PROVE Simulates
    <2>1. CASE RefundCas(w)
      BY <1>1, <1>5, <2>1 DEF RefundCas, ledgerVars
    <2>2. CASE RefundPost(w)
      BY <2>2, RefundContract
    <2>3. CASE ~RefundCas(w) /\ ~RefundPost(w)
      BY <1>1, <1>8, <2>3 DEF RefundStep, RefundRead, RefundWrite, RefundOrg, RefundOrgUnit,
                              ledgerVars
    <2>4. QED BY <2>1, <2>2, <2>3
  <1>9. ASSUME NEW b \in Bookings, MarkActive(b) PROVE Simulates
    BY <1>9, <1>a, ActiveContract
  <1>10. CASE SetPaused \/ Tick \/ UNCHANGED vars
    BY <1>1, <1>10 DEF SetPaused, Tick, vars, ledgerVars
  <1>11. QED
    BY <1>2, <1>3, <1>4, <1>6, <1>7, <1>8, <1>9, <1>10 DEF Next, Continue

LEMMA MappedInit == Init => Contract!Init
  BY DEF Init, Contract!Init, Contract!Unmade, ContractOf, StateOf, Live, NoLegs

(* The refinement: every behaviour of the rentals, for every number of      *)
(* threads, bookings and deaths of handlers, is a behaviour of the abstract *)
(* settlement: each booking is made, extended while open, settled once, and *)
(* paid out once in the proportions of its price.                           *)
THEOREM SettlementRefined == Spec => ImplementsSettlement
  <1>1. PaymentInv /\ TypeOK' /\ [Next]_vars => [Contract!Next]_[b \in Bookings |-> ContractOf(b)]
    BY SimulatesStep DEF Simulates, Mapped
  <1>2. QED
    BY <1>1, MappedInit, PaymentInvHolds, TypeCorrect, PTL
    DEF Spec, ImplementsSettlement, Contract!Spec

-----------------------------------------------------------------------------
(* Escrow accounts.  Between a booking's row and its escrow account stands   *)
(* what handlers have still to post: Unposted(b) is that of each worker.     *)
(* A settled booking is paid out in full, or its settlement has an owner.    *)
(* The handlers that settle a booking for the hours they read earlier are    *)
(* left out: the buyer's acceptance and the refund (v_stale_accept).         *)

SettlesFresh == Handlers \cap {"accept", "reap"} = {} /\ MaxCrashes = 0

Posting == {"book_post", "ext_post"}
Unposted(b) ==
  [w \in Workers |-> IF pc[w] \in Posting /\ req[w].bk = b THEN Gross(req[w].hrs) ELSE 0]
Settling(w, b) == pc[w] \in Releasing /\ req[w].bk = b
FreshOK(w) ==
  /\ req[w].op # "accept" /\ pc[w] \notin Refunding \cup {"ref_cas"}
  /\ pc[w] \in {"rel_read", "rel_pay"} => req[w].hrs = booking[req[w].bk].hours
EscrowOK(b) ==
  /\ booking[b].status = "none" => booking[b].hours = 0
  /\ legs[b].hold + SumFunctionOnSet(Unposted(b), Workers) = Gross(booking[b].hours)
  /\ booking[b].status \in Terminal =>
       Out(b) = Gross(booking[b].hours) \/ \E w \in Workers : Settling(w, b)
EscrowInv == /\ \A w \in Workers : FreshOK(w)
             /\ \A b \in Bookings : EscrowOK(b)

(* One worker's summand changes. *)
LEMMA WorkersSum ==
  ASSUME NEW w \in Workers, NEW f, NEW g, \A v \in Workers : f[v] \in Int /\ g[v] \in Int,
         \A v \in Workers \ {w} : g[v] = f[v]
  PROVE  /\ SumFunctionOnSet(f, Workers) \in Int /\ SumFunctionOnSet(g, Workers) \in Int
         /\ SumFunctionOnSet(g, Workers) = SumFunctionOnSet(f, Workers) + (g[w] - f[w])
  BY FiniteAssumption, SumType, SumChange

LEMMA UnpostedType ==
  ASSUME TypeOK, NEW b \in Bookings
  PROVE  /\ \A w \in Workers : Unposted(b)[w] \in Int
         /\ SumFunctionOnSet(Unposted(b), Workers) \in Int
  <1>1. \A w \in Workers : Unposted(b)[w] \in Int
    BY RequestValues DEF Unposted
  <1>2. QED BY <1>1, FiniteAssumption, SumType

LEMMA UnpostedMove ==
  ASSUME TypeOK, TypeOK', NEW w \in Workers, Others(w), NEW b \in Bookings
  PROVE  SumFunctionOnSet(Unposted(b)', Workers)
           = SumFunctionOnSet(Unposted(b), Workers) + (Unposted(b)'[w] - Unposted(b)[w])
  <1>1. \A v \in Workers : Unposted(b)[v] \in Int
    BY UnpostedType
  <1>2. \A v \in Workers : Unposted(b)'[v] \in Int
    <2>1. \A v \in Workers : req'[v].hrs \in Nat
      BY RequestFields DEF TypeOK
    <2>2. \A v \in Workers : Gross(req'[v].hrs) \in Int
      BY <2>1, AmountOf
    <2>3. QED BY <2>2 DEF Unposted
  <1>3. \A v \in Workers \ {w} : Unposted(b)'[v] = Unposted(b)[v]
    BY DEF Unposted, Others
  <1>4. QED BY <1>1, <1>2, <1>3, WorkersSum

(* What a worker that is not posting owes: nothing. *)
LEMMA UnpostedOf ==
  ASSUME NEW w \in Workers, NEW b
  PROVE  /\ Unposted(b)[w]
              = IF pc[w] \in Posting /\ req[w].bk = b THEN Gross(req[w].hrs) ELSE 0
         /\ Unposted(b)'[w]
              = IF pc'[w] \in Posting /\ req'[w].bk = b THEN Gross(req'[w].hrs) ELSE 0
  BY DEF Unposted

(* A step of one worker on one booking. *)
LEMMA EscrowMove ==
  ASSUME EscrowInv, PaymentInv, TypeOK', Frozen, NEW w \in Workers, Others(w), NEW c \in Bookings,
         \A b \in Bookings \ {c} : booking'[b] = booking[b] /\ legs'[b] = legs[b],
         pc[w] \in Posting \cup Releasing => req[w].bk = c,
         pc'[w] \in Posting \cup Releasing => req'[w].bk = c,
         FreshOK(w)',
         booking'[c].status = "none" => booking'[c].hours = 0,
         legs'[c].hold + Unposted(c)'[w] + Gross(booking[c].hours)
           = legs[c].hold + Unposted(c)[w] + Gross(booking'[c].hours),
         booking'[c].status \in Terminal =>
           \/ Out(c)' = Gross(booking'[c].hours) \/ pc'[w] \in Releasing
           \/ booking[c].status \in Terminal /\ Out(c)' = Out(c) /\ pc[w] \notin Releasing
  PROVE  EscrowInv'
  <1>0. TypeOK /\ \A v \in Workers : RequestOK(v)
    BY DEF PaymentInv
  <1>1. ASSUME NEW v \in Workers \ {w} PROVE FreshOK(v)'
    <2>1. FreshOK(v) /\ pc'[v] = pc[v] /\ req'[v] = req[v]
      BY DEF EscrowInv, Others
    <2>2. pc[v] \in {"rel_read", "rel_pay"} =>
            req[v].bk \in Bookings /\ booking[req[v].bk].status = "released"
      BY <1>0 DEF RequestOK, Releasing, TypeOK
    <2>3. pc[v] \in {"rel_read", "rel_pay"} => booking'[req[v].bk] = booking[req[v].bk]
      BY <2>2 DEF Frozen, Terminal
    <2>4. QED BY <2>1, <2>3 DEF FreshOK
  <1>2. ASSUME NEW b \in Bookings \ {c} PROVE EscrowOK(b)'
    <2>1. EscrowOK(b) /\ booking'[b] = booking[b] /\ legs'[b] = legs[b]
      BY DEF EscrowInv
    <2>2. Unposted(b)'[w] = 0 /\ Unposted(b)[w] = 0
      BY UnpostedOf
    <2>3. SumFunctionOnSet(Unposted(b)', Workers) = SumFunctionOnSet(Unposted(b), Workers)
      BY <1>0, <2>2, UnpostedMove, UnpostedType
    <2>4. Out(b)' = Out(b)
      BY <2>1 DEF Out
    <2>5. ASSUME NEW v \in Workers, Settling(v, b) PROVE Settling(v, b)'
      BY <2>5 DEF Settling, Others
    <2>6. QED BY <2>1, <2>3, <2>4, <2>5 DEF EscrowOK
  <1>3. EscrowOK(c)'
    <2>1. EscrowOK(c)
      BY DEF EscrowInv
    <2>2. /\ legs[c].hold \in Int /\ legs'[c].hold \in Int
          /\ Gross(booking[c].hours) \in Int /\ Gross(booking'[c].hours) \in Int
          /\ Unposted(c)[w] \in Int /\ SumFunctionOnSet(Unposted(c), Workers) \in Int
      BY <1>0, LegFields, BookingFields, AmountOf, UnpostedType DEF TypeOK
    <2>3. Unposted(c)'[w] \in Int
      <3>1. req'[w].hrs \in Nat
        BY RequestFields DEF TypeOK
      <3>2. QED BY <3>1, AmountOf, UnpostedOf
    <2>4. SumFunctionOnSet(Unposted(c)', Workers)
            = SumFunctionOnSet(Unposted(c), Workers) + (Unposted(c)'[w] - Unposted(c)[w])
      BY <1>0, UnpostedMove
    <2>5. legs[c].hold + SumFunctionOnSet(Unposted(c), Workers) = Gross(booking[c].hours)
      BY <2>1 DEF EscrowOK
    <2>6. legs'[c].hold + SumFunctionOnSet(Unposted(c)', Workers) = Gross(booking'[c].hours)
      <3>1. PICK h \in Int, k \in Int, s \in Int, t \in Int, u \in Int, x \in Int, g \in Int, j \in Int :
              /\ h = legs[c].hold /\ k = legs'[c].hold /\ s = SumFunctionOnSet(Unposted(c), Workers)
              /\ t = SumFunctionOnSet(Unposted(c)', Workers) /\ u = Unposted(c)[w]
              /\ x = Unposted(c)'[w] /\ g = Gross(booking[c].hours) /\ j = Gross(booking'[c].hours)
        <4>1. SumFunctionOnSet(Unposted(c)', Workers) \in Int
          BY <2>2, <2>3, <2>4
        <4>2. QED BY <2>2, <2>3, <4>1, Zenon
      <3>2. t = s + (x - u) /\ h + s = g /\ k + x + g = h + u + j
        BY <2>4, <2>5, <3>1, Zenon
      <3>3. k + t = j
        BY <3>2
      <3>4. QED BY <3>1, <3>3
    <2>7. booking'[c].status \in Terminal =>
            Out(c)' = Gross(booking'[c].hours) \/ \E v \in Workers : Settling(v, c)'
      <3>1. SUFFICES ASSUME booking[c].status \in Terminal, Out(c)' = Out(c), pc[w] \notin Releasing
                     PROVE  \/ Out(c)' = Gross(booking'[c].hours)
                            \/ \E v \in Workers : Settling(v, c)'
        BY DEF Settling
      <3>2. booking'[c] = booking[c]
        BY <3>1 DEF Frozen
      <3>3. ASSUME NEW v \in Workers, Settling(v, c) PROVE Settling(v, c)'
        BY <3>1, <3>3 DEF Settling, Others
      <3>4. QED BY <2>1, <3>1, <3>2, <3>3 DEF EscrowOK
    <2>8. QED BY <2>6, <2>7 DEF EscrowOK
  <1>4. QED BY <1>1, <1>2, <1>3 DEF EscrowInv

(* The three kinds of step.  Most leave every row and every entry alone.    *)
LEMMA EscrowQuiet ==
  ASSUME EscrowInv, PaymentInv, TypeOK', Frozen, NEW w \in Workers, Others(w), NEW c \in Bookings,
         \A b \in Bookings : booking'[b] = booking[b] /\ legs'[b] = legs[b],
         pc[w] \notin Posting, pc'[w] \notin Posting,
         pc[w] \in Releasing => req[w].bk = c /\ pc'[w] \in Releasing,
         pc'[w] \in Releasing => req'[w].bk = c,
         FreshOK(w)'
  PROVE  EscrowInv'
  <1>1. Unposted(c)[w] = 0 /\ Unposted(c)'[w] = 0
    BY UnpostedOf
  <1>2. Out(c)' = Out(c)
    BY DEF Out
  <1>3. EscrowOK(c)
    BY DEF EscrowInv
  <1>4. booking'[c].status = "none" => booking'[c].hours = 0
    BY <1>3 DEF EscrowOK
  <1>5. legs'[c].hold + Unposted(c)'[w] + Gross(booking[c].hours)
           = legs[c].hold + Unposted(c)[w] + Gross(booking'[c].hours)
    BY <1>1
  <1>6. booking'[c].status \in Terminal =>
           \/ Out(c)' = Gross(booking'[c].hours) \/ pc'[w] \in Releasing
           \/ booking[c].status \in Terminal /\ Out(c)' = Out(c) /\ pc[w] \notin Releasing
    BY <1>2
  <1>7. QED BY <1>4, <1>5, <1>6, EscrowMove

(* The labels none of the escrow's accounts is about. *)
Plain(l) == l \notin Posting \cup Releasing \cup Refunding \cup {"ref_cas"}

LEMMA PlainNames ==
  /\ Plain("idle") /\ Plain("book_debit") /\ Plain("book_unreserve") /\ Plain("book_insert")
  /\ Plain("book_comp") /\ Plain("book_giveback") /\ Plain("launch") /\ Plain("ext_grow")
  /\ Plain("ext_giveback") /\ Plain("ext_window") /\ Plain("stop_settle") /\ Plain("rel_cas")
  /\ Plain("unit") /\ Plain("exp_stop") /\ Plain("topup")
  BY DEF Plain, Posting, Releasing, Refunding

LEMMA PlainFresh ==
  ASSUME NEW w \in Workers, Plain(pc'[w]), req'[w].op # "accept"
  PROVE  FreshOK(w)'
  BY DEF Plain, FreshOK, Posting, Releasing, Refunding

LEMMA EscrowPlain ==
  ASSUME EscrowInv, PaymentInv, TypeOK', Frozen, NEW w \in Workers, Others(w), NEW c \in Bookings,
         booking' = booking, legs' = legs, Plain(pc[w]), Plain(pc'[w]), req'[w].op # "accept"
  PROVE  EscrowInv'
  <1>1. FreshOK(w)'
    BY PlainFresh
  <1>2. pc[w] \notin Posting \cup Releasing /\ pc'[w] \notin Posting \cup Releasing
    BY DEF Plain
  <1>3. QED BY <1>1, <1>2, EscrowQuiet

LEMMA EscrowFinish ==
  ASSUME EscrowInv, PaymentInv, TypeOK', Frozen, NEW w \in Workers, NEW from,
         Finish(w, from), Plain(from), from # "idle", booking' = booking, legs' = legs
  PROVE  EscrowInv'
  <1>1. TypeOK
    BY DEF PaymentInv
  <1>2. Others(w) /\ pc[w] = from /\ pc'[w] = "idle" /\ req'[w] = NoRequest
    BY <1>1, FinishMoves
  <1>3. req[w].bk \in Bookings
    BY <1>1, <1>2 DEF TypeOK
  <1>4. req'[w].op # "accept"
    BY <1>2 DEF NoRequest
  <1>5. QED BY <1>2, <1>3, <1>4, EscrowPlain, PlainNames

LEMMA EscrowGoto ==
  ASSUME EscrowInv, PaymentInv, TypeOK', Frozen, NEW w \in Workers, NEW from, NEW to,
         Goto(w, from, to), Plain(from), from # "idle", Plain(to), booking' = booking, legs' = legs
  PROVE  EscrowInv'
  <1>1. TypeOK
    BY DEF PaymentInv
  <1>2. Others(w) /\ pc[w] = from /\ pc'[w] = to /\ req'[w] = req[w]
    BY <1>1, GotoMoves
  <1>3. req[w].bk \in Bookings
    BY <1>1, <1>2 DEF TypeOK
  <1>4. req'[w].op # "accept"
    BY <1>2 DEF EscrowInv, FreshOK
  <1>5. QED BY <1>2, <1>3, <1>4, EscrowPlain

LEMMA EscrowBegin ==
  ASSUME EscrowInv, PaymentInv, TypeOK', Frozen, NEW w \in Workers, NEW op, NEW to,
         NEW b \in Bookings, NEW h, NEW s, Begin(w, op, to, b, h, s),
         Plain(to), op # "accept", booking' = booking, legs' = legs
  PROVE  EscrowInv'
  <1>1. TypeOK
    BY DEF PaymentInv
  <1>2. Others(w) /\ pc[w] = "idle" /\ pc'[w] = to /\ req'[w].op = op
    BY <1>1, BeginMoves
  <1>3. QED BY <1>2, EscrowPlain, PlainNames

LEMMA EscrowArrive ==
  ASSUME SettlesFresh, EscrowInv, PaymentInv, TypeOK', Frozen, NEW w \in Workers, Arrive(w)
  PROVE  EscrowInv'
  <1>0. PICK b \in Bookings :
          \/ \E h \in Hours : BookLoad(w, b, h)
          \/ \E h \in Hours : ExtendDebit(w, b, h)
          \/ StopVM(w, b) \/ AcceptRead(w, b) \/ ResultRead(w, b)
          \/ ExpireRead(w, b) \/ ReapRead(w, b) \/ TopupRead(w, b)
    BY DEF Arrive
  <1>u. booking' = booking /\ legs' = legs
    BY <1>0 DEF BookLoad, ExtendDebit, StopVM, AcceptRead, ResultRead, ExpireRead, ReapRead,
                TopupRead, ledgerVars
  <1>1. CASE \E h \in Hours : BookLoad(w, b, h)
    <2>1. PICK h, s : Begin(w, "book", "book_debit", b, h, s)
      BY <1>1 DEF BookLoad
    <2>2. QED BY <1>u, <2>1, EscrowBegin, PlainNames
  <1>2. CASE \E h \in Hours : ExtendDebit(w, b, h)
    <2>1. PICK h, s : Begin(w, "extend", "ext_grow", b, h, s)
      BY <1>2 DEF ExtendDebit
    <2>2. QED BY <1>u, <2>1, EscrowBegin, PlainNames
  <1>3. CASE StopVM(w, b)
    <2>1. PICK h, s : Begin(w, "stop", "stop_settle", b, h, s)
      BY <1>3 DEF StopVM
    <2>2. QED BY <1>u, <2>1, EscrowBegin, PlainNames
  <1>4. CASE AcceptRead(w, b) \/ ReapRead(w, b)
    BY <1>4 DEF AcceptRead, ReapRead, Begin, SettlesFresh
  <1>5. CASE ResultRead(w, b)
    <2>1. PICK h, s : Begin(w, "result", "rel_cas", b, h, s)
      BY <1>5 DEF ResultRead
    <2>2. QED BY <1>u, <2>1, EscrowBegin, PlainNames
  <1>6. CASE ExpireRead(w, b)
    <2>1. PICK h, s : Begin(w, "expire", "rel_cas", b, h, s)
      BY <1>6 DEF ExpireRead
    <2>2. QED BY <1>u, <2>1, EscrowBegin, PlainNames
  <1>7. CASE TopupRead(w, b)
    <2>1. PICK h, s : Begin(w, "topup", "topup", b, h, s)
      BY <1>7 DEF TopupRead
    <2>2. QED BY <1>u, <2>1, EscrowBegin, PlainNames
  <1>8. QED BY <1>0, <1>1, <1>2, <1>3, <1>4, <1>5, <1>6, <1>7

(* A posting's credit to the escrow account pays what was charged before. *)
LEMMA EscrowPosts ==
  ASSUME EscrowInv, PaymentInv, TypeOK', Frozen, NEW w \in Workers, NEW to, Plain(to),
         Others(w), pc[w] \in Posting, pc'[w] = to, req'[w].op # "accept",
         PostHold(req[w].bk, Gross(req[w].hrs)), booking' = booking
  PROVE  EscrowInv'
  <1>0. TypeOK /\ req[w].bk \in Bookings
    BY DEF PaymentInv, TypeOK, Posting
  <1>c. PICK c \in Bookings : c = req[w].bk
    BY <1>0
  <1>1. TypeOK /\ PostHold(c, Gross(req[w].hrs))
    BY <1>0, <1>c
  <1>2. \A b \in Bookings \ {c} : legs'[b] = legs[b]
    BY <1>1 DEF PostHold, TypeOK
  <1>3. legs[c].hold \in Int /\ Gross(req[w].hrs) \in Int /\ Gross(booking[c].hours) \in Int
    BY <1>1, LegFields, BookingFields, AmountOf, RequestValues DEF TypeOK
  <1>4. legs'[c].hold = legs[c].hold + Gross(req[w].hrs) /\ Out(c)' = Out(c)
    <2>1. SameOut(c)
      BY <1>1, UntouchedHold DEF Untouched
    <2>2. legs[c] \in EscrowLegs /\ legs'[c] = [legs[c] EXCEPT !.hold = @ + Gross(req[w].hrs)]
      BY <1>1 DEF PostHold, TypeOK
    <2>3. legs'[c].hold = legs[c].hold + Gross(req[w].hrs)
      BY <2>2 DEF EscrowLegs
    <2>4. QED BY <2>1, <2>3 DEF SameOut, Out
  <1>5. Unposted(c)[w] = Gross(req[w].hrs)
    BY <1>c, UnpostedOf
  <1>6. Unposted(c)'[w] = 0
    BY UnpostedOf DEF Plain
  <1>7. legs'[c].hold + Unposted(c)'[w] + Gross(booking[c].hours)
           = legs[c].hold + Unposted(c)[w] + Gross(booking'[c].hours)
    BY <1>3, <1>4, <1>5, <1>6
  <1>8. FreshOK(w)' /\ pc'[w] \notin Posting \cup Releasing /\ pc[w] \notin Releasing
    BY PlainFresh DEF Plain, Posting, Releasing
  <1>9. booking'[c].status = "none" => booking'[c].hours = 0
    BY <1>1 DEF EscrowInv, EscrowOK
  <1>10. /\ pc[w] \in Posting \cup Releasing => req[w].bk = c
         /\ \A b \in Bookings \ {c} : booking'[b] = booking[b] /\ legs'[b] = legs[b]
    BY <1>2, <1>c
  <1>11. booking'[c].status \in Terminal =>
           booking[c].status \in Terminal /\ Out(c)' = Out(c) /\ pc[w] \notin Releasing
    BY <1>4, <1>8
  <1>12. QED BY <1>1, <1>7, <1>8, <1>9, <1>10, <1>11, EscrowMove

LEMMA EscrowBookStep ==
  ASSUME EscrowInv, PaymentInv, TypeOK', Frozen, NEW w \in Workers, BookStep(w)
  PROVE  EscrowInv'
  <1>0. TypeOK /\ RequestOK(w) /\ FreshOK(w)
    BY DEF PaymentInv, EscrowInv
  <1>1. CASE BookRefused(w)
    <2>1. Finish(w, "book_debit") /\ booking' = booking /\ legs' = legs
      BY <1>1 DEF BookRefused, ledgerVars
    <2>2. QED BY <2>1, EscrowFinish, PlainNames
  <1>2. CASE BookDebit(w)
    <2>1. pc[w] = "book_debit" /\ booking' = booking /\ legs' = legs
      BY <1>2 DEF BookDebit, ledgerVars
    <2>2. CASE Goto(w, "book_debit", "book_unreserve")
      BY <2>1, <2>2, EscrowGoto, PlainNames
    <2>3. ASSUME NEW h, NEW s, GotoWith(w, "book_debit", "book_insert", h, s, 0) PROVE EscrowInv'
      <3>1. Others(w) /\ pc'[w] = "book_insert" /\ req'[w].op = req[w].op
        BY <1>0, <2>3, GotoWithMoves
      <3>2. req'[w].op # "accept" /\ req[w].bk \in Bookings
        BY <1>0, <2>1, <3>1 DEF FreshOK, TypeOK
      <3>3. QED BY <2>1, <3>1, <3>2, EscrowPlain, PlainNames
    <2>4. QED BY <1>2, <2>2, <2>3 DEF BookDebit
  <1>3. CASE BookUnreserve(w)
    <2>1. Finish(w, "book_unreserve") /\ booking' = booking /\ legs' = legs
      BY <1>3 DEF BookUnreserve, ledgerVars
    <2>2. QED BY <2>1, EscrowFinish, PlainNames
  <1>4. CASE BookInsert(w)
    <2>1. legs' = legs /\ pc[w] = "book_insert"
      BY <1>4 DEF BookInsert, ledgerVars
    <2>2. CASE booking' = booking /\ Goto(w, "book_insert", "book_comp")
      BY <2>1, <2>2, EscrowGoto, PlainNames
    <2>3. CASE /\ booking' = [booking EXCEPT ![req[w].bk] = [status |-> "escrowed", hours |-> req[w].hrs]]
               /\ Goto(w, "book_insert", "book_post")
      <3>0. PICK c \in Bookings : c = req[w].bk
        BY <1>0, <2>1 DEF TypeOK
      <3>1. c \in Bookings /\ booking[c].status = "none" /\ booking[c].hours = 0
        BY <1>0, <2>1, <3>0 DEF TypeOK, RequestOK, PreInsert, EscrowInv, EscrowOK
      <3>2. Others(w) /\ pc'[w] = "book_post" /\ req'[w] = req[w]
        BY <1>0, <2>3, GotoMoves
      <3>3. /\ booking'[c].status = "escrowed" /\ booking'[c].hours = req[w].hrs
            /\ \A b \in Bookings \ {c} : booking'[b] = booking[b] /\ legs'[b] = legs[b]
        BY <1>0, <2>1, <2>3, <3>0 DEF TypeOK
      <3>4. Unposted(c)[w] = 0
        BY <2>1, UnpostedOf DEF Posting
      <3>5. Unposted(c)'[w] = Gross(req[w].hrs)
        BY <3>0, <3>2, UnpostedOf DEF Posting
      <3>6. legs[c].hold \in Int /\ Gross(req[w].hrs) \in Int /\ Gross(booking[c].hours) = 0
        BY <1>0, <3>1, LegFields, RequestValues, MoneyAssumption DEF TypeOK, Gross
      <3>7. legs'[c].hold + Unposted(c)'[w] + Gross(booking[c].hours)
               = legs[c].hold + Unposted(c)[w] + Gross(booking'[c].hours)
        BY <2>1, <3>3, <3>4, <3>5, <3>6
      <3>8. FreshOK(w)'
        BY <1>0, <3>2 DEF FreshOK, Refunding
      <3>9. /\ pc[w] \in Posting \cup Releasing => req[w].bk = c
            /\ pc'[w] \in Posting \cup Releasing => req'[w].bk = c
            /\ booking'[c].status \notin Terminal \cup {"none"}
        BY <3>0, <3>2, <3>3 DEF Terminal
      <3>10. QED BY <3>1, <3>2, <3>3, <3>7, <3>8, <3>9, EscrowMove
    <2>4. QED BY <1>4, <2>2, <2>3 DEF BookInsert
  <1>5. CASE BookCompUnit(w)
    <2>1. Goto(w, "book_comp", "book_giveback") /\ booking' = booking /\ legs' = legs
      BY <1>5 DEF BookCompUnit, ledgerVars
    <2>2. QED BY <2>1, EscrowGoto, PlainNames
  <1>6. CASE BookGiveBack(w)
    <2>1. Finish(w, "book_giveback") /\ booking' = booking /\ legs' = legs
      BY <1>6 DEF BookGiveBack
    <2>2. QED BY <2>1, EscrowFinish, PlainNames
  <1>7. CASE BookPost(w)
    <2>1. PostHold(req[w].bk, Gross(req[w].hrs)) /\ booking' = booking
      BY <1>7 DEF BookPost
    <2>2. CASE Finish(w, "book_post")
      <3>1. Others(w) /\ pc[w] = "book_post" /\ pc'[w] = "idle" /\ req'[w] = NoRequest
        BY <1>0, <2>2, FinishMoves
      <3>2. req'[w].op # "accept" /\ pc[w] \in Posting
        BY <3>1 DEF NoRequest, Posting
      <3>3. QED BY <2>1, <3>1, <3>2, EscrowPosts, PlainNames
    <2>3. CASE Goto(w, "book_post", "launch")
      <3>1. Others(w) /\ pc[w] = "book_post" /\ pc'[w] = "launch" /\ req'[w] = req[w]
        BY <1>0, <2>3, GotoMoves
      <3>2. req'[w].op # "accept" /\ pc[w] \in Posting
        BY <1>0, <3>1 DEF FreshOK, Posting
      <3>3. QED BY <2>1, <3>1, <3>2, EscrowPosts, PlainNames
    <2>4. QED BY <1>7, <2>2, <2>3 DEF BookPost
  <1>8. CASE LaunchVM(w)
    <2>1. Finish(w, "launch") /\ booking' = booking /\ legs' = legs
      BY <1>8 DEF LaunchVM, ledgerVars
    <2>2. QED BY <2>1, EscrowFinish, PlainNames
  <1>9. QED BY <1>1, <1>2, <1>3, <1>4, <1>5, <1>6, <1>7, <1>8 DEF BookStep

LEMMA EscrowExtendStep ==
  ASSUME EscrowInv, PaymentInv, TypeOK', Frozen, NEW w \in Workers, ExtendStep(w)
  PROVE  EscrowInv'
  <1>0. TypeOK /\ RequestOK(w) /\ FreshOK(w)
    BY DEF PaymentInv, EscrowInv
  <1>1. CASE ExtendGrow(w)
    <2>1. legs' = legs /\ pc[w] = "ext_grow"
      BY <1>1 DEF ExtendGrow, ledgerVars
    <2>2. CASE booking' = booking /\ Goto(w, "ext_grow", "ext_giveback")
      BY <2>1, <2>2, EscrowGoto, PlainNames
    <2>3. CASE /\ Unsettled(req[w].bk)
               /\ booking' = [booking EXCEPT ![req[w].bk].hours = @ + req[w].hrs]
               /\ Goto(w, "ext_grow", "ext_post")
      <3>0. PICK c \in Bookings : c = req[w].bk
        BY <1>0, <2>1 DEF TypeOK
      <3>1. c \in Bookings /\ booking[c].status \in Live
        BY <2>3, <3>0 DEF Unsettled
      <3>2. Others(w) /\ pc'[w] = "ext_post" /\ req'[w] = req[w]
        BY <1>0, <2>3, GotoMoves
      <3>3. booking[c] \in BookingRow /\ booking'[c] = [booking[c] EXCEPT !.hours = @ + req[w].hrs]
        BY <1>0, <2>3, <3>0 DEF TypeOK
      <3>4. /\ booking'[c].status = booking[c].status
            /\ booking'[c].hours = booking[c].hours + req[w].hrs
        BY <3>3 DEF BookingRow
      <3>5. \A b \in Bookings \ {c} : booking'[b] = booking[b] /\ legs'[b] = legs[b]
        BY <1>0, <2>1, <2>3, <3>0 DEF TypeOK
      <3>6. Unposted(c)[w] = 0
        BY <2>1, UnpostedOf DEF Posting
      <3>7. Unposted(c)'[w] = Gross(req[w].hrs)
        BY <3>0, <3>2, UnpostedOf DEF Posting
      <3>8. /\ booking[c].hours \in Nat /\ req[w].hrs \in Nat /\ legs[c].hold \in Int
            /\ Gross(booking[c].hours) \in Int /\ Gross(req[w].hrs) \in Int
        BY <1>0, <3>1, LegFields, BookingFields, RequestValues, AmountOf DEF TypeOK
      <3>9. Gross(booking'[c].hours) = Gross(booking[c].hours) + Gross(req[w].hrs)
        BY <3>4, <3>8, MoneyAssumption DEF Gross
      <3>10. legs'[c].hold + Unposted(c)'[w] + Gross(booking[c].hours)
               = legs[c].hold + Unposted(c)[w] + Gross(booking'[c].hours)
        BY <2>1, <3>6, <3>7, <3>8, <3>9
      <3>11. FreshOK(w)'
        BY <1>0, <3>2 DEF FreshOK, Refunding
      <3>12. /\ pc[w] \in Posting \cup Releasing => req[w].bk = c
             /\ pc'[w] \in Posting \cup Releasing => req'[w].bk = c
             /\ booking'[c].status \notin Terminal \cup {"none"}
        BY <3>0, <3>1, <3>2, <3>4 DEF Terminal, Live
      <3>13. QED BY <3>1, <3>2, <3>5, <3>10, <3>11, <3>12, EscrowMove
    <2>4. QED BY <1>1, <2>2, <2>3 DEF ExtendGrow
  <1>2. CASE ExtendGiveBack(w)
    <2>1. Finish(w, "ext_giveback") /\ booking' = booking /\ legs' = legs
      BY <1>2 DEF ExtendGiveBack, ledgerVars
    <2>2. QED BY <2>1, EscrowFinish, PlainNames
  <1>3. CASE ExtendPost(w)
    <2>1. PostHold(req[w].bk, Gross(req[w].hrs)) /\ booking' = booking /\ Goto(w, "ext_post", "ext_window")
      BY <1>3 DEF ExtendPost
    <2>2. Others(w) /\ pc[w] = "ext_post" /\ pc'[w] = "ext_window" /\ req'[w] = req[w]
      BY <1>0, <2>1, GotoMoves
    <2>3. req'[w].op # "accept" /\ pc[w] \in Posting
      BY <1>0, <2>2 DEF FreshOK, Posting
    <2>4. QED BY <2>1, <2>2, <2>3, EscrowPosts, PlainNames
  <1>4. CASE ExtendWindow(w)
    <2>1. Finish(w, "ext_window") /\ booking' = booking /\ legs' = legs
      BY <1>4 DEF ExtendWindow, ledgerVars
    <2>2. QED BY <2>1, EscrowFinish, PlainNames
  <1>5. QED BY <1>1, <1>2, <1>3, <1>4 DEF ExtendStep

(* A worker wins a settlement, or loses the race for it. *)
LEMMA EscrowWon ==
  ASSUME EscrowInv, PaymentInv, TypeOK', Frozen, NEW w \in Workers, Others(w), NEW c \in Bookings,
         Unsettled(c), booking' = [booking EXCEPT ![c].status = "released"], legs' = legs,
         Plain(pc[w]), pc'[w] \in Releasing, req'[w].bk = c, FreshOK(w)'
  PROVE  EscrowInv'
  <1>1. booking[c] \in BookingRow /\ booking'[c] = [booking[c] EXCEPT !.status = "released"]
        /\ \A b \in Bookings \ {c} : booking'[b] = booking[b]
    BY DEF PaymentInv, TypeOK
  <1>2. booking'[c].hours = booking[c].hours /\ booking'[c].status = "released"
    BY <1>1 DEF BookingRow
  <1>3. pc[w] \notin Posting \cup Releasing /\ pc'[w] \notin Posting
    BY DEF Plain, Posting, Releasing
  <1>4. Unposted(c)[w] = 0 /\ Unposted(c)'[w] = 0
    BY <1>3, UnpostedOf
  <1>5. legs'[c].hold + Unposted(c)'[w] + Gross(booking[c].hours)
           = legs[c].hold + Unposted(c)[w] + Gross(booking'[c].hours)
    BY <1>2, <1>4
  <1>6. QED BY <1>1, <1>2, <1>3, <1>5, EscrowMove

(* The posting that drains an escrow account pays out all of it. *)
LEMMA EscrowDrained ==
  ASSUME EscrowInv, PaymentInv, TypeOK', Frozen, NEW w \in Workers, Others(w), NEW c \in Bookings,
         pc[w] \in Releasing, req[w].bk = c, pc'[w] = "unit", req'[w] = req[w], booking' = booking,
         NEW s \in Int, NEW p \in Int, NEW r \in Int, PostOut(c, s, p, r),
         s + p + r = Gross(booking[c].hours)
  PROVE  EscrowInv'
  <1>1. TypeOK /\ NoneOut(c) /\ req[w].op # "accept"
    BY DEF PaymentInv, RequestOK, EscrowInv, FreshOK
  <1>2. Out(c)' = s + p + r /\ \A b \in Bookings \ {c} : legs'[b] = legs[b]
    BY <1>1, PostOutValue
  <1>3. legs'[c].hold = legs[c].hold
    BY <1>1 DEF PostOut, TypeOK
  <1>4. pc[w] \notin Posting /\ pc'[w] \notin Posting \cup Releasing
    BY DEF Posting, Releasing
  <1>5. Unposted(c)[w] = 0 /\ Unposted(c)'[w] = 0
    BY <1>4, UnpostedOf
  <1>6. legs'[c].hold + Unposted(c)'[w] + Gross(booking[c].hours)
           = legs[c].hold + Unposted(c)[w] + Gross(booking'[c].hours)
    BY <1>3, <1>5
  <1>7. FreshOK(w)'
    BY <1>1, PlainFresh, PlainNames
  <1>8. booking'[c].status = "none" => booking'[c].hours = 0
    BY DEF EscrowInv, EscrowOK
  <1>9. Out(c)' = Gross(booking'[c].hours)
    BY <1>2
  <1>10. QED BY <1>2, <1>4, <1>6, <1>7, <1>8, <1>9, EscrowMove

LEMMA MeteredWhole ==
  ASSUME NEW h \in Nat, NEW u \in Nat
  PROVE  Payout(u) + FeeOf(u) + (Gross(h) - Gross(u)) = Gross(h)
  BY SplitExact, AmountOf

(* A metered settlement's posting returns what the hours used do not take. *)
LEMMA MeteredDrains ==
  ASSUME EscrowInv, PaymentInv, TypeOK', Frozen, NEW w \in Workers,
         pc[w] \in {"stop_pay", "stop_post"}, Goto(w, pc[w], "unit"), PostMetered(w), booking' = booking
  PROVE  EscrowInv'
  <1>0. TypeOK /\ req[w].bk \in Bookings
    BY DEF PaymentInv, TypeOK
  <1>1. Others(w) /\ pc'[w] = "unit" /\ req'[w] = req[w]
    BY <1>0, GotoMoves
  <1>2. PICK c \in Bookings : c = req[w].bk
    BY <1>0
  <1>3. PICK h \in Nat : h = booking[c].hours
    BY <1>0, BookingFields DEF TypeOK
  <1>4. Used(req[w].seen, h) \in Nat
    BY <1>0, UsedType, RequestFields DEF TypeOK
  <1>5. PICK u \in Nat : u = Used(req[w].seen, h)
    BY <1>4
  <1>6. PostOut(c, Payout(u), FeeOf(u), Gross(h) - Gross(u))
    BY <1>2, <1>3, <1>5 DEF PostMetered
  <1>7. Payout(u) \in Int /\ FeeOf(u) \in Int /\ Gross(h) - Gross(u) \in Int
    BY SplitExact
  <1>8. Payout(u) + FeeOf(u) + (Gross(h) - Gross(u)) = Gross(booking[c].hours)
    BY <1>3, MeteredWhole
  <1>9. pc[w] \in Releasing
    BY DEF Releasing
  <1>10. QED BY <1>1, <1>2, <1>6, <1>7, <1>8, <1>9, EscrowDrained

LEMMA EscrowStopStep ==
  ASSUME EscrowInv, PaymentInv, TypeOK', Frozen, NEW w \in Workers, StopStep(w)
  PROVE  EscrowInv'
  <1>0. TypeOK /\ RequestOK(w) /\ FreshOK(w)
    BY DEF PaymentInv, EscrowInv
  <1>1. CASE StopSettle(w)
    <2>1. legs' = legs /\ pc[w] = "stop_settle"
      BY <1>1 DEF StopSettle, ledgerVars
    <2>2. CASE booking' = booking /\ Finish(w, "stop_settle")
      BY <2>1, <2>2, EscrowFinish, PlainNames
    <2>3. CASE /\ Unsettled(req[w].bk)
               /\ booking' = [booking EXCEPT ![req[w].bk].status = "released"]
               /\ Goto(w, "stop_settle", "stop_pay")
      <3>1. PICK c \in Bookings : c = req[w].bk
        BY <1>0, <2>1 DEF TypeOK
      <3>2. Others(w) /\ pc'[w] = "stop_pay" /\ req'[w] = req[w]
        BY <1>0, <2>3, GotoMoves
      <3>3. FreshOK(w)' /\ pc'[w] \in Releasing
        BY <1>0, <3>2 DEF FreshOK, Releasing, Refunding
      <3>4. QED BY <2>1, <2>3, <3>1, <3>2, <3>3, EscrowWon, PlainNames
    <2>4. QED BY <1>1, <2>2, <2>3 DEF StopSettle
  <1>2. CASE StopPay(w)
    <2>1. booking' = booking /\ pc[w] = "stop_pay"
      BY <1>2 DEF StopPay
    <2>2. CASE Goto(w, "stop_pay", "stop_post") /\ legs' = legs
      <3>1. PICK c \in Bookings : c = req[w].bk
        BY <1>0, <2>1 DEF TypeOK
      <3>2. Others(w) /\ pc'[w] = "stop_post" /\ req'[w] = req[w]
        BY <1>0, <2>2, GotoMoves
      <3>3. FreshOK(w)' /\ pc[w] \in Releasing /\ pc'[w] \in Releasing
            /\ pc[w] \notin Posting /\ pc'[w] \notin Posting
        BY <1>0, <2>1, <3>2 DEF FreshOK, Releasing, Refunding, Posting
      <3>4. QED BY <2>1, <2>2, <3>1, <3>2, <3>3, EscrowQuiet
    <2>3. CASE Goto(w, "stop_pay", "unit") /\ PostMetered(w)
      BY <2>1, <2>3, MeteredDrains
    <2>4. QED BY <1>2, <2>2, <2>3 DEF StopPay
  <1>3. CASE StopPost(w)
    <2>1. booking' = booking /\ Goto(w, "stop_post", "unit") /\ PostMetered(w)
      BY <1>3 DEF StopPost
    <2>2. pc[w] = "stop_post"
      BY <2>1 DEF Goto
    <2>3. QED BY <2>1, <2>2, MeteredDrains
  <1>4. QED BY <1>1, <1>2, <1>3 DEF StopStep

LEMMA EscrowReleaseStep ==
  ASSUME EscrowInv, PaymentInv, TypeOK', Frozen, NEW w \in Workers, ReleaseStep(w)
  PROVE  EscrowInv'
  <1>0. TypeOK /\ RequestOK(w) /\ FreshOK(w)
    BY DEF PaymentInv, EscrowInv
  <1>1. CASE ReleaseCas(w)
    <2>1. legs' = legs /\ pc[w] = "rel_cas" /\ req[w].op # "accept"
      BY <1>0, <1>1 DEF ReleaseCas, ledgerVars, FreshOK
    <2>2. CASE booking' = booking /\ (Goto(w, "rel_cas", "exp_stop") \/ Finish(w, "rel_cas"))
      BY <2>1, <2>2, EscrowFinish, EscrowGoto, PlainNames
    <2>3. CASE /\ Unsettled(req[w].bk)
               /\ booking' = [booking EXCEPT ![req[w].bk].status = "released"]
               /\ GotoWith(w, "rel_cas", "rel_read", booking[req[w].bk].hours, 0, 0)
      <3>1. PICK c \in Bookings : c = req[w].bk
        BY <1>0, <2>1 DEF TypeOK
      <3>2. /\ Others(w) /\ pc'[w] = "rel_read" /\ req'[w].op = req[w].op /\ req'[w].bk = c
            /\ req'[w].hrs = booking[c].hours
        BY <1>0, <2>3, <3>1, GotoWithMoves
      <3>3. booking[c] \in BookingRow /\ booking'[c] = [booking[c] EXCEPT !.status = "released"]
        BY <1>0, <2>3, <3>1 DEF TypeOK
      <3>4. booking'[c].hours = booking[c].hours
        BY <3>3 DEF BookingRow
      <3>5. FreshOK(w)' /\ pc'[w] \in Releasing
        BY <2>1, <3>2, <3>4 DEF FreshOK, Releasing, Refunding
      <3>6. QED BY <2>1, <2>3, <3>1, <3>2, <3>5, EscrowWon, PlainNames
    <2>4. QED BY <1>1, <2>1, <2>2, <2>3 DEF ReleaseCas
  <1>2. CASE ReleaseRead(w)
    <2>1. booking' = booking /\ legs' = legs
          /\ GotoWith(w, "rel_read", "rel_pay", req[w].hrs, earnings, revenue)
      BY <1>2 DEF ReleaseRead, ledgerVars
    <2>2. /\ Others(w) /\ pc[w] = "rel_read" /\ pc'[w] = "rel_pay" /\ req'[w].op = req[w].op
          /\ req'[w].bk = req[w].bk /\ req'[w].hrs = req[w].hrs
      BY <1>0, <2>1, GotoWithMoves
    <2>3. PICK c \in Bookings : c = req[w].bk
      BY <1>0, <2>2 DEF TypeOK
    <2>4. FreshOK(w)' /\ pc[w] \in Releasing /\ pc'[w] \in Releasing
          /\ pc[w] \notin Posting /\ pc'[w] \notin Posting
      BY <1>0, <2>1, <2>2 DEF FreshOK, Releasing, Refunding, Posting
    <2>5. QED BY <2>1, <2>2, <2>3, <2>4, EscrowQuiet
  <1>3. CASE ReleasePay(w)
    <2>1. booking' = booking /\ Goto(w, "rel_pay", "unit")
          /\ PostOut(req[w].bk, Payout(req[w].hrs), FeeOf(req[w].hrs), 0)
      BY <1>3 DEF ReleasePay
    <2>2. Others(w) /\ pc[w] = "rel_pay" /\ pc'[w] = "unit" /\ req'[w] = req[w]
      BY <1>0, <2>1, GotoMoves
    <2>3. PICK c \in Bookings : c = req[w].bk
      BY <1>0, <2>2 DEF TypeOK
    <2>4. req[w].hrs \in Nat /\ req[w].hrs = booking[c].hours /\ pc[w] \in Releasing
      BY <1>0, <2>2, <2>3, RequestValues DEF FreshOK, Releasing
    <2>5. /\ Payout(req[w].hrs) \in Int /\ FeeOf(req[w].hrs) \in Int
          /\ Payout(req[w].hrs) + FeeOf(req[w].hrs) + 0 = Gross(booking[c].hours)
      BY <2>4, SplitExact
    <2>6. PICK s \in Int, p \in Int : s = Payout(req[w].hrs) /\ p = FeeOf(req[w].hrs)
      BY <2>5
    <2>7. PostOut(c, s, p, 0) /\ s + p + 0 = Gross(booking[c].hours)
      BY <2>1, <2>3, <2>5, <2>6
    <2>8. QED BY <2>1, <2>2, <2>3, <2>4, <2>7, EscrowDrained
  <1>4. CASE ReleaseUnit(w)
    <2>1. booking' = booking /\ legs' = legs /\ (Goto(w, "unit", "exp_stop") \/ Finish(w, "unit"))
      BY <1>4 DEF ReleaseUnit, ledgerVars
    <2>2. QED BY <2>1, EscrowFinish, EscrowGoto, PlainNames
  <1>5. CASE ExpireStop(w)
    <2>1. Finish(w, "exp_stop") /\ booking' = booking /\ legs' = legs
      BY <1>5 DEF ExpireStop, ledgerVars
    <2>2. QED BY <2>1, EscrowFinish, PlainNames
  <1>6. QED BY <1>1, <1>2, <1>3, <1>4, <1>5 DEF ReleaseStep

(* No worker moves; an escrowed booking may become active. *)
LEMMA EscrowStays ==
  ASSUME EscrowInv, PaymentInv, TypeOK', Frozen, pc' = pc, req' = req, legs' = legs,
         \A b \in Bookings :
           \/ booking'[b] = booking[b]
           \/ booking'[b].hours = booking[b].hours /\ booking'[b].status = "active"
  PROVE  EscrowInv'
  <1>0. TypeOK /\ \A v \in Workers : RequestOK(v)
    BY DEF PaymentInv
  <1>1. ASSUME NEW v \in Workers PROVE FreshOK(v)'
    <2>1. FreshOK(v)
      BY DEF EscrowInv
    <2>2. pc[v] \in {"rel_read", "rel_pay"} => booking'[req[v].bk].hours = booking[req[v].bk].hours
      BY <1>0 DEF TypeOK
    <2>3. QED BY <2>1, <2>2 DEF FreshOK
  <1>2. ASSUME NEW b \in Bookings PROVE EscrowOK(b)'
    <2>1. EscrowOK(b) /\ Unposted(b)' = Unposted(b) /\ Out(b)' = Out(b)
      BY DEF EscrowInv, Unposted, Out
    <2>2. booking'[b].hours = booking[b].hours
      OBVIOUS
    <2>3. booking'[b].status = booking[b].status \/ booking'[b].status \notin Terminal \cup {"none"}
      BY DEF Terminal
    <2>4. \A v \in Workers : Settling(v, b)' <=> Settling(v, b)
      BY DEF Settling
    <2>5. QED BY <2>1, <2>2, <2>3, <2>4 DEF EscrowOK
  <1>3. QED BY <1>1, <1>2 DEF EscrowInv

LEMMA EscrowInductive ==
  ASSUME SettlesFresh
  PROVE  EscrowInv /\ PaymentInv /\ [Next]_vars => EscrowInv'
  <1> SUFFICES ASSUME EscrowInv, PaymentInv, [Next]_vars PROVE EscrowInv'
    OBVIOUS
  <1>1. TypeOK /\ TypeOK' /\ Frozen
    BY TypeInductive, FrozenStep DEF PaymentInv
  <1>2. ASSUME NEW w \in Workers, RefundStep(w) PROVE FALSE
    <2>1. pc[w] \in Refunding \cup {"ref_cas"}
      BY <1>2 DEF RefundStep, RefundCas, RefundRead, RefundWrite, RefundPost, RefundOrg,
                  RefundOrgUnit, Goto, GotoWith, Finish, Refunding
    <2>2. QED BY <2>1 DEF EscrowInv, FreshOK
  <1>3. ASSUME NEW w \in Workers, TopupWrite(w) PROVE EscrowInv'
    <2>1. Finish(w, "topup") /\ booking' = booking /\ legs' = legs
      BY <1>3 DEF TopupWrite
    <2>2. QED BY <1>1, <2>1, EscrowFinish, PlainNames
  <1>4. ASSUME NEW w \in Workers, Crash(w) PROVE FALSE
    <2>1. count.crashes \in Nat
      BY <1>1 DEF TypeOK, Counts
    <2>2. QED BY <1>4, <2>1 DEF Crash, SettlesFresh
  <1>5. ASSUME NEW b \in Bookings, MarkActive(b) PROVE EscrowInv'
    <2>1. pc' = pc /\ req' = req /\ legs' = legs /\ booking' = [booking EXCEPT ![b].status = "active"]
      BY <1>5 DEF MarkActive, ledgerVars
    <2>2. booking[b] \in BookingRow /\ booking'[b] = [booking[b] EXCEPT !.status = "active"]
          /\ \A c \in Bookings \ {b} : booking'[c] = booking[c]
      BY <1>1, <2>1 DEF TypeOK
    <2>3. booking'[b].hours = booking[b].hours /\ booking'[b].status = "active"
      BY <2>2 DEF BookingRow
    <2>4. QED BY <1>1, <2>1, <2>2, <2>3, EscrowStays
  <1>6. CASE SetPaused \/ Tick \/ UNCHANGED vars
    <2>1. pc' = pc /\ req' = req /\ legs' = legs /\ booking' = booking
      BY <1>6 DEF SetPaused, Tick, vars, ledgerVars
    <2>2. QED BY <1>1, <2>1, EscrowStays
  <1>7. QED
    BY <1>1, <1>2, <1>3, <1>4, <1>5, <1>6, EscrowArrive, EscrowBookStep, EscrowExtendStep,
       EscrowStopStep, EscrowReleaseStep
    DEF Next, Continue

LEMMA EscrowInit == Init => EscrowInv
  <1> SUFFICES ASSUME Init PROVE EscrowInv
    OBVIOUS
  <1>1. \A w \in Workers : pc[w] = "idle" /\ req[w] = NoRequest
    BY DEF Init
  <1>2. \A w \in Workers : FreshOK(w)
    BY <1>1 DEF FreshOK, Refunding, NoRequest
  <1>3. ASSUME NEW b \in Bookings PROVE EscrowOK(b)
    <2>1. \A w \in Workers : Unposted(b)[w] = 0
      BY <1>1 DEF Unposted, Posting
    <2>2. SumFunctionOnSet(Unposted(b), Workers) = 0
      BY <2>1, FiniteAssumption, SumZero
    <2>3. booking[b].status = "none" /\ booking[b].hours = 0 /\ legs[b].hold = 0
      BY DEF Init, NoLegs
    <2>4. QED BY <2>2, <2>3, MoneyAssumption DEF EscrowOK, Gross, Terminal
  <1>4. QED BY <1>2, <1>3 DEF EscrowInv

LEMMA EscrowBooksOf == TypeOK /\ EscrowInv => EscrowMatchesBooking
  <1> SUFFICES ASSUME TypeOK, EscrowInv, NEW b \in Bookings, Quiet(b), booking[b].status # "none"
               PROVE  /\ legs[b].hold = Gross(booking[b].hours)
                      /\ booking[b].status \in Terminal => Out(b) = legs[b].hold
    BY DEF EscrowMatchesBooking
  <1>1. EscrowOK(b)
    BY DEF EscrowInv
  <1>2. \A w \in Workers : Unposted(b)[w] = 0 /\ ~Settling(w, b)
    BY DEF Unposted, Quiet, Settling
  <1>3. SumFunctionOnSet(Unposted(b), Workers) = 0
    BY <1>2, FiniteAssumption, SumZero
  <1>4. legs[b].hold \in Int
    BY LegFields DEF TypeOK
  <1>5. QED BY <1>1, <1>2, <1>3, <1>4 DEF EscrowOK

(* When no request about a booking is under way, its escrow account holds   *)
(* exactly its charge while it is live, and exactly nothing once settled:   *)
(* for any number of bookings and workers, where no handler dies and none   *)
(* settles a booking for hours it read before winning its status.           *)
THEOREM EscrowMatchesHolds == SettlesFresh => (Spec => []EscrowMatchesBooking)
  <1> SUFFICES ASSUME SettlesFresh PROVE Spec => []EscrowMatchesBooking
    OBVIOUS
  <1>1. EscrowInv /\ PaymentInv /\ [Next]_vars => EscrowInv'
    BY EscrowInductive
  <1>2. PaymentInv => TypeOK
    BY DEF PaymentInv
  <1>3. QED BY <1>1, <1>2, EscrowInit, EscrowBooksOf, PaymentInvHolds, PTL DEF Spec

-----------------------------------------------------------------------------
(* The cached balances.  Between a balance and the entries that add up to it *)
(* stands what handlers have taken or given and not yet posted: Due to the   *)
(* payer, Earned by the seller, Kept by the platform.  Left out are the      *)
(* handlers that write back a wallet they read (top-ups, refunds, a booking  *)
(* compensated under the kill switch); a release writes back the earnings    *)
(* and the revenue it read, and is safe while the host has one unit, for     *)
(* then at most one settlement is under way.                                 *)

OneAtATime == Units <= 1 \/ Handlers \cap {"result", "expire"} = {}
WritesInPlace ==
  Handlers \cap {"accept", "reap", "topup", "pause"} = {} /\ MaxCrashes = 0 /\ OneAtATime

Charged == {"book_insert", "book_post", "ext_grow", "ext_giveback", "ext_post"}
UsedBy(w) == Used(req[w].seen, booking[req[w].bk].hours)
Due(w) == IF pc[w] \in Charged THEN -Gross(req[w].hrs)
          ELSE IF pc[w] = "stop_post" THEN Gross(booking[req[w].bk].hours) - Gross(UsedBy(w)) ELSE 0
Dues(x) == [w \in Workers |-> IF pc[w] # "idle" /\ Payer[req[w].bk] = x THEN Due(w) ELSE 0]
Earned == [w \in Workers |-> IF pc[w] = "stop_post" THEN Payout(UsedBy(w)) ELSE 0]
Kept == [w \in Workers |-> IF pc[w] = "stop_post" THEN FeeOf(UsedBy(w)) ELSE 0]

BackLessHeld == [b \in Bookings |-> legs[b].back - legs[b].hold]
ToSeller == [b \in Bookings |-> legs[b].seller]
ToPlatform == [b \in Bookings |-> legs[b].platform]
PaidBy(x) == {b \in Bookings : Payer[b] = x}

ReadIsFresh(w) ==
  /\ pc[w] \notin {"book_comp", "book_giveback", "topup"}
  /\ pc[w] \in {"rel_cas", "rel_read", "rel_pay"} => Units <= 1
  /\ pc[w] = "rel_pay" => req[w].seen = earnings /\ req[w].rev = revenue
BooksInv ==
  /\ ~paused /\ \A w \in Workers : ReadIsFresh(w)
  /\ \A x \in Wallets : wallet[x] = LedgerWallet(x) + SumFunctionOnSet(Dues(x), Workers)
  /\ earnings = SumFunctionOnSet(ToSeller, Bookings) + SumFunctionOnSet(Earned, Workers)
  /\ revenue = SumFunctionOnSet(ToPlatform, Bookings) + SumFunctionOnSet(Kept, Workers)

LEMMA DueTypes ==
  ASSUME TypeOK, NEW w \in Workers
  PROVE  Due(w) \in Int /\ Earned[w] \in Int /\ Kept[w] \in Int
  <1>1. CASE pc[w] = "stop_post"
    <2>1. req[w].bk \in Bookings /\ req[w].seen \in Int /\ booking[req[w].bk].hours \in Nat
      BY <1>1, RequestFields, BookingFields DEF TypeOK
    <2>2. UsedBy(w) \in Nat
      BY <2>1, UsedType DEF UsedBy
    <2>3. /\ Gross(booking[req[w].bk].hours) \in Int /\ Gross(UsedBy(w)) \in Int
          /\ Payout(UsedBy(w)) \in Int /\ FeeOf(UsedBy(w)) \in Int
      BY <2>1, <2>2, SplitExact
    <2>4. QED BY <1>1, <2>3 DEF Due, Earned, Kept, Charged
  <1>2. CASE pc[w] # "stop_post"
    BY <1>2, RequestValues DEF Due, Earned, Kept
  <1>3. QED BY <1>1, <1>2

LEMMA DueTypesNext ==
  ASSUME TypeOK', NEW w \in Workers
  PROVE  Due(w)' \in Int /\ Earned'[w] \in Int /\ Kept'[w] \in Int
  <1>1. CASE pc'[w] = "stop_post"
    <2>1. req'[w].bk \in Bookings /\ req'[w].seen \in Int /\ booking'[req'[w].bk].hours \in Nat
      BY <1>1, RequestFields, BookingFields DEF TypeOK
    <2>2. UsedBy(w)' \in Nat
      BY <2>1, UsedType DEF UsedBy
    <2>3. /\ Gross(booking'[req'[w].bk].hours) \in Int /\ Gross(UsedBy(w)') \in Int
          /\ Payout(UsedBy(w)') \in Int /\ FeeOf(UsedBy(w)') \in Int
      BY <2>1, <2>2, SplitExact
    <2>4. QED BY <1>1, <2>3 DEF Due, Earned, Kept, Charged
  <1>2. CASE pc'[w] # "stop_post"
    <2>1. req'[w].hrs \in Nat
      BY RequestFields DEF TypeOK
    <2>2. -Gross(req'[w].hrs) \in Int
      BY <2>1, AmountOf
    <2>3. QED BY <1>2, <2>2 DEF Due, Earned, Kept
  <1>3. QED BY <1>1, <1>2

(* What the others have not posted does not move: the hours a settled       *)
(* booking was charged are final.                                           *)
LEMMA OthersDue ==
  ASSUME PaymentInv, Frozen, NEW w \in Workers, Others(w), NEW v \in Workers \ {w}
  PROVE  /\ Due(v)' = Due(v) /\ Earned'[v] = Earned[v] /\ Kept'[v] = Kept[v]
         /\ \A x : Dues(x)'[v] = Dues(x)[v]
  <1>1. pc'[v] = pc[v] /\ req'[v] = req[v]
    BY DEF Others
  <1>2. pc[v] = "stop_post" => booking'[req[v].bk] = booking[req[v].bk]
    BY DEF PaymentInv, RequestOK, TypeOK, Frozen, Releasing, Terminal
  <1>3. pc[v] = "stop_post" => UsedBy(v)' = UsedBy(v)
    BY <1>1, <1>2 DEF UsedBy
  <1>4. Due(v)' = Due(v)
    BY <1>1, <1>2, <1>3 DEF Due, Charged
  <1>5. Earned'[v] = Earned[v] /\ Kept'[v] = Kept[v]
    BY <1>1, <1>3 DEF Earned, Kept
  <1>6. \A x : Dues(x)'[v] = Dues(x)[v]
    BY <1>1, <1>4 DEF Dues
  <1>7. QED BY <1>4, <1>5, <1>6

LEMMA EarnedSums ==
  ASSUME PaymentInv, TypeOK', Frozen, NEW w \in Workers, Others(w)
  PROVE  /\ SumFunctionOnSet(Earned, Workers) \in Int /\ SumFunctionOnSet(Kept, Workers) \in Int
         /\ SumFunctionOnSet(Earned', Workers)
              = SumFunctionOnSet(Earned, Workers) + (Earned'[w] - Earned[w])
         /\ SumFunctionOnSet(Kept', Workers)
              = SumFunctionOnSet(Kept, Workers) + (Kept'[w] - Kept[w])
  <1>1. \A v \in Workers : /\ Earned[v] \in Int /\ Kept[v] \in Int
                           /\ Earned'[v] \in Int /\ Kept'[v] \in Int
    BY DueTypes, DueTypesNext DEF PaymentInv
  <1>2. \A v \in Workers \ {w} : Earned'[v] = Earned[v] /\ Kept'[v] = Kept[v]
    BY OthersDue
  <1>3. QED BY <1>1, <1>2, WorkersSum

LEMMA DuesSum ==
  ASSUME PaymentInv, TypeOK', Frozen, NEW w \in Workers, Others(w), NEW x
  PROVE  /\ SumFunctionOnSet(Dues(x), Workers) \in Int
         /\ SumFunctionOnSet(Dues(x)', Workers)
              = SumFunctionOnSet(Dues(x), Workers) + (Dues(x)'[w] - Dues(x)[w])
  <1>1. \A v \in Workers : Due(v) \in Int /\ Due(v)' \in Int
    BY DueTypes, DueTypesNext DEF PaymentInv
  <1>2. \A v \in Workers : Dues(x)[v] \in Int /\ Dues(x)'[v] \in Int
    BY <1>1 DEF Dues
  <1>3. \A v \in Workers \ {w} : Dues(x)'[v] = Dues(x)[v]
    BY OthersDue
  <1>4. QED BY <1>2, <1>3, WorkersSum

(* The ledger's sums move by what one booking's entries do. *)
LEMMA EntryTypes ==
  ASSUME TypeOK, NEW b \in Bookings
  PROVE  BackLessHeld[b] \in Int /\ ToSeller[b] \in Int /\ ToPlatform[b] \in Int
  BY LegFields DEF TypeOK, BackLessHeld, ToSeller, ToPlatform

LEMMA EntryTypesNext ==
  ASSUME TypeOK', NEW b \in Bookings
  PROVE  BackLessHeld'[b] \in Int /\ ToSeller'[b] \in Int /\ ToPlatform'[b] \in Int
  BY LegFields DEF TypeOK, BackLessHeld, ToSeller, ToPlatform

LEMMA PayeeSums ==
  ASSUME TypeOK, TypeOK', NEW c \in Bookings, \A b \in Bookings \ {c} : legs'[b] = legs[b]
  PROVE  /\ SumFunctionOnSet(ToSeller, Bookings) \in Int
         /\ SumFunctionOnSet(ToPlatform, Bookings) \in Int
         /\ SumFunctionOnSet(ToSeller', Bookings)
              = SumFunctionOnSet(ToSeller, Bookings) + (ToSeller'[c] - ToSeller[c])
         /\ SumFunctionOnSet(ToPlatform', Bookings)
              = SumFunctionOnSet(ToPlatform, Bookings) + (ToPlatform'[c] - ToPlatform[c])
  <1>1. \A b \in Bookings : /\ ToSeller[b] \in Int /\ ToPlatform[b] \in Int
                            /\ ToSeller'[b] \in Int /\ ToPlatform'[b] \in Int
    BY EntryTypes, EntryTypesNext
  <1>2. \A b \in Bookings \ {c} : ToSeller'[b] = ToSeller[b] /\ ToPlatform'[b] = ToPlatform[b]
    BY DEF ToSeller, ToPlatform
  <1>3. QED BY <1>1, <1>2, FiniteAssumption, SumType, SumChange

LEMMA WalletSum ==
  ASSUME TypeOK, TypeOK', NEW c \in Bookings, NEW x,
         \A b \in Bookings \ {c} : legs'[b] = legs[b]
  PROVE  /\ SumFunctionOnSet(BackLessHeld, PaidBy(x)) \in Int
         /\ SumFunctionOnSet(BackLessHeld', PaidBy(x))
              = SumFunctionOnSet(BackLessHeld, PaidBy(x))
                  + (IF Payer[c] = x THEN BackLessHeld'[c] - BackLessHeld[c] ELSE 0)
  <1>1. IsFiniteSet(PaidBy(x)) /\ PaidBy(x) \subseteq Bookings
    BY FiniteAssumption, FS_Subset DEF PaidBy
  <1>2. \A b \in PaidBy(x) : BackLessHeld[b] \in Int /\ BackLessHeld'[b] \in Int
    BY <1>1, EntryTypes, EntryTypesNext
  <1>3. \A b \in Bookings \ {c} : BackLessHeld'[b] = BackLessHeld[b]
    BY DEF BackLessHeld
  <1>4. SumFunctionOnSet(BackLessHeld, PaidBy(x)) \in Int
    BY <1>1, <1>2, SumType
  <1>5. CASE Payer[c] = x
    <2>1. c \in PaidBy(x)
      BY <1>5 DEF PaidBy
    <2>2. \A b \in PaidBy(x) \ {c} : BackLessHeld[b] = BackLessHeld'[b]
      BY <1>1, <1>3
    <2>3. SumFunctionOnSet(BackLessHeld', PaidBy(x))
            = SumFunctionOnSet(BackLessHeld, PaidBy(x)) + (BackLessHeld'[c] - BackLessHeld[c])
      BY <1>1, <1>2, <2>1, <2>2, SumChange
    <2>4. QED BY <1>4, <1>5, <2>3
  <1>6. CASE Payer[c] # x
    <2>1. \A b \in PaidBy(x) : BackLessHeld'[b] = BackLessHeld[b]
      BY <1>3, <1>6 DEF PaidBy
    <2>2. SumFunctionOnSet(BackLessHeld', PaidBy(x)) = SumFunctionOnSet(BackLessHeld, PaidBy(x))
      BY <1>1, <2>1, SumSame
    <2>3. QED BY <1>4, <1>6, <2>2
  <1>7. QED BY <1>5, <1>6

LEMMA LedgerSum ==
  ASSUME NEW x
  PROVE  /\ LedgerWallet(x) = deposited[x] + SumFunctionOnSet(BackLessHeld, PaidBy(x))
         /\ LedgerWallet(x)' = deposited'[x] + SumFunctionOnSet(BackLessHeld', PaidBy(x))
  BY DEF LedgerWallet, BackLessHeld, PaidBy

(* Two sums move together. *)
LEMMA MovesTogether ==
  ASSUME NEW a \in Int, NEW a1 \in Int, NEW e \in Int, NEW e1 \in Int, NEW d \in Int, NEW d1 \in Int,
         NEW E \in Int, NEW D \in Int, NEW E1, NEW D1, NEW k \in Int,
         a = k + E + D, E1 = E + (e1 - e), D1 = D + (d1 - d), a1 + e + d = a + e1 + d1
  PROVE  a1 = k + E1 + D1
  OBVIOUS

(* A step of worker w on booking c: what it moves in a balance, it posts or *)
(* comes to owe.                                                            *)
LEMMA BooksMove ==
  ASSUME BooksInv, PaymentInv, TypeOK', Frozen, NEW w \in Workers, Others(w), NEW c \in Bookings,
         \A b \in Bookings \ {c} : legs'[b] = legs[b], deposited' = deposited, paused' = paused,
         pc[w] # "idle" => req[w].bk = c, pc'[w] # "idle" => req'[w].bk = c,
         \A x \in Wallets \ {Payer[c]} : wallet'[x] = wallet[x],
         wallet'[Payer[c]] + BackLessHeld[c] + Due(w)
           = wallet[Payer[c]] + BackLessHeld'[c] + Due(w)',
         earnings' + ToSeller[c] + Earned[w] = earnings + ToSeller'[c] + Earned'[w],
         revenue' + ToPlatform[c] + Kept[w] = revenue + ToPlatform'[c] + Kept'[w],
         ReadIsFresh(w)',
         \A v \in Workers \ {w} : pc[v] = "rel_pay" => earnings' = earnings /\ revenue' = revenue
  PROVE  BooksInv'
  <1>0. TypeOK
    BY DEF PaymentInv
  <1>1. ASSUME NEW v \in Workers PROVE ReadIsFresh(v)'
    BY DEF BooksInv, ReadIsFresh, Others
  <1>2. ~paused'
    BY Zenon DEF BooksInv
  <1>t. /\ earnings \in Int /\ earnings' \in Int /\ revenue \in Int /\ revenue' \in Int
        /\ ToSeller[c] \in Int /\ ToSeller'[c] \in Int /\ Earned[w] \in Int /\ Earned'[w] \in Int
        /\ ToPlatform[c] \in Int /\ ToPlatform'[c] \in Int /\ Kept[w] \in Int /\ Kept'[w] \in Int
        /\ BackLessHeld[c] \in Int /\ BackLessHeld'[c] \in Int /\ Due(w) \in Int /\ Due(w)' \in Int
    BY <1>0, DueTypes, DueTypesNext, EntryTypes, EntryTypesNext DEF TypeOK
  <1>3. earnings' = SumFunctionOnSet(ToSeller', Bookings) + SumFunctionOnSet(Earned', Workers)
    <2>1. earnings = 0 + SumFunctionOnSet(ToSeller, Bookings) + SumFunctionOnSet(Earned, Workers)
      BY <1>0, PayeeSums, EarnedSums DEF BooksInv
    <2>2. /\ SumFunctionOnSet(ToSeller, Bookings) \in Int /\ SumFunctionOnSet(Earned, Workers) \in Int
          /\ SumFunctionOnSet(ToSeller', Bookings)
               = SumFunctionOnSet(ToSeller, Bookings) + (ToSeller'[c] - ToSeller[c])
          /\ SumFunctionOnSet(Earned', Workers)
               = SumFunctionOnSet(Earned, Workers) + (Earned'[w] - Earned[w])
      BY <1>0, PayeeSums, EarnedSums
    <2>3. earnings' = 0 + SumFunctionOnSet(ToSeller', Bookings) + SumFunctionOnSet(Earned', Workers)
      BY <1>t, <2>1, <2>2, MovesTogether
    <2>4. SumFunctionOnSet(ToSeller', Bookings) \in Int /\ SumFunctionOnSet(Earned', Workers) \in Int
      BY <1>t, <2>2
    <2>5. QED BY <2>3, <2>4
  <1>4. revenue' = SumFunctionOnSet(ToPlatform', Bookings) + SumFunctionOnSet(Kept', Workers)
    <2>1. revenue = 0 + SumFunctionOnSet(ToPlatform, Bookings) + SumFunctionOnSet(Kept, Workers)
      BY <1>0, PayeeSums, EarnedSums DEF BooksInv
    <2>2. /\ SumFunctionOnSet(ToPlatform, Bookings) \in Int /\ SumFunctionOnSet(Kept, Workers) \in Int
          /\ SumFunctionOnSet(ToPlatform', Bookings)
               = SumFunctionOnSet(ToPlatform, Bookings) + (ToPlatform'[c] - ToPlatform[c])
          /\ SumFunctionOnSet(Kept', Workers)
               = SumFunctionOnSet(Kept, Workers) + (Kept'[w] - Kept[w])
      BY <1>0, PayeeSums, EarnedSums
    <2>3. revenue' = 0 + SumFunctionOnSet(ToPlatform', Bookings) + SumFunctionOnSet(Kept', Workers)
      BY <1>t, <2>1, <2>2, MovesTogether
    <2>4. SumFunctionOnSet(ToPlatform', Bookings) \in Int /\ SumFunctionOnSet(Kept', Workers) \in Int
      BY <1>t, <2>2
    <2>5. QED BY <2>3, <2>4
  <1>5. ASSUME NEW x \in Wallets
        PROVE  wallet'[x] = LedgerWallet(x)' + SumFunctionOnSet(Dues(x)', Workers)
    <2>1. /\ wallet[x] \in Int /\ wallet'[x] \in Int /\ deposited[x] \in Int /\ deposited'[x] = deposited[x]
          /\ wallet[x] = deposited[x] + SumFunctionOnSet(BackLessHeld, PaidBy(x))
                           + SumFunctionOnSet(Dues(x), Workers)
      BY <1>0, LedgerSum DEF BooksInv, TypeOK
    <2>2. /\ SumFunctionOnSet(BackLessHeld, PaidBy(x)) \in Int
          /\ SumFunctionOnSet(Dues(x), Workers) \in Int
      BY <1>0, WalletSum, DuesSum
    <2>3. CASE x = Payer[c]
      <3>1. Dues(x)[w] = Due(w)
        BY <2>3 DEF Dues, Due, Charged
      <3>2. Dues(x)'[w] = Due(w)'
        BY <2>3 DEF Dues, Due, Charged
      <3>3. SumFunctionOnSet(Dues(x)', Workers)
              = SumFunctionOnSet(Dues(x), Workers) + (Due(w)' - Due(w))
        BY <3>1, <3>2, DuesSum
      <3>4. SumFunctionOnSet(BackLessHeld', PaidBy(x))
              = SumFunctionOnSet(BackLessHeld, PaidBy(x)) + (BackLessHeld'[c] - BackLessHeld[c])
        BY <1>0, <2>3, WalletSum
      <3>5. wallet'[x] + BackLessHeld[c] + Due(w) = wallet[x] + BackLessHeld'[c] + Due(w)'
        BY <2>3
      <3>6. wallet'[x] = deposited[x] + SumFunctionOnSet(BackLessHeld', PaidBy(x))
                           + SumFunctionOnSet(Dues(x)', Workers)
        BY <1>t, <2>1, <2>2, <3>3, <3>4, <3>5, MovesTogether
      <3>7. QED BY <2>1, <3>6, LedgerSum
    <2>4. CASE x # Payer[c]
      <3>1. Dues(x)[w] = 0
        BY <2>4 DEF Dues, Due, Charged
      <3>2. Dues(x)'[w] = 0
        BY <2>4 DEF Dues, Due, Charged
      <3>3. SumFunctionOnSet(Dues(x)', Workers) = SumFunctionOnSet(Dues(x), Workers)
        BY <2>2, <3>1, <3>2, DuesSum
      <3>4. SumFunctionOnSet(BackLessHeld', PaidBy(x)) = SumFunctionOnSet(BackLessHeld, PaidBy(x))
        BY <1>0, <2>2, <2>4, WalletSum
      <3>5. QED BY <2>1, <2>4, <3>3, <3>4, LedgerSum
    <2>5. QED BY <2>3, <2>4
  <1>6. QED BY <1>1, <1>2, <1>3, <1>4, <1>5 DEF BooksInv

(* What a worker has to post, by its label. *)
LEMMA NothingDue ==
  ASSUME NEW w \in Workers
  PROVE  /\ pc[w] \notin Charged \cup {"stop_post"} => Due(w) = 0 /\ Earned[w] = 0 /\ Kept[w] = 0
         /\ pc'[w] \notin Charged \cup {"stop_post"} =>
              Due(w)' = 0 /\ Earned'[w] = 0 /\ Kept'[w] = 0
  BY DEF Due, Earned, Kept

LEMMA ChargeDue ==
  ASSUME NEW w \in Workers
  PROVE  /\ pc[w] \in Charged => Due(w) = -Gross(req[w].hrs) /\ Earned[w] = 0 /\ Kept[w] = 0
         /\ pc'[w] \in Charged => Due(w)' = -Gross(req'[w].hrs) /\ Earned'[w] = 0 /\ Kept'[w] = 0
  BY DEF Due, Earned, Kept, Charged

LEMMA StopDue ==
  ASSUME NEW w \in Workers
  PROVE  /\ pc[w] = "stop_post" =>
              /\ Due(w) = Gross(booking[req[w].bk].hours) - Gross(UsedBy(w))
              /\ Earned[w] = Payout(UsedBy(w)) /\ Kept[w] = FeeOf(UsedBy(w))
         /\ pc'[w] = "stop_post" =>
              /\ Due(w)' = Gross(booking'[req'[w].bk].hours) - Gross(UsedBy(w)')
              /\ Earned'[w] = Payout(UsedBy(w)') /\ Kept'[w] = FeeOf(UsedBy(w)')
  BY DEF Due, Earned, Kept, Charged

(* The labels that read or owe nothing. *)
Bare(l) == l \notin Charged \cup {"stop_post", "book_comp", "book_giveback", "topup",
                                  "rel_cas", "rel_read", "rel_pay"}

LEMMA BareNames ==
  /\ Bare("idle") /\ Bare("book_debit") /\ Bare("book_unreserve") /\ Bare("launch")
  /\ Bare("ext_window") /\ Bare("stop_settle") /\ Bare("stop_pay") /\ Bare("unit") /\ Bare("exp_stop")
  BY DEF Bare, Charged

LEMMA BareOf ==
  ASSUME NEW w \in Workers
  PROVE  /\ Bare(pc[w]) => Due(w) = 0 /\ Earned[w] = 0 /\ Kept[w] = 0
         /\ Bare(pc'[w]) => Due(w)' = 0 /\ Earned'[w] = 0 /\ Kept'[w] = 0 /\ ReadIsFresh(w)'
  <1>1. Bare(pc[w]) => pc[w] \notin Charged \cup {"stop_post"}
    BY DEF Bare
  <1>2. Bare(pc'[w]) => pc'[w] \notin Charged \cup {"stop_post"} /\ ReadIsFresh(w)'
    BY DEF Bare, ReadIsFresh
  <1>3. QED BY <1>1, <1>2, NothingDue

(* The step's variables of the books, but for the wallets. *)
SameBooks == legs' = legs /\ deposited' = deposited /\ earnings' = earnings
               /\ revenue' = revenue /\ paused' = paused

(* A step that takes from or gives to one wallet what its worker then owes. *)
LEMMA BooksWallet ==
  ASSUME BooksInv, PaymentInv, TypeOK', Frozen, NEW w \in Workers, Others(w), NEW c \in Bookings,
         SameBooks, pc[w] # "idle" => req[w].bk = c, pc'[w] # "idle" => req'[w].bk = c,
         Earned'[w] = Earned[w], Kept'[w] = Kept[w], ReadIsFresh(w)',
         NEW m \in Int, Due(w)' = Due(w) + m,
         (m = 0 /\ wallet' = wallet) \/ Credit(Payer[c], m)
  PROVE  BooksInv'
  <1>0. TypeOK /\ Payer[c] \in Wallets
    BY NameAssumption DEF PaymentInv
  <1>1. Due(w) \in Int /\ Earned[w] \in Int /\ Kept[w] \in Int
    BY <1>0, DueTypes
  <1>2. BackLessHeld[c] \in Int /\ ToSeller[c] \in Int /\ ToPlatform[c] \in Int
    BY <1>0, EntryTypes
  <1>3. BackLessHeld'[c] = BackLessHeld[c] /\ ToSeller'[c] = ToSeller[c] /\ ToPlatform'[c] = ToPlatform[c]
    BY DEF SameBooks, BackLessHeld, ToSeller, ToPlatform
  <1>4. wallet[Payer[c]] \in Int /\ wallet'[Payer[c]] = wallet[Payer[c]] + m
        /\ \A x \in Wallets \ {Payer[c]} : wallet'[x] = wallet[x]
    BY <1>0 DEF Credit, TypeOK
  <1>5. wallet'[Payer[c]] + BackLessHeld[c] + Due(w)
           = wallet[Payer[c]] + BackLessHeld'[c] + Due(w)'
    BY <1>1, <1>2, <1>3, <1>4
  <1>6. /\ earnings' + ToSeller[c] + Earned[w] = earnings + ToSeller'[c] + Earned'[w]
        /\ revenue' + ToPlatform[c] + Kept[w] = revenue + ToPlatform'[c] + Kept'[w]
    BY <1>3 DEF SameBooks
  <1>7. /\ \A b \in Bookings \ {c} : legs'[b] = legs[b]
        /\ deposited' = deposited /\ paused' = paused /\ earnings' = earnings /\ revenue' = revenue
    BY DEF SameBooks
  <1>8. QED BY <1>4, <1>5, <1>6, <1>7, BooksMove

(* A step that leaves every balance and every entry, and owes as much. *)
LEMMA BooksSame ==
  ASSUME BooksInv, PaymentInv, TypeOK', Frozen, NEW w \in Workers, Others(w), NEW c \in Bookings,
         SameBooks, wallet' = wallet, pc[w] # "idle" => req[w].bk = c,
         pc'[w] # "idle" => req'[w].bk = c,
         Due(w)' = Due(w), Earned'[w] = Earned[w], Kept'[w] = Kept[w], ReadIsFresh(w)'
  PROVE  BooksInv'
  <1>1. Due(w) \in Int
    BY DueTypes DEF PaymentInv
  <1>2. Due(w)' = Due(w) + 0
    BY <1>1
  <1>3. QED BY <1>2, BooksWallet

LEMMA BooksFinish ==
  ASSUME BooksInv, PaymentInv, TypeOK', Frozen, NEW w \in Workers, NEW from, Finish(w, from),
         from # "idle", from \notin Charged \cup {"stop_post"}, SameBooks, wallet' = wallet
  PROVE  BooksInv'
  <1>1. TypeOK
    BY DEF PaymentInv
  <1>2. Others(w) /\ pc[w] = from /\ pc'[w] = "idle"
    BY <1>1, FinishMoves
  <1>3. PICK c \in Bookings : c = req[w].bk
    BY <1>1, <1>2 DEF TypeOK
  <1>4. Due(w) = 0 /\ Earned[w] = 0 /\ Kept[w] = 0
    BY <1>2, NothingDue
  <1>5. Due(w)' = 0 /\ Earned'[w] = 0 /\ Kept'[w] = 0 /\ ReadIsFresh(w)'
    BY <1>2, BareOf, BareNames
  <1>6. QED BY <1>2, <1>3, <1>4, <1>5, BooksSame

LEMMA BooksGoto ==
  ASSUME BooksInv, PaymentInv, TypeOK', Frozen, NEW w \in Workers, NEW from, NEW to,
         Goto(w, from, to), from # "idle", from \notin Charged \cup {"stop_post"}, Bare(to),
         SameBooks, wallet' = wallet
  PROVE  BooksInv'
  <1>1. TypeOK
    BY DEF PaymentInv
  <1>2. Others(w) /\ pc[w] = from /\ pc'[w] = to /\ req'[w] = req[w]
    BY <1>1, GotoMoves
  <1>3. PICK c \in Bookings : c = req[w].bk
    BY <1>1, <1>2 DEF TypeOK
  <1>4. Due(w) = 0 /\ Earned[w] = 0 /\ Kept[w] = 0
    BY <1>2, NothingDue
  <1>5. Due(w)' = 0 /\ Earned'[w] = 0 /\ Kept'[w] = 0 /\ ReadIsFresh(w)'
    BY <1>2, BareOf
  <1>6. QED BY <1>2, <1>3, <1>4, <1>5, BooksSame

LEMMA BooksBegin ==
  ASSUME BooksInv, PaymentInv, TypeOK', Frozen, NEW w \in Workers, NEW op, NEW to,
         NEW b \in Bookings, NEW h, NEW s, Begin(w, op, to, b, h, s),
         Bare(to) \/ (to = "rel_cas" /\ Units <= 1), SameBooks, wallet' = wallet
  PROVE  BooksInv'
  <1>1. TypeOK
    BY DEF PaymentInv
  <1>2. Others(w) /\ pc[w] = "idle" /\ pc'[w] = to /\ req'[w].bk = b
    BY <1>1, BeginMoves
  <1>3. Due(w) = 0 /\ Earned[w] = 0 /\ Kept[w] = 0
    BY <1>2, BareOf, BareNames
  <1>4. Due(w)' = 0 /\ Earned'[w] = 0 /\ Kept'[w] = 0 /\ ReadIsFresh(w)'
    <2>1. CASE Bare(to)
      BY <1>2, <2>1, BareOf
    <2>2. CASE to = "rel_cas" /\ Units <= 1
      <3>1. pc'[w] \notin Charged \cup {"stop_post"} /\ ReadIsFresh(w)'
        BY <1>2, <2>2 DEF Charged, ReadIsFresh
      <3>2. QED BY <3>1, NothingDue
    <2>3. QED BY <2>1, <2>2
  <1>5. QED BY <1>2, <1>3, <1>4, BooksSame

LEMMA BooksArrive ==
  ASSUME WritesInPlace, BooksInv, PaymentInv, TypeOK', Frozen, NEW w \in Workers, Arrive(w)
  PROVE  BooksInv'
  <1>0. PICK b \in Bookings :
          \/ \E h \in Hours : BookLoad(w, b, h)
          \/ \E h \in Hours : ExtendDebit(w, b, h)
          \/ StopVM(w, b) \/ AcceptRead(w, b) \/ ResultRead(w, b)
          \/ ExpireRead(w, b) \/ ReapRead(w, b) \/ TopupRead(w, b)
    BY DEF Arrive
  <1>t. TypeOK
    BY DEF PaymentInv
  <1>1. CASE \E h \in Hours : BookLoad(w, b, h)
    <2>1. PICK h, s : Begin(w, "book", "book_debit", b, h, s)
      BY <1>1 DEF BookLoad
    <2>2. SameBooks /\ wallet' = wallet
      BY <1>1 DEF BookLoad, SameBooks, moneyVars, ledgerVars, envVars
    <2>3. QED BY <2>1, <2>2, BooksBegin, BareNames
  <1>2. ASSUME NEW h \in Hours, ExtendDebit(w, b, h) PROVE BooksInv'
    <2>1. PICK s : Begin(w, "extend", "ext_grow", b, h, s)
      BY <1>2 DEF ExtendDebit
    <2>2. SameBooks /\ Credit(Payer[b], -Gross(h))
      BY <1>2 DEF ExtendDebit, SameBooks, ledgerVars, envVars
    <2>3. Others(w) /\ pc[w] = "idle" /\ pc'[w] = "ext_grow" /\ req'[w].bk = b /\ req'[w].hrs = h
      BY <1>t, <2>1, BeginMoves
    <2>4. Due(w) = 0 /\ Earned[w] = 0 /\ Kept[w] = 0
      BY <2>3, BareOf, BareNames
    <2>5. pc'[w] \in Charged /\ ReadIsFresh(w)'
      BY <2>3 DEF Charged, ReadIsFresh
    <2>6. Due(w)' = -Gross(h) /\ Earned'[w] = 0 /\ Kept'[w] = 0
      BY <2>3, <2>5, ChargeDue
    <2>7. PICK m \in Int : m = -Gross(h)
      BY <1>2, SizeAssumption, AmountOf
    <2>8. Due(w)' = Due(w) + m /\ Credit(Payer[b], m)
      BY <2>2, <2>4, <2>6, <2>7
    <2>9. QED BY <2>2, <2>3, <2>4, <2>5, <2>6, <2>8, BooksWallet
  <1>3. CASE StopVM(w, b)
    <2>1. PICK h, s : Begin(w, "stop", "stop_settle", b, h, s)
      BY <1>3 DEF StopVM
    <2>2. SameBooks /\ wallet' = wallet
      BY <1>3 DEF StopVM, SameBooks, moneyVars, ledgerVars, envVars
    <2>3. QED BY <2>1, <2>2, BooksBegin, BareNames
  <1>4. CASE AcceptRead(w, b) \/ ReapRead(w, b) \/ TopupRead(w, b)
    BY <1>4 DEF AcceptRead, ReapRead, TopupRead, Begin, WritesInPlace
  <1>5. CASE ResultRead(w, b)
    <2>1. PICK h, s : Begin(w, "result", "rel_cas", b, h, s)
      BY <1>5 DEF ResultRead
    <2>2. SameBooks /\ wallet' = wallet /\ Units <= 1
      BY <1>5, <2>1 DEF ResultRead, Begin, SameBooks, moneyVars, ledgerVars, envVars, WritesInPlace,
                        OneAtATime
    <2>3. QED BY <2>1, <2>2, BooksBegin
  <1>6. CASE ExpireRead(w, b)
    <2>1. PICK h, s : Begin(w, "expire", "rel_cas", b, h, s)
      BY <1>6 DEF ExpireRead
    <2>2. SameBooks /\ wallet' = wallet /\ Units <= 1
      BY <1>6, <2>1 DEF ExpireRead, Begin, SameBooks, moneyVars, ledgerVars, envVars, WritesInPlace,
                        OneAtATime
    <2>3. QED BY <2>1, <2>2, BooksBegin
  <1>7. QED BY <1>0, <1>1, <1>2, <1>3, <1>4, <1>5, <1>6

(* A worker that keeps owing a charge goes on, or posts it. *)
LEMMA ChargeGoes ==
  ASSUME BooksInv, PaymentInv, TypeOK', Frozen, NEW w \in Workers, NEW from \in Charged, NEW to \in Charged,
         Goto(w, from, to), SameBooks, wallet' = wallet
  PROVE  BooksInv'
  <1>1. TypeOK /\ from # "idle" /\ ReadIsFresh(w)
    BY DEF PaymentInv, Charged, BooksInv
  <1>2. Others(w) /\ pc[w] = from /\ pc'[w] = to /\ req'[w] = req[w]
    BY <1>1, GotoMoves
  <1>3. PICK c \in Bookings : c = req[w].bk
    BY <1>1, <1>2 DEF TypeOK
  <1>4. Due(w)' = Due(w) /\ Earned'[w] = Earned[w] /\ Kept'[w] = Kept[w]
    BY <1>2, ChargeDue
  <1>5. ReadIsFresh(w)'
    BY <1>2 DEF ReadIsFresh, Charged
  <1>6. QED BY <1>2, <1>3, <1>4, <1>5, BooksSame

LEMMA ChargePosted ==
  ASSUME BooksInv, PaymentInv, TypeOK', Frozen, NEW w \in Workers, Others(w), pc[w] \in Charged,
         Bare(pc'[w]), pc'[w] # "idle" => req'[w].bk = req[w].bk,
         PostHold(req[w].bk, Gross(req[w].hrs)),
         UNCHANGED <<deposited, paused, wallet, earnings, revenue>>
  PROVE  BooksInv'
  <1>1. TypeOK /\ req[w].bk \in Bookings
    BY DEF PaymentInv, TypeOK, Charged
  <1>2. PICK c \in Bookings : c = req[w].bk
    BY <1>1
  <1>3. PICK g \in Int : g = Gross(req[w].hrs)
    BY <1>1, RequestValues
  <1>4. legs[c] \in EscrowLegs /\ legs'[c] = [legs[c] EXCEPT !.hold = @ + g]
        /\ \A b \in Bookings \ {c} : legs'[b] = legs[b]
    BY <1>1, <1>2, <1>3 DEF PostHold, TypeOK
  <1>5. /\ legs'[c].hold = legs[c].hold + g /\ legs'[c].back = legs[c].back
        /\ legs'[c].seller = legs[c].seller /\ legs'[c].platform = legs[c].platform
        /\ legs[c].hold \in Int /\ legs[c].back \in Int
    BY <1>4 DEF EscrowLegs
  <1>6. /\ BackLessHeld[c] = legs[c].back - legs[c].hold
        /\ BackLessHeld'[c] = legs'[c].back - legs'[c].hold
        /\ ToSeller'[c] = ToSeller[c] /\ ToPlatform'[c] = ToPlatform[c]
    BY <1>5 DEF BackLessHeld, ToSeller, ToPlatform
  <1>7. Due(w) = -g /\ Earned[w] = 0 /\ Kept[w] = 0
    BY <1>3, ChargeDue
  <1>8. Due(w)' = 0 /\ Earned'[w] = 0 /\ Kept'[w] = 0 /\ ReadIsFresh(w)'
    BY BareOf
  <1>9. wallet[Payer[c]] \in Int
    BY <1>1, NameAssumption DEF TypeOK
  <1>10. wallet'[Payer[c]] + BackLessHeld[c] + Due(w)
           = wallet[Payer[c]] + BackLessHeld'[c] + Due(w)'
    BY <1>5, <1>6, <1>7, <1>8, <1>9
  <1>11. /\ earnings' + ToSeller[c] + Earned[w] = earnings + ToSeller'[c] + Earned'[w]
         /\ revenue' + ToPlatform[c] + Kept[w] = revenue + ToPlatform'[c] + Kept'[w]
    BY <1>6, <1>7, <1>8
  <1>12. QED BY <1>2, <1>4, <1>8, <1>10, <1>11, BooksMove

LEMMA BooksBookStep ==
  ASSUME BooksInv, PaymentInv, TypeOK', Frozen, NEW w \in Workers, BookStep(w)
  PROVE  BooksInv'
  <1>0. TypeOK /\ ~paused /\ ReadIsFresh(w)
    BY DEF PaymentInv, BooksInv
  <1>1. CASE BookRefused(w)
    <2>1. Finish(w, "book_debit") /\ SameBooks /\ wallet' = wallet
      BY <1>1 DEF BookRefused, SameBooks, moneyVars, ledgerVars, envVars
    <2>2. QED BY <2>1, BooksFinish DEF Charged
  <1>2. CASE BookDebit(w)
    <2>1. pc[w] = "book_debit" /\ SameBooks
      BY <1>2 DEF BookDebit, SameBooks, ledgerVars, envVars
    <2>2. CASE Goto(w, "book_debit", "book_unreserve") /\ wallet' = wallet
      BY <2>1, <2>2, BooksGoto, BareNames DEF Charged
    <2>3. ASSUME NEW s, GotoWith(w, "book_debit", "book_insert", req[w].hrs, s, 0),
                 Credit(Payer[req[w].bk], -Gross(req[w].hrs))
          PROVE  BooksInv'
      <3>1. /\ Others(w) /\ pc'[w] = "book_insert" /\ req'[w].bk = req[w].bk
            /\ req'[w].hrs = req[w].hrs
        BY <1>0, <2>3, GotoWithMoves
      <3>2. PICK c \in Bookings : c = req[w].bk
        BY <1>0, <2>1 DEF TypeOK
      <3>3. PICK m \in Int : m = -Gross(req[w].hrs)
        BY <1>0, RequestValues
      <3>4. Due(w) = 0 /\ Earned[w] = 0 /\ Kept[w] = 0
        BY <2>1, BareOf, BareNames
      <3>5. pc'[w] \in Charged /\ ReadIsFresh(w)'
        BY <3>1 DEF Charged, ReadIsFresh
      <3>6. Due(w)' = Due(w) + m /\ Earned'[w] = 0 /\ Kept'[w] = 0
        BY <3>1, <3>3, <3>4, <3>5, ChargeDue
      <3>7. Credit(Payer[c], m)
        BY <2>3, <3>2, <3>3
      <3>8. QED BY <2>1, <3>1, <3>2, <3>4, <3>5, <3>6, <3>7, BooksWallet
    <2>4. QED BY <1>2, <2>2, <2>3 DEF BookDebit
  <1>3. CASE BookUnreserve(w)
    <2>1. Finish(w, "book_unreserve") /\ SameBooks /\ wallet' = wallet
      BY <1>3 DEF BookUnreserve, SameBooks, moneyVars, ledgerVars, envVars
    <2>2. QED BY <2>1, BooksFinish DEF Charged
  <1>4. CASE BookInsert(w)
    <2>1. Goto(w, "book_insert", "book_post") /\ SameBooks /\ wallet' = wallet
      BY <1>0, <1>4 DEF BookInsert, SameBooks, moneyVars, ledgerVars, envVars
    <2>2. QED BY <2>1, ChargeGoes DEF Charged
  <1>5. CASE BookCompUnit(w) \/ BookGiveBack(w)
    BY <1>0, <1>5 DEF BookCompUnit, BookGiveBack, Goto, Finish, ReadIsFresh
  <1>6. CASE BookPost(w)
    <2>1. PostHold(req[w].bk, Gross(req[w].hrs))
          /\ UNCHANGED <<deposited, paused, wallet, earnings, revenue>>
      BY <1>6 DEF BookPost, moneyVars, envVars
    <2>2. /\ Others(w) /\ pc[w] = "book_post" /\ Bare(pc'[w])
          /\ pc'[w] # "idle" => req'[w].bk = req[w].bk
      BY <1>0, <1>6, GotoMoves, FinishMoves, BareNames DEF BookPost
    <2>3. QED BY <2>1, <2>2, ChargePosted DEF Charged
  <1>7. CASE LaunchVM(w)
    <2>1. Finish(w, "launch") /\ SameBooks /\ wallet' = wallet
      BY <1>7 DEF LaunchVM, SameBooks, moneyVars, ledgerVars, envVars
    <2>2. QED BY <2>1, BooksFinish DEF Charged
  <1>8. QED BY <1>1, <1>2, <1>3, <1>4, <1>5, <1>6, <1>7 DEF BookStep

LEMMA BooksExtendStep ==
  ASSUME BooksInv, PaymentInv, TypeOK', Frozen, NEW w \in Workers, ExtendStep(w)
  PROVE  BooksInv'
  <1>0. TypeOK
    BY DEF PaymentInv
  <1>1. CASE ExtendGrow(w)
    <2>1. /\ Goto(w, "ext_grow", "ext_post") \/ Goto(w, "ext_grow", "ext_giveback")
          /\ SameBooks /\ wallet' = wallet
      BY <1>1 DEF ExtendGrow, SameBooks, moneyVars, ledgerVars, envVars
    <2>2. QED BY <2>1, ChargeGoes DEF Charged
  <1>2. CASE ExtendGiveBack(w)
    <2>1. Finish(w, "ext_giveback") /\ SameBooks /\ Credit(Payer[req[w].bk], Gross(req[w].hrs))
      BY <1>2 DEF ExtendGiveBack, SameBooks, ledgerVars, envVars
    <2>2. Others(w) /\ pc[w] = "ext_giveback" /\ pc'[w] = "idle"
      BY <1>0, <2>1, FinishMoves
    <2>3. PICK c \in Bookings : c = req[w].bk
      BY <1>0, <2>2 DEF TypeOK
    <2>4. PICK m \in Int : m = Gross(req[w].hrs)
      BY <1>0, RequestValues
    <2>5. pc[w] \in Charged
      BY <2>2 DEF Charged
    <2>6. Due(w) = -m /\ Earned[w] = 0 /\ Kept[w] = 0
      BY <2>4, <2>5, ChargeDue
    <2>7. Due(w)' = Due(w) + m /\ Earned'[w] = 0 /\ Kept'[w] = 0 /\ ReadIsFresh(w)'
      BY <2>2, <2>6, BareOf, BareNames
    <2>8. Credit(Payer[c], m)
      BY <2>1, <2>3, <2>4
    <2>9. QED BY <2>1, <2>2, <2>3, <2>6, <2>7, <2>8, BooksWallet
  <1>3. CASE ExtendPost(w)
    <2>1. Goto(w, "ext_post", "ext_window") /\ PostHold(req[w].bk, Gross(req[w].hrs))
          /\ UNCHANGED <<deposited, paused, wallet, earnings, revenue>>
      BY <1>3 DEF ExtendPost, moneyVars, envVars
    <2>2. Others(w) /\ pc[w] = "ext_post" /\ Bare(pc'[w]) /\ req'[w].bk = req[w].bk
      BY <1>0, <2>1, GotoMoves, BareNames
    <2>3. QED BY <2>1, <2>2, ChargePosted DEF Charged
  <1>4. CASE ExtendWindow(w)
    <2>1. Finish(w, "ext_window") /\ SameBooks /\ wallet' = wallet
      BY <1>4 DEF ExtendWindow, SameBooks, moneyVars, ledgerVars, envVars
    <2>2. QED BY <2>1, BooksFinish DEF Charged
  <1>5. QED BY <1>1, <1>2, <1>3, <1>4 DEF ExtendStep

(* With one unit, one worker at a time holds it. *)
LEMMA OneHolder ==
  ASSUME TypeOK, CapInv, Units <= 1, NEW v \in Workers, NEW w \in Workers, HoldsUnit(v), HoldsUnit(w)
  PROVE  v = w
  <1> SUFFICES ASSUME v # w PROVE FALSE
    OBVIOUS
  <1>1. {v, w} \subseteq Holders
    BY DEF Holders
  <1>2. Cardinality({v, w}) = 2
    <2>1. IsFiniteSet({w}) /\ Cardinality({w}) = 1
      BY FS_Singleton
    <2>2. {w} \cup {v} = {v, w} /\ v \notin {w}
      OBVIOUS
    <2>3. QED BY <2>1, <2>2, FS_AddElement
  <1>3. Cardinality(Holders) >= 2 /\ Cardinality(Holders) \in Nat
        /\ Cardinality(LiveBookings) \in Nat
    BY <1>1, <1>2, CapSets, FS_Subset, FS_CardinalityType
  <1>4. QED BY <1>3, CapSets, SizeAssumption DEF CapInv, NeverOversold, TypeOK

LEMMA OnlySettler ==
  ASSUME BooksInv, TypeOK, CapInv, NEW w \in Workers,
         pc[w] \in {"stop_pay", "rel_read", "rel_pay"}, NEW v \in Workers \ {w}
  PROVE  pc[v] # "rel_pay"
  <1>1. pc[v] = "rel_pay" => Units <= 1 /\ HoldsUnit(v)
    BY DEF BooksInv, ReadIsFresh, HoldsUnit
  <1>2. HoldsUnit(w)
    BY DEF HoldsUnit
  <1>3. QED BY <1>1, <1>2, OneHolder

(* The entries that drain an escrow account. *)
LEMMA DrainEntries ==
  ASSUME TypeOK, NEW c \in Bookings, NEW s \in Int, NEW p \in Int, NEW r \in Int, PostOut(c, s, p, r)
  PROVE  /\ BackLessHeld[c] \in Int /\ BackLessHeld'[c] = BackLessHeld[c] + r
         /\ ToSeller[c] \in Int /\ ToSeller'[c] = ToSeller[c] + s
         /\ ToPlatform[c] \in Int /\ ToPlatform'[c] = ToPlatform[c] + p
         /\ \A b \in Bookings \ {c} : legs'[b] = legs[b]
  <1>1. legs'[c] = [hold |-> legs[c].hold, seller |-> legs[c].seller + s,
                    platform |-> legs[c].platform + p, back |-> legs[c].back + r]
        /\ \A b \in Bookings \ {c} : legs'[b] = legs[b]
    BY DEF TypeOK, PostOut
  <1>2. /\ legs[c].hold \in Int /\ legs[c].seller \in Int
        /\ legs[c].platform \in Int /\ legs[c].back \in Int
    BY LegFields DEF TypeOK
  <1>3. /\ BackLessHeld[c] = legs[c].back - legs[c].hold /\ ToSeller[c] = legs[c].seller
        /\ ToPlatform[c] = legs[c].platform
        /\ BackLessHeld'[c] = legs[c].back + r - legs[c].hold /\ ToSeller'[c] = legs[c].seller + s
        /\ ToPlatform'[c] = legs[c].platform + p
    <2>1. /\ legs'[c].hold = legs[c].hold /\ legs'[c].seller = legs[c].seller + s
          /\ legs'[c].platform = legs[c].platform + p /\ legs'[c].back = legs[c].back + r
      BY <1>1
    <2>2. /\ BackLessHeld[c] = legs[c].back - legs[c].hold
          /\ BackLessHeld'[c] = legs'[c].back - legs'[c].hold
      BY DEF BackLessHeld
    <2>3. /\ ToSeller[c] = legs[c].seller /\ ToPlatform[c] = legs[c].platform
          /\ ToSeller'[c] = legs'[c].seller /\ ToPlatform'[c] = legs'[c].platform
      BY DEF ToSeller, ToPlatform
    <2>4. QED BY <1>2, <2>1, <2>2, <2>3
  <1>4. QED BY <1>1, <1>2, <1>3

LEMMA BooksStopPay ==
  ASSUME BooksInv, PaymentInv, CapInv, TypeOK', Frozen, NEW w \in Workers, StopPay(w) \/ StopPost(w)
  PROVE  BooksInv'
  <1>0. TypeOK /\ booking' = booking /\ pc[w] \in {"stop_pay", "stop_post"}
    BY DEF PaymentInv, StopPay, StopPost, Goto
  <1>1. PICK c \in Bookings : c = req[w].bk
    BY <1>0 DEF TypeOK
  <1>2. PICK h \in Nat : h = booking[c].hours
    BY <1>0, BookingFields DEF TypeOK
  <1>3. Used(req[w].seen, h) \in Nat
    BY <1>0, UsedType, RequestFields DEF TypeOK
  <1>4. PICK u \in Nat : u = UsedBy(w)
    BY <1>1, <1>2, <1>3 DEF UsedBy
  <1>5. Payout(u) \in Int /\ FeeOf(u) \in Int /\ Gross(h) - Gross(u) \in Int
    BY SplitExact
  <1>6. PICK s \in Int, p \in Int, r \in Int :
          s = Payout(u) /\ p = FeeOf(u) /\ r = Gross(h) - Gross(u)
    BY <1>5
  <1>7. PostMetered(w) => PostOut(c, s, p, r)
    BY <1>1, <1>2, <1>4, <1>6 DEF PostMetered, UsedBy
  <1>8. pc[w] = "stop_pay" => Due(w) = 0 /\ Earned[w] = 0 /\ Kept[w] = 0
    BY BareOf, BareNames
  <1>9. pc[w] = "stop_post" => Due(w) = r /\ Earned[w] = s /\ Kept[w] = p
    BY <1>1, <1>2, <1>4, <1>6, StopDue
  <1>10. wallet[Payer[c]] \in Int /\ earnings \in Int /\ revenue \in Int /\ Payer[c] \in Wallets
    BY <1>0, NameAssumption DEF TypeOK
  <1>11. ASSUME StopPay(w) PROVE BooksInv'
    <2>1. /\ pc[w] = "stop_pay" /\ earnings' = earnings + s /\ revenue' = revenue + p
          /\ Credit(Payer[c], r) /\ deposited' = deposited /\ paused' = paused
      BY <1>1, <1>2, <1>4, <1>6, <1>11 DEF StopPay, UsedBy, envVars
    <2>2. wallet'[Payer[c]] = wallet[Payer[c]] + r
          /\ \A x \in Wallets \ {Payer[c]} : wallet'[x] = wallet[x]
      BY <1>0, <1>10, <2>1 DEF Credit, TypeOK
    <2>3. \A v \in Workers \ {w} : pc[v] # "rel_pay"
      BY <1>0, <2>1, OnlySettler
    <2>4. CASE Goto(w, "stop_pay", "stop_post") /\ legs' = legs
      <3>1. Others(w) /\ pc'[w] = "stop_post" /\ req'[w] = req[w]
        BY <1>0, <2>4, GotoMoves
      <3>2. UsedBy(w)' = u
        BY <1>0, <1>4, <3>1 DEF UsedBy
      <3>3. Due(w)' = r /\ Earned'[w] = s /\ Kept'[w] = p
        BY <1>0, <1>1, <1>2, <1>6, <3>1, <3>2, StopDue
      <3>4. /\ BackLessHeld'[c] = BackLessHeld[c] /\ ToSeller'[c] = ToSeller[c]
            /\ ToPlatform'[c] = ToPlatform[c] /\ BackLessHeld[c] \in Int
            /\ ToSeller[c] \in Int /\ ToPlatform[c] \in Int
        BY <1>0, <2>4, EntryTypes DEF BackLessHeld, ToSeller, ToPlatform
      <3>5. wallet'[Payer[c]] + BackLessHeld[c] + Due(w)
              = wallet[Payer[c]] + BackLessHeld'[c] + Due(w)'
        BY <1>8, <1>10, <2>1, <2>2, <3>3, <3>4
      <3>6. /\ earnings' + ToSeller[c] + Earned[w] = earnings + ToSeller'[c] + Earned'[w]
            /\ revenue' + ToPlatform[c] + Kept[w] = revenue + ToPlatform'[c] + Kept'[w]
        BY <1>8, <1>10, <2>1, <3>3, <3>4
      <3>7. ReadIsFresh(w)'
        BY <3>1 DEF ReadIsFresh
      <3>8. QED BY <1>1, <2>1, <2>2, <2>3, <2>4, <3>1, <3>5, <3>6, <3>7, BooksMove
    <2>5. CASE Goto(w, "stop_pay", "unit") /\ PostMetered(w)
      <3>1. Others(w) /\ pc'[w] = "unit" /\ req'[w] = req[w]
        BY <1>0, <2>5, GotoMoves
      <3>2. Due(w)' = 0 /\ Earned'[w] = 0 /\ Kept'[w] = 0 /\ ReadIsFresh(w)'
        BY <3>1, BareOf, BareNames
      <3>3. /\ BackLessHeld[c] \in Int /\ BackLessHeld'[c] = BackLessHeld[c] + r
            /\ ToSeller[c] \in Int /\ ToSeller'[c] = ToSeller[c] + s
            /\ ToPlatform[c] \in Int /\ ToPlatform'[c] = ToPlatform[c] + p
            /\ \A b \in Bookings \ {c} : legs'[b] = legs[b]
        BY <1>0, <1>7, <2>5, DrainEntries
      <3>4. wallet'[Payer[c]] + BackLessHeld[c] + Due(w)
              = wallet[Payer[c]] + BackLessHeld'[c] + Due(w)'
        BY <1>8, <1>10, <2>1, <2>2, <3>2, <3>3
      <3>5. /\ earnings' + ToSeller[c] + Earned[w] = earnings + ToSeller'[c] + Earned'[w]
            /\ revenue' + ToPlatform[c] + Kept[w] = revenue + ToPlatform'[c] + Kept'[w]
        BY <1>8, <1>10, <2>1, <3>2, <3>3
      <3>6. QED BY <1>1, <2>1, <2>2, <2>3, <3>1, <3>2, <3>3, <3>4, <3>5, BooksMove
    <2>6. QED BY <1>11, <2>4, <2>5 DEF StopPay
  <1>12. ASSUME StopPost(w) PROVE BooksInv'
    <2>1. /\ Goto(w, "stop_post", "unit") /\ PostMetered(w)
          /\ UNCHANGED <<wallet, earnings, revenue, deposited, paused>>
      BY <1>12 DEF StopPost, moneyVars, envVars
    <2>2. Others(w) /\ pc[w] = "stop_post" /\ pc'[w] = "unit" /\ req'[w] = req[w]
      BY <1>0, <2>1, GotoMoves
    <2>3. Due(w)' = 0 /\ Earned'[w] = 0 /\ Kept'[w] = 0 /\ ReadIsFresh(w)'
      BY <2>2, BareOf, BareNames
    <2>4. /\ BackLessHeld[c] \in Int /\ BackLessHeld'[c] = BackLessHeld[c] + r
          /\ ToSeller[c] \in Int /\ ToSeller'[c] = ToSeller[c] + s
          /\ ToPlatform[c] \in Int /\ ToPlatform'[c] = ToPlatform[c] + p
          /\ \A b \in Bookings \ {c} : legs'[b] = legs[b]
      BY <1>0, <1>7, <2>1, DrainEntries
    <2>5. wallet'[Payer[c]] + BackLessHeld[c] + Due(w)
            = wallet[Payer[c]] + BackLessHeld'[c] + Due(w)'
      BY <1>9, <1>10, <2>1, <2>2, <2>3, <2>4
    <2>6. /\ earnings' + ToSeller[c] + Earned[w] = earnings + ToSeller'[c] + Earned'[w]
          /\ revenue' + ToPlatform[c] + Kept[w] = revenue + ToPlatform'[c] + Kept'[w]
      BY <1>9, <1>10, <2>1, <2>2, <2>3, <2>4
    <2>7. QED BY <1>1, <2>1, <2>2, <2>3, <2>4, <2>5, <2>6, BooksMove
  <1>13. QED BY <1>11, <1>12

LEMMA BooksStopStep ==
  ASSUME BooksInv, PaymentInv, CapInv, TypeOK', Frozen, NEW w \in Workers, StopStep(w)
  PROVE  BooksInv'
  <1>1. CASE StopSettle(w)
    <2>1. /\ Goto(w, "stop_settle", "stop_pay") \/ Finish(w, "stop_settle")
          /\ SameBooks /\ wallet' = wallet
      BY <1>1 DEF StopSettle, SameBooks, moneyVars, ledgerVars, envVars
    <2>2. QED BY <2>1, BooksGoto, BooksFinish, BareNames DEF Charged
  <1>2. QED BY <1>1, BooksStopPay DEF StopStep

LEMMA ReadMoves ==
  ASSUME TypeOK, NEW w \in Workers, NEW from, NEW to, NEW h, NEW s, NEW r,
         GotoWith(w, from, to, h, s, r)
  PROVE  req'[w].seen = s /\ req'[w].rev = r
  <1>1. req[w] \in Request /\ req'[w] = [req[w] EXCEPT !.hrs = h, !.seen = s, !.rev = r]
    BY DEF GotoWith, TypeOK
  <1>2. QED BY <1>1 DEF Request

LEMMA BooksReleaseStep ==
  ASSUME EscrowInv, BooksInv, PaymentInv, CapInv, TypeOK', Frozen, NEW w \in Workers, ReleaseStep(w)
  PROVE  BooksInv'
  <1>0. TypeOK /\ ReadIsFresh(w)
    BY DEF PaymentInv, BooksInv
  <1>1. ASSUME NEW from \in {"rel_cas", "rel_read"}, NEW to \in {"rel_read", "rel_pay"},
               NEW h, NEW s, NEW r, GotoWith(w, from, to, h, s, r), SameBooks, wallet' = wallet,
               to = "rel_pay" => s = earnings /\ r = revenue
        PROVE  BooksInv'
    <2>1. /\ Others(w) /\ pc[w] = from /\ pc'[w] = to /\ req'[w].bk = req[w].bk
          /\ req'[w].seen = s /\ req'[w].rev = r
      BY <1>0, <1>1, GotoWithMoves, ReadMoves
    <2>2. PICK c \in Bookings : c = req[w].bk
      BY <1>0, <2>1 DEF TypeOK
    <2>3. Due(w) = 0 /\ Earned[w] = 0 /\ Kept[w] = 0
      BY <2>1, NothingDue DEF Charged
    <2>4. Due(w)' = 0 /\ Earned'[w] = 0 /\ Kept'[w] = 0
      BY <2>1, NothingDue DEF Charged
    <2>5. Units <= 1
      BY <1>0, <2>1 DEF ReadIsFresh
    <2>6. ReadIsFresh(w)'
      BY <1>1, <2>1, <2>5 DEF ReadIsFresh, SameBooks
    <2>7. QED BY <1>1, <2>1, <2>2, <2>3, <2>4, <2>6, BooksSame
  <1>2. CASE ReleaseCas(w)
    <2>1. /\ \/ GotoWith(w, "rel_cas", "rel_read", req[w].hrs, 0, 0)
             \/ GotoWith(w, "rel_cas", "rel_read", booking[req[w].bk].hours, 0, 0)
             \/ Goto(w, "rel_cas", "exp_stop") \/ Finish(w, "rel_cas")
          /\ SameBooks /\ wallet' = wallet
      BY <1>2 DEF ReleaseCas, SameBooks, moneyVars, ledgerVars, envVars
    <2>2. CASE Goto(w, "rel_cas", "exp_stop") \/ Finish(w, "rel_cas")
      BY <2>1, <2>2, BooksGoto, BooksFinish, BareNames DEF Charged
    <2>3. ASSUME NEW h, GotoWith(w, "rel_cas", "rel_read", h, 0, 0) PROVE BooksInv'
      BY <1>1, <2>1, <2>3
    <2>4. QED BY <1>2, <2>1, <2>2, <2>3
  <1>3. CASE ReleaseRead(w)
    <2>1. /\ GotoWith(w, "rel_read", "rel_pay", req[w].hrs, earnings, revenue)
          /\ SameBooks /\ wallet' = wallet
      BY <1>3 DEF ReleaseRead, SameBooks, moneyVars, ledgerVars, envVars
    <2>2. PICK h, s, r : h = req[w].hrs /\ s = earnings /\ r = revenue
      OBVIOUS
    <2>3. GotoWith(w, "rel_read", "rel_pay", h, s, r)
      BY <2>1, <2>2
    <2>4. QED BY <1>1, <2>1, <2>2, <2>3
  <1>4. CASE ReleasePay(w)
    <2>1. /\ Goto(w, "rel_pay", "unit")
          /\ earnings' = req[w].seen + Payout(req[w].hrs)
          /\ revenue' = req[w].rev + FeeOf(req[w].hrs)
          /\ PostOut(req[w].bk, Payout(req[w].hrs), FeeOf(req[w].hrs), 0)
          /\ UNCHANGED <<wallet, deposited, paused>>
      BY <1>4 DEF ReleasePay, envVars
    <2>2. Others(w) /\ pc[w] = "rel_pay" /\ pc'[w] = "unit" /\ req'[w] = req[w]
      BY <1>0, <2>1, GotoMoves
    <2>3. PICK c \in Bookings : c = req[w].bk
      BY <1>0, <2>2 DEF TypeOK
    <2>4. PICK s \in Int, p \in Int : s = Payout(req[w].hrs) /\ p = FeeOf(req[w].hrs)
      BY <1>0, RequestValues
    <2>5. earnings' = earnings + s /\ revenue' = revenue + p /\ PostOut(c, s, p, 0)
      BY <1>0, <2>1, <2>2, <2>3, <2>4 DEF ReadIsFresh
    <2>6. /\ BackLessHeld[c] \in Int /\ BackLessHeld'[c] = BackLessHeld[c] + 0
          /\ ToSeller[c] \in Int /\ ToSeller'[c] = ToSeller[c] + s
          /\ ToPlatform[c] \in Int /\ ToPlatform'[c] = ToPlatform[c] + p
          /\ \A b \in Bookings \ {c} : legs'[b] = legs[b]
      BY <1>0, <2>5, DrainEntries
    <2>7. Due(w) = 0 /\ Earned[w] = 0 /\ Kept[w] = 0
      BY <2>2, NothingDue DEF Charged
    <2>8. Due(w)' = 0 /\ Earned'[w] = 0 /\ Kept'[w] = 0 /\ ReadIsFresh(w)'
      BY <2>2, BareOf, BareNames
    <2>9. wallet[Payer[c]] \in Int /\ earnings \in Int /\ revenue \in Int /\ wallet' = wallet
      BY <1>0, <2>1, NameAssumption DEF TypeOK
    <2>10. wallet'[Payer[c]] + BackLessHeld[c] + Due(w)
             = wallet[Payer[c]] + BackLessHeld'[c] + Due(w)'
      BY <2>6, <2>7, <2>8, <2>9
    <2>11. /\ earnings' + ToSeller[c] + Earned[w] = earnings + ToSeller'[c] + Earned'[w]
           /\ revenue' + ToPlatform[c] + Kept[w] = revenue + ToPlatform'[c] + Kept'[w]
      BY <2>5, <2>6, <2>7, <2>8, <2>9
    <2>12. \A v \in Workers \ {w} : pc[v] # "rel_pay"
      BY <1>0, <2>2, OnlySettler
    <2>13. QED BY <2>1, <2>2, <2>3, <2>6, <2>8, <2>9, <2>10, <2>11, <2>12, BooksMove
  <1>5. CASE ReleaseUnit(w)
    <2>1. /\ Goto(w, "unit", "exp_stop") \/ Finish(w, "unit")
          /\ SameBooks /\ wallet' = wallet
      BY <1>5 DEF ReleaseUnit, SameBooks, moneyVars, ledgerVars, envVars
    <2>2. QED BY <2>1, BooksGoto, BooksFinish, BareNames DEF Charged
  <1>6. CASE ExpireStop(w)
    <2>1. Finish(w, "exp_stop") /\ SameBooks /\ wallet' = wallet
      BY <1>6 DEF ExpireStop, SameBooks, moneyVars, ledgerVars, envVars
    <2>2. QED BY <2>1, BooksFinish DEF Charged
  <1>7. QED BY <1>2, <1>3, <1>4, <1>5, <1>6 DEF ReleaseStep

(* No worker moves, and no booking's hours change. *)
LEMMA BooksStay ==
  ASSUME BooksInv, pc' = pc, req' = req, SameBooks, wallet' = wallet, TypeOK,
         \A b \in Bookings : booking'[b].hours = booking[b].hours
  PROVE  BooksInv'
  <1>1. \A w \in Workers : pc[w] = "stop_post" => req[w].bk \in Bookings
    BY DEF TypeOK
  <1>2. \A w \in Workers : pc[w] = "stop_post" => UsedBy(w)' = UsedBy(w)
    BY <1>1 DEF UsedBy
  <1>3. \A w \in Workers : Due(w)' = Due(w)
    BY <1>1, <1>2 DEF Due
  <1>4. Earned' = Earned /\ Kept' = Kept
    BY <1>2 DEF Earned, Kept
  <1>5. \A x \in Wallets : Dues(x)' = Dues(x)
    BY <1>3 DEF Dues
  <1>6. ToSeller' = ToSeller /\ ToPlatform' = ToPlatform
        /\ \A x \in Wallets : LedgerWallet(x)' = LedgerWallet(x)
    BY DEF SameBooks, ToSeller, ToPlatform, LedgerWallet
  <1>7. \A w \in Workers : ReadIsFresh(w)'
    BY DEF BooksInv, ReadIsFresh, SameBooks
  <1>8. ~paused'
    BY Zenon DEF BooksInv, SameBooks
  <1>9. earnings' = earnings /\ revenue' = revenue
    BY DEF SameBooks
  <1>10. QED BY <1>4, <1>5, <1>6, <1>7, <1>8, <1>9 DEF BooksInv

LEMMA BooksInductive ==
  ASSUME WritesInPlace
  PROVE  BooksInv /\ EscrowInv /\ CapInv /\ PaymentInv /\ [Next]_vars => BooksInv'
  <1> SUFFICES ASSUME BooksInv, EscrowInv, CapInv, PaymentInv, [Next]_vars PROVE BooksInv'
    OBVIOUS
  <1>1. TypeOK /\ TypeOK' /\ Frozen
    BY TypeInductive, FrozenStep DEF PaymentInv
  <1>2. ASSUME NEW w \in Workers, RefundStep(w) PROVE FALSE
    <2>1. pc[w] \in Refunding \cup {"ref_cas"}
      BY <1>2 DEF RefundStep, RefundCas, RefundRead, RefundWrite, RefundPost, RefundOrg,
                  RefundOrgUnit, Goto, GotoWith, Finish, Refunding
    <2>2. QED BY <2>1 DEF EscrowInv, FreshOK
  <1>3. ASSUME NEW w \in Workers, TopupWrite(w) PROVE FALSE
    BY <1>3 DEF TopupWrite, Finish, BooksInv, ReadIsFresh
  <1>4. ASSUME NEW w \in Workers, Crash(w) PROVE FALSE
    <2>1. count.crashes \in Nat
      BY <1>1 DEF TypeOK, Counts
    <2>2. QED BY <1>4, <2>1 DEF Crash, WritesInPlace
  <1>5. ASSUME NEW b \in Bookings, MarkActive(b) PROVE BooksInv'
    <2>1. /\ pc' = pc /\ req' = req /\ SameBooks /\ wallet' = wallet
          /\ booking' = [booking EXCEPT ![b].status = "active"]
      BY <1>5 DEF MarkActive, SameBooks, moneyVars, ledgerVars, envVars
    <2>2. \A c \in Bookings : booking'[c].hours = booking[c].hours
      BY <1>1, <2>1 DEF TypeOK, BookingRow
    <2>3. QED BY <1>1, <2>1, <2>2, BooksStay
  <1>6. CASE Tick \/ UNCHANGED vars
    <2>1. pc' = pc /\ req' = req /\ SameBooks /\ wallet' = wallet /\ booking' = booking
      BY <1>6 DEF Tick, vars, SameBooks, moneyVars, ledgerVars
    <2>2. QED BY <1>1, <2>1, BooksStay
  <1>7. ~SetPaused
    BY DEF SetPaused, WritesInPlace
  <1>8. QED
    BY <1>1, <1>2, <1>3, <1>4, <1>5, <1>6, <1>7, BooksArrive, BooksBookStep, BooksExtendStep,
       BooksStopStep, BooksReleaseStep
    DEF Next, Continue

LEMMA BooksInit == Init => BooksInv
  <1> SUFFICES ASSUME Init PROVE BooksInv
    OBVIOUS
  <1>1. \A w \in Workers : pc[w] = "idle" /\ Due(w) = 0 /\ Earned[w] = 0 /\ Kept[w] = 0
    BY DEF Init, Due, Earned, Kept, Charged
  <1>2. /\ SumFunctionOnSet(Earned, Workers) = 0 /\ SumFunctionOnSet(Kept, Workers) = 0
        /\ \A x : SumFunctionOnSet(Dues(x), Workers) = 0
    <2>1. \A x : \A w \in Workers : Dues(x)[w] = 0
      BY <1>1 DEF Dues
    <2>2. QED BY <1>1, <2>1, FiniteAssumption, SumZero
  <1>3. \A b \in Bookings : BackLessHeld[b] = 0 /\ ToSeller[b] = 0 /\ ToPlatform[b] = 0
    BY DEF Init, NoLegs, BackLessHeld, ToSeller, ToPlatform
  <1>4. /\ SumFunctionOnSet(ToSeller, Bookings) = 0 /\ SumFunctionOnSet(ToPlatform, Bookings) = 0
    BY <1>3, FiniteAssumption, SumZero
  <1>5. ASSUME NEW x \in Wallets
        PROVE  wallet[x] = LedgerWallet(x) + SumFunctionOnSet(Dues(x), Workers)
    <2>1. IsFiniteSet(PaidBy(x)) /\ \A b \in PaidBy(x) : BackLessHeld[b] = 0
      BY <1>3, FiniteAssumption, FS_Subset DEF PaidBy
    <2>2. SumFunctionOnSet(BackLessHeld, PaidBy(x)) = 0
      BY <2>1, SumZero
    <2>3. LedgerWallet(x) = Funds + 0
      BY <2>2, LedgerSum DEF Init
    <2>4. QED BY <1>2, <2>3, MoneyAssumption DEF Init
  <1>6. \A w \in Workers : ReadIsFresh(w)
    BY <1>1 DEF ReadIsFresh
  <1>7. earnings = 0 /\ revenue = 0
    BY DEF Init
  <1>8. ~paused
    BY Zenon DEF Init
  <1>9. QED BY <1>2, <1>4, <1>5, <1>6, <1>7, <1>8 DEF BooksInv

LEMMA BooksWhenIdle == TypeOK /\ BooksInv => WalletsAreLedgerCaches
  <1> SUFFICES ASSUME TypeOK, BooksInv, \A w \in Workers : pc[w] = "idle"
               PROVE  /\ \A x \in Wallets : wallet[x] = LedgerWallet(x)
                      /\ earnings = SumFunctionOnSet(ToSeller, Bookings)
                      /\ revenue = SumFunctionOnSet(ToPlatform, Bookings)
    BY DEF WalletsAreLedgerCaches, ToSeller, ToPlatform
  <1>1. \A w \in Workers : Due(w) = 0 /\ Earned[w] = 0 /\ Kept[w] = 0
    BY BareOf, BareNames
  <1>2. /\ SumFunctionOnSet(Earned, Workers) = 0 /\ SumFunctionOnSet(Kept, Workers) = 0
        /\ \A x : SumFunctionOnSet(Dues(x), Workers) = 0
    <2>1. \A x : \A w \in Workers : Dues(x)[w] = 0
      BY <1>1 DEF Dues
    <2>2. QED BY <1>1, <2>1, FiniteAssumption, SumZero
  <1>3. \A b \in Bookings : BackLessHeld[b] \in Int /\ ToSeller[b] \in Int /\ ToPlatform[b] \in Int
    BY EntryTypes
  <1>4. /\ SumFunctionOnSet(ToSeller, Bookings) \in Int
        /\ SumFunctionOnSet(ToPlatform, Bookings) \in Int
    BY <1>3, FiniteAssumption, SumType
  <1>5. ASSUME NEW x \in Wallets PROVE LedgerWallet(x) \in Int
    <2>1. IsFiniteSet(PaidBy(x)) /\ \A b \in PaidBy(x) : BackLessHeld[b] \in Int
      BY <1>3, FiniteAssumption, FS_Subset DEF PaidBy
    <2>2. SumFunctionOnSet(BackLessHeld, PaidBy(x)) \in Int
      BY <2>1, SumType
    <2>3. QED BY <2>2, LedgerSum DEF TypeOK
  <1>6. QED BY <1>2, <1>4, <1>5 DEF BooksInv

(* When no request is under way, every wallet, the seller's earnings and    *)
(* the platform's revenue are what the ledger's entries add up to: for any  *)
(* number of bookings, wallets and workers, where no handler dies and none  *)
(* writes back a balance that another may have changed since it read it.    *)
THEOREM WalletsAreCachesHolds == WritesInPlace => (Spec => []WalletsAreLedgerCaches)
  <1> SUFFICES ASSUME WritesInPlace PROVE Spec => []WalletsAreLedgerCaches
    OBVIOUS
  <1>1. SettlesFresh
    BY DEF WritesInPlace, SettlesFresh
  <1>2. EscrowInv /\ PaymentInv /\ [Next]_vars => EscrowInv'
    BY <1>1, EscrowInductive
  <1>3. BooksInv /\ EscrowInv /\ CapInv /\ PaymentInv /\ [Next]_vars => BooksInv'
    BY BooksInductive
  <1>4. PaymentInv => TypeOK
    BY DEF PaymentInv
  <1>5. QED
    BY <1>2, <1>3, <1>4, EscrowInit, BooksInit, BooksWhenIdle, PaymentInvHolds, CapInvHolds, PTL
    DEF Spec
=============================================================================
