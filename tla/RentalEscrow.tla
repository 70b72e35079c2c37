---------------------------- MODULE RentalEscrow ----------------------------
(***************************************************************************)
(* A prepaid rental of a GPU host: the buyer's wallet, the escrow of each  *)
(* booking, the settlement that drains it, and the double-entry ledger the *)
(* wallet fields are caches of (lumaris_api/db.py, the wallet path).       *)
(*                                                                         *)
(* Every request runs in a worker thread with its own database session,    *)
(* and every db.commit() is a point where the others may interleave: an    *)
(* action here is what one commit makes visible (or one read whose value a *)
(* later commit uses), and pc[w] says which one worker w does next.  A     *)
(* handler that raised or whose process died leaves its remaining steps    *)
(* undone: Crash.  Handlers selects the request kinds an instance runs.    *)
(*                                                                         *)
(* Money is counted in minor units; a rental of h hours costs Rate * h, of *)
(* which Fee * h is the platform's.  A booking is a slot of Bookings whose *)
(* paying wallet is fixed (personal, or of an organisation).  One host of  *)
(* Units GPU units and one seller; the moves of a rental between hosts are *)
(* the subject of VMFailover.                                              *)
(***************************************************************************)
EXTENDS Integers, FiniteSets, Functions

CONSTANTS
  Bookings,      \* slots for rows of table bookings
  Wallets,       \* paying wallets: users.balance and orgs.balance
  OrgWallets,    \* those of Wallets that are organisation wallets
  Payer,         \* the wallet that pays for each booking
  Workers,       \* request threads and maintenance loops
  Rate, Fee,     \* price of an hour and the platform's share of it
  Hours,         \* hours a request may book or add
  MaxHours,      \* bound on the hours of one booking
  Funds,         \* initial content of every wallet, posted as deposits
  Units,         \* total_units of the host
  MaxClock,      \* bound on the clock
  MaxTopups,     \* bound on the top-ups
  MaxPauses,     \* bound on the flips of the kill switch
  MaxCrashes,    \* bound on the handlers that die between two commits
  Handlers       \* request kinds enabled in this instance

AllHandlers == {"book", "launch", "extend", "stop", "accept", "result",
                "expire", "reap", "topup", "pause"}

ASSUME MoneyAssumption == Rate \in Nat /\ Fee \in Nat /\ Fee <= Rate /\ Funds \in Nat
ASSUME SizeAssumption == /\ Hours \subseteq Nat \ {0} /\ MaxHours \in Nat
                         /\ Units \in Nat /\ MaxClock \in Nat /\ MaxTopups \in Nat
                         /\ MaxPauses \in Nat /\ MaxCrashes \in Nat
ASSUME NameAssumption == /\ Payer \in [Bookings -> Wallets] /\ OrgWallets \subseteq Wallets
                         /\ Handlers \subseteq AllHandlers
ASSUME FiniteAssumption == IsFiniteSet(Bookings) /\ IsFiniteSet(Workers)

VARIABLES
  booking,    \* bookings: status and hours (the amounts are functions of hours)
  vm,         \* vm_routes, by booking: status, started_at, paid_until
  avail,      \* specs.available_units
  wallet,     \* users.balance / orgs.balance
  earnings,   \* users.earnings of the seller
  revenue,    \* platform.revenue
  deposited,  \* ledger: credits of deposits to each wallet's account
  legs,       \* ledger: per booking, what entered and left its escrow account
  paused,     \* platform.bookings_paused, the kill switch
  clock,      \* hours since the start
  count,      \* top-ups, pauses and crashes so far, for their bounds
  pc,         \* where each worker is in its handler
  req         \* the handler's local variables

moneyVars == <<wallet, earnings, revenue>>
ledgerVars == <<deposited, legs>>
envVars == <<paused, clock, count>>
vars == <<booking, vm, avail, wallet, earnings, revenue, deposited, legs,
          paused, clock, count, pc, req>>

-----------------------------------------------------------------------------
(* Amounts and states *)

Gross(h) == Rate * h
FeeOf(h) == Fee * h
Payout(h) == (Rate - Fee) * h

Live == {"escrowed", "active"}
Terminal == {"released", "refunded"}

Labels == {"idle", "book_debit", "book_unreserve", "book_insert", "book_comp",
           "book_giveback", "book_post", "launch",
           "ext_grow", "ext_giveback", "ext_post", "ext_window",
           "stop_settle", "stop_pay", "stop_post",
           "rel_cas", "rel_read", "rel_pay", "unit", "exp_stop",
           "ref_cas", "ref_read", "ref_write", "ref_org", "ref_org_unit",
           "ref_post", "topup"}

BookingRow == [status : {"none"} \cup Live \cup Terminal, hours : Nat]
VMRow == [status : {"none", "live", "stopped"}, started : Nat, until : Nat]
EscrowLegs == [hold : Int, seller : Int, platform : Int, back : Int]
Counts == [topups : Nat, pauses : Nat, crashes : Nat]

(* hrs: the hours the handler is about, or those of a booking row it keeps *)
(* in its session; seen: a value read in an earlier step (a balance, a     *)
(* window's end, the hours used); rev: platform.revenue as read.           *)
Request == [op : AllHandlers \cup {"none"}, bk : Bookings \cup {"none"},
            hrs : Nat, seen : Int, rev : Int]
NoRequest == [op |-> "none", bk |-> "none", hrs |-> 0, seen |-> 0, rev |-> 0]
NoLegs == [hold |-> 0, seller |-> 0, platform |-> 0, back |-> 0]

(* The WHERE clause of every settlement and of the escrow grow.  Here and   *)
(* below, a definition whose comment begins with Mutant is a plausible      *)
(* wrong version of the next one, kept to test that the properties see it.  *)
(* Mutant: the guard lets a booking that is already released through. *)
UnsettledOrReleased(b) == booking[b].status \in Live \cup {"released"}
Unsettled(b) == booking[b].status \in Live
(* Mutant: off by one in the condition of try_reserve_unit. *)
UnitFreeUnchecked == avail >= 0
UnitFree == avail > 0
IsOrg(b) == Payer[b] \in OrgWallets
Out(b) == legs[b].seller + legs[b].platform + legs[b].back

-----------------------------------------------------------------------------
TypeOK ==
  /\ booking \in [Bookings -> BookingRow]
  /\ vm \in [Bookings -> VMRow]
  /\ avail \in 0 .. Units
  /\ wallet \in [Wallets -> Int] /\ earnings \in Int /\ revenue \in Int
  /\ deposited \in [Wallets -> Int]
  /\ legs \in [Bookings -> EscrowLegs]
  /\ paused \in BOOLEAN /\ clock \in Nat
  /\ count \in Counts
  /\ pc \in [Workers -> Labels]
  /\ req \in [Workers -> Request]
  /\ \A w \in Workers : pc[w] # "idle" => req[w].bk \in Bookings

Init ==
  /\ booking = [b \in Bookings |-> [status |-> "none", hours |-> 0]]
  /\ vm = [b \in Bookings |-> [status |-> "none", started |-> 0, until |-> 0]]
  /\ avail = Units
  /\ wallet = [x \in Wallets |-> Funds] /\ earnings = 0 /\ revenue = 0
  /\ deposited = [x \in Wallets |-> Funds]
  /\ legs = [b \in Bookings |-> NoLegs]
  /\ paused = FALSE /\ clock = 0
  /\ count = [topups |-> 0, pauses |-> 0, crashes |-> 0]
  /\ pc = [w \in Workers |-> "idle"]
  /\ req = [w \in Workers |-> NoRequest]

-----------------------------------------------------------------------------
(* Steps of a worker *)

Begin(w, op, to, b, h, seen) ==
  /\ op \in Handlers /\ pc[w] = "idle"
  /\ pc' = [pc EXCEPT ![w] = to]
  /\ req' = [req EXCEPT ![w] = [op |-> op, bk |-> b, hrs |-> h, seen |-> seen, rev |-> 0]]

Goto(w, from, to) ==
  /\ pc[w] = from
  /\ pc' = [pc EXCEPT ![w] = to]
  /\ UNCHANGED req

GotoWith(w, from, to, h, seen, rev) ==
  /\ pc[w] = from
  /\ pc' = [pc EXCEPT ![w] = to]
  /\ req' = [req EXCEPT ![w] = [req[w] EXCEPT !.hrs = h, !.seen = seen, !.rev = rev]]

Finish(w, from) ==
  /\ pc[w] = from
  /\ pc' = [pc EXCEPT ![w] = "idle"]
  /\ req' = [req EXCEPT ![w] = NoRequest]

(* release_unit never exceeds total_units *)
IncUnit == avail' = IF avail < Units THEN avail + 1 ELSE avail
Credit(x, m) == wallet' = [wallet EXCEPT ![x] = @ + m]

(* a posting's credit to the escrow account, and the legs that drain it *)
PostHold(b, m) == legs' = [legs EXCEPT ![b].hold = @ + m]
PostOut(b, s, p, r) ==
  legs' = [legs EXCEPT ![b] = [hold |-> legs[b].hold, seller |-> legs[b].seller + s,
                               platform |-> legs[b].platform + p, back |-> legs[b].back + r]]

-----------------------------------------------------------------------------
(* request_vm, and what /launch adds to it *)

(* The buyer row is loaded once: seen keeps the balance the session knows. *)
BookLoad(w, b, h) ==
  /\ booking[b].status = "none" /\ \A v \in Workers : req[v].op = "book" => req[v].bk # b
  /\ Begin(w, "book", "book_debit", b, h, IF IsOrg(b) THEN 0 ELSE wallet[Payer[b]])
  /\ UNCHANGED <<booking, vm, avail, moneyVars, ledgerVars, envVars>>

BookRefused(w) ==
  /\ pc[w] = "book_debit" /\ (~UnitFree \/ paused)
  /\ Finish(w, "book_debit")
  /\ UNCHANGED <<booking, vm, avail, moneyVars, ledgerVars, envVars>>

(* try_reserve_unit and try_debit share a commit; a debit that matches no  *)
(* row still commits the reservation, which release_unit then undoes.  The *)
(* session's copy of the balance follows the UPDATE where it satisfies its *)
(* condition.                                                              *)
BookDebit(w) ==
  LET b == req[w].bk   g == Gross(req[w].hrs)   x == Payer[b] IN
  /\ pc[w] = "book_debit" /\ UnitFree /\ ~paused
  /\ avail' = avail - 1
  /\ \/ /\ wallet[x] >= g
        /\ Credit(x, -g)
        /\ GotoWith(w, "book_debit", "book_insert", req[w].hrs,
                    IF req[w].seen >= g THEN req[w].seen - g ELSE req[w].seen, 0)
     \/ /\ wallet[x] < g
        /\ Goto(w, "book_debit", "book_unreserve")
        /\ UNCHANGED wallet
  /\ UNCHANGED <<booking, vm, earnings, revenue, ledgerVars, envVars>>

(* Mutant: the unit of a failed debit is not returned. *)
BookUnreserveForgotten(w) ==
  /\ Finish(w, "book_unreserve")
  /\ UNCHANGED <<booking, vm, avail, moneyVars, ledgerVars, envVars>>

BookUnreserve(w) ==
  /\ Finish(w, "book_unreserve") /\ IncUnit
  /\ UNCHANGED <<booking, vm, moneyVars, ledgerVars, envVars>>

(* book_with_escrow up to the insert; the kill switch is read again here *)
BookInsert(w) ==
  LET b == req[w].bk IN
  /\ pc[w] = "book_insert"
  /\ \/ /\ paused
        /\ Goto(w, "book_insert", "book_comp")
        /\ UNCHANGED booking
     \/ /\ ~paused
        /\ booking' = [booking EXCEPT ![b] = [status |-> "escrowed", hours |-> req[w].hrs]]
        /\ Goto(w, "book_insert", "book_post")
  /\ UNCHANGED <<vm, avail, moneyVars, ledgerVars, envVars>>

BookCompUnit(w) ==
  /\ Goto(w, "book_comp", "book_giveback") /\ IncUnit
  /\ UNCHANGED <<booking, vm, moneyVars, ledgerVars, envVars>>

(* the compensation of request_vm: org_refund, or deposit() on the row the *)
(* session loaded when the request began                                   *)
BookGiveBack(w) ==
  LET b == req[w].bk   g == Gross(req[w].hrs)   x == Payer[b] IN
  /\ Finish(w, "book_giveback")
  /\ IF IsOrg(b)
     THEN Credit(x, g) /\ UNCHANGED deposited
     ELSE /\ wallet' = [wallet EXCEPT ![x] = req[w].seen + g]
          /\ deposited' = [deposited EXCEPT ![x] = @ + g]
  /\ UNCHANGED <<booking, vm, avail, earnings, revenue, legs, envVars>>

BookPost(w) ==
  /\ \/ Finish(w, "book_post")
     \/ "launch" \in Handlers /\ Goto(w, "book_post", "launch")
  /\ PostHold(req[w].bk, Gross(req[w].hrs))
  /\ UNCHANGED <<booking, vm, avail, moneyVars, deposited, envVars>>

(* create_task_endpoint: mark_booking_active is guarded by its status *)
MarkActive(b) ==
  /\ booking[b].status = "escrowed"
  /\ booking' = [booking EXCEPT ![b].status = "active"]
  /\ UNCHANGED <<vm, avail, moneyVars, ledgerVars, envVars, pc, req>>

(* create_vm_route does not look at the booking's status *)
LaunchVM(w) ==
  /\ Finish(w, "launch")
  /\ vm' = [vm EXCEPT ![req[w].bk] = [status |-> "live", started |-> clock,
                                      until |-> clock + req[w].hrs]]
  /\ UNCHANGED <<booking, avail, moneyVars, ledgerVars, envVars>>

-----------------------------------------------------------------------------
(* extend_my_vm: extend_booking, then the paid window *)

(* the two status checks and the atomic debit; seen keeps vm.paid_until *)
ExtendDebit(w, b, h) ==
  /\ vm[b].status = "live" /\ booking[b].status \in Live
  /\ booking[b].hours + h <= MaxHours
  /\ wallet[Payer[b]] >= Gross(h)
  /\ Begin(w, "extend", "ext_grow", b, h, vm[b].until)
  /\ Credit(Payer[b], -Gross(h))
  /\ UNCHANGED <<booking, vm, avail, earnings, revenue, ledgerVars, envVars>>

(* Mutant: the escrow grows without the status guard. *)
ExtendGrowUnguarded(w) ==
  /\ Goto(w, "ext_grow", "ext_post")
  /\ booking' = [booking EXCEPT ![req[w].bk].hours = @ + req[w].hrs]
  /\ UNCHANGED <<vm, avail, moneyVars, ledgerVars, envVars>>

ExtendGrow(w) ==
  LET b == req[w].bk IN
  /\ pc[w] = "ext_grow"
  /\ \/ /\ Unsettled(b)
        /\ booking' = [booking EXCEPT ![b].hours = @ + req[w].hrs]
        /\ Goto(w, "ext_grow", "ext_post")
     \/ /\ ~Unsettled(b)
        /\ Goto(w, "ext_grow", "ext_giveback")
        /\ UNCHANGED booking
  /\ UNCHANGED <<vm, avail, moneyVars, ledgerVars, envVars>>

(* Mutant: a lost race does not give the debit back. *)
ExtendGiveBackForgotten(w) ==
  /\ Finish(w, "ext_giveback")
  /\ UNCHANGED <<booking, vm, avail, moneyVars, ledgerVars, envVars>>

ExtendGiveBack(w) ==
  /\ Finish(w, "ext_giveback")
  /\ Credit(Payer[req[w].bk], Gross(req[w].hrs))
  /\ UNCHANGED <<booking, vm, avail, earnings, revenue, ledgerVars, envVars>>

(* Mutant: the extension posts the booking's new total. *)
ExtendPostTotal(w) ==
  /\ Goto(w, "ext_post", "ext_window")
  /\ PostHold(req[w].bk, Gross(booking[req[w].bk].hours))
  /\ UNCHANGED <<booking, vm, avail, moneyVars, deposited, envVars>>

ExtendPost(w) ==
  /\ Goto(w, "ext_post", "ext_window")
  /\ PostHold(req[w].bk, Gross(req[w].hrs))
  /\ UNCHANGED <<booking, vm, avail, moneyVars, deposited, envVars>>

(* vm.paid_until = max(base, now) + h, from the row loaded by the handler *)
ExtendWindow(w) ==
  LET base == IF req[w].seen > clock THEN req[w].seen ELSE clock IN
  /\ Finish(w, "ext_window")
  /\ vm' = [vm EXCEPT ![req[w].bk].until = base + req[w].hrs]
  /\ UNCHANGED <<booking, avail, moneyVars, ledgerVars, envVars>>

-----------------------------------------------------------------------------
(* stop_vm_metered and settle_metered *)

(* the CAS on the VM's status elects the stopper; seen keeps hours_used *)
StopVM(w, b) ==
  /\ vm[b].status = "live"
  /\ vm' = [vm EXCEPT ![b].status = "stopped"]
  /\ Begin(w, "stop", "stop_settle", b, 0, clock - vm[b].started)
  /\ UNCHANGED <<booking, avail, moneyVars, ledgerVars, envVars>>

(* Mutant: the losing stop releases the booking's unit once more. *)
StopSettleAlwaysFrees(w) ==
  LET b == req[w].bk IN
  /\ pc[w] = "stop_settle"
  /\ \/ /\ Unsettled(b)
        /\ booking' = [booking EXCEPT ![b].status = "released"]
        /\ Goto(w, "stop_settle", "stop_pay")
     \/ /\ ~Unsettled(b)
        /\ Goto(w, "stop_settle", "unit")
        /\ UNCHANGED booking
  /\ UNCHANGED <<vm, avail, moneyVars, ledgerVars, envVars>>

(* Mutant: the settler returns without paying. *)
StopSettleReturns(w) ==
  LET b == req[w].bk IN
  /\ Finish(w, "stop_settle")
  /\ booking' = IF Unsettled(b) THEN [booking EXCEPT ![b].status = "released"] ELSE booking
  /\ UNCHANGED <<vm, avail, moneyVars, ledgerVars, envVars>>

(* the CAS on the booking's status elects the settler *)
StopSettle(w) ==
  LET b == req[w].bk IN
  /\ pc[w] = "stop_settle"
  /\ \/ /\ Unsettled(b)
        /\ booking' = [booking EXCEPT ![b].status = "released"]
        /\ Goto(w, "stop_settle", "stop_pay")
     \/ /\ ~Unsettled(b)
        /\ Finish(w, "stop_settle")
        /\ UNCHANGED booking
  /\ UNCHANGED <<vm, avail, moneyVars, ledgerVars, envVars>>

Used(held, hours) ==
  LET atMost == IF held < hours THEN held ELSE hours
  IN  IF atMost < 1 THEN 1 ELSE atMost

(* Mutant: the platform keeps its share of the hours that were not used. *)
PostMeteredKeepsFee(w) ==
  LET b == req[w].bk   u == Used(req[w].seen, booking[b].hours)
  IN  PostOut(b, Payout(u), FeeOf(u), Payout(booking[b].hours) - Payout(u))

PostMetered(w) ==
  LET b == req[w].bk   u == Used(req[w].seen, booking[b].hours)
  IN  PostOut(b, Payout(u), FeeOf(u), Gross(booking[b].hours) - Gross(u))

(* Atomic increments.  org_refund commits before the ledger is written, so *)
(* an organisation's refund and the posting are two commits.               *)
StopPay(w) ==
  LET b == req[w].bk
      u == Used(req[w].seen, booking[b].hours)
      refund == Gross(booking[b].hours) - Gross(u)
  IN
  /\ pc[w] = "stop_pay"
  /\ earnings' = earnings + Payout(u) /\ revenue' = revenue + FeeOf(u)
  /\ Credit(Payer[b], refund)
  /\ IF IsOrg(b) /\ refund > 0
     THEN Goto(w, "stop_pay", "stop_post") /\ UNCHANGED legs
     ELSE Goto(w, "stop_pay", "unit") /\ PostMetered(w)
  /\ UNCHANGED <<booking, vm, avail, deposited, envVars>>

StopPost(w) ==
  /\ Goto(w, "stop_post", "unit") /\ PostMetered(w)
  /\ UNCHANGED <<booking, vm, avail, moneyVars, deposited, envVars>>

-----------------------------------------------------------------------------
(* release_booking, from its three callers *)

(* release_endpoint keeps the booking row it checked in its session *)
AcceptRead(w, b) ==
  /\ booking[b].status # "none"
  /\ Begin(w, "accept", "rel_cas", b, booking[b].hours, 0)
  /\ UNCHANGED <<booking, vm, avail, moneyVars, ledgerVars, envVars>>

(* jobs_result with status completed; no guard on the booking *)
ResultRead(w, b) ==
  /\ booking[b].status # "none"
  /\ Begin(w, "result", "rel_cas", b, 0, 0)
  /\ UNCHANGED <<booking, vm, avail, moneyVars, ledgerVars, envVars>>

(* meter_and_expire finds the window elapsed *)
ExpireRead(w, b) ==
  /\ vm[b].status = "live" /\ clock >= vm[b].until
  /\ Begin(w, "expire", "rel_cas", b, 0, 0)
  /\ UNCHANGED <<booking, vm, avail, moneyVars, ledgerVars, envVars>>

ReleaseCas(w) ==
  LET b == req[w].bk
      row == IF req[w].op = "accept" THEN req[w].hrs ELSE booking[b].hours
  IN
  /\ pc[w] = "rel_cas"
  /\ \/ /\ Unsettled(b)
        /\ booking' = [booking EXCEPT ![b].status = "released"]
        /\ GotoWith(w, "rel_cas", "rel_read", row, 0, 0)
     \/ /\ ~Unsettled(b)
        /\ IF req[w].op = "expire" THEN Goto(w, "rel_cas", "exp_stop") ELSE Finish(w, "rel_cas")
        /\ UNCHANGED booking
  /\ UNCHANGED <<vm, avail, moneyVars, ledgerVars, envVars>>

(* the seller's and the platform's rows, read before they are rewritten *)
ReleaseRead(w) ==
  /\ GotoWith(w, "rel_read", "rel_pay", req[w].hrs, earnings, revenue)
  /\ UNCHANGED <<booking, vm, avail, moneyVars, ledgerVars, envVars>>

ReleasePay(w) ==
  LET h == req[w].hrs IN
  /\ Goto(w, "rel_pay", "unit")
  /\ earnings' = req[w].seen + Payout(h)
  /\ revenue' = req[w].rev + FeeOf(h)
  /\ PostOut(req[w].bk, Payout(h), FeeOf(h), 0)
  /\ UNCHANGED <<booking, vm, avail, wallet, deposited, envVars>>

ReleaseUnit(w) ==
  /\ pc[w] = "unit"
  /\ IF req[w].op = "expire" THEN Goto(w, "unit", "exp_stop") ELSE Finish(w, "unit")
  /\ IncUnit
  /\ UNCHANGED <<booking, vm, moneyVars, ledgerVars, envVars>>

(* meter_and_expire stops the VM whatever became of it meanwhile *)
ExpireStop(w) ==
  /\ Finish(w, "exp_stop")
  /\ vm' = [vm EXCEPT ![req[w].bk].status = "stopped"]
  /\ UNCHANGED <<booking, avail, moneyVars, ledgerVars, envVars>>

-----------------------------------------------------------------------------
(* settle_dead_specs and refund_booking *)

(* the in-flight bookings of an offline host, read as a list up front *)
ReapRead(w, b) ==
  /\ booking[b].status \in Live
  /\ Begin(w, "reap", "ref_cas", b, booking[b].hours, 0)
  /\ UNCHANGED <<booking, vm, avail, moneyVars, ledgerVars, envVars>>

RefundCas(w) ==
  LET b == req[w].bk IN
  /\ pc[w] = "ref_cas"
  /\ \/ /\ Unsettled(b)
        /\ booking' = [booking EXCEPT ![b].status = "refunded"]
        /\ Goto(w, "ref_cas", IF IsOrg(b) THEN "ref_org" ELSE "ref_read")
     \/ /\ ~Unsettled(b)
        /\ Finish(w, "ref_cas")
        /\ UNCHANGED booking
  /\ UNCHANGED <<vm, avail, moneyVars, ledgerVars, envVars>>

RefundRead(w) ==
  /\ GotoWith(w, "ref_read", "ref_write", req[w].hrs, wallet[Payer[req[w].bk]], 0)
  /\ UNCHANGED <<booking, vm, avail, moneyVars, ledgerVars, envVars>>

(* release_unit's commit also writes the buyer's new balance *)
RefundWrite(w) ==
  /\ Goto(w, "ref_write", "ref_post")
  /\ wallet' = [wallet EXCEPT ![Payer[req[w].bk]] = req[w].seen + Gross(req[w].hrs)]
  /\ IncUnit
  /\ UNCHANGED <<booking, vm, earnings, revenue, ledgerVars, envVars>>

RefundPost(w) ==
  /\ Finish(w, "ref_post")
  /\ PostOut(req[w].bk, 0, 0, Gross(req[w].hrs))
  /\ UNCHANGED <<booking, vm, avail, moneyVars, deposited, envVars>>

RefundOrg(w) ==
  /\ Goto(w, "ref_org", "ref_org_unit")
  /\ Credit(Payer[req[w].bk], Gross(req[w].hrs))
  /\ UNCHANGED <<booking, vm, avail, earnings, revenue, ledgerVars, envVars>>

(* acct_org(...) is posted with buyer.id, and buyer is unbound on this     *)
(* branch: the handler raises after this commit, before the ledger         *)
RefundOrgUnit(w) ==
  /\ Finish(w, "ref_org_unit") /\ IncUnit
  /\ UNCHANGED <<booking, vm, moneyVars, ledgerVars, envVars>>

-----------------------------------------------------------------------------
(* /deposit, the kill switch, time and failures *)

(* deposit and org_deposit rewrite the balance the handler loaded *)
TopupRead(w, b) ==
  /\ count.topups < MaxTopups
  /\ count' = [count EXCEPT !.topups = @ + 1]
  /\ Begin(w, "topup", "topup", b, 0, wallet[Payer[b]])
  /\ UNCHANGED <<booking, vm, avail, moneyVars, ledgerVars, paused, clock>>

TopupWrite(w) ==
  LET x == Payer[req[w].bk] IN
  /\ Finish(w, "topup")
  /\ wallet' = [wallet EXCEPT ![x] = req[w].seen + Rate]
  /\ deposited' = [deposited EXCEPT ![x] = @ + Rate]
  /\ UNCHANGED <<booking, vm, avail, earnings, revenue, legs, envVars>>

SetPaused ==
  /\ "pause" \in Handlers /\ count.pauses < MaxPauses
  /\ paused' = ~paused
  /\ count' = [count EXCEPT !.pauses = @ + 1]
  /\ UNCHANGED <<booking, vm, avail, moneyVars, ledgerVars, clock, pc, req>>

Tick ==
  /\ clock < MaxClock
  /\ clock' = clock + 1
  /\ UNCHANGED <<booking, vm, avail, moneyVars, ledgerVars, paused, count, pc, req>>

(* the process dies, or the request times out, between two commits *)
Crash(w) ==
  /\ count.crashes < MaxCrashes /\ pc[w] # "idle"
  /\ count' = [count EXCEPT !.crashes = @ + 1]
  /\ pc' = [pc EXCEPT ![w] = "idle"]
  /\ req' = [req EXCEPT ![w] = NoRequest]
  /\ UNCHANGED <<booking, vm, avail, moneyVars, ledgerVars, paused, clock>>

-----------------------------------------------------------------------------
Arrive(w) ==
  \E b \in Bookings :
    \/ \E h \in Hours : BookLoad(w, b, h) \/ ExtendDebit(w, b, h)
    \/ StopVM(w, b) \/ AcceptRead(w, b) \/ ResultRead(w, b)
    \/ ExpireRead(w, b) \/ ReapRead(w, b) \/ TopupRead(w, b)

BookStep(w) == \/ BookRefused(w) \/ BookDebit(w) \/ BookUnreserve(w)
               \/ BookInsert(w) \/ BookCompUnit(w) \/ BookGiveBack(w)
               \/ BookPost(w) \/ LaunchVM(w)
ExtendStep(w) == ExtendGrow(w) \/ ExtendGiveBack(w) \/ ExtendPost(w) \/ ExtendWindow(w)
StopStep(w) == StopSettle(w) \/ StopPay(w) \/ StopPost(w)
ReleaseStep(w) == \/ ReleaseCas(w) \/ ReleaseRead(w) \/ ReleasePay(w)
                  \/ ReleaseUnit(w) \/ ExpireStop(w)
RefundStep(w) == \/ RefundCas(w) \/ RefundRead(w) \/ RefundWrite(w) \/ RefundPost(w)
                 \/ RefundOrg(w) \/ RefundOrgUnit(w)

(* the rest of a handler that has begun *)
Continue(w) == \/ BookStep(w) \/ ExtendStep(w) \/ StopStep(w)
               \/ ReleaseStep(w) \/ RefundStep(w) \/ TopupWrite(w)

Next == \/ \E w \in Workers : Arrive(w) \/ Continue(w) \/ Crash(w)
        \/ \E b \in Bookings : MarkActive(b)
        \/ SetPaused \/ Tick

Spec == Init /\ [][Next]_vars

(* A thread that has begun a handler goes on with it, and time passes; no   *)
(* request is ever bound to arrive.                                        *)
FairSpec == Spec /\ (\A w \in Workers : WF_vars(Continue(w))) /\ WF_vars(Tick)

-----------------------------------------------------------------------------
(* Safety *)

(* A booking is settled at most once: whatever the interleaving of stop,    *)
(* release, job result, expiry and refund, and whichever handlers died, no  *)
(* more leaves a booking's escrow account than was charged for it; nothing  *)
(* leaves before it is settled; and a refunded booking pays nobody else.    *)
PaidAtMostOnce ==
  \A b \in Bookings :
    /\ Out(b) <= Gross(booking[b].hours)
    /\ booking[b].status \notin Terminal => Out(b) = 0
    /\ booking[b].status = "refunded" => legs[b].seller = 0 /\ legs[b].platform = 0

(* A settled booking stays settled: no later step changes its status or the *)
(* hours, hence the amounts, it was settled for.                            *)
TerminalIsFinal ==
  [][\A b \in Bookings : booking[b].status \in Terminal => booking'[b] = booking[b]]_vars

Quiet(b) == \A w \in Workers : req[w].bk # b

(* When no request about a booking is under way, its escrow account holds   *)
(* exactly what it was charged while it is live, and exactly nothing once   *)
(* it is settled.                                                           *)
EscrowMatchesBooking ==
  \A b \in Bookings : Quiet(b) /\ booking[b].status # "none" =>
    /\ legs[b].hold = Gross(booking[b].hours)
    /\ booking[b].status \in Terminal => Out(b) = legs[b].hold

LedgerWallet(x) ==
  deposited[x] + SumFunctionOnSet([b \in Bookings |-> legs[b].back - legs[b].hold],
                                  {b \in Bookings : Payer[b] = x})

(* The balance fields are caches of the ledger: when no request is under    *)
(* way, every wallet, the seller's earnings and the platform's revenue are  *)
(* what the ledger's entries add up to.                                     *)
WalletsAreLedgerCaches ==
  (\A w \in Workers : pc[w] = "idle") =>
    /\ \A x \in Wallets : wallet[x] = LedgerWallet(x)
    /\ earnings = SumFunctionOnSet([b \in Bookings |-> legs[b].seller], Bookings)
    /\ revenue = SumFunctionOnSet([b \in Bookings |-> legs[b].platform], Bookings)

(* A booking attempt holds the unit it reserved until it has a booking; a   *)
(* settlement holds the unit of its booking until it has released it.       *)
HoldsUnit(w) == pc[w] \in {"book_unreserve", "book_insert", "book_comp",
                           "stop_pay", "stop_post", "rel_read", "rel_pay", "unit",
                           "ref_read", "ref_write", "ref_org", "ref_org_unit"}
UnitsInUse == Cardinality({b \in Bookings : Unsettled(b)})
                + Cardinality({w \in Workers : HoldsUnit(w)})

(* Capacity is never sold twice, even when handlers die half way: the free  *)
(* units and the units of live bookings never exceed the units there are.   *)
NeverOversold == avail + UnitsInUse <= Units

(* And as long as no handler dies, no unit is lost either.                  *)
NoUnitLost == count.crashes = 0 => avail + UnitsInUse = Units

(* A VM the meter stops because its prepaid window ended has been held for  *)
(* every hour its booking was charged.                                      *)
ExpiresFullyUsed ==
  [][\A w \in Workers : LET b == req[w].bk IN
       pc[w] = "exp_stop" /\ vm' # vm => clock >= vm[b].started + booking[b].hours]_vars

(* When no request about it is under way, a running VM's paid window covers *)
(* every hour its booking was charged.                                      *)
WindowCoversHours ==
  \A b \in Bookings : Quiet(b) /\ vm[b].status = "live" /\ Unsettled(b) =>
    vm[b].until >= vm[b].started + booking[b].hours

(* The strengthening that makes PaidAtMostOnce inductive.  A worker owns a  *)
(* booking's settlement from the status change it won until it has posted:  *)
(* at most one worker does, nothing has left the escrow account yet, and it *)
(* settles for no more hours than the booking has.                          *)
Releasing == {"stop_pay", "stop_post", "rel_read", "rel_pay"}
Refunding == {"ref_read", "ref_write", "ref_post", "ref_org", "ref_org_unit"}
Owning == Releasing \cup Refunding
PreInsert == {"book_debit", "book_insert"}
KeepsRow(w) == pc[w] = "ref_cas" \/ (pc[w] = "rel_cas" /\ req[w].op = "accept")

NoneOut(b) == legs[b].seller = 0 /\ legs[b].platform = 0 /\ legs[b].back = 0

RequestOK(w) ==
  LET b == req[w].bk IN
  /\ pc[w] = "idle" => req[w] = NoRequest
  /\ pc[w] \in PreInsert => req[w].op = "book" /\ booking[b].status = "none"
  /\ pc[w] \in Releasing => booking[b].status = "released" /\ NoneOut(b)
  /\ pc[w] \in Refunding => booking[b].status = "refunded" /\ NoneOut(b)
  /\ KeepsRow(w) => booking[b].status # "none" /\ req[w].hrs <= booking[b].hours
  /\ pc[w] \in {"rel_read", "rel_pay"} \cup Refunding => req[w].hrs <= booking[b].hours

OneOwner == \A v, w \in Workers : pc[v] \in Owning /\ pc[w] \in Owning
                                    /\ req[v].bk = req[w].bk => v = w
OneBooker == \A v, w \in Workers : req[v].op = "book" /\ req[w].op = "book"
                                     /\ req[v].bk = req[w].bk => v = w

PaymentInv ==
  /\ TypeOK /\ OneOwner /\ OneBooker
  /\ \A w \in Workers : RequestOK(w)
  /\ \A b \in Bookings : booking[b].status \notin Terminal => NoneOut(b)
  /\ PaidAtMostOnce

-----------------------------------------------------------------------------
(* Refinement: a booking's row and the entries that left its escrow account *)
(* are the contract of the abstract specification.                          *)
StateOf(b) == IF booking[b].status \in Live THEN "open" ELSE booking[b].status
ContractOf(b) == [state |-> StateOf(b), hours |-> booking[b].hours, seller |-> legs[b].seller,
                  platform |-> legs[b].platform, back |-> legs[b].back]
Contract == INSTANCE Settlement WITH contract <- [b \in Bookings |-> ContractOf(b)]

(* Whatever the interleaving of the handlers, and whichever of them died,   *)
(* each booking goes through the abstract settlement: made, extended while  *)
(* open, settled once, then paid out once, in the proportions of the price. *)
ImplementsSettlement == Contract!Spec

-----------------------------------------------------------------------------
(* Liveness *)

(* A booking that has been settled is paid out in full: the worker that won *)
(* the status change goes on to drain the escrow account.                   *)
SettlementCompletes ==
  \A b \in Bookings : booking[b].status \in Terminal ~> Out(b) = Gross(booking[b].hours)

=============================================================================
