--------------------------- MODULE WalletRequests ---------------------------
(***************************************************************************)
(* What reaches the buyers' wallets more than once: bookings sent again    *)
(* under one Idempotency-Key (lumaris_api/main.py, request_vm), and the    *)
(* provider's notices of a paid top-up (wallet_funding.py,                 *)
(* stripe_connect.py).  An organisation's wallet also keeps what it has    *)
(* spent, against its budget cap (lumaris_api/db.py).                      *)
(*                                                                         *)
(* A request runs in a thread with its own session; an action is what one  *)
(* commit makes visible, or one read whose value a later commit uses.  An  *)
(* hour costs one unit of money.  The hosts' units and the escrow accounts *)
(* of the same handlers are the subject of RentalEscrow.                   *)
(***************************************************************************)
EXTENDS Integers, FiniteSets, Functions

CONSTANTS
  Keys,         \* idempotency keys of the buyers, each with the order it stands for
  OrgKeys,      \* those whose order is paid by the organisation
  Clients,      \* threads that serve the buyers
  Deliverers,   \* threads that serve the provider and the simulated card page
  Topups,       \* slots for rows of wallet_topups
  Events,       \* events of the other payment provider
  Length,       \* hours of a booking
  MaxHours,     \* bound on the hours of an extended booking
  Funds,        \* initial content of each wallet
  Caps,         \* budget caps an administrator may set; 0 is no cap
  MaxDeposits,  \* bound on the organisation's deposits
  MaxErrors,    \* bound on the webhook handlers that raise
  MaxCrashes    \* bound on the handlers that die between two commits

ASSUME OrderAssumption == /\ OrgKeys \subseteq Keys /\ Length \in Nat \ {0}
                          /\ MaxHours \in Nat /\ Funds \in Nat /\ Caps \subseteq Nat
ASSUME FiniteAssumption == IsFiniteSet(Keys) /\ IsFiniteSet(Clients)
ASSUME BoundAssumption == MaxDeposits \in Nat /\ MaxErrors \in Nat /\ MaxCrashes \in Nat

VARIABLES
  key,        \* table idempotency: no row, status_code 0, or the stored answer
  rental,     \* the booking made under each key: status, hours, and how many were made
  back,       \* ledger: what a rental's settlement gave back
  org,        \* orgs: balance, spent, budget_cap
  balance,    \* users.balance of the buyer
  topup,      \* wallet_topups: status and whether the session's id is stored
  credited,   \* ledger: the deposits posted for each top-up
  session,    \* the provider's checkout sessions
  rec,        \* stripe_webhook_events: the notice that a session was paid
  seen,       \* processed_webhooks: events of the other provider
  count,      \* deposits, errors and deaths so far, for their bounds
  pc,         \* where each thread is in its handler
  loc         \* the handler's local variables

orderVars == <<key, rental, back, org>>
fundVars == <<topup, credited, session, rec, seen>>
vars == <<key, rental, back, org, balance, topup, credited, session, rec, seen, count, pc, loc>>

Threads == Clients \cup Deliverers
Idle == [id |-> "none", n |-> 0, read |-> 0]

TypeOK ==
  /\ key \in [Keys -> {"free", "claimed", "done"}]
  /\ rental \in [Keys -> [status : {"none", "live", "settled"}, hours : 0 .. MaxHours, made : Nat]]
  /\ back \in [Keys -> Nat]
  /\ org \in [balance : Int, spent : Int, cap : Nat] /\ balance \in Int
  /\ topup \in [Topups -> [status : {"none", "pending", "paid", "failed"}, stored : BOOLEAN]]
  /\ credited \in [Topups -> Nat]
  /\ session \in [Topups -> {"none", "open", "paid"}]
  /\ rec \in [Topups -> {"none", "received", "failed", "processed"}]
  /\ seen \subseteq Events
  /\ count \in [deposits : Nat, errors : Nat, crashes : Nat]
  /\ pc \in [Threads -> STRING] /\ loc \in [Threads -> [id : Keys \cup Topups \cup {"none", "org"},
                                                        n : Int, read : Int]]

Init ==
  /\ key = [k \in Keys |-> "free"]
  /\ rental = [k \in Keys |-> [status |-> "none", hours |-> 0, made |-> 0]]
  /\ back = [k \in Keys |-> 0]
  /\ org \in [balance : {Funds}, spent : {0}, cap : Caps] /\ balance = Funds
  /\ topup = [t \in Topups |-> [status |-> "none", stored |-> FALSE]]
  /\ credited = [t \in Topups |-> 0]
  /\ session = [t \in Topups |-> "none"] /\ rec = [t \in Topups |-> "none"]
  /\ seen = {}
  /\ count = [deposits |-> 0, errors |-> 0, crashes |-> 0]
  /\ pc = [w \in Threads |-> "idle"] /\ loc = [w \in Threads |-> Idle]

Begin(w, to, id, n, read) ==
  /\ pc[w] = "idle"
  /\ pc' = [pc EXCEPT ![w] = to]
  /\ loc' = [loc EXCEPT ![w] = [id |-> id, n |-> n, read |-> read]]
Goto(w, from, to) == pc[w] = from /\ pc' = [pc EXCEPT ![w] = to] /\ UNCHANGED loc
Finish(w, from) ==
  /\ pc[w] = from
  /\ pc' = [pc EXCEPT ![w] = "idle"] /\ loc' = [loc EXCEPT ![w] = Idle]

-----------------------------------------------------------------------------
(* The wallets: conditional updates, and the increments that undo them *)

Affordable(k, n) ==
  IF k \in OrgKeys THEN org.balance >= n /\ (org.cap = 0 \/ org.spent + n <= org.cap)
                   ELSE balance >= n

Pay(k, n) ==
  IF k \in OrgKeys
  THEN /\ org' = [balance |-> org.balance - n, spent |-> org.spent + n, cap |-> org.cap]
       /\ UNCHANGED balance
  ELSE balance' = balance - n /\ UNCHANGED org

(* Mutant: org_refund returns the money and leaves the amount spent. *)
PayBackBalanceOnly(k, n) ==
  IF k \in OrgKeys
  THEN org' = [org EXCEPT !.balance = @ + n] /\ UNCHANGED balance
  ELSE balance' = balance + n /\ UNCHANGED org

PayBack(k, n) == Pay(k, -n)

-----------------------------------------------------------------------------
(* request_vm under a key *)

(* Mutant: a request in progress does not hold the key. *)
ClaimOver(w, k) ==
  /\ key[k] # "done"
  /\ key' = [key EXCEPT ![k] = "claimed"]
  /\ Begin(w, "debit", k, Length, balance)
  /\ UNCHANGED <<rental, back, org, balance, fundVars, count>>

(* idem_begin; a key in progress answers 409, an answered one its answer *)
Claim(w, k) ==
  /\ key[k] = "free"
  /\ key' = [key EXCEPT ![k] = "claimed"]
  /\ Begin(w, "debit", k, Length, balance)
  /\ UNCHANGED <<rental, back, org, balance, fundVars, count>>

(* The debit, or any of the refusals before it: no such host, not allowed, *)
(* no unit, bookings paused, no funds.                                     *)
Debit(w) ==
  LET k == loc[w].id IN
  /\ pc[w] = "debit"
  /\ \/ /\ Affordable(k, Length) /\ Pay(k, Length)
        /\ Goto(w, "debit", "insert")
     \/ /\ Goto(w, "debit", "abort") /\ UNCHANGED <<org, balance>>
  /\ UNCHANGED <<key, rental, back, fundVars, count>>

(* book_with_escrow: the booking, or BookingsPaused *)
Insert(w) ==
  LET k == loc[w].id IN
  /\ \/ /\ Goto(w, "insert", "answer")
        /\ rental' = [rental EXCEPT ![k] = [status |-> "live", hours |-> Length, made |-> @.made + 1]]
     \/ /\ Goto(w, "insert", "giveback") /\ UNCHANGED rental
  /\ UNCHANGED <<key, back, org, balance, fundVars, count>>

(* The compensation rewrites the balance of the buyer's row, which the     *)
(* session loaded before its debit; the debit's update has changed that    *)
(* copy where it satisfies its condition.                                  *)
GiveBack(w) ==
  LET k == loc[w].id
      copy == IF loc[w].read >= Length THEN loc[w].read - Length ELSE loc[w].read
  IN
  /\ Goto(w, "giveback", "abort")
  /\ IF k \in OrgKeys THEN PayBack(k, Length)
     ELSE balance' = copy + Length /\ UNCHANGED org
  /\ UNCHANGED <<key, rental, back, fundVars, count>>

(* idem_abort, of a row that has no answer yet *)
Abort(w) ==
  LET k == loc[w].id IN
  /\ Finish(w, "abort")
  /\ key' = [key EXCEPT ![k] = IF @ = "claimed" THEN "free" ELSE @]
  /\ UNCHANGED <<rental, back, org, balance, fundVars, count>>

(* idem_finish *)
Answer(w) ==
  LET k == loc[w].id IN
  /\ Finish(w, "answer")
  /\ key' = [key EXCEPT ![k] = IF @ = "free" THEN @ ELSE "done"]
  /\ UNCHANGED <<rental, back, org, balance, fundVars, count>>

-----------------------------------------------------------------------------
(* extend_booking and settle_metered, as far as the wallets see them *)

Extend(w, k) ==
  /\ rental[k].status = "live" /\ rental[k].hours < MaxHours
  /\ Affordable(k, 1) /\ Pay(k, 1)
  /\ Begin(w, "grow", k, 1, 0)
  /\ UNCHANGED <<key, rental, back, fundVars, count>>

Grow(w) ==
  LET k == loc[w].id IN
  /\ pc[w] = "grow"
  /\ \/ /\ rental[k].status = "live" /\ Finish(w, "grow")
        /\ rental' = [rental EXCEPT ![k].hours = @ + 1]
     \/ /\ rental[k].status # "live" /\ Goto(w, "grow", "ungrow")
        /\ UNCHANGED rental
  /\ UNCHANGED <<key, back, org, balance, fundVars, count>>

Ungrow(w) ==
  /\ Finish(w, "ungrow") /\ PayBack(loc[w].id, 1)
  /\ UNCHANGED <<key, rental, back, fundVars, count>>

(* The CAS of a stop, or of the reaper, which bills no hours; the reaper's *)
(* refund of a person rewrites the balance and is RentalEscrow's.          *)
Settle(w, k) ==
  /\ rental[k].status = "live"
  /\ rental' = [rental EXCEPT ![k].status = "settled"]
  /\ \E used \in 0 .. rental[k].hours :
       /\ used > 0 \/ k \in OrgKeys
       /\ Begin(w, "refund", k, rental[k].hours - used, 0)
  /\ UNCHANGED <<key, back, org, balance, fundVars, count>>

(* org_refund commits before the posting *)
Refund(w) ==
  /\ Goto(w, "refund", "post") /\ PayBack(loc[w].id, loc[w].n)
  /\ UNCHANGED <<key, rental, back, fundVars, count>>

Post(w) ==
  /\ Finish(w, "post")
  /\ back' = [back EXCEPT ![loc[w].id] = @ + loc[w].n]
  /\ UNCHANGED <<key, rental, org, balance, fundVars, count>>

-----------------------------------------------------------------------------
(* org_deposit_endpoint: the cap, then the balance the handler loaded *)

OrgDeposit(w, cap) ==
  /\ count.deposits < MaxDeposits
  /\ count' = [count EXCEPT !.deposits = @ + 1]
  /\ org' = [org EXCEPT !.cap = cap]
  /\ Begin(w, "deposit", "org", 1, org.balance)
  /\ UNCHANGED <<key, rental, back, balance, fundVars>>

OrgDepositWrite(w) ==
  /\ Finish(w, "deposit")
  /\ org' = [org EXCEPT !.balance = loc[w].read + loc[w].n]
  /\ UNCHANGED <<key, rental, back, balance, fundVars, count>>

-----------------------------------------------------------------------------
(* start_topup *)

StartTopup(w, t) ==
  /\ topup[t].status = "none" /\ Begin(w, "checkout", t, 0, 0)
  /\ topup' = [topup EXCEPT ![t].status = "pending"]
  /\ UNCHANGED <<orderVars, balance, credited, session, rec, seen, count>>

(* create_checkout_session; a StripeError fails the top-up *)
Checkout(w) ==
  LET t == loc[w].id IN
  /\ \/ /\ Goto(w, "checkout", "store")
        /\ session' = [session EXCEPT ![t] = "open"] /\ UNCHANGED topup
     \/ /\ Finish(w, "checkout")
        /\ topup' = [topup EXCEPT ![t].status = "failed"] /\ UNCHANGED session
  /\ UNCHANGED <<orderVars, balance, credited, rec, seen, count>>

(* the session's id, after which the buyer is given its address *)
Store(w) ==
  /\ Finish(w, "store")
  /\ topup' = [topup EXCEPT ![loc[w].id].stored = TRUE]
  /\ UNCHANGED <<orderVars, balance, credited, session, rec, seen, count>>

BuyerPays(t) ==
  /\ session[t] = "open" /\ topup[t].stored
  /\ session' = [session EXCEPT ![t] = "paid"]
  /\ UNCHANGED <<orderVars, balance, topup, credited, rec, seen, count, pc, loc>>

-----------------------------------------------------------------------------
(* process_webhook_event for checkout.session.completed, and the credit *)

(* Mutant: the event is marked processed before its effect. *)
HookProcessedFirst(d, t) ==
  /\ session[t] = "paid" /\ rec[t] # "processed"
  /\ rec' = [rec EXCEPT ![t] = "processed"]
  /\ Begin(d, "hook_read", t, 0, 0)
  /\ UNCHANGED <<orderVars, balance, topup, credited, session, seen, count>>

(* the provider delivers the event until an answer says it was processed *)
Hook(d, t) ==
  /\ session[t] = "paid" /\ rec[t] # "processed"
  /\ rec' = [rec EXCEPT ![t] = "received"]
  /\ Begin(d, "hook_read", t, 0, 0)
  /\ UNCHANGED <<orderVars, balance, topup, credited, session, seen, count>>

(* Mutant: the credit does not look at the top-up's status. *)
CreditReadUnchecked(d) ==
  /\ pc[d] = "hook_read"
  /\ pc' = [pc EXCEPT ![d] = "hook_write"]
  /\ loc' = [loc EXCEPT ![d].read = balance]
  /\ UNCHANGED <<orderVars, balance, fundVars, count>>

(* credit_from_session: the top-up of the session, and the buyer's row *)
CreditRead(d) ==
  LET t == loc[d].id IN
  /\ pc[d] = "hook_read"
  /\ IF topup[t].stored /\ topup[t].status # "paid"
     THEN /\ pc' = [pc EXCEPT ![d] = "hook_write"]
          /\ loc' = [loc EXCEPT ![d].read = balance]
     ELSE Goto(d, "hook_read", "hook_done")
  /\ UNCHANGED <<orderVars, balance, fundVars, count>>

(* one commit: the top-up is paid, the balance rewritten, the deposit posted *)
Credit(t, read) ==
  /\ topup' = [topup EXCEPT ![t].status = "paid"]
  /\ balance' = read + 1
  /\ credited' = [credited EXCEPT ![t] = @ + 1]

CreditWrite(d) ==
  /\ Goto(d, "hook_write", "hook_done") /\ Credit(loc[d].id, loc[d].read)
  /\ UNCHANGED <<orderVars, session, rec, seen, count>>

HookDone(d) ==
  /\ Finish(d, "hook_done")
  /\ rec' = [rec EXCEPT ![loc[d].id] = "processed"]
  /\ UNCHANGED <<orderVars, balance, topup, credited, session, seen, count>>

(* The handler raises before its commit: 500, and the provider tries again. *)
(* A commit that fails is like a death: the session takes no other one.     *)
HookRaises(d) ==
  /\ count.errors < MaxErrors
  /\ Finish(d, "hook_read")
  /\ rec' = [rec EXCEPT ![loc[d].id] = "failed"]
  /\ count' = [count EXCEPT !.errors = @ + 1]
  /\ UNCHANGED <<orderVars, balance, topup, credited, session, seen>>

(* simulate_pay: the endpoint has loaded the top-up and the buyer *)
Simulate(d, t) ==
  /\ topup[t].stored /\ topup[t].status # "paid"
  /\ session' = [session EXCEPT ![t] = "paid"]
  /\ Begin(d, "sim_write", t, 0, balance)
  /\ UNCHANGED <<orderVars, balance, topup, credited, rec, seen, count>>

SimulateWrite(d) ==
  /\ Finish(d, "sim_write") /\ Credit(loc[d].id, loc[d].read)
  /\ UNCHANGED <<orderVars, session, rec, seen, count>>

(* credit_user_from_webhook claims the event and credits in one commit *)
PaymentEvent(e) ==
  /\ e \notin seen /\ seen' = seen \cup {e}
  /\ balance' = balance + 1
  /\ UNCHANGED <<orderVars, topup, credited, session, rec, count, pc, loc>>

Crash(w) ==
  /\ count.crashes < MaxCrashes /\ pc[w] # "idle"
  /\ count' = [count EXCEPT !.crashes = @ + 1]
  /\ Finish(w, pc[w])
  /\ UNCHANGED <<orderVars, balance, fundVars>>

-----------------------------------------------------------------------------
Arrive(w) == \/ \E k \in Keys : Claim(w, k) \/ Extend(w, k) \/ Settle(w, k)
             \/ \E t \in Topups : StartTopup(w, t)
             \/ \E c \in Caps : OrgDeposit(w, c)

Continue(w) == \/ Debit(w) \/ Insert(w) \/ GiveBack(w) \/ Abort(w) \/ Answer(w)
               \/ Grow(w) \/ Ungrow(w) \/ Refund(w) \/ Post(w) \/ OrgDepositWrite(w)
               \/ Checkout(w) \/ Store(w)

Serve(d) == CreditRead(d) \/ CreditWrite(d) \/ HookDone(d) \/ SimulateWrite(d)

Next == \/ \E w \in Clients : Arrive(w) \/ Continue(w)
        \/ \E d \in Deliverers : \/ Serve(d) \/ HookRaises(d)
                                 \/ \E t \in Topups : Hook(d, t) \/ Simulate(d, t)
        \/ \E w \in Threads : Crash(w)
        \/ \E t \in Topups : BuyerPays(t)
        \/ \E e \in Events : PaymentEvent(e)

Spec == Init /\ [][Next]_vars

(* A thread goes on with its handler, and the provider delivers an event   *)
(* again until it is answered as processed.                                *)
FairSpec == /\ Spec
            /\ \A w \in Clients : WF_vars(Continue(w))
            /\ \A d \in Deliverers : WF_vars(Serve(d))
            /\ \A t \in Topups : WF_vars(\E d \in Deliverers : Hook(d, t))

-----------------------------------------------------------------------------
(* One effect for each key: however often an order is sent, and whoever    *)
(* dies, at most one booking is made under its key; a stored answer is that *)
(* of a booking; and a key that may be used again has made none.           *)
OneBookingPerKey ==
  \A k \in Keys : /\ rental[k].made <= 1
                  /\ key[k] = "done" => rental[k].made = 1
                  /\ key[k] = "free" => rental[k].made = 0

(* What a thread has taken from the organisation's budget for a booking    *)
(* that has no row yet, or given back without having posted it.            *)
InFlight(w) ==
  IF loc[w].id \notin OrgKeys THEN 0
  ELSE CASE pc[w] \in {"insert", "giveback", "grow", "ungrow"} -> loc[w].n
         [] pc[w] = "post" -> -loc[w].n
         [] OTHER -> 0

Cost == [k \in Keys |-> rental[k].hours - back[k]]

(* The organisation's spent column, which its budget cap is compared with, *)
(* is what its bookings cost less what their settlements gave back, whatever *)
(* bookings, extensions, settlements, refusals and deposits overlap.       *)
SpentIsBookings ==
  count.crashes = 0 =>
    org.spent = SumFunctionOnSet(Cost, OrgKeys)
                  + SumFunctionOnSet([w \in Clients |-> InFlight(w)], Clients)

(* A top-up is credited at most once, and only when it was paid, although  *)
(* its event is delivered again after a handler raised or died between the *)
(* credit and the note that the event was processed.                       *)
CreditedOnce ==
  \A t \in Topups : /\ credited[t] <= 1
                    /\ credited[t] = 1 <=> topup[t].status = "paid"
                    /\ credited[t] = 1 => session[t] = "paid"

(* Money a buyer has paid to the provider reaches the wallet in the end.   *)
PaidIsCredited == \A t \in Topups : session[t] = "paid" ~> topup[t].status = "paid"

-----------------------------------------------------------------------------
(* What the code's comments claim and a configuration refutes *)

(* idem_abort: "Release a claimed-but-failed slot so a later retry can     *)
(* proceed"; a request that died leaves its key in progress.               *)
KeysAreAnswered == \A k \in Keys : key[k] = "claimed" ~> key[k] # "claimed"

(* credit_user_from_webhook: "a concurrent spend between our read of user  *)
(* and this commit must not be overwritten by a stale Python-side sum"; the *)
(* credit of a top-up does overwrite it.                                   *)
Personal(w) == loc[w].id \in Keys \ OrgKeys
Taken(w) == IF ~Personal(w) THEN 0
            ELSE CASE pc[w] \in {"insert", "giveback", "grow", "ungrow"} -> loc[w].n
                   [] pc[w] = "post" -> -loc[w].n
                   [] OTHER -> 0
BalanceIsLedger ==
  count.crashes = 0 =>
    balance = Funds + SumFunction(credited) + Cardinality(seen)
                - SumFunctionOnSet(Cost, Keys \ OrgKeys)
                - SumFunctionOnSet([w \in Clients |-> Taken(w)], Clients)
=============================================================================
