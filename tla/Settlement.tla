------------------------------ MODULE Settlement ------------------------------
(***************************************************************************)
(* What a rental promises about its money, without the threads, rows and   *)
(* commits that keep the promise (lumaris_api/db.py: book_with_escrow,     *)
(* extend_booking, release_booking, settle_metered, refund_booking): a     *)
(* booking is made, may grow while it is open, is settled once, and is     *)
(* then paid out once, out of what it was charged.  RentalEscrow           *)
(* implements this specification.                                          *)
(***************************************************************************)
EXTENDS Integers

CONSTANTS
  Bookings,   \* bookings that may be made
  Rate, Fee   \* price of an hour and the platform's share of it

VARIABLE contract   \* by booking: its state, its hours, and what was paid to whom

Unmade == [state |-> "none", hours |-> 0, seller |-> 0, platform |-> 0, back |-> 0]

Init == contract = [b \in Bookings |-> Unmade]

(* Each action relates a booking's contract before the step, old, to the   *)
(* contract after it, new.                                                 *)
Open(old, new) ==
  /\ old.state = "none" /\ new.hours \in Nat
  /\ new = [state |-> "open", hours |-> new.hours, seller |-> 0, platform |-> 0, back |-> 0]

Extend(old, new) ==
  /\ old.state = "open" /\ new.hours >= old.hours
  /\ new = [old EXCEPT !.hours = new.hours]

(* in the seller's favour, or in the buyer's *)
Settle(old, new) ==
  /\ old.state = "open"
  /\ \E s \in {"released", "refunded"} : new = [old EXCEPT !.state = s]

Unpaid(c) == c.seller = 0 /\ c.platform = 0 /\ c.back = 0
Paid(c, s, p, r) ==
  [state |-> c.state, hours |-> c.hours, seller |-> s, platform |-> p, back |-> r]

(* The seller and the platform share the price of the billed hours, which  *)
(* are no more than the booking has, and at least one; the buyer gets the  *)
(* rest back, or nothing where the booking is released as a whole.         *)
PayOut(old, new) ==
  /\ old.state = "released" /\ Unpaid(old)
  /\ \E u \in (0 .. old.hours) \cup {1} : \E r \in {0, Rate * (old.hours - u)} :
       new = Paid(old, (Rate - Fee) * u, Fee * u, r)

PayBack(old, new) ==
  /\ old.state = "refunded" /\ Unpaid(old)
  /\ \E u \in 0 .. old.hours : new = Paid(old, 0, 0, Rate * u)

Step(old, new) == \/ Open(old, new) \/ Extend(old, new) \/ Settle(old, new)
                  \/ PayOut(old, new) \/ PayBack(old, new)

Next ==
  /\ DOMAIN contract' = Bookings
  /\ \E b \in Bookings : /\ Step(contract[b], contract'[b])
                         /\ \A c \in Bookings \ {b} : contract'[c] = contract[c]

Spec == Init /\ [][Next]_contract
===============================================================================
