------------------------------ MODULE Pricing ------------------------------
(***************************************************************************)
(* The integer money arithmetic of the market: the estimate, runtime       *)
(* budget, final charge and commission of a card job, the split of a       *)
(* refund (lumaris_api/pricing.py), and the metered split of a wallet      *)
(* rental (settle_metered of lumaris_api/db.py).  Amounts are minor units, *)
(* cents for cards and 10^-8 for wallets.  A snapshot is the price and the *)
(* configuration frozen onto a transaction.                                *)
(***************************************************************************)
EXTENDS Integers

Least(a, b) == IF a <= b THEN a ELSE b
Most(a, b) == IF a >= b THEN a ELSE b

Bps == 10000
Hour == 3600

(* what _validate() and snapshot() let through *)
Snapshot == [price : Nat, commission : 0 .. Bps, fixed : Nat, least : Nat,
             longest : Nat \ {0}, margin : Nat, ceiling : Nat \ {0}]

(* n / d to the nearest integer, halves up: quantize(ROUND_HALF_UP) *)
HalfUp(n, d) == (2 * n + d) \div (2 * d)

(* _compute_minor() *)
Compute(s, seconds) == IF seconds <= 0 THEN 0 ELSE HalfUp(s.price * seconds, Hour)

(* the charge of some seconds, at least the minimum when there were any *)
Charge(s, seconds) ==
  IF seconds > 0 THEN Most(Compute(s, seconds), s.least) ELSE Compute(s, seconds)

-----------------------------------------------------------------------------
(* The card path *)

(* estimate(): what the buyer's card is asked to hold; the caller refuses  *)
(* to book when it is not Allowed.                                         *)
Estimated(s, seconds) == Most(0, Least(seconds, s.longest))
Authorization(s, seconds) ==
  LET est == Charge(s, Estimated(s, seconds))
  IN est + (est * s.margin) \div Bps + s.fixed
Allowed(s, seconds) == Authorization(s, seconds) <= s.ceiling

(* authorized_seconds(): the time the agent lets the job run *)
AuthorizedSeconds(s, held) ==
  IF s.price = 0 THEN s.longest
  ELSE Most(1, Least((held * Hour) \div s.price, s.longest))

(* settle() *)
Metered(s, seconds, held) ==
  Most(0, Least(Least(seconds, s.longest), AuthorizedSeconds(s, held)))
Capture(s, seconds, held) == Least(Charge(s, Metered(s, seconds, held)), held)
Fee(s, captured) == Least((captured * s.commission) \div Bps + s.fixed, captured)
NetOf(s, captured) == captured - Fee(s, captured)

(* estimate_processing_fee_minor(), with the configured rate as read *)
ProcessingFee(amount, rate, fixed) ==
  IF amount <= 0 THEN 0
  ELSE Least(amount, (amount * Least(Bps, Most(0, rate))) \div Bps + Most(0, fixed))

(* refund_split(): the parts of the seller and of the platform *)
Refunded(captured, amount) == Most(0, Least(amount, captured))
SellerPart(captured, net, amount) == (net * Refunded(captured, amount)) \div Most(captured, 1)
PlatformPart(captured, net, amount) ==
  Most(0, Refunded(captured, amount) - SellerPart(captured, net, amount))

-----------------------------------------------------------------------------
(* settle_metered(): an early stop of a wallet rental, after `used' of the *)
(* `hours' paid for; the buyer gets back what the rounded parts leave.     *)

Earned(part, used, hours) == HalfUp(part * used, hours)
GivenBack(payout, fee, used, hours) ==
  (payout + fee) - Earned(payout, used, hours) - Earned(fee, used, hours)
=============================================================================
