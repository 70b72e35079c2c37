----------------------------- MODULE MCPayouts -----------------------------
(* TLC instances of Payouts: how many earnings, and which workers do what.  *)
EXTENDS Payouts, TLC

CONSTANTS e1, e2, admin, hook, run1

OneEarning == {e1}
TwoEarnings == {e1, e2}
SymEarnings == Permutations(TwoEarnings)

AdminRun == {admin, run1}
AdminRunDo == [w \in AdminRun |-> IF w = admin THEN {"transfer", "refund"} ELSE {"batch"}]
RunsDo == [w \in AdminRun |-> IF w = admin THEN {"transfer", "refund", "batch"} ELSE {"batch"}]

Solo == {admin}
SoloDoes == [w \in Solo |-> {"transfer", "refund", "batch", "webhook"}]
SoloRefunds == [w \in Solo |-> {"refund", "batch", "webhook"}]
SoloDry == [w \in Solo |-> {"batch", "dry_run"}]

Two == {admin, hook}
TwoDo == [w \in Two |-> IF w = admin THEN {"transfer", "refund"} ELSE {"webhook", "refund"}]
HookRun == [w \in Two |-> IF w = admin THEN {"batch"} ELSE {"webhook"}]

(* Pricing on the values of lumaris_api/pricing_test.py, and why the       *)
(* theorem EstimateIsCovered asks for a margin: without one, a job of 3    *)
(* seconds at 50.00 an hour is held 4 cents, which buy 2 seconds.          *)
Snap(price, longest, margin, least) ==
  [price |-> price, commission |-> 1000, fixed |-> 0, least |-> least,
   longest |-> longest, margin |-> margin, ceiling |-> 1000000000]
Fast == Snap(50000, 10000000, 2000, 50)

ASSUME PricingMatchesItsTests ==
  /\ P!ProcessingFee(250, 290, 30) = 37 /\ P!ProcessingFee(50, 290, 30) = 31
  /\ P!ProcessingFee(-5, 290, 30) = 0
  /\ P!ProcessingFee(1000, 20000, 0) = 1000 /\ P!ProcessingFee(1000, 290, 1000000) = 1000
  /\ P!AuthorizedSeconds(Fast, 25000) = 1800 /\ P!AuthorizedSeconds(Fast, 1) = 1
  /\ P!AuthorizedSeconds([Fast EXCEPT !.longest = 600], 25000) = 600
  /\ P!AuthorizedSeconds([Fast EXCEPT !.price = 0, !.longest = 777], 999999) = 777
  /\ P!Metered(Fast, 1000000, 25000) = 1800 /\ P!Capture(Fast, 1000000, 25000) = 25000
  /\ P!Fee(Fast, 25000) = 2500 /\ P!NetOf(Fast, 25000) = 22500

ASSUME MarginIsNeeded ==
  LET s == Snap(5000, 86400, 0, 0)
  IN P!Authorization(s, 3) = 4 /\ P!Metered(s, 3, 4) = 2 /\ P!Capture(s, 3, 4) = 3
=============================================================================
