--------------------------- MODULE MCRentalEscrow ---------------------------
(* TLC instances of RentalEscrow: names of the request kinds a run enables, *)
(* the wallets that pay, and the symmetry of the workers.                   *)
EXTENDS RentalEscrow, TLC

CONSTANTS b1, b2, b3, w1, w2, buyer, org

(* every booking paid from the personal wallet, or by the organisation, *)
(* or only b1 by the organisation                                       *)
AllPersonal == [b \in Bookings |-> buyer]
AllByOrg == [b \in Bookings |-> org]
FirstByOrg == [b \in Bookings |-> IF b = b1 THEN org ELSE buyer]

WorkerSymmetry == Permutations(Workers)
=============================================================================
