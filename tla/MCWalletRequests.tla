--------------------------- MODULE MCWalletRequests ---------------------------
(* Names for the instances of WalletRequests that TLC checks. *)
EXTENDS WalletRequests
CONSTANTS c1, c2, d1, d2, lab, own, t1, e1
LabKeys == {lab}
OwnKeys == {own}
TwoClients == {c1, c2}
OneDeliverer == {d1}
TwoDeliverers == {d1, d2}
OneTopup == {t1}
OneEvent == {e1}
===============================================================================
