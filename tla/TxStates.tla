------------------------------ MODULE TxStates ------------------------------
(***************************************************************************)
(* The states of a card transaction and the moves between them             *)
(* (lumaris_api/stripe_connect.py, lumaris_api/marketplace_insight.py).    *)
(***************************************************************************)

Transitions == [
  DRAFT                   |-> {"PAYMENT_REQUIRES_ACTION", "PAYMENT_FAILED", "CANCELLED"},
  PAYMENT_REQUIRES_ACTION |-> {"PAYMENT_AUTHORIZED", "PAYMENT_FAILED", "AUTHORIZATION_EXPIRED",
                               "CANCELLED"},
  PAYMENT_AUTHORIZED      |-> {"GPU_RESERVED", "RESERVATION_FAILED", "AUTHORIZATION_EXPIRED",
                               "CANCELLED"},
  GPU_RESERVED            |-> {"DISPATCHING", "DISPATCH_FAILED", "CANCELLED"},
  DISPATCHING             |-> {"RUNNING", "DISPATCH_FAILED", "JOB_FAILED"},
  RUNNING                 |-> {"METERING_FINALIZED", "JOB_FAILED"},
  METERING_FINALIZED      |-> {"PAYMENT_CAPTURE_PENDING", "REFUND_PENDING", "CANCELLED"},
  PAYMENT_CAPTURE_PENDING |-> {"PAYMENT_CAPTURED", "CAPTURE_FAILED"},
  PAYMENT_CAPTURED        |-> {"SELLER_TRANSFER_PENDING", "REFUND_PENDING", "DISPUTED"},
  SELLER_TRANSFER_PENDING |-> {"SELLER_TRANSFERRED", "TRANSFER_FAILED"},
  SELLER_TRANSFERRED      |-> {"COMPLETED", "REFUND_PENDING", "DISPUTED"},
  COMPLETED               |-> {"REFUND_PENDING", "DISPUTED"},
  CAPTURE_FAILED          |-> {"PAYMENT_CAPTURE_PENDING", "CANCELLED", "REFUND_PENDING"},
  TRANSFER_FAILED         |-> {"SELLER_TRANSFER_PENDING", "REFUND_PENDING"},
  DISPATCH_FAILED         |-> {"REFUND_PENDING", "CANCELLED"},
  JOB_FAILED              |-> {"REFUND_PENDING", "CANCELLED", "PAYMENT_CAPTURE_PENDING"},
  RESERVATION_FAILED      |-> {"CANCELLED", "REFUND_PENDING"},
  REFUND_PENDING          |-> {"REFUNDED", "DISPUTED"},
  PAYMENT_FAILED          |-> {}, AUTHORIZATION_EXPIRED |-> {}, CANCELLED |-> {},
  REFUNDED                |-> {}, DISPUTED |-> {"REFUNDED", "COMPLETED"}]

Statuses == DOMAIN Transitions

TERMINAL == {"COMPLETED", "PAYMENT_FAILED", "AUTHORIZATION_EXPIRED", "CANCELLED", "REFUNDED"}

TX_FAILED == {"PAYMENT_FAILED", "AUTHORIZATION_EXPIRED", "RESERVATION_FAILED",
              "DISPATCH_FAILED", "JOB_FAILED", "CAPTURE_FAILED", "TRANSFER_FAILED",
              "CANCELLED", "REFUNDED"}

(* the statuses marketplace_insight counts as paid *)
SETTLED == {"PAYMENT_CAPTURED", "SELLER_TRANSFER_PENDING", "SELLER_TRANSFERRED", "COMPLETED"}
=============================================================================
