----------------------- MODULE WalletRequests_proofs -----------------------
(***************************************************************************)
(* One effect for each idempotency key, what an organisation has spent, and *)
(* one credit for each top-up: for any keys, threads, top-ups and bounds.  *)
(*                                                                         *)
(* OneBookingPerKey is not inductive: that a request may insert a booking  *)
(* depends on no other request having done so under the same key.  KeyInv  *)
(* adds who holds a key: at most one thread is between idem_begin and      *)
(* idem_finish or idem_abort (Handles), its key is then claimed, and the   *)
(* place it has reached tells how many bookings the key has made.  SpentInv *)
(* and CreditInv, in the second and third part, rest on it.                *)
(***************************************************************************)
EXTENDS WalletRequests, SumTheorems, TLAPS

RentalRow == [status : {"none", "live", "settled"}, hours : Int, made : Nat]
OrgRow == [balance : Int, spent : Int, cap : Nat]
Local == [id : Keys \cup Topups \cup {"none", "org"}, n : Int, read : Int]

Places == {"idle", "debit", "insert", "giveback", "abort", "answer", "grow", "ungrow", "refund",
           "post", "deposit", "checkout", "store", "hook_read", "hook_write", "hook_done",
           "sim_write"}

KeyType ==
  /\ key \in [Keys -> {"free", "claimed", "done"}]
  /\ rental \in [Keys -> RentalRow]
  /\ org \in OrgRow /\ balance \in Int
  /\ pc \in [Threads -> Places] /\ loc \in [Threads -> Local]

(* a thread whose request has claimed its key and not yet let it go *)
Working(w) == pc[w] \in {"debit", "insert", "giveback", "abort", "answer"}

OneHandler ==
  \A w, v \in Threads : Working(w) /\ Working(v) /\ loc[w].id = loc[v].id => w = v

HandlerHolds ==
  \A w \in Threads :
    Working(w) => /\ loc[w].id \in Keys /\ key[loc[w].id] = "claimed"
                  /\ rental[loc[w].id].made = IF pc[w] = "answer" THEN 1 ELSE 0

MadeOnce ==
  \A k \in Keys : /\ rental[k].made \in 0 .. 1
                  /\ key[k] = "free" => rental[k].made = 0
                  /\ key[k] = "done" => rental[k].made = 1

KeyInv == KeyType /\ OneHandler /\ HandlerHolds /\ MadeOnce

USE DEF Threads

-----------------------------------------------------------------------------
(* Typing of the updates *)

LEMMA LocalType ==
  ASSUME KeyType, NEW w \in Threads
  PROVE  /\ loc[w].id \in Keys \cup Topups \cup {"none", "org"}
         /\ loc[w].n \in Int /\ loc[w].read \in Int
BY DEF KeyType, Local

LEMMA RentalType ==
  ASSUME KeyType, NEW k \in Keys
  PROVE  rental[k].hours \in Int /\ rental[k].made \in Nat
BY DEF KeyType, RentalRow

LEMMA PayType ==
  ASSUME KeyType, NEW k, NEW n \in Int, Pay(k, n)
  PROVE  org' \in OrgRow /\ balance' \in Int
BY DEF KeyType, OrgRow, Pay

LEMMA BeginType ==
  ASSUME KeyType, NEW w \in Threads, NEW to \in Places,
         NEW id \in Keys \cup Topups \cup {"none", "org"}, NEW n \in Int, NEW read \in Int,
         Begin(w, to, id, n, read)
  PROVE  /\ pc' \in [Threads -> Places] /\ loc' \in [Threads -> Local]
         /\ pc[w] = "idle" /\ pc'[w] = to /\ loc'[w].id = id
         /\ \A v \in Threads \ {w} : pc'[v] = pc[v] /\ loc'[v] = loc[v]
BY DEF KeyType, Begin, Local

LEMMA GotoType ==
  ASSUME KeyType, NEW w \in Threads, NEW from, NEW to \in Places, Goto(w, from, to)
  PROVE  /\ pc' \in [Threads -> Places] /\ loc' = loc
         /\ pc[w] = from /\ pc'[w] = to
         /\ \A v \in Threads \ {w} : pc'[v] = pc[v]
BY DEF KeyType, Goto

LEMMA FinishType ==
  ASSUME KeyType, NEW w \in Threads, NEW from, Finish(w, from)
  PROVE  /\ pc' \in [Threads -> Places] /\ loc' \in [Threads -> Local]
         /\ pc[w] = from /\ pc'[w] = "idle"
         /\ \A v \in Threads \ {w} : pc'[v] = pc[v] /\ loc'[v] = loc[v]
<1>1. Idle \in Local
  BY DEF Idle, Local
<1>2. pc' = [pc EXCEPT ![w] = "idle"] /\ loc' = [loc EXCEPT ![w] = Idle] /\ pc[w] = from
  BY DEF Finish
<1>3. "idle" \in Places
  BY DEF Places
<1>4. pc' \in [Threads -> Places] /\ loc' \in [Threads -> Local]
  BY <1>1, <1>2, <1>3 DEF KeyType
<1>5. pc'[w] = "idle" /\ \A v \in Threads \ {w} : pc'[v] = pc[v] /\ loc'[v] = loc[v]
  BY <1>2 DEF KeyType
<1> QED BY <1>2, <1>4, <1>5

-----------------------------------------------------------------------------
(* The steps that neither claim nor let go a key, nor insert a booking *)

KeepsHandlers ==
  \A w \in Threads : Working(w)' => /\ Working(w) /\ loc'[w].id = loc[w].id
                                    /\ pc'[w] = "answer" <=> pc[w] = "answer"
KeepsMade == \A k \in Keys : rental'[k].made = rental[k].made

LEMMA QuietStep ==
  ASSUME KeyInv, KeyType', key' = key, KeepsMade, KeepsHandlers
  PROVE  KeyInv'
<1>1. OneHandler'
  BY DEF KeyInv, OneHandler, KeepsHandlers
<1>2. HandlerHolds'
  BY DEF KeyInv, HandlerHolds, KeepsHandlers, KeepsMade
<1>3. MadeOnce'
  BY DEF KeyInv, MadeOnce, KeepsMade
<1> QED BY <1>1, <1>2, <1>3 DEF KeyInv

(* What is common to the steps of a thread outside the key's handler. *)
LEMMA QuietBegin ==
  ASSUME KeyInv, NEW w \in Threads, NEW to \in {"grow", "refund", "deposit", "checkout",
                                                 "hook_read", "sim_write"},
         NEW id \in Keys \cup Topups \cup {"none", "org"}, NEW n \in Int, NEW read \in Int,
         Begin(w, to, id, n, read),
         key' = key, rental' \in [Keys -> RentalRow], KeepsMade, org' \in OrgRow, balance' \in Int
  PROVE  KeyInv'
<1>0. to \in Places
  BY DEF Places
<1>1. /\ pc' \in [Threads -> Places] /\ loc' \in [Threads -> Local]
      /\ pc'[w] = to
      /\ \A v \in Threads \ {w} : pc'[v] = pc[v] /\ loc'[v] = loc[v]
  BY <1>0, BeginType DEF KeyInv
<1>2. KeepsHandlers
  BY <1>1 DEF KeepsHandlers, Working
<1>3. KeyType'
  BY <1>1 DEF KeyInv, KeyType
<1> QED BY <1>2, <1>3, QuietStep

LEMMA QuietGoto ==
  ASSUME KeyInv, NEW w \in Threads, NEW from,
         NEW to \in {"insert", "giveback", "abort", "ungrow", "post", "store", "hook_write",
                     "hook_done"},
         Goto(w, from, to), to \in {"insert", "giveback", "abort"} => from \in
                              {"debit", "insert", "giveback"},
         key' = key, rental' \in [Keys -> RentalRow], KeepsMade, org' \in OrgRow, balance' \in Int
  PROVE  KeyInv'
<1>0. to \in Places
  BY DEF Places
<1>1. /\ pc' \in [Threads -> Places] /\ loc' = loc
      /\ pc[w] = from /\ pc'[w] = to
      /\ \A v \in Threads \ {w} : pc'[v] = pc[v]
  BY <1>0, GotoType DEF KeyInv
<1>2. KeepsHandlers
  BY <1>1 DEF KeepsHandlers, Working
<1>3. KeyType'
  BY <1>1 DEF KeyInv, KeyType
<1> QED BY <1>2, <1>3, QuietStep

LEMMA QuietFinish ==
  ASSUME KeyInv, NEW w \in Threads, NEW from, Finish(w, from),
         key' = key, rental' \in [Keys -> RentalRow], KeepsMade, org' \in OrgRow, balance' \in Int
  PROVE  KeyInv'
<1>1. /\ pc' \in [Threads -> Places] /\ loc' \in [Threads -> Local]
      /\ pc'[w] = "idle"
      /\ \A v \in Threads \ {w} : pc'[v] = pc[v] /\ loc'[v] = loc[v]
  BY FinishType DEF KeyInv
<1>2. KeepsHandlers
  BY <1>1 DEF KeepsHandlers, Working
<1>3. KeyType'
  BY <1>1 DEF KeyInv, KeyType
<1> QED BY <1>2, <1>3, QuietStep

LEMMA SameRental ==
  ASSUME KeyType, rental' = rental
  PROVE  rental' \in [Keys -> RentalRow] /\ KeepsMade
BY DEF KeyType, KeepsMade

-----------------------------------------------------------------------------
(* The handler of a key *)

LEMMA InvClaim ==
  ASSUME KeyInv, NEW w \in Clients, NEW k \in Keys, Claim(w, k)
  PROVE  KeyInv'
<1>1. /\ key[k] = "free" /\ key' = [key EXCEPT ![k] = "claimed"]
      /\ Begin(w, "debit", k, Length, balance)
      /\ rental' = rental /\ org' = org /\ balance' = balance
  BY DEF Claim
<1>0. "debit" \in Places /\ KeyType /\ Length \in Int /\ balance \in Int
  BY OrderAssumption DEF KeyInv, KeyType, Places
<1>2. /\ pc' \in [Threads -> Places] /\ loc' \in [Threads -> Local]
      /\ pc[w] = "idle" /\ pc'[w] = "debit" /\ loc'[w].id = k
      /\ \A v \in Threads \ {w} : pc'[v] = pc[v] /\ loc'[v] = loc[v]
  BY <1>0, <1>1, BeginType
<1>3. KeyType'
  BY <1>1, <1>2 DEF KeyInv, KeyType
<1>4. \A v \in Threads : Working(v) => loc[v].id # k
  BY <1>1 DEF KeyInv, HandlerHolds
<1>5. \A v \in Threads \ {w} : /\ Working(v)' <=> Working(v)
                               /\ pc'[v] = pc[v] /\ loc'[v].id = loc[v].id
  BY <1>2 DEF Working
<1>6. OneHandler'
  BY <1>2, <1>4, <1>5 DEF KeyInv, OneHandler
<1>7. \A j \in Keys : j # k => key'[j] = key[j]
  BY <1>1 DEF KeyInv, KeyType
<1>8. key'[k] = "claimed"
  BY <1>1 DEF KeyInv, KeyType
<1>9. HandlerHolds'
  <2> SUFFICES ASSUME NEW v \in Threads, Working(v)'
               PROVE  /\ loc'[v].id \in Keys /\ key'[loc'[v].id] = "claimed"
                      /\ rental'[loc'[v].id].made = IF pc'[v] = "answer" THEN 1 ELSE 0
    BY DEF HandlerHolds
  <2>1. CASE v = w
    BY <1>1, <1>2, <1>8, <2>1 DEF KeyInv, MadeOnce
  <2>2. CASE v # w
    BY <1>1, <1>4, <1>5, <1>7, <2>2 DEF KeyInv, HandlerHolds
  <2> QED BY <2>1, <2>2
<1>10. MadeOnce'
  BY <1>1, <1>7, <1>8 DEF KeyInv, MadeOnce
<1> QED BY <1>3, <1>6, <1>9, <1>10 DEF KeyInv

LEMMA InvInsert ==
  ASSUME KeyInv, NEW w \in Clients, Insert(w)
  PROVE  KeyInv'
<1> DEFINE k == loc[w].id
<1>1. /\ key' = key /\ org' = org /\ balance' = balance
  BY DEF Insert
<1>2. CASE Goto(w, "insert", "giveback") /\ rental' = rental
  BY <1>1, <1>2, QuietGoto, SameRental DEF KeyInv, KeyType
<1>3. CASE /\ Goto(w, "insert", "answer")
           /\ rental' = [rental EXCEPT ![k] = [status |-> "live", hours |-> Length,
                                               made |-> @.made + 1]]
  <2>1. /\ pc' \in [Threads -> Places] /\ loc' = loc
        /\ pc[w] = "insert" /\ pc'[w] = "answer"
        /\ \A v \in Threads \ {w} : pc'[v] = pc[v]
    <3>1. "answer" \in Places /\ KeyType
      BY DEF KeyInv, Places
    <3> QED BY <1>3, <3>1, GotoType
  <2>2. k \in Keys /\ key[k] = "claimed" /\ rental[k].made = 0
    BY <2>1 DEF KeyInv, HandlerHolds, Working
  <2>3. [status |-> "live", hours |-> Length, made |-> rental[k].made + 1] \in RentalRow
    BY <2>2, OrderAssumption DEF RentalRow
  <2>4. /\ rental' \in [Keys -> RentalRow] /\ rental'[k].made = 1
        /\ \A j \in Keys : j # k => rental'[j] = rental[j]
    BY <1>3, <2>2, <2>3 DEF KeyInv, KeyType
  <2>5. KeyType'
    BY <1>1, <2>1, <2>4 DEF KeyInv, KeyType
  <2>6. \A v \in Threads : Working(v)' <=> Working(v)
    BY <2>1 DEF Working
  <2>7. OneHandler'
    BY <2>1, <2>6 DEF KeyInv, OneHandler
  <2>8. HandlerHolds'
    <3> SUFFICES ASSUME NEW v \in Threads, Working(v)'
                 PROVE  /\ loc'[v].id \in Keys /\ key'[loc'[v].id] = "claimed"
                        /\ rental'[loc'[v].id].made = IF pc'[v] = "answer" THEN 1 ELSE 0
      BY DEF HandlerHolds
    <3>1. CASE v = w
      BY <1>1, <2>1, <2>2, <2>4, <3>1
    <3>2. CASE v # w
      <4>1. Working(w) /\ Working(v) /\ loc[v].id # k
        BY <2>1, <2>6, <3>2 DEF KeyInv, OneHandler, Working
      <4> QED BY <1>1, <2>1, <2>4, <3>2, <4>1 DEF KeyInv, HandlerHolds
    <3> QED BY <3>1, <3>2
  <2>9. MadeOnce'
    BY <1>1, <2>2, <2>4 DEF KeyInv, MadeOnce
  <2> QED BY <2>5, <2>7, <2>8, <2>9 DEF KeyInv
<1> QED BY <1>2, <1>3 DEF Insert

(* A handler lets its key go: with nothing made, or with the one booking. *)
LEMMA LetGo ==
  ASSUME KeyInv, NEW w \in Threads, NEW from \in {"abort", "answer"}, Finish(w, from),
         key' = [key EXCEPT ![loc[w].id] = IF from = "abort" THEN "free" ELSE "done"],
         rental' = rental, org' = org, balance' = balance
  PROVE  KeyInv'
<1> DEFINE k == loc[w].id
<1>1. /\ pc' \in [Threads -> Places] /\ loc' \in [Threads -> Local]
      /\ pc[w] = from /\ pc'[w] = "idle"
      /\ \A v \in Threads \ {w} : pc'[v] = pc[v] /\ loc'[v] = loc[v]
  BY FinishType DEF KeyInv
<1>2. /\ Working(w) /\ k \in Keys /\ key[k] = "claimed"
      /\ rental[k].made = IF from = "answer" THEN 1 ELSE 0
  BY <1>1 DEF KeyInv, HandlerHolds, Working
<1>3. /\ key' \in [Keys -> {"free", "claimed", "done"}]
      /\ key'[k] = IF from = "abort" THEN "free" ELSE "done"
      /\ \A j \in Keys : j # k => key'[j] = key[j]
  BY <1>2 DEF KeyInv, KeyType
<1>4. KeyType'
  BY <1>1, <1>3 DEF KeyInv, KeyType
<1>5. /\ ~Working(w)'
      /\ \A v \in Threads \ {w} : /\ Working(v)' <=> Working(v)
                                  /\ Working(v) => loc[v].id # k
  BY <1>1, <1>2 DEF Working, KeyInv, OneHandler
<1>6. OneHandler'
  BY <1>1, <1>5 DEF KeyInv, OneHandler
<1>7. HandlerHolds'
  BY <1>1, <1>3, <1>5 DEF KeyInv, HandlerHolds
<1>8. MadeOnce'
  BY <1>2, <1>3 DEF KeyInv, MadeOnce
<1> QED BY <1>4, <1>6, <1>7, <1>8 DEF KeyInv

LEMMA InvLetGo ==
  ASSUME KeyInv, NEW w \in Clients, Abort(w) \/ Answer(w)
  PROVE  KeyInv'
<1>1. CASE Abort(w)
  <2>1. key[loc[w].id] = "claimed"
    BY <1>1 DEF Abort, Finish, KeyInv, HandlerHolds, Working
  <2> QED BY <1>1, <2>1, LetGo DEF Abort
<1>2. CASE Answer(w)
  <2>1. key[loc[w].id] = "claimed"
    BY <1>2 DEF Answer, Finish, KeyInv, HandlerHolds, Working
  <2> QED BY <1>2, <2>1, LetGo DEF Answer
<1> QED BY <1>1, <1>2

LEMMA InvDebit ==
  ASSUME KeyInv, NEW w \in Clients, Debit(w) \/ GiveBack(w)
  PROVE  KeyInv'
<1>1. CASE Debit(w)
  <2>1. key' = key /\ rental' = rental
    BY <1>1 DEF Debit
  <2>2. CASE Pay(loc[w].id, Length) /\ Goto(w, "debit", "insert")
    BY <2>1, <2>2, PayType, QuietGoto, SameRental, OrderAssumption DEF KeyInv
  <2>3. CASE Goto(w, "debit", "abort") /\ org' = org /\ balance' = balance
    BY <2>1, <2>3, QuietGoto, SameRental DEF KeyInv, KeyType
  <2> QED BY <1>1, <2>2, <2>3 DEF Debit
<1>2. CASE GiveBack(w)
  <2>1. key' = key /\ rental' = rental /\ Goto(w, "giveback", "abort")
    BY <1>2 DEF GiveBack
  <2>2. org' \in OrgRow /\ balance' \in Int
    <3>1. CASE loc[w].id \in OrgKeys
      BY <1>2, <3>1, PayType, OrderAssumption DEF GiveBack, PayBack, KeyInv
    <3>2. CASE loc[w].id \notin OrgKeys
      BY <1>2, <3>2, LocalType, OrderAssumption DEF GiveBack, KeyInv, KeyType
    <3> QED BY <3>1, <3>2
  <2> QED BY <2>1, <2>2, QuietGoto, SameRental DEF KeyInv
<1> QED BY <1>1, <1>2

-----------------------------------------------------------------------------
(* The other handlers *)

LEMMA RentalKeepsMade ==
  ASSUME KeyType, NEW k, NEW row \in RentalRow, k \in Keys => row.made = rental[k].made,
         rental' = [rental EXCEPT ![k] = row]
  PROVE  rental' \in [Keys -> RentalRow] /\ KeepsMade
BY DEF KeyType, KeepsMade

LEMMA InvExtend ==
  ASSUME KeyInv, NEW w \in Clients
  PROVE  /\ \A k \in Keys : Extend(w, k) => KeyInv'
         /\ Grow(w) \/ Ungrow(w) => KeyInv'
<1>1. ASSUME NEW k \in Keys, Extend(w, k) PROVE KeyInv'
  BY <1>1, PayType, QuietBegin, SameRental DEF Extend, KeyInv
<1>2. ASSUME Grow(w) PROVE KeyInv'
  <2>1. key' = key /\ org' = org /\ balance' = balance
    BY <1>2 DEF Grow
  <2>2. CASE Finish(w, "grow") /\ rental' = [rental EXCEPT ![loc[w].id].hours = @ + 1]
    <3> DEFINE k == loc[w].id
               row == [rental[k] EXCEPT !.hours = @ + 1]
    <3>1. rental' \in [Keys -> RentalRow] /\ KeepsMade
      <4>1. CASE k \in Keys
        <5>1. row \in RentalRow /\ row.made = rental[k].made
          BY <4>1 DEF KeyInv, KeyType, RentalRow
        <5>2. rental' = [rental EXCEPT ![k] = row]
          BY <2>2, <4>1 DEF KeyInv, KeyType
        <5> HIDE DEF row
        <5> QED BY <5>1, <5>2, RentalKeepsMade DEF KeyInv
      <4>2. CASE k \notin Keys
        BY <2>2, <4>2 DEF KeyInv, KeyType, KeepsMade
      <4> QED BY <4>1, <4>2
    <3> QED BY <2>1, <2>2, <3>1, QuietFinish DEF KeyInv, KeyType
  <2>3. CASE Goto(w, "grow", "ungrow") /\ rental' = rental
    BY <2>1, <2>3, QuietGoto, SameRental DEF KeyInv, KeyType
  <2> QED BY <1>2, <2>2, <2>3 DEF Grow
<1>3. ASSUME Ungrow(w) PROVE KeyInv'
  BY <1>3, PayType, QuietFinish, SameRental DEF Ungrow, PayBack, KeyInv
<1> QED BY <1>1, <1>2, <1>3

LEMMA InvSettle ==
  ASSUME KeyInv, NEW w \in Clients
  PROVE  /\ \A k \in Keys : Settle(w, k) => KeyInv'
         /\ Refund(w) \/ Post(w) => KeyInv'
<1>1. ASSUME NEW k \in Keys, Settle(w, k) PROVE KeyInv'
  <2>1. /\ key' = key /\ org' = org /\ balance' = balance
        /\ rental' = [rental EXCEPT ![k].status = "settled"]
    BY <1>1 DEF Settle
  <2>2. PICK n \in Int : Begin(w, "refund", k, n, 0)
    BY <1>1, RentalType DEF Settle, KeyInv
  <2>3. rental' \in [Keys -> RentalRow] /\ KeepsMade
    BY <2>1 DEF KeyInv, KeyType, RentalRow, KeepsMade
  <2> QED BY <2>1, <2>2, <2>3, QuietBegin DEF KeyInv, KeyType
<1>2. ASSUME Refund(w) PROVE KeyInv'
  <2>1. key' = key /\ rental' = rental /\ Goto(w, "refund", "post")
    BY <1>2 DEF Refund
  <2>2. Pay(loc[w].id, -loc[w].n) /\ -loc[w].n \in Int
    BY <1>2, LocalType DEF Refund, PayBack, KeyInv
  <2> QED BY <2>1, <2>2, PayType, QuietGoto, SameRental DEF KeyInv
<1>3. ASSUME Post(w) PROVE KeyInv'
  BY <1>3, QuietFinish, SameRental DEF Post, KeyInv, KeyType
<1> QED BY <1>1, <1>2, <1>3

LEMMA InvDeposit ==
  ASSUME KeyInv, NEW w \in Clients
  PROVE  /\ \A c \in Caps : OrgDeposit(w, c) => KeyInv'
         /\ OrgDepositWrite(w) => KeyInv'
<1>1. ASSUME NEW c \in Caps, OrgDeposit(w, c) PROVE KeyInv'
  <2>1. org' \in OrgRow /\ org.balance \in Int
    BY <1>1, OrderAssumption DEF OrgDeposit, KeyInv, KeyType, OrgRow
  <2>2. /\ key' = key /\ rental' = rental /\ balance' = balance
        /\ Begin(w, "deposit", "org", 1, org.balance)
    BY <1>1 DEF OrgDeposit
  <2>3. "org" \in Keys \cup Topups \cup {"none", "org"}
    OBVIOUS
  <2>4. balance' \in Int
    BY <2>2 DEF KeyInv, KeyType
  <2>5. rental' \in [Keys -> RentalRow] /\ KeepsMade
    BY <2>2, SameRental DEF KeyInv
  <2> QED BY <2>1, <2>2, <2>3, <2>4, <2>5, QuietBegin
<1>2. ASSUME OrgDepositWrite(w) PROVE KeyInv'
  <2>1. org' \in OrgRow
    BY <1>2, LocalType DEF OrgDepositWrite, KeyInv, KeyType, OrgRow
  <2> QED BY <1>2, <2>1, QuietFinish, SameRental DEF OrgDepositWrite, KeyInv, KeyType
<1> QED BY <1>1, <1>2

LEMMA InvTopup ==
  ASSUME KeyInv, NEW w \in Clients
  PROVE  /\ \A t \in Topups : StartTopup(w, t) => KeyInv'
         /\ Checkout(w) \/ Store(w) => KeyInv'
<1>1. ASSUME NEW t \in Topups, StartTopup(w, t) PROVE KeyInv'
  <2>1. /\ key' = key /\ rental' = rental /\ org' = org /\ balance' = balance
        /\ Begin(w, "checkout", t, 0, 0)
    BY <1>1 DEF StartTopup, orderVars
  <2> QED BY <2>1, QuietBegin, SameRental DEF KeyInv, KeyType
<1>2. ASSUME Checkout(w) PROVE KeyInv'
  <2>1. key' = key /\ rental' = rental /\ org' = org /\ balance' = balance
    BY <1>2 DEF Checkout, orderVars
  <2>2. Goto(w, "checkout", "store") \/ Finish(w, "checkout")
    BY <1>2 DEF Checkout
  <2> QED BY <2>1, <2>2, QuietGoto, QuietFinish, SameRental DEF KeyInv, KeyType
<1>3. ASSUME Store(w) PROVE KeyInv'
  BY <1>3, QuietFinish, SameRental DEF Store, orderVars, KeyInv, KeyType
<1> QED BY <1>1, <1>2, <1>3

LEMMA InvWebhook ==
  ASSUME KeyInv, NEW d \in Deliverers
  PROVE  /\ Serve(d) \/ HookRaises(d) => KeyInv'
         /\ \A t \in Topups : Hook(d, t) \/ Simulate(d, t) => KeyInv'
<1>1. ASSUME CreditRead(d) PROVE KeyInv'
  <2>1. key' = key /\ rental' = rental /\ org' = org /\ balance' = balance
    BY <1>1 DEF CreditRead, orderVars
  <2>2. CASE Goto(d, "hook_read", "hook_done")
    BY <2>1, <2>2, QuietGoto, SameRental DEF KeyInv, KeyType
  <2>3. CASE /\ pc' = [pc EXCEPT ![d] = "hook_write"]
             /\ loc' = [loc EXCEPT ![d].read = balance]
    <3>1. KeyType'
      <4> DEFINE l == [loc[d] EXCEPT !.read = balance]
      <4>1. l \in Local
        BY DEF KeyInv, KeyType, Local
      <4>2. loc' = [loc EXCEPT ![d] = l]
        BY <2>3 DEF KeyInv, KeyType
      <4> HIDE DEF l
      <4>3. loc' \in [Threads -> Local]
        BY <4>1, <4>2 DEF KeyInv, KeyType
      <4>4. pc' \in [Threads -> Places]
        BY <2>3 DEF KeyInv, KeyType, Places
      <4> QED BY <2>1, <4>3, <4>4 DEF KeyInv, KeyType
    <3>2. KeepsHandlers
      BY <2>3 DEF KeyInv, KeyType, Local, KeepsHandlers, Working
    <3> QED BY <2>1, <3>1, <3>2, QuietStep, SameRental DEF KeyInv
  <2> QED BY <1>1, <2>2, <2>3 DEF CreditRead
<1>2. ASSUME CreditWrite(d) PROVE KeyInv'
  BY <1>2, LocalType, QuietGoto, SameRental
  DEF CreditWrite, Credit, orderVars, KeyInv, KeyType
<1>3. ASSUME HookDone(d) \/ HookRaises(d) PROVE KeyInv'
  BY <1>3, QuietFinish, SameRental DEF HookDone, HookRaises, orderVars, KeyInv, KeyType
<1>4. ASSUME SimulateWrite(d) PROVE KeyInv'
  BY <1>4, LocalType, QuietFinish, SameRental
  DEF SimulateWrite, Credit, orderVars, KeyInv, KeyType
<1>5. ASSUME NEW t \in Topups, Hook(d, t) PROVE KeyInv'
  BY <1>5, QuietBegin, SameRental DEF Hook, orderVars, KeyInv, KeyType
<1>6. ASSUME NEW t \in Topups, Simulate(d, t) PROVE KeyInv'
  BY <1>6, QuietBegin, SameRental DEF Simulate, orderVars, KeyInv, KeyType
<1> QED BY <1>1, <1>2, <1>3, <1>4, <1>5, <1>6 DEF Serve

LEMMA InvWorld ==
  ASSUME KeyInv
  PROVE  /\ \A w \in Threads : Crash(w) => KeyInv'
         /\ \A t \in Topups : BuyerPays(t) => KeyInv'
         /\ \A e \in Events : PaymentEvent(e) => KeyInv'
         /\ UNCHANGED vars => KeyInv'
<1>1. ASSUME NEW w \in Threads, Crash(w) PROVE KeyInv'
  BY <1>1, QuietFinish, SameRental DEF Crash, orderVars, KeyInv, KeyType
<1>2. ASSUME key' = key, rental' = rental, org' = org, balance' \in Int, pc' = pc, loc' = loc
      PROVE  KeyInv'
  <2>1. KeyType'
    BY <1>2 DEF KeyInv, KeyType
  <2>2. KeepsHandlers
    BY <1>2 DEF KeepsHandlers, Working
  <2> QED BY <1>2, <2>1, <2>2, QuietStep, SameRental DEF KeyInv
<1>3. ASSUME NEW t \in Topups, BuyerPays(t) PROVE KeyInv'
  BY <1>2, <1>3 DEF BuyerPays, orderVars, KeyInv, KeyType
<1>4. ASSUME NEW e \in Events, PaymentEvent(e) PROVE KeyInv'
  BY <1>2, <1>4 DEF PaymentEvent, orderVars, KeyInv, KeyType
<1>5. ASSUME UNCHANGED vars PROVE KeyInv'
  BY <1>2, <1>5 DEF vars, KeyInv, KeyType
<1> QED BY <1>1, <1>3, <1>4, <1>5

-----------------------------------------------------------------------------

LEMMA InvInit == Init => KeyInv
<1> SUFFICES ASSUME Init PROVE KeyInv
  OBVIOUS
<1>1. KeyType
  <2>1. rental \in [Keys -> RentalRow]
    BY DEF Init, RentalRow
  <2>2. org \in OrgRow /\ balance \in Int
    <3>1. org \in [balance : {Funds}, spent : {0}, cap : Caps] /\ balance = Funds
      BY DEF Init
    <3>2. org.balance = Funds /\ org.spent = 0 /\ org.cap \in Caps
          /\ org = [balance |-> org.balance, spent |-> org.spent, cap |-> org.cap]
      BY <3>1
    <3>3. Funds \in Int /\ org.cap \in Nat
      BY <3>2, OrderAssumption
    <3> QED BY <3>1, <3>2, <3>3 DEF OrgRow
  <2>3. pc \in [Threads -> Places]
    BY DEF Init, Places
  <2>4. loc \in [Threads -> Local]
    BY DEF Init, Local, Idle
  <2>5. key \in [Keys -> {"free", "claimed", "done"}]
    BY DEF Init
  <2> QED BY <2>1, <2>2, <2>3, <2>4, <2>5 DEF KeyType
<1>2. \A w \in Threads : ~Working(w)
  BY DEF Init, Working
<1>3. MadeOnce
  BY DEF Init, MadeOnce
<1> QED BY <1>1, <1>2, <1>3 DEF KeyInv, OneHandler, HandlerHolds

LEMMA InvNext == KeyInv /\ [Next]_vars => KeyInv'
<1> SUFFICES ASSUME KeyInv, [Next]_vars PROVE KeyInv'
  OBVIOUS
<1>1. CASE \E w \in Clients : Arrive(w)
  BY <1>1, InvClaim, InvExtend, InvSettle, InvTopup, InvDeposit DEF Arrive
<1>2. CASE \E w \in Clients : Continue(w)
  BY <1>2, InvDebit, InvInsert, InvLetGo, InvExtend, InvSettle, InvDeposit, InvTopup
  DEF Continue
<1>3. CASE \E d \in Deliverers : \/ Serve(d) \/ HookRaises(d)
                                 \/ \E t \in Topups : Hook(d, t) \/ Simulate(d, t)
  BY <1>3, InvWebhook
<1>4. CASE \/ \E w \in Threads : Crash(w)
           \/ \E t \in Topups : BuyerPays(t)
           \/ \E e \in Events : PaymentEvent(e)
           \/ UNCHANGED vars
  BY <1>4, InvWorld
<1> QED BY <1>1, <1>2, <1>3, <1>4 DEF Next

(* One effect for each key: however often an order is sent, by whatever    *)
(* threads, and whoever dies on the way, at most one booking is made under *)
(* its key, an answered key has made one and a free key none.              *)
THEOREM OneEffectPerKey == Spec => []OneBookingPerKey
<1>1. KeyInv => OneBookingPerKey
  BY DEF KeyInv, MadeOnce, OneBookingPerKey
<1> QED BY <1>1, InvInit, InvNext, PTL DEF Spec

-----------------------------------------------------------------------------
(* What an organisation has spent.  Between the column and the bookings     *)
(* stands what the requests under way have taken or given back (Flight); a  *)
(* request knows how much by what it keeps in its local variables (Knows).  *)

Flight == [w \in Clients |-> InFlight(w)]
Square == org.spent = SumFunctionOnSet(Cost, OrgKeys) + SumFunctionOnSet(Flight, Clients)

Unmade == \A k \in Keys : rental[k].made = 0 => rental[k].status = "none" /\ rental[k].hours = 0

Knows(w) ==
  /\ pc[w] \in {"debit", "insert", "giveback"} => loc[w].n = Length
  /\ pc[w] \in {"grow", "ungrow"} => loc[w].id \in Keys /\ loc[w].n = 1
  /\ pc[w] \in {"refund", "post"} => loc[w].id \in Keys

SpentType == back \in [Keys -> Int] /\ count \in [deposits : Nat, errors : Nat, crashes : Nat]

SpentInv == /\ SpentType /\ Unmade
            /\ \A w \in Clients : Knows(w)
            /\ count.crashes = 0 => Square

(* The places at which a request owes the books nothing. *)
Even == Places \ {"insert", "giveback", "grow", "ungrow", "post"}

FlightOf(p, l) ==
  IF l.id \notin OrgKeys THEN 0
  ELSE CASE p \in {"insert", "giveback", "grow", "ungrow"} -> l.n
         [] p = "post" -> -l.n
         [] OTHER -> 0

LEMMA FlightNow ==
  \A w \in Clients : /\ Flight[w] = FlightOf(pc[w], loc[w])
                     /\ Flight'[w] = FlightOf(pc'[w], loc'[w])
BY DEF Flight, InFlight, FlightOf

LEMMA FlightFacts ==
  ASSUME NEW p, NEW l
  PROVE  /\ p \in Even \/ l.id \notin OrgKeys => FlightOf(p, l) = 0
         /\ l.id \in OrgKeys /\ p \in {"insert", "giveback", "grow", "ungrow"}
              => FlightOf(p, l) = l.n
         /\ l.id \in OrgKeys /\ p = "post" => FlightOf(p, l) = -l.n
BY DEF FlightOf, Even

LEMMA FlightType ==
  ASSUME NEW p \in Places, NEW l \in Local
  PROVE  FlightOf(p, l) \in Int
<1>1. l.n \in Int
  BY DEF Local
<1>2. CASE p \in Even \/ l.id \notin OrgKeys
  BY <1>2, FlightFacts
<1>3. CASE p \notin Even /\ l.id \in OrgKeys
  BY <1>1, <1>3, FlightFacts DEF Even
<1> QED BY <1>2, <1>3

LEMMA CostNow ==
  \A k \in Keys : /\ Cost[k] = rental[k].hours - back[k]
                  /\ Cost'[k] = rental'[k].hours - back'[k]
BY DEF Cost

(* One request and one booking change: what is spent changes by as much. *)
LEMMA SquareStep ==
  ASSUME KeyType, KeyType', back \in [Keys -> Int], back' \in [Keys -> Int], Square,
         NEW w \in Clients, NEW k \in Keys,
         \A v \in Clients \ {w} : pc'[v] = pc[v] /\ loc'[v] = loc[v],
         \A j \in Keys \ {k} : rental'[j].hours = rental[j].hours /\ back'[j] = back[j],
         org'.spent = org.spent + (Flight'[w] - Flight[w])
                        + (IF k \in OrgKeys THEN Cost'[k] - Cost[k] ELSE 0)
  PROVE  Square'
<1>0. IsFiniteSet(OrgKeys) /\ IsFiniteSet(Clients) /\ OrgKeys \subseteq Keys
  BY FiniteAssumption, OrderAssumption, FS_Subset
<1>1. \A j \in Keys : rental[j].hours \in Int /\ rental'[j].hours \in Int
  BY DEF KeyType, RentalRow
<1>2. \A j \in Keys : Cost[j] \in Int /\ Cost'[j] \in Int
  BY <1>1, CostNow
<1>3. \A v \in Clients : Flight[v] \in Int /\ Flight'[v] \in Int
  <2>1. \A v \in Clients : /\ pc[v] \in Places /\ loc[v] \in Local
                           /\ pc'[v] \in Places /\ loc'[v] \in Local
    BY DEF KeyType
  <2> QED BY <2>1, FlightNow, FlightType
<1>4. SumFunctionOnSet(Flight', Clients)
        = SumFunctionOnSet(Flight, Clients) + (Flight'[w] - Flight[w])
  <2>1. \A v \in Clients \ {w} : Flight[v] = Flight'[v]
    BY FlightNow
  <2> QED BY <1>0, <1>3, <2>1, SumChange
<1>5. SumFunctionOnSet(Cost', OrgKeys)
        = SumFunctionOnSet(Cost, OrgKeys) + (IF k \in OrgKeys THEN Cost'[k] - Cost[k] ELSE 0)
  <2>1. \A j \in Keys \ {k} : Cost[j] = Cost'[j]
    BY CostNow
  <2>2. CASE k \in OrgKeys
    BY <1>0, <1>2, <2>1, <2>2, SumChange
  <2>3. CASE k \notin OrgKeys
    <3>1. SumFunctionOnSet(Cost, OrgKeys) = SumFunctionOnSet(Cost', OrgKeys)
      BY <1>0, <2>1, <2>3, SumSame
    <3>2. SumFunctionOnSet(Cost, OrgKeys) \in Int
      BY <1>0, <1>2, SumType
    <3> QED BY <2>3, <3>1, <3>2
  <2> QED BY <2>2, <2>3
<1>6. /\ SumFunctionOnSet(Cost, OrgKeys) \in Int /\ SumFunctionOnSet(Flight, Clients) \in Int
      /\ Cost[k] \in Int /\ Cost'[k] \in Int /\ Flight[w] \in Int /\ Flight'[w] \in Int
  BY <1>0, <1>2, <1>3, SumType
<1> QED BY <1>4, <1>5, <1>6 DEF Square

(* Nothing is spent, no booking changes its hours, nobody's debt changes. *)
LEMMA SquareSame ==
  ASSUME KeyType, back \in [Keys -> Int], Square,
         \A v \in Clients : Flight'[v] = Flight[v],
         \A j \in Keys : rental'[j].hours = rental[j].hours /\ back'[j] = back[j],
         org'.spent = org.spent
  PROVE  Square'
<1>0. IsFiniteSet(OrgKeys) /\ IsFiniteSet(Clients) /\ OrgKeys \subseteq Keys
  BY FiniteAssumption, OrderAssumption, FS_Subset
<1>1. SumFunctionOnSet(Flight, Clients) = SumFunctionOnSet(Flight', Clients)
  BY <1>0, SumSame
<1>2. SumFunctionOnSet(Cost, OrgKeys) = SumFunctionOnSet(Cost', OrgKeys)
  <2>1. \A j \in OrgKeys : Cost[j] = Cost'[j]
    BY <1>0, CostNow
  <2> QED BY <1>0, <2>1, SumSame
<1> QED BY <1>1, <1>2 DEF Square

Others(w) == \A v \in Threads \ {w} : pc'[v] = pc[v] /\ loc'[v] = loc[v]
SameCount == count' = count

(* The parts of the invariant that a step of one thread leaves to show. *)
LEMMA SpentStep ==
  ASSUME SpentInv, NEW w \in Threads, Others(w), SpentType', Unmade',
         w \in Clients => Knows(w)', count'.crashes = 0 => count.crashes = 0,
         count'.crashes = 0 /\ Square => Square'
  PROVE  SpentInv'
<1>1. ASSUME NEW v \in Clients PROVE Knows(v)'
  <2>1. CASE v = w
    BY <2>1
  <2>2. CASE v # w
    BY <2>2 DEF Others, SpentInv, Knows
  <2> QED BY <2>1, <2>2
<1> QED BY <1>1 DEF SpentInv

(* A step between two places at which nothing is owed, and that touches    *)
(* neither a booking nor what is spent.                                    *)
LEMMA SpentEven ==
  ASSUME KeyInv, SpentInv, NEW w \in Threads, Others(w), pc[w] \in Even, pc'[w] \in Even,
         w \in Clients => Knows(w)',
         rental' = rental, back' = back, org'.spent = org.spent,
         count' \in [deposits : Nat, errors : Nat, crashes : Nat],
         count'.crashes = 0 => count.crashes = 0
  PROVE  SpentInv'
<1>1. SpentType' /\ Unmade'
  BY DEF SpentInv, SpentType, Unmade
<1>2. \A v \in Clients : Flight'[v] = Flight[v]
  BY FlightNow, FlightFacts DEF Others
<1>3. Square => Square'
  BY <1>2, SquareSame DEF SpentInv, SpentType, KeyInv
<1> QED BY <1>1, <1>3, SpentStep

(* A step that moves money between what is spent, a booking and the        *)
(* request's own debt.                                                     *)
LEMMA SpentMove ==
  ASSUME KeyInv, KeyInv', SpentInv, NEW w \in Clients, Others(w), Knows(w)', Unmade',
         back' \in [Keys -> Int], SameCount, NEW k \in Keys,
         \A j \in Keys \ {k} : rental'[j].hours = rental[j].hours /\ back'[j] = back[j],
         org'.spent = org.spent + (FlightOf(pc'[w], loc'[w]) - FlightOf(pc[w], loc[w]))
                        + (IF k \in OrgKeys THEN (rental'[k].hours - back'[k])
                                                   - (rental[k].hours - back[k]) ELSE 0)
  PROVE  SpentInv'
<1>1. SpentType'
  BY DEF SpentInv, SpentType, SameCount
<1>2. org'.spent = org.spent + (Flight'[w] - Flight[w])
                     + (IF k \in OrgKeys THEN Cost'[k] - Cost[k] ELSE 0)
  BY FlightNow, CostNow
<1>3. Square => Square'
  BY <1>2, SquareStep DEF SpentInv, SpentType, KeyInv, Others
<1> QED BY <1>1, <1>3, SpentStep DEF SameCount

LEMMA SpentPay ==
  ASSUME KeyType, NEW k, NEW n \in Int, Pay(k, n)
  PROVE  org'.spent = org.spent + (IF k \in OrgKeys THEN n ELSE 0)
BY DEF Pay, KeyType, OrgRow

LEMMA BeginFacts ==
  ASSUME KeyType, NEW w \in Threads, NEW to, NEW id, NEW n, NEW read, Begin(w, to, id, n, read)
  PROVE  /\ Others(w) /\ pc[w] = "idle" /\ pc'[w] = to
         /\ loc'[w].id = id /\ loc'[w].n = n
BY DEF KeyType, Begin, Others

LEMMA GotoFacts ==
  ASSUME KeyType, NEW w \in Threads, NEW from, NEW to, Goto(w, from, to)
  PROVE  Others(w) /\ pc[w] = from /\ pc'[w] = to /\ loc' = loc
BY DEF KeyType, Goto, Others

LEMMA FinishFacts ==
  ASSUME KeyType, NEW w \in Threads, NEW from, Finish(w, from)
  PROVE  /\ Others(w) /\ pc[w] = from /\ pc'[w] = "idle" /\ "idle" \in Even
         /\ Knows(w)'
BY DEF KeyType, Finish, Others, Knows, Even, Places

-----------------------------------------------------------------------------
LEMMA SpentOrder ==
  ASSUME KeyInv, KeyInv', SpentInv, NEW w \in Clients
  PROVE  /\ \A k \in Keys : Claim(w, k) => SpentInv'
         /\ Debit(w) \/ GiveBack(w) \/ Abort(w) \/ Answer(w) => SpentInv'
<1>0. KeyType /\ Knows(w) /\ w \in Threads /\ SpentType
  BY DEF KeyInv, SpentInv
<1>1. ASSUME NEW k \in Keys, Claim(w, k) PROVE SpentInv'
  <2>1. Begin(w, "debit", k, Length, balance) /\ UNCHANGED <<rental, back, org, count>>
    BY <1>1 DEF Claim
  <2>2. Others(w) /\ pc[w] = "idle" /\ pc'[w] = "debit" /\ loc'[w].n = Length
    BY <1>0, <2>1, BeginFacts
  <2>3. pc[w] \in Even /\ pc'[w] \in Even /\ Knows(w)'
    BY <2>2 DEF Even, Places, Knows
  <2> QED BY <1>0, <2>1, <2>2, <2>3, SpentEven DEF SpentType
<1>2. ASSUME Debit(w) PROVE SpentInv'
  <2>1. UNCHANGED <<rental, back, count>>
    BY <1>2 DEF Debit
  <2>2. CASE Pay(loc[w].id, Length) /\ Goto(w, "debit", "insert")
    <3>1. PICK k \in Keys : k = loc[w].id
      BY <1>0, <2>2, GotoFacts DEF KeyInv, HandlerHolds, Working
    <3>2. Others(w) /\ pc[w] = "debit" /\ pc'[w] = "insert" /\ loc' = loc /\ loc[w].n = Length
      BY <1>0, <2>2, GotoFacts DEF Knows
    <3>3. /\ FlightOf(pc[w], loc[w]) = 0
          /\ FlightOf(pc'[w], loc'[w]) = IF k \in OrgKeys THEN Length ELSE 0
      BY <3>1, <3>2, FlightFacts DEF Even, Places
    <3>4. org'.spent = org.spent + (IF k \in OrgKeys THEN Length ELSE 0)
      BY <1>0, <2>2, <3>1, SpentPay, OrderAssumption
    <3>5. Knows(w)' /\ Unmade' /\ back' \in [Keys -> Int] /\ SameCount
      BY <1>0, <2>1, <3>2 DEF Knows, SpentInv, Unmade, SpentType, SameCount
    <3>6. org.spent \in Int /\ rental[k].hours - back[k] \in Int
      BY <1>0 DEF KeyType, OrgRow, RentalRow, SpentType
    <3> QED BY <2>1, <3>2, <3>3, <3>4, <3>5, <3>6, SpentMove, OrderAssumption
  <2>3. CASE Goto(w, "debit", "abort") /\ UNCHANGED <<org, balance>>
    <3>1. Others(w) /\ pc[w] = "debit" /\ pc'[w] = "abort"
      BY <1>0, <2>3, GotoFacts
    <3>2. pc[w] \in Even /\ pc'[w] \in Even /\ Knows(w)'
      BY <3>1 DEF Even, Places, Knows
    <3> QED BY <1>0, <2>1, <2>3, <3>1, <3>2, SpentEven DEF SpentType
  <2> QED BY <1>2, <2>2, <2>3 DEF Debit
<1>3. ASSUME GiveBack(w) PROVE SpentInv'
  <2>1. Goto(w, "giveback", "abort") /\ UNCHANGED <<rental, back, count>>
    BY <1>3 DEF GiveBack
  <2>2. Others(w) /\ pc[w] = "giveback" /\ pc'[w] = "abort" /\ loc' = loc /\ loc[w].n = Length
    BY <1>0, <2>1, GotoFacts DEF Knows
  <2>3. PICK k \in Keys : k = loc[w].id
    BY <2>2 DEF KeyInv, HandlerHolds, Working
  <2>4. org'.spent = org.spent + (IF k \in OrgKeys THEN -Length ELSE 0)
    <3>1. CASE k \in OrgKeys
      BY <1>0, <1>3, <2>3, <3>1, SpentPay, OrderAssumption DEF GiveBack, PayBack
    <3>2. CASE k \notin OrgKeys
      BY <1>0, <1>3, <2>3, <3>2 DEF GiveBack, KeyType, OrgRow
    <3> QED BY <3>1, <3>2
  <2>5. /\ FlightOf(pc[w], loc[w]) = IF k \in OrgKeys THEN Length ELSE 0
        /\ FlightOf(pc'[w], loc'[w]) = 0
    BY <2>2, <2>3, FlightFacts DEF Even, Places
  <2>6. Knows(w)' /\ Unmade' /\ back' \in [Keys -> Int] /\ SameCount
    BY <1>0, <2>1, <2>2 DEF Knows, SpentInv, Unmade, SpentType, SameCount
  <2>7. org.spent \in Int /\ rental[k].hours - back[k] \in Int
    BY <1>0 DEF KeyType, OrgRow, RentalRow, SpentType
  <2> QED BY <2>1, <2>2, <2>4, <2>5, <2>6, <2>7, SpentMove, OrderAssumption
<1>4. ASSUME Abort(w) \/ Answer(w) PROVE SpentInv'
  <2>1. UNCHANGED <<rental, back, org, count>> /\ (Finish(w, "abort") \/ Finish(w, "answer"))
    BY <1>4 DEF Abort, Answer
  <2>2. Others(w) /\ pc[w] \in {"abort", "answer"} /\ pc'[w] \in Even /\ Knows(w)'
    BY <1>0, <2>1, FinishFacts
  <2>3. pc[w] \in Even
    BY <2>2 DEF Even, Places
  <2> QED BY <1>0, <2>1, <2>2, <2>3, SpentEven DEF SpentType
<1> QED BY <1>1, <1>2, <1>3, <1>4

LEMMA SpentInsert ==
  ASSUME KeyInv, KeyInv', SpentInv, NEW w \in Clients, Insert(w)
  PROVE  SpentInv'
<1>0. KeyType /\ Knows(w) /\ w \in Threads /\ SpentType
  BY DEF KeyInv, SpentInv
<1>1. UNCHANGED <<back, org, count>> /\ pc[w] = "insert"
  BY DEF Insert, Goto
<1>2. PICK k \in Keys : k = loc[w].id /\ rental[k].made = 0
  BY <1>1 DEF KeyInv, HandlerHolds, Working
<1>3. loc[w].n = Length /\ back' \in [Keys -> Int] /\ SameCount
  BY <1>0, <1>1 DEF Knows, SpentType, SameCount
<1>4. org.spent \in Int /\ rental[k].hours \in Int /\ back[k] \in Int
  BY <1>0 DEF KeyType, OrgRow, RentalRow, SpentType
<1>5. FlightOf(pc[w], loc[w]) = IF k \in OrgKeys THEN Length ELSE 0
  BY <1>1, <1>2, <1>3, FlightFacts
<1>6. CASE /\ Goto(w, "insert", "answer")
           /\ rental' = [rental EXCEPT ![k] = [status |-> "live", hours |-> Length,
                                               made |-> @.made + 1]]
  <2>1. Others(w) /\ pc'[w] = "answer" /\ loc' = loc
    BY <1>0, <1>6, GotoFacts
  <2>2. FlightOf(pc'[w], loc'[w]) = 0 /\ Knows(w)'
    BY <2>1, FlightFacts DEF Even, Places, Knows
  <2>3. /\ rental'[k].hours = Length /\ rental'[k].made = 1
        /\ \A j \in Keys \ {k} : rental'[j] = rental[j]
    BY <1>2, <1>6 DEF KeyInv, KeyType
  <2>4. Unmade' /\ rental[k].hours = 0
    BY <1>2, <2>3 DEF SpentInv, Unmade
  <2> QED BY <1>0, <1>1, <1>3, <1>4, <1>5, <2>1, <2>2, <2>3, <2>4, SpentMove, OrderAssumption
<1>7. CASE Goto(w, "insert", "giveback") /\ rental' = rental
  <2>1. Others(w) /\ pc'[w] = "giveback" /\ loc' = loc
    BY <1>0, <1>7, GotoFacts
  <2>2. /\ FlightOf(pc'[w], loc'[w]) = IF k \in OrgKeys THEN Length ELSE 0
        /\ Knows(w)' /\ Unmade'
    BY <1>2, <1>3, <1>7, <2>1, FlightFacts DEF Knows, SpentInv, Unmade
  <2> QED BY <1>0, <1>1, <1>3, <1>4, <1>5, <1>7, <2>1, <2>2, SpentMove, OrderAssumption
<1> QED BY <1>2, <1>6, <1>7 DEF Insert

LEMMA SpentExtend ==
  ASSUME KeyInv, KeyInv', SpentInv, NEW w \in Clients
  PROVE  /\ \A k \in Keys : Extend(w, k) => SpentInv'
         /\ Grow(w) \/ Ungrow(w) => SpentInv'
<1>0. /\ KeyType /\ Knows(w) /\ w \in Threads /\ SpentType
      /\ org.spent \in Int /\ \A k \in Keys : rental[k].hours \in Int /\ back[k] \in Int
  BY DEF KeyInv, SpentInv, KeyType, OrgRow, RentalRow, SpentType
<1>1. ASSUME NEW k \in Keys, Extend(w, k) PROVE SpentInv'
  <2>1. Begin(w, "grow", k, 1, 0) /\ UNCHANGED <<rental, back, count>> /\ Pay(k, 1)
    BY <1>1 DEF Extend
  <2>2. Others(w) /\ pc[w] = "idle" /\ pc'[w] = "grow" /\ loc'[w].id = k /\ loc'[w].n = 1
    BY <1>0, <2>1, BeginFacts
  <2>3. /\ FlightOf(pc[w], loc[w]) = 0
        /\ FlightOf(pc'[w], loc'[w]) = IF k \in OrgKeys THEN 1 ELSE 0
    BY <2>2, FlightFacts DEF Even, Places
  <2>4. org'.spent = org.spent + (IF k \in OrgKeys THEN 1 ELSE 0)
    BY <1>0, <2>1, SpentPay
  <2>5. Knows(w)' /\ Unmade' /\ back' \in [Keys -> Int] /\ SameCount
    BY <1>0, <2>1, <2>2 DEF Knows, SpentInv, Unmade, SpentType, SameCount
  <2> QED BY <1>0, <2>1, <2>2, <2>3, <2>4, <2>5, SpentMove
<1>2. ASSUME Grow(w) PROVE SpentInv'
  <2>1. UNCHANGED <<back, org, count>> /\ pc[w] = "grow"
    BY <1>2 DEF Grow
  <2>2. PICK k \in Keys : k = loc[w].id
    BY <1>0, <2>1 DEF Knows
  <2>3. FlightOf(pc[w], loc[w]) = IF k \in OrgKeys THEN 1 ELSE 0
    BY <1>0, <2>1, <2>2, FlightFacts DEF Knows
  <2>4. back' \in [Keys -> Int] /\ SameCount
    BY <1>0, <2>1 DEF SpentType, SameCount
  <2>5. CASE /\ rental[k].status = "live" /\ Finish(w, "grow")
             /\ rental' = [rental EXCEPT ![k].hours = @ + 1]
    <3>1. Others(w) /\ pc'[w] = "idle" /\ pc'[w] \in Even /\ Knows(w)'
      BY <1>0, <2>5, FinishFacts
    <3>2. FlightOf(pc'[w], loc'[w]) = 0
      BY <3>1, FlightFacts
    <3>3. /\ rental'[k].hours = rental[k].hours + 1 /\ rental'[k].made = rental[k].made
          /\ \A j \in Keys \ {k} : rental'[j] = rental[j]
      BY <2>5 DEF KeyInv, KeyType, RentalRow
    <3>4. Unmade'
      BY <2>5, <3>3 DEF SpentInv, Unmade
    <3> QED BY <1>0, <2>1, <2>3, <2>4, <3>1, <3>2, <3>3, <3>4, SpentMove
  <2>6. CASE Goto(w, "grow", "ungrow") /\ rental' = rental
    <3>1. Others(w) /\ pc'[w] = "ungrow" /\ loc' = loc
      BY <1>0, <2>6, GotoFacts
    <3>2. /\ FlightOf(pc'[w], loc'[w]) = IF k \in OrgKeys THEN 1 ELSE 0
          /\ Knows(w)' /\ Unmade'
      BY <1>0, <2>1, <2>2, <2>6, <3>1, FlightFacts DEF Knows, SpentInv, Unmade
    <3> QED BY <1>0, <2>1, <2>3, <2>4, <2>6, <3>1, <3>2, SpentMove
  <2> QED BY <1>2, <2>2, <2>5, <2>6 DEF Grow
<1>3. ASSUME Ungrow(w) PROVE SpentInv'
  <2>1. UNCHANGED <<rental, back, count>> /\ Finish(w, "ungrow") /\ Pay(loc[w].id, -1)
    BY <1>3 DEF Ungrow, PayBack
  <2>2. Others(w) /\ pc[w] = "ungrow" /\ pc'[w] \in Even /\ Knows(w)'
    BY <1>0, <2>1, FinishFacts
  <2>3. PICK k \in Keys : k = loc[w].id
    BY <1>0, <2>2 DEF Knows
  <2>4. /\ FlightOf(pc[w], loc[w]) = IF k \in OrgKeys THEN 1 ELSE 0
        /\ FlightOf(pc'[w], loc'[w]) = 0
    BY <1>0, <2>2, <2>3, FlightFacts DEF Knows
  <2>5. org'.spent = org.spent + (IF k \in OrgKeys THEN -1 ELSE 0)
    BY <1>0, <2>1, <2>3, SpentPay
  <2>6. Unmade' /\ back' \in [Keys -> Int] /\ SameCount
    BY <1>0, <2>1 DEF SpentInv, Unmade, SpentType, SameCount
  <2> QED BY <1>0, <2>1, <2>2, <2>4, <2>5, <2>6, SpentMove
<1> QED BY <1>1, <1>2, <1>3

LEMMA SpentSettle ==
  ASSUME KeyInv, KeyInv', SpentInv, NEW w \in Clients
  PROVE  /\ \A k \in Keys : Settle(w, k) => SpentInv'
         /\ Refund(w) \/ Post(w) => SpentInv'
<1>0. /\ KeyType /\ Knows(w) /\ w \in Threads /\ SpentType
      /\ org.spent \in Int /\ \A k \in Keys : rental[k].hours \in Int /\ back[k] \in Int
      /\ loc[w].n \in Int
  BY LocalType DEF KeyInv, SpentInv, KeyType, OrgRow, RentalRow, SpentType
<1>1. ASSUME NEW k \in Keys, Settle(w, k) PROVE SpentInv'
  <2>1. /\ rental[k].status = "live" /\ rental' = [rental EXCEPT ![k].status = "settled"]
        /\ UNCHANGED <<back, org, count>>
    BY <1>1 DEF Settle
  <2>2. PICK n \in Int : Begin(w, "refund", k, n, 0)
    BY <1>0, <1>1 DEF Settle
  <2>3. Others(w) /\ pc[w] = "idle" /\ pc'[w] = "refund" /\ loc'[w].id = k /\ loc'[w].n = n
    BY <1>0, <2>2, BeginFacts
  <2>4. FlightOf(pc[w], loc[w]) = 0 /\ FlightOf(pc'[w], loc'[w]) = 0 /\ Knows(w)'
    BY <2>3, FlightFacts DEF Even, Places, Knows
  <2>5. /\ rental'[k].hours = rental[k].hours /\ rental'[k].made = rental[k].made
        /\ \A j \in Keys \ {k} : rental'[j] = rental[j]
    BY <2>1 DEF KeyInv, KeyType, RentalRow
  <2>6. Unmade' /\ back' \in [Keys -> Int] /\ SameCount
    BY <1>0, <2>1, <2>5 DEF SpentInv, Unmade, SpentType, SameCount
  <2> QED BY <1>0, <2>1, <2>3, <2>4, <2>5, <2>6, SpentMove
<1>2. ASSUME Refund(w) PROVE SpentInv'
  <2>1. UNCHANGED <<rental, back, count>> /\ Goto(w, "refund", "post") /\ Pay(loc[w].id, -loc[w].n)
    BY <1>2 DEF Refund, PayBack
  <2>2. Others(w) /\ pc[w] = "refund" /\ pc'[w] = "post" /\ loc' = loc
    BY <1>0, <2>1, GotoFacts
  <2>3. PICK k \in Keys : k = loc[w].id
    BY <1>0, <2>2 DEF Knows
  <2>4. /\ FlightOf(pc[w], loc[w]) = 0
        /\ FlightOf(pc'[w], loc'[w]) = IF k \in OrgKeys THEN -loc[w].n ELSE 0
    BY <2>2, <2>3, FlightFacts DEF Even, Places
  <2>5. org'.spent = org.spent + (IF k \in OrgKeys THEN -loc[w].n ELSE 0)
    <3>1. -loc[w].n \in Int
      BY <1>0
    <3> QED BY <1>0, <2>1, <2>3, <3>1, SpentPay
  <2>6. Knows(w)' /\ Unmade' /\ back' \in [Keys -> Int] /\ SameCount
    BY <1>0, <2>1, <2>2, <2>3 DEF Knows, SpentInv, Unmade, SpentType, SameCount
  <2> QED BY <1>0, <2>1, <2>2, <2>4, <2>5, <2>6, SpentMove
<1>3. ASSUME Post(w) PROVE SpentInv'
  <2>1. /\ UNCHANGED <<rental, org, count>> /\ Finish(w, "post")
        /\ back' = [back EXCEPT ![loc[w].id] = @ + loc[w].n]
    BY <1>3 DEF Post
  <2>2. Others(w) /\ pc[w] = "post" /\ pc'[w] \in Even /\ Knows(w)'
    BY <1>0, <2>1, FinishFacts
  <2>3. PICK k \in Keys : k = loc[w].id
    BY <1>0, <2>2 DEF Knows
  <2>4. /\ FlightOf(pc[w], loc[w]) = IF k \in OrgKeys THEN -loc[w].n ELSE 0
        /\ FlightOf(pc'[w], loc'[w]) = 0
    BY <2>2, <2>3, FlightFacts
  <2>5. /\ back' \in [Keys -> Int] /\ back'[k] = back[k] + loc[w].n
        /\ \A j \in Keys \ {k} : back'[j] = back[j]
    BY <1>0, <2>1, <2>3 DEF SpentType
  <2>6. Unmade' /\ SameCount
    BY <2>1 DEF SpentInv, Unmade, SameCount
  <2> QED BY <1>0, <2>1, <2>2, <2>4, <2>5, <2>6, SpentMove
<1> QED BY <1>1, <1>2, <1>3

(* Deposits, top-ups and webhooks stay at even places. *)
LEMMA SpentAside ==
  ASSUME KeyInv, SpentInv, NEW w \in Threads,
         \/ \E from, to \in Even : /\ Goto(w, from, to)
                                   /\ to \notin {"debit", "grow", "refund"}
         \/ \E from \in Even : Finish(w, from)
         \/ \E to \in Even : \E id, n, read : /\ Begin(w, to, id, n, read)
                                              /\ to \notin {"debit", "grow", "refund"},
         rental' = rental, back' = back, org'.spent = org.spent,
         count' \in [deposits : Nat, errors : Nat, crashes : Nat],
         count'.crashes = 0 => count.crashes = 0
  PROVE  SpentInv'
<1>0. KeyType /\ \A p \in Even : p \notin {"insert", "giveback", "grow", "ungrow", "post"}
  BY DEF KeyInv, Even
<1>1. CASE \E from \in Even : Finish(w, from)
  BY <1>0, <1>1, FinishFacts, SpentEven
<1>2. ASSUME NEW from \in Even, NEW to \in Even, Goto(w, from, to),
             to \notin {"debit", "grow", "refund"}
      PROVE  SpentInv'
  <2>1. Others(w) /\ pc[w] \in Even /\ pc'[w] = to
    BY <1>0, <1>2, GotoFacts
  <2>2. Knows(w)'
    BY <1>0, <1>2, <2>1 DEF Knows
  <2> QED BY <2>1, <2>2, SpentEven
<1>3. ASSUME NEW to \in Even, NEW id, NEW n, NEW read, Begin(w, to, id, n, read),
             to \notin {"debit", "grow", "refund"}
      PROVE  SpentInv'
  <2>1. Others(w) /\ pc[w] = "idle" /\ pc'[w] = to
    BY <1>0, <1>3, BeginFacts
  <2>2. Knows(w)' /\ pc[w] \in Even
    BY <1>0, <1>3, <2>1 DEF Knows, Even, Places
  <2> QED BY <2>1, <2>2, SpentEven
<1> QED BY <1>1, <1>2, <1>3

LEMMA SpentDeposit ==
  ASSUME KeyInv, SpentInv, NEW w \in Clients
  PROVE  /\ \A c \in Caps : OrgDeposit(w, c) => SpentInv'
         /\ OrgDepositWrite(w) => SpentInv'
<1>0. SpentType /\ KeyType /\ w \in Threads /\ {"deposit"} \subseteq Even
  BY DEF SpentInv, KeyInv, Even, Places
<1>1. ASSUME NEW c \in Caps, OrgDeposit(w, c) PROVE SpentInv'
  <2>1. /\ rental' = rental /\ back' = back /\ Begin(w, "deposit", "org", 1, org.balance)
        /\ org' = [org EXCEPT !.cap = c]
        /\ count' = [count EXCEPT !.deposits = @ + 1]
    BY <1>1 DEF OrgDeposit
  <2>2. org'.spent = org.spent
    BY <1>0, <2>1 DEF KeyType, OrgRow
  <2>3. /\ count' \in [deposits : Nat, errors : Nat, crashes : Nat]
        /\ count'.crashes = count.crashes
    BY <1>0, <2>1 DEF SpentType
  <2> QED BY <1>0, <2>1, <2>2, <2>3, SpentAside
<1>2. ASSUME OrgDepositWrite(w) PROVE SpentInv'
  <2>1. org'.spent = org.spent
    BY <1>0, <1>2 DEF OrgDepositWrite, KeyType, OrgRow
  <2>2. rental' = rental /\ back' = back /\ count' = count /\ Finish(w, "deposit")
    BY <1>2 DEF OrgDepositWrite
  <2> QED BY <1>0, <2>1, <2>2, SpentAside DEF SpentType
<1> QED BY <1>1, <1>2

LEMMA SpentTopup ==
  ASSUME KeyInv, SpentInv, NEW w \in Clients
  PROVE  /\ \A t \in Topups : StartTopup(w, t) => SpentInv'
         /\ Checkout(w) \/ Store(w) => SpentInv'
<1>0. SpentType /\ KeyType /\ w \in Threads /\ {"checkout", "store"} \subseteq Even
  BY DEF SpentInv, KeyInv, Even, Places
<1>1. ASSUME NEW t \in Topups, StartTopup(w, t) PROVE SpentInv'
  <2>1. UNCHANGED <<rental, back, org, count>> /\ Begin(w, "checkout", t, 0, 0)
    BY <1>1 DEF StartTopup, orderVars
  <2> QED BY <1>0, <2>1, SpentAside DEF SpentType
<1>2. ASSUME Checkout(w) PROVE SpentInv'
  <2>1. /\ UNCHANGED <<rental, back, org, count>>
        /\ Goto(w, "checkout", "store") \/ Finish(w, "checkout")
    BY <1>2 DEF Checkout, orderVars
  <2> QED BY <1>0, <2>1, SpentAside DEF SpentType
<1>3. ASSUME Store(w) PROVE SpentInv'
  <2>1. UNCHANGED <<rental, back, org, count>> /\ Finish(w, "store")
    BY <1>3 DEF Store, orderVars
  <2> QED BY <1>0, <2>1, SpentAside DEF SpentType
<1> QED BY <1>1, <1>2, <1>3

LEMMA SpentWebhook ==
  ASSUME KeyInv, SpentInv, NEW d \in Deliverers
  PROVE  /\ Serve(d) \/ HookRaises(d) => SpentInv'
         /\ \A t \in Topups : Hook(d, t) \/ Simulate(d, t) => SpentInv'
<1>0. /\ SpentType /\ KeyType /\ d \in Threads
      /\ {"hook_read", "hook_write", "hook_done", "sim_write"} \subseteq Even
  BY DEF SpentInv, KeyInv, Even, Places
<1>1. ASSUME CreditRead(d) PROVE SpentInv'
  <2>1. UNCHANGED <<rental, back, org, count>>
    BY <1>1 DEF CreditRead, orderVars
  <2>2. CASE Goto(d, "hook_read", "hook_done")
    BY <1>0, <2>1, <2>2, SpentAside DEF SpentType
  <2>3. CASE /\ pc[d] = "hook_read" /\ pc' = [pc EXCEPT ![d] = "hook_write"]
             /\ loc' = [loc EXCEPT ![d].read = balance]
    <3>1. Others(d) /\ pc'[d] = "hook_write"
      BY <1>0, <2>3 DEF KeyType, Others
    <3>2. Knows(d)'
      BY <3>1 DEF Knows
    <3> QED BY <1>0, <2>1, <2>3, <3>1, <3>2, SpentEven DEF SpentType
  <2> QED BY <1>1, <2>2, <2>3 DEF CreditRead
<1>2. ASSUME CreditWrite(d) \/ HookDone(d) \/ SimulateWrite(d) PROVE SpentInv'
  <2>1. /\ UNCHANGED <<rental, back, org, count>>
        /\ \/ Goto(d, "hook_write", "hook_done")
           \/ Finish(d, "hook_done") \/ Finish(d, "sim_write")
    BY <1>2 DEF CreditWrite, HookDone, SimulateWrite, orderVars
  <2> QED BY <1>0, <2>1, SpentAside DEF SpentType
<1>3. ASSUME HookRaises(d) PROVE SpentInv'
  <2>1. /\ UNCHANGED <<rental, back, org>> /\ Finish(d, "hook_read")
        /\ count' = [count EXCEPT !.errors = @ + 1]
    BY <1>3 DEF HookRaises, orderVars
  <2>2. /\ count' \in [deposits : Nat, errors : Nat, crashes : Nat]
        /\ count'.crashes = count.crashes
    BY <1>0, <2>1 DEF SpentType
  <2> QED BY <1>0, <2>1, <2>2, SpentAside
<1>4. ASSUME NEW t \in Topups, Hook(d, t) \/ Simulate(d, t) PROVE SpentInv'
  <2>1. /\ UNCHANGED <<rental, back, org, count>>
        /\ Begin(d, "hook_read", t, 0, 0) \/ Begin(d, "sim_write", t, 0, balance)
    BY <1>4 DEF Hook, Simulate, orderVars
  <2> QED BY <1>0, <2>1, SpentAside DEF SpentType
<1> QED BY <1>1, <1>2, <1>3, <1>4 DEF Serve

LEMMA SpentWorld ==
  ASSUME KeyInv, SpentInv
  PROVE  /\ \A w \in Threads : Crash(w) => SpentInv'
         /\ \A t \in Topups : BuyerPays(t) => SpentInv'
         /\ \A e \in Events : PaymentEvent(e) => SpentInv'
         /\ UNCHANGED vars => SpentInv'
<1>1. ASSUME NEW w \in Threads, Crash(w) PROVE SpentInv'
  <2>1. /\ UNCHANGED <<rental, back>> /\ Finish(w, pc[w])
        /\ count' = [count EXCEPT !.crashes = @ + 1]
    BY <1>1 DEF Crash, orderVars
  <2>2. Others(w) /\ Knows(w)'
    BY <2>1, FinishFacts DEF KeyInv
  <2>3. SpentType' /\ count'.crashes # 0
    BY <2>1 DEF SpentInv, SpentType
  <2>4. Unmade'
    BY <2>1 DEF SpentInv, Unmade
  <2> QED BY <2>2, <2>3, <2>4, SpentStep
<1>2. ASSUME UNCHANGED <<rental, back, org, count, pc, loc>> PROVE SpentInv'
  <2>1. SpentType' /\ Unmade' /\ \A w \in Clients : Knows(w)'
    BY <1>2 DEF SpentInv, SpentType, Unmade, Knows
  <2>2. Square => Square'
    BY <1>2, FlightNow, SquareSame DEF SpentInv, SpentType, KeyInv
  <2> QED BY <1>2, <2>1, <2>2 DEF SpentInv
<1>3. ASSUME NEW t \in Topups, BuyerPays(t) PROVE SpentInv'
  BY <1>2, <1>3 DEF BuyerPays, orderVars
<1>4. ASSUME NEW e \in Events, PaymentEvent(e) PROVE SpentInv'
  BY <1>2, <1>4 DEF PaymentEvent, orderVars
<1>5. ASSUME UNCHANGED vars PROVE SpentInv'
  BY <1>2, <1>5 DEF vars
<1> QED BY <1>1, <1>3, <1>4, <1>5

-----------------------------------------------------------------------------

LEMMA SpentInit == Init => SpentInv
<1> SUFFICES ASSUME Init PROVE SpentInv
  OBVIOUS
<1>1. SpentType /\ Unmade /\ \A w \in Clients : Knows(w)
  BY DEF Init, SpentType, Unmade, Knows
<1>2. \A k \in OrgKeys : Cost[k] = 0
  BY CostNow, OrderAssumption DEF Init
<1>3. \A w \in Clients : Flight[w] = 0
  <2>1. \A w \in Clients : pc[w] = "idle" /\ "idle" \in Even
    BY DEF Init, Even, Places
  <2> QED BY <2>1, FlightNow, FlightFacts
<1>4. IsFiniteSet(OrgKeys) /\ IsFiniteSet(Clients)
  BY FiniteAssumption, OrderAssumption, FS_Subset
<1>5. SumFunctionOnSet(Cost, OrgKeys) = 0 /\ SumFunctionOnSet(Flight, Clients) = 0
  BY <1>2, <1>3, <1>4, SumZero
<1>6. org.spent = 0
  BY DEF Init
<1> QED BY <1>1, <1>5, <1>6 DEF SpentInv, Square

LEMMA SpentNext == KeyInv /\ SpentInv /\ [Next]_vars => SpentInv'
<1> SUFFICES ASSUME KeyInv, SpentInv, [Next]_vars PROVE SpentInv'
  OBVIOUS
<1>0. KeyInv'
  BY InvNext
<1>1. CASE \E w \in Clients : Arrive(w)
  BY <1>0, <1>1, SpentOrder, SpentExtend, SpentSettle, SpentTopup, SpentDeposit DEF Arrive
<1>2. CASE \E w \in Clients : Continue(w)
  BY <1>0, <1>2, SpentOrder, SpentInsert, SpentExtend, SpentSettle, SpentDeposit, SpentTopup
  DEF Continue
<1>3. CASE \E d \in Deliverers : \/ Serve(d) \/ HookRaises(d)
                                 \/ \E t \in Topups : Hook(d, t) \/ Simulate(d, t)
  BY <1>3, SpentWebhook
<1>4. CASE \/ \E w \in Threads : Crash(w)
           \/ \E t \in Topups : BuyerPays(t)
           \/ \E e \in Events : PaymentEvent(e)
           \/ UNCHANGED vars
  BY <1>4, SpentWorld
<1> QED BY <1>1, <1>2, <1>3, <1>4 DEF Next

(* As long as no process dies, the organisation's spent column is what its *)
(* bookings cost, less what their settlements gave back, and what requests *)
(* under way have taken or returned: for any keys, clients, caps and        *)
(* deposits, whatever bookings, extensions and settlements overlap.         *)
THEOREM SpentIsBookingsHolds == Spec => []SpentIsBookings
<1>1. SpentInv => SpentIsBookings
  BY DEF SpentInv, Square, Flight, SpentIsBookings
<1> QED BY <1>1, InvInit, InvNext, SpentInit, SpentNext, PTL DEF Spec

-----------------------------------------------------------------------------
(* Top-ups.  A credit reads the status of the top-up in one step and writes *)
(* it in another, so that two deliverers may credit one payment twice; the  *)
(* argument is for one.  What a thread at each place has seen of its        *)
(* top-up still holds (Told), one thread opens a checkout for it, and the   *)
(* row, the session and the ledger agree (TopupOK).                         *)

OneDeliverer == \A d, e \in Deliverers : d = e

Opens(w) == pc[w] \in {"checkout", "store"}
Told(w) ==
  /\ Opens(w) => /\ loc[w].id \in Topups /\ ~topup[loc[w].id].stored
                 /\ topup[loc[w].id].status # "none"
                 /\ pc[w] = "checkout" => session[loc[w].id] = "none"
  /\ pc[w] \in {"hook_read", "hook_write", "hook_done", "sim_write"}
       => w \in Deliverers /\ loc[w].id \in Topups /\ session[loc[w].id] = "paid"
  /\ pc[w] \in {"hook_write", "sim_write"} => topup[loc[w].id].status # "paid"

OneOpens == \A w, v \in Threads : Opens(w) /\ Opens(v) /\ loc[w].id = loc[v].id => w = v

TopupOK(t) ==
  /\ credited[t] = IF topup[t].status = "paid" THEN 1 ELSE 0
  /\ topup[t].status = "paid" => session[t] = "paid"
  /\ session[t] = "paid" => topup[t].stored
  /\ topup[t].status = "none" => session[t] = "none" /\ ~topup[t].stored

TopupType ==
  /\ topup \in [Topups -> [status : {"none", "pending", "paid", "failed"}, stored : BOOLEAN]]
  /\ credited \in [Topups -> Nat]
  /\ session \in [Topups -> {"none", "open", "paid"}]

CreditInv == /\ TopupType /\ OneOpens
             /\ \A t \in Topups : TopupOK(t)
             /\ \A w \in Threads : Told(w)

(* What a step of w on the top-up t may do without disturbing the others. *)
MayChange(w, t) ==
  /\ topup'[t].stored = topup[t].stored \/ (Opens(w) /\ loc[w].id = t)
  /\ topup[t].status # "none" => topup'[t].status # "none"
  /\ session[t] = "paid" => session'[t] = "paid"
  /\ session[t] = "none" /\ session'[t] # "none"
       => topup[t].stored \/ (Opens(w) /\ loc[w].id = t)
  /\ topup'[t].status = "paid" => topup[t].status = "paid" \/ w \in Deliverers
StartsOpen(w) ==
  Opens(w)' => \/ Opens(w) /\ loc'[w].id = loc[w].id
               \/ loc'[w].id \in Topups /\ topup[loc'[w].id].status = "none"

LEMMA CreditStep ==
  ASSUME OneDeliverer, CreditInv, NEW w \in Threads, Others(w), StartsOpen(w),
         NEW t \in Topups, TopupType', TopupOK(t)', Told(w)', MayChange(w, t),
         \A u \in Topups \ {t} : /\ topup'[u] = topup[u] /\ credited'[u] = credited[u]
                                 /\ session'[u] = session[u]
  PROVE  CreditInv'
<1>1. \A u \in Topups : TopupOK(u)'
  BY DEF CreditInv, TopupOK
<1>2. ASSUME NEW v \in Threads PROVE Told(v)'
  <2>1. CASE v = w
    BY <2>1
  <2>2. CASE v # w
    <3>1. pc'[v] = pc[v] /\ loc'[v] = loc[v] /\ Told(v)
      BY <2>2 DEF Others, CreditInv
    <3>2. Opens(v) /\ Opens(w) => loc[v].id # loc[w].id
      BY <2>2 DEF CreditInv, OneOpens
    <3>3. CASE loc[v].id # t
      BY <3>1, <3>3 DEF Told, Opens
    <3>4. CASE loc[v].id = t
      <4>1. w \in Deliverers => v \notin Deliverers
        BY <2>2 DEF OneDeliverer
      <4> QED BY <3>1, <3>2, <3>4, <4>1 DEF Told, Opens, MayChange
    <3> QED BY <3>3, <3>4
  <2> QED BY <2>1, <2>2
<1>3. OneOpens'
  BY DEF CreditInv, OneOpens, Opens, Told, Others, StartsOpen
<1> QED BY <1>1, <1>2, <1>3 DEF CreditInv

LEMMA CreditQuiet ==
  ASSUME CreditInv, NEW w \in Threads, Others(w), Told(w)', UNCHANGED <<topup, credited, session>>,
         Opens(w)' => Opens(w) /\ loc'[w].id = loc[w].id
  PROVE  CreditInv'
<1>1. TopupType' /\ \A t \in Topups : TopupOK(t)'
  BY DEF CreditInv, TopupType, TopupOK
<1>2. ASSUME NEW v \in Threads PROVE Told(v)'
  BY DEF CreditInv, Told, Opens, Others
<1>3. OneOpens'
  BY DEF CreditInv, OneOpens, Opens, Others
<1> QED BY <1>1, <1>2, <1>3 DEF CreditInv

(* The places of the wallets' handlers, which do not touch a top-up. *)
Away == Places \ {"checkout", "store", "hook_read", "hook_write", "hook_done", "sim_write"}

LEMMA CreditAway ==
  ASSUME KeyType, CreditInv, NEW w \in Threads, UNCHANGED <<topup, credited, session>>,
         \/ \E from, to : Goto(w, from, to) /\ to \in Away
         \/ \E from : Finish(w, from)
         \/ \E to, id, n, read : Begin(w, to, id, n, read) /\ to \in Away
  PROVE  CreditInv'
<1>1. Others(w) /\ pc'[w] \in Away
  BY GotoFacts, FinishFacts, BeginFacts DEF Away, Places
<1>2. Told(w)' /\ ~Opens(w)'
  BY <1>1 DEF Told, Opens, Away
<1> QED BY <1>1, <1>2, CreditQuiet

LEMMA CreditOrder ==
  ASSUME KeyType, CreditInv, NEW w \in Clients
  PROVE  /\ \A k \in Keys : Claim(w, k) \/ Extend(w, k) \/ Settle(w, k) => CreditInv'
         /\ \A c \in Caps : OrgDeposit(w, c) => CreditInv'
         /\ Debit(w) \/ Insert(w) \/ GiveBack(w) \/ Abort(w) \/ Answer(w) => CreditInv'
         /\ Grow(w) \/ Ungrow(w) \/ Refund(w) \/ Post(w) \/ OrgDepositWrite(w) => CreditInv'
<1>0. /\ w \in Threads
      /\ {"debit", "insert", "giveback", "abort", "answer", "grow", "ungrow", "refund", "post",
          "deposit"} \subseteq Away
  BY DEF Away, Places
<1>1. ASSUME NEW k \in Keys, Claim(w, k) \/ Extend(w, k) \/ Settle(w, k) PROVE CreditInv'
  <2>1. \E to, id, n, read : Begin(w, to, id, n, read) /\ to \in Away
    BY <1>0, <1>1 DEF Claim, Extend, Settle
  <2> QED BY <1>0, <1>1, <2>1, CreditAway DEF Claim, Extend, Settle, fundVars
<1>2. ASSUME NEW c \in Caps, OrgDeposit(w, c) PROVE CreditInv'
  BY <1>0, <1>2, CreditAway DEF OrgDeposit, fundVars
<1>3. ASSUME Debit(w) \/ Insert(w) \/ GiveBack(w) \/ Abort(w) \/ Answer(w) PROVE CreditInv'
  <2>1. \/ \E from, to : Goto(w, from, to) /\ to \in Away
        \/ \E from : Finish(w, from)
    BY <1>0, <1>3 DEF Debit, Insert, GiveBack, Abort, Answer
  <2>2. UNCHANGED <<topup, credited, session>>
    BY <1>3 DEF Debit, Insert, GiveBack, Abort, Answer, fundVars
  <2> QED BY <1>0, <2>1, <2>2, CreditAway
<1>4. ASSUME Grow(w) \/ Ungrow(w) \/ Refund(w) \/ Post(w) \/ OrgDepositWrite(w) PROVE CreditInv'
  <2>1. \/ \E from, to : Goto(w, from, to) /\ to \in Away
        \/ \E from : Finish(w, from)
    BY <1>0, <1>4 DEF Grow, Ungrow, Refund, Post, OrgDepositWrite
  <2>2. UNCHANGED <<topup, credited, session>>
    BY <1>4 DEF Grow, Ungrow, Refund, Post, OrgDepositWrite, fundVars
  <2> QED BY <1>0, <2>1, <2>2, CreditAway
<1> QED BY <1>1, <1>2, <1>3, <1>4

LEMMA CreditTopup ==
  ASSUME OneDeliverer, KeyType, CreditInv, NEW w \in Clients
  PROVE  /\ \A t \in Topups : StartTopup(w, t) => CreditInv'
         /\ Checkout(w) \/ Store(w) => CreditInv'
<1>0. w \in Threads /\ TopupType
  BY DEF CreditInv
<1>1. ASSUME NEW t \in Topups, StartTopup(w, t) PROVE CreditInv'
  <2>1. /\ topup[t].status = "none" /\ Begin(w, "checkout", t, 0, 0)
        /\ topup' = [topup EXCEPT ![t].status = "pending"] /\ UNCHANGED <<credited, session>>
    BY <1>1 DEF StartTopup
  <2>2. Others(w) /\ pc'[w] = "checkout" /\ loc'[w].id = t
    BY <1>0, <2>1, BeginFacts
  <2>3. /\ topup'[t].status = "pending" /\ topup'[t].stored = topup[t].stored
        /\ TopupType' /\ \A u \in Topups \ {t} : topup'[u] = topup[u]
    BY <1>0, <2>1 DEF TopupType
  <2>4. TopupOK(t) /\ TopupOK(t)'
    BY <2>1, <2>3 DEF CreditInv, TopupOK
  <2>5. Told(w)' /\ StartsOpen(w) /\ MayChange(w, t)
    BY <2>1, <2>2, <2>3, <2>4 DEF Told, Opens, StartsOpen, MayChange, TopupOK
  <2> QED BY <1>0, <2>1, <2>2, <2>3, <2>4, <2>5, CreditStep
<1>2. ASSUME Checkout(w) PROVE CreditInv'
  <2>1. pc[w] = "checkout" /\ UNCHANGED credited
    BY <1>2 DEF Checkout, Goto, Finish
  <2>2. PICK t \in Topups : t = loc[w].id
    BY <1>0, <2>1 DEF CreditInv, Told, Opens
  <2>3. /\ session[t] = "none" /\ ~topup[t].stored /\ topup[t].status # "none" /\ Opens(w)
        /\ TopupOK(t)
    BY <1>0, <2>1, <2>2 DEF CreditInv, Told, Opens
  <2>4. CASE Goto(w, "checkout", "store") /\ session' = [session EXCEPT ![t] = "open"]
             /\ UNCHANGED topup
    <3>1. Others(w) /\ pc'[w] = "store" /\ loc' = loc
      BY <1>0, <2>4, GotoFacts
    <3>2. /\ session'[t] = "open" /\ TopupType'
          /\ \A u \in Topups \ {t} : session'[u] = session[u]
      BY <1>0, <2>1, <2>4 DEF TopupType
    <3>3. TopupOK(t)' /\ Told(w)' /\ StartsOpen(w) /\ MayChange(w, t)
      BY <2>1, <2>2, <2>3, <2>4, <3>1, <3>2 DEF TopupOK, Told, Opens, StartsOpen, MayChange
    <3> QED BY <1>0, <2>1, <2>4, <3>1, <3>2, <3>3, CreditStep
  <2>5. CASE Finish(w, "checkout") /\ topup' = [topup EXCEPT ![t].status = "failed"]
             /\ UNCHANGED session
    <3>1. Others(w) /\ pc'[w] = "idle"
      BY <1>0, <2>5, FinishFacts
    <3>2. /\ topup'[t].status = "failed" /\ topup'[t].stored = topup[t].stored
          /\ TopupType' /\ \A u \in Topups \ {t} : topup'[u] = topup[u]
      BY <1>0, <2>1, <2>5 DEF TopupType
    <3>3. TopupOK(t)' /\ Told(w)' /\ StartsOpen(w) /\ MayChange(w, t)
      BY <2>1, <2>3, <2>5, <3>1, <3>2 DEF TopupOK, Told, Opens, StartsOpen, MayChange
    <3> QED BY <1>0, <2>1, <2>5, <3>1, <3>2, <3>3, CreditStep
  <2> QED BY <1>2, <2>2, <2>4, <2>5 DEF Checkout
<1>3. ASSUME Store(w) PROVE CreditInv'
  <2>1. /\ Finish(w, "store") /\ UNCHANGED <<credited, session>> /\ pc[w] = "store"
        /\ topup' = [topup EXCEPT ![loc[w].id].stored = TRUE]
    BY <1>3 DEF Store, Finish
  <2>2. PICK t \in Topups : t = loc[w].id
    BY <1>0, <2>1 DEF CreditInv, Told, Opens
  <2>3. topup[t].status # "none" /\ Opens(w) /\ TopupOK(t)
    BY <1>0, <2>1, <2>2 DEF CreditInv, Told, Opens
  <2>4. Others(w) /\ pc'[w] = "idle"
    BY <1>0, <2>1, FinishFacts
  <2>5. /\ topup'[t].status = topup[t].status /\ topup'[t].stored
        /\ TopupType' /\ \A u \in Topups \ {t} : topup'[u] = topup[u]
    BY <1>0, <2>1, <2>2 DEF TopupType
  <2>6. TopupOK(t)' /\ Told(w)' /\ StartsOpen(w) /\ MayChange(w, t)
    BY <2>1, <2>2, <2>3, <2>4, <2>5 DEF TopupOK, Told, Opens, StartsOpen, MayChange
  <2> QED BY <1>0, <2>1, <2>4, <2>5, <2>6, CreditStep
<1> QED BY <1>1, <1>2, <1>3

(* The one commit that pays a top-up, by the one who saw it unpaid. *)
LEMMA CreditPays ==
  ASSUME OneDeliverer, KeyType, CreditInv, NEW d \in Deliverers, NEW t \in Topups,
         pc[d] \in {"hook_write", "sim_write"}, t = loc[d].id, Credit(t, loc[d].read),
         session' = session, Others(d), Told(d)', StartsOpen(d)
  PROVE  CreditInv'
<1>1. /\ session[t] = "paid" /\ topup[t].status # "paid" /\ TopupOK(t) /\ d \in Threads
      /\ TopupType
  BY DEF CreditInv, Told
<1>2. /\ topup'[t].status = "paid" /\ topup'[t].stored = topup[t].stored
      /\ credited'[t] = 1 /\ TopupType'
      /\ \A u \in Topups \ {t} : topup'[u] = topup[u] /\ credited'[u] = credited[u]
  BY <1>1 DEF Credit, TopupType, TopupOK
<1>3. TopupOK(t)' /\ MayChange(d, t)
  BY <1>1, <1>2 DEF TopupOK, MayChange
<1> QED BY <1>1, <1>2, <1>3, CreditStep

LEMMA CreditWebhook ==
  ASSUME OneDeliverer, KeyType, CreditInv, NEW d \in Deliverers
  PROVE  /\ Serve(d) \/ HookRaises(d) => CreditInv'
         /\ \A t \in Topups : Hook(d, t) \/ Simulate(d, t) => CreditInv'
<1>0. d \in Threads /\ TopupType /\ Told(d)
  BY DEF CreditInv
<1>1. ASSUME CreditRead(d) PROVE CreditInv'
  <2>1. UNCHANGED <<topup, credited, session>> /\ pc[d] = "hook_read"
    BY <1>1 DEF CreditRead, fundVars, Goto
  <2>2. loc[d].id \in Topups /\ session[loc[d].id] = "paid"
    BY <1>0, <2>1 DEF Told
  <2>3. CASE Goto(d, "hook_read", "hook_done")
    <3>1. Others(d) /\ pc'[d] = "hook_done" /\ loc' = loc
      BY <1>0, <2>3, GotoFacts
    <3>2. Told(d)' /\ ~Opens(d)'
      BY <2>1, <2>2, <3>1 DEF Told, Opens
    <3> QED BY <1>0, <2>1, <3>1, <3>2, CreditQuiet
  <2>4. CASE /\ pc' = [pc EXCEPT ![d] = "hook_write"]
             /\ loc' = [loc EXCEPT ![d].read = balance]
             /\ topup[loc[d].id].status # "paid"
    <3>1. Others(d) /\ pc'[d] = "hook_write" /\ loc'[d].id = loc[d].id
      BY <1>0, <2>4 DEF KeyType, Local, Others
    <3>2. Told(d)' /\ ~Opens(d)'
      BY <2>1, <2>2, <2>4, <3>1 DEF Told, Opens
    <3> QED BY <1>0, <2>1, <3>1, <3>2, CreditQuiet
  <2> QED BY <1>1, <2>3, <2>4 DEF CreditRead
<1>2. ASSUME CreditWrite(d) PROVE CreditInv'
  <2>1. /\ Goto(d, "hook_write", "hook_done") /\ Credit(loc[d].id, loc[d].read)
        /\ session' = session
    BY <1>2 DEF CreditWrite
  <2>2. Others(d) /\ pc[d] = "hook_write" /\ pc'[d] = "hook_done" /\ loc' = loc
    BY <1>0, <2>1, GotoFacts
  <2>3. PICK t \in Topups : t = loc[d].id /\ session[t] = "paid"
    BY <1>0, <2>2 DEF Told
  <2>4. Told(d)' /\ StartsOpen(d)
    BY <2>1, <2>2, <2>3 DEF Told, Opens, StartsOpen
  <2> QED BY <2>1, <2>2, <2>3, <2>4, CreditPays
<1>3. ASSUME HookDone(d) \/ HookRaises(d) PROVE CreditInv'
  BY <1>0, <1>3, CreditAway DEF HookDone, HookRaises
<1>4. ASSUME SimulateWrite(d) PROVE CreditInv'
  <2>1. Finish(d, "sim_write") /\ Credit(loc[d].id, loc[d].read) /\ session' = session
    BY <1>4 DEF SimulateWrite
  <2>2. Others(d) /\ pc[d] = "sim_write" /\ pc'[d] = "idle"
    BY <1>0, <2>1, FinishFacts
  <2>3. PICK t \in Topups : t = loc[d].id
    BY <1>0, <2>2 DEF Told
  <2>4. Told(d)' /\ StartsOpen(d)
    BY <2>2 DEF Told, Opens, StartsOpen
  <2> QED BY <2>1, <2>2, <2>3, <2>4, CreditPays
<1>5. ASSUME NEW t \in Topups, Hook(d, t) PROVE CreditInv'
  <2>1. /\ session[t] = "paid" /\ UNCHANGED <<topup, credited, session>>
        /\ Begin(d, "hook_read", t, 0, 0)
    BY <1>5 DEF Hook
  <2>2. Others(d) /\ pc'[d] = "hook_read" /\ loc'[d].id = t
    BY <1>0, <2>1, BeginFacts
  <2>3. Told(d)' /\ ~Opens(d)'
    BY <2>1, <2>2 DEF Told, Opens
  <2> QED BY <1>0, <2>1, <2>2, <2>3, CreditQuiet
<1>6. ASSUME NEW t \in Topups, Simulate(d, t) PROVE CreditInv'
  <2>1. /\ topup[t].stored /\ topup[t].status # "paid" /\ UNCHANGED <<topup, credited>>
        /\ session' = [session EXCEPT ![t] = "paid"]
        /\ Begin(d, "sim_write", t, 0, balance)
    BY <1>6 DEF Simulate
  <2>2. Others(d) /\ pc'[d] = "sim_write" /\ loc'[d].id = t
    BY <1>0, <2>1, BeginFacts
  <2>3. /\ session'[t] = "paid" /\ TopupType' /\ TopupOK(t)
        /\ \A u \in Topups \ {t} : session'[u] = session[u]
    BY <1>0, <2>1 DEF TopupType, CreditInv
  <2>4. Told(d)' /\ TopupOK(t)' /\ StartsOpen(d) /\ MayChange(d, t)
    BY <2>1, <2>2, <2>3 DEF Told, Opens, TopupOK, StartsOpen, MayChange
  <2> QED BY <1>0, <2>1, <2>2, <2>3, <2>4, CreditStep
<1> QED BY <1>1, <1>2, <1>3, <1>4, <1>5, <1>6 DEF Serve

LEMMA CreditWorld ==
  ASSUME KeyType, CreditInv
  PROVE  /\ \A w \in Threads : Crash(w) => CreditInv'
         /\ \A t \in Topups : BuyerPays(t) => CreditInv'
         /\ \A e \in Events : PaymentEvent(e) => CreditInv'
         /\ UNCHANGED vars => CreditInv'
<1>1. ASSUME NEW w \in Threads, Crash(w) PROVE CreditInv'
  BY <1>1, CreditAway DEF Crash, fundVars
<1>2. ASSUME UNCHANGED <<topup, credited, session, pc, loc>> PROVE CreditInv'
  BY <1>2 DEF CreditInv, TopupType, OneOpens, TopupOK, Told, Opens
<1>3. ASSUME NEW t \in Topups, BuyerPays(t) PROVE CreditInv'
  <2>1. /\ session[t] = "open" /\ topup[t].stored /\ UNCHANGED <<topup, credited, pc, loc>>
        /\ session' = [session EXCEPT ![t] = "paid"]
    BY <1>3 DEF BuyerPays
  <2>2. /\ session'[t] = "paid" /\ TopupType'
        /\ \A u \in Topups \ {t} : session'[u] = session[u]
    BY <2>1 DEF CreditInv, TopupType
  <2>3. \A u \in Topups : TopupOK(u)'
    BY <2>1, <2>2 DEF CreditInv, TopupOK
  <2>4. \A w \in Threads : Told(w)'
    BY <2>1, <2>2 DEF CreditInv, Told, Opens
  <2>5. OneOpens'
    BY <2>1 DEF CreditInv, OneOpens, Opens
  <2> QED BY <2>2, <2>3, <2>4, <2>5 DEF CreditInv
<1>4. ASSUME NEW e \in Events, PaymentEvent(e) PROVE CreditInv'
  BY <1>2, <1>4 DEF PaymentEvent
<1>5. ASSUME UNCHANGED vars PROVE CreditInv'
  BY <1>2, <1>5 DEF vars
<1> QED BY <1>1, <1>3, <1>4, <1>5

LEMMA CreditInit == Init => CreditInv
BY DEF Init, CreditInv, TopupType, OneOpens, TopupOK, Told, Opens

LEMMA CreditNext == OneDeliverer /\ KeyInv /\ CreditInv /\ [Next]_vars => CreditInv'
<1> SUFFICES ASSUME OneDeliverer, KeyInv, CreditInv, [Next]_vars PROVE CreditInv'
  OBVIOUS
<1>0. KeyType
  BY DEF KeyInv
<1>1. CASE \E w \in Clients : Arrive(w)
  BY <1>0, <1>1, CreditOrder, CreditTopup DEF Arrive
<1>2. CASE \E w \in Clients : Continue(w)
  <2>1. PICK w \in Clients : Continue(w)
    BY <1>2
  <2>2. CASE Checkout(w) \/ Store(w)
    BY <1>0, <2>2, CreditTopup
  <2>3. CASE ~(Checkout(w) \/ Store(w))
    BY <1>0, <2>1, <2>3, CreditOrder DEF Continue
  <2> QED BY <2>2, <2>3
<1>3. CASE \E d \in Deliverers : \/ Serve(d) \/ HookRaises(d)
                                 \/ \E t \in Topups : Hook(d, t) \/ Simulate(d, t)
  BY <1>0, <1>3, CreditWebhook
<1>4. CASE \/ \E w \in Threads : Crash(w)
           \/ \E t \in Topups : BuyerPays(t)
           \/ \E e \in Events : PaymentEvent(e)
           \/ UNCHANGED vars
  BY <1>0, <1>4, CreditWorld
<1> QED BY <1>1, <1>2, <1>3, <1>4 DEF Next

(* With one thread that delivers events and simulated payments, a top-up is *)
(* credited at most once, and only when it was paid, however often its      *)
(* event comes again and whatever handlers raise or die half way.           *)
THEOREM CreditedOnceHolds == OneDeliverer => (Spec => []CreditedOnce)
<1> SUFFICES ASSUME OneDeliverer PROVE Spec => []CreditedOnce
  OBVIOUS
<1>1. CreditInv => CreditedOnce
  <2> SUFFICES ASSUME CreditInv, NEW t \in Topups
               PROVE  /\ credited[t] <= 1
                      /\ credited[t] = 1 <=> topup[t].status = "paid"
                      /\ credited[t] = 1 => session[t] = "paid"
    BY DEF CreditedOnce
  <2>1. TopupOK(t)
    BY DEF CreditInv
  <2> QED BY <2>1 DEF TopupOK
<1>2. KeyInv /\ CreditInv /\ [Next]_vars => CreditInv'
  BY CreditNext
<1> QED BY <1>1, <1>2, InvInit, InvNext, CreditInit, PTL DEF Spec
=============================================================================
