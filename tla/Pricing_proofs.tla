--------------------------- MODULE Pricing_proofs ---------------------------
(***************************************************************************)
(* The amounts of Pricing add up and stay within their bounds, for every   *)
(* price, configuration, duration and amount.  Products of two unknowns    *)
(* are named in the lemmas, so that what is left to the solver is linear.  *)
(***************************************************************************)
EXTENDS Pricing, TLAPS

(* What integer division is: the only fact about it the rest relies on. *)
LEMMA DivBounds ==
  ASSUME NEW n \in Nat, NEW d \in Nat \ {0}
  PROVE  /\ n \div d \in Nat
         /\ d * (n \div d) <= n
         /\ n < d * (n \div d) + d
OBVIOUS

LEMMA DivAtMost ==
  ASSUME NEW n \in Nat, NEW d \in Nat \ {0}, NEW m \in Nat, n < d * m + d
  PROVE  n \div d <= m
BY DivBounds

LEMMA DivAtLeast ==
  ASSUME NEW n \in Nat, NEW d \in Nat \ {0}, NEW m \in Nat, d * m <= n
  PROVE  m <= n \div d
BY DivBounds

(* Products of naturals: closed and monotone. *)
LEMMA ProductOrder ==
  ASSUME NEW a \in Nat, NEW b \in Nat, NEW c \in Nat, b <= c
  PROVE  /\ a * b \in Nat /\ a * c \in Nat /\ a * b <= a * c
         /\ b * a = a * b
OBVIOUS

(* HalfUp is the nearest integer: off by at most half of the divisor. *)
LEMMA Nearest ==
  ASSUME NEW n \in Nat, NEW d \in Nat \ {0}
  PROVE  /\ HalfUp(n, d) \in Nat
         /\ 2 * (d * HalfUp(n, d)) <= 2 * n + d
         /\ 2 * n < 2 * (d * HalfUp(n, d)) + d
<1> DEFINE m == HalfUp(n, d)
<1>1. /\ 2 * n + d \in Nat
      /\ 2 * d \in Nat \ {0}
  OBVIOUS
<1>2. /\ m \in Nat
      /\ (2 * d) * m <= 2 * n + d
      /\ 2 * n + d < (2 * d) * m + 2 * d
  BY <1>1, DivBounds DEF HalfUp
<1>3. (2 * d) * m = 2 * (d * m) /\ d * m \in Nat
  BY <1>2
<1> QED BY <1>2, <1>3

(* ... so it does not pass an integer that n / d does not pass. *)
LEMMA HalfUpAtMost ==
  ASSUME NEW n \in Nat, NEW d \in Nat \ {0}, NEW m \in Nat, n <= d * m
  PROVE  HalfUp(n, d) <= m
<1>1. 2 * n + d < (2 * d) * m + 2 * d
  OBVIOUS
<1> QED BY <1>1, DivAtMost DEF HalfUp

LEMMA HalfUpOrder ==
  ASSUME NEW n \in Nat, NEW k \in Nat, n <= k, NEW d \in Nat \ {0}
  PROVE  HalfUp(n, d) <= HalfUp(k, d)
<1> DEFINE m == HalfUp(k, d)
<1>1. 2 * n + d \in Nat /\ 2 * k + d \in Nat /\ 2 * d \in Nat \ {0}
  OBVIOUS
<1>2. m \in Nat /\ 2 * k + d < (2 * d) * m + 2 * d
  BY <1>1, DivBounds DEF HalfUp
<1> HIDE DEF m
<1>3. 2 * n + d < (2 * d) * m + 2 * d
  BY <1>1, <1>2
<1>4. (2 * n + d) \div (2 * d) <= m
  BY <1>1, <1>2, <1>3, DivAtMost
<1> QED BY <1>4 DEF HalfUp, m

LEMMA SnapshotFields ==
  ASSUME NEW s \in Snapshot
  PROVE  /\ s.price \in Nat /\ s.commission \in 0 .. Bps /\ s.fixed \in Nat /\ s.least \in Nat
         /\ s.longest \in Nat \ {0} /\ s.margin \in Nat /\ s.ceiling \in Nat \ {0}
BY DEF Snapshot

(* The charge grows with the time. *)
LEMMA ChargeType ==
  ASSUME NEW s \in Snapshot, NEW t \in Int
  PROVE  Compute(s, t) \in Nat /\ Charge(s, t) \in Nat
<1>1. CASE t <= 0
  BY <1>1 DEF Compute, Charge
<1>2. CASE t > 0
  <2>1. s.price * t \in Nat
    BY <1>2, SnapshotFields
  <2>2. HalfUp(s.price * t, Hour) \in Nat
    BY <2>1, Nearest DEF Hour
  <2>3. Compute(s, t) \in Nat
    BY <1>2, <2>2 DEF Compute
  <2> QED BY <2>3, SnapshotFields DEF Charge, Most
<1> QED BY <1>1, <1>2

LEMMA ChargeOrder ==
  ASSUME NEW s \in Snapshot, NEW t \in Nat, NEW u \in Nat, t <= u
  PROVE  Compute(s, t) <= Compute(s, u) /\ Charge(s, t) <= Charge(s, u)
<1>1. CASE t = 0
  BY <1>1, ChargeType DEF Compute, Charge
<1>2. CASE t > 0
  <2>1. s.price * t \in Nat /\ s.price * u \in Nat /\ s.price * t <= s.price * u
    BY SnapshotFields, ProductOrder
  <2>2. Compute(s, t) <= Compute(s, u)
    BY <1>2, <2>1, HalfUpOrder DEF Compute, Hour
  <2> QED BY <1>2, <2>2, ChargeType, SnapshotFields DEF Charge, Most
<1> QED BY <1>1, <1>2

-----------------------------------------------------------------------------
(* The runtime budget *)

LEMMA BudgetType ==
  ASSUME NEW s \in Snapshot, NEW held \in Nat
  PROVE  AuthorizedSeconds(s, held) \in 1 .. s.longest
<1>1. CASE s.price = 0
  BY <1>1, SnapshotFields DEF AuthorizedSeconds
<1>2. CASE s.price # 0
  <2>1. (held * Hour) \div s.price \in Nat
    BY <1>2, SnapshotFields, DivBounds DEF Hour
  <2> QED BY <1>2, <2>1, SnapshotFields DEF AuthorizedSeconds, Most, Least
<1> QED BY <1>1, <1>2

LEMMA MeteredType ==
  ASSUME NEW s \in Snapshot, NEW t \in Int, NEW held \in Nat
  PROVE  /\ Metered(s, t, held) \in Nat
         /\ Metered(s, t, held) <= AuthorizedSeconds(s, held)
         /\ t >= 0 /\ t <= AuthorizedSeconds(s, held) => Metered(s, t, held) = t
BY BudgetType, SnapshotFields DEF Metered, Most, Least

LEMMA HoldType ==
  ASSUME NEW s \in Snapshot, NEW t \in Int
  PROVE  /\ Estimated(s, t) \in 0 .. s.longest
         /\ Authorization(s, t) \in Nat
         /\ Authorization(s, t) >= Charge(s, Estimated(s, t))
<1>1. Estimated(s, t) \in 0 .. s.longest
  BY SnapshotFields DEF Estimated, Most, Least
<1> DEFINE est == Charge(s, Estimated(s, t))
<1>2. est \in Nat
  BY <1>1, ChargeType, SnapshotFields
<1> HIDE DEF est
<1>3. est * s.margin \in Nat
  BY <1>2, SnapshotFields
<1>4. (est * s.margin) \div Bps \in Nat
  BY <1>3, DivBounds DEF Bps
<1>5. Authorization(s, t) = est + (est * s.margin) \div Bps + s.fixed
  BY DEF Authorization, est
<1>6. Authorization(s, t) \in Nat /\ Authorization(s, t) >= est
  BY <1>2, <1>4, <1>5, SnapshotFields
<1> QED BY <1>1, <1>6 DEF est

(* The runtime the agent is allowed is paid for by what the card holds:    *)
(* when the hold buys a second at all, no duration within the budget costs *)
(* more, so the cap of settle() never takes from the seller.               *)
THEOREM BudgetIsFunded ==
  ASSUME NEW s \in Snapshot, NEW held \in Nat, s.price <= held * Hour,
         NEW t \in 1 .. AuthorizedSeconds(s, held)
  PROVE  /\ Compute(s, t) <= held
         /\ s.least <= held => Capture(s, t, held) = Charge(s, t)
<1>0. t \in Nat /\ t > 0 /\ AuthorizedSeconds(s, held) \in Nat
  BY BudgetType, SnapshotFields
<1>1. s.price * t <= Hour * held
  <2>1. CASE s.price = 0
    BY <1>0, <2>1 DEF Hour
  <2>2. CASE s.price # 0
    <3> DEFINE p == s.price
               k == (held * Hour) \div p
    <3>1. p \in Nat \ {0} /\ held * Hour \in Nat
      BY <2>2, SnapshotFields DEF Hour
    <3>2. k \in Nat /\ p * k <= held * Hour
      BY <3>1, DivBounds
    <3>3. 1 <= k
      BY <3>1, DivAtLeast
    <3>4. t <= k
      BY <1>0, <2>2, <3>2, <3>3, SnapshotFields DEF AuthorizedSeconds, Most, Least
    <3> HIDE DEF k
    <3>5. p * t <= p * k
      BY <1>0, <3>1, <3>2, <3>4, ProductOrder
    <3> QED BY <1>0, <3>1, <3>2, <3>5 DEF Hour
  <2> QED BY <2>1, <2>2
<1>2. s.price * t \in Nat
  BY <1>0, SnapshotFields
<1>3. Compute(s, t) <= held
  BY <1>0, <1>1, <1>2, HalfUpAtMost DEF Compute, Hour
<1>4. ASSUME s.least <= held PROVE Capture(s, t, held) = Charge(s, t)
  <2>1. Metered(s, t, held) = t
    BY <1>0, MeteredType
  <2>2. Charge(s, t) <= held
    BY <1>0, <1>3, <1>4, ChargeType, SnapshotFields DEF Charge, Most
  <2> QED BY <1>0, <2>1, <2>2, ChargeType DEF Capture, Least
<1> QED BY <1>3, <1>4

(* A job that ends within the estimate it was booked with is neither cut   *)
(* short nor charged less than its time, provided that the authorization   *)
(* exceeds the estimate at all.  (Without a margin the estimate may have   *)
(* been rounded down, and the budget is then shorter than the estimate.)   *)
THEOREM EstimateIsCovered ==
  ASSUME NEW s \in Snapshot, NEW e \in Int, NEW t \in 0 .. Estimated(s, e),
         Authorization(s, e) > Charge(s, Estimated(s, e))
  PROVE  /\ Metered(s, t, Authorization(s, e)) = t
         /\ Capture(s, t, Authorization(s, e)) = Charge(s, t)
<1> DEFINE held == Authorization(s, e)
           long == Estimated(s, e)
<1>1. long \in 0 .. s.longest /\ held \in Nat
  BY HoldType
<1>2. t \in Nat /\ long \in Nat /\ t <= long
  BY <1>1, SnapshotFields
<1>3. Charge(s, t) <= Charge(s, long) /\ Charge(s, t) \in Nat /\ Charge(s, long) \in Nat
  BY <1>2, ChargeOrder, ChargeType
<1>4. long <= AuthorizedSeconds(s, held)
  <2>1. CASE s.price = 0
    BY <1>1, <2>1, SnapshotFields DEF AuthorizedSeconds
  <2>2. CASE long = 0
    BY <1>1, <2>2, BudgetType, SnapshotFields
  <2>3. CASE s.price # 0 /\ long # 0
    <3> DEFINE n == s.price * long
               m == HalfUp(n, Hour)
    <3>1. n \in Nat /\ s.price \in Nat \ {0}
      BY <1>2, <2>3, SnapshotFields
    <3>2. m \in Nat /\ 2 * n < 2 * (Hour * m) + Hour
      BY <3>1, Nearest DEF Hour
    <3>3. m <= Charge(s, long)
      BY <1>2, <2>3, <3>2, SnapshotFields DEF Charge, Compute, Most
    <3> HIDE DEF m, n, held, long
    <3>4. m + 1 <= held
      BY <1>1, <1>3, <3>2, <3>3 DEF held, long
    <3>5. n <= held * Hour /\ held * Hour \in Nat
      BY <1>1, <3>1, <3>2, <3>4 DEF Hour
    <3>6. long <= (held * Hour) \div s.price /\ (held * Hour) \div s.price \in Nat
      BY <1>2, <3>1, <3>5, DivAtLeast, DivBounds DEF n
    <3> QED BY <1>1, <1>2, <2>3, <3>6, SnapshotFields DEF AuthorizedSeconds, Most, Least
  <2> QED BY <2>1, <2>2, <2>3
<1> HIDE DEF held, long
<1>5. AuthorizedSeconds(s, held) \in Nat
  BY <1>1, BudgetType, SnapshotFields
<1>6. Metered(s, t, held) = t
  BY <1>1, <1>2, <1>4, <1>5, MeteredType
<1>7. Capture(s, t, held) = Charge(s, t)
  BY <1>1, <1>3, <1>6 DEF Capture, Least, held, long
<1> QED BY <1>6, <1>7 DEF held

-----------------------------------------------------------------------------
(* The final charge and its split *)

(* settle(): whatever was metered, the capture stays within the            *)
(* authorization, and the platform's fee and the seller's net are two      *)
(* parts of it that add up, neither of them negative.                      *)
THEOREM SettlementAddsUp ==
  ASSUME NEW s \in Snapshot, NEW t \in Int, NEW held \in Nat
  PROVE  LET c == Capture(s, t, held)
         IN /\ c \in 0 .. held
            /\ Fee(s, c) \in 0 .. c
            /\ NetOf(s, c) \in 0 .. c
            /\ c = Fee(s, c) + NetOf(s, c)
<1> DEFINE c == Capture(s, t, held)
<1>1. c \in 0 .. held
  <2>1. Charge(s, Metered(s, t, held)) \in Nat
    BY MeteredType, ChargeType
  <2> QED BY <2>1 DEF Capture, Least
<1>2. c \in Nat
  BY <1>1
<1> HIDE DEF c
<1>3. c * s.commission \in Nat
  BY <1>2, SnapshotFields
<1>4. (c * s.commission) \div Bps \in Nat
  BY <1>3, DivBounds DEF Bps
<1>5. Fee(s, c) \in 0 .. c
  BY <1>2, <1>4, SnapshotFields DEF Fee, Least
<1>6. NetOf(s, c) \in 0 .. c /\ c = Fee(s, c) + NetOf(s, c)
  BY <1>2, <1>5 DEF NetOf
<1> QED BY <1>1, <1>5, <1>6 DEF c

(* The estimated processing fee never exceeds the payment it is taken      *)
(* from, whatever the configured rate.                                     *)
THEOREM ProcessingFeeBounded ==
  ASSUME NEW a \in Int, NEW rate \in Int, NEW fixed \in Int
  PROVE  /\ ProcessingFee(a, rate, fixed) \in Nat
         /\ a >= 0 => ProcessingFee(a, rate, fixed) <= a
<1>1. CASE a <= 0
  BY <1>1 DEF ProcessingFee
<1>2. CASE a > 0
  <2> DEFINE r == Least(Bps, Most(0, rate))
  <2>1. r \in Nat
    BY DEF Least, Most, Bps
  <2> HIDE DEF r
  <2>2. a * r \in Nat
    BY <1>2, <2>1
  <2>3. (a * r) \div Bps \in Nat
    BY <2>2, DivBounds DEF Bps
  <2> QED BY <1>2, <2>3 DEF ProcessingFee, Least, Most, r
<1> QED BY <1>1, <1>2

(* refund_split(): the parts of seller and platform add up to the refund,  *)
(* neither gives back more than it got, and a full refund takes back the   *)
(* seller's whole net.                                                     *)
THEOREM RefundAddsUp ==
  ASSUME NEW captured \in Nat \ {0}, NEW net \in 0 .. captured, NEW a \in Nat
  PROVE  /\ SellerPart(captured, net, a) \in 0 .. net
         /\ PlatformPart(captured, net, a) \in 0 .. (captured - net)
         /\ SellerPart(captured, net, a) + PlatformPart(captured, net, a)
              = Refunded(captured, a)
         /\ a >= captured => SellerPart(captured, net, a) = net
<1> DEFINE r == Refunded(captured, a)
           x == SellerPart(captured, net, a)
<1>1. r \in 0 .. captured /\ net \in Nat /\ r \in Nat
  BY DEF Refunded, Most, Least
<1>2. Most(captured, 1) = captured
  BY DEF Most
<1>3. x = (net * r) \div captured
  BY <1>2 DEF SellerPart
<1> HIDE DEF r, x
<1>4. /\ net * r \in Nat
      /\ x \in Nat /\ captured * x <= net * r /\ net * r < captured * x + captured
  BY <1>1, <1>3, DivBounds
<1>5. x <= net
  <2>1. net * r <= captured * net
    BY <1>1, ProductOrder
  <2>2. net * r < captured * net + captured
    BY <1>1, <1>4, <2>1
  <2> QED BY <1>1, <1>3, <1>4, <2>2, DivAtMost
<1>6. x <= r
  <2>1. net * r <= captured * r
    BY <1>1, ProductOrder
  <2>2. net * r < captured * r + captured
    BY <1>1, <1>4, <2>1
  <2> QED BY <1>1, <1>3, <1>4, <2>2, DivAtMost
<1>7. r - x <= captured - net
  <2>1. CASE net + r < captured
    BY <1>1, <1>4, <2>1
  <2>2. CASE net + r >= captured
    <3> DEFINE m == net + r - captured
               a1 == captured - net
               b1 == captured - r
    <3>1. m \in Nat /\ a1 \in Nat /\ b1 \in Nat
      BY <1>1, <2>2
    <3>2. a1 * b1 \in Nat
      BY <3>1
    <3>3. net * r = captured * m + a1 * b1
      BY <1>1
    <3>4. captured * m <= net * r
      BY <1>4, <3>1, <3>2, <3>3
    <3>5. m <= x
      BY <1>3, <1>4, <3>1, <3>4, DivAtLeast
    <3> QED BY <1>1, <1>4, <3>5
  <2> QED BY <1>1, <2>1, <2>2
<1>8. PlatformPart(captured, net, a) = r - x
  BY <1>1, <1>4, <1>6 DEF PlatformPart, Most, r, x
<1>9. ASSUME a >= captured PROVE x = net
  <2>1. r = captured
    BY <1>9 DEF r, Refunded, Most, Least
  <2>2. captured * net <= net * r
    BY <1>1, <2>1
  <2>3. net <= x
    BY <1>1, <1>3, <1>4, <2>2, DivAtLeast
  <2> QED BY <1>1, <1>4, <1>5, <2>3
<1> QED BY <1>1, <1>4, <1>5, <1>6, <1>7, <1>8, <1>9 DEF r, x

(* Two partial refunds take back from the seller at most what one refund   *)
(* of their sum takes, and at most one unit less: the rounding of a split  *)
(* refund favours the seller, by at most a unit.                           *)
THEOREM PartialRefundsCompose ==
  ASSUME NEW captured \in Nat \ {0}, NEW net \in 0 .. captured,
         NEW a \in Nat, NEW b \in Nat, a + b <= captured
  PROVE  LET both == SellerPart(captured, net, a) + SellerPart(captured, net, b)
         IN SellerPart(captured, net, a + b) \in both .. (both + 1)
<1> DEFINE x == SellerPart(captured, net, a)
           y == SellerPart(captured, net, b)
           z == SellerPart(captured, net, a + b)
<1>1. net \in Nat /\ Most(captured, 1) = captured
  BY DEF Most
<1>2. /\ Refunded(captured, a) = a /\ Refunded(captured, b) = b
      /\ Refunded(captured, a + b) = a + b
  BY DEF Refunded, Most, Least
<1>3. /\ x = (net * a) \div captured /\ y = (net * b) \div captured
      /\ z = (net * (a + b)) \div captured
  BY <1>1, <1>2 DEF SellerPart
<1> HIDE DEF x, y, z
<1>4. /\ net * a \in Nat /\ net * b \in Nat /\ net * (a + b) \in Nat
      /\ net * (a + b) = net * a + net * b
  BY <1>1
<1>5. /\ x \in Nat /\ captured * x <= net * a /\ net * a < captured * x + captured
      /\ y \in Nat /\ captured * y <= net * b /\ net * b < captured * y + captured
  BY <1>3, <1>4, DivBounds
<1>6. captured * (x + y) = captured * x + captured * y
      /\ captured * (x + y + 1) = captured * x + captured * y + captured
  BY <1>5
<1>7. x + y <= z
  <2>1. x + y \in Nat /\ captured * (x + y) <= net * (a + b)
    BY <1>4, <1>5, <1>6
  <2> QED BY <1>3, <1>4, <2>1, DivAtLeast
<1>8. z <= x + y + 1
  <2>1. /\ x + y + 1 \in Nat
        /\ net * (a + b) < captured * (x + y + 1) + captured
    BY <1>4, <1>5, <1>6
  <2> QED BY <1>3, <1>4, <2>1, DivAtMost
<1>9. z \in Nat
  BY <1>3, <1>4, DivBounds
<1> QED BY <1>5, <1>7, <1>8, <1>9 DEF x, y, z

-----------------------------------------------------------------------------
(* The metered split of a rental *)

(* One share, rounded: never more than the whole part, nor further than    *)
(* half a unit from its exact value.                                       *)
LEMMA EarnedBounds ==
  ASSUME NEW part \in Nat, NEW hours \in Nat \ {0}, NEW used \in 1 .. hours
  PROVE  LET x == Earned(part, used, hours)
         IN /\ x \in 0 .. part
            /\ used = hours => x = part
            /\ 2 * (hours * x) <= 2 * (part * used) + hours
            /\ 2 * (part * used) <= 2 * (hours * x) + hours
<1> DEFINE x == Earned(part, used, hours)
<1>1. used \in Nat /\ used <= hours
  OBVIOUS
<1>2. part * used \in Nat /\ part * used <= hours * part
  BY <1>1, ProductOrder
<1>3. /\ x \in Nat
      /\ 2 * (hours * x) <= 2 * (part * used) + hours
      /\ 2 * (part * used) < 2 * (hours * x) + hours
  BY <1>2, Nearest DEF Earned
<1>4. x <= part
  BY <1>2, HalfUpAtMost DEF Earned
<1> HIDE DEF x
<1>5. ASSUME used = hours PROVE x = part
  <2>1. x = part \/ x + 1 <= part
    BY <1>3, <1>4
  <2>2. CASE x + 1 <= part
    <3>1. hours * (x + 1) <= hours * part /\ hours * (x + 1) = hours * x + hours
      BY <1>3, <2>2, ProductOrder
    <3>2. part * used = hours * part /\ hours * x \in Nat
      BY <1>3, <1>5
    <3> QED BY <1>2, <1>3, <3>1, <3>2
  <2> QED BY <2>1, <2>2
<1>6. x \in 0 .. part
  BY <1>3, <1>4
<1> QED BY <1>2, <1>3, <1>5, <1>6 DEF x

(* settle_metered(): the rounded shares of seller and platform never take  *)
(* more than the escrow holds, a rental used to its end gives nothing      *)
(* back, and what goes back differs from the price of the unused hours by  *)
(* at most one unit of 10^-8.                                              *)
THEOREM MeteredAddsUp ==
  ASSUME NEW payout \in Nat, NEW fee \in Nat, NEW hours \in Nat \ {0}, NEW used \in 1 .. hours
  PROVE  /\ Earned(payout, used, hours) \in 0 .. payout
         /\ Earned(fee, used, hours) \in 0 .. fee
         /\ GivenBack(payout, fee, used, hours) \in Nat
         /\ used = hours => GivenBack(payout, fee, used, hours) = 0
         /\ LET unused == (payout + fee) * (hours - used)
                back == hours * GivenBack(payout, fee, used, hours)
            IN back <= unused + hours /\ unused <= back + hours
<1> DEFINE x == Earned(payout, used, hours)
           y == Earned(fee, used, hours)
<1>1. used \in Nat /\ used <= hours
  OBVIOUS
<1>2. /\ x \in 0 .. payout
      /\ used = hours => x = payout
      /\ 2 * (hours * x) <= 2 * (payout * used) + hours
      /\ 2 * (payout * used) <= 2 * (hours * x) + hours
  BY EarnedBounds
<1>3. /\ y \in 0 .. fee
      /\ used = hours => y = fee
      /\ 2 * (hours * y) <= 2 * (fee * used) + hours
      /\ 2 * (fee * used) <= 2 * (hours * y) + hours
  BY EarnedBounds
<1>4. GivenBack(payout, fee, used, hours) = (payout + fee) - x - y
  BY DEF GivenBack
<1> HIDE DEF x, y
<1>5. /\ x \in Nat /\ x <= payout /\ y \in Nat /\ y <= fee
  BY <1>2, <1>3
<1>6. /\ (payout + fee) * (hours - used)
           = hours * payout + hours * fee - payout * used - fee * used
      /\ hours * ((payout + fee) - x - y)
           = hours * payout + hours * fee - hours * x - hours * y
  BY <1>1, <1>5
<1>7. /\ hours * payout \in Int /\ hours * fee \in Int /\ payout * used \in Int
      /\ fee * used \in Int /\ hours * x \in Int /\ hours * y \in Int
  BY <1>1, <1>5
<1>8. LET unused == (payout + fee) * (hours - used)
          back == hours * GivenBack(payout, fee, used, hours)
      IN back <= unused + hours /\ unused <= back + hours
  BY <1>2, <1>3, <1>4, <1>6, <1>7
<1>9. /\ GivenBack(payout, fee, used, hours) \in Nat
      /\ used = hours => GivenBack(payout, fee, used, hours) = 0
  BY <1>2, <1>3, <1>4, <1>5
<1> QED BY <1>2, <1>3, <1>8, <1>9 DEF x, y
=============================================================================
