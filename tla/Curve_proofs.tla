---------------------------- MODULE Curve_proofs ----------------------------
(***************************************************************************)
(* The curve from its arithmetic to the trades made through the token page.*)
(*                                                                         *)
(*   1. Facts about the curve arithmetic, for every value of the constants *)
(*      the assumptions of CurveMath allow.                                *)
(*   2. CooketCurve keeps its books for every set of traders, every scale  *)
(*      of the curve and every sequence of trades, transfers and forced    *)
(*      payments.                                                          *)
(*   3. QuotedTrade: a trade executes on the terms its user reviewed.      *)
(***************************************************************************)
EXTENDS QuotedTrade, TLAPS

-----------------------------------------------------------------------------
(* 1. The arithmetic *)

\* The two inequalities that determine integer division.
LEMMA DivBounds ==
    ASSUME NEW n \in Nat, NEW d \in Nat \ {0}
    PROVE  /\ n \div d \in Nat
           /\ d * (n \div d) <= n
           /\ n < d * (n \div d) + d
  BY SMT

\* They determine it uniquely.
LEMMA DivUnique ==
    ASSUME NEW n \in Nat, NEW d \in Nat \ {0}, NEW q \in Nat,
           d * q <= n, n < d * q + d
    PROVE  n \div d = q
<1> DEFINE p == n \div d
<1>1. /\ p \in Nat /\ d * p <= n /\ n < d * p + d
  BY DivBounds
<1>2. CASE p < q
  <2>1. p + 1 <= q
    BY <1>1, <1>2
  <2>2. d * (p + 1) <= d * q
    BY <2>1, <1>1, SMT
  <2> QED  BY <2>2, <1>1, SMT
<1>3. CASE q < p
  <2>1. q + 1 <= p
    BY <1>1, <1>3
  <2>2. d * (q + 1) <= d * p
    BY <2>1, <1>1, SMT
  <2> QED  BY <2>2, <1>1, SMT
<1> QED  BY <1>1, <1>2, <1>3

-----------------------------------------------------------------------------
(* _ceilDiv *)

\* CeilDiv(n, d) is the smallest m with d * m >= n.
LEMMA CeilDivBounds ==
    ASSUME NEW n \in Nat, NEW d \in Nat \ {0}
    PROVE  /\ CeilDiv(n, d) \in Nat
           /\ d * CeilDiv(n, d) >= n
           /\ d * CeilDiv(n, d) < n + d
<1>1. CASE n = 0
  BY <1>1, SMT DEF CeilDiv
<1>2. CASE n # 0
  <2> DEFINE q == (n - 1) \div d
  <2>1. /\ q \in Nat /\ d * q <= n - 1 /\ n - 1 < d * q + d
    BY <1>2, DivBounds
  <2>2. CeilDiv(n, d) = q + 1
    BY <1>2 DEF CeilDiv
  <2>3. d * (q + 1) = d * q + d
    BY <2>1, SMT
  <2> HIDE DEF q
  <2> QED  BY <2>1, <2>2, <2>3
<1> QED  BY <1>1, <1>2

LEMMA CeilDivLeast ==
    ASSUME NEW n \in Nat, NEW d \in Nat \ {0}, NEW m \in Nat, d * m >= n
    PROVE  CeilDiv(n, d) <= m
<1> DEFINE c == CeilDiv(n, d)
<1>1. /\ c \in Nat /\ d * c < n + d
  BY CeilDivBounds
<1> HIDE DEF c
<1>2. CASE m < c
  <2>1. d * (m + 1) <= d * c
    BY <1>1, <1>2, SMT
  <2>2. d * (m + 1) = d * m + d
    BY SMT
  <2>3. d * m \in Nat /\ d * c \in Nat
    BY <1>1, SMT
  <2> QED  BY <2>1, <2>2, <2>3, <1>1
<1> QED  BY <1>1, <1>2 DEF c

\* A larger divisor gives no larger quotient.
LEMMA CeilDivAntitone ==
    ASSUME NEW n \in Nat, NEW d \in Nat \ {0}, NEW e \in Nat \ {0}, d <= e
    PROVE  CeilDiv(n, e) <= CeilDiv(n, d)
<1> DEFINE c == CeilDiv(n, d)
<1>1. c \in Nat /\ d * c >= n
  BY CeilDivBounds
<1> HIDE DEF c
<1>2. d * c <= e * c
  BY <1>1, SMT
<1>3. e * c >= n
  <2>1. d * c \in Nat /\ e * c \in Nat
    BY <1>1, SMT
  <2> QED  BY <2>1, <1>1, <1>2
<1> QED  BY <1>1, <1>3, CeilDivLeast DEF c

\* Where the quotient is no smaller than the divisor, dividing again by the
\* quotient gives the divisor back.
LEMMA CeilDivInvolution ==
    ASSUME NEW n \in Nat, NEW d \in Nat \ {0}, n > 0, CeilDiv(n, d) >= d
    PROVE  CeilDiv(n, CeilDiv(n, d)) = d
<1> DEFINE c == CeilDiv(n, d)
           e == CeilDiv(n, c)
<1>1. c \in Nat \ {0} /\ d * c >= n /\ d * c < n + d /\ c >= d
  BY CeilDivBounds
<1>2. e \in Nat /\ c * e >= n /\ c * e < n + c
  BY <1>1, CeilDivBounds
<1> HIDE DEF c, e
<1>3. c * d = d * c /\ c * d \in Nat
  BY <1>1, SMT
<1>4. e <= d
  BY <1>1, <1>3, CeilDivLeast DEF e
<1>5. CASE e < d
  <2>1. c * (e + 1) <= c * d
    BY <1>1, <1>2, <1>5, SMT
  <2>2. c * (e + 1) = c * e + c
    BY <1>1, <1>2, SMT
  <2>3. c * e \in Nat
    BY <1>1, <1>2, SMT
  <2> QED  BY <2>1, <2>2, <2>3, <1>1, <1>2, <1>3
<1> QED  BY <1>2, <1>4, <1>5 DEF c, e

-----------------------------------------------------------------------------
(* The fee *)

\* One part in FeeDivisor (100 in the code) is the fee.
FeeDivisor == FeeDenominator \div TotalFeeBps

LEMMA FeeDivisorType ==
    /\ FeeDivisor \in Nat /\ FeeDivisor >= 2
    /\ FeeDenominator = TotalFeeBps * FeeDivisor
    /\ NetGrossAdjustment = FeeDivisor - 1
<1> DEFINE B == TotalFeeBps
           D == FeeDivisor
<1>1. /\ B \in Nat \ {0} /\ FeeDenominator \in Nat
      /\ FeeDenominator % B = 0 /\ FeeDenominator >= 2 * B
  BY FeeConstantsType
<1>2. D \in Nat /\ B * D <= FeeDenominator /\ FeeDenominator < B * D + B
  BY <1>1, DivBounds DEF FeeDivisor
<1>3. FeeDenominator = B * D
  BY <1>1, SMT DEF FeeDivisor
<1> HIDE DEF D
<1>4. D >= 2
  <2>1. CASE D < 2
    <3>1. D = 0 \/ D = 1
      BY <1>2, <2>1
    <3>2. B * D <= B
      BY <3>1, <1>1, SMT
    <3> QED  BY <3>2, <1>1, <1>3
  <2> QED  BY <2>1, <1>2
<1>5. B * (D - 1) = FeeDenominator - B /\ FeeDenominator - B \in Nat
  BY <1>1, <1>2, <1>3, SMT
<1>6. (FeeDenominator - B) \div B = D - 1
  <2>1. D - 1 \in Nat
    BY <1>2, <1>4
  <2> QED  BY <1>1, <1>5, <2>1, DivUnique
<1> QED  BY <1>2, <1>3, <1>4, <1>6 DEF NetGrossAdjustment, D

LEMMA TotalFeeIsDiv ==
    ASSUME NEW gross \in Nat
    PROVE  /\ TotalFee(gross) = gross \div FeeDivisor
           /\ TotalFee(gross) \in Nat
           /\ FeeDivisor * TotalFee(gross) <= gross
           /\ gross < FeeDivisor * TotalFee(gross) + FeeDivisor
<1> DEFINE B == TotalFeeBps
           D == FeeDivisor
           q == gross \div D
<1>1. B \in Nat \ {0} /\ D \in Nat \ {0} /\ FeeDenominator = B * D
  BY FeeConstantsType, FeeDivisorType
<1>2. q \in Nat /\ D * q <= gross /\ gross < D * q + D
  BY <1>1, DivBounds
<1> HIDE DEF D, q
<1>3. /\ (B * D) * q <= gross * B
      /\ gross * B < (B * D) * q + B * D
  <2>1. B * (D * q) <= B * gross /\ B * gross < B * (D * q + D)
    <3>1. D * q \in Nat
      BY <1>1, <1>2, SMT
    <3> HIDE DEF B
    <3> QED  BY <1>1, <1>2, <3>1, SMT
  <2>2. /\ B * (D * q) = (B * D) * q
        /\ B * (D * q + D) = (B * D) * q + B * D
        /\ B * gross = gross * B
    BY <1>1, <1>2, SMT
  <2> QED  BY <2>1, <2>2
<1>4. (gross * B) \div (B * D) = q
  <2>1. gross * B \in Nat /\ B * D \in Nat \ {0}
    BY <1>1, SMT
  <2> QED  BY <1>2, <1>3, <2>1, DivUnique
<1>5. TotalFee(gross) = q
  BY <1>1, <1>4 DEF TotalFee
<1> QED  BY <1>2, <1>5 DEF D, q

LEMMA NetOfType ==
    ASSUME NEW gross \in Nat
    PROVE  NetOf(gross) \in Nat /\ NetOf(gross) <= gross
<1> DEFINE f == TotalFee(gross)
<1>1. f \in Nat /\ FeeDivisor * f <= gross /\ FeeDivisor \in Nat /\ FeeDivisor >= 2
  BY TotalFeeIsDiv, FeeDivisorType
<1> HIDE DEF f
<1>2. f <= FeeDivisor * f /\ FeeDivisor * f \in Nat
  BY <1>1, SMT
<1> QED  BY <1>1, <1>2 DEF NetOf, f

\* grossRequiredForNet: the payment it returns nets exactly the amount asked
\* for, and no smaller payment nets as much; so a buy capped at the endpoint is
\* charged the exact amount and its refund never underflows.
THEOREM GrossRequiredExact ==
    ASSUME NEW net \in Nat
    PROVE  /\ GrossRequiredForNet(net) \in Nat
           /\ NetOf(GrossRequiredForNet(net)) = net
           /\ \A gross \in Nat : NetOf(gross) >= net => GrossRequiredForNet(net) <= gross
<1> DEFINE D == FeeDivisor
           A == D - 1
           q == (net - 1) \div A
           G == GrossRequiredForNet(net)
<1>1. /\ D \in Nat \ {0} /\ D >= 2 /\ A = D - 1
      /\ A \in Nat \ {0} /\ NetGrossAdjustment = A
  BY FeeDivisorType
<1> HIDE DEF D, A
<1>2. CASE net = 0
  <2>1. G = 0
    BY <1>2 DEF GrossRequiredForNet
  <2>2. NetOf(0) = 0
    BY NetOfType
  <2> QED  BY <1>2, <2>1, <2>2
<1>3. CASE net # 0
  <2>1. G = net + q
    BY <1>1, <1>3 DEF GrossRequiredForNet
  <2>2. q \in Nat /\ A * q <= net - 1 /\ net - 1 < A * q + A
    <3>1. net - 1 \in Nat
      BY <1>3
    <3> QED  BY <1>1, <3>1, DivBounds
  <2> HIDE DEF q
  <2>3. A * q = D * q - q /\ D * q \in Nat
    BY <1>1, <2>2, SMT
  <2>4. D * q <= G /\ G < D * q + D /\ G \in Nat
    BY <1>1, <2>1, <2>2, <2>3
  <2> HIDE DEF G
  <2>5. TotalFee(G) = q
    <3>1. G \div D = q
      BY <1>1, <2>2, <2>4, DivUnique
    <3> QED  BY <2>4, <3>1, TotalFeeIsDiv DEF D
  <2>6. NetOf(G) = net
    BY <2>1, <2>2, <2>5 DEF NetOf
  <2>7. ASSUME NEW gross \in Nat, NetOf(gross) >= net
        PROVE  G <= gross
    <3> DEFINE f == TotalFee(gross)
    <3>1. f \in Nat /\ D * f <= gross /\ gross < D * f + D
      BY TotalFeeIsDiv DEF D
    <3>2. gross - f >= net
      BY <2>7 DEF NetOf
    <3> HIDE DEF f
    <3>3. CASE f < q
      <4>1. A * (f + 1) <= A * q
        BY <1>1, <2>2, <3>1, <3>3, SMT
      <4>2. A * (f + 1) = D * f + D - f - 1 /\ D * f \in Nat
        BY <1>1, <3>1, SMT
      <4>3. A * q \in Nat
        BY <1>1, <2>2, SMT
      <4> QED  BY <4>1, <4>2, <4>3, <1>1, <2>2, <3>1, <3>2
    <3> QED  BY <2>1, <2>2, <3>1, <3>2, <3>3
  <2> QED  BY <2>4, <2>6, <2>7 DEF G
<1> QED  BY <1>2, <1>3

-----------------------------------------------------------------------------
(* The quotes of an open curve: supply and reserve strictly below the      *)
(* endpoint, the reserve the smallest one the supply sold allows.          *)

OpenCurve(sold, reserve) ==
    /\ sold \in Nat /\ sold < CurveAllocation
    /\ reserve \in Nat /\ reserve < GraduationReserve
    /\ VirtualNativeReserve + reserve = CeilDiv(K, VirtualTokenReserve - sold)

LEMMA KType == K \in Nat /\ K > 0
  BY CurveConstantsType, SMT DEF K

\* Before the first trade the reserve coordinate is the virtual reserve alone.
LEMMA StartOfCurve == CeilDiv(K, VirtualTokenReserve) = VirtualNativeReserve
<1> DEFINE V == VirtualTokenReserve
           N == VirtualNativeReserve
           c == CeilDiv(K, V)
<1>1. V \in Nat \ {0} /\ N \in Nat /\ K = V * N
  BY CurveConstantsType DEF K
<1>2. c \in Nat /\ V * c >= K /\ c <= N
  BY <1>1, KType, CeilDivBounds, CeilDivLeast
<1> HIDE DEF c, V, N
<1>3. CASE c < N
  <2>1. V * (c + 1) <= V * N
    BY <1>1, <1>2, <1>3, SMT
  <2>2. V * (c + 1) = V * c + V /\ V * c \in Nat
    BY <1>1, <1>2, SMT
  <2> QED  BY <1>1, <1>2, <2>1, <2>2, KType
<1> QED  BY <1>1, <1>2, <1>3 DEF c, V, N

\* Both sides of the endpoint.
LEMMA EndpointTokens ==
    /\ CeilDiv(K, VirtualNativeReserve + GraduationReserve)
         = VirtualTokenReserve - CurveAllocation
    /\ CeilDiv(K, VirtualNativeReserve + GraduationReserve - 1)
         > VirtualTokenReserve - CurveAllocation
<1>1. /\ VirtualNativeReserve + GraduationReserve \in Nat \ {0}
      /\ VirtualNativeReserve + GraduationReserve - 1 \in Nat \ {0}
      /\ VirtualTokenReserve \in Nat /\ CurveAllocation \in Nat
  BY CurveConstantsType
<1>2. CeilDiv(K, VirtualNativeReserve + GraduationReserve) \in Nat
  BY <1>1, KType, CeilDivBounds
<1>3. CeilDiv(K, VirtualNativeReserve + GraduationReserve - 1) \in Nat
  BY <1>1, KType, CeilDivBounds
<1> QED  BY <1>1, <1>2, <1>3, EndpointConstants

\* The token coordinate at each reserve of the curve: at most the remaining
\* virtual tokens at the endpoint, above it before, and never finer than the
\* native coordinate.
LEMMA PostTokens ==
    ASSUME NEW post \in Nat, post <= GraduationReserve
    PROVE  LET x == CeilDiv(K, VirtualNativeReserve + post)
           IN  /\ x \in Nat /\ x >= VirtualTokenReserve - CurveAllocation
               /\ x >= VirtualNativeReserve + post
               /\ post < GraduationReserve => x > VirtualTokenReserve - CurveAllocation
               /\ CeilDiv(K, x) = VirtualNativeReserve + post
<1> DEFINE y == VirtualNativeReserve + post
           x == CeilDiv(K, y)
           last == VirtualNativeReserve + GraduationReserve
           prev == VirtualNativeReserve + GraduationReserve - 1
<1>1. /\ y \in Nat \ {0} /\ last \in Nat \ {0} /\ prev \in Nat \ {0} /\ y <= last
      /\ VirtualTokenReserve \in Nat /\ CurveAllocation \in Nat
  BY CurveConstantsType
<1>2. x \in Nat
  BY <1>1, KType, CeilDivBounds
<1>3. /\ CeilDiv(K, last) = VirtualTokenReserve - CurveAllocation
      /\ CeilDiv(K, prev) > VirtualTokenReserve - CurveAllocation
  BY EndpointTokens
<1>4. x >= CeilDiv(K, last)
  BY <1>1, KType, CeilDivAntitone
<1>5. x >= y
  BY <1>1, <1>2, <1>3, <1>4, FinePrice, CurveConstantsType
<1>6. post < GraduationReserve => x >= CeilDiv(K, prev)
  <2>1. post < GraduationReserve => y <= prev
    BY CurveConstantsType
  <2> QED  BY <1>1, <2>1, KType, CeilDivAntitone
<1>7. CeilDiv(K, x) = y
  BY <1>1, <1>5, KType, CeilDivInvolution
<1> HIDE DEF x
<1>8. x >= VirtualTokenReserve - CurveAllocation
  BY <1>3, <1>4
<1>9. post < GraduationReserve => x > VirtualTokenReserve - CurveAllocation
  <2> SUFFICES ASSUME post < GraduationReserve
               PROVE  x > VirtualTokenReserve - CurveAllocation
    OBVIOUS
  <2> DEFINE e == CeilDiv(K, prev)
  <2>1. e \in Nat /\ e > VirtualTokenReserve - CurveAllocation /\ x >= e
    BY <1>1, <1>3, <1>6, KType, CeilDivBounds
  <2> HIDE DEF e
  <2> QED  BY <1>1, <1>2, <2>1
<1> QED  BY <1>2, <1>5, <1>7, <1>8, <1>9 DEF x

\* quoteBuy on an open curve: no revert of its own arithmetic, and the curve
\* after the buy is an open curve again or stands exactly at the endpoint.
THEOREM BuyQuoteSound ==
    ASSUME NEW sold, NEW reserve, OpenCurve(sold, reserve),
           NEW gross \in Nat
    PROVE  LET q == QuoteBuy(sold, reserve, gross)
           IN  /\ q.accepted \in Nat /\ q.fee \in Nat /\ q.net \in Nat
               /\ q.accepted = q.net + q.fee
               /\ q.refund \in Nat /\ q.refund = gross - q.accepted
               /\ q.tokensOut \in Nat /\ q.tokensOut <= CurveAllocation - sold
               /\ q.reaches \in BOOLEAN
               /\ reserve + q.net <= GraduationReserve
               /\ q.reaches => /\ reserve + q.net = GraduationReserve
                               /\ sold + q.tokensOut = CurveAllocation
               /\ ~q.reaches => OpenCurve(sold + q.tokensOut, reserve + q.net)
<1> DEFINE q == QuoteBuy(sold, reserve, gross)
           need == GraduationReserve - reserve
           acc == IF NetOf(gross) >= need THEN GrossRequiredForNet(need) ELSE gross
           post == reserve + NetOf(acc)
           x == CeilDiv(K, VirtualNativeReserve + post)
<1>1. /\ sold \in Nat /\ sold < CurveAllocation
      /\ reserve \in Nat /\ reserve < GraduationReserve
      /\ CurveAllocation \in Nat /\ GraduationReserve \in Nat
      /\ VirtualTokenReserve \in Nat /\ VirtualNativeReserve \in Nat \ {0}
      /\ VirtualTokenReserve > CurveAllocation
      /\ VirtualNativeReserve + reserve = CeilDiv(K, VirtualTokenReserve - sold)
  BY CurveConstantsType DEF OpenCurve
<1>2. need \in Nat
  BY <1>1
<1>3. /\ acc \in Nat /\ acc <= gross /\ NetOf(acc) \in Nat
      /\ TotalFee(acc) \in Nat /\ acc = NetOf(acc) + TotalFee(acc)
      /\ post \in Nat /\ post <= GraduationReserve
  <2>1. acc \in Nat /\ acc <= gross /\ NetOf(acc) <= need
    <3>1. CASE NetOf(gross) >= need
      BY <1>2, <3>1, GrossRequiredExact
    <3>2. CASE ~(NetOf(gross) >= need)
      BY <1>2, <3>2, NetOfType
    <3> QED  BY <3>1, <3>2
  <2> HIDE DEF acc
  <2>2. NetOf(acc) \in Nat /\ TotalFee(acc) \in Nat
    BY <2>1, NetOfType, TotalFeeIsDiv
  <2> QED  BY <1>1, <2>1, <2>2 DEF NetOf
<1>4. /\ q.accepted = acc /\ q.fee = TotalFee(acc) /\ q.net = NetOf(acc)
      /\ q.refund = gross - acc
      /\ q.reaches = (post = GraduationReserve)
      /\ q.tokensOut = IF post = GraduationReserve THEN CurveAllocation - sold
                       ELSE VirtualTokenReserve - sold - x
      /\ post = reserve + q.net
  BY DEF QuoteBuy
<1> HIDE DEF q, acc, need, post
<1>5. /\ x \in Nat
      /\ post < GraduationReserve => x > VirtualTokenReserve - CurveAllocation
      /\ CeilDiv(K, x) = VirtualNativeReserve + post
  BY <1>3, PostTokens
<1>6. x <= VirtualTokenReserve - sold
  <2> DEFINE z == VirtualTokenReserve - sold
             y == VirtualNativeReserve + reserve
             w == VirtualNativeReserve + post
  <2>1. z \in Nat \ {0} /\ y \in Nat \ {0} /\ w \in Nat \ {0} /\ y <= w
    BY <1>1, <1>3, <1>4
  <2>2. z * y >= K
    BY <1>1, <2>1, KType, CeilDivBounds
  <2> HIDE DEF z, y, w
  <2>3. z * y <= w * z /\ z * y \in Nat /\ w * z \in Nat
    BY <2>1, SMT
  <2>4. w * z >= K
    BY <2>2, <2>3, KType
  <2>5. CeilDiv(K, w) <= z
    BY <2>1, <2>4, KType, CeilDivLeast
  <2> QED  BY <2>5 DEF z, w
<1> HIDE DEF x
<1>7. q.reaches \in BOOLEAN /\ (q.reaches <=> post = GraduationReserve)
  BY <1>4, Zenon
<1> SUFFICES
      /\ q.accepted \in Nat /\ q.fee \in Nat /\ q.net \in Nat
      /\ q.accepted = q.net + q.fee
      /\ q.refund \in Nat /\ q.refund = gross - q.accepted
      /\ q.tokensOut \in Nat /\ q.tokensOut <= CurveAllocation - sold
      /\ q.reaches \in BOOLEAN
      /\ reserve + q.net <= GraduationReserve
      /\ q.reaches => /\ reserve + q.net = GraduationReserve
                      /\ sold + q.tokensOut = CurveAllocation
      /\ ~q.reaches => OpenCurve(sold + q.tokensOut, reserve + q.net)
  BY DEF q
<1>8. /\ q.accepted \in Nat /\ q.fee \in Nat /\ q.net \in Nat
      /\ q.accepted = q.net + q.fee
      /\ q.refund \in Nat /\ q.refund = gross - q.accepted
      /\ reserve + q.net <= GraduationReserve
  BY <1>1, <1>3, <1>4
<1>9. CASE post = GraduationReserve
  <2>1. q.tokensOut = CurveAllocation - sold
    BY <1>4, <1>9
  <2> QED  BY <1>1, <1>4, <1>7, <1>8, <1>9, <2>1
<1>10. CASE post # GraduationReserve
  <2>1. post < GraduationReserve
    BY <1>1, <1>3, <1>10
  <2>2. q.tokensOut = VirtualTokenReserve - sold - x
    BY <1>4, <1>10
  <2>3. OpenCurve(sold + q.tokensOut, reserve + q.net)
    <3>1. VirtualTokenReserve - (sold + q.tokensOut) = x /\ reserve + q.net = post
      BY <1>1, <1>3, <1>4, <1>5, <2>2
    <3>2. sold + q.tokensOut \in Nat /\ sold + q.tokensOut < CurveAllocation
      BY <1>1, <1>5, <1>6, <2>1, <2>2
    <3> QED  BY <1>3, <1>5, <2>1, <3>1, <3>2 DEF OpenCurve
  <2>4. q.tokensOut \in Nat /\ q.tokensOut <= CurveAllocation - sold
    BY <1>1, <1>5, <1>6, <2>1, <2>2
  <2> QED  BY <1>7, <1>8, <1>10, <2>3, <2>4
<1> QED  BY <1>9, <1>10

\* quoteSell on an open curve: never an underflow or InsufficientReserve, and
\* the curve after the sale is an open curve again.
THEOREM SellQuoteSound ==
    ASSUME NEW sold, NEW reserve, OpenCurve(sold, reserve),
           NEW tokensIn \in Nat, tokensIn <= sold
    PROVE  LET q == QuoteSell(sold, reserve, tokensIn)
           IN  /\ q.grossOut \in Nat /\ q.grossOut <= reserve
               /\ q.fee \in Nat /\ q.netOut \in Nat
               /\ q.grossOut = q.netOut + q.fee
               /\ OpenCurve(sold - tokensIn, reserve - q.grossOut)
<1> DEFINE q == QuoteSell(sold, reserve, tokensIn)
           z == VirtualTokenReserve - sold
           x == VirtualTokenReserve - (sold - tokensIn)
           y == CeilDiv(K, x)
<1>1. /\ sold \in Nat /\ sold < CurveAllocation
      /\ reserve \in Nat /\ reserve < GraduationReserve
      /\ VirtualTokenReserve \in Nat /\ VirtualNativeReserve \in Nat \ {0}
      /\ CurveAllocation \in Nat /\ VirtualTokenReserve > CurveAllocation
      /\ VirtualNativeReserve + reserve = CeilDiv(K, z)
  BY CurveConstantsType DEF OpenCurve
<1>2. /\ z \in Nat \ {0} /\ x \in Nat \ {0} /\ z <= x /\ x <= VirtualTokenReserve
      /\ sold - tokensIn \in Nat /\ sold - tokensIn <= sold
  BY <1>1
<1>3. y \in Nat
  BY <1>2, KType, CeilDivBounds
<1>4. y <= VirtualNativeReserve + reserve
  BY <1>1, <1>2, KType, CeilDivAntitone
<1>5. VirtualNativeReserve <= y
  <2>1. CeilDiv(K, VirtualTokenReserve) <= y
    BY <1>1, <1>2, KType, CeilDivAntitone
  <2>2. CeilDiv(K, VirtualTokenReserve) = VirtualNativeReserve
    BY StartOfCurve
  <2> QED  BY <2>1, <2>2
<1>6. q = [ grossOut |-> VirtualNativeReserve + reserve - y,
            fee |-> TotalFee(VirtualNativeReserve + reserve - y),
            netOut |-> NetOf(VirtualNativeReserve + reserve - y) ]
  BY DEF QuoteSell
<1> HIDE DEF q, y
<1>7. /\ q.grossOut = VirtualNativeReserve + reserve - y
      /\ q.grossOut \in Nat /\ q.grossOut <= reserve
  BY <1>1, <1>3, <1>4, <1>5, <1>6
<1>8. /\ q.fee \in Nat /\ q.netOut \in Nat /\ q.grossOut = q.netOut + q.fee
  <2>1. q.fee = TotalFee(q.grossOut) /\ q.netOut = NetOf(q.grossOut)
    BY <1>6
  <2>2. TotalFee(q.grossOut) \in Nat /\ NetOf(q.grossOut) \in Nat
    BY <1>7, TotalFeeIsDiv, NetOfType
  <2> QED  BY <1>7, <2>1, <2>2 DEF NetOf
<1>9. OpenCurve(sold - tokensIn, reserve - q.grossOut)
  <2>1. VirtualNativeReserve + (reserve - q.grossOut) = y
    BY <1>1, <1>3, <1>7
  <2>2. reserve - q.grossOut \in Nat /\ reserve - q.grossOut < GraduationReserve
    BY <1>1, <1>7, CurveConstantsType
  <2> QED  BY <1>1, <1>2, <2>1, <2>2 DEF OpenCurve, y
<1> QED  BY <1>7, <1>8, <1>9 DEF q

-----------------------------------------------------------------------------
(* 2. The curve *)

\* The inductive invariant.  The three safety invariants need each other: the
\* quotes are sound only on the curve (ReserveFollowsSupply), the balances
\* stay non-negative only because the curve is backed, and the endpoint is
\* exact only because an open curve is strictly below it.
IInv ==
    /\ TypeOK
    /\ GraduationIsExact
    /\ ReserveFollowsSupply
    /\ CurveIsBacked

\* An open curve in the sense of the quote lemmas.
LEMMA OpenCurveFacts ==
    ASSUME IInv, ~graduated
    PROVE  OpenCurve(soldSupply, activeReserve)
BY DEF IInv, TypeOK, GraduationIsExact, ReserveFollowsSupply, OpenCurve,
       virtualNativeReserve, virtualTokenReserve, reserveCoordinate

LEMMA InitHolds == Init => IInv
<1> SUFFICES ASSUME Init PROVE IInv
  OBVIOUS
<1> USE DEF Init
<1>0. TotalSupply \in Nat
  BY CurveConstantsType DEF TotalSupply
<1>1. TypeOK
  <2>1. /\ soldSupply \in 0..CurveAllocation /\ activeReserve \in 0..GraduationReserve
        /\ terminalReserve \in {0, GraduationReserve} /\ forwarded \in {0, GraduationReserve}
        /\ graduated \in BOOLEAN
    <3>1. 0 \in 0..CurveAllocation /\ 0 \in 0..GraduationReserve
      BY CurveConstantsType
    <3> QED  BY <3>1, Zenon
  <2>2. tokens \in [Accounts -> Nat]
    BY <1>0
  <2>3. native \in [Accounts -> Nat]
    BY InputsType
  <2> QED  BY <2>1, <2>2, <2>3 DEF TypeOK
<1>2. GraduationIsExact
  BY CurveConstantsType DEF GraduationIsExact
<1>3. ReserveFollowsSupply
  <2>1. virtualTokenReserve = VirtualTokenReserve
    BY CurveConstantsType DEF virtualTokenReserve
  <2>2. virtualNativeReserve = VirtualNativeReserve
    BY CurveConstantsType DEF virtualNativeReserve, reserveCoordinate
  <2> QED  BY <2>1, <2>2, StartOfCurve DEF ReserveFollowsSupply
<1>4. CurveIsBacked
  <2>1. Curve \in Accounts /\ Curve \notin Traders
    BY AccountsDistinct DEF Accounts
  <2> QED  BY <1>0, <2>1 DEF CurveIsBacked
<1> QED  BY <1>1, <1>2, <1>3, <1>4 DEF IInv

-----------------------------------------------------------------------------

\* What every step may assume of the accounts.
LEMMA AccountFacts ==
    /\ Curve \in Accounts /\ FeeManager \in Accounts /\ GraduationManager \in Accounts
    /\ Traders \subseteq Accounts
BY DEF Accounts

LEMMA BuyKeepsIInv ==
    ASSUME IInv, NEW t \in Traders, NEW gross \in GrossInputs, NEW m,
           buy(t, gross, m)
    PROVE  IInv'
<1> DEFINE q == QuoteBuy(soldSupply, activeReserve, gross)
<1>1. gross \in Nat /\ ~graduated /\ native[t] >= gross
  BY InputsType DEF buy
<1>2. /\ q.accepted \in Nat /\ q.fee \in Nat /\ q.net \in Nat
      /\ q.accepted = q.net + q.fee
      /\ q.refund \in Nat /\ q.refund = gross - q.accepted
      /\ q.tokensOut \in Nat /\ q.tokensOut <= CurveAllocation - soldSupply
      /\ q.reaches \in BOOLEAN
      /\ activeReserve + q.net <= GraduationReserve
      /\ q.reaches => /\ activeReserve + q.net = GraduationReserve
                      /\ soldSupply + q.tokensOut = CurveAllocation
      /\ ~q.reaches => OpenCurve(soldSupply + q.tokensOut, activeReserve + q.net)
  BY <1>1, OpenCurveFacts, BuyQuoteSound
<1>3. BuyBelowEndpoint(t, q) \/ BuyToGraduation(t, q)
  BY DEF buy
<1> HIDE DEF q
<1>4. /\ soldSupply \in Nat /\ activeReserve \in Nat
      /\ CurveAllocation \in Nat /\ LPAllocation \in Nat /\ GraduationReserve \in Nat
      /\ tokens \in [Accounts -> Nat] /\ native \in [Accounts -> Nat]
      /\ native[Curve] >= activeReserve
      /\ tokens[Curve] >= TotalSupply - soldSupply
      /\ TotalSupply = CurveAllocation + LPAllocation
  BY <1>1, CurveConstantsType DEF IInv, TypeOK, CurveIsBacked, TotalSupply
<1>5. /\ t \in Accounts /\ t # Curve /\ t # FeeManager /\ t # GraduationManager
      /\ Curve \in Accounts /\ FeeManager \in Accounts /\ GraduationManager \in Accounts
      /\ Curve # FeeManager /\ Curve # GraduationManager /\ FeeManager # GraduationManager
  BY AccountFacts, AccountsDistinct
<1>6. CASE BuyBelowEndpoint(t, q)
  <2>1. /\ ~q.reaches /\ graduated' = graduated
        /\ terminalReserve' = terminalReserve /\ forwarded' = forwarded
        /\ soldSupply' = soldSupply + q.tokensOut
        /\ activeReserve' = activeReserve + q.net
    BY <1>6 DEF BuyBelowEndpoint
  <2>2. OpenCurve(soldSupply', activeReserve')
    BY <1>2, <2>1
  <2>3. /\ tokens' \in [Accounts -> Nat]
        /\ tokens'[Curve] = tokens[Curve] - q.tokensOut
    BY <1>2, <1>4, <1>5, <1>6 DEF BuyBelowEndpoint
  <2>4. /\ native' \in [Accounts -> Nat]
        /\ native'[Curve] = native[Curve] + q.net
    BY <1>1, <1>2, <1>4, <1>5, <1>6 DEF BuyBelowEndpoint
  <2>5. TypeOK'
    BY <1>4, <2>1, <2>2, <2>3, <2>4 DEF TypeOK, IInv, OpenCurve
  <2>6. GraduationIsExact'
    BY <1>1, <2>1, <2>2 DEF IInv, GraduationIsExact, OpenCurve
  <2>7. ReserveFollowsSupply'
    BY <1>1, <2>1, <2>2 DEF ReserveFollowsSupply, OpenCurve, virtualNativeReserve,
                            virtualTokenReserve, reserveCoordinate
  <2>8. CurveIsBacked'
    <3>1. /\ native[Curve] \in Nat /\ tokens[Curve] \in Nat /\ TotalSupply \in Nat
      BY <1>4, <1>5
    <3>2. native'[Curve] >= activeReserve'
      BY <1>2, <1>4, <2>1, <2>4, <3>1
    <3>3. tokens'[Curve] >= TotalSupply - soldSupply'
      BY <1>2, <1>4, <2>1, <2>3, <3>1
    <3> QED  BY <3>2, <3>3 DEF CurveIsBacked
  <2> QED  BY <2>5, <2>6, <2>7, <2>8 DEF IInv
<1>7. CASE BuyToGraduation(t, q)
  <2>1. /\ q.reaches /\ graduated' = TRUE
        /\ soldSupply' = CurveAllocation /\ activeReserve' = 0
        /\ terminalReserve' = GraduationReserve /\ forwarded' = GraduationReserve
    BY <1>2, <1>7 DEF BuyToGraduation
  <2>2. tokens' \in [Accounts -> Nat]
    BY <1>2, <1>4, <1>5, <1>7 DEF BuyToGraduation
  <2>3. native' \in [Accounts -> Nat]
    BY <1>1, <1>2, <1>4, <1>5, <1>7 DEF BuyToGraduation
  <2>4. TypeOK'
    BY <1>4, <2>1, <2>2, <2>3 DEF TypeOK
  <2>5. GraduationIsExact'
    BY <2>1 DEF GraduationIsExact
  <2>6. ReserveFollowsSupply'
    <3>1. CeilDiv(K, VirtualTokenReserve - CurveAllocation)
            = VirtualNativeReserve + GraduationReserve
      BY <1>4, PostTokens, EndpointTokens
    <3> QED  BY <2>1, <3>1 DEF ReserveFollowsSupply, virtualNativeReserve,
                               virtualTokenReserve, reserveCoordinate
  <2>7. CurveIsBacked'
    BY <1>5, <2>1, <2>3 DEF CurveIsBacked
  <2> QED  BY <2>4, <2>5, <2>6, <2>7 DEF IInv
<1> QED  BY <1>3, <1>6, <1>7

LEMMA SellKeepsIInv ==
    ASSUME IInv, NEW t \in Traders, NEW n \in TokenInputs, NEW m,
           sell(t, n, m)
    PROVE  IInv'
<1> DEFINE q == QuoteSell(soldSupply, activeReserve, n)
<1>1. n \in Nat /\ n <= soldSupply /\ ~graduated /\ tokens[t] >= n
  BY InputsType DEF sell, SellQuoteOK
<1>2. /\ q.grossOut \in Nat /\ q.grossOut <= activeReserve
      /\ q.fee \in Nat /\ q.netOut \in Nat
      /\ q.grossOut = q.netOut + q.fee
      /\ OpenCurve(soldSupply - n, activeReserve - q.grossOut)
  BY <1>1, OpenCurveFacts, SellQuoteSound
<1>3. /\ soldSupply' = soldSupply - n
      /\ activeReserve' = activeReserve - q.grossOut
      /\ tokens' = [tokens EXCEPT ![t] = @ - n, ![Curve] = @ + n]
      /\ native' = [native EXCEPT ![Curve] = @ - q.grossOut,
                                  ![FeeManager] = @ + q.fee,
                                  ![t] = @ + q.netOut]
      /\ UNCHANGED <<terminalReserve, forwarded, graduated>>
  BY DEF sell
<1> HIDE DEF q
<1>4. /\ soldSupply \in Nat /\ activeReserve \in Nat
      /\ CurveAllocation \in Nat /\ LPAllocation \in Nat /\ GraduationReserve \in Nat
      /\ tokens \in [Accounts -> Nat] /\ native \in [Accounts -> Nat]
      /\ native[Curve] >= activeReserve
      /\ tokens[Curve] >= TotalSupply - soldSupply
      /\ TotalSupply = CurveAllocation + LPAllocation
  BY <1>1, CurveConstantsType DEF IInv, TypeOK, CurveIsBacked, TotalSupply
<1>5. /\ t \in Accounts /\ t # Curve /\ t # FeeManager
      /\ Curve \in Accounts /\ FeeManager \in Accounts /\ Curve # FeeManager
  BY AccountFacts, AccountsDistinct
<1>6. tokens' \in [Accounts -> Nat] /\ tokens'[Curve] = tokens[Curve] + n
  BY <1>1, <1>3, <1>4, <1>5
<1>7. native' \in [Accounts -> Nat] /\ native'[Curve] = native[Curve] - q.grossOut
  BY <1>2, <1>3, <1>4, <1>5
<1>8. OpenCurve(soldSupply', activeReserve')
  BY <1>2, <1>3
<1>9. TypeOK'
  BY <1>3, <1>4, <1>6, <1>7, <1>8 DEF TypeOK, IInv, OpenCurve
<1>10. GraduationIsExact'
  BY <1>1, <1>3, <1>8 DEF IInv, GraduationIsExact, OpenCurve
<1>11. ReserveFollowsSupply'
  BY <1>1, <1>3, <1>8 DEF ReserveFollowsSupply, OpenCurve, virtualNativeReserve,
                          virtualTokenReserve, reserveCoordinate
<1>12. CurveIsBacked'
  BY <1>1, <1>2, <1>3, <1>4, <1>6, <1>7 DEF CurveIsBacked, TotalSupply
<1> QED  BY <1>9, <1>10, <1>11, <1>12 DEF IInv

LEMMA TransferKeepsIInv ==
    ASSUME IInv, NEW t \in Traders, NEW to \in Traders \union {Curve}, NEW n \in Nat,
           transfer(t, to, n)
    PROVE  IInv'
<1>1. /\ UNCHANGED <<soldSupply, activeReserve, terminalReserve, forwarded, graduated, native>>
      /\ tokens' = [tokens EXCEPT ![t] = @ - n, ![to] = @ + n]
      /\ tokens[t] >= n /\ t # to
  BY DEF transfer, books
<1>2. tokens \in [Accounts -> Nat] /\ t \in Accounts /\ to \in Accounts /\ t # Curve
  BY AccountFacts, AccountsDistinct DEF IInv, TypeOK
<1>3. tokens' \in [Accounts -> Nat] /\ tokens'[Curve] >= tokens[Curve]
  BY <1>1, <1>2, AccountFacts
<1>4. TypeOK'
  BY <1>1, <1>3 DEF IInv, TypeOK
<1>5. GraduationIsExact' /\ ReserveFollowsSupply'
  BY <1>1 DEF IInv, GraduationIsExact, ReserveFollowsSupply, virtualNativeReserve,
              virtualTokenReserve, reserveCoordinate
<1>6. CurveIsBacked'
  <2>1. TotalSupply \in Nat /\ soldSupply \in Nat /\ tokens[Curve] \in Nat
        /\ tokens'[Curve] \in Nat
    BY <1>2, <1>3, AccountFacts, CurveConstantsType DEF IInv, TypeOK, TotalSupply
  <2> QED  BY <1>1, <1>3, <2>1 DEF IInv, CurveIsBacked
<1> QED  BY <1>4, <1>5, <1>6 DEF IInv

LEMMA ForceKeepsIInv ==
    ASSUME IInv, NEW t \in Traders, NEW n \in Nat, ForceNative(t, n)
    PROVE  IInv'
<1>1. /\ UNCHANGED <<soldSupply, activeReserve, terminalReserve, forwarded, graduated, tokens>>
      /\ native' = [native EXCEPT ![t] = @ - n, ![Curve] = @ + n]
      /\ native[t] >= n
  BY DEF ForceNative, books
<1>2. native \in [Accounts -> Nat] /\ t \in Accounts /\ t # Curve /\ Curve \in Accounts
  BY AccountFacts, AccountsDistinct DEF IInv, TypeOK
<1>3. native' \in [Accounts -> Nat] /\ native'[Curve] >= native[Curve]
  BY <1>1, <1>2
<1>4. TypeOK'
  BY <1>1, <1>3 DEF IInv, TypeOK
<1>5. GraduationIsExact' /\ ReserveFollowsSupply'
  BY <1>1 DEF IInv, GraduationIsExact, ReserveFollowsSupply, virtualNativeReserve,
              virtualTokenReserve, reserveCoordinate
<1>6. CurveIsBacked'
  <2>1. activeReserve \in Nat /\ native[Curve] \in Nat /\ native'[Curve] \in Nat
    BY <1>2, <1>3 DEF IInv, TypeOK
  <2> QED  BY <1>1, <1>3, <2>1 DEF IInv, CurveIsBacked
<1> QED  BY <1>4, <1>5, <1>6 DEF IInv

LEMMA StepKeepsIInv == IInv /\ [Next]_vars => IInv'
<1> SUFFICES ASSUME IInv, [Next]_vars PROVE IInv'
  OBVIOUS
<1>1. ASSUME NEW t \in Traders, NEW gross \in GrossInputs, NEW m \in MinOuts,
             buy(t, gross, m)
      PROVE  IInv'
  BY <1>1, BuyKeepsIInv
<1>2. ASSUME NEW t \in Traders, NEW n \in TokenInputs, NEW m \in MinOuts, sell(t, n, m)
      PROVE  IInv'
  BY <1>2, SellKeepsIInv
<1>3. ASSUME NEW t \in Traders, NEW to \in Traders, NEW n \in TransferAmounts,
             transfer(t, to, n)
      PROVE  IInv'
  BY <1>3, TransferKeepsIInv, InputsType
<1>4. ASSUME NEW t \in Traders, NEW n \in StrayTokens, transfer(t, Curve, n)
      PROVE  IInv'
  BY <1>4, TransferKeepsIInv, InputsType
<1>5. ASSUME NEW t \in Traders, NEW n \in StrayNative, ForceNative(t, n)
      PROVE  IInv'
  BY <1>5, ForceKeepsIInv, InputsType
<1>6. CASE UNCHANGED vars
  BY <1>6 DEF vars, books, IInv, TypeOK, GraduationIsExact, ReserveFollowsSupply,
              CurveIsBacked, virtualNativeReserve, virtualTokenReserve, reserveCoordinate
<1> QED  BY <1>1, <1>2, <1>3, <1>4, <1>5, <1>6 DEF Next, Move

\* The inductive invariant holds in every state of every behaviour.
THEOREM CurveInvariant == Spec => []IInv
BY InitHolds, StepKeepsIInv, PTL DEF Spec

\* The curve's own variables and every balance keep their types: nothing is
\* ever overdrawn.
THEOREM TypeCorrect == Spec => []TypeOK
BY CurveInvariant, PTL DEF IInv

\* Graduation happens at exactly the endpoint, with exactly the reserve.
THEOREM GraduationExact == Spec => []GraduationIsExact
BY CurveInvariant, PTL DEF IInv

\* The reserve depends on the supply sold alone, not on the path of trades.
THEOREM ReserveIsPathIndependent == Spec => []ReserveFollowsSupply
BY CurveInvariant, PTL DEF IInv

\* The curve always holds what it owes.
THEOREM Backed == Spec => []CurveIsBacked
BY CurveInvariant, PTL DEF IInv

\* On an open curve no legal amount makes a quote fail for the curve's own
\* arithmetic.
THEOREM QuotesSound == Spec => []QuotesNeverBreak
<1>1. IInv => QuotesNeverBreak
  <2> SUFFICES ASSUME IInv, ~graduated PROVE QuotesNeverBreak
    BY DEF QuotesNeverBreak
  <2>1. OpenCurve(soldSupply, activeReserve)
    BY OpenCurveFacts
  <2>2. ASSUME NEW gross \in Payments \ {0}
        PROVE  LET q == QuoteBuy(soldSupply, activeReserve, gross)
               IN  /\ q.refund >= 0
                   /\ activeReserve + q.net <= GraduationReserve
                   /\ 0 <= q.tokensOut
                   /\ q.tokensOut <= CurveAllocation - soldSupply
    <3>1. gross \in Nat
      BY InputsType
    <3> DEFINE q == QuoteBuy(soldSupply, activeReserve, gross)
    <3>2. /\ q.refund \in Nat /\ q.tokensOut \in Nat
          /\ q.tokensOut <= CurveAllocation - soldSupply
          /\ activeReserve + q.net <= GraduationReserve
      BY <2>1, <3>1, BuyQuoteSound
    <3> HIDE DEF q
    <3> QED  BY <3>2 DEF q
  <2>3. ASSUME NEW n \in 1..soldSupply
        PROVE  LET q == QuoteSell(soldSupply, activeReserve, n)
               IN  0 <= q.grossOut /\ q.grossOut <= activeReserve
    <3>1. n \in Nat /\ n <= soldSupply
      BY <2>1 DEF OpenCurve
    <3> DEFINE q == QuoteSell(soldSupply, activeReserve, n)
    <3>2. q.grossOut \in Nat /\ q.grossOut <= activeReserve
      BY <2>1, <3>1, SellQuoteSound
    <3> HIDE DEF q
    <3> QED  BY <3>2 DEF q
  <2> QED  BY <2>2, <2>3 DEF QuotesNeverBreak
<1> QED  BY <1>1, CurveInvariant, PTL

\* Selling straight back what a buy bought returns the net input of the buy, to
\* the unit: no round trip gains, and none loses more than the two fees.
THEOREM NoRoundTripGain == Spec => []NoRoundTripProfit
<1>1. IInv => NoRoundTripProfit
  <2> SUFFICES ASSUME IInv, ~graduated, NEW gross \in Payments,
                      ~QuoteBuy(soldSupply, activeReserve, gross).reaches
               PROVE  LET b == QuoteBuy(soldSupply, activeReserve, gross)
                          s == QuoteSell(soldSupply + b.tokensOut,
                                         activeReserve + b.net, b.tokensOut)
                      IN  s.grossOut <= b.net
    BY DEF NoRoundTripProfit
  <2> DEFINE b == QuoteBuy(soldSupply, activeReserve, gross)
             sold == soldSupply + b.tokensOut
             reserve == activeReserve + b.net
             s == QuoteSell(sold, reserve, b.tokensOut)
  <2>1. OpenCurve(soldSupply, activeReserve) /\ gross \in Nat
    BY OpenCurveFacts, InputsType
  <2>2. b.net \in Nat /\ b.tokensOut \in Nat
    BY <2>1, BuyQuoteSound
  <2>3. s.grossOut = VirtualNativeReserve + reserve
                       - CeilDiv(K, VirtualTokenReserve - (sold - b.tokensOut))
    BY DEF QuoteSell
  <2> HIDE DEF b
  <2>4. sold - b.tokensOut = soldSupply
    BY <2>1, <2>2 DEF OpenCurve
  <2>5. CeilDiv(K, VirtualTokenReserve - soldSupply) = VirtualNativeReserve + activeReserve
    BY <2>1 DEF OpenCurve
  <2>6. s.grossOut = b.net
    BY <2>1, <2>2, <2>3, <2>4, <2>5, CurveConstantsType DEF OpenCurve
  <2> QED  BY <2>2, <2>6 DEF b
<1> QED  BY <1>1, CurveInvariant, PTL
-----------------------------------------------------------------------------
(* 3. A trade through the token page *)

USE TicketConstants

Sides == {"buy", "sell"}

PageStates == [sold : Nat, reserve : Nat, graduated : BOOLEAN, native : Nat, tokens : Nat]

Prints == (Nat \X Nat \X BOOLEAN \X Nat) \union {<<>>}

Stages == {"idle", "asked", "ready", "prepare", "simulate", "funds", "holdings", "approve",
           "approving", "prompt", "sent"}

Tickets == [stage : Stages, side : Sides, amount : Nat, tol : Nat, print : Prints,
            out : Nat, created : Nat, deadline : Nat]

\* A quote under way is for an amount its side may trade and a tolerance the panel
\* lets through.
TicketOK(t) ==
    t.stage # "idle" => t.amount \in Amounts(t.side) /\ t.tol \in Slippages

Approvals == [kind : {"approve"}, amount : Nat]

\* A trade in the pool carries the bound the panel computed from the quote reviewed.
Trades == {x \in [kind : Sides, amount : Nat, min : Nat, deadline : Nat, out : Nat, tol : Nat] :
             /\ x.amount \in Amounts(x.kind)
             /\ x.tol \in Slippages
             /\ x.min = minOutput(x.out, x.tol)}

\* What the page and its transactions keep.
TicketInv ==
    /\ now \in Nat /\ allowance \in Nat
    /\ shown \in PageStates
    /\ ticket \in Tickets /\ TicketOK(ticket)
    /\ pool \in Seq(Approvals \union Trades)

QuotedInv == IInv /\ TicketInv


\* Inputs are numbers.
LEMMA AmountsType ==
    /\ \A s \in Sides : Amounts(s) \subseteq Nat
    /\ Amounts("buy") \subseteq GrossInputs /\ Amounts("sell") \subseteq TokenInputs
    /\ Slippages \subseteq Nat
BY InputsType DEF Amounts, Sides, Slippages

\* The bound is the largest whole number of units not above the tolerated part.
LEMMA MinOutputBound ==
    ASSUME NEW out \in Nat, NEW tol \in Slippages
    PROVE  /\ minOutput(out, tol) \in Nat
           /\ \A earned \in Nat : earned >= minOutput(out, tol) =>
                (earned + 1) * BpsScale > out * (BpsScale - tol)
<1>1. tol \in Nat /\ tol <= BpsScale \div 2 /\ BpsScale \div 2 <= BpsScale
    BY DEF Slippages
<1>2. BpsScale - tol \in Nat
    BY <1>1
<1> DEFINE n == out * (BpsScale - tol)
           m == n \div BpsScale
<1>3. n \in Nat
    BY <1>2
<1> HIDE DEF n
<1>4. m \in Nat /\ n < BpsScale * m + BpsScale
    BY <1>3, DivBounds
<1> HIDE DEF m
<1>5. ASSUME NEW earned \in Nat, earned >= m PROVE (earned + 1) * BpsScale > n
    <2>1. BpsScale * m <= BpsScale * earned
        BY <1>4, <1>5, SMT
    <2> QED
        BY <1>3, <1>4, <2>1, SMT
<1> QED
    BY <1>4, <1>5 DEF m, n, minOutput

\* What a poll reads, and what the panel remembers of it.
LEMMA PageStateType == IInv => ReadTradeState \in PageStates
<1>1. User \in Accounts
    BY DEF Accounts
<1> QED
    BY <1>1, CurveConstantsType DEF ReadTradeState, PageStates, IInv, TypeOK

\* What the panel remembers of a state is one of the fingerprints it compares.
LEMMA PrintType ==
    ASSUME NEW s \in PageStates, NEW side \in Sides
    PROVE  Fingerprint(s, side) \in Prints
BY DEF Fingerprint, Balance, Prints, PageStates, Sides

\* Nothing is quoted, allowed or sent yet.
LEMMA QuotedInitHolds == QuotedInit => QuotedInv
<1> SUFFICES ASSUME QuotedInit PROVE QuotedInv
    OBVIOUS
<1>1. IInv
    BY InitHolds DEF QuotedInit
<1>2. shown \in PageStates
    BY <1>1, PageStateType DEF QuotedInit
<1>3. ticket \in Tickets /\ TicketOK(ticket)
    BY DEF QuotedInit, Blank, Tickets, TicketOK, Prints, Sides, Stages
<1>4. pool \in Seq(Approvals \union Trades)
    BY DEF QuotedInit
<1> QED
    BY <1>1, <1>2, <1>3, <1>4 DEF QuotedInit, QuotedInv, TicketInv

\* A step of the page that moves the quote along.
LEMMA StageKeeps ==
    ASSUME QuotedInv, NEW from, NEW to \in Stages, from # "idle", Step(from, to),
           pool' \in Seq(Approvals \union Trades)
    PROVE  QuotedInv'
<1>1. /\ ticket' = [ticket EXCEPT !.stage = to] /\ ticket.stage # "idle"
      /\ UNCHANGED <<vars, now, shown, allowance, moves>>
    BY DEF Step
<1>2. ticket' \in Tickets /\ TicketOK(ticket')
    BY <1>1 DEF QuotedInv, TicketInv, Tickets, TicketOK
<1>3. IInv'
    BY <1>1, StepKeepsIInv DEF QuotedInv
<1> QED
    BY <1>1, <1>2, <1>3 DEF QuotedInv, TicketInv

\* No quote.
LEMMA BlankOK == Blank \in Tickets /\ TicketOK(Blank)
BY DEF Blank, Tickets, TicketOK, Prints, Sides, Stages

\* A step of the page that gives the quote up, or waits.
LEMMA RestKeeps ==
    ASSUME QuotedInv, UNCHANGED <<vars, now, shown, allowance>>,
           ticket' = Blank \/ ticket' = ticket, pool' \in Seq(Approvals \union Trades)
    PROVE  QuotedInv'
<1>1. IInv'
    BY StepKeepsIInv DEF QuotedInv
<1>2. ticket' \in Tickets /\ TicketOK(ticket')
    BY BlankOK DEF QuotedInv, TicketInv
<1> QED
    BY <1>1, <1>2 DEF QuotedInv, TicketInv

\* A quote asked for: amount and tolerance are legal, the answer is a number because
\* the curve is sound.
LEMMA AskedKeeps ==
    ASSUME QuotedInv, NEW side \in Sides, NEW amount \in Amounts(side), NEW tol \in Slippages,
           NEW out \in Nat, Asked(side, amount, tol, out)
    PROVE  QuotedInv'
<1>1. IInv'
    BY StepKeepsIInv DEF QuotedInv, Asked
<1>2. Fingerprint(shown, side) \in Prints
    BY PrintType DEF QuotedInv, TicketInv
<1>3. amount \in Nat /\ tol \in Nat
    BY AmountsType
<1>4. ticket' = [stage |-> "asked", side |-> side, amount |-> amount, tol |-> tol,
                 print |-> Fingerprint(shown, side), out |-> out, created |-> 0,
                 deadline |-> 0]
    BY DEF Asked, Blank
<1>5. ticket' \in Tickets /\ TicketOK(ticket')
    BY <1>2, <1>3, <1>4 DEF Tickets, TicketOK, Stages
<1> QED
    BY <1>1, <1>5 DEF QuotedInv, TicketInv, Asked

\* A quote begins from what the page read: the ticket is asked on that state.
LEMMA QuoteKeeps ==
    ASSUME QuotedInv, QuoteBuyByBudget \/ QuoteSellAmount
    PROVE  QuotedInv'
<1>1. CASE QuoteBuyByBudget
    <2>1. PICK budget \in Amounts("buy"), tol \in Slippages :
            /\ ~graduated
            /\ Asked("buy", budget, tol, QuoteBuy(soldSupply, activeReserve, budget).tokensOut)
        BY <1>1 DEF QuoteBuyByBudget, readBuyQuote
    <2>2. budget \in Nat
        BY AmountsType DEF Sides
    <2>3. QuoteBuy(soldSupply, activeReserve, budget).tokensOut \in Nat
        BY <2>1, <2>2, OpenCurveFacts, BuyQuoteSound DEF QuotedInv
    <2> QED
        BY <2>1, <2>3, AskedKeeps DEF Sides
<1>2. CASE QuoteSellAmount
    <2>1. PICK n \in Amounts("sell"), tol \in Slippages :
            /\ ~graduated
            /\ SellQuoteOK(soldSupply, activeReserve, n, QuoteSell(soldSupply, activeReserve, n))
            /\ Asked("sell", n, tol, QuoteSell(soldSupply, activeReserve, n).netOut)
        BY <1>2 DEF QuoteSellAmount, readSellQuote
    <2>2. n \in Nat /\ n <= soldSupply
        BY <2>1, AmountsType DEF Sides, SellQuoteOK
    <2>3. QuoteSell(soldSupply, activeReserve, n).netOut \in Nat
        BY <2>1, <2>2, OpenCurveFacts, SellQuoteSound DEF QuotedInv
    <2> QED
        BY <2>1, <2>3, AskedKeeps DEF Sides
<1> QED
    BY <1>1, <1>2

\* The answer starts the life of the quote, or is dropped.
LEMMA AnswerKeeps == ASSUME QuotedInv, Answer PROVE QuotedInv'
<1>1. /\ UNCHANGED <<vars, now, shown, allowance, pool>>
      /\ ticket.stage = "asked"
      /\ \/ ticket' = Blank
         \/ ticket' = [ticket EXCEPT !.stage = "ready", !.created = now,
                                     !.deadline = transactionDeadline]
    BY DEF Answer
<1>2. transactionDeadline \in Nat
    BY DEF transactionDeadline, QuotedInv, TicketInv
<1>3. ticket' \in Tickets /\ TicketOK(ticket')
    BY <1>1, <1>2, BlankOK DEF QuotedInv, TicketInv, Tickets, TicketOK, Stages
<1>4. IInv'
    BY <1>1, StepKeepsIInv DEF QuotedInv
<1> QED
    BY <1>1, <1>3, <1>4 DEF QuotedInv, TicketInv

\* The transactions the wallet sends.
LEMMA SendKeeps == ASSUME QuotedInv, Approve \/ Sign PROVE QuotedInv'
<1>1. CASE Approve
    <2>1. [kind |-> "approve", amount |-> ticket.amount] \in Approvals
        BY DEF QuotedInv, TicketInv, Tickets, Approvals
    <2>2. pool' \in Seq(Approvals \union Trades)
        BY <1>1, <2>1 DEF Approve, QuotedInv, TicketInv
    <2> QED
        BY <1>1, <2>2, StageKeeps DEF Approve, Stages
<1>2. CASE Sign
    <2>1. ticket.stage # "idle"
        BY <1>2 DEF Sign, Step
    <2>2. /\ ticket \in Tickets /\ ticket.amount \in Amounts(ticket.side)
          /\ ticket.tol \in Slippages /\ ticket.out \in Nat
        BY <2>1 DEF QuotedInv, TicketInv, TicketOK, Tickets
    <2>3. minOutput(ticket.out, ticket.tol) \in Nat
        BY <2>2, MinOutputBound
    <2>4. Terms \in Trades
        BY <2>2, <2>3 DEF Terms, Trades, Tickets
    <2>5. pool' \in Seq(Approvals \union Trades)
        BY <1>2, <2>4 DEF Sign, QuotedInv, TicketInv
    <2> QED
        BY <1>2, <2>5, StageKeeps DEF Sign, Stages
<1> QED
    BY <1>1, <1>2

\* What a transaction of the pool does when it is mined.
LEMMA ExecutionKeeps ==
    ASSUME QuotedInv, pool # <<>>, Executes(Head(pool)) \/ Reverts(Head(pool))
    PROVE  IInv' /\ allowance' \in Nat
<1> DEFINE x == Head(pool)
<1>1. x \in Approvals \union Trades
    BY DEF QuotedInv, TicketInv
<1> HIDE DEF x
<1>2. CASE UNCHANGED vars /\ (allowance' = allowance \/ allowance' = x.amount)
    <2>1. x.amount \in Nat
        BY <1>1 DEF Approvals, Trades
    <2> QED
        BY <1>2, <2>1, StepKeepsIInv DEF QuotedInv, TicketInv
<1>3. CASE x.kind = "buy" /\ buy(User, x.amount, x.min) /\ UNCHANGED allowance
    <2>1. x.amount \in GrossInputs
        BY <1>1, <1>3, AmountsType DEF Approvals, Trades
    <2> QED
        BY <1>3, <2>1, BuyKeepsIInv DEF QuotedInv, TicketInv
<1>4. CASE /\ x.kind = "sell" /\ SellPasses(x)
           /\ sell(User, x.amount, x.min) /\ allowance' = allowance - x.amount
    <2>1. x.amount \in TokenInputs /\ x.amount \in Nat
        BY <1>1, <1>4, AmountsType DEF Approvals, Trades
    <2>2. allowance >= x.amount
        BY <1>4 DEF SellPasses
    <2> QED
        BY <1>4, <2>1, <2>2, SellKeepsIInv DEF QuotedInv, TicketInv
<1> QED
    BY <1>2, <1>3, <1>4 DEF Executes, Reverts, x

\* Mined transactions, moves of others, polls and time.
LEMMA MineKeeps == ASSUME QuotedInv, Mine PROVE QuotedInv'
<1>1. IInv' /\ allowance' \in Nat
    BY ExecutionKeeps DEF Mine
<1>2. pool' \in Seq(Approvals \union Trades)
    BY DEF Mine, QuotedInv, TicketInv
<1>3. ticket' \in Tickets /\ TicketOK(ticket')
    BY BlankOK DEF Mine, QuotedInv, TicketInv
<1> QED
    BY <1>1, <1>2, <1>3 DEF Mine, QuotedInv, TicketInv

\* Trades of others move the curve, not the ticket.
LEMMA OutsideKeeps == ASSUME QuotedInv, Outside PROVE QuotedInv'
<1>1. [Next]_vars
    <2>1. CASE \E t \in Traders \ {User} : Move(t)
        BY <2>1 DEF Next
    <2>2. CASE \E t \in Traders, n \in TransferAmounts : transfer(User, t, n)
        BY <2>2 DEF Next, Move
    <2> QED
        BY <2>1, <2>2 DEF Outside
<1>2. IInv'
    BY <1>1, StepKeepsIInv DEF QuotedInv
<1> QED
    BY <1>2 DEF Outside, QuotedInv, TicketInv, page

\* A poll replaces what the page read, a tick the time: neither touches a ticket.
LEMMA ClockAndPollKeep == ASSUME QuotedInv, Poll \/ Tick PROVE QuotedInv'
<1>1. IInv'
    BY StepKeepsIInv DEF QuotedInv, Poll, Tick
<1>2. CASE Poll
    BY <1>1, <1>2, PageStateType DEF Poll, QuotedInv, TicketInv
<1>3. CASE Tick
    BY <1>1, <1>3 DEF Tick, QuotedInv, TicketInv, page
<1> QED
    BY <1>2, <1>3

\* The curve and the page keep their invariants together.
THEOREM QuotedInvariant == QuotedSpec => []QuotedInv
<1>1. ASSUME QuotedInv, [QuotedNext]_quotedVars PROVE QuotedInv'
    <2>1. pool \in Seq(Approvals \union Trades)
        BY <1>1 DEF QuotedInv, TicketInv
    <2>2. CASE Submit \/ PrepareBuy \/ SimulateBuy \/ CheckFunds \/ PrepareSell \/ ReadHoldings
               \/ Approved \/ SimulateSell
        <3>1. PICK from \in {"ready", "prepare", "simulate", "funds", "holdings", "approving"},
                   to \in {"prepare", "simulate", "funds", "prompt", "holdings", "approve"} :
                Step(from, to) /\ UNCHANGED pool
            BY <2>2 DEF Submit, PrepareBuy, SimulateBuy, CheckFunds, PrepareSell, ReadHoldings,
                        Approved, SimulateSell
        <3> QED
            BY <1>1, <2>1, <3>1, StageKeeps DEF Stages
    <2>3. CASE Discard \/ GiveUp \/ Cancel
        <3>1. pool' = pool \/ (pool # <<>> /\ pool' = Tail(pool))
            BY <2>3 DEF Discard, GiveUp, Cancel
        <3>2. pool' \in Seq(Approvals \union Trades)
            BY <2>1, <3>1
        <3> QED
            BY <1>1, <2>3, <3>2, RestKeeps DEF Discard, GiveUp, Cancel
    <2>4. CASE UNCHANGED quotedVars
        BY <1>1, <2>1, <2>4, RestKeeps DEF quotedVars, page
    <2> QED
        BY <1>1, <2>2, <2>3, <2>4, QuoteKeeps, AnswerKeeps, SendKeeps, MineKeeps, OutsideKeeps,
           ClockAndPollKeep DEF QuotedNext
<1> QED
    BY <1>1, QuotedInitHolds, PTL DEF QuotedSpec

\* A trade executes on the terms the user reviewed or not at all, for every curve,
\* quote, tolerance and everything that happens in between.
THEOREM TradesAsReviewed == QuotedSpec => ReviewedTermsHold
<1> DEFINE x == Head(pool)
           earned == IF x.kind = "buy" THEN tokens'[User] - tokens[User]
                                       ELSE native'[User] - native[User]
           paid == IF x.kind = "buy" THEN native[User] - native'[User]
                                     ELSE tokens[User] - tokens'[User]
           OnTerms == /\ (earned + 1) * BpsScale > x.out * (BpsScale - x.tol)
                      /\ IF x.kind = "buy" THEN paid <= x.amount ELSE paid = x.amount
                      /\ now <= x.deadline
<1>1. ASSUME QuotedInv, [QuotedNext]_quotedVars, pool # <<>>, pool' = Tail(pool),
             soldSupply' # soldSupply
      PROVE  OnTerms
    <2>0. pool \in Seq(Approvals \union Trades) /\ x \in Approvals \union Trades
        BY <1>1 DEF QuotedInv, TicketInv
    <2>1. pool' # pool /\ Len(pool') = Len(pool) - 1 /\ Len(pool) \in Nat
        BY <1>1, <2>0
    <2>2. Executes(x) \/ Reverts(x)
        <3>1. ~ UNCHANGED vars
            BY <1>1 DEF vars, books
        <3>2. Mine \/ Cancel
            BY <1>1, <2>1, <3>1
            DEF QuotedNext, quotedVars, QuoteBuyByBudget, QuoteSellAmount, Asked, Answer,
                Discard, Submit, PrepareBuy, SimulateBuy, CheckFunds, PrepareSell,
                ReadHoldings, Approve, Approved, SimulateSell, Sign, Step, GiveUp, Outside,
                Poll, Tick
        <3> QED
            BY <3>1, <3>2 DEF Mine, Cancel
    <2>3. /\ User \in Accounts /\ User # Curve /\ User # FeeManager /\ User # GraduationManager
          /\ tokens \in [Accounts -> Nat] /\ native \in [Accounts -> Nat]
        BY <1>1, AccountFacts, AccountsDistinct DEF QuotedInv, IInv, TypeOK
    <2> HIDE DEF x
    <2>4. CASE x.kind = "buy" /\ BuyPasses(x) /\ buy(User, x.amount, x.min)
        <3> DEFINE q == QuoteBuy(soldSupply, activeReserve, x.amount)
        <3>1. x \in Trades /\ x.amount \in Nat
            BY <2>0, <2>4 DEF Approvals, Trades
        <3>2. ~graduated /\ now <= x.deadline
            BY <2>4 DEF BuyPasses
        <3>3. /\ q.accepted \in Nat /\ q.tokensOut \in Nat /\ q.accepted <= x.amount
            <4>1. q.accepted \in Nat /\ q.tokensOut \in Nat
                  /\ q.refund \in Nat /\ q.refund = x.amount - q.accepted
                BY <1>1, <3>1, <3>2, OpenCurveFacts, BuyQuoteSound DEF QuotedInv
            <4> HIDE DEF q
            <4> QED
                BY <3>1, <4>1
        <3>4. q.tokensOut >= x.min /\ (BuyBelowEndpoint(User, q) \/ BuyToGraduation(User, q))
            BY <2>4 DEF buy
        <3> HIDE DEF q
        <3>5. /\ tokens'[User] = tokens[User] + q.tokensOut
              /\ native'[User] = native[User] - q.accepted
            BY <2>3, <3>4 DEF BuyBelowEndpoint, BuyToGraduation
        <3>6. tokens'[User] - tokens[User] = q.tokensOut
              /\ native[User] - native'[User] = q.accepted
            BY <2>3, <3>3, <3>5
        <3>7. (q.tokensOut + 1) * BpsScale > x.out * (BpsScale - x.tol)
            BY <3>1, <3>3, <3>4, MinOutputBound DEF Trades
        <3> QED
            BY <2>4, <3>2, <3>3, <3>6, <3>7
    <2>5. CASE x.kind = "sell" /\ SellPasses(x) /\ sell(User, x.amount, x.min)
        <3> DEFINE q == QuoteSell(soldSupply, activeReserve, x.amount)
        <3>1. x \in Trades /\ x.amount \in Nat
            BY <2>0, <2>5 DEF Approvals, Trades
        <3>2. ~graduated /\ now <= x.deadline
            BY <2>5 DEF SellPasses
        <3>3. q.netOut \in Nat
            BY <1>1, <2>5, <3>1, <3>2, OpenCurveFacts, SellQuoteSound
            DEF QuotedInv, SellPasses, SellQuoteOK
        <3>4. /\ q.netOut >= x.min
              /\ tokens' = [tokens EXCEPT ![User] = @ - x.amount, ![Curve] = @ + x.amount]
              /\ native' = [native EXCEPT ![Curve] = @ - q.grossOut,
                                          ![FeeManager] = @ + q.fee,
                                          ![User] = @ + q.netOut]
            BY <2>5 DEF sell
        <3> HIDE DEF q
        <3>5. /\ tokens'[User] = tokens[User] - x.amount
              /\ native'[User] = native[User] + q.netOut
            BY <2>3, <3>4
        <3>6. native'[User] - native[User] = q.netOut
              /\ tokens[User] - tokens'[User] = x.amount
            BY <2>3, <3>1, <3>3, <3>5
        <3>7. (q.netOut + 1) * BpsScale > x.out * (BpsScale - x.tol)
            BY <3>1, <3>3, <3>4, MinOutputBound DEF Trades
        <3> QED
            BY <2>5, <3>2, <3>6, <3>7
    <2>6. ~ UNCHANGED vars
        BY <1>1 DEF vars, books
    <2> HIDE DEF OnTerms
    <2> QED
        BY <2>2, <2>4, <2>5, <2>6 DEF Executes, Reverts
<1>2. QuotedInv /\ [QuotedNext]_quotedVars =>
        (pool # <<>> /\ pool' = Tail(pool) /\ soldSupply' # soldSupply => OnTerms)
    <2> HIDE DEF OnTerms
    <2> QED
        BY <1>1
<1> QED
    BY <1>2, QuotedInvariant, PTL DEF QuotedSpec, ReviewedTermsHold
=============================================================================
