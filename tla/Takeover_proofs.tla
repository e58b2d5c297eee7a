--------------------------- MODULE Takeover_proofs ---------------------------
(***************************************************************************)
(* What holds of FeeManager, and of the takeover registry on top of it,    *)
(* for every set of accounts and tokens, every split of the fees, every    *)
(* delay and window.                                                       *)
(*                                                                         *)
(*   1. Laws of finite sums.                                               *)
(*   2. The fee manager: types, Backed, CTOHoldsTheRoute and the ages of   *)
(*      the treasury proposal are proved together, since that a claim      *)
(*      leaves a natural number in `balance' needs Backed, and Backed      *)
(*      needs the types; then what a step may never do.                    *)
(*   3. The cutoff of the creator's curve fees.                            *)
(*   4. The registry: it uses the fee manager as its specification allows, *)
(*      at most one proposal of a token can take effect, and a takeover    *)
(*      happens only on the agreed terms.                                  *)
(*   5. The cutoff of the creator's LP fees.                               *)
(*   6. The page: what it shows and offers is the registry's past.         *)
(***************************************************************************)
EXTENDS CTOPanel, FiniteSetTheorems, WellFoundedInduction, TLAPS

-----------------------------------------------------------------------------
(* 1. Sums over finite sets.  SumFunctionOnSet folds the values with a     *)
(* recursive function; that it exists, and what it returns, follows by     *)
(* looking at the smallest set for which it would not.                     *)

\* Of numbers, one is the least: with it a claim about every number, or every finite
\* set, is proved of a smallest counterexample.
LEMMA LeastNat ==
    ASSUME NEW T \in SUBSET Nat, T # {}
    PROVE  \E n \in T : \A m \in T : n <= m
<1>1. IsWellFoundedOn(OpToRel(<,Nat), Nat)
    BY NatLessThanWellFounded
<1>2. PICK x \in T : \A y \in T : ~ (<<y, x>> \in OpToRel(<,Nat))
    BY <1>1, WFMin
<1>3. \A y \in T : ~(y < x)
    BY <1>2 DEF OpToRel
<1> QED BY <1>3

\* The element a fold takes first, and what it makes of it: the fold of the community
\* modules, written as a function on the subsets of S.
AnyOf(s) == CHOOSE x \in s : TRUE

SumStep(f, g, s) == IF s = {} THEN 0 ELSE f[AnyOf(s)] + g[s \ {AnyOf(s)}]

SumFn(f, S) == CHOOSE g : g = [s \in SUBSET S |-> SumStep(f, g, s)]

\* The community modules' sum is this function's value.
LEMMA SumIsSumFn == ASSUME NEW f, NEW S PROVE SumFunctionOnSet(f,S) = SumFn(f,S)[S]
    BY DEF SumFunctionOnSet, FoldFunctionOnSet, MapThenFoldSet, SumFn, SumStep, AnyOf

\* What CHOOSE takes from a set is in it.
LEMMA AnyOfIn == ASSUME NEW s, s # {} PROVE AnyOf(s) \in s
    BY DEF AnyOf

\* Without the element taken first, a set is one element smaller.
LEMMA Smaller ==
    ASSUME NEW S, IsFiniteSet(S), NEW s \in SUBSET S
    PROVE  /\ IsFiniteSet(s) /\ Cardinality(s) \in Nat /\ Cardinality(s) <= Cardinality(S)
           /\ s # {} => /\ s \ {AnyOf(s)} \in SUBSET S
                        /\ Cardinality(s \ {AnyOf(s)}) = Cardinality(s) - 1
                        /\ Cardinality(s) > 0
           /\ Cardinality(s) = 0 => s = {}
<1>1. IsFiniteSet(s) /\ Cardinality(s) <= Cardinality(S)
    BY FS_Subset
<1>2. Cardinality(s) \in Nat
    BY <1>1, FS_CardinalityType
<1>3. Cardinality(s) = 0 => s = {}
    BY <1>1, FS_EmptySet
<1>4. ASSUME s # {} PROVE Cardinality(s \ {AnyOf(s)}) = Cardinality(s) - 1 /\ Cardinality(s) # 0
    BY <1>1, <1>4, AnyOfIn, FS_RemoveElement, FS_EmptySet
<1> QED BY <1>1, <1>2, <1>3, <1>4

\* The recursive function exists: the one for sets of n elements extends to sets of
\* n + 1 elements.
LEMMA SumFnRec ==
    ASSUME NEW f, NEW S, IsFiniteSet(S)
    PROVE  \A s \in SUBSET S : SumFn(f, S)[s] = SumStep(f, SumFn(f, S), s)
<1> DEFINE Upto(n) == {s \in SUBSET S : Cardinality(s) <= n}
           Has(n) == \E g : g = [s \in Upto(n) |-> SumStep(f, g, s)]
           Bad == {n \in Nat : ~Has(n)}
<1>1. Has(0)
    <2> DEFINE g0 == [s \in Upto(0) |-> 0]
    <2>1. ASSUME NEW s \in Upto(0) PROVE s = {}
        <3>1. s \in SUBSET S /\ Cardinality(s) <= 0
            OBVIOUS
        <3>2. Cardinality(s) \in Nat
            BY <3>1, Smaller
        <3>3. Cardinality(s) = 0
            BY <3>1, <3>2
        <3> QED BY <3>1, <3>3, Smaller
    <2>2. g0 = [s \in Upto(0) |-> SumStep(f, g0, s)]
        BY <2>1 DEF SumStep
    <2> QED BY <2>2
<1>2. ASSUME NEW n \in Nat, Has(n) PROVE Has(n+1)
    <2>1. PICK g : g = [s \in Upto(n) |-> SumStep(f, g, s)]
        BY <1>2
    <2> DEFINE h == [s \in Upto(n+1) |-> SumStep(f, g, s)]
    <2>2. \A t \in Upto(n) : t \in Upto(n+1) /\ h[t] = g[t]
        <3> SUFFICES ASSUME NEW t \in Upto(n) PROVE t \in Upto(n+1) /\ h[t] = g[t]
            OBVIOUS
        <3>1. t \in Upto(n+1)
            <4>1. t \in SUBSET S /\ Cardinality(t) <= n
                OBVIOUS
            <4>2. Cardinality(t) \in Nat
                BY <4>1, Smaller
            <4> QED BY <4>1, <4>2
        <3>2. g[t] = SumStep(f, g, t)
            BY <2>1
        <3> QED BY <3>1, <3>2
    <2>3. ASSUME NEW s \in Upto(n+1) PROVE SumStep(f, g, s) = SumStep(f, h, s)
        <3>1. CASE s = {}
            BY <3>1 DEF SumStep
        <3>2. CASE s # {}
            <4>1. s \ {AnyOf(s)} \in Upto(n)
                BY <3>2, Smaller
            <4>2. h[s \ {AnyOf(s)}] = g[s \ {AnyOf(s)}]
                BY <4>1, <2>2
            <4> HIDE DEF h
            <4> QED BY <4>2 DEF SumStep
        <3> QED BY <3>1, <3>2
    <2>4. h = [s \in Upto(n+1) |-> SumStep(f, h, s)]
        BY <2>3
    <2> QED BY <2>4
<1>3. Has(Cardinality(S))
    <2>0. Cardinality(S) \in Nat
        BY FS_CardinalityType
    <2> SUFFICES Bad = {}
        BY <2>0
    <2> SUFFICES ASSUME Bad # {} PROVE FALSE
        OBVIOUS
    <2>1. PICK n \in Bad : \A m \in Bad : n <= m
        <3> HIDE DEF Has
        <3>1. Bad \in SUBSET Nat
            OBVIOUS
        <3> HIDE DEF Bad
        <3> QED BY <3>1, LeastNat
    <2>2. n # 0 /\ n - 1 \in Nat /\ n - 1 \notin Bad
        <3> HIDE DEF Has
        <3> QED BY <1>1, <2>1
    <2>3. Has(n - 1)
        <3> HIDE DEF Has
        <3> QED BY <2>2
    <2>4. Has((n - 1) + 1)
        <3> HIDE DEF Has
        <3> QED BY <2>2, <2>3, <1>2
    <2> HIDE DEF Has
    <2>5. (n-1)+1 = n
        BY <2>1
    <2> QED BY <2>1, <2>4, <2>5
<1>4. Upto(Cardinality(S)) = SUBSET S
    BY Smaller
<1>5. \E g : g = [s \in SUBSET S |-> SumStep(f, g, s)]
    BY <1>3, <1>4
<1> DEFINE G == SumFn(f, S)
<1>6. G = [s \in SUBSET S |-> SumStep(f, G, s)]
    BY <1>5 DEF SumFn
<1> HIDE DEF G
<1>7. \A s \in SUBSET S : G[s] = SumStep(f, G, s)
    BY <1>6
<1> QED BY <1>7 DEF G

\* Its values: zero, and one element more.
LEMMA SumAt ==
    ASSUME NEW f, NEW S, IsFiniteSet(S)
    PROVE  /\ SumFn(f, S)[{}] = 0
           /\ \A s \in SUBSET S :
                s # {} => SumFn(f, S)[s] = f[AnyOf(s)] + SumFn(f, S)[s \ {AnyOf(s)}]
<1> DEFINE g == SumFn(f, S)
<1>2. \A s \in SUBSET S : g[s] = SumStep(f, g, s)
    BY SumFnRec
<1> HIDE DEF g
<1>3. /\ g[{}] = 0
      /\ \A s \in SUBSET S : s # {} => g[s] = f[AnyOf(s)] + g[s \ {AnyOf(s)}]
    BY <1>2 DEF SumStep
<1> QED BY <1>3 DEF g

\* A sum whose terms differ at r alone differs by what that term does.
LEMMA SumDiffers ==
    ASSUME NEW S, IsFiniteSet(S), NEW f, NEW h, NEW r,
           \A y \in S : f[y] \in Int /\ h[y] \in Int,
           \A y \in S \ {r} : h[y] = f[y]
    PROVE  /\ SumFunctionOnSet(f, S) \in Int
           /\ SumFunctionOnSet(h, S) =
                SumFunctionOnSet(f, S) + (IF r \in S THEN h[r] - f[r] ELSE 0)
<1> DEFINE F == SumFn(f, S)
           H == SumFn(h, S)
           Good(s) == F[s] \in Int /\ H[s] = F[s] + (IF r \in s THEN h[r] - f[r] ELSE 0)
           Bad == {n \in Nat : \E s \in SUBSET S : Cardinality(s) = n /\ ~Good(s)}
<1>1. ASSUME Bad # {} PROVE FALSE
    <2>1. PICK n \in Bad : \A m \in Bad : n <= m
        <3> HIDE DEF Good
        <3>1. Bad \in SUBSET Nat
            OBVIOUS
        <3> HIDE DEF Bad
        <3> QED BY <3>1, <1>1, LeastNat
    <2>2. PICK s \in SUBSET S : Cardinality(s) = n /\ ~Good(s)
        BY <2>1
    <2>3. s # {}
        <3> SUFFICES ASSUME s = {} PROVE FALSE
            OBVIOUS
        <3>1. F[{}] = 0 /\ H[{}] = 0
            BY SumAt
        <3> QED BY <2>2, <3>1
    <2> DEFINE x == AnyOf(s)
               t == s \ {x}
    <2>4. x \in s /\ x \in S
        BY <2>3, AnyOfIn
    <2>5. t \in SUBSET S /\ Cardinality(t) = n - 1 /\ n - 1 \in Nat
        BY <2>2, <2>3, Smaller
    <2>6. Good(t)
        <3> HIDE DEF Good, t
        <3>0. n \in Nat
            OBVIOUS
        <3>1. n - 1 \notin Bad
            <4> HIDE DEF Bad
            <4> QED BY <2>1, <2>5, <3>0
        <3> QED BY <2>5, <3>1
    <2>7. F[s] = f[x] + F[t] /\ H[s] = h[x] + H[t]
        BY <2>3, SumAt
    <2> HIDE DEF F, H
    <2>8. f[x] \in Int /\ h[x] \in Int /\ (x # r => h[x] = f[x])
        BY <2>4
    <2>9. r \in s <=> r \in t \/ r = x
        BY <2>4
    <2>10. r \notin t \/ r # x
        OBVIOUS
    <2>11. CASE r = x
        <3>1. H[t] = F[t] /\ F[t] \in Int /\ r \in s
            BY <2>6, <2>9, <2>10, <2>11
        <3>2. Good(s)
            <4> HIDE DEF x, t
            <4> QED BY <3>1, <2>7, <2>8, <2>11
        <3> QED BY <3>2, <2>2
    <2>12. CASE r # x
        <3>2. Good(s)
            <4>1. h[x] = f[x] /\ (r \in s <=> r \in t)
                BY <2>8, <2>9, <2>12
            <4>2. r \in t => r \in S /\ f[r] \in Int /\ h[r] \in Int
                BY <2>5
            <4> HIDE DEF x, t
            <4>3. F[s] \in Int
                BY <2>6, <2>7, <2>8
            <4>4. H[s] = F[s] + (IF r \in s THEN h[r] - f[r] ELSE 0)
                BY <4>1, <4>2, <2>6, <2>7, <2>8
            <4> QED BY <4>3, <4>4
        <3> QED BY <3>2, <2>2
    <2> QED BY <2>11, <2>12
<1>2. Good(S)
    <2> HIDE DEF Good
    <2>1. Cardinality(S) \in Nat
        BY FS_CardinalityType
    <2> QED BY <1>1, <2>1
<1> QED BY <1>2, SumIsSumFn

\* The sum of a book in which one entry is set.
LEMMA SumUpdate ==
    ASSUME NEW D, NEW f \in [D -> Nat], NEW S \in SUBSET D, IsFiniteSet(S),
           NEW r \in D, NEW v \in Nat
    PROVE  /\ SumFunctionOnSet(f, S) \in Int
           /\ SumFunctionOnSet([f EXCEPT ![r] = v], S) =
                SumFunctionOnSet(f, S) + (IF r \in S THEN v - f[r] ELSE 0)
<1> DEFINE h == [f EXCEPT ![r] = v]
<1>1. \A y \in S : f[y] \in Int /\ h[y] \in Int
    OBVIOUS
<1>2. (\A y \in S \ {r} : h[y] = f[y]) /\ h[r] = v
    OBVIOUS
<1> HIDE DEF h
<1>3. /\ SumFunctionOnSet(f, S) \in Int
      /\ SumFunctionOnSet(h, S) = SumFunctionOnSet(f, S) + (IF r \in S THEN h[r] - f[r] ELSE 0)
    BY <1>1, <1>2, SumDiffers
<1>4. SumFunctionOnSet(h, S) = SumFunctionOnSet(f, S) + (IF r \in S THEN v - f[r] ELSE 0)
    BY <1>2, <1>3
<1> QED
    BY <1>3, <1>4 DEF h

\* A sum of integers is one.
LEMMA SumType ==
    ASSUME NEW S, IsFiniteSet(S), NEW f, \A y \in S : f[y] \in Int
    PROVE  SumFunctionOnSet(f, S) \in Int
<1>1. \A y \in S \ {0} : f[y] = f[y]
    OBVIOUS
<1> QED
    BY <1>1, SumDiffers

\* The sum of an empty book.
LEMMA SumOfNothing ==
    ASSUME NEW S, IsFiniteSet(S), NEW f, \A y \in S : f[y] = 0
    PROVE  SumFunctionOnSet(f, S) = 0
<1> DEFINE F == SumFn(f, S)
           Bad == {n \in Nat : \E s \in SUBSET S : Cardinality(s) = n /\ F[s] # 0}
<1>1. ASSUME Bad # {} PROVE FALSE
    <2>0. Bad \in SUBSET Nat
        OBVIOUS
    <2>1. PICK n \in Bad : \A m \in Bad : n <= m
        <3> HIDE DEF Bad
        <3> QED BY <1>1, <2>0, LeastNat
    <2>2. PICK s \in SUBSET S : Cardinality(s) = n /\ F[s] # 0
        BY <2>1
    <2>3. n \in Nat /\ s # {}
        <3>1. F[{}] = 0
            BY SumAt
        <3> QED
            BY <2>2, <3>1
    <2> DEFINE t == s \ {AnyOf(s)}
    <2>4. t \in SUBSET S /\ Cardinality(t) = n - 1 /\ n - 1 \in Nat /\ AnyOf(s) \in S
        BY <2>2, <2>3, Smaller, AnyOfIn
    <2>5. F[s] = f[AnyOf(s)] + F[t]
        <3> HIDE DEF Bad
        <3>1. s \in SUBSET S /\ s # {}
            BY <2>3
        <3> QED BY <3>1, SumAt
    <2>6. n - 1 \notin Bad
        <3> HIDE DEF Bad
        <3> QED BY <2>1, <2>3, <2>4
    <2>7. F[t] = 0
        BY <2>4, <2>6
    <2> QED
        BY <2>2, <2>4, <2>5, <2>7
<1>2. F[S] = 0
    <2>1. Cardinality(S) \in Nat
        BY FS_CardinalityType
    <2> QED BY <1>1, <2>1
<1> QED
    BY <1>2, SumIsSumFn

-----------------------------------------------------------------------------
(* 2. The fee manager *)

\* A standing treasury proposal is the current owner's, and its acceptance time
\* is its age plus the delay: proposeTreasury sets both together, and
\* _transferOwnership clears them when the owner changes.
ProposalIsCurrent ==
    pendingTreasury # None =>
      /\ proposedBy = owner
      /\ pendingTreasuryAcceptAfter = proposedAt + TreasuryRotationDelay

\* A token the factory has not registered has no recipient, so registerToken can
\* not overwrite the route of a token that was taken over.
UnregisteredIsUnrouted ==
    \A t \in Tokens :
      creatorOf[t] = None => /\ creatorPayoutOf[t] = None
                             /\ pendingCreatorPayoutOf[t] = None
                             /\ ~ctoActive[t]

RouteInv == CTOHoldsTheRoute /\ UnregisteredIsUnrouted

IInv == TypeOK /\ Backed /\ RouteInv /\ ProposalIsCurrent

USE FeeManagerConstants, RegistryConstants DEF bindings, arrivals, recordTreasury

LEMMA InitHolds == Init => IInv
<1> SUFFICES ASSUME Init PROVE IInv
    OBVIOUS
<1>1. TypeOK
    BY DEF Init, TypeOK, Recipients
<1>2. Backed
    BY DEF Init, Backed, totalLiabilities
<1>3. RouteInv
    BY DEF Init, RouteInv, CTOHoldsTheRoute, UnregisteredIsUnrouted
<1>4. ProposalIsCurrent
    BY DEF Init, ProposalIsCurrent
<1> QED
    BY <1>1, <1>2, <1>3, <1>4 DEF IInv

-----------------------------------------------------------------------------
(* Groups of variables an action leaves alone. *)

LEMMA MoneyUnchanged ==
    ASSUME IInv, UNCHANGED money
    PROVE  Backed'
BY DEF IInv, Backed, totalLiabilities, money, creatorBooks, communityBooks, traderBooks

LEMMA RouteUnchanged ==
    ASSUME IInv, UNCHANGED <<payouts, cto>>
    PROVE  RouteInv'
BY DEF IInv, RouteInv, CTOHoldsTheRoute, UnregisteredIsUnrouted, payouts, cto

LEMMA RotationUnchanged ==
    ASSUME IInv, UNCHANGED <<owner, rotation>>
    PROVE  ProposalIsCurrent'
BY DEF IInv, ProposalIsCurrent, rotation

LEMMA TreasuryCleared ==
    ASSUME clearPendingTreasury
    PROVE  ProposalIsCurrent'
BY DEF clearPendingTreasury, ProposalIsCurrent

LEMMA StutterKeeps == ASSUME IInv, UNCHANGED feeVars PROVE IInv'
<1>1. TypeOK'
    BY DEF IInv, TypeOK, feeVars, ownership, rotation, payouts, money, creatorBooks,
           communityBooks, traderBooks, cto
<1> QED
    BY <1>1, MoneyUnchanged, RouteUnchanged, RotationUnchanged
    DEF IInv, feeVars, ownership

-----------------------------------------------------------------------------
(* Setup and fees in *)

LEMMA RegisterTokenKeeps ==
    ASSUME IInv, NEW t \in Tokens, NEW u \in Users, registerToken(t, u)
    PROVE  IInv'
<1> USE DEF registerToken
<1>1. TypeOK'
    BY DEF IInv, TypeOK, ownership, rotation, money, creatorBooks, communityBooks,
           traderBooks, cto, Recipients
<1>2. RouteInv'
    BY DEF IInv, TypeOK, RouteInv, CTOHoldsTheRoute, UnregisteredIsUnrouted, cto, Recipients
<1> QED
    BY <1>1, <1>2, MoneyUnchanged, RotationUnchanged DEF IInv, ownership

LEMMA BindKeeps ==
    ASSUME IInv, setFactoryOnce \/ bindEcosystemVaultsOnce PROVE IInv'
<1> USE DEF setFactoryOnce, bindEcosystemVaultsOnce
<1>1. TypeOK'
    BY DEF IInv, TypeOK, ownership, rotation, payouts, money, creatorBooks,
           communityBooks, traderBooks, cto
<1> QED
    BY <1>1, MoneyUnchanged, RouteUnchanged, RotationUnchanged DEF IInv, ownership

LEMMA DepositKeeps ==
    ASSUME IInv, NEW t \in Tokens, NEW fee \in FeeSplits, depositFees(t, fee)
    PROVE  IInv'
<1> USE DEF depositFees
<1>0. fee \in SplitType
    OBVIOUS
<1>1. TypeOK'
    BY <1>0 DEF IInv, TypeOK, ownership, rotation, payouts, cto, SplitType
<1>2. Backed'
    BY <1>0 DEF IInv, TypeOK, Backed, totalLiabilities, SplitType
<1> QED
    BY <1>1, <1>2, RouteUnchanged, RotationUnchanged DEF IInv, ownership

LEMMA ForceNativeKeeps ==
    ASSUME IInv, NEW n \in 1 .. MaxStray, ForceNative(n) PROVE IInv'
<1> USE DEF ForceNative, creatorBooks, communityBooks, traderBooks
<1>0. n \in Nat
    OBVIOUS
<1>1. TypeOK'
    BY <1>0 DEF IInv, TypeOK, ownership, rotation, payouts, cto
<1>2. Backed'
    BY <1>0 DEF IInv, TypeOK, Backed, totalLiabilities
<1> QED
    BY <1>1, <1>2, RouteUnchanged, RotationUnchanged DEF IInv, ownership

-----------------------------------------------------------------------------
(* Creator payouts *)

LEMMA ProposePayoutKeeps ==
    ASSUME IInv, NEW t \in Tokens, NEW r \in Recipients, proposeCreatorPayout(t, r)
    PROVE  IInv'
<1> USE DEF proposeCreatorPayout
<1>1. TypeOK'
    BY DEF IInv, TypeOK, ownership, rotation, money, creatorBooks, communityBooks,
           traderBooks, cto
<1>2. RouteInv'
    BY DEF IInv, TypeOK, RouteInv, CTOHoldsTheRoute, UnregisteredIsUnrouted, cto
<1> QED
    BY <1>1, <1>2, MoneyUnchanged, RotationUnchanged DEF IInv, ownership

LEMMA AcceptPayoutKeeps ==
    ASSUME IInv, NEW t \in Tokens, acceptCreatorPayout(t) PROVE IInv'
<1> USE DEF acceptCreatorPayout, clearPendingPayout
<1>1. TypeOK'
    BY DEF IInv, TypeOK, ownership, rotation, money, creatorBooks, communityBooks,
           traderBooks, cto, Recipients
<1>2. RouteInv'
    BY DEF IInv, TypeOK, RouteInv, CTOHoldsTheRoute, UnregisteredIsUnrouted, cto,
           Recipients
<1> QED
    BY <1>1, <1>2, MoneyUnchanged, RotationUnchanged DEF IInv, ownership

LEMMA CancelPayoutKeeps ==
    ASSUME IInv, NEW t \in Tokens, cancelCreatorPayout(t) PROVE IInv'
<1> USE DEF cancelCreatorPayout, clearPendingPayout
<1>1. TypeOK'
    BY DEF IInv, TypeOK, ownership, rotation, money, creatorBooks, communityBooks,
           traderBooks, cto
<1>2. RouteInv'
    BY DEF IInv, TypeOK, RouteInv, CTOHoldsTheRoute, UnregisteredIsUnrouted, cto
<1> QED
    BY <1>1, <1>2, MoneyUnchanged, RotationUnchanged DEF IInv, ownership

-----------------------------------------------------------------------------
(* Treasury rotation and ownership *)

LEMMA ProposeTreasuryKeeps ==
    ASSUME IInv, NEW tr \in Treasuries, proposeTreasury(tr) PROVE IInv'
<1> USE DEF proposeTreasury
<1>1. TypeOK'
    BY DEF IInv, TypeOK, ownership, payouts, money, creatorBooks, communityBooks,
           traderBooks, cto
<1>2. ProposalIsCurrent'
    BY DEF ProposalIsCurrent, ownership
<1> QED
    BY <1>1, <1>2, MoneyUnchanged, RouteUnchanged DEF IInv

LEMMA AcceptTreasuryKeeps == ASSUME IInv, acceptTreasury PROVE IInv'
<1> USE DEF acceptTreasury
<1>1. TypeOK'
    BY DEF IInv, TypeOK, clearPendingTreasury, ownership, payouts, money, creatorBooks,
           communityBooks, traderBooks, cto
<1> QED
    BY <1>1, TreasuryCleared, MoneyUnchanged, RouteUnchanged DEF IInv

LEMMA CancelTreasuryKeeps == ASSUME IInv, cancelTreasuryProposal PROVE IInv'
<1> USE DEF cancelTreasuryProposal
<1>1. TypeOK'
    BY DEF IInv, TypeOK, clearPendingTreasury, ownership, payouts, money, creatorBooks,
           communityBooks, traderBooks, cto
<1> QED
    BY <1>1, TreasuryCleared, MoneyUnchanged, RouteUnchanged DEF IInv

LEMMA OwnerChangeKeeps ==
    ASSUME IInv, NEW o \in Owners \union {None}, transferOwnershipTo(o) PROVE IInv'
<1> USE DEF transferOwnershipTo
<1>1. TypeOK'
    BY DEF IInv, TypeOK, clearPendingTreasury, payouts, money, creatorBooks,
           communityBooks, traderBooks, cto
<1> QED
    BY <1>1, TreasuryCleared, MoneyUnchanged, RouteUnchanged DEF IInv

LEMMA TransferOwnershipKeeps ==
    ASSUME IInv, NEW o \in Owners \union {None}, transferOwnership(o) PROVE IInv'
<1> USE DEF transferOwnership
<1>1. TypeOK'
    BY DEF IInv, TypeOK, rotation, payouts, money, creatorBooks, communityBooks,
           traderBooks, cto
<1> QED
    BY <1>1, MoneyUnchanged, RouteUnchanged, RotationUnchanged DEF IInv

-----------------------------------------------------------------------------
(* Claims: the amount leaves a book and the balance together. *)

LEMMA ClaimProtocolKeeps == ASSUME IInv, claimProtocolFees PROVE IInv'
<1> USE DEF claimProtocolFees, creatorBooks, communityBooks, traderBooks
<1>1. TypeOK'
    BY DEF IInv, TypeOK, Backed, totalLiabilities, ownership, rotation, payouts, cto
<1>2. Backed'
    BY DEF IInv, TypeOK, Backed, totalLiabilities
<1> QED
    BY <1>1, <1>2, RouteUnchanged, RotationUnchanged DEF IInv, ownership

LEMMA ClaimCreatorKeeps ==
    ASSUME IInv, NEW t \in Tokens, claimCreatorFees(t) PROVE IInv'
<1> USE DEF claimCreatorFees, payCreator, communityBooks, traderBooks
<1>1. creatorFeesAccrued[t] \in Nat /\ creatorPaid \in [Tokens -> [Recipients -> Nat]]
    BY DEF IInv, TypeOK
<1>2. TypeOK'
    <2>1. creatorPaid' \in [Tokens -> [Recipients -> Nat]]
        <3>1. creatorPayoutOf[t] \in Recipients => creatorPaid[t][creatorPayoutOf[t]] \in Nat
            BY <1>1
        <3>2. CASE creatorPayoutOf[t] \in Recipients
            BY <1>1, <3>1, <3>2
        <3>3. CASE creatorPayoutOf[t] \notin Recipients
            BY <1>1, <3>3
        <3> QED
            BY <3>2, <3>3
    <2>2. balance' \in Nat
        BY <1>1 DEF IInv, TypeOK, Backed, totalLiabilities
    <2> QED
        BY <1>1, <2>1, <2>2 DEF IInv, TypeOK, ownership, rotation, payouts, cto
<1>3. Backed'
    BY <1>1 DEF IInv, TypeOK, Backed, totalLiabilities
<1> QED
    BY <1>2, <1>3, RouteUnchanged, RotationUnchanged DEF IInv, ownership

LEMMA ClaimCheckpointedKeeps ==
    ASSUME IInv, NEW t \in Tokens, NEW r \in Recipients,
           claimCheckpointedCreatorFees(t, r)
    PROVE  IInv'
<1> USE DEF claimCheckpointedCreatorFees, payCreator, communityBooks, traderBooks
<1>1. checkpointedCreatorFees[t][r] \in Nat /\ creatorPaid[t][r] \in Nat
    BY DEF IInv, TypeOK
<1>2. TypeOK'
    <2>1. creatorPaid' \in [Tokens -> [Recipients -> Nat]]
        BY <1>1 DEF IInv, TypeOK
    <2>2. checkpointedCreatorFees' \in [Tokens -> [Recipients -> Nat]]
        BY DEF IInv, TypeOK
    <2>3. balance' \in Nat
        BY <1>1 DEF IInv, TypeOK, Backed, totalLiabilities
    <2> QED
        BY <1>1, <2>1, <2>2, <2>3 DEF IInv, TypeOK, ownership, rotation, payouts, cto
<1>3. Backed'
    BY <1>1 DEF IInv, TypeOK, Backed, totalLiabilities
<1> QED
    BY <1>2, <1>3, RouteUnchanged, RotationUnchanged DEF IInv, ownership

LEMMA ClaimReturnsKeeps == ASSUME IInv, claimReturns PROVE IInv'
<1> USE DEF claimReturns
<1>1. TypeOK'
    BY DEF IInv, TypeOK, ownership, rotation, payouts, money, creatorBooks,
           communityBooks, traderBooks, cto
<1> QED
    BY <1>1, MoneyUnchanged, RouteUnchanged, RotationUnchanged DEF IInv, ownership

LEMMA FundCommunityKeeps ==
    ASSUME IInv, NEW t \in Tokens, fundCommunityVault(t) PROVE IInv'
<1> USE DEF fundCommunityVault, creatorBooks, traderBooks
<1>1. communityFeesAccruedByToken[t] \in Nat
    BY DEF IInv, TypeOK
<1>2. TypeOK'
    BY <1>1 DEF IInv, TypeOK, Backed, totalLiabilities, ownership, rotation, payouts, cto
<1>3. Backed'
    BY <1>1 DEF IInv, TypeOK, Backed, totalLiabilities
<1> QED
    BY <1>2, <1>3, RouteUnchanged, RotationUnchanged DEF IInv, ownership

LEMMA FundTraderRewardsKeeps ==
    ASSUME IInv, NEW t \in Tokens, fundTraderRewardsVault(t) PROVE IInv'
<1> USE DEF fundTraderRewardsVault, creatorBooks, communityBooks
<1>1. traderRewardsFeesAccruedByToken[t] \in Nat
    BY DEF IInv, TypeOK
<1>2. TypeOK'
    BY <1>1 DEF IInv, TypeOK, Backed, totalLiabilities, ownership, rotation, payouts, cto
<1>3. Backed'
    BY <1>1 DEF IInv, TypeOK, Backed, totalLiabilities
<1> QED
    BY <1>2, <1>3, RouteUnchanged, RotationUnchanged DEF IInv, ownership

-----------------------------------------------------------------------------
(* The takeover, and the step relation *)

LEMMA ActivateKeeps ==
    ASSUME IInv, NEW t \in Tokens, NEW c \in CTOTreasuries, activateCTO(t, c)
    PROVE  IInv'
<1> USE DEF activateCTO, checkpointCreatorFees, clearPendingPayout
<1>1. TypeOK'
    <2>1. checkpointedCreatorFees' \in [Tokens -> [Recipients -> Nat]]
        BY DEF IInv, TypeOK
    <2>2. ctoActive' \in [Tokens -> BOOLEAN]
        BY Zenon DEF IInv, TypeOK
    <2> QED
        BY <2>1, <2>2
        DEF IInv, TypeOK, ownership, rotation, communityBooks, traderBooks, Recipients
<1>2. Backed'
    BY DEF IInv, Backed, totalLiabilities, communityBooks, traderBooks
<1>3. RouteInv'
    BY DEF IInv, TypeOK, RouteInv, CTOHoldsTheRoute, UnregisteredIsUnrouted, Recipients
<1> QED
    BY <1>1, <1>2, <1>3, RotationUnchanged DEF IInv, ownership

LEMMA TickKeeps == ASSUME IInv, Tick PROVE IInv'
<1> USE DEF Tick
<1>1. TypeOK'
    BY DEF IInv, TypeOK, ownership, rotation, payouts, money, creatorBooks,
           communityBooks, traderBooks, cto
<1> QED
    BY <1>1, MoneyUnchanged, RouteUnchanged, RotationUnchanged DEF IInv, ownership

\* A step of the fee manager that is not the registry's keeps the invariant.
LEMMA FeeStepKeeps == ASSUME IInv, FeeStep PROVE IInv'
<1>1. CASE setFactoryOnce \/ bindEcosystemVaultsOnce
    BY <1>1, BindKeeps
<1>2. CASE \E t \in Tokens :
             \/ \E u \in Users : registerToken(t, u)
             \/ \E fee \in FeeSplits : depositFees(t, fee)
             \/ \E r \in Recipients : proposeCreatorPayout(t, r)
             \/ acceptCreatorPayout(t)
             \/ cancelCreatorPayout(t)
             \/ claimCreatorFees(t)
             \/ \E r \in Recipients : claimCheckpointedCreatorFees(t, r)
             \/ fundCommunityVault(t)
             \/ fundTraderRewardsVault(t)
    BY <1>2, RegisterTokenKeeps, DepositKeeps, ProposePayoutKeeps, AcceptPayoutKeeps,
       CancelPayoutKeeps, ClaimCreatorKeeps, ClaimCheckpointedKeeps, FundCommunityKeeps,
       FundTraderRewardsKeeps
<1>3. CASE \E tr \in Treasuries : proposeTreasury(tr)
    BY <1>3, ProposeTreasuryKeeps
<1>4. CASE acceptTreasury \/ cancelTreasuryProposal
    BY <1>4, AcceptTreasuryKeeps, CancelTreasuryKeeps
<1>5. CASE \E o \in Owners \union {None} : transferOwnership(o)
    BY <1>5, TransferOwnershipKeeps
<1>6. CASE acceptOwnership \/ renounceOwnership
    BY <1>6, OwnerChangeKeeps DEF acceptOwnership, renounceOwnership, IInv, TypeOK
<1>7. CASE claimProtocolFees \/ claimReturns
    BY <1>7, ClaimProtocolKeeps, ClaimReturnsKeeps
<1>8. CASE \E n \in 1 .. MaxStray : ForceNative(n)
    BY <1>8, ForceNativeKeeps
<1> QED
    BY <1>1, <1>2, <1>3, <1>4, <1>5, <1>6, <1>7, <1>8 DEF FeeStep

\* Every step of the fee manager keeps the invariant.
LEMMA NextKeeps == IInv /\ [Next]_feeVars => IInv'
<1> SUFFICES ASSUME IInv, [Next]_feeVars PROVE IInv'
    OBVIOUS
<1>1. CASE FeeStep
    BY <1>1, FeeStepKeeps
<1>2. CASE \E t \in Tokens, c \in CTOTreasuries : activateCTO(t, c)
    BY <1>2, ActivateKeeps
<1>3. CASE Tick
    BY <1>3, TickKeeps
<1>4. CASE UNCHANGED feeVars
    BY <1>4, StutterKeeps
<1> QED
    BY <1>1, <1>2, <1>3, <1>4 DEF Next

\* The inductive invariant holds in every reachable state of the fee manager.
THEOREM FeeManagerInvariant == Spec => []IInv
    BY InitHolds, NextKeeps, PTL DEF Spec

\* Every counter stays a natural number (no subtraction of a claim underflows)
\* and every role stays with an account that can hold it.
THEOREM FeeManagerTypes == Spec => []TypeOK
    BY FeeManagerInvariant, PTL DEF IInv

\* FeeManagerV3 holds its liabilities, and on top exactly what was forced into it,
\* after any number of deposits, claims, fundings and takeovers, also while a
\* claim's recipient runs code.
THEOREM AlwaysBacked == Spec => []Backed
    BY FeeManagerInvariant, PTL DEF IInv

\* After activateCTO the CTO treasury is the payout and no proposal stands.
THEOREM TakeoverHoldsTheRoute == Spec => []CTOHoldsTheRoute
    BY FeeManagerInvariant, PTL DEF IInv, RouteInv

-----------------------------------------------------------------------------
(* What a step may never do *)

\* The treasury changes only in acceptTreasury.
LEMMA OnlyAcceptanceRotates ==
    ASSUME IInv, [Next]_feeVars, treasury' # treasury
    PROVE  acceptTreasury
<1>1. ~ (Tick \/ UNCHANGED feeVars)
    BY DEF Tick, feeVars, rotation
<1>2. ASSUME NEW t \in Tokens, NEW c \in CTOTreasuries PROVE ~activateCTO(t, c)
    BY DEF activateCTO, rotation
<1>3. FeeStep
    BY <1>1, <1>2 DEF Next
<1>4. ASSUME NEW t \in Tokens
      PROVE  /\ \A u \in Users : ~registerToken(t, u)
             /\ \A fee \in FeeSplits : ~depositFees(t, fee)
             /\ \A r \in Recipients : ~proposeCreatorPayout(t, r)
             /\ ~acceptCreatorPayout(t) /\ ~cancelCreatorPayout(t)
             /\ ~claimCreatorFees(t)
             /\ \A r \in Recipients : ~claimCheckpointedCreatorFees(t, r)
             /\ ~fundCommunityVault(t) /\ ~fundTraderRewardsVault(t)
    BY DEF registerToken, depositFees, proposeCreatorPayout, acceptCreatorPayout,
           cancelCreatorPayout, claimCreatorFees, claimCheckpointedCreatorFees,
           fundCommunityVault, fundTraderRewardsVault, rotation
<1>5. /\ ~setFactoryOnce /\ ~bindEcosystemVaultsOnce /\ ~cancelTreasuryProposal /\ ~claimProtocolFees
      /\ ~claimReturns /\ ~acceptOwnership /\ ~renounceOwnership
      /\ \A tr \in Treasuries : ~proposeTreasury(tr)
      /\ \A o \in Owners \union {None} : ~transferOwnership(o)
      /\ \A n \in 1 .. MaxStray : ~ForceNative(n)
    BY DEF setFactoryOnce, bindEcosystemVaultsOnce, cancelTreasuryProposal, claimProtocolFees,
           claimReturns, acceptOwnership, renounceOwnership, transferOwnershipTo,
           proposeTreasury, transferOwnership, ForceNative, rotation
<1> QED
    BY <1>3, <1>4, <1>5 DEF FeeStep

\* A change of the protocol treasury was proposed by the owner in office, has
\* stood for the whole delay, and goes to the account that was proposed.
THEOREM TreasuryRotationWaits == Spec => RotationWaits
<1>1. ASSUME IInv, [Next]_feeVars, treasury' # treasury
      PROVE  /\ treasury' = pendingTreasury
             /\ now >= proposedAt + TreasuryRotationDelay
             /\ proposedBy = owner
    BY <1>1, OnlyAcceptanceRotates DEF acceptTreasury, IInv, ProposalIsCurrent
<1> QED
    BY <1>1, FeeManagerInvariant, PTL DEF Spec, RotationWaits

\* The steps that touch the payouts are the four of the creator payout.
LEMMA FeeStepAndPayouts ==
    ASSUME FeeStep
    PROVE  \/ UNCHANGED payouts
           \/ \E s \in Tokens : \/ \E u \in Users : registerToken(s, u)
                                \/ \E r \in Recipients : proposeCreatorPayout(s, r)
                                \/ acceptCreatorPayout(s)
                                \/ cancelCreatorPayout(s)
<1>1. ASSUME NEW s \in Tokens,
             \/ \E fee \in FeeSplits : depositFees(s, fee)
             \/ claimCreatorFees(s)
             \/ \E r \in Recipients : claimCheckpointedCreatorFees(s, r)
             \/ fundCommunityVault(s)
             \/ fundTraderRewardsVault(s)
      PROVE  UNCHANGED payouts
    BY <1>1 DEF depositFees, claimCreatorFees, claimCheckpointedCreatorFees,
       fundCommunityVault, fundTraderRewardsVault, payouts
<1>2. ASSUME \/ setFactoryOnce \/ bindEcosystemVaultsOnce
             \/ \E tr \in Treasuries : proposeTreasury(tr)
             \/ acceptTreasury \/ cancelTreasuryProposal
             \/ \E o \in Owners \union {None} : transferOwnership(o)
             \/ acceptOwnership \/ renounceOwnership
             \/ claimProtocolFees \/ claimReturns
             \/ \E n \in 1 .. MaxStray : ForceNative(n)
      PROVE  UNCHANGED payouts
    BY <1>2 DEF setFactoryOnce, bindEcosystemVaultsOnce, proposeTreasury, acceptTreasury,
       cancelTreasuryProposal, transferOwnership, acceptOwnership, renounceOwnership,
       transferOwnershipTo, claimProtocolFees, claimReturns, ForceNative, payouts
<1> QED
    BY <1>1, <1>2 DEF FeeStep

\* Takeovers come from the registry only.
LEMMA FeeStepKeepsTakeovers == ASSUME FeeStep PROVE UNCHANGED cto
<1>1. ASSUME NEW s \in Tokens,
             \/ \E u \in Users : registerToken(s, u)
             \/ \E fee \in FeeSplits : depositFees(s, fee)
             \/ \E r \in Recipients : proposeCreatorPayout(s, r)
             \/ acceptCreatorPayout(s) \/ cancelCreatorPayout(s)
             \/ claimCreatorFees(s)
             \/ \E r \in Recipients : claimCheckpointedCreatorFees(s, r)
             \/ fundCommunityVault(s)
             \/ fundTraderRewardsVault(s)
      PROVE  UNCHANGED cto
    BY <1>1 DEF registerToken, depositFees, proposeCreatorPayout, acceptCreatorPayout,
       cancelCreatorPayout, claimCreatorFees, claimCheckpointedCreatorFees,
       fundCommunityVault, fundTraderRewardsVault, cto
<1>2. ASSUME \/ setFactoryOnce \/ bindEcosystemVaultsOnce
             \/ \E tr \in Treasuries : proposeTreasury(tr)
             \/ acceptTreasury \/ cancelTreasuryProposal
             \/ \E o \in Owners \union {None} : transferOwnership(o)
             \/ acceptOwnership \/ renounceOwnership
             \/ claimProtocolFees \/ claimReturns
             \/ \E n \in 1 .. MaxStray : ForceNative(n)
      PROVE  UNCHANGED cto
    BY <1>2 DEF setFactoryOnce, bindEcosystemVaultsOnce, proposeTreasury, acceptTreasury,
       cancelTreasuryProposal, transferOwnership, acceptOwnership, renounceOwnership,
       transferOwnershipTo, claimProtocolFees, claimReturns, ForceNative, cto
<1> QED
    BY <1>1, <1>2 DEF FeeStep

\* No step of the contract undoes a takeover or gives its fees to another account.
THEOREM TakeoverIsFinal == Spec => CTOIsFinal
<1>1. ASSUME IInv, [Next]_feeVars, NEW t \in Tokens, ctoActive[t]
      PROVE  /\ ctoActive'[t]
             /\ ctoTreasuryOf'[t] = ctoTreasuryOf[t]
             /\ creatorPayoutOf'[t] = creatorPayoutOf[t]
    <2> USE DEF IInv, TypeOK, RouteInv, CTOHoldsTheRoute, UnregisteredIsUnrouted, cto,
            payouts
    <2>1. CASE Tick \/ UNCHANGED feeVars
        BY <1>1, <2>1 DEF Tick, feeVars
    <2>2. CASE \E s \in Tokens, c \in CTOTreasuries : activateCTO(s, c)
        BY <1>1, <2>2 DEF activateCTO
    <2>3. CASE FeeStep
        <3>1. CASE UNCHANGED payouts
            BY <1>1, <2>3, <3>1, FeeStepKeepsTakeovers
        <3>2. ASSUME NEW s \in Tokens,
                     \/ \E u \in Users : registerToken(s, u)
                     \/ \E r \in Recipients : proposeCreatorPayout(s, r)
                     \/ acceptCreatorPayout(s)
                     \/ cancelCreatorPayout(s)
              PROVE  creatorPayoutOf'[t] = creatorPayoutOf[t]
            BY <1>1, <3>2 DEF registerToken, proposeCreatorPayout, acceptCreatorPayout,
               cancelCreatorPayout
        <3> QED
            BY <1>1, <2>3, <3>1, <3>2, FeeStepKeepsTakeovers, FeeStepAndPayouts
    <2> QED
        BY <1>1, <2>1, <2>2, <2>3 DEF Next
<1>2. IInv /\ [Next]_feeVars
        => \A t \in Tokens :
             ctoActive[t] => /\ ctoActive'[t]
                             /\ ctoTreasuryOf'[t] = ctoTreasuryOf[t]
                             /\ creatorPayoutOf'[t] = creatorPayoutOf[t]
    BY <1>1
<1> QED
    BY <1>2, FeeManagerInvariant, PTL DEF Spec, CTOIsFinal

-----------------------------------------------------------------------------
(* 3. The cutoff of the creator's curve fees *)

\* What CutoffRespected says of one token.
CutoffOf(t) ==
    LET toUsers == PaidTo(t, Users) + CheckpointedOf(t)
    IN  IF ctoActive[t]
        THEN /\ toUsers = cutoff[t]
             /\ creatorPaid[t][ctoTreasuryOf[t]] + creatorFeesAccrued[t]
                  = creatorIn[t] - cutoff[t]
        ELSE toUsers + creatorFeesAccrued[t] = creatorIn[t]

\* Before its takeover a token pays a user, and nothing is ever kept for a treasury:
\* a treasury can be proposed as payout, but has no way to accept.
PayoutsAreUsers(t) ==
    /\ ctoActive[t] => ctoTreasuryOf[t] \in CTOTreasuries
    /\ ~ctoActive[t] => creatorPayoutOf[t] \in Users \union {None}
    /\ creatorPayoutOf[t] = None => creatorFeesAccrued[t] = 0
    /\ creatorOf[t] # None => creatorPayoutOf[t] # None
    /\ \A c \in CTOTreasuries :
         /\ checkpointedCreatorFees[t][c] = 0
         /\ creatorPaid[t][c] # 0 => ctoActive[t] /\ ctoTreasuryOf[t] = c

FollowsTheRoute(t) == CutoffOf(t) /\ PayoutsAreUsers(t)

CutoffInv == \A t \in Tokens : FollowsTheRoute(t)

\* The sums of the contract range over finitely many accounts.
LEMMA RecipientsFinite == IsFiniteSet(Recipients) /\ IsFiniteSet(Users)
<1>1. IsFiniteSet(Users) /\ IsFiniteSet(CTOTreasuries)
    BY FeeManagerConstants
<1> QED
    BY <1>1, FS_Union DEF Recipients

\* Nothing has been paid or checkpointed yet.
LEMMA CutoffInitHolds == Init => CutoffInv
<1> SUFFICES ASSUME Init, NEW t \in Tokens PROVE FollowsTheRoute(t)
    BY DEF CutoffInv
<1>1. PayoutsAreUsers(t)
    BY DEF Init, PayoutsAreUsers, Recipients
<1>2. /\ DOMAIN checkpointedCreatorFees[t] = Recipients
      /\ \A r \in Recipients : checkpointedCreatorFees[t][r] = 0
      /\ \A r \in Users : creatorPaid[t][r] = 0
    BY DEF Init, Recipients
<1>3. CheckpointedOf(t) = 0
    BY <1>2, RecipientsFinite, SumOfNothing DEF CheckpointedOf, SumFunction
<1>4. PaidTo(t, Users) = 0
    BY <1>2, RecipientsFinite, SumOfNothing DEF PaidTo
<1>5. CutoffOf(t)
    BY <1>3, <1>4 DEF CutoffOf, Init
<1> QED
    BY <1>1, <1>5 DEF FollowsTheRoute

\* What one token's cutoff depends on.
LEMMA TokenUntouched ==
    ASSUME NEW t \in Tokens, FollowsTheRoute(t),
           creatorOf'[t] = creatorOf[t], creatorPayoutOf'[t] = creatorPayoutOf[t],
           creatorFeesAccrued'[t] = creatorFeesAccrued[t],
           checkpointedCreatorFees'[t] = checkpointedCreatorFees[t],
           creatorIn'[t] = creatorIn[t], creatorPaid'[t] = creatorPaid[t],
           ctoActive'[t] = ctoActive[t], ctoTreasuryOf'[t] = ctoTreasuryOf[t],
           cutoff'[t] = cutoff[t]
    PROVE  FollowsTheRoute(t)'
<1>1. PaidTo(t, Users)' = PaidTo(t, Users) /\ CheckpointedOf(t)' = CheckpointedOf(t)
    BY DEF PaidTo, CheckpointedOf
<1>2. CutoffOf(t)'
    BY <1>1 DEF FollowsTheRoute, CutoffOf
<1>3. PayoutsAreUsers(t)'
    BY DEF FollowsTheRoute, PayoutsAreUsers
<1> QED
    BY <1>2, <1>3 DEF FollowsTheRoute

\* A step that touches no route and no creator book.
LEMMA RouteUntouched ==
    ASSUME CutoffInv, UNCHANGED <<creatorOf, creatorPayoutOf, creatorBooks, cto>>
    PROVE  CutoffInv'
<1> SUFFICES ASSUME NEW t \in Tokens PROVE FollowsTheRoute(t)'
    BY DEF CutoffInv
<1> QED
    BY TokenUntouched DEF CutoffInv, creatorBooks, cto

\* The books of a token, with the types the sums need.
LEMMA BooksAreNumbers ==
    ASSUME IInv, CutoffInv, NEW t \in Tokens
    PROVE  /\ creatorFeesAccrued[t] \in Nat /\ creatorIn[t] \in Nat /\ cutoff[t] \in Nat
           /\ checkpointedCreatorFees[t] \in [Recipients -> Nat]
           /\ creatorPaid[t] \in [Recipients -> Nat]
           /\ Users \in SUBSET Recipients
           /\ CheckpointedOf(t) = SumFunctionOnSet(checkpointedCreatorFees[t], Recipients)
           /\ PaidTo(t, Users) \in Int /\ CheckpointedOf(t) \in Int
           /\ ctoActive[t] => creatorPaid[t][ctoTreasuryOf[t]] \in Nat
<1>1. /\ creatorFeesAccrued[t] \in Nat /\ creatorIn[t] \in Nat /\ cutoff[t] \in Nat
      /\ checkpointedCreatorFees[t] \in [Recipients -> Nat]
      /\ creatorPaid[t] \in [Recipients -> Nat]
      /\ Users \in SUBSET Recipients
    BY DEF IInv, TypeOK, Recipients
<1>2. CheckpointedOf(t) = SumFunctionOnSet(checkpointedCreatorFees[t], Recipients)
    BY <1>1 DEF CheckpointedOf, SumFunction
<1>3. \A r \in Recipients : checkpointedCreatorFees[t][r] \in Int
    BY <1>1
<1>4. \A r \in Users : creatorPaid[t][r] \in Int
    BY <1>1
<1>5. CheckpointedOf(t) \in Int
    BY <1>2, <1>3, RecipientsFinite, SumType
<1>6. PaidTo(t, Users) \in Int
    BY <1>4, RecipientsFinite, SumType DEF PaidTo
<1>7. ctoActive[t] => creatorPaid[t][ctoTreasuryOf[t]] \in Nat
    BY <1>1 DEF CutoffInv, FollowsTheRoute, PayoutsAreUsers, Recipients
<1> QED
    BY <1>1, <1>2, <1>5, <1>6, <1>7

\* Paying r from a token's books, and moving what is kept for r.
LEMMA PaidAfter ==
    ASSUME IInv, NEW t \in Tokens, NEW r \in Recipients, NEW v \in Nat,
           creatorPaid' = [creatorPaid EXCEPT ![t][r] = v]
    PROVE  /\ PaidTo(t, Users)' = PaidTo(t, Users)
                 + (IF r \in Users THEN v - creatorPaid[t][r] ELSE 0)
           /\ creatorPaid'[t] = [creatorPaid[t] EXCEPT ![r] = v]
<1>1. /\ creatorPaid[t] \in [Recipients -> Nat]
      /\ creatorPaid'[t] = [creatorPaid[t] EXCEPT ![r] = v]
      /\ Users \in SUBSET Recipients
    BY DEF IInv, TypeOK, Recipients
<1> QED
    BY <1>1, RecipientsFinite, SumUpdate DEF PaidTo

\* The same of what is kept for r.
LEMMA CheckpointedAfter ==
    ASSUME IInv, NEW t \in Tokens, NEW r \in Recipients, NEW v \in Nat,
           checkpointedCreatorFees' = [checkpointedCreatorFees EXCEPT ![t][r] = v]
    PROVE  /\ CheckpointedOf(t)' = CheckpointedOf(t) + v - checkpointedCreatorFees[t][r]
           /\ checkpointedCreatorFees'[t] = [checkpointedCreatorFees[t] EXCEPT ![r] = v]
<1>1. /\ checkpointedCreatorFees[t] \in [Recipients -> Nat]
      /\ checkpointedCreatorFees'[t] = [checkpointedCreatorFees[t] EXCEPT ![r] = v]
    BY DEF IInv, TypeOK
<1>2. /\ CheckpointedOf(t) = SumFunctionOnSet(checkpointedCreatorFees[t], Recipients)
      /\ CheckpointedOf(t)' = SumFunctionOnSet(checkpointedCreatorFees'[t], Recipients)
    BY <1>1 DEF CheckpointedOf, SumFunction
<1>3. /\ CheckpointedOf(t) \in Int
      /\ CheckpointedOf(t)' = CheckpointedOf(t) + (v - checkpointedCreatorFees[t][r])
    BY <1>1, <1>2, RecipientsFinite, SumUpdate
<1> QED
    BY <1>1, <1>3

\* The first recipient of a token is its creator, a user.
LEMMA RegisterKeepsCutoff ==
    ASSUME IInv, CutoffInv, NEW t \in Tokens, NEW u \in Users, registerToken(t, u)
    PROVE  CutoffInv'
<1> USE DEF registerToken
<1> SUFFICES ASSUME NEW s \in Tokens PROVE FollowsTheRoute(s)'
    BY DEF CutoffInv
<1>1. CASE s # t
    BY <1>1, TokenUntouched DEF CutoffInv, IInv, TypeOK, money, creatorBooks, cto
<1>2. CASE s = t
    <2>1. /\ UNCHANGED <<creatorFeesAccrued, checkpointedCreatorFees, creatorIn, creatorPaid,
                         ctoActive, ctoTreasuryOf, cutoff>>
          /\ creatorPayoutOf'[t] = u /\ creatorOf'[t] = u /\ u # None
        BY DEF money, creatorBooks, cto, IInv, TypeOK, Recipients
    <2>2. PaidTo(t, Users)' = PaidTo(t, Users) /\ CheckpointedOf(t)' = CheckpointedOf(t)
        BY <2>1 DEF PaidTo, CheckpointedOf
    <2>3. CutoffOf(t)'
        BY <2>1, <2>2 DEF CutoffInv, FollowsTheRoute, CutoffOf
    <2>4. PayoutsAreUsers(t)'
        BY <2>1 DEF CutoffInv, FollowsTheRoute, PayoutsAreUsers
    <2> QED
        BY <1>2, <2>3, <2>4 DEF FollowsTheRoute
<1> QED
    BY <1>1, <1>2

\* A deposit accrues to whoever holds the route, on the side of the cutoff it fell.
LEMMA DepositKeepsCutoff ==
    ASSUME IInv, CutoffInv, NEW t \in Tokens, NEW fee \in FeeSplits, depositFees(t, fee)
    PROVE  CutoffInv'
<1> USE DEF depositFees
<1> SUFFICES ASSUME NEW s \in Tokens PROVE FollowsTheRoute(s)'
    BY DEF CutoffInv
<1>1. CASE s # t
    BY <1>1, TokenUntouched DEF CutoffInv, IInv, TypeOK, payouts, cto
<1>2. CASE s = t
    <2>0. fee \in SplitType
        OBVIOUS
    <2>1. fee.creator \in Nat
        BY <2>0 DEF SplitType
    <2>2. /\ creatorFeesAccrued'[t] = creatorFeesAccrued[t] + fee.creator
          /\ creatorIn'[t] = creatorIn[t] + fee.creator
        BY DEF IInv, TypeOK
    <2>3. /\ PaidTo(t, Users)' = PaidTo(t, Users)
          /\ CheckpointedOf(t)' = CheckpointedOf(t)
          /\ UNCHANGED <<creatorOf, creatorPayoutOf, ctoActive, ctoTreasuryOf, cutoff,
                         creatorPaid, checkpointedCreatorFees>>
        BY DEF PaidTo, CheckpointedOf, payouts, cto
    <2>5. creatorPayoutOf[t] # None
        BY DEF CutoffInv, FollowsTheRoute, PayoutsAreUsers
    <2>6. PayoutsAreUsers(t)'
        BY <2>3, <2>5 DEF CutoffInv, FollowsTheRoute, PayoutsAreUsers
    <2>7. CutoffOf(t)'
        <3> HIDE DEF depositFees
        <3>1. CutoffOf(t)
            BY DEF CutoffInv, FollowsTheRoute
        <3>2. CASE ctoActive[t]
            BY <2>1, <2>2, <2>3, <3>1, <3>2, BooksAreNumbers DEF CutoffOf
        <3>3. CASE ~ctoActive[t]
            BY <2>1, <2>2, <2>3, <3>1, <3>3, BooksAreNumbers DEF CutoffOf
        <3> QED
            BY <3>2, <3>3
    <2> QED
        BY <1>2, <2>6, <2>7 DEF FollowsTheRoute
<1> QED
    BY <1>1, <1>2

\* Only a user can accept, and only before the takeover.
LEMMA AcceptPayoutKeepsCutoff ==
    ASSUME IInv, CutoffInv, NEW t \in Tokens, acceptCreatorPayout(t)
    PROVE  CutoffInv'
<1> USE DEF acceptCreatorPayout
<1> SUFFICES ASSUME NEW s \in Tokens PROVE FollowsTheRoute(s)'
    BY DEF CutoffInv
<1>1. CASE s # t
    BY <1>1, TokenUntouched DEF CutoffInv, IInv, TypeOK, money, creatorBooks, cto
<1>2. CASE s = t
    <2>1. /\ UNCHANGED <<creatorOf, creatorFeesAccrued, checkpointedCreatorFees, creatorIn,
                         creatorPaid, ctoActive, ctoTreasuryOf, cutoff>>
          /\ creatorPayoutOf'[t] \in Users /\ creatorPayoutOf'[t] # None
        BY DEF money, creatorBooks, cto, IInv, TypeOK, Recipients
    <2>2. PaidTo(t, Users)' = PaidTo(t, Users) /\ CheckpointedOf(t)' = CheckpointedOf(t)
        BY <2>1 DEF PaidTo, CheckpointedOf
    <2>3. CutoffOf(t)'
        BY <2>1, <2>2 DEF CutoffInv, FollowsTheRoute, CutoffOf
    <2>4. PayoutsAreUsers(t)'
        BY <2>1 DEF CutoffInv, FollowsTheRoute, PayoutsAreUsers
    <2> QED
        BY <1>2, <2>3, <2>4 DEF FollowsTheRoute
<1> QED
    BY <1>1, <1>2

\* What a claim of either kind does to the payments of its token.
LEMMA PayCreatorPays ==
    ASSUME IInv, NEW t \in Tokens, NEW r \in Recipients, NEW a \in Nat, payCreator(t, r, a)
    PROVE  /\ creatorPaid'[t] = [creatorPaid[t] EXCEPT ![r] = creatorPaid[t][r] + a]
           /\ creatorPaid[t] \in [Recipients -> Nat]
           /\ PaidTo(t, Users)' = PaidTo(t, Users) + (IF r \in Users THEN a ELSE 0)
           /\ \A s \in Tokens \ {t} : creatorPaid'[s] = creatorPaid[s]
<1> DEFINE v == creatorPaid[t][r] + a
<1>1. creatorPaid[t] \in [Recipients -> Nat] /\ creatorPaid[t][r] \in Nat /\ v \in Nat
    BY DEF IInv, TypeOK
<1>2. creatorPaid' = [creatorPaid EXCEPT ![t][r] = v]
    BY DEF payCreator
<1>3. \A s \in Tokens \ {t} : creatorPaid'[s] = creatorPaid[s]
    BY <1>2 DEF IInv, TypeOK
<1>4. v - creatorPaid[t][r] = a
    BY <1>1
<1>5. /\ PaidTo(t, Users)' = PaidTo(t, Users)
                 + (IF r \in Users THEN v - creatorPaid[t][r] ELSE 0)
      /\ creatorPaid'[t] = [creatorPaid[t] EXCEPT ![r] = v]
    <2> HIDE DEF v
    <2> QED BY <1>1, <1>2, PaidAfter
<1> QED
    BY <1>1, <1>3, <1>4, <1>5

\* What accrued goes to the treasury after the takeover and to a user before it.
LEMMA ClaimKeepsCutoff ==
    ASSUME IInv, CutoffInv, NEW t \in Tokens, claimCreatorFees(t)
    PROVE  CutoffInv'
<1> SUFFICES ASSUME NEW s \in Tokens PROVE FollowsTheRoute(s)'
    BY DEF CutoffInv
<1> DEFINE r == creatorPayoutOf[t]
           a == creatorFeesAccrued[t]
<1>1. /\ payCreator(t, r, a)
      /\ creatorFeesAccrued' = [creatorFeesAccrued EXCEPT ![t] = 0]
      /\ UNCHANGED <<creatorOf, creatorPayoutOf, checkpointedCreatorFees, creatorIn,
                     ctoActive, ctoTreasuryOf, cutoff>>
    BY DEF claimCreatorFees, payouts, cto
<1>2. FollowsTheRoute(t) /\ CutoffOf(t) /\ PayoutsAreUsers(t)
    BY DEF CutoffInv, FollowsTheRoute
<1>3. a \in Nat /\ a > 0 /\ creatorFeesAccrued'[t] = 0
    BY <1>1 DEF IInv, TypeOK, payCreator
<1>4. r \in Recipients
    BY <1>2, <1>3 DEF PayoutsAreUsers, IInv, TypeOK
<1> HIDE DEF a, r
<1>5. /\ creatorPaid'[t] = [creatorPaid[t] EXCEPT ![r] = creatorPaid[t][r] + a]
      /\ creatorPaid[t] \in [Recipients -> Nat]
      /\ PaidTo(t, Users)' = PaidTo(t, Users) + (IF r \in Users THEN a ELSE 0)
      /\ \A i \in Tokens \ {t} : creatorPaid'[i] = creatorPaid[i]
    BY <1>1, <1>3, <1>4, PayCreatorPays
<1>6. CASE s # t
    <2>1. creatorFeesAccrued'[s] = creatorFeesAccrued[s]
        BY <1>1, <1>6 DEF IInv, TypeOK
    <2> QED
        BY <1>1, <1>5, <1>6, <2>1, TokenUntouched DEF CutoffInv
<1>7. CheckpointedOf(t)' = CheckpointedOf(t)
    BY <1>1 DEF CheckpointedOf
<1>8. CASE ctoActive[t]
    <2>1. r = ctoTreasuryOf[t] /\ r \in CTOTreasuries /\ r \notin Users
        BY <1>2, <1>8 DEF r, PayoutsAreUsers, IInv, RouteInv, CTOHoldsTheRoute
    <2>2. CutoffOf(t)'
        <3>1. PaidTo(t, Users)' = PaidTo(t, Users)
            BY <1>5, <2>1, BooksAreNumbers
        <3>2. creatorPaid'[t][r] = creatorPaid[t][r] + a /\ creatorPaid[t][r] \in Nat
            BY <1>4, <1>5
        <3>3. creatorPaid[t][r] + a = creatorIn[t] - cutoff[t]
            BY <1>2, <1>8, <2>1 DEF CutoffOf, a
        <3>4. creatorPaid'[t][r] + 0 = creatorIn[t] - cutoff[t]
            BY <1>3, <3>2, <3>3
        <3> QED
            BY <1>1, <1>2, <1>3, <1>7, <1>8, <2>1, <3>1, <3>4 DEF CutoffOf
    <2>3. PayoutsAreUsers(t)'
        BY <1>1, <1>2, <1>3, <1>4, <1>5, <1>8, <2>1 DEF PayoutsAreUsers, Recipients
    <2> QED
        BY <1>6, <2>2, <2>3 DEF FollowsTheRoute
<1>9. CASE ~ctoActive[t]
    <2>1. r \in Users /\ r \notin CTOTreasuries
        BY <1>2, <1>4, <1>9 DEF r, PayoutsAreUsers
    <2>2. CutoffOf(t)'
        <3>1. PaidTo(t, Users)' = PaidTo(t, Users) + a
            BY <1>5, <2>1
        <3>2. PaidTo(t, Users) + CheckpointedOf(t) + a = creatorIn[t]
            BY <1>2, <1>9 DEF CutoffOf, a
        <3>3. PaidTo(t, Users)' + CheckpointedOf(t)' + 0 = creatorIn[t]
            BY <1>3, <1>7, <3>1, <3>2, BooksAreNumbers
        <3> QED
            BY <1>1, <1>3, <1>9, <3>3 DEF CutoffOf
    <2>3. PayoutsAreUsers(t)'
        BY <1>1, <1>2, <1>3, <1>4, <1>5, <1>9, <2>1 DEF PayoutsAreUsers, Recipients
    <2> QED
        BY <1>6, <2>2, <2>3 DEF FollowsTheRoute
<1> QED
    BY <1>8, <1>9

\* What is kept is kept for users, so paying it moves it from one user sum to another.
LEMMA ClaimCheckpointedKeepsCutoff ==
    ASSUME IInv, CutoffInv, NEW t \in Tokens, NEW r \in Recipients,
           claimCheckpointedCreatorFees(t, r)
    PROVE  CutoffInv'
<1> SUFFICES ASSUME NEW s \in Tokens PROVE FollowsTheRoute(s)'
    BY DEF CutoffInv
<1> DEFINE a == checkpointedCreatorFees[t][r]
<1>1. /\ payCreator(t, r, a)
      /\ checkpointedCreatorFees' = [checkpointedCreatorFees EXCEPT ![t][r] = 0]
      /\ UNCHANGED <<creatorOf, creatorPayoutOf, creatorFeesAccrued, creatorIn,
                     ctoActive, ctoTreasuryOf, cutoff>>
    BY DEF claimCheckpointedCreatorFees, payouts, cto
<1>2. FollowsTheRoute(t) /\ CutoffOf(t) /\ PayoutsAreUsers(t)
    BY DEF CutoffInv, FollowsTheRoute
<1>3. a \in Nat /\ a > 0
    BY <1>1 DEF IInv, TypeOK, payCreator
<1>4. r \in Users /\ r \notin CTOTreasuries
    BY <1>2, <1>3 DEF PayoutsAreUsers, Recipients
<1>5. /\ CheckpointedOf(t)' = CheckpointedOf(t) + 0 - a
      /\ checkpointedCreatorFees'[t] = [checkpointedCreatorFees[t] EXCEPT ![r] = 0]
    <2>1. 0 \in Nat
        OBVIOUS
    <2> QED
        BY <1>1, <2>1, CheckpointedAfter
<1> HIDE DEF a
<1>6. /\ creatorPaid'[t] = [creatorPaid[t] EXCEPT ![r] = creatorPaid[t][r] + a]
      /\ creatorPaid[t] \in [Recipients -> Nat]
      /\ PaidTo(t, Users)' = PaidTo(t, Users) + a
      /\ \A i \in Tokens \ {t} : creatorPaid'[i] = creatorPaid[i]
    BY <1>1, <1>3, <1>4, PayCreatorPays
<1>7. CASE s # t
    <2>1. checkpointedCreatorFees'[s] = checkpointedCreatorFees[s]
        BY <1>1, <1>7 DEF IInv, TypeOK
    <2> QED
        BY <1>1, <1>6, <1>7, <2>1, TokenUntouched DEF CutoffInv
<1>8. CASE s = t
    <2>1. PaidTo(t, Users)' + CheckpointedOf(t)' = PaidTo(t, Users) + CheckpointedOf(t)
        BY <1>3, <1>5, <1>6, BooksAreNumbers
    <2>2. ctoActive[t] => ctoTreasuryOf[t] # r
        BY <1>2, <1>4 DEF PayoutsAreUsers
    <2>3. \A c \in CTOTreasuries : /\ creatorPaid'[t][c] = creatorPaid[t][c]
                                   /\ checkpointedCreatorFees'[t][c]
                                        = checkpointedCreatorFees[t][c]
        BY <1>4, <1>5, <1>6, BooksAreNumbers DEF Recipients
    <2>4. CutoffOf(t)'
        <3>1. ctoActive[t] => creatorPaid'[t][ctoTreasuryOf[t]] = creatorPaid[t][ctoTreasuryOf[t]]
            BY <1>2, <2>3 DEF PayoutsAreUsers
        <3> QED
            BY <1>1, <1>2, <2>1, <3>1 DEF CutoffOf
    <2>5. PayoutsAreUsers(t)'
        BY <1>1, <1>2, <2>3 DEF PayoutsAreUsers
    <2> QED
        BY <1>8, <2>4, <2>5 DEF FollowsTheRoute
<1> QED
    BY <1>7, <1>8

\* activateCTO checkpoints what accrued, to a user, at the moment it sets the cutoff.
LEMMA TakeoverKeepsCutoff ==
    ASSUME IInv, CutoffInv, NEW t \in Tokens, NEW c \in CTOTreasuries, activateCTO(t, c)
    PROVE  CutoffInv'
<1> SUFFICES ASSUME NEW s \in Tokens PROVE FollowsTheRoute(s)'
    BY DEF CutoffInv
<1> DEFINE r == creatorPayoutOf[t]
           v == checkpointedCreatorFees[t][r] + creatorFeesAccrued[t]
<1>1. /\ ~ctoActive[t] /\ r # None
      /\ checkpointedCreatorFees' = [checkpointedCreatorFees EXCEPT ![t][r] = v]
      /\ creatorFeesAccrued' = [creatorFeesAccrued EXCEPT ![t] = 0]
      /\ creatorPayoutOf' = [creatorPayoutOf EXCEPT ![t] = c]
      /\ ctoTreasuryOf' = [ctoTreasuryOf EXCEPT ![t] = c]
      /\ ctoActive' = [ctoActive EXCEPT ![t] = TRUE]
      /\ cutoff' = [cutoff EXCEPT ![t] = creatorIn[t]]
      /\ UNCHANGED <<creatorOf, creatorIn, creatorPaid>>
    BY DEF activateCTO, checkpointCreatorFees
<1>2. FollowsTheRoute(t) /\ CutoffOf(t) /\ PayoutsAreUsers(t)
    BY DEF CutoffInv, FollowsTheRoute
<1>3. r \in Users /\ r \in Recipients /\ r \notin CTOTreasuries
    BY <1>1, <1>2 DEF PayoutsAreUsers, Recipients
<1>4. v \in Nat /\ checkpointedCreatorFees[t][r] \in Nat
    BY <1>3, BooksAreNumbers
<1> HIDE DEF r
<1>5. /\ CheckpointedOf(t)' = CheckpointedOf(t) + v - checkpointedCreatorFees[t][r]
      /\ checkpointedCreatorFees'[t] = [checkpointedCreatorFees[t] EXCEPT ![r] = v]
    <2> HIDE DEF v
    <2> QED
        BY <1>1, <1>3, <1>4, CheckpointedAfter
<1>6. CASE s # t
    <2>1. /\ creatorPayoutOf'[s] = creatorPayoutOf[s] /\ ctoTreasuryOf'[s] = ctoTreasuryOf[s]
          /\ ctoActive'[s] = ctoActive[s] /\ cutoff'[s] = cutoff[s]
          /\ creatorFeesAccrued'[s] = creatorFeesAccrued[s]
          /\ checkpointedCreatorFees'[s] = checkpointedCreatorFees[s]
        BY <1>1, <1>6 DEF IInv, TypeOK
    <2> QED
        BY <1>1, <1>6, <2>1, TokenUntouched DEF CutoffInv
<1>7. CASE s = t
    <2>1. /\ creatorPayoutOf'[t] = c /\ ctoTreasuryOf'[t] = c /\ ctoActive'[t]
          /\ cutoff'[t] = creatorIn[t] /\ creatorFeesAccrued'[t] = 0
        BY <1>1 DEF IInv, TypeOK
    <2>2. PaidTo(t, Users)' = PaidTo(t, Users)
        BY <1>1 DEF PaidTo
    <2>3. PaidTo(t, Users) + CheckpointedOf(t) + creatorFeesAccrued[t] = creatorIn[t]
        BY <1>1, <1>2 DEF CutoffOf
    <2>4. creatorPaid[t][c] = 0
        BY <1>1, <1>2 DEF PayoutsAreUsers
    <2>5. \A d \in CTOTreasuries : /\ checkpointedCreatorFees'[t][d] = 0
                                   /\ creatorPaid[t][d] = 0
        BY <1>1, <1>2, <1>3, <1>5, BooksAreNumbers DEF PayoutsAreUsers, Recipients
    <2>6. CutoffOf(t)'
        <3>1. CheckpointedOf(t)' = CheckpointedOf(t) + creatorFeesAccrued[t]
            BY <1>4, <1>5, BooksAreNumbers
        <3>2. PaidTo(t, Users)' + CheckpointedOf(t)' = creatorIn[t]
            BY <2>2, <2>3, <3>1, BooksAreNumbers
        <3>3. creatorPaid[t][c] + 0 = creatorIn[t] - creatorIn[t]
            BY <2>4, BooksAreNumbers
        <3> QED
            BY <1>1, <2>1, <3>2, <3>3 DEF CutoffOf
    <2>7. PayoutsAreUsers(t)'
        BY <1>1, <2>1, <2>5 DEF PayoutsAreUsers, Recipients
    <2> QED
        BY <1>7, <2>6, <2>7 DEF FollowsTheRoute
<1> QED
    BY <1>6, <1>7

\* Everything else leaves the route, the creator's books and the takeover alone.
LEMMA OtherStepsLeaveTheRoute ==
    ASSUME FeeStep
    PROVE  \/ UNCHANGED <<creatorOf, creatorPayoutOf, creatorBooks, cto>>
           \/ \E t \in Tokens :
                \/ \E u \in Users : registerToken(t, u)
                \/ \E fee \in FeeSplits : depositFees(t, fee)
                \/ acceptCreatorPayout(t)
                \/ claimCreatorFees(t)
                \/ \E r \in Recipients : claimCheckpointedCreatorFees(t, r)
<1> DEFINE Same == UNCHANGED <<creatorOf, creatorPayoutOf, creatorBooks, cto>>
<1>1. ASSUME setFactoryOnce \/ bindEcosystemVaultsOnce \/ claimProtocolFees \/ claimReturns
      PROVE  Same
    BY <1>1 DEF setFactoryOnce, bindEcosystemVaultsOnce, claimProtocolFees, claimReturns,
                payouts, money
<1>2. ASSUME NEW t \in Tokens, \/ \E r \in Recipients : proposeCreatorPayout(t, r)
                              \/ cancelCreatorPayout(t)
      PROVE  Same
    BY <1>2 DEF proposeCreatorPayout, cancelCreatorPayout, money
<1>3. ASSUME NEW t \in Tokens, fundCommunityVault(t) \/ fundTraderRewardsVault(t)
      PROVE  Same
    BY <1>3 DEF fundCommunityVault, fundTraderRewardsVault, payouts
<1>4. ASSUME \/ \E tr \in Treasuries : proposeTreasury(tr)
             \/ acceptTreasury \/ cancelTreasuryProposal
             \/ \E o \in Owners \union {None} : transferOwnership(o)
             \/ acceptOwnership \/ renounceOwnership
      PROVE  Same
    BY <1>4 DEF proposeTreasury, acceptTreasury, cancelTreasuryProposal, transferOwnership,
                acceptOwnership, renounceOwnership, transferOwnershipTo, payouts, money
<1>5. ASSUME NEW n \in 1 .. MaxStray, ForceNative(n)
      PROVE  Same
    BY <1>5 DEF ForceNative, payouts
<1> HIDE DEF Same
<1> QED
    BY <1>1, <1>2, <1>3, <1>4, <1>5 DEF FeeStep, Same

\* The cutoff, together with what keeps a treasury out of the users' books.
THEOREM FollowsTheRouteHolds == Spec => []CutoffInv
<1>1. ASSUME IInv, CutoffInv, [Next]_feeVars PROVE CutoffInv'
    <2>1. CASE UNCHANGED <<creatorOf, creatorPayoutOf, creatorBooks, cto>>
        BY <1>1, <2>1, RouteUntouched
    <2>2. CASE FeeStep
        BY <1>1, <2>1, <2>2, OtherStepsLeaveTheRoute, RegisterKeepsCutoff,
           DepositKeepsCutoff, AcceptPayoutKeepsCutoff, ClaimKeepsCutoff,
           ClaimCheckpointedKeepsCutoff
    <2>3. CASE \E t \in Tokens, c \in CTOTreasuries : activateCTO(t, c)
        BY <1>1, <2>3, TakeoverKeepsCutoff
    <2>4. CASE Tick \/ UNCHANGED feeVars
        BY <2>1, <2>4 DEF Tick, feeVars, payouts, money
    <2> QED
        BY <1>1, <2>2, <2>3, <2>4 DEF Next
<1> QED
    BY <1>1, CutoffInitHolds, FeeManagerInvariant, PTL DEF Spec

\* No sequence of payout changes, claims and the takeover moves a creator fee across
\* the cutoff, for every number of tokens, users and treasuries.
THEOREM CutoffHolds == Spec => []CutoffRespected
<1>1. CutoffInv => CutoffRespected
    BY DEF CutoffInv, FollowsTheRoute, CutoffOf, CutoffRespected
<1> QED
    BY <1>1, FollowsTheRouteHolds, PTL

-----------------------------------------------------------------------------
(* 4. The registry *)

\* Every step of the composed system is a step of FeeManager or leaves it alone.
LEMMA RegistryStepIsFeeStep == [CTONext]_ctoVars => [Next]_feeVars
<1> SUFFICES ASSUME [CTONext]_ctoVars PROVE [Next]_feeVars
    OBVIOUS
<1>1. CASE (FeeStep /\ UNCHANGED <<registryVars, lpVars>>)
            \/ (Tick /\ UNCHANGED <<registryVars, lpVars>>)
    BY <1>1 DEF Next
<1>2. ASSUME NEW t \in Tokens,
             proposeCTO(t) \/ graduate(t) \/ earnLPFee(t) \/ collectFees(t)
      PROVE  UNCHANGED feeVars
    BY <1>2 DEF proposeCTO, graduate, earnLPFee, collectFees
<1>3. ASSUME NEW id \in ProposalIds, acceptCTO(id) \/ cancelCTO(id) \/ expireCTO(id)
      PROVE  UNCHANGED feeVars
    BY <1>3 DEF acceptCTO, cancelCTO, expireCTO
<1>4. ASSUME NEW id \in ProposalIds, executeCTO(id) PROVE Next
    <2>1. id \in CTOTreasuries /\ id[1] \in Tokens
        BY DEF ProposalIds
    <2> QED
        BY <1>4, <2>1 DEF executeCTO, Next
<1>5. ASSUME NEW r \in Recipients, claimLPFees(r) PROVE UNCHANGED feeVars
    BY <1>5 DEF claimLPFees
<1>6. CASE UNCHANGED ctoVars
    BY <1>6 DEF ctoVars
<1> QED
    BY <1>1, <1>2, <1>3, <1>4, <1>5, <1>6 DEF CTONext

\* The fee manager inside the registry behaves as the one proved about above.
LEMMA RegistryUsesFeeManager == CTOSpec => Spec
<1>1. CTOInit => Init
    BY DEF CTOInit
<1> QED
    BY <1>1, RegistryStepIsFeeStep, PTL DEF CTOSpec, Spec

\* So what was proved of the fee manager holds of the composed system.
THEOREM FeeManagerInvariantHere == CTOSpec => []IInv
    BY RegistryUsesFeeManager, FeeManagerInvariant, PTL

-----------------------------------------------------------------------------
(* One live proposal *)

\* acceptCTO is refused once the window of the proposal has passed.
AcceptedInTime ==
    \A id \in ProposalIds :
      proposals[id].state \in {"Accepted", "Active"} =>
        proposals[id].acceptedAt <= proposals[id].createdAt + AcceptanceWindow

CTOInv == CTOTypeOK /\ OneLiveProposal /\ AcceptedInTime

LEMMA CTOInitHolds == CTOInit => CTOInv
<1> SUFFICES ASSUME CTOInit PROVE CTOInv
    OBVIOUS
<1>1. CTOTypeOK
    BY DEF CTOInit, CTOTypeOK, NoProposal, ProposalType, ProposalState
<1>2. OneLiveProposal
    BY DEF CTOInit, Init, OneLiveProposal, proposalsOf, live, NoProposal
<1>3. AcceptedInTime
    BY DEF CTOInit, AcceptedInTime, NoProposal
<1> QED
    BY <1>1, <1>2, <1>3 DEF CTOInv

\* Steps that leave proposals and takeovers alone.
LEMMA ProposalsUntouched ==
    ASSUME CTOInv, UNCHANGED <<registryVars, cto>>
    PROVE  OneLiveProposal' /\ AcceptedInTime'
BY DEF CTOInv, registryVars, cto, OneLiveProposal, AcceptedInTime, proposalsOf, live

LEMMA RegistryUntouched ==
    ASSUME CTOInv, UNCHANGED <<registryVars, lpVars, cto>>
    PROVE  CTOInv'
<1>1. CTOTypeOK'
    BY DEF CTOInv, CTOTypeOK, registryVars, lpVars
<1> QED
    BY <1>1, ProposalsUntouched DEF CTOInv

LEMMA ProposeKeeps ==
    ASSUME CTOInv, TypeOK, NEW t \in Tokens, proposeCTO(t) PROVE CTOInv'
<1> DEFINE id == <<t, tokenNonce[t] + 1>>
<1>1. id \in ProposalIds /\ id[1] = t
    BY DEF proposeCTO, CTOInv, CTOTypeOK, ProposalIds
<1>2. /\ proposals' = [proposals EXCEPT ![id] =
                         [previousRecipient |-> creatorPayoutOf[t],
                          createdAt |-> now, acceptedAt |-> 0, state |-> "Proposed"]]
      /\ currentProposalId' = [currentProposalId EXCEPT ![t] = id]
      /\ UNCHANGED <<lpVars, cto, activeTreasury>>
    BY DEF proposeCTO, feeVars
<1>3. proposals' \in [ProposalIds -> ProposalType]
    BY <1>1, <1>2 DEF CTOInv, CTOTypeOK, TypeOK, ProposalType, ProposalState
<1>4. CTOTypeOK'
    BY <1>1, <1>2, <1>3 DEF proposeCTO, CTOInv, CTOTypeOK, lpVars
<1>5. ASSUME NEW i \in ProposalIds, live(i)', i # id
      PROVE  i[1] # t /\ i = currentProposalId'[i[1]]
    <2>1. live(i) /\ i[1] \in Tokens
        BY <1>2, <1>5 DEF live, CTOInv, CTOTypeOK, ProposalIds
    <2>2. i = currentProposalId[i[1]]
        BY <2>1 DEF CTOInv, OneLiveProposal, proposalsOf
    <2>3. i[1] # t
        BY <2>1, <2>2 DEF proposeCTO, noLiveProposal, CTOInv, CTOTypeOK, live, ProposalIds
    <2> QED
        BY <1>2, <2>1, <2>2, <2>3 DEF CTOInv, CTOTypeOK
<1>6. OneLiveProposal'
    <2>1. ASSUME NEW s \in Tokens, NEW i \in proposalsOf(s), live(i)'
          PROVE  i = currentProposalId'[s]
        BY <1>1, <1>2, <1>5, <2>1 DEF proposalsOf, CTOInv, CTOTypeOK
    <2>2. ASSUME NEW s \in Tokens
          PROVE  /\ (ctoActive[s] <=> activeTreasury[s] # None)'
                 /\ (ctoActive[s] => /\ ctoTreasuryOf[s] = activeTreasury[s]
                                     /\ proposals[activeTreasury[s]].state = "Active")'
        <3>1. ctoActive'[s] => s # t /\ ctoTreasuryOf[s] = activeTreasury[s]
                               /\ activeTreasury[s] \in ProposalIds
                               /\ proposals[activeTreasury[s]].state = "Active"
            BY <1>2 DEF proposeCTO, CTOInv, CTOTypeOK, OneLiveProposal, cto
        <3>2. ctoActive'[s] => live(activeTreasury[s])
            BY <3>1 DEF live
        <3>3. ctoActive'[s] => activeTreasury[s] # id
            <4> SUFFICES ASSUME ctoActive'[s], activeTreasury[s] = id PROVE FALSE
                OBVIOUS
            <4>1. live(id) /\ id \in proposalsOf(t)
                BY <1>1, <3>2 DEF proposalsOf
            <4>2. currentProposalId[t] = id
                BY <4>1 DEF CTOInv, OneLiveProposal
            <4> QED
                BY <1>1, <4>1, <4>2 DEF proposeCTO, noLiveProposal
        <3> QED
            BY <1>2, <3>1, <3>3 DEF cto, CTOInv, OneLiveProposal, CTOTypeOK
    <2> QED
        BY <2>1, <2>2 DEF OneLiveProposal, proposalsOf
<1>7. AcceptedInTime'
    BY <1>2 DEF CTOInv, CTOTypeOK, AcceptedInTime, ProposalIds
<1> QED
    BY <1>4, <1>6, <1>7 DEF CTOInv

\* A change of one stored proposal that does not make it live again, and does not
\* touch an active one.
LEMMA UpdateKeepsOneLive ==
    ASSUME CTOInv, NEW id \in ProposalIds, live(id), proposals[id].state # "Active",
           proposals' \in [ProposalIds -> ProposalType],
           \A i \in ProposalIds \ {id} : proposals'[i] = proposals[i],
           UNCHANGED <<currentProposalId, activeTreasury, cto>>
    PROVE  OneLiveProposal'
<1>1. ASSUME NEW t \in Tokens, NEW i \in proposalsOf(t), live(i)'
      PROVE  i = currentProposalId'[t]
    <2>1. live(i) /\ i \in proposalsOf(t)
        BY <1>1 DEF live, proposalsOf
    <2> QED
        BY <2>1 DEF CTOInv, OneLiveProposal
<1>2. ASSUME NEW t \in Tokens
      PROVE  /\ (ctoActive[t] <=> activeTreasury[t] # None)'
             /\ (ctoActive[t] => /\ ctoTreasuryOf[t] = activeTreasury[t]
                                 /\ proposals[activeTreasury[t]].state = "Active")'
    <2>1. /\ ctoActive[t] <=> activeTreasury[t] # None
          /\ ctoActive[t] => /\ ctoTreasuryOf[t] = activeTreasury[t]
                             /\ proposals[activeTreasury[t]].state = "Active"
                             /\ activeTreasury[t] \in ProposalIds
        BY DEF CTOInv, CTOTypeOK, OneLiveProposal
    <2> QED
        BY <2>1 DEF cto
<1> QED
    BY <1>1, <1>2 DEF OneLiveProposal, proposalsOf

LEMMA AcceptKeeps ==
    ASSUME CTOInv, TypeOK, NEW id \in ProposalIds, acceptCTO(id) PROVE CTOInv'
<1>1. proposals[id] \in ProposalType /\ live(id) /\ UNCHANGED <<lpVars, cto>>
    BY DEF acceptCTO, CTOInv, CTOTypeOK, live, feeVars
<1>2. proposals' \in [ProposalIds -> ProposalType]
    BY <1>1 DEF acceptCTO, CTOInv, CTOTypeOK, TypeOK, ProposalType, ProposalState
<1>3. CTOTypeOK'
    BY <1>1, <1>2 DEF acceptCTO, CTOInv, CTOTypeOK, lpVars
<1>4. OneLiveProposal'
    BY <1>1, <1>2, UpdateKeepsOneLive DEF acceptCTO, CTOInv, CTOTypeOK
<1>5. AcceptedInTime'
    BY <1>1 DEF acceptCTO, CTOInv, CTOTypeOK, AcceptedInTime, ProposalType
<1> QED
    BY <1>3, <1>4, <1>5 DEF CTOInv

LEMMA CloseKeeps ==
    ASSUME CTOInv, NEW id \in ProposalIds, cancelCTO(id) \/ expireCTO(id) PROVE CTOInv'
<1>1. PICK s \in {"Cancelled", "Expired"} :
        /\ proposals' = [proposals EXCEPT ![id].state = s]
        /\ proposals[id].state \in {"Proposed", "Accepted"}
        /\ UNCHANGED <<feeVars, lpVars, tokenNonce, currentProposalId, activeTreasury>>
    BY DEF cancelCTO, expireCTO, timeIsUp
<1>2. proposals[id] \in ProposalType /\ live(id) /\ UNCHANGED cto
    BY <1>1 DEF CTOInv, CTOTypeOK, live, feeVars
<1>3. proposals' \in [ProposalIds -> ProposalType]
    BY <1>1, <1>2 DEF CTOInv, CTOTypeOK, ProposalType, ProposalState
<1>4. CTOTypeOK'
    BY <1>1, <1>3 DEF CTOInv, CTOTypeOK, lpVars
<1>5. OneLiveProposal'
    BY <1>1, <1>2, <1>3, UpdateKeepsOneLive DEF CTOInv, CTOTypeOK
<1>6. AcceptedInTime'
    BY <1>1, <1>2 DEF CTOInv, CTOTypeOK, AcceptedInTime, ProposalType
<1> QED
    BY <1>4, <1>5, <1>6 DEF CTOInv

LEMMA ExecuteKeeps ==
    ASSUME CTOInv, IInv, NEW id \in ProposalIds, executeCTO(id) PROVE CTOInv'
<1> DEFINE t == id[1]
           payout == creatorPayoutOf[t]
<1>1. t \in Tokens /\ id \in proposalsOf(t) /\ id \in CTOTreasuries
    BY DEF ProposalIds, proposalsOf
<1>2. /\ proposals[id].state = "Accepted"
      /\ proposals' = [proposals EXCEPT ![id].state = "Active"]
      /\ activeTreasury' = [activeTreasury EXCEPT ![t] = id]
      /\ ~ctoActive[t] /\ payout # None
      /\ ctoActive' = [ctoActive EXCEPT ![t] = TRUE]
      /\ ctoTreasuryOf' = [ctoTreasuryOf EXCEPT ![t] = id]
      /\ lpCutoff' = [lpCutoff EXCEPT ![t] = lpEarned[t]]
      /\ UNCHANGED <<tokenNonce, currentProposalId, graduated, lpEarned>>
    BY DEF executeCTO, activateCTO
<1>3. proposals[id] \in ProposalType /\ live(id) /\ payout \in Recipients
    BY <1>1, <1>2 DEF CTOInv, CTOTypeOK, live, IInv, TypeOK
<1>4. proposals' \in [ProposalIds -> ProposalType]
    BY <1>2, <1>3 DEF CTOInv, CTOTypeOK, ProposalType, ProposalState
<1>5. /\ lpUncollected' \in [Tokens -> Nat]
      /\ creatorLPFeesAccrued' \in [Recipients -> Nat]
      /\ lpCredited' \in [Tokens -> [Recipients -> Nat]]
    <2>1. CASE collectLPFees(t)
        BY <1>1, <1>3, <2>1 DEF collectLPFees, CTOInv, CTOTypeOK
    <2>2. CASE UNCHANGED <<lpUncollected, creatorLPFeesAccrued, lpCredited>>
        BY <2>2 DEF CTOInv, CTOTypeOK
    <2> QED
        BY <2>1, <2>2 DEF executeCTO, collectBeforeHandover
<1>6. CTOTypeOK'
    BY <1>1, <1>2, <1>4, <1>5 DEF CTOInv, CTOTypeOK
<1>7. OneLiveProposal'
    <2>1. ASSUME NEW s \in Tokens, NEW i \in proposalsOf(s), live(i)'
          PROVE  i = currentProposalId'[s]
        BY <1>1, <1>2, <1>3, <2>1 DEF CTOInv, CTOTypeOK, OneLiveProposal, live, proposalsOf
    <2>2. ASSUME NEW s \in Tokens
          PROVE  /\ (ctoActive[s] <=> activeTreasury[s] # None)'
                 /\ (ctoActive[s] => /\ ctoTreasuryOf[s] = activeTreasury[s]
                                     /\ proposals[activeTreasury[s]].state = "Active")'
        <3>1. /\ ctoActive[s] <=> activeTreasury[s] # None
              /\ ctoActive[s] => /\ ctoTreasuryOf[s] = activeTreasury[s]
                                 /\ proposals[activeTreasury[s]].state = "Active"
                                 /\ activeTreasury[s] \in ProposalIds
            BY DEF CTOInv, CTOTypeOK, OneLiveProposal
        <3>2. proposals'[id].state = "Active" /\ id # None
            BY <1>2, <1>3 DEF CTOInv, CTOTypeOK, ProposalType
        <3>3. CASE s = t
            BY <1>1, <1>2, <3>2, <3>3 DEF CTOInv, CTOTypeOK, IInv, TypeOK
        <3>4. CASE s # t
            BY <1>2, <3>1, <3>2, <3>4 DEF CTOInv, CTOTypeOK, IInv, TypeOK
        <3> QED
            BY <3>3, <3>4
    <2> QED
        BY <2>1, <2>2 DEF OneLiveProposal, proposalsOf
<1>8. AcceptedInTime'
    BY <1>2, <1>3 DEF CTOInv, CTOTypeOK, AcceptedInTime, ProposalType
<1> QED
    BY <1>6, <1>7, <1>8 DEF CTOInv

LEMMA LPKeeps ==
    ASSUME CTOInv, IInv,
           \/ \E t \in Tokens : graduate(t) \/ earnLPFee(t) \/ collectFees(t)
           \/ \E r \in Recipients : claimLPFees(r)
    PROVE  CTOInv'
<1>1. UNCHANGED <<feeVars, registryVars>>
    BY DEF graduate, earnLPFee, collectFees, claimLPFees
<1>2. OneLiveProposal' /\ AcceptedInTime'
    BY <1>1, ProposalsUntouched DEF feeVars
<1>3. CTOTypeOK'
    <2>1. ASSUME NEW t \in Tokens, graduate(t) PROVE CTOTypeOK'
        <3>1. graduated' \in [Tokens -> BOOLEAN]
            BY <2>1, Zenon DEF graduate, CTOInv, CTOTypeOK
        <3> QED
            BY <1>1, <2>1, <3>1 DEF graduate, CTOInv, CTOTypeOK, registryVars
    <2>2. ASSUME NEW t \in Tokens, earnLPFee(t) PROVE CTOTypeOK'
        BY <1>1, <2>2 DEF earnLPFee, CTOInv, CTOTypeOK, registryVars
    <2>3. ASSUME NEW t \in Tokens, collectFees(t) PROVE CTOTypeOK'
        <3>1. CASE creatorPayoutOf[t] \in Recipients
            BY <1>1, <2>3, <3>1
            DEF collectFees, collectLPFees, CTOInv, CTOTypeOK, registryVars
        <3>2. CASE creatorPayoutOf[t] \notin Recipients
            BY <1>1, <2>3, <3>2
            DEF collectFees, collectLPFees, CTOInv, CTOTypeOK, registryVars
        <3> QED
            BY <3>1, <3>2
    <2>4. ASSUME NEW r \in Recipients, claimLPFees(r) PROVE CTOTypeOK'
        BY <1>1, <2>4 DEF claimLPFees, CTOInv, CTOTypeOK, registryVars
    <2> QED
        BY <2>1, <2>2, <2>3, <2>4
<1> QED
    BY <1>2, <1>3 DEF CTOInv

\* Every step of the composed system keeps it.
LEMMA RegistryStepKeeps == IInv /\ CTOInv /\ [CTONext]_ctoVars => CTOInv'
<1> SUFFICES ASSUME IInv, CTOInv, [CTONext]_ctoVars PROVE CTOInv'
    OBVIOUS
<1>1. CASE /\ FeeStep \/ Tick
           /\ UNCHANGED <<registryVars, lpVars>>
    <2>1. UNCHANGED cto
        BY <1>1, FeeStepKeepsTakeovers DEF Tick
    <2> QED
        BY <1>1, <2>1, RegistryUntouched
<1>2. CASE \E t \in Tokens : proposeCTO(t)
    BY <1>2, ProposeKeeps DEF IInv
<1>3. CASE \/ \E t \in Tokens : graduate(t) \/ earnLPFee(t) \/ collectFees(t)
           \/ \E r \in Recipients : claimLPFees(r)
    BY <1>3, LPKeeps
<1>4. CASE \E id \in ProposalIds : acceptCTO(id)
    BY <1>4, AcceptKeeps DEF IInv
<1>5. CASE \E id \in ProposalIds : cancelCTO(id) \/ expireCTO(id)
    BY <1>5, CloseKeeps
<1>6. CASE \E id \in ProposalIds : executeCTO(id)
    BY <1>6, ExecuteKeeps
<1>7. CASE UNCHANGED ctoVars
    BY <1>7, RegistryUntouched DEF ctoVars, feeVars
<1> QED
    BY <1>1, <1>2, <1>3, <1>4, <1>5, <1>6, <1>7 DEF CTONext

\* The inductive invariant of the registry.
THEOREM RegistryInvariant == CTOSpec => []CTOInv
    BY RegistryStepKeeps, CTOInitHolds, FeeManagerInvariantHere, PTL DEF CTOSpec

\* Only one proposal of a token can take effect, and registry and fee manager
\* agree on the takeover, whatever the number of tokens and proposals.
THEOREM SingleLiveProposal == CTOSpec => []OneLiveProposal
    BY RegistryInvariant, PTL DEF CTOInv

-----------------------------------------------------------------------------
(* What a step may never do *)

\* A takeover of t is the execution of one of its proposals.
LEMMA OnlyExecutionTakesOver ==
    ASSUME IInv, [CTONext]_ctoVars, NEW t \in Tokens, ctoActive'[t], ~ctoActive[t]
    PROVE  \E id \in ProposalIds : id[1] = t /\ executeCTO(id)
<1>1. ~ UNCHANGED cto
    BY DEF cto
<1>2. ~ ((FeeStep \/ Tick) /\ UNCHANGED <<registryVars, lpVars>>)
    BY <1>1, FeeStepKeepsTakeovers DEF Tick
<1>3. ASSUME NEW s \in Tokens
      PROVE  ~ (proposeCTO(s) \/ graduate(s) \/ earnLPFee(s) \/ collectFees(s))
    BY <1>1 DEF proposeCTO, graduate, earnLPFee, collectFees, feeVars
<1>4. ASSUME NEW id \in ProposalIds
      PROVE  ~ (acceptCTO(id) \/ cancelCTO(id) \/ expireCTO(id))
    BY <1>1 DEF acceptCTO, cancelCTO, expireCTO, feeVars
<1>5. ASSUME NEW r \in Recipients PROVE ~claimLPFees(r)
    BY <1>1 DEF claimLPFees, feeVars
<1>6. PICK id \in ProposalIds : executeCTO(id)
    BY <1>1, <1>2, <1>3, <1>4, <1>5 DEF CTONext, ctoVars, feeVars
<1>7. id[1] \in Tokens /\ ctoActive' = [ctoActive EXCEPT ![id[1]] = TRUE]
    BY <1>6 DEF executeCTO, activateCTO, ProposalIds
<1>8. id[1] = t
    BY <1>7 DEF IInv, TypeOK
<1> QED
    BY <1>6, <1>8

\* No takeover without the creator's proposal standing, the treasury's acceptance
\* in time, the delay, the grace period and an unchanged payout.
THEOREM TakeoverIsConsented == CTOSpec => HandoverIsConsented
<1> DEFINE Agreed(t) ==
      LET p == proposals[currentProposalId[t]]
      IN  /\ ctoTreasuryOf'[t] = currentProposalId[t]
          /\ p.state = "Accepted"
          /\ p.acceptedAt - p.createdAt <= AcceptanceWindow
          /\ now - p.acceptedAt >= ExecutionDelay
          /\ now - p.acceptedAt <= ExecutionDelay + ExecutionGracePeriod
          /\ creatorPayoutOf[t] = p.previousRecipient
<1>1. ASSUME IInv, CTOInv, [CTONext]_ctoVars, NEW t \in Tokens,
             ctoActive'[t], ~ctoActive[t]
      PROVE  Agreed(t)
    <2>1. PICK id \in ProposalIds : id[1] = t /\ executeCTO(id)
        BY <1>1, OnlyExecutionTakesOver
    <2>2. /\ proposals[id].state = "Accepted"
          /\ now >= executeAfter(id) /\ now <= executionDeadline(id)
          /\ creatorPayoutOf[t] = proposals[id].previousRecipient
          /\ ctoTreasuryOf' = [ctoTreasuryOf EXCEPT ![t] = id]
        BY <2>1 DEF executeCTO, activateCTO, payoutUnchanged
    <2>3. currentProposalId[t] = id
        BY <1>1, <2>1, <2>2 DEF CTOInv, OneLiveProposal, live, proposalsOf
    <2>4. ctoTreasuryOf'[t] = id
        BY <1>1, <2>2 DEF IInv, TypeOK
    <2>5. proposals[id] \in ProposalType /\ now \in Nat
          /\ proposals[id].acceptedAt <= proposals[id].createdAt + AcceptanceWindow
        BY <1>1, <2>2 DEF CTOInv, CTOTypeOK, AcceptedInTime, IInv, TypeOK
    <2> QED
        BY <2>2, <2>3, <2>4, <2>5 DEF executeAfter, executionDeadline, ProposalType
<1>2. IInv /\ CTOInv /\ [CTONext]_ctoVars
        => \A t \in Tokens : ctoActive'[t] /\ ~ctoActive[t] => Agreed(t)
    BY <1>1
<1> QED
    BY <1>2, FeeManagerInvariantHere, RegistryInvariant, PTL
    DEF CTOSpec, HandoverIsConsented

-----------------------------------------------------------------------------
(* 5. The cutoff of the creator's LP fees *)

\* What LPCutoffRespected says of one token.
LPCutoffOf(t) ==
    IF ctoActive[t]
    THEN /\ LPCreditedTo(t, Users) = lpCutoff[t]
         /\ lpCredited[t][ctoTreasuryOf[t]] + lpUncollected[t]
              = lpEarned[t] - lpCutoff[t]
    ELSE LPCreditedTo(t, Users) + lpUncollected[t] = lpEarned[t]

\* A graduated token has a recipient, a position earns nothing before graduation,
\* and a treasury is credited only by the token it took over.
LPFollowsTheRoute(t) ==
    /\ LPCutoffOf(t)
    /\ graduated[t] => creatorOf[t] # None
    /\ ~graduated[t] => lpUncollected[t] = 0
    /\ \A c \in CTOTreasuries :
         lpCredited[t][c] # 0 => ctoActive[t] /\ ctoTreasuryOf[t] = c

LPCutoffInv == \A t \in Tokens : LPFollowsTheRoute(t)

\* Nothing has been earned or credited yet.
LEMMA LPCutoffInitHolds == CTOInit => LPCutoffInv
<1> SUFFICES ASSUME CTOInit, NEW t \in Tokens PROVE LPFollowsTheRoute(t)
    BY DEF LPCutoffInv
<1>1. \A r \in Users : lpCredited[t][r] = 0
    BY DEF CTOInit, Recipients
<1>2. LPCreditedTo(t, Users) = 0
    BY <1>1, RecipientsFinite, SumOfNothing DEF LPCreditedTo
<1> QED
    BY <1>2 DEF LPFollowsTheRoute, LPCutoffOf, CTOInit, Init, Recipients

\* What one token's LP cutoff depends on.
LEMMA LPTokenUntouched ==
    ASSUME NEW t \in Tokens, LPFollowsTheRoute(t), graduated'[t] = graduated[t],
           creatorOf[t] # None => creatorOf'[t] # None,
           ctoActive'[t] = ctoActive[t], ctoTreasuryOf'[t] = ctoTreasuryOf[t],
           lpUncollected'[t] = lpUncollected[t], lpEarned'[t] = lpEarned[t],
           lpCutoff'[t] = lpCutoff[t], lpCredited'[t] = lpCredited[t]
    PROVE  LPFollowsTheRoute(t)'
<1>1. LPCreditedTo(t, Users)' = LPCreditedTo(t, Users)
    BY DEF LPCreditedTo
<1> QED
    BY <1>1 DEF LPFollowsTheRoute, LPCutoffOf

\* The LP books of a token, with the types the sums need.
LEMMA LPBooksAreNumbers ==
    ASSUME CTOInv, NEW t \in Tokens
    PROVE  /\ lpUncollected[t] \in Nat /\ lpEarned[t] \in Nat /\ lpCutoff[t] \in Nat
           /\ lpCredited[t] \in [Recipients -> Nat]
           /\ LPCreditedTo(t, Users) \in Int
<1>1. /\ lpUncollected[t] \in Nat /\ lpEarned[t] \in Nat /\ lpCutoff[t] \in Nat
      /\ lpCredited[t] \in [Recipients -> Nat]
    BY DEF CTOInv, CTOTypeOK
<1>2. \A r \in Users : lpCredited[t][r] \in Int
    BY <1>1 DEF Recipients
<1> QED
    BY <1>1, <1>2, RecipientsFinite, SumType DEF LPCreditedTo

\* What a collection does to its token: all that waits goes to the payout.
LEMMA CollectCredits ==
    ASSUME CTOInv, NEW t \in Tokens, creatorPayoutOf[t] \in Recipients, collectLPFees(t)
    PROVE  LET r == creatorPayoutOf[t]
               a == lpUncollected[t]
           IN  /\ lpUncollected'[t] = 0
               /\ lpCredited'[t] = [lpCredited[t] EXCEPT ![r] = lpCredited[t][r] + a]
               /\ LPCreditedTo(t, Users)' = LPCreditedTo(t, Users) + (IF r \in Users THEN a ELSE 0)
               /\ \A s \in Tokens \ {t} : /\ lpCredited'[s] = lpCredited[s]
                                          /\ lpUncollected'[s] = lpUncollected[s]
<1> DEFINE r == creatorPayoutOf[t]
           a == lpUncollected[t]
           v == lpCredited[t][r] + a
<1>1. /\ lpCredited[t] \in [Recipients -> Nat] /\ lpCredited[t][r] \in Nat
      /\ v \in Nat /\ a \in Nat
    BY DEF CTOInv, CTOTypeOK
<1>2. lpCredited' = [lpCredited EXCEPT ![t][r] = v]
    BY DEF collectLPFees
<1>3. /\ lpUncollected'[t] = 0
      /\ \A s \in Tokens \ {t} : /\ lpCredited'[s] = lpCredited[s]
                                 /\ lpUncollected'[s] = lpUncollected[s]
    BY <1>2 DEF CTOInv, CTOTypeOK, collectLPFees
<1>4. lpCredited'[t] = [lpCredited[t] EXCEPT ![r] = v]
    BY <1>2 DEF CTOInv, CTOTypeOK
<1>5. v - lpCredited[t][r] = a
    BY <1>1
<1>6. Users \in SUBSET Recipients /\ r \in Recipients
    BY DEF Recipients
<1>7. LPCreditedTo(t, Users)' = LPCreditedTo(t, Users) + (IF r \in Users THEN a ELSE 0)
    <2> HIDE DEF v, r, a
    <2>1. SumFunctionOnSet([lpCredited[t] EXCEPT ![r] = v], Users)
            = SumFunctionOnSet(lpCredited[t], Users)
                + (IF r \in Users THEN v - lpCredited[t][r] ELSE 0)
        BY <1>1, <1>6, RecipientsFinite, SumUpdate
    <2> QED
        BY <1>4, <1>5, <2>1 DEF LPCreditedTo
<1> QED
    BY <1>3, <1>4, <1>7

\* Only a registered token graduates.
LEMMA GraduateKeepsCutoff ==
    ASSUME IInv, CTOInv, CutoffInv, LPCutoffInv, NEW t \in Tokens, graduate(t)
    PROVE  LPCutoffInv'
<1> SUFFICES ASSUME NEW s \in Tokens PROVE LPFollowsTheRoute(s)'
    BY DEF LPCutoffInv
<1>1. UNCHANGED <<creatorOf, ctoActive, ctoTreasuryOf, lpUncollected, lpEarned, lpCutoff,
                  lpCredited>>
    BY DEF graduate, feeVars, payouts, cto
<1>2. LPFollowsTheRoute(s)
    BY DEF LPCutoffInv
<1>3. CASE s # t
    <2>1. graduated'[s] = graduated[s]
        BY <1>3 DEF graduate, CTOInv, CTOTypeOK
    <2> QED
        BY <1>1, <1>2, <2>1, LPTokenUntouched
<1>4. CASE s = t
    <2>1. creatorOf[t] # None /\ graduated'[t] = TRUE
        BY DEF graduate, CTOInv, CTOTypeOK
    <2>2. LPCreditedTo(t, Users)' = LPCreditedTo(t, Users)
        BY <1>1 DEF LPCreditedTo
    <2> QED
        BY <1>1, <1>2, <1>4, <2>1, <2>2 DEF LPFollowsTheRoute, LPCutoffOf
<1> QED
    BY <1>3, <1>4

\* A fee earned waits in the position.
LEMMA EarnKeepsCutoff ==
    ASSUME CTOInv, LPCutoffInv, NEW t \in Tokens, earnLPFee(t)
    PROVE  LPCutoffInv'
<1> SUFFICES ASSUME NEW s \in Tokens PROVE LPFollowsTheRoute(s)'
    BY DEF LPCutoffInv
<1>1. UNCHANGED <<creatorOf, ctoActive, ctoTreasuryOf, graduated, lpCutoff, lpCredited>>
    BY DEF earnLPFee, feeVars, payouts, cto
<1>2. LPFollowsTheRoute(s)
    BY DEF LPCutoffInv
<1>3. CASE s # t
    <2>1. lpEarned'[s] = lpEarned[s] /\ lpUncollected'[s] = lpUncollected[s]
        BY <1>3 DEF earnLPFee, CTOInv, CTOTypeOK
    <2> QED
        BY <1>1, <1>2, <2>1, LPTokenUntouched
<1>4. CASE s = t
    <2>1. /\ graduated[t] /\ lpEarned'[t] = lpEarned[t] + 1
          /\ lpUncollected'[t] = lpUncollected[t] + 1
        BY DEF earnLPFee, CTOInv, CTOTypeOK
    <2>2. LPCreditedTo(t, Users)' = LPCreditedTo(t, Users)
        BY <1>1 DEF LPCreditedTo
    <2>3. ctoActive[t] => lpCredited[t][ctoTreasuryOf[t]] \in Int
        BY LPBooksAreNumbers DEF CTOInv, OneLiveProposal, CTOTypeOK, Recipients
    <2>4. LPCutoffOf(t)'
        <3>1. CASE ctoActive[t]
            BY <1>1, <1>2, <1>4, <2>1, <2>2, <2>3, <3>1, LPBooksAreNumbers
            DEF LPFollowsTheRoute, LPCutoffOf
        <3>2. CASE ~ctoActive[t]
            BY <1>1, <1>2, <1>4, <2>1, <2>2, <3>2, LPBooksAreNumbers
            DEF LPFollowsTheRoute, LPCutoffOf
        <3> QED
            BY <3>1, <3>2
    <2> QED
        BY <1>1, <1>2, <1>4, <2>1, <2>4 DEF LPFollowsTheRoute
<1> QED
    BY <1>3, <1>4

\* A collection credits the treasury after the takeover and a user before it.
LEMMA CollectKeepsCutoff ==
    ASSUME IInv, CTOInv, CutoffInv, LPCutoffInv, NEW t \in Tokens, collectFees(t)
    PROVE  LPCutoffInv'
<1> SUFFICES ASSUME NEW s \in Tokens PROVE LPFollowsTheRoute(s)'
    BY DEF LPCutoffInv
<1> DEFINE r == creatorPayoutOf[t]
           a == lpUncollected[t]
<1>1. /\ UNCHANGED <<creatorOf, ctoActive, ctoTreasuryOf, graduated, lpEarned, lpCutoff>>
      /\ collectLPFees(t) /\ graduated[t]
    BY DEF collectFees, feeVars, payouts, cto
<1>2. LPFollowsTheRoute(t) /\ LPFollowsTheRoute(s)
    BY DEF LPCutoffInv
<1>3. r \in Recipients /\ PayoutsAreUsers(t)
    BY <1>1, <1>2 DEF LPFollowsTheRoute, CutoffInv, FollowsTheRoute, PayoutsAreUsers,
                      IInv, TypeOK
<1>4. /\ lpUncollected'[t] = 0
      /\ lpCredited'[t] = [lpCredited[t] EXCEPT ![r] = lpCredited[t][r] + a]
      /\ LPCreditedTo(t, Users)' = LPCreditedTo(t, Users) + (IF r \in Users THEN a ELSE 0)
      /\ \A i \in Tokens \ {t} : /\ lpCredited'[i] = lpCredited[i]
                                 /\ lpUncollected'[i] = lpUncollected[i]
    BY <1>1, <1>3, CollectCredits
<1>5. CASE s # t
    BY <1>1, <1>2, <1>4, <1>5, LPTokenUntouched
<1>6. CASE s = t /\ ctoActive[t]
    <2>1. r = ctoTreasuryOf[t] /\ r \in CTOTreasuries /\ r \notin Users
        BY <1>3, <1>6 DEF PayoutsAreUsers, IInv, RouteInv, CTOHoldsTheRoute
    <2> HIDE DEF r
    <2>2. lpCredited'[t][r] = lpCredited[t][r] + a /\ lpCredited[t][r] \in Nat
        BY <1>3, <1>4, LPBooksAreNumbers
    <2>3. LPCreditedTo(t, Users)' = LPCreditedTo(t, Users)
        BY <1>4, <2>1, LPBooksAreNumbers
    <2>4. lpCredited'[t][r] + 0 = lpEarned[t] - lpCutoff[t]
        BY <1>2, <1>6, <2>1, <2>2, LPBooksAreNumbers DEF LPFollowsTheRoute, LPCutoffOf
    <2>5. LPCutoffOf(t)'
        BY <1>1, <1>2, <1>4, <1>6, <2>1, <2>3, <2>4 DEF LPFollowsTheRoute, LPCutoffOf
    <2>6. \A c \in CTOTreasuries :
            lpCredited'[t][c] # 0 => ctoActive[t] /\ ctoTreasuryOf[t] = c
        BY <1>2, <1>4, <1>6, <2>1, LPBooksAreNumbers DEF LPFollowsTheRoute, Recipients
    <2> QED
        BY <1>1, <1>2, <1>4, <1>6, <2>5, <2>6 DEF LPFollowsTheRoute
<1>7. CASE s = t /\ ~ctoActive[t]
    <2>1. r \in Users /\ r \notin CTOTreasuries
        BY <1>3, <1>7 DEF PayoutsAreUsers
    <2> HIDE DEF r
    <2>3. LPCreditedTo(t, Users)' = LPCreditedTo(t, Users) + a
        BY <1>4, <2>1
    <2>4. LPCreditedTo(t, Users) + a = lpEarned[t]
        BY <1>2, <1>7 DEF LPFollowsTheRoute, LPCutoffOf
    <2>5. LPCreditedTo(t, Users)' + 0 = lpEarned[t]
        BY <2>3, <2>4, LPBooksAreNumbers
    <2>6. LPCutoffOf(t)'
        BY <1>1, <1>4, <1>7, <2>5 DEF LPCutoffOf
    <2>7. \A c \in CTOTreasuries :
            lpCredited'[t][c] # 0 => ctoActive[t] /\ ctoTreasuryOf[t] = c
        BY <1>2, <1>4, <2>1, LPBooksAreNumbers DEF LPFollowsTheRoute, Recipients
    <2> QED
        BY <1>1, <1>2, <1>4, <1>7, <2>6, <2>7 DEF LPFollowsTheRoute
<1> QED
    BY <1>5, <1>6, <1>7

\* executeCTO collects for the previous recipient at the moment it sets the cutoff.
LEMMA ExecuteKeepsCutoff ==
    ASSUME IInv, CTOInv, CutoffInv, LPCutoffInv, NEW id \in ProposalIds, executeCTO(id)
    PROVE  LPCutoffInv'
<1> SUFFICES ASSUME NEW s \in Tokens PROVE LPFollowsTheRoute(s)'
    BY DEF LPCutoffInv
<1> DEFINE t == id[1]
           r == creatorPayoutOf[t]
           a == lpUncollected[t]
<1>0. t \in Tokens /\ id \in CTOTreasuries
    BY DEF ProposalIds
<1>1. /\ ~ctoActive[t] /\ r # None /\ UNCHANGED <<creatorOf, graduated, lpEarned>>
      /\ ctoActive' = [ctoActive EXCEPT ![t] = TRUE]
      /\ ctoTreasuryOf' = [ctoTreasuryOf EXCEPT ![t] = id]
      /\ lpCutoff' = [lpCutoff EXCEPT ![t] = lpEarned[t]]
      /\ collectBeforeHandover(t)
    BY DEF executeCTO, activateCTO
<1>2. LPFollowsTheRoute(t) /\ LPFollowsTheRoute(s) /\ PayoutsAreUsers(t)
    BY <1>0 DEF LPCutoffInv, CutoffInv, FollowsTheRoute
<1>3. r \in Users /\ r \in Recipients /\ r \notin CTOTreasuries
    BY <1>1, <1>2 DEF PayoutsAreUsers, Recipients
<1> HIDE DEF t
<1>4. /\ lpUncollected'[t] = 0
      /\ LPCreditedTo(t, Users)' = LPCreditedTo(t, Users) + a
      /\ \A c \in CTOTreasuries : lpCredited'[t][c] = lpCredited[t][c]
      /\ \A i \in Tokens \ {t} : /\ lpCredited'[i] = lpCredited[i]
                                 /\ lpUncollected'[i] = lpUncollected[i]
    <2>1. CASE collectLPFees(t)
        <3>1. /\ lpUncollected'[t] = 0
              /\ lpCredited'[t] = [lpCredited[t] EXCEPT ![r] = lpCredited[t][r] + a]
              /\ LPCreditedTo(t, Users)' = LPCreditedTo(t, Users)
                                             + (IF r \in Users THEN a ELSE 0)
              /\ \A i \in Tokens \ {t} : /\ lpCredited'[i] = lpCredited[i]
                                         /\ lpUncollected'[i] = lpUncollected[i]
            BY <1>0, <1>3, <2>1, CollectCredits
        <3> HIDE DEF r, a
        <3>2. \A c \in CTOTreasuries : lpCredited'[t][c] = lpCredited[t][c]
            BY <1>0, <1>3, <3>1, LPBooksAreNumbers DEF Recipients
        <3> QED
            BY <1>3, <3>1, <3>2
    <2>2. CASE ~graduated[t] /\ UNCHANGED <<lpUncollected, creatorLPFeesAccrued, lpCredited>>
        <3>1. a = 0 /\ LPCreditedTo(t, Users)' = LPCreditedTo(t, Users)
            BY <1>2, <2>2 DEF LPFollowsTheRoute, LPCreditedTo
        <3> QED
            BY <1>0, <2>2, <3>1, LPBooksAreNumbers
    <2> QED
        BY <1>1, <2>1, <2>2 DEF collectBeforeHandover
<1>5. CASE s # t
    <2>1. /\ ctoActive'[s] = ctoActive[s] /\ ctoTreasuryOf'[s] = ctoTreasuryOf[s]
          /\ lpCutoff'[s] = lpCutoff[s]
        BY <1>1, <1>5 DEF CTOInv, CTOTypeOK, IInv, TypeOK
    <2> QED
        BY <1>1, <1>2, <1>4, <1>5, <2>1, LPTokenUntouched
<1>6. CASE s = t
    <2>1. /\ ctoActive'[t] /\ ctoTreasuryOf'[t] = id /\ lpCutoff'[t] = lpEarned[t]
        BY <1>0, <1>1 DEF CTOInv, CTOTypeOK, IInv, TypeOK
    <2>2. \A c \in CTOTreasuries : lpCredited'[t][c] = 0
        BY <1>1, <1>2, <1>4 DEF LPFollowsTheRoute
    <2>3. LPCreditedTo(t, Users)' = lpEarned[t]
        BY <1>1, <1>2, <1>4 DEF LPFollowsTheRoute, LPCutoffOf
    <2>4. lpCredited'[t][id] + 0 = lpEarned[t] - lpEarned[t]
        BY <1>0, <2>2, LPBooksAreNumbers
    <2>5. LPCutoffOf(t)'
        BY <1>1, <1>4, <2>1, <2>3, <2>4 DEF LPCutoffOf
    <2> QED
        BY <1>1, <1>2, <1>4, <1>6, <2>2, <2>5 DEF LPFollowsTheRoute
<1> QED
    BY <1>5, <1>6

\* A step that leaves the LP books and the takeovers alone, and unregisters no token.
LEMMA LPBooksUntouched ==
    ASSUME LPCutoffInv, UNCHANGED <<graduated, lpUncollected, lpEarned, lpCutoff, lpCredited>>,
           UNCHANGED cto, \A t \in Tokens : creatorOf[t] # None => creatorOf'[t] # None
    PROVE  LPCutoffInv'
<1> SUFFICES ASSUME NEW t \in Tokens PROVE LPFollowsTheRoute(t)'
    BY DEF LPCutoffInv
<1> QED
    BY LPTokenUntouched DEF LPCutoffInv, cto

\* Registration is never undone.
LEMMA StaysRegistered ==
    ASSUME IInv, FeeStep, NEW t \in Tokens, creatorOf[t] # None
    PROVE  creatorOf'[t] # None
<1>1. CASE UNCHANGED creatorOf
    BY <1>1
<1>2. ASSUME NEW s \in Tokens, NEW u \in Users, registerToken(s, u)
      PROVE  creatorOf'[t] # None
    BY <1>2 DEF registerToken, IInv, TypeOK, Recipients
<1>3. ASSUME NEW s \in Tokens,
             \/ \E fee \in FeeSplits : depositFees(s, fee)
             \/ acceptCreatorPayout(s) \/ claimCreatorFees(s)
             \/ \E r \in Recipients : claimCheckpointedCreatorFees(s, r)
      PROVE  UNCHANGED creatorOf
    BY <1>3 DEF depositFees, acceptCreatorPayout, claimCreatorFees,
                claimCheckpointedCreatorFees, payouts
<1> QED
    BY <1>1, <1>2, <1>3, OtherStepsLeaveTheRoute

\* The invariants of the fee manager hold here as well.
LEMMA FeeManagerCutoffHere == CTOSpec => []CutoffInv
    BY RegistryUsesFeeManager, FollowsTheRouteHolds, PTL

\* LP fees earned before a takeover are credited to users and those earned after it
\* to the token's treasury, whoever collects and whenever, for every number of tokens,
\* users and proposals.
THEOREM LPCutoffHolds == CTOSpec => []LPCutoffRespected
<1>1. ASSUME IInv, CTOInv, CutoffInv, LPCutoffInv, [CTONext]_ctoVars PROVE LPCutoffInv'
    <2>1. CASE (FeeStep \/ Tick) /\ UNCHANGED <<registryVars, lpVars>>
        <3>1. UNCHANGED cto
            BY <2>1, FeeStepKeepsTakeovers DEF Tick
        <3>2. \A t \in Tokens : creatorOf[t] # None => creatorOf'[t] # None
            BY <1>1, <2>1, StaysRegistered DEF Tick, payouts
        <3> QED
            BY <1>1, <2>1, <3>1, <3>2, LPBooksUntouched DEF lpVars
    <2>2. CASE \/ \E t \in Tokens : proposeCTO(t)
               \/ \E id \in ProposalIds : acceptCTO(id) \/ cancelCTO(id) \/ expireCTO(id)
               \/ \E r \in Recipients : claimLPFees(r)
               \/ UNCHANGED ctoVars
        <3>1. /\ UNCHANGED <<graduated, lpUncollected, lpEarned, lpCutoff, lpCredited>>
              /\ UNCHANGED feeVars
            BY <2>2 DEF proposeCTO, acceptCTO, cancelCTO, expireCTO, claimLPFees, ctoVars, lpVars
        <3> QED
            BY <1>1, <3>1, LPBooksUntouched DEF feeVars, payouts
    <2>3. CASE \E t \in Tokens : graduate(t)
        BY <1>1, <2>3, GraduateKeepsCutoff
    <2>4. CASE \E t \in Tokens : earnLPFee(t)
        BY <1>1, <2>4, EarnKeepsCutoff
    <2>5. CASE \E t \in Tokens : collectFees(t)
        BY <1>1, <2>5, CollectKeepsCutoff
    <2>6. CASE \E id \in ProposalIds : executeCTO(id)
        BY <1>1, <2>6, ExecuteKeepsCutoff
    <2> QED
        BY <1>1, <2>1, <2>2, <2>3, <2>4, <2>5, <2>6 DEF CTONext
<1>2. LPCutoffInv => LPCutoffRespected
    BY DEF LPCutoffInv, LPFollowsTheRoute, LPCutoffOf, LPCutoffRespected
<1> QED
    BY <1>1, <1>2, LPCutoffInitHolds, FeeManagerInvariantHere, FeeManagerCutoffHere,
       RegistryInvariant, PTL DEF CTOSpec

-----------------------------------------------------------------------------
(* 6. The page *)

\* The nonce of a token counts its proposals, and the last one is the current one.
NonceInv ==
    \A t \in Tokens :
      /\ currentProposalId[t] = IF tokenNonce[t] = 0 THEN None ELSE <<t, tokenNonce[t]>>
      /\ \A n \in 1 .. MaxNonce : proposals[<<t, n>>].state # "None" <=> n <= tokenNonce[t]

\* What a step may do to a proposal.
Moved(id) ==
    LET p == proposals[id]
        q == proposals'[id]
    IN  \/ q = p
        \/ p.state = "None" /\ q.state = "Proposed"
        \/ /\ p.state = "Proposed" /\ q.state = "Accepted"
           /\ q.createdAt = p.createdAt /\ now <= p.createdAt + AcceptanceWindow
        \/ p.state \in {"Proposed", "Accepted"} /\ q.state = "Cancelled"
        \/ p.state \in {"Proposed", "Accepted"} /\ q.state = "Expired"
        \/ p.state = "Accepted" /\ q.state = "Active"

RegistryNow == IInv /\ CTOInv /\ NonceInv

\* A new proposal takes the next nonce; time, the nonces and the proposals move on.
LEMMA RegistryMoves ==
    ASSUME RegistryNow, [CTONext]_ctoVars
    PROVE  /\ RegistryNow' /\ now <= now'
           /\ \A t \in Tokens : tokenNonce[t] <= tokenNonce'[t]
           /\ \A id \in ProposalIds : Moved(id)
<1> USE DEF CTOInv, CTOTypeOK
<1>0. /\ proposals \in [ProposalIds -> ProposalType]
      /\ tokenNonce \in [Tokens -> 0 .. MaxNonce]
      /\ currentProposalId \in [Tokens -> ProposalIds \union {None}] /\ now \in Nat
    BY DEF RegistryNow, IInv, TypeOK
<1>1. IInv' /\ CTOInv'
    BY NextKeeps, RegistryStepKeeps, RegistryStepIsFeeStep DEF RegistryNow
<1>2. CASE UNCHANGED registryVars /\ (Tick \/ UNCHANGED now)
    BY <1>0, <1>1, <1>2 DEF registryVars, RegistryNow, NonceInv, Moved, Tick
<1>3. ASSUME NEW t \in Tokens, proposeCTO(t)
      PROVE  /\ NonceInv' /\ now' = now /\ \A s \in Tokens : tokenNonce[s] <= tokenNonce'[s]
             /\ \A id \in ProposalIds : Moved(id)
    <2> DEFINE n == tokenNonce[t] + 1
               new == [previousRecipient |-> creatorPayoutOf[t], createdAt |-> now,
                       acceptedAt |-> 0, state |-> "Proposed"]
    <2>1. /\ n \in 1 .. MaxNonce /\ new.state = "Proposed"
          /\ tokenNonce' = [tokenNonce EXCEPT ![t] = n]
          /\ proposals' = [proposals EXCEPT ![<<t, n>>] = new]
          /\ currentProposalId' = [currentProposalId EXCEPT ![t] = <<t, n>>]
          /\ now' = now
        BY <1>0, <1>3 DEF proposeCTO, feeVars
    <2> HIDE DEF new
    <2>2. <<t, n>> \in ProposalIds /\ proposals[<<t, n>>].state = "None"
        BY <1>0, <2>1 DEF ProposalIds, RegistryNow, NonceInv
    <2>3. NonceInv'
        <3> SUFFICES ASSUME NEW s \in Tokens, NEW m \in 1 .. MaxNonce
                     PROVE  /\ currentProposalId'[s] = IF tokenNonce'[s] = 0 THEN None
                                                       ELSE <<s, tokenNonce'[s]>>
                            /\ proposals'[<<s, m>>].state # "None" <=> m <= tokenNonce'[s]
            BY <2>1 DEF NonceInv
        <3>1. <<s, m>> \in ProposalIds
            BY DEF ProposalIds
        <3>2. CASE s # t
            BY <1>0, <2>1, <3>1, <3>2 DEF RegistryNow, NonceInv
        <3>3. CASE s = t
            <4>1. proposals'[<<s, m>>].state # "None" <=> m <= n
                <5>1. CASE m = n
                    BY <1>0, <2>1, <2>2, <3>3, <5>1
                <5>2. CASE m # n
                    <6>1. proposals'[<<s, m>>] = proposals[<<s, m>>]
                        BY <1>0, <2>1, <3>1, <3>3, <5>2
                    <6>2. proposals[<<s, m>>].state # "None" <=> m <= tokenNonce[t]
                        BY <3>3 DEF RegistryNow, NonceInv
                    <6> QED
                        BY <1>0, <5>2, <6>1, <6>2
                <5> QED
                    BY <5>1, <5>2
            <4> QED
                BY <1>0, <2>1, <3>3, <4>1
        <3> QED
            BY <3>2, <3>3
    <2>4. \A id \in ProposalIds : Moved(id)
        BY <1>0, <2>1, <2>2 DEF Moved
    <2> QED
        BY <1>0, <2>1, <2>3, <2>4
<1>4. ASSUME NEW id \in ProposalIds,
             acceptCTO(id) \/ cancelCTO(id) \/ expireCTO(id) \/ executeCTO(id)
      PROVE  /\ NonceInv' /\ now' = now /\ tokenNonce' = tokenNonce
             /\ \A i \in ProposalIds : Moved(i)
    <2>1. proposals[id] \in ProposalType /\ proposals[id].state \in {"Proposed", "Accepted"}
        BY <1>0, <1>4 DEF acceptCTO, cancelCTO, expireCTO, timeIsUp, executeCTO
    <2>2. Moved(id)
        <3>1. CASE acceptCTO(id)
            BY <1>0, <2>1, <3>1 DEF acceptCTO, Moved, ProposalType
        <3>2. CASE cancelCTO(id) \/ expireCTO(id)
            BY <1>0, <2>1, <3>2 DEF cancelCTO, expireCTO, timeIsUp, Moved, ProposalType
        <3>3. CASE executeCTO(id)
            BY <1>0, <2>1, <3>3 DEF executeCTO, Moved, ProposalType
        <3> QED
            BY <1>4, <3>1, <3>2, <3>3
    <2>3. \A i \in ProposalIds : i # id => proposals'[i] = proposals[i]
        BY <1>0, <1>4 DEF acceptCTO, cancelCTO, expireCTO, executeCTO
    <2>4. UNCHANGED <<now, tokenNonce, currentProposalId>>
        BY <1>4 DEF acceptCTO, cancelCTO, expireCTO, executeCTO, activateCTO, feeVars
    <2>5. proposals[id].state # "None" /\ proposals'[id].state # "None"
        BY <2>1, <2>2 DEF Moved
    <2>6. NonceInv'
        <3> SUFFICES ASSUME NEW s \in Tokens, NEW m \in 1 .. MaxNonce
                     PROVE  proposals'[<<s, m>>].state # "None" <=> m <= tokenNonce[s]
            BY <2>4 DEF RegistryNow, NonceInv
        <3>1. <<s, m>> \in ProposalIds
            BY DEF ProposalIds
        <3>2. proposals[<<s, m>>].state # "None" <=> m <= tokenNonce[s]
            BY DEF RegistryNow, NonceInv
        <3> QED
            BY <2>3, <2>5, <3>1, <3>2
    <2> QED
        BY <2>2, <2>3, <2>4, <2>6 DEF Moved
<1>5. CASE \/ \E t \in Tokens : graduate(t) \/ earnLPFee(t) \/ collectFees(t)
           \/ \E r \in Recipients : claimLPFees(r)
           \/ UNCHANGED ctoVars
    BY <1>2, <1>5 DEF graduate, earnLPFee, collectFees, claimLPFees, ctoVars, feeVars
<1>6. CASE (FeeStep \/ Tick) /\ UNCHANGED <<registryVars, lpVars>>
    <2>1. FeeStep => UNCHANGED now
        BY DEF FeeStep, registerToken, depositFees, proposeCreatorPayout, acceptCreatorPayout,
               cancelCreatorPayout, claimCreatorFees, payCreator, claimCheckpointedCreatorFees,
               fundCommunityVault, fundTraderRewardsVault, setFactoryOnce,
               bindEcosystemVaultsOnce, proposeTreasury, acceptTreasury,
               cancelTreasuryProposal, transferOwnership, transferOwnershipTo,
               acceptOwnership, renounceOwnership, claimProtocolFees, claimReturns,
               ForceNative
    <2> QED
        BY <1>2, <1>6, <2>1
<1> QED
    BY <1>0, <1>1, <1>3, <1>4, <1>5, <1>6 DEF CTONext, RegistryNow

\* A snapshot is of the past: the proposal it shows has moved on since, if at all, and
\* what had run out by the time read in the first round was not accepted any more.
SnapshotIsPast(s) ==
    /\ s.id \in Ids \cup {None} /\ s.time \in Nat /\ s.proposal \in ProposalType
    /\ s.time <= now
    /\ s.id # None =>
         LET p == s.proposal
             q == proposals[s.id]
         IN  /\ p.state # "None" /\ q.state # "None"
             /\ p.state = "Proposed" /\ q.state = "Proposed" => q.createdAt = p.createdAt
             /\ p.state = "Proposed" /\ s.time > p.createdAt + AcceptanceWindow =>
                  q.state # "Accepted"
             /\ p.state = "Accepted" => q.state # "Proposed"
             /\ p.state = "Accepted" /\ q.state = "Accepted" => q.acceptedAt = p.acceptedAt

ReadingIsPast(r) ==
    /\ r.id \in Ids \cup {None} /\ r.time \in Nat /\ r.time <= now
    /\ r.id # None => proposals[r.id].state # "None"

\* The action under way is one the page can offer.
JobType ==
    /\ job \in Job \cup {None}
    /\ job # None /\ job.action # "propose" => job.id # None

\* A mined action has its effect, and so has the one last confirmed.
Effective ==
    /\ At("mined") => job.id # None /\ proposals[job.id].state \in EffectOf(job.action)
    /\ message # None /\ message.ran =>
         /\ message.action \in Actions /\ message.id \in Ids
         /\ proposals[message.id].state \in EffectOf(message.action)

\* What is read after an action is confirmed is not older than its effect, and the
\* page is not released by anything else.
ReadsFollow ==
    /\ message # None => job = None \/ At("refresh")
    /\ message # None /\ message.ran /\ reading # None =>
         reading.id # None /\ reading.id[2] >= message.id[2]
    /\ ConfirmedActionIsShown

PanelInv ==
    /\ JobType /\ Effective /\ ReadsFollow
    /\ snapshot # None => SnapshotIsPast(snapshot)
    /\ reading # None => ReadingIsPast(reading)

\* The proposals the page may show are the registry's, of its own token.
LEMMA IdsAreProposals ==
    /\ Ids \subseteq ProposalIds
    /\ \A i \in Ids : i[1] = Page /\ i[2] \in 1 .. MaxNonce /\ i = <<Page, i[2]>>
BY PageConstants DEF Ids, ProposalIds

\* What has its effect keeps it.
LEMMA EffectsLast ==
    ASSUME NEW id \in ProposalIds, Moved(id), NEW a \in Actions,
           proposals'[id].state \in ProposalState, proposals[id].state \in EffectOf(a)
    PROVE  proposals'[id].state \in EffectOf(a)
BY DEF Moved, EffectOf, Actions, ProposalState

\* A snapshot stays one of the past while the registry moves.
LEMMA SnapshotStaysPast ==
    ASSUME RegistryNow, [CTONext]_ctoVars, UNCHANGED snapshot, SnapshotIsPast(snapshot)
    PROVE  SnapshotIsPast(snapshot)'
<1>1. /\ now <= now' /\ \A id \in ProposalIds : Moved(id)
      /\ proposals \in [ProposalIds -> ProposalType] /\ now \in Nat
      /\ proposals' \in [ProposalIds -> ProposalType] /\ now' \in Nat
    BY RegistryMoves DEF RegistryNow, IInv, TypeOK, CTOInv, CTOTypeOK
<1> DEFINE s == snapshot
<1>2. /\ s.id \in Ids \cup {None} /\ s.time \in Nat /\ s.proposal \in ProposalType
      /\ s.time <= now'
    BY <1>1 DEF SnapshotIsPast
<1>3. CASE s.id = None
    BY <1>2, <1>3 DEF SnapshotIsPast
<1>4. CASE s.id # None
    <2>1. s.id \in ProposalIds /\ Moved(s.id)
        BY <1>1, <1>2, <1>4, IdsAreProposals
    <2> DEFINE p == s.proposal
               q == proposals[s.id]
               r == proposals'[s.id]
    <2>2. q \in ProposalType /\ r \in ProposalType /\ AcceptanceWindow \in Nat
        BY <1>1, <2>1, RegistryConstants
    <2>3. /\ p.state # "None" /\ q.state # "None" /\ s.time <= now
          /\ p.state = "Proposed" /\ q.state = "Proposed" => q.createdAt = p.createdAt
          /\ p.state = "Proposed" /\ s.time > p.createdAt + AcceptanceWindow =>
               q.state # "Accepted"
          /\ p.state = "Accepted" => q.state # "Proposed"
          /\ p.state = "Accepted" /\ q.state = "Accepted" => q.acceptedAt = p.acceptedAt
        BY <1>4 DEF SnapshotIsPast
    <2>4. p.createdAt \in Nat /\ q.createdAt \in Nat
        BY <1>2, <2>2 DEF ProposalType
    <2>5. \/ r = q
          \/ /\ q.state = "Proposed" /\ r.state = "Accepted"
             /\ now <= q.createdAt + AcceptanceWindow
          \/ r.state \in {"Cancelled", "Expired", "Active"}
        BY <2>1, <2>3 DEF Moved
    <2> HIDE DEF p, q, r
    <2>6. /\ p.state # "None" /\ r.state # "None"
          /\ p.state = "Proposed" /\ r.state = "Proposed" => r.createdAt = p.createdAt
          /\ p.state = "Proposed" /\ s.time > p.createdAt + AcceptanceWindow =>
               r.state # "Accepted"
          /\ p.state = "Accepted" => r.state # "Proposed"
          /\ p.state = "Accepted" /\ r.state = "Accepted" => r.acceptedAt = p.acceptedAt
        <3>1. CASE r = q
            BY <2>3, <3>1
        <3>2. CASE /\ q.state = "Proposed" /\ r.state = "Accepted"
                   /\ now <= q.createdAt + AcceptanceWindow
            <4>1. p.state # "Accepted"
                BY <2>3, <3>2
            <4>2. p.state = "Proposed" => s.time <= p.createdAt + AcceptanceWindow
                BY <1>1, <1>2, <2>2, <2>3, <2>4, <3>2
            <4> QED
                BY <1>2, <2>2, <2>3, <2>4, <3>2, <4>1, <4>2
        <3>3. CASE r.state \in {"Cancelled", "Expired", "Active"}
            BY <2>3, <3>3
        <3> QED
            BY <2>5, <3>1, <3>2, <3>3
    <2> QED
        BY <1>2, <1>4, <2>6 DEF SnapshotIsPast, p, r
<1> QED
    BY <1>3, <1>4

\* So does a reading.
LEMMA ReadingStaysPast ==
    ASSUME RegistryNow, [CTONext]_ctoVars, UNCHANGED reading, ReadingIsPast(reading)
    PROVE  ReadingIsPast(reading)'
<1>1. (\A id \in ProposalIds : Moved(id)) /\ now <= now'
    BY RegistryMoves
<1>2. reading.id # None => Moved(reading.id) /\ proposals[reading.id].state # "None"
    BY <1>1, IdsAreProposals DEF ReadingIsPast
<1>3. reading.id # None => proposals'[reading.id].state # "None"
    BY <1>2 DEF Moved
<1>4. /\ reading.id \in Ids \cup {None} /\ reading.time \in Nat /\ reading.time <= now
    BY DEF ReadingIsPast
<1>5. now \in Nat /\ now' \in Nat
    BY RegistryMoves DEF RegistryNow, IInv, TypeOK
<1>6. reading.time <= now'
    BY <1>1, <1>4, <1>5
<1> QED
    BY <1>3, <1>4, <1>6 DEF ReadingIsPast

\* The registry moves under the page.
LEMMA RegistryKeepsPanel ==
    ASSUME RegistryNow, PanelInv, [CTONext]_ctoVars, UNCHANGED panelVars
    PROVE  PanelInv'
<1>1. /\ RegistryNow' /\ now <= now' /\ \A id \in ProposalIds : Moved(id)
    BY RegistryMoves
<1>2. /\ proposals \in [ProposalIds -> ProposalType] /\ now \in Nat
      /\ proposals' \in [ProposalIds -> ProposalType] /\ now' \in Nat
    BY <1>1 DEF RegistryNow, IInv, TypeOK, CTOInv, CTOTypeOK
<1>3. UNCHANGED <<snapshot, reading, job, message>>
    BY DEF panelVars
<1>4. JobType' /\ ReadsFollow'
    BY <1>3 DEF PanelInv, JobType, ReadsFollow, At, ConfirmedActionIsShown
<1>5. Effective'
    <2>1. \A id \in ProposalIds, a \in Actions :
            proposals[id].state \in EffectOf(a) => proposals'[id].state \in EffectOf(a)
        BY <1>1, <1>2, EffectsLast DEF ProposalType
    <2> QED
        <3>1. ASSUME At("mined")'
              PROVE  job'.id # None /\ proposals'[job'.id].state \in EffectOf(job'.action)
            <4>1. At("mined") /\ job \in Job /\ job.id # None
                BY <1>3, <3>1 DEF PanelInv, Effective, JobType, At
            <4>2. job.id \in ProposalIds /\ job.action \in Actions
                BY <4>1, IdsAreProposals DEF Job
            <4> QED
                BY <1>3, <2>1, <4>1, <4>2 DEF PanelInv, Effective
        <3>2. ASSUME message # None, message.ran
              PROVE  /\ message.action \in Actions /\ message.id \in Ids
                     /\ proposals'[message.id].state \in EffectOf(message.action)
            <4>1. message.id \in ProposalIds /\ message.action \in Actions
                BY <3>2, IdsAreProposals DEF PanelInv, Effective
            <4> QED
                BY <2>1, <3>2, <4>1 DEF PanelInv, Effective
        <3> QED
            BY <1>3, <3>1, <3>2 DEF Effective
<1>6. snapshot # None => SnapshotIsPast(snapshot)'
    BY <1>3, SnapshotStaysPast DEF PanelInv
<1>7. reading # None => ReadingIsPast(reading)'
    BY <1>3, ReadingStaysPast DEF PanelInv
<1> QED
    BY <1>3, <1>4, <1>5, <1>6, <1>7 DEF PanelInv

\* A mined action is a step of the registry and has its effect.
LEMMA MinedActs ==
    ASSUME RegistryNow, PanelInv, Mined
    PROVE  CTONext /\ PanelInv'
<1>1. /\ job \in Job
      /\ job.action # "propose" => job.id # None
      /\ job.stage = "receipt" /\ job # None
    BY DEF Mined, At, PanelInv, JobType
<1>2. message = None
    BY <1>1 DEF PanelInv, ReadsFollow, At
<1>3. /\ proposals \in [ProposalIds -> ProposalType]
      /\ tokenNonce \in [Tokens -> 0 .. MaxNonce] /\ Page \in Tokens
    BY PageConstants DEF RegistryNow, CTOInv, CTOTypeOK
<1> DEFINE new == <<Page, tokenNonce[Page] + 1>>
           id == IF job.action = "propose" THEN new ELSE job.id
           mined == [job EXCEPT !.stage = "mined", !.id = id]
<1>4. /\ CTONext
      /\ id \in Ids /\ proposals'[id].state \in EffectOf(job.action)
    <2>1. CASE job.action = "propose"
        <3>1. proposeCTO(Page)
            BY <2>1 DEF Mined, Call
        <3>2. new \in Ids /\ new \in ProposalIds
            BY <1>3, <3>1 DEF proposeCTO, Ids, ProposalIds
        <3>3. proposals'[new].state = "Proposed"
            BY <1>3, <3>1, <3>2 DEF proposeCTO
        <3> QED
            BY <1>3, <2>1, <3>1, <3>2, <3>3 DEF CTONext, EffectOf, ProposalState
    <2>2. CASE job.action = "accept"
        <3>1. job.id \in Ids /\ job.id \in ProposalIds /\ acceptCTO(job.id)
            BY <1>1, <2>2, IdsAreProposals DEF Mined, Call, Job
        <3>2. proposals'[job.id].state = "Accepted"
            BY <1>3, <3>1 DEF acceptCTO, ProposalType
        <3> QED
            BY <2>2, <3>1, <3>2 DEF CTONext, EffectOf, ProposalState
    <2>3. CASE job.action = "cancel"
        <3>1. job.id \in Ids /\ job.id \in ProposalIds /\ cancelCTO(job.id)
            BY <1>1, <2>3, IdsAreProposals DEF Mined, Call, Job
        <3>2. proposals'[job.id].state = "Cancelled"
            BY <1>3, <3>1 DEF cancelCTO, ProposalType
        <3> QED
            BY <2>3, <3>1, <3>2 DEF CTONext, EffectOf
    <2>4. CASE job.action = "expire"
        <3>1. job.id \in Ids /\ job.id \in ProposalIds /\ expireCTO(job.id)
            BY <1>1, <2>4, IdsAreProposals DEF Mined, Call, Job
        <3>2. proposals'[job.id].state = "Expired"
            BY <1>3, <3>1 DEF expireCTO, ProposalType
        <3> QED
            BY <2>4, <3>1, <3>2 DEF CTONext, EffectOf
    <2>5. CASE job.action = "execute"
        <3>1. job.id \in Ids /\ job.id \in ProposalIds /\ executeCTO(job.id)
            BY <1>1, <2>5, IdsAreProposals DEF Mined, Call, Job
        <3>2. proposals'[job.id].state = "Active"
            BY <1>3, <3>1 DEF executeCTO, ProposalType
        <3> QED
            BY <2>5, <3>1, <3>2 DEF CTONext, EffectOf
    <2> QED
        BY <1>1, <2>1, <2>2, <2>3, <2>4, <2>5 DEF Actions, Job
<1>5. job' = mined /\ UNCHANGED <<snapshot, reading, message>>
    BY DEF Mined, KeepPage
<1>6. /\ mined \in Job
      /\ mined.stage = "mined" /\ mined.id = id /\ mined.action = job.action
    BY <1>1, <1>4 DEF Job, Stages
<1> HIDE DEF mined, id
<1>7. id # None
    BY <1>4, IdsAreProposals, RegistryConstants
<1>8. JobType' /\ Effective' /\ ReadsFollow'
    BY <1>1, <1>2, <1>4, <1>5, <1>6, <1>7
    DEF JobType, Effective, ReadsFollow, At, ConfirmedActionIsShown
<1>9. /\ snapshot # None => SnapshotIsPast(snapshot)'
      /\ reading # None => ReadingIsPast(reading)'
    BY <1>4, <1>5, SnapshotStaysPast, ReadingStaysPast DEF PanelInv
<1> QED
    BY <1>4, <1>5, <1>8, <1>9 DEF PanelInv

\* The current proposal of the page's token is its last, and is stored.
LEMMA CurrentIsShown ==
    ASSUME RegistryNow
    PROVE  /\ proposals \in [ProposalIds -> ProposalType] /\ now \in Nat
           /\ currentProposalId[Page] \in Ids \cup {None}
           /\ currentProposalId[Page] # None => proposals[currentProposalId[Page]].state # "None"
           /\ \A id \in Ids : proposals[id].state # "None" =>
                currentProposalId[Page] # None /\ currentProposalId[Page][2] >= id[2]
<1> DEFINE n == tokenNonce[Page]
<1>1. /\ proposals \in [ProposalIds -> ProposalType] /\ now \in Nat
      /\ n \in 0 .. MaxNonce /\ MaxNonce \in Nat /\ Page \in Tokens
    BY PageConstants, RegistryConstants
    DEF RegistryNow, IInv, TypeOK, CTOInv, CTOTypeOK
<1>2. currentProposalId[Page] = IF n = 0 THEN None ELSE <<Page, n>>
    BY <1>1 DEF RegistryNow, NonceInv
<1>3. \A m \in 1 .. MaxNonce : proposals[<<Page, m>>].state # "None" <=> m <= n
    BY <1>1 DEF RegistryNow, NonceInv
<1> HIDE DEF n
<1>4. CASE n = 0
    <2>1. currentProposalId[Page] = None
        BY <1>2, <1>4
    <2>2. ASSUME NEW id \in Ids, proposals[id].state # "None" PROVE FALSE
        BY <1>1, <1>3, <1>4, <2>2, IdsAreProposals
    <2> QED
        BY <1>1, <2>1, <2>2
<1>5. CASE n # 0
    <2>1. currentProposalId[Page] = <<Page, n>> /\ n \in 1 .. MaxNonce
        BY <1>1, <1>2, <1>5
    <2>2. <<Page, n>> \in Ids /\ proposals[<<Page, n>>].state # "None" /\ <<Page, n>>[2] = n
        BY <1>1, <1>3, <2>1 DEF Ids
    <2>3. <<Page, n>> # None
        BY <2>2, IdsAreProposals, RegistryConstants
    <2>4. ASSUME NEW id \in Ids, proposals[id].state # "None" PROVE n >= id[2]
        BY <1>1, <1>3, <2>4, IdsAreProposals
    <2> HIDE DEF Ids
    <2> QED
        BY <1>1, <2>1, <2>2, <2>3, <2>4
<1> QED
    BY <1>4, <1>5

\* What was confirmed concerns a proposal that is stored.
LEMMA ConfirmedIsStored ==
    ASSUME Effective, message # None, message.ran
    PROVE  message.id \in Ids /\ proposals[message.id].state # "None"
BY DEF Effective, EffectOf, Actions, ProposalState

\* A read: what it brings is what is there now.
LEMMA ReadsKeepPanel ==
    ASSUME RegistryNow, PanelInv, UNCHANGED ctoVars, StartRead \/ FinishRead \/ ReadFails
    PROVE  PanelInv'
<1> USE DEF PanelInv
<1>1. UNCHANGED <<proposals, now>>
    BY DEF ctoVars, feeVars, registryVars
<1>2. snapshot # None => SnapshotIsPast(snapshot)
    OBVIOUS
<1>3. CASE StartRead
    <2>1. /\ reading = None /\ UNCHANGED <<snapshot, job, message>>
          /\ reading' = [id |-> currentProposalId[Page], time |-> now]
        BY <1>3 DEF StartRead
    <2>2. ReadingIsPast(reading)'
        BY <1>1, <2>1, CurrentIsShown DEF ReadingIsPast
    <2>3. JobType' /\ Effective'
        BY <1>1, <2>1 DEF JobType, Effective, At
    <2>4. message # None /\ message.ran => reading'.id # None /\ reading'.id[2] >= message.id[2]
        BY <2>1, CurrentIsShown, ConfirmedIsStored
    <2>5. ReadsFollow'
        BY <2>1, <2>4 DEF ReadsFollow, At, ConfirmedActionIsShown
    <2>6. snapshot' # None => SnapshotIsPast(snapshot)'
        BY <1>1, <2>1 DEF SnapshotIsPast
    <2> QED
        BY <2>2, <2>3, <2>5, <2>6
<1>4. CASE FinishRead
    <2> DEFINE shown == [id |-> reading.id, time |-> reading.time,
                         proposal |-> ProposalOf(reading.id)]
    <2>1. /\ reading # None /\ ReadingIsPast(reading) /\ snapshot' = shown
          /\ reading' = None /\ message' = message /\ job' \in {None, job}
          /\ At("refresh") => job' = None
        BY <1>4 DEF FinishRead, ReleasePage, At
    <2>2. /\ shown.id = reading.id /\ shown.time = reading.time
          /\ shown.proposal = ProposalOf(reading.id)
        OBVIOUS
    <2> HIDE DEF shown
    <2>3. /\ ProposalOf(reading.id) \in ProposalType
          /\ reading.id # None => ProposalOf(reading.id) = proposals[reading.id]
        <3>1. NoProposal \in ProposalType
            BY DEF NoProposal, ProposalType, ProposalState
        <3> QED
            BY <2>1, <3>1, CurrentIsShown, IdsAreProposals DEF ReadingIsPast, ProposalOf
    <2>4. SnapshotIsPast(snapshot)'
        BY <1>1, <2>1, <2>2, <2>3 DEF SnapshotIsPast, ReadingIsPast
    <2>5. JobType' /\ Effective'
        BY <1>1, <2>1 DEF JobType, Effective, At
    <2>6. ReadsFollow'
        <3> SUFFICES ASSUME message # None
                     PROVE  job' = None /\ ConfirmedActionIsShown'
            BY <2>1 DEF ReadsFollow, ConfirmedActionIsShown
        <3>1. job' = None
            BY <2>1 DEF ReadsFollow
        <3> SUFFICES ASSUME message.ran PROVE ConfirmedActionIsShown'
            BY <2>1, <3>1 DEF ConfirmedActionIsShown
        <3>2. /\ reading.id # None /\ reading.id[2] >= message.id[2]
              /\ reading.id \in Ids /\ message.id \in Ids /\ message.action \in Actions
            BY <2>1 DEF ReadsFollow, Effective, ReadingIsPast
        <3>3. reading.id[2] > message.id[2] \/ reading.id = message.id
            BY <3>2, IdsAreProposals
        <3>4. proposals[message.id].state \in EffectOf(message.action)
            BY DEF Effective
        <3> QED
            BY <2>1, <2>2, <2>3, <3>1, <3>2, <3>3, <3>4 DEF ConfirmedActionIsShown, EffectOf
    <2> QED
        BY <2>1, <2>4, <2>5, <2>6
<1>5. CASE ReadFails
    BY <1>1, <1>5 DEF ReadFails, ReleasePage, JobType, Effective, ReadsFollow, At,
                      ConfirmedActionIsShown
<1> QED
    BY <1>3, <1>4, <1>5

\* An action: what is offered is an action, and a mined one is confirmed as it is.
LEMMA ActionsKeepPanel ==
    ASSUME RegistryNow, PanelInv, UNCHANGED ctoVars,
           \/ Click \/ ReadAgain \/ Recheck \/ SimulateAndSign \/ ReplacedInWallet
           \/ Confirm \/ GiveUp
    PROVE  PanelInv'
<1> USE DEF PanelInv
<1>1. UNCHANGED <<proposals, now, snapshot>>
    BY DEF ctoVars, feeVars, registryVars, Click, ReadAgain, Recheck, SimulateAndSign,
           ReplacedInWallet, Confirm, GiveUp, KeepPage
<1>2. reading' \in {None, reading}
    BY DEF Click, ReadAgain, Recheck, SimulateAndSign, ReplacedInWallet, Confirm, GiveUp,
           KeepPage
<1>3. /\ snapshot' # None => SnapshotIsPast(snapshot)'
      /\ reading' # None => ReadingIsPast(reading)'
    BY <1>1, <1>2 DEF SnapshotIsPast, ReadingIsPast
<1>4. CASE Click
    <2>1. PICK a \in Offers(snapshot) :
            job' = [action |-> a, id |-> snapshot.id, seen |-> None, stage |-> "first"]
        BY <1>4 DEF Click
    <2>2. SnapshotIsPast(snapshot) /\ message' = None
        BY <1>4 DEF Click
    <2>3. a \in Actions /\ (a # "propose" => snapshot.id # None)
        BY DEF Offers, OffersInactive, OffersWorkflow, Actions
    <2>4. job' \in Job /\ job'.action = a /\ job'.id = snapshot.id /\ job'.stage = "first"
        BY <2>1, <2>2, <2>3 DEF SnapshotIsPast, Job, Stages
    <2>5. JobType'
        BY <2>3, <2>4 DEF JobType
    <2>6. Effective' /\ ReadsFollow'
        BY <2>2, <2>4 DEF Effective, ReadsFollow, At, ConfirmedActionIsShown
    <2> QED
        BY <1>3, <2>5, <2>6
<1>5. ASSUME NEW stage \in {"second", "simulate", "receipt", "replaced"}, NEW seen \in Ids \cup {None},
             At("first") \/ At("second") \/ At("simulate") \/ At("receipt"),
             job' = [job EXCEPT !.seen = seen, !.stage = stage], KeepPage
      PROVE  PanelInv'
    <2>1. message = None /\ message' = None /\ job \in Job /\ job # None
        BY <1>5 DEF ReadsFollow, At, KeepPage, JobType
    <2>2. /\ job' \in Job /\ job'.action = job.action /\ job'.id = job.id
          /\ job'.stage = stage
        BY <1>5, <2>1 DEF Job, Stages
    <2>3. JobType' /\ Effective' /\ ReadsFollow'
        BY <2>1, <2>2 DEF JobType, Effective, ReadsFollow, At, ConfirmedActionIsShown
    <2> QED
        BY <1>3, <2>3
<1>6. CASE ReadAgain
    BY <1>5, <1>6, CurrentIsShown DEF ReadAgain
<1>7. CASE Recheck \/ SimulateAndSign \/ ReplacedInWallet
    <2>1. job \in Job /\ job.seen \in Ids \cup {None}
        BY <1>7 DEF JobType, Recheck, SimulateAndSign, ReplacedInWallet, At, Job
    <2>2. PICK stage \in {"second", "simulate", "receipt", "replaced"} :
            job' = [job EXCEPT !.stage = stage]
        BY <1>7 DEF Recheck, SimulateAndSign, ReplacedInWallet
    <2>3. job' = [job EXCEPT !.seen = job.seen, !.stage = stage]
        BY <2>1, <2>2 DEF Job
    <2> QED
        BY <1>5, <1>7, <2>1, <2>3 DEF Recheck, SimulateAndSign, ReplacedInWallet
<1>8. CASE Confirm
    <2> DEFINE told == Confirmed
    <2>1. /\ job \in Job /\ job # None
          /\ At("mined") => /\ job.id # None
                            /\ proposals[job.id].state \in EffectOf(job.action)
        BY <1>8 DEF Confirm, At, JobType, Effective
    <2>2. /\ told.action = job.action /\ told.id = job.id /\ told.ran = At("mined")
          /\ told.ran => told.action \in Actions /\ told.id \in Ids
        BY <2>1 DEF Job, Confirmed
    <2>3. /\ job' \in Job /\ job'.action = job.action /\ job'.id = job.id
          /\ job'.stage = "refresh"
        BY <1>8, <2>1 DEF Confirm, Job, Stages
    <2>4. job' # None /\ At("refresh")'
        BY <2>3, PageConstants DEF At
    <2>5. message' = told /\ reading' = None
        BY <1>8 DEF Confirm
    <2> HIDE DEF told
    <2>6. JobType' /\ Effective'
        BY <1>1, <2>1, <2>2, <2>3, <2>4, <2>5 DEF JobType, Effective, At
    <2>7. ReadsFollow'
        BY <2>4, <2>5 DEF ReadsFollow, ConfirmedActionIsShown
    <2> QED
        BY <1>3, <2>6, <2>7
<1>9. CASE GiveUp
    <2>1. message = None /\ message' = None /\ job' = None
        BY <1>9 DEF GiveUp, ReadsFollow, At, KeepPage
    <2> QED
        BY <1>3, <2>1 DEF JobType, Effective, ReadsFollow, At, ConfirmedActionIsShown
<1> QED
    BY <1>4, <1>6, <1>7, <1>8, <1>9

\* Nothing is read, acted on or confirmed yet.
LEMMA PanelInitHolds == PanelInit => CTOInit /\ RegistryNow /\ PanelInv
<1> SUFFICES ASSUME PanelInit PROVE CTOInit /\ RegistryNow /\ PanelInv
    OBVIOUS
<1>1. CTOInit /\ CTOInv
    BY CTOInitHolds DEF PanelInit
<1>2. IInv
    BY <1>1, InitHolds DEF CTOInit
<1>3. NonceInv
    BY <1>1, RegistryConstants DEF CTOInit, NonceInv, NoProposal, ProposalIds
<1>4. PanelInv
    BY DEF PanelInit, PanelInv, JobType, Effective, ReadsFollow, At, ConfirmedActionIsShown
<1> QED
    BY <1>1, <1>2, <1>3, <1>4 DEF RegistryNow

\* The registry, and the page over it.
LEMMA PanelNextKeeps ==
    ASSUME RegistryNow, PanelInv, [PanelNext]_<<ctoVars, panelVars>>
    PROVE  [CTONext]_ctoVars /\ RegistryNow' /\ PanelInv'
<1>1. [CTONext]_ctoVars
    BY MinedActs DEF PanelNext
<1>2. CASE Mined
    BY <1>1, <1>2, MinedActs, RegistryMoves
<1>3. CASE [CTONext]_ctoVars /\ UNCHANGED panelVars
    BY <1>3, RegistryMoves, RegistryKeepsPanel
<1>4. CASE UNCHANGED ctoVars
    <2>1. UNCHANGED panelVars \/ Mined \/ StartRead \/ FinishRead \/ ReadFails \/ Click
            \/ ReadAgain \/ Recheck \/ SimulateAndSign \/ ReplacedInWallet \/ Confirm
            \/ GiveUp
        BY DEF PanelNext
    <2> QED
        BY <1>1, <1>2, <1>4, <2>1, RegistryMoves, RegistryKeepsPanel, ReadsKeepPanel,
           ActionsKeepPanel
<1> QED
    <2>1. \/ CTONext /\ UNCHANGED panelVars
          \/ Mined
          \/ UNCHANGED ctoVars
        BY DEF PanelNext
    <2> QED
        BY <1>1, <1>2, <1>3, <1>4, <2>1

\* The inductive invariant of the page over the registry.
THEOREM PanelInvariant == PanelSpec => [](RegistryNow /\ PanelInv)
    BY PanelInitHolds, PanelNextKeeps, PTL DEF PanelSpec

\* The last confirmed action, or what came after it, is what a released page shows,
\* however reads, receipts and other users' transactions interleave, unless the user
\* replaced the transaction in the wallet.
THEOREM ConfirmedIsShown == PanelSpec => []ConfirmedActionIsShown
    BY PanelInvariant, PTL DEF PanelInv, ReadsFollow

\* An action is offered by a clock that is not ahead of the chain's, on a proposal
\* that has only moved on since.
LEMMA PastOffersAreNotEarly ==
    ASSUME RegistryNow, SnapshotIsPast(snapshot), snapshot.id # None
    PROVE  LET id == snapshot.id
           IN  /\ "expire" \in Offers(snapshot) => timeIsUp(id) \/ closed(id)
               /\ "execute" \in Offers(snapshot) =>
                    closed(id) \/ (proposals[id].state = "Accepted" /\ now >= executeAfter(id))
<1> DEFINE s == snapshot
           p == snapshot.proposal
           q == proposals[snapshot.id]
<1>1. /\ p \in ProposalType /\ q \in ProposalType /\ s.time \in Nat /\ now \in Nat
      /\ s.time <= now
    BY CurrentIsShown, IdsAreProposals DEF SnapshotIsPast
<1>2. /\ p.createdAt \in Nat /\ p.acceptedAt \in Nat /\ q.createdAt \in Nat
      /\ q.acceptedAt \in Nat /\ q.state \in ProposalState
      /\ AcceptanceWindow \in Nat /\ ExecutionDelay \in Nat /\ ExecutionGracePeriod \in Nat
    BY <1>1, RegistryConstants DEF ProposalType
<1>3. /\ q.state # "None"
      /\ p.state = "Proposed" /\ q.state = "Proposed" => q.createdAt = p.createdAt
      /\ p.state = "Proposed" /\ s.time > p.createdAt + AcceptanceWindow =>
           q.state # "Accepted"
      /\ p.state = "Accepted" => q.state # "Proposed"
      /\ p.state = "Accepted" /\ q.state = "Accepted" => q.acceptedAt = p.acceptedAt
    BY DEF SnapshotIsPast
<1>4. closed(s.id) <=> q.state \in {"Cancelled", "Expired", "Active"}
    BY DEF closed
<1>5. timeIsUp(s.id) <=>
        \/ q.state = "Proposed" /\ now > q.createdAt + AcceptanceWindow
        \/ q.state = "Accepted" /\ now > q.acceptedAt + ExecutionDelay + ExecutionGracePeriod
    BY DEF timeIsUp, executionDeadline, executeAfter
<1>6. "expire" \in Offers(s) =>
        \/ p.state = "Proposed" /\ s.time > p.createdAt + AcceptanceWindow
        \/ p.state = "Accepted"
           /\ s.time > p.acceptedAt + ExecutionDelay + ExecutionGracePeriod
    BY DEF Offers, OffersWorkflow, canExpire, deadlines
<1>7. "execute" \in Offers(s) => p.state = "Accepted" /\ s.time >= p.acceptedAt + ExecutionDelay
    BY DEF Offers, OffersWorkflow, canExecute, deadlines
<1>8. executeAfter(s.id) = q.acceptedAt + ExecutionDelay
    BY DEF executeAfter
<1> HIDE DEF s, p, q
<1>9. \/ q.state \in {"Cancelled", "Expired", "Active"} \/ q.state = "Proposed"
      \/ q.state = "Accepted"
    BY <1>2, <1>3 DEF ProposalState
<1>10. "expire" \in Offers(s) => timeIsUp(s.id) \/ closed(s.id)
    BY <1>1, <1>2, <1>3, <1>4, <1>5, <1>6, <1>9
<1>11. "execute" \in Offers(s) =>
         closed(s.id) \/ (q.state = "Accepted" /\ now >= executeAfter(s.id))
    BY <1>1, <1>2, <1>3, <1>4, <1>7, <1>8, <1>9
<1> QED
    BY <1>10, <1>11 DEF s, q

\* Neither an execution nor an expiry is offered before its time, though the page
\* reads the clock, the current proposal and its state at different moments.
THEOREM OffersKeepTheTime == PanelSpec => []OffersAreNeverEarly
<1>1. RegistryNow /\ PanelInv => OffersAreNeverEarly
    BY PastOffersAreNotEarly DEF PanelInv, OffersAreNeverEarly
<1> QED
    BY <1>1, PanelInvariant, PTL
=============================================================================
