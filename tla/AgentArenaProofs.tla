-------------------------- MODULE AgentArenaProofs --------------------------
(***************************************************************************)
(* The contract's books balance for every number of markets, stakers,      *)
(* providers and jurors, every stake, deposit, fee and rate, in every      *)
(* order of calls.                                                         *)
(***************************************************************************)
EXTENDS AgentArena, SumLemmas, TLAPS

(***************************************************************************)
(* The arithmetic.                                                         *)
(***************************************************************************)

(* The other side of each side.                                           *)
LEMMA OtherSide == Other("HAWK") = "DOVE" /\ Other("DOVE") = "HAWK"
BY DEF Other, Side

(* The two sides are each other's opposite.                                *)
LEMMA OtherIsSide == ASSUME NEW s \in Side PROVE Other(s) \in Side /\ Other(s) # s
BY OtherSide DEF Side

(* The larger of two integers is one of them, and neither is larger.       *)
LEMMA MaxOfTwo ==
    ASSUME NEW a \in Int, NEW b \in Int
    PROVE  Max({a, b}) \in {a, b} /\ Max({a, b}) >= a /\ Max({a, b}) >= b
<1>1. \E x \in {a, b} : \A y \in {a, b} : x >= y
  <2>1. CASE a >= b
    BY <2>1
  <2>2. CASE b >= a
    BY <2>2
  <2> QED BY <2>1, <2>2
<1> QED BY <1>1 DEF Max

(* The largest of three integers is one of them, and none is larger.       *)
LEMMA MaxOfThree ==
    ASSUME NEW a \in Int, NEW b \in Int, NEW c \in Int
    PROVE  /\ Max({a, b, c}) \in {a, b, c}
           /\ Max({a, b, c}) >= a /\ Max({a, b, c}) >= b /\ Max({a, b, c}) >= c
<1>1. \E x \in {a, b, c} : \A y \in {a, b, c} : x >= y
  <2>1. CASE a >= b /\ a >= c
    BY <2>1
  <2>2. CASE b >= a /\ b >= c
    BY <2>2
  <2>3. CASE c >= a /\ c >= b
    BY <2>3
  <2> QED BY <2>1, <2>2, <2>3
<1> QED BY <1>1 DEF Max

(* The smaller of two integers is one of them, and neither is smaller.     *)
LEMMA MinOfTwo ==
    ASSUME NEW a \in Int, NEW b \in Int
    PROVE  Min({a, b}) \in {a, b} /\ Min({a, b}) <= a /\ Min({a, b}) <= b
<1>1. \E x \in {a, b} : \A y \in {a, b} : x <= y
  <2>1. CASE a <= b
    BY <2>1
  <2>2. CASE b <= a
    BY <2>2
  <2> QED BY <2>1, <2>2
<1> QED BY <1>1 DEF Min

(* A share at a rate of at most 100 % is at most the whole.                *)
LEMMA ShareOf ==
    ASSUME NEW x \in Nat, NEW bps \in 0..BPS
    PROVE  Share(x, bps) \in Nat /\ Share(x, bps) <= x
<1> DEFINE n == x * bps
<1>1. n \in Nat /\ n <= x * 10000
  BY DEF BPS
<1>2. Share(x, bps) = n \div 10000
  BY DEF Share, BPS
<1> HIDE DEF n
<1> QED BY <1>1, <1>2

(* A higher rate has no smaller share.                                     *)
LEMMA HigherShare ==
    ASSUME NEW x \in Nat, NEW a \in 0..BPS, NEW b \in 0..BPS, a <= b
    PROVE  Share(x, a) <= Share(x, b)
<1> DEFINE n == x * a
           k == x * b
<1>1. n \in Nat /\ k \in Nat /\ n <= k
  BY DEF BPS
<1>2. Share(x, a) = n \div 10000 /\ Share(x, b) = k \div 10000
  BY DEF Share, BPS
<1> HIDE DEF n, k
<1> QED BY <1>1, <1>2

(* Dividing rounds down and leaves a natural number.                       *)
LEMMA Quotient ==
    ASSUME NEW x \in Nat, NEW d \in Nat \ {0}
    PROVE  /\ x \div d \in Nat
           /\ d * (x \div d) <= x
OBVIOUS

(* Rates are at most the whole, and amounts are not zero.                  *)
LEMMA RatesAreShares ==
    /\ LossBps \subseteq 0..BPS /\ FeeBps \subseteq 0..BPS
    /\ Amount \subseteq Nat \ {0} /\ Deposit \subseteq Nat \ {0} /\ Burn \subseteq Nat \ {0}
    /\ MaxMoves \in Nat /\ MaxKept \in Nat
BY ArenaAssumption DEF BPS, MAX_LOSS_TREASURY_BPS

(* No rate is above the one the setter allows.                             *)
LEMMA LossRateIsCapped ==
    /\ MAX_LOSS_TREASURY_BPS \in 0..BPS
    /\ TypeOK => lossTreasuryBps <= MAX_LOSS_TREASURY_BPS
<1>1. TypeOK => lossTreasuryBps \in LossBps
  BY DEF TypeOK
<1>2. LossBps \subseteq 0..1000
  BY ArenaAssumption DEF MAX_LOSS_TREASURY_BPS
<1>3. ASSUME TypeOK PROVE lossTreasuryBps <= 1000
  <2>1. lossTreasuryBps \in 0..1000
    BY <1>1, <1>2, <1>3
  <2> QED BY <2>1
<1>4. 1000 \in 0..10000
  OBVIOUS
<1> QED BY <1>3, <1>4 DEF BPS, MAX_LOSS_TREASURY_BPS

(* The two sides of a pool.                                                *)
LEMMA PoolSum ==
    ASSUME NEW p \in [Side -> Int]
    PROVE  SumFunction(p) = p["HAWK"] + p["DOVE"]
<1>1. IsFiniteSet({}) /\ IsFiniteSet({"HAWK"})
  BY FS_EmptySet, FS_Singleton
<1>2. SumFunctionOnSet(p, {} \cup {"HAWK"}) = SumFunctionOnSet(p, {}) + p["HAWK"]
  BY <1>1, SumOfAdded DEF Side
<1>3. SumFunctionOnSet(p, {"HAWK"} \cup {"DOVE"}) = SumFunctionOnSet(p, {"HAWK"}) + p["DOVE"]
  BY <1>1, SumOfAdded DEF Side
<1>4. {} \cup {"HAWK"} = {"HAWK"} /\ {"HAWK"} \cup {"DOVE"} = DOMAIN p
  BY DEF Side
<1>5. SumFunctionOnSet(p, {}) = 0
  BY SumOfNone
<1> QED BY <1>2, <1>3, <1>4, <1>5 DEF SumFunction, Side

(* The reserve a market needs covers its loss on either side.              *)
LEMMA RequiredCovers ==
    ASSUME NEW p \in [Side -> Nat], lossTreasuryBps \in 0..BPS
    PROVE  /\ Required(p) \in Nat
           /\ \A s \in Side : Short(p[s], p[Other(s)]) \in Int
                                /\ Short(p[s], p[Other(s)]) <= Required(p)
           /\ (\A s \in Side : Short(p[s], p[Other(s)]) <= 0) <=> Required(p) = 0
<1> DEFINE a == Short(p["HAWK"], p["DOVE"])
           b == Short(p["DOVE"], p["HAWK"])
<1>1. a \in Int /\ b \in Int
  BY ShareOf DEF Short, Side
<1>2. {0} \cup {Short(p[s], p[Other(s)]) : s \in Side} = {0, a, b}
  BY OtherSide DEF Side
<1> HIDE DEF a, b
<1>3. /\ Max({0, a, b}) \in {0, a, b}
      /\ Max({0, a, b}) >= 0 /\ Max({0, a, b}) >= a /\ Max({0, a, b}) >= b
  BY <1>1, MaxOfThree
<1>4. Required(p) = Max({0, a, b})
  BY <1>2 DEF Required
<1>5. \A s \in Side : Short(p[s], p[Other(s)]) \in {a, b}
  BY OtherSide DEF Side, a, b
<1>6. a = Short(p["HAWK"], p[Other("HAWK")]) /\ b = Short(p["DOVE"], p[Other("DOVE")])
  BY OtherSide DEF a, b
<1> QED BY <1>1, <1>3, <1>4, <1>5, <1>6 DEF Side

-----------------------------------------------------------------------------
(***************************************************************************)
(* The inductive invariant.                                                *)
(***************************************************************************)

\* Nothing is claimed before the end, a market in dispute has a verdict, and
\* one that does not exist has neither stakes nor odds.
Lifecycle ==
    \A m \in Market :
      /\ claimed[m] # {} => status[m] = "FINALIZED"
      /\ status[m] \in {"AI_RESOLVED", "DISPUTED"} => verdict[m] \in Side
      /\ status[m] = "NONE" => m \notin fixedOdds /\ pool[m] = [s \in Side |-> 0]

Booked == totalReserved = SumFunction(requirement)

IInv == TypeOK /\ Lifecycle /\ Booked /\ Backed

Debts == SumFunction([m \in Market |-> Owed(m)])

Slack == balance - Obligations

FixedSoFar == \A m \in Market : status[m] = "FINALIZED" => m \in fixedOdds

\* What each call does to the books: the balance never falls behind the
\* obligations, and runs ahead of them by a market without fixed odds only.
BooksKept ==
    /\ TypeOK' /\ Lifecycle' /\ Booked'
    /\ Slack' >= Slack
    /\ FixedSoFar' => FixedSoFar /\ Slack' = Slack

(* The finite sets the sums range over.                                    *)
LEMMA SetsAreFinite == IsFiniteSet(Market) /\ IsFiniteSet(User) /\ IsFiniteSet(Provider)
BY ArenaAssumption

(* The claims still to come, of winners who have not claimed yet, are      *)
(* natural numbers: the pool a share is a part of is not empty.            *)
LEMMA PayoutIsNat ==
    ASSUME TypeOK, NEW m \in Market, winner[m] \in Side, NEW u \in User,
           stakes[m][u][winner[m]] > 0
    PROVE  Payout(m, u) \in Nat /\ Payout(m, u) >= stakes[m][u][winner[m]]
<1> DEFINE w == winner[m]
           k == [v \in User |-> stakes[m][v][w]]
<1>1. k \in [User -> Nat] /\ pool[m][w] = SumFunction(k) /\ k[u] > 0
  BY DEF TypeOK
<1>2. pool[m][w] \in Nat /\ k[u] <= pool[m][w]
  BY <1>1, SetsAreFinite, SumOfNaturals DEF SumFunction
<1>3. Other(w) \in Side
  BY OtherIsSide
<1>4. pool[m][Other(w)] \in Nat
  BY <1>3 DEF TypeOK
<1> DEFINE a == k[u]
           p == pool[m][w]
           n == a * pool[m][Other(w)]
<1>5. a \in Nat /\ p \in Nat \ {0} /\ n \in Nat
  BY <1>1, <1>2, <1>4
<1>6. Payout(m, u) = a + IF m \in fixedOdds THEN a ELSE n \div p
  BY DEF Payout
<1> HIDE DEF n, p
<1>7. n \div p \in Nat
  BY <1>5, Quotient
<1> QED BY <1>5, <1>6, <1>7

(* Pools are natural numbers.                                              *)
LEMMA PoolsAreNat ==
    ASSUME TypeOK, NEW m \in Market
    PROVE  /\ \A s \in Side : pool[m][s] \in Nat
           /\ SumFunction(pool[m]) = pool[m]["HAWK"] + pool[m]["DOVE"]
           /\ SumFunction(pool[m]) \in Nat
BY PoolSum DEF TypeOK, Side

(* What a market owes is a natural number.                                 *)
LEMMA DebtIsNat == ASSUME TypeOK, NEW m \in Market PROVE Owed(m) \in Nat
<1>1. CASE status[m] = "FINALIZED"
  <2> DEFINE f == [u \in Unpaid(m) |-> Payout(m, u)]
  <2>1. IsFiniteSet(Unpaid(m))
    BY SetsAreFinite, FS_Subset DEF Unpaid
  <2>2. winner[m] \in Side
    BY <1>1 DEF TypeOK
  <2>3. \A u \in Unpaid(m) : f[u] \in Nat
    BY <2>2, PayoutIsNat DEF Unpaid
  <2>4. Owed(m) = SumFunctionOnSet(f, Unpaid(m))
    BY <1>1 DEF Owed, SumFunction
  <2> HIDE DEF f
  <2> QED BY <2>1, <2>3, <2>4, SumOfNaturals
<1>2. CASE status[m] # "FINALIZED"
  <2>1. bond[m] \in Nat
    BY DEF TypeOK
  <2> QED BY <1>2, <2>1, PoolsAreNat DEF Owed
<1> QED BY <1>1, <1>2

(* What a market owes depends on that market alone.                        *)
LEMMA OwedStays ==
    ASSUME NEW m \in Market, status'[m] = status[m], m \in fixedOdds' <=> m \in fixedOdds,
           claimed'[m] = claimed[m], stakes'[m] = stakes[m], pool'[m] = pool[m],
           winner'[m] = winner[m], bond'[m] = bond[m]
    PROVE  Owed(m)' = Owed(m)
<1>1. Unpaid(m)' = Unpaid(m)
  BY DEF Unpaid
<1>2. \A u : Payout(m, u)' = Payout(m, u)
  BY DEF Payout
<1>3. [u \in Unpaid(m) |-> Payout(m, u)]' = [u \in Unpaid(m) |-> Payout(m, u)]
  BY <1>1, <1>2
<1> QED BY <1>3 DEF Owed

(* So a call on one market moves the debts of that market by d ...         *)
LEMMA DebtsMove ==
    ASSUME TypeOK, NEW m \in Market, NEW d \in Int, Owed(m)' = Owed(m) + d,
           \A n \in Market \ {m} : Owed(n)' = Owed(n)
    PROVE  Debts' = Debts + d /\ Debts \in Int
<1> DEFINE f == [n \in Market |-> Owed(n)]
           g == [n \in Market |-> Owed(n)']
<1>1. \A n \in Market : f[n] \in Int /\ g[n] \in Int
  BY DebtIsNat
<1>2. g[m] = f[m] + d /\ \A n \in Market \ {m} : g[n] = f[n]
  OBVIOUS
<1>3. Debts = SumFunctionOnSet(f, Market) /\ Debts' = SumFunctionOnSet(g, Market)
  BY DEF Debts, SumFunction
<1> HIDE DEF f, g
<1>4. SumFunctionOnSet(g, Market) = SumFunctionOnSet(f, Market) + g[m] - f[m]
  BY <1>1, <1>2, SetsAreFinite, SumOfUpdate
<1>5. SumFunctionOnSet(f, Market) \in Int
  BY <1>1, SetsAreFinite, SumTakesOut
<1> QED BY <1>1, <1>2, <1>3, <1>4, <1>5

(* ... and a call on none leaves all debts as they are.                    *)
LEMMA DebtsStay ==
    ASSUME TypeOK, \A n \in Market : Owed(n)' = Owed(n)
    PROVE  Debts' = Debts /\ Debts \in Int
<1> DEFINE f == [n \in Market |-> Owed(n)]
<1>1. Debts = SumFunctionOnSet(f, Market) /\ \A n \in Market : f[n] \in Int
  BY DebtIsNat DEF Debts, SumFunction
<1>2. Debts' = Debts
  BY DEF Debts
<1> HIDE DEF f
<1> QED BY <1>1, <1>2, SetsAreFinite, SumTakesOut

(* Who touches no market, stake or bond owes what was owed.                *)
LEMMA DebtsUntouched ==
    ASSUME TypeOK,
           UNCHANGED <<status, fixedOdds, claimed, stakes, pool, winner, bond>>
    PROVE  Debts' = Debts /\ Debts \in Int
<1>1. ASSUME NEW m \in Market PROVE Owed(m)' = Owed(m)
  BY OwedStays
<1> QED BY <1>1, DebtsStay

(* The type invariant, in the half on markets and the half on money.       *)
MarketsOK ==
    /\ status \in [Market -> {"NONE", "OPEN", "AI_RESOLVED", "DISPUTED", "FINALIZED"}]
    /\ fixedOdds \subseteq Market /\ lapsed \subseteq Market
    /\ verdict \in [Market -> Side \cup {"NONE"}] /\ winner \in [Market -> Side \cup {"NONE"}]
    /\ \A m \in Market : winner[m] # "NONE" <=> status[m] = "FINALIZED"
    /\ claimed \in [Market -> SUBSET User]
    /\ bond \in [Market -> Nat]

StakesOK ==
    /\ stakes \in [Market -> [User -> [Side -> Nat]]] /\ pool \in [Market -> [Side -> Nat]]
    /\ \A m \in Market, s \in Side : pool[m][s] = SumFunction([u \in User |-> stakes[m][u][s]])

VotesOK ==
    /\ votes \in [Market -> [overturn : SUBSET Juror, uphold : SUBSET Juror]]
    /\ \A m \in Market : votes[m].overturn \cap votes[m].uphold = {}

MoneyOK ==
    /\ fixedOddsEnabled \in BOOLEAN /\ lossTreasuryBps \in LossBps
    /\ requirement \in [Market -> Nat] /\ totalReserved \in Nat /\ liquidityReserve \in Nat
    /\ disputeReservePool \in Nat /\ pendingTreasury \in 0..MaxKept
    /\ balance \in Nat /\ moves \in 0..MaxMoves

SharesOK == liquidityShares \in [Provider -> Nat] /\ totalShares = SumFunction(liquidityShares)

(* The types of the contract's variables, by what they are about.          *)
LEMMA TypeParts == TypeOK <=> MarketsOK /\ StakesOK /\ VotesOK /\ MoneyOK /\ SharesOK
BY DEF TypeOK, MarketsOK, StakesOK, VotesOK, MoneyOK, SharesOK

(* The same after a step.                                                  *)
LEMMA TypePartsNext == TypeOK' <=> MarketsOK' /\ StakesOK' /\ VotesOK' /\ MoneyOK' /\ SharesOK'
BY DEF TypeOK, MarketsOK, StakesOK, VotesOK, MoneyOK, SharesOK

(* Stakes and pools that no call touches keep their types.                 *)
LEMMA SameStakes == ASSUME TypeOK, UNCHANGED stakeVars PROVE StakesOK'
BY DEF TypeOK, StakesOK, stakeVars

(* So do votes.                                                            *)
LEMMA SameVotes == ASSUME TypeOK, votes' = votes PROVE VotesOK'
BY DEF TypeOK, VotesOK

(* So do the shares of the reserve.                                        *)
LEMMA SameShares == ASSUME TypeOK, UNCHANGED <<liquidityShares, totalShares>> PROVE SharesOK'
BY DEF TypeOK, SharesOK

(* What of the books a call that touches only money and liquidity keeps.   *)
LEMMA SameMarkets ==
    ASSUME IInv, UNCHANGED <<status, fixedOdds, claimed, verdictVars, stakeVars>>
    PROVE  /\ Lifecycle' /\ Debts' = Debts /\ Debts \in Int /\ (FixedSoFar' <=> FixedSoFar)
           /\ lapsed' \subseteq Market => MarketsOK' /\ StakesOK' /\ VotesOK'
<1>1. Debts' = Debts /\ Debts \in Int
  BY DebtsUntouched DEF IInv, verdictVars, stakeVars
<1>2. StakesOK' /\ VotesOK'
  BY SameStakes, SameVotes DEF IInv, verdictVars
<1>3. lapsed' \subseteq Market => MarketsOK'
  BY DEF IInv, TypeOK, MarketsOK, verdictVars
<1>4. Lifecycle' /\ (FixedSoFar' <=> FixedSoFar)
  BY DEF IInv, Lifecycle, FixedSoFar, verdictVars, stakeVars
<1> QED BY <1>1, <1>2, <1>3, <1>4

(* Liquidity comes in and goes out of the balance and the reserve alike.   *)
LEMMA ProvideLiquidityOK ==
    ASSUME IInv, NEW u \in Provider, NEW x \in Deposit, ProvideLiquidity(u, x)
    PROVE  BooksKept
<1>1. x \in Nat /\ totalShares \in Nat /\ liquidityReserve \in Nat
  <2>1. totalShares \in Nat
    BY SetsAreFinite, SumOfNaturals DEF IInv, TypeOK, SumFunction
  <2> QED BY <2>1, RatesAreShares DEF IInv, TypeOK
<1>2. Minted(x) \in Nat
  <2> DEFINE n == x * totalShares
  <2>1. n \in Nat
    BY <1>1
  <2>2. Minted(x) = IF totalShares = 0 THEN x ELSE n \div liquidityReserve
    BY DEF Minted
  <2>3. totalShares # 0 => liquidityReserve \in Nat \ {0}
    BY <1>1 DEF ProvideLiquidity
  <2> HIDE DEF n
  <2> QED BY <1>1, <2>1, <2>2, <2>3, Quotient
<1>3. liquidityShares' \in [Provider -> Nat] /\ totalShares' = SumFunction(liquidityShares')
  <2> DEFINE d == Minted(x)
  <2>1. liquidityShares' = [liquidityShares EXCEPT ![u] = @ + d] /\ totalShares' = totalShares + d
    BY DEF ProvideLiquidity
  <2>2. /\ liquidityShares \in [Provider -> Nat]
        /\ totalShares = SumFunctionOnSet(liquidityShares, Provider)
    BY DEF IInv, TypeOK, SumFunction
  <2>3. d \in Nat
    BY <1>2
  <2> HIDE DEF d
  <2>4. liquidityShares' \in [Provider -> Nat]
    BY <2>1, <2>2, <2>3
  <2>5. SumFunctionOnSet(liquidityShares', Provider)
          = SumFunctionOnSet(liquidityShares, Provider) + liquidityShares'[u] - liquidityShares[u]
    <3>1. /\ \A v \in Provider : liquidityShares[v] \in Int /\ liquidityShares'[v] \in Int
          /\ \A v \in Provider \ {u} : liquidityShares'[v] = liquidityShares[v]
      BY <2>1, <2>2, <2>4
    <3> QED BY <3>1, SetsAreFinite, SumOfUpdate
  <2>6. SumFunctionOnSet(liquidityShares, Provider) \in Nat
    BY <1>1, <2>2
  <2> QED BY <2>1, <2>2, <2>3, <2>4, <2>5, <2>6 DEF SumFunction
<1>4. MoneyOK' /\ lapsed' \subseteq Market
  BY <1>1, RatesAreShares DEF ProvideLiquidity, Moving, IInv, TypeOK, MoneyOK, configVars, feeVars
<1>5. /\ Lifecycle' /\ Debts' = Debts /\ Debts \in Int /\ (FixedSoFar' <=> FixedSoFar)
      /\ MarketsOK' /\ StakesOK' /\ VotesOK'
  BY <1>4, SameMarkets DEF ProvideLiquidity
<1>6. Slack' = Slack /\ Slack \in Int
  BY <1>1, <1>5 DEF ProvideLiquidity, Slack, Obligations, Debts, feeVars, IInv, TypeOK
<1>7. Booked'
  BY DEF ProvideLiquidity, IInv, Booked
<1> QED BY <1>3, <1>4, <1>5, <1>6, <1>7, TypePartsNext DEF BooksKept, SharesOK

(* A donation adds to the reserve what it adds to the balance.             *)
LEMMA DonateLiquidityOK ==
    ASSUME IInv, NEW x \in Deposit, DonateLiquidity(x)
    PROVE  BooksKept
<1>1. x \in Nat
  BY RatesAreShares
<1>2. MoneyOK' /\ SharesOK' /\ lapsed' \subseteq Market
  BY <1>1, SameShares, RatesAreShares DEF DonateLiquidity, Moving, IInv, TypeOK, MoneyOK,
                                          configVars, feeVars
<1>3. /\ Lifecycle' /\ Debts' = Debts /\ Debts \in Int /\ (FixedSoFar' <=> FixedSoFar)
      /\ MarketsOK' /\ StakesOK' /\ VotesOK'
  BY <1>2, SameMarkets DEF DonateLiquidity
<1>4. Slack' = Slack /\ Slack \in Int
  BY <1>1, <1>3 DEF DonateLiquidity, Slack, Obligations, Debts, feeVars, IInv, TypeOK
<1>5. Booked'
  BY DEF DonateLiquidity, IInv, Booked
<1> QED BY <1>2, <1>3, <1>4, <1>5, TypePartsNext DEF BooksKept

(* A provider takes out no more than the reserve can spare.                *)
LEMMA WithdrawLiquidityOK ==
    ASSUME IInv, NEW u \in Provider, NEW n \in Burn, WithdrawLiquidity(u, n)
    PROVE  /\ BooksKept
           /\ liquidityReserve - liquidityReserve' \in Nat
           /\ liquidityReserve - liquidityReserve' <= Available
<1> DEFINE k == n * liquidityReserve
           amount == k \div totalShares
<1>1. n \in Nat \ {0} /\ totalShares \in Nat \ {0} /\ liquidityReserve \in Nat /\ balance \in Nat
  <2>1. totalShares \in Nat /\ liquidityShares[u] <= totalShares
    BY SetsAreFinite, SumOfNaturals DEF IInv, TypeOK, SumFunction
  <2>2. n \in Nat \ {0} /\ n <= liquidityShares[u] /\ liquidityShares[u] \in Nat
    BY RatesAreShares DEF WithdrawLiquidity, IInv, TypeOK
  <2> QED BY <2>1, <2>2 DEF IInv, TypeOK
<1>2. amount \in Nat
  <2>1. k \in Nat
    BY <1>1
  <2> HIDE DEF k
  <2> QED BY <1>1, <2>1, Quotient
<1>3. /\ amount <= Available
      /\ liquidityReserve' = liquidityReserve - amount /\ balance' = balance - amount
  BY DEF WithdrawLiquidity
<1> HIDE DEF k, amount
<1>4. Available \in {0, liquidityReserve - totalReserved}
  <2> DEFINE a == liquidityReserve - totalReserved
  <2>1. a \in Int /\ Available = Max({0, a})
    BY DEF Available, IInv, TypeOK
  <2> HIDE DEF a
  <2>2. Available \in {0, a}
    BY <2>1, MaxOfTwo
  <2> QED BY <2>2 DEF a
<1>5. Debts \in Nat /\ totalReserved \in Nat
  <2> DEFINE f == [m \in Market |-> Owed(m)]
  <2>1. \A m \in Market : f[m] \in Nat
    BY DebtIsNat DEF IInv
  <2>2. Debts = SumFunctionOnSet(f, Market)
    BY DEF Debts, SumFunction
  <2> HIDE DEF f
  <2> QED BY <2>1, <2>2, SetsAreFinite, SumOfNaturals DEF IInv, TypeOK
<1>6. liquidityReserve' \in Nat /\ balance' \in Nat
  <2>1. amount <= liquidityReserve
    BY <1>1, <1>2, <1>3, <1>4, <1>5
  <2>2. liquidityReserve <= balance
    BY <1>1, <1>5 DEF IInv, Backed, Obligations, Debts, TypeOK
  <2> QED BY <1>1, <1>2, <1>3, <2>1, <2>2
<1>7. liquidityShares' \in [Provider -> Nat] /\ totalShares' = SumFunction(liquidityShares')
  <2>1. /\ liquidityShares' = [liquidityShares EXCEPT ![u] = @ - n]
        /\ totalShares' = totalShares - n
        /\ n <= liquidityShares[u]
    BY DEF WithdrawLiquidity
  <2>2. /\ liquidityShares \in [Provider -> Nat]
        /\ totalShares = SumFunctionOnSet(liquidityShares, Provider)
    BY DEF IInv, TypeOK, SumFunction
  <2>3. liquidityShares' \in [Provider -> Nat]
    BY <1>1, <2>1, <2>2
  <2>4. SumFunctionOnSet(liquidityShares', Provider)
          = SumFunctionOnSet(liquidityShares, Provider) + liquidityShares'[u] - liquidityShares[u]
    <3>1. /\ \A v \in Provider : liquidityShares[v] \in Int /\ liquidityShares'[v] \in Int
          /\ \A v \in Provider \ {u} : liquidityShares'[v] = liquidityShares[v]
      BY <2>1, <2>2, <2>3
    <3> QED BY <3>1, SetsAreFinite, SumOfUpdate
  <2> QED BY <1>1, <2>1, <2>2, <2>3, <2>4 DEF SumFunction
<1>8. MoneyOK' /\ lapsed' \subseteq Market
  BY <1>1, <1>6, RatesAreShares DEF WithdrawLiquidity, Moving, IInv, TypeOK, MoneyOK,
                                    configVars, feeVars
<1>9. /\ Lifecycle' /\ Debts' = Debts /\ Debts \in Int /\ (FixedSoFar' <=> FixedSoFar)
      /\ MarketsOK' /\ StakesOK' /\ VotesOK'
  BY <1>8, SameMarkets DEF WithdrawLiquidity
<1>10. Slack' = Slack /\ Slack \in Int
  BY <1>1, <1>2, <1>3, <1>9 DEF WithdrawLiquidity, Slack, Obligations, Debts, feeVars, IInv, TypeOK
<1>11. Booked'
  BY DEF WithdrawLiquidity, IInv, Booked
<1>12. liquidityReserve - liquidityReserve' = amount
  BY <1>1, <1>2, <1>3
<1> QED BY <1>2, <1>3, <1>7, <1>8, <1>9, <1>10, <1>11, <1>12, TypePartsNext DEF BooksKept, SharesOK

-----------------------------------------------------------------------------
(* The bond of a dispute is a natural number.                              *)
LEMMA BondIsNat == ASSUME NEW x \in Nat PROVE Bond(x) \in Nat
<1> DEFINE a == Share(x, 800)
           b == Min({BondCap, a})
<1>1. a \in Nat /\ BondFloor \in Nat /\ BondCap \in Nat
  <2>1. 800 \in 0..BPS
    BY DEF BPS
  <2> QED BY <2>1, ShareOf, ArenaAssumption
<1> HIDE DEF a
<1>2. b \in {BondCap, a}
  BY <1>1, MinOfTwo
<1>3. b \in Nat
  BY <1>1, <1>2
<1>4. Bond(x) = Max({BondFloor, b})
  BY DEF Bond, a, b
<1> HIDE DEF b
<1>5. Max({BondFloor, b}) \in {BondFloor, b}
  BY <1>1, <1>3, MaxOfTwo
<1> QED BY <1>1, <1>3, <1>4, <1>5

(* Until the end a market owes its stakes, and the bond while disputed.    *)
LEMMA OwedWhileOpen ==
    ASSUME TypeOK, NEW m \in Market, status[m] # "FINALIZED", status'[m] # "FINALIZED"
    PROVE  /\ Owed(m) = SumFunction(pool[m]) + (IF status[m] = "DISPUTED" THEN bond[m] ELSE 0)
           /\ Owed(m)' = SumFunction(pool'[m]) + (IF status'[m] = "DISPUTED" THEN bond'[m] ELSE 0)
           /\ SumFunction(pool[m]) \in Nat /\ bond[m] \in Nat
BY PoolsAreNat DEF Owed, TypeOK

(* A new market owes nothing.                                              *)
LEMMA CreateMarketOK ==
    ASSUME IInv, NEW m \in Market, CreateMarket(m)
    PROVE  BooksKept
<1> USE DEF CreateMarket, verdictVars, stakeVars, configVars, lpVars, reserveVars, feeVars
<1>1. /\ MarketsOK' /\ StakesOK' /\ VotesOK' /\ MoneyOK' /\ SharesOK'
  <2>1. MarketsOK'
    BY DEF IInv, TypeOK, MarketsOK
  <2>2. StakesOK' /\ VotesOK' /\ SharesOK'
    BY SameStakes, SameVotes, SameShares DEF IInv
  <2>3. MoneyOK'
    BY DEF IInv, TypeOK, MoneyOK
  <2> QED BY <2>1, <2>2, <2>3
<1>2. Lifecycle' /\ (FixedSoFar' => FixedSoFar)
  <2>1. status'[m] = "OPEN" /\ \A n \in Market \ {m} :
            status'[n] = status[n] /\ (n \in fixedOdds' <=> n \in fixedOdds)
    BY DEF IInv, TypeOK
  <2> QED BY <2>1 DEF IInv, Lifecycle, FixedSoFar
<1>3. Debts' = Debts /\ Debts \in Int
  <2>1. ASSUME NEW n \in Market PROVE Owed(n)' = Owed(n)
    <3>1. CASE n = m
      <4>1. status[m] = "NONE" /\ status'[m] = "OPEN" /\ pool'[m] = pool[m]
        BY DEF IInv, TypeOK
      <4> QED BY <3>1, <4>1, OwedWhileOpen DEF IInv
    <3>2. CASE n # m
      BY <3>2, OwedStays DEF IInv, TypeOK
    <3> QED BY <3>1, <3>2
  <2> QED BY <2>1, DebtsStay DEF IInv
<1>4. Slack' = Slack /\ Slack \in Int /\ Booked'
  BY <1>3 DEF Slack, Obligations, Debts, IInv, TypeOK, Booked
<1> QED BY <1>1, <1>2, <1>3, <1>4, TypePartsNext DEF BooksKept

(* The end of a window moves no money.                                     *)
LEMMA LapseOK ==
    ASSUME IInv, NEW m \in Market, Lapse(m)
    PROVE  BooksKept
<1> USE DEF Lapse, configVars, lpVars, reserveVars, feeVars
<1>1. lapsed' \subseteq Market
  BY DEF IInv, TypeOK
<1>2. /\ Lifecycle' /\ Debts' = Debts /\ Debts \in Int /\ (FixedSoFar' <=> FixedSoFar)
      /\ MarketsOK' /\ StakesOK' /\ VotesOK'
  BY <1>1, SameMarkets
<1>3. MoneyOK' /\ SharesOK'
  BY SameShares DEF IInv, TypeOK, MoneyOK
<1>4. Slack' = Slack /\ Slack \in Int /\ Booked'
  BY <1>2 DEF Slack, Obligations, Debts, IInv, TypeOK, Booked
<1> QED BY <1>2, <1>3, <1>4, TypePartsNext DEF BooksKept

(* Nor does a verdict that may still be disputed.                          *)
LEMMA DeclareWinnerByAIOK ==
    ASSUME IInv, NEW m \in Market, NEW s \in Side, DeclareWinnerByAI(m, s)
    PROVE  BooksKept
<1> USE DEF DeclareWinnerByAI, stakeVars, configVars, lpVars, reserveVars, feeVars
<1>1. status'[m] = "AI_RESOLVED" /\ status[m] = "OPEN" /\ verdict'[m] = s
  BY DEF IInv, TypeOK
<1>2. \A n \in Market \ {m} : status'[n] = status[n] /\ verdict'[n] = verdict[n]
  BY DEF IInv, TypeOK
<1>3. MarketsOK'
  BY <1>1, <1>2 DEF IInv, TypeOK, MarketsOK
<1>4. StakesOK' /\ VotesOK' /\ SharesOK' /\ MoneyOK'
  BY SameStakes, SameVotes, SameShares DEF IInv, TypeOK, MoneyOK
<1>5. Lifecycle' /\ (FixedSoFar' => FixedSoFar)
  BY <1>1, <1>2 DEF IInv, Lifecycle, FixedSoFar
<1>6. Debts' = Debts /\ Debts \in Int
  <2>1. ASSUME NEW n \in Market PROVE Owed(n)' = Owed(n)
    <3>1. CASE n = m
      BY <3>1, <1>1, OwedWhileOpen DEF IInv
    <3>2. CASE n # m
      BY <3>2, <1>2, OwedStays
    <3> QED BY <3>1, <3>2
  <2> QED BY <2>1, DebtsStay DEF IInv
<1>7. Slack' = Slack /\ Slack \in Int /\ Booked'
  BY <1>6 DEF Slack, Obligations, Debts, IInv, TypeOK, Booked
<1> QED BY <1>3, <1>4, <1>5, <1>6, <1>7, TypePartsNext DEF BooksKept

(* A disputer pays the bond that is now owed to her.                       *)
LEMMA RaiseDisputeOK ==
    ASSUME IInv, NEW m \in Market, NEW u \in User, RaiseDispute(m, u)
    PROVE  BooksKept
<1> USE DEF RaiseDispute, stakeVars, configVars, lpVars, reserveVars, feeVars
<1> DEFINE d == Bond(stakes[m][u][Other(verdict[m])])
<1>1. d \in Nat
  <2>1. status[m] = "AI_RESOLVED"
    OBVIOUS
  <2>2. verdict[m] \in Side
    BY <2>1 DEF IInv, Lifecycle
  <2>3. Other(verdict[m]) \in Side
    BY <2>2, OtherIsSide
  <2>4. stakes[m][u][Other(verdict[m])] \in Nat
    BY <2>3 DEF IInv, TypeOK
  <2> QED BY <2>4, BondIsNat
<1>2. /\ status' = [status EXCEPT ![m] = "DISPUTED"] /\ status[m] = "AI_RESOLVED"
      /\ bond' = [bond EXCEPT ![m] = d] /\ balance' = balance + d
  OBVIOUS
<1> HIDE DEF d
<1>3. /\ status'[m] = "DISPUTED" /\ bond'[m] = d
      /\ \A n \in Market \ {m} : status'[n] = status[n] /\ bond'[n] = bond[n]
  BY <1>2 DEF IInv, TypeOK
<1>4. MarketsOK'
  BY <1>1, <1>2, <1>3 DEF IInv, TypeOK, MarketsOK
<1>5. StakesOK' /\ VotesOK' /\ SharesOK'
  BY SameStakes, SameVotes, SameShares DEF IInv
<1>6. MoneyOK'
  BY <1>1, <1>2 DEF IInv, TypeOK, MoneyOK
<1>7. Lifecycle' /\ (FixedSoFar' => FixedSoFar)
  BY <1>2, <1>3 DEF IInv, Lifecycle, FixedSoFar
<1>8. Debts' = Debts + d /\ Debts \in Int
  <2>1. Owed(m)' = Owed(m) + d
    BY <1>1, <1>2, <1>3, OwedWhileOpen DEF IInv
  <2>2. \A n \in Market \ {m} : Owed(n)' = Owed(n)
    BY <1>3, OwedStays
  <2> QED BY <1>1, <2>1, <2>2, DebtsMove DEF IInv
<1>9. Slack' = Slack /\ Slack \in Int /\ Booked'
  BY <1>1, <1>2, <1>8 DEF Slack, Obligations, Debts, IInv, TypeOK, Booked
<1> QED BY <1>4, <1>5, <1>6, <1>7, <1>8, <1>9, TypePartsNext DEF BooksKept

(* The reserve requirement of one market, and the total of all.            *)
LEMMA RequirementMoves ==
    ASSUME IInv, NEW m \in Market, NEW r \in Nat,
           requirement' = [requirement EXCEPT ![m] = r],
           totalReserved' = totalReserved + r - requirement[m]
    PROVE  /\ requirement' \in [Market -> Nat] /\ totalReserved' \in Nat /\ Booked'
           /\ totalReserved \in Nat /\ requirement[m] <= totalReserved
<1>1. requirement \in [Market -> Nat] /\ totalReserved = SumFunctionOnSet(requirement, Market)
  BY DEF IInv, TypeOK, Booked, SumFunction
<1>2. requirement' \in [Market -> Nat]
  BY <1>1
<1>3. /\ \A n \in Market : requirement[n] \in Int /\ requirement'[n] \in Int
      /\ \A n \in Market \ {m} : requirement'[n] = requirement[n]
  BY <1>1, <1>2
<1>4. SumFunctionOnSet(requirement', Market)
        = SumFunctionOnSet(requirement, Market) + requirement'[m] - requirement[m]
  <2>1. IsFiniteSet(Market)
    BY SetsAreFinite
  <2> DEFINE f == requirement
             g == requirement'
  <2>2. /\ \A n \in Market : f[n] \in Int /\ g[n] \in Int
        /\ \A n \in Market \ {m} : g[n] = f[n]
    BY <1>3
  <2> HIDE DEF f, g
  <2>3. SumFunctionOnSet(g, Market) = SumFunctionOnSet(f, Market) + g[m] - f[m]
    BY ONLY m \in Market, <2>1, <2>2, SumOfUpdate
  <2> QED BY <2>3 DEF f, g
<1>5. /\ SumFunctionOnSet(requirement, Market) \in Nat
      /\ SumFunctionOnSet(requirement', Market) \in Nat
      /\ requirement[m] <= SumFunctionOnSet(requirement, Market)
  <2>1. /\ \A n \in Market : requirement[n] \in Nat
        /\ \A n \in Market : requirement'[n] \in Nat
    BY <1>1, <1>2
  <2>2. /\ SumFunctionOnSet(requirement, Market) \in Nat
        /\ \A n \in Market : requirement[n] <= SumFunctionOnSet(requirement, Market)
    BY <2>1, SetsAreFinite, SumOfNaturals
  <2>3. SumFunctionOnSet(requirement', Market) \in Nat
    BY <2>1, SetsAreFinite, SumOfNaturals
  <2> QED BY <2>2, <2>3
<1>6. totalReserved' = SumFunctionOnSet(requirement', Market)
  BY <1>1, <1>4, <1>5
<1> QED BY <1>1, <1>2, <1>5, <1>6 DEF Booked, SumFunction

(* The rates in force are shares of the whole.                             *)
LEMMA LossRate == ASSUME TypeOK PROVE lossTreasuryBps \in 0..BPS
BY RatesAreShares DEF TypeOK

(* What a stake reserves is booked, and leaves the reserve enough.         *)
LEMMA ReserveOK ==
    ASSUME IInv, NEW m \in Market, NEW p \in [Side -> Nat], Reserve(m, p)
    PROVE  /\ requirement' \in [Market -> Nat] /\ totalReserved' \in Nat /\ Booked'
           /\ \A n \in Market \ {m} : requirement'[n] = requirement[n]
           /\ m \in fixedOdds => requirement'[m] = Required(p)
           /\ m \notin fixedOdds => requirement' = requirement
           /\ \A k \in Nat : totalReserved <= liquidityReserve + k
                              => totalReserved' <= liquidityReserve + k
<1>1. CASE m \in fixedOdds
  <2> DEFINE r == Required(p)
             a == liquidityReserve - totalReserved
  <2>1. r \in Nat
    BY RequiredCovers, LossRate DEF IInv
  <2>2. /\ requirement' = [requirement EXCEPT ![m] = r]
        /\ totalReserved' = totalReserved + r - requirement[m]
        /\ r - requirement[m] <= Available
    BY <1>1 DEF Reserve
  <2>3. a \in Int /\ Available = Max({0, a})
    BY DEF Available, IInv, TypeOK
  <2> HIDE DEF r, a
  <2>4. /\ requirement' \in [Market -> Nat] /\ totalReserved' \in Nat /\ Booked'
        /\ totalReserved \in Nat /\ requirement[m] <= totalReserved
    BY <2>1, <2>2, RequirementMoves
  <2>5. Available \in {0, a}
    <3>1. Max({0, a}) \in {0, a}
      BY ONLY <2>3, 0 \in Int, MaxOfTwo
    <3> QED BY <2>3, <3>1
  <2>6. requirement \in [Market -> Nat] /\ liquidityReserve \in Nat
    BY DEF IInv, TypeOK
  <2>7. requirement'[m] = r /\ \A n \in Market \ {m} : requirement'[n] = requirement[n]
    BY <2>2, <2>6
  <2>8. \A k \in Nat : totalReserved <= liquidityReserve + k
                         => totalReserved' <= liquidityReserve + k
    <3>1. a = liquidityReserve - totalReserved
      BY DEF a
    <3>2. requirement[m] \in Nat
      BY <2>6
    <3> QED BY <2>1, <2>2, <2>4, <2>5, <2>6, <3>1, <3>2
  <2> QED BY <1>1, <2>4, <2>7, <2>8 DEF r
<1>2. CASE m \notin fixedOdds
  BY <1>2 DEF Reserve, IInv, TypeOK, Booked
<1> QED BY <1>1, <1>2

(* A stake is owed to the staker's side, and covered by what she paid.     *)
LEMMA StakeOK ==
    ASSUME IInv, NEW m \in Market, NEW u \in User, NEW s \in Side, NEW x \in Amount,
           Stake(m, u, s, x)
    PROVE  BooksKept
<1> USE DEF configVars, lpVars, feeVars
<1>1. x \in Nat /\ status[m] = "OPEN"
  BY RatesAreShares DEF Stake
<1> DEFINE p == [pool[m] EXCEPT ![s] = @ + x]
<1>2. /\ stakes' = [stakes EXCEPT ![m][u][s] = @ + x]
      /\ pool' = [pool EXCEPT ![m][s] = @ + x]
      /\ balance' = balance + x
      /\ Reserve(m, p)
      /\ UNCHANGED <<status, fixedOdds, lapsed, claimed, verdictVars, configVars,
                     lpVars, liquidityReserve, feeVars>>
  BY DEF Stake
<1>3. /\ stakes \in [Market -> [User -> [Side -> Nat]]] /\ pool \in [Market -> [Side -> Nat]]
  BY DEF IInv, TypeOK
<1>4. /\ p \in [Side -> Nat] /\ pool'[m] = p
      /\ p[s] = pool[m][s] + x /\ p[Other(s)] = pool[m][Other(s)]
  BY <1>1, <1>2, <1>3, OtherIsSide
<1>5. /\ requirement' \in [Market -> Nat] /\ totalReserved' \in Nat /\ Booked'
  BY <1>2, <1>4, ReserveOK
<1> HIDE DEF p
<1>6. /\ stakes' \in [Market -> [User -> [Side -> Nat]]] /\ pool' \in [Market -> [Side -> Nat]]
      /\ \A n \in Market \ {m} : stakes'[n] = stakes[n] /\ pool'[n] = pool[n]
      /\ \A v \in User, t \in Side :
            stakes'[m][v][t] = IF v = u /\ t = s THEN stakes[m][v][t] + x ELSE stakes[m][v][t]
      /\ \A t \in Side : pool'[m][t] = IF t = s THEN pool[m][t] + x ELSE pool[m][t]
  BY <1>1, <1>2, <1>3
<1>7. ASSUME NEW n \in Market, NEW t \in Side
      PROVE  pool'[n][t] = SumFunction([v \in User |-> stakes'[n][v][t]])
  <2> DEFINE f == [v \in User |-> stakes[n][v][t]]
             g == [v \in User |-> stakes'[n][v][t]]
  <2>1. pool[n][t] = SumFunctionOnSet(f, User)
    BY DEF IInv, TypeOK, SumFunction
  <2>2. \A v \in User : f[v] \in Int /\ g[v] \in Int
    BY <1>3, <1>6
  <2>3. SumFunctionOnSet(f, User) \in Int
    BY <2>2, SetsAreFinite, SumTakesOut
  <2>4. CASE n = m /\ t = s
    <3>1. g[u] = f[u] + x /\ \A v \in User \ {u} : g[v] = f[v]
      BY <1>6, <2>4
    <3>2. pool'[n][t] = pool[n][t] + x
      BY <1>6, <2>4
    <3> HIDE DEF f, g
    <3>3. SumFunctionOnSet(g, User) = SumFunctionOnSet(f, User) + g[u] - f[u]
      BY <2>2, <3>1, SetsAreFinite, SumOfUpdate
    <3>4. SumFunctionOnSet(g, User) = pool'[n][t]
      BY <1>1, <2>1, <2>2, <2>3, <3>1, <3>2, <3>3
    <3> QED BY <3>4 DEF g, SumFunction
  <2>5. CASE ~(n = m /\ t = s)
    <3>1. \A v \in User : f[v] = g[v]
      BY <1>6, <2>5
    <3>2. pool'[n][t] = pool[n][t]
      BY <1>6, <2>5
    <3> HIDE DEF f, g
    <3>3. SumFunctionOnSet(g, User) = pool'[n][t]
      BY <2>1, <3>1, <3>2, SetsAreFinite, SumIsLocal
    <3> QED BY <3>3 DEF g, SumFunction
  <2> QED BY <2>4, <2>5
<1>8. StakesOK'
  BY <1>6, <1>7 DEF StakesOK
<1>9. MarketsOK' /\ VotesOK' /\ SharesOK' /\ MoneyOK'
  <2>1. VotesOK' /\ SharesOK'
    BY <1>2, SameVotes, SameShares DEF IInv, verdictVars
  <2>2. MarketsOK'
    BY <1>2 DEF IInv, TypeOK, MarketsOK, verdictVars
  <2>3. MoneyOK'
    <3>1. MoneyOK
      BY TypeParts DEF IInv
    <3>2. balance' \in Nat
      BY <1>1, <1>2, <3>1 DEF MoneyOK
    <3> QED BY <1>2, <1>5, <3>1, <3>2 DEF MoneyOK
  <2> QED BY <2>1, <2>2, <2>3
<1>10. Lifecycle' /\ (FixedSoFar' => FixedSoFar)
  BY <1>1, <1>2, <1>6 DEF IInv, Lifecycle, FixedSoFar, verdictVars
<1>11. Debts' = Debts + x /\ Debts \in Int
  <2>1. SumFunction(pool'[m]) = SumFunction(pool[m]) + x
    <3>1. SumFunction(pool[m]) = pool[m]["HAWK"] + pool[m]["DOVE"]
      BY PoolsAreNat DEF IInv
    <3>2. SumFunction(pool'[m]) = pool'[m]["HAWK"] + pool'[m]["DOVE"]
      <4>1. pool'[m] \in [Side -> Int]
        BY <1>6
      <4> QED BY <4>1, PoolSum
    <3>3. pool[m]["HAWK"] \in Nat /\ pool[m]["DOVE"] \in Nat
      BY <1>3 DEF Side
    <3>4. CASE s = "HAWK"
      BY <1>1, <1>6, <3>1, <3>2, <3>3, <3>4 DEF Side
    <3>5. CASE s = "DOVE"
      BY <1>1, <1>6, <3>1, <3>2, <3>3, <3>5 DEF Side
    <3> QED BY <3>4, <3>5 DEF Side
  <2>2. Owed(m)' = Owed(m) + x
    BY <1>1, <1>2, <2>1, OwedWhileOpen DEF IInv, verdictVars
  <2>3. \A n \in Market \ {m} : Owed(n)' = Owed(n)
    BY <1>2, <1>6, OwedStays DEF verdictVars
  <2> QED BY <1>1, <2>2, <2>3, DebtsMove DEF IInv
<1>12. Slack' = Slack /\ Slack \in Int
  BY <1>1, <1>2, <1>11 DEF Slack, Obligations, Debts, IInv, TypeOK
<1> QED BY <1>5, <1>8, <1>9, <1>10, <1>12, TypePartsNext DEF BooksKept

-----------------------------------------------------------------------------
(* All claims together are a natural number.                               *)
LEMMA DebtsNat == ASSUME TypeOK PROVE Debts \in Nat
<1> DEFINE f == [m \in Market |-> Owed(m)]
<1>1. \A m \in Market : f[m] \in Nat
  BY DebtIsNat
<1>2. Debts = SumFunctionOnSet(f, Market)
  BY DEF Debts, SumFunction
<1> HIDE DEF f
<1> QED BY <1>1, <1>2, SetsAreFinite, SumOfNaturals

(* The treasury takes what was kept for it, which the balance holds.       *)
LEMMA RetryTreasuryTransferOK == ASSUME IInv, RetryTreasuryTransfer PROVE BooksKept
<1> USE DEF RetryTreasuryTransfer, configVars, lpVars, reserveVars
<1>1. MoneyOK
  BY TypeParts DEF IInv
<1>2. pendingTreasury \in Nat /\ pendingTreasury <= balance
  BY <1>1, DebtsNat DEF MoneyOK, IInv, Backed, Obligations, Debts
<1>3. MoneyOK' /\ SharesOK' /\ lapsed' \subseteq Market
  <2>1. MoneyOK'
    BY <1>1, <1>2, RatesAreShares DEF MoneyOK
  <2> QED BY <2>1, SameShares DEF IInv, TypeOK
<1>4. /\ Lifecycle' /\ Debts' = Debts /\ Debts \in Int /\ (FixedSoFar' <=> FixedSoFar)
      /\ MarketsOK' /\ StakesOK' /\ VotesOK'
  BY <1>3, SameMarkets
<1>5. Slack' = Slack /\ Slack \in Int /\ Booked'
  BY <1>1, <1>2, <1>4 DEF Slack, Obligations, Debts, MoneyOK, IInv, Booked
<1> QED BY <1>3, <1>4, <1>5, TypePartsNext DEF BooksKept

(* Switching and rating move no money.                                     *)
LEMMA SettingsOK ==
    ASSUME IInv,
           \/ \E bps \in LossBps : SetLossTreasuryBps(bps)
           \/ \E on \in BOOLEAN : SetFixedOddsEnabled(on)
    PROVE  BooksKept
<1> USE DEF SetLossTreasuryBps, SetFixedOddsEnabled, lpVars, reserveVars, feeVars
<1>1. /\ UNCHANGED <<status, fixedOdds, lapsed, claimed, balance, verdictVars, stakeVars, lpVars,
                     reserveVars, feeVars>>
      /\ fixedOddsEnabled' \in BOOLEAN /\ lossTreasuryBps' \in LossBps
  BY DEF IInv, TypeOK
<1>2. MoneyOK' /\ SharesOK' /\ lapsed' \subseteq Market
  BY <1>1, SameShares DEF IInv, TypeOK, MoneyOK
<1>3. /\ Lifecycle' /\ Debts' = Debts /\ Debts \in Int /\ (FixedSoFar' <=> FixedSoFar)
      /\ MarketsOK' /\ StakesOK' /\ VotesOK'
  BY <1>1, <1>2, SameMarkets
<1>4. Slack' = Slack /\ Slack \in Int /\ Booked'
  BY <1>1, <1>3 DEF Slack, Obligations, Debts, IInv, TypeOK, Booked
<1> QED BY <1>2, <1>3, <1>4, TypePartsNext DEF BooksKept

-----------------------------------------------------------------------------
(* What the winners of a pool are owed: twice their stakes with fixed odds,*)
(* and no more than both pools where each gets an integer part of the lost *)
(* one.                                                                    *)
LEMMA WinnersDebt ==
    ASSUME NEW k \in [User -> Nat], NEW W, W = {u \in User : k[u] > 0},
           NEW lost \in Nat, NEW P, P = SumFunctionOnSet(k, User)
    PROVE  /\ SumFunctionOnSet([u \in W |-> k[u] + k[u]], W) = P + P
           /\ SumFunctionOnSet([u \in W |-> k[u] + (k[u] * lost) \div P], W) <= P + lost
           /\ P \in Nat
<1>1. IsFiniteSet(User) /\ W \subseteq User /\ IsFiniteSet(W)
  BY SetsAreFinite, FS_Subset
<1>2. P \in Nat /\ P = SumFunctionOnSet(k, W)
  <2>1. \A u \in User : k[u] \in Int /\ k[u] \in Nat
    OBVIOUS
  <2>2. \A u \in User \ W : k[u] = 0
    BY <2>1
  <2>3. P = SumFunctionOnSet(k, W)
    BY <1>1, <2>1, <2>2, SumOfSupport
  <2>4. P \in Nat
    BY <1>1, <2>1, SumOfNaturals
  <2> QED BY <2>3, <2>4
<1>3. SumFunctionOnSet([u \in W |-> k[u] + k[u]], W) = P + P
  <2> DEFINE g == [u \in W |-> k[u] + k[u]]
  <2>1. \A u \in W : /\ k[u] \in Int /\ g[u] \in Int
                     /\ 1 * g[u] <= 2 * k[u] /\ (-1) * g[u] <= (-2) * k[u]
    BY <1>1
  <2> HIDE DEF g
  <2>2. 1 * SumFunctionOnSet(g, W) <= 2 * SumFunctionOnSet(k, W)
    BY <1>1, <2>1, SumScaled
  <2>3. (-1) * SumFunctionOnSet(g, W) <= (-2) * SumFunctionOnSet(k, W)
    <3>1. -1 \in Int /\ -2 \in Int
      OBVIOUS
    <3> QED BY <1>1, <2>1, <3>1, SumScaled
  <2>4. SumFunctionOnSet(g, W) \in Int
    BY <1>1, <2>1, SumTakesOut
  <2>5. SumFunctionOnSet(g, W) = P + P
    BY <1>2, <2>2, <2>3, <2>4
  <2> QED BY <2>5 DEF g
<1>4. SumFunctionOnSet([u \in W |-> k[u] + (k[u] * lost) \div P], W) <= P + lost
  <2> DEFINE h == [u \in W |-> k[u] + (k[u] * lost) \div P]
  <2>1. CASE W = {}
    <3>1. SumFunctionOnSet(h, W) = 0
      BY <2>1, SumOfNone
    <3> QED BY <1>2, <3>1
  <2>2. CASE W # {}
    <3>1. P \in Nat \ {0}
      <4>1. PICK u \in W : TRUE
        BY <2>2
      <4>2. \A v \in User : k[v] \in Nat
        OBVIOUS
      <4>3. \A v \in User : k[v] <= P
        BY <1>1, <4>2, SumOfNaturals
      <4> QED BY <1>1, <1>2, <4>1, <4>3
    <3>2. ASSUME NEW u \in W
          PROVE  h[u] \in Int /\ k[u] \in Int /\ P * h[u] <= (P + lost) * k[u]
      <4> DEFINE x == k[u]
                 n == x * lost
                 q == n \div P
      <4>1. x \in Nat /\ n \in Nat
        BY <1>1
      <4> HIDE DEF n
      <4>2. q \in Nat /\ P * q <= n
        BY <3>1, <4>1, Quotient
      <4>3. h[u] = x + q
        BY DEF n
      <4> HIDE DEF x, q, h
      <4>4. P * (x + q) = P * x + P * q
        BY <1>2, <4>1, <4>2
      <4>5. (P + lost) * x = P * x + lost * x
        BY <1>2, <4>1
      <4>6. lost * x = n /\ P * x \in Nat
        BY <1>2, <4>1 DEF n
      <4>7. P * h[u] <= (P + lost) * x
        BY <1>2, <4>1, <4>2, <4>3, <4>4, <4>5, <4>6
      <4>8. h[u] \in Int
        BY <4>1, <4>2, <4>3
      <4> QED BY <4>1, <4>7, <4>8 DEF x
    <3> HIDE DEF h
    <3>3. P * SumFunctionOnSet(h, W) <= (P + lost) * SumFunctionOnSet(k, W)
      <4>1. P \in Int /\ P + lost \in Int
        BY <1>2
      <4> QED BY <1>1, <3>2, <4>1, SumScaled
    <3>4. SumFunctionOnSet(h, W) \in Int
      BY <1>1, <3>2, SumTakesOut
    <3> DEFINE z == SumFunctionOnSet(h, W)
    <3>5. z \in Int /\ P * z <= (P + lost) * P
      BY <1>2, <3>3, <3>4
    <3> HIDE DEF z
    <3>6. z <= P + lost
      <4> SUFFICES ASSUME z >= P + lost + 1 PROVE FALSE
        BY <1>2, <3>5
      <4>1. P * z >= P * (P + lost + 1)
        BY <3>1, <3>5
      <4>2. P * (P + lost + 1) = (P + lost) * P + P
        BY <3>1
      <4> QED BY <3>1, <3>5, <4>1, <4>2
    <3> QED BY <3>6 DEF z, h
  <2> QED BY <2>1, <2>2
<1> QED BY <1>2, <1>3, <1>4

(* A payment, with what the treasury has not accepted kept for later.      *)
LEMMA ForwardOK ==
    ASSUME MoneyOK, NEW x \in Nat, NEW kept \in Nat, NEW payout \in Nat, Forward(x, kept, payout)
    PROVE  /\ balance' \in Nat /\ pendingTreasury' \in 0..MaxKept
           /\ balance' - pendingTreasury' = balance - pendingTreasury - x - payout
BY RatesAreShares DEF MoneyOK, Forward

(* Settling m for w turns stakes into claims and squares the pools with    *)
(* the reserve, after the treasury's share: what is owed afterwards is no  *)
(* more than before, and exactly as much with fixed odds.                  *)
LEMMA SettleOK ==
    ASSUME IInv, NEW m \in Market, NEW w \in Side,
           status[m] \in {"AI_RESOLVED", "DISPUTED"}, Settle(m, w),
           UNCHANGED <<fixedOdds, lapsed, claimed, verdict, bond, stakeVars>>
    PROVE  /\ MarketsOK' /\ StakesOK' /\ Lifecycle' /\ Booked'
           /\ requirement' \in [Market -> Nat] /\ totalReserved' \in Nat
           /\ liquidityReserve' \in Nat
           /\ Tax(m, w) \in Nat /\ Debts' \in Int
           /\ FixedSoFar' => FixedSoFar /\ m \in fixedOdds
           /\ LET paid == Tax(m, w) + IF status[m] = "DISPUTED" THEN bond[m] ELSE 0 IN
                /\ Debts' + liquidityReserve' + paid <= Debts + liquidityReserve
                /\ m \in fixedOdds => Debts' + liquidityReserve' + paid = Debts + liquidityReserve
<1> USE DEF stakeVars
<1>1. /\ status' = [status EXCEPT ![m] = "FINALIZED"] /\ winner' = [winner EXCEPT ![m] = w]
      /\ UNCHANGED <<fixedOdds, lapsed, claimed, verdict, bond, stakes, pool>>
  BY DEF Settle
<1>2. /\ status'[m] = "FINALIZED" /\ winner'[m] = w
      /\ \A n \in Market \ {m} : status'[n] = status[n] /\ winner'[n] = winner[n]
  BY <1>1 DEF IInv, TypeOK
<1>3. MarketsOK' /\ StakesOK'
  <2>1. w # "NONE"
    BY DEF Side
  <2>2. MarketsOK
    BY TypeParts DEF IInv
  <2>3. MarketsOK'
    BY <1>1, <1>2, <2>1, <2>2 DEF MarketsOK
  <2> QED BY <2>3, SameStakes DEF IInv
<1>4. Lifecycle' /\ (FixedSoFar' => FixedSoFar /\ m \in fixedOdds)
  BY <1>1, <1>2 DEF IInv, Lifecycle, FixedSoFar
<1> DEFINE o == Other(w)
           P == pool[m][w]
           L == pool[m][o]
           T == Share(L, lossTreasuryBps)
<1>5. P \in Nat /\ L \in Nat /\ SumFunction(pool[m]) = P + L /\ o \in Side
  <2>1. o \in Side
    BY OtherIsSide
  <2>2. \A s \in Side : pool[m][s] \in Nat
    BY DEF IInv, TypeOK
  <2>3. SumFunction(pool[m]) = pool[m]["HAWK"] + pool[m]["DOVE"]
    BY PoolsAreNat DEF IInv
  <2>4. CASE w = "HAWK"
    BY <2>1, <2>2, <2>3, <2>4, OtherSide DEF Side
  <2>5. CASE w = "DOVE"
    BY <2>1, <2>2, <2>3, <2>5, OtherSide DEF Side
  <2> QED BY <2>4, <2>5 DEF Side
<1>6. T \in Nat /\ T <= L
  BY <1>5, ShareOf, LossRate DEF IInv
<1>7. Tax(m, w) = (IF m \in fixedOdds THEN T ELSE 0) /\ Tax(m, w) \in Nat
  BY <1>6 DEF Tax
<1>8. /\ liquidityReserve \in Nat /\ totalReserved \in Nat
      /\ requirement \in [Market -> Nat] /\ bond[m] \in Nat
  BY DEF IInv, TypeOK
<1>9. /\ liquidityReserve' \in Nat
      /\ liquidityReserve' = liquidityReserve - IF m \in fixedOdds THEN P - (L - T) ELSE 0
  <2>1. CASE m \in fixedOdds
    BY <1>5, <1>6, <1>8, <2>1 DEF Settle, Short
  <2>2. CASE m \notin fixedOdds
    BY <1>8, <2>2 DEF Settle, reserveVars
  <2> QED BY <2>1, <2>2
<1>10. requirement' \in [Market -> Nat] /\ totalReserved' \in Nat /\ Booked'
  <2>1. CASE m \in fixedOdds
    <3>1. /\ requirement' = [requirement EXCEPT ![m] = 0]
          /\ totalReserved' = totalReserved - requirement[m]
      BY <2>1 DEF Settle
    <3>2. totalReserved' = totalReserved + 0 - requirement[m]
      BY <1>8, <3>1
    <3> QED BY <3>1, <3>2, RequirementMoves
  <2>2. CASE m \notin fixedOdds
    BY <1>8, <2>2 DEF Settle, reserveVars, IInv, Booked
  <2> QED BY <2>1, <2>2
<1>11. /\ Owed(m)' \in Nat /\ (m \notin fixedOdds => Owed(m)' <= P + L)
       /\ m \in fixedOdds => Owed(m)' = P + P
  <2> DEFINE k == [u \in User |-> stakes[m][u][w]]
             W == {u \in User : k[u] > 0}
             g == [u \in W |-> k[u] + k[u]]
             h == [u \in W |-> k[u] + (k[u] * L) \div P]
  <2>1. k \in [User -> Nat] /\ P = SumFunctionOnSet(k, User)
    BY DEF IInv, TypeOK, SumFunction
  <2>2. Unpaid(m)' = W
    <3>1. claimed[m] = {}
      BY DEF IInv, Lifecycle
    <3> QED BY <1>1, <1>2, <3>1 DEF Unpaid
  <2>3. ASSUME NEW u \in W
        PROVE  Payout(m, u)' = k[u] + IF m \in fixedOdds THEN k[u] ELSE (k[u] * L) \div P
    BY <1>1, <1>2 DEF Payout
  <2>4. Owed(m)' = SumFunction([u \in Unpaid(m)' |-> Payout(m, u)'])
    BY <1>2 DEF Owed
  <2>5. /\ SumFunctionOnSet(g, W) = P + P
        /\ SumFunctionOnSet(h, W) <= P + L
    <3>1. W = {u \in User : k[u] > 0}
      OBVIOUS
    <3> QED BY ONLY <1>5, <2>1, <3>1, WinnersDebt
  <2>6. CASE m \in fixedOdds
    <3>1. [u \in Unpaid(m)' |-> Payout(m, u)'] = g
      BY <2>2, <2>3, <2>6
    <3>2. Owed(m)' = SumFunctionOnSet(g, W)
      BY <2>4, <3>1 DEF SumFunction
    <3> HIDE DEF g, h, k, W
    <3>3. Owed(m)' = P + P
      BY <2>5, <3>2
    <3> QED BY <1>5, <2>6, <3>3
  <2>7. CASE m \notin fixedOdds
    <3>1. [u \in Unpaid(m)' |-> Payout(m, u)'] = h
      BY <2>2, <2>3, <2>7
    <3>2. Owed(m)' = SumFunctionOnSet(h, W)
      BY <2>4, <3>1 DEF SumFunction
    <3>3. \A u \in W : h[u] \in Nat
      <4>1. SUFFICES ASSUME NEW u \in W PROVE k[u] + (k[u] * L) \div P \in Nat
        OBVIOUS
      <4> DEFINE x == k[u]
                 n == x * L
      <4>2. x \in Nat \ {0} /\ x <= P /\ n \in Nat
        <5>1. \A v \in User : k[v] \in Nat
          BY <2>1
        <5>2. x <= P
          BY <2>1, <5>1, SetsAreFinite, SumOfNaturals
        <5> QED BY <1>5, <5>1, <5>2
      <4> HIDE DEF n
      <4>3. n \div P \in Nat
        BY <1>5, <4>2, Quotient
      <4> QED BY <4>2, <4>3 DEF n
    <3>4. IsFiniteSet(W)
      BY SetsAreFinite, FS_Subset
    <3> HIDE DEF g, h, k, W
    <3>5. SumFunctionOnSet(h, W) \in Nat
      BY <3>3, <3>4, SumOfNaturals
    <3> QED BY <2>5, <2>7, <3>2, <3>5
  <2> QED BY <2>6, <2>7
<1> HIDE DEF P, L, T, o
<1>12. Owed(m) = P + L + IF status[m] = "DISPUTED" THEN bond[m] ELSE 0
  BY <1>5 DEF Owed
<1>13. /\ Debts \in Int /\ Debts' = Debts + Owed(m)' - Owed(m)
  <2> DEFINE d == Owed(m)' - Owed(m)
  <2>1. d \in Int /\ Owed(m)' = Owed(m) + d
    BY <1>5, <1>8, <1>11, <1>12
  <2>2. \A n \in Market \ {m} : Owed(n)' = Owed(n)
    BY <1>1, <1>2, OwedStays
  <2> HIDE DEF d
  <2>3. Debts' = Debts + d /\ Debts \in Int
    BY <2>1, <2>2, DebtsMove DEF IInv
  <2>4. Owed(m) \in Int /\ Owed(m)' \in Int
    BY <1>5, <1>8, <1>11, <1>12
  <2> QED BY <2>3, <2>4 DEF d
<1> QED BY <1>3, <1>4, <1>5, <1>6, <1>7, <1>8, <1>9, <1>10, <1>11, <1>12, <1>13

(* A verdict that stands pays the bond back, or there is none.             *)
LEMMA FinalizeMarketOK ==
    ASSUME IInv, NEW m \in Market, FinalizeMarket(m)
    PROVE  BooksKept
<1> DEFINE w == verdict[m]
           T == Tax(m, w)
           B == IF status[m] = "DISPUTED" THEN bond[m] ELSE 0
<1>1. /\ status[m] \in {"AI_RESOLVED", "DISPUTED"} /\ Settle(m, w)
      /\ \E kept \in Kept(T) : Forward(T, kept, B)
      /\ UNCHANGED <<fixedOdds, lapsed, claimed, verdict, bond, votes, stakeVars,
                     configVars, lpVars, disputeReservePool>>
  BY DEF FinalizeMarket
<1>2. w \in Side
  BY <1>1 DEF IInv, Lifecycle
<1> DEFINE paid == T + B
<1>3. /\ MarketsOK' /\ StakesOK' /\ Lifecycle' /\ Booked'
      /\ requirement' \in [Market -> Nat] /\ totalReserved' \in Nat /\ liquidityReserve' \in Nat
      /\ T \in Nat /\ Debts' \in Int
      /\ FixedSoFar' => FixedSoFar /\ m \in fixedOdds
      /\ Debts' + liquidityReserve' + paid <= Debts + liquidityReserve
      /\ m \in fixedOdds => Debts' + liquidityReserve' + paid = Debts + liquidityReserve
  BY <1>1, <1>2, SettleOK
<1>4. MoneyOK /\ Debts \in Int /\ B \in Nat
  BY TypeParts, DebtsNat DEF IInv, TypeOK
<1>5. PICK kept \in Kept(T) : Forward(T, kept, B)
  BY <1>1
<1>6. kept \in Nat
  BY <1>3 DEF Kept
<1> HIDE DEF T, B
<1>7. /\ balance' \in Nat /\ pendingTreasury' \in 0..MaxKept
      /\ balance' - pendingTreasury' = balance - pendingTreasury - T - B
  BY <1>3, <1>4, <1>5, <1>6, ForwardOK
<1>8. MoneyOK' /\ SharesOK' /\ VotesOK'
  <2>1. MoneyOK'
    BY <1>1, <1>3, <1>4, <1>7 DEF MoneyOK, configVars, lpVars
  <2> QED BY <1>1, <2>1, SameShares, SameVotes DEF IInv, lpVars
<1>9. /\ Slack' >= Slack
      /\ m \in fixedOdds => Slack' = Slack
  <2>1. /\ balance \in Int /\ balance' \in Int /\ Debts \in Int /\ Debts' \in Int
        /\ liquidityReserve \in Int /\ liquidityReserve' \in Int
        /\ pendingTreasury \in Int /\ pendingTreasury' \in Int
        /\ disputeReservePool \in Int /\ disputeReservePool' = disputeReservePool
        /\ T \in Int /\ B \in Int
    BY <1>1, <1>3, <1>4, <1>7 DEF MoneyOK
  <2>2. /\ Slack = balance - (liquidityReserve + disputeReservePool + pendingTreasury + Debts)
        /\ Slack' = balance' - (liquidityReserve' + disputeReservePool' + pendingTreasury' + Debts')
    BY DEF Slack, Obligations, Debts
  <2> DEFINE o == Debts
             o2 == Debts'
             r2 == liquidityReserve'
             t2 == pendingTreasury'
             b2 == balance'
  <2>3. /\ b2 - t2 = balance - pendingTreasury - T - B
        /\ o2 + r2 + (T + B) <= o + liquidityReserve
        /\ m \in fixedOdds => o2 + r2 + (T + B) = o + liquidityReserve
        /\ o \in Int /\ o2 \in Int /\ r2 \in Int /\ t2 \in Int /\ b2 \in Int
    BY <1>3, <1>7, <2>1
  <2> HIDE DEF o, o2, r2, t2, b2
  <2>4. /\ b2 - (r2 + disputeReservePool + t2 + o2)
              >= balance - (liquidityReserve + disputeReservePool + pendingTreasury + o)
        /\ m \in fixedOdds =>
              b2 - (r2 + disputeReservePool + t2 + o2)
                 = balance - (liquidityReserve + disputeReservePool + pendingTreasury + o)
    BY <2>1, <2>3
  <2> QED BY <2>1, <2>2, <2>4 DEF o, o2, r2, t2, b2
<1> QED BY <1>3, <1>8, <1>9, TypePartsNext DEF BooksKept

(* A jury vote is counted; the deciding one settles, and rewards or        *)
(* divides the bond.                                                       *)
LEMMA SubmitJuryVoteOK ==
    ASSUME IInv, NEW m \in Market, NEW j \in Juror, NEW ballot \in {"overturn", "uphold"},
           SubmitJuryVote(m, j, ballot)
    PROVE  BooksKept
<1>1. /\ status[m] = "DISPUTED" /\ ~HasVoted(m, j)
      /\ votes' = [votes EXCEPT ![m][ballot] = @ \cup {j}]
      /\ \/ SettleDispute(m, ballot)
         \/ UNCHANGED <<status, winner, balance, reserveVars, feeVars>>
      /\ UNCHANGED <<fixedOdds, lapsed, claimed, verdict, bond, stakeVars, configVars, lpVars>>
  BY DEF SubmitJuryVote
<1>2. VotesOK'
  <2>1. /\ votes \in [Market -> [overturn : SUBSET Juror, uphold : SUBSET Juror]]
        /\ \A n \in Market : votes[n].overturn \cap votes[n].uphold = {}
    BY DEF IInv, TypeOK
  <2>2. CASE ballot = "overturn"
    <3>1. votes' = [votes EXCEPT ![m].overturn = @ \cup {j}]
      BY <1>1, <2>2
    <3>2. /\ votes'[m].overturn = votes[m].overturn \cup {j} /\ votes'[m].uphold = votes[m].uphold
          /\ votes' \in [Market -> [overturn : SUBSET Juror, uphold : SUBSET Juror]]
          /\ \A n \in Market \ {m} : votes'[n] = votes[n]
      BY <2>1, <3>1
    <3> QED BY <1>1, <2>1, <3>2 DEF VotesOK, HasVoted
  <2>3. CASE ballot = "uphold"
    <3>1. votes' = [votes EXCEPT ![m].uphold = @ \cup {j}]
      BY <1>1, <2>3
    <3>2. /\ votes'[m].uphold = votes[m].uphold \cup {j} /\ votes'[m].overturn = votes[m].overturn
          /\ votes' \in [Market -> [overturn : SUBSET Juror, uphold : SUBSET Juror]]
          /\ \A n \in Market \ {m} : votes'[n] = votes[n]
      BY <2>1, <3>1
    <3> QED BY <1>1, <2>1, <3>2 DEF VotesOK, HasVoted
  <2> QED BY <2>2, <2>3
<1>3. SharesOK'
  BY <1>1, SameShares DEF IInv, lpVars
<1>4. MoneyOK /\ Debts \in Int /\ bond[m] \in Nat
  BY TypeParts, DebtsNat DEF IInv, TypeOK
<1>5. CASE SettleDispute(m, ballot)
  <2> DEFINE w      == IF ballot = "overturn" THEN Other(verdict[m]) ELSE verdict[m]
             T      == Tax(m, w)
             reward == Min({Share(bond[m], 2000), disputeReservePool})
             share  == Share(bond[m], 5000)
             b      == bond[m]
  <2>1. w \in Side
    BY <1>1, OtherIsSide DEF IInv, Lifecycle
  <2>2. /\ Settle(m, w)
        /\ \E kept \in Kept(T) :
            \/ /\ disputeReservePool' = disputeReservePool - reward
               /\ Forward(T, kept, b + reward)
            \/ /\ disputeReservePool' = disputeReservePool + b - share
               /\ \E more \in Kept(share) : Forward(T + share, kept + more, 0)
    BY <1>5 DEF SettleDispute
  <2> DEFINE paid == T + IF status[m] = "DISPUTED" THEN bond[m] ELSE 0
  <2>3. /\ MarketsOK' /\ StakesOK' /\ Lifecycle' /\ Booked'
        /\ requirement' \in [Market -> Nat] /\ totalReserved' \in Nat /\ liquidityReserve' \in Nat
        /\ T \in Nat /\ Debts' \in Int
        /\ FixedSoFar' => FixedSoFar /\ m \in fixedOdds
        /\ Debts' + liquidityReserve' + paid <= Debts + liquidityReserve
        /\ m \in fixedOdds => Debts' + liquidityReserve' + paid = Debts + liquidityReserve
    BY <1>1, <2>1, <2>2, SettleOK
  <2>4. paid = T + b
    BY <1>1
  <2>5. /\ share \in Nat /\ share <= b /\ b \in Nat
        /\ reward \in Nat /\ reward <= disputeReservePool
    <3>1. 2000 \in 0..BPS /\ 5000 \in 0..BPS
      BY DEF BPS
    <3> DEFINE c == Share(b, 2000)
    <3>2. c \in Nat /\ share \in Nat /\ share <= b
      BY <1>4, <3>1, ShareOf
    <3> HIDE DEF c, share
    <3>3. disputeReservePool \in Nat
      BY <1>4 DEF MoneyOK
    <3>4. /\ Min({c, disputeReservePool}) \in {c, disputeReservePool}
          /\ Min({c, disputeReservePool}) <= disputeReservePool
      BY <3>2, <3>3, MinOfTwo
    <3>5. reward = Min({c, disputeReservePool})
      BY DEF c
    <3> QED BY <1>4, <3>2, <3>3, <3>4, <3>5
  <2>6. PICK kept \in Kept(T) :
            \/ /\ disputeReservePool' = disputeReservePool - reward
               /\ Forward(T, kept, b + reward)
            \/ /\ disputeReservePool' = disputeReservePool + b - share
               /\ \E more \in Kept(share) : Forward(T + share, kept + more, 0)
    BY <2>2
  <2>7. kept \in Nat
    BY <2>3 DEF Kept
  <2> HIDE DEF w, T, reward, share, b, paid
  <2>8. /\ balance' \in Nat /\ pendingTreasury' \in 0..MaxKept /\ disputeReservePool' \in Nat
        /\ balance' - pendingTreasury' - disputeReservePool'
             = balance - pendingTreasury - disputeReservePool - T - b
    <3>1. ASSUME disputeReservePool' = disputeReservePool - reward, Forward(T, kept, b + reward)
          PROVE  /\ balance' \in Nat /\ pendingTreasury' \in 0..MaxKept
                 /\ balance' - pendingTreasury' = balance - pendingTreasury - T - (b + reward)
      <4>1. b + reward \in Nat
        BY <2>5
      <4> QED BY <1>4, <2>3, <2>7, <3>1, <4>1, ForwardOK
    <3>2. ASSUME disputeReservePool' = disputeReservePool + b - share, NEW more \in Kept(share),
                 Forward(T + share, kept + more, 0)
          PROVE  /\ balance' \in Nat /\ pendingTreasury' \in 0..MaxKept
                 /\ balance' - pendingTreasury' = balance - pendingTreasury - (T + share) - 0
      <4>1. T + share \in Nat /\ kept + more \in Nat /\ 0 \in Nat
        BY <2>3, <2>5, <2>7 DEF Kept
      <4> QED BY <1>4, <3>2, <4>1, ForwardOK
    <3>3. disputeReservePool \in Nat /\ balance \in Nat /\ pendingTreasury \in Nat
      BY <1>4, RatesAreShares DEF MoneyOK
    <3>4. CASE disputeReservePool' = disputeReservePool - reward /\ Forward(T, kept, b + reward)
      BY <2>3, <2>5, <3>1, <3>3, <3>4, RatesAreShares
    <3>5. CASE /\ disputeReservePool' = disputeReservePool + b - share
               /\ \E more \in Kept(share) : Forward(T + share, kept + more, 0)
      BY <2>3, <2>5, <3>2, <3>3, <3>5, RatesAreShares
    <3> QED BY <2>6, <3>4, <3>5
  <2>9. MoneyOK'
    BY <1>1, <1>4, <2>3, <2>8 DEF MoneyOK, configVars, lpVars
  <2>10. /\ Slack' >= Slack
         /\ m \in fixedOdds => Slack' = Slack
    <3>1. /\ Slack = balance - (liquidityReserve + disputeReservePool + pendingTreasury + Debts)
          /\ Slack' = balance'
              - (liquidityReserve' + disputeReservePool' + pendingTreasury' + Debts')
      BY DEF Slack, Obligations, Debts
    <3>2. /\ balance \in Int /\ liquidityReserve \in Int /\ disputeReservePool \in Int
          /\ pendingTreasury \in Int /\ Debts \in Int
          /\ balance' \in Int /\ liquidityReserve' \in Int /\ disputeReservePool' \in Int
          /\ pendingTreasury' \in Int /\ Debts' \in Int /\ T \in Int /\ b \in Int
      BY <1>4, <2>3, <2>5, <2>8, RatesAreShares DEF MoneyOK
    <3>3. /\ Debts' + liquidityReserve' + (T + b) <= Debts + liquidityReserve
          /\ m \in fixedOdds => Debts' + liquidityReserve' + (T + b) = Debts + liquidityReserve
          /\ balance' - pendingTreasury' - disputeReservePool'
               = balance - pendingTreasury - disputeReservePool - T - b
      BY <2>3, <2>4, <2>8
    <3> DEFINE x  == balance  y == liquidityReserve  z == disputeReservePool
               q  == pendingTreasury  D == Debts
               x1 == balance'  y1 == liquidityReserve'  z1 == disputeReservePool'
               q1 == pendingTreasury'  D1 == Debts'
    <3>4. /\ x \in Int /\ y \in Int /\ z \in Int /\ q \in Int /\ D \in Int
          /\ x1 \in Int /\ y1 \in Int /\ z1 \in Int /\ q1 \in Int /\ D1 \in Int
          /\ T \in Int /\ b \in Int
      BY <3>2
    <3>5. D1 + y1 + (T + b) <= D + y /\ (m \in fixedOdds => D1 + y1 + (T + b) = D + y)
      BY <3>3
    <3>6. x1 - q1 - z1 = x - q - z - T - b
      BY <3>3
    <3>7. Slack = x - (y + z + q + D) /\ Slack' = x1 - (y1 + z1 + q1 + D1)
      BY <3>1
    <3> HIDE DEF x, y, z, q, D, x1, y1, z1, q1, D1
    <3>8. /\ x1 - (y1 + z1 + q1 + D1) >= x - (y + z + q + D)
          /\ m \in fixedOdds => x1 - (y1 + z1 + q1 + D1) = x - (y + z + q + D)
      BY <3>4, <3>5, <3>6
    <3> QED BY <3>7, <3>8
  <2> QED BY <1>2, <1>3, <2>3, <2>9, <2>10, TypePartsNext DEF BooksKept
<1>6. CASE UNCHANGED <<status, winner, balance, reserveVars, feeVars>>
  <2>1. MarketsOK' /\ StakesOK' /\ MoneyOK'
    BY <1>1, <1>6, SameStakes
       DEF IInv, TypeOK, MarketsOK, MoneyOK, configVars, lpVars, reserveVars, feeVars
  <2>2. Lifecycle' /\ (FixedSoFar' => FixedSoFar) /\ Booked'
    BY <1>1, <1>6 DEF IInv, Lifecycle, FixedSoFar, Booked, stakeVars, reserveVars
  <2>3. Debts' = Debts
    BY <1>1, <1>6, DebtsUntouched DEF IInv, stakeVars
  <2>4. Slack' = Slack /\ Slack \in Int
    BY <1>4, <1>6, <2>3, RatesAreShares
       DEF Slack, Obligations, Debts, MoneyOK, reserveVars, feeVars
  <2> QED BY <1>2, <1>3, <2>1, <2>2, <2>4, TypePartsNext DEF BooksKept
<1> QED BY <1>1, <1>5, <1>6

(* A claim pays off the claimer, once.                                     *)
LEMMA ClaimOK ==
    ASSUME IInv, NEW m \in Market, NEW u \in User, Claim(m, u)
    PROVE  BooksKept
<1> DEFINE pay == Payout(m, u)
<1>1. /\ status[m] = "FINALIZED" /\ u \notin claimed[m] /\ stakes[m][u][winner[m]] > 0
      /\ claimed' = [claimed EXCEPT ![m] = @ \cup {u}]
      /\ \E bps \in FeeBps :
           LET profit == pay - stakes[m][u][winner[m]]
               fee    == Share(IF m \in fixedOdds THEN profit ELSE pay, bps)
           IN \E kept \in Kept(fee) : Forward(fee, kept, pay - fee)
      /\ UNCHANGED <<status, fixedOdds, lapsed, verdictVars, stakeVars, configVars,
                     lpVars, reserveVars, disputeReservePool>>
  BY DEF Claim
<1>2. winner[m] \in Side
  BY <1>1 DEF IInv, TypeOK
<1>3. pay \in Nat /\ stakes[m][u][winner[m]] \in Nat /\ pay >= stakes[m][u][winner[m]]
  BY <1>1, <1>2, PayoutIsNat DEF IInv, TypeOK
<1> HIDE DEF pay
<1>4. PICK fee \in Nat, kept \in Nat : fee <= pay /\ Forward(fee, kept, pay - fee)
  <2>1. PICK bps \in FeeBps :
           LET profit == pay - stakes[m][u][winner[m]]
               fee    == Share(IF m \in fixedOdds THEN profit ELSE pay, bps)
           IN \E kept \in Kept(fee) : Forward(fee, kept, pay - fee)
    BY <1>1
  <2> DEFINE base == IF m \in fixedOdds THEN pay - stakes[m][u][winner[m]] ELSE pay
             fee  == Share(base, bps)
  <2>2. \E kept \in Kept(fee) : Forward(fee, kept, pay - fee)
    BY <2>1
  <2>3. base \in Nat /\ base <= pay
    BY <1>3
  <2> HIDE DEF base
  <2>4. fee \in Nat /\ fee <= pay
    <3>1. bps \in 0..BPS
      BY RatesAreShares
    <3>2. fee \in Nat /\ fee <= base
      BY <2>3, <3>1, ShareOf
    <3> HIDE DEF fee
    <3> QED BY <1>3, <2>3, <3>2
  <2> HIDE DEF fee
  <2>5. Kept(fee) \subseteq Nat
    BY <2>4 DEF Kept
  <2> QED BY <2>2, <2>4, <2>5
<1>5. MoneyOK /\ Debts \in Int
  BY TypeParts, DebtsNat DEF IInv
<1>6. /\ balance' \in Nat /\ pendingTreasury' \in 0..MaxKept
      /\ balance' - pendingTreasury' = balance - pendingTreasury - pay
  <2>1. pay - fee \in Nat
    BY <1>3, <1>4
  <2>2. /\ balance' \in Nat /\ pendingTreasury' \in 0..MaxKept
        /\ balance' - pendingTreasury' = balance - pendingTreasury - fee - (pay - fee)
    BY <1>4, <1>5, <2>1, ForwardOK
  <2>3. /\ balance \in Nat /\ pendingTreasury \in Nat /\ pendingTreasury' \in Nat
        /\ pay \in Nat /\ fee \in Nat
    BY <1>3, <1>4, <1>5, <2>2, RatesAreShares DEF MoneyOK
  <2>4. balance' - pendingTreasury' = balance - pendingTreasury - pay
    <3>1. balance' - pendingTreasury' = balance - pendingTreasury - fee - (pay - fee)
      BY <2>2
    <3>2. balance' \in Nat /\ pendingTreasury' \in Nat
      BY <2>2, RatesAreShares
    <3> DEFINE c == balance'  r == pendingTreasury'
    <3>3. c \in Int /\ r \in Int
      BY <3>2
    <3>4. c - r = balance - pendingTreasury - fee - (pay - fee)
      BY <3>1
    <3> HIDE DEF c, r
    <3>5. c - r = balance - pendingTreasury - pay
      BY <2>3, <3>3, <3>4
    <3> QED BY <3>5 DEF c, r
  <2> QED BY <2>2, <2>4
<1>7. MarketsOK' /\ StakesOK' /\ VotesOK' /\ SharesOK' /\ MoneyOK'
  <2>1. StakesOK' /\ VotesOK' /\ SharesOK'
    BY <1>1, SameStakes, SameVotes, SameShares DEF IInv, verdictVars, lpVars
  <2>2. MarketsOK'
    BY <1>1 DEF IInv, TypeOK, MarketsOK, verdictVars
  <2>3. MoneyOK'
    BY <1>1, <1>5, <1>6 DEF MoneyOK, configVars, lpVars, reserveVars
  <2> QED BY <2>1, <2>2, <2>3
<1>8. claimed \in [Market -> SUBSET User]
  BY DEF IInv, TypeOK
<1>9. Lifecycle' /\ (FixedSoFar' => FixedSoFar) /\ Booked'
  BY <1>1, <1>8 DEF IInv, Lifecycle, FixedSoFar, Booked, verdictVars, stakeVars, reserveVars
<1>10. Debts' = Debts - pay
  <2> DEFINE f == [v \in Unpaid(m) |-> Payout(m, v)]
             g == [v \in Unpaid(m) \ {u} |-> Payout(m, v)]
             U == Unpaid(m)
  <2>1. u \in U /\ IsFiniteSet(U) /\ Unpaid(m)' = U \ {u}
    <3>1. u \in U /\ U \subseteq User
      BY <1>1 DEF Unpaid
    <3>2. Unpaid(m)' = U \ {u}
      BY <1>1, <1>8 DEF Unpaid, verdictVars, stakeVars
    <3> QED BY <3>1, <3>2, SetsAreFinite, FS_Subset
  <2>2. \A v : Payout(m, v)' = Payout(m, v)
    BY <1>1 DEF Payout, verdictVars, stakeVars
  <2>3. Owed(m) = SumFunctionOnSet(f, U) /\ Owed(m)' = SumFunctionOnSet(g, U \ {u})
    <3>1. Owed(m) = SumFunctionOnSet(f, U)
      BY <1>1 DEF Owed, SumFunction
    <3>2. [v \in Unpaid(m) |-> Payout(m, v)]' = g
      BY <2>1, <2>2
    <3>3. Owed(m)' = SumFunction([v \in Unpaid(m) |-> Payout(m, v)]')
      BY <1>1 DEF Owed
    <3> QED BY <3>1, <3>2, <3>3 DEF SumFunction
  <2>4. \A v \in U : f[v] \in Nat /\ f[v] \in Int
    BY <1>2, PayoutIsNat DEF Unpaid, IInv
  <2>5. f[u] = pay /\ \A v \in U \ {u} : g[v] = f[v]
    BY <2>1 DEF pay
  <2> HIDE DEF f, g, U
  <2>6. SumFunctionOnSet(g, U \ {u}) = SumFunctionOnSet(f, U \ {u})
    <3>1. IsFiniteSet(U \ {u})
      BY <2>1, FS_RemoveElement
    <3> QED BY <2>5, <3>1, SumIsLocal
  <2>7. /\ SumFunctionOnSet(f, U) \in Int
        /\ SumFunctionOnSet(f, U) = f[u] + SumFunctionOnSet(f, U \ {u})
    BY <2>1, <2>4, SumTakesOut
  <2>8. SumFunctionOnSet(f, U \ {u}) \in Int
    <3>1. IsFiniteSet(U \ {u}) /\ \A v \in U \ {u} : f[v] \in Int
      BY <2>1, <2>4, FS_RemoveElement
    <3> QED BY <3>1, SumTakesOut
  <2> DEFINE d == -pay
  <2>9. d \in Int /\ Owed(m)' = Owed(m) + d
    BY <1>3, <2>3, <2>5, <2>6, <2>7, <2>8
  <2>10. \A n \in Market \ {m} : Owed(n)' = Owed(n)
    BY <1>1, <1>8, OwedStays DEF verdictVars, stakeVars
  <2> HIDE DEF d
  <2>11. Debts' = Debts + d
    BY <2>9, <2>10, DebtsMove DEF IInv
  <2> QED BY <1>3, <1>5, <2>11 DEF d
<1>11. Slack' = Slack /\ Slack \in Int
  <2>1. /\ balance \in Int /\ balance' \in Int /\ Debts \in Int /\ pay \in Int
        /\ liquidityReserve \in Int /\ liquidityReserve' = liquidityReserve
        /\ pendingTreasury \in Int /\ pendingTreasury' \in Int
        /\ disputeReservePool \in Int /\ disputeReservePool' = disputeReservePool
    BY <1>1, <1>3, <1>5, <1>6, <1>7 DEF MoneyOK, reserveVars
  <2>2. /\ Slack = balance - (liquidityReserve + disputeReservePool + pendingTreasury + Debts)
        /\ Slack' = balance' - (liquidityReserve' + disputeReservePool' + pendingTreasury' + Debts')
    BY DEF Slack, Obligations, Debts
  <2> DEFINE o == Debts
             o2 == Debts'
             t2 == pendingTreasury'
             b2 == balance'
  <2>3. /\ b2 - t2 = balance - pendingTreasury - pay /\ o2 = o - pay
        /\ o \in Int /\ t2 \in Int /\ b2 \in Int
    BY <1>6, <1>10, <2>1
  <2> HIDE DEF o, o2, t2, b2
  <2>4. /\ b2 - (liquidityReserve + disputeReservePool + t2 + o2)
             = balance - (liquidityReserve + disputeReservePool + pendingTreasury + o)
        /\ balance - (liquidityReserve + disputeReservePool + pendingTreasury + o) \in Int
    BY <2>1, <2>3
  <2> QED BY <2>1, <2>2, <2>4 DEF o, o2, t2, b2
<1> QED BY <1>7, <1>9, <1>11, TypePartsNext DEF BooksKept

-----------------------------------------------------------------------------
(***************************************************************************)
(* The theorems.                                                           *)
(***************************************************************************)

(* Nothing is staked, reserved or owed at the start.                       *)
LEMMA InitOK == Init => IInv
<1> SUFFICES ASSUME Init PROVE IInv
  OBVIOUS
<1> USE DEF Init
<1> DEFINE none == [u \in User |-> 0]
           idle == [m \in Market |-> 0]
<1>1. SumFunction(none) = 0 /\ SumFunction(idle) = 0 /\ SumFunction(liquidityShares) = 0
  <2>1. ASSUME NEW S, IsFiniteSet(S) PROVE SumFunction([x \in S |-> 0]) = 0
    <3> DEFINE f == [x \in S |-> 0]
    <3>1. /\ \A x \in S : f[x] \in Int
          /\ \A x \in S \ {} : f[x] = 0
          /\ {} \in SUBSET S
      OBVIOUS
    <3>2. SumFunction(f) = SumFunctionOnSet(f, S)
      BY DEF SumFunction
    <3> HIDE DEF f
    <3>3. SumFunctionOnSet(f, S) = SumFunctionOnSet(f, {})
      BY <2>1, <3>1, SumOfSupport
    <3>4. SumFunction(f) = 0
      BY <3>2, <3>3, SumOfNone
    <3> QED BY <3>4 DEF f
  <2> QED BY <2>1, SetsAreFinite
<1>2. \A m \in Market, s \in Side : pool[m][s] = SumFunction([u \in User |-> stakes[m][u][s]])
  <2> SUFFICES ASSUME NEW m \in Market, NEW s \in Side
               PROVE  pool[m][s] = SumFunction([u \in User |-> stakes[m][u][s]])
    OBVIOUS
  <2>1. [u \in User |-> stakes[m][u][s]] = none
    OBVIOUS
  <2> QED BY <1>1, <2>1
<1>3. MarketsOK /\ StakesOK /\ VotesOK
  <2>1. MarketsOK
    BY DEF MarketsOK
  <2>2. StakesOK
    BY <1>2 DEF StakesOK
  <2>3. VotesOK
    BY DEF VotesOK
  <2> QED BY <2>1, <2>2, <2>3
<1>4. MoneyOK /\ SharesOK
  BY <1>1, RatesAreShares, ArenaAssumption DEF MoneyOK, SharesOK
<1>5. TypeOK
  BY <1>3, <1>4, TypeParts
<1>6. Lifecycle /\ Booked
  BY <1>1 DEF Lifecycle, Booked
<1>7. Debts = 0
  <2>1. ASSUME NEW m \in Market PROVE Owed(m) = 0
    <3>1. SumFunction(pool[m]) = 0
      BY <1>5, PoolsAreNat DEF Side
    <3> QED BY <3>1 DEF Owed
  <2>2. [m \in Market |-> Owed(m)] = idle
    BY <2>1
  <2> QED BY <1>1, <2>2 DEF Debts
<1>8. Backed
  BY <1>7 DEF Backed, Obligations, Debts
<1> QED BY <1>5, <1>6, <1>8 DEF IInv

(* Every call, and a step that calls nothing, keeps the books.             *)
LEMMA NextKeepsBooks == ASSUME IInv, [Next]_vars PROVE BooksKept
<1>1. ASSUME NEW u \in Provider, NEW x \in Deposit, ProvideLiquidity(u, x) PROVE BooksKept
  BY <1>1, ProvideLiquidityOK
<1>2. ASSUME NEW u \in Provider, NEW n \in Burn, WithdrawLiquidity(u, n) PROVE BooksKept
  BY <1>2, WithdrawLiquidityOK
<1>3. ASSUME NEW x \in Deposit, DonateLiquidity(x) PROVE BooksKept
  BY <1>3, DonateLiquidityOK
<1>4. ASSUME NEW m \in Market,
             \/ CreateMarket(m) \/ Lapse(m) \/ FinalizeMarket(m)
             \/ \E s \in Side : DeclareWinnerByAI(m, s)
             \/ \E j \in Juror, ballot \in {"overturn", "uphold"} : SubmitJuryVote(m, j, ballot)
      PROVE  BooksKept
  BY <1>4, CreateMarketOK, LapseOK, FinalizeMarketOK, DeclareWinnerByAIOK, SubmitJuryVoteOK
<1>5. ASSUME NEW m \in Market, NEW u \in User,
             \/ RaiseDispute(m, u) \/ Claim(m, u)
             \/ \E s \in Side, x \in Amount : Stake(m, u, s, x)
      PROVE  BooksKept
  BY <1>5, RaiseDisputeOK, ClaimOK, StakeOK
<1>6. CASE RetryTreasuryTransfer
  BY <1>6, RetryTreasuryTransferOK
<1>7. CASE \/ \E bps \in LossBps : SetLossTreasuryBps(bps)
           \/ \E on \in BOOLEAN : SetFixedOddsEnabled(on)
  BY <1>7, SettingsOK
<1>8. CASE UNCHANGED vars
  <2>1. UNCHANGED <<status, fixedOdds, lapsed, claimed, balance, verdictVars, stakeVars,
                    configVars, lpVars, reserveVars, feeVars>>
    BY <1>8 DEF vars
  <2>2. MoneyOK' /\ SharesOK' /\ lapsed' \subseteq Market
    BY <2>1, SameShares DEF IInv, TypeOK, MoneyOK, configVars, lpVars, reserveVars, feeVars
  <2>3. /\ Lifecycle' /\ Debts' = Debts /\ Debts \in Int /\ (FixedSoFar' <=> FixedSoFar)
        /\ MarketsOK' /\ StakesOK' /\ VotesOK'
    BY <2>1, <2>2, SameMarkets
  <2>4. Slack' = Slack /\ Slack \in Int /\ Booked'
    BY <2>1, <2>3 DEF Slack, Obligations, Debts, IInv, TypeOK, Booked, reserveVars, feeVars
  <2> QED BY <2>2, <2>3, <2>4, TypePartsNext DEF BooksKept
<1> QED BY <1>1, <1>2, <1>3, <1>4, <1>5, <1>6, <1>7, <1>8 DEF Next

(* What is promised and what is held are whole amounts, before a step and  *)
(* after it.                                                               *)
LEMMA SlackIsInt == TypeOK => Slack \in Int /\ Obligations \in Int /\ balance \in Int
BY TypeParts, DebtsNat, RatesAreShares DEF Slack, Obligations, Debts, MoneyOK

(* The balance covers what is owed if nothing is missing, and equals it as *)
(* long as every finalized market had fixed odds.                          *)
LEMMA BackedBySlack == TypeOK => (Backed <=> Slack >= 0 /\ (FixedSoFar => Slack = 0))
BY SlackIsInt DEF Slack, Backed, FixedSoFar

(* The same after a step.                                                  *)
LEMMA BackedBySlackNext ==
    TypeOK' => Slack' \in Int /\ (Backed' <=> Slack' >= 0 /\ (FixedSoFar' => Slack' = 0))
<1>1. TypeOK => Slack \in Int /\ (Backed <=> Slack >= 0 /\ (FixedSoFar => Slack = 0))
  BY SlackIsInt, BackedBySlack
<1>2. (TypeOK => Slack \in Int /\ (Backed <=> Slack >= 0 /\ (FixedSoFar => Slack = 0)))'
  BY <1>1, PTL
<1> QED BY <1>2

(* No step takes more from the balance than from what it is owed for.      *)
LEMMA NextKeepsIInv == IInv /\ [Next]_vars => IInv'
<1> SUFFICES ASSUME IInv, [Next]_vars PROVE IInv'
  OBVIOUS
<1>1. /\ TypeOK' /\ Lifecycle' /\ Booked'
      /\ Slack' >= Slack /\ (FixedSoFar' => FixedSoFar /\ Slack' = Slack)
  BY NextKeepsBooks DEF BooksKept
<1>2. Slack \in Int /\ Slack >= 0 /\ (FixedSoFar => Slack = 0)
  BY SlackIsInt, BackedBySlack DEF IInv
<1>3. Slack' \in Int
  BY <1>1, BackedBySlackNext
<1> DEFINE a == Slack
           b == Slack'
<1>4. a \in Int /\ b \in Int /\ a >= 0 /\ b >= a
  BY <1>1, <1>2, <1>3
<1> HIDE DEF a, b
<1>5. b >= 0
  BY <1>4
<1>6. Slack' >= 0 /\ (FixedSoFar' => Slack' = 0)
  BY <1>1, <1>2, <1>5 DEF b
<1> QED BY <1>1, <1>6, BackedBySlackNext DEF IInv

(* The inductive invariant holds throughout.                               *)
LEMMA InvariantHolds == Spec => []IInv
BY InitOK, NextKeepsIInv, PTL DEF Spec

(* Every reachable state has its variables' types: no amount the contract  *)
(* keeps is ever negative, pools are the sums of their stakes, shares add  *)
(* up to the total, no juror is counted on both sides.                     *)
THEOREM TypeCorrect == Spec => []TypeOK
<1>1. IInv => TypeOK
  BY DEF IInv
<1> QED BY <1>1, InvariantHolds, PTL

(* Whatever is staked, disputed, settled, claimed and kept for a retry, in *)
(* any order: the contract holds what it owes, to the unit as long as every*)
(* settled market had fixed odds.                                          *)
THEOREM AlwaysBacked == Spec => []Backed
<1>1. IInv => Backed
  BY DEF IInv
<1> QED BY <1>1, InvariantHolds, PTL

-----------------------------------------------------------------------------
(* What a deposit and a withdrawal leave the providers who stay, per share:*)
(* rounding is against whoever moves.                                      *)
LEMMA DepositIsFair ==
    ASSUME NEW L \in Nat \ {0}, NEW t \in Nat, NEW x \in Nat
    PROVE  (L + x) * t >= L * (t + (x * t) \div L)
<1> DEFINE n == x * t
           q == n \div L
<1>1. n \in Nat
  OBVIOUS
<1>2. (L + x) * t = L * t + n
  OBVIOUS
<1> HIDE DEF n
<1>3. q \in Nat /\ L * q <= n
  BY <1>1, Quotient
<1> HIDE DEF q
<1>4. L * (t + q) = L * t + L * q
  BY <1>3
<1>5. L * t \in Nat
  OBVIOUS
<1>6. L * t + n >= L * (t + q)
  BY <1>1, <1>3, <1>4, <1>5
<1> QED BY <1>2, <1>6 DEF q, n

(* A burn of n of t shares leaves the others at least their part of the    *)
(* reserve, since what is paid out is rounded down.                        *)
LEMMA WithdrawalIsFair ==
    ASSUME NEW L \in Nat, NEW t \in Nat \ {0}, NEW n \in Nat
    PROVE  (L - (n * L) \div t) * t >= L * (t - n)
<1> DEFINE k == n * L
           q == k \div t
<1>1. k \in Nat /\ k = n * L
  OBVIOUS
<1> HIDE DEF k
<1>2. q \in Nat /\ t * q <= k
  BY <1>1, Quotient
<1> HIDE DEF q
<1>3. (L - q) * t = L * t - t * q /\ L * (t - n) = L * t - n * L
  BY <1>2
<1>4. L * t \in Nat /\ t * q \in Nat
  BY <1>2
<1>5. (L - q) * t >= L * (t - n)
  BY <1>1, <1>2, <1>3, <1>4
<1> QED BY <1>5 DEF q, k

(* Only a settlement changes the value of a share for the worse, and every *)
(* settlement names a winner.                                              *)
LEMMA StepNeverDilutes ==
    ASSUME IInv, [Next]_vars, winner' = winner, totalShares > 0, totalShares' > 0
    PROVE  liquidityReserve' * totalShares >= liquidityReserve * totalShares'
<1>1. liquidityReserve \in Nat /\ totalShares \in Nat \ {0}
  <2>1. totalShares \in Nat
    BY SetsAreFinite, SumOfNaturals DEF IInv, TypeOK, SumFunction
  <2> QED BY <2>1 DEF IInv, TypeOK
<1>2. ASSUME NEW u \in Provider, NEW x \in Deposit, ProvideLiquidity(u, x)
      PROVE  liquidityReserve' * totalShares >= liquidityReserve * totalShares'
  <2>1. /\ liquidityReserve > 0 /\ x \in Nat
        /\ liquidityReserve' = liquidityReserve + x
        /\ totalShares' = totalShares + (x * totalShares) \div liquidityReserve
    BY <1>1, <1>2, RatesAreShares DEF ProvideLiquidity, Minted
  <2>2. liquidityReserve \in Nat \ {0}
    BY <1>1, <2>1
  <2>3. (liquidityReserve + x) * totalShares
          >= liquidityReserve * (totalShares + (x * totalShares) \div liquidityReserve)
    BY <1>1, <2>1, <2>2, DepositIsFair
  <2> QED BY <2>1, <2>3
<1>3. ASSUME NEW u \in Provider, NEW n \in Burn, WithdrawLiquidity(u, n)
      PROVE  liquidityReserve' * totalShares >= liquidityReserve * totalShares'
  <2>1. /\ n \in Nat
        /\ liquidityReserve' = liquidityReserve - (n * liquidityReserve) \div totalShares
        /\ totalShares' = totalShares - n
    BY <1>3, RatesAreShares DEF WithdrawLiquidity
  <2>2. (liquidityReserve - (n * liquidityReserve) \div totalShares) * totalShares
          >= liquidityReserve * (totalShares - n)
    BY <1>1, <2>1, WithdrawalIsFair
  <2> QED BY <2>1, <2>2
<1>4. ASSUME NEW x \in Deposit, DonateLiquidity(x)
      PROVE  liquidityReserve' * totalShares >= liquidityReserve * totalShares'
  <2>1. x \in Nat /\ liquidityReserve' = liquidityReserve + x /\ totalShares' = totalShares
    BY <1>4, RatesAreShares DEF DonateLiquidity
  <2>2. (liquidityReserve + x) * totalShares >= liquidityReserve * totalShares
    BY <1>1, <2>1
  <2> QED BY <2>1, <2>2
<1>5. ASSUME liquidityReserve' = liquidityReserve, totalShares' = totalShares
      PROVE  liquidityReserve' * totalShares >= liquidityReserve * totalShares'
  <2>1. liquidityReserve * totalShares \in Nat
    BY <1>1
  <2> QED BY <1>5, <2>1
<1>6. ASSUME NEW m \in Market, NEW w \in Side, status[m] \in {"AI_RESOLVED", "DISPUTED"},
             Settle(m, w)
      PROVE  FALSE
  <2>1. winner[m] = "NONE" /\ w # "NONE" /\ winner \in [Market -> Side \cup {"NONE"}]
    BY <1>6 DEF IInv, TypeOK, Side
  <2>2. winner' = [winner EXCEPT ![m] = w]
    BY <1>6 DEF Settle
  <2> QED BY <2>1, <2>2
<1>7. ASSUME NEW m \in Market, FinalizeMarket(m) PROVE FALSE
  BY <1>6, <1>7 DEF FinalizeMarket, IInv, Lifecycle
<1>8. ASSUME NEW m \in Market, NEW j \in Juror, NEW ballot \in {"overturn", "uphold"},
             SubmitJuryVote(m, j, ballot)
      PROVE  liquidityReserve' = liquidityReserve /\ totalShares' = totalShares
  <2>1. ~SettleDispute(m, ballot)
    <3> SUFFICES ASSUME SettleDispute(m, ballot) PROVE FALSE
      OBVIOUS
    <3>1. status[m] = "DISPUTED"
      BY <1>8 DEF SubmitJuryVote
    <3>2. verdict[m] \in Side /\ Other(verdict[m]) \in Side
      BY <3>1, OtherIsSide DEF IInv, Lifecycle
    <3> QED BY <1>6, <3>1, <3>2 DEF SettleDispute
  <2> QED BY <1>8, <2>1 DEF SubmitJuryVote, reserveVars, lpVars
<1>9. ASSUME NEW m \in Market,
             CreateMarket(m) \/ Lapse(m) \/ \E s \in Side : DeclareWinnerByAI(m, s)
      PROVE  liquidityReserve' = liquidityReserve /\ totalShares' = totalShares
  BY <1>9 DEF CreateMarket, Lapse, DeclareWinnerByAI, reserveVars, lpVars
<1>10. ASSUME NEW m \in Market, NEW u \in User,
             \/ RaiseDispute(m, u) \/ Claim(m, u)
             \/ \E s \in Side, x \in Amount : Stake(m, u, s, x)
      PROVE  liquidityReserve' = liquidityReserve /\ totalShares' = totalShares
  BY <1>10 DEF RaiseDispute, Claim, Stake, reserveVars, lpVars
<1>11. ASSUME \/ RetryTreasuryTransfer
              \/ \E bps \in LossBps : SetLossTreasuryBps(bps)
              \/ \E on \in BOOLEAN : SetFixedOddsEnabled(on)
              \/ UNCHANGED vars
       PROVE  liquidityReserve' = liquidityReserve /\ totalShares' = totalShares
  BY <1>11 DEF RetryTreasuryTransfer, SetLossTreasuryBps, SetFixedOddsEnabled, vars,
               reserveVars, lpVars
<1> QED BY <1>2, <1>3, <1>4, <1>5, <1>7, <1>8, <1>9, <1>10, <1>11 DEF Next

(* Providers gain and lose by settlements only: whoever joins, donates or  *)
(* leaves takes nothing from the value of the shares of those who stay.    *)
THEOREM ProvidersAreNeverDiluted == Spec => NeverDiluted
<1>1. IInv /\ [Next]_vars =>
        [winner' = winner /\ totalShares > 0 /\ totalShares' > 0 =>
           liquidityReserve' * totalShares >= liquidityReserve * totalShares']_vars
  BY StepNeverDilutes
<1> QED BY <1>1, InvariantHolds, PTL DEF Spec, NeverDiluted

-----------------------------------------------------------------------------
(***************************************************************************)
(* What is reserved.                                                       *)
(***************************************************************************)

\* A market's worse result is reserved, at the rate in force; or the market is
\* balanced, and nothing is.
Exact(m) == requirement[m] = Required(pool[m])
Excused(m) == requirement[m] = 0 /\ Balanced(m)

Missing == SumFunction([m \in Market |-> Overdraft(m)])

Reserved ==
    /\ \A m \in fixedOdds : status[m] # "FINALIZED" => Exact(m) \/ Excused(m)
    /\ totalReserved <= liquidityReserve + Missing

Funded ==
    /\ \A m \in fixedOdds : status[m] # "FINALIZED" => Exact(m)
    /\ totalReserved <= liquidityReserve

OddsFirst == \A m \in Market \ fixedOdds : requirement[m] = 0

\* The steps, as the reserve sees them: most leave every market's reservation
\* alone, or make it anew, ...
Quiet ==
    /\ lossTreasuryBps' = lossTreasuryBps
    /\ \A m \in fixedOdds' : status'[m] # "FINALIZED" =>
         \/ Exact(m)'
         \/ /\ m \in fixedOdds /\ status[m] # "FINALIZED"
            /\ pool'[m] = pool[m] /\ requirement'[m] = requirement[m]
    /\ \A m \in Market : Overdraft(m)' = Overdraft(m)
    /\ \A k \in Nat : totalReserved <= liquidityReserve + k
                         => totalReserved' <= liquidityReserve' + k

\* ... one settles a market, ...
Settling(m, w) ==
    /\ Settle(m, w) /\ status[m] \in {"AI_RESOLVED", "DISPUTED"}
    /\ UNCHANGED <<fixedOdds, pool, lossTreasuryBps>>

\* ... and one changes the rate.
Rerating ==
    /\ totalReserved = 0 /\ lossTreasuryBps' \in LossBps
    /\ UNCHANGED <<status, fixedOdds, pool, requirement, totalReserved, liquidityReserve>>

(* The numbers of the reserve.                                             *)
LEMMA ReserveNumbers ==
    ASSUME IInv
    PROVE  /\ liquidityReserve \in Nat /\ totalReserved \in Nat /\ totalShares \in Nat
           /\ \A m \in Market : /\ requirement[m] \in Nat /\ requirement[m] <= totalReserved
                                /\ pool[m] \in [Side -> Nat]
           /\ lossTreasuryBps \in 0..BPS /\ lossTreasuryBps <= MAX_LOSS_TREASURY_BPS
           /\ fixedOdds \subseteq Market
<1>1. totalShares \in Nat
  BY SetsAreFinite, SumOfNaturals DEF IInv, TypeOK, SumFunction
<1>2. \A m \in Market : requirement[m] \in Nat
  BY DEF IInv, TypeOK
<1>3. totalReserved = SumFunctionOnSet(requirement, Market)
  BY DEF IInv, TypeOK, Booked, SumFunction
<1>4. \A m \in Market : requirement[m] <= totalReserved
  BY <1>2, <1>3, SetsAreFinite, SumOfNaturals
<1>5. lossTreasuryBps \in 0..BPS /\ lossTreasuryBps <= MAX_LOSS_TREASURY_BPS
  BY LossRate, LossRateIsCapped DEF IInv
<1> QED BY <1>1, <1>2, <1>4, <1>5 DEF IInv, TypeOK

(* What the settlement of a market may lack is a natural number.           *)
LEMMA OverdraftIsNat == ASSUME IInv, NEW m \in Market PROVE Overdraft(m) \in Nat
<1>1. pool[m]["HAWK"] \in Nat
  BY ReserveNumbers DEF Side
<1>2. Share(pool[m]["HAWK"], MAX_LOSS_TREASURY_BPS) \in Nat
  BY <1>1, ShareOf, LossRateIsCapped
<1> QED BY <1>2 DEF Overdraft

(* The worse result depends on the pool and the rate alone.                *)
LEMMA ExactStays ==
    ASSUME NEW m, pool'[m] = pool[m], requirement'[m] = requirement[m],
           lossTreasuryBps' = lossTreasuryBps
    PROVE  Exact(m)' <=> Exact(m)
<1>1. {Short(pool[m][s], pool[m][Other(s)]) : s \in Side}'
        = {Short(pool[m][s], pool[m][Other(s)]) : s \in Side}
  BY DEF Short
<1> QED BY <1>1 DEF Exact, Required

(* A market nobody staked on needs nothing, at any rate.                   *)
LEMMA NothingAtStake ==
    ASSUME NEW p \in [Side -> Nat], p["HAWK"] = 0, p["DOVE"] = 0, lossTreasuryBps \in 0..BPS
    PROVE  Required(p) = 0
<1>1. ASSUME NEW s \in Side PROVE Short(p[s], p[Other(s)]) <= 0
  <2>1. p[s] = 0 /\ p[Other(s)] = 0
    BY OtherSide DEF Side
  <2>2. Share(0, lossTreasuryBps) \in Nat /\ Share(0, lossTreasuryBps) <= 0
    BY ShareOf
  <2> QED BY <2>1, <2>2 DEF Short
<1> QED BY <1>1, RequiredCovers

(* Only a balanced market needs nothing.                                   *)
LEMMA NothingNeeded ==
    ASSUME NEW p \in [Side -> Nat], Required(p) = 0, lossTreasuryBps \in 0..BPS
    PROVE  p["HAWK"] = p["DOVE"]
<1> DEFINE h == p["HAWK"]
           d == p["DOVE"]
           sh == Share(h, lossTreasuryBps)
           sd == Share(d, lossTreasuryBps)
<1>1. h \in Nat /\ d \in Nat
  BY DEF Side
<1>2. sh \in Nat /\ sd \in Nat /\ sh <= h /\ sd <= d
  BY <1>1, ShareOf
<1>3. Short(h, d) <= 0 /\ Short(d, h) <= 0
  <2>1. \A s \in Side : Short(p[s], p[Other(s)]) <= 0
    BY RequiredCovers
  <2> QED BY <2>1, OtherSide DEF Side
<1>4. h - (d - sd) <= 0 /\ d - (h - sh) <= 0
  BY <1>3 DEF Short
<1> HIDE DEF h, d, sh, sd
<1>5. h = d
  BY <1>1, <1>2, <1>4
<1> QED BY <1>5 DEF h, d

-----------------------------------------------------------------------------
(* Who touches neither the markets nor their reservations, and leaves the  *)
(* reserve enough, is quiet.                                               *)
LEMMA BystanderIsQuiet ==
    ASSUME IInv, UNCHANGED <<fixedOdds, pool, requirement, totalReserved, lossTreasuryBps>>,
           \A n \in Market : status'[n] = "FINALIZED" <=> status[n] = "FINALIZED",
           liquidityReserve' \in Nat,
           liquidityReserve' >= liquidityReserve \/ liquidityReserve' >= totalReserved
    PROVE  Quiet
<1>1. \A n \in Market : Overdraft(n)' = Overdraft(n)
  BY DEF Overdraft, Balanced, Share
<1>2. \A k \in Nat : totalReserved <= liquidityReserve + k
                        => totalReserved' <= liquidityReserve' + k
  <2> DEFINE t == totalReserved
             r == liquidityReserve
             q == liquidityReserve'
  <2>1. t \in Nat /\ r \in Nat /\ q \in Nat /\ (q >= r \/ q >= t) /\ totalReserved' = t
    BY ReserveNumbers
  <2> HIDE DEF t, r, q
  <2>2. \A k \in Nat : t <= r + k => totalReserved' <= q + k
    BY <2>1
  <2> QED BY <2>2 DEF t, r, q
<1>3. \A n \in fixedOdds' : n \in fixedOdds /\ n \in Market
  BY ReserveNumbers
<1> QED BY <1>1, <1>2, <1>3 DEF Quiet

(* A withdrawal leaves what is reserved.                                   *)
LEMMA WithdrawalIsQuiet ==
    ASSUME IInv, NEW u \in Provider, NEW n \in Burn, WithdrawLiquidity(u, n)
    PROVE  Quiet
<1> DEFINE d == liquidityReserve - liquidityReserve'
           a == liquidityReserve - totalReserved
<1>1. d \in Nat /\ d <= Available
  BY WithdrawLiquidityOK
<1>2. a \in Int /\ Available = Max({0, a})
  BY ReserveNumbers DEF Available
<1>3. Available \in {0, a}
  <2> HIDE DEF a
  <2> QED BY <1>2, MaxOfTwo
<1>4. liquidityReserve' \in Nat
  BY WithdrawLiquidityOK, TypeParts DEF BooksKept, TypeOK
<1>5. liquidityReserve' >= liquidityReserve \/ liquidityReserve' >= totalReserved
  <2> DEFINE r == liquidityReserve
             q == liquidityReserve'
             t == totalReserved
  <2>1. r \in Nat /\ q \in Nat /\ t \in Nat /\ r - q \in Nat
        /\ (r - q <= 0 \/ r - q <= r - t)
    BY <1>1, <1>3, <1>4, ReserveNumbers
  <2> HIDE DEF r, q, t
  <2>2. q >= r \/ q >= t
    BY <2>1
  <2> QED BY <2>2 DEF r, q, t
<1> QED BY <1>4, <1>5, BystanderIsQuiet DEF WithdrawLiquidity, stakeVars, configVars

(* Money that comes in only adds to the reserve.                           *)
LEMMA DepositIsQuiet ==
    ASSUME IInv, NEW x \in Deposit, liquidityReserve' = liquidityReserve + x,
           UNCHANGED <<status, fixedOdds, pool, requirement, totalReserved, lossTreasuryBps>>
    PROVE  Quiet
<1>1. liquidityReserve \in Nat /\ x \in Nat
  BY ReserveNumbers, RatesAreShares
<1>2. liquidityReserve' \in Nat /\ liquidityReserve' >= liquidityReserve
  BY <1>1
<1> QED BY <1>2, BystanderIsQuiet

(* A new market has no stakes, and nothing is reserved for it.             *)
LEMMA CreationIsQuiet ==
    ASSUME IInv, OddsFirst, NEW m \in Market, CreateMarket(m)
    PROVE  Quiet
<1>1. /\ status[m] = "NONE" /\ status'[m] = "OPEN" /\ fixedOdds' \subseteq fixedOdds \cup {m}
      /\ fixedOdds \subseteq fixedOdds'
      /\ \A n \in Market \ {m} : status'[n] = status[n]
      /\ UNCHANGED <<pool, requirement, totalReserved, liquidityReserve, lossTreasuryBps>>
  BY DEF CreateMarket, stakeVars, reserveVars, configVars, IInv, TypeOK
<1>2. Exact(m)'
  <2>1. m \notin fixedOdds /\ pool[m]["HAWK"] = 0 /\ pool[m]["DOVE"] = 0
    BY <1>1 DEF IInv, Lifecycle, Side
  <2>2. requirement[m] = 0 /\ Required(pool[m]) = 0
    BY <2>1, NothingAtStake, ReserveNumbers DEF OddsFirst
  <2>3. Exact(m)
    BY <2>2 DEF Exact
  <2> QED BY <1>1, <2>3, ExactStays
<1>3. ASSUME NEW n \in Market PROVE Overdraft(n)' = Overdraft(n)
  <2>1. n \in fixedOdds' /\ status'[n] = "FINALIZED" <=> n \in fixedOdds /\ status[n] = "FINALIZED"
    BY <1>1
  <2> QED BY <1>1, <2>1 DEF Overdraft, Balanced, Share
<1>4. \A n \in fixedOdds' : n \in Market /\ (n # m => n \in fixedOdds)
  BY <1>1, ReserveNumbers
<1> QED BY <1>1, <1>2, <1>3, <1>4 DEF Quiet

(* A stake is accepted only with its market's worse result reserved anew.  *)
LEMMA StakeIsQuiet ==
    ASSUME IInv, NEW m \in Market, NEW u \in User, NEW s \in Side, NEW x \in Amount,
           Stake(m, u, s, x)
    PROVE  Quiet
<1> DEFINE p == [pool[m] EXCEPT ![s] = @ + x]
<1>1. /\ status[m] = "OPEN" /\ Reserve(m, p)
      /\ pool' = [pool EXCEPT ![m][s] = @ + x]
      /\ UNCHANGED <<status, fixedOdds, lossTreasuryBps, liquidityReserve>>
  BY DEF Stake, configVars
<1>2. x \in Nat \ {0} /\ pool \in [Market -> [Side -> Nat]]
  BY RatesAreShares DEF IInv, TypeOK
<1>3. /\ p \in [Side -> Nat] /\ pool'[m] = p
      /\ \A n \in Market \ {m} : pool'[n] = pool[n]
  BY <1>1, <1>2
<1> HIDE DEF p
<1>4. /\ \A n \in Market \ {m} : requirement'[n] = requirement[n]
      /\ m \in fixedOdds => requirement'[m] = Required(p)
      /\ \A k \in Nat : totalReserved <= liquidityReserve + k
                           => totalReserved' <= liquidityReserve + k
  BY <1>1, <1>3, ReserveOK
<1>5. m \in fixedOdds => Exact(m)'
  <2>1. {Short(pool[m][t], pool[m][Other(t)]) : t \in Side}'
          = {Short(p[t], p[Other(t)]) : t \in Side}
    BY <1>1, <1>3 DEF Short, Share
  <2> QED BY <1>4, <2>1 DEF Exact, Required
<1>6. ASSUME NEW n \in Market PROVE Overdraft(n)' = Overdraft(n)
  <2>1. CASE n = m
    BY <1>1, <2>1 DEF Overdraft
  <2>2. CASE n # m
    BY <1>1, <1>3, <2>2 DEF Overdraft, Balanced, Share
  <2> QED BY <2>1, <2>2
<1>7. \A n \in fixedOdds' : n \in Market /\ n \in fixedOdds
  BY <1>1, ReserveNumbers
<1> QED BY <1>1, <1>3, <1>4, <1>5, <1>6, <1>7 DEF Quiet

(* Every step is quiet, settles a market or changes the rate.              *)
LEMMA StepKinds ==
    ASSUME IInv, OddsFirst, [Next]_vars
    PROVE  Quiet \/ Rerating \/ \E m \in Market, w \in Side : Settling(m, w)
<1>0. liquidityReserve \in Nat
  BY ReserveNumbers
<1>1. ASSUME NEW u \in Provider, NEW x \in Deposit, ProvideLiquidity(u, x) PROVE Quiet
  BY <1>1, DepositIsQuiet DEF ProvideLiquidity, stakeVars, configVars
<1>2. ASSUME NEW x \in Deposit, DonateLiquidity(x) PROVE Quiet
  BY <1>2, DepositIsQuiet DEF DonateLiquidity, stakeVars, configVars
<1>3. ASSUME UNCHANGED <<fixedOdds, pool, requirement, totalReserved, liquidityReserve,
                         lossTreasuryBps>>,
             \A n \in Market : status'[n] = "FINALIZED" <=> status[n] = "FINALIZED"
      PROVE  Quiet
  BY <1>0, <1>3, BystanderIsQuiet
<1>4. ASSUME NEW m \in Market, Lapse(m) \/ \E s \in Side : DeclareWinnerByAI(m, s) PROVE Quiet
  <2>1. UNCHANGED <<fixedOdds, pool, requirement, totalReserved, liquidityReserve, lossTreasuryBps>>
    BY <1>4 DEF Lapse, DeclareWinnerByAI, stakeVars, reserveVars, configVars
  <2>2. \A n \in Market : status'[n] = "FINALIZED" <=> status[n] = "FINALIZED"
    BY <1>4 DEF Lapse, DeclareWinnerByAI, IInv, TypeOK
  <2> QED BY <1>3, <2>1, <2>2
<1>5. ASSUME NEW m \in Market, NEW u \in User, RaiseDispute(m, u) \/ Claim(m, u) PROVE Quiet
  <2>1. UNCHANGED <<fixedOdds, pool, requirement, totalReserved, liquidityReserve, lossTreasuryBps>>
    BY <1>5 DEF RaiseDispute, Claim, stakeVars, reserveVars, configVars
  <2>2. \A n \in Market : status'[n] = "FINALIZED" <=> status[n] = "FINALIZED"
    BY <1>5 DEF RaiseDispute, Claim, IInv, TypeOK
  <2> QED BY <1>3, <2>1, <2>2
<1>6. ASSUME NEW m \in Market, FinalizeMarket(m) PROVE \E w \in Side : Settling(m, w)
  <2>1. verdict[m] \in Side
    BY <1>6 DEF FinalizeMarket, IInv, Lifecycle
  <2>2. Settling(m, verdict[m])
    BY <1>6 DEF FinalizeMarket, Settling, stakeVars, configVars
  <2> QED BY <2>1, <2>2
<1>7. ASSUME NEW m \in Market, NEW j \in Juror, NEW ballot \in {"overturn", "uphold"},
             SubmitJuryVote(m, j, ballot)
      PROVE  Quiet \/ \E w \in Side : Settling(m, w)
  <2>1. /\ status[m] = "DISPUTED" /\ UNCHANGED <<fixedOdds, pool, lossTreasuryBps>>
        /\ SettleDispute(m, ballot) \/ UNCHANGED <<status, reserveVars>>
    BY <1>7 DEF SubmitJuryVote, stakeVars, configVars
  <2>2. CASE SettleDispute(m, ballot)
    <3> DEFINE w == IF ballot = "overturn" THEN Other(verdict[m]) ELSE verdict[m]
    <3>1. w \in Side
      BY <2>1, OtherIsSide DEF IInv, Lifecycle
    <3>2. Settle(m, w)
      BY <2>2 DEF SettleDispute
    <3> HIDE DEF w
    <3>3. Settling(m, w)
      BY <2>1, <3>2 DEF Settling
    <3> QED BY <3>1, <3>3
  <2>3. CASE UNCHANGED <<status, reserveVars>>
    BY <1>3, <2>1, <2>3 DEF reserveVars
  <2> QED BY <2>1, <2>2, <2>3
<1>8. ASSUME NEW bps \in LossBps, SetLossTreasuryBps(bps) PROVE Rerating
  BY <1>8 DEF SetLossTreasuryBps, Rerating, stakeVars, reserveVars
<1>9. ASSUME \/ RetryTreasuryTransfer \/ \E on \in BOOLEAN : SetFixedOddsEnabled(on)
             \/ UNCHANGED vars
      PROVE  Quiet
  BY <1>3, <1>9 DEF RetryTreasuryTransfer, SetFixedOddsEnabled, vars, stakeVars,
                    reserveVars, configVars
<1> QED BY <1>1, <1>2, <1>4, <1>5, <1>6, <1>7, <1>8, <1>9, WithdrawalIsQuiet, CreationIsQuiet,
           StakeIsQuiet DEF Next

(* Nothing is reserved before a market has fixed odds.                     *)
LEMMA NextKeepsOddsFirst == ASSUME IInv, OddsFirst, [Next]_vars PROVE OddsFirst'
<1>1. ASSUME NEW m \in Market, NEW p \in [Side -> Nat], Reserve(m, p), UNCHANGED fixedOdds
      PROVE  OddsFirst'
  BY <1>1, ReserveOK DEF OddsFirst
<1>2. ASSUME NEW m \in Market, NEW w, Settle(m, w), UNCHANGED fixedOdds PROVE OddsFirst'
  BY <1>2 DEF Settle, reserveVars, OddsFirst, IInv, TypeOK
<1>3. ASSUME NEW m \in Market, NEW u \in User, NEW s \in Side, NEW x \in Amount, Stake(m, u, s, x)
      PROVE  OddsFirst'
  <2> DEFINE p == [pool[m] EXCEPT ![s] = @ + x]
  <2>1. p \in [Side -> Nat]
    BY RatesAreShares DEF IInv, TypeOK
  <2>2. Reserve(m, p) /\ UNCHANGED fixedOdds
    BY <1>3 DEF Stake
  <2> HIDE DEF p
  <2> QED BY <1>1, <2>1, <2>2
<1>4. ASSUME fixedOdds \subseteq fixedOdds', requirement' = requirement PROVE OddsFirst'
  BY <1>4 DEF OddsFirst
<1>5. ASSUME NEW m \in Market, FinalizeMarket(m) PROVE OddsFirst'
  BY <1>2, <1>5 DEF FinalizeMarket
<1>6. ASSUME NEW m \in Market, NEW j \in Juror, NEW ballot \in {"overturn", "uphold"},
             SubmitJuryVote(m, j, ballot)
      PROVE  OddsFirst'
  BY <1>2, <1>4, <1>6 DEF SubmitJuryVote, SettleDispute, reserveVars
<1>7. ASSUME NEW m \in Market, CreateMarket(m) PROVE OddsFirst'
  BY <1>4, <1>7 DEF CreateMarket, reserveVars
<1>8. ASSUME NEW m \in Market, Lapse(m) \/ \E s \in Side : DeclareWinnerByAI(m, s) PROVE OddsFirst'
  BY <1>4, <1>8 DEF Lapse, DeclareWinnerByAI, reserveVars
<1>9. ASSUME NEW m \in Market, NEW u \in User, RaiseDispute(m, u) \/ Claim(m, u) PROVE OddsFirst'
  BY <1>4, <1>9 DEF RaiseDispute, Claim, reserveVars
<1>10. ASSUME \/ \E u \in Provider : \/ \E x \in Deposit : ProvideLiquidity(u, x)
                                     \/ \E n \in Burn : WithdrawLiquidity(u, n)
              \/ \E x \in Deposit : DonateLiquidity(x)
              \/ RetryTreasuryTransfer
              \/ \E bps \in LossBps : SetLossTreasuryBps(bps)
              \/ \E on \in BOOLEAN : SetFixedOddsEnabled(on)
              \/ UNCHANGED vars
       PROVE  OddsFirst'
  BY <1>4, <1>10 DEF ProvideLiquidity, WithdrawLiquidity, DonateLiquidity, RetryTreasuryTransfer,
       SetLossTreasuryBps, SetFixedOddsEnabled, vars, reserveVars
<1> QED BY <1>3, <1>5, <1>6, <1>7, <1>8, <1>9, <1>10 DEF Next

-----------------------------------------------------------------------------
(* What a settlement takes from the reserve, and what it frees.            *)
LEMMA SettlementTakes ==
    ASSUME IInv, NEW m \in Market, NEW w \in Side, Settling(m, w)
    PROVE  /\ status'[m] = "FINALIZED" /\ \A n \in Market \ {m} : status'[n] = status[n]
           /\ \A n \in Market \ {m} : requirement'[n] = requirement[n]
           /\ m \notin fixedOdds => UNCHANGED <<totalReserved, liquidityReserve>>
           /\ LET short == Short(pool[m][w], pool[m][Other(w)])
              IN  /\ short \in Int /\ short <= Required(pool[m])
                  /\ m \in fixedOdds =>
                       /\ liquidityReserve' = liquidityReserve - short
                       /\ totalReserved' = totalReserved - requirement[m]
<1>1. status'[m] = "FINALIZED" /\ \A n \in Market \ {m} : status'[n] = status[n]
  BY DEF Settling, Settle, IInv, TypeOK
<1>2. \A n \in Market \ {m} : requirement'[n] = requirement[n]
  BY DEF Settling, Settle, IInv, TypeOK, reserveVars
<1>3. \A s \in Side : /\ Short(pool[m][s], pool[m][Other(s)]) \in Int
                      /\ Short(pool[m][s], pool[m][Other(s)]) <= Required(pool[m])
  BY ReserveNumbers, RequiredCovers
<1>4. m \notin fixedOdds => UNCHANGED <<totalReserved, liquidityReserve>>
  BY DEF Settling, Settle, reserveVars
<1> DEFINE short == Short(pool[m][w], pool[m][Other(w)])
<1>5. m \in fixedOdds => /\ liquidityReserve' = liquidityReserve - short
                         /\ totalReserved' = totalReserved - requirement[m]
  BY DEF Settling, Settle
<1>6. short \in Int /\ short <= Required(pool[m])
  BY <1>3
<1> QED BY <1>1, <1>2, <1>4, <1>5, <1>6

(* What is missing grows by what the settled market may have overdrawn.    *)
LEMMA MissingMoves ==
    ASSUME IInv, NEW m \in Market, NEW d \in Nat, Overdraft(m)' = Overdraft(m) + d,
           \A n \in Market \ {m} : Overdraft(n)' = Overdraft(n)
    PROVE  Missing \in Nat /\ Missing' = Missing + d
<1> DEFINE f == [n \in Market |-> Overdraft(n)]
           g == [n \in Market |-> Overdraft(n)']
<1>1. \A n \in Market : f[n] \in Nat /\ g[n] \in Nat
  BY OverdraftIsNat
<1>2. g[m] = f[m] + d /\ \A n \in Market \ {m} : g[n] = f[n]
  OBVIOUS
<1>3. Missing = SumFunctionOnSet(f, Market) /\ Missing' = SumFunctionOnSet(g, Market)
  BY DEF Missing, SumFunction
<1> HIDE DEF f, g
<1>4. SumFunctionOnSet(g, Market) = SumFunctionOnSet(f, Market) + g[m] - f[m]
  BY <1>1, <1>2, SetsAreFinite, SumOfUpdate
<1>5. SumFunctionOnSet(f, Market) \in Nat
  BY <1>1, SetsAreFinite, SumOfNaturals
<1> QED BY <1>1, <1>2, <1>3, <1>4, <1>5

(* It does not change when no market is settled.                           *)
LEMMA MissingStays ==
    ASSUME IInv, \A n \in Market : Overdraft(n)' = Overdraft(n)
    PROVE  Missing \in Nat /\ Missing' = Missing
<1> DEFINE f == [n \in Market |-> Overdraft(n)]
<1>1. Missing = SumFunctionOnSet(f, Market) /\ \A n \in Market : f[n] \in Nat
  BY OverdraftIsNat DEF Missing, SumFunction
<1>2. Missing' = Missing
  BY DEF Missing
<1> HIDE DEF f
<1> QED BY <1>1, <1>2, SetsAreFinite, SumOfNaturals

(* Where nothing is reserved and the rates were exact, the sides are even. *)
LEMMA UnreservedIsBalanced ==
    ASSUME IInv, totalReserved = 0, NEW m \in Market, Exact(m)
    PROVE  Excused(m)
<1>1. requirement[m] = 0
  BY ReserveNumbers
<1>2. Required(pool[m]) = 0
  BY <1>1 DEF Exact
<1> QED BY <1>1, <1>2, NothingNeeded, ReserveNumbers DEF Excused, Balanced

(* A settlement takes what was reserved for it, or from a balanced market's*)
(* side the treasury's share.                                              *)
LEMMA SettlementKeepsReserved ==
    ASSUME IInv, Reserved, NEW m \in Market, NEW w \in Side, Settling(m, w)
    PROVE  Reserved'
<1> DEFINE short == Short(pool[m][w], pool[m][Other(w)])
           req == requirement[m]
           over == Overdraft(m)'
           t == totalReserved
           r == liquidityReserve
<1>1. /\ status'[m] = "FINALIZED" /\ \A n \in Market \ {m} : status'[n] = status[n]
      /\ \A n \in Market \ {m} : requirement'[n] = requirement[n]
      /\ m \notin fixedOdds => UNCHANGED <<totalReserved, liquidityReserve>>
      /\ short \in Int /\ short <= Required(pool[m])
      /\ m \in fixedOdds => liquidityReserve' = r - short /\ totalReserved' = t - req
  BY SettlementTakes
<1>2. UNCHANGED <<fixedOdds, pool, lossTreasuryBps>> /\ status[m] # "FINALIZED"
  BY DEF Settling
<1>3. ASSUME NEW n \in fixedOdds', status'[n] # "FINALIZED" PROVE Exact(n)' \/ Excused(n)'
  <2>1. n \in Market \ {m} /\ n \in fixedOdds /\ status[n] # "FINALIZED"
    BY <1>1, <1>2, <1>3, ReserveNumbers
  <2>2. pool'[n] = pool[n] /\ requirement'[n] = requirement[n]
    BY <1>1, <1>2, <2>1
  <2>3. Excused(n) => Excused(n)'
    BY <2>2 DEF Excused, Balanced
  <2> QED BY <1>2, <2>1, <2>2, <2>3, ExactStays DEF Reserved
<1>4. over \in Nat
  <2>1. pool'[m]["HAWK"] \in Nat
    BY <1>2, ReserveNumbers DEF Side
  <2>2. Share(pool'[m]["HAWK"], MAX_LOSS_TREASURY_BPS) \in Nat
    BY <2>1, ShareOf, LossRateIsCapped
  <2> QED BY <2>2 DEF Overdraft, Share
<1>5. Missing \in Nat /\ Missing' = Missing + over
  <2>1. Overdraft(m) = 0
    BY <1>2 DEF Overdraft
  <2>2. \A n \in Market \ {m} : Overdraft(n)' = Overdraft(n)
    BY <1>1, <1>2 DEF Overdraft, Balanced, Share
  <2>3. Overdraft(m)' = Overdraft(m) + over
    BY <1>4, <2>1
  <2> HIDE DEF over
  <2> QED BY <1>4, <2>2, <2>3, MissingMoves
<1>6. m \in fixedOdds => short <= req + over
  <2>1. CASE m \in fixedOdds /\ Exact(m)
    BY <1>1, <1>4, <2>1, ReserveNumbers DEF Exact
  <2>2. CASE m \in fixedOdds /\ Excused(m)
    <3> DEFINE x == pool[m]["HAWK"]
    <3>1. x \in Nat /\ pool[m][w] = x /\ pool[m][Other(w)] = x
      BY <2>2, OtherSide, ReserveNumbers DEF Excused, Balanced, Side
    <3>2. over = Share(x, MAX_LOSS_TREASURY_BPS)
      BY <1>1, <1>2, <2>2 DEF Overdraft, Excused, Balanced, Share
    <3>3. Share(x, lossTreasuryBps) <= Share(x, MAX_LOSS_TREASURY_BPS)
      BY <3>1, HigherShare, ReserveNumbers, LossRateIsCapped
    <3>4. short = x - (x - Share(x, lossTreasuryBps)) /\ req = 0
      BY <2>2, <3>1 DEF Short, Excused
    <3>5. Share(x, lossTreasuryBps) \in Nat
      BY <3>1, ShareOf, ReserveNumbers
    <3> HIDE DEF x, over, short, req
    <3> QED BY <1>4, <3>1, <3>2, <3>3, <3>4, <3>5
  <2> QED BY <1>2, <2>1, <2>2 DEF Reserved
<1>7. totalReserved' <= liquidityReserve' + Missing'
  <2>1. t \in Nat /\ r \in Nat /\ req \in Nat /\ t <= r + Missing
    BY ReserveNumbers DEF Reserved
  <2> HIDE DEF short, req, over, t, r
  <2>2. CASE m \in fixedOdds
    BY <1>1, <1>4, <1>5, <1>6, <2>1, <2>2
  <2>3. CASE m \notin fixedOdds
    <3>1. totalReserved' = t /\ liquidityReserve' = r
      BY <1>1, <2>3 DEF t, r
    <3> QED BY <1>4, <1>5, <2>1, <3>1
  <2> QED BY <2>2, <2>3
<1> QED BY <1>3, <1>7 DEF Reserved

(* Every step keeps what is reserved at every rate.                        *)
LEMMA NextKeepsReserved == ASSUME IInv, OddsFirst, Reserved, [Next]_vars PROVE Reserved'
<1>1. CASE Quiet
  <2>1. Missing \in Nat /\ Missing' = Missing
    BY <1>1, MissingStays DEF Quiet
  <2>2. totalReserved' <= liquidityReserve' + Missing'
    BY <1>1, <2>1 DEF Quiet, Reserved
  <2>3. ASSUME NEW m \in fixedOdds', status'[m] # "FINALIZED" PROVE Exact(m)' \/ Excused(m)'
    <3>1. CASE /\ m \in fixedOdds /\ status[m] # "FINALIZED"
               /\ pool'[m] = pool[m] /\ requirement'[m] = requirement[m]
      <4>1. lossTreasuryBps' = lossTreasuryBps
        BY <1>1 DEF Quiet
      <4>2. Excused(m) => Excused(m)'
        BY <3>1 DEF Excused, Balanced
      <4> QED BY <3>1, <4>1, <4>2, ExactStays DEF Reserved
    <3> QED BY <1>1, <2>3, <3>1 DEF Quiet
  <2> QED BY <2>2, <2>3 DEF Reserved
<1>2. CASE Rerating
  <2>1. Missing \in Nat /\ Missing' = Missing
    <3>1. \A n \in Market : Overdraft(n)' = Overdraft(n)
      BY <1>2 DEF Rerating, Overdraft, Balanced, Share
    <3> QED BY <3>1, MissingStays
  <2>2. totalReserved' <= liquidityReserve' + Missing'
    BY <1>2, <2>1, ReserveNumbers DEF Rerating
  <2>3. ASSUME NEW m \in fixedOdds', status'[m] # "FINALIZED" PROVE Excused(m)'
    <3>1. m \in Market /\ m \in fixedOdds /\ status[m] # "FINALIZED"
      BY <1>2, <2>3, ReserveNumbers DEF Rerating
    <3>2. Excused(m)
      BY <1>2, <3>1, UnreservedIsBalanced DEF Rerating, Reserved
    <3> QED BY <1>2, <3>2 DEF Rerating, Excused, Balanced
  <2> QED BY <2>2, <2>3 DEF Reserved
<1> QED BY <1>1, <1>2, StepKinds, SettlementKeepsReserved

(* At every rate an open market with fixed odds has its worse result       *)
(* reserved, or has even sides and nothing; and the settlements of even    *)
(* markets never lack more of the reserve than the highest rate's share.   *)
THEOREM ReservedAtEveryRate == Spec => []ReservedUnlessBalanced
<1>1. Init => OddsFirst /\ Reserved
  <2> SUFFICES ASSUME Init PROVE OddsFirst /\ Reserved
    OBVIOUS
  <2>1. OddsFirst /\ \A m \in fixedOdds : FALSE
    BY DEF Init, OddsFirst
  <2>2. Missing \in Nat
    <3> DEFINE f == [n \in Market |-> Overdraft(n)]
    <3>1. \A n \in Market : f[n] \in Nat
      BY OverdraftIsNat, InitOK
    <3>2. Missing = SumFunctionOnSet(f, Market)
      BY DEF Missing, SumFunction
    <3> HIDE DEF f
    <3> QED BY <3>1, <3>2, SetsAreFinite, SumOfNaturals
  <2>3. totalReserved <= liquidityReserve + Missing
    BY <2>2 DEF Init
  <2> QED BY <2>1, <2>3 DEF Reserved
<1>2. IInv /\ OddsFirst /\ Reserved /\ [Next]_vars => OddsFirst' /\ Reserved'
  BY NextKeepsOddsFirst, NextKeepsReserved
<1>3. IInv /\ Reserved => ReservedUnlessBalanced
  BY DEF IInv, Booked, Reserved, Exact, Excused, Missing, ReservedUnlessBalanced
<1> QED BY <1>1, <1>2, <1>3, InvariantHolds, PTL DEF Spec

-----------------------------------------------------------------------------
\* The owner changes the rate only while no market that is open with fixed odds
\* holds equal stakes on both sides.  The contract does not ask for it.
RateWaits ==
    lossTreasuryBps' # lossTreasuryBps =>
        \A m \in fixedOdds : status[m] # "FINALIZED" /\ Balanced(m) => pool[m]["HAWK"] = 0

(* Then every step leaves exactly the worse results reserved.              *)
LEMMA NextKeepsFunded ==
    ASSUME IInv, OddsFirst, Funded, [Next]_vars, [RateWaits]_vars
    PROVE  Funded'
<1>1. CASE Quiet
  <2>1. totalReserved' <= liquidityReserve'
    <3>1. 0 \in Nat /\ totalReserved <= liquidityReserve + 0
      BY ReserveNumbers DEF Funded
    <3>2. totalReserved' <= liquidityReserve' + 0
      BY <1>1, <3>1 DEF Quiet
    <3>3. liquidityReserve' \in Int
      BY NextKeepsIInv, ReserveNumbers DEF IInv, TypeOK
    <3> QED BY <3>2, <3>3
  <2>2. ASSUME NEW m \in fixedOdds', status'[m] # "FINALIZED" PROVE Exact(m)'
    <3>1. CASE /\ m \in fixedOdds /\ status[m] # "FINALIZED"
               /\ pool'[m] = pool[m] /\ requirement'[m] = requirement[m]
      BY <1>1, <3>1, ExactStays DEF Quiet, Funded
    <3> QED BY <1>1, <2>2, <3>1 DEF Quiet
  <2> QED BY <2>1, <2>2 DEF Funded
<1>2. CASE Rerating
  <2>1. totalReserved' <= liquidityReserve'
    BY <1>2 DEF Rerating, Funded
  <2>2. ASSUME NEW m \in fixedOdds', status'[m] # "FINALIZED" PROVE Exact(m)'
    <3>1. m \in Market /\ m \in fixedOdds /\ Exact(m) /\ status[m] # "FINALIZED"
      BY <1>2, <2>2, ReserveNumbers DEF Rerating, Funded
    <3>2. CASE lossTreasuryBps' = lossTreasuryBps
      BY <1>2, <3>1, <3>2, ExactStays DEF Rerating
    <3>3. CASE lossTreasuryBps' # lossTreasuryBps
      <4>1. RateWaits
        BY <3>3 DEF vars, configVars
      <4>2. Excused(m)
        BY <1>2, <3>1, UnreservedIsBalanced DEF Rerating
      <4>3. pool[m]["HAWK"] = 0 /\ pool[m]["DOVE"] = 0 /\ requirement[m] = 0
        BY <3>1, <3>3, <4>1, <4>2 DEF RateWaits, Excused, Balanced
      <4>4. \A s \in Side : Short(pool[m][s], pool[m][Other(s)])' = 0
        <5>1. ASSUME NEW s \in Side PROVE pool'[m][s] = 0 /\ pool'[m][Other(s)] = 0
          BY <1>2, <4>3, OtherSide DEF Rerating, Side
        <5>2. lossTreasuryBps' \in 0..BPS
          BY <1>2, RatesAreShares DEF Rerating
        <5>3. Share(0, lossTreasuryBps') \in Nat /\ Share(0, lossTreasuryBps') <= 0
          BY <5>2, ShareOf
        <5>4. Share(0, lossTreasuryBps') = 0
          BY <5>3
        <5> QED BY <5>1, <5>4 DEF Short, Share
      <4>5. Required(pool[m])' = Max({0})
        <5>1. ({0} \cup {Short(pool[m][s], pool[m][Other(s)]) : s \in Side})' = {0}
          BY <4>4
        <5> QED BY <5>1 DEF Required
      <4>6. Max({0}) = 0
        <5>1. {0} = {0, 0} /\ 0 \in Int
          OBVIOUS
        <5> QED BY <5>1, MaxOfTwo
      <4> QED BY <1>2, <4>3, <4>5, <4>6 DEF Exact, Rerating
    <3> QED BY <3>2, <3>3
  <2> QED BY <2>1, <2>2 DEF Funded
<1>3. ASSUME NEW m \in Market, NEW w \in Side, Settling(m, w) PROVE Funded'
  <2> DEFINE short == Short(pool[m][w], pool[m][Other(w)])
             req == requirement[m]
             t == totalReserved
             r == liquidityReserve
  <2>1. /\ status'[m] = "FINALIZED" /\ \A n \in Market \ {m} : status'[n] = status[n]
        /\ \A n \in Market \ {m} : requirement'[n] = requirement[n]
        /\ m \notin fixedOdds => UNCHANGED <<totalReserved, liquidityReserve>>
        /\ short \in Int /\ short <= Required(pool[m])
        /\ m \in fixedOdds => liquidityReserve' = r - short /\ totalReserved' = t - req
    BY <1>3, SettlementTakes
  <2>2. UNCHANGED <<fixedOdds, pool, lossTreasuryBps>> /\ status[m] # "FINALIZED"
    BY <1>3 DEF Settling
  <2>3. ASSUME NEW n \in fixedOdds', status'[n] # "FINALIZED" PROVE Exact(n)'
    <3>1. n \in Market \ {m} /\ n \in fixedOdds /\ status[n] # "FINALIZED"
      BY <2>1, <2>2, <2>3, ReserveNumbers
    <3> QED BY <2>1, <2>2, <3>1, ExactStays DEF Funded
  <2>4. totalReserved' <= liquidityReserve'
    <3>1. t \in Nat /\ r \in Nat /\ req \in Nat /\ t <= r
      BY ReserveNumbers DEF Funded
    <3>2. CASE m \in fixedOdds
      <4>1. short <= req
        BY <2>1, <2>2, <3>2 DEF Funded, Exact
      <4> HIDE DEF short, req, t, r
      <4> QED BY <2>1, <3>1, <3>2, <4>1
    <3>3. CASE m \notin fixedOdds
      BY <2>1, <3>1, <3>3
    <3> QED BY <3>2, <3>3
  <2> QED BY <2>3, <2>4 DEF Funded
<1> QED BY <1>1, <1>2, <1>3, StepKinds

(* If the rate waits for balanced markets, every open market with fixed    *)
(* odds is paid for whichever side wins, out of what the other markets     *)
(* leave of the reserve: no settlement reverts for want of funds, whatever *)
(* is withdrawn, re-rated or settled before it.                            *)
THEOREM SettlementsAreFunded == Spec /\ [][RateWaits]_vars => []WorstCaseReserved
<1>1. Init => OddsFirst /\ Funded
  BY DEF Init, OddsFirst, Funded
<1>2. IInv /\ OddsFirst /\ Funded /\ [Next]_vars /\ [RateWaits]_vars => OddsFirst' /\ Funded'
  BY NextKeepsOddsFirst, NextKeepsFunded
<1>3. IInv /\ Funded => WorstCaseReserved
  <2> SUFFICES ASSUME IInv, Funded PROVE WorstCaseReserved
    OBVIOUS
  <2>1. totalReserved = SumFunction(requirement)
    BY DEF IInv, Booked
  <2>2. ASSUME NEW m \in fixedOdds, status[m] # "FINALIZED", NEW w \in Side
        PROVE  Short(pool[m][w], pool[m][Other(w)])
                   <= liquidityReserve - (totalReserved - requirement[m])
    <3> DEFINE short == Short(pool[m][w], pool[m][Other(w)])
    <3>1. short \in Int /\ short <= Required(pool[m])
      BY ReserveNumbers, RequiredCovers
    <3>2. /\ Required(pool[m]) = requirement[m] /\ totalReserved <= liquidityReserve
          /\ requirement[m] \in Int /\ totalReserved \in Int /\ liquidityReserve \in Int
      BY <2>2, ReserveNumbers DEF Funded, Exact
    <3> HIDE DEF short
    <3> QED BY <3>1, <3>2 DEF short
  <2> QED BY <2>1, <2>2 DEF WorstCaseReserved
<1> QED BY <1>1, <1>2, <1>3, InvariantHolds, PTL DEF Spec
=============================================================================
