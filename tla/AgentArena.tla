----------------------------- MODULE AgentArena -----------------------------
(***************************************************************************)
(* AgentArenaV2: markets on two sides whose stakes are paid 1:1 out of the *)
(* losing pool and a reserve that liquidity providers fund.  Money in the  *)
(* contract is one balance; the reserve, the dispute pool, the fees kept   *)
(* for the treasury and what stakers are owed are only numbers, which every*)
(* function must keep covered by it.  A transaction is atomic, a revert is *)
(* no step, and a pause only withholds steps.                              *)
(***************************************************************************)
EXTENDS Integers, FiniteSets, FiniteSetsExt

CONSTANTS
    Market,
    User, Provider, \* who stakes and disputes, who provides liquidity
    Juror,          \* the wallets of juryMembers
    JuryThreshold,  \* JURY_THRESHOLD: 4 of 5 in the code
    Amount,         \* what a stake may be
    Deposit, Burn,  \* liquidity provided or donated, shares burnt
    LossBps,        \* what setLossTreasuryBps is called with
    FeeBps,         \* what the winner-fee setters are called with
    BondFloor, BondCap,
    MaxPool,        \* bound on the stakes of all markets
    MaxMoves,       \* bound on the movements of liquidity
    MaxKept         \* bound on the fees the treasury has not accepted

Side     == {"HAWK", "DOVE"}
Other(s) == CHOOSE o \in Side : o # s
BPS      == 10000
MAX_LOSS_TREASURY_BPS == 1000

ASSUME ArenaAssumption ==
    /\ IsFiniteSet(Market) /\ IsFiniteSet(User)
    /\ IsFiniteSet(Provider) /\ IsFiniteSet(Juror)
    /\ JuryThreshold \in Nat /\ 2 * JuryThreshold > Cardinality(Juror)
    /\ Amount \cup Deposit \cup Burn \subseteq Nat \ {0}
    /\ 500 \in LossBps /\ LossBps \subseteq 0..MAX_LOSS_TREASURY_BPS /\ FeeBps \subseteq 0..300
    /\ BondFloor \in Nat /\ BondCap \in Nat /\ BondFloor <= BondCap
    /\ MaxPool \in Nat /\ MaxMoves \in Nat /\ MaxKept \in Nat

VARIABLES
    status,         \* NONE: the market does not exist
    fixedOdds,      \* the markets of fixedOddsMarket
    lapsed,         \* the markets whose dispute or voting window is over
    verdict,        \* tentativeWinner
    winner,
    stakes, pool,   \* pool: hawkTotal and doveTotal
    claimed,
    bond, votes,
    fixedOddsEnabled, lossTreasuryBps,
    requirement,    \* marketReserveRequirement
    totalReserved, liquidityReserve, liquidityShares, totalShares,
    disputeReservePool, pendingTreasury,
    balance,        \* of the contract, in native USDC
    moves

verdictVars == <<verdict, winner, bond, votes>>
stakeVars   == <<stakes, pool>>
configVars  == <<fixedOddsEnabled, lossTreasuryBps>>
lpVars      == <<liquidityShares, totalShares, moves>>
reserveVars == <<requirement, totalReserved, liquidityReserve>>
feeVars     == <<disputeReservePool, pendingTreasury>>
vars == <<status, fixedOdds, lapsed, claimed, balance, verdictVars, stakeVars,
          configVars, lpVars, reserveVars, feeVars>>

TypeOK ==
    /\ status \in [Market -> {"NONE", "OPEN", "AI_RESOLVED", "DISPUTED", "FINALIZED"}]
    /\ fixedOdds \subseteq Market /\ lapsed \subseteq Market
    /\ verdict \in [Market -> Side \cup {"NONE"}] /\ winner \in [Market -> Side \cup {"NONE"}]
    /\ \A m \in Market :
        /\ winner[m] # "NONE" <=> status[m] = "FINALIZED"
        /\ \A s \in Side : pool[m][s] = SumFunction([u \in User |-> stakes[m][u][s]])
        /\ votes[m].overturn \cap votes[m].uphold = {}
    /\ stakes \in [Market -> [User -> [Side -> Nat]]] /\ pool \in [Market -> [Side -> Nat]]
    /\ claimed \in [Market -> SUBSET User]
    /\ bond \in [Market -> Nat]
    /\ votes \in [Market -> [overturn : SUBSET Juror, uphold : SUBSET Juror]]
    /\ fixedOddsEnabled \in BOOLEAN /\ lossTreasuryBps \in LossBps
    /\ requirement \in [Market -> Nat] /\ totalReserved \in Nat /\ liquidityReserve \in Nat
    /\ liquidityShares \in [Provider -> Nat] /\ totalShares = SumFunction(liquidityShares)
    /\ disputeReservePool \in Nat /\ pendingTreasury \in 0..MaxKept
    /\ balance \in Nat /\ moves \in 0..MaxMoves

\* The contract after the upgrade that calls initializeFixedOddsV2.
Init ==
    /\ status = [m \in Market |-> "NONE"]
    /\ fixedOdds = {} /\ lapsed = {}
    /\ verdict = [m \in Market |-> "NONE"] /\ winner = [m \in Market |-> "NONE"]
    /\ stakes = [m \in Market |-> [u \in User |-> [s \in Side |-> 0]]]
    /\ pool = [m \in Market |-> [s \in Side |-> 0]]
    /\ claimed = [m \in Market |-> {}]
    /\ bond = [m \in Market |-> 0]
    /\ votes = [m \in Market |-> [overturn |-> {}, uphold |-> {}]]
    /\ fixedOddsEnabled = TRUE /\ lossTreasuryBps = 500
    /\ requirement = [m \in Market |-> 0] /\ totalReserved = 0
    /\ liquidityReserve = 0 /\ liquidityShares = [u \in Provider |-> 0] /\ totalShares = 0
    /\ disputeReservePool = 0 /\ pendingTreasury = 0 /\ balance = 0
    /\ moves = 0

-----------------------------------------------------------------------------
(* The arithmetic.                                                         *)

Share(x, bps) == (x * bps) \div BPS

\* What the reserve adds when the stakes w win over the stakes l: a winner is
\* paid 1:1 and the treasury takes its share of the losing pool.
Short(w, l) == w - (l - Share(l, lossTreasuryBps))

\* requiredReserveForTotals
Required(p) == Max({0} \cup {Short(p[s], p[Other(s)]) : s \in Side})

\* availableLiquidityReserve
Available == Max({0, liquidityReserve - totalReserved})

Bond(stake) == Max({BondFloor, Min({BondCap, Share(stake, 800)})})

MintedAtPar(x) == x

\* The shares of a new deposit.
Minted(x) == IF totalShares = 0 THEN x ELSE (x * totalShares) \div liquidityReserve

\* _pushToTreasury and the payout of the same transaction: what the treasury
\* does not accept is kept for a retry.
Kept(x) == {0, x}
Forward(x, kept, payout) ==
    /\ x - kept + payout <= balance
    /\ balance' = balance - (x - kept) - payout
    /\ pendingTreasury' = pendingTreasury + kept
    /\ pendingTreasury' <= MaxKept

-----------------------------------------------------------------------------
(* Liquidity.                                                              *)

Moving == moves < MaxMoves /\ moves' = moves + 1

ProvideLiquidity(u, x) ==
    /\ Moving
    /\ totalShares = 0 \/ liquidityReserve > 0
    /\ Minted(x) > 0
    /\ liquidityShares' = [liquidityShares EXCEPT ![u] = @ + Minted(x)]
    /\ totalShares' = totalShares + Minted(x)
    /\ liquidityReserve' = liquidityReserve + x
    /\ balance' = balance + x
    /\ UNCHANGED <<status, fixedOdds, lapsed, claimed, verdictVars, stakeVars,
                   configVars, requirement, totalReserved, feeVars>>

DonateLiquidity(x) ==
    /\ Moving
    /\ liquidityReserve' = liquidityReserve + x
    /\ balance' = balance + x
    /\ UNCHANGED <<status, fixedOdds, lapsed, claimed, verdictVars, stakeVars,
                   configVars, liquidityShares, totalShares, requirement, totalReserved, feeVars>>

WithdrawLiquidity(u, n) ==
    /\ Moving
    /\ n <= liquidityShares[u]
    /\ LET amount == (n * liquidityReserve) \div totalShares IN
        /\ amount <= Available
        /\ liquidityReserve' = liquidityReserve - amount
        /\ balance' = balance - amount
    /\ liquidityShares' = [liquidityShares EXCEPT ![u] = @ - n]
    /\ totalShares' = totalShares - n
    /\ UNCHANGED <<status, fixedOdds, lapsed, claimed, verdictVars, stakeVars,
                   configVars, requirement, totalReserved, feeVars>>

-----------------------------------------------------------------------------
(* Markets.                                                                *)

CreateMarket(m) ==
    /\ status[m] = "NONE"
    /\ status' = [status EXCEPT ![m] = "OPEN"]
    /\ fixedOdds' = IF fixedOddsEnabled THEN fixedOdds \cup {m} ELSE fixedOdds
    /\ UNCHANGED <<lapsed, claimed, balance, verdictVars, stakeVars, configVars,
                   lpVars, reserveVars, feeVars>>

\* DISPUTE_WINDOW or JURY_VOTE_WINDOW passes.
Lapse(m) ==
    /\ status[m] \in {"AI_RESOLVED", "DISPUTED"}
    /\ lapsed' = lapsed \cup {m}
    /\ UNCHANGED <<status, fixedOdds, claimed, balance, verdictVars, stakeVars,
                   configVars, lpVars, reserveVars, feeVars>>

\* The reserve follows the worst case of a fixed-odds market.
Reserve(m, p) ==
    IF m \in fixedOdds
    THEN /\ Required(p) - requirement[m] <= Available
         /\ requirement' = [requirement EXCEPT ![m] = Required(p)]
         /\ totalReserved' = totalReserved + Required(p) - requirement[m]
    ELSE UNCHANGED <<requirement, totalReserved>>

\* From stakingEndTime on there are no stakes and from resolutionTime on the
\* market may be decided: either may be first, so both are possible until then.
Stake(m, u, s, x) ==
    /\ status[m] = "OPEN"
    /\ SumFunction([n \in Market |-> SumFunction(pool[n])]) + x <= MaxPool
    /\ Reserve(m, [pool[m] EXCEPT ![s] = @ + x])
    /\ stakes' = [stakes EXCEPT ![m][u][s] = @ + x]
    /\ pool' = [pool EXCEPT ![m][s] = @ + x]
    /\ balance' = balance + x
    /\ UNCHANGED <<status, fixedOdds, lapsed, claimed, verdictVars, configVars,
                   lpVars, liquidityReserve, feeVars>>

DeclareWinnerByAI(m, s) ==
    /\ status[m] = "OPEN"
    /\ status' = [status EXCEPT ![m] = "AI_RESOLVED"]
    /\ verdict' = [verdict EXCEPT ![m] = s]
    /\ UNCHANGED <<fixedOdds, lapsed, claimed, balance, winner, bond, votes,
                   stakeVars, configVars, lpVars, reserveVars, feeVars>>

RaiseDispute(m, u) ==
    LET stake == stakes[m][u][Other(verdict[m])] IN
    /\ status[m] = "AI_RESOLVED" /\ m \notin lapsed
    /\ stake > 0
    /\ status' = [status EXCEPT ![m] = "DISPUTED"]
    /\ bond' = [bond EXCEPT ![m] = Bond(stake)]
    /\ balance' = balance + Bond(stake)
    /\ UNCHANGED <<fixedOdds, lapsed, claimed, verdict, winner, votes, stakeVars,
                   configVars, lpVars, reserveVars, feeVars>>

TaxAnyMarket(m, w) == Share(pool[m][Other(w)], lossTreasuryBps)

\* _settleFixedOddsEconomics, in the step that makes w the winner: frees what
\* was reserved and squares the pools with the reserve, or reverts.  The
\* treasury gets Tax.
Tax(m, w) == IF m \in fixedOdds THEN Share(pool[m][Other(w)], lossTreasuryBps) ELSE 0

Settle(m, w) ==
    /\ status' = [status EXCEPT ![m] = "FINALIZED"]
    /\ winner' = [winner EXCEPT ![m] = w]
    /\ IF m \in fixedOdds
       THEN LET short == Short(pool[m][w], pool[m][Other(w)]) IN
            /\ short <= liquidityReserve
            /\ liquidityReserve' = liquidityReserve - short
            /\ requirement' = [requirement EXCEPT ![m] = 0]
            /\ totalReserved' = totalReserved - requirement[m]
       ELSE UNCHANGED reserveVars

\* A rejected bond is shared by the treasury and the pool that rewards others.
SettleDispute(m, ballot) ==
    LET w      == IF ballot = "overturn" THEN Other(verdict[m]) ELSE verdict[m]
        reward == Min({Share(bond[m], 2000), disputeReservePool})
        share  == Share(bond[m], 5000)
    IN /\ Settle(m, w)
       /\ \E kept \in Kept(Tax(m, w)) :
            \/ /\ ballot = "overturn"
               /\ disputeReservePool' = disputeReservePool - reward
               /\ Forward(Tax(m, w), kept, bond[m] + reward)
            \/ /\ ballot = "uphold"
               /\ disputeReservePool' = disputeReservePool + bond[m] - share
               /\ \E more \in Kept(share) : Forward(Tax(m, w) + share, kept + more, 0)

HasVotedToOverturn(m, j) == j \in votes[m].overturn

HasVoted(m, j) == j \in votes[m].overturn \cup votes[m].uphold

\* The vote that reaches the threshold settles; the others are only counted.
SubmitJuryVote(m, j, ballot) ==
    /\ status[m] = "DISPUTED" /\ m \notin lapsed
    /\ ~HasVoted(m, j)
    /\ votes' = [votes EXCEPT ![m][ballot] = @ \cup {j}]
    /\ IF Cardinality(votes'[m][ballot]) >= JuryThreshold
       THEN SettleDispute(m, ballot)
       ELSE UNCHANGED <<status, winner, balance, reserveVars, feeVars>>
    /\ UNCHANGED <<fixedOdds, lapsed, claimed, verdict, bond, stakeVars,
                   configVars, lpVars>>

\* An undisputed verdict, or one whose jury did not converge: the AI verdict
\* stands and the bond goes back.
FinalizeMarket(m) ==
    /\ status[m] \in {"AI_RESOLVED", "DISPUTED"} /\ m \in lapsed
    /\ Settle(m, verdict[m])
    /\ \E kept \in Kept(Tax(m, verdict[m])) :
         Forward(Tax(m, verdict[m]), kept, IF status[m] = "DISPUTED" THEN bond[m] ELSE 0)
    /\ UNCHANGED <<fixedOdds, lapsed, claimed, verdict, bond, votes,
                   stakeVars, configVars, lpVars, disputeReservePool>>

\* What u is paid before the fee: 1:1, or the parimutuel share of a market
\* created without fixed odds.
Payout(m, u) ==
    LET stake == stakes[m][u][winner[m]]
        lost  == pool[m][Other(winner[m])]
    IN stake + IF m \in fixedOdds THEN stake ELSE (stake * lost) \div pool[m][winner[m]]

\* The fee setters may run between any two claims: only the sum counts here.
Claim(m, u) ==
    /\ status[m] = "FINALIZED" /\ u \notin claimed[m]
    /\ stakes[m][u][winner[m]] > 0
    /\ claimed' = [claimed EXCEPT ![m] = @ \cup {u}]
    /\ \E bps \in FeeBps :
         LET profit == Payout(m, u) - stakes[m][u][winner[m]]
             fee    == Share(IF m \in fixedOdds THEN profit ELSE Payout(m, u), bps)
         IN \E kept \in Kept(fee) : Forward(fee, kept, Payout(m, u) - fee)
    /\ UNCHANGED <<status, fixedOdds, lapsed, verdictVars, stakeVars, configVars,
                   lpVars, reserveVars, disputeReservePool>>

RetryTreasuryTransfer ==
    /\ pendingTreasury > 0
    /\ pendingTreasury' = 0
    /\ balance' = balance - pendingTreasury
    /\ UNCHANGED <<status, fixedOdds, lapsed, claimed, verdictVars, stakeVars,
                   configVars, lpVars, reserveVars, disputeReservePool>>

-----------------------------------------------------------------------------
(* The owner, the guardian and the treasury signers.                       *)

SetLossTreasuryBpsAnytime(bps) ==
    /\ lossTreasuryBps' = bps
    /\ UNCHANGED <<status, fixedOdds, lapsed, claimed, balance, verdictVars, stakeVars,
                   fixedOddsEnabled, lpVars, reserveVars, feeVars>>

SetLossTreasuryBps(bps) ==
    /\ totalReserved = 0
    /\ lossTreasuryBps' = bps
    /\ UNCHANGED <<status, fixedOdds, lapsed, claimed, balance, verdictVars, stakeVars,
                   fixedOddsEnabled, lpVars, reserveVars, feeVars>>

SetFixedOddsEnabled(on) ==
    /\ ~on => totalReserved = 0
    /\ fixedOddsEnabled' = on
    /\ UNCHANGED <<status, fixedOdds, lapsed, claimed, balance, verdictVars, stakeVars,
                   lossTreasuryBps, lpVars, reserveVars, feeVars>>

Next ==
    \/ \E u \in Provider :
        \/ \E x \in Deposit : ProvideLiquidity(u, x)
        \/ \E n \in Burn : WithdrawLiquidity(u, n)
    \/ \E x \in Deposit : DonateLiquidity(x)
    \/ \E m \in Market :
        \/ CreateMarket(m) \/ Lapse(m) \/ FinalizeMarket(m)
        \/ \E s \in Side : DeclareWinnerByAI(m, s)
        \/ \E j \in Juror, ballot \in {"overturn", "uphold"} : SubmitJuryVote(m, j, ballot)
        \/ \E u \in User :
            \/ RaiseDispute(m, u) \/ Claim(m, u)
            \/ \E s \in Side, x \in Amount : Stake(m, u, s, x)
    \/ RetryTreasuryTransfer
    \/ \E bps \in LossBps : SetLossTreasuryBps(bps)
    \/ \E on \in BOOLEAN : SetFixedOddsEnabled(on)

Spec == Init /\ [][Next]_vars

-----------------------------------------------------------------------------
(* Properties.                                                             *)

Unpaid(m) == {u \in User \ claimed[m] : stakes[m][u][winner[m]] > 0}

\* What a market's stakers, and its disputer, may still be paid.
Owed(m) ==
    IF status[m] = "FINALIZED"
    THEN SumFunction([u \in Unpaid(m) |-> Payout(m, u)])
    ELSE SumFunction(pool[m]) + (IF status[m] = "DISPUTED" THEN bond[m] ELSE 0)

Obligations == liquidityReserve + disputeReservePool + pendingTreasury
               + SumFunction([m \in Market |-> Owed(m)])

(* The numbers the contract keeps never promise more than it holds, through*)
(* stakes, disputes, settlements, claims and failed transfers in any order,*)
(* and with fixed odds not a unit is left without an owner.                *)
Backed ==
    /\ Obligations <= balance
    /\ (\A m \in Market : status[m] = "FINALIZED" => m \in fixedOdds) => Obligations = balance

(* As the contract's comment has it: every open market with fixed odds is  *)
(* paid for whichever side wins, out of what the other markets leave of the*)
(* reserve, so that no settlement can revert.  It is not so: the check of a*)
(* new rate asks whether something is reserved, not whether something is at*)
(* stake, and a balanced market reserves nothing at a rate of 0.           *)
WorstCaseReserved ==
    /\ totalReserved = SumFunction(requirement)
    /\ \A m \in fixedOdds : status[m] # "FINALIZED" =>
         \A w \in Side : Short(pool[m][w], pool[m][Other(w)])
                            <= liquidityReserve - (totalReserved - requirement[m])

Balanced(m) == pool[m]["HAWK"] = pool[m]["DOVE"]

\* The most a balanced market may have taken that was not reserved for it.
Overdraft(m) ==
    IF m \in fixedOdds /\ status[m] = "FINALIZED" /\ Balanced(m)
    THEN Share(pool[m]["HAWK"], MAX_LOSS_TREASURY_BPS)
    ELSE 0

(* What holds at every rate: an open market has its worse result reserved, *)
(* at the rate it will be settled with, or is balanced and has nothing; and*)
(* what is missing of all that is reserved is at most the treasury's share *)
(* of balanced markets that were settled.                                  *)
ReservedUnlessBalanced ==
    /\ totalReserved = SumFunction(requirement)
    /\ \A m \in fixedOdds : status[m] # "FINALIZED" =>
         \/ requirement[m] = Required(pool[m])
         \/ requirement[m] = 0 /\ Balanced(m)
    /\ totalReserved <= liquidityReserve + SumFunction([m \in Market |-> Overdraft(m)])

(* Providers gain and lose by settlements only: nobody who joins, donates  *)
(* or leaves takes from the value of the shares of those who stay.         *)
NeverDiluted ==
    [][winner' = winner /\ totalShares > 0 /\ totalShares' > 0 =>
         liquidityReserve' * totalShares >= liquidityReserve * totalShares']_vars
=============================================================================
