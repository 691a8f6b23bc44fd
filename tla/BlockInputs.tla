----------------------------- MODULE BlockInputs -----------------------------
(***************************************************************************)
(* The computations of a block that keep no state: the rewards of its      *)
(* begin blockers and the price of a feed in its EndBlocker.  Every         *)
(* reachable state is one input of one of them; the properties compare     *)
(* what the code computes with a definition of what it should compute.     *)
(***************************************************************************)
EXTENDS Median, Rewards

CONSTANTS
  ReportStatuses, ValidatorPowers, ReportPrices, Timestamps,  \* of the validators
  MaxInfos,     \* bound on the validators with a price
  BlockFees,    \* collected before a block
  Percentages,  \* OracleRewardPercentage and RewardPercentage
  Taxes,        \* community taxes, as decimals
  MaxChoice,    \* bound on the active validators
  MaxMembers    \* bound on the members with a reward

ASSUME BlockAssumption ==
  /\ ReportStatuses \subseteq Status /\ ValidatorPowers \subseteq Nat \ {0}
  /\ ReportPrices \subseteq Nat /\ Timestamps \subseteq Nat
  /\ BlockFees \subseteq Nat /\ Percentages \subseteq Nat /\ Taxes \subseteq 0..Precision
  /\ MaxChoice \in Nat /\ MaxMembers \in Nat

VARIABLE input

Infos ==
  [status : ReportStatuses, power : ValidatorPowers, price : ReportPrices,
   timestamp : Timestamps]

\* The powers of up to n validators, from the highest down, as the staking keeper
\* returns them.
PowerLists(n) ==
  {s \in UNION {[1..k -> ValidatorPowers] : k \in 1..n} :
    \A i, j \in DOMAIN s : i < j => s[i] >= s[j]}

BlockInit == input = [of |-> "start"]

OpenFeed == input' = [of |-> "feed", infos |-> <<>>]

\* CalculatePrices meets the validators from the highest power down.
Collect(info) ==
  /\ Len(input.infos) < MaxInfos
  /\ input.infos # <<>> => info.power <= input.infos[Len(input.infos)].power
  /\ input' = [input EXCEPT !.infos = Append(@, info)]

\* The begin blockers of a block with these fees and parameters.
Reward ==
  \E fees \in BlockFees, oracle, tss \in Percentages, tax \in Taxes,
     powers \in PowerLists(MaxChoice), members \in 0..MaxMembers :
    input' = [of |-> "block", fees |-> fees, oracle |-> oracle, tss |-> tss, tax |-> tax,
              powers |-> powers, members |-> members]

BlockNext ==
  \/ input.of = "start" /\ (OpenFeed \/ Reward)
  \/ input.of = "feed" /\ \E info \in Infos : Collect(info)

BlockSpec == BlockInit /\ [][BlockNext]_input

-----------------------------------------------------------------------------
\* The loops of MedianValidatorPriceInfos, which share the section index and the power
\* used so far between entries, compute the lowest reported price at which the entries
\* up to that price hold half of the weight, the weight of an entry being what its part
\* of the total power is worth in the sections it lies in.
MedianIsReference ==
  input.of = "feed" => MedianValidatorPriceInfos(input.infos) = ReferenceMedian(input.infos)

\* Recent prices weigh up to six times as much as old ones, but not so much that a
\* quarter of the power decides: whatever validators with at most a quarter of the
\* available power report, and however late, the price stays within the prices of the
\* other validators.
QuarterCannotMovePrice ==
  input.of = "feed" =>
    LET valid == OfStatus(input.infos, "available")
    IN  \A C \in SUBSET DOMAIN valid :
          C # DOMAIN valid /\ 4 * PowerOf(valid, C) <= SumOfPowers(valid)
            => WithinOthers(valid, C, MedianValidatorPriceInfos(input.infos))

\* The begin blockers give away what they take from the fee collector, no more and no
\* less (AllocateTokens of x/oracle and of x/bandtss): members, validators, proposer and
\* community pool together get the fees that are missing, nobody gets a negative amount,
\* a validator gets no more than its share of the power, and the truncations leave the
\* proposer less than the smallest unit for each validator and coin.  They fail, which
\* stops the chain, only when a percentage above 100 asks for more than there is.
RewardsAddUp ==
  input.of = "block" =>
    LET first == AllocateToValidators(input.fees, input.oracle, input.tax, input.powers)
        second == AllocateToMembers(first.fees, input.tss, input.tax, input.members)
        coins == input.fees - first.fees
        shared == Dec(coins - first.community)
    IN  /\ ~first.ok => input.oracle > 100
        /\ ~second.ok => input.tss > 100
        /\ first.ok =>
             /\ Dec(coins) = Dec(first.community) + Total(first.rewards) + first.rest
             /\ first.community >= 0
             /\ first.rest \in 0..(Len(input.powers) * (coins + 1))
             /\ \A i \in DOMAIN first.rewards :
                  first.rewards[i] * Total(input.powers) <= shared * input.powers[i]
        /\ second.ok =>
             /\ first.fees - second.fees = second.community + Total(second.rewards)
             /\ second.community >= 0
             /\ Dec(second.community) >= input.tax * (first.fees - second.fees)
=============================================================================
