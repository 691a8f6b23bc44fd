------------------------------- MODULE Rewards -------------------------------
(***************************************************************************)
(* The shares of the collected fees that the begin blockers give away: the *)
(* oracle reward to active validators by power, then, from what is left,   *)
(* the reward of the signing members in equal parts (AllocateTokens of     *)
(* x/oracle and of x/bandtss, in the order of app/modules.go).             *)
(*                                                                         *)
(* One denomination.  A decimal is an integer in units of 1 / Precision,   *)
(* where the code has eighteen digits; products and quotients truncate as  *)
(* MulDecTruncate and QuoTruncate do.                                      *)
(***************************************************************************)
EXTENDS Integers, Sequences, FiniteSets, Functions, FiniteSetsExt

CONSTANT Precision  \* units in one coin; a multiple of 100

ASSUME RewardsAssumption == Precision \in Nat /\ Precision > 0 /\ Precision % 100 = 0

Dec(n) == n * Precision
MulTruncate(a, b) == (a * b) \div Precision
QuoTruncate(a, b) == (a * Precision) \div b
TruncateDecimal(d) == d \div Precision

\* NewDecWithPrec(percentage, 2)
Ratio(percentage) == percentage * (Precision \div 100)

\* What a module takes from the fee collector, in whole coins.
Portion(fees, percentage) == TruncateDecimal(MulTruncate(Dec(fees), Ratio(percentage)))

\* A begin blocker that fails, and one that has nobody to reward.
Error(fees) == [ok |-> FALSE, fees |-> fees, community |-> 0, rewards |-> <<>>, rest |-> 0]
Nothing(fees) == [Error(fees) EXCEPT !.ok = TRUE]

Total(s) == SumFunctionOnSet(s, DOMAIN s)

\* A mutant of PowerFraction: the quotient is rounded up.
PowerFraction_Up(power, total) == QuoTruncate(Dec(power) + total - 1, Dec(total)) + 1

PowerFraction(power, total) == QuoTruncate(Dec(power), Dec(total))

\* AllocateTokens of x/oracle: powers are those of the active validators that voted,
\* rewards are decimals, rest is what the proposer gets.
AllocateToValidators(fees, percentage, tax, powers) ==
  LET portion == Portion(fees, percentage)
      community == TruncateDecimal(MulTruncate(Dec(portion), tax))
      oracleReward == Dec(portion) - Dec(community)
      rewards == [i \in DOMAIN powers |->
                   MulTruncate(oracleReward, PowerFraction(powers[i], Total(powers)))]
  IN  IF Total(powers) = 0 THEN Nothing(fees)
      ELSE IF portion > fees THEN Error(fees)
      ELSE [ok |-> TRUE, fees |-> fees - portion, community |-> community,
            rewards |-> rewards, rest |-> oracleReward - Total(rewards)]

\* The whole coins of one member.
MemberReward(portion, tax, n) ==
  TruncateDecimal(MulTruncate(MulTruncate(Dec(portion), Precision - tax),
                              QuoTruncate(Precision, Dec(n))))

\* AllocateTokens of x/bandtss for n members that are active and have nonces: rewards
\* are whole coins, the community pool gets the tax and what the truncations leave.
AllocateToMembers(fees, percentage, tax, n) ==
  LET portion == Portion(fees, percentage)
      reward == MemberReward(portion, tax, n)
  IN  IF n = 0 THEN Nothing(fees)
      ELSE IF portion > fees THEN Error(fees)
      ELSE [ok |-> TRUE, fees |-> fees - portion, community |-> portion - n * reward,
            rewards |-> [i \in 1..n |-> reward], rest |-> 0]
=============================================================================
