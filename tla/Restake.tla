------------------------------- MODULE Restake -------------------------------
(***************************************************************************)
(* Shared security of x/restake.  The power of a staker is what it has      *)
(* delegated in x/staking plus the allowed coins it has staked here.        *)
(* Modules lock power of stakers under a key, the vault; the same power may *)
(* be locked under several keys.  Hooks of x/staking and Unstake refuse to  *)
(* take power below the highest lock of an active vault.                    *)
(*                                                                         *)
(* x/staking and x/bank are external: delegations are amounts of tokens,    *)
(* slashing takes tokens away without asking, transfers are moves of        *)
(* balances.  A share is worth one token: the truncation and rounding of    *)
(* shares after a slash (TokensFromSharesTruncated, RoundInt) are left out. *)
(***************************************************************************)
EXTENDS Integers, FiniteSets, Functions

CONSTANTS
  Stakers,
  LiquidStakers,   \* stakers with 32-byte addresses, a subset of Stakers
  StakingValidators,
  Keys,            \* the keys of the vaults: one per module that locks power
  Denoms,
  DenomChoices,    \* the sets of allowed denominations governance chooses from
  Amounts,         \* amounts of a delegation, of a stake
  LockPowers,      \* powers a module may ask to lock
  Wealth,          \* what a staker owns of each denomination
  MaxDelegated     \* bound on one delegation

ASSUME RestakeAssumption ==
  /\ IsFiniteSet(Stakers) /\ IsFiniteSet(StakingValidators) /\ IsFiniteSet(Keys) /\ IsFiniteSet(Denoms)
  /\ LiquidStakers \subseteq Stakers /\ DenomChoices \subseteq SUBSET Denoms
  /\ Amounts \subseteq Nat \ {0} /\ LockPowers \subseteq Nat
  /\ Wealth \in Nat /\ MaxDelegated \in Nat

VARIABLES
  vaults,         \* key -> "none", "active" or "inactive"
  locks,          \* staker -> key -> power, a function on the keys with a lock
  lockIndex,      \* staker -> the pairs <<power, key>> of the index by power
  stakes,         \* staker -> denomination -> amount
  moduleAccount,  \* external: denomination -> balance of the module account
  wallets,        \* external: staker -> denomination -> balance
  delegations,    \* external: staker -> validator -> tokens
  allowedDenoms,
  exempt          \* history: stakers that lost power by slashing or by a change of the
                  \* allowed denominations

bank == <<moduleAccount, wallets>>
restakeVars == <<vaults, locks, lockIndex, stakes, moduleAccount, wallets, delegations,
                 allowedDenoms, exempt>>

IsLiquidStaker(staker) == staker \in LiquidStakers

\* The power from delegations, GetDelegatorBonded, and from staked coins.
GetDelegationPower(staker) == SumFunctionOnSet(delegations[staker], StakingValidators)
GetStakedPower(staker) == SumFunctionOnSet(stakes[staker], allowedDenoms)
GetTotalPower(staker) == GetDelegationPower(staker) + GetStakedPower(staker)

IsActiveVault(key) == vaults[key] = "active"

\* A mutant of isValidPower: the index is walked from its start, the lowest power first.
isValidPower_LowestFirst(staker, power) ==
  LET active == {e \in lockIndex[staker] : IsActiveVault(e[2])}
  IN  \A e \in active : (\A f \in active : e[1] <= f[1]) => power >= e[1]

\* The index is walked from its end; the first lock of an active vault decides.
isValidPower(staker, power) ==
  LET active == {e \in lockIndex[staker] : IsActiveVault(e[2])}
  IN  \A e \in active : (\A f \in active : e[1] >= f[1]) => power >= e[1]

(***************************************************************************)
(* Vaults and locks, called by the modules that use the power.             *)
(***************************************************************************)
\* SetLock: the old lock and its index entry are deleted first.
SetLock(staker, key, power) ==
  LET old == IF key \in DOMAIN locks[staker] THEN {<<locks[staker][key], key>>} ELSE {}
  IN  /\ locks' = [locks EXCEPT ![staker] =
           [k \in DOMAIN @ \cup {key} |-> IF k = key THEN power ELSE @[k]]]
      /\ lockIndex' = [lockIndex EXCEPT ![staker] = (@ \ old) \cup {<<power, key>>}]

\* GetOrCreateVault creates the vault with the first lock.
SetLockedPower(staker, key, power) ==
  /\ ~IsLiquidStaker(staker)
  /\ GetTotalPower(staker) >= power
  /\ vaults[key] # "inactive"
  /\ vaults' = [vaults EXCEPT ![key] = "active"]
  /\ SetLock(staker, key, power)
  /\ UNCHANGED <<stakes, bank, delegations, allowedDenoms, exempt>>

DeactivateVault(key) ==
  /\ IsActiveVault(key)
  /\ vaults' = [vaults EXCEPT ![key] = "inactive"]
  /\ UNCHANGED <<locks, lockIndex, stakes, bank, delegations, allowedDenoms, exempt>>

(***************************************************************************)
(* Staked coins.                                                           *)
(***************************************************************************)
AddCoins(stake, coins) == [d \in Denoms |-> stake[d] + coins[d]]
SubCoins(stake, coins) == [d \in Denoms |-> stake[d] - coins[d]]

\* coins is a function from denominations to amounts, 0 where there are none.
Stake(staker, coins) ==
  /\ \A d \in Denoms : coins[d] > 0 => d \in allowedDenoms
  /\ \A d \in Denoms : coins[d] <= wallets[staker][d]
  /\ wallets' = [wallets EXCEPT ![staker] = SubCoins(@, coins)]
  /\ moduleAccount' = [d \in Denoms |-> moduleAccount[d] + coins[d]]
  /\ stakes' = [stakes EXCEPT ![staker] = AddCoins(@, coins)]
  /\ UNCHANGED <<vaults, locks, lockIndex, delegations, allowedDenoms, exempt>>

\* The power is checked after the stake is reduced, and before the coins are sent.
Unstake(staker, coins) ==
  /\ \A d \in Denoms : coins[d] <= stakes[staker][d]
  /\ isValidPower(staker, GetDelegationPower(staker) +
                          SumFunctionOnSet(SubCoins(stakes[staker], coins), allowedDenoms))
  /\ \A d \in Denoms : coins[d] <= moduleAccount[d]
  /\ stakes' = [stakes EXCEPT ![staker] = SubCoins(@, coins)]
  /\ moduleAccount' = [d \in Denoms |-> moduleAccount[d] - coins[d]]
  /\ wallets' = [wallets EXCEPT ![staker] = [d \in Denoms |-> @[d] + coins[d]]]
  /\ UNCHANGED <<vaults, locks, lockIndex, delegations, allowedDenoms, exempt>>

(***************************************************************************)
(* Delegations: messages of x/staking, with the hooks they run.            *)
(***************************************************************************)
isAbleToUnbond(staker, delegated) == isValidPower(staker, GetStakedPower(staker) + delegated)

\* AfterDelegationModified, also when the delegation has grown.
AfterDelegationModified(staker, change) ==
  isAbleToUnbond(staker, GetDelegationPower(staker) + change)

\* BeforeDelegationRemoved: the delegation that goes is taken off the total.
BeforeDelegationRemoved(staker, v) ==
  isAbleToUnbond(staker, GetDelegationPower(staker) - delegations[staker][v])

\* The hook an unbonding runs: a delegation is removed when nothing is left of it.
UnbondHook(staker, v, amount) ==
  IF amount = delegations[staker][v] THEN BeforeDelegationRemoved(staker, v)
  ELSE AfterDelegationModified(staker, -amount)

Delegate(staker, v, amount) ==
  /\ delegations[staker][v] + amount <= MaxDelegated
  /\ AfterDelegationModified(staker, amount)
  /\ delegations' = [delegations EXCEPT ![staker][v] = @ + amount]
  /\ UNCHANGED <<vaults, locks, lockIndex, stakes, bank, allowedDenoms, exempt>>

Undelegate(staker, v, amount) ==
  /\ amount <= delegations[staker][v]
  /\ UnbondHook(staker, v, amount)
  /\ delegations' = [delegations EXCEPT ![staker][v] = @ - amount]
  /\ UNCHANGED <<vaults, locks, lockIndex, stakes, bank, allowedDenoms, exempt>>

\* A redelegation unbonds, with its hook, and then delegates, with its hook.
Redelegate(staker, v, w, amount) ==
  /\ v # w
  /\ amount <= delegations[staker][v] /\ delegations[staker][w] + amount <= MaxDelegated
  /\ UnbondHook(staker, v, amount)
  /\ AfterDelegationModified(staker, 0)
  /\ delegations' = [delegations EXCEPT ![staker][v] = @ - amount, ![staker][w] = @ + amount]
  /\ UNCHANGED <<vaults, locks, lockIndex, stakes, bank, allowedDenoms, exempt>>

\* BeforeValidatorSlashed does nothing: power may fall below a lock.
Slash(v) ==
  /\ \E s \in Stakers : delegations[s][v] > 0
  /\ delegations' = [s \in Stakers |->
       [delegations[s] EXCEPT ![v] = IF @ > 0 THEN @ - 1 ELSE 0]]
  /\ exempt' = exempt \cup {s \in Stakers : delegations[s][v] > 0}
  /\ UNCHANGED <<vaults, locks, lockIndex, stakes, bank, allowedDenoms>>

\* UpdateParams: coins of a denomination that is no longer allowed lose their power.
UpdateRestakeParams(denoms) ==
  /\ denoms # allowedDenoms
  /\ allowedDenoms' = denoms
  /\ exempt' = exempt \cup
       {s \in Stakers : SumFunctionOnSet(stakes[s], denoms) < GetStakedPower(s)}
  /\ UNCHANGED <<vaults, locks, lockIndex, stakes, bank, delegations>>

-----------------------------------------------------------------------------
RestakeInit ==
  /\ vaults = [k \in Keys |-> "none"]
  /\ locks = [s \in Stakers |-> <<>>]
  /\ lockIndex = [s \in Stakers |-> {}]
  /\ stakes = [s \in Stakers |-> [d \in Denoms |-> 0]]
  /\ moduleAccount = [d \in Denoms |-> 0]
  /\ wallets = [s \in Stakers |-> [d \in Denoms |-> Wealth]]
  /\ delegations = [s \in Stakers |-> [v \in StakingValidators |-> 0]]
  /\ allowedDenoms \in DenomChoices
  /\ exempt = {}

Coins == [Denoms -> Amounts \cup {0}] \ {[d \in Denoms |-> 0]}

RestakeNext ==
  \/ \E s \in Stakers, k \in Keys, p \in LockPowers : SetLockedPower(s, k, p)
  \/ \E k \in Keys : DeactivateVault(k)
  \/ \E s \in Stakers, c \in Coins : Stake(s, c) \/ Unstake(s, c)
  \/ \E s \in Stakers, v \in StakingValidators, a \in Amounts : Delegate(s, v, a) \/ Undelegate(s, v, a)
  \/ \E s \in Stakers, v, w \in StakingValidators, a \in Amounts : Redelegate(s, v, w, a)
  \/ \E v \in StakingValidators : Slash(v)
  \/ \E D \in DenomChoices : UpdateRestakeParams(D)

RestakeSpec == RestakeInit /\ [][RestakeNext]_restakeVars

-----------------------------------------------------------------------------
\* The power that active vaults count on is there: no sequence of unstaking, undelegating,
\* redelegating and locking under several keys leaves a staker with less power than a lock
\* of an active vault, unless slashing or a change of the allowed denominations took it.
\* The check goes through the index by power, which must agree with the locks, and the
\* coins that count as power are in the module account, so that they can be paid back.
PowerCoversLocks ==
  /\ \A s \in Stakers :
       /\ lockIndex[s] = {<<locks[s][k], k>> : k \in DOMAIN locks[s]}
       /\ s \notin exempt =>
            \A k \in DOMAIN locks[s] : IsActiveVault(k) => locks[s][k] <= GetTotalPower(s)
  /\ \A d \in Denoms :
       moduleAccount[d] = SumFunctionOnSet([s \in Stakers |-> stakes[s][d]], Stakers)
=============================================================================
