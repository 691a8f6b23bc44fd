---------------------------- MODULE PowerProofs ----------------------------
(***************************************************************************)
(* Proofs about power: the locks of x/restake; the votes of x/feeds, which  *)
(* lock power there; the reports that keep a validator active; and the      *)
(* prices of the current feeds that are made of these reports.              *)
(*                                                                         *)
(* The locks come first: PowerCoversLocks for every number of stakers,      *)
(* validators, vaults and denominations.  isValidPower looks at one entry   *)
(* of the index only, the highest of an active vault; that this is enough   *)
(* needs the index to hold exactly the locks.  The powers are sums over the *)
(* validators and over the allowed denominations.                          *)
(***************************************************************************)
EXTENDS Restake, Feeds, WeightTheorems

RestakeType ==
  /\ vaults \in [Keys -> {"none", "active", "inactive"}]
  /\ stakes \in [Stakers -> [Denoms -> Nat]]
  /\ delegations \in [Stakers -> [StakingValidators -> Nat]]
  /\ moduleAccount \in [Denoms -> Int]
  /\ allowedDenoms \in SUBSET Denoms
  /\ DOMAIN lockIndex = Stakers /\ DOMAIN locks = Stakers

\* A lock lies under a vault that exists: creating a vault makes no old lock active.
LocksInv ==
  \A s \in Stakers :
    /\ DOMAIN locks[s] \subseteq Keys
    /\ \A k \in DOMAIN locks[s] : locks[s][k] \in Nat /\ vaults[k] # "none"

IndexInv ==
  \A s \in Stakers : lockIndex[s] = {<<locks[s][k], k>> : k \in DOMAIN locks[s]}

Covered(s, power) == \A k \in DOMAIN locks[s] : IsActiveVault(k) => locks[s][k] <= power

CoverInv == \A s \in Stakers : s \notin exempt => Covered(s, GetTotalPower(s))

AccountInv ==
  \A d \in Denoms :
    moduleAccount[d] = SumFunctionOnSet([s \in Stakers |-> stakes[s][d]], Stakers)

RestakeInv == RestakeType /\ LocksInv /\ IndexInv /\ CoverInv /\ AccountInv

\* Powers are integers: the sums they are made of are finite.
LEMMA PowersAreInt ==
  ASSUME RestakeType, NEW s \in Stakers
  PROVE  /\ GetDelegationPower(s) \in Int /\ GetStakedPower(s) \in Int
         /\ GetTotalPower(s) \in Int
<1>1. \A v \in StakingValidators : delegations[s][v] \in Int
  BY DEF RestakeType
<1>2. IsFiniteSet(allowedDenoms)
  BY FS_Subset, RestakeAssumption, Zenon DEF RestakeType
<1>3. \A d \in allowedDenoms : stakes[s][d] \in Int
  BY DEF RestakeType
<1>4. GetDelegationPower(s) \in Int
  BY <1>1, SumInt, RestakeAssumption, ZenonT(60) DEF GetDelegationPower
<1>5. GetStakedPower(s) \in Int
  BY <1>2, <1>3, SumInt, ZenonT(60) DEF GetStakedPower
<1>6. QED
  BY <1>4, <1>5 DEF GetTotalPower

\* What isValidPower promises: the first active entry from the end of the index decides
\* for all active locks.
LEMMA ValidPowerCovers ==
  ASSUME RestakeType, LocksInv, IndexInv, NEW s \in Stakers, NEW p \in Int, isValidPower(s, p)
  PROVE  Covered(s, p)
<1> DEFINE A == {k \in DOMAIN locks[s] : IsActiveVault(k)}
<1>1. SUFFICES ASSUME A # {} PROVE \A k \in A : locks[s][k] <= p
  BY Zenon DEF Covered
<1>2. IsFiniteSet(A)
  <2>1. A \in SUBSET Keys
    BY Zenon DEF LocksInv
  <2>2. QED
    BY <2>1, FS_Subset, RestakeAssumption, ZenonT(60)
<1>3. \A k \in A : locks[s][k] \in Int
  BY DEF LocksInv
<1>4. PICK f : f = locks[s]
  BY Zenon
<1>5. PICK m \in A : \A k \in A : f[k] <= f[m]
  <2> HIDE DEF A
  <2>1. QED
    BY <1>1, <1>2, <1>3, <1>4, LargestValue, ZenonT(60)
<1>6. PICK active : active = {e \in lockIndex[s] : IsActiveVault(e[2])}
  BY Zenon
<1>7. \A e \in active : (\A x \in active : e[1] >= x[1]) => p >= e[1]
  BY <1>6, Zenon DEF isValidPower
<1>8. lockIndex[s] = {<<f[k], k>> : k \in DOMAIN f}
  BY <1>4, Zenon DEF IndexInv
<1>9. active = {<<f[k], k>> : k \in A}
  BY <1>4, <1>6, <1>8, SMTT(30)
<1>10. PICK e : e = <<f[m], m>>
  BY Zenon
<1>11. e \in active /\ e[1] = f[m]
  BY <1>9, <1>10, ZenonT(60)
<1>12. \A x \in active : e[1] >= x[1]
  BY <1>3, <1>4, <1>5, <1>9, <1>11, SMTT(30)
<1>13. p >= f[m]
  BY <1>7, <1>11, <1>12, ZenonT(60)
<1>14. QED
  BY <1>3, <1>4, <1>5, <1>13, SMTT(30)

-----------------------------------------------------------------------------
(***************************************************************************)
(* Steps that leave the locks alone keep them covered when no power falls,  *)
(* or when isValidPower has accepted the power that is left.               *)
(***************************************************************************)
LEMMA StillCovered ==
  ASSUME RestakeInv, RestakeType', UNCHANGED <<locks, lockIndex>>,
         \A k \in Keys : vaults'[k] = "active" => IsActiveVault(k),
         \A k \in Keys : vaults[k] # "none" => vaults'[k] # "none",
         \A t \in Stakers : t \notin exempt' =>
           \E p \in Int : /\ p = GetTotalPower(t)'
                          /\ \/ t \notin exempt /\ GetTotalPower(t) <= p
                             \/ isValidPower(t, p)
  PROVE  LocksInv' /\ IndexInv' /\ CoverInv'
<1>1. LocksInv'
  BY Zenon DEF RestakeInv, LocksInv
<1>2. IndexInv'
  BY Zenon DEF RestakeInv, IndexInv
<1>3. ASSUME NEW t \in Stakers, t \notin exempt'
      PROVE  Covered(t, GetTotalPower(t))'
  <2>1. PICK p \in Int : /\ p = GetTotalPower(t)'
                         /\ \/ t \notin exempt /\ GetTotalPower(t) <= p
                            \/ isValidPower(t, p)
    BY <1>3, Zenon
  <2>2. Covered(t, p)
    <3>1. CASE isValidPower(t, p)
      BY <3>1, ValidPowerCovers, ZenonT(60) DEF RestakeInv
    <3>2. CASE t \notin exempt /\ GetTotalPower(t) <= p
      <4>1. Covered(t, GetTotalPower(t)) /\ RestakeType
        BY <3>2, Zenon DEF RestakeInv, CoverInv
      <4>2. GetTotalPower(t) \in Int
        BY <4>1, PowersAreInt, ZenonT(60)
      <4>3. \A k \in DOMAIN locks[t] : locks[t][k] \in Int
        BY DEF RestakeInv, LocksInv
      <4>4. PICK q \in Int : q = GetTotalPower(t)
        BY <4>2, Zenon
      <4>5. \A k \in DOMAIN locks[t] : IsActiveVault(k) => locks[t][k] <= q
        BY <4>1, <4>4, Zenon DEF Covered
      <4>6. q <= p
        BY <3>2, <4>4, Zenon
      <4>7. QED
        BY <4>3, <4>5, <4>6, SMTT(30) DEF Covered
    <3>3. QED
      BY <2>1, <3>1, <3>2, ZenonT(60)
  <2>3. DOMAIN locks[t] \subseteq Keys
    BY Zenon DEF RestakeInv, LocksInv
  <2>4. \A k \in DOMAIN locks'[t] : vaults'[k] = "active" => locks'[t][k] <= p
    BY <2>2, <2>3, Zenon DEF Covered
  <2>5. \A k \in DOMAIN locks'[t] : vaults'[k] = "active" => locks'[t][k] <= GetTotalPower(t)'
    BY <2>1, <2>4, Zenon
  <2>6. QED
    BY <2>5, Zenon DEF Covered, IsActiveVault
<1>4. QED
  BY <1>1, <1>2, <1>3, ZenonT(60) DEF CoverInv

\* The steps of x/staking change delegations only, up to the history of who is exempt.
LEMMA DelegationsMove ==
  ASSUME RestakeInv, delegations' \in [Stakers -> [StakingValidators -> Nat]],
         UNCHANGED <<vaults, locks, lockIndex, stakes, bank, allowedDenoms>>,
         \A t \in Stakers : t \notin exempt' =>
           \E p \in Int : /\ p = SumFunctionOnSet(delegations'[t], StakingValidators)
                          /\ \/ t \notin exempt /\ GetDelegationPower(t) <= p
                             \/ isAbleToUnbond(t, p)
  PROVE  RestakeInv'
<1>1. RestakeType /\ RestakeType'
  BY Zenon DEF RestakeInv, RestakeType, bank
<1>2. AccountInv'
  BY Zenon DEF RestakeInv, AccountInv, bank
<1>3. ASSUME NEW t \in Stakers, t \notin exempt'
      PROVE  \E p \in Int : /\ p = GetTotalPower(t)'
                            /\ \/ t \notin exempt /\ GetTotalPower(t) <= p
                               \/ isValidPower(t, p)
  <2>1. PICK p \in Int : /\ p = SumFunctionOnSet(delegations'[t], StakingValidators)
                         /\ \/ t \notin exempt /\ GetDelegationPower(t) <= p
                            \/ isAbleToUnbond(t, p)
    BY <1>3, Zenon
  <2>2. PICK q \in Int : q = GetStakedPower(t)
    BY <1>1, PowersAreInt, ZenonT(60)
  <2>3. GetTotalPower(t)' = p + q
    BY <2>1, <2>2, Zenon DEF GetTotalPower, GetDelegationPower, GetStakedPower
  <2>4. isAbleToUnbond(t, p) => isValidPower(t, q + p)
    BY <2>2, Zenon DEF isAbleToUnbond
  <2>5. q + p = p + q /\ p + q \in Int
    OBVIOUS
  <2>6. PICK r \in Int : r = GetDelegationPower(t)
    BY <1>1, PowersAreInt, ZenonT(60)
  <2>7. GetTotalPower(t) = r + q
    BY <2>2, <2>6, ZenonT(60) DEF GetTotalPower
  <2>8. r <= p => GetTotalPower(t) <= p + q
    BY <2>7
  <2>9. QED
    BY <2>1, <2>3, <2>4, <2>5, <2>6, <2>8, ZenonT(60)
<1>4. vaults' = vaults /\ locks' = locks /\ lockIndex' = lockIndex
  BY Zenon
<1>5. LocksInv' /\ IndexInv' /\ CoverInv'
  BY <1>1, <1>3, <1>4, StillCovered, ZenonT(60) DEF IsActiveVault
<1>6. QED
  BY <1>1, <1>2, <1>5, Zenon DEF RestakeInv

\* The validators of a chain are finitely many.
LEMMA FiniteStaking == IsFiniteSet(StakingValidators)
  BY RestakeAssumption

\* The sum of the delegations of a staker once one of them has changed by c.
LEMMA DelegationChange ==
  ASSUME RestakeType, NEW s \in Stakers, NEW v \in StakingValidators, NEW c \in Int, NEW g,
         g[v] = delegations[s][v] + c,
         \A w \in StakingValidators : w # v => g[w] = delegations[s][w]
  PROVE  SumFunctionOnSet(g, StakingValidators) = GetDelegationPower(s) + c
<1>1. PICK f \in [StakingValidators -> Nat] : f = delegations[s]
  BY ZenonT(60) DEF RestakeType
<1>2. \A y \in StakingValidators : f[y] \in Int /\ g[y] \in Int
  BY <1>1
<1>3. \A y \in StakingValidators : y # v => g[y] = f[y]
  BY <1>1, Zenon
<1>4. SumFunctionOnSet(g, StakingValidators) = SumFunctionOnSet(f, StakingValidators) + (g[v] - f[v])
  BY <1>2, <1>3, SumUpdate, FiniteStaking, SMTT(30)
<1>5. GetDelegationPower(s) = SumFunctionOnSet(f, StakingValidators)
  BY <1>1, Zenon DEF GetDelegationPower
<1>6. g[v] = f[v] + c /\ f[v] \in Int
  BY <1>1
<1>7. g[v] - f[v] = c
  BY <1>6
<1>8. QED
  BY <1>4, <1>5, <1>7, ZenonT(60)

\* Delegate and Undelegate keep the locks covered: the hook refuses an undelegation that would not.
LEMMA DelegateInv ==
  ASSUME RestakeInv, NEW s \in Stakers, NEW v \in StakingValidators, NEW a \in Amounts,
         Delegate(s, v, a) \/ Undelegate(s, v, a)
  PROVE  RestakeInv'
<1>1. RestakeType /\ a \in Nat
  BY RestakeAssumption, ZenonT(60) DEF RestakeInv
<1>2. delegations \in [Stakers -> [StakingValidators -> Nat]]
  BY <1>1, Zenon DEF RestakeType
<1>3. PICK n \in Nat : n = delegations[s][v]
  BY <1>2, ZenonT(60)
<1>4. PICK c \in Int : /\ n + c \in Nat
                       /\ delegations' = [delegations EXCEPT ![s][v] = n + c]
                       /\ isAbleToUnbond(s, GetDelegationPower(s) + c)
  <2>1. CASE Delegate(s, v, a)
    <3>1. delegations' = [delegations EXCEPT ![s][v] = n + a]
      BY <2>1, <1>3, ZenonT(60) DEF Delegate
    <3>2. isAbleToUnbond(s, GetDelegationPower(s) + a)
      BY <2>1, Zenon DEF Delegate, AfterDelegationModified
    <3>3. a \in Int /\ n + a \in Nat
      BY <1>1
    <3>4. QED
      BY <3>1, <3>2, <3>3, Zenon
  <2>2. CASE Undelegate(s, v, a)
    <3>1. delegations' = [delegations EXCEPT ![s][v] = n - a] /\ a <= n
      BY <2>2, <1>3, Zenon DEF Undelegate
    <3>2. n - a = n + (-a) /\ -a \in Int /\ n + (-a) \in Nat
      BY <1>1, <3>1
    <3>3. GetDelegationPower(s) \in Int
      BY <1>1, PowersAreInt, ZenonT(60)
    <3>4. isAbleToUnbond(s, GetDelegationPower(s) + (-a))
      <4>1. CASE a = n
        <5>1. isAbleToUnbond(s, GetDelegationPower(s) - n)
          BY <2>2, <4>1, <1>3, ZenonT(60) DEF Undelegate, UnbondHook, BeforeDelegationRemoved
        <5>2. GetDelegationPower(s) - n = GetDelegationPower(s) + (-a)
          BY <4>1, <3>3, <1>3, ZenonT(60)
        <5>3. QED
          BY <5>1, <5>2, Zenon
      <4>2. CASE a # n
        BY <2>2, <4>2, <1>3, ZenonT(60) DEF Undelegate, UnbondHook, AfterDelegationModified
      <4>3. QED
        BY <4>1, <4>2, Zenon
    <3>5. delegations' = [delegations EXCEPT ![s][v] = n + (-a)]
      BY <3>1, <3>2, Zenon
    <3>6. QED
      BY <3>2, <3>4, <3>5, Zenon
  <2>3. QED
    BY <2>1, <2>2, Zenon
<1>5. delegations' \in [Stakers -> [StakingValidators -> Nat]]
  BY <1>2, <1>4, ZenonT(60)
<1>6. ASSUME NEW t \in Stakers, t \notin exempt'
      PROVE  \E p \in Int : /\ p = SumFunctionOnSet(delegations'[t], StakingValidators)
                            /\ \/ t \notin exempt /\ GetDelegationPower(t) <= p
                               \/ isAbleToUnbond(t, p)
  <2>1. PICK q \in Int : q = GetDelegationPower(t)
    BY <1>1, PowersAreInt, ZenonT(60)
  <2>2. CASE t = s
    <3>1. PICK g : g = delegations'[s]
      BY Zenon
    <3>2. /\ g[v] = delegations[s][v] + c
          /\ \A w \in StakingValidators : w # v => g[w] = delegations[s][w]
      BY <3>1, <1>2, <1>3, <1>4, ZenonT(60)
    <3>3. SumFunctionOnSet(g, StakingValidators) = GetDelegationPower(s) + c
      BY <1>1, <3>2, DelegationChange, ZenonT(60)
    <3>4. q + c \in Int
      OBVIOUS
    <3>5. QED
      BY <2>1, <2>2, <3>1, <3>3, <3>4, <1>4, ZenonT(60)
  <2>3. CASE t # s
    <3>1. delegations'[t] = delegations[t]
      BY <2>3, <1>2, <1>4, ZenonT(60)
    <3>2. exempt' = exempt /\ q <= q
      BY DEF Delegate, Undelegate
    <3>3. QED
      BY <1>6, <2>1, <3>1, <3>2, ZenonT(60) DEF GetDelegationPower
  <2>4. QED
    BY <2>2, <2>3, ZenonT(60)
<1>7. UNCHANGED <<vaults, locks, lockIndex, stakes, bank, allowedDenoms>>
  BY Zenon DEF Delegate, Undelegate
<1>8. QED
  BY <1>5, <1>6, <1>7, DelegationsMove, ZenonT(60)

\* A redelegation moves power from a validator to another; the total stays.
LEMMA RedelegateInv ==
  ASSUME RestakeInv, NEW s \in Stakers, NEW v \in StakingValidators, NEW w \in StakingValidators,
         NEW a \in Amounts, Redelegate(s, v, w, a)
  PROVE  RestakeInv'
<1>1. RestakeType /\ a \in Nat /\ v # w
  BY RestakeAssumption, ZenonT(60) DEF RestakeInv, Redelegate
<1>2. delegations \in [Stakers -> [StakingValidators -> Nat]]
  BY <1>1, Zenon DEF RestakeType
<1>3. PICK f \in [StakingValidators -> Nat] : f = delegations[s]
  BY <1>2, ZenonT(60)
<1>4. f[v] \in Nat /\ f[w] \in Nat /\ a <= f[v]
  BY <1>3, ZenonT(60) DEF Redelegate
<1>5. delegations' = [delegations EXCEPT ![s][v] = @ - a, ![s][w] = @ + a]
  BY Zenon DEF Redelegate
<1>6. PICK h : h = [f EXCEPT ![v] = f[v] - a]
  BY Zenon
<1>7. PICK g : g = [f EXCEPT ![v] = f[v] - a, ![w] = f[w] + a]
  BY Zenon
<1>8. h \in [StakingValidators -> Nat] /\ g \in [StakingValidators -> Nat]
  BY <1>1, <1>3, <1>4, <1>6, <1>7, SMTT(30)
<1>9. /\ delegations' \in [Stakers -> [StakingValidators -> Nat]]
      /\ delegations'[s] = g /\ \A t \in Stakers : t # s => delegations'[t] = delegations[t]
  BY <1>1, <1>2, <1>3, <1>5, <1>7, <1>8, ZenonT(60)
<1>10. SumFunctionOnSet(g, StakingValidators) = GetDelegationPower(s)
  <2>1. /\ \A y \in StakingValidators : f[y] \in Int /\ h[y] \in Int
        /\ \A y \in StakingValidators : h[y] \in Int /\ g[y] \in Int
    BY <1>3, <1>8, SMTT(30)
  <2>2. /\ \A y \in StakingValidators : y # v => h[y] = f[y]
        /\ \A y \in StakingValidators : y # w => g[y] = h[y]
    BY <1>1, <1>3, <1>6, <1>7, ZenonT(60)
  <2>3. SumFunctionOnSet(h, StakingValidators) = SumFunctionOnSet(f, StakingValidators) + (h[v] - f[v])
    BY <1>1, <2>1, <2>2, SumUpdate, FiniteStaking, ZenonT(60)
  <2>4. SumFunctionOnSet(g, StakingValidators) = SumFunctionOnSet(h, StakingValidators) + (g[w] - h[w])
    BY <1>1, <2>1, <2>2, SumUpdate, FiniteStaking, ZenonT(60)
  <2>5. h[v] - f[v] = -a /\ g[w] - h[w] = a
    BY <1>1, <1>3, <1>4, <1>6, <1>7
  <2>6. SumFunctionOnSet(f, StakingValidators) = GetDelegationPower(s)
    BY <1>3, Zenon DEF GetDelegationPower
  <2>7. SumFunctionOnSet(f, StakingValidators) \in Int
    BY <1>1, <2>6, PowersAreInt, ZenonT(60)
  <2>8. QED
    BY <2>3, <2>4, <2>5, <2>6, <2>7, <1>1, SMTT(30)
<1>11. ASSUME NEW t \in Stakers, t \notin exempt'
       PROVE  \E p \in Int : /\ p = SumFunctionOnSet(delegations'[t], StakingValidators)
                             /\ \/ t \notin exempt /\ GetDelegationPower(t) <= p
                                \/ isAbleToUnbond(t, p)
  <2>1. PICK q \in Int : q = GetDelegationPower(t)
    BY <1>1, PowersAreInt, ZenonT(60)
  <2>2. q = SumFunctionOnSet(delegations'[t], StakingValidators)
    BY <2>1, <1>9, <1>10, Zenon DEF GetDelegationPower
  <2>3. exempt' = exempt /\ q <= q
    BY DEF Redelegate
  <2>4. QED
    BY <1>11, <2>1, <2>2, <2>3, Zenon
<1>12. UNCHANGED <<vaults, locks, lockIndex, stakes, bank, allowedDenoms>>
  BY Zenon DEF Redelegate
<1>13. QED
  BY <1>9, <1>11, <1>12, DelegationsMove, ZenonT(60)

\* Slashing exempts whoever loses tokens; the others had none with the validator.
LEMMA SlashInv ==
  ASSUME RestakeInv, NEW v \in StakingValidators, Slash(v)
  PROVE  RestakeInv'
<1>1. RestakeType
  BY Zenon DEF RestakeInv
<1>2. delegations \in [Stakers -> [StakingValidators -> Nat]]
  BY <1>1, Zenon DEF RestakeType
<1>3. delegations' = [t \in Stakers |->
        [delegations[t] EXCEPT ![v] = IF @ > 0 THEN @ - 1 ELSE 0]]
  BY Zenon DEF Slash
<1>4. delegations' \in [Stakers -> [StakingValidators -> Nat]]
  BY <1>2, <1>3
<1>5. ASSUME NEW t \in Stakers, t \notin exempt'
      PROVE  \E p \in Int : /\ p = SumFunctionOnSet(delegations'[t], StakingValidators)
                            /\ \/ t \notin exempt /\ GetDelegationPower(t) <= p
                               \/ isAbleToUnbond(t, p)
  <2>1. t \notin exempt /\ ~(delegations[t][v] > 0)
    BY <1>5, ZenonT(60) DEF Slash
  <2>2. delegations[t][v] = 0
    BY <1>2, <2>1, SMTT(30)
  <2>3. delegations'[t] = delegations[t]
    BY <1>2, <1>3, <2>2, SMTT(30)
  <2>4. PICK q \in Int : q = GetDelegationPower(t)
    BY <1>1, PowersAreInt, ZenonT(60)
  <2>5. q <= q
    OBVIOUS
  <2>6. QED
    BY <2>1, <2>3, <2>4, <2>5, ZenonT(60) DEF GetDelegationPower
<1>6. UNCHANGED <<vaults, locks, lockIndex, stakes, bank, allowedDenoms>>
  BY Zenon DEF Slash
<1>7. QED
  BY <1>4, <1>5, <1>6, DelegationsMove, Zenon

-----------------------------------------------------------------------------
(***************************************************************************)
(* Staked coins and the module account move together.                      *)
(***************************************************************************)
LEMMA AccountMoves ==
  ASSUME RestakeType, RestakeType', AccountInv, NEW s \in Stakers,
         \A t \in Stakers : t # s => stakes'[t] = stakes[t],
         \A d \in Denoms :
           moduleAccount'[d] = moduleAccount[d] + (stakes'[s][d] - stakes[s][d])
  PROVE  AccountInv'
<1>1. ASSUME NEW d \in Denoms
      PROVE  moduleAccount'[d] = SumFunctionOnSet([t \in Stakers |-> stakes'[t][d]], Stakers)
  <2>1. PICK f : f = [t \in Stakers |-> stakes[t][d]]
    BY Zenon
  <2>2. PICK g : g = [t \in Stakers |-> stakes'[t][d]]
    BY Zenon
  <2>3. \A t \in Stakers : f[t] \in Int /\ g[t] \in Int
    BY <2>1, <2>2 DEF RestakeType
  <2>4. \A t \in Stakers : t # s => g[t] = f[t]
    BY <2>1, <2>2, ZenonT(60)
  <2>5. SumFunctionOnSet(g, Stakers) = SumFunctionOnSet(f, Stakers) + (g[s] - f[s])
    BY <2>3, <2>4, SumUpdate, RestakeAssumption, SMTT(30)
  <2>6. moduleAccount[d] = SumFunctionOnSet(f, Stakers)
    BY <2>1, Zenon DEF AccountInv
  <2>7. g[s] = stakes'[s][d] /\ f[s] = stakes[s][d]
    BY <2>1, <2>2, ZenonT(60)
  <2>8. QED
    BY <2>2, <2>5, <2>6, <2>7, Zenon
<1>2. QED
  BY <1>1, Zenon DEF AccountInv

\* A coin set has a natural amount of each denomination.
LEMMA CoinsAreNat == ASSUME NEW c \in Coins PROVE \A d \in Denoms : c[d] \in Nat
<1>1. c \in [Denoms -> Amounts \cup {0}]
  BY Zenon DEF Coins
<1>2. Amounts \subseteq Nat
  BY RestakeAssumption, ZenonT(60)
<1>3. \A d \in Denoms : c[d] \in Amounts \/ c[d] = 0
  BY <1>1, ZenonT(60)
<1>4. 0 \in Nat
  BY ZenonT(60)
<1>5. QED
  BY <1>2, <1>3, <1>4, ZenonT(60)

\* MsgStake adds to the power of the staker and to the module account alike.
LEMMA StakeInv ==
  ASSUME RestakeInv, NEW s \in Stakers, NEW c \in Coins, Stake(s, c)
  PROVE  RestakeInv'
<1>1. RestakeType /\ AccountInv
  BY Zenon DEF RestakeInv
<1>2. \A d \in Denoms : c[d] \in Nat
  BY CoinsAreNat, ZenonT(60)
<1>3. stakes \in [Stakers -> [Denoms -> Nat]] /\ moduleAccount \in [Denoms -> Int]
  BY <1>1, Zenon DEF RestakeType
<1>4. stakes' = [stakes EXCEPT ![s] = [d \in Denoms |-> stakes[s][d] + c[d]]]
  BY Zenon DEF Stake, AddCoins
<1>5. moduleAccount' = [d \in Denoms |-> moduleAccount[d] + c[d]]
  BY Zenon DEF Stake
<1>6. stakes' \in [Stakers -> [Denoms -> Nat]] /\ moduleAccount' \in [Denoms -> Int]
  BY <1>2, <1>3, <1>4, <1>5, SMTT(30)
<1>7. UNCHANGED <<vaults, locks, lockIndex, delegations, allowedDenoms, exempt>>
  BY Zenon DEF Stake
<1>8. RestakeType'
  BY <1>1, <1>6, <1>7, Zenon DEF RestakeType
<1>9. /\ \A t \in Stakers : t # s => stakes'[t] = stakes[t]
      /\ \A d \in Denoms : stakes'[s][d] = stakes[s][d] + c[d]
  BY <1>3, <1>4, ZenonT(60)
<1>10. AccountInv'
  <2>1. ASSUME NEW d \in Denoms
        PROVE  moduleAccount'[d] = moduleAccount[d] + (stakes'[s][d] - stakes[s][d])
    <3>1. stakes[s][d] \in Nat /\ c[d] \in Nat
      BY <1>2, <1>3, ZenonT(60)
    <3>2. stakes'[s][d] - stakes[s][d] = c[d]
      BY <1>9, <3>1
    <3>3. QED
      BY <1>5, <3>2, Zenon
  <2>2. QED
    BY <2>1, <1>1, <1>8, <1>9, AccountMoves, ZenonT(60)
<1>11. ASSUME NEW t \in Stakers, t \notin exempt'
       PROVE  \E p \in Int : /\ p = GetTotalPower(t)'
                             /\ \/ t \notin exempt /\ GetTotalPower(t) <= p
                                \/ isValidPower(t, p)
  <2>1. IsFiniteSet(allowedDenoms) /\ allowedDenoms \subseteq Denoms
    BY <1>1, FS_Subset, RestakeAssumption, Zenon DEF RestakeType
  <2>2. PICK f, g : f = stakes[t] /\ g = stakes'[t]
    BY Zenon
  <2>3. \A d \in Denoms : f[d] \in Int /\ g[d] \in Int /\ f[d] <= g[d]
    <3>1. CASE t = s
      BY <3>1, <2>2, <1>2, <1>3, <1>9, SMTT(30)
    <3>2. CASE t # s
      BY <3>2, <2>2, <1>3, <1>9, SMTT(30)
    <3>3. QED
      BY <3>1, <3>2, ZenonT(60)
  <2>4. /\ SumFunctionOnSet(f, allowedDenoms) <= SumFunctionOnSet(g, allowedDenoms)
        /\ SumFunctionOnSet(f, allowedDenoms) \in Int /\ SumFunctionOnSet(g, allowedDenoms) \in Int
    <3>1. \A d \in allowedDenoms : f[d] \in Int /\ g[d] \in Int /\ f[d] <= g[d]
      BY <2>1, <2>3, Zenon
    <3>2. QED
      BY <2>1, <3>1, SumMonotone, SumInt, ZenonT(60)
  <2>5. PICK x, y \in Int : /\ x = SumFunctionOnSet(f, allowedDenoms)
                            /\ y = SumFunctionOnSet(g, allowedDenoms)
    BY <2>4, Zenon
  <2>6. PICK r \in Int : r = GetDelegationPower(t)
    BY <1>1, PowersAreInt, ZenonT(60)
  <2>7. GetTotalPower(t) = r + x
    BY <2>2, <2>5, <2>6, Zenon DEF GetTotalPower, GetStakedPower
  <2>8. GetTotalPower(t)' = r + y
    BY <1>7, <2>2, <2>5, <2>6, ZenonT(60) DEF GetTotalPower, GetDelegationPower, GetStakedPower
  <2>9. r + x <= r + y /\ r + y \in Int
    BY <2>4, <2>5
  <2>10. QED
    BY <1>7, <1>11, <2>7, <2>8, <2>9, ZenonT(60)
<1>12. LocksInv' /\ IndexInv' /\ CoverInv'
  BY <1>7, <1>8, <1>11, StillCovered, ZenonT(60) DEF IsActiveVault
<1>13. QED
  BY <1>8, <1>10, <1>12, Zenon DEF RestakeInv

\* Unstake has asked isValidPower about the stake that is left.
LEMMA UnstakeInv ==
  ASSUME RestakeInv, NEW s \in Stakers, NEW c \in Coins, Unstake(s, c)
  PROVE  RestakeInv'
<1>1. RestakeType /\ AccountInv
  BY Zenon DEF RestakeInv
<1>2. \A d \in Denoms : c[d] \in Nat
  BY CoinsAreNat, SMTT(30)
<1>3. stakes \in [Stakers -> [Denoms -> Nat]] /\ moduleAccount \in [Denoms -> Int]
  BY <1>1, Zenon DEF RestakeType
<1>4. PICK left : left = SubCoins(stakes[s], c)
  BY Zenon
<1>5. left \in [Denoms -> Nat] /\ \A d \in Denoms : left[d] = stakes[s][d] - c[d]
  <2>1. \A d \in Denoms : c[d] <= stakes[s][d]
    BY Zenon DEF Unstake
  <2>2. left = [d \in Denoms |-> stakes[s][d] - c[d]]
    BY <1>4, Zenon DEF SubCoins
  <2>3. QED
    BY <1>2, <1>3, <2>1, <2>2, SMTT(30)
<1>6. stakes' = [stakes EXCEPT ![s] = left]
  BY <1>4, Zenon DEF Unstake
<1>7. moduleAccount' = [d \in Denoms |-> moduleAccount[d] - c[d]]
  BY Zenon DEF Unstake
<1>8. stakes' \in [Stakers -> [Denoms -> Nat]] /\ moduleAccount' \in [Denoms -> Int]
  BY <1>2, <1>3, <1>5, <1>6, <1>7, SMTT(30)
<1>9. UNCHANGED <<vaults, locks, lockIndex, delegations, allowedDenoms, exempt>>
  BY ZenonT(60) DEF Unstake
<1>10. RestakeType'
  BY <1>1, <1>8, <1>9, Zenon DEF RestakeType
<1>11. stakes'[s] = left /\ \A t \in Stakers : t # s => stakes'[t] = stakes[t]
  BY <1>3, <1>6, ZenonT(60)
<1>12. AccountInv'
  <2>1. ASSUME NEW d \in Denoms
        PROVE  moduleAccount'[d] = moduleAccount[d] + (stakes'[s][d] - stakes[s][d])
    <3>1. stakes[s][d] \in Nat /\ c[d] \in Nat /\ moduleAccount[d] \in Int
      BY <1>2, <1>3, ZenonT(60)
    <3>2. stakes'[s][d] = stakes[s][d] - c[d] /\ moduleAccount'[d] = moduleAccount[d] - c[d]
      BY <1>5, <1>7, <1>11, Zenon
    <3>3. QED
      BY <3>1, <3>2
  <2>2. QED
    BY <2>1, <1>1, <1>10, <1>11, AccountMoves, ZenonT(60)
<1>13. ASSUME NEW t \in Stakers, t \notin exempt'
       PROVE  \E p \in Int : /\ p = GetTotalPower(t)'
                             /\ \/ t \notin exempt /\ GetTotalPower(t) <= p
                                \/ isValidPower(t, p)
  <2>1. CASE t = s
    <3>1. PICK r \in Int : r = GetDelegationPower(s)
      BY <1>1, PowersAreInt, ZenonT(60)
    <3>2. IsFiniteSet(allowedDenoms) /\ allowedDenoms \subseteq Denoms
      BY <1>1, FS_Subset, RestakeAssumption, ZenonT(60) DEF RestakeType
    <3>3. PICK x \in Int : x = SumFunctionOnSet(left, allowedDenoms)
      BY <3>2, <1>5, SumInt, SMTT(30)
    <3>4. isValidPower(s, r + x)
      BY <1>4, <3>1, <3>3, Zenon DEF Unstake
    <3>5. GetTotalPower(s)' = r + x
      BY <1>9, <1>11, <3>1, <3>3, ZenonT(60) DEF GetTotalPower, GetDelegationPower, GetStakedPower
    <3>6. r + x \in Int
      OBVIOUS
    <3>7. QED
      BY <2>1, <3>4, <3>5, <3>6, ZenonT(60)
  <2>2. CASE t # s
    <3>1. PICK q \in Int : q = GetTotalPower(t)
      BY <1>1, PowersAreInt, ZenonT(60)
    <3>2. q = GetTotalPower(t)'
      BY <2>2, <1>9, <1>11, <3>1, ZenonT(60) DEF GetTotalPower, GetDelegationPower, GetStakedPower
    <3>3. q <= q
      BY SMTT(30)
    <3>4. QED
      BY <1>9, <1>13, <3>1, <3>2, <3>3, ZenonT(60)
  <2>3. QED
    BY <2>1, <2>2, Zenon
<1>14. LocksInv' /\ IndexInv' /\ CoverInv'
  BY <1>9, <1>10, <1>13, StillCovered, Zenon DEF IsActiveVault
<1>15. QED
  BY <1>10, <1>12, <1>14, Zenon DEF RestakeInv

\* A change of the allowed denominations exempts whoever loses power by it.
LEMMA UpdateParamsInv ==
  ASSUME RestakeInv, NEW D \in DenomChoices, UpdateRestakeParams(D)
  PROVE  RestakeInv'
<1>1. RestakeType
  BY Zenon DEF RestakeInv
<1>2. D \in SUBSET Denoms /\ allowedDenoms' = D
  BY RestakeAssumption, Zenon DEF UpdateRestakeParams
<1>3. UNCHANGED <<vaults, locks, lockIndex, stakes, bank, delegations>>
  BY Zenon DEF UpdateRestakeParams
<1>4. RestakeType'
  BY <1>1, <1>2, <1>3, Zenon DEF RestakeType, bank
<1>5. AccountInv'
  BY <1>3, Zenon DEF RestakeInv, AccountInv, bank
<1>6. ASSUME NEW t \in Stakers, t \notin exempt'
      PROVE  \E p \in Int : /\ p = GetTotalPower(t)'
                            /\ \/ t \notin exempt /\ GetTotalPower(t) <= p
                               \/ isValidPower(t, p)
  <2>1. IsFiniteSet(D)
    BY <1>2, FS_Subset, RestakeAssumption, ZenonT(60)
  <2>2. \A d \in D : stakes[t][d] \in Int
    BY <1>1, <1>2, SMTT(30) DEF RestakeType
  <2>3. PICK y \in Int : y = SumFunctionOnSet(stakes[t], D)
    BY <2>1, <2>2, SumInt, ZenonT(60)
  <2>4. PICK r, x \in Int : r = GetDelegationPower(t) /\ x = GetStakedPower(t)
    BY <1>1, PowersAreInt, ZenonT(60)
  <2>5. t \notin exempt /\ ~(y < x)
    BY <1>6, <2>3, <2>4, ZenonT(60) DEF UpdateRestakeParams
  <2>6. GetTotalPower(t) = r + x
    BY <2>4, Zenon DEF GetTotalPower
  <2>7. GetTotalPower(t)' = r + y
    BY <1>2, <1>3, <2>3, <2>4, ZenonT(60) DEF GetTotalPower, GetDelegationPower, GetStakedPower
  <2>8. r + x <= r + y /\ r + y \in Int
    BY <2>5
  <2>9. QED
    BY <2>5, <2>6, <2>7, <2>8, ZenonT(60)
<1>7. LocksInv' /\ IndexInv' /\ CoverInv'
  BY <1>3, <1>4, <1>6, StillCovered, ZenonT(60) DEF IsActiveVault
<1>8. QED
  BY <1>4, <1>5, <1>7, ZenonT(60) DEF RestakeInv

-----------------------------------------------------------------------------
(***************************************************************************)
(* Vaults and locks.                                                       *)
(***************************************************************************)
LEMMA DeactivateVaultInv ==
  ASSUME RestakeInv, NEW k \in Keys, DeactivateVault(k)
  PROVE  RestakeInv'
<1>1. RestakeType
  BY Zenon DEF RestakeInv
<1>2. vaults' = [vaults EXCEPT ![k] = "inactive"] /\ vaults[k] = "active"
  BY Zenon DEF DeactivateVault, IsActiveVault
<1>3. UNCHANGED <<locks, lockIndex, stakes, bank, delegations, allowedDenoms, exempt>>
  BY Zenon DEF DeactivateVault
<1>4. vaults' \in [Keys -> {"none", "active", "inactive"}]
  BY <1>1, <1>2, ZenonT(60) DEF RestakeType
<1>5. RestakeType'
  BY <1>1, <1>3, <1>4, ZenonT(60) DEF RestakeType, bank
<1>6. AccountInv'
  BY <1>3, Zenon DEF RestakeInv, AccountInv, bank
<1>7. \A j \in Keys : /\ vaults'[j] = "active" => IsActiveVault(j)
                      /\ vaults[j] # "none" => vaults'[j] # "none"
  BY <1>1, <1>2, ZenonT(60) DEF RestakeType, IsActiveVault
<1>8. ASSUME NEW t \in Stakers, t \notin exempt'
      PROVE  \E p \in Int : /\ p = GetTotalPower(t)'
                            /\ \/ t \notin exempt /\ GetTotalPower(t) <= p
                               \/ isValidPower(t, p)
  <2>1. PICK q \in Int : q = GetTotalPower(t)
    BY <1>1, PowersAreInt, ZenonT(60)
  <2>2. q = GetTotalPower(t)'
    BY <1>3, <2>1, ZenonT(60) DEF GetTotalPower, GetDelegationPower, GetStakedPower
  <2>3. q <= q
    OBVIOUS
  <2>4. QED
    BY <1>3, <1>8, <2>1, <2>2, <2>3, ZenonT(60)
<1>9. /\ \A j \in Keys : vaults'[j] = "active" => IsActiveVault(j)
      /\ \A j \in Keys : vaults[j] # "none" => vaults'[j] # "none"
      /\ locks' = locks /\ lockIndex' = lockIndex
  BY <1>3, <1>7, ZenonT(60)
<1>10. LocksInv' /\ IndexInv' /\ CoverInv'
  BY <1>5, <1>8, <1>9, StillCovered, ZenonT(60) DEF IsActiveVault
<1>11. QED
  BY <1>5, <1>6, <1>10, Zenon DEF RestakeInv

\* The new lock is at most the power; a lock that becomes active with its vault is the
\* new one, and the old entry of the index is replaced together with the old lock.
LEMMA SetLockedPowerInv ==
  ASSUME RestakeInv, NEW s \in Stakers, NEW key \in Keys, NEW power \in LockPowers,
         SetLockedPower(s, key, power)
  PROVE  RestakeInv'
<1>1. RestakeType /\ LocksInv /\ IndexInv /\ CoverInv /\ AccountInv /\ power \in Nat
  BY RestakeAssumption, Zenon DEF RestakeInv
<1>2. vaults' = [vaults EXCEPT ![key] = "active"] /\ vaults[key] # "inactive"
  BY Zenon DEF SetLockedPower
<1>3. UNCHANGED <<stakes, bank, delegations, allowedDenoms, exempt>>
  BY Zenon DEF SetLockedPower
<1>4. PICK f : f = locks[s]
  BY Zenon
<1>5. PICK g : g = [k \in DOMAIN f \cup {key} |-> IF k = key THEN power ELSE f[k]]
  BY Zenon
<1>6. PICK old : old = IF key \in DOMAIN f THEN {<<f[key], key>>} ELSE {}
  BY Zenon
<1>7. /\ locks' = [locks EXCEPT ![s] = g]
      /\ lockIndex' = [lockIndex EXCEPT ![s] = (lockIndex[s] \ old) \cup {<<power, key>>}]
  BY <1>4, <1>5, <1>6, ZenonT(60) DEF SetLockedPower, SetLock
<1>8. vaults \in [Keys -> {"none", "active", "inactive"}]
  BY <1>1, Zenon DEF RestakeType
<1>9. /\ vaults' \in [Keys -> {"none", "active", "inactive"}]
      /\ vaults'[key] = "active" /\ \A k \in Keys : k # key => vaults'[k] = vaults[k]
  BY <1>2, <1>8, ZenonT(60)
<1>10. DOMAIN locks = Stakers /\ DOMAIN lockIndex = Stakers
  BY <1>1, Zenon DEF RestakeType
<1>11. /\ DOMAIN locks' = Stakers /\ DOMAIN lockIndex' = Stakers
       /\ locks'[s] = g /\ lockIndex'[s] = (lockIndex[s] \ old) \cup {<<power, key>>}
       /\ \A t \in Stakers : t # s => locks'[t] = locks[t] /\ lockIndex'[t] = lockIndex[t]
  BY <1>7, <1>10, ZenonT(60)
<1>12. RestakeType'
  BY <1>1, <1>3, <1>9, <1>11, ZenonT(60) DEF RestakeType, bank
<1>13. AccountInv'
  BY <1>1, <1>3, ZenonT(60) DEF AccountInv, bank
<1>14. DOMAIN f \subseteq Keys /\ \A k \in DOMAIN f : f[k] \in Nat /\ vaults[k] # "none"
  BY <1>1, <1>4, ZenonT(60) DEF LocksInv
<1>15. /\ DOMAIN g = DOMAIN f \cup {key} /\ g[key] = power
       /\ \A k \in DOMAIN f : k # key => g[k] = f[k]
  BY <1>5, ZenonT(60)
<1>16. LocksInv'
  <2>1. ASSUME NEW t \in Stakers
        PROVE  /\ DOMAIN locks'[t] \subseteq Keys
               /\ \A k \in DOMAIN locks'[t] : locks'[t][k] \in Nat /\ vaults'[k] # "none"
    <3>1. CASE t = s
      BY <3>1, <1>1, <1>9, <1>11, <1>14, <1>15, ZenonT(60)
    <3>2. CASE t # s
      <4>1. /\ DOMAIN locks[t] \subseteq Keys
            /\ \A k \in DOMAIN locks[t] : locks[t][k] \in Nat /\ vaults[k] # "none"
        BY <1>1, Zenon DEF LocksInv
      <4>2. QED
        BY <3>2, <4>1, <1>9, <1>11, ZenonT(60)
    <3>3. QED
      BY <3>1, <3>2, ZenonT(60)
  <2>2. QED
    BY <2>1, ZenonT(60) DEF LocksInv
<1>17. IndexInv'
  <2>1. lockIndex[s] = {<<f[k], k>> : k \in DOMAIN f}
    BY <1>1, <1>4, ZenonT(60) DEF IndexInv
  <2>2. lockIndex[s] \ old = {<<f[k], k>> : k \in DOMAIN f \ {key}}
    BY <1>6, <2>1, SMTT(30)
  <2>3. lockIndex'[s] = {<<g[k], k>> : k \in DOMAIN g}
    BY <2>2, <1>11, <1>15, ZenonT(60)
  <2>4. \A t \in Stakers : lockIndex[t] = {<<locks[t][k], k>> : k \in DOMAIN locks[t]}
    BY <1>1, Zenon DEF IndexInv
  <2>5. ASSUME NEW t \in Stakers
        PROVE  lockIndex'[t] = {<<locks'[t][k], k>> : k \in DOMAIN locks'[t]}
    <3>1. CASE t = s
      BY <3>1, <2>3, <1>11, Zenon
    <3>2. CASE t # s
      <4>1. locks'[t] = locks[t] /\ lockIndex'[t] = lockIndex[t]
        BY <3>2, <1>11, Zenon
      <4>2. QED
        BY <4>1, <2>4, Zenon
    <3>3. QED
      BY <3>1, <3>2, Zenon
  <2>6. QED
    BY <2>5, Zenon DEF IndexInv
<1>18. ASSUME NEW t \in Stakers, t \notin exempt'
       PROVE  Covered(t, GetTotalPower(t))'
  <2>1. PICK q \in Int : q = GetTotalPower(t)
    BY <1>1, PowersAreInt, ZenonT(60)
  <2>2. q = GetTotalPower(t)'
    BY <1>3, <2>1, ZenonT(60) DEF GetTotalPower, GetDelegationPower, GetStakedPower
  <2>3. \A k \in DOMAIN locks[t] : IsActiveVault(k) => locks[t][k] <= q
    BY <1>1, <1>3, <1>18, <2>1, ZenonT(60) DEF CoverInv, Covered
  <2>4. /\ DOMAIN locks[t] \subseteq Keys
        /\ \A k \in DOMAIN locks[t] : vaults[k] # "none"
    BY <1>1, ZenonT(60) DEF LocksInv
  <2>5. \A k \in DOMAIN locks[t] : vaults'[k] = "active" => locks[t][k] <= q
    <3>1. ASSUME NEW k \in DOMAIN locks[t], vaults'[k] = "active"
          PROVE  vaults[k] = "active"
      <4>1. k \in Keys /\ vaults[k] # "none"
        BY <2>4, Zenon
      <4>2. CASE k = key
        BY <4>1, <4>2, <1>2, <1>8, ZenonT(60)
      <4>3. CASE k # key
        BY <4>1, <4>3, <3>1, <1>9, ZenonT(60)
      <4>4. QED
        BY <4>2, <4>3, Zenon
    <3>2. QED
      BY <3>1, <2>3, ZenonT(60) DEF IsActiveVault
  <2>6. t = s => power <= q
    BY <2>1, <1>1, ZenonT(60) DEF SetLockedPower
  <2>7. \A k \in DOMAIN locks'[t] : vaults'[k] = "active" => locks'[t][k] <= q
    <3>1. CASE t = s
      BY <3>1, <2>5, <2>6, <1>4, <1>11, <1>15, ZenonT(60)
    <3>2. CASE t # s
      BY <3>2, <2>5, <1>11, ZenonT(60)
    <3>3. QED
      BY <3>1, <3>2, ZenonT(60)
  <2>8. \A k \in DOMAIN locks'[t] : vaults'[k] = "active" => locks'[t][k] <= GetTotalPower(t)'
    BY <2>2, <2>7, Zenon
  <2>9. QED
    BY <2>8, Zenon DEF Covered, IsActiveVault
<1>19. CoverInv'
  BY <1>18, Zenon DEF CoverInv
<1>20. QED
  BY <1>12, <1>13, <1>16, <1>17, <1>19, ZenonT(60) DEF RestakeInv

-----------------------------------------------------------------------------
\* At first there are no locks, stakes or delegations.
LEMMA RestakeInitInv == ASSUME RestakeInit PROVE RestakeInv
<1>1. RestakeType
  <2>1. /\ vaults \in [Keys -> {"none", "active", "inactive"}]
        /\ stakes \in [Stakers -> [Denoms -> Nat]]
        /\ delegations \in [Stakers -> [StakingValidators -> Nat]]
        /\ moduleAccount \in [Denoms -> Int]
        /\ DOMAIN lockIndex = Stakers /\ DOMAIN locks = Stakers
    BY DEF RestakeInit
  <2>2. allowedDenoms \in SUBSET Denoms
    BY RestakeAssumption, ZenonT(60) DEF RestakeInit
  <2>3. QED
    BY <2>1, <2>2, ZenonT(60) DEF RestakeType
<1>2. \A s \in Stakers : DOMAIN locks[s] = {} /\ lockIndex[s] = {}
  BY DEF RestakeInit
<1>3. LocksInv /\ CoverInv
  BY <1>2, Zenon DEF LocksInv, CoverInv, Covered
<1>4. IndexInv
  BY <1>2, ZenonT(60) DEF IndexInv
<1>5. AccountInv
  <2>1. ASSUME NEW d \in Denoms
        PROVE  moduleAccount[d] = SumFunctionOnSet([s \in Stakers |-> stakes[s][d]], Stakers)
    <3>1. PICK f : f = [s \in Stakers |-> stakes[s][d]]
      BY Zenon
    <3>2. \A s \in Stakers : f[s] = 0
      BY <3>1, ZenonT(60) DEF RestakeInit
    <3>3. SumFunctionOnSet(f, Stakers) = 0
      BY <3>2, SumZero, RestakeAssumption, ZenonT(60)
    <3>4. moduleAccount[d] = 0
      BY ZenonT(60) DEF RestakeInit
    <3>5. QED
      BY <3>1, <3>3, <3>4, Zenon
  <2>2. QED
    BY <2>1, Zenon DEF AccountInv
<1>6. QED
  BY <1>1, <1>3, <1>4, <1>5, ZenonT(60) DEF RestakeInv

\* Every step keeps the locks covered and the module account exact.
LEMMA RestakeStepInv == ASSUME RestakeInv, [RestakeNext]_restakeVars PROVE RestakeInv'
<1>1. CASE \E s \in Stakers, k \in Keys, p \in LockPowers : SetLockedPower(s, k, p)
  BY <1>1, SetLockedPowerInv, Zenon
<1>2. CASE \E k \in Keys : DeactivateVault(k)
  BY <1>2, DeactivateVaultInv, Zenon
<1>3. CASE \E s \in Stakers, c \in Coins : Stake(s, c) \/ Unstake(s, c)
  BY <1>3, StakeInv, UnstakeInv, Zenon
<1>4. CASE \E s \in Stakers, v \in StakingValidators, a \in Amounts : Delegate(s, v, a) \/ Undelegate(s, v, a)
  BY <1>4, DelegateInv, Zenon
<1>5. CASE \E s \in Stakers, v, w \in StakingValidators, a \in Amounts : Redelegate(s, v, w, a)
  BY <1>5, RedelegateInv, ZenonT(60)
<1>6. CASE \E v \in StakingValidators : Slash(v)
  BY <1>6, SlashInv, Zenon
<1>7. CASE \E D \in DenomChoices : UpdateRestakeParams(D)
  BY <1>7, UpdateParamsInv, Zenon
<1>8. CASE UNCHANGED restakeVars
  <2>1. UNCHANGED <<vaults, locks, lockIndex, stakes, moduleAccount, delegations, allowedDenoms, exempt>>
    BY <1>8, Zenon DEF restakeVars
  <2>2. QED
    BY <2>1, Zenon DEF RestakeInv, RestakeType, LocksInv, IndexInv, CoverInv, AccountInv, Covered,
          GetTotalPower, GetDelegationPower, GetStakedPower, IsActiveVault
<1>9. QED
  BY <1>1, <1>2, <1>3, <1>4, <1>5, <1>6, <1>7, <1>8, ZenonT(60) DEF RestakeNext

\* The checks of SetLockedPower, of Unstake and of the staking hooks keep every lock of an
\* active vault within the power of its staker, and the module account keeps exactly the
\* coins staked, for any number of stakers, validators, vaults and denominations.
THEOREM LocksAreCovered == RestakeSpec => []PowerCoversLocks
<1>1. RestakeInit => RestakeInv
  BY RestakeInitInv, ZenonT(60)
<1>2. RestakeInv /\ [RestakeNext]_restakeVars => RestakeInv'
  BY RestakeStepInv, ZenonT(60)
<1>3. RestakeInv => PowerCoversLocks
  BY Zenon DEF RestakeInv, IndexInv, CoverInv, AccountInv, Covered, PowerCoversLocks
<1>4. QED
  BY <1>1, <1>2, <1>3, PTL DEF RestakeSpec

-----------------------------------------------------------------------------
(***************************************************************************)
(* The votes and the reports of x/feeds.                                    *)
(***************************************************************************)
L == IntLimit
Votes == [Voters -> [Signals -> 0..(L - 1)]]

\* A sum that fits is not changed by Wrap, one that does not fit becomes negative.
LEMMA WrapFacts ==
  ASSUME FeedsParameters, NEW x \in Int
  PROVE  /\ -L <= x /\ x < L => Wrap(x) = x
         /\ L <= x /\ x < 2 * L => Wrap(x) < 0
<1>1. L \in Nat \ {0}
  BY Zenon DEF FeedsParameters, L
<1>2. Wrap(x) = ((x + L) % (2 * L)) - L
  BY Zenon DEF Wrap, L
<1>3. PICK n \in Nat \ {0} : n = L
  BY <1>1, Zenon
<1>4. -n <= x /\ x < n => ((x + n) % (2 * n)) - n = x
  OBVIOUS
<1>5. n <= x /\ x < 2 * n => ((x + n) % (2 * n)) - n < 0
  OBVIOUS
<1>6. QED
  BY <1>2, <1>3, <1>4, <1>5, ZenonT(60)

\* Voters are finitely many, and the width of int64 is positive.
LEMMA FiniteVoters == ASSUME FeedsParameters PROVE IsFiniteSet(Voters) /\ L \in Nat \ {0}
  BY Zenon DEF FeedsParameters, L

\* A vote that is stored is a natural number.
LEMMA VoteIsNat ==
  ASSUME FeedsParameters, NEW vs \in Votes, NEW w \in Voters, NEW s \in Signals
  PROVE  vs[w][s] \in Nat
<1>1. PICK n : n = L
  BY Zenon
<1>2. vs \in [Voters -> [Signals -> 0..(n - 1)]]
  BY <1>1, Zenon DEF Votes
<1>3. vs[w][s] \in 0..(n - 1)
  BY <1>2, ZenonT(60)
<1>4. n \in Nat
  BY <1>1, Zenon DEF FeedsParameters, L
<1>5. QED
  BY <1>3, <1>4, SMTT(30)

\* The votes for a signal add up to a natural number that no single vote exceeds.
LEMMA VotesForNat ==
  ASSUME FeedsParameters, NEW vs \in Votes, NEW s \in Signals
  PROVE  /\ VotesFor(vs, s) \in Nat
         /\ \A w \in Voters : vs[w][s] <= VotesFor(vs, s)
<1>1. PICK f : f = [w \in Voters |-> vs[w][s]]
  BY Zenon
<1>2. IsFiniteSet(Voters) /\ L \in Nat \ {0}
  BY FiniteVoters, ZenonT(60)
<1>3. \A w \in Voters : f[w] \in Nat /\ f[w] = vs[w][s]
  <2>1. \A x \in Voters : vs[x][s] \in Nat
    BY VoteIsNat, Zenon
  <2>2. QED
    BY <1>1, <2>1, ZenonT(60)
<1>4. VotesFor(vs, s) = SumFunctionOnSet(f, Voters)
  BY <1>1, Zenon DEF VotesFor
<1>5. SumFunctionOnSet(f, Voters) \in Nat
  BY <1>2, <1>3, SumNat, ZenonT(60)
<1>6. ASSUME NEW w \in Voters PROVE f[w] <= SumFunctionOnSet(f, Voters)
  <2>1. IsFiniteSet(Voters \ {w}) /\ \A x \in Voters \ {w} : f[x] \in Nat
    BY <1>2, <1>3, FS_Subset, ZenonT(60)
  <2>2. SumFunctionOnSet(f, Voters \ {w}) \in Nat
    BY <2>1, SumNat, ZenonT(60)
  <2>3. \A x \in Voters : f[x] \in Int
    BY <1>3, SMTT(30)
  <2>4. SumFunctionOnSet(f, Voters) = f[w] + SumFunctionOnSet(f, Voters \ {w})
    BY <1>2, <2>3, SumRemove, SMTT(30)
  <2>5. f[w] \in Nat
    BY <1>3, Zenon
  <2>6. QED
    BY <2>2, <2>4, <2>5, SMTT(30)
<1>7. QED
  BY <1>3, <1>4, <1>5, <1>6, ZenonT(60)

\* A new vote of one voter changes the sums by the differences.
LEMMA VotesForChange ==
  ASSUME FeedsParameters, NEW vs \in Votes, NEW us \in Votes, NEW w \in Voters, NEW s \in Signals,
         \A x \in Voters : x # w => us[x] = vs[x]
  PROVE  VotesFor(us, s) = VotesFor(vs, s) + (us[w][s] - vs[w][s])
<1>1. PICK f, g : f = [x \in Voters |-> vs[x][s]] /\ g = [x \in Voters |-> us[x][s]]
  BY Zenon
<1>2. IsFiniteSet(Voters) /\ L \in Nat \ {0}
  BY FiniteVoters, ZenonT(60)
<1>3. \A x \in Voters : f[x] \in Int /\ g[x] \in Int
  <2>1. \A x \in Voters : vs[x][s] \in Nat /\ us[x][s] \in Nat
    BY VoteIsNat, Zenon
  <2>2. QED
    BY <1>1, <2>1, SMTT(30)
<1>4. \A x \in Voters : x # w => g[x] = f[x]
  BY <1>1, ZenonT(60)
<1>5. SumFunctionOnSet(g, Voters) = SumFunctionOnSet(f, Voters) + (g[w] - f[w])
  BY <1>2, <1>3, <1>4, SumUpdate, ZenonT(60)
<1>6. g[w] = us[w][s] /\ f[w] = vs[w][s]
  BY <1>1, ZenonT(60)
<1>7. /\ VotesFor(us, s) = SumFunctionOnSet(g, Voters)
      /\ VotesFor(vs, s) = SumFunctionOnSet(f, Voters)
  BY <1>1, Zenon DEF VotesFor
<1>8. QED
  BY <1>5, <1>6, <1>7, ZenonT(60)

VoteInv ==
  /\ FeedsParameters
  /\ votes \in Votes
  /\ DOMAIN totalPower \subseteq Signals
  /\ \A s \in DOMAIN totalPower : totalPower[s] \in 1..(L - 1)
  /\ \A s \in Signals : GetSignalTotalPower(totalPower, s) = VotesFor(votes, s)
  /\ powerIndex = {<<totalPower[s], s>> : s \in DOMAIN totalPower}

\* What a vote makes of the power of a signal.
NewPower(old, new, s) ==
  Wrap(GetSignalTotalPower(totalPower, s) + Wrap(new[s] - old[s]))

\* Either the new sum of the votes or, should that not fit, a negative number.
LEMMA NewPowerIs ==
  ASSUME VoteInv, NEW w \in Voters, NEW vote \in [Signals -> 0..(L - 1)], NEW s \in Signals,
         NEW p, p = NewPower(votes[w], vote, s), 0 <= p
  PROVE  /\ p \in 0..(L - 1)
         /\ p = VotesFor([votes EXCEPT ![w] = vote], s)
<1>1. FeedsParameters /\ votes \in Votes /\ L \in Nat \ {0}
  BY Zenon DEF VoteInv, FeedsParameters, L
<1>2. PICK us : us = [votes EXCEPT ![w] = vote]
  BY Zenon
<1>3. us \in Votes /\ us[w] = vote /\ \A x \in Voters : x # w => us[x] = votes[x]
  BY <1>1, <1>2, ZenonT(60) DEF Votes
<1>4. VotesFor(us, s) = VotesFor(votes, s) + (us[w][s] - votes[w][s])
  BY <1>1, <1>3, VotesForChange, ZenonT(60)
<1>5. PICK T : T = VotesFor(votes, s)
  BY Zenon
<1>6. T \in Nat /\ votes[w][s] <= T
  BY <1>1, <1>5, VotesForNat, ZenonT(60)
<1>7. T = GetSignalTotalPower(totalPower, s)
  BY <1>5, Zenon DEF VoteInv
<1>8. PICK n : n = L
  BY Zenon
<1>9. n \in Nat \ {0} /\ T < n
  <2>1. n \in Nat \ {0}
    BY <1>1, <1>8, ZenonT(60)
  <2>2. CASE s \in DOMAIN totalPower
    <3>1. totalPower[s] \in 1..(n - 1) /\ T = totalPower[s]
      BY <1>7, <1>8, <2>2, ZenonT(60) DEF VoteInv, GetSignalTotalPower
    <3>2. QED
      BY <2>1, <3>1, SMTT(30)
  <2>3. CASE s \notin DOMAIN totalPower
    BY <1>7, <2>1, <2>3, SMTT(30) DEF GetSignalTotalPower
  <2>4. QED
    BY <2>1, <2>2, <2>3, ZenonT(60)
<1>10. PICK a : a = votes[w][s]
  BY Zenon
<1>11. PICK b : b = vote[s]
  BY Zenon
<1>12. a \in 0..(n - 1) /\ b \in 0..(n - 1)
  BY <1>1, <1>8, <1>10, <1>11, ZenonT(60) DEF Votes
<1>13. Wrap(b - a) = b - a
  <2>1. b - a \in Int /\ -n <= b - a /\ b - a < n
    BY <1>9, <1>12, SMTT(30)
  <2>2. QED
    BY <1>1, <1>8, <2>1, WrapFacts, ZenonT(60)
<1>14. T + (b - a) \in Int /\ 0 <= T + (b - a) /\ T + (b - a) < 2 * n /\ -n <= T + (b - a)
  BY <1>6, <1>9, <1>10, <1>12, SMTT(30)
<1>15. p = Wrap(T + (b - a))
  BY <1>7, <1>10, <1>11, <1>13, ZenonT(60) DEF NewPower
<1>16. /\ T + (b - a) < n => Wrap(T + (b - a)) = T + (b - a)
       /\ n <= T + (b - a) => Wrap(T + (b - a)) < 0
  BY <1>1, <1>8, <1>14, WrapFacts, ZenonT(60)
<1>17. T + (b - a) < n
  <2>1. SUFFICES ASSUME n <= T + (b - a) PROVE FALSE
    BY <1>9, <1>14, SMTT(30)
  <2>2. p < 0
    BY <2>1, <1>15, <1>16, ZenonT(60)
  <2>3. p \in Int
    <3>1. p = ((T + (b - a) + n) % (2 * n)) - n
      BY <1>8, <1>15, ZenonT(60) DEF Wrap, L
    <3>2. QED
      BY <3>1, <1>9, <1>14, SMTT(30)
  <2>4. QED
    BY <2>2, <2>3, SMTT(30)
<1>18. p = T + (b - a)
  BY <1>15, <1>16, <1>17, ZenonT(60)
<1>19. p \in 0..(n - 1)
  BY <1>9, <1>14, <1>17, <1>18, SMTT(30)
<1>20. p = VotesFor(us, s)
  BY <1>3, <1>4, <1>5, <1>10, <1>11, <1>18, ZenonT(60)
<1>21. QED
  BY <1>2, <1>8, <1>19, <1>20, ZenonT(60)

\* MsgVote takes the old vote out of the totals and puts the new one in.
LEMMA VotePower ==
  ASSUME VoteInv, NEW w \in Voters, NEW vote \in [Signals -> VotePowers \cup {0}], Vote(w, vote)
  PROVE  VoteInv'
<1>1. FeedsParameters /\ votes \in Votes /\ DOMAIN totalPower \subseteq Signals
  BY Zenon DEF VoteInv
<1>2. PICK n : n = L
  BY Zenon
<1>3. n \in Nat \ {0} /\ VotePowers \subseteq 1..(n - 1)
  BY <1>1, <1>2, ZenonT(60) DEF FeedsParameters, L
<1>4. vote \in [Signals -> 0..(n - 1)]
  <2>1. VotePowers \cup {0} \subseteq 0..(n - 1)
    BY <1>3, SMTT(30)
  <2>2. QED
    BY <2>1, ZenonT(60)
<1>5. votes' = [votes EXCEPT ![w] = vote]
  BY Zenon DEF Vote
<1>6. votes' \in Votes
  BY <1>1, <1>2, <1>4, <1>5, ZenonT(60) DEF Votes
<1>7. PICK touched : touched = {s \in Signals : votes[w][s] # 0 \/ vote[s] # 0}
  BY Zenon
<1>8. PICK power : power = [s \in touched |-> NewPower(votes[w], vote, s)]
  BY Zenon
<1>9. PICK kept : kept = {s \in touched : power[s] # 0}
  BY Zenon
<1>10. PICK old : old = {<<totalPower[s], s>> : s \in touched \cap DOMAIN totalPower}
  BY Zenon
<1>11. PICK stored : stored = [s \in (DOMAIN totalPower \ touched) \cup kept |->
                                IF s \in touched THEN power[s] ELSE totalPower[s]]
  BY Zenon
<1>12. /\ \A s \in DOMAIN stored : stored[s] >= 0
       /\ totalPower' = stored
       /\ powerIndex' = (powerIndex \ old) \cup {<<power[s], s>> : s \in kept}
  <2>1. SignalsOf(votes[w]) \cup SignalsOf(vote) = touched
    BY <1>7, Zenon DEF SignalsOf
  <2>2. AddPowerDiffs(votes[w], vote) = StoredPower(touched, power)
    BY <1>8, <2>1, ZenonT(60) DEF AddPowerDiffs, NewPower
  <2>3. StoredPower(touched, power)
          = [stored |-> stored, index |-> (powerIndex \ old) \cup {<<power[s], s>> : s \in kept}]
    BY <1>9, <1>10, <1>11, ZenonT(60) DEF StoredPower
  <2>4. PICK res : res = AddPowerDiffs(votes[w], vote)
    BY Zenon
  <2>5. /\ \A s \in DOMAIN res.stored : res.stored[s] >= 0
        /\ totalPower' = res.stored /\ powerIndex' = res.index
    BY <2>4, ZenonT(60) DEF Vote
  <2>6. res.stored = stored /\ res.index = (powerIndex \ old) \cup {<<power[s], s>> : s \in kept}
    BY <2>2, <2>3, <2>4, SMTT(30)
  <2>7. QED
    BY <2>5, <2>6, ZenonT(60)
<1>13. ASSUME NEW s \in touched
       PROVE  power[s] \in 0..(n - 1) /\ power[s] = VotesFor(votes', s)
  <2>1. s \in Signals /\ power[s] = NewPower(votes[w], vote, s)
    BY <1>7, <1>8, ZenonT(60)
  <2>2. 0 <= power[s]
    <3>1. CASE power[s] = 0
      BY <3>1, SMTT(30)
    <3>2. CASE power[s] # 0
      <4>1. s \in DOMAIN stored /\ stored[s] = power[s]
        BY <3>2, <1>9, <1>11, ZenonT(60)
      <4>2. stored[s] >= 0
        BY <4>1, <1>12, ZenonT(60)
      <4>3. QED
        BY <4>1, <4>2, ZenonT(60)
    <3>3. QED
      BY <3>1, <3>2, ZenonT(60)
  <2>3. vote \in [Signals -> 0..(L - 1)]
    BY <1>2, <1>4, ZenonT(60)
  <2>4. PICK p : p = power[s]
    BY Zenon
  <2>5. p \in 0..(L - 1) /\ p = VotesFor([votes EXCEPT ![w] = vote], s)
    BY <2>1, <2>2, <2>3, <2>4, NewPowerIs, ZenonT(60)
  <2>6. QED
    BY <2>4, <2>5, <1>2, <1>5, ZenonT(60)
<1>14. ASSUME NEW s \in Signals, s \notin touched
       PROVE  VotesFor(votes', s) = VotesFor(votes, s)
  <2>1. votes[w][s] = 0 /\ vote[s] = 0
    BY <1>7, <1>14, ZenonT(60)
  <2>2. votes'[w] = vote /\ \A x \in Voters : x # w => votes'[x] = votes[x]
    BY <1>1, <1>5, ZenonT(60) DEF Votes
  <2>3. PICK us \in Votes : us = votes'
    BY <1>6, ZenonT(60)
  <2>4. VotesFor(us, s) = VotesFor(votes, s) + (us[w][s] - votes[w][s])
    BY <1>1, <2>2, <2>3, VotesForChange, ZenonT(60)
  <2>5. us[w][s] - votes[w][s] = 0
    BY <2>1, <2>2, <2>3, SMTT(30)
  <2>6. VotesFor(votes, s) \in Nat
    BY <1>1, VotesForNat, ZenonT(60)
  <2>7. QED
    BY <2>3, <2>4, <2>5, <2>6, SMTT(30)
<1>15. DOMAIN stored = (DOMAIN totalPower \ touched) \cup kept /\ kept \subseteq touched /\ touched \subseteq Signals
  BY <1>7, <1>9, <1>11, ZenonT(60)
<1>16. /\ \A s \in kept : stored[s] = power[s]
       /\ \A s \in DOMAIN totalPower \ touched : stored[s] = totalPower[s]
  BY <1>9, <1>11, ZenonT(60)
<1>17. DOMAIN stored \subseteq Signals
  BY <1>1, <1>15, ZenonT(60)
<1>18. ASSUME NEW s \in DOMAIN stored PROVE stored[s] \in 1..(n - 1)
  <2>1. CASE s \in kept
    <3>1. power[s] # 0 /\ power[s] \in 0..(n - 1) /\ stored[s] = power[s]
      BY <2>1, <1>9, <1>13, <1>15, <1>16, ZenonT(60)
    <3>2. QED
      BY <3>1, <1>3, SMTT(30)
  <2>2. CASE s \in DOMAIN totalPower \ touched
    BY <2>2, <1>2, <1>16, ZenonT(60) DEF VoteInv
  <2>3. QED
    BY <2>1, <2>2, <1>15, ZenonT(60)
<1>19. ASSUME NEW s \in Signals
       PROVE  GetSignalTotalPower(stored, s) = VotesFor(votes', s)
  <2>1. CASE s \in touched
    <3>1. CASE s \in kept
      BY <2>1, <3>1, <1>13, <1>15, <1>16, ZenonT(60) DEF GetSignalTotalPower
    <3>2. CASE s \notin kept
      <4>1. power[s] = 0 /\ s \notin DOMAIN stored
        BY <2>1, <3>2, <1>9, <1>15, ZenonT(60)
      <4>2. QED
        BY <2>1, <4>1, <1>13, ZenonT(60) DEF GetSignalTotalPower
    <3>3. QED
      BY <3>1, <3>2, ZenonT(60)
  <2>2. CASE s \notin touched
    <3>1. GetSignalTotalPower(totalPower, s) = VotesFor(votes', s)
      BY <2>2, <1>14, ZenonT(60) DEF VoteInv
    <3>2. GetSignalTotalPower(stored, s) = GetSignalTotalPower(totalPower, s)
      BY <2>2, <1>15, <1>16, ZenonT(60) DEF GetSignalTotalPower
    <3>3. QED
      BY <3>1, <3>2, ZenonT(60)
  <2>3. QED
    BY <2>1, <2>2, ZenonT(60)
<1>20. powerIndex' = {<<stored[s], s>> : s \in DOMAIN stored}
  <2>1. powerIndex = {<<totalPower[s], s>> : s \in DOMAIN totalPower}
    BY ZenonT(60) DEF VoteInv
  <2>2. powerIndex \ old = {<<totalPower[s], s>> : s \in DOMAIN totalPower \ touched}
    BY <1>10, <2>1, SMTT(30)
  <2>3. {<<totalPower[s], s>> : s \in DOMAIN totalPower \ touched}
          = {<<stored[s], s>> : s \in DOMAIN totalPower \ touched}
    BY <1>16, ZenonT(60)
  <2>4. {<<power[s], s>> : s \in kept} = {<<stored[s], s>> : s \in kept}
    BY <1>16, ZenonT(60)
  <2>5. powerIndex' = {<<stored[s], s>> : s \in DOMAIN totalPower \ touched}
                        \cup {<<stored[s], s>> : s \in kept}
    BY <1>12, <2>2, <2>3, <2>4, ZenonT(60)
  <2>6. QED
    BY <1>15, <2>5, ZenonT(60)
<1>21. QED
  BY <1>1, <1>2, <1>6, <1>12, <1>17, <1>18, <1>19, <1>20, ZenonT(60) DEF VoteInv

\* At first the total powers are those of the votes in the genesis state.
LEMMA VoteInit == ASSUME FeedsParameters, Init PROVE VoteInv
<1>1. PICK n : n = L
  BY Zenon
<1>2. votes \in GenesisVotes
  BY Zenon DEF Init
<1>3. votes \in [Voters -> [Signals -> 0..(n - 1)]] /\ \A s \in Signals : VotesFor(votes, s) < n
  BY <1>1, <1>2, ZenonT(60) DEF FeedsParameters, L
<1>4. votes \in Votes
  BY <1>1, <1>3, Zenon DEF Votes
<1>5. PICK D : D = {x \in Signals : \E w \in Voters : votes[w][x] # 0}
  BY Zenon
<1>6. /\ totalPower = [s \in D |-> VotesFor(votes, s)]
      /\ powerIndex = {<<totalPower[s], s>> : s \in DOMAIN totalPower}
  BY <1>5, Zenon DEF Init
<1>7. DOMAIN totalPower = D /\ D \subseteq Signals /\ \A s \in D : totalPower[s] = VotesFor(votes, s)
  BY <1>5, <1>6, ZenonT(60)
<1>8. ASSUME NEW s \in D PROVE totalPower[s] \in 1..(n - 1)
  <2>1. PICK w \in Voters : votes[w][s] # 0
    BY <1>5, Zenon
  <2>2. s \in Signals
    BY <1>7, Zenon
  <2>3. VotesFor(votes, s) \in Nat /\ votes[w][s] <= VotesFor(votes, s)
    BY <1>4, <2>2, VotesForNat, ZenonT(60)
  <2>4. votes[w][s] \in Nat
    BY <1>4, <2>2, VoteIsNat, ZenonT(60)
  <2>5. VotesFor(votes, s) < n /\ n \in Nat
    BY <1>1, <1>3, <2>2, FiniteVoters, ZenonT(60)
  <2>6. QED
    BY <1>7, <2>1, <2>3, <2>4, <2>5, SMTT(30)
<1>9. ASSUME NEW s \in Signals
      PROVE  GetSignalTotalPower(totalPower, s) = VotesFor(votes, s)
  <2>1. CASE s \in D
    BY <2>1, <1>7, ZenonT(60) DEF GetSignalTotalPower
  <2>2. CASE s \notin D
    <3>1. PICK f : f = [w \in Voters |-> votes[w][s]]
      BY Zenon
    <3>2. \A w \in Voters : f[w] = 0
      BY <1>5, <2>2, <3>1, ZenonT(60)
    <3>3. SumFunctionOnSet(f, Voters) = 0
      BY <3>2, FiniteVoters, SumZero, ZenonT(60)
    <3>4. VotesFor(votes, s) = 0
      BY <3>1, <3>3, ZenonT(60) DEF VotesFor
    <3>5. QED
      BY <2>2, <3>4, <1>7, ZenonT(60) DEF GetSignalTotalPower
  <2>3. QED
    BY <2>1, <2>2, ZenonT(60)
<1>10. QED
  BY <1>1, <1>4, <1>6, <1>7, <1>8, <1>9, ZenonT(60) DEF VoteInv

\* Every step keeps the total power of each signal the sum of its votes.
LEMMA VoteNext == ASSUME VoteInv, [Next]_vars PROVE VoteInv'
<1>1. CASE \E w \in Voters, vote \in [Signals -> VotePowers \cup {0}] : Vote(w, vote)
  BY <1>1, VotePower, ZenonT(60)
<1>2. CASE ~\E w \in Voters, vote \in [Signals -> VotePowers \cup {0}] : Vote(w, vote)
  <2>1. votes' = votes /\ totalPower' = totalPower /\ powerIndex' = powerIndex
    BY <1>2, ZenonT(60) DEF Next, ChangePower, SubmitSignalPrices, Activate, ChangeBonded,
          UpdateParams, EndBlock, NextBlock, vars, voting
  <2>2. QED
    BY <2>1, Zenon DEF VoteInv
<1>3. QED
  BY <1>1, <1>2, ZenonT(60)

\* The total powers by which x/feeds picks the current feeds, kept up to date by the
\* differences of a vote to the one before in integers that wrap around, are the sums of
\* the votes in force, and the index by power agrees with them.  A vote whose sum does not
\* fit makes the total negative, which Vote refuses.
THEOREM VotesAddUp == Spec => []TotalPowerExact
<1>1. Init => VoteInv
  BY VoteInit, FeedsAssumption, ZenonT(60)
<1>2. VoteInv /\ [Next]_vars => VoteInv'
  BY VoteNext
<1>3. VoteInv => TotalPowerExact
  <2>1. SUFFICES ASSUME VoteInv PROVE TotalPowerExact
    BY ZenonT(60)
  <2>2. PICK n : n = L
    BY Zenon
  <2>3. ASSUME NEW s \in DOMAIN totalPower PROVE totalPower[s] > 0
    <3>1. totalPower[s] \in 1..(n - 1) /\ n \in Nat
      BY <2>1, <2>2, FiniteVoters, ZenonT(60) DEF VoteInv
    <3>2. QED
      BY <3>1
  <2>4. QED
    BY <2>1, <2>3, Zenon DEF VoteInv, TotalPowerExact
<1>4. QED
  BY <1>1, <1>2, <1>3, PTL DEF Spec

-----------------------------------------------------------------------------
\* The time of a report that counts is the timestamp of the stored price: a price is not
\* lost while its signal is a current feed.
ReportInv ==
  /\ DOMAIN reported = Validators /\ DOMAIN valPrices = Validators
  /\ \A v \in Validators : \A s \in DOMAIN reported[v] :
       /\ s \in current /\ s \in DOMAIN valPrices[v]
       /\ valPrices[v][s].timestamp = reported[v][s]

\* SubmitSignalPrices dates each price of the validator by the block it is in.
LEMMA ReportSubmit ==
  ASSUME ReportInv, NEW v \in Validators, NEW S \in SUBSET Signals,
         NEW submission \in [S -> Submissions], NEW d \in Discrepancies,
         SubmitSignalPrices(v, submission, d)
  PROVE  ReportInv'
<1>1. PICK vp : vp = [s \in CarriedOver(v) \cup DOMAIN submission |->
         IF s \in DOMAIN submission
         THEN [status |-> submission[s].status, price |-> submission[s].price,
               timestamp |-> time, block |-> height]
         ELSE valPrices[v][s]]
  BY Zenon
<1>2. PICK rp : rp = [s \in DOMAIN reported[v] \cup DOMAIN submission |->
         IF s \in DOMAIN submission THEN time ELSE reported[v][s]]
  BY Zenon
<1>3. /\ valPrices' = [valPrices EXCEPT ![v] = vp] /\ reported' = [reported EXCEPT ![v] = rp]
      /\ currentFeeds' = currentFeeds /\ DOMAIN submission \subseteq current
  BY <1>1, <1>2, ZenonT(60) DEF SubmitSignalPrices
<1>4. DOMAIN reported = Validators /\ DOMAIN valPrices = Validators
  BY Zenon DEF ReportInv
<1>5. /\ DOMAIN reported' = Validators /\ DOMAIN valPrices' = Validators
      /\ valPrices'[v] = vp /\ reported'[v] = rp
      /\ \A w \in Validators : w # v => valPrices'[w] = valPrices[w] /\ reported'[w] = reported[w]
  BY <1>3, <1>4, ZenonT(60)
<1>6. current' = current
  BY <1>3, Zenon DEF current, FeedIDs
<1>7. ASSUME NEW s \in DOMAIN rp
      PROVE  s \in current /\ s \in DOMAIN vp /\ vp[s].timestamp = rp[s]
  <2>1. CASE s \in DOMAIN submission
    <3>1. s \in current
      BY <2>1, <1>3, ZenonT(60)
    <3>2. s \in DOMAIN vp /\ vp[s].timestamp = time /\ rp[s] = time
      BY <2>1, <1>1, <1>2, ZenonT(60)
    <3>3. QED
      BY <3>1, <3>2, ZenonT(60)
  <2>2. CASE s \notin DOMAIN submission
    <3>1. s \in DOMAIN reported[v] /\ rp[s] = reported[v][s]
      BY <2>2, <1>2, ZenonT(60)
    <3>2. s \in current /\ s \in DOMAIN valPrices[v] /\ valPrices[v][s].timestamp = reported[v][s]
      BY <3>1, Zenon DEF ReportInv
    <3>3. s \in CarriedOver(v)
      BY <3>2, ZenonT(60) DEF CarriedOver
    <3>4. s \in DOMAIN vp /\ vp[s] = valPrices[v][s]
      BY <2>2, <3>3, <1>1, ZenonT(60)
    <3>5. QED
      BY <3>1, <3>2, <3>4, ZenonT(60)
  <2>3. QED
    BY <2>1, <2>2, ZenonT(60)
<1>8. ASSUME NEW w \in Validators, NEW s \in DOMAIN reported'[w]
      PROVE  /\ s \in current' /\ s \in DOMAIN valPrices'[w]
             /\ valPrices'[w][s].timestamp = reported'[w][s]
  <2>1. CASE w = v
    BY <2>1, <1>5, <1>6, <1>7, <1>8, ZenonT(60)
  <2>2. CASE w # v
    <3>1. valPrices'[w] = valPrices[w] /\ reported'[w] = reported[w]
      BY <2>2, <1>5, ZenonT(60)
    <3>2. QED
      BY <3>1, <1>6, <1>8, ZenonT(60) DEF ReportInv
  <2>3. QED
    BY <2>1, <2>2, ZenonT(60)
<1>9. QED
  BY <1>5, <1>8, ZenonT(60) DEF ReportInv

\* An EndBlocker that fails changes nothing here.
LEMMA EndBlockFacts ==
  ASSUME EndBlock
  PROVE  /\ valPrices' = valPrices
         /\ \/ /\ currentFeeds' = currentFeeds /\ reported' = reported /\ status' = status
            \/ /\ reported' = [v \in Validators |->
                   [s \in DOMAIN reported[v] \cap current' |-> reported[v][s]]]
               /\ \E missed \in SUBSET Validators :
                    /\ status' = [v \in Validators |->
                         IF v \in missed THEN MissReport(v) ELSE status[v]]
                    /\ \A v \in missed : \E i \in DOMAIN currentFeeds'.feeds :
                         CheckMissReport(currentFeeds', currentFeeds'.feeds[i], v)
<1>1. PICK cf : cf = NewFeeds
  BY Zenon
<1>2. PICK price : price = [i \in DOMAIN cf.feeds |-> CalculatePrice(cf.feeds[i])]
  BY Zenon
<1>3. CASE \E i \in DOMAIN price : price[i].status = "error"
  BY <1>1, <1>2, <1>3, ZenonT(60) DEF EndBlock, pricing
<1>4. CASE ~\E i \in DOMAIN price : price[i].status = "error"
  <2>1. PICK missed : missed = {v \in Validators : v \in Range(ValidatorsByPower)
           /\ \E i \in DOMAIN cf.feeds : CheckMissReport(cf, cf.feeds[i], v)}
    BY Zenon
  <2>2. /\ currentFeeds' = cf /\ valPrices' = valPrices
        /\ reported' = [v \in Validators |->
              [s \in DOMAIN reported[v] \cap FeedIDs(cf.feeds) |-> reported[v][s]]]
        /\ status' = [v \in Validators |->
              IF /\ v \in Range(ValidatorsByPower)
                 /\ \E i \in DOMAIN cf.feeds : CheckMissReport(cf, cf.feeds[i], v)
              THEN MissReport(v) ELSE status[v]]
    BY <1>1, <1>2, <1>4, ZenonT(60) DEF EndBlock
  <2>3. current' = FeedIDs(cf.feeds)
    BY <2>2, ZenonT(60) DEF current, FeedIDs
  <2>4. status' = [v \in Validators |-> IF v \in missed THEN MissReport(v) ELSE status[v]]
    BY <2>1, <2>2, ZenonT(60)
  <2>5. /\ missed \in SUBSET Validators
        /\ \A v \in missed : \E i \in DOMAIN cf.feeds : CheckMissReport(cf, cf.feeds[i], v)
    BY <2>1, Zenon
  <2>6. QED
    BY <2>2, <2>3, <2>4, <2>5, ZenonT(60)
<1>5. QED
  BY <1>3, <1>4, ZenonT(60)

\* Every step keeps the reports that count with the stored prices.
LEMMA ReportNext == ASSUME ReportInv, [Next]_vars PROVE ReportInv'
<1>1. CASE \E v \in Validators, S \in SUBSET Signals : \E submission \in [S -> Submissions] :
             \E d \in Discrepancies : SubmitSignalPrices(v, submission, d)
  BY <1>1, ReportSubmit, ZenonT(60)
<1>2. CASE EndBlock
  <2>1. CASE currentFeeds' = currentFeeds /\ reported' = reported
    <3>1. current' = current
      BY <2>1, Zenon DEF current, FeedIDs
    <3>2. valPrices' = valPrices
      BY <1>2, EndBlockFacts, ZenonT(60)
    <3>3. QED
      BY <2>1, <3>1, <3>2, ZenonT(60) DEF ReportInv
  <2>2. CASE reported' = [v \in Validators |->
               [s \in DOMAIN reported[v] \cap current' |-> reported[v][s]]]
    <3>1. valPrices' = valPrices
      BY <1>2, EndBlockFacts, Zenon
    <3>2. DOMAIN reported' = Validators /\ DOMAIN valPrices' = Validators
      BY <2>2, <3>1, ZenonT(60) DEF ReportInv
    <3>3. ASSUME NEW v \in Validators, NEW s \in DOMAIN reported'[v]
          PROVE  /\ s \in current' /\ s \in DOMAIN valPrices'[v]
                 /\ valPrices'[v][s].timestamp = reported'[v][s]
      <4>1. reported'[v] = [x \in DOMAIN reported[v] \cap current' |-> reported[v][x]]
        BY <2>2, ZenonT(60)
      <4>2. s \in DOMAIN reported[v] /\ s \in current' /\ reported'[v][s] = reported[v][s]
        BY <3>3, <4>1, ZenonT(60)
      <4>3. QED
        BY <3>1, <4>2, ZenonT(60) DEF ReportInv
    <3>4. QED
      BY <3>2, <3>3, ZenonT(60) DEF ReportInv
  <2>3. QED
    BY <1>2, <2>1, <2>2, EndBlockFacts, ZenonT(60)
<1>3. CASE /\ ~EndBlock
           /\ ~\E v \in Validators, S \in SUBSET Signals : \E submission \in [S -> Submissions] :
                 \E d \in Discrepancies : SubmitSignalPrices(v, submission, d)
  <2>1. reported' = reported /\ valPrices' = valPrices /\ currentFeeds' = currentFeeds
    BY <1>3, Zenon DEF Next, Vote, ChangePower, Activate, ChangeBonded,
          UpdateParams, NextBlock, vars, pricing
  <2>2. current' = current
    BY <2>1, ZenonT(60) DEF current, FeedIDs
  <2>3. QED
    BY <2>1, <2>2, ZenonT(60) DEF ReportInv
<1>4. QED
  BY <1>1, <1>2, <1>3, ZenonT(60)

\* What OnlySilentAreDeactivated says of a step.
Silent ==
  \A v \in Validators : status[v].isActive /\ ~status'[v].isActive =>
    \E i \in DOMAIN currentFeeds'.feeds :
      LET f == currentFeeds'.feeds[i]
      IN  /\ currentFeeds'.time + params.gracePeriod < time
          /\ status[v].since + params.gracePeriod < time
          /\ f.id \in DOMAIN reported[v] => reported[v][f.id] + f.interval < time

\* EndBlock deactivates a validator only if it was silent on a current feed.
LEMMA SilentEnd == ASSUME ReportInv, EndBlock PROVE Silent
<1>1. SUFFICES ASSUME NEW v \in Validators, status[v].isActive, ~status'[v].isActive
               PROVE  \E i \in DOMAIN currentFeeds'.feeds :
                        /\ currentFeeds'.time + params.gracePeriod < time
                        /\ status[v].since + params.gracePeriod < time
                        /\ currentFeeds'.feeds[i].id \in DOMAIN reported[v] =>
                             reported[v][currentFeeds'.feeds[i].id]
                               + currentFeeds'.feeds[i].interval < time
  BY Zenon DEF Silent
<1>2. PICK missed \in SUBSET Validators :
        /\ status' = [w \in Validators |-> IF w \in missed THEN MissReport(w) ELSE status[w]]
        /\ \A w \in missed : \E i \in DOMAIN currentFeeds'.feeds :
             CheckMissReport(currentFeeds', currentFeeds'.feeds[i], w)
  BY <1>1, EndBlockFacts, ZenonT(60)
<1>3. v \in missed
  <2>1. status'[v] = IF v \in missed THEN MissReport(v) ELSE status[v]
    BY <1>2, ZenonT(60)
  <2>2. QED
    BY <1>1, <2>1, ZenonT(60)
<1>4. PICK cf : cf = currentFeeds'
  BY Zenon
<1>5. PICK i \in DOMAIN cf.feeds : CheckMissReport(cf, cf.feeds[i], v)
  BY <1>2, <1>3, <1>4, ZenonT(60)
<1>6. PICK f : f = cf.feeds[i]
  BY Zenon
<1>7. /\ cf.time + params.gracePeriod < time
      /\ status[v].since + params.gracePeriod < time
      /\ f.id \in DOMAIN valPrices[v] => valPrices[v][f.id].timestamp + f.interval < time
  <2>1. CheckMissReport(cf, f, v)
    BY <1>5, <1>6, ZenonT(60)
  <2>2. QED
    BY <2>1, Zenon DEF CheckMissReport
<1>8. f.id \in DOMAIN reported[v] => reported[v][f.id] + f.interval < time
  BY <1>7, Zenon DEF ReportInv
<1>9. QED
  BY <1>4, <1>6, <1>7, <1>8, ZenonT(60)

\* No step deactivates a validator that was not silent.
LEMMA SilentNext == ASSUME ReportInv, [Next]_vars PROVE [Silent]_vars
<1>1. CASE EndBlock
  BY <1>1, SilentEnd, ZenonT(60)
<1>2. CASE \E v \in Validators : Activate(v)
  <2>1. PICK w \in Validators : Activate(w)
    BY <1>2, Zenon
  <2>2. ~status[w].isActive /\ status' = [status EXCEPT ![w] = [isActive |-> TRUE, since |-> time]]
    BY <2>1, ZenonT(60) DEF Activate
  <2>3. \A v \in Validators : status[v].isActive => status'[v] = status[v]
    BY <2>2, SMTT(30)
  <2>4. QED
    BY <2>3, Zenon DEF Silent
<1>3. CASE ~EndBlock /\ ~\E v \in Validators : Activate(v)
  <2>1. status' = status
    BY <1>3, ZenonT(60) DEF Next, Vote, ChangePower, SubmitSignalPrices, ChangeBonded,
          UpdateParams, NextBlock, vars, validators
  <2>2. QED
    BY <2>1, Zenon DEF Silent
<1>4. QED
  BY <1>1, <1>2, <1>3, ZenonT(60)

\* The EndBlocker of x/feeds deactivates no validator that has reported in time, whatever
\* the votes, the feeds, the parameters and the order of the messages.
THEOREM OnlyTheSilent == Spec => OnlySilentAreDeactivated
<1>1. Init => ReportInv
  BY SMTT(30) DEF Init, ReportInv
<1>2. ReportInv /\ [Next]_vars => ReportInv'
  BY ReportNext
<1>3. ReportInv /\ [Next]_vars => [Silent]_vars
  BY SilentNext, ZenonT(60)
<1>4. QED
  BY <1>1, <1>2, <1>3, PTL DEF Spec, OnlySilentAreDeactivated, Silent

-----------------------------------------------------------------------------
(* The prices of the current feeds *)

\* The validators can be ordered by their tokens, so that ValidatorsByPower is such an order.
LEMMA TokenOrder ==
  ASSUME FeedsParameters, NEW A \in SUBSET Validators
  PROVE  /\ IsFiniteSet(A) /\ Cardinality(A) \in Nat
         /\ \E s \in [1..Cardinality(A) -> A] :
              \A i, j \in DOMAIN s : i < j => s[i] # s[j] /\ Tokens[s[i]] >= Tokens[s[j]]
<1>1. IsFiniteSet(Validators) /\ Tokens \in [Validators -> Nat]
  BY Zenon DEF FeedsParameters
<1>2. IsFiniteSet(A)
  BY <1>1, FS_Subset, ZenonT(60)
<1>3. PICK n \in Nat : n = Cardinality(A) /\ ExistsBijection(1..n, A)
  BY <1>2, FS_CardinalityType, ZenonT(60)
<1>4. PICK b \in [1..n -> A] : \A x \in A : \E i \in 1..n : b[i] = x
  BY <1>3, ZenonT(60) DEF ExistsBijection, Bijection, Surjection
<1>5. PICK place : place = [x \in A |-> CHOOSE i \in 1..n : b[i] = x]
  BY Zenon
<1>6. \A x \in A : place[x] \in Int /\ b[place[x]] = x /\ Tokens[x] \in Int
  <2>1. ASSUME NEW x \in A PROVE place[x] \in 1..n /\ b[place[x]] = x
    BY <1>4, <1>5, ZenonT(60)
  <2>2. \A x \in A : Tokens[x] \in Nat
    BY <1>1, Zenon
  <2>3. QED
    BY <2>1, <2>2, SMTT(30)
<1>7. PICK before : before = {p \in A \X A : \/ Tokens[p[1]] > Tokens[p[2]]
                                             \/ /\ Tokens[p[1]] = Tokens[p[2]]
                                                /\ place[p[1]] < place[p[2]]}
  BY Zenon
<1>8. \A x, y \in A : <<x, y>> \in before <=>
        \/ Tokens[x] > Tokens[y]
        \/ Tokens[x] = Tokens[y] /\ place[x] < place[y]
  BY <1>7, ZenonT(60)
<1>9. StrictOrder(A, before)
  <2>1. \A x \in A : <<x, x>> \notin before
    BY <1>6, <1>8, SMTT(30)
  <2>2. \A x, y \in A : x # y => place[x] # place[y]
    BY <1>6, ZenonT(60)
  <2>3. ASSUME NEW x \in A, NEW y \in A, x # y
        PROVE  <<x, y>> \in before \/ <<y, x>> \in before
    BY <2>2, <2>3, <1>6, <1>8, SMTT(30)
  <2>4. ASSUME NEW x \in A, NEW y \in A, NEW z \in A,
               <<x, y>> \in before, <<y, z>> \in before
        PROVE  <<x, z>> \in before
    BY <2>4, <1>6, <1>8, SMTT(30)
  <2>5. QED
    BY <2>1, <2>3, <2>4, ZenonT(60) DEF StrictOrder
<1>10. PICK s : IsListing(A, before, s)
  BY <1>2, <1>9, ListedIsListing, ZenonT(60)
<1>11. s \in [1..n -> A] /\ DOMAIN s = 1..n
  BY <1>3, <1>10, ZenonT(60) DEF IsListing
<1>12. ASSUME NEW i \in 1..n, NEW j \in 1..n, i < j
       PROVE  s[i] # s[j] /\ Tokens[s[i]] >= Tokens[s[j]]
  <2>1. s[i] \in A /\ s[j] \in A /\ <<s[i], s[j]>> \in before
    BY <1>3, <1>10, <1>11, <1>12, ZenonT(60) DEF IsListing
  <2>2. s[i] # s[j]
    BY <2>1, <1>9, ZenonT(60) DEF StrictOrder
  <2>3. Tokens[s[i]] >= Tokens[s[j]]
    <3>1. Tokens[s[i]] > Tokens[s[j]] \/ Tokens[s[i]] = Tokens[s[j]]
      BY <2>1, <1>8, ZenonT(60)
    <3>2. PICK hi, lo \in Int : hi = Tokens[s[i]] /\ lo = Tokens[s[j]]
      BY <2>1, <1>6, ZenonT(60)
    <3>3. hi > lo \/ hi = lo
      BY <3>1, <3>2, ZenonT(60)
    <3>4. hi >= lo
      BY <3>3, SMTT(30)
    <3>5. QED
      BY <3>2, <3>4, ZenonT(60)
  <2>4. QED
    BY <2>2, <2>3, ZenonT(60)
<1>13. QED
  BY <1>2, <1>3, <1>11, <1>12, ZenonT(60)

\* Only bonded validators are asked for prices.
LEMMA ByPowerIs ==
  ASSUME FeedsParameters, bonded \subseteq Validators
  PROVE  \E n \in Nat : ValidatorsByPower \in [1..n -> bonded]
<1>1. PICK A : A = {v \in bonded : status[v].isActive}
  BY Zenon
<1>2. A \in SUBSET Validators /\ A \subseteq bonded
  BY <1>1, ZenonT(60)
<1>3. /\ Cardinality(A) \in Nat
      /\ \E s \in [1..Cardinality(A) -> A] :
           \A i, j \in DOMAIN s : i < j => s[i] # s[j] /\ Tokens[s[i]] >= Tokens[s[j]]
  BY <1>2, TokenOrder, ZenonT(60)
<1>4. ValidatorsByPower \in [1..Cardinality(A) -> A]
  <2>1. ValidatorsByPower = CHOOSE s \in [1..Cardinality(A) -> A] :
           \A i, j \in DOMAIN s : i < j => s[i] # s[j] /\ Tokens[s[i]] >= Tokens[s[j]]
    BY <1>1, ZenonT(60) DEF ValidatorsByPower
  <2>2. QED
    BY <2>1, <1>3, ZenonT(60)
<1>5. ValidatorsByPower \in [1..Cardinality(A) -> bonded]
  BY <1>4, <1>2, ZenonT(60)
<1>6. QED
  BY <1>3, <1>5, ZenonT(60)

\* picked holds, for every k up to m, the element of s at position order[k] of I.
PicksFrom(picked, s, I, m, order) ==
  m \in Nat /\ order \in [1..m -> I] /\ picked = [k \in 1..m |-> s[order[k]]]

\* Whatever is picked from a sequence is one of its elements, at a position asked for.
LEMMA PickedFrom ==
  ASSUME NEW s, NEW n \in Nat, NEW I \in SUBSET (1..n)
  PROVE  \E m, order : PicksFrom(Picked(s, I), s, I, m, order)
<1>1. PICK order : /\ IsFiniteSet(I) /\ Cardinality(I) \in Nat
                   /\ IsListing(I, {p \in I \X I : p[1] < p[2]}, order)
                   /\ Picked(s, I) = [k \in 1..Cardinality(I) |-> s[order[k]]]
  BY PickedIs, ZenonT(60)
<1>2. order \in [1..Cardinality(I) -> I]
  BY <1>1, ZenonT(60) DEF IsListing
<1>3. PicksFrom(Picked(s, I), s, I, Cardinality(I), order)
  BY <1>1, <1>2, ZenonT(60) DEF PicksFrom
<1>4. QED
  BY <1>3, Zenon

\* The prices that validators have reported.
ReportsTyped ==
  \A v \in Validators : \A s \in DOMAIN valPrices[v] :
    /\ valPrices[v][s].status \in Status /\ valPrices[v][s].price \in Nat
    /\ valPrices[v][s].timestamp \in Nat

\* A price that CalculatePrice finds available was reported by a bonded validator, not
\* longer than the interval ago.
LEMMA AvailableIsReported ==
  ASSUME FeedsParameters, bonded \subseteq Validators, ReportsTyped, NEW f,
         CalculatePrice(f).status = "available"
  PROVE  \E v \in bonded : checkHavePrice(f, v) /\ valPrices[v][f.id].price = CalculatePrice(f).price
<1>1. PICK n \in Nat : ValidatorsByPower \in [1..n -> bonded]
  BY ByPowerIs, Zenon
<1>2. PICK byPower : byPower = ValidatorsByPower
  BY Zenon
<1>3. byPower \in [1..n -> bonded] /\ DOMAIN byPower = 1..n
  BY <1>1, <1>2, ZenonT(60)
<1>4. PICK I : I = {i \in DOMAIN byPower : checkHavePrice(f, byPower[i])}
  BY Zenon
<1>5. I \in SUBSET (1..n)
  BY <1>3, <1>4, ZenonT(60)
<1>6. PICK m, order : PicksFrom(Picked(byPower, I), byPower, I, m, order)
  BY <1>5, PickedFrom, ZenonT(60)
<1>7. /\ m \in Nat /\ order \in [1..m -> I]
       /\ Picked(byPower, I) = [k \in 1..m |-> byPower[order[k]]]
  BY <1>6, Zenon DEF PicksFrom
<1>8. PICK have : have = Picked(byPower, I)
  BY Zenon
<1>9. PICK infos : infos = PriceInfos(f)
  BY Zenon
<1>10. infos = [i \in DOMAIN have |->
        [status |-> valPrices[have[i]][f.id].status, power |-> Tokens[have[i]],
         price |-> valPrices[have[i]][f.id].price,
         timestamp |-> valPrices[have[i]][f.id].timestamp]]
  BY <1>2, <1>4, <1>8, <1>9, ZenonT(60) DEF PriceInfos
<1>11. DOMAIN have = 1..m /\ \A i \in 1..m : have[i] = byPower[order[i]]
  BY <1>7, <1>8, ZenonT(60)
<1>12. ASSUME NEW i \in 1..m
       PROVE  have[i] \in bonded /\ checkHavePrice(f, have[i])
  <2>1. order[i] \in I
    BY <1>7, ZenonT(60)
  <2>2. byPower[order[i]] \in bonded /\ checkHavePrice(f, byPower[order[i]])
    BY <2>1, <1>3, <1>4, ZenonT(60)
  <2>3. QED
    BY <2>2, <1>11, ZenonT(60)
<1>13. ASSUME NEW i \in 1..m
       PROVE  /\ infos[i] \in Entry
              /\ infos[i].price = valPrices[have[i]][f.id].price
  <2>1. have[i] \in Validators /\ f.id \in DOMAIN valPrices[have[i]]
    BY <1>12, ZenonT(60) DEF checkHavePrice
  <2>2. PICK p : p = valPrices[have[i]][f.id]
    BY Zenon
  <2>3. p.status \in Status /\ p.price \in Nat /\ p.timestamp \in Nat
    BY <2>1, <2>2, ZenonT(60) DEF ReportsTyped
  <2>4. PICK t : t = Tokens[have[i]]
    BY Zenon
  <2>5. t \in Nat
    BY <2>1, <2>4, ZenonT(60) DEF FeedsParameters
  <2>6. infos[i] = [status |-> p.status, power |-> t, price |-> p.price, timestamp |-> p.timestamp]
    BY <1>10, <1>11, <2>2, <2>4, ZenonT(60)
  <2>7. infos[i] \in Entry /\ infos[i].price = p.price
    BY <2>3, <2>5, <2>6, SMTT(30) DEF Entry
  <2>8. QED
    BY <2>2, <2>7, ZenonT(60)
<1>14. infos \in [1..m -> Entry]
  <2>1. DOMAIN infos = 1..m
    BY <1>10, <1>11, ZenonT(60)
  <2>2. PICK g : g = [i \in 1..m |-> infos[i]]
    BY Zenon
  <2>3. infos = g
    BY <1>10, <1>11, <2>2, ZenonT(60)
  <2>4. g \in [1..m -> Entry]
    BY <2>2, <1>13, ZenonT(60)
  <2>5. QED
    BY <2>3, <2>4, ZenonT(60)
<1>15. PICK median : median = MedianValidatorPriceInfos(infos)
  BY Zenon
<1>16. median # InvalidWeightedPrices /\ CalculatePrice(f).price = median
  <2>1. PICK power : power = CalculatePricesPowers(infos)
    BY Zenon
  <2>2. CalculatePrice(f) =
          IF 2 * power.unsupported > power.total
          THEN [status |-> "unknown_signal_id", price |-> 0, timestamp |-> time]
          ELSE IF power.total < PowerQuorum \/ 2 * power.available < power.total
               THEN [status |-> "not_ready", price |-> 0, timestamp |-> time]
               ELSE IF median = InvalidWeightedPrices
                    THEN [status |-> "error", price |-> 0, timestamp |-> time]
                    ELSE [status |-> "available", price |-> median, timestamp |-> time]
    BY <1>9, <1>15, <2>1, ZenonT(60) DEF CalculatePrice
  <2>3. PICK c : c = CalculatePrice(f)
    BY ZenonT(60)
  <2>4. PICK A : A = (2 * power.unsupported > power.total)
    BY Zenon
  <2>5. PICK B : B = (power.total < PowerQuorum \/ 2 * power.available < power.total)
    BY Zenon
  <2>6. c = IF A THEN [status |-> "unknown_signal_id", price |-> 0, timestamp |-> time]
            ELSE IF B THEN [status |-> "not_ready", price |-> 0, timestamp |-> time]
                 ELSE IF median = InvalidWeightedPrices
                      THEN [status |-> "error", price |-> 0, timestamp |-> time]
                      ELSE [status |-> "available", price |-> median, timestamp |-> time]
    BY <2>2, <2>3, <2>4, <2>5, ZenonT(60)
  <2>7. c.status = "available"
    BY <2>3, ZenonT(60)
  <2>8. median # InvalidWeightedPrices /\ c.price = median
    BY <2>6, <2>7, ZenonT(60)
  <2>9. QED
    BY <2>3, <2>8, ZenonT(60)
<1>17. PICK i \in 1..m : median = infos[i].price
  <2>1. /\ \A j \in 1..m : infos[j].status = "available" =>
             \E i \in 1..m : infos[i].status = "available" /\ median = infos[i].price
        /\ (\A j \in 1..m : infos[j].status # "available") => median = InvalidWeightedPrices
    BY <1>14, <1>7, <1>15, MedianIsReported, ZenonT(60)
  <2>2. PICK j \in 1..m : infos[j].status = "available"
    BY <2>1, <1>16, ZenonT(60)
  <2>3. QED
    BY <2>1, <2>2, ZenonT(60)
<1>18. QED
  BY <1>12, <1>13, <1>16, <1>17, ZenonT(60)

\* Every price of an EndBlocker carries the time of the block.
LEMMA PriceIsDated == ASSUME NEW f PROVE CalculatePrice(f).timestamp = time
<1>1. PICK infos, power, median : /\ infos = PriceInfos(f) /\ power = CalculatePricesPowers(infos)
                                  /\ median = MedianValidatorPriceInfos(infos)
  BY Zenon
<1>2. PICK A, B : /\ A = (2 * power.unsupported > power.total)
                  /\ B = (power.total < PowerQuorum \/ 2 * power.available < power.total)
  BY Zenon
<1>3. PICK c : c = CalculatePrice(f)
  BY Zenon
<1>4. c = IF A THEN [status |-> "unknown_signal_id", price |-> 0, timestamp |-> time]
          ELSE IF B THEN [status |-> "not_ready", price |-> 0, timestamp |-> time]
               ELSE IF median = InvalidWeightedPrices
                    THEN [status |-> "error", price |-> 0, timestamp |-> time]
                    ELSE [status |-> "available", price |-> median, timestamp |-> time]
  BY <1>1, <1>2, <1>3, ZenonT(60) DEF CalculatePrice
<1>5. c.timestamp = time
  BY <1>4, ZenonT(60)
<1>6. QED
  BY <1>3, <1>5, ZenonT(60)

\* Two feeds of one signal are the same: power and interval are those of the signal.
SameFeeds(feeds) ==
  \A i, j \in DOMAIN feeds : feeds[i].id = feeds[j].id => feeds[i] = feeds[j]

\* The positions of the signals by power are an interval.
LEMMA SignalsByPowerIs ==
  ASSUME NEW stored, NEW index, IsFiniteSet(index), NEW limit \in Nat
  PROVE  \E q \in Nat : DOMAIN SignalsByPower(stored, index, limit) = 1..q
<1> DEFINE Before(a, b) == a[1] > b[1] \/ (a[1] = b[1] /\ a[2] < b[2])
<1>1. PICK entries : entries = Listed(index, {p \in index \X index : Before(p[1], p[2])})
  BY Zenon
<1>2. PICK n \in Nat : n = Cardinality(index)
  BY FS_CardinalityType, Zenon
<1>3. DOMAIN entries = 1..n
  BY <1>1, <1>2, ZenonT(60) DEF Listed
<1>4. PICK I : I = {i \in DOMAIN entries : entries[i][2] \in DOMAIN stored}
  BY Zenon
<1>5. I \in SUBSET (1..n)
  BY <1>3, <1>4, ZenonT(60)
<1>6. PICK m, order : PicksFrom(Picked(entries, I), entries, I, m, order)
  BY <1>5, PickedFrom, ZenonT(60)
<1>7. PICK found : found = Picked(entries, I)
  BY Zenon
<1>8. m \in Nat /\ found = [k \in 1..m |-> entries[order[k]]]
  BY <1>6, <1>7, ZenonT(60) DEF PicksFrom
<1>9. Len(found) = m
  BY <1>8, SMTT(30)
<1>10. PICK q : q = Min({limit, Len(found)})
  BY Zenon
<1>11. q \in Nat
  <2>1. limit \in Int /\ m \in Int
    BY <1>8, SMTT(30)
  <2>2. Min({limit, m}) = (IF limit <= m THEN limit ELSE m)
    BY <2>1, OfTwo, ZenonT(60)
  <2>3. q = Min({limit, m})
    BY <1>9, <1>10, ZenonT(60)
  <2>4. QED
    BY <2>2, <2>3, <1>8, ZenonT(60)
<1>12. SignalsByPower(stored, index, limit) = [i \in 1..q |-> found[i][2]]
  BY <1>1, <1>4, <1>7, <1>10, ZenonT(60) DEF SignalsByPower
<1>13. QED
  BY <1>11, <1>12, ZenonT(60)

\* CalculateNewCurrentFeeds derives a feed from its signal.
LEMMA NewFeedsAreSame ==
  ASSUME NEW stored, NEW index, IsFiniteSet(index), NEW p, p.maxCurrentFeeds \in Nat
  PROVE  SameFeeds(CalculateNewCurrentFeeds(stored, index, p))
<1> DEFINE Feed(s) == [id |-> s, power |-> stored[s], interval |-> CalculateInterval(stored[s], p)]
<1>1. PICK top : top = SignalsByPower(stored, index, p.maxCurrentFeeds)
  BY Zenon
<1>2. PICK q \in Nat : DOMAIN top = 1..q
  BY <1>1, SignalsByPowerIs, ZenonT(60)
<1>3. PICK all : all = [i \in DOMAIN top |-> Feed(top[i])]
  BY Zenon
<1>4. PICK I : I = {i \in DOMAIN top : Feed(top[i]).interval > 0}
  BY Zenon
<1>5. I \in SUBSET (1..q)
  BY <1>2, <1>4, ZenonT(60)
<1>6. PICK m, order : PicksFrom(Picked(all, I), all, I, m, order)
  BY <1>5, PickedFrom, ZenonT(60)
<1>7. PICK feeds : feeds = CalculateNewCurrentFeeds(stored, index, p)
  BY Zenon
<1>8. feeds = Picked(all, I)
  BY <1>1, <1>3, <1>4, <1>7, ZenonT(60) DEF CalculateNewCurrentFeeds
<1>9. /\ order \in [1..m -> I] /\ feeds = [k \in 1..m |-> all[order[k]]]
  BY <1>6, <1>8, ZenonT(60) DEF PicksFrom
<1>10. ASSUME NEW i \in DOMAIN feeds
       PROVE  \E s : feeds[i].id = s /\ feeds[i] = Feed(s)
  <2>1. i \in 1..m /\ feeds[i] = all[order[i]]
    BY <1>9, Zenon
  <2>2. order[i] \in DOMAIN top
    BY <2>1, <1>2, <1>5, <1>9, ZenonT(60)
  <2>3. feeds[i] = Feed(top[order[i]])
    BY <2>1, <2>2, <1>3, ZenonT(60)
  <2>4. Feed(top[order[i]]).id = top[order[i]]
    BY Zenon
  <2>5. QED
    BY <2>3, <2>4, ZenonT(60)
<1>11. ASSUME NEW i \in DOMAIN feeds, NEW j \in DOMAIN feeds, feeds[i].id = feeds[j].id
       PROVE  feeds[i] = feeds[j]
  <2>1. PICK s : feeds[i].id = s /\ feeds[i] = Feed(s)
    BY <1>10, Zenon
  <2>2. PICK t : feeds[j].id = t /\ feeds[j] = Feed(t)
    BY <1>10, Zenon
  <2>3. s = t
    BY <2>1, <2>2, <1>11, ZenonT(60)
  <2>4. QED
    BY <2>1, <2>2, <2>3, ZenonT(60)
<1>12. QED
  BY <1>7, <1>11, ZenonT(60) DEF SameFeeds

-----------------------------------------------------------------------------
\* PricesAreCurrent, and what the next EndBlocker needs for it: reports of the right form,
\* one interval for each current feed, and no price of another signal.
PriceInv ==
  /\ VoteInv
  /\ time \in Nat /\ bonded \subseteq Validators /\ params \in ParamChoices
  /\ DOMAIN valPrices = Validators /\ ReportsTyped
  /\ SameFeeds(currentFeeds.feeds)
  /\ DOMAIN prices \subseteq current
  /\ PricesAreCurrent

\* The index by power is finite: it has one entry for every stored signal.
LEMMA IndexIsFinite ==
  ASSUME FeedsParameters, DOMAIN totalPower \subseteq Signals,
         powerIndex = {<<totalPower[s], s>> : s \in DOMAIN totalPower}
  PROVE  IsFiniteSet(powerIndex)
<1>1. IsFiniteSet(DOMAIN totalPower)
  BY FS_Subset, ZenonT(60) DEF FeedsParameters
<1>2. PICK f : f = [s \in DOMAIN totalPower |-> <<totalPower[s], s>>]
  BY Zenon
<1>3. f \in Surjection(DOMAIN totalPower, powerIndex)
  <2>1. f \in [DOMAIN totalPower -> powerIndex]
    BY <1>2, Zenon
  <2>2. \A e \in powerIndex : \E s \in DOMAIN totalPower : f[s] = e
    BY <1>2, Zenon
  <2>3. QED
    BY <2>1, <2>2, ZenonT(60) DEF Surjection
<1>4. QED
  BY <1>1, <1>3, FS_Surjection, ZenonT(60)

\* Whether they are new or not, the feeds of the block are consistent.
LEMMA NewFeedsSame ==
  ASSUME PriceInv
  PROVE  SameFeeds(NewFeeds.feeds)
<1>1. IsFiniteSet(powerIndex)
  BY IndexIsFinite, Zenon DEF PriceInv, VoteInv
<1>2. params.maxCurrentFeeds \in Nat
  BY Zenon DEF PriceInv, VoteInv, FeedsParameters
<1>3. PICK new : new = CalculateNewCurrentFeeds(totalPower, powerIndex, params)
  BY Zenon
<1>4. SameFeeds(new)
  BY <1>1, <1>2, <1>3, NewFeedsAreSame, ZenonT(60)
<1>5. CASE UpdateDue
  <2>1. NewFeeds = [feeds |-> new, time |-> time, block |-> height]
    BY <1>3, <1>5, ZenonT(60) DEF NewFeeds
  <2>2. NewFeeds.feeds = new
    BY <2>1, ZenonT(60)
  <2>3. QED
    BY <1>4, <2>2, ZenonT(60)
<1>6. CASE ~UpdateDue
  <2>1. NewFeeds = currentFeeds
    BY <1>6, Zenon DEF NewFeeds
  <2>2. QED
    BY <2>1, Zenon DEF PriceInv
<1>7. QED
  BY <1>5, <1>6, ZenonT(60)

\* What an EndBlocker does to feeds and prices, if it does not fail.
LEMMA EndBlockPrices ==
  ASSUME EndBlock
  PROVE  \/ failed' /\ currentFeeds' = currentFeeds /\ prices' = prices
         \/ /\ currentFeeds' = NewFeeds
            /\ DOMAIN prices' = FeedIDs(NewFeeds.feeds) \cup DOMAIN PricesKept
            /\ \A s \in FeedIDs(NewFeeds.feeds) : \E i \in DOMAIN NewFeeds.feeds :
                 NewFeeds.feeds[i].id = s /\ prices'[s] = CalculatePrice(NewFeeds.feeds[i])
<1> DEFINE price == [i \in DOMAIN NewFeeds.feeds |-> CalculatePrice(NewFeeds.feeds[i])]
<1>1. CASE \E i \in DOMAIN price : price[i].status = "error"
  BY <1>1, ZenonT(60) DEF EndBlock, pricing
<1>2. CASE ~\E i \in DOMAIN price : price[i].status = "error"
  <2>1. /\ currentFeeds' = NewFeeds
        /\ prices' = [s \in FeedIDs(NewFeeds.feeds) \cup DOMAIN PricesKept |->
             IF s \in FeedIDs(NewFeeds.feeds)
             THEN price[CHOOSE i \in DOMAIN NewFeeds.feeds : NewFeeds.feeds[i].id = s]
             ELSE PricesKept[s]]
    BY <1>2, ZenonT(60) DEF EndBlock
  <2>2. DOMAIN prices' = FeedIDs(NewFeeds.feeds) \cup DOMAIN PricesKept
    BY <2>1, Zenon
  <2>3. ASSUME NEW s \in FeedIDs(NewFeeds.feeds)
        PROVE  \E i \in DOMAIN NewFeeds.feeds :
                 NewFeeds.feeds[i].id = s /\ prices'[s] = CalculatePrice(NewFeeds.feeds[i])
    <3>1. PICK k : k = CHOOSE i \in DOMAIN NewFeeds.feeds : NewFeeds.feeds[i].id = s
      BY Zenon
    <3>2. k \in DOMAIN NewFeeds.feeds /\ NewFeeds.feeds[k].id = s
      BY <3>1, <2>3, ZenonT(60) DEF FeedIDs
    <3>3. price[k] = CalculatePrice(NewFeeds.feeds[k])
      BY <3>2, Zenon
    <3>4. prices'[s] = price[k]
      BY <2>1, <2>3, <3>1, ZenonT(60)
    <3>5. QED
      BY <3>2, <3>3, <3>4, ZenonT(60)
  <2>4. QED
    BY <2>1, <2>2, <2>3, ZenonT(60)
<1>3. QED
  BY <1>1, <1>2, ZenonT(60)

\* An EndBlocker that does not fail leaves the prices of the current feeds, computed from
\* reports that are in time.
LEMMA PricesEnd == ASSUME PriceInv, EndBlock PROVE PriceInv'
<1>1. PICK cf : cf = NewFeeds
  BY Zenon
<1>2. /\ time' = time /\ bonded' = bonded /\ params' = params /\ valPrices' = valPrices
      /\ phase' = "end"
  <2>1. time' = time /\ bonded' = bonded /\ params' = params /\ phase' = "end"
    BY ZenonT(60) DEF EndBlock
  <2>2. valPrices' = valPrices
    BY EndBlockFacts, ZenonT(60)
  <2>3. QED
    BY <2>1, <2>2, ZenonT(60)
<1>3. VoteInv'
  BY VoteNext, ZenonT(60) DEF PriceInv, Next
<1>4. ReportsTyped'
  BY <1>2, Zenon DEF PriceInv, ReportsTyped
<1>5. CASE failed' /\ currentFeeds' = currentFeeds /\ prices' = prices
  <2>1. PricesAreCurrent'
    BY <1>5, ZenonT(60) DEF PricesAreCurrent
  <2>2. current' = current
    BY <1>5, ZenonT(60) DEF current, FeedIDs
  <2>3. QED
    BY <1>2, <1>3, <1>4, <1>5, <2>1, <2>2, ZenonT(60) DEF PriceInv, SameFeeds
<1>6. CASE /\ currentFeeds' = cf
           /\ DOMAIN prices' = FeedIDs(cf.feeds) \cup DOMAIN PricesKept
           /\ \A s \in FeedIDs(cf.feeds) : \E i \in DOMAIN cf.feeds :
                cf.feeds[i].id = s /\ prices'[s] = CalculatePrice(cf.feeds[i])
  <2>1. SameFeeds(cf.feeds)
    BY <1>1, NewFeedsSame, ZenonT(60)
  <2>2. current' = FeedIDs(cf.feeds)
    BY <1>6, ZenonT(60) DEF current, FeedIDs
  <2>3. DOMAIN PricesKept \subseteq FeedIDs(cf.feeds)
    <3>1. CASE UpdateDue
      <4>1. PricesKept = <<>>
        BY <3>1, ZenonT(60) DEF PricesKept
      <4>2. DOMAIN PricesKept = {}
        BY <4>1, SMTT(30)
      <4>3. QED
        BY <4>2, ZenonT(60)
    <3>2. CASE ~UpdateDue
      <4>1. cf = currentFeeds /\ PricesKept = prices
        BY <1>1, <3>2, ZenonT(60) DEF PricesKept, NewFeeds
      <4>2. QED
        BY <4>1, ZenonT(60) DEF PriceInv, current
    <3>3. QED
      BY <3>1, <3>2, ZenonT(60)
  <2>4. DOMAIN prices' = current'
    BY <1>6, <2>2, <2>3, ZenonT(60)
  <2>5. ASSUME NEW i \in DOMAIN cf.feeds, NEW f, f = cf.feeds[i]
        PROVE  /\ prices'[f.id].timestamp = time
               /\ prices'[f.id].status = "available" =>
                    \E v \in bonded : /\ f.id \in DOMAIN valPrices[v]
                                      /\ valPrices[v][f.id].timestamp >= time - f.interval
                                      /\ valPrices[v][f.id].price = prices'[f.id].price
    <3>1. f.id \in FeedIDs(cf.feeds)
      BY <2>5, ZenonT(60) DEF FeedIDs
    <3>2. PICK k \in DOMAIN cf.feeds :
             cf.feeds[k].id = f.id /\ prices'[f.id] = CalculatePrice(cf.feeds[k])
      BY <1>6, <3>1, ZenonT(60)
    <3>3. prices'[f.id] = CalculatePrice(f)
      BY <2>1, <2>5, <3>2, ZenonT(60) DEF SameFeeds
    <3>4. prices'[f.id].timestamp = time
      BY <3>3, PriceIsDated, ZenonT(60)
    <3>5. ASSUME prices'[f.id].status = "available"
          PROVE  \E v \in bonded : /\ f.id \in DOMAIN valPrices[v]
                                   /\ valPrices[v][f.id].timestamp >= time - f.interval
                                   /\ valPrices[v][f.id].price = prices'[f.id].price
      <4>1. PICK v \in bonded : /\ checkHavePrice(f, v)
                                /\ valPrices[v][f.id].price = CalculatePrice(f).price
        BY <3>3, <3>5, AvailableIsReported, ZenonT(60) DEF PriceInv, VoteInv
      <4>2. QED
        BY <3>3, <4>1, ZenonT(60) DEF checkHavePrice
    <3>6. QED
      BY <3>4, <3>5, ZenonT(60)
  <2>6. PricesAreCurrent'
    BY <1>2, <1>6, <2>4, <2>5, ZenonT(60) DEF PricesAreCurrent
  <2>7. QED
    BY <1>2, <1>3, <1>4, <1>6, <2>1, <2>4, <2>6, ZenonT(60) DEF PriceInv, SameFeeds
<1>7. QED
  <2>1. \/ failed' /\ currentFeeds' = currentFeeds /\ prices' = prices
        \/ /\ currentFeeds' = cf
           /\ DOMAIN prices' = FeedIDs(cf.feeds) \cup DOMAIN PricesKept
           /\ \A s \in FeedIDs(cf.feeds) : \E i \in DOMAIN cf.feeds :
                cf.feeds[i].id = s /\ prices'[s] = CalculatePrice(cf.feeds[i])
    BY <1>1, EndBlockPrices, ZenonT(60)
  <2>2. QED
    BY <2>1, <1>5, <1>6, ZenonT(60)

\* An accepted report has a status, a price and the time of its block.
LEMMA PricesSubmit ==
  ASSUME PriceInv, NEW v \in Validators, NEW S \in SUBSET Signals,
         NEW submission \in [S -> Submissions], NEW d \in Discrepancies,
         SubmitSignalPrices(v, submission, d)
  PROVE  DOMAIN valPrices' = Validators /\ ReportsTyped'
<1>1. PICK vp : vp = [s \in CarriedOver(v) \cup DOMAIN submission |->
         IF s \in DOMAIN submission
         THEN [status |-> submission[s].status, price |-> submission[s].price,
               timestamp |-> time, block |-> height]
         ELSE valPrices[v][s]]
  BY Zenon
<1>2. valPrices' = [valPrices EXCEPT ![v] = vp]
  BY <1>1, ZenonT(60) DEF SubmitSignalPrices
<1>3. DOMAIN valPrices = Validators
  BY Zenon DEF PriceInv
<1>4. /\ DOMAIN valPrices' = Validators /\ valPrices'[v] = vp
      /\ \A w \in Validators : w # v => valPrices'[w] = valPrices[w]
  BY <1>2, <1>3, ZenonT(60)
<1>5. ASSUME NEW s \in DOMAIN vp
      PROVE  vp[s].status \in Status /\ vp[s].price \in Nat /\ vp[s].timestamp \in Nat
  <2>1. CASE s \in DOMAIN submission
    <3>1. PICK r : r = submission[s]
      BY Zenon
    <3>2. r \in [status : Status, price : Nat]
      BY <2>1, <3>1, ZenonT(60) DEF PriceInv, VoteInv, FeedsParameters
    <3>3. vp[s] = [status |-> r.status, price |-> r.price, timestamp |-> time, block |-> height]
      BY <1>1, <2>1, <3>1, ZenonT(60)
    <3>4. time \in Nat
      BY Zenon DEF PriceInv
    <3>5. QED
      BY <3>2, <3>3, <3>4, SMTT(30)
  <2>2. CASE s \notin DOMAIN submission
    <3>1. s \in CarriedOver(v) /\ vp[s] = valPrices[v][s]
      BY <1>1, <1>5, <2>2, ZenonT(60)
    <3>2. s \in DOMAIN valPrices[v]
      BY <3>1, ZenonT(60) DEF CarriedOver
    <3>3. QED
      BY <3>1, <3>2, ZenonT(60) DEF PriceInv, ReportsTyped
  <2>3. QED
    BY <2>1, <2>2, ZenonT(60)
<1>6. ASSUME NEW w \in Validators, NEW s \in DOMAIN valPrices'[w]
      PROVE  /\ valPrices'[w][s].status \in Status /\ valPrices'[w][s].price \in Nat
             /\ valPrices'[w][s].timestamp \in Nat
  <2>1. CASE w = v
    BY <2>1, <1>4, <1>5, <1>6, ZenonT(60)
  <2>2. CASE w # v
    <3>1. valPrices'[w] = valPrices[w]
      BY <2>2, <1>4, ZenonT(60)
    <3>2. QED
      BY <3>1, <1>6, ZenonT(60) DEF PriceInv, ReportsTyped
  <2>3. QED
    BY <2>1, <2>2, ZenonT(60)
<1>7. QED
  BY <1>4, <1>6, Zenon DEF ReportsTyped

\* Every step keeps the invariant: outside of the EndBlocker prices and feeds do not change.
LEMMA PricesNext == ASSUME PriceInv, [Next]_vars PROVE PriceInv'
<1>1. CASE EndBlock
  BY <1>1, PricesEnd, ZenonT(60)
<1>2. CASE UNCHANGED vars
  <2>1. VoteInv'
    BY VoteNext, Zenon DEF PriceInv
  <2>2. QED
    BY <1>2, <2>1, ZenonT(60) DEF vars, PriceInv, ReportsTyped, SameFeeds, current, FeedIDs,
       PricesAreCurrent
<1>3. CASE Next /\ ~EndBlock
  <2>1. VoteInv'
    BY VoteNext, Zenon DEF PriceInv
  <2>2. phase' # "end"
    BY <1>3, ZenonT(60) DEF Next, Vote, ChangePower, SubmitSignalPrices, Activate, ChangeBonded,
          UpdateParams, NextBlock, block
  <2>3. currentFeeds' = currentFeeds /\ prices' = prices
    BY <1>3, ZenonT(60) DEF Next, Vote, ChangePower, SubmitSignalPrices, Activate, ChangeBonded,
          UpdateParams, NextBlock, pricing
  <2>4. params' \in ParamChoices
    BY <1>3, ZenonT(60) DEF PriceInv, Next, Vote, ChangePower, SubmitSignalPrices, Activate,
          ChangeBonded, UpdateParams, NextBlock
  <2>5. bonded' \subseteq Validators
    <3>1. CASE bonded' = bonded
      BY <3>1, ZenonT(60) DEF PriceInv
    <3>2. CASE \E v \in Validators : bonded' = (bonded \ {v}) \cup ({v} \ bonded)
      BY <3>2, ZenonT(60) DEF PriceInv
    <3>3. QED
      BY <1>3, <3>1, <3>2, ZenonT(60) DEF Next, Vote, ChangePower, SubmitSignalPrices, Activate,
            ChangeBonded, UpdateParams, NextBlock, validators
  <2>6. time' \in Nat
    <3>1. CASE time' = time
      BY <3>1, ZenonT(60) DEF PriceInv
    <3>2. CASE \E gap \in Gaps : time' = time + gap
      <4>1. PICK gap \in Gaps : time' = time + gap
        BY <3>2, ZenonT(60)
      <4>2. gap \in Nat /\ time \in Nat
        BY Zenon DEF PriceInv, VoteInv, FeedsParameters
      <4>3. QED
        BY <4>1, <4>2, SMTT(30)
    <3>3. QED
      BY <1>3, <3>1, <3>2, ZenonT(60) DEF Next, Vote, ChangePower, SubmitSignalPrices, Activate,
            ChangeBonded, UpdateParams, NextBlock, block
  <2>7. DOMAIN valPrices' = Validators /\ ReportsTyped'
    <3>1. CASE valPrices' = valPrices
      BY <3>1, Zenon DEF PriceInv, ReportsTyped
    <3>2. CASE \E v \in Validators, S \in SUBSET Signals : \E submission \in [S -> Submissions] :
                 \E d \in Discrepancies : SubmitSignalPrices(v, submission, d)
      BY <3>2, PricesSubmit, ZenonT(60)
    <3>3. QED
      BY <1>3, <3>1, <3>2, ZenonT(60) DEF Next, Vote, ChangePower, Activate,
            ChangeBonded, UpdateParams, NextBlock, pricing
  <2>8. PricesAreCurrent'
    BY <2>2, Zenon DEF PricesAreCurrent
  <2>9. QED
    BY <2>1, <2>3, <2>4, <2>5, <2>6, <2>7, <2>8, ZenonT(60) DEF PriceInv, SameFeeds, current, FeedIDs
<1>4. QED
  BY <1>1, <1>2, <1>3, ZenonT(60)

\* The genesis state has no prices.
LEMMA PricesInit == ASSUME FeedsParameters, Init PROVE PriceInv
<1>1. VoteInv
  BY VoteInit, ZenonT(60)
<1>2. /\ params \in ParamChoices /\ time = 1 /\ bonded = Validators /\ phase = "tx"
      /\ valPrices = [v \in Validators |-> <<>>] /\ prices = <<>>
      /\ currentFeeds = [feeds |-> CalculateNewCurrentFeeds(totalPower, powerIndex, params),
                         time |-> time, block |-> height]
  BY ZenonT(60) DEF Init
<1>3. time \in Nat
  BY <1>2, ZenonT(60)
<1>4. DOMAIN <<>> = {}
  OBVIOUS
<1>5. DOMAIN valPrices = Validators /\ ReportsTyped /\ DOMAIN prices \subseteq current
  BY <1>2, <1>4, ZenonT(60) DEF ReportsTyped
<1>6. IsFiniteSet(powerIndex)
  BY <1>1, IndexIsFinite, ZenonT(60) DEF VoteInv
<1>7. params.maxCurrentFeeds \in Nat
  BY <1>2, ZenonT(60) DEF FeedsParameters
<1>8. PICK new : new = CalculateNewCurrentFeeds(totalPower, powerIndex, params)
  BY Zenon
<1>9. SameFeeds(new)
  BY <1>6, <1>7, <1>8, NewFeedsAreSame, ZenonT(60)
<1>10. currentFeeds.feeds = new
  BY <1>2, <1>8, ZenonT(60)
<1>11. PricesAreCurrent
  BY <1>2, ZenonT(60) DEF PricesAreCurrent
<1>12. QED
  BY <1>1, <1>2, <1>3, <1>5, <1>9, <1>10, <1>11, ZenonT(60) DEF PriceInv

\* PricesAreCurrent for every number of voters, signals and validators and for all
\* parameters: at the end of a block every current feed, and no other signal, has a price
\* of this block, and an available price is one that a bonded validator reported no longer
\* than the interval of the feed ago.
THEOREM PricesStayCurrent == Spec => []PricesAreCurrent
<1>1. Init => PriceInv
  BY PricesInit, FeedsAssumption, Zenon
<1>2. PriceInv /\ [Next]_vars => PriceInv'
  BY PricesNext, Zenon
<1>3. PriceInv => PricesAreCurrent
  BY Zenon DEF PriceInv
<1>4. QED
  BY <1>1, <1>2, <1>3, PTL DEF Spec
=============================================================================
