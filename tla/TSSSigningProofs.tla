-------------------------- MODULE TSSSigningProofs --------------------------
(***************************************************************************)
(* The theorems about signings, for every number of accounts, groups and   *)
(* signings and every choice of parameters: no nonce is used twice, no     *)
(* signing is lost between the lists of x/tss, and every signing ends      *)
(* once, as SigningLifecycle says.                                         *)
(***************************************************************************)
EXTENDS TSSSigning, FiniteSetTheorems, TLAPS

-----------------------------------------------------------------------------
(* The inductive invariant *)

NonceType ==
  /\ deHead \in [Accounts -> Indices]
  /\ deTail \in [Accounts -> Indices]
  /\ deStore \in [Accounts -> [Indices -> Indices]]
  /\ deCount \in [Accounts -> Indices]

\* The queue of an account holds different nonces, all of them submitted; the tail
\* never passes the number of nonces submitted.
StoreInv(a) ==
  /\ deTail[a] <= deCount[a]
  /\ \A i \in Indices : deStore[a][i] <= deCount[a]
  /\ \A i, j \in Indices : deStore[a][i] # NoDE /\ deStore[a][i] = deStore[a][j] => i = j

\* A nonce that was used was submitted before and is in the queue no more.
UseInv(u) ==
  /\ u[1] \in Accounts
  /\ u[2] \in 1..deCount[u[1]]
  /\ \A i \in Indices : deStore[u[1]][i] # u[2]

NonceInv ==
  /\ NonceType
  /\ QueueIsExact
  /\ \A a \in Accounts : StoreInv(a)
  /\ \A u \in nonceUses : UseInv(u)
  /\ NonceUsedOnce

queueVars == <<deHead, deTail, deStore, deCount, nonceUses>>

-----------------------------------------------------------------------------
\* What the invariant says about the queue of one account.
LEMMA QueueFacts ==
  ASSUME NonceInv, NEW a \in Accounts
  PROVE  /\ deHead[a] \in Nat /\ deTail[a] \in Nat /\ deCount[a] \in Nat /\ MaxDEs \in Nat
         /\ deHead[a] <= deTail[a] /\ deTail[a] <= deCount[a] /\ deCount[a] <= MaxDEs
         /\ deStore[a] \in [Indices -> Indices]
         /\ \A i \in Indices : /\ i \in Nat /\ i <= MaxDEs
                               /\ deStore[a][i] \in Nat /\ deStore[a][i] <= deCount[a]
                               /\ deStore[a][i] # 0 <=> deHead[a] <= i /\ i < deTail[a]
<1>1. deHead[a] \in Indices /\ deTail[a] \in Indices /\ deCount[a] \in Indices
  BY Zenon DEF NonceInv, NonceType
<1>2. deStore[a] \in [Indices -> Indices]
  BY Zenon DEF NonceInv, NonceType
<1>3. deHead[a] <= deTail[a] /\ \A i \in Indices : deStore[a][i] # 0 <=> deHead[a] <= i /\ i < deTail[a]
  BY Zenon DEF NonceInv, QueueIsExact, NoDE
<1>4. deTail[a] <= deCount[a] /\ \A i \in Indices : deStore[a][i] <= deCount[a]
  BY Zenon DEF NonceInv, StoreInv
<1>5. Indices = 0..MaxDEs
  BY Zenon DEF Indices
<1>6. \A i \in Indices : deStore[a][i] \in Indices
  BY <1>2, Zenon
<1>7. \A i \in Indices : i \in Nat /\ i <= MaxDEs
  BY <1>5, BoundsAssumption
<1>8. MaxDEs \in Nat
  BY BoundsAssumption, Zenon
<1>9. QED
  BY <1>1, <1>2, <1>3, <1>4, <1>6, <1>7, <1>8, Zenon

\* The queues are empty at first.
LEMMA InitNonceInv == Init => NonceInv
  BY BoundsAssumption DEF Init, NonceInv, NonceType, QueueIsExact, StoreInv, UseInv,
     NonceUsedOnce, Indices, NoDE

\* EnqueueDEs puts nonces that are new behind the tail.
LEMMA SubmitNonceInv ==
  ASSUME NonceInv, NEW a \in Accounts, NEW n \in 1..MaxDEs, SubmitDEs(a, n)
  PROVE  NonceInv'
<1> DEFINE new(i) == deTail[a] <= i /\ i < deTail[a] + n
           number(i) == deCount[a] + 1 + (i - deTail[a])
<1>1. n \in Nat /\ n > 0 /\ deCount[a] + n <= MaxDEs
  BY QueueFacts DEF SubmitDEs
<1>2. ASSUME NEW i \in Indices
      PROVE  /\ ~new(i) => deStore'[a][i] = deStore[a][i]
             /\ new(i) => deStore'[a][i] = number(i)
  BY Zenon DEF NonceInv, NonceType, SubmitDEs, EnqueuedAt
<1>3. ASSUME NEW i \in Indices, new(i)
      PROVE  number(i) \in Nat /\ deCount[a] < number(i) /\ number(i) <= deCount[a] + n
  BY <1>1, <1>3, QueueFacts
<1>4. /\ deHead' = deHead /\ nonceUses' = nonceUses
      /\ deTail'[a] = deTail[a] + n /\ deCount'[a] = deCount[a] + n
      /\ deTail' = [deTail EXCEPT ![a] = deTail[a] + n]
      /\ deCount' = [deCount EXCEPT ![a] = deCount[a] + n]
      /\ \A b \in Accounts \ {a} :
           deTail'[b] = deTail[b] /\ deCount'[b] = deCount[b] /\ deStore'[b] = deStore[b]
  BY Zenon DEF NonceInv, NonceType, SubmitDEs
<1>5. NonceType'
  <2>1. deTail[a] + n \in Indices /\ deCount[a] + n \in Indices
    BY <1>1, QueueFacts DEF Indices
  <2>2. \A i \in Indices : deStore'[a][i] \in Indices
    <3> SUFFICES ASSUME NEW i \in Indices PROVE deStore'[a][i] \in Indices
      BY Zenon
    <3>1. CASE new(i)
      BY <1>1, <1>2, <1>3, <3>1, QueueFacts, SMTT(30) DEF Indices
    <3>2. CASE ~new(i)
      BY <1>2, <3>2, QueueFacts, Zenon
    <3>3. QED
      BY <3>1, <3>2, Zenon
  <2>3. deStore' = [deStore EXCEPT ![a] = [i \in Indices |-> deStore'[a][i]]]
    BY Zenon DEF NonceInv, NonceType, SubmitDEs
  <2>4. [i \in Indices |-> deStore'[a][i]] \in [Indices -> Indices]
    BY <2>2, Zenon
  <2>5. deStore' \in [Accounts -> [Indices -> Indices]]
    BY <2>3, <2>4, Zenon DEF NonceInv, NonceType
  <2>6. QED
    BY <1>4, <2>1, <2>5, Zenon DEF NonceInv, NonceType
<1>6. QueueIsExact'
  <2>1. ASSUME NEW b \in Accounts, b # a
        PROVE  /\ deHead'[b] <= deTail'[b]
               /\ \A i \in Indices : deStore'[b][i] # NoDE <=> deHead'[b] <= i /\ i < deTail'[b]
    BY <1>4, <2>1, ZenonT(60) DEF NonceInv, QueueIsExact
  <2>2. deHead'[a] <= deTail'[a]
    BY <1>1, <1>4, QueueFacts
  <2>3. ASSUME NEW i \in Indices
        PROVE  deStore'[a][i] # NoDE <=> deHead'[a] <= i /\ i < deTail'[a]
    <3>1. CASE new(i)
      BY <1>2, <1>3, <1>4, <3>1, QueueFacts DEF NoDE
    <3>2. CASE ~new(i)
      BY <1>1, <1>2, <1>4, <3>2, QueueFacts DEF NoDE
    <3>3. QED
      BY <3>1, <3>2, Zenon
  <2>4. QED
    BY <2>1, <2>2, <2>3, Zenon DEF QueueIsExact
<1>7. ASSUME NEW b \in Accounts PROVE StoreInv(b)'
  <2>1. CASE b # a
    BY <1>4, <2>1 DEF NonceInv, StoreInv
  <2>2. CASE b = a
    <3>1. \A i \in Indices : deStore'[a][i] <= deCount'[a]
      BY <1>1, <1>2, <1>3, <1>4, QueueFacts
    <3>2. ASSUME NEW i \in Indices, NEW j \in Indices,
                 deStore'[a][i] # NoDE, deStore'[a][i] = deStore'[a][j]
          PROVE  i = j
      <4>1. CASE new(i) /\ new(j)
        <5>1. number(i) = number(j)
          BY <1>2, <3>2, <4>1, Zenon
        <5>2. i \in Nat /\ j \in Nat /\ deCount[a] \in Nat /\ deTail[a] \in Nat
          BY QueueFacts, Zenon
        <5>3. QED
          BY <5>1, <5>2
      <4>2. CASE ~new(i) /\ ~new(j)
        BY <1>2, <3>2, <4>2, Zenon DEF NonceInv, StoreInv
      <4>3. CASE new(i) /\ ~new(j)
        BY <1>2, <1>3, <3>2, <4>3, QueueFacts
      <4>4. CASE ~new(i) /\ new(j)
        BY <1>2, <1>3, <3>2, <4>4, QueueFacts
      <4>5. QED
        BY <4>1, <4>2, <4>3, <4>4, Zenon
    <3>3. deTail'[a] <= deCount'[a]
      BY <1>1, <1>4, QueueFacts
    <3>4. QED
      BY <2>2, <3>1, <3>2, <3>3, Zenon DEF StoreInv
  <2>3. QED
    BY <2>1, <2>2, Zenon
<1>8. ASSUME NEW u \in nonceUses PROVE UseInv(u)'
  <2>1. UseInv(u)
    BY Zenon DEF NonceInv
  <2>2. CASE u[1] # a
    BY <1>4, <2>1, <2>2, Zenon DEF UseInv
  <2>3. CASE u[1] = a
    <3>1. u[2] \in Nat /\ 1 <= u[2] /\ u[2] <= deCount[a]
      BY <2>1, <2>3, QueueFacts DEF UseInv
    <3>2. u[2] \in 1..deCount'[a]
      BY <1>1, <1>4, <3>1, QueueFacts
    <3>3. ASSUME NEW i \in Indices PROVE deStore'[a][i] # u[2]
      <4>1. CASE new(i)
        BY <1>2, <1>3, <3>1, <4>1, QueueFacts
      <4>2. CASE ~new(i)
        BY <1>2, <2>1, <2>3, <4>2, Zenon DEF UseInv
      <4>3. QED
        BY <4>1, <4>2, Zenon
    <3>4. QED
      BY <2>1, <2>3, <3>2, <3>3, Zenon DEF UseInv
  <2>4. QED
    BY <2>2, <2>3, Zenon
<1>9. NonceUsedOnce'
  BY <1>4, Zenon DEF NonceInv, NonceUsedOnce
<1>10. QED
  BY <1>4, <1>5, <1>6, <1>7, <1>8, <1>9, Zenon DEF NonceInv

\* MsgResetDE empties the store and starts the indices over; the numbers of the nonces
\* go on.
LEMMA ResetNonceInv ==
  ASSUME NonceInv, NEW a \in Accounts, ResetDE(a)
  PROVE  NonceInv'
<1>1. 0 \in Indices
  BY BoundsAssumption DEF Indices
<1>2. /\ deHead' = [deHead EXCEPT ![a] = 0] /\ deTail' = [deTail EXCEPT ![a] = 0]
      /\ deStore' = [deStore EXCEPT ![a] = StoreAfterReset(a)]
      /\ deCount' = deCount /\ nonceUses' = nonceUses
  BY Zenon DEF ResetDE
<1>3. StoreAfterReset(a) = [i \in Indices |-> 0]
  <2>1. \A i \in Indices : StoreAfterReset(a)[i] = 0
    BY QueueFacts, Zenon DEF StoreAfterReset, NoDE
  <2>2. QED
    BY <2>1, Zenon DEF StoreAfterReset
<1>4. /\ deHead'[a] = 0 /\ deTail'[a] = 0
      /\ \A i \in Indices : deStore'[a][i] = 0
      /\ \A b \in Accounts \ {a} :
           deHead'[b] = deHead[b] /\ deTail'[b] = deTail[b] /\ deStore'[b] = deStore[b]
  BY <1>2, <1>3, Zenon DEF NonceInv, NonceType
<1>5. NonceType'
  BY <1>1, <1>2, <1>3 DEF NonceInv, NonceType
<1>6. QueueIsExact'
  <2>1. ASSUME NEW b \in Accounts, b # a
        PROVE  /\ deHead'[b] <= deTail'[b]
               /\ \A i \in Indices : deStore'[b][i] # NoDE <=> deHead'[b] <= i /\ i < deTail'[b]
    BY <1>4, <2>1, Zenon DEF NonceInv, QueueIsExact
  <2>2. \A i \in Indices : ~(0 <= i /\ i < 0)
    BY BoundsAssumption DEF Indices
  <2>3. QED
    BY <1>4, <2>1, <2>2 DEF QueueIsExact, NoDE
<1>7. ASSUME NEW b \in Accounts PROVE StoreInv(b)'
  <2>1. CASE b # a
    BY <1>2, <1>4, <2>1 DEF NonceInv, StoreInv
  <2>2. CASE b = a
    BY <1>2, <1>4, <2>2, QueueFacts DEF StoreInv, NoDE
  <2>3. QED
    BY <2>1, <2>2, Zenon
<1>8. ASSUME NEW u \in nonceUses PROVE UseInv(u)'
  <2>1. UseInv(u)
    BY Zenon DEF NonceInv
  <2>2. CASE u[1] # a
    BY <1>2, <1>4, <2>1, <2>2, Zenon DEF UseInv
  <2>3. CASE u[1] = a
    <3>1. u[2] # 0
      BY <2>1, <2>3, QueueFacts DEF UseInv
    <3>2. QED
      BY <1>2, <1>4, <2>1, <2>3, <3>1, ZenonT(60) DEF UseInv
  <2>4. QED
    BY <2>2, <2>3, Zenon
<1>9. NonceUsedOnce'
  BY <1>2, Zenon DEF NonceInv, NonceUsedOnce
<1>10. QED
  BY <1>2, <1>5, <1>6, <1>7, <1>8, <1>9, Zenon DEF NonceInv

\* A new attempt takes one nonce out of the queue of every selected member.
LEMMA AttemptNonceInv ==
  ASSUME NonceInv, NEW s, NEW k, NEW sel \in SUBSET Accounts,
         \A a \in sel : HasDE(a), NewAttempt(s, k, sel)
  PROVE  NonceInv'
<1> DEFINE taken(a) == deStore[a][deHead[a]]
<1>1. ASSUME NEW a \in sel
      PROVE  /\ a \in Accounts /\ deHead[a] \in Indices /\ deHead[a] + 1 \in Indices
             /\ deHead[a] < deTail[a]
             /\ taken(a) # 0 /\ taken(a) \in Nat /\ taken(a) <= deCount[a]
  <2>1. deHead[a] < deTail[a]
    BY QueueFacts, Zenon DEF HasDE
  <2>2. deHead[a] \in Indices /\ deHead[a] + 1 \in Indices
    BY <2>1, QueueFacts DEF Indices
  <2>3. QED
    BY <2>1, <2>2, QueueFacts
<1>2. ASSUME NEW a \in sel
      PROVE  /\ deHead'[a] = deHead[a] + 1
             /\ deStore'[a] = [deStore[a] EXCEPT ![deHead[a]] = 0]
             /\ deStore'[a][deHead[a]] = 0
             /\ \A i \in Indices \ {deHead[a]} : deStore'[a][i] = deStore[a][i]
  <2>1. deHead'[a] = deHead[a] + 1 /\ deStore'[a] = [deStore[a] EXCEPT ![deHead[a]] = 0]
    BY <1>1, Zenon DEF NewAttempt, HeadAfter, StoreAfter, NoDE
  <2>2. deStore[a] \in [Indices -> Indices]
    BY <1>1, Zenon DEF NonceInv, NonceType
  <2>3. QED
    BY <1>1, <2>1, <2>2, Zenon
<1>3. \A a \in Accounts \ sel : deHead'[a] = deHead[a] /\ deStore'[a] = deStore[a]
  BY Zenon DEF NewAttempt, HeadAfter, StoreAfter
<1>4. /\ deTail' = deTail /\ deCount' = deCount
      /\ nonceUses' = nonceUses \cup {<<a, taken(a), s, k>> : a \in sel}
  BY Zenon DEF NewAttempt
<1>5. ASSUME NEW a \in Accounts, NEW i \in Indices
      PROVE  deStore'[a][i] = deStore[a][i] \/ deStore'[a][i] = 0
  <2>1. CASE a \in sel
    BY <1>2, <2>1, Zenon
  <2>2. CASE a \notin sel
    BY <1>3, <2>2, Zenon
  <2>3. QED
    BY <2>1, <2>2, Zenon
<1>6. NonceType'
  <2>1. \A a \in Accounts : HeadAfter(a, sel) \in Indices
    BY <1>1, Zenon DEF HeadAfter, NonceInv, NonceType
  <2>2. \A a \in Accounts : StoreAfter(a, sel) \in [Indices -> Indices]
    <3> SUFFICES ASSUME NEW a \in Accounts PROVE StoreAfter(a, sel) \in [Indices -> Indices]
      BY Zenon
    <3>1. 0 \in Indices
      BY BoundsAssumption DEF Indices
    <3>2. deStore[a] \in [Indices -> Indices]
      BY Zenon DEF NonceInv, NonceType
    <3>3. QED
      BY <3>1, <3>2, Zenon DEF StoreAfter, NoDE
  <2>3. QED
    BY <1>4, <2>1, <2>2, Zenon DEF NonceInv, NonceType, NewAttempt
<1>7. QueueIsExact'
  <2>1. ASSUME NEW a \in Accounts
        PROVE  /\ deHead'[a] <= deTail'[a]
               /\ \A i \in Indices : deStore'[a][i] # NoDE <=> deHead'[a] <= i /\ i < deTail'[a]
    <3>1. CASE a \in sel
      <4> /\ deHead[a] \in Nat /\ deTail[a] \in Nat /\ deHead[a] < deTail[a]
          /\ deHead'[a] = deHead[a] + 1 /\ deTail'[a] = deTail[a]
        BY <1>1, <1>2, <1>4, <3>1, QueueFacts, Zenon
      <4>1. deHead'[a] <= deTail'[a]
        OBVIOUS
      <4>2. ASSUME NEW i \in Indices
            PROVE  deStore'[a][i] # 0 <=> deHead'[a] <= i /\ i < deTail'[a]
        <5>1. i \in Nat /\ (deStore[a][i] # 0 <=> deHead[a] <= i /\ i < deTail[a])
          BY QueueFacts, Zenon
        <5>2. CASE i = deHead[a]
          <6>1. deStore'[a][i] = 0
            BY <1>2, <3>1, <5>2, Zenon
          <6>2. QED
            BY <5>2, <6>1
        <5>3. CASE i # deHead[a]
          <6>1. deStore'[a][i] = deStore[a][i]
            BY <1>2, <3>1, <5>3, Zenon
          <6>2. QED
            BY <5>1, <5>3, <6>1
        <5>4. QED
          BY <5>2, <5>3, Zenon
      <4>3. QED
        BY <4>1, <4>2, Zenon DEF NoDE
    <3>2. CASE a \notin sel
      BY <1>3, <1>4, <3>2, Zenon DEF NonceInv, QueueIsExact
    <3>3. QED
      BY <3>1, <3>2, Zenon
  <2>2. QED
    BY <2>1, Zenon DEF QueueIsExact
<1>8. ASSUME NEW a \in Accounts PROVE StoreInv(a)'
  <2>1. \A i \in Indices : deStore'[a][i] <= deCount[a]
    BY <1>5, QueueFacts
  <2>2. ASSUME NEW i \in Indices, NEW j \in Indices,
               deStore'[a][i] # NoDE, deStore'[a][i] = deStore'[a][j]
        PROVE  i = j
    BY <1>5, <2>2 DEF NonceInv, StoreInv, NoDE
  <2>3. QED
    BY <1>4, <2>1, <2>2, QueueFacts, Zenon DEF StoreInv
<1>9. ASSUME NEW u \in nonceUses PROVE UseInv(u)'
  <2>1. UseInv(u)
    BY Zenon DEF NonceInv
  <2>2. u[2] # 0
    BY <2>1, QueueFacts DEF UseInv
  <2>3. QED
    BY <1>4, <1>5, <2>1, <2>2, Zenon DEF UseInv
<1>10. ASSUME NEW a \in sel, NEW u, u = <<a, taken(a), s, k>> PROVE UseInv(u)'
  <2>1. u[1] = a /\ u[2] = taken(a)
    BY <1>10, Zenon
  <2>2. u[2] \in 1..deCount'[a]
    BY <1>1, <1>4, <2>1, QueueFacts
  <2>3. ASSUME NEW i \in Indices PROVE deStore'[a][i] # u[2]
    <3>1. CASE i = deHead[a]
      BY <1>1, <1>2, <2>1, <3>1, Zenon
    <3>2. CASE i # deHead[a]
      <4>1. deStore[a][i] # taken(a)
        BY <1>1, <3>2, Zenon DEF NonceInv, StoreInv, NoDE
      <4>2. QED
        BY <1>2, <2>1, <3>2, <4>1, Zenon
    <3>3. QED
      BY <3>1, <3>2, Zenon
  <2>4. QED
    BY <1>1, <2>1, <2>2, <2>3, Zenon DEF UseInv
<1>11. \A u \in nonceUses' : UseInv(u)'
  BY <1>4, <1>9, <1>10, Zenon
<1>12. ASSUME NEW w \in nonceUses, NEW a \in sel, w[1] = a PROVE w[2] # taken(a)
  BY <1>1, <1>12, Zenon DEF NonceInv, UseInv
<1>13. ASSUME NEW u \in nonceUses', NEW v \in nonceUses', u[1] = v[1], u[2] = v[2]
       PROVE  u = v /\ u[2] # NoDE
  <2>1. CASE u \in nonceUses /\ v \in nonceUses
    BY <1>13, <2>1, Zenon DEF NonceInv, NonceUsedOnce
  <2>2. CASE u \notin nonceUses
    <3>1. PICK a \in sel : u = <<a, taken(a), s, k>>
      BY <1>4, <2>2, Zenon
    <3>2. u[1] = a /\ u[2] = taken(a) /\ v \notin nonceUses
      BY <1>12, <1>13, <3>1, Zenon
    <3>3. PICK b \in sel : v = <<b, taken(b), s, k>>
      BY <1>4, <3>2, Zenon
    <3>4. a = b
      BY <1>13, <3>1, <3>3, Zenon
    <3>5. QED
      BY <1>1, <3>1, <3>2, <3>3, <3>4, Zenon DEF NoDE
  <2>3. CASE v \notin nonceUses
    <3>1. PICK a \in sel : v = <<a, taken(a), s, k>>
      BY <1>4, <2>3, Zenon
    <3>2. u \notin nonceUses
      BY <1>12, <1>13, <3>1, Zenon
    <3>3. QED
      BY <2>2, <3>2, Zenon
  <2>4. QED
    BY <2>1, <2>2, <2>3, Zenon
<1>14. QED
  BY <1>6, <1>7, <1>8, <1>11, <1>13, Zenon DEF NonceInv, NonceUsedOnce

\* No other step touches the queues or uses a nonce.
LEMMA QuietNonceInv == NonceInv /\ UNCHANGED queueVars => NonceInv'
  BY DEF NonceInv, NonceType, QueueIsExact, StoreInv, UseInv, NonceUsedOnce, queueVars

\* Every message and every step of the EndBlocker keeps the invariant.
LEMMA NextNonceInv == NonceInv /\ [Next]_vars => NonceInv'
<1> SUFFICES ASSUME NonceInv, [Next]_vars PROVE NonceInv'
  BY Zenon
<1>1. CASE \E a \in Accounts, n \in 1..MaxDEs : SubmitDEs(a, n)
  BY <1>1, SubmitNonceInv, Zenon
<1>2. CASE \E a \in Accounts : ResetDE(a)
  BY <1>2, ResetNonceInv, Zenon
<1>3. CASE \E g \in Groups, sel \in SUBSET Accounts : RequestSigning(g, sel)
  <2>1. PICK g \in Groups, sel \in SUBSET Accounts : RequestSigning(g, sel)
    BY <1>3, Zenon
  <2>2. \A a \in sel : HasDE(a)
    BY <2>1, Zenon DEF RequestSigning, Selections, GetAvailableMembers
  <2>3. NewAttempt(signingCount + 1, 1, sel)
    BY <2>1, Zenon DEF RequestSigning
  <2>4. QED
    BY <2>2, <2>3, AttemptNonceInv, Zenon
<1>4. CASE \E sel \in SUBSET Accounts : RetrySigning(sel)
  <2>1. PICK sel \in SUBSET Accounts : RetrySigning(sel)
    BY <1>4, Zenon
  <2>2. PICK s : sel \in Selections(signingGroup[s]) /\ NewAttempt(s, currentAttempt[s] + 1, sel)
    BY <2>1, Zenon DEF RetrySigning
  <2>3. \A a \in sel : HasDE(a)
    BY <2>2, Zenon DEF Selections, GetAvailableMembers
  <2>4. QED
    BY <2>2, <2>3, AttemptNonceInv, Zenon
<1>5. CASE UNCHANGED queueVars
  BY <1>5, QuietNonceInv, Zenon
<1>6. \/ \E a \in Accounts, n \in 1..MaxDEs : SubmitDEs(a, n)
      \/ \E a \in Accounts : ResetDE(a)
      \/ \E g \in Groups, sel \in SUBSET Accounts : RequestSigning(g, sel)
      \/ \E sel \in SUBSET Accounts : RetrySigning(sel)
      \/ UNCHANGED queueVars
  BY ZenonT(60) DEF Next, MsgNext, BlockNext, SubmitSignature, ActivateMember, UpdateParams, EndBlock,
     AggregatePartialSignatures, AggregateDone, HandleExpiredSigning, ExpireDone,
     HandleFailedSigning, RetryDone, vars, deVars, attemptVars, queueVars
<1>7. QED
  BY <1>1, <1>2, <1>3, <1>4, <1>5, <1>6, Zenon

-----------------------------------------------------------------------------
\* No nonce is ever used for two attempts, whatever accounts submit and reset, and in
\* however many groups and retries an account takes part.
THEOREM NonceOnce == Spec => []NonceUsedOnce
<1>1. NonceInv => NonceUsedOnce
  BY Zenon DEF NonceInv
<1>2. QED
  BY <1>1, InitNonceInv, NextNonceInv, PTL DEF Spec

\* The store of DEs agrees with the head and the tail of its queue: DequeueDE finds a DE
\* for every member that was selected.
THEOREM QueueExact == Spec => []QueueIsExact
<1>1. NonceInv => QueueIsExact
  BY Zenon DEF NonceInv
<1>2. QED
  BY <1>1, InitNonceInv, NextNonceInv, PTL DEF Spec

-----------------------------------------------------------------------------
(* Sequences without repetition *)

\* An element appended to a list occurs in it, beside those that did before.
LEMMA AppendOccurs ==
  ASSUME NEW S, NEW q \in Seq(S), NEW x \in S
  PROVE  /\ Append(q, x) \in Seq(S)
         /\ \A y : Occurs(y, Append(q, x)) <=> y = x \/ Occurs(y, q)
         /\ NoRepeats(q) /\ ~Occurs(x, q) => NoRepeats(Append(q, x))
<1>1. /\ Append(q, x) \in Seq(S) /\ Len(q) \in Nat /\ Len(Append(q, x)) = Len(q) + 1
      /\ Append(q, x)[Len(q) + 1] = x
      /\ \A i \in 1..Len(q) : Append(q, x)[i] = q[i]
  OBVIOUS
<1>2. ASSUME NEW y PROVE Occurs(y, Append(q, x)) <=> y = x \/ Occurs(y, q)
  BY <1>1 DEF Occurs
<1>3. ASSUME NoRepeats(q), ~Occurs(x, q) PROVE NoRepeats(Append(q, x))
  BY <1>1, <1>3 DEF NoRepeats, Occurs
<1>4. QED
  BY <1>1, <1>2, <1>3, Zenon

\* The tail of a list without repetition is the list without its head.
LEMMA TailOccurs ==
  ASSUME NEW S, NEW q \in Seq(S), q # << >>, NoRepeats(q)
  PROVE  /\ Head(q) \in S /\ Tail(q) \in Seq(S)
         /\ Occurs(Head(q), q)
         /\ \A y : Occurs(y, Tail(q)) <=> y # Head(q) /\ Occurs(y, q)
         /\ NoRepeats(Tail(q))
<1>1. /\ Head(q) \in S /\ Tail(q) \in Seq(S) /\ Len(q) \in Nat /\ Len(q) > 0
      /\ Len(Tail(q)) = Len(q) - 1 /\ Head(q) = q[1]
      /\ \A i \in 1..Len(Tail(q)) : Tail(q)[i] = q[i + 1]
  OBVIOUS
<1>2. Occurs(Head(q), q)
  BY <1>1 DEF Occurs
<1>3. ASSUME NEW y, Occurs(y, Tail(q)) PROVE y # Head(q) /\ Occurs(y, q)
  <2>1. PICK i \in 1..Len(Tail(q)) : Tail(q)[i] = y
    BY <1>3, Zenon DEF Occurs
  <2>2. i + 1 \in 1..Len(q) /\ q[i + 1] = y /\ i + 1 # 1
    BY <1>1, <2>1
  <2>3. QED
    BY <1>1, <2>2 DEF Occurs, NoRepeats
<1>4. ASSUME NEW y, y # Head(q), Occurs(y, q) PROVE Occurs(y, Tail(q))
  <2>1. PICK i \in 1..Len(q) : q[i] = y
    BY <1>4, Zenon DEF Occurs
  <2>2. i - 1 \in 1..Len(Tail(q)) /\ Tail(q)[i - 1] = y
    BY <1>1, <1>4, <2>1
  <2>3. QED
    BY <2>2, Zenon DEF Occurs
<1>5. NoRepeats(Tail(q))
  BY <1>1 DEF NoRepeats
<1>6. QED
  BY <1>1, <1>2, <1>3, <1>4, <1>5, Zenon

\* Nothing occurs in an empty list.
LEMMA EmptyOccurs == NoRepeats(<< >>) /\ \A y : ~Occurs(y, << >>)
  BY DEF NoRepeats, Occurs

\* Members that signed, counted.
LEMMA CountSigned ==
  ASSUME NEW T \in SUBSET Accounts, NEW S \in SUBSET T
  PROVE  /\ Cardinality(S) \in Nat
         /\ Cardinality(S) = Cardinality(T) <=> S = T
         /\ \A a \in T \ S : Cardinality(S \cup {a}) = Cardinality(S) + 1
<1>1. IsFiniteSet(T) /\ IsFiniteSet(S)
  BY AccountsAssumption, FS_Subset, Zenon
<1>2. QED
  BY <1>1, FS_Subset, FS_AddElement, FS_CardinalityType, Zenon

-----------------------------------------------------------------------------
(* The inductive invariant *)

Current(s) == <<s, currentAttempt[s]>>
Pending(s) == Occurs(s, pendingProcessSignings)
Retry(s) == Occurs(s, retrySigningIDs)

TrackType ==
  /\ params \in ParamChoices
  /\ signingCount \in 0..MaxSignings
  /\ status \in [SigningIds -> {"NONE", "WAITING", "SUCCESS", "FALLEN"}]
  /\ signingGroup \in [SigningIds -> Groups \cup {0}]
  /\ currentAttempt \in [SigningIds -> 0..MaxAttempts]
  /\ assigned \in [Attempts -> SUBSET Accounts]
  /\ partialSigs \in [Attempts -> SUBSET Accounts]
  /\ partialSigCount \in [Attempts -> Nat]
  /\ pendingProcessSignings \in Seq(SigningIds)
  /\ signingExpirations \in Seq(Attempts)
  /\ retrySigningIDs \in Seq(SigningIds)

\* An attempt is stored from its assignment to its expiry, and only the current attempt
\* of a waiting signing lacks signatures.
AttemptInv(x) ==
  /\ partialSigs[x] \subseteq assigned[x]
  /\ partialSigCount[x] = Cardinality(partialSigs[x])
  /\ x[2] > currentAttempt[x[1]] => assigned[x] = {}
  /\ Occurs(x, signingExpirations) <=> assigned[x] # {}
  /\ assigned[x] # partialSigs[x] => x[2] = currentAttempt[x[1]] /\ status[x[1]] = "WAITING"

\* A waiting signing is due for a retry, and then nobody can sign its current attempt any
\* more; or the attempt is stored, and the signing is pending if everybody has signed.
SigningInv(s) ==
  /\ status[s] = "WAITING" => currentAttempt[s] > 0
  /\ Pending(s) \/ Retry(s) => status[s] = "WAITING"
  /\ ~(Pending(s) /\ Retry(s))
  /\ Retry(s) => assigned[Current(s)] = partialSigs[Current(s)]
  /\ status[s] = "WAITING" /\ ~Retry(s) =>
       /\ assigned[Current(s)] # {}
       /\ Pending(s) <=> partialSigs[Current(s)] = assigned[Current(s)]

\* Signings are numbered in the order of the requests.
NumberInv(s) ==
  /\ status[s] = "NONE" <=> s > signingCount
  /\ status[s] = "NONE" => currentAttempt[s] = 0
  /\ status[s] # "NONE" => signingGroup[s] \in Groups

\* Within a block, aggregation empties the pending list before attempts expire, and
\* retries come last.
PhaseInv ==
  /\ phase = "tx" => retrySigningIDs = << >>
  /\ phase \notin {"tx", "aggregate"} => pendingProcessSignings = << >>

ListsInv ==
  /\ NoRepeats(signingExpirations)
  /\ NoRepeats(pendingProcessSignings)
  /\ NoRepeats(retrySigningIDs)

TrackInv ==
  /\ TrackType
  /\ ListsInv
  /\ PhaseInv
  /\ \A x \in Attempts : AttemptInv(x)
  /\ \A s \in SigningIds : SigningInv(s) /\ NumberInv(s)

trackVars == <<signingVars, assigned, partialSigs, partialSigCount,
               pendingProcessSignings, signingExpirations, retrySigningIDs>>

-----------------------------------------------------------------------------
\* An attempt is a pair of a signing and a number.
LEMMA AttemptPairs ==
  /\ \A s \in SigningIds, k \in 1..MaxAttempts : <<s, k>> \in Attempts
  /\ \A x \in Attempts : x[1] \in SigningIds /\ x[2] \in 1..MaxAttempts /\ x = <<x[1], x[2]>>
  BY DEF Attempts

\* What the invariant gives for one signing.
LEMMA SigningFacts ==
  ASSUME TrackInv, NEW s \in SigningIds
  PROVE  /\ SigningInv(s) /\ NumberInv(s)
         /\ currentAttempt[s] \in Nat
         /\ status[s] = "WAITING" => Current(s) \in Attempts
<1>1. currentAttempt[s] \in 0..MaxAttempts
  BY Zenon DEF TrackInv, TrackType
<1>2. SigningInv(s) /\ NumberInv(s)
  BY Zenon DEF TrackInv
<1>3. ASSUME status[s] = "WAITING" PROVE Current(s) \in Attempts
  <2>1. currentAttempt[s] \in 1..MaxAttempts
    BY <1>1, <1>2, <1>3, ParamsAssumption DEF SigningInv
  <2>2. QED
    BY <2>1, AttemptPairs, Zenon DEF Current
<1>4. QED
  BY <1>1, <1>2, <1>3, ParamsAssumption

\* What it gives for one attempt: it is incomplete if somebody has not signed.
LEMMA AttemptFacts ==
  ASSUME TrackInv, NEW x \in Attempts
  PROVE  /\ AttemptInv(x)
         /\ assigned[x] \in SUBSET Accounts /\ partialSigs[x] \in SUBSET assigned[x]
         /\ Incomplete(x) <=> assigned[x] # partialSigs[x]
<1>1. AttemptInv(x) /\ assigned[x] \in SUBSET Accounts
  BY Zenon DEF TrackInv, TrackType
<1>2. partialSigs[x] \in SUBSET assigned[x] /\ partialSigCount[x] = Cardinality(partialSigs[x])
  BY <1>1, Zenon DEF AttemptInv
<1>3. Cardinality(partialSigs[x]) = Cardinality(assigned[x]) <=> partialSigs[x] = assigned[x]
  BY <1>1, <1>2, CountSigned, Zenon
<1>4. QED
  BY <1>1, <1>2, <1>3, Zenon DEF Incomplete

\* The invariant is stronger than the property.
LEMMA TrackInvImplies == TrackInv => WaitingIsTracked
<1> SUFFICES ASSUME TrackInv PROVE WaitingIsTracked
  BY Zenon
<1>1. ASSUME NEW x \in Attempts
      PROVE  /\ Occurs(x, signingExpirations) <=> assigned[x] # {}
             /\ assigned[x] # {} /\ Incomplete(x) =>
                  x[2] = currentAttempt[x[1]] /\ status[x[1]] = "WAITING"
  BY AttemptFacts, Zenon DEF AttemptInv
<1>2. ASSUME NEW s \in SigningIds
      PROVE  IF status[s] # "WAITING"
             THEN ~Pending(s) /\ ~Retry(s)
             ELSE /\ ~(Pending(s) /\ Retry(s))
                  /\ ~Retry(s) => /\ Pending(s) <=> AllSigned(s)
                                  /\ assigned[<<s, currentAttempt[s]>>] # {}
  <2>1. SigningInv(s)
    BY SigningFacts, Zenon
  <2>2. QED
    BY <2>1, Zenon DEF SigningInv, AllSigned, Current
<1>3. QED
  BY <1>1, <1>2, Zenon DEF WaitingIsTracked, TrackInv, ListsInv, Pending, Retry

\* At first nothing is requested.
LEMMA InitTrackInv == Init => TrackInv
<1> SUFFICES ASSUME Init PROVE TrackInv
  BY Zenon
<1>1. TrackType
  BY BoundsAssumption, ParamsAssumption DEF Init, TrackType
<1>2. ListsInv /\ PhaseInv
  BY EmptyOccurs, Zenon DEF Init, ListsInv, PhaseInv
<1>3. ASSUME NEW x \in Attempts PROVE AttemptInv(x)
  BY EmptyOccurs, FS_EmptySet, Zenon DEF Init, AttemptInv
<1>4. ASSUME NEW s \in SigningIds PROVE SigningInv(s) /\ NumberInv(s)
  BY EmptyOccurs DEF Init, SigningInv, NumberInv, Pending, Retry, SigningIds
<1>5. QED
  BY <1>1, <1>2, <1>3, <1>4, Zenon DEF TrackInv

-----------------------------------------------------------------------------
(* The steps *)

\* Steps that touch neither signings nor lists.
LEMMA QuietStep ==
  ASSUME TrackInv, UNCHANGED trackVars, params' \in ParamChoices, PhaseInv'
  PROVE  TrackInv'
<1>1. TrackType' /\ ListsInv'
  BY Zenon DEF TrackInv, TrackType, ListsInv, trackVars, signingVars
<1>2. \A x \in Attempts : AttemptInv(x)'
  BY Zenon DEF TrackInv, AttemptInv, trackVars, signingVars
<1>3. \A s \in SigningIds : SigningInv(s)' /\ NumberInv(s)'
  BY Zenon DEF TrackInv, SigningInv, NumberInv, Pending, Retry, Current, trackVars, signingVars
<1>4. QED
  BY <1>1, <1>2, <1>3, Zenon DEF TrackInv

\* A new attempt of a signing that has no open one.
LEMMA AttemptStep ==
  ASSUME TrackInv,
         NEW s \in SigningIds, NEW sel \in SUBSET Accounts, sel # {},
         NEW k \in 1..MaxAttempts, k = currentAttempt[s] + 1,
         NewAttempt(s, k, sel),
         \A x \in Attempts : x[1] = s => assigned[x] = partialSigs[x],
         ~Pending(s), UNCHANGED pendingProcessSignings,
         retrySigningIDs' \in Seq(SigningIds), NoRepeats(retrySigningIDs'),
         ~Retry(s)', \A t \in SigningIds \ {s} : Retry(t)' <=> Retry(t),
         UNCHANGED params, signingCount' \in 0..MaxSignings,
         signingGroup' \in [SigningIds -> Groups \cup {0}],
         PhaseInv', \A t \in SigningIds : NumberInv(t)'
  PROVE  TrackInv'
<1> DEFINE new == <<s, k>>
<1>0. new[1] = s /\ new[2] = k /\ \A t : <<t, currentAttempt[t]>> = new => t = s
  BY Zenon
<1>1. /\ new \in Attempts /\ k \in Nat /\ k > 0 /\ currentAttempt[s] \in Nat
      /\ k > currentAttempt[s] /\ k \in 0..MaxAttempts
  BY AttemptPairs, SigningFacts, ParamsAssumption, SMTT(30)
<1>2. assigned[new] = {} /\ partialSigs[new] = {} /\ ~Occurs(new, signingExpirations)
  <2>1. new[2] > currentAttempt[new[1]]
    BY <1>0, <1>1, Zenon
  <2>2. QED
    BY <1>1, <2>1, AttemptFacts, Zenon DEF AttemptInv
<1>3. /\ assigned' = [assigned EXCEPT ![new] = sel]
      /\ currentAttempt' = [currentAttempt EXCEPT ![s] = k]
      /\ status' = [status EXCEPT ![s] = "WAITING"]
      /\ signingExpirations' = Append(signingExpirations, new)
      /\ partialSigs' = partialSigs /\ partialSigCount' = partialSigCount
  BY Zenon DEF NewAttempt, WithExpiration
<1> HIDE DEF new
<1>4. TrackType'
  BY <1>1, <1>3, AppendOccurs, Zenon DEF TrackInv, TrackType
<1>5. /\ assigned'[new] = sel /\ currentAttempt'[s] = k /\ status'[s] = "WAITING"
      /\ \A x \in Attempts \ {new} : assigned'[x] = assigned[x]
      /\ \A t \in SigningIds \ {s} :
           currentAttempt'[t] = currentAttempt[t] /\ status'[t] = status[t]
      /\ \A x \in Attempts : Occurs(x, signingExpirations') <=> x = new \/ Occurs(x, signingExpirations)
      /\ NoRepeats(signingExpirations')
  <2>1. signingExpirations \in Seq(Attempts) /\ NoRepeats(signingExpirations)
    BY Zenon DEF TrackInv, TrackType, ListsInv
  <2>2. /\ \A x : Occurs(x, signingExpirations') <=> x = new \/ Occurs(x, signingExpirations)
        /\ NoRepeats(signingExpirations')
    BY <1>1, <1>2, <1>3, <2>1, AppendOccurs, Zenon
  <2>3. assigned'[new] = sel /\ \A x \in Attempts \ {new} : assigned'[x] = assigned[x]
    BY <1>1, <1>3, Zenon DEF TrackInv, TrackType
  <2>4. currentAttempt'[s] = k /\ status'[s] = "WAITING"
    BY <1>3, Zenon DEF TrackInv, TrackType
  <2>5. \A t \in SigningIds \ {s} :
          currentAttempt'[t] = currentAttempt[t] /\ status'[t] = status[t]
    BY <1>3, Zenon DEF TrackInv, TrackType
  <2>6. QED
    BY <2>2, <2>3, <2>4, <2>5, Zenon
<1>6. ListsInv'
  BY <1>5, Zenon DEF TrackInv, ListsInv
<1>7. ASSUME NEW x \in Attempts PROVE AttemptInv(x)'
  <2>1. x[1] \in SigningIds /\ x[2] \in Nat /\ x = <<x[1], x[2]>> /\ AttemptInv(x)
    <3>1. x[1] \in SigningIds /\ x[2] \in 1..MaxAttempts /\ x = <<x[1], x[2]>> /\ AttemptInv(x)
      BY AttemptPairs, AttemptFacts, Zenon
    <3>2. QED
      BY <3>1, ParamsAssumption
  <2>2. CASE x = new
    <3>1. x[1] = s /\ x[2] = k
      BY <1>0, <2>2, Zenon
    <3>2. partialSigCount[x] = Cardinality(partialSigs[x])
      BY <2>1, Zenon DEF AttemptInv
    <3>3. partialSigs'[x] = {} /\ partialSigCount'[x] = Cardinality(partialSigs'[x])
      BY <1>2, <1>3, <2>2, <3>2, Zenon
    <3>4. assigned'[x] # {} /\ Occurs(x, signingExpirations')
      BY <1>1, <1>5, <2>2, Zenon
    <3>5. currentAttempt'[x[1]] = x[2] /\ status'[x[1]] = "WAITING"
      BY <1>5, <3>1, Zenon
    <3>6. ~(x[2] > x[2])
      BY <2>1
    <3>7. QED
      BY <3>3, <3>4, <3>5, <3>6, Zenon DEF AttemptInv
  <2>3. CASE x # new /\ x[1] = s
    <3>1. assigned[x] = partialSigs[x]
      BY <2>3, Zenon
    <3>2. x[2] > k => x[2] > currentAttempt[s]
      BY <1>1, <2>1
    <3>3. /\ assigned'[x] = assigned[x] /\ currentAttempt'[x[1]] = k
          /\ partialSigs'[x] = partialSigs[x] /\ partialSigCount'[x] = partialSigCount[x]
          /\ Occurs(x, signingExpirations') <=> Occurs(x, signingExpirations)
      BY <1>3, <1>5, <2>3, Zenon
    <3>4. QED
      BY <2>1, <2>3, <3>1, <3>2, <3>3, Zenon DEF AttemptInv
  <2>4. CASE x # new /\ x[1] # s
    BY <1>3, <1>5, <2>1, <2>4, Zenon DEF AttemptInv
  <2>5. QED
    BY <2>2, <2>3, <2>4, Zenon
<1>8. ASSUME NEW t \in SigningIds PROVE SigningInv(t)'
  <2>1. CASE t = s
    <3>1. Current(s)' = new
      BY <1>5, Zenon DEF Current, new
    <3>2. ~Pending(s)'
      BY Zenon DEF Pending
    <3>3. QED
      BY <1>1, <1>2, <1>3, <1>5, <2>1, <3>1, <3>2, Zenon DEF SigningInv
  <2>2. CASE t # s
    <3>1. /\ Current(t)' = Current(t) /\ Current(t) # new
          /\ (Pending(t)' <=> Pending(t)) /\ (Retry(t)' <=> Retry(t))
          /\ status'[t] = status[t] /\ currentAttempt'[t] = currentAttempt[t]
      BY <1>0, <1>5, <2>2, Zenon DEF Current, Pending
    <3>2. SigningInv(t) /\ (status[t] = "WAITING" => Current(t) \in Attempts)
      BY SigningFacts, Zenon
    <3>3. status[t] = "WAITING" => assigned'[Current(t)] = assigned[Current(t)]
      BY <1>5, <3>1, <3>2, Zenon
    <3>4. QED
      BY <1>3, <3>1, <3>2, <3>3, Zenon DEF SigningInv
  <2>3. QED
    BY <2>1, <2>2, Zenon
<1>9. QED
  BY <1>4, <1>6, <1>7, <1>8, Zenon DEF TrackInv

\* A request opens the first attempt of a signing with a new number.
LEMMA RequestStep ==
  ASSUME TrackInv, NEW g \in Groups, NEW sel \in SUBSET Accounts, RequestSigning(g, sel)
  PROVE  TrackInv'
<1>0. PICK s : s = signingCount + 1
  BY Zenon
<1>1. s \in SigningIds /\ s > signingCount /\ signingCount \in Nat
  BY <1>0, BoundsAssumption DEF TrackInv, TrackType, RequestSigning, SigningIds
<1>2. status[s] = "NONE" /\ currentAttempt[s] = 0
  BY <1>1, SigningFacts, Zenon DEF NumberInv
<1>3. ~Pending(s) /\ ~Retry(s)
  BY <1>1, <1>2, SigningFacts, Zenon DEF SigningInv
<1>4. 1 = currentAttempt[s] + 1 /\ 1 \in 1..MaxAttempts
  <2>1. params.maxSigningAttempt \in 0..MaxAttempts /\ params.maxSigningAttempt >= 1
    BY ParamsAssumption, Zenon DEF TrackInv, TrackType, RequestSigning
  <2>2. QED
    BY <1>2, <2>1, ParamsAssumption
<1>5. ASSUME NEW x \in Attempts, x[1] = s PROVE assigned[x] = partialSigs[x]
  BY <1>2, <1>5, AttemptFacts, Zenon DEF AttemptInv
<1>6. sel # {}
  <2>1. Cardinality(sel) = Threshold[g] /\ Threshold[g] # 0
    BY ThresholdAssumption, Zenon DEF RequestSigning, Selections
  <2>2. QED
    BY <2>1, FS_EmptySet, Zenon
<1>7. /\ NewAttempt(s, 1, sel) /\ signingCount' = s
      /\ signingGroup' = [signingGroup EXCEPT ![s] = g]
      /\ UNCHANGED <<phase, params, pendingProcessSignings, retrySigningIDs>>
  BY <1>0, Zenon DEF RequestSigning, blockVars
<1>8. /\ status' = [status EXCEPT ![s] = "WAITING"]
      /\ currentAttempt' = [currentAttempt EXCEPT ![s] = 1]
  BY <1>7, Zenon DEF NewAttempt
<1>9. ASSUME NEW t \in SigningIds PROVE NumberInv(t)'
  <2>1. t \in Nat /\ NumberInv(t)
    BY SigningFacts DEF SigningIds
  <2>2. CASE t = s
    <3>1. status'[t] = "WAITING" /\ signingGroup'[t] \in Groups
      BY <1>1, <1>7, <1>8, <2>2, Zenon DEF TrackInv, TrackType
    <3>2. ~(t > signingCount')
      BY <1>7, <2>1, <2>2
    <3>3. QED
      BY <3>1, <3>2, Zenon DEF NumberInv
  <2>3. CASE t # s
    <3>1. /\ status'[t] = status[t] /\ currentAttempt'[t] = currentAttempt[t]
          /\ signingGroup'[t] = signingGroup[t]
      BY <1>7, <1>8, <2>3, Zenon DEF TrackInv, TrackType
    <3>2. t > signingCount' <=> t > signingCount
      BY <1>0, <1>1, <1>7, <2>1, <2>3
    <3>3. QED
      BY <2>1, <3>1, <3>2, Zenon DEF NumberInv
  <2>4. QED
    BY <2>2, <2>3, Zenon
<1>10. /\ retrySigningIDs' \in Seq(SigningIds) /\ NoRepeats(retrySigningIDs') /\ PhaseInv'
       /\ ~Retry(s)' /\ \A t \in SigningIds \ {s} : Retry(t)' <=> Retry(t)
  BY <1>3, <1>7, Zenon DEF TrackInv, TrackType, ListsInv, PhaseInv, Retry
<1>11. signingCount' \in 0..MaxSignings /\ signingGroup' \in [SigningIds -> Groups \cup {0}]
  BY <1>1, <1>7, BoundsAssumption DEF SigningIds, TrackInv, TrackType
<1>12. QED
  BY <1>1, <1>3, <1>4, <1>5, <1>6, <1>7, <1>9, <1>10, <1>11, AttemptStep, Zenon

\* A retry opens the next attempt; all earlier ones are complete or gone.
LEMMA RetryStep ==
  ASSUME TrackInv, NEW sel \in SUBSET Accounts, RetrySigning(sel)
  PROVE  TrackInv'
<1>0. PICK s : s = Head(retrySigningIDs)
  BY Zenon
<1>1. /\ retrySigningIDs \in Seq(SigningIds) /\ NoRepeats(retrySigningIDs)
      /\ retrySigningIDs # << >>
  BY Zenon DEF TrackInv, TrackType, ListsInv, RetrySigning
<1>2. /\ s \in SigningIds /\ Retry(s)
      /\ Tail(retrySigningIDs) \in Seq(SigningIds) /\ NoRepeats(Tail(retrySigningIDs))
      /\ \A t : Occurs(t, Tail(retrySigningIDs)) <=> t # s /\ Retry(t)
  BY <1>0, <1>1, TailOccurs, Zenon DEF Retry
<1>3. /\ status[s] = "WAITING" /\ ~Pending(s)
      /\ assigned[Current(s)] = partialSigs[Current(s)]
  BY <1>2, SigningFacts, Zenon DEF SigningInv
<1>4. ASSUME NEW x \in Attempts, x[1] = s PROVE assigned[x] = partialSigs[x]
  <2>1. assigned[x] # partialSigs[x] => x = Current(s)
    <3>1. AttemptInv(x) /\ x = <<x[1], x[2]>>
      BY AttemptFacts, AttemptPairs, Zenon
    <3>2. QED
      BY <1>4, <3>1, Zenon DEF AttemptInv, Current
  <2>2. QED
    BY <1>3, <2>1, Zenon
<1>5. /\ CanRetry(s) /\ sel \in Selections(signingGroup[s])
      /\ NewAttempt(s, currentAttempt[s] + 1, sel)
      /\ retrySigningIDs' = Tail(retrySigningIDs)
      /\ UNCHANGED <<phase, params, signingCount, signingGroup, pendingProcessSignings>>
      /\ phase = "retry"
  BY <1>0, Zenon DEF RetrySigning, blockVars
<1>6. PICK k \in 1..MaxAttempts : k = currentAttempt[s] + 1
  <2>1. params.maxSigningAttempt \in 0..MaxAttempts
    BY ParamsAssumption, Zenon DEF TrackInv, TrackType
  <2>2. QED
    BY <1>2, <1>5, <2>1, SigningFacts, ParamsAssumption DEF CanRetry
<1>7. sel # {}
  <2>1. signingGroup[s] \in Groups
    BY <1>2, <1>3, SigningFacts, Zenon DEF NumberInv
  <2>2. Cardinality(sel) = Threshold[signingGroup[s]] /\ Threshold[signingGroup[s]] # 0
    BY <1>5, <2>1, ThresholdAssumption, Zenon DEF Selections
  <2>3. QED
    BY <2>2, FS_EmptySet, Zenon
<1>8. ASSUME NEW t \in SigningIds PROVE NumberInv(t)'
  <2>1. NumberInv(t)
    BY SigningFacts, Zenon
  <2>2. CASE t = s
    BY <1>3, <1>5, <2>1, <2>2, Zenon DEF NumberInv, NewAttempt, TrackInv, TrackType
  <2>3. CASE t # s
    BY <1>5, <2>1, <2>3, Zenon DEF NumberInv, NewAttempt, TrackInv, TrackType
  <2>4. QED
    BY <2>2, <2>3, Zenon
<1>9. /\ PhaseInv' /\ ~Retry(s)' /\ \A t \in SigningIds \ {s} : Retry(t)' <=> Retry(t)
  BY <1>2, <1>5, Zenon DEF TrackInv, PhaseInv, Retry
<1>10. signingCount' \in 0..MaxSignings /\ signingGroup' \in [SigningIds -> Groups \cup {0}]
  BY <1>5, Zenon DEF TrackInv, TrackType
<1>11. QED
  BY <1>2, <1>3, <1>4, <1>5, <1>6, <1>7, <1>8, <1>9, <1>10, AttemptStep, Zenon

\* A signing that cannot be retried falls; no attempt of it is open.
LEMMA FailStep ==
  ASSUME TrackInv, HandleFailedSigning
  PROVE  TrackInv'
<1>0. PICK s : s = Head(retrySigningIDs)
  BY Zenon
<1>1. /\ retrySigningIDs \in Seq(SigningIds) /\ NoRepeats(retrySigningIDs)
      /\ retrySigningIDs # << >>
  BY Zenon DEF TrackInv, TrackType, ListsInv, HandleFailedSigning
<1>2. /\ s \in SigningIds /\ Retry(s)
      /\ Tail(retrySigningIDs) \in Seq(SigningIds) /\ NoRepeats(Tail(retrySigningIDs))
      /\ \A t : Occurs(t, Tail(retrySigningIDs)) <=> t # s /\ Retry(t)
  BY <1>0, <1>1, TailOccurs, Zenon DEF Retry
<1>3. /\ status' = [status EXCEPT ![s] = "FALLEN"]
      /\ retrySigningIDs' = Tail(retrySigningIDs)
      /\ phase = "retry"
      /\ UNCHANGED <<phase, params, signingCount, signingGroup, currentAttempt, assigned,
                     partialSigs, partialSigCount, pendingProcessSignings, signingExpirations>>
  BY <1>0, Zenon DEF HandleFailedSigning, blockVars, attemptVars
<1>4. /\ status'[s] = "FALLEN" /\ \A t \in SigningIds \ {s} : status'[t] = status[t]
      /\ TrackType'
  BY <1>2, <1>3, Zenon DEF TrackInv, TrackType
<1>5. ListsInv' /\ PhaseInv'
  BY <1>2, <1>3, Zenon DEF TrackInv, ListsInv, PhaseInv
<1>6. ASSUME NEW x \in Attempts PROVE AttemptInv(x)'
  <2>1. AttemptInv(x) /\ x[1] \in SigningIds /\ x = <<x[1], x[2]>>
    BY AttemptFacts, AttemptPairs, Zenon
  <2>2. x[1] = s => assigned[x] = partialSigs[x]
    <3>1. assigned[Current(s)] = partialSigs[Current(s)]
      BY <1>2, SigningFacts, Zenon DEF SigningInv
    <3>2. QED
      BY <2>1, <3>1, Zenon DEF AttemptInv, Current
  <2>3. QED
    BY <1>3, <1>4, <2>1, <2>2, Zenon DEF AttemptInv
<1>7. ASSUME NEW t \in SigningIds PROVE SigningInv(t)' /\ NumberInv(t)'
  <2>1. SigningInv(t) /\ NumberInv(t)
    BY SigningFacts, Zenon
  <2>2. /\ Pending(t)' <=> Pending(t)
        /\ Retry(t)' <=> t # s /\ Retry(t)
        /\ Current(t)' = Current(t)
    BY <1>2, <1>3, Zenon DEF Pending, Retry, Current
  <2>3. CASE t = s
    BY <1>2, <1>3, <1>4, <2>1, <2>2, <2>3, Zenon DEF SigningInv, NumberInv
  <2>4. CASE t # s
    BY <1>3, <1>4, <2>1, <2>2, <2>4, Zenon DEF SigningInv, NumberInv
  <2>5. QED
    BY <2>3, <2>4, Zenon
<1>8. QED
  BY <1>4, <1>5, <1>6, <1>7, Zenon DEF TrackInv

\* Aggregation ends a pending signing or puts it on the retry list; everybody has signed
\* its current attempt.
LEMMA AggregateStep ==
  ASSUME TrackInv, NEW verified \in BOOLEAN, AggregatePartialSignatures(verified)
  PROVE  TrackInv'
<1>0. PICK s : s = Head(pendingProcessSignings)
  BY Zenon
<1>1. /\ pendingProcessSignings \in Seq(SigningIds) /\ NoRepeats(pendingProcessSignings)
      /\ pendingProcessSignings # << >>
      /\ retrySigningIDs \in Seq(SigningIds) /\ NoRepeats(retrySigningIDs)
  BY Zenon DEF TrackInv, TrackType, ListsInv, AggregatePartialSignatures
<1>2. /\ s \in SigningIds /\ Pending(s)
      /\ Tail(pendingProcessSignings) \in Seq(SigningIds)
      /\ NoRepeats(Tail(pendingProcessSignings))
      /\ \A t : Occurs(t, Tail(pendingProcessSignings)) <=> t # s /\ Pending(t)
  BY <1>0, <1>1, TailOccurs, Zenon DEF Pending
<1>3. /\ pendingProcessSignings' = Tail(pendingProcessSignings)
      /\ phase = "aggregate"
      /\ UNCHANGED <<phase, params, signingCount, signingGroup, currentAttempt, assigned,
                     partialSigs, partialSigCount, signingExpirations>>
  BY Zenon DEF AggregatePartialSignatures, blockVars, attemptVars
<1>4. /\ status[s] = "WAITING" /\ ~Retry(s)
      /\ assigned[Current(s)] = partialSigs[Current(s)]
  BY <1>2, SigningFacts, Zenon DEF SigningInv
<1>5. ASSUME NEW x \in Attempts, x[1] = s PROVE assigned[x] = partialSigs[x]
  <2>1. AttemptInv(x) /\ x = <<x[1], x[2]>>
    BY AttemptFacts, AttemptPairs, Zenon
  <2>2. QED
    BY <1>4, <1>5, <2>1, Zenon DEF AttemptInv, Current
<1>6. CASE verified
  <2>1. status' = [status EXCEPT ![s] = "SUCCESS"] /\ retrySigningIDs' = retrySigningIDs
    BY <1>0, <1>6, Zenon DEF AggregatePartialSignatures
  <2>2. /\ status'[s] = "SUCCESS" /\ \A t \in SigningIds \ {s} : status'[t] = status[t]
        /\ TrackType'
    BY <1>2, <1>3, <2>1, Zenon DEF TrackInv, TrackType
  <2>3. ListsInv' /\ PhaseInv'
    BY <1>2, <1>3, <2>1, Zenon DEF TrackInv, ListsInv, PhaseInv
  <2>4. ASSUME NEW x \in Attempts PROVE AttemptInv(x)'
    <3>1. AttemptInv(x) /\ x[1] \in SigningIds
      BY AttemptFacts, AttemptPairs, Zenon
    <3>2. QED
      BY <1>3, <1>5, <2>2, <3>1, Zenon DEF AttemptInv
  <2>5. ASSUME NEW t \in SigningIds PROVE SigningInv(t)' /\ NumberInv(t)'
    <3>1. SigningInv(t) /\ NumberInv(t)
      BY SigningFacts, Zenon
    <3>2. /\ Pending(t)' <=> t # s /\ Pending(t)
          /\ Retry(t)' <=> Retry(t)
          /\ Current(t)' = Current(t)
      BY <1>2, <1>3, <2>1, Zenon DEF Pending, Retry, Current
    <3>3. CASE t = s
      BY <1>2, <1>3, <1>4, <2>2, <3>1, <3>2, <3>3, Zenon DEF SigningInv, NumberInv
    <3>4. CASE t # s
      BY <1>3, <2>2, <3>1, <3>2, <3>4, Zenon DEF SigningInv, NumberInv
    <3>5. QED
      BY <3>3, <3>4, Zenon
  <2>6. QED
    BY <2>2, <2>3, <2>4, <2>5, Zenon DEF TrackInv
<1>7. CASE ~verified
  <2>1. retrySigningIDs' = Append(retrySigningIDs, s) /\ status' = status
    BY <1>0, <1>7, Zenon DEF AggregatePartialSignatures
  <2>2. /\ retrySigningIDs' \in Seq(SigningIds) /\ NoRepeats(retrySigningIDs')
        /\ \A t : Occurs(t, retrySigningIDs') <=> t = s \/ Retry(t)
    BY <1>1, <1>2, <1>4, <2>1, AppendOccurs, Zenon DEF Retry
  <2>3. TrackType' /\ ListsInv' /\ PhaseInv'
    BY <1>2, <1>3, <2>1, <2>2, Zenon DEF TrackInv, TrackType, ListsInv, PhaseInv
  <2>4. \A x \in Attempts : AttemptInv(x)'
    BY <1>3, <2>1, Zenon DEF TrackInv, AttemptInv
  <2>5. ASSUME NEW t \in SigningIds PROVE SigningInv(t)' /\ NumberInv(t)'
    <3>1. SigningInv(t) /\ NumberInv(t)
      BY SigningFacts, Zenon
    <3>2. /\ Pending(t)' <=> t # s /\ Pending(t)
          /\ Retry(t)' <=> t = s \/ Retry(t)
          /\ Current(t)' = Current(t)
      BY <1>2, <1>3, <2>2, Zenon DEF Pending, Retry, Current
    <3>3. CASE t = s
      BY <1>3, <1>4, <2>1, <3>1, <3>2, <3>3, Zenon DEF SigningInv, NumberInv
    <3>4. CASE t # s
      BY <1>3, <2>1, <3>1, <3>2, <3>4, Zenon DEF SigningInv, NumberInv
    <3>5. QED
      BY <3>3, <3>4, Zenon
  <2>6. QED
    BY <2>3, <2>4, <2>5, Zenon DEF TrackInv
<1>8. QED
  BY <1>6, <1>7, Zenon

\* A signature of an assigned member; the last one makes the signing pending.
LEMMA SubmitStep ==
  ASSUME TrackInv, NEW s \in SigningIds, NEW a \in Accounts, SubmitSignature(s, a)
  PROVE  TrackInv'
<1>0. PICK x : x = Current(s)
  BY Zenon
<1>1. /\ x \in Attempts /\ x = <<s, currentAttempt[s]>> /\ x[1] = s /\ x[2] = currentAttempt[s]
      /\ status[s] = "WAITING" /\ a \in assigned[x] \ partialSigs[x] /\ phase = "tx"
      /\ partialSigs' = [partialSigs EXCEPT ![x] = partialSigs[x] \cup {a}]
      /\ partialSigCount' = [partialSigCount EXCEPT ![x] = partialSigCount[x] + 1]
      /\ pendingProcessSignings' = IF partialSigCount'[x] = Cardinality(assigned[x])
                                   THEN Append(pendingProcessSignings, s)
                                   ELSE pendingProcessSignings
      /\ UNCHANGED <<phase, params, signingVars, assigned, signingExpirations, retrySigningIDs>>
  BY <1>0, Zenon DEF SubmitSignature, NotSignedYet, Current, blockVars
<1>2. /\ AttemptInv(x) /\ assigned[x] \in SUBSET Accounts
      /\ partialSigs[x] \in SUBSET assigned[x] /\ partialSigs[x] \cup {a} \in SUBSET assigned[x]
      /\ partialSigCount[x] = Cardinality(partialSigs[x])
  <2>1. /\ AttemptInv(x) /\ assigned[x] \in SUBSET Accounts
        /\ partialSigs[x] \in SUBSET assigned[x]
    BY <1>1, AttemptFacts, Zenon
  <2>2. QED
    BY <1>1, <2>1, Zenon DEF AttemptInv
<1>3. /\ Cardinality(partialSigs[x]) \in Nat
      /\ Cardinality(partialSigs[x] \cup {a}) = Cardinality(partialSigs[x]) + 1
      /\ Cardinality(partialSigs[x] \cup {a}) = Cardinality(assigned[x])
           <=> partialSigs[x] \cup {a} = assigned[x]
  <2>1. /\ Cardinality(partialSigs[x]) \in Nat
        /\ Cardinality(partialSigs[x] \cup {a}) = Cardinality(partialSigs[x]) + 1
    <3>1. \A b \in assigned[x] \ partialSigs[x] :
            Cardinality(partialSigs[x] \cup {b}) = Cardinality(partialSigs[x]) + 1
      BY <1>2, CountSigned, Zenon
    <3>2. Cardinality(partialSigs[x]) \in Nat
      BY <1>2, CountSigned, Zenon
    <3>3. QED
      BY <1>1, <3>1, <3>2, Zenon
  <2>2. Cardinality(partialSigs[x] \cup {a}) = Cardinality(assigned[x])
          <=> partialSigs[x] \cup {a} = assigned[x]
    BY <1>2, CountSigned, Zenon
  <2>3. QED
    BY <2>1, <2>2, Zenon
<1>4. /\ partialSigs'[x] = partialSigs[x] \cup {a}
      /\ partialSigCount'[x] = partialSigCount[x] + 1
      /\ \A y \in Attempts \ {x} :
           partialSigs'[y] = partialSigs[y] /\ partialSigCount'[y] = partialSigCount[y]
  BY <1>1, Zenon DEF TrackInv, TrackType
<1>5. retrySigningIDs = << >> /\ ~Retry(s) /\ ~Pending(s)
  <2>1. retrySigningIDs = << >> /\ ~Retry(s)
    BY <1>1, EmptyOccurs, Zenon DEF TrackInv, PhaseInv, Retry
  <2>2. QED
    BY <1>0, <1>1, <2>1, SigningFacts, Zenon DEF SigningInv
<1>6. /\ pendingProcessSignings' \in Seq(SigningIds) /\ NoRepeats(pendingProcessSignings')
      /\ Pending(s)' <=> partialSigs'[x] = assigned[x]
      /\ \A t \in SigningIds \ {s} : Pending(t)' <=> Pending(t)
  <2>1. pendingProcessSignings \in Seq(SigningIds) /\ NoRepeats(pendingProcessSignings)
    BY Zenon DEF TrackInv, TrackType, ListsInv
  <2>2. CASE partialSigs'[x] = assigned[x]
    <3>1. pendingProcessSignings' = Append(pendingProcessSignings, s)
      BY <1>1, <1>2, <1>3, <1>4, <2>2, Zenon
    <3>2. QED
      BY <1>5, <2>1, <2>2, <3>1, AppendOccurs, Zenon DEF Pending
  <2>3. CASE partialSigs'[x] # assigned[x]
    <3>1. pendingProcessSignings' = pendingProcessSignings
      BY <1>1, <1>2, <1>3, <1>4, <2>3, Zenon
    <3>2. QED
      BY <1>5, <2>1, <2>3, <3>1, Zenon DEF Pending
  <2>4. QED
    BY <2>2, <2>3, Zenon
<1>7. TrackType'
  <2>1. partialSigCount[x] + 1 \in Nat /\ partialSigs[x] \cup {a} \in SUBSET Accounts
    BY <1>2, <1>3
  <2>2. partialSigs' \in [Attempts -> SUBSET Accounts] /\ partialSigCount' \in [Attempts -> Nat]
    BY <1>1, <2>1, Zenon DEF TrackInv, TrackType
  <2>3. QED
    BY <1>1, <1>6, <2>2, Zenon DEF TrackInv, TrackType, signingVars
<1>8. ListsInv' /\ PhaseInv'
  BY <1>1, <1>6, Zenon DEF TrackInv, ListsInv, PhaseInv
<1>9. ASSUME NEW y \in Attempts PROVE AttemptInv(y)'
  <2>1. CASE y = x
    <3>1. partialSigs'[x] \subseteq assigned'[x] /\ partialSigCount'[x] = Cardinality(partialSigs'[x])
      BY <1>1, <1>2, <1>3, <1>4, Zenon
    <3>2. QED
      BY <1>1, <1>2, <2>1, <3>1, Zenon DEF AttemptInv, signingVars
  <2>2. CASE y # x
    <3>1. AttemptInv(y)
      BY AttemptFacts, Zenon
    <3>2. QED
      BY <1>1, <1>4, <2>2, <3>1, Zenon DEF AttemptInv, signingVars
  <2>3. QED
    BY <2>1, <2>2, Zenon
<1>10. ASSUME NEW t \in SigningIds PROVE SigningInv(t)' /\ NumberInv(t)'
  <2>1. /\ SigningInv(t) /\ NumberInv(t) /\ (status[t] = "WAITING" => Current(t) \in Attempts)
        /\ Current(t)' = Current(t) /\ (Retry(t)' <=> Retry(t))
    BY <1>1, SigningFacts, Zenon DEF Current, Retry, signingVars
  <2>2. NumberInv(t)'
    BY <1>1, <2>1, Zenon DEF NumberInv, signingVars
  <2>3. CASE t = s
    <3>1. assigned'[x] # {} /\ ~Retry(s)' /\ Current(s)' = x /\ status'[s] = "WAITING"
      BY <1>0, <1>1, <1>5, <2>1, <2>3, Zenon DEF signingVars
    <3>2. (currentAttempt'[s] > 0) = (currentAttempt[s] > 0) /\ assigned' = assigned
      BY <1>1, Zenon DEF signingVars
    <3>3. QED
      BY <1>1, <1>6, <2>1, <2>2, <2>3, <3>1, <3>2, Zenon DEF SigningInv
  <2>4. CASE t # s
    <3>1. Current(t) # x
      BY <1>1, <2>4, Zenon DEF Current
    <3>2. status[t] = "WAITING" => partialSigs'[Current(t)] = partialSigs[Current(t)]
      BY <1>4, <2>1, <3>1, Zenon
    <3>3. QED
      BY <1>1, <1>5, <1>6, <2>1, <2>2, <2>4, <3>2, Zenon DEF SigningInv, signingVars
  <2>5. QED
    BY <2>3, <2>4, Zenon
<1>11. QED
  BY <1>7, <1>8, <1>9, <1>10, Zenon DEF TrackInv

\* An attempt expires and is deleted; if it lacks signatures its signing is retried.
LEMMA ExpireStep ==
  ASSUME TrackInv, NEW deactivated, HandleExpiredSigning(deactivated)
  PROVE  TrackInv'
<1>0. PICK x : x = Head(signingExpirations)
  BY Zenon
<1>1. /\ signingExpirations \in Seq(Attempts) /\ NoRepeats(signingExpirations)
      /\ signingExpirations # << >>
      /\ retrySigningIDs \in Seq(SigningIds) /\ NoRepeats(retrySigningIDs)
  BY Zenon DEF TrackInv, TrackType, ListsInv, HandleExpiredSigning, ExpirationDue
<1>2. /\ x \in Attempts /\ Occurs(x, signingExpirations)
      /\ Tail(signingExpirations) \in Seq(Attempts) /\ NoRepeats(Tail(signingExpirations))
      /\ \A y : Occurs(y, Tail(signingExpirations)) <=> y # x /\ Occurs(y, signingExpirations)
  BY <1>0, <1>1, TailOccurs, Zenon
<1>3. PICK s \in SigningIds : s = x[1] /\ x = <<s, x[2]>>
  BY <1>2, AttemptPairs, Zenon
<1>4. /\ assigned' = [assigned EXCEPT ![x] = {}]
      /\ partialSigs' = [partialSigs EXCEPT ![x] = {}]
      /\ partialSigCount' = [partialSigCount EXCEPT ![x] = 0]
      /\ signingExpirations' = Tail(signingExpirations)
      /\ phase = "expire"
      /\ UNCHANGED <<phase, params, signingVars, pendingProcessSignings>>
  BY <1>0, Zenon DEF HandleExpiredSigning, blockVars
<1>5. retrySigningIDs' = IF Incomplete(x) THEN Append(retrySigningIDs, s) ELSE retrySigningIDs
  BY <1>0, <1>3, Zenon DEF HandleExpiredSigning
<1>6. /\ assigned'[x] = {} /\ partialSigs'[x] = {} /\ partialSigCount'[x] = 0
      /\ \A y \in Attempts \ {x} : /\ assigned'[y] = assigned[y] /\ partialSigs'[y] = partialSigs[y]
                                   /\ partialSigCount'[y] = partialSigCount[y]
  BY <1>2, <1>4, Zenon DEF TrackInv, TrackType
<1>7. /\ AttemptInv(x) /\ (Incomplete(x) <=> assigned[x] # partialSigs[x])
      /\ assigned[x] # {}
  BY <1>2, AttemptFacts, Zenon DEF AttemptInv
<1>8. Incomplete(x) => status[s] = "WAITING" /\ x = Current(s) /\ ~Retry(s)
  <2>1. Incomplete(x) => status[s] = "WAITING" /\ x = Current(s)
    BY <1>3, <1>7, Zenon DEF AttemptInv, Current
  <2>2. QED
    BY <1>7, <2>1, SigningFacts, Zenon DEF SigningInv
<1>9. /\ retrySigningIDs' \in Seq(SigningIds) /\ NoRepeats(retrySigningIDs')
      /\ \A t : Occurs(t, retrySigningIDs') <=> (t = s /\ Incomplete(x)) \/ Retry(t)
  <2>1. CASE Incomplete(x)
    <3>1. retrySigningIDs' = Append(retrySigningIDs, s)
      BY <1>5, <2>1, Zenon
    <3>2. QED
      BY <1>1, <1>8, <2>1, <3>1, AppendOccurs, Zenon DEF Retry
  <2>2. CASE ~Incomplete(x)
    BY <1>1, <1>5, <2>2, Zenon DEF Retry
  <2>3. QED
    BY <2>1, <2>2, Zenon
<1>10. TrackType'
  BY <1>2, <1>4, <1>9, Zenon DEF TrackInv, TrackType, signingVars
<1>11. ListsInv' /\ PhaseInv'
  BY <1>2, <1>4, <1>9, Zenon DEF TrackInv, ListsInv, PhaseInv
<1>12. ASSUME NEW y \in Attempts PROVE AttemptInv(y)'
  <2>1. AttemptInv(y)
    BY AttemptFacts, Zenon
  <2>2. CASE y = x
    <3>1. ~Occurs(x, signingExpirations')
      BY <1>2, <1>4, Zenon
    <3>2. QED
      BY <1>6, <2>2, <3>1, FS_EmptySet, Zenon DEF AttemptInv
  <2>3. CASE y # x
    <3>1. Occurs(y, signingExpirations') <=> Occurs(y, signingExpirations)
      BY <1>2, <1>4, <2>3, Zenon
    <3>2. QED
      BY <1>4, <1>6, <2>1, <2>3, <3>1, Zenon DEF AttemptInv, signingVars
  <2>4. QED
    BY <2>2, <2>3, Zenon
<1>13. pendingProcessSignings = << >>
  BY <1>4, Zenon DEF TrackInv, PhaseInv
<1>14. ASSUME NEW t \in SigningIds PROVE SigningInv(t)' /\ NumberInv(t)'
  <2>1. /\ SigningInv(t) /\ NumberInv(t) /\ (status[t] = "WAITING" => Current(t) \in Attempts)
        /\ Current(t)' = Current(t)
    BY <1>4, SigningFacts, Zenon DEF Current, signingVars
  <2>2. NumberInv(t)'
    BY <1>4, <2>1, Zenon DEF NumberInv, signingVars
  <2>3. ~Pending(t) /\ ~Pending(t)' /\ (Retry(t)' <=> (t = s /\ Incomplete(x)) \/ Retry(t))
    BY <1>4, <1>9, <1>13, EmptyOccurs, Zenon DEF Pending, Retry
  <2>4. status' = status /\ currentAttempt' = currentAttempt
    BY <1>4, Zenon DEF signingVars
  <2>5. CASE Current(t) = x
    <3>1. t = s
      BY <1>3, <2>5, Zenon DEF Current
    <3>2. status[t] = "WAITING" => Retry(t)'
      BY <1>7, <2>1, <2>3, <2>5, <3>1, Zenon DEF SigningInv
    <3>3. QED
      BY <1>6, <1>8, <2>1, <2>2, <2>3, <2>4, <2>5, <3>2, Zenon DEF SigningInv
  <2>6. CASE Current(t) # x
    <3>1. Retry(t)' <=> Retry(t)
      BY <1>8, <2>3, <2>6, Zenon
    <3>2. status[t] = "WAITING" => /\ assigned'[Current(t)] = assigned[Current(t)]
                                   /\ partialSigs'[Current(t)] = partialSigs[Current(t)]
      BY <1>6, <2>1, <2>6, Zenon
    <3>3. QED
      BY <2>1, <2>2, <2>3, <2>4, <3>1, <3>2, Zenon DEF SigningInv
  <2>7. QED
    BY <2>5, <2>6, Zenon
<1>15. QED
  BY <1>10, <1>11, <1>12, <1>14, Zenon DEF TrackInv

\* Every message and every step of the EndBlocker keeps the invariant.
LEMMA NextTrackInv == TrackInv /\ [Next]_vars => TrackInv'
<1> SUFFICES ASSUME TrackInv, [Next]_vars PROVE TrackInv'
  BY Zenon
<1>1. params \in ParamChoices /\ PhaseInv
  BY Zenon DEF TrackInv, TrackType
<1>2. CASE \E g \in Groups, sel \in SUBSET Accounts : RequestSigning(g, sel)
  BY <1>2, RequestStep, Zenon
<1>3. CASE \E s \in SigningIds, a \in Accounts : SubmitSignature(s, a)
  BY <1>3, SubmitStep, Zenon
<1>4. CASE \E verified \in BOOLEAN : AggregatePartialSignatures(verified)
  BY <1>4, AggregateStep, Zenon
<1>5. CASE \E deactivated \in SUBSET Accounts : HandleExpiredSigning(deactivated)
  BY <1>5, ExpireStep, Zenon
<1>6. CASE \E sel \in SUBSET Accounts : RetrySigning(sel)
  BY <1>6, RetryStep, Zenon
<1>7. CASE HandleFailedSigning
  BY <1>7, FailStep, Zenon
<1>8. CASE \E a \in Accounts, n \in 1..MaxDEs : SubmitDEs(a, n)
  BY <1>1, <1>8, QuietStep, Zenon DEF SubmitDEs, PhaseInv, blockVars, attemptVars, trackVars
<1>9. CASE \E a \in Accounts : ResetDE(a)
  BY <1>1, <1>9, QuietStep, Zenon DEF ResetDE, PhaseInv, blockVars, attemptVars, trackVars
<1>10. CASE \E g \in Groups, a \in Accounts : ActivateMember(g, a)
  BY <1>1, <1>10, QuietStep, Zenon DEF ActivateMember, PhaseInv, blockVars, attemptVars, trackVars
<1>11. CASE \E p \in ParamChoices : UpdateParams(p)
  BY <1>1, <1>11, QuietStep, Zenon DEF UpdateParams, PhaseInv, blockVars, attemptVars, trackVars
<1>12. CASE EndBlock
  BY <1>1, <1>12, QuietStep, Zenon DEF EndBlock, PhaseInv, attemptVars, trackVars
<1>13. CASE AggregateDone
  BY <1>1, <1>13, QuietStep, Zenon DEF AggregateDone, PhaseInv, attemptVars, trackVars
<1>14. CASE ExpireDone
  BY <1>1, <1>14, QuietStep, Zenon DEF ExpireDone, PhaseInv, attemptVars, trackVars
<1>15. CASE RetryDone
  BY <1>1, <1>15, QuietStep, Zenon DEF RetryDone, PhaseInv, attemptVars, trackVars
<1>16. CASE UNCHANGED vars
  BY <1>1, <1>16, QuietStep, Zenon DEF vars, PhaseInv, blockVars, attemptVars, trackVars
<1>17. QED
  BY ZenonT(60), <1>2, <1>3, <1>4, <1>5, <1>6, <1>7, <1>8, <1>9, <1>10, <1>11, <1>12, <1>13, <1>14,
     <1>15, <1>16 DEF Next, MsgNext, BlockNext

\* Every reachable state satisfies the invariant.
LEMMA Tracked == Spec => []TrackInv
  BY InitTrackInv, NextTrackInv, PTL DEF Spec

\* No signing is lost: one that waits is pending, due for a retry or will expire, and
\* the lists of the EndBlocker name what is stored and nothing else.
THEOREM SigningsTracked == Spec => []WaitingIsTracked
  BY Tracked, TrackInvImplies, PTL

-----------------------------------------------------------------------------
(* The signings implement their lifecycle *)

\* The outcome of each status.
LEMMA Outcomes ==
  /\ Outcome("NONE") = "none" /\ Outcome("WAITING") = "waiting"
  /\ Outcome("SUCCESS") = "success" /\ Outcome("FALLEN") = "fallen"
  BY Zenon DEF Outcome

\* One status changes, one outcome changes.
LEMMA OutcomeChange ==
  ASSUME TrackType, NEW s \in SigningIds, NEW st, status' = [status EXCEPT ![s] = st]
  PROVE  [t \in SigningIds |-> Outcome(status'[t])]
           = [[t \in SigningIds |-> Outcome(status[t])] EXCEPT ![s] = Outcome(st)]
<1>1. status'[s] = st /\ \A t \in SigningIds : t # s => status'[t] = status[t]
  BY Zenon DEF TrackType
<1>2. ASSUME NEW t \in SigningIds
      PROVE  Outcome(status'[t]) = IF t = s THEN Outcome(st) ELSE Outcome(status[t])
  <2>1. CASE t = s
    BY <1>1, <2>1
  <2>2. CASE t # s
    BY <1>1, <2>2
  <2>3. QED
    BY <2>1, <2>2, Zenon
<1> DEFINE before == [t \in SigningIds |-> Outcome(status[t])]
           changed == [before EXCEPT ![s] = Outcome(st)]
<1>3. changed = [t \in SigningIds |-> IF t = s THEN Outcome(st) ELSE Outcome(status[t])]
  <2> DEFINE O(v) == Outcome(v)
  <2> HIDE DEF O
  <2>1. [[t \in SigningIds |-> O(status[t])] EXCEPT ![s] = O(st)]
          = [t \in SigningIds |-> IF t = s THEN O(st) ELSE O(status[t])]
    BY Zenon
  <2>2. QED
    BY <2>1, Zenon DEF O
<1>4. QED
  BY <1>2, <1>3, Zenon

\* A request is a request of one signing.
LEMMA RequestRefines ==
  ASSUME TrackInv, NEW g \in Groups, NEW sel \in SUBSET Accounts, RequestSigning(g, sel)
  PROVE  Lifecycle!Next
<1>1. /\ signingCount \in Nat /\ signingCount + 1 \in SigningIds /\ 1 \in SigningIds
      /\ signingCount' = signingCount + 1 /\ callbacks' = callbacks
      /\ status' = [status EXCEPT ![signingCount + 1] = "WAITING"]
  BY BoundsAssumption DEF TrackInv, TrackType, RequestSigning, NewAttempt, SigningIds
<1>2. \A s \in SigningIds :
        Outcome(status'[s]) = IF s \in (signingCount + 1)..(signingCount + 1)
                              THEN "waiting" ELSE Outcome(status[s])
  <2> SUFFICES ASSUME NEW s \in SigningIds
               PROVE  Outcome(status'[s]) = IF s \in (signingCount + 1)..(signingCount + 1)
                                            THEN "waiting" ELSE Outcome(status[s])
    BY Zenon
  <2>1. s \in (signingCount + 1)..(signingCount + 1) <=> s = signingCount + 1
    BY <1>1 DEF SigningIds
  <2>2. status'[s] = IF s = signingCount + 1 THEN "WAITING" ELSE status[s]
    BY <1>1, Zenon DEF TrackInv, TrackType
  <2>3. QED
    BY <2>1, <2>2, Outcomes, Zenon
<1>3. Lifecycle!Request(1)
  BY <1>1, <1>2 DEF Lifecycle!Request
<1>4. QED
  BY <1>1, <1>3, Zenon DEF Lifecycle!Next

\* Aggregation completes a signing or changes nothing that its owner sees.
LEMMA AggregateRefines ==
  ASSUME TrackInv, NEW verified \in BOOLEAN, AggregatePartialSignatures(verified)
  PROVE  [Lifecycle!Next]_Lifecycle!lifecycleVars
<1>0. PICK s : s = Head(pendingProcessSignings)
  BY Zenon
<1>1. s \in SigningIds /\ Pending(s)
  BY <1>0, TailOccurs, Zenon DEF Pending, TrackInv, TrackType, ListsInv, AggregatePartialSignatures
<1>2. status[s] = "WAITING" /\ TrackType
  BY <1>1, SigningFacts, Zenon DEF SigningInv, TrackInv
<1>3. CASE verified
  <2>1. /\ status' = [status EXCEPT ![s] = "SUCCESS"]
        /\ callbacks' = [callbacks EXCEPT ![s] = Append(@, "completed")]
        /\ signingCount' = signingCount
    BY <1>0, <1>3, Zenon DEF AggregatePartialSignatures
  <2>2. Lifecycle!Complete(s)
    BY <1>1, <1>2, <2>1, OutcomeChange, Outcomes, ZenonT(60) DEF Lifecycle!Complete
  <2>3. QED
    BY <1>1, <2>2, Zenon DEF Lifecycle!Next
<1>4. CASE ~verified
  BY <1>4, Zenon DEF AggregatePartialSignatures, Lifecycle!lifecycleVars
<1>5. QED
  BY <1>3, <1>4, Zenon

\* An attempt that expires without all signatures is a timeout.
LEMMA ExpireRefines ==
  ASSUME TrackInv, NEW deactivated, HandleExpiredSigning(deactivated)
  PROVE  [Lifecycle!Next]_Lifecycle!lifecycleVars
<1>0. PICK x : x = Head(signingExpirations)
  BY Zenon
<1>1. x \in Attempts
  BY <1>0, TailOccurs, Zenon
     DEF TrackInv, TrackType, ListsInv, HandleExpiredSigning, ExpirationDue
<1>2. PICK s \in SigningIds : s = x[1]
  BY <1>1, AttemptPairs, Zenon
<1>3. signingCount' = signingCount /\ status' = status
  BY Zenon DEF HandleExpiredSigning, signingVars
<1>4. CASE Incomplete(x)
  <2>1. status[s] = "WAITING"
    BY <1>1, <1>2, <1>4, AttemptFacts, Zenon DEF AttemptInv
  <2>2. callbacks' = [callbacks EXCEPT ![s] = Append(@, "timeout")]
    BY <1>0, <1>2, <1>4, Zenon DEF HandleExpiredSigning
  <2>3. Lifecycle!Timeout(s)
    BY <1>3, <2>1, <2>2, Outcomes, Zenon DEF Lifecycle!Timeout
  <2>4. QED
    BY <2>3, Zenon DEF Lifecycle!Next
<1>5. CASE ~Incomplete(x)
  <2>1. callbacks' = callbacks
    BY <1>0, <1>5, Zenon DEF HandleExpiredSigning
  <2>2. QED
    BY <1>3, <2>1, Zenon DEF Lifecycle!lifecycleVars
<1>6. QED
  BY <1>4, <1>5, Zenon

\* A new attempt is no event for the owner: the signing was waiting and still is.
LEMMA RetryRefines ==
  ASSUME TrackInv, NEW sel \in SUBSET Accounts, RetrySigning(sel)
  PROVE  UNCHANGED Lifecycle!lifecycleVars
<1>0. PICK s : s = Head(retrySigningIDs)
  BY Zenon
<1>1. s \in SigningIds /\ Retry(s)
  BY <1>0, TailOccurs, Zenon DEF Retry, TrackInv, TrackType, ListsInv, RetrySigning
<1>2. status[s] = "WAITING"
  BY <1>1, SigningFacts, Zenon DEF SigningInv
<1>3. /\ status' = [status EXCEPT ![s] = "WAITING"]
      /\ signingCount' = signingCount /\ callbacks' = callbacks
  BY <1>0, Zenon DEF RetrySigning, NewAttempt
<1>4. \A t \in SigningIds : status'[t] = status[t]
  BY <1>2, <1>3, Zenon DEF TrackInv, TrackType
<1>5. QED
  BY <1>3, <1>4 DEF Lifecycle!lifecycleVars

\* A signing that cannot be retried fails.
LEMMA FailRefines ==
  ASSUME TrackInv, HandleFailedSigning
  PROVE  Lifecycle!Next
<1>0. PICK s : s = Head(retrySigningIDs)
  BY Zenon
<1>1. s \in SigningIds /\ Retry(s)
  BY <1>0, TailOccurs, Zenon DEF Retry, TrackInv, TrackType, ListsInv, HandleFailedSigning
<1>2. status[s] = "WAITING" /\ TrackType
  BY <1>1, SigningFacts, Zenon DEF SigningInv, TrackInv
<1>3. /\ status' = [status EXCEPT ![s] = "FALLEN"]
      /\ callbacks' = [callbacks EXCEPT ![s] = Append(@, "failed")]
      /\ signingCount' = signingCount
  BY <1>0, Zenon DEF HandleFailedSigning
<1>4. Lifecycle!Fail(s)
  BY <1>1, <1>2, <1>3, OutcomeChange, Outcomes, ZenonT(60) DEF Lifecycle!Fail
<1>5. QED
  BY <1>1, <1>4, Zenon DEF Lifecycle!Next

\* Every step of the signings is a step of the lifecycle or none.
LEMMA NextRefines ==
  TrackInv /\ [Next]_vars => [Lifecycle!Next]_Lifecycle!lifecycleVars
<1> SUFFICES ASSUME TrackInv, [Next]_vars
             PROVE  [Lifecycle!Next]_Lifecycle!lifecycleVars
  BY Zenon
<1>1. CASE \E g \in Groups, sel \in SUBSET Accounts : RequestSigning(g, sel)
  BY <1>1, RequestRefines, Zenon
<1>2. CASE \E verified \in BOOLEAN : AggregatePartialSignatures(verified)
  BY <1>2, AggregateRefines, Zenon
<1>3. CASE \E deactivated \in SUBSET Accounts : HandleExpiredSigning(deactivated)
  BY <1>3, ExpireRefines, Zenon
<1>4. CASE \E sel \in SUBSET Accounts : RetrySigning(sel)
  BY <1>4, RetryRefines, Zenon
<1>5. CASE HandleFailedSigning
  BY <1>5, FailRefines, Zenon
<1>6. CASE UNCHANGED <<signingCount, status, callbacks>>
  BY <1>6, Zenon DEF Lifecycle!lifecycleVars
<1>7. \/ \E g \in Groups, sel \in SUBSET Accounts : RequestSigning(g, sel)
      \/ \E verified \in BOOLEAN : AggregatePartialSignatures(verified)
      \/ \E deactivated \in SUBSET Accounts : HandleExpiredSigning(deactivated)
      \/ \E sel \in SUBSET Accounts : RetrySigning(sel)
      \/ HandleFailedSigning
      \/ UNCHANGED <<signingCount, status, callbacks>>
  BY Zenon DEF Next, MsgNext, BlockNext, SubmitDEs, ResetDE, SubmitSignature, ActivateMember,
     UpdateParams, EndBlock, AggregateDone, ExpireDone, RetryDone, vars, signingVars
<1>8. QED
  BY <1>1, <1>2, <1>3, <1>4, <1>5, <1>6, <1>7, Zenon

\* Signing implements its lifecycle: every signing ends once and for good, and its owner
\* is told exactly once, after the timeouts.
THEOREM SigningLifecycleImplemented == Spec => ImplementsLifecycle
<1>1. Init => Lifecycle!Init
  BY Outcomes, ZenonT(60) DEF Init, Lifecycle!Init
<1>2. QED
  BY <1>1, Tracked, NextRefines, PTL DEF Spec, ImplementsLifecycle, Lifecycle!Spec
=============================================================================
