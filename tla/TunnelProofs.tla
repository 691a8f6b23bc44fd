---------------------------- MODULE TunnelProofs ----------------------------
(***************************************************************************)
(* Theorems about x/tunnel, for any number of tunnels, users and signals,  *)
(* all prices, deviations and parameters.                                  *)
(***************************************************************************)
EXTENDS Tunnel, WeightTheorems

-----------------------------------------------------------------------------
(* Tunnels and the store of active IDs *)

Records ==
  [creator : Users, kind : {"tss", "ibc"}, channel : BOOLEAN, sequence : Nat,
   deviations : Deviations, interval : Intervals, totalDeposit : Int,
   isActive : BOOLEAN]

TunnelInv ==
  \* IDs are given in order, so that a new tunnel has none of an old one.
  /\ \E n \in Nat : Created = 1..n
  /\ Created \subseteq TunnelIds
  /\ \A t \in Created : tunnels[t] \in Records
  /\ \A t : t \in activeIDs <=> t \in Created /\ tunnels[t].isActive
  /\ todo \subseteq Created
  /\ params.minDeposit \in Nat

\* Tunnel t becomes rec, and is active with less than the minimum only if it was so before
\* and lost nothing.
TunnelStep(t, rec) ==
  /\ t \in TunnelIds /\ rec \in Records
  /\ Created' = Created \cup {t} /\ tunnels'[t] = rec
  /\ \A x \in Created : x # t => tunnels'[x] = tunnels[x]
  /\ activeIDs' = IF rec.isActive THEN activeIDs \cup {t} ELSE activeIDs \ {t}
  /\ rec.isActive =>
       \/ ~(rec.totalDeposit < params.minDeposit)
       \/ /\ t \in Created /\ tunnels[t].isActive
          /\ tunnels[t].totalDeposit <= rec.totalDeposit
  /\ params' = params

\* What ActiveIsBacked says of a step.
Backed ==
  \A t \in activeIDs' :
    tunnels'[t].totalDeposit < params'.minDeposit =>
      /\ t \in activeIDs
      /\ \/ params'.minDeposit > params.minDeposit
         \/ /\ tunnels[t].totalDeposit < params.minDeposit
            /\ tunnels'[t].totalDeposit >= tunnels[t].totalDeposit

\* A step that writes one tunnel and its entry in the set of active tunnels consistently.
LEMMA TunnelStepKeeps ==
  ASSUME TunnelInv, NEW t, NEW rec, TunnelStep(t, rec), todo' \subseteq todo,
         t \in Created \/ \E n \in Nat : Created' = 1..n
  PROVE  TunnelInv' /\ Backed
<1>1. Created' = Created \cup {t} /\ tunnels'[t] = rec /\ rec \in Records
  BY Zenon DEF TunnelStep
<1>2. \E n \in Nat : Created' = 1..n
  <2>1. CASE t \in Created
    <3>1. Created' = Created
      BY <1>1, <2>1, Zenon
    <3>2. QED
      BY <3>1, Zenon DEF TunnelInv
  <2>2. QED
    BY <2>1, Zenon
<1>3. \A x : x \in activeIDs' <=> x \in Created' /\ tunnels'[x].isActive
  <2>1. CASE rec.isActive
    BY <1>1, <2>1, Zenon DEF TunnelInv, TunnelStep
  <2>2. CASE ~rec.isActive
    BY <1>1, <2>2, Zenon DEF TunnelInv, TunnelStep
  <2>3. QED
    BY <2>1, <2>2, Zenon
<1>4. TunnelInv'
  BY <1>1, <1>2, <1>3, Zenon DEF TunnelInv, TunnelStep
<1>5. ASSUME NEW x \in activeIDs', tunnels'[x].totalDeposit < params'.minDeposit
      PROVE  /\ x \in activeIDs
             /\ tunnels[x].totalDeposit < params.minDeposit
             /\ tunnels'[x].totalDeposit >= tunnels[x].totalDeposit
  <2>1. x \in Created' /\ tunnels'[x].isActive /\ params' = params
    BY <1>3, <1>5, Zenon DEF TunnelStep
  <2>2. CASE x # t
    <3>1. x \in Created /\ tunnels'[x] = tunnels[x]
      BY <1>1, <2>1, <2>2, Zenon DEF TunnelStep
    <3>2. tunnels[x].totalDeposit \in Int
      BY <3>1, ZenonT(60) DEF TunnelInv, Records
    <3>3. x \in activeIDs
      BY <2>1, <3>1, Zenon DEF TunnelInv
    <3>4. tunnels'[x].totalDeposit >= tunnels[x].totalDeposit
      BY <3>1, <3>2
    <3>5. QED
      BY <1>5, <2>1, <3>1, <3>3, <3>4, Zenon
  <2>3. CASE x = t
    <3>1. /\ t \in Created /\ tunnels[t].isActive
          /\ tunnels[t].totalDeposit <= rec.totalDeposit
      BY <1>1, <1>5, <2>1, <2>3, Zenon DEF TunnelStep
    <3>2. /\ tunnels[t].totalDeposit \in Int /\ rec.totalDeposit \in Int
          /\ params.minDeposit \in Int
      BY <1>1, <3>1 DEF TunnelInv, Records
    <3>3. rec.totalDeposit < params.minDeposit
      BY <1>1, <1>5, <2>1, <2>3, Zenon
    <3>4. /\ tunnels[t].totalDeposit < params.minDeposit
          /\ rec.totalDeposit >= tunnels[t].totalDeposit
      BY <3>1, <3>2, <3>3
    <3>5. QED
      BY <1>1, <2>3, <3>1, <3>4, Zenon DEF TunnelInv
  <2>4. QED
    BY <2>2, <2>3, Zenon
<1>6. QED
  BY <1>4, <1>5, Zenon DEF Backed

\* A step that leaves the tunnels alone; governance may change the minimum.
LEMMA OtherStepKeeps ==
  ASSUME TunnelInv, UNCHANGED <<tunnels, activeIDs>>, todo' \subseteq Created,
         params'.minDeposit \in Nat
  PROVE  TunnelInv' /\ Backed
<1>1. TunnelInv'
  BY Zenon DEF TunnelInv, Created
<1>2. ASSUME NEW t \in activeIDs', tunnels'[t].totalDeposit < params'.minDeposit
      PROVE  /\ t \in activeIDs
             /\ \/ params'.minDeposit > params.minDeposit
                \/ /\ tunnels[t].totalDeposit < params.minDeposit
                   /\ tunnels'[t].totalDeposit >= tunnels[t].totalDeposit
  <2>1. t \in activeIDs /\ tunnels'[t] = tunnels[t] /\ tunnels[t] \in Records
    BY <1>2, Zenon DEF TunnelInv
  <2>2. tunnels[t].totalDeposit \in Int /\ params.minDeposit \in Nat
    BY <2>1, ZenonT(60) DEF TunnelInv, Records
  <2>3. QED
    BY <1>2, <2>1, <2>2
<1>3. QED
  BY <1>1, <1>2, Zenon DEF Backed

\* A change of one tunnel that leaves its deposit, and whether it is active, alone.
LEMMA SettingsStep ==
  ASSUME TunnelInv, NEW t \in Created, NEW rec \in Records, tunnels' = [tunnels EXCEPT ![t] = rec],
         rec.isActive = tunnels[t].isActive, rec.totalDeposit = tunnels[t].totalDeposit,
         UNCHANGED <<activeIDs, params>>
  PROVE  TunnelStep(t, rec)
<1>1. /\ Created' = Created /\ tunnels'[t] = rec
      /\ \A x \in Created : x # t => tunnels'[x] = tunnels[x]
  BY Zenon DEF Created
<1>2. Created \cup {t} = Created /\ t \in TunnelIds
  BY Zenon DEF TunnelInv
<1>3. rec.isActive <=> t \in activeIDs
  BY Zenon DEF TunnelInv
<1>4. activeIDs' = IF rec.isActive THEN activeIDs \cup {t} ELSE activeIDs \ {t}
  BY <1>3, ZenonT(60)
<1>5. rec.totalDeposit \in Int
  BY ZenonT(60) DEF Records
<1>6. tunnels[t].totalDeposit <= rec.totalDeposit
  BY <1>5
<1>7. QED
  BY <1>1, <1>2, <1>4, <1>6, Zenon DEF TunnelStep

\* A step that changes the settings of a tunnel only.
LEMMA SettingsKeep ==
  ASSUME TunnelInv, NEW t \in Created, NEW rec \in Records, tunnels' = [tunnels EXCEPT ![t] = rec],
         rec.isActive = tunnels[t].isActive, rec.totalDeposit = tunnels[t].totalDeposit,
         UNCHANGED <<activeIDs, params>>, todo' \subseteq todo
  PROVE  TunnelInv' /\ Backed
  BY SettingsStep, TunnelStepKeeps, Zenon

\* MsgCreateTunnel: the tunnel is new, not active, and has its first deposit.
LEMMA CreateTunnelKeeps ==
  ASSUME TunnelInv, NEW u \in Users, NEW kind \in {"tss", "ibc"}, NEW d \in Deviations,
         NEW i \in Intervals, NEW amount \in Amounts \cup {0},
         CreateTunnel(u, kind, d, i, amount)
  PROVE  TunnelInv' /\ Backed
<1>1. PICK t : t = Cardinality(Created) + 1
  BY Zenon
<1>2. PICK rec : rec = [[creator |-> u, kind |-> kind, channel |-> FALSE, sequence |-> 0,
                         deviations |-> d, interval |-> i, totalDeposit |-> 0,
                         isActive |-> FALSE] EXCEPT !.totalDeposit = @ + amount]
  BY Zenon
<1>3. /\ tunnels' = [x \in Created \cup {t} |-> IF x = t THEN rec ELSE tunnels[x]]
      /\ t \in TunnelIds /\ UNCHANGED <<activeIDs, params, todo>>
  BY <1>1, <1>2, Zenon DEF CreateTunnel, Deposit, envVars
<1>4. /\ Created' = Created \cup {t} /\ tunnels'[t] = rec
      /\ \A x \in Created : x # t => tunnels'[x] = tunnels[x]
  BY <1>3, Zenon DEF Created
<1>5. PICK n \in Nat : Created = 1..n
  BY Zenon DEF TunnelInv
<1>6. t = n + 1
  <2>1. 1 \in Int /\ n \in Int
    BY <1>5
  <2>2. Cardinality(1..n) = IF 1 > n THEN 0 ELSE n - 1 + 1
    BY <2>1, FS_Interval, Zenon
  <2>3. t = Cardinality(1..n) + 1
    BY <1>1, <1>5, Zenon
  <2>4. Cardinality(1..n) = n
    BY <1>5, <2>2
  <2>5. QED
    BY <2>3, <2>4, Zenon
<1>7. Created' = 1..(n + 1) /\ t \notin Created
  BY <1>4, <1>5, <1>6
<1>8. rec \in Records /\ ~rec.isActive
  <2>1. amount \in Nat
    BY TunnelAssumption
  <2>2. 0 + amount \in Int /\ 0 \in Nat
    BY <2>1
  <2>3. rec = [creator |-> u, kind |-> kind, channel |-> FALSE, sequence |-> 0,
               deviations |-> d, interval |-> i, totalDeposit |-> 0 + amount,
               isActive |-> FALSE]
    BY <1>2, ZenonT(60)
  <2>4. QED
    BY <2>2, <2>3, ZenonT(60) DEF Records
<1>9. activeIDs' = activeIDs \ {t}
  <2>1. t \notin activeIDs
    BY <1>7, Zenon DEF TunnelInv
  <2>2. QED
    BY <1>3, <2>1, ZenonT(60)
<1>10. TunnelStep(t, rec)
  BY <1>3, <1>4, <1>8, <1>9, Zenon DEF TunnelStep
<1>11. n + 1 \in Nat
  BY <1>5
<1>12. QED
  BY <1>3, <1>7, <1>10, <1>11, TunnelStepKeeps, ZenonT(60)

\* MsgDepositToTunnel only adds to the deposit.
LEMMA DepositKeeps ==
  ASSUME TunnelInv, NEW t \in TunnelIds, NEW u \in Users, NEW amount \in Amounts,
         DepositToTunnel(t, u, amount)
  PROVE  TunnelInv' /\ Backed
<1>1. PICK rec : rec = [tunnels[t] EXCEPT !.totalDeposit = @ + amount]
  BY Zenon
<1>2. /\ t \in Created /\ UNCHANGED <<activeIDs, params, todo>>
      /\ tunnels' = [x \in Created \cup {t} |-> IF x = t THEN rec ELSE tunnels[x]]
  BY <1>1, Zenon DEF DepositToTunnel, Deposit, envVars
<1>3. /\ Created' = Created \cup {t} /\ tunnels'[t] = rec
      /\ \A x \in Created : x # t => tunnels'[x] = tunnels[x]
  BY <1>2, Zenon DEF Created
<1>4. tunnels[t] \in Records /\ amount \in Nat
  BY <1>2, TunnelAssumption, Zenon DEF TunnelInv
<1>5. /\ rec \in Records /\ rec.isActive = tunnels[t].isActive
      /\ tunnels[t].totalDeposit <= rec.totalDeposit
  BY <1>1, <1>4 DEF Records
<1>6. activeIDs' = IF rec.isActive THEN activeIDs \cup {t} ELSE activeIDs \ {t}
  <2>1. rec.isActive <=> t \in activeIDs
    BY <1>2, <1>5, Zenon DEF TunnelInv
  <2>2. QED
    BY <1>2, <2>1, ZenonT(60)
<1>7. TunnelStep(t, rec)
  BY <1>2, <1>3, <1>5, <1>6, ZenonT(60) DEF TunnelStep
<1>8. QED
  BY <1>2, <1>7, TunnelStepKeeps, Zenon

\* A withdrawal that leaves too little deactivates the tunnel.
LEMMA WithdrawKeeps ==
  ASSUME TunnelInv, NEW t \in TunnelIds, NEW u \in Users, NEW amount \in Amounts,
         WithdrawFromTunnel(t, u, amount)
  PROVE  TunnelInv' /\ Backed
<1>1. PICK left, tooLow :
        /\ left = tunnels[t].totalDeposit - amount
        /\ tooLow = (tunnels[t].isActive /\ ~(left >= params.minDeposit))
  BY Zenon
<1>2. PICK rec : rec = [tunnels[t] EXCEPT !.totalDeposit = left, !.isActive = @ /\ ~tooLow]
  BY Zenon
<1>3. t \in Created /\ UNCHANGED <<params, todo>>
  BY Zenon DEF WithdrawFromTunnel, envVars
<1>4. /\ tunnels' = [tunnels EXCEPT ![t].totalDeposit = left, ![t].isActive = @ /\ ~tooLow]
      /\ activeIDs' = IF tooLow THEN activeIDs \ {t} ELSE activeIDs
  BY <1>1, Zenon DEF WithdrawFromTunnel, MeetsDeposit
<1>5. tunnels[t] \in Records /\ amount \in Nat /\ params.minDeposit \in Nat
  BY <1>3, TunnelAssumption, Zenon DEF TunnelInv
<1>6. left \in Int /\ tooLow \in BOOLEAN
  BY <1>1, <1>5 DEF Records
<1>7. /\ rec \in Records /\ rec.totalDeposit = left
      /\ rec.isActive <=> tunnels[t].isActive /\ left >= params.minDeposit
  BY <1>1, <1>2, <1>5, <1>6, ZenonT(60) DEF Records
<1>8. /\ Created' = Created \cup {t} /\ tunnels'[t] = rec
      /\ \A x \in Created : x # t => tunnels'[x] = tunnels[x]
  BY <1>2, <1>3, <1>4, <1>5, ZenonT(60) DEF Created, Records
<1>9. activeIDs' = IF rec.isActive THEN activeIDs \cup {t} ELSE activeIDs \ {t}
  <2>1. tunnels[t].isActive <=> t \in activeIDs
    BY <1>3, Zenon DEF TunnelInv
  <2>2. tooLow <=> tunnels[t].isActive /\ ~rec.isActive
    BY <1>1, <1>7, Zenon
  <2>3. rec.isActive => tunnels[t].isActive
    BY <1>7, Zenon
  <2>4. QED
    BY <1>4, <2>1, <2>2, <2>3, ZenonT(60)
<1>10. rec.isActive => ~(rec.totalDeposit < params.minDeposit)
  BY <1>5, <1>6, <1>7, SMTT(30)
<1>11. TunnelStep(t, rec)
  BY <1>3, <1>7, <1>8, <1>9, <1>10, ZenonT(60) DEF TunnelStep
<1>12. QED
  BY <1>3, <1>11, TunnelStepKeeps, Zenon

\* MsgUpdateRoute changes the route only.
LEMMA UpdateRouteKeeps ==
  ASSUME TunnelInv, NEW t \in TunnelIds, UpdateRoute(t)
  PROVE  TunnelInv' /\ Backed
<1>1. PICK rec : rec = [tunnels[t] EXCEPT !.channel = TRUE]
  BY Zenon
<1>2. t \in Created /\ UNCHANGED <<activeIDs, params, todo>>
  BY Zenon DEF UpdateRoute, envVars
<1>3. tunnels' = [tunnels EXCEPT ![t] = rec]
  BY <1>1, <1>2, Zenon DEF UpdateRoute, Created
<1>4. tunnels[t] \in Records
  BY <1>2, Zenon DEF TunnelInv
<1>5. /\ rec \in Records /\ rec.isActive = tunnels[t].isActive
      /\ rec.totalDeposit = tunnels[t].totalDeposit
  BY <1>1, <1>4, ZenonT(60) DEF Records
<1>6. QED
  BY <1>2, <1>3, <1>5, SettingsKeep, ZenonT(60)

\* MsgUpdateSignalsAndInterval changes the signals and the interval only.
LEMMA UpdateSignalsKeeps ==
  ASSUME TunnelInv, NEW t \in TunnelIds, NEW d \in Deviations, NEW i \in Intervals,
         UpdateSignalsAndInterval(t, d, i)
  PROVE  TunnelInv' /\ Backed
<1>1. PICK rec : rec = [tunnels[t] EXCEPT !.deviations = d, !.interval = i]
  BY Zenon
<1>2. t \in Created /\ UNCHANGED <<activeIDs, params, todo>>
  BY Zenon DEF UpdateSignalsAndInterval, envVars
<1>3. tunnels' = [tunnels EXCEPT ![t].deviations = d, ![t].interval = i]
  BY Zenon DEF UpdateSignalsAndInterval
<1>4. tunnels[t] \in Records
  BY <1>2, Zenon DEF TunnelInv
<1>5. tunnels' = [tunnels EXCEPT ![t] = rec]
  BY <1>1, <1>2, <1>3, <1>4, ZenonT(60) DEF Created, Records
<1>6. /\ rec \in Records /\ rec.isActive = tunnels[t].isActive
      /\ rec.totalDeposit = tunnels[t].totalDeposit
  BY <1>1, <1>4, ZenonT(60) DEF Records
<1>7. QED
  BY <1>2, <1>5, <1>6, SettingsKeep, ZenonT(60)

\* A tunnel becomes active only with the minimum deposit.
LEMMA ActivateKeeps ==
  ASSUME TunnelInv, NEW t \in TunnelIds, Activate(t)
  PROVE  TunnelInv' /\ Backed
<1>1. PICK rec : rec = [tunnels[t] EXCEPT !.isActive = TRUE]
  BY Zenon
<1>2. t \in Created /\ UNCHANGED <<params, todo>> /\ activeIDs' = activeIDs \cup {t}
  BY Zenon DEF Activate, ActivateTunnel, envVars
<1>3. tunnels' = [tunnels EXCEPT ![t] = rec]
  BY <1>1, <1>2, Zenon DEF Activate, ActivateTunnel, Created
<1>4. tunnels[t] \in Records /\ tunnels[t].totalDeposit >= params.minDeposit
  BY <1>2, Zenon DEF TunnelInv, Activate, ActivateTunnel, MeetsDeposit
<1>5. rec \in Records /\ rec.isActive /\ rec.totalDeposit = tunnels[t].totalDeposit
  BY <1>1, <1>4, ZenonT(60) DEF Records
<1>6. ~(rec.totalDeposit < params.minDeposit)
  BY <1>4, <1>5 DEF TunnelInv, Records
<1>7. /\ Created' = Created \cup {t} /\ tunnels'[t] = rec
      /\ \A x \in Created : x # t => tunnels'[x] = tunnels[x]
  BY <1>2, <1>3, Zenon DEF Created
<1>8. TunnelStep(t, rec)
  BY <1>2, <1>5, <1>6, <1>7, ZenonT(60) DEF TunnelStep
<1>9. QED
  BY <1>2, <1>8, TunnelStepKeeps, ZenonT(60)

\* DeactivateTunnel clears the flag and the entry together.
LEMMA DeactivateTunnelKeeps ==
  ASSUME TunnelInv, NEW t \in Created, DeactivateTunnel(t), params' = params, todo' \subseteq todo
  PROVE  TunnelInv' /\ Backed
<1>1. PICK rec : rec = [tunnels[t] EXCEPT !.isActive = FALSE]
  BY Zenon
<1>2. activeIDs' = activeIDs \ {t} /\ tunnels' = [tunnels EXCEPT ![t] = rec]
  BY <1>1, Zenon DEF DeactivateTunnel, Created
<1>3. tunnels[t] \in Records /\ t \in TunnelIds
  BY Zenon DEF TunnelInv
<1>4. rec \in Records /\ ~rec.isActive
  BY <1>1, <1>3, ZenonT(60) DEF Records
<1>5. /\ Created' = Created \cup {t} /\ tunnels'[t] = rec
      /\ \A x \in Created : x # t => tunnels'[x] = tunnels[x]
  BY <1>2, Zenon DEF Created
<1>6. TunnelStep(t, rec)
  BY <1>2, <1>3, <1>4, <1>5, ZenonT(60) DEF TunnelStep
<1>7. QED
  BY <1>6, TunnelStepKeeps, Zenon

\* CreatePacket advances the sequence only.
LEMMA CreatePacketKeeps ==
  ASSUME TunnelInv, NEW t \in Created, NEW prices, CreatePacket(t, prices),
         UNCHANGED <<activeIDs, params>>, todo' \subseteq todo
  PROVE  TunnelInv' /\ Backed
<1>1. PICK rec : rec = [tunnels[t] EXCEPT !.sequence = @ + 1]
  BY Zenon
<1>2. tunnels' = [tunnels EXCEPT ![t] = rec]
  BY <1>1, Zenon DEF CreatePacket, Created
<1>3. tunnels[t] \in Records
  BY Zenon DEF TunnelInv
<1>4. /\ rec \in Records /\ rec.isActive = tunnels[t].isActive
      /\ rec.totalDeposit = tunnels[t].totalDeposit
  BY <1>1, <1>3, SMTT(30) DEF Records
<1>5. QED
  BY <1>2, <1>4, SettingsKeep, ZenonT(60)

\* One round of ProduceActiveTunnelPackets: a packet, a deactivation, or neither.
LEMMA ProduceKeeps ==
  ASSUME TunnelInv, NEW t \in todo, NEW accepted \in BOOLEAN, Produce(t, accepted)
  PROVE  TunnelInv' /\ Backed
<1>1. t \in Created /\ params' = params /\ todo' \subseteq todo /\ todo' \subseteq Created
  BY Zenon DEF TunnelInv, Produce, envVars
<1>2. CASE DeactivateTunnel(t)
  BY <1>1, <1>2, DeactivateTunnelKeeps, Zenon
<1>3. CASE CreatePacket(t, GenerateNewPrices(t)) /\ UNCHANGED activeIDs
  BY <1>1, <1>3, CreatePacketKeeps, ZenonT(60)
<1>4. CASE UNCHANGED <<tunnels, activeIDs>>
  <2>1. params'.minDeposit \in Nat
    BY <1>1, Zenon DEF TunnelInv
  <2>2. QED
    BY <1>1, <1>4, <2>1, OtherStepKeeps, ZenonT(60)
<1>5. QED
  BY <1>2, <1>3, <1>4, ZenonT(60) DEF Produce, PacketRefused

\* Every step keeps the set of active tunnels exact, and activates only what is backed by a deposit.
LEMMA NextKeepsTunnels ==
  ASSUME TunnelInv, Next \/ UNCHANGED vars
  PROVE  TunnelInv' /\ Backed
<1>1. CASE UNCHANGED <<tunnels, activeIDs, params>> /\ todo' \subseteq Created
  <2>1. params'.minDeposit \in Nat
    BY <1>1, Zenon DEF TunnelInv
  <2>2. QED
    BY <1>1, <2>1, OtherStepKeeps, ZenonT(60)
<1>2. CASE UNCHANGED vars
  <2>1. UNCHANGED <<tunnels, activeIDs, params, todo>>
    BY <1>2, Zenon DEF vars, envVars
  <2>2. QED
    BY <1>1, <2>1, Zenon DEF TunnelInv
<1>3. ASSUME NEW u \in Users, NEW kind \in {"tss", "ibc"}, NEW d \in Deviations,
             NEW i \in Intervals, NEW amount \in Amounts \cup {0},
             CreateTunnel(u, kind, d, i, amount)
      PROVE  TunnelInv' /\ Backed
  BY <1>3, CreateTunnelKeeps, Zenon
<1>4. ASSUME NEW t \in TunnelIds, NEW u \in Users, NEW amount \in Amounts,
             DepositToTunnel(t, u, amount) \/ WithdrawFromTunnel(t, u, amount)
      PROVE  TunnelInv' /\ Backed
  BY <1>4, DepositKeeps, WithdrawKeeps, ZenonT(60)
<1>5. ASSUME NEW t \in TunnelIds, UpdateRoute(t) \/ Activate(t)
      PROVE  TunnelInv' /\ Backed
  BY <1>5, UpdateRouteKeeps, ActivateKeeps, ZenonT(60)
<1>6. ASSUME NEW t \in TunnelIds, NEW d \in Deviations, NEW i \in Intervals,
             UpdateSignalsAndInterval(t, d, i)
      PROVE  TunnelInv' /\ Backed
  BY <1>6, UpdateSignalsKeeps, Zenon
<1>7. ASSUME NEW t \in TunnelIds, Deactivate(t)
      PROVE  TunnelInv' /\ Backed
  <2>1. t \in Created /\ DeactivateTunnel(t) /\ params' = params /\ todo' \subseteq todo
    BY <1>7, Zenon DEF Deactivate, envVars
  <2>2. QED
    BY <2>1, DeactivateTunnelKeeps, Zenon
<1>8. ASSUME NEW t \in TunnelIds, TriggerTunnel(t)
      PROVE  TunnelInv' /\ Backed
  <2>1. PICK prices : CreatePacket(t, prices)
    BY <1>8, Zenon DEF TriggerTunnel
  <2>2. t \in Created /\ UNCHANGED <<activeIDs, params>> /\ todo' \subseteq todo
    BY <1>8, Zenon DEF TriggerTunnel, envVars
  <2>3. QED
    BY <2>1, <2>2, CreatePacketKeeps, ZenonT(60)
<1>9. ASSUME NEW t \in TunnelIds, NEW amount \in Amounts, WithdrawFeePayerFunds(t, amount)
      PROVE  TunnelInv' /\ Backed
  BY <1>1, <1>9, Zenon DEF WithdrawFeePayerFunds, envVars, TunnelInv
<1>10. ASSUME NEW t \in TunnelIds, NEW u \in Users, NEW amount \in Amounts,
              FundFeePayer(t, u, amount)
       PROVE  TunnelInv' /\ Backed
  BY <1>1, <1>10, Zenon DEF FundFeePayer, envVars, TunnelInv
<1>11. ASSUME NEW s \in Signals, NEW price \in Prices \cup {0}, PublishPrice(s, price)
       PROVE  TunnelInv' /\ Backed
  BY <1>1, <1>11, Zenon DEF PublishPrice, TunnelInv
<1>12. ASSUME NEW fee \in SigningFees, ChangeSigningFee(fee)
       PROVE  TunnelInv' /\ Backed
  BY <1>1, <1>12, Zenon DEF ChangeSigningFee, TunnelInv
<1>13. ASSUME EndBlock \/ NextBlock
       PROVE  TunnelInv' /\ Backed
  BY <1>1, <1>13, Zenon DEF EndBlock, NextBlock, envVars, TunnelInv
<1>14. ASSUME NEW min \in MinDeposits, NEW base \in BaseFees, UpdateParams(min, base)
       PROVE  TunnelInv' /\ Backed
  <2>1. /\ UNCHANGED <<tunnels, activeIDs>> /\ todo' \subseteq Created
        /\ params' = [minDeposit |-> min, baseFee |-> base]
    BY <1>14, Zenon DEF UpdateParams, TunnelInv
  <2>2. params'.minDeposit \in Nat
    BY <2>1, TunnelAssumption, Zenon
  <2>3. QED
    BY <2>1, <2>2, OtherStepKeeps, ZenonT(60)
<1>15. ASSUME NEW t \in todo, NEW accepted \in BOOLEAN, Produce(t, accepted)
       PROVE  TunnelInv' /\ Backed
  BY <1>15, ProduceKeeps, Zenon
<1>16. QED
  BY <1>2, <1>3, <1>4, <1>5, <1>6, <1>7, <1>8, <1>9, <1>10, <1>11, <1>12, <1>13, <1>14,
     <1>15, ZenonT(60) DEF Next

\* At first there are no tunnels.
LEMMA InitTunnels == Init => TunnelInv
<1> SUFFICES ASSUME Init PROVE TunnelInv
  BY ZenonT(60)
<1>1. tunnels = << >> /\ activeIDs = {} /\ todo = {} /\ params.minDeposit \in Nat
  BY TunnelAssumption, ZenonT(60) DEF Init
<1>2. Created = {} /\ {} = 1..0
  BY <1>1 DEF Created
<1>3. \E n \in Nat : Created = 1..n
  BY <1>2, ZenonT(60)
<1>4. QED
  BY <1>1, <1>2, <1>3, ZenonT(60) DEF TunnelInv

\* The invariant of the tunnels holds always.
LEMMA TunnelsHold == Spec => []TunnelInv
<1>1. TunnelInv /\ [Next]_vars => TunnelInv'
  BY NextKeepsTunnels, Zenon
<1>2. QED
  BY InitTunnels, <1>1, PTL DEF Spec

\* The EndBlocker visits exactly the tunnels whose flag says they are active, and only
\* governance leaves an active tunnel with less than the minimum deposit, for any number
\* of tunnels, users and coins (ActivateTunnel, DeactivateTunnel, WithdrawFromTunnel).
THEOREM ActiveBacked == Spec => ActiveIsBacked
<1> DEFINE Step == /\ activeIDs' = {t \in Created' : tunnels'[t].isActive}
                   /\ \A t \in activeIDs' :
                        tunnels'[t].totalDeposit < params'.minDeposit =>
                          /\ t \in activeIDs
                          /\ \/ params'.minDeposit > params.minDeposit
                             \/ /\ tunnels[t].totalDeposit < params.minDeposit
                                /\ tunnels'[t].totalDeposit >= tunnels[t].totalDeposit
<1>1. TunnelInv /\ [Next]_vars => [Step]_vars
  <2> SUFFICES ASSUME TunnelInv, [Next]_vars PROVE Step
    BY ZenonT(60)
  <2>1. TunnelInv' /\ Backed
    BY NextKeepsTunnels, Zenon
  <2>2. activeIDs' = {t \in Created' : tunnels'[t].isActive}
    BY <2>1, Zenon DEF TunnelInv
  <2>3. QED
    BY <2>1, <2>2, Zenon DEF Backed
<1>2. QED
  BY TunnelsHold, <1>1, PTL DEF Spec, ActiveIsBacked

-----------------------------------------------------------------------------
(* Prices and packets *)

\* Every price of p was delivered: it is the one of q.
Delivered(p, q) == \A s \in DOMAIN p : s \in DOMAIN q /\ q[s] = p[s]

PriceInv ==
  /\ DOMAIN latestPrices = TunnelIds /\ DOMAIN packets = TunnelIds
  /\ feeds \in [Signals -> Nat]
  /\ \A t \in TunnelIds :
       /\ Delivered(latestPrices[t].prices, packets[t].last)
       /\ \A s \in DOMAIN latestPrices[t].prices : latestPrices[t].prices[s] \in Nat
       /\ packets[t].count \in Nat

\* What FreshAfterPacket says of a step.
Fresh ==
  \A t \in Created : packets'[t].count > packets[t].count =>
    \A s \in DOMAIN tunnels[t].deviations :
      DeviationOf(t, s)' < tunnels[t].deviations[s].hard

\* What a packet of tunnel t carries: published prices, and those of all signals over
\* their hard deviation.
Complete(t, prices) ==
  /\ DOMAIN prices \subseteq DOMAIN tunnels[t].deviations
  /\ \A s \in DOMAIN prices : prices[s] = feeds[s]
  /\ \A s \in DOMAIN tunnels[t].deviations :
       s \in DOMAIN prices \/ DeviationOf(t, s) < tunnels[t].deviations[s].hard

\* Writing the same new prices over two price maps keeps them in agreement.
LEMMA OverDelivered ==
  ASSUME NEW n, NEW p, NEW q, Delivered(p, q)
  PROVE  Delivered(Over(n, p), Over(n, q))
<1>1. DOMAIN Over(n, p) = DOMAIN n \cup DOMAIN p /\ DOMAIN Over(n, q) = DOMAIN n \cup DOMAIN q
  BY Zenon DEF Over
<1>2. \A s \in DOMAIN n : Over(n, p)[s] = n[s] /\ Over(n, q)[s] = n[s]
  BY Zenon DEF Over
<1>3. \A s \in DOMAIN p : s \notin DOMAIN n => Over(n, p)[s] = p[s]
  BY Zenon DEF Over
<1>4. \A s \in DOMAIN q : s \notin DOMAIN n => Over(n, q)[s] = q[s]
  BY Zenon DEF Over
<1>5. QED
  BY <1>1, <1>2, <1>3, <1>4, ZenonT(60) DEF Delivered

\* A deviation is an integer, from the price 0 too.
LEMMA DeviationIsInt ==
  ASSUME NEW old \in Nat, NEW new \in Nat
  PROVE  calculateDeviationBPS(old, new) \in Int
<1>1. CASE old = 0
  BY <1>1 DEF calculateDeviationBPS, MaxDeviation
<1>2. CASE old > 0
  <2>1. (IF new > old THEN new - old ELSE old - new) * 10000 \in Int
    OBVIOUS
  <2>2. ((IF new > old THEN new - old ELSE old - new) * 10000) \div old \in Int
    BY <1>2, <2>1, SMTT(30)
  <2>3. QED
    BY <1>2, <2>2, SMTT(30) DEF calculateDeviationBPS
<1>3. QED
  BY <1>1, <1>2, SMTT(30)

\* So is the deviation of a signal from what was last sent.
LEMMA DeviationOfIsInt ==
  ASSUME PriceInv, NEW t \in TunnelIds, NEW s \in Signals
  PROVE  DeviationOf(t, s) \in Int
<1>1. SentPrice(t, s) \in Nat
  <2>1. CASE s \in DOMAIN latestPrices[t].prices
    BY <2>1, Zenon DEF PriceInv, SentPrice
  <2>2. CASE s \notin DOMAIN latestPrices[t].prices
    BY <2>2 DEF SentPrice
  <2>3. QED
    BY <2>1, <2>2, Zenon
<1>2. feeds[s] \in Nat
  BY DEF PriceInv
<1>3. QED
  BY <1>1, <1>2, DeviationIsInt, ZenonT(60) DEF DeviationOf

\* GenerateNewPrices leaves out no signal that is due, if it returns any.
LEMMA GeneratedIsComplete ==
  ASSUME TunnelInv, PriceInv, NEW t \in Created, DOMAIN GenerateNewPrices(t) # {}
  PROVE  Complete(t, GenerateNewPrices(t))
<1> DEFINE dev == tunnels[t].deviations
           Reaches(s, bps) == SendAll(t) \/ DeviationOf(t, s) >= bps
           chosen == {s \in DOMAIN dev : Reaches(s, dev[s].hard) \/ Reaches(s, dev[s].soft)}
           prices == GenerateNewPrices(t)
<1>1. DOMAIN << >> = {}
  OBVIOUS
<1>2. prices = [s \in chosen |-> feeds[s]]
  BY <1>1, Zenon DEF GenerateNewPrices
<1>3. DOMAIN prices = chosen /\ \A s \in chosen : prices[s] = feeds[s]
  BY <1>2, Zenon
<1>4. t \in TunnelIds /\ tunnels[t] \in Records
  BY Zenon DEF TunnelInv
<1>5. dev \in Deviations
  BY <1>4, SMTT(30) DEF Records
<1>6. ASSUME NEW s \in DOMAIN dev, s \notin chosen
      PROVE  DeviationOf(t, s) < dev[s].hard
  <2>1. ~(DeviationOf(t, s) >= dev[s].hard)
    BY <1>6, Zenon
  <2>2. s \in Signals /\ dev[s].hard \in Nat
    BY <1>5, DeviationsAssumption
  <2>3. DeviationOf(t, s) \in Int
    BY <1>4, <2>2, DeviationOfIsInt, ZenonT(60)
  <2>4. QED
    BY <2>1, <2>2, <2>3, SMTT(30)
<1>7. QED
  BY <1>3, <1>6, Zenon DEF Complete

\* A packet: what the tunnel remembers was delivered, and nothing is left to send.
LEMMA PacketKeeps ==
  ASSUME TunnelInv, PriceInv, NEW t \in Created, NEW prices, NEW restart \in BOOLEAN,
         Complete(t, prices), CreatePacket(t, prices), RecordPrices(t, prices, restart),
         feeds' = feeds
  PROVE  PriceInv' /\ Fresh
<1> DEFINE old == latestPrices[t].prices
           last == packets[t].last
<1>1. t \in TunnelIds /\ tunnels[t] \in Records
  BY Zenon DEF TunnelInv
<1>2. /\ DOMAIN latestPrices' = TunnelIds /\ latestPrices'[t].prices = Over(prices, old)
      /\ \A x \in TunnelIds : x # t => latestPrices'[x] = latestPrices[x]
  BY <1>1, Zenon DEF PriceInv, RecordPrices, UpdatePrices
<1>3. /\ DOMAIN packets' = TunnelIds /\ packets'[t].last = Over(prices, last)
      /\ packets'[t].count = packets[t].count + 1
      /\ \A x \in TunnelIds : x # t => packets'[x] = packets[x]
  BY <1>1, Zenon DEF PriceInv, CreatePacket
<1>4. packets[t].count \in Nat /\ Delivered(old, last)
  BY <1>1, Zenon DEF PriceInv
<1>5. packets[t].count + 1 \in Nat
  BY <1>4, SMTT(30)
<1>6. \A s \in DOMAIN tunnels[t].deviations :
        s \in Signals /\ tunnels[t].deviations[s].hard \in Nat \ {0}
  <2>1. tunnels[t].deviations \in Deviations
    BY <1>1 DEF Records
  <2>2. QED
    BY <2>1, DeviationsAssumption, SMTT(30)
<1>7. Delivered(latestPrices'[t].prices, packets'[t].last)
  BY <1>2, <1>3, <1>4, OverDelivered, ZenonT(60)
<1>8. /\ DOMAIN Over(prices, old) = DOMAIN prices \cup DOMAIN old
      /\ \A s \in DOMAIN prices : Over(prices, old)[s] = prices[s]
      /\ \A s \in DOMAIN old : s \notin DOMAIN prices => Over(prices, old)[s] = old[s]
  BY Zenon DEF Over
<1>9. \A s \in DOMAIN latestPrices'[t].prices : latestPrices'[t].prices[s] \in Nat
  <2>1. \A s \in DOMAIN prices : s \in Signals /\ prices[s] = feeds[s]
    BY <1>6, Zenon DEF Complete
  <2>2. \A s \in Signals : feeds[s] \in Nat
    BY DEF PriceInv
  <2>3. \A s \in DOMAIN old : old[s] \in Nat
    BY <1>1, Zenon DEF PriceInv
  <2>4. QED
    BY <1>2, <1>8, <2>1, <2>2, <2>3, ZenonT(60)
<1>10. PriceInv'
  <2>1. ASSUME NEW x \in TunnelIds
        PROVE  /\ Delivered(latestPrices'[x].prices, packets'[x].last)
               /\ \A s \in DOMAIN latestPrices'[x].prices : latestPrices'[x].prices[s] \in Nat
               /\ packets'[x].count \in Nat
    <3>1. CASE x = t
      BY <1>3, <1>5, <1>7, <1>9, <3>1, ZenonT(60)
    <3>2. CASE x # t
      <4>1. latestPrices'[x] = latestPrices[x] /\ packets'[x] = packets[x]
        BY <1>2, <1>3, <3>2, ZenonT(60)
      <4>2. QED
        BY <4>1, Zenon DEF PriceInv
    <3>3. QED
      BY <3>1, <3>2, Zenon
  <2>2. feeds' \in [Signals -> Nat]
    BY Zenon DEF PriceInv
  <2>3. (\A x \in TunnelIds :
           /\ Delivered(latestPrices[x].prices, packets[x].last)
           /\ \A s \in DOMAIN latestPrices[x].prices : latestPrices[x].prices[s] \in Nat
           /\ packets[x].count \in Nat)'
    BY <2>1, Zenon DEF Delivered
  <2>4. QED
    BY <1>2, <1>3, <2>2, <2>3, ZenonT(60) DEF PriceInv
<1>11. ASSUME NEW s \in DOMAIN tunnels[t].deviations
       PROVE  DeviationOf(t, s)' < tunnels[t].deviations[s].hard
  <2>1. CASE s \in DOMAIN prices
    <3>1. SentPrice(t, s)' = feeds[s]
      BY <1>2, <1>8, <2>1, ZenonT(60) DEF SentPrice, Complete
    <3>2. DeviationOf(t, s)' = 0
      BY <3>1, Zenon DEF DeviationOf, calculateDeviationBPS
    <3>3. QED
      BY <1>6, <3>2, SMTT(30)
  <2>2. CASE s \notin DOMAIN prices
    <3>1. SentPrice(t, s)' = SentPrice(t, s)
      <4>1. CASE s \in DOMAIN old
        BY <1>2, <1>8, <2>2, <4>1, ZenonT(60) DEF SentPrice
      <4>2. CASE s \notin DOMAIN old
        BY <1>2, <1>8, <2>2, <4>2, ZenonT(60) DEF SentPrice
      <4>3. QED
        BY <4>1, <4>2, Zenon
    <3>2. DeviationOf(t, s)' = DeviationOf(t, s)
      BY <3>1, Zenon DEF DeviationOf
    <3>3. QED
      BY <2>2, <3>2, ZenonT(60) DEF Complete
  <2>3. QED
    BY <2>1, <2>2, ZenonT(60)
<1>12. ASSUME NEW x \in Created, packets'[x].count > packets[x].count
       PROVE  x = t
  <2>1. x \in TunnelIds
    BY Zenon DEF TunnelInv
  <2>2. CASE x # t
    <3>1. packets'[x].count = packets[x].count /\ packets[x].count \in Nat
      BY <1>3, <2>1, <2>2, ZenonT(60) DEF PriceInv
    <3>2. QED
      BY <1>12, <3>1, SMTT(30)
  <2>3. QED
    BY <2>2, Zenon
<1>13. Fresh
  BY <1>11, <1>12, Zenon DEF Fresh
<1>14. QED
  BY <1>10, <1>13, Zenon

\* A new tunnel has sent nothing.
LEMMA NewPricesKeep ==
  ASSUME PriceInv, NEW t \in TunnelIds, latestPrices' = [latestPrices EXCEPT ![t] = NewLatestPrices],
         UNCHANGED <<packets, feeds>>
  PROVE  PriceInv'
<1>1. NewLatestPrices.prices = << >> /\ DOMAIN << >> = {}
  BY DEF NewLatestPrices
<1>2. /\ DOMAIN latestPrices' = TunnelIds /\ latestPrices'[t].prices = << >>
      /\ \A x \in TunnelIds : x # t => latestPrices'[x] = latestPrices[x]
  BY <1>1, Zenon DEF PriceInv
<1>3. QED
  BY <1>1, <1>2, ZenonT(60) DEF PriceInv, Delivered

\* Every step keeps what a tunnel holds as sent the prices of its packets; a packet leaves no deviation
\* over the hard limit.
LEMMA NextKeepsPrices ==
  ASSUME TunnelInv, PriceInv, Next \/ UNCHANGED vars
  PROVE  PriceInv' /\ Fresh
<1>1. ASSUME UNCHANGED packets
      PROVE  Fresh
  <2>1. ASSUME NEW t \in Created PROVE ~(packets'[t].count > packets[t].count)
    <3>1. packets'[t].count = packets[t].count /\ packets[t].count \in Nat
      BY <1>1, Zenon DEF PriceInv, TunnelInv
    <3>2. QED
      BY <3>1
  <2>2. QED
    BY <2>1, Zenon DEF Fresh
<1>2. CASE UNCHANGED <<latestPrices, packets, feeds>>
  BY <1>1, <1>2, ZenonT(60) DEF PriceInv, Delivered
<1>3. CASE UNCHANGED vars
  BY <1>2, <1>3, ZenonT(60) DEF vars, envVars
<1>4. ASSUME NEW u \in Users, NEW kind \in {"tss", "ibc"}, NEW d \in Deviations,
             NEW i \in Intervals, NEW amount \in Amounts \cup {0},
             CreateTunnel(u, kind, d, i, amount)
      PROVE  PriceInv' /\ Fresh
  <2>1. PICK t : t = Cardinality(Created) + 1
    BY Zenon
  <2>2. /\ t \in TunnelIds /\ latestPrices' = [latestPrices EXCEPT ![t] = NewLatestPrices]
        /\ UNCHANGED <<packets, feeds>>
    BY <1>4, <2>1, Zenon DEF CreateTunnel, envVars
  <2>3. QED
    BY <1>1, <2>2, NewPricesKeep, ZenonT(60)
<1>5. ASSUME NEW t \in TunnelIds, NEW d \in Deviations, NEW i \in Intervals,
             UpdateSignalsAndInterval(t, d, i)
      PROVE  PriceInv' /\ Fresh
  <2>1. /\ latestPrices' = [latestPrices EXCEPT ![t] = NewLatestPrices]
        /\ UNCHANGED <<packets, feeds>>
    BY <1>5, Zenon DEF UpdateSignalsAndInterval, ResetPrices, envVars
  <2>2. QED
    BY <1>1, <2>1, NewPricesKeep, ZenonT(60)
<1>6. ASSUME NEW t \in TunnelIds, TriggerTunnel(t)
      PROVE  PriceInv' /\ Fresh
  <2>1. PICK prices : prices = [s \in DOMAIN tunnels[t].deviations |-> feeds[s]]
    BY Zenon
  <2>2. /\ t \in Created /\ CreatePacket(t, prices) /\ RecordPrices(t, prices, TRUE)
        /\ feeds' = feeds
    BY <1>6, <2>1, Zenon DEF TriggerTunnel, envVars
  <2>3. Complete(t, prices)
    BY <2>1, Zenon DEF Complete
  <2>4. QED
    BY <2>2, <2>3, PacketKeeps, Zenon
<1>7. ASSUME NEW t \in todo, NEW accepted \in BOOLEAN, Produce(t, accepted)
      PROVE  PriceInv' /\ Fresh
  <2>1. t \in Created /\ feeds' = feeds
    BY <1>7, Zenon DEF Produce, TunnelInv, envVars
  <2>2. CASE /\ DOMAIN GenerateNewPrices(t) # {} /\ CreatePacket(t, GenerateNewPrices(t))
             /\ RecordPrices(t, GenerateNewPrices(t), SendAll(t))
    <3>1. Complete(t, GenerateNewPrices(t))
      BY <2>1, <2>2, GeneratedIsComplete, ZenonT(60)
    <3>2. SendAll(t) \in BOOLEAN
      BY DEF SendAll
    <3>3. QED
      BY <2>1, <2>2, <3>1, <3>2, PacketKeeps, ZenonT(60)
  <2>3. CASE UNCHANGED <<latestPrices, packets>>
    BY <1>2, <2>1, <2>3, ZenonT(60)
  <2>4. QED
    BY <1>7, <2>2, <2>3, ZenonT(60) DEF Produce, PacketRefused
<1>8. ASSUME NEW s \in Signals, NEW price \in Prices \cup {0}, PublishPrice(s, price)
      PROVE  PriceInv' /\ Fresh
  <2>1. UNCHANGED <<latestPrices, packets>> /\ feeds' = [feeds EXCEPT ![s] = price]
    BY <1>8, Zenon DEF PublishPrice
  <2>2. price \in Nat
    BY TunnelAssumption
  <2>3. feeds' \in [Signals -> Nat]
    BY <2>1, <2>2, ZenonT(60) DEF PriceInv
  <2>4. QED
    BY <1>1, <2>1, <2>3, ZenonT(60) DEF PriceInv, Delivered
<1>9. ASSUME NEW t \in TunnelIds, NEW u \in Users, NEW amount \in Amounts,
             \/ DepositToTunnel(t, u, amount) \/ WithdrawFromTunnel(t, u, amount)
             \/ FundFeePayer(t, u, amount)
      PROVE  PriceInv' /\ Fresh
  BY <1>2, <1>9, ZenonT(60) DEF DepositToTunnel, WithdrawFromTunnel, FundFeePayer, envVars
<1>10. ASSUME NEW t \in TunnelIds, NEW amount \in Amounts, WithdrawFeePayerFunds(t, amount)
       PROVE  PriceInv' /\ Fresh
  BY <1>2, <1>10, ZenonT(60) DEF WithdrawFeePayerFunds, envVars
<1>11. ASSUME NEW t \in TunnelIds, UpdateRoute(t) \/ Activate(t) \/ Deactivate(t)
       PROVE  PriceInv' /\ Fresh
  BY <1>2, <1>11, ZenonT(60) DEF UpdateRoute, Activate, Deactivate, envVars
<1>12. ASSUME NEW min \in MinDeposits, NEW base \in BaseFees, UpdateParams(min, base)
       PROVE  PriceInv' /\ Fresh
  BY <1>2, <1>12, Zenon DEF UpdateParams
<1>13. ASSUME NEW fee \in SigningFees, ChangeSigningFee(fee)
       PROVE  PriceInv' /\ Fresh
  BY <1>2, <1>13, ZenonT(60) DEF ChangeSigningFee
<1>14. ASSUME EndBlock \/ NextBlock
       PROVE  PriceInv' /\ Fresh
  BY <1>2, <1>14, ZenonT(60) DEF EndBlock, NextBlock, envVars
<1>15. QED
  BY <1>3, <1>4, <1>5, <1>6, <1>7, <1>8, <1>9, <1>10, <1>11, <1>12, <1>13, <1>14, ZenonT(60) DEF Next

\* At first no packets were sent.
LEMMA InitPrices == Init => PriceInv
<1> SUFFICES ASSUME Init PROVE PriceInv
  OBVIOUS
<1>1. /\ latestPrices = [t \in TunnelIds |-> NewLatestPrices]
      /\ packets = [t \in TunnelIds |-> [count |-> 0, fees |-> 0, last |-> << >>]]
      /\ feeds = [s \in Signals |-> 0]
  BY Zenon DEF Init
<1>2. NewLatestPrices.prices = << >> /\ DOMAIN << >> = {} /\ 0 \in Nat
  BY DEF NewLatestPrices
<1>3. feeds \in [Signals -> Nat]
  BY <1>1, <1>2, Zenon
<1>4. QED
  BY <1>1, <1>2, <1>3, ZenonT(60) DEF PriceInv, Delivered

\* The invariant of the prices holds always.
LEMMA PricesHold == Spec => []PriceInv
<1>1. TunnelInv /\ PriceInv /\ [Next]_vars => PriceInv'
  BY NextKeepsPrices, Zenon
<1>2. QED
  BY InitPrices, TunnelsHold, <1>1, PTL DEF Spec

\* The prices a tunnel compares new ones with are those its destination received last,
\* whatever routes refuse (RecordPrices, UpdateSignalsAndInterval, ProducePacket).
THEOREM LatestDelivered == Spec => []LatestIsDelivered
<1>1. TunnelInv /\ PriceInv => LatestIsDelivered
  BY Zenon DEF TunnelInv, PriceInv, Delivered, LatestIsDelivered
<1>2. QED
  BY TunnelsHold, PricesHold, <1>1, PTL

\* A packet leaves no signal of its tunnel over its hard deviation, for all prices and
\* deviations (GenerateNewPrices, TriggerTunnel).
THEOREM FreshPackets == Spec => FreshAfterPacket
<1> DEFINE Step == \A t \in Created : packets'[t].count > packets[t].count =>
                     \A s \in DOMAIN tunnels[t].deviations :
                       DeviationOf(t, s)' < tunnels[t].deviations[s].hard
<1>1. TunnelInv /\ PriceInv /\ [Next]_vars => [Step]_vars
  BY NextKeepsPrices, Zenon DEF Fresh
<1>2. QED
  BY TunnelsHold, PricesHold, <1>1, PTL DEF Spec, FreshAfterPacket

-----------------------------------------------------------------------------
(* The module account *)

BalanceType ==
  /\ deposits \in [TunnelIds -> [Users -> Int]]
  /\ moduleBalance \in Int /\ totalFees \in Int /\ params.baseFee \in Int
  /\ \A t \in TunnelIds : packets[t].fees \in Int

\* A tunnel that is not created yet has neither deposits nor packets.
BalanceInv ==
  /\ BalanceType
  /\ ModuleBalanceExact
  /\ \A t \in TunnelIds : t \notin Created =>
       packets[t].count = 0 /\ \A u \in Users : deposits[t][u] = 0

\* The deposits in a tunnel add up to an integer.
LEMMA DepositsInInt ==
  ASSUME BalanceType, NEW t \in TunnelIds
  PROVE  DepositsIn(t) \in Int
<1>1. \A u \in Users : deposits[t][u] \in Int
  BY DEF BalanceType
<1>2. QED
  BY <1>1, TunnelAssumption, SumInt, SMTT(30) DEF DepositsIn

\* A deposit or a withdrawal changes the sums by its amount.
LEMMA DepositsChange ==
  ASSUME BalanceType, NEW t \in TunnelIds, NEW u \in Users, NEW amount \in Int,
         deposits' = [deposits EXCEPT ![t][u] = @ + amount]
  PROVE  /\ deposits' \in [TunnelIds -> [Users -> Int]]
         /\ DepositsIn(t)' = DepositsIn(t) + amount
         /\ \A x \in TunnelIds : x # t => deposits'[x] = deposits[x] /\ DepositsIn(x)' = DepositsIn(x)
         /\ SumFunctionOnSet(Deposited, TunnelIds)' = SumFunctionOnSet(Deposited, TunnelIds) + amount
         /\ SumFunctionOnSet(Deposited, TunnelIds) \in Int
<1>1. PICK f, g : f = deposits[t] /\ g = deposits'[t]
  BY Zenon
<1>2. /\ deposits' \in [TunnelIds -> [Users -> Int]]
      /\ \A x \in TunnelIds : x # t => deposits'[x] = deposits[x]
  BY DEF BalanceType
<1>3. /\ \A y \in Users : f[y] \in Int /\ g[y] \in Int
      /\ \A y \in Users : y # u => g[y] = f[y]
      /\ g[u] = f[u] + amount
  BY <1>1, <1>2, SMTT(30) DEF BalanceType
<1>4. SumFunctionOnSet(g, Users) = SumFunctionOnSet(f, Users) + (g[u] - f[u])
  BY <1>3, TunnelAssumption, SumUpdate, SMTT(30)
<1>5. SumFunctionOnSet(f, Users) \in Int
  BY <1>3, TunnelAssumption, SumInt, SMTT(30)
<1>6. SumFunctionOnSet(g, Users) = SumFunctionOnSet(f, Users) + amount
  BY <1>3, <1>4, <1>5, SMTT(30)
<1>7. DepositsIn(t) = SumFunctionOnSet(f, Users) /\ DepositsIn(t)' = SumFunctionOnSet(g, Users)
  BY <1>1, Zenon DEF DepositsIn
<1>8. \A x \in TunnelIds : x # t => DepositsIn(x)' = DepositsIn(x)
  BY <1>2, Zenon DEF DepositsIn
<1>9. \A x \in TunnelIds : DepositsIn(x) \in Int
  BY DepositsInInt, Zenon
<1>10. PICK d, e : d = Deposited /\ e = Deposited'
  BY Zenon
<1>11. \A x \in TunnelIds : d[x] = DepositsIn(x) /\ e[x] = DepositsIn(x)'
  BY <1>10, Zenon DEF Deposited
<1>12. DepositsIn(t)' \in Int /\ DepositsIn(t)' = DepositsIn(t) + amount
  BY <1>5, <1>6, <1>7, SMTT(30)
<1>13. /\ \A x \in TunnelIds : d[x] \in Int /\ e[x] \in Int
       /\ \A x \in TunnelIds : x # t => e[x] = d[x]
  <2>1. ASSUME NEW x \in TunnelIds PROVE e[x] \in Int /\ (x # t => e[x] = d[x])
    BY <1>8, <1>9, <1>11, <1>12, ZenonT(60)
  <2>2. QED
    BY <1>9, <1>11, <2>1, ZenonT(60)
<1>14. SumFunctionOnSet(e, TunnelIds) = SumFunctionOnSet(d, TunnelIds) + (e[t] - d[t])
  BY <1>13, TunnelAssumption, SumUpdate, SMTT(30)
<1>15. SumFunctionOnSet(d, TunnelIds) \in Int
  BY <1>13, TunnelAssumption, SumInt, SMTT(30)
<1>16. e[t] - d[t] = amount
  BY <1>5, <1>6, <1>7, <1>11, SMTT(30)
<1>17. SumFunctionOnSet(e, TunnelIds) = SumFunctionOnSet(d, TunnelIds) + amount
  BY <1>14, <1>16, ZenonT(60)
<1>18. /\ SumFunctionOnSet(Deposited, TunnelIds) = SumFunctionOnSet(d, TunnelIds)
       /\ SumFunctionOnSet(Deposited, TunnelIds)' = SumFunctionOnSet(e, TunnelIds)
  BY <1>10, Zenon
<1>19. QED
  BY <1>2, <1>8, <1>12, <1>15, <1>17, <1>18, ZenonT(60)

\* A packet changes the sum of the fees by the base fee.
LEMMA FeesChange ==
  ASSUME BalanceType, NEW t \in TunnelIds, NEW fee \in Int,
         packets'[t].fees = packets[t].fees + fee,
         \A x \in TunnelIds : x # t => packets'[x] = packets[x]
  PROVE  /\ SumFunctionOnSet(PacketFees, TunnelIds)' = SumFunctionOnSet(PacketFees, TunnelIds) + fee
         /\ SumFunctionOnSet(PacketFees, TunnelIds) \in Int
         /\ \A x \in TunnelIds : packets'[x].fees \in Int
<1>1. PICK f, g : f = PacketFees /\ g = PacketFees'
  BY Zenon
<1>2. \A x \in TunnelIds : f[x] = packets[x].fees /\ g[x] = packets'[x].fees
  BY <1>1, Zenon DEF PacketFees
<1>3. \A x \in TunnelIds : packets[x].fees \in Int
  BY Zenon DEF BalanceType
<1>4. packets'[t].fees \in Int
  BY <1>3
<1>5. ASSUME NEW x \in TunnelIds
      PROVE  packets'[x].fees \in Int /\ (x # t => packets'[x].fees = packets[x].fees)
  BY <1>3, <1>4, ZenonT(60)
<1>6. /\ \A x \in TunnelIds : f[x] \in Int /\ g[x] \in Int
      /\ \A x \in TunnelIds : x # t => g[x] = f[x]
  BY <1>2, <1>3, <1>5, ZenonT(60)
<1>7. SumFunctionOnSet(g, TunnelIds) = SumFunctionOnSet(f, TunnelIds) + (g[t] - f[t])
  BY <1>6, TunnelAssumption, SumUpdate, SMTT(30)
<1>8. SumFunctionOnSet(f, TunnelIds) \in Int
  BY <1>6, TunnelAssumption, SumInt
<1>9. g[t] - f[t] = fee
  BY <1>2, <1>3
<1>10. /\ SumFunctionOnSet(PacketFees, TunnelIds) = SumFunctionOnSet(f, TunnelIds)
       /\ SumFunctionOnSet(PacketFees, TunnelIds)' = SumFunctionOnSet(g, TunnelIds)
  BY <1>1, Zenon
<1>11. QED
  BY <1>5, <1>7, <1>8, <1>9, <1>10, ZenonT(60)

\* Steps that touch neither deposits nor packets leave the sums alone.
LEMMA UnchangedSums ==
  ASSUME UNCHANGED <<deposits, packets>>
  PROVE  /\ \A t : DepositsIn(t)' = DepositsIn(t)
         /\ SumFunctionOnSet(Deposited, TunnelIds)' = SumFunctionOnSet(Deposited, TunnelIds)
         /\ SumFunctionOnSet(PacketFees, TunnelIds)' = SumFunctionOnSet(PacketFees, TunnelIds)
<1>1. \A t : DepositsIn(t)' = DepositsIn(t)
  BY Zenon DEF DepositsIn
<1>2. Deposited' = Deposited /\ PacketFees' = PacketFees
  BY <1>1, Zenon DEF Deposited, PacketFees
<1>3. QED
  BY <1>1, <1>2, Zenon

\* A step that moves no coin of the module account.
LEMMA NoMoneyMoves ==
  ASSUME BalanceInv, UNCHANGED <<deposits, packets, totalFees, moduleBalance>>,
         Created' = Created, params'.baseFee \in Int,
         \A t \in Created : /\ tunnels'[t].totalDeposit = tunnels[t].totalDeposit
                            /\ tunnels'[t].sequence = tunnels[t].sequence
  PROVE  BalanceInv'
<1>1. BalanceType'
  BY Zenon DEF BalanceInv, BalanceType
<1>2. ModuleBalanceExact'
  BY UnchangedSums, ZenonT(60) DEF BalanceInv, ModuleBalanceExact
<1>3. QED
  BY <1>1, <1>2, ZenonT(60) DEF BalanceInv

\* A deposit in a tunnel, old or new, or a withdrawal from one.
LEMMA DepositMoves ==
  ASSUME BalanceInv, NEW t \in TunnelIds, NEW u \in Users, NEW amount \in Int,
         deposits' = [deposits EXCEPT ![t][u] = @ + amount],
         moduleBalance' = moduleBalance + amount,
         Created' = Created \cup {t},
         tunnels'[t].totalDeposit = DepositsIn(t) + amount,
         tunnels'[t].sequence = packets[t].count,
         \A x \in Created : x # t => tunnels'[x] = tunnels[x],
         UNCHANGED <<packets, totalFees, params>>
  PROVE  BalanceInv'
<1>1. BalanceType /\ ModuleBalanceExact
  BY Zenon DEF BalanceInv
<1>2. /\ deposits' \in [TunnelIds -> [Users -> Int]]
      /\ DepositsIn(t)' = DepositsIn(t) + amount
      /\ \A x \in TunnelIds : x # t => deposits'[x] = deposits[x] /\ DepositsIn(x)' = DepositsIn(x)
      /\ SumFunctionOnSet(Deposited, TunnelIds)' = SumFunctionOnSet(Deposited, TunnelIds) + amount
      /\ SumFunctionOnSet(Deposited, TunnelIds) \in Int
  BY <1>1, DepositsChange, ZenonT(60)
<1>3. SumFunctionOnSet(PacketFees, TunnelIds)' = SumFunctionOnSet(PacketFees, TunnelIds)
  <2>1. PacketFees' = PacketFees
    BY Zenon DEF PacketFees
  <2>2. QED
    BY <2>1, Zenon
<1>4. moduleBalance' \in Int
  BY <1>1 DEF BalanceType
<1>5. BalanceType'
  BY <1>1, <1>2, <1>4, ZenonT(60) DEF BalanceType
<1>6. moduleBalance' = SumFunctionOnSet(Deposited, TunnelIds)' + totalFees'
  <2>1. /\ moduleBalance = SumFunctionOnSet(Deposited, TunnelIds) + totalFees
        /\ totalFees \in Int /\ totalFees' = totalFees
    BY <1>1, ZenonT(60) DEF ModuleBalanceExact, BalanceType
  <2>2. QED
    BY <1>2, <2>1, SMTT(30)
<1>7. ASSUME NEW x \in Created'
      PROVE  tunnels'[x].totalDeposit = DepositsIn(x)' /\ tunnels'[x].sequence = packets'[x].count
  <2>1. CASE x = t
    BY <1>2, <2>1, ZenonT(60)
  <2>2. CASE x # t
    <3>1. x \in Created /\ tunnels'[x] = tunnels[x]
      BY <1>7, <2>2, ZenonT(60)
    <3>2. DepositsIn(x)' = DepositsIn(x)
      <4>1. CASE x \in TunnelIds
        BY <1>2, <2>2, <4>1, ZenonT(60)
      <4>2. CASE x \notin TunnelIds
        <5>1. deposits'[x] = deposits[x]
          BY <2>2 DEF BalanceInv, BalanceType
        <5>2. QED
          BY <5>1, ZenonT(60) DEF DepositsIn
      <4>3. QED
        BY <4>1, <4>2, ZenonT(60)
    <3>3. QED
      BY <1>1, <3>1, <3>2, ZenonT(60) DEF ModuleBalanceExact
  <2>3. QED
    BY <2>1, <2>2, ZenonT(60)
<1>8. ModuleBalanceExact'
  BY <1>1, <1>3, <1>6, <1>7, ZenonT(60) DEF ModuleBalanceExact
<1>9. ASSUME NEW x \in TunnelIds, x \notin Created'
      PROVE  packets'[x].count = 0 /\ \A y \in Users : deposits'[x][y] = 0
  <2>1. x # t /\ x \notin Created
    BY <1>9, Zenon
  <2>2. deposits'[x] = deposits[x]
    BY <1>2, <2>1, ZenonT(60)
  <2>3. QED
    BY <2>1, <2>2, ZenonT(60) DEF BalanceInv
<1>10. QED
  BY <1>5, <1>8, <1>9, ZenonT(60) DEF BalanceInv

\* A packet that was sent: its base fee is collected.
LEMMA PacketMoves ==
  ASSUME TunnelInv, PriceInv, BalanceInv, NEW t \in Created, NEW prices,
         CreatePacket(t, prices), UNCHANGED <<deposits, params>>
  PROVE  BalanceInv'
<1>1. BalanceType /\ ModuleBalanceExact /\ t \in TunnelIds /\ DOMAIN packets = TunnelIds
  BY Zenon DEF BalanceInv, TunnelInv, PriceInv
<1>2. PICK fee : fee = params.baseFee
  BY Zenon
<1>3. fee \in Int /\ moduleBalance' = moduleBalance + fee /\ totalFees' = totalFees + fee
  BY <1>1, <1>2, ZenonT(60) DEF BalanceType, CreatePacket
<1>4. /\ packets'[t].fees = packets[t].fees + fee /\ packets'[t].count = packets[t].count + 1
      /\ \A x \in TunnelIds : x # t => packets'[x] = packets[x]
  BY <1>1, <1>2, SMTT(30) DEF CreatePacket
<1>5. /\ SumFunctionOnSet(PacketFees, TunnelIds)' = SumFunctionOnSet(PacketFees, TunnelIds) + fee
      /\ SumFunctionOnSet(PacketFees, TunnelIds) \in Int
      /\ \A x \in TunnelIds : packets'[x].fees \in Int
  BY <1>1, <1>3, <1>4, FeesChange, ZenonT(60)
<1>6. /\ \A x : DepositsIn(x)' = DepositsIn(x)
      /\ SumFunctionOnSet(Deposited, TunnelIds)' = SumFunctionOnSet(Deposited, TunnelIds)
  <2>1. \A x : DepositsIn(x)' = DepositsIn(x)
    BY Zenon DEF DepositsIn
  <2>2. Deposited' = Deposited
    BY <2>1, Zenon DEF Deposited
  <2>3. QED
    BY <2>1, <2>2, ZenonT(60)
<1>7. SumFunctionOnSet(Deposited, TunnelIds) \in Int
  <2>1. PICK d : d = Deposited
    BY Zenon
  <2>2. \A x \in TunnelIds : d[x] \in Int
    BY <1>1, <2>1, DepositsInInt, ZenonT(60) DEF Deposited
  <2>3. SumFunctionOnSet(d, TunnelIds) \in Int
    BY <2>2, TunnelAssumption, SumInt
  <2>4. QED
    BY <2>1, <2>3, Zenon
<1>8. moduleBalance' \in Int /\ totalFees' \in Int
  BY <1>1, <1>3 DEF BalanceType
<1>9. BalanceType'
  BY <1>1, <1>5, <1>8, Zenon DEF BalanceType
<1>10. /\ moduleBalance' = SumFunctionOnSet(Deposited, TunnelIds)' + totalFees'
       /\ totalFees' = SumFunctionOnSet(PacketFees, TunnelIds)'
  <2>1. /\ moduleBalance = SumFunctionOnSet(Deposited, TunnelIds) + totalFees
        /\ totalFees = SumFunctionOnSet(PacketFees, TunnelIds) /\ totalFees \in Int
    BY <1>1, Zenon DEF ModuleBalanceExact, BalanceType
  <2>2. QED
    BY <1>3, <1>5, <1>6, <1>7, <2>1
<1>11. Created' = Created
  BY Zenon DEF CreatePacket, Created
<1>12. ASSUME NEW x \in Created
       PROVE  tunnels'[x].totalDeposit = DepositsIn(x)' /\ tunnels'[x].sequence = packets'[x].count
  <2>1. tunnels[x].totalDeposit = DepositsIn(x) /\ tunnels[x].sequence = packets[x].count
    BY <1>1, Zenon DEF ModuleBalanceExact
  <2>2. x \in TunnelIds /\ tunnels[x] \in Records
    BY Zenon DEF TunnelInv
  <2>3. CASE x = t
    <3>1. tunnels'[t].totalDeposit = tunnels[t].totalDeposit /\ tunnels'[t].sequence = tunnels[t].sequence + 1
      BY <2>2, <2>3, SMTT(30) DEF CreatePacket, Created, Records
    <3>2. QED
      BY <1>4, <1>6, <2>1, <2>3, <3>1, ZenonT(60)
  <2>4. CASE x # t
    <3>1. tunnels'[x] = tunnels[x]
      BY <2>4, Zenon DEF CreatePacket, Created
    <3>2. QED
      BY <1>4, <1>6, <2>1, <2>2, <2>4, <3>1, ZenonT(60)
  <2>5. QED
    BY <2>3, <2>4, ZenonT(60)
<1>13. ModuleBalanceExact'
  BY <1>10, <1>11, <1>12, ZenonT(60) DEF ModuleBalanceExact
<1>14. \A x \in TunnelIds : x \notin Created' =>
         packets'[x].count = 0 /\ \A y \in Users : deposits'[x][y] = 0
  BY <1>4, <1>11, ZenonT(60) DEF BalanceInv
<1>15. QED
  BY <1>9, <1>13, <1>14, ZenonT(60) DEF BalanceInv

\* MsgCreateTunnel moves the first deposit into the module account.
LEMMA CreateTunnelMoves ==
  ASSUME TunnelInv, BalanceInv, NEW u \in Users, NEW kind \in {"tss", "ibc"},
         NEW d \in Deviations, NEW i \in Intervals, NEW amount \in Amounts \cup {0},
         CreateTunnel(u, kind, d, i, amount)
  PROVE  BalanceInv'
<1>1. PICK t : t = Cardinality(Created) + 1
  BY Zenon
<1>2. PICK rec : rec = [[creator |-> u, kind |-> kind, channel |-> FALSE, sequence |-> 0,
                         deviations |-> d, interval |-> i, totalDeposit |-> 0,
                         isActive |-> FALSE] EXCEPT !.totalDeposit = @ + amount]
  BY Zenon
<1>3. /\ tunnels' = [x \in Created \cup {t} |-> IF x = t THEN rec ELSE tunnels[x]]
      /\ moduleBalance' = moduleBalance + amount
      /\ deposits' = [deposits EXCEPT ![t][u] = @ + amount]
      /\ t \in TunnelIds /\ UNCHANGED <<packets, totalFees, params>>
  BY <1>1, <1>2, Zenon DEF CreateTunnel, Deposit, envVars
<1>4. /\ Created' = Created \cup {t} /\ tunnels'[t] = rec
      /\ \A x \in Created : x # t => tunnels'[x] = tunnels[x]
  BY <1>3, Zenon DEF Created
<1>5. t \notin Created
  <2>1. PICK n \in Nat : Created = 1..n
    BY Zenon DEF TunnelInv
  <2>2. 1 \in Int /\ n \in Int
    BY <2>1
  <2>3. Cardinality(1..n) = IF 1 > n THEN 0 ELSE n - 1 + 1
    BY <2>2, FS_Interval, Zenon
  <2>4. t = Cardinality(1..n) + 1
    BY <1>1, <2>1, ZenonT(60)
  <2>5. t = n + 1
    BY <2>1, <2>3, <2>4, SMTT(30)
  <2>6. QED
    BY <2>1, <2>5, SMTT(30)
<1>6. amount \in Int
  BY TunnelAssumption
<1>7. rec.sequence = 0 /\ rec.totalDeposit = 0 + amount
  BY <1>2
<1>8. packets[t].count = 0 /\ \A y \in Users : deposits[t][y] = 0
  BY <1>3, <1>5, ZenonT(60) DEF BalanceInv
<1>9. DepositsIn(t) = 0
  BY <1>8, TunnelAssumption, SumZero, SMTT(30) DEF DepositsIn
<1>10. tunnels'[t].totalDeposit = DepositsIn(t) + amount /\ tunnels'[t].sequence = packets[t].count
  BY <1>4, <1>7, <1>8, <1>9, ZenonT(60)
<1>11. QED
  BY <1>3, <1>4, <1>6, <1>10, DepositMoves, ZenonT(60)

\* MsgDepositToTunnel moves the deposit into the module account.
LEMMA DepositToTunnelMoves ==
  ASSUME TunnelInv, BalanceInv, NEW t \in TunnelIds, NEW u \in Users, NEW amount \in Amounts,
         DepositToTunnel(t, u, amount)
  PROVE  BalanceInv'
<1>1. PICK rec : rec = [tunnels[t] EXCEPT !.totalDeposit = @ + amount]
  BY Zenon
<1>2. /\ t \in Created /\ UNCHANGED <<packets, totalFees, params>>
      /\ moduleBalance' = moduleBalance + amount
      /\ deposits' = [deposits EXCEPT ![t][u] = @ + amount]
      /\ tunnels' = [x \in Created \cup {t} |-> IF x = t THEN rec ELSE tunnels[x]]
  BY <1>1, Zenon DEF DepositToTunnel, Deposit, envVars
<1>3. /\ Created' = Created \cup {t} /\ tunnels'[t] = rec
      /\ \A x \in Created : x # t => tunnels'[x] = tunnels[x]
  BY <1>2, Zenon DEF Created
<1>4. tunnels[t] \in Records /\ amount \in Int
  BY <1>2, TunnelAssumption, SMTT(30) DEF TunnelInv
<1>5. rec.totalDeposit = tunnels[t].totalDeposit + amount /\ rec.sequence = tunnels[t].sequence
  BY <1>1, <1>4, SMTT(30) DEF Records
<1>6. tunnels[t].totalDeposit = DepositsIn(t) /\ tunnels[t].sequence = packets[t].count
  BY <1>2, Zenon DEF BalanceInv, ModuleBalanceExact
<1>7. tunnels'[t].totalDeposit = DepositsIn(t) + amount /\ tunnels'[t].sequence = packets[t].count
  BY <1>3, <1>5, <1>6, ZenonT(60)
<1>8. QED
  BY <1>2, <1>3, <1>4, <1>7, DepositMoves, ZenonT(60)

\* MsgWithdrawFromTunnel moves it back.
LEMMA WithdrawMoves ==
  ASSUME TunnelInv, BalanceInv, NEW t \in TunnelIds, NEW u \in Users, NEW amount \in Amounts,
         WithdrawFromTunnel(t, u, amount)
  PROVE  BalanceInv'
<1>1. PICK left, tooLow :
        /\ left = tunnels[t].totalDeposit - amount
        /\ tooLow = (tunnels[t].isActive /\ ~(left >= params.minDeposit))
  BY Zenon
<1>2. /\ t \in Created /\ UNCHANGED <<packets, totalFees, params>>
      /\ moduleBalance' = moduleBalance - amount
      /\ deposits' = [deposits EXCEPT ![t][u] = @ - amount]
      /\ tunnels' = [tunnels EXCEPT ![t].totalDeposit = left, ![t].isActive = @ /\ ~tooLow]
  BY <1>1, Zenon DEF WithdrawFromTunnel, MeetsDeposit, envVars
<1>3. tunnels[t] \in Records /\ amount \in Int
  BY <1>2, TunnelAssumption, SMTT(30) DEF TunnelInv
<1>4. /\ Created' = Created \cup {t}
      /\ \A x \in Created : x # t => tunnels'[x] = tunnels[x]
      /\ tunnels'[t].totalDeposit = left /\ tunnels'[t].sequence = tunnels[t].sequence
  BY <1>2, <1>3 DEF Created, Records
<1>5. tunnels[t].totalDeposit = DepositsIn(t) /\ tunnels[t].sequence = packets[t].count
  BY <1>2, Zenon DEF BalanceInv, ModuleBalanceExact
<1>6. PICK minus \in Int : minus = 0 - amount
  BY <1>3
<1>7. moduleBalance \in Int /\ deposits[t][u] \in Int /\ tunnels[t].totalDeposit \in Int
  BY <1>3 DEF BalanceInv, BalanceType, Records
<1>8. moduleBalance' = moduleBalance + minus /\ left = tunnels[t].totalDeposit + minus
  BY <1>1, <1>2, <1>3, <1>6, <1>7
<1>9. deposits[t][u] - amount = deposits[t][u] + minus
  BY <1>3, <1>6, <1>7, SMTT(30)
<1>10. deposits' = [deposits EXCEPT ![t][u] = @ + minus]
  BY <1>2, <1>9
<1>11. tunnels'[t].totalDeposit = DepositsIn(t) + minus /\ tunnels'[t].sequence = packets[t].count
  BY <1>4, <1>5, <1>8, Zenon
<1>12. UNCHANGED <<packets, totalFees, params>>
  BY <1>2, Zenon
<1>13. Created' = Created \cup {t} /\ \A x \in Created : x # t => tunnels'[x] = tunnels[x]
  BY <1>4, Zenon
<1>14. moduleBalance' = moduleBalance + minus
  BY <1>8, Zenon
<1>15. QED
  BY <1>6, <1>10, <1>11, <1>12, <1>13, <1>14, DepositMoves, ZenonT(60)

\* A packet moves its base fee into the module account and counts it.
LEMMA ProduceMoves ==
  ASSUME TunnelInv, PriceInv, BalanceInv, NEW t \in todo, NEW accepted \in BOOLEAN,
         Produce(t, accepted)
  PROVE  BalanceInv'
<1>1. t \in Created /\ UNCHANGED <<deposits, params>> /\ params.baseFee \in Int
  BY Zenon DEF Produce, envVars, TunnelInv, BalanceInv, BalanceType
<1>2. CASE CreatePacket(t, GenerateNewPrices(t))
  BY <1>1, <1>2, PacketMoves, ZenonT(60)
<1>3. CASE DeactivateTunnel(t) /\ UNCHANGED <<packets, totalFees, moduleBalance>>
  <2>1. /\ Created' = Created
        /\ \A x \in Created : /\ tunnels'[x].totalDeposit = tunnels[x].totalDeposit
                              /\ tunnels'[x].sequence = tunnels[x].sequence
    BY <1>1, <1>3, SMTT(30) DEF DeactivateTunnel, Created, TunnelInv, Records
  <2>2. QED
    BY <1>1, <1>3, <2>1, NoMoneyMoves, ZenonT(60)
<1>4. CASE UNCHANGED <<tunnels, packets, totalFees, moduleBalance>>
  <2>1. Created' = Created
    BY <1>4, Zenon DEF Created
  <2>2. QED
    BY <1>1, <1>4, <2>1, NoMoneyMoves, ZenonT(60)
<1>5. QED
  BY <1>2, <1>3, <1>4, ZenonT(60) DEF Produce, PacketRefused

\* Every step keeps the module account the sum of deposits and base fees.
LEMMA NextKeepsBalance ==
  ASSUME TunnelInv, PriceInv, BalanceInv, Next \/ UNCHANGED vars
  PROVE  BalanceInv'
<1>1. params.baseFee \in Int
  BY Zenon DEF BalanceInv, BalanceType
<1>2. CASE UNCHANGED <<tunnels, deposits, packets, totalFees, moduleBalance, params>>
  <2>1. Created' = Created
    BY <1>2, Zenon DEF Created
  <2>2. QED
    BY <1>1, <1>2, <2>1, NoMoneyMoves, ZenonT(60)
<1>3. CASE UNCHANGED vars
  BY <1>2, <1>3, ZenonT(60) DEF vars, moneyVars, envVars
<1>4. ASSUME NEW u \in Users, NEW kind \in {"tss", "ibc"}, NEW d \in Deviations,
             NEW i \in Intervals, NEW amount \in Amounts \cup {0},
             CreateTunnel(u, kind, d, i, amount)
      PROVE  BalanceInv'
  BY <1>4, CreateTunnelMoves, ZenonT(60)
<1>5. ASSUME NEW t \in TunnelIds, NEW u \in Users, NEW amount \in Amounts,
             DepositToTunnel(t, u, amount) \/ WithdrawFromTunnel(t, u, amount)
      PROVE  BalanceInv'
  BY <1>5, DepositToTunnelMoves, WithdrawMoves, ZenonT(60)
<1>6. ASSUME NEW t \in TunnelIds, UpdateRoute(t) \/ Activate(t) \/ Deactivate(t)
      PROVE  BalanceInv'
  <2>1. UNCHANGED <<deposits, packets, totalFees, moduleBalance, params>> /\ t \in Created
    BY <1>6, ZenonT(60) DEF UpdateRoute, Activate, Deactivate, moneyVars, envVars
  <2>2. /\ Created' = Created
        /\ \A x \in Created : /\ tunnels'[x].totalDeposit = tunnels[x].totalDeposit
                              /\ tunnels'[x].sequence = tunnels[x].sequence
    <3>1. CASE UpdateRoute(t)
      BY <2>1, <3>1, SMTT(30) DEF UpdateRoute, Created, TunnelInv, Records
    <3>2. CASE Activate(t)
      BY <2>1, <3>2, SMTT(30) DEF Activate, ActivateTunnel, Created, TunnelInv, Records
    <3>3. CASE Deactivate(t)
      BY <2>1, <3>3, SMTT(30) DEF Deactivate, DeactivateTunnel, Created, TunnelInv, Records
    <3>4. QED
      BY <1>6, <3>1, <3>2, <3>3, ZenonT(60)
  <2>3. QED
    BY <1>1, <2>1, <2>2, NoMoneyMoves, ZenonT(60)
<1>7. ASSUME NEW t \in TunnelIds, NEW d \in Deviations, NEW i \in Intervals,
             UpdateSignalsAndInterval(t, d, i)
      PROVE  BalanceInv'
  <2>1. UNCHANGED <<deposits, packets, totalFees, moduleBalance, params>> /\ t \in Created
    BY <1>7, ZenonT(60) DEF UpdateSignalsAndInterval, moneyVars, envVars
  <2>2. /\ Created' = Created
        /\ \A x \in Created : /\ tunnels'[x].totalDeposit = tunnels[x].totalDeposit
                              /\ tunnels'[x].sequence = tunnels[x].sequence
    BY <1>7, <2>1, SMTT(30) DEF UpdateSignalsAndInterval, Created, TunnelInv, Records
  <2>3. QED
    BY <1>1, <2>1, <2>2, NoMoneyMoves, ZenonT(60)
<1>8. ASSUME NEW t \in TunnelIds, TriggerTunnel(t)
      PROVE  BalanceInv'
  <2>1. /\ t \in Created /\ UNCHANGED <<deposits, params>>
        /\ CreatePacket(t, [s \in DOMAIN tunnels[t].deviations |-> feeds[s]])
    BY <1>8, ZenonT(60) DEF TriggerTunnel, envVars
  <2>2. QED
    BY <2>1, PacketMoves, ZenonT(60)
<1>9. ASSUME NEW t \in TunnelIds, NEW u \in Users, NEW amount \in Amounts,
             FundFeePayer(t, u, amount)
      PROVE  BalanceInv'
  BY <1>2, <1>9, ZenonT(60) DEF FundFeePayer, envVars
<1>10. ASSUME NEW t \in TunnelIds, NEW amount \in Amounts, WithdrawFeePayerFunds(t, amount)
      PROVE  BalanceInv'
  BY <1>2, <1>10, ZenonT(60) DEF WithdrawFeePayerFunds, envVars
<1>11. ASSUME NEW s \in Signals, NEW price \in Prices \cup {0}, PublishPrice(s, price)
       PROVE  BalanceInv'
  BY <1>2, <1>11, ZenonT(60) DEF PublishPrice, moneyVars
<1>12. ASSUME NEW fee \in SigningFees, ChangeSigningFee(fee)
       PROVE  BalanceInv'
  BY <1>2, <1>12, ZenonT(60) DEF ChangeSigningFee, moneyVars
<1>13. ASSUME EndBlock \/ NextBlock
       PROVE  BalanceInv'
  BY <1>2, <1>13, ZenonT(60) DEF EndBlock, NextBlock, moneyVars, envVars
<1>14. ASSUME NEW min \in MinDeposits, NEW base \in BaseFees, UpdateParams(min, base)
       PROVE  BalanceInv'
  <2>1. /\ UNCHANGED <<tunnels, deposits, packets, totalFees, moduleBalance>>
        /\ params'.baseFee = base
    BY <1>14, ZenonT(60) DEF UpdateParams, moneyVars
  <2>2. base \in Int
    BY TunnelAssumption, SMTT(30)
  <2>3. Created' = Created
    BY <2>1, ZenonT(60) DEF Created
  <2>4. QED
    BY <2>1, <2>2, <2>3, NoMoneyMoves, ZenonT(60)
<1>15. ASSUME NEW t \in todo, NEW accepted \in BOOLEAN, Produce(t, accepted)
       PROVE  BalanceInv'
  BY <1>15, ProduceMoves, ZenonT(60)
<1>16. QED
  BY <1>3, <1>4, <1>5, <1>6, <1>7, <1>8, <1>9, <1>10, <1>11, <1>12, <1>13, <1>14, <1>15,
     ZenonT(60) DEF Next

\* At first the module account is empty.
LEMMA InitBalance == Init => BalanceInv
<1> SUFFICES ASSUME Init PROVE BalanceInv
  OBVIOUS
<1>1. /\ tunnels = << >> /\ totalFees = 0 /\ moduleBalance = 0
      /\ packets = [t \in TunnelIds |-> [count |-> 0, fees |-> 0, last |-> << >>]]
      /\ deposits = [t \in TunnelIds |-> [u \in Users |-> 0]]
      /\ params \in [minDeposit : MinDeposits, baseFee : BaseFees]
  BY Zenon DEF Init
<1>2. params.baseFee \in Int
  <2>1. params \in [minDeposit : MinDeposits, baseFee : BaseFees]
    BY <1>1, ZenonT(60)
  <2>2. params.baseFee \in BaseFees
    BY <2>1, SMTT(30)
  <2>3. BaseFees \subseteq Int
    BY TunnelAssumption, SMTT(30)
  <2>4. QED
    BY <2>2, <2>3, ZenonT(60)
<1>3. 0 \in Int /\ DOMAIN << >> = {}
  OBVIOUS
<1>4. BalanceType
  BY <1>1, <1>2, <1>3, ZenonT(60) DEF BalanceType
<1>5. Created = {}
  BY <1>1, <1>3, ZenonT(60) DEF Created
<1>6. \A t \in TunnelIds : DepositsIn(t) = 0
  <2>1. SUFFICES ASSUME NEW t \in TunnelIds PROVE DepositsIn(t) = 0
    BY Zenon
  <2>2. PICK f : f = deposits[t]
    BY Zenon
  <2>3. \A u \in Users : f[u] = 0
    BY <1>1, <2>2, ZenonT(60)
  <2>4. QED
    BY <2>2, <2>3, TunnelAssumption, SumZero, SMTT(30) DEF DepositsIn
<1>7. SumFunctionOnSet(Deposited, TunnelIds) = 0 /\ SumFunctionOnSet(PacketFees, TunnelIds) = 0
  <2>1. PICK d, f : d = Deposited /\ f = PacketFees
    BY Zenon
  <2>2. \A t \in TunnelIds : d[t] = 0 /\ f[t] = 0
    BY <1>1, <1>6, <2>1, ZenonT(60) DEF Deposited, PacketFees
  <2>3. SumFunctionOnSet(d, TunnelIds) = 0
    BY <2>2, TunnelAssumption, SumZero
  <2>4. SumFunctionOnSet(f, TunnelIds) = 0
    BY <2>2, TunnelAssumption, SumZero
  <2>5. QED
    BY <2>1, <2>3, <2>4, ZenonT(60)
<1>8. moduleBalance = SumFunctionOnSet(Deposited, TunnelIds) + totalFees
  BY <1>1, <1>7
<1>9. ModuleBalanceExact
  BY <1>1, <1>5, <1>7, <1>8, ZenonT(60) DEF ModuleBalanceExact
<1>10. QED
  BY <1>1, <1>4, <1>9, ZenonT(60) DEF BalanceInv

\* The module account of x/tunnel holds exactly the deposits and the base fees, every
\* tunnel's total is the sum of its deposits, and refused packets leave no trace, for any
\* number of tunnels and depositors (DepositToTunnel, WithdrawFromTunnel, ProducePacket,
\* and what InitGenesis asks of an exported state).
THEOREM BalanceExact == Spec => []ModuleBalanceExact
<1>1. TunnelInv /\ PriceInv /\ BalanceInv /\ [Next]_vars => BalanceInv'
  BY NextKeepsBalance, Zenon
<1>2. BalanceInv => ModuleBalanceExact
  BY Zenon DEF BalanceInv
<1>3. QED
  BY InitBalance, TunnelsHold, PricesHold, <1>1, <1>2, PTL DEF Spec
=============================================================================
