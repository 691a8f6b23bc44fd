--------------------------- MODULE TSSGroupProofs ---------------------------
(***************************************************************************)
(* The theorems about group creation, for every number of groups and       *)
(* members, every set of periods and every set of honest members: first    *)
(* the inductive invariant and that every step keeps it (members'          *)
(* messages, the creation of a group, the EndBlocker), then what follows.  *)
(***************************************************************************)
EXTENDS TSSGroup, FiniteSetTheorems, TLAPS

(***************************************************************************)
(* The inductive invariant.  GroupInv(g) is about the data of one group.   *)
(***************************************************************************)

\* The sum of all members' commits.
FullCommits(g) == [m \in MemberIds |-> IF m \in MembersOf(g) THEN 1 ELSE 0]

\* A group that does not exist has no data; one that does has members, and its
\* interim data until it is passed by the expiry loop.
ExistenceInv(g) ==
  /\ status[g] = "NONE" <=> g > groupCount
  /\ g > groupCount => NoInterimData(g) /\ badShares[g] = {} /\ malicious[g] = {}
  /\ g <= groupCount => size[g] >= 1
  /\ g <= groupCount /\ g > lastExpiredGroupID => dkgContext[g] /\ status[g] # "EXPIRED"
  /\ g <= lastExpiredGroupID =>
       status[g] \in {"ACTIVE", "FALLEN", "EXPIRED"} /\ NoInterimData(g)

\* The stored counters count the stored submissions.
CountInv(g) ==
  /\ round1Infos[g] \subseteq MembersOf(g)
  /\ round2Infos[g] \subseteq MembersOf(g)
  /\ confirms[g] \subseteq MembersOf(g)
  /\ complaints[g] \subseteq MembersOf(g)
  /\ round1Count[g] = Cardinality(round1Infos[g])
  /\ round2Count[g] = Cardinality(round2Infos[g])
  /\ confirmComplainCount[g] = Cardinality(confirms[g] \cup complaints[g])

\* What the rounds before the current one have left behind.
RoundInv(g) ==
  /\ status[g] \in Creating =>
       accCommits[g] = [m \in MemberIds |-> IF m \in round1Infos[g] THEN 1 ELSE 0]
  /\ status[g] = "ROUND_1" => round2Infos[g] = {}
  /\ status[g] \in {"ROUND_1", "ROUND_2"} =>
       confirms[g] = {} /\ complaints[g] = {} /\ malicious[g] = {}
  /\ status[g] \in {"ROUND_2", "ROUND_3"} =>
       /\ round1Infos[g] = MembersOf(g)
       /\ groupPubKey[g] = FullCommits(g)
       /\ \A m \in round2Infos[g] : memberPubKey[g][m] = FullCommits(g)
  /\ status[g] = "ROUND_3" => round2Infos[g] = MembersOf(g)

\* Honest members deal good shares, and what they answer in round 3 tells
\* whether they were dealt any bad ones.
ShareInv(g) ==
  /\ \A d, r \in MemberIds : <<d, r>> \in badShares[g] => d \notin Honest
  /\ malicious[g] \cap Honest = {}
  /\ status[g] = "ROUND_3" =>
       /\ \A m \in confirms[g] \cap Honest : BadDealers(g, m) = {}
       /\ \A m \in complaints[g] \cap Honest :
            BadDealers(g, m) # {} /\ BadDealers(g, m) \subseteq malicious[g]
  /\ status[g] = "ACTIVE" => KeysAgree(g) /\ NobodyCheated(g)
  /\ status[g] = "FALLEN" => malicious[g] # {}

\* A finished group has had its one callback, any other has had none.
CallbackInv(g) ==
  /\ status[g] \in Creating \cup {"NONE"} => callbacks[g] = << >>
  /\ status[g] = "ACTIVE" => callbacks[g] = <<"completed">>
  /\ status[g] = "FALLEN" => callbacks[g] = <<"failed">>
  /\ status[g] = "EXPIRED" => callbacks[g] = <<"expired">>

GroupInv(g) ==
  ExistenceInv(g) /\ CountInv(g) /\ RoundInv(g) /\ ShareInv(g) /\ CallbackInv(g)

\* Groups are created in the order of their IDs.
AgeInv ==
  \A g, h \in 1..groupCount :
    g <= h => createdHeight[g] <= createdHeight[h] /\ createdHeight[h] <= height

IInv ==
  /\ TypeOK
  /\ \A g \in GroupIds : GroupInv(g)
  /\ phase = "expire" => pendingProcessGroups = << >>
  /\ PendingIsComplete
  /\ AgeInv

-----------------------------------------------------------------------------
(* The type invariant is inductive on its own. *)

\* The chain starts well typed.
LEMMA InitType == Init => TypeOK
  BY MaxGroupsAssumption, MaxGroupSizeAssumption, PeriodsAssumption, MaxHeightAssumption
  DEF Init, TypeOK, GroupIds, MemberIds, Statuses, NoCommits

\* Every message and every step of the EndBlocker keeps the types.
LEMMA NextType == TypeOK /\ [Next]_vars => TypeOK'
<1> SUFFICES ASSUME TypeOK, [Next]_vars PROVE TypeOK'
  BY Zenon
<1> USE MaxGroupsAssumption, MaxGroupSizeAssumption, PeriodsAssumption, MaxHeightAssumption
  DEF TypeOK, Statuses, Creating
<1>1. ASSUME NEW n \in MemberIds, CreateGroup(n) PROVE TypeOK'
  <2>1. n \in 0..MaxGroupSize /\ groupCount + 1 \in GroupIds
    BY <1>1 DEF CreateGroup, GroupIds, MemberIds
  <2>2. groupCount' \in 0..MaxGroups
    BY <1>1, <2>1 DEF CreateGroup
  <2>3. lastExpiredGroupID' \in 0..groupCount'
    BY <1>1, <2>1 DEF CreateGroup
  <2>4. status' \in [GroupIds -> Statuses]
    BY <1>1, <2>1, Zenon DEF CreateGroup
  <2>5. size' \in [GroupIds -> 0..MaxGroupSize]
    BY <1>1, <2>1, Zenon DEF CreateGroup
  <2>6. createdHeight' \in [GroupIds -> 0..MaxHeight]
    BY <1>1, <2>1 DEF CreateGroup
  <2>7. dkgContext' \in [GroupIds -> BOOLEAN]
    BY <1>1, <2>1, Zenon DEF CreateGroup
  <2>8. QED
    BY <1>1, <2>1, <2>2, <2>3, <2>4, <2>5, <2>6, <2>7, Zenon DEF CreateGroup, blockVars, round2Vars, round3Vars
<1>2. ASSUME NEW p \in Periods, UpdateParams(p) PROVE TypeOK'
  BY <1>2, Zenon DEF UpdateParams, blockVars, groupVars, round1Vars, round2Vars, round3Vars
<1>3. ASSUME NEW g \in GroupIds, NEW m \in MemberIds, SubmitDKGRound1(g, m) PROVE TypeOK'
  <2>1. accCommits' \in [GroupIds -> [MemberIds -> Nat]]
    BY <1>3, SMTT(30) DEF SubmitDKGRound1
  <2>2. round1Infos' \in [GroupIds -> SUBSET MemberIds]
    BY <1>3, ZenonT(60) DEF SubmitDKGRound1
  <2>3. round1Count' \in [GroupIds -> Nat]
    BY <1>3, SMTT(30) DEF SubmitDKGRound1
  <2>4. pendingProcessGroups' \in Seq(GroupIds)
    BY <1>3 DEF SubmitDKGRound1, AddPendingIfComplete
  <2>5. QED
    BY <1>3, <2>1, <2>2, <2>3, <2>4, Zenon DEF SubmitDKGRound1, blockVars, groupVars, round2Vars, round3Vars
<1>4. ASSUME NEW g \in GroupIds, NEW m \in MemberIds, NEW bad \in SUBSET MemberIds,
             SubmitDKGRound2(g, m, bad)
      PROVE TypeOK'
  <2>1. memberPubKey' \in [GroupIds -> [MemberIds -> [MemberIds -> Nat]]]
    BY <1>4, Zenon DEF SubmitDKGRound2
  <2>2. round2Infos' \in [GroupIds -> SUBSET MemberIds]
    BY <1>4, ZenonT(60) DEF SubmitDKGRound2
  <2>3. round2Count' \in [GroupIds -> Nat]
    BY <1>4, SMTT(30) DEF SubmitDKGRound2
  <2>4. badShares' \in [GroupIds -> SUBSET (MemberIds \X MemberIds)]
    <3>1. {<<m, r>> : r \in bad} \in SUBSET (MemberIds \X MemberIds)
      OBVIOUS
    <3>2. badShares' = [badShares EXCEPT ![g] = @ \cup {<<m, r>> : r \in bad}]
      BY <1>4, Zenon DEF SubmitDKGRound2
    <3>3. QED
      BY <3>1, <3>2, Zenon
  <2>5. pendingProcessGroups' \in Seq(GroupIds)
    BY <1>4 DEF SubmitDKGRound2, AddPendingIfComplete
  <2>6. QED
    BY <1>4, <2>1, <2>2, <2>3, <2>4, <2>5, Zenon DEF SubmitDKGRound2, blockVars, round1Vars, round3Vars
<1>5. ASSUME NEW g \in GroupIds, NEW m \in MemberIds,
             NEW failed \in SUBSET MemberIds, NEW proved \in SUBSET MemberIds,
             Complain(g, m, failed, proved)
      PROVE TypeOK'
  <2>1. malicious' \in [GroupIds -> SUBSET MemberIds]
    BY <1>5, ZenonT(60) DEF Complain, Blamed
  <2>2. complaints' \in [GroupIds -> SUBSET MemberIds]
    BY <1>5, ZenonT(60) DEF Complain
  <2>3. confirmComplainCount' \in [GroupIds -> Nat]
    <3>1. confirmComplainCount' = [confirmComplainCount EXCEPT ![g] = @ + 1]
      BY <1>5, Zenon DEF Complain
    <3>2. QED
      BY <3>1, SMTT(30)
  <2>4. pendingProcessGroups' \in Seq(GroupIds)
    BY <1>5 DEF Complain, AddPendingIfComplete
  <2>5. QED
    BY <1>5, <2>1, <2>2, <2>3, <2>4, Zenon DEF Complain, blockVars, round1Vars, round2Vars
<1>6. ASSUME NEW g \in GroupIds, NEW m \in MemberIds, Confirm(g, m) PROVE TypeOK'
  <2>1. confirms' \in [GroupIds -> SUBSET MemberIds]
    BY <1>6, ZenonT(60) DEF Confirm
  <2>2. confirmComplainCount' \in [GroupIds -> Nat]
    BY <1>6, SMTT(30) DEF Confirm
  <2>3. pendingProcessGroups' \in Seq(GroupIds)
    BY <1>6 DEF Confirm, AddPendingIfComplete
  <2>4. QED
    BY <1>6, <2>1, <2>2, <2>3, Zenon DEF Confirm, blockVars, groupVars, round1Vars, round2Vars
<1>7. CASE EndBlock
  BY <1>7, Zenon DEF EndBlock, keeperVars, groupVars, round1Vars, round2Vars, round3Vars
<1>8. CASE HandleProcessGroup
  <2>1. Head(pendingProcessGroups) \in GroupIds
    BY <1>8 DEF HandleProcessGroup
  <2>2. status' \in [GroupIds -> Statuses]
    BY <1>8, <2>1, Zenon DEF HandleProcessGroup, StatusAfterProcess
  <2>3. groupPubKey' \in [GroupIds -> [MemberIds -> Nat]]
    BY <1>8, <2>1, Zenon DEF HandleProcessGroup
  <2>4. callbacks' \in [GroupIds -> Seq({"completed", "failed", "expired"})]
    <3>1. \A s : CallbackOf(s) \in {"completed", "failed", "expired"}
      BY Zenon DEF CallbackOf
    <3>2. \A g \in GroupIds, c \in {"completed", "failed", "expired"} :
            Append(callbacks[g], c) \in Seq({"completed", "failed", "expired"})
      OBVIOUS
    <3>3. QED
      BY <1>8, <2>1, <3>1, <3>2, Zenon DEF HandleProcessGroup
  <2>5. pendingProcessGroups' \in Seq(GroupIds)
    BY <1>8, <2>1 DEF HandleProcessGroup
  <2>6. QED
    BY <1>8, <2>1, <2>2, <2>3, <2>4, <2>5, Zenon DEF HandleProcessGroup, blockVars, round1Vars, round2Vars, round3Vars
<1>9. CASE ProcessDone
  BY <1>9, Zenon DEF ProcessDone, keeperVars, groupVars, round1Vars, round2Vars, round3Vars
<1>10. CASE HandleExpiredGroup
  <2>1. lastExpiredGroupID + 1 \in GroupIds /\ lastExpiredGroupID + 1 \in 0..groupCount
    BY <1>10 DEF HandleExpiredGroup, ExpiredGroupDue, GroupIds
  <2>2. status' \in [GroupIds -> Statuses]
    BY <1>10, <2>1, Zenon DEF HandleExpiredGroup
  <2>3. callbacks' \in [GroupIds -> Seq({"completed", "failed", "expired"})]
    BY <1>10, <2>1, SMTT(30) DEF HandleExpiredGroup
  <2>4. lastExpiredGroupID' \in 0..groupCount'
    BY <1>10, <2>1, Zenon DEF HandleExpiredGroup
  <2>5. dkgContext' \in [GroupIds -> BOOLEAN]
    BY <1>10, <2>1, Zenon DEF HandleExpiredGroup
  <2>6. accCommits' \in [GroupIds -> [MemberIds -> Nat]]
    BY <1>10, <2>1, Zenon DEF HandleExpiredGroup, NoCommits
  <2>7. round1Infos' \in [GroupIds -> SUBSET MemberIds]
    BY <1>10, <2>1, Zenon DEF HandleExpiredGroup
  <2>8. round1Count' \in [GroupIds -> Nat]
    BY <1>10, <2>1, Zenon DEF HandleExpiredGroup
  <2>9. round2Infos' \in [GroupIds -> SUBSET MemberIds]
    BY <1>10, <2>1, Zenon DEF HandleExpiredGroup
  <2>10. round2Count' \in [GroupIds -> Nat]
    BY <1>10, <2>1, Zenon DEF HandleExpiredGroup
  <2>11. confirms' \in [GroupIds -> SUBSET MemberIds]
    BY <1>10, <2>1, Zenon DEF HandleExpiredGroup
  <2>12. complaints' \in [GroupIds -> SUBSET MemberIds]
    BY <1>10, <2>1, Zenon DEF HandleExpiredGroup
  <2>13. confirmComplainCount' \in [GroupIds -> Nat]
    BY <1>10, <2>1, Zenon DEF HandleExpiredGroup
  <2>14. QED
    BY <1>10, <2>1, <2>2, <2>3, <2>4, <2>5, <2>6, <2>7, <2>8, <2>9, <2>10, <2>11, <2>12, <2>13, ZenonT(60) DEF HandleExpiredGroup, blockVars
<1>11. CASE ExpireDone
  BY <1>11, SMTT(20) DEF ExpireDone, keeperVars, groupVars, round1Vars, round2Vars, round3Vars
<1>12. CASE UNCHANGED vars
  BY <1>12, Zenon DEF vars, blockVars, keeperVars, groupVars, round1Vars, round2Vars, round3Vars
<1>13. QED
  BY <1>1, <1>2, <1>3, <1>4, <1>5, <1>6, <1>7, <1>8, <1>9, <1>10, <1>11, <1>12, Zenon
  DEF Next, MsgNext, BlockNext

-----------------------------------------------------------------------------
(* Counting submissions *)

\* A set of submissions is complete when it counts as many as there are
\* members, and one more submission counts one more.
Counting ==
  /\ Cardinality({}) = 0
  /\ \A n \in Nat : \A S \in SUBSET (1..n) : \A m \in (1..n) \ S :
       /\ Cardinality(S \cup {m}) = Cardinality(S) + 1
       /\ Cardinality(S) + 1 = n <=> S \cup {m} = 1..n
       /\ S # 1..n

\* Counting the submissions of one group.
LEMMA MemberCount ==
  ASSUME Counting, TypeOK, NEW g \in GroupIds, NEW S, S \subseteq MembersOf(g),
         NEW m \in MembersOf(g), m \notin S
  PROVE  /\ Cardinality(S \cup {m}) = Cardinality(S) + 1
         /\ Cardinality(S) + 1 = size[g] <=> S \cup {m} = MembersOf(g)
         /\ S # MembersOf(g)
<1>1. size[g] \in Nat /\ MembersOf(g) = 1..size[g]
  BY DEF TypeOK, MembersOf
<1>2. S \subseteq 1..size[g] /\ m \in 1..size[g]
  BY <1>1, Zenon
<1>3. /\ Cardinality(S \cup {m}) = Cardinality(S) + 1
      /\ Cardinality(S) + 1 = size[g] <=> S \cup {m} = 1..size[g]
      /\ S # 1..size[g]
  BY <1>1, <1>2, Zenon DEF Counting
<1>4. QED
  BY <1>1, <1>3, Zenon

-----------------------------------------------------------------------------
(* A step that leaves the data of a group alone keeps GroupInv of it. *)

GroupData(g) ==
  <<status[g], size[g], groupPubKey[g], memberPubKey[g], malicious[g], dkgContext[g],
    accCommits[g], round1Infos[g], round1Count[g], round2Infos[g], round2Count[g],
    badShares[g], confirms[g], complaints[g], confirmComplainCount[g], callbacks[g]>>

\* A step that leaves a group's data alone, and the group on the same side of
\* the two counters, keeps GroupInv of it.
LEMMA GroupFrame ==
  ASSUME NEW g \in GroupIds, GroupInv(g), UNCHANGED GroupData(g),
         g > groupCount <=> g > groupCount',
         g <= groupCount <=> g <= groupCount',
         g > lastExpiredGroupID <=> g > lastExpiredGroupID',
         g <= lastExpiredGroupID <=> g <= lastExpiredGroupID'
  PROVE  GroupInv(g)'
<1> USE DEF GroupData
<1>1. MembersOf(g)' = MembersOf(g) /\ FullCommits(g)' = FullCommits(g)
  BY Zenon DEF MembersOf, FullCommits
<1>2. \A m : BadDealers(g, m)' = BadDealers(g, m)
  BY <1>1, Zenon DEF BadDealers
<1>3. ExistenceInv(g)'
  BY Zenon DEF GroupInv, ExistenceInv, NoInterimData
<1>4. CountInv(g)'
  BY <1>1, Zenon DEF GroupInv, CountInv
<1>5. RoundInv(g)'
  BY <1>1, ZenonT(60) DEF GroupInv, RoundInv
<1>6. KeysAgree(g)' <=> KeysAgree(g)
  BY <1>1, ZenonT(60) DEF KeysAgree
<1>7. NobodyCheated(g)' <=> NobodyCheated(g)
  BY <1>1, <1>2, Zenon DEF NobodyCheated
<1>8. ShareInv(g)'
  BY <1>2, <1>6, <1>7, Zenon DEF GroupInv, ShareInv
<1>9. CallbackInv(g)'
  BY Zenon DEF GroupInv, CallbackInv
<1>10. QED
  BY <1>3, <1>4, <1>5, <1>8, <1>9, Zenon DEF GroupInv
-----------------------------------------------------------------------------
(* The pending list *)

\* A submission queues the group exactly if it was the last one missing.
LEMMA PendingSubmit ==
  ASSUME TypeOK, PendingIsComplete, NEW g \in GroupIds,
         status[g] \in Creating, Submitted(g) # MembersOf(g), UNCHANGED <<status, size>>,
         pendingProcessGroups' = IF Submitted(g)' = MembersOf(g)
                                 THEN Append(pendingProcessGroups, g)
                                 ELSE pendingProcessGroups,
         \A h \in GroupIds : h # g => Submitted(h)' = Submitted(h)
  PROVE  PendingIsComplete'
<1>1. ~IsPending(g)
  BY Zenon DEF PendingIsComplete
<1>2. pendingProcessGroups \in Seq(GroupIds)
  BY Zenon DEF TypeOK
<1>3. \A h \in GroupIds : MembersOf(h)' = MembersOf(h)
  BY Zenon DEF MembersOf
<1>4. CASE Submitted(g)' = MembersOf(g)
  <2>1. /\ Len(pendingProcessGroups') = Len(pendingProcessGroups) + 1
        /\ \A i \in 1..Len(pendingProcessGroups) :
             pendingProcessGroups'[i] = pendingProcessGroups[i]
        /\ pendingProcessGroups'[Len(pendingProcessGroups) + 1] = g
        /\ Len(pendingProcessGroups) \in Nat
    BY <1>2, <1>4
  <2>2. \A h \in GroupIds : IsPending(h)' <=> IsPending(h) \/ h = g
    BY <2>1 DEF IsPending
  <2>3. \A i, j \in 1..Len(pendingProcessGroups') :
          pendingProcessGroups'[i] = pendingProcessGroups'[j] => i = j
    BY <1>1, <2>1 DEF IsPending, PendingIsComplete
  <2>4. QED
    BY <1>3, <1>4, <2>2, <2>3, Zenon DEF PendingIsComplete
<1>5. CASE Submitted(g)' # MembersOf(g)
  <2>1. \A h : IsPending(h)' <=> IsPending(h)
    BY <1>5, Zenon DEF IsPending
  <2>2. QED
    BY <1>1, <1>3, <1>5, <2>1, Zenon DEF PendingIsComplete
<1>6. QED
  BY <1>4, <1>5, Zenon

-----------------------------------------------------------------------------
(* Each message keeps the invariant. *)

\* MsgSubmitDKGRound1 keeps the invariant.
LEMMA Round1Step ==
  ASSUME Counting, IInv, TypeOK', NEW g \in GroupIds, NEW m \in MemberIds, SubmitDKGRound1(g, m)
  PROVE  IInv'
<1>1. phase = "tx" /\ UNCHANGED <<blockVars, groupCount, lastExpiredGroupID, groupVars, dkgContext, round2Vars,
                                    round3Vars, callbacks>>
  BY Zenon DEF SubmitDKGRound1, FromMember
<1>2. ASSUME NEW h \in GroupIds, h # g PROVE GroupInv(h)'
  <2>1. UNCHANGED GroupData(h)
    BY <1>1, <1>2, SMTT(30) DEF SubmitDKGRound1, GroupData, groupVars, round2Vars, round3Vars, TypeOK
  <2>2. QED
    BY <1>1, <2>1, GroupFrame, Zenon DEF IInv
<1>3. /\ status[g] = "ROUND_1" /\ status'[g] = "ROUND_1"
      /\ m \in MembersOf(g) /\ m \notin round1Infos[g]
      /\ MembersOf(g)' = MembersOf(g)
      /\ round1Infos'[g] = round1Infos[g] \cup {m}
      /\ round1Count'[g] = round1Count[g] + 1
      /\ accCommits'[g] = [accCommits[g] EXCEPT ![m] = @ + 1]
      /\ UNCHANGED <<size[g], malicious[g], badShares[g], round2Infos[g], round2Count[g],
                     confirms[g], complaints[g], confirmComplainCount[g], dkgContext[g],
                     callbacks[g]>>
  BY <1>1 DEF SubmitDKGRound1, FromMember, groupVars, round2Vars, round3Vars, MembersOf, IInv, TypeOK
<1>4. GroupInv(g) /\ PendingIsComplete /\ TypeOK
  BY Zenon DEF IInv
<1>5. /\ Cardinality(round1Infos[g] \cup {m}) = Cardinality(round1Infos[g]) + 1
      /\ Cardinality(round1Infos[g]) + 1 = size[g] <=> round1Infos[g] \cup {m} = MembersOf(g)
      /\ round1Infos[g] # MembersOf(g)
      /\ round1Count[g] = Cardinality(round1Infos[g])
  <2>1. round1Infos[g] \subseteq MembersOf(g) /\ round1Count[g] = Cardinality(round1Infos[g])
    BY <1>4, Zenon DEF GroupInv, CountInv
  <2>2. m \in MembersOf(g) /\ m \notin round1Infos[g]
    BY <1>3, Zenon
  <2>3. QED
    BY <1>4, <2>1, <2>2, MemberCount, ZenonT(60)
<1>6. GroupInv(g)'
  <2> USE <1>3, <1>4 DEF GroupInv
  <2>1. ExistenceInv(g)'
    BY <1>1, Zenon DEF ExistenceInv
  <2>2. CountInv(g)'
    BY <1>5, Zenon DEF CountInv
  <2>3. RoundInv(g)'
    <3>1. accCommits'[g] = [k \in MemberIds |-> IF k \in round1Infos'[g] THEN 1 ELSE 0]
      BY DEF RoundInv, Creating
    <3>2. QED
      BY <3>1, Zenon DEF RoundInv, Creating
  <2>4. ShareInv(g)'
    BY Zenon DEF ShareInv
  <2>5. CallbackInv(g)'
    BY Zenon DEF CallbackInv, Creating
  <2>6. QED
    BY <2>1, <2>2, <2>3, <2>4, <2>5, Zenon
<1>7. PendingIsComplete'
  <2>1. Submitted(g) = round1Infos[g] /\ Submitted(g)' = round1Infos'[g]
    BY <1>3, Zenon DEF Submitted
  <2>2. \A h \in GroupIds : h # g => Submitted(h)' = Submitted(h)
    BY <1>1, <1>4, ZenonT(60) DEF SubmitDKGRound1, Submitted, groupVars, round2Vars, round3Vars, TypeOK
  <2>3. pendingProcessGroups' = IF Submitted(g)' = MembersOf(g)
                                THEN Append(pendingProcessGroups, g)
                                ELSE pendingProcessGroups
    BY <1>3, <1>5, <2>1 DEF SubmitDKGRound1, AddPendingIfComplete
  <2>4. QED
    BY <1>1, <1>3, <1>4, <1>5, <2>1, <2>2, <2>3, PendingSubmit, Zenon DEF groupVars, Creating
<1>8. QED
  BY <1>1, <1>2, <1>6, <1>7, Zenon DEF IInv, AgeInv, blockVars, groupVars

\* MsgSubmitDKGRound2 keeps the invariant.
LEMMA Round2Step ==
  ASSUME Counting, IInv, TypeOK', NEW g \in GroupIds, NEW m \in MemberIds, NEW bad \in SUBSET MemberIds,
         SubmitDKGRound2(g, m, bad)
  PROVE  IInv'
<1>1. phase = "tx" /\ UNCHANGED <<blockVars, groupCount, lastExpiredGroupID, status, size, createdHeight,
                                    groupPubKey, malicious, round1Vars, round3Vars, callbacks>>
  BY Zenon DEF SubmitDKGRound2, FromMember
<1>2. ASSUME NEW h \in GroupIds, h # g PROVE GroupInv(h)'
  <2>1. UNCHANGED GroupData(h)
    BY <1>1, <1>2 DEF SubmitDKGRound2, GroupData, round1Vars, round3Vars, IInv, TypeOK
  <2>2. QED
    BY <1>1, <2>1, GroupFrame, Zenon DEF IInv
<1>3. /\ status[g] = "ROUND_2" /\ status'[g] = "ROUND_2"
      /\ m \in MembersOf(g) /\ m \notin round2Infos[g]
      /\ MembersOf(g)' = MembersOf(g) /\ FullCommits(g)' = FullCommits(g)
      /\ round2Infos'[g] = round2Infos[g] \cup {m}
      /\ round2Count'[g] = round2Count[g] + 1
      /\ memberPubKey'[g] = [memberPubKey[g] EXCEPT ![m] = accCommits[g]]
      /\ badShares'[g] = badShares[g] \cup {<<m, r>> : r \in bad}
      /\ m \in Honest => bad = {}
      /\ UNCHANGED <<size[g], malicious[g], groupPubKey[g], accCommits[g], round1Infos[g],
                     round1Count[g], confirms[g], complaints[g], confirmComplainCount[g],
                     dkgContext[g], callbacks[g]>>
  BY <1>1 DEF SubmitDKGRound2, FromMember, round1Vars, round3Vars, MembersOf, FullCommits, IInv, TypeOK
<1>4. GroupInv(g) /\ PendingIsComplete /\ TypeOK
  BY Zenon DEF IInv
<1>5. /\ Cardinality(round2Infos[g] \cup {m}) = Cardinality(round2Infos[g]) + 1
      /\ Cardinality(round2Infos[g]) + 1 = size[g] <=> round2Infos[g] \cup {m} = MembersOf(g)
      /\ round2Infos[g] # MembersOf(g)
      /\ round2Count[g] = Cardinality(round2Infos[g])
  <2>1. round2Infos[g] \subseteq MembersOf(g) /\ round2Count[g] = Cardinality(round2Infos[g])
    BY <1>4, Zenon DEF GroupInv, CountInv
  <2>2. m \in MembersOf(g) /\ m \notin round2Infos[g]
    BY <1>3, Zenon
  <2>3. QED
    BY <1>4, <2>1, <2>2, MemberCount, ZenonT(60)
<1>6. GroupInv(g)'
  <2> USE <1>3, <1>4 DEF GroupInv
  <2>1. ExistenceInv(g)'
    BY <1>1, Zenon DEF ExistenceInv
  <2>2. CountInv(g)'
    BY <1>5, ZenonT(60) DEF CountInv
  <2>3. RoundInv(g)'
    <3>1. accCommits[g] = FullCommits(g)
      BY SMTT(20) DEF RoundInv, Creating, FullCommits
    <3>2. \A k \in round2Infos'[g] : memberPubKey'[g][k] = FullCommits(g)
      BY <3>1, SMTT(20) DEF RoundInv, TypeOK
    <3>3. QED
      BY <3>2, Zenon DEF RoundInv, Creating
  <2>4. ShareInv(g)'
    BY Zenon DEF ShareInv
  <2>5. CallbackInv(g)'
    BY Zenon DEF CallbackInv, Creating
  <2>6. QED
    BY <2>1, <2>2, <2>3, <2>4, <2>5, Zenon
<1>7. PendingIsComplete'
  <2>1. Submitted(g) = round2Infos[g] /\ Submitted(g)' = round2Infos'[g]
    BY <1>3, Zenon DEF Submitted
  <2>2. \A h \in GroupIds : h # g => Submitted(h)' = Submitted(h)
    BY <1>1, <1>4, ZenonT(60) DEF SubmitDKGRound2, Submitted, round1Vars, round3Vars, TypeOK
  <2>3. pendingProcessGroups' = IF Submitted(g)' = MembersOf(g)
                                THEN Append(pendingProcessGroups, g)
                                ELSE pendingProcessGroups
    BY <1>3, <1>5, <2>1, ZenonT(60) DEF SubmitDKGRound2, AddPendingIfComplete
  <2>4. QED
    BY <1>1, <1>3, <1>4, <1>5, <2>1, <2>2, <2>3, PendingSubmit, Zenon DEF Creating
<1>8. QED
  BY <1>1, <1>2, <1>6, <1>7, Zenon DEF IInv, AgeInv, blockVars

\* MsgComplain keeps the invariant.
LEMMA ComplainStep ==
  ASSUME Counting, IInv, TypeOK', NEW g \in GroupIds, NEW m \in MemberIds,
         NEW failed \in SUBSET MemberIds, NEW proved \in SUBSET MemberIds,
         Complain(g, m, failed, proved)
  PROVE  IInv'
<1>1. phase = "tx" /\ UNCHANGED <<blockVars, groupCount, lastExpiredGroupID, status, size, createdHeight,
                                    groupPubKey, memberPubKey, round1Vars, round2Vars, confirms, callbacks>>
  BY Zenon DEF Complain, FromMember
<1>2. ASSUME NEW h \in GroupIds, h # g PROVE GroupInv(h)'
  <2>1. UNCHANGED GroupData(h)
    BY <1>1, <1>2 DEF Complain, GroupData, round1Vars, round2Vars, IInv, TypeOK
  <2>2. QED
    BY <1>1, <2>1, GroupFrame, Zenon DEF IInv
<1>3. /\ status[g] = "ROUND_3" /\ status'[g] = "ROUND_3"
      /\ m \in MembersOf(g) /\ m \notin confirms[g] \cup complaints[g]
      /\ MembersOf(g)' = MembersOf(g) /\ FullCommits(g)' = FullCommits(g)
      /\ \A k : BadDealers(g, k)' = BadDealers(g, k)
      /\ failed \cup proved # {} /\ failed \subseteq MemberIds \ {m}
      /\ proved \subseteq BadDealers(g, m)
      /\ m \in Honest => failed = {} /\ proved = BadDealers(g, m)
      /\ complaints'[g] = complaints[g] \cup {m}
      /\ confirmComplainCount'[g] = confirmComplainCount[g] + 1
      /\ malicious'[g] = malicious[g] \cup Blamed(m, failed, proved)
      /\ UNCHANGED <<size[g], groupPubKey[g], memberPubKey[g], accCommits[g], round1Infos[g],
                     round1Count[g], round2Infos[g], round2Count[g], badShares[g], confirms[g],
                     dkgContext[g], callbacks[g]>>
  <2>1. /\ status[g] = "ROUND_3" /\ m \in MembersOf(g) /\ m \notin confirms[g] \cup complaints[g]
        /\ failed \cup proved # {} /\ failed \subseteq MemberIds \ {m}
        /\ proved \subseteq BadDealers(g, m)
        /\ m \in Honest => failed = {} /\ proved = BadDealers(g, m)
    BY Zenon DEF Complain, FromMember, NotYetAnswered
  <2>2. /\ complaints'[g] = complaints[g] \cup {m}
        /\ confirmComplainCount'[g] = confirmComplainCount[g] + 1
        /\ malicious'[g] = malicious[g] \cup Blamed(m, failed, proved)
    BY DEF Complain, IInv, TypeOK
  <2>3. MembersOf(g)' = MembersOf(g) /\ FullCommits(g)' = FullCommits(g)
    BY <1>1, Zenon DEF MembersOf, FullCommits
  <2>4. \A k : BadDealers(g, k)' = BadDealers(g, k)
    BY <1>1, <2>3, Zenon DEF BadDealers, round2Vars
  <2>5. QED
    BY <1>1, <2>1, <2>2, <2>3, <2>4, Zenon DEF round1Vars, round2Vars
<1>4. GroupInv(g) /\ PendingIsComplete /\ TypeOK
  BY Zenon DEF IInv
<1>5. /\ Cardinality((confirms[g] \cup complaints[g]) \cup {m}) = Cardinality((confirms[g] \cup complaints[g])) + 1
      /\ Cardinality((confirms[g] \cup complaints[g])) + 1 = size[g] <=> (confirms[g] \cup complaints[g]) \cup {m} = MembersOf(g)
      /\ (confirms[g] \cup complaints[g]) # MembersOf(g)
      /\ confirmComplainCount[g] = Cardinality((confirms[g] \cup complaints[g]))
  <2>1. (confirms[g] \cup complaints[g]) \subseteq MembersOf(g) /\ confirmComplainCount[g] = Cardinality((confirms[g] \cup complaints[g]))
    BY <1>4, Zenon DEF GroupInv, CountInv
  <2>2. m \in MembersOf(g) /\ m \notin (confirms[g] \cup complaints[g])
    BY <1>3, Zenon
  <2>3. QED
    BY <1>4, <2>1, <2>2, MemberCount, Zenon
<1>6. GroupInv(g)'
  <2> USE <1>3, <1>4 DEF GroupInv
  <2>1. ExistenceInv(g)'
    BY <1>1, Zenon DEF ExistenceInv
  <2>2. CountInv(g)'
    <3>1. confirms'[g] \cup complaints'[g] = (confirms[g] \cup complaints[g]) \cup {m}
      BY Zenon
    <3>2. confirmComplainCount'[g] = Cardinality(confirms'[g] \cup complaints'[g])
      BY <1>5, <3>1, Zenon
    <3>3. QED
      BY <3>2, ZenonT(60) DEF CountInv
  <2>3. RoundInv(g)'
    BY Zenon DEF RoundInv, Creating
  <2>4. ShareInv(g)'
    <3>1. proved \cap Honest = {}
      BY Zenon DEF ShareInv, BadDealers, MembersOf, TypeOK
    <3>2. Blamed(m, failed, proved) \cap Honest = {}
      BY <3>1, Zenon DEF Blamed
    <3>3. m \in Honest => BadDealers(g, m) # {} /\ BadDealers(g, m) \subseteq malicious'[g]
      BY ZenonT(60) DEF Blamed
    <3>4. malicious'[g] \cap Honest = {}
      BY <3>2, Zenon DEF ShareInv
    <3>5. \A k \in complaints'[g] \cap Honest :
            BadDealers(g, k)' # {} /\ BadDealers(g, k)' \subseteq malicious'[g]
      <4> SUFFICES ASSUME NEW k \in complaints'[g] \cap Honest
                   PROVE  BadDealers(g, k)' # {} /\ BadDealers(g, k)' \subseteq malicious'[g]
        BY Zenon
      <4>1. malicious[g] \subseteq malicious'[g] /\ BadDealers(g, k)' = BadDealers(g, k)
        BY <1>3, Zenon
      <4>2. CASE k = m
        BY <3>3, <4>1, <4>2, Zenon
      <4>3. CASE k \in complaints[g]
        <5>1. BadDealers(g, k) # {} /\ BadDealers(g, k) \subseteq malicious[g]
          BY <1>4, <4>3, Zenon DEF ShareInv
        <5>2. QED
          BY <4>1, <5>1, Zenon
      <4>4. QED
        BY <1>3, <4>2, <4>3, ZenonT(60)
    <3>6. QED
      BY <3>4, <3>5, Zenon DEF ShareInv
  <2>5. CallbackInv(g)'
    BY Zenon DEF CallbackInv, Creating
  <2>6. QED
    BY <2>1, <2>2, <2>3, <2>4, <2>5, Zenon
<1>7. PendingIsComplete'
  <2>1. /\ Submitted(g) = confirms[g] \cup complaints[g]
        /\ Submitted(g)' = (confirms[g] \cup complaints[g]) \cup {m}
    BY <1>3, Zenon DEF Submitted
  <2>2. \A h \in GroupIds : h # g => Submitted(h)' = Submitted(h)
    BY <1>1, <1>4, ZenonT(60) DEF Complain, Submitted, round1Vars, round2Vars, TypeOK
  <2>3. pendingProcessGroups' = IF Submitted(g)' = MembersOf(g)
                                THEN Append(pendingProcessGroups, g)
                                ELSE pendingProcessGroups
    BY <1>3, <1>5, <2>1, Zenon DEF Complain, AddPendingIfComplete
  <2>4. QED
    BY <1>1, <1>3, <1>4, <1>5, <2>1, <2>2, <2>3, PendingSubmit, Zenon DEF Creating
<1>8. QED
  BY <1>1, <1>2, <1>6, <1>7, Zenon DEF IInv, AgeInv, blockVars

\* MsgConfirm keeps the invariant.
LEMMA ConfirmStep ==
  ASSUME Counting, IInv, TypeOK', NEW g \in GroupIds, NEW m \in MemberIds, Confirm(g, m)
  PROVE  IInv'
<1>1. phase = "tx" /\ UNCHANGED <<blockVars, groupCount, lastExpiredGroupID, groupVars, round1Vars, round2Vars,
                                    complaints, callbacks>>
  BY Zenon DEF Confirm, FromMember
<1>2. ASSUME NEW h \in GroupIds, h # g PROVE GroupInv(h)'
  <2>1. UNCHANGED GroupData(h)
    BY <1>1, <1>2, ZenonT(60) DEF Confirm, GroupData, groupVars, round1Vars, round2Vars, IInv, TypeOK
  <2>2. QED
    BY <1>1, <2>1, GroupFrame, Zenon DEF IInv
<1>3. /\ status[g] = "ROUND_3" /\ status'[g] = "ROUND_3"
      /\ m \in MembersOf(g) /\ m \notin confirms[g] \cup complaints[g]
      /\ MembersOf(g)' = MembersOf(g) /\ FullCommits(g)' = FullCommits(g)
      /\ \A k : BadDealers(g, k)' = BadDealers(g, k)
      /\ m \in Honest => BadDealers(g, m) = {}
      /\ confirms'[g] = confirms[g] \cup {m}
      /\ confirmComplainCount'[g] = confirmComplainCount[g] + 1
      /\ UNCHANGED <<size[g], groupPubKey[g], memberPubKey[g], malicious[g], accCommits[g],
                     round1Infos[g], round1Count[g], round2Infos[g], round2Count[g],
                     badShares[g], complaints[g], dkgContext[g], callbacks[g]>>
  BY <1>1, ZenonT(60) DEF Confirm, FromMember, groupVars, round1Vars, round2Vars, MembersOf, FullCommits, BadDealers,
              NotYetAnswered, IInv, TypeOK
<1>4. GroupInv(g) /\ PendingIsComplete /\ TypeOK
  BY Zenon DEF IInv
<1>5. /\ Cardinality((confirms[g] \cup complaints[g]) \cup {m}) = Cardinality((confirms[g] \cup complaints[g])) + 1
      /\ Cardinality((confirms[g] \cup complaints[g])) + 1 = size[g] <=> (confirms[g] \cup complaints[g]) \cup {m} = MembersOf(g)
      /\ (confirms[g] \cup complaints[g]) # MembersOf(g)
      /\ confirmComplainCount[g] = Cardinality((confirms[g] \cup complaints[g]))
  <2>1. (confirms[g] \cup complaints[g]) \subseteq MembersOf(g) /\ confirmComplainCount[g] = Cardinality((confirms[g] \cup complaints[g]))
    BY <1>4, Zenon DEF GroupInv, CountInv
  <2>2. m \in MembersOf(g) /\ m \notin (confirms[g] \cup complaints[g])
    BY <1>3, Zenon
  <2>3. QED
    BY <1>4, <2>1, <2>2, MemberCount, ZenonT(60)
<1>6. GroupInv(g)'
  <2> USE <1>3, <1>4 DEF GroupInv
  <2>1. ExistenceInv(g)'
    BY <1>1, Zenon DEF ExistenceInv
  <2>2. CountInv(g)'
    <3>1. confirms'[g] \cup complaints'[g] = (confirms[g] \cup complaints[g]) \cup {m}
      BY Zenon
    <3>2. confirmComplainCount'[g] = Cardinality(confirms'[g] \cup complaints'[g])
      BY <1>5, <3>1, Zenon
    <3>3. QED
      BY <3>2, Zenon DEF CountInv
  <2>3. RoundInv(g)'
    BY ZenonT(60) DEF RoundInv, Creating
  <2>4. ShareInv(g)'
    BY ZenonT(60) DEF ShareInv
  <2>5. CallbackInv(g)'
    BY Zenon DEF CallbackInv, Creating
  <2>6. QED
    BY <2>1, <2>2, <2>3, <2>4, <2>5, Zenon
<1>7. PendingIsComplete'
  <2>1. /\ Submitted(g) = confirms[g] \cup complaints[g]
        /\ Submitted(g)' = (confirms[g] \cup complaints[g]) \cup {m}
    BY <1>3, Zenon DEF Submitted
  <2>2. \A h \in GroupIds : h # g => Submitted(h)' = Submitted(h)
    BY <1>1, <1>4, ZenonT(60) DEF Confirm, Submitted, groupVars, round1Vars, round2Vars, TypeOK
  <2>3. pendingProcessGroups' = IF Submitted(g)' = MembersOf(g)
                                THEN Append(pendingProcessGroups, g)
                                ELSE pendingProcessGroups
    BY <1>3, <1>5, <2>1, Zenon DEF Confirm, AddPendingIfComplete
  <2>4. QED
    BY <1>1, <1>3, <1>4, <1>5, <2>1, <2>2, <2>3, PendingSubmit, Zenon DEF groupVars, Creating
<1>8. QED
  BY <1>1, <1>2, <1>6, <1>7, Zenon DEF IInv, AgeInv, blockVars, groupVars

-----------------------------------------------------------------------------
(* Creating a group and the steps of the EndBlocker. *)

\* The first callback of a group.
LEMMA AppendToEmpty == \A x : Append(<< >>, x) = << x >>
  OBVIOUS

\* Keeper.CreateGroup keeps the invariant.
LEMMA CreateStep ==
  ASSUME Counting, IInv, TypeOK', NEW n \in MemberIds, CreateGroup(n)
  PROVE  IInv'
<1>0. PICK g \in GroupIds : g = groupCount + 1
  BY MaxGroupsAssumption DEF CreateGroup, IInv, TypeOK, GroupIds
<1>1. /\ TypeOK /\ n >= 1 /\ n \in Nat
      /\ g \in Nat /\ groupCount \in Nat /\ lastExpiredGroupID \in Nat
      /\ g > groupCount /\ g > lastExpiredGroupID
  <2>1. TypeOK
    BY Zenon DEF IInv
  <2>2. groupCount \in Nat /\ lastExpiredGroupID \in Nat /\ lastExpiredGroupID <= groupCount
    BY <2>1, MaxGroupsAssumption DEF TypeOK
  <2>3. n >= 1 /\ n \in Nat
    BY MaxGroupSizeAssumption DEF MemberIds
  <2>4. QED
    BY <1>0, <2>1, <2>2, <2>3
<1>2. /\ groupCount' = g
      /\ status' = [status EXCEPT ![g] = "ROUND_1"]
      /\ size' = [size EXCEPT ![g] = n]
      /\ createdHeight' = [createdHeight EXCEPT ![g] = height]
      /\ dkgContext' = [dkgContext EXCEPT ![g] = TRUE]
      /\ UNCHANGED <<blockVars, lastExpiredGroupID, pendingProcessGroups, groupPubKey,
                     memberPubKey, malicious, accCommits, round1Infos, round1Count, round2Vars,
                     round3Vars, callbacks>>
  BY <1>0, Zenon DEF CreateGroup
<1>3. ASSUME NEW h \in GroupIds, h # g PROVE GroupInv(h)'
  <2>1. UNCHANGED GroupData(h)
    BY <1>1, <1>2, <1>3, ZenonT(60) DEF GroupData, round2Vars, round3Vars, TypeOK
  <2>2. h \in Nat /\ g \in Nat /\ groupCount \in Nat
    BY <1>1 DEF GroupIds
  <2>3. groupCount' = g /\ g = groupCount + 1 /\ h # g
    BY <1>0, <1>2, <1>3, Zenon
  <2>4. (h > groupCount <=> h > groupCount') /\ (h <= groupCount <=> h <= groupCount')
    BY <2>2, <2>3
  <2>5. QED
    BY <1>2, <2>1, <2>4, GroupFrame, Zenon DEF IInv
<1>4. /\ status[g] = "NONE" /\ NoInterimData(g)
      /\ badShares[g] = {} /\ malicious[g] = {} /\ callbacks[g] = << >>
  BY <1>1, Zenon DEF IInv, GroupInv, ExistenceInv, CallbackInv
<1>5. /\ status'[g] = "ROUND_1" /\ size'[g] = n /\ dkgContext'[g]
      /\ MembersOf(g)' = 1..n
      /\ UNCHANGED <<malicious[g], accCommits[g], round1Infos[g], round1Count[g],
                     round2Infos[g], round2Count[g], badShares[g], confirms[g], complaints[g],
                     confirmComplainCount[g], callbacks[g]>>
  BY <1>1, <1>2, ZenonT(60) DEF MembersOf, round2Vars, round3Vars, TypeOK
<1>6. GroupInv(g)'
  <2>1. ExistenceInv(g)'
    <3>1. ~(g > groupCount') /\ ~(g <= lastExpiredGroupID')
      BY <1>1, <1>2
    <3>2. status'[g] # "NONE" /\ status'[g] # "EXPIRED" /\ size'[g] >= 1
      BY <1>1, <1>5, ZenonT(60)
    <3>3. QED
      BY <1>5, <3>1, <3>2, Zenon DEF ExistenceInv
  <2>2. CountInv(g)'
    <3>1. {} \cup {} = {} /\ Cardinality({}) = 0
      BY Zenon DEF Counting
    <3>2. QED
      BY <1>4, <1>5, <3>1, ZenonT(60) DEF CountInv, NoInterimData
  <2>3. RoundInv(g)'
    BY <1>4, <1>5, Zenon DEF RoundInv, NoInterimData, NoCommits
  <2>4. ShareInv(g)'
    BY <1>4, <1>5, Zenon DEF ShareInv
  <2>5. CallbackInv(g)'
    BY <1>4, <1>5, Zenon DEF CallbackInv
  <2>6. QED
    BY <2>1, <2>2, <2>3, <2>4, <2>5, Zenon DEF GroupInv
<1>7. PendingIsComplete'
  <2>1. \A h : IsPending(h)' <=> IsPending(h)
    BY <1>2, Zenon DEF IsPending
  <2>2. \A h \in GroupIds : h # g =>
          Submitted(h)' = Submitted(h) /\ MembersOf(h)' = MembersOf(h) /\ status'[h] = status[h]
    BY <1>1, <1>2, Zenon DEF Submitted, MembersOf, round2Vars, round3Vars, TypeOK
  <2>3. ~IsPending(g)
    BY <1>1, <1>4, Zenon DEF IInv, PendingIsComplete, Creating
  <2>4. Submitted(g)' # MembersOf(g)'
    <3>1. Submitted(g)' = {}
      BY <1>4, <1>5, Zenon DEF Submitted, NoInterimData
    <3>2. 1 \in 1..n
      BY <1>1
    <3>3. QED
      BY <1>5, <3>1, <3>2, Zenon
  <2>5. QED
    BY <1>2, <2>1, <2>2, <2>3, <2>4 DEF IInv, PendingIsComplete
<1>8. AgeInv'
  <2> SUFFICES ASSUME NEW a \in 1..groupCount', NEW b \in 1..groupCount', a <= b
               PROVE  createdHeight'[a] <= createdHeight'[b] /\ createdHeight'[b] <= height
    BY <1>2, Zenon DEF AgeInv, blockVars
  <2>1. a \in GroupIds /\ b \in GroupIds /\ height \in Nat /\ groupCount \in Nat
    <3>1. height \in Nat
      BY <1>1, MaxHeightAssumption DEF TypeOK
    <3>2. QED
      BY <1>0, <1>1, <1>2, <3>1, MaxGroupsAssumption DEF GroupIds
  <2>2. createdHeight'[a] = (IF a = g THEN height ELSE createdHeight[a])
    BY <1>1, <1>2, <2>1, Zenon DEF TypeOK
  <2>3. createdHeight'[b] = (IF b = g THEN height ELSE createdHeight[b])
    BY <1>1, <1>2, <2>1, Zenon DEF TypeOK
  <2>4. CASE b # g
    BY <1>0, <1>2, <2>1, <2>2, <2>3, <2>4 DEF IInv, AgeInv
  <2>5. CASE b = g
    <3>1. a # g => createdHeight[a] <= height
      BY <1>0, <1>2, <2>1 DEF IInv, AgeInv
    <3>2. QED
      BY <2>1, <2>2, <2>3, <2>5, <3>1
  <2>6. QED
    BY <2>4, <2>5, Zenon
<1>9. phase' # "expire"
  BY <1>2, Zenon DEF CreateGroup, blockVars
<1>10. QED
  BY <1>3, <1>6, <1>7, <1>8, <1>9, Zenon DEF IInv

-----------------------------------------------------------------------------
(* Each step of the EndBlocker keeps the invariant. *)

\* One iteration over the pending groups (HandleProcessGroup) keeps the invariant.
LEMMA ProcessStep ==
  ASSUME IInv, TypeOK', HandleProcessGroup
  PROVE  IInv'
<1>1. /\ pendingProcessGroups \in Seq(GroupIds) /\ pendingProcessGroups # << >>
      /\ TypeOK /\ PendingIsComplete
  BY Zenon DEF HandleProcessGroup, IInv, TypeOK
<1>0. PICK g \in GroupIds : g = Head(pendingProcessGroups)
  BY <1>1
<1>2. /\ g = pendingProcessGroups[1]
      /\ Len(pendingProcessGroups) \in Nat /\ Len(pendingProcessGroups) >= 1
      /\ Len(pendingProcessGroups') = Len(pendingProcessGroups) - 1
      /\ \A i \in 1..Len(pendingProcessGroups') :
           pendingProcessGroups'[i] = pendingProcessGroups[i + 1]
  BY <1>0, <1>1 DEF HandleProcessGroup
<1>3. status[g] \in Creating /\ Submitted(g) = MembersOf(g) /\ GroupInv(g)
  <2>1. IsPending(g)
    BY <1>2 DEF IsPending
  <2>2. QED
    BY <1>1, <1>2, <2>1, Zenon DEF PendingIsComplete, IInv
<1>4. UNCHANGED <<blockVars, groupCount, lastExpiredGroupID, size, createdHeight, memberPubKey,
                  malicious, round1Vars, round2Vars, round3Vars>>
  BY Zenon DEF HandleProcessGroup
<1>5. ASSUME NEW h \in GroupIds, h # g PROVE GroupInv(h)'
  <2>1. status'[h] = status[h] /\ groupPubKey'[h] = groupPubKey[h] /\ callbacks'[h] = callbacks[h]
    BY <1>0, <1>1, <1>5, ZenonT(60) DEF HandleProcessGroup, TypeOK
  <2>2. UNCHANGED GroupData(h)
    BY <1>4, <2>1, Zenon DEF GroupData, round1Vars, round2Vars, round3Vars
  <2>3. QED
    BY <1>4, <2>2, GroupFrame, Zenon DEF IInv
<1>6. /\ UNCHANGED <<size[g], memberPubKey[g], malicious[g], dkgContext[g], accCommits[g],
                     round1Infos[g], round1Count[g], round2Infos[g], round2Count[g],
                     badShares[g], confirms[g], complaints[g], confirmComplainCount[g]>>
      /\ MembersOf(g)' = MembersOf(g) /\ FullCommits(g)' = FullCommits(g)
      /\ \A k : BadDealers(g, k)' = BadDealers(g, k)
  BY <1>4, Zenon DEF round1Vars, round2Vars, round3Vars, MembersOf, FullCommits, BadDealers
<1>7. /\ status'[g] = StatusAfterProcess(g)
      /\ groupPubKey'[g] = IF status[g] = "ROUND_1" THEN accCommits[g] ELSE groupPubKey[g]
      /\ callbacks'[g] = IF status[g] = "ROUND_3"
                         THEN Append(callbacks[g], CallbackOf(StatusAfterProcess(g)))
                         ELSE callbacks[g]
  BY <1>0, <1>1, Zenon DEF HandleProcessGroup, TypeOK
<1>8. CountInv(g)'
  BY <1>3, <1>6, Zenon DEF GroupInv, CountInv
<1>9. GroupInv(g)' /\ (status'[g] \in Creating => Submitted(g)' = {})
  <2> USE <1>3, <1>6 DEF GroupInv
  <2>1. CASE status[g] = "ROUND_1"
    <3>1. status'[g] = "ROUND_2" /\ round1Infos[g] = MembersOf(g) /\ callbacks'[g] = callbacks[g]
      BY <1>7, <2>1, Zenon DEF StatusAfterProcess, Submitted
    <3>2. groupPubKey'[g] = FullCommits(g) /\ round2Infos[g] = {}
      <4>1. /\ accCommits[g] = [m \in MemberIds |-> IF m \in round1Infos[g] THEN 1 ELSE 0]
            /\ round2Infos[g] = {}
        BY <2>1, Zenon DEF RoundInv, Creating
      <4>2. QED
        BY <1>7, <2>1, <3>1, <4>1, ZenonT(60) DEF FullCommits
    <3>3. ExistenceInv(g)'
      BY <1>4, <2>1, <3>1, Zenon DEF ExistenceInv
    <3>4. RoundInv(g)'
      BY <2>1, <3>1, <3>2, Zenon DEF RoundInv, Creating
    <3>5. ShareInv(g)'
      BY <3>1, Zenon DEF ShareInv
    <3>6. CallbackInv(g)'
      BY <2>1, <3>1, Zenon DEF CallbackInv, Creating
    <3>7. Submitted(g)' = {}
      BY <3>1, <3>2, Zenon DEF Submitted
    <3>8. QED
      BY <1>8, <3>3, <3>4, <3>5, <3>6, <3>7, Zenon
  <2>2. CASE status[g] = "ROUND_2"
    <3>1. /\ status'[g] = "ROUND_3" /\ round2Infos[g] = MembersOf(g)
          /\ callbacks'[g] = callbacks[g] /\ groupPubKey'[g] = groupPubKey[g]
          /\ confirms[g] = {} /\ complaints[g] = {}
      BY <1>7, <2>2, Zenon DEF StatusAfterProcess, Submitted, RoundInv
    <3>2. ExistenceInv(g)'
      BY <1>4, <2>2, <3>1, Zenon DEF ExistenceInv
    <3>3. RoundInv(g)'
      BY <2>2, <3>1, ZenonT(60) DEF RoundInv, Creating
    <3>4. ShareInv(g)'
      BY <3>1, Zenon DEF ShareInv
    <3>5. CallbackInv(g)'
      BY <2>2, <3>1, Zenon DEF CallbackInv, Creating
    <3>6. Submitted(g)' = {}
      BY <3>1, Zenon DEF Submitted
    <3>7. QED
      BY <1>8, <3>2, <3>3, <3>4, <3>5, <3>6, Zenon
  <2>3. CASE status[g] = "ROUND_3"
    <3>1. /\ status'[g] = IF malicious[g] = {} THEN "ACTIVE" ELSE "FALLEN"
          /\ groupPubKey'[g] = groupPubKey[g]
          /\ confirms[g] \cup complaints[g] = MembersOf(g)
      BY <1>7, <2>3, Zenon DEF StatusAfterProcess, Submitted
    <3>2. callbacks'[g] = IF malicious[g] = {} THEN <<"completed">> ELSE <<"failed">>
      <4>1. callbacks[g] = << >>
        BY <2>3, Zenon DEF CallbackInv, Creating
      <4>2. StatusAfterProcess(g) = IF malicious[g] = {} THEN "ACTIVE" ELSE "FALLEN"
        BY <1>7, <3>1, Zenon
      <4>3. QED
        BY <1>7, <2>3, <4>1, <4>2, AppendToEmpty, ZenonT(60) DEF CallbackOf
    <3>3. ExistenceInv(g)'
      BY <1>4, <2>3, <3>1, Zenon DEF ExistenceInv
    <3>4. RoundInv(g)'
      BY <3>1, Zenon DEF RoundInv, Creating
    <3>5. malicious[g] = {} => KeysAgree(g)' /\ NobodyCheated(g)'
      <4>1. KeysAgree(g)'
        <5>1. /\ groupPubKey[g] = FullCommits(g) /\ round2Infos[g] = MembersOf(g)
              /\ \A m \in round2Infos[g] : memberPubKey[g][m] = FullCommits(g)
          BY <2>3, Zenon DEF RoundInv
        <5>2. QED
          BY <3>1, <5>1, ZenonT(60) DEF KeysAgree, FullCommits
      <4>2. malicious[g] = {} => \A k \in MembersOf(g) \cap Honest : BadDealers(g, k) = {}
        BY <2>3, <3>1, Zenon DEF ShareInv
      <4>3. QED
        BY <4>1, <4>2, ZenonT(60) DEF NobodyCheated
    <3>6. ShareInv(g)'
      BY <3>1, <3>5, Zenon DEF ShareInv
    <3>7. CallbackInv(g)'
      BY <3>1, <3>2, Zenon DEF CallbackInv, Creating
    <3>8. QED
      BY <1>8, <3>1, <3>3, <3>4, <3>6, <3>7, Zenon DEF Creating
  <2>4. QED
    BY <2>1, <2>2, <2>3, Zenon DEF Creating
<1>10. PendingIsComplete'
  <2>1. \A h \in GroupIds : IsPending(h)' <=> IsPending(h) /\ h # g
    <3>1. ASSUME NEW h \in GroupIds, NEW i \in 1..Len(pendingProcessGroups'),
                 pendingProcessGroups'[i] = h
          PROVE  IsPending(h) /\ h # g
      BY <1>1, <1>2, <3>1 DEF PendingIsComplete, IsPending
    <3>2. ASSUME NEW h \in GroupIds, NEW i \in 1..Len(pendingProcessGroups),
                 pendingProcessGroups[i] = h, h # g
          PROVE  IsPending(h)'
      <4>1. i - 1 \in 1..Len(pendingProcessGroups') /\ (i - 1) + 1 = i
        BY <1>2, <3>2
      <4>2. pendingProcessGroups'[i - 1] = h
        BY <1>2, <3>2, <4>1, Zenon
      <4>3. QED
        BY <4>1, <4>2, Zenon DEF IsPending
    <3>3. QED
      BY <3>1, <3>2, Zenon DEF IsPending
  <2>2. \A i, j \in 1..Len(pendingProcessGroups') :
          pendingProcessGroups'[i] = pendingProcessGroups'[j] => i = j
    BY <1>1, <1>2 DEF PendingIsComplete
  <2>3. \A h \in GroupIds : h # g =>
          Submitted(h)' = Submitted(h) /\ MembersOf(h)' = MembersOf(h) /\ status'[h] = status[h]
    BY <1>0, <1>1, <1>4, Zenon
    DEF HandleProcessGroup, Submitted, MembersOf, round1Vars, round2Vars, round3Vars, TypeOK
  <2>4. MembersOf(g) # {}
    <3>1. g <= groupCount
      <4>1. g \in Nat /\ groupCount \in Nat
        BY <1>1, MaxGroupsAssumption DEF TypeOK, GroupIds
      <4>2. ~(g > groupCount)
        BY <1>3, Zenon DEF GroupInv, ExistenceInv, Creating
      <4>3. QED
        BY <4>1, <4>2
    <3>2. size[g] \in Nat /\ size[g] >= 1
      BY <1>1, <1>3, <3>1, MaxGroupSizeAssumption DEF GroupInv, ExistenceInv, TypeOK
    <3>3. 1 \in MembersOf(g)
      BY <3>2 DEF MembersOf
    <3>4. QED
      BY <3>3, Zenon
  <2>5. ASSUME NEW h \in GroupIds
        PROVE  IsPending(h)' <=> status'[h] \in Creating /\ Submitted(h)' = MembersOf(h)'
    <3>1. CASE h = g
      BY <1>6, <1>9, <2>1, <2>4, <3>1, ZenonT(60)
    <3>2. CASE h # g
      BY <1>1, <2>1, <2>3, <3>2, ZenonT(60) DEF PendingIsComplete
    <3>3. QED
      BY <3>1, <3>2, Zenon
  <2>6. QED
    BY <2>2, <2>5, Zenon DEF PendingIsComplete
<1>11. AgeInv' /\ phase' # "expire"
  BY <1>4, Zenon DEF IInv, AgeInv, blockVars, HandleProcessGroup
<1>12. QED
  BY <1>5, <1>9, <1>10, <1>11, Zenon DEF IInv

\* One iteration of HandleExpiredGroups keeps the invariant.
LEMMA ExpireStep ==
  ASSUME Counting, IInv, TypeOK', HandleExpiredGroup
  PROVE  IInv'
<1>1. TypeOK /\ PendingIsComplete /\ pendingProcessGroups = << >>
  BY Zenon DEF IInv, HandleExpiredGroup
<1>2. lastExpiredGroupID \in Nat /\ groupCount \in Nat /\ lastExpiredGroupID < groupCount
  BY <1>1, MaxGroupsAssumption DEF TypeOK, HandleExpiredGroup, ExpiredGroupDue
<1>3. PICK g \in GroupIds : g = lastExpiredGroupID + 1
  BY <1>1, <1>2, MaxGroupsAssumption DEF TypeOK, GroupIds
<1>4. /\ status' = IF Unfinished(g) THEN [status EXCEPT ![g] = "EXPIRED"] ELSE status
      /\ callbacks' = IF Unfinished(g)
                      THEN [callbacks EXCEPT ![g] = Append(@, "expired")]
                      ELSE callbacks
      /\ lastExpiredGroupID' = g
      /\ dkgContext' = [dkgContext EXCEPT ![g] = FALSE]
      /\ accCommits' = [accCommits EXCEPT ![g] = NoCommits]
      /\ round1Infos' = [round1Infos EXCEPT ![g] = {}]
      /\ round1Count' = [round1Count EXCEPT ![g] = 0]
      /\ round2Infos' = [round2Infos EXCEPT ![g] = {}]
      /\ round2Count' = [round2Count EXCEPT ![g] = 0]
      /\ confirms' = [confirms EXCEPT ![g] = {}]
      /\ complaints' = [complaints EXCEPT ![g] = {}]
      /\ confirmComplainCount' = [confirmComplainCount EXCEPT ![g] = 0]
      /\ UNCHANGED <<blockVars, creationPeriod, groupCount, pendingProcessGroups, size,
                     createdHeight, groupPubKey, memberPubKey, malicious, badShares>>
  BY <1>3, Zenon DEF HandleExpiredGroup
<1>5. ASSUME NEW h \in GroupIds, h # g PROVE GroupInv(h)'
  <2>1. UNCHANGED GroupData(h)
    BY <1>1, <1>4, <1>5 DEF GroupData, TypeOK
  <2>2. h \in Nat
    BY DEF GroupIds
  <2>3. h > lastExpiredGroupID <=> h > lastExpiredGroupID'
    BY <1>2, <1>3, <1>4, <1>5, <2>2
  <2>4. h <= lastExpiredGroupID <=> h <= lastExpiredGroupID'
    BY <1>2, <1>3, <1>4, <1>5, <2>2
  <2>5. QED
    BY <1>4, <2>1, <2>3, <2>4, GroupFrame, Zenon DEF IInv
<1>6. GroupInv(g) /\ g \in Nat /\ g <= groupCount /\ g > lastExpiredGroupID
  BY <1>2, <1>3 DEF IInv
<1>7. status[g] \in Creating \cup {"ACTIVE", "FALLEN"}
  <2>1. status[g] # "NONE" /\ status[g] # "EXPIRED"
    BY <1>2, <1>6, SMTT(30) DEF GroupInv, ExistenceInv
  <2>2. QED
    BY <1>1, <2>1, Zenon DEF TypeOK, Statuses
<1>8. NoInterimData(g)'
  BY <1>1, <1>4 DEF NoInterimData, NoCommits, TypeOK
<1>9. /\ UNCHANGED <<size[g], groupPubKey[g], memberPubKey[g], malicious[g], badShares[g]>>
      /\ MembersOf(g)' = MembersOf(g)
      /\ \A k : BadDealers(g, k)' = BadDealers(g, k)
  BY <1>4, Zenon DEF MembersOf, BadDealers
<1>10. ASSUME status[g] \in {"ACTIVE", "FALLEN"} PROVE GroupInv(g)'
  <2>1. status'[g] = status[g] /\ callbacks'[g] = callbacks[g]
    BY <1>4, <1>10, Zenon DEF Unfinished
  <2>2. GroupInv(g)'
    <3> USE <1>6, <1>9, <2>1 DEF GroupInv
    <3>1. ExistenceInv(g)'
      BY <1>2, <1>4, <1>8, <1>10, SMTT(30) DEF ExistenceInv
    <3>2. CountInv(g)'
      <4>1. {} \cup {} = {} /\ Cardinality({}) = 0
        BY Zenon DEF Counting
      <4>2. QED
        BY <1>8, <4>1, Zenon DEF CountInv, NoInterimData
    <3>3. RoundInv(g)'
      BY <1>10, Zenon DEF RoundInv, Creating
    <3>4. (KeysAgree(g)' <=> KeysAgree(g)) /\ (NobodyCheated(g)' <=> NobodyCheated(g))
      BY ZenonT(60) DEF KeysAgree, NobodyCheated
    <3>5. ShareInv(g)'
      BY <1>10, <3>4, Zenon DEF ShareInv
    <3>6. CallbackInv(g)'
      BY Zenon DEF CallbackInv
    <3>7. QED
      BY <3>1, <3>2, <3>3, <3>5, <3>6, ZenonT(60)
  <2>3. QED
    BY <2>2, Zenon
<1>11. ASSUME status[g] \in Creating PROVE GroupInv(g)'
  <2>1. status'[g] = "EXPIRED" /\ callbacks'[g] = Append(callbacks[g], "expired")
    BY <1>1, <1>4, <1>11, SMTT(30) DEF Unfinished, Creating, TypeOK
  <2>2. GroupInv(g)'
    <3> USE <1>6, <1>9, <2>1 DEF GroupInv
    <3>1. ExistenceInv(g)'
      BY <1>2, <1>4, <1>8, <1>11, SMTT(30) DEF ExistenceInv, Creating
    <3>2. CountInv(g)'
      <4>1. {} \cup {} = {} /\ Cardinality({}) = 0
        BY Zenon DEF Counting
      <4>2. QED
        BY <1>8, <4>1, Zenon DEF CountInv, NoInterimData
    <3>3. RoundInv(g)'
      BY Zenon DEF RoundInv, Creating
    <3>4. ShareInv(g)'
      BY ZenonT(60) DEF ShareInv
    <3>5. CallbackInv(g)'
      <4>1. callbacks[g] = << >>
        BY <1>11, Zenon DEF CallbackInv
      <4>2. QED
        BY <4>1 DEF CallbackInv, Creating
    <3>6. QED
      BY <3>1, <3>2, <3>3, <3>4, <3>5, Zenon
  <2>3. QED
    BY <2>2, Zenon
<1>12. PendingIsComplete'
  <2>1. \A h : IsPending(h)' <=> IsPending(h)
    BY <1>4, Zenon DEF IsPending
  <2>2. \A h \in GroupIds : h # g =>
          Submitted(h)' = Submitted(h) /\ MembersOf(h)' = MembersOf(h) /\ status'[h] = status[h]
    BY <1>1, <1>4 DEF Submitted, MembersOf, TypeOK
  <2>3. status'[g] \notin Creating
    BY <1>1, <1>4, <1>7, Zenon DEF Unfinished, Creating, TypeOK
  <2>4. ~IsPending(g)
    BY <1>1 DEF IsPending
  <2>5. QED
    BY <1>1, <1>4, <2>1, <2>2, <2>3, <2>4 DEF PendingIsComplete
<1>13. AgeInv' /\ pendingProcessGroups' = << >>
  BY <1>1, <1>4, Zenon DEF IInv, AgeInv, blockVars
<1>14. QED
  BY <1>5, <1>7, <1>10, <1>11, <1>12, <1>13, Zenon DEF IInv

\* The steps that only move on to the next phase or block, change a parameter
\* or do nothing.
LEMMA QuietStep ==
  ASSUME IInv, TypeOK',
         UNCHANGED <<groupCount, lastExpiredGroupID, pendingProcessGroups, groupVars,
                     round1Vars, round2Vars, round3Vars, callbacks>>,
         phase' = "expire" => phase = "expire" \/ pendingProcessGroups = << >>,
         height' >= height
  PROVE  IInv'
<1>1. ASSUME NEW h \in GroupIds PROVE GroupInv(h)'
  <2>1. UNCHANGED GroupData(h)
    BY Zenon DEF GroupData, groupVars, round1Vars, round2Vars, round3Vars
  <2>2. QED
    BY <2>1, GroupFrame, Zenon DEF IInv
<1>2. PendingIsComplete'
  <2>1. \A h : IsPending(h)' <=> IsPending(h)
    BY Zenon DEF IsPending
  <2>2. \A h \in GroupIds : Submitted(h)' = Submitted(h) /\ MembersOf(h)' = MembersOf(h)
    BY Zenon DEF Submitted, MembersOf, groupVars, round1Vars, round2Vars, round3Vars
  <2>3. QED
    BY <2>1, <2>2 DEF IInv, PendingIsComplete, groupVars
<1>3. AgeInv'
  <2> SUFFICES ASSUME NEW a \in 1..groupCount, NEW b \in 1..groupCount, a <= b
               PROVE  createdHeight[a] <= createdHeight[b] /\ createdHeight[b] <= height'
    BY Zenon DEF AgeInv, groupVars
  <2>1. createdHeight[a] <= createdHeight[b] /\ createdHeight[b] <= height
    BY Zenon DEF IInv, AgeInv
  <2>2. b \in GroupIds
    BY MaxGroupsAssumption, SMTT(30) DEF IInv, TypeOK, GroupIds
  <2>3. createdHeight[b] \in Nat /\ height \in Nat /\ height' \in Nat
    BY <2>2, MaxHeightAssumption DEF IInv, TypeOK
  <2>4. QED
    BY <2>1, <2>3
<1>4. QED
  BY <1>1, <1>2, <1>3, Zenon DEF IInv

-----------------------------------------------------------------------------
(* Counting, from the theorems about finite sets. *)

\* One more submission counts one more, and the submissions are complete when
\* they count as many as there are members.
LEMMA SubmissionCount ==
  ASSUME NEW n \in Nat, NEW S, S \subseteq 1..n, NEW m \in 1..n, m \notin S
  PROVE  /\ Cardinality(S \cup {m}) = Cardinality(S) + 1
         /\ Cardinality(S) + 1 = n <=> S \cup {m} = 1..n
         /\ S # 1..n
<1>1. IsFiniteSet(1..n) /\ Cardinality(1..n) = n
  BY FS_Interval
<1>2. IsFiniteSet(S)
  BY <1>1, FS_Subset, Zenon
<1>3. Cardinality(S \cup {m}) = Cardinality(S) + 1
  BY <1>2, FS_AddElement, Zenon
<1>4. S \cup {m} \subseteq 1..n
  BY Zenon
<1>5. Cardinality(S \cup {m}) = Cardinality(1..n) => S \cup {m} = 1..n
  BY <1>1, <1>4, FS_Subset, Zenon
<1>6. QED
  BY <1>1, <1>3, <1>5, Zenon

\* What the step lemmas assume about counting.
LEMMA CountingHolds == Counting
  BY SubmissionCount, FS_EmptySet, Zenon DEF Counting

-----------------------------------------------------------------------------
(* The invariant is inductive. *)

\* The invariant holds in the initial state.
LEMMA InitIInv == Init => IInv
<1> SUFFICES ASSUME Init PROVE IInv
  BY Zenon
<1>1. TypeOK
  BY InitType, Zenon
<1>2. ASSUME NEW g \in GroupIds PROVE GroupInv(g)
  <2>1. g \in Nat /\ g > 0
    BY DEF GroupIds
  <2>2. ExistenceInv(g)
    BY <2>1 DEF Init, ExistenceInv, NoInterimData, Creating
  <2>3. CountInv(g)
    BY CountingHolds DEF Counting, Init, CountInv
  <2>4. RoundInv(g) /\ ShareInv(g) /\ CallbackInv(g)
    BY Zenon DEF Init, RoundInv, ShareInv, CallbackInv, Creating
  <2>5. QED
    BY <2>2, <2>3, <2>4, Zenon DEF GroupInv
<1>3. PendingIsComplete
  BY DEF Init, PendingIsComplete, IsPending, Creating
<1>4. AgeInv
  BY DEF Init, AgeInv
<1>5. QED
  BY <1>1, <1>2, <1>3, <1>4, Zenon DEF IInv, Init

\* Every message and every step of the EndBlocker keeps the invariant.
LEMMA NextIInv == IInv /\ [Next]_vars => IInv'
<1> SUFFICES ASSUME IInv, [Next]_vars PROVE IInv'
  BY Zenon
<1>1. TypeOK'
  BY NextType, Zenon DEF IInv
<1>2. height \in Nat
  BY MaxHeightAssumption DEF IInv, TypeOK
<1>3. CASE \E n \in MemberIds : CreateGroup(n)
  BY <1>1, <1>3, CountingHolds, CreateStep, Zenon
<1>4. CASE \E p \in Periods : UpdateParams(p)
  <2>1. PICK p \in Periods : UpdateParams(p)
    BY <1>4, Zenon
  <2>2. QED
    BY <1>1, <1>2, <2>1, QuietStep DEF UpdateParams, blockVars
<1>5. CASE \E g \in GroupIds, m \in MemberIds : SubmitDKGRound1(g, m)
  BY <1>1, <1>5, CountingHolds, Round1Step, Zenon
<1>6. CASE \E g \in GroupIds, m \in MemberIds, bad \in SUBSET MemberIds : SubmitDKGRound2(g, m, bad)
  BY <1>1, <1>6, CountingHolds, Round2Step, Zenon
<1>7. CASE \E g \in GroupIds, m \in MemberIds, failed, proved \in SUBSET MemberIds :
             Complain(g, m, failed, proved)
  BY <1>1, <1>7, CountingHolds, ComplainStep, ZenonT(60)
<1>8. CASE \E g \in GroupIds, m \in MemberIds : Confirm(g, m)
  BY <1>1, <1>8, CountingHolds, ConfirmStep, Zenon
<1>9. CASE EndBlock
  BY <1>1, <1>2, <1>9, QuietStep DEF EndBlock, keeperVars
<1>10. CASE HandleProcessGroup
  BY <1>1, <1>10, ProcessStep, Zenon
<1>11. CASE ProcessDone
  BY <1>1, <1>2, <1>11, QuietStep DEF ProcessDone, keeperVars
<1>12. CASE HandleExpiredGroup
  BY <1>1, <1>12, CountingHolds, ExpireStep, Zenon
<1>13. CASE ExpireDone
  <2>1. height' >= height
    BY <1>2, <1>13 DEF ExpireDone
  <2>2. QED
    BY <1>1, <1>13, <2>1, QuietStep, Zenon DEF ExpireDone, keeperVars
<1>14. CASE UNCHANGED vars
  BY <1>1, <1>2, <1>14, QuietStep DEF vars, blockVars, keeperVars
<1>15. QED
  BY <1>3, <1>4, <1>5, <1>6, <1>7, <1>8, <1>9, <1>10, <1>11, <1>12, <1>13, <1>14, Zenon
  DEF Next, MsgNext, BlockNext

-----------------------------------------------------------------------------
(* The theorems *)

\* Every reachable state is well typed.
THEOREM TypeCorrect == Spec => []TypeOK
<1>1. Init => TypeOK
  BY InitType, Zenon
<1>2. TypeOK /\ [Next]_vars => TypeOK'
  BY NextType, Zenon
<1>3. QED
  BY <1>1, <1>2, PTL DEF Spec

\* The inductive invariant holds in every reachable state.
THEOREM Inductive == Spec => []IInv
<1>1. Init => IInv
  BY InitIInv, Zenon
<1>2. IInv /\ [Next]_vars => IInv'
  BY NextIInv, Zenon
<1>3. QED
  BY <1>1, <1>2, PTL DEF Spec

\* The pending list holds exactly the groups whose round is complete, each once,
\* however the four handlers and the EndBlocker interleave.
THEOREM PendingExact == Spec => []PendingIsComplete
<1>1. IInv => PendingIsComplete
  BY Zenon DEF IInv
<1>2. QED
  BY <1>1, Inductive, PTL

\* The keys of an ACTIVE group agree and nobody cheated.
THEOREM ActiveSound == Spec => []ActiveGroupSound
<1>1. IInv => ActiveGroupSound
  BY Zenon DEF IInv, GroupInv, ShareInv, ActiveGroupSound
<1>2. QED
  BY <1>1, Inductive, PTL

\* No complaint gets an honest member marked malicious.
THEOREM HonestSafe == Spec => []HonestNeverMalicious
<1>1. IInv => HonestNeverMalicious
  BY Zenon DEF IInv, GroupInv, ShareInv, HonestNeverMalicious
<1>2. QED
  BY <1>1, Inductive, PTL

\* Interim DKG data lives exactly as long as the group's expiration is ahead.
THEOREM InterimData == Spec => []InterimDataUntilExpiry
<1>1. IInv => InterimDataUntilExpiry
  <2> SUFFICES ASSUME IInv, NEW g \in 1..groupCount
               PROVE  IF g <= lastExpiredGroupID
                      THEN status[g] \in {"ACTIVE", "FALLEN", "EXPIRED"} /\ NoInterimData(g)
                      ELSE dkgContext[g] /\ status[g] # "EXPIRED"
    BY Zenon DEF InterimDataUntilExpiry
  <2>1. groupCount \in Nat /\ lastExpiredGroupID \in Nat /\ g \in Nat /\ g <= groupCount
    BY MaxGroupsAssumption DEF IInv, TypeOK
  <2>2. g \in GroupIds
    BY <2>1, MaxGroupsAssumption DEF IInv, TypeOK, GroupIds
  <2>3. GroupInv(g)
    BY <2>2, Zenon DEF IInv
  <2>4. ~(g > groupCount) /\ (g > lastExpiredGroupID <=> ~(g <= lastExpiredGroupID))
    BY <2>1
  <2>5. QED
    BY <2>1, <2>3, <2>4, Zenon DEF GroupInv, ExistenceInv
<1>2. QED
  BY <1>1, Inductive, PTL

\* The EndBlocker leaves no overdue group in creation, although its loop stops
\* at the first group that is not due.
THEOREM NoneOverdue == Spec => NoOverdueGroup
<1>1. IInv /\ [Next]_vars =>
        [phase = "expire" /\ phase' = "tx" =>
           \A g \in 1..groupCount :
             createdHeight[g] + creationPeriod <= height => status'[g] \notin Creating]_vars
  <2> SUFFICES ASSUME IInv, Next, phase = "expire", phase' = "tx",
                      NEW g \in 1..groupCount, createdHeight[g] + creationPeriod <= height
               PROVE  status'[g] \notin Creating
    BY Zenon DEF vars, blockVars
  <2>1. ExpireDone
    BY DEF Next, MsgNext, BlockNext, CreateGroup, UpdateParams, SubmitDKGRound1,
           SubmitDKGRound2, Complain, Confirm, FromMember, EndBlock, HandleProcessGroup,
           ProcessDone, HandleExpiredGroup, blockVars
  <2>2. /\ groupCount \in Nat /\ lastExpiredGroupID \in Nat /\ lastExpiredGroupID <= groupCount
        /\ g \in Nat /\ g <= groupCount /\ g \in GroupIds /\ height \in Nat
        /\ creationPeriod \in Nat
    BY MaxGroupsAssumption, MaxHeightAssumption, PeriodsAssumption, SMTT(30) DEF IInv, TypeOK, GroupIds
  <2>3. g <= lastExpiredGroupID
    <3> SUFFICES ASSUME ~(g <= lastExpiredGroupID) PROVE FALSE
      BY Zenon
    <3>1. lastExpiredGroupID + 1 \in 1..groupCount /\ lastExpiredGroupID + 1 <= g
      BY <2>2
    <3>2. createdHeight[lastExpiredGroupID + 1] <= createdHeight[g]
      BY <3>1, Zenon DEF IInv, AgeInv
    <3>3. lastExpiredGroupID + 1 \in GroupIds
      BY <2>2, <3>1, MaxGroupsAssumption, SMTT(30) DEF IInv, TypeOK, GroupIds
    <3>4. createdHeight[lastExpiredGroupID + 1] \in Nat /\ createdHeight[g] \in Nat
      BY <2>2, <3>3, MaxHeightAssumption, SMTT(30) DEF IInv, TypeOK
    <3>5. createdHeight[lastExpiredGroupID + 1] + creationPeriod <= height
      BY <2>2, <3>2, <3>4
    <3>6. lastExpiredGroupID < groupCount
      BY <2>2, <3>1
    <3>7. QED
      BY <2>1, <3>5, <3>6, Zenon DEF ExpireDone, ExpiredGroupDue
  <2>4. status[g] \notin Creating
    BY <2>2, <2>3, Zenon DEF IInv, GroupInv, ExistenceInv, Creating
  <2>5. QED
    BY <2>1, <2>4, Zenon DEF ExpireDone, groupVars
<1>2. QED
  BY <1>1, Inductive, PTL DEF Spec, NoOverdueGroup

\* A group with all its answers in is processed before it can expire.
THEOREM CompleteNeverExpires == Spec => CompleteGroupNeverExpires
<1>1. IInv /\ [Next]_vars =>
        [\A g \in GroupIds :
           status[g] = "ROUND_3" /\ Submitted(g) = MembersOf(g) => status'[g] # "EXPIRED"]_vars
  <2> SUFFICES ASSUME IInv, Next, NEW g \in GroupIds, status[g] = "ROUND_3",
                      Submitted(g) = MembersOf(g)
               PROVE  status'[g] # "EXPIRED"
    BY Zenon
  <2>1. IsPending(g) /\ TypeOK
    BY Zenon DEF IInv, PendingIsComplete, Creating
  <2>2. pendingProcessGroups # << >>
    BY <2>1 DEF IsPending
  <2>3. ~HandleExpiredGroup
    BY <2>2, Zenon DEF IInv, HandleExpiredGroup
  <2>4. CASE HandleProcessGroup
    <3>1. PICK h : h = Head(pendingProcessGroups)
      BY Zenon
    <3>2. status' = [status EXCEPT ![h] = StatusAfterProcess(h)]
      BY <2>4, <3>1, Zenon DEF HandleProcessGroup
    <3>3. h = g => StatusAfterProcess(h) # "EXPIRED"
      BY Zenon DEF StatusAfterProcess
    <3>4. QED
      BY <2>1, <3>2, <3>3, Zenon DEF TypeOK
  <2>5. CASE \E n \in MemberIds : CreateGroup(n)
    BY <2>1, <2>5, Zenon DEF CreateGroup, TypeOK
  <2>6. CASE status' = status
    BY <2>6, Zenon
  <2>7. QED
    BY <2>3, <2>4, <2>5, <2>6, SMTT(30)
    DEF Next, MsgNext, BlockNext, UpdateParams, SubmitDKGRound1, SubmitDKGRound2, Complain,
        Confirm, EndBlock, ProcessDone, ExpireDone, groupVars
<1>2. QED
  BY <1>1, Inductive, PTL DEF Spec, CompleteGroupNeverExpires
-----------------------------------------------------------------------------
(* Refinement of GroupLifecycle *)

\* Only three things are visible to the owner of a group.
LEMMA InvisibleStep ==
  ASSUME \A g \in GroupIds : /\ Outcome(status'[g]) = Outcome(status[g])
                             /\ (malicious'[g] # {}) = (malicious[g] # {}),
         callbacks' = callbacks
  PROVE  UNCHANGED Lifecycle!lifecycleVars
<1>1. [g \in GroupIds |-> Outcome(status[g])]' = [g \in GroupIds |-> Outcome(status[g])]
  BY Zenon
<1>2. [g \in GroupIds |-> malicious[g] # {}]' = [g \in GroupIds |-> malicious[g] # {}]
  BY Zenon
<1>3. QED
  BY <1>1, <1>2, Zenon DEF Lifecycle!lifecycleVars

\* Creating a group is the Create of the interface.
LEMMA VisibleCreate ==
  ASSUME NEW g \in GroupIds, status \in [GroupIds -> Statuses], status[g] = "NONE",
         status' = [status EXCEPT ![g] = "ROUND_1"],
         UNCHANGED <<malicious, callbacks>>
  PROVE  Lifecycle!Next
<1>0. Outcome("NONE") = "none" /\ Outcome("ROUND_1") = "creating"
  BY Zenon DEF Outcome, Creating
<1>1. [h \in GroupIds |-> Outcome(status[h])][g] = "none"
  BY <1>0, Zenon
<1>2. [h \in GroupIds |-> Outcome(status[h])]'
        = [[h \in GroupIds |-> Outcome(status[h])] EXCEPT ![g] = "creating"]
  BY <1>0, Zenon
<1>3. [h \in GroupIds |-> malicious[h] # {}]' = [h \in GroupIds |-> malicious[h] # {}]
  BY Zenon
<1>4. Lifecycle!Create(g)
  BY <1>1, <1>2, <1>3, Zenon DEF Lifecycle!Create
<1>5. QED
  BY <1>4, Zenon DEF Lifecycle!Next

\* A complaint that gets somebody marked malicious is the Catch of the interface.
LEMMA VisibleCatch ==
  ASSUME NEW g \in GroupIds, status[g] \in Creating, NEW blame, blame # {},
         malicious \in [GroupIds -> SUBSET MemberIds],
         malicious' = [malicious EXCEPT ![g] = @ \cup blame],
         UNCHANGED <<status, callbacks>>
  PROVE  Lifecycle!Next
<1>1. [h \in GroupIds |-> Outcome(status[h])][g] = "creating"
  BY Zenon DEF Outcome, Creating
<1>2. [h \in GroupIds |-> malicious[h] # {}]'
        = [[h \in GroupIds |-> malicious[h] # {}] EXCEPT ![g] = TRUE]
  BY Zenon
<1>3. [h \in GroupIds |-> Outcome(status[h])]' = [h \in GroupIds |-> Outcome(status[h])]
  BY Zenon
<1>4. Lifecycle!Catch(g)
  BY <1>1, <1>2, <1>3, Zenon DEF Lifecycle!Catch
<1>5. QED
  BY <1>4, Zenon DEF Lifecycle!Next

\* Finishing a group with its callback is the Finish of the interface.
LEMMA VisibleFinish ==
  ASSUME NEW g \in GroupIds, status \in [GroupIds -> Statuses], status[g] \in Creating,
         NEW s \in {"ACTIVE", "FALLEN", "EXPIRED"},
         s = "ACTIVE" => malicious[g] = {},
         s = "FALLEN" => malicious[g] # {},
         status' = [status EXCEPT ![g] = s],
         callbacks' = [callbacks EXCEPT ![g] = Append(@, Outcome(s))],
         UNCHANGED malicious
  PROVE  Lifecycle!Next
<1>1. [h \in GroupIds |-> Outcome(status[h])][g] = "creating"
  BY Zenon DEF Outcome, Creating
<1>2. [h \in GroupIds |-> Outcome(status[h])]'
        = [[h \in GroupIds |-> Outcome(status[h])] EXCEPT ![g] = Outcome(s)]
  BY Zenon
<1>3. [h \in GroupIds |-> malicious[h] # {}]' = [h \in GroupIds |-> malicious[h] # {}]
  BY Zenon
<1>4. /\ Outcome(s) = "completed" => ~[h \in GroupIds |-> malicious[h] # {}][g]
      /\ Outcome(s) = "failed" => [h \in GroupIds |-> malicious[h] # {}][g]
      /\ Outcome(s) \in Lifecycle!Ends
  BY Zenon DEF Outcome, Creating, Lifecycle!Ends
<1>5. Lifecycle!Finish(g, Outcome(s))
  BY <1>1, <1>2, <1>3, <1>4, ZenonT(60) DEF Lifecycle!Finish
<1>6. QED
  BY <1>4, <1>5, Zenon DEF Lifecycle!Next

\* Every step of the protocol is a step of the interface or invisible to it.
LEMMA RefinedStep ==
  ASSUME IInv, IInv', [Next]_vars
  PROVE  Lifecycle!Next \/ UNCHANGED Lifecycle!lifecycleVars
<1>0. TypeOK
  BY Zenon DEF IInv
<1>1. TypeOK /\ groupCount \in Nat /\ lastExpiredGroupID \in Nat
  <2>1. groupCount \in Nat /\ lastExpiredGroupID \in Nat
    BY <1>0, MaxGroupsAssumption DEF TypeOK
  <2>2. QED
    BY <1>0, <2>1, Zenon
<1>2. CASE \E n \in MemberIds : CreateGroup(n)
  <2>1. PICK n \in MemberIds : CreateGroup(n)
    BY <1>2, Zenon
  <2>2. PICK g \in GroupIds : g = groupCount + 1
    BY <1>1, <2>1, MaxGroupsAssumption DEF CreateGroup, GroupIds
  <2>3. status[g] = "NONE"
    <3>1. g > groupCount
      BY <1>1, <2>2
    <3>2. QED
      BY <3>1, Zenon DEF IInv, GroupInv, ExistenceInv
  <2>4. status' = [status EXCEPT ![g] = "ROUND_1"] /\ UNCHANGED <<malicious, callbacks>>
    BY <2>1, <2>2, Zenon DEF CreateGroup
  <2>5. QED
    BY <1>1, <2>3, <2>4, VisibleCreate, Zenon DEF TypeOK
<1>3. CASE \E g \in GroupIds, m \in MemberIds, failed, proved \in SUBSET MemberIds :
             Complain(g, m, failed, proved)
  <2>1. PICK g \in GroupIds, m \in MemberIds, failed \in SUBSET MemberIds,
             proved \in SUBSET MemberIds : Complain(g, m, failed, proved)
    BY <1>3, Zenon
  <2>2. Blamed(m, failed, proved) # {}
    BY <2>1, Zenon DEF Complain, Blamed
  <2>3. /\ status[g] \in Creating
        /\ malicious' = [malicious EXCEPT ![g] = @ \cup Blamed(m, failed, proved)]
        /\ UNCHANGED <<status, callbacks>>
    BY <2>1, Zenon DEF Complain, FromMember, Creating
  <2>4. PICK blame : blame = Blamed(m, failed, proved)
    BY Zenon
  <2>5. QED
    BY <1>1, <2>2, <2>3, <2>4, VisibleCatch, Zenon DEF TypeOK
<1>4. CASE HandleProcessGroup
  <2>1. PICK g \in GroupIds : g = Head(pendingProcessGroups)
    <3>1. pendingProcessGroups \in Seq(GroupIds) /\ pendingProcessGroups # << >>
      BY <1>0, <1>4, Zenon DEF HandleProcessGroup, TypeOK
    <3>2. QED
      BY <3>1
  <2>2. /\ status' = [status EXCEPT ![g] = StatusAfterProcess(g)]
        /\ callbacks' = IF status[g] = "ROUND_3"
                        THEN [callbacks EXCEPT ![g] = Append(@, CallbackOf(StatusAfterProcess(g)))]
                        ELSE callbacks
        /\ UNCHANGED malicious
    BY <1>4, <2>1, Zenon DEF HandleProcessGroup
  <2>3. status[g] \in Creating
    <3>1. IsPending(g)
      <4>1. pendingProcessGroups \in Seq(GroupIds) /\ pendingProcessGroups # << >>
        BY <1>0, <1>4, Zenon DEF HandleProcessGroup, TypeOK
      <4>2. 1 \in 1..Len(pendingProcessGroups) /\ pendingProcessGroups[1] = g
        BY <2>1, <4>1
      <4>3. QED
        BY <4>2, Zenon DEF IsPending
    <3>2. QED
      BY <3>1, Zenon DEF IInv, PendingIsComplete
  <2>4. CASE status[g] = "ROUND_3"
    <3>1. /\ StatusAfterProcess(g) \in {"ACTIVE", "FALLEN"}
          /\ StatusAfterProcess(g) = "ACTIVE" <=> malicious[g] = {}
      BY <2>4, Zenon DEF StatusAfterProcess
    <3>2. CallbackOf(StatusAfterProcess(g)) = Outcome(StatusAfterProcess(g))
      BY <3>1, Zenon DEF CallbackOf, Outcome, Creating
    <3>3. callbacks' = [callbacks EXCEPT ![g] = Append(@, Outcome(StatusAfterProcess(g)))]
      BY <2>2, <2>4, <3>2, Zenon
    <3>4. PICK s \in {"ACTIVE", "FALLEN", "EXPIRED"} : s = StatusAfterProcess(g)
      BY <3>1, Zenon
    <3>5. QED
      BY <1>1, <2>2, <2>3, <3>1, <3>3, <3>4, VisibleFinish, ZenonT(60) DEF TypeOK
  <2>5. CASE status[g] # "ROUND_3"
    <3>1. StatusAfterProcess(g) \in Creating
      BY <2>3, <2>5, Zenon DEF StatusAfterProcess, Creating
    <3>2. Outcome(StatusAfterProcess(g)) = "creating" /\ Outcome(status[g]) = "creating"
      BY <2>3, <3>1, Zenon DEF Outcome, Creating
    <3>3. \A h \in GroupIds : Outcome(status'[h]) = Outcome(status[h])
      BY <1>1, <2>2, <3>2, Zenon DEF TypeOK
    <3>4. QED
      BY <2>2, <2>5, <3>3, InvisibleStep, Zenon
  <2>6. QED
    BY <2>4, <2>5, Zenon
<1>5. CASE HandleExpiredGroup
  <2>1. PICK g \in GroupIds : g = lastExpiredGroupID + 1
    BY <1>1, <1>5, MaxGroupsAssumption, SMTT(30) DEF HandleExpiredGroup, ExpiredGroupDue, TypeOK, GroupIds
  <2>2. /\ status' = IF Unfinished(g) THEN [status EXCEPT ![g] = "EXPIRED"] ELSE status
        /\ callbacks' = IF Unfinished(g)
                        THEN [callbacks EXCEPT ![g] = Append(@, "expired")]
                        ELSE callbacks
        /\ UNCHANGED malicious
    BY <1>5, <2>1, Zenon DEF HandleExpiredGroup
  <2>3. CASE Unfinished(g)
    <3>1. g > lastExpiredGroupID /\ g <= groupCount /\ ~(g > groupCount)
      BY <1>1, <1>5, <2>1 DEF HandleExpiredGroup, ExpiredGroupDue
    <3>2. status[g] # "NONE" /\ status[g] # "EXPIRED"
      BY <3>1, Zenon DEF IInv, GroupInv, ExistenceInv
    <3>3. status[g] \in Creating
      BY <1>1, <2>3, <3>2, Zenon DEF TypeOK, Statuses, Unfinished
    <3>4. Outcome("EXPIRED") = "expired"
      BY Zenon DEF Outcome, Creating
    <3>5. callbacks' = [callbacks EXCEPT ![g] = Append(@, Outcome("EXPIRED"))]
      BY <2>2, <2>3, <3>4, Zenon
    <3>6. QED
      BY <1>1, <2>2, <2>3, <3>3, <3>5, VisibleFinish, ZenonT(60) DEF TypeOK
  <2>4. CASE ~Unfinished(g)
    BY <2>2, <2>4, InvisibleStep, Zenon
  <2>5. QED
    BY <2>3, <2>4, ZenonT(60)
<1>6. CASE UNCHANGED <<status, malicious, callbacks>>
  BY <1>6, InvisibleStep, Zenon
<1>7. QED
  BY <1>2, <1>3, <1>4, <1>5, <1>6, SMTT(30)
  DEF Next, MsgNext, BlockNext, UpdateParams, SubmitDKGRound1, SubmitDKGRound2, Confirm,
      EndBlock, ProcessDone, ExpireDone, groupVars, vars

\* The protocol keeps the promise to the module that owns the group: one end,
\* one callback, the one that names the end.
THEOREM LifecycleImplemented == Spec => ImplementsLifecycle
<1>1. Init => Lifecycle!Init
  <2> SUFFICES ASSUME Init PROVE Lifecycle!Init
    BY Zenon
  <2>1. Outcome("NONE") = "none"
    BY Zenon DEF Outcome, Creating
  <2>2. [g \in GroupIds |-> Outcome(status[g])] = [g \in GroupIds |-> "none"]
    BY <2>1, Zenon DEF Init
  <2>3. [g \in GroupIds |-> malicious[g] # {}] = [g \in GroupIds |-> FALSE]
    BY Zenon DEF Init
  <2>4. QED
    BY <2>2, <2>3, Zenon DEF Init, Lifecycle!Init
<1>2. IInv /\ IInv' /\ [Next]_vars => [Lifecycle!Next]_Lifecycle!lifecycleVars
  BY RefinedStep, Zenon
<1>3. QED
  BY <1>1, <1>2, Inductive, PTL DEF Spec, ImplementsLifecycle, Lifecycle!Spec
=============================================================================
