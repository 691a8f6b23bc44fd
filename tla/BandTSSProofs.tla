---------------------------- MODULE BandTSSProofs ----------------------------
(***************************************************************************)
(* Theorems about x/bandtss, for any number of groups and signings, any    *)
(* order of the callbacks of x/tss and any block times.                    *)
(***************************************************************************)
EXTENDS BandTSS, WeightTheorems

-----------------------------------------------------------------------------
(* The inductive invariant *)

OnDuty == {currentGroup, GetIncomingGroupID} \ {0}
InTransition == transition # NoTransition

BandType ==
  /\ groupOutcome \in [GroupIds -> {"none", "creating", "completed", "failed", "expired"}]
  /\ caught \in [GroupIds -> BOOLEAN]
  /\ tssCount \in Nat
  /\ signingOutcome \in [SigningIds -> {"none", "waiting", "success", "fallen"}]
  /\ signingGroup \in [SigningIds -> GroupIds \cup {0}]
  /\ currentGroup \in GroupIds \cup {0}
  /\ transition \in Transition \cup {NoTransition}

\* The members are those of the groups on duty, and these have finished cleanly.
MembersInv ==
  /\ \A p : p \in DOMAIN members <=> \E g \in OnDuty : p \in PairsOf(g)
  /\ \A g \in OnDuty : groupOutcome[g] = "completed"
  /\ \A g \in GroupIds : groupOutcome[g] = "completed" => ~caught[g]

\* A transition replaces the group that is current for as long as it lasts, by another.
TransitionInv ==
  InTransition =>
    /\ transition.current = currentGroup /\ transition.incoming # currentGroup
    /\ transition.status = "WAITING_SIGN" => groupOutcome[transition.incoming] = "completed"
    /\ transition.force => transition.status = "WAITING_EXECUTION"

\* The current group has been asked for the handover, and has signed it when the
\* incoming group is ready.
Asked == /\ transition.signingID \in SigningIds /\ transition.signingID <= tssCount
         /\ signingGroup[transition.signingID] = currentGroup
Signed == Asked /\ signingOutcome[transition.signingID] = "success"
HandoverInv ==
  InTransition /\ ~transition.force /\ currentGroup # 0 =>
    /\ transition.status = "WAITING_SIGN" => Asked
    /\ transition.status = "WAITING_EXECUTION" => Signed

BandInv == BandType /\ MembersInv /\ TransitionInv /\ HandoverInv /\ IdleInBoth

-----------------------------------------------------------------------------
\* A transition is a record with all fields or NoTransition, which its status tells.
LEMMA TransitionFacts ==
  ASSUME BandType
  PROVE  /\ NoTransition.status = "NONE"
         /\ transition.status \in Statuses => InTransition
         /\ InTransition => /\ transition \in Transition
                            /\ transition.status \in Statuses
                            /\ transition.incoming \in GroupIds /\ transition.incoming # 0
  BY GroupsAssumption DEF BandType, NoTransition, Transition, Statuses, InTransition

\* Groups have no pairs in common.
LEMMA PairsDisjoint ==
  \A g, h, p : p \in PairsOf(g) /\ p \in PairsOf(h) => g = h
  BY Zenon DEF PairsOf

\* What a new status leaves alone.
LEMMA StatusChange ==
  ASSUME NEW tr \in Transition, NEW st \in Statuses
  PROVE  LET new == [tr EXCEPT !.status = st]
         IN  /\ new \in Transition /\ new.status = st
             /\ new.signingID = tr.signingID /\ new.current = tr.current
             /\ new.incoming = tr.incoming /\ new.execTime = tr.execTime /\ new.force = tr.force
  BY Zenon DEF Transition, Statuses

\* The chain starts without a transition.
LEMMA InitBandInv == Init => BandInv
<1> SUFFICES ASSUME Init PROVE BandInv
  BY Zenon
<1>1. PICK g \in {0, 1} : Genesis(g)
  BY Zenon DEF Init
<1>2. transition = NoTransition /\ ~InTransition /\ GetIncomingGroupID = 0
  BY Zenon DEF Init, InTransition, GetIncomingGroupID, NoTransition
<1>3. currentGroup = g /\ g \in GroupIds \cup {0} /\ OnDuty = {g} \ {0}
  BY <1>1, <1>2, GroupsAssumption, Zenon DEF Genesis, OnDuty
<1>4. BandType
  BY <1>1, <1>2, <1>3, Zenon DEF Genesis, Init, BandType
<1>5. /\ DOMAIN members = IF g = 0 THEN {} ELSE PairsOf(g)
      /\ \A p \in DOMAIN members : members[p].isActive
  BY <1>1, Zenon DEF Genesis
<1>6. MembersInv
  <2>1. \A p : p \in DOMAIN members <=> \E h \in OnDuty : p \in PairsOf(h)
    BY <1>3, <1>5, Zenon
  <2>2. \A h \in OnDuty : groupOutcome[h] = "completed"
    BY <1>1, <1>3, Zenon DEF Genesis
  <2>3. \A h \in GroupIds : ~caught[h]
    BY Zenon DEF Init
  <2>4. QED
    BY <2>1, <2>2, <2>3, Zenon DEF MembersInv
<1>7. QED
  BY <1>2, <1>4, <1>5, <1>6, Zenon DEF BandInv, TransitionInv, HandoverInv, IdleInBoth

-----------------------------------------------------------------------------
(* What most steps keep *)

GroupsKeep ==
  /\ \A g \in GroupIds : groupOutcome[g] = "completed" => groupOutcome'[g] = "completed"
  /\ \A g \in GroupIds : groupOutcome'[g] = "completed" => ~caught'[g]

SigningsKeep ==
  /\ tssCount <= tssCount' /\ tssCount' \in Nat
  /\ \A s \in SigningIds : s <= tssCount =>
       /\ signingGroup'[s] = signingGroup[s]
       /\ signingOutcome[s] = "success" => signingOutcome'[s] = "success"

\* The same groups stay on duty with the same members.
LEMMA MembersKept ==
  ASSUME BandInv, OnDuty' = OnDuty, DOMAIN members' = DOMAIN members, GroupsKeep
  PROVE  MembersInv'
<1>1. OnDuty \subseteq GroupIds
  BY TransitionFacts, Zenon DEF BandInv, BandType, OnDuty, GetIncomingGroupID, InTransition, Statuses
<1>2. QED
  BY <1>1, Zenon DEF BandInv, MembersInv, GroupsKeep, PairsOf

\* The transition goes on as it is.
LEMMA TransitionKept ==
  ASSUME BandInv, transition' = transition, currentGroup' = currentGroup, GroupsKeep, SigningsKeep
  PROVE  TransitionInv' /\ HandoverInv' /\ OnDuty' = OnDuty
<1>1. InTransition' = InTransition /\ OnDuty' = OnDuty
  BY Zenon DEF InTransition, OnDuty, GetIncomingGroupID
<1>2. TransitionInv'
  <2>1. InTransition => transition.incoming \in GroupIds
    BY TransitionFacts, Zenon DEF BandInv
  <2>2. QED
    BY <1>1, <2>1, Zenon DEF BandInv, TransitionInv, GroupsKeep
<1>3. Asked => Asked'
  <2>1. SigningIds \subseteq Nat /\ tssCount \in Nat
    BY ParamsAssumption, Zenon DEF BandInv, BandType
  <2>2. PICK s : s = transition.signingID /\ s = transition'.signingID
    BY Zenon
  <2>3. s \in SigningIds /\ s <= tssCount => s <= tssCount' /\ signingGroup'[s] = signingGroup[s]
    BY <2>1 DEF SigningsKeep
  <2>4. QED
    BY <2>2, <2>3, Zenon DEF Asked
<1>4. Signed => Signed'
  BY <1>3, Zenon DEF Signed, Asked, SigningsKeep
<1>5. HandoverInv'
  BY <1>1, <1>3, <1>4, Zenon DEF BandInv, HandoverInv
<1>6. QED
  BY <1>1, <1>2, <1>5, Zenon

\* There is no transition any more.
LEMMA TransitionEnds ==
  ASSUME transition' = NoTransition
  PROVE  TransitionInv' /\ HandoverInv' /\ GetIncomingGroupID' = 0
  BY Zenon DEF InTransition, TransitionInv, HandoverInv, GetIncomingGroupID, NoTransition

\* The creation of a group ends in x/tss.
LEMMA FinishKeeps ==
  ASSUME BandInv, NEW g \in GroupIds, NEW end \in {"completed", "failed", "expired"},
         Group!Finish(g, end)
  PROVE  /\ GroupsKeep /\ groupOutcome[g] = "creating" /\ groupOutcome'[g] = end
         /\ groupOutcome' \in [GroupIds -> {"none", "creating", "completed", "failed", "expired"}]
         /\ caught' = caught
  BY Zenon DEF Group!Finish, GroupsKeep, BandInv, BandType, MembersInv

\* x/tss accepts requests of signatures.
LEMMA AcceptKeeps ==
  ASSUME BandInv, NEW gs \in Seq(GroupIds), AcceptRequests(gs)
  PROVE  /\ SigningsKeep
         /\ signingOutcome' \in [SigningIds -> {"none", "waiting", "success", "fallen"}]
         /\ signingGroup' \in [SigningIds -> GroupIds \cup {0}]
         /\ Len(gs) = 1 => /\ tssCount + 1 \in SigningIds /\ tssCount' = tssCount + 1
                           /\ signingGroup'[tssCount + 1] = gs[1]
<1>1. /\ Len(gs) \in Nat /\ Len(gs) > 0 /\ tssCount \in Nat
      /\ tssCount + Len(gs) \in SigningIds /\ tssCount' = tssCount + Len(gs)
      /\ signingOutcome' = [s \in SigningIds |->
           IF s \in (tssCount + 1)..(tssCount + Len(gs)) THEN "waiting" ELSE signingOutcome[s]]
      /\ signingGroup' = [s \in SigningIds |->
           IF s \in (tssCount + 1)..(tssCount + Len(gs)) THEN gs[s - tssCount] ELSE signingGroup[s]]
  BY DEF AcceptRequests, TSS!Request, BandInv, BandType
<1>2. SigningIds \subseteq Nat
  BY ParamsAssumption, Zenon
<1>3. \A s \in (tssCount + 1)..(tssCount + Len(gs)) : gs[s - tssCount] \in GroupIds
  <2> SUFFICES ASSUME NEW s \in (tssCount + 1)..(tssCount + Len(gs)) PROVE gs[s - tssCount] \in GroupIds
    BY Zenon
  <2>1. s - tssCount \in 1..Len(gs)
    BY <1>1
  <2>2. QED
    BY <2>1
<1>4. signingGroup' \in [SigningIds -> GroupIds \cup {0}]
  BY <1>1, <1>3, Zenon DEF BandInv, BandType
<1>5. signingOutcome' \in [SigningIds -> {"none", "waiting", "success", "fallen"}]
  BY <1>1, Zenon DEF BandInv, BandType
<1>6. SigningsKeep
  <2>1. \A s \in SigningIds : s <= tssCount => s \notin (tssCount + 1)..(tssCount + Len(gs))
    BY <1>1, <1>2
  <2>2. tssCount <= tssCount' /\ tssCount' \in Nat
    BY <1>1
  <2>3. QED
    BY <1>1, <2>1, <2>2, Zenon DEF SigningsKeep
<1>7. ASSUME Len(gs) = 1
      PROVE  tssCount + 1 \in SigningIds /\ signingGroup'[tssCount + 1] = gs[1]
  <2>1. tssCount + 1 \in (tssCount + 1)..(tssCount + 1) /\ (tssCount + 1) - tssCount = 1
    BY <1>1
  <2>2. QED
    BY <1>1, <1>7, <2>1, Zenon
<1>8. QED
  BY <1>1, <1>4, <1>5, <1>6, <1>7, Zenon

\* A group that was not on duty is ready to take over: its members are added.
LEMMA EntersDuty ==
  ASSUME BandInv, NEW g \in GroupIds, currentGroup' = currentGroup,
         g # currentGroup, GetIncomingGroupID = 0, GetIncomingGroupID' = g,
         AddMembers(g), GroupsKeep, groupOutcome'[g] = "completed", tssInactive' = tssInactive
  PROVE  MembersInv' /\ IdleInBoth'
<1>1. g # 0 /\ OnDuty = {currentGroup} \ {0} /\ OnDuty' = OnDuty \cup {g}
  BY GroupsAssumption, Zenon DEF OnDuty
<1>2. /\ DOMAIN members' = DOMAIN members \cup PairsOf(g)
      /\ \A p \in DOMAIN members' : members'[p] = IF p \in PairsOf(g) THEN NewMember ELSE members[p]
  BY Zenon DEF AddMembers
<1>3. \A p : p \in DOMAIN members' <=> \E h \in OnDuty' : p \in PairsOf(h)
  BY <1>1, <1>2, Zenon DEF BandInv, MembersInv
<1>4. \A h \in OnDuty' : groupOutcome'[h] = "completed"
  BY <1>1, Zenon DEF BandInv, BandType, MembersInv, GroupsKeep, OnDuty
<1>5. IdleInBoth'
  BY <1>2 DEF BandInv, IdleInBoth, NewMember
<1>6. QED
  BY <1>3, <1>4, <1>5, Zenon DEF MembersInv, GroupsKeep, PairsOf

-----------------------------------------------------------------------------
(* The steps *)

tssQuiet == <<groupOutcome, caught, tssCount, signingOutcome, signingGroup>>

\* Steps that leave the groups, the signings of x/tss and the transition alone.
LEMMA QuietBandInv ==
  ASSUME BandInv, UNCHANGED tssQuiet, UNCHANGED <<currentGroup, transition>>,
         DOMAIN members' = DOMAIN members, IdleInBoth'
  PROVE  BandInv'
<1>1. GroupsKeep /\ SigningsKeep
  BY DEF BandInv, BandType, MembersInv, GroupsKeep, SigningsKeep, tssQuiet
<1>2. TransitionInv' /\ HandoverInv' /\ OnDuty' = OnDuty
  BY <1>1, TransitionKept, Zenon
<1>3. MembersInv'
  BY <1>1, <1>2, MembersKept, Zenon
<1>4. BandType'
  BY Zenon DEF BandInv, BandType, tssQuiet
<1>5. QED
  BY <1>2, <1>3, <1>4, Zenon DEF BandInv

\* MsgActivate and OnSigningTimeout: x/tss is told of both.
LEMMA DutyBandInv ==
  ASSUME BandInv,
         \/ \E p \in Pairs : Activate(p)
         \/ \E s \in SigningIds : \E idle \in SUBSET PairsOf(signingGroup[s]) : SigningTimeout(s, idle)
  PROVE  BandInv'
<1>1. CASE \E p \in Pairs : Activate(p)
  <2>1. PICK p \in Pairs : Activate(p)
    BY <1>1, Zenon
  <2>2. /\ UNCHANGED tssQuiet /\ UNCHANGED <<currentGroup, transition>>
        /\ DOMAIN members' = DOMAIN members /\ tssInactive' = tssInactive \ {p}
        /\ \A q \in DOMAIN members : members'[q] = IF q = p THEN NewMember ELSE members[q]
    BY <2>1, Zenon DEF Activate, tssQuiet, groupVars, signingVars
  <2>3. IdleInBoth'
    BY <2>2 DEF BandInv, IdleInBoth, NewMember
  <2>4. QED
    BY <2>2, <2>3, QuietBandInv, Zenon
<1>2. CASE \E s \in SigningIds : \E idle \in SUBSET PairsOf(signingGroup[s]) : SigningTimeout(s, idle)
  <2>1. PICK s \in SigningIds : \E idle \in SUBSET PairsOf(signingGroup[s]) : SigningTimeout(s, idle)
    BY <1>2, Zenon
  <2>2. PICK idle \in SUBSET PairsOf(signingGroup[s]) : SigningTimeout(s, idle)
    BY <2>1, Zenon
  <2>3. PICK down : /\ down = {p \in idle \cap DOMAIN members : members[p].isActive}
                    /\ tssInactive' = tssInactive \cup down
                    /\ members' = [p \in DOMAIN members |->
                         IF p \in down THEN [isActive |-> FALSE, since |-> time] ELSE members[p]]
    BY <2>2, ZenonT(60) DEF SigningTimeout, DeactivateMembers
  <2>4. UNCHANGED tssQuiet /\ UNCHANGED <<currentGroup, transition>>
    BY <2>2, Zenon DEF SigningTimeout, TSS!Timeout, tssQuiet, groupVars
  <2>5. DOMAIN members' = DOMAIN members /\ IdleInBoth'
    BY <2>3, Zenon DEF BandInv, IdleInBoth
  <2>6. QED
    BY <2>4, <2>5, QuietBandInv, Zenon
<1>3. QED
  BY <1>1, <1>2, Zenon

\* MsgTransitionGroup: the group is new, the current one is not.
LEMMA StartBandInv ==
  ASSUME BandInv, NEW g \in GroupIds, NEW t \in 0..MaxTime, TransitionGroup(g, t)
  PROVE  BandInv'
<1>1. /\ transition = NoTransition /\ transition' = NewTransition(g, t, FALSE)
      /\ UNCHANGED <<currentGroup, members, tssInactive, caught, tssCount, signingOutcome, signingGroup>>
      /\ groupOutcome[g] = "none" /\ groupOutcome' = [groupOutcome EXCEPT ![g] = "creating"]
  BY Zenon DEF TransitionGroup, NoTransitionInProgress, Group!Create, signingVars
<1>2. GroupsKeep
  BY <1>1, Zenon DEF BandInv, BandType, MembersInv, GroupsKeep
<1>3. GetIncomingGroupID = 0 /\ GetIncomingGroupID' = 0 /\ OnDuty' = OnDuty
  BY <1>1, Zenon DEF GetIncomingGroupID, NoTransition, NewTransition, OnDuty
<1>4. g # currentGroup
  <2>1. currentGroup # 0 => groupOutcome[currentGroup] = "completed"
    BY Zenon DEF BandInv, MembersInv, OnDuty
  <2>2. QED
    BY <1>1, <2>1, GroupsAssumption, Zenon
<1>5. transition' \in Transition
  BY <1>1, Zenon DEF NewTransition, Transition, Statuses, BandInv, BandType
<1>6. TransitionInv' /\ HandoverInv'
  BY <1>1, <1>4, Zenon DEF TransitionInv, HandoverInv, NewTransition
<1>7. BandType'
  BY <1>1, <1>5, Zenon DEF BandInv, BandType
<1>8. MembersInv'
  BY <1>1, <1>2, <1>3, MembersKept, Zenon
<1>9. IdleInBoth'
  BY <1>1, Zenon DEF BandInv, IdleInBoth
<1>10. QED
  BY <1>6, <1>7, <1>8, <1>9, Zenon DEF BandInv

\* MsgForceTransitionGroup.
LEMMA ForceBandInv ==
  ASSUME BandInv, NEW g \in GroupIds, NEW t \in 0..MaxTime, ForceTransitionGroup(g, t)
  PROVE  BandInv'
<1>1. /\ transition = NoTransition /\ transition' = NewTransition(g, t, TRUE)
      /\ UNCHANGED <<currentGroup, tssInactive, groupOutcome, caught, tssCount, signingOutcome,
                     signingGroup>>
      /\ g # currentGroup /\ groupOutcome[g] = "completed" /\ AddMembers(g)
  BY Zenon DEF ForceTransitionGroup, NoTransitionInProgress, ForceTarget, tssVars
<1>2. GroupsKeep
  BY <1>1, Zenon DEF BandInv, MembersInv, GroupsKeep
<1>3. GetIncomingGroupID = 0 /\ GetIncomingGroupID' = g
  BY <1>1, Zenon DEF GetIncomingGroupID, NoTransition, NewTransition
<1>4. MembersInv' /\ IdleInBoth'
  BY <1>1, <1>2, <1>3, EntersDuty, Zenon
<1>5. transition' \in Transition
  BY <1>1, Zenon DEF NewTransition, Transition, Statuses, BandInv, BandType
<1>6. TransitionInv' /\ HandoverInv'
  BY <1>1, Zenon DEF TransitionInv, HandoverInv, NewTransition
<1>7. BandType'
  BY <1>1, <1>5, Zenon DEF BandInv, BandType
<1>8. QED
  BY <1>4, <1>6, <1>7, Zenon DEF BandInv

\* The members of a group that is not ready yet are not there.
LEMMA ReadyCanAdd ==
  ASSUME BandInv, InTransition, transition.status # "WAITING_EXECUTION"
  PROVE  CanAddMembers(transition.incoming)
<1>1. transition.incoming # currentGroup
  BY Zenon DEF BandInv, TransitionInv
<1>2. GetIncomingGroupID = 0 /\ OnDuty = {currentGroup} \ {0}
  BY Zenon DEF GetIncomingGroupID, OnDuty
<1>3. QED
  BY <1>1, <1>2, PairsDisjoint, Zenon DEF CanAddMembers, BandInv, MembersInv

\* The incoming group is ready.
LEMMA ReadyBandInv ==
  ASSUME BandInv, NEW g \in GroupIds, InTransition, transition.incoming = g,
         transition.status # "WAITING_EXECUTION",
         AddMembersOrPanic(g), transition' = [transition EXCEPT !.status = "WAITING_EXECUTION"],
         UNCHANGED <<currentGroup, tssInactive, tssCount, signingGroup, caught>>,
         GroupsKeep, groupOutcome'[g] = "completed",
         groupOutcome' \in [GroupIds -> {"none", "creating", "completed", "failed", "expired"}],
         signingOutcome' \in [SigningIds -> {"none", "waiting", "success", "fallen"}],
         currentGroup # 0 => Asked /\ signingOutcome'[transition.signingID] = "success"
  PROVE  BandInv'
<1>1. /\ transition \in Transition /\ g # currentGroup /\ transition.current = currentGroup
  BY TransitionFacts, Zenon DEF BandInv, TransitionInv
<1>2. GetIncomingGroupID = 0 /\ OnDuty = {currentGroup} \ {0}
  BY Zenon DEF GetIncomingGroupID, OnDuty
<1>3. CanAddMembers(g)
  BY ReadyCanAdd, Zenon
<1>4. AddMembers(g)
  BY <1>3, Zenon DEF AddMembersOrPanic
<1>5. /\ transition' \in Transition /\ transition'.status = "WAITING_EXECUTION"
      /\ transition'.signingID = transition.signingID /\ transition'.current = currentGroup
      /\ transition'.incoming = g
  BY <1>1, StatusChange, Zenon DEF Statuses
<1>6. GetIncomingGroupID' = g
  BY <1>5, Zenon DEF GetIncomingGroupID
<1>7. MembersInv' /\ IdleInBoth'
  BY <1>1, <1>2, <1>4, <1>6, EntersDuty, ZenonT(60)
<1>8. TransitionInv'
  BY <1>1, <1>5, Zenon DEF TransitionInv
<1>9. HandoverInv'
  <2>1. currentGroup' # 0 => Signed'
    BY <1>5, Zenon DEF Signed, Asked
  <2>2. QED
    BY <1>5, <2>1, Zenon DEF HandoverInv
<1>10. BandType'
  BY <1>5, Zenon DEF BandInv, BandType
<1>11. QED
  BY <1>7, <1>8, <1>9, <1>10, ZenonT(60) DEF BandInv

\* OnGroupCreationCompleted.
LEMMA CompletedBandInv ==
  ASSUME BandInv, NEW g \in GroupIds, GroupCompleted(g)
  PROVE  BandInv'
<1>1. Group!Finish(g, "completed") /\ OnGroupCreationCompleted(g) /\ UNCHANGED <<tssInactive, currentGroup>>
  BY Zenon DEF GroupCompleted
<1>2. /\ GroupsKeep /\ groupOutcome[g] = "creating" /\ groupOutcome'[g] = "completed"
      /\ groupOutcome' \in [GroupIds -> {"none", "creating", "completed", "failed", "expired"}]
      /\ caught' = caught
  BY <1>1, FinishKeeps, Zenon
<1>3. CASE /\ UNCHANGED <<tssCount, signingOutcome, signingGroup, transition, members>>
  <2>1. SigningsKeep
    BY <1>3 DEF SigningsKeep, BandInv, BandType
  <2>2. TransitionInv' /\ HandoverInv' /\ OnDuty' = OnDuty
    BY <1>1, <1>2, <1>3, <2>1, TransitionKept, ZenonT(60)
  <2>3. MembersInv'
    BY <1>2, <1>3, <2>2, MembersKept, ZenonT(60)
  <2>4. BandType' /\ IdleInBoth'
    BY <1>1, <1>2, <1>3, Zenon DEF BandInv, BandType, IdleInBoth
  <2>5. QED
    BY <2>2, <2>3, <2>4, Zenon DEF BandInv
<1>4. ASSUME AwaitsGroup(g)
      PROVE  /\ transition \in Transition /\ InTransition /\ transition.incoming = g
             /\ transition.current = currentGroup /\ g # currentGroup
             /\ GetIncomingGroupID = 0 /\ OnDuty = {currentGroup} \ {0}
  <2>1. transition \in Transition /\ InTransition /\ transition.incoming = g
    BY <1>4, TransitionFacts, Zenon DEF AwaitsGroup, BandInv, Statuses
  <2>2. transition.current = currentGroup /\ g # currentGroup
    BY <2>1, Zenon DEF BandInv, TransitionInv
  <2>3. GetIncomingGroupID = 0
    BY <1>4, Zenon DEF AwaitsGroup, GetIncomingGroupID
  <2>4. QED
    BY <2>1, <2>2, <2>3, Zenon DEF OnDuty
<1>5. CASE /\ AwaitsGroup(g) /\ transition.current = 0 /\ AddMembersOrPanic(g)
           /\ transition' = [transition EXCEPT !.status = "WAITING_EXECUTION"]
           /\ UNCHANGED <<tssCount, signingOutcome, signingGroup>>
  <2>1. transition.status # "WAITING_EXECUTION" /\ currentGroup = 0
    BY <1>4, <1>5, Zenon DEF AwaitsGroup
  <2>2. signingOutcome' \in [SigningIds -> {"none", "waiting", "success", "fallen"}]
    BY <1>5, Zenon DEF BandInv, BandType
  <2>3. QED
    BY <1>1, <1>2, <1>4, <1>5, <2>1, <2>2, ReadyBandInv, ZenonT(60)
<1>6. CASE /\ AwaitsGroup(g) /\ transition.current # 0 /\ AcceptRequests(<<currentGroup>>)
           /\ transition' = [transition EXCEPT !.status = "WAITING_SIGN", !.signingID = tssCount + 1]
           /\ members' = members
  <2>1. <<currentGroup>> \in Seq(GroupIds) /\ Len(<<currentGroup>>) = 1 /\ <<currentGroup>>[1] = currentGroup
    BY <1>4, <1>6 DEF BandInv, BandType
  <2>2. /\ SigningsKeep
        /\ signingOutcome' \in [SigningIds -> {"none", "waiting", "success", "fallen"}]
        /\ signingGroup' \in [SigningIds -> GroupIds \cup {0}]
        /\ tssCount + 1 \in SigningIds /\ tssCount' = tssCount + 1
        /\ signingGroup'[tssCount + 1] = currentGroup
    BY <1>6, <2>1, AcceptKeeps, Zenon
  <2>3. /\ transition' \in Transition /\ transition'.status = "WAITING_SIGN"
        /\ transition'.signingID = tssCount + 1 /\ transition'.current = currentGroup
        /\ transition'.incoming = g /\ transition'.force = transition.force
    BY <1>4, <1>6, <2>2, Zenon DEF Transition, Statuses
  <2>4. GetIncomingGroupID' = 0 /\ OnDuty' = OnDuty
    BY <1>1, <1>4, <1>6, <2>3, Zenon DEF GetIncomingGroupID, OnDuty
  <2>5. MembersInv'
    BY <1>2, <1>6, <2>4, MembersKept, Zenon
  <2>6. TransitionInv'
    <3>1. ~ transition.force
      BY <1>4, <1>6, Zenon DEF BandInv, TransitionInv, AwaitsGroup
    <3>2. QED
      BY <1>1, <1>2, <1>4, <1>6, <2>3, <3>1, Zenon DEF TransitionInv
  <2>7. HandoverInv'
    <3>1. tssCount + 1 <= tssCount'
      BY <2>2 DEF BandInv, BandType
    <3>2. Asked'
      BY <1>1, <2>2, <2>3, <3>1, Zenon DEF Asked
    <3>3. QED
      BY <2>3, <3>2, Zenon DEF HandoverInv
  <2>8. BandType' /\ IdleInBoth'
    BY <1>1, <1>2, <1>6, <2>2, <2>3, Zenon DEF BandInv, BandType, IdleInBoth, SigningsKeep
  <2>9. QED
    BY <2>5, <2>6, <2>7, <2>8, ZenonT(60) DEF BandInv
<1>7. CASE /\ AwaitsGroup(g) /\ transition' = NoTransition
           /\ UNCHANGED <<tssCount, signingOutcome, signingGroup, members>>
  <2>1. TransitionInv' /\ HandoverInv' /\ GetIncomingGroupID' = 0
    BY <1>7, TransitionEnds, Zenon
  <2>2. OnDuty' = OnDuty
    BY <1>1, <1>4, <1>7, <2>1, Zenon DEF OnDuty
  <2>3. MembersInv'
    BY <1>2, <1>7, <2>2, MembersKept, Zenon
  <2>4. BandType' /\ IdleInBoth'
    BY <1>1, <1>2, <1>7, Zenon DEF BandInv, BandType, IdleInBoth
  <2>5. QED
    BY <2>1, <2>3, <2>4, Zenon DEF BandInv
<1>8. QED
  BY <1>1, <1>3, <1>5, <1>6, <1>7, ZenonT(60) DEF OnGroupCreationCompleted, signingVars

\* A callback ends the transition before the incoming group is ready, or leaves it alone.
LEMMA EndedBandInv ==
  ASSUME BandInv, UNCHANGED <<currentGroup, members, tssInactive>>, GroupsKeep, SigningsKeep,
         groupOutcome' \in [GroupIds -> {"none", "creating", "completed", "failed", "expired"}],
         caught' \in [GroupIds -> BOOLEAN],
         signingOutcome' \in [SigningIds -> {"none", "waiting", "success", "fallen"}],
         signingGroup' \in [SigningIds -> GroupIds \cup {0}],
         \/ transition' = transition
         \/ transition.status # "WAITING_EXECUTION" /\ transition' = NoTransition
  PROVE  BandInv'
<1>1. BandType' /\ IdleInBoth'
  BY Zenon DEF BandInv, BandType, IdleInBoth, SigningsKeep
<1>2. TransitionInv' /\ HandoverInv' /\ OnDuty' = OnDuty
  <2>1. CASE transition' = transition
    BY <2>1, TransitionKept, Zenon
  <2>2. CASE transition.status # "WAITING_EXECUTION" /\ transition' = NoTransition
    <3>1. GetIncomingGroupID = 0
      BY <2>2, Zenon DEF GetIncomingGroupID
    <3>2. TransitionInv' /\ HandoverInv' /\ GetIncomingGroupID' = 0
      BY <2>2, TransitionEnds, Zenon
    <3>3. QED
      BY <3>1, <3>2, Zenon DEF OnDuty
  <2>3. QED
    BY <2>1, <2>2, Zenon
<1>3. MembersInv'
  BY <1>2, MembersKept, Zenon
<1>4. QED
  BY <1>1, <1>2, <1>3, Zenon DEF BandInv

\* OnGroupCreationFailed, OnGroupCreationExpired, and a member that is caught.
LEMMA FailedGroupBandInv ==
  ASSUME BandInv, NEW g \in GroupIds,
         MemberCaught(g) \/ \E end \in {"failed", "expired"} : GroupEnded(g, end)
  PROVE  BandInv'
<1>1. CASE MemberCaught(g)
  <2>1. /\ groupOutcome[g] = "creating" /\ caught' = [caught EXCEPT ![g] = TRUE]
        /\ UNCHANGED <<groupOutcome, tssCount, signingOutcome, signingGroup, tssInactive,
                       currentGroup, transition, members>>
    BY <1>1, Zenon DEF MemberCaught, Group!Catch, signingVars, bandVars
  <2>2. GroupsKeep /\ SigningsKeep
    BY <2>1 DEF BandInv, BandType, MembersInv, GroupsKeep, SigningsKeep
  <2>3. caught' \in [GroupIds -> BOOLEAN]
    BY <2>1, Zenon DEF BandInv, BandType
  <2>4. /\ groupOutcome' \in [GroupIds -> {"none", "creating", "completed", "failed", "expired"}]
        /\ signingOutcome' \in [SigningIds -> {"none", "waiting", "success", "fallen"}]
        /\ signingGroup' \in [SigningIds -> GroupIds \cup {0}]
    BY <2>1, Zenon DEF BandInv, BandType
  <2>5. QED
    BY <2>1, <2>2, <2>3, <2>4, EndedBandInv, ZenonT(60)
<1>2. CASE \E end \in {"failed", "expired"} : GroupEnded(g, end)
  <2>1. PICK end \in {"failed", "expired"} : GroupEnded(g, end)
    BY <1>2, Zenon
  <2>2. /\ Group!Finish(g, end) /\ OnGroupCreationEnded(g)
        /\ UNCHANGED <<tssCount, signingOutcome, signingGroup, tssInactive, currentGroup, members>>
    BY <2>1, Zenon DEF GroupEnded, signingVars
  <2>3. /\ GroupsKeep /\ caught' = caught
        /\ groupOutcome' \in [GroupIds -> {"none", "creating", "completed", "failed", "expired"}]
    BY <2>2, FinishKeeps, Zenon
  <2>4. SigningsKeep
    BY <2>2 DEF SigningsKeep, BandInv, BandType
  <2>5. \/ transition' = transition
        \/ transition.status # "WAITING_EXECUTION" /\ transition' = NoTransition
    BY <2>2, Zenon DEF OnGroupCreationEnded, AwaitsGroup
  <2>6. /\ caught' \in [GroupIds -> BOOLEAN]
        /\ signingOutcome' \in [SigningIds -> {"none", "waiting", "success", "fallen"}]
        /\ signingGroup' \in [SigningIds -> GroupIds \cup {0}]
    BY <2>2, <2>3, Zenon DEF BandInv, BandType
  <2>7. QED
    BY <2>2, <2>3, <2>4, <2>5, <2>6, EndedBandInv, Zenon
<1>3. QED
  BY <1>1, <1>2, Zenon

\* createSigningRequest asks the groups on duty.
LEMMA RequestBandInv ==
  ASSUME BandInv, NEW byAuthority \in BOOLEAN, NEW accepts \in BOOLEAN,
         RequestSignature(byAuthority, accepts)
  PROVE  BandInv'
<1>1. PICK incoming : incoming = IF accepts THEN GetIncomingGroupID ELSE 0
  BY Zenon
<1>2. currentGroup \in GroupIds \cup {0} /\ incoming \in GroupIds \cup {0}
  BY <1>1, TransitionFacts, Zenon DEF BandInv, BandType, GetIncomingGroupID, Statuses
<1>3. PICK asked : /\ asked = (IF currentGroup # 0 THEN <<currentGroup>> ELSE << >>) \o
                              (IF incoming # 0 THEN <<incoming>> ELSE << >>)
                   /\ AcceptRequests(asked)
  BY <1>1, Zenon DEF RequestSignature
<1>4. asked \in Seq(GroupIds)
  <2>1. (IF currentGroup # 0 THEN <<currentGroup>> ELSE << >>) \in Seq(GroupIds)
    BY <1>2
  <2>2. (IF incoming # 0 THEN <<incoming>> ELSE << >>) \in Seq(GroupIds)
    BY <1>2
  <2>3. QED
    BY <1>3, <2>1, <2>2
<1>5. /\ SigningsKeep
      /\ signingOutcome' \in [SigningIds -> {"none", "waiting", "success", "fallen"}]
      /\ signingGroup' \in [SigningIds -> GroupIds \cup {0}]
  BY <1>3, <1>4, AcceptKeeps, Zenon
<1>6. UNCHANGED <<groupOutcome, caught, tssInactive, currentGroup, transition, members>>
  BY Zenon DEF RequestSignature, groupVars
<1>7. /\ GroupsKeep /\ caught' \in [GroupIds -> BOOLEAN]
      /\ groupOutcome' \in [GroupIds -> {"none", "creating", "completed", "failed", "expired"}]
  BY <1>6, Zenon DEF GroupsKeep, BandInv, BandType, MembersInv
<1>8. QED
  BY <1>5, <1>6, <1>7, EndedBandInv, Zenon

\* OnSigningCompleted and OnSigningFailed.
LEMMA SigningBandInv ==
  ASSUME BandInv, NEW s \in SigningIds, SigningCompleted(s) \/ SigningFailed(s)
  PROVE  BandInv'
<1>1. PICK o \in {"success", "fallen"} :
        /\ signingOutcome[s] = "waiting" /\ signingOutcome' = [signingOutcome EXCEPT ![s] = o]
        /\ SigningCompleted(s) => o = "success"
        /\ UNCHANGED <<tssCount, groupOutcome, caught, signingGroup, tssInactive, currentGroup>>
  BY Zenon DEF SigningCompleted, SigningFailed, TSS!Complete, TSS!Fail, groupVars
<1>2. /\ signingOutcome' \in [SigningIds -> {"none", "waiting", "success", "fallen"}]
      /\ signingOutcome'[s] = o
  BY <1>1, Zenon DEF BandInv, BandType
<1>3. SigningsKeep
  BY <1>1 DEF SigningsKeep, BandInv, BandType
<1>4. GroupsKeep
  BY <1>1, Zenon DEF GroupsKeep, BandInv, MembersInv
<1>5. /\ caught' \in [GroupIds -> BOOLEAN]
      /\ groupOutcome' \in [GroupIds -> {"none", "creating", "completed", "failed", "expired"}]
      /\ signingGroup' \in [SigningIds -> GroupIds \cup {0}]
  BY <1>1, Zenon DEF BandInv, BandType
<1>6. CASE /\ members' = members
           /\ \/ transition' = transition
              \/ transition.status # "WAITING_EXECUTION" /\ transition' = NoTransition
  BY <1>1, <1>2, <1>3, <1>4, <1>5, <1>6, EndedBandInv, ZenonT(60)
<1>7. CASE /\ SigningCompleted(s) /\ AwaitsSigning(s) /\ AddMembersOrPanic(transition.incoming)
           /\ transition' = [transition EXCEPT !.status = "WAITING_EXECUTION"]
  <2>1. /\ InTransition /\ transition.status = "WAITING_SIGN" /\ transition.signingID = s
        /\ transition.incoming \in GroupIds /\ transition \in Transition
    BY <1>7, TransitionFacts, Zenon DEF AwaitsSigning, BandInv, Statuses
  <2>2. groupOutcome'[transition.incoming] = "completed"
    BY <1>1, <2>1, Zenon DEF BandInv, TransitionInv
  <2>3. currentGroup # 0 => Asked /\ signingOutcome'[transition.signingID] = "success"
    <3>1. currentGroup # 0 => Asked
      BY <2>1, Zenon DEF BandInv, TransitionInv, HandoverInv
    <3>2. QED
      BY <1>1, <1>2, <1>7, <2>1, <3>1, Zenon
  <2>4. QED
    BY <1>1, <1>2, <1>4, <1>5, <1>7, <2>1, <2>2, <2>3, ReadyBandInv, ZenonT(60)
<1>8. QED
  <2>1. CASE SigningFailed(s)
    <3>1. members' = members /\ OnSigningFailed(s)
      BY <2>1, Zenon DEF SigningFailed
    <3>2. \/ transition' = transition
          \/ transition.status # "WAITING_EXECUTION" /\ transition' = NoTransition
      BY <3>1, Zenon DEF OnSigningFailed, AwaitsSigning
    <3>3. QED
      BY <1>6, <3>1, <3>2, Zenon
  <2>2. CASE SigningCompleted(s)
    BY <1>6, <1>7, <2>2, Zenon DEF SigningCompleted, OnSigningCompleted
  <2>3. QED
    BY <2>1, <2>2, Zenon

\* The EndBlocker of x/bandtss: an incoming group that is ready takes over.
LEMMA BlockBandInv ==
  ASSUME BandInv, NEW t \in 0..MaxTime, NextBlock(t)
  PROVE  BandInv'
<1>1. UNCHANGED <<groupOutcome, caught, tssCount, signingOutcome, signingGroup, tssInactive>>
  BY Zenon DEF NextBlock, tssVars
<1>2. GroupsKeep /\ SigningsKeep
  BY <1>1 DEF BandInv, BandType, MembersInv, GroupsKeep, SigningsKeep
<1>3. /\ caught' \in [GroupIds -> BOOLEAN]
      /\ groupOutcome' \in [GroupIds -> {"none", "creating", "completed", "failed", "expired"}]
      /\ signingOutcome' \in [SigningIds -> {"none", "waiting", "success", "fallen"}]
      /\ signingGroup' \in [SigningIds -> GroupIds \cup {0}]
  BY <1>1, Zenon DEF BandInv, BandType
<1>4. CASE ~ (ShouldExecuteGroupTransition /\ ReadyToExecute)
  <2>1. /\ UNCHANGED <<members, currentGroup>>
        /\ \/ transition' = transition
           \/ transition.status # "WAITING_EXECUTION" /\ transition' = NoTransition
    BY <1>4, Zenon DEF NextBlock, ExecuteGroupTransition, ReadyToExecute
  <2>2. QED
    BY <1>1, <1>2, <1>3, <2>1, EndedBandInv, Zenon
<1>5. CASE ShouldExecuteGroupTransition /\ ReadyToExecute
  <2>1. /\ transition' = NoTransition /\ currentGroup' = transition.incoming
        /\ transition.status = "WAITING_EXECUTION"
        /\ IF transition.current # 0 THEN DeleteMembers(transition.current) ELSE members' = members
    BY <1>5, Zenon DEF NextBlock, ExecuteGroupTransition, ReadyToExecute
  <2>2. /\ InTransition /\ transition.incoming \in GroupIds /\ transition.incoming # 0
        /\ transition.current = currentGroup /\ transition.incoming # currentGroup
    BY <2>1, TransitionFacts, Zenon DEF BandInv, TransitionInv, Statuses
  <2>3. OnDuty = {currentGroup, transition.incoming} \ {0}
    BY <2>1, Zenon DEF OnDuty, GetIncomingGroupID
  <2>4. TransitionInv' /\ HandoverInv' /\ GetIncomingGroupID' = 0
    BY <2>1, TransitionEnds, Zenon
  <2>5. OnDuty' = {transition.incoming}
    BY <2>1, <2>2, <2>4, Zenon DEF OnDuty
  <2>6. \A p : p \in DOMAIN members' <=> p \in PairsOf(transition.incoming)
    <3>1. CASE currentGroup = 0
      BY <2>1, <2>2, <2>3, <3>1, Zenon DEF BandInv, MembersInv
    <3>2. CASE currentGroup # 0
      <4>1. DOMAIN members' = DOMAIN members \ PairsOf(currentGroup)
        BY <2>1, <2>2, <3>2, ZenonT(60) DEF DeleteMembers
      <4>2. \A p : p \in DOMAIN members <=> p \in PairsOf(currentGroup) \/ p \in PairsOf(transition.incoming)
        BY <2>2, <2>3, <3>2, Zenon DEF BandInv, MembersInv
      <4>3. QED
        BY <2>2, <4>1, <4>2, PairsDisjoint, ZenonT(60)
    <3>3. QED
      BY <3>1, <3>2, Zenon
  <2>7. MembersInv'
    <3>1. groupOutcome'[transition.incoming] = "completed"
      BY <1>1, <2>2, <2>3, Zenon DEF BandInv, MembersInv
    <3>2. \A h \in GroupIds : groupOutcome'[h] = "completed" => ~caught'[h]
      BY <1>2, Zenon DEF GroupsKeep
    <3>3. \A p : p \in DOMAIN members' <=> \E g \in OnDuty' : p \in PairsOf(g)
      BY <2>5, <2>6, Zenon
    <3>4. QED
      BY <2>5, <3>1, <3>2, <3>3, Zenon DEF MembersInv, PairsOf
  <2>8. \A p \in DOMAIN members' : p \in DOMAIN members /\ members'[p] = members[p]
    BY <2>1, Zenon DEF DeleteMembers
  <2>9. IdleInBoth'
    BY <1>1, <2>8, Zenon DEF BandInv, IdleInBoth
  <2>10. BandType'
    BY <1>1, <2>1, <2>2, Zenon DEF BandInv, BandType
  <2>11. QED
    BY <2>4, <2>7, <2>9, <2>10, Zenon DEF BandInv
<1>6. QED
  BY <1>4, <1>5, Zenon

\* Every step, one that changes nothing included.
LEMMA NextBandInv == BandInv /\ [Next]_vars => BandInv'
<1> SUFFICES ASSUME BandInv, [Next]_vars PROVE BandInv'
  BY Zenon
<1>1. CASE EndBlock \/ TSSDone \/ (\E fee \in FeeChoices : UpdateParams(fee)) \/ UNCHANGED vars
  <2>1. UNCHANGED tssQuiet /\ UNCHANGED <<currentGroup, transition, members, tssInactive>>
    BY <1>1, Zenon DEF EndBlock, TSSDone, UpdateParams, vars, tssVars, bandVars, tssQuiet
  <2>2. IdleInBoth'
    BY <2>1, Zenon DEF BandInv, IdleInBoth
  <2>3. QED
    BY <2>1, <2>2, QuietBandInv, Zenon
<1>2. QED
  BY ZenonT(60), <1>1, DutyBandInv, StartBandInv, ForceBandInv, CompletedBandInv, FailedGroupBandInv,
     RequestBandInv, SigningBandInv, BlockBandInv DEF Next

\* The members of x/bandtss are exactly those of the current group and of the one that is
\* ready to take over, and both finished their key generation with nobody caught
\* (AddMembers, DeleteMembers, ExecuteGroupTransition, the callbacks of x/tss).
THEOREM DutySound == Spec => []DutyIsSound
<1>1. BandInv => DutyIsSound
  <2> SUFFICES ASSUME BandInv PROVE DutyIsSound
    BY Zenon
  <2>1. \A p : p \in DOMAIN members <=> \E g \in OnDuty : p \in PairsOf(g)
    BY Zenon DEF BandInv, MembersInv
  <2>2. DOMAIN members = UNION {PairsOf(g) : g \in OnDuty}
    BY <2>1, Zenon
  <2>3. \A g \in OnDuty : g \in GroupIds
    BY TransitionFacts, Zenon DEF BandInv, BandType, OnDuty, GetIncomingGroupID, Statuses
  <2>4. \A g \in OnDuty : groupOutcome[g] = "completed" /\ ~caught[g]
    BY <2>3, ZenonT(60) DEF BandInv, MembersInv
  <2>5. QED
    BY <2>2, <2>4, Zenon DEF DutyIsSound, OnDuty
<1>2. QED
  BY <1>1, InitBandInv, NextBandInv, PTL DEF Spec

\* A member out of duty in x/bandtss is not assigned by x/tss (DeactivateMember,
\* ActivateMember).
THEOREM IdleIsIdle == Spec => []IdleInBoth
<1>1. BandInv => IdleInBoth
  BY Zenon DEF BandInv
<1>2. QED
  BY <1>1, InitBandInv, NextBandInv, PTL DEF Spec

\* No group loses its duty without its signature, unless governance forces the transition
\* (OnSigningCompleted, ExecuteGroupTransition).
THEOREM HandoversSigned == Spec => HandoverIsSigned
<1>1. ASSUME [Next]_vars, currentGroup' # currentGroup
      PROVE  transition.status = "WAITING_EXECUTION"
  BY <1>1, Zenon DEF Next, vars, tssVars, bandVars, Activate, TransitionGroup, ForceTransitionGroup,
     MemberCaught, GroupCompleted, GroupEnded, RequestSignature, SigningCompleted, SigningFailed,
     SigningTimeout, UpdateParams, EndBlock, TSSDone, NextBlock, ExecuteGroupTransition, ReadyToExecute
<1>2. ASSUME BandInv, transition.status = "WAITING_EXECUTION", currentGroup # 0
      PROVE  \/ transition.force
             \/ /\ transition.signingID # 0
                /\ signingGroup[transition.signingID] = currentGroup
                /\ signingOutcome[transition.signingID] = "success"
  <2>1. InTransition
    BY <1>2, TransitionFacts, Zenon DEF BandInv, Statuses
  <2>2. ~transition.force => Signed
    BY <1>2, <2>1, Zenon DEF BandInv, HandoverInv
  <2>3. transition.signingID \in SigningIds => transition.signingID # 0
    BY ParamsAssumption, Zenon
  <2>4. QED
    BY <2>2, <2>3, Zenon DEF Signed, Asked
<1>3. BandInv /\ [Next]_vars
        => [currentGroup' # currentGroup /\ currentGroup # 0 =>
              \/ transition.force
              \/ /\ transition.signingID # 0
                 /\ signingGroup[transition.signingID] = currentGroup
                 /\ signingOutcome[transition.signingID] = "success"]_vars
  BY <1>1, <1>2, Zenon
<1>4. QED
  BY <1>3, InitBandInv, NextBandInv, PTL DEF Spec, HandoverIsSigned

-----------------------------------------------------------------------------
(* The fees *)

FeeType ==
  /\ feePerSigner \in Nat /\ balance \in Int
  /\ signings \in Seq([fee : Nat, current : Nat, incoming : Nat])
  /\ mapping \in [SigningIds -> Nat]

\* Open signings are signings of x/tss by a group, with a record here.
OpenInv ==
  \A s \in SigningIds : mapping[s] # 0 =>
    mapping[s] <= Len(signings) /\ s <= tssCount /\ signingGroup[s] # 0

FeeInv == FeeType /\ OpenInv /\ NoPanic

\* Fees are products of naturals.
LEMMA Product == \A a, b \in Nat : a * b \in Nat /\ a * b = b * a
  OBVIOUS

\* A signing of x/tss that x/bandtss still waits for belongs to a stored bandtss signing.
LEMMA OpenHasRecord ==
  ASSUME FeeType, OpenInv, NEW s \in SigningIds, mapping[s] # 0
  PROVE  mapping[s] \in 1..Len(signings)
<1>1. Len(signings) \in Nat
  BY DEF FeeType
<1>2. mapping[s] \in Nat
  BY ZenonT(60) DEF FeeType
<1>3. mapping[s] <= Len(signings)
  BY Zenon DEF OpenInv
<1>4. QED
  BY <1>1, <1>2, <1>3

\* What is owed is never negative.
LEMMA OwedNat ==
  ASSUME BandInv, FeeType, OpenInv, NEW s \in SigningIds
  PROVE  Owed[s] \in Nat
<1>1. CASE mapping[s] = 0
  BY <1>1, ZenonT(60) DEF Owed
<1>2. CASE mapping[s] # 0
  <2>1. signingGroup[s] \in GroupIds
    BY <1>2, Zenon DEF OpenInv, BandInv, BandType
  <2>2. Threshold[signingGroup[s]] \in Nat
    BY <2>1, GroupsAssumption, ZenonT(60)
  <2>3. mapping[s] \in 1..Len(signings)
    BY <1>2, OpenHasRecord, Zenon
  <2>4. signings[mapping[s]].fee \in Nat
    <3>1. PICK i \in 1..Len(signings) : i = mapping[s]
      BY <2>3, Zenon
    <3>2. PICK R : R = [fee : Nat, current : Nat, incoming : Nat]
      BY Zenon
    <3>3. signings \in Seq(R)
      BY <3>2, Zenon DEF FeeType
    <3>4. signings[i] \in R
      BY <3>1, <3>3
    <3>5. signings[i].fee \in Nat
      BY <3>2, <3>4, ZenonT(60)
    <3>6. QED
      BY <3>1, <3>5, Zenon
  <2>5. Threshold[signingGroup[s]] * signings[mapping[s]].fee \in Nat
    BY <2>2, <2>4, Product, Zenon
  <2>6. Earned(s) \in Nat
    <3>1. CASE EarnsFee(s)
      BY <2>5, <3>1, Zenon DEF Earned
    <3>2. CASE ~EarnsFee(s)
      BY <3>2, ZenonT(60) DEF Earned
    <3>3. QED
      BY <3>1, <3>2, Zenon
  <2>7. QED
    BY <1>2, <2>6, Zenon DEF Owed
<1>3. QED
  BY <1>1, <1>2, Zenon

\* What is owed for a signing that stays open as it is.
LEMMA OwedKept ==
  ASSUME FeeType, OpenInv, NEW s \in SigningIds, SigningsKeep, mapping'[s] = mapping[s],
         \A i \in 1..Len(signings) : signings'[i] = signings[i]
  PROVE  Owed'[s] = Owed[s]
<1>1. CASE mapping[s] = 0
  BY <1>1, Zenon DEF Owed
<1>2. CASE mapping[s] # 0
  <2>1. signingGroup'[s] = signingGroup[s]
    BY <1>2, Zenon DEF OpenInv, SigningsKeep
  <2>2. mapping[s] \in 1..Len(signings)
    BY <1>2, OpenHasRecord, Zenon
  <2>3. signings'[mapping'[s]] = signings[mapping[s]]
    <3>1. PICK i \in 1..Len(signings) : i = mapping[s]
      BY <2>2, Zenon
    <3>2. signings'[i] = signings[i]
      BY <3>1, Zenon
    <3>3. QED
      BY <3>1, <3>2, Zenon
  <2>4. QED
    BY <2>1, <2>3, Zenon DEF Owed, Earned, EarnsFee
<1>3. QED
  BY <1>1, <1>2, Zenon

\* Steps that open and close no signing and move no coin.
LEMMA QuietFeeInv ==
  ASSUME BandInv, FeeInv, SigningsKeep, UNCHANGED <<signings, mapping, balance, panicked>>,
         feePerSigner' \in Nat
  PROVE  FeeInv'
<1>1. FeeType /\ OpenInv /\ NoPanic
  BY Zenon DEF FeeInv
<1>2. FeeType'
  BY <1>1, Zenon DEF FeeType
<1>3. OpenInv'
  <2>1. SUFFICES ASSUME NEW s \in SigningIds, mapping[s] # 0
                 PROVE  mapping[s] <= Len(signings) /\ s <= tssCount' /\ signingGroup'[s] # 0
    BY Zenon DEF OpenInv
  <2>2. mapping[s] <= Len(signings) /\ s <= tssCount /\ signingGroup[s] # 0
    BY <1>1, <2>1, Zenon DEF OpenInv
  <2>3. signingGroup'[s] = signingGroup[s] /\ tssCount <= tssCount' /\ tssCount' \in Nat
    BY <2>2, Zenon DEF SigningsKeep
  <2>4. s \in Nat /\ tssCount \in Nat
    BY ParamsAssumption, Zenon DEF BandInv, BandType
  <2>5. s <= tssCount'
    BY <2>2, <2>3, <2>4
  <2>6. QED
    BY <2>2, <2>3, <2>5, Zenon
<1>4. SumFunctionOnSet(Owed, SigningIds)' = SumFunctionOnSet(Owed, SigningIds)
  <2>1. PICK f, g : f = Owed /\ g = Owed'
    BY Zenon
  <2>2. \A s \in SigningIds : g[s] = f[s]
    BY <1>1, <2>1, OwedKept, Zenon
  <2>3. SumFunctionOnSet(g, SigningIds) = SumFunctionOnSet(f, SigningIds)
    BY <2>2, ParamsAssumption, SumSame, ZenonT(60)
  <2>4. QED
    BY <2>1, <2>3, Zenon
<1>5. NoPanic'
  BY <1>1, <1>4, Zenon DEF NoPanic
<1>6. QED
  BY <1>2, <1>3, <1>5, ZenonT(60) DEF FeeInv

\* A signing is closed: nothing is owed for it any more, and there was enough.
LEMMA CloseSigning ==
  ASSUME BandInv, FeeInv, NEW s \in SigningIds, SigningsKeep, mapping' = [mapping EXCEPT ![s] = 0],
         signings' = signings
  PROVE  /\ Owed[s] \in Nat
         /\ Owed[s] <= balance
         /\ SumFunctionOnSet(Owed, SigningIds)' = SumFunctionOnSet(Owed, SigningIds) - Owed[s]
         /\ SumFunctionOnSet(Owed, SigningIds) \in Nat
<1>1. FeeType /\ OpenInv /\ NoPanic
  BY Zenon DEF FeeInv
<1>2. PICK f, g : f = Owed /\ g = Owed'
  BY Zenon
<1>3. mapping'[s] = 0 /\ \A x \in SigningIds : x # s => mapping'[x] = mapping[x]
  BY <1>1, ZenonT(60) DEF FeeType
<1>4. \A x \in SigningIds : x # s => g[x] = f[x]
  BY <1>1, <1>2, <1>3, OwedKept, ZenonT(60)
<1>5. g[s] = 0
  BY <1>2, <1>3, Zenon DEF Owed
<1>6. \A x \in SigningIds : f[x] \in Nat
  BY <1>1, <1>2, OwedNat, ZenonT(60)
<1>7. \A x \in SigningIds : f[x] \in Int /\ g[x] \in Int /\ g[x] \in Nat
  BY <1>4, <1>5, <1>6
<1>8. SumFunctionOnSet(g, SigningIds) = SumFunctionOnSet(f, SigningIds) + (g[s] - f[s])
  BY <1>4, <1>7, ParamsAssumption, SumUpdate, ZenonT(60)
<1>9. SumFunctionOnSet(f, SigningIds) \in Nat
  BY <1>6, ParamsAssumption, SumNat, ZenonT(60)
<1>10. SumFunctionOnSet(g, SigningIds) \in Nat
  BY <1>7, ParamsAssumption, SumNat, ZenonT(60)
<1>11. SumFunctionOnSet(g, SigningIds) = SumFunctionOnSet(f, SigningIds) - f[s]
  BY <1>5, <1>6, <1>8, <1>9
<1>12. balance \in Int /\ balance >= SumFunctionOnSet(f, SigningIds)
  BY <1>1, <1>2, Zenon DEF FeeType, NoPanic
<1>13. f[s] \in Nat /\ f[s] <= balance
  BY <1>6, <1>9, <1>10, <1>11, <1>12, SMTT(30)
<1>14. SumFunctionOnSet(Owed, SigningIds)' = SumFunctionOnSet(g, SigningIds)
  BY <1>2, Zenon
<1>15. QED
  BY <1>2, <1>9, <1>11, <1>13, <1>14, ZenonT(60)

\* Deleting the mapping of a signing (the callbacks of x/tss do) leaves the other open ones as
\* they are.
LEMMA ClosedOpenInv ==
  ASSUME FeeInv, NEW s \in SigningIds, mapping' = [mapping EXCEPT ![s] = 0],
         UNCHANGED <<signings, tssCount, signingGroup, feePerSigner>>, balance' \in Int
  PROVE  FeeType' /\ OpenInv'
<1>1. FeeType /\ OpenInv
  BY Zenon DEF FeeInv
<1>2. 0 \in Nat
  BY ZenonT(60)
<1>3. mapping' \in [SigningIds -> Nat]
  BY <1>1, <1>2, Zenon DEF FeeType
<1>4. FeeType'
  BY <1>1, <1>3, Zenon DEF FeeType
<1>5. \A x \in SigningIds : mapping'[x] # 0 => mapping'[x] = mapping[x]
  BY <1>1, Zenon DEF FeeType
<1>6. OpenInv'
  BY <1>1, <1>5, Zenon DEF OpenInv
<1>7. QED
  BY <1>4, <1>6, Zenon

\* OnSigningCompleted pays from the module account, OnSigningFailed keeps the fee there.
LEMMA ClosedFeeInv ==
  ASSUME BandInv, FeeInv, NEW s \in SigningIds, SigningCompleted(s) \/ SigningFailed(s)
  PROVE  FeeInv'
<1>1. UNCHANGED <<signings, tssCount, signingGroup, feePerSigner>>
  BY Zenon DEF SigningCompleted, SigningFailed, TSS!Complete, TSS!Fail
<1>2. SigningsKeep
  BY <1>1 DEF SigningsKeep, BandInv, BandType, SigningCompleted, SigningFailed, TSS!Complete, TSS!Fail
<1>3. FeeType /\ OpenInv /\ NoPanic
  BY Zenon DEF FeeInv
<1>4. CASE mapping[s] = 0
  <2>1. UNCHANGED <<mapping, balance>>
    BY <1>4, Zenon DEF SigningCompleted, SigningFailed, OnSigningCompleted, OnSigningFailed
  <2>2. panicked' = panicked
    <3>1. CASE SigningFailed(s)
      BY <3>1, Zenon DEF SigningFailed
    <3>2. CASE SigningCompleted(s) /\ AwaitsSigning(s)
      <4>1. InTransition /\ transition.status # "WAITING_EXECUTION"
        BY <3>2, TransitionFacts, Zenon DEF AwaitsSigning, BandInv, Statuses
      <4>2. CanAddMembers(transition.incoming)
        BY <4>1, ReadyCanAdd, Zenon
      <4>3. QED
        BY <1>4, <3>2, <4>2, Zenon DEF SigningCompleted, OnSigningCompleted, AddMembersOrPanic
    <3>3. CASE SigningCompleted(s) /\ ~AwaitsSigning(s)
      BY <1>4, <3>3, Zenon DEF SigningCompleted, OnSigningCompleted
    <3>4. QED
      BY <3>1, <3>2, <3>3, Zenon
  <2>3. feePerSigner' \in Nat
    BY <1>1, <1>3, Zenon DEF FeeType
  <2>4. QED
    BY <1>1, <1>2, <2>1, <2>2, <2>3, QuietFeeInv, Zenon
<1>5. CASE mapping[s] # 0
  <2>1. mapping' = [mapping EXCEPT ![s] = 0]
    BY <1>5, Zenon DEF SigningCompleted, SigningFailed, OnSigningCompleted, OnSigningFailed
  <2>2. /\ Owed[s] \in Nat /\ Owed[s] <= balance
        /\ SumFunctionOnSet(Owed, SigningIds)' = SumFunctionOnSet(Owed, SigningIds) - Owed[s]
        /\ SumFunctionOnSet(Owed, SigningIds) \in Nat
    BY <1>1, <1>2, <2>1, CloseSigning, ZenonT(60)
  <2>3. Owed[s] = Earned(s)
    BY <1>5, Zenon DEF Owed
  <2>4. \/ balance' = balance - Owed[s] /\ panicked' = panicked
        \/ balance' = balance /\ panicked' = panicked
    BY <1>5, <2>2, <2>3, Zenon DEF SigningCompleted, SigningFailed, OnSigningCompleted
  <2>5. balance \in Int /\ balance >= SumFunctionOnSet(Owed, SigningIds)
    BY <1>3, Zenon DEF FeeType, NoPanic
  <2>6. /\ balance' \in Int /\ balance' >= SumFunctionOnSet(Owed, SigningIds)'
        /\ panicked' = panicked
    BY <2>2, <2>4, <2>5
  <2>7. FeeType' /\ OpenInv'
    BY <1>1, <2>1, <2>6, ClosedOpenInv, ZenonT(60)
  <2>8. NoPanic'
    BY <1>3, <2>6, Zenon DEF NoPanic
  <2>9. QED
    BY <2>7, <2>8, Zenon DEF FeeInv
<1>6. QED
  BY <1>4, <1>5, Zenon

\* OnGroupCreationCompleted adds members that are not there, and asks for a handover
\* nobody pays for.
LEMMA GroupCompletedFeeInv ==
  ASSUME BandInv, FeeInv, NEW g \in GroupIds, GroupCompleted(g)
  PROVE  FeeInv'
<1>1. /\ OnGroupCreationCompleted(g)
      /\ UNCHANGED <<currentGroup, signings, mapping, feePerSigner, balance>>
  BY Zenon DEF GroupCompleted
<1>2. panicked' = panicked
  <2>1. ASSUME AwaitsGroup(g) PROVE CanAddMembers(g)
    <3>1. InTransition /\ transition.status # "WAITING_EXECUTION" /\ transition.incoming = g
      BY <2>1, TransitionFacts, Zenon DEF AwaitsGroup, BandInv, Statuses
    <3>2. QED
      BY <3>1, ReadyCanAdd, Zenon
  <2>2. QED
    BY <1>1, <2>1, Zenon DEF OnGroupCreationCompleted, AddMembersOrPanic
<1>3. SigningsKeep
  <2>1. CASE UNCHANGED <<tssCount, signingOutcome, signingGroup>>
    BY <2>1 DEF SigningsKeep, BandInv, BandType
  <2>2. CASE AwaitsGroup(g) /\ transition.current # 0 /\ AcceptRequests(<<currentGroup>>)
    <3>1. InTransition
      BY <2>2, TransitionFacts, Zenon DEF AwaitsGroup, BandInv, Statuses
    <3>2. currentGroup \in GroupIds
      BY <2>2, <3>1, Zenon DEF BandInv, BandType, TransitionInv
    <3>3. <<currentGroup>> \in Seq(GroupIds)
      BY <3>2
    <3>4. QED
      BY <2>2, <3>3, AcceptKeeps, ZenonT(60)
  <2>3. QED
    BY <1>1, <2>1, <2>2, Zenon DEF OnGroupCreationCompleted, signingVars
<1>4. feePerSigner' \in Nat
  BY <1>1, Zenon DEF FeeInv, FeeType
<1>5. QED
  BY <1>1, <1>2, <1>3, <1>4, QuietFeeInv, ZenonT(60)

\* What createSigningRequest writes: record new and the signings of the groups gs.
Opens(gs, new, pay) ==
  /\ gs \in Seq(GroupIds) /\ AcceptRequests(gs)
  /\ new \in [fee : Nat, current : Nat, incoming : Nat]
  /\ new.current = IF currentGroup # 0 THEN tssCount + 1 ELSE 0
  /\ currentGroup # 0 => gs[1] = currentGroup /\ pay = Threshold[currentGroup] * new.fee
  /\ pay \in Nat /\ balance' = balance + pay
  /\ signings' = Append(signings, new)
  /\ mapping' = OpenMapping(Len(gs))
  /\ UNCHANGED <<feePerSigner, panicked>>

\* The fee a new signing will earn is exactly what was paid.
LEMMA OpenedOwed ==
  ASSUME BandInv, FeeInv, NEW gs, NEW new, NEW pay, Opens(gs, new, pay),
         NEW s \in SigningIds, s \in (tssCount + 1)..(tssCount + Len(gs))
  PROVE  /\ Owed[s] = 0 /\ Owed'[s] \in Nat
         /\ s = tssCount + 1 => Owed'[s] <= pay
         /\ s # tssCount + 1 => Owed'[s] = 0
         /\ mapping'[s] = Len(signings) + 1 /\ signingGroup'[s] \in GroupIds
<1>1. FeeType /\ OpenInv /\ tssCount \in Nat /\ Len(gs) \in Nat /\ Len(signings) \in Nat /\ s \in Nat
  <2>1. Len(signings) \in Nat
    BY DEF FeeInv, FeeType
  <2>2. Len(gs) \in Nat
    BY DEF Opens
  <2>3. QED
    BY <2>1, <2>2, ParamsAssumption, Zenon DEF FeeInv, BandInv, BandType
<1>2. mapping[s] = 0 /\ Owed[s] = 0
  <2>1. ~(s <= tssCount)
    BY <1>1
  <2>2. QED
    BY <1>1, <2>1, Zenon DEF OpenInv, Owed
<1>3. mapping'[s] = Len(signings) + 1 /\ signingGroup'[s] = gs[s - tssCount]
  BY Zenon DEF Opens, OpenMapping, AcceptRequests
<1>4. signingGroup'[s] \in GroupIds
  <2>1. s - tssCount \in 1..Len(gs)
    BY <1>1
  <2>2. gs[s - tssCount] \in GroupIds
    BY <2>1 DEF Opens
  <2>3. QED
    BY <1>3, <2>2, Zenon
<1>5. signings'[mapping'[s]] = new
  <2>1. PICK R : R = [fee : Nat, current : Nat, incoming : Nat]
    BY Zenon
  <2>2. signings \in Seq(R) /\ new \in R /\ signings' = Append(signings, new)
    BY <1>1, <2>1, Zenon DEF FeeType, Opens
  <2>3. signings'[Len(signings) + 1] = new
    BY <2>2
  <2>4. QED
    BY <1>3, <2>3, Zenon
<1>6. Owed'[s] = IF new.current = s THEN Threshold[signingGroup'[s]] * new.fee ELSE 0
  <2>1. mapping'[s] # 0
    BY <1>1, <1>3
  <2>2. QED
    BY <1>5, <2>1, Zenon DEF Owed, Earned, EarnsFee
<1>7. CASE s = tssCount + 1 /\ currentGroup # 0
  <2>1. s - tssCount = 1 /\ new.current = s
    BY <1>1, <1>7 DEF Opens
  <2>2. signingGroup'[s] = currentGroup
    BY <1>3, <1>7, <2>1, ZenonT(60) DEF Opens
  <2>3. Owed'[s] = pay /\ pay \in Nat
    BY <1>6, <1>7, <2>1, <2>2, ZenonT(60) DEF Opens
  <2>4. Owed'[s] <= pay
    BY <2>3
  <2>5. QED
    BY <1>2, <1>3, <1>4, <1>7, <2>3, <2>4, ZenonT(60)
<1>8. CASE ~(s = tssCount + 1 /\ currentGroup # 0)
  <2>1. new.current # s
    BY <1>1, <1>8 DEF Opens
  <2>2. Owed'[s] = 0 /\ pay \in Nat
    BY <1>6, <2>1, Zenon DEF Opens
  <2>3. Owed'[s] <= pay /\ Owed'[s] \in Nat
    BY <2>2
  <2>4. QED
    BY <1>2, <1>3, <1>4, <2>2, <2>3, ZenonT(60)
<1>9. QED
  BY <1>7, <1>8, Zenon

\* A request that opens one or two signings pays in what their callbacks may pay out.
LEMMA OpenedFeeInv ==
  ASSUME BandInv, FeeInv, NEW gs, NEW new, NEW pay, Opens(gs, new, pay)
  PROVE  FeeInv'
<1>1. FeeType /\ OpenInv /\ NoPanic
  BY Zenon DEF FeeInv
<1>2. PICK range : range = (tssCount + 1)..(tssCount + Len(gs))
  BY Zenon
<1>3. SigningsKeep /\ tssCount' = tssCount + Len(gs)
  BY AcceptKeeps, Zenon DEF Opens, AcceptRequests, TSS!Request
<1>4. /\ Len(signings) \in Nat /\ Len(signings') = Len(signings) + 1
      /\ \A i \in 1..Len(signings) : signings'[i] = signings[i]
      /\ signings' \in Seq([fee : Nat, current : Nat, incoming : Nat])
  <2>1. PICK R : R = [fee : Nat, current : Nat, incoming : Nat]
    BY Zenon
  <2>2. signings \in Seq(R) /\ new \in R /\ signings' = Append(signings, new)
    BY <1>1, <2>1, Zenon DEF FeeType, Opens
  <2>3. /\ Len(signings) \in Nat /\ Len(signings') = Len(signings) + 1
        /\ \A i \in 1..Len(signings) : signings'[i] = signings[i]
        /\ signings' \in Seq(R)
    BY <2>2
  <2>4. QED
    BY <2>1, <2>3, Zenon
<1>5. ASSUME NEW s \in SigningIds, s \in range
      PROVE  /\ Owed[s] = 0 /\ Owed'[s] \in Nat
             /\ s = tssCount + 1 => Owed'[s] <= pay
             /\ s # tssCount + 1 => Owed'[s] = 0
             /\ mapping'[s] = Len(signings) + 1 /\ signingGroup'[s] \in GroupIds
  BY <1>2, <1>5, OpenedOwed, Zenon
<1>6. ASSUME NEW s \in SigningIds, s \notin range
      PROVE  mapping'[s] = mapping[s] /\ Owed'[s] = Owed[s] /\ Owed[s] \in Nat
  <2>1. mapping'[s] = mapping[s]
    BY <1>2, <1>6, Zenon DEF Opens, OpenMapping
  <2>2. QED
    BY <1>1, <1>3, <1>4, <2>1, OwedKept, OwedNat, ZenonT(60)
<1>7. /\ balance \in Int /\ pay \in Nat /\ balance' = balance + pay
      /\ tssCount \in Nat /\ Len(gs) \in Nat /\ SigningIds \subseteq Nat
  <2>1. Len(gs) \in Nat
    BY DEF Opens
  <2>2. QED
    BY <1>1, <2>1, ParamsAssumption, ZenonT(60) DEF FeeType, Opens, BandInv, BandType
<1>8. FeeType'
  <2>1. balance' \in Int
    BY <1>7
  <2>2. ASSUME NEW s \in SigningIds PROVE mapping'[s] \in Nat
    <3>1. CASE s \in range
      BY <1>4, <1>5, <3>1
    <3>2. CASE s \notin range
      BY <1>1, <1>6, <3>2, Zenon DEF FeeType
    <3>3. QED
      BY <3>1, <3>2, Zenon
  <2>3. DOMAIN mapping' = SigningIds /\ mapping' = [s \in SigningIds |-> mapping'[s]]
    BY Zenon DEF Opens, OpenMapping
  <2>4. mapping' \in [SigningIds -> Nat]
    BY <2>2, <2>3, Zenon
  <2>5. feePerSigner' \in Nat
    BY <1>1, Zenon DEF FeeType, Opens
  <2>6. QED
    BY <1>4, <2>1, <2>4, <2>5, ZenonT(60) DEF FeeType
<1>9. OpenInv'
  <2>1. SUFFICES ASSUME NEW s \in SigningIds, mapping'[s] # 0
                 PROVE  mapping'[s] <= Len(signings') /\ s <= tssCount' /\ signingGroup'[s] # 0
    BY Zenon DEF OpenInv
  <2>2. CASE s \in range
    <3>1. mapping'[s] = Len(signings) + 1 /\ signingGroup'[s] # 0
      BY <1>5, <2>2, GroupsAssumption, Zenon
    <3>2. mapping'[s] <= Len(signings')
      BY <1>4, <3>1
    <3>3. s <= tssCount'
      BY <1>2, <1>3, <1>7, <2>2, SMTT(30)
    <3>4. QED
      BY <3>1, <3>2, <3>3, Zenon
  <2>3. CASE s \notin range
    <3>1. mapping'[s] = mapping[s] /\ mapping[s] <= Len(signings) /\ s <= tssCount /\ signingGroup[s] # 0
      BY <1>1, <1>6, <2>1, <2>3, ZenonT(60) DEF OpenInv
    <3>2. signingGroup'[s] = signingGroup[s]
      BY <1>3, <3>1, Zenon DEF SigningsKeep
    <3>3. mapping[s] \in Nat
      BY <1>1, ZenonT(60) DEF FeeType
    <3>4. mapping'[s] <= Len(signings')
      BY <1>4, <3>1, <3>3, SMTT(30)
    <3>5. s <= tssCount'
      BY <1>3, <1>7, <3>1, SMTT(30)
    <3>6. QED
      BY <3>1, <3>2, <3>4, <3>5, ZenonT(60)
  <2>4. QED
    BY <2>2, <2>3, Zenon
<1>10. PICK f, g : f = Owed /\ g = Owed'
  BY Zenon
<1>11. /\ \A s \in SigningIds : f[s] \in Int /\ g[s] \in Int
       /\ \A s \in SigningIds : s # tssCount + 1 => g[s] = f[s]
       /\ tssCount + 1 \in SigningIds => g[tssCount + 1] - f[tssCount + 1] <= pay
  <2>1. ASSUME NEW s \in SigningIds
        PROVE  /\ f[s] \in Nat /\ g[s] \in Nat
               /\ s # tssCount + 1 => g[s] = f[s]
               /\ s = tssCount + 1 => g[s] - f[s] <= pay
    <3>1. CASE s \in range
      <4>1. /\ f[s] = 0 /\ g[s] \in Nat /\ (s = tssCount + 1 => g[s] <= pay)
            /\ (s # tssCount + 1 => g[s] = 0)
        BY <1>5, <1>10, <3>1, ZenonT(60)
      <4>2. QED
        BY <1>7, <4>1
    <3>2. CASE s \notin range
      <4>1. g[s] = f[s] /\ f[s] \in Nat
        BY <1>6, <1>10, <3>2, ZenonT(60)
      <4>2. QED
        BY <1>7, <4>1, SMTT(30)
    <3>3. QED
      BY <3>1, <3>2, Zenon
  <2>2. QED
    BY <2>1
<1>12. SumFunctionOnSet(f, SigningIds) \in Int
  BY <1>11, ParamsAssumption, SumInt, ZenonT(60)
<1>13. SumFunctionOnSet(g, SigningIds) <= SumFunctionOnSet(f, SigningIds) + pay
  <2>1. CASE tssCount + 1 \in SigningIds
    <3>1. PICK x \in SigningIds : x = tssCount + 1
      BY <2>1, Zenon
    <3>2. \A s \in SigningIds : s # x => g[s] = f[s]
      BY <1>11, <3>1, Zenon
    <3>3. SumFunctionOnSet(g, SigningIds) = SumFunctionOnSet(f, SigningIds) + (g[x] - f[x])
      BY <1>11, <3>2, ParamsAssumption, SumUpdate, ZenonT(60)
    <3>4. g[x] - f[x] <= pay /\ g[x] \in Int /\ f[x] \in Int
      BY <1>11, <3>1, Zenon
    <3>5. QED
      BY <1>7, <1>12, <3>3, <3>4, SMTT(30)
  <2>2. CASE tssCount + 1 \notin SigningIds
    <3>1. \A s \in SigningIds : f[s] = g[s]
      BY <1>11, <2>2, ZenonT(60)
    <3>2. SumFunctionOnSet(f, SigningIds) = SumFunctionOnSet(g, SigningIds)
      BY <3>1, ParamsAssumption, SumSame, ZenonT(60)
    <3>3. QED
      BY <1>7, <1>12, <3>2, SMTT(30)
  <2>3. QED
    BY <2>1, <2>2, ZenonT(60)
<1>14. SumFunctionOnSet(g, SigningIds) \in Int
  BY <1>11, ParamsAssumption, SumInt, ZenonT(60)
<1>15. balance' >= SumFunctionOnSet(g, SigningIds)
  <2>1. balance >= SumFunctionOnSet(f, SigningIds)
    BY <1>1, <1>10, Zenon DEF NoPanic
  <2>2. QED
    BY <1>7, <1>12, <1>13, <1>14, <2>1, SMTT(30)
<1>16. NoPanic'
  <2>1. SumFunctionOnSet(Owed, SigningIds)' = SumFunctionOnSet(g, SigningIds)
    BY <1>10, Zenon
  <2>2. QED
    BY <1>1, <1>15, <2>1, Zenon DEF NoPanic, Opens
<1>17. QED
  BY <1>8, <1>9, <1>16, ZenonT(60) DEF FeeInv

\* RequestSignature, for the current group alone or with the incoming one, by the authority or not.
LEMMA RequestFeeInv ==
  ASSUME BandInv, FeeInv, NEW byAuthority \in BOOLEAN, NEW accepts \in BOOLEAN,
         RequestSignature(byAuthority, accepts)
  PROVE  FeeInv'
<1>1. PICK incoming : incoming = IF accepts THEN GetIncomingGroupID ELSE 0
  BY Zenon
<1>2. PICK charged : charged = (~byAuthority /\ currentGroup # 0)
  BY Zenon
<1>3. PICK gs : gs = (IF currentGroup # 0 THEN <<currentGroup>> ELSE << >>) \o
                     (IF incoming # 0 THEN <<incoming>> ELSE << >>)
  BY Zenon
<1>4. PICK new : new = [fee |-> IF charged THEN feePerSigner ELSE 0,
                        current |-> IF currentGroup # 0 THEN tssCount + 1 ELSE 0,
                        incoming |-> IF incoming # 0 THEN tssCount + Len(gs) ELSE 0]
  BY Zenon
<1>5. PICK pay : pay = IF charged THEN TotalFee(feePerSigner) ELSE 0
  BY Zenon
<1>6. /\ AcceptRequests(gs) /\ balance' = balance + pay /\ signings' = Append(signings, new)
      /\ mapping' = OpenMapping(Len(gs)) /\ UNCHANGED <<feePerSigner, panicked>>
  BY <1>1, <1>2, <1>3, <1>4, <1>5, ZenonT(60) DEF RequestSignature
<1>7. currentGroup \in GroupIds \cup {0} /\ incoming \in GroupIds \cup {0}
  BY <1>1, TransitionFacts, ZenonT(60) DEF BandInv, BandType, GetIncomingGroupID, Statuses
<1>8. /\ (IF currentGroup # 0 THEN <<currentGroup>> ELSE << >>) \in Seq(GroupIds)
      /\ (IF incoming # 0 THEN <<incoming>> ELSE << >>) \in Seq(GroupIds)
  BY <1>7
<1>9. gs \in Seq(GroupIds) /\ Len(gs) \in Nat
  BY <1>3, <1>8, SMTT(30)
<1>10. currentGroup # 0 => gs[1] = currentGroup
  <2>1. SUFFICES ASSUME currentGroup # 0 PROVE gs[1] = currentGroup
    BY Zenon
  <2>2. gs = <<currentGroup>> \o (IF incoming # 0 THEN <<incoming>> ELSE << >>)
    BY <1>3, <2>1, Zenon
  <2>3. <<currentGroup>> \in Seq(GroupIds) /\ currentGroup \in GroupIds
    BY <1>7, <2>1, SMTT(30)
  <2>4. QED
    BY <1>8, <2>2, <2>3, SMTT(30)
<1>11. feePerSigner \in Nat /\ tssCount \in Nat
  BY Zenon DEF FeeInv, FeeType, BandInv, BandType
<1>12. PICK fee \in Nat : fee = IF charged THEN feePerSigner ELSE 0
  BY <1>11, ZenonT(60)
<1>13. tssCount + 1 \in Nat /\ tssCount + Len(gs) \in Nat /\ 0 \in Nat
  BY <1>9, <1>11, SMTT(30)
<1>14. /\ new \in [fee : Nat, current : Nat, incoming : Nat] /\ new.fee = fee
       /\ new.current = IF currentGroup # 0 THEN tssCount + 1 ELSE 0
  BY <1>4, <1>12, <1>13, ZenonT(60)
<1>15. pay \in Nat /\ (currentGroup # 0 => pay = Threshold[currentGroup] * fee)
  <2>1. CASE currentGroup = 0
    BY <1>2, <1>5, <1>13, <2>1, ZenonT(60)
  <2>2. CASE currentGroup # 0
    <3>1. Threshold[currentGroup] \in Nat
      BY <1>7, <2>2, GroupsAssumption, ZenonT(60)
    <3>2. CASE charged
      <4>1. pay = feePerSigner * Threshold[currentGroup] /\ fee = feePerSigner
        BY <1>5, <1>12, <3>2, ZenonT(60) DEF TotalFee
      <4>2. QED
        BY <1>11, <3>1, <4>1, Product, ZenonT(60)
    <3>3. CASE ~charged
      <4>1. pay = 0 /\ fee = 0
        BY <1>5, <1>12, <3>3, ZenonT(60)
      <4>2. QED
        BY <3>1, <4>1
    <3>4. QED
      BY <3>2, <3>3, ZenonT(60)
  <2>3. QED
    BY <2>1, <2>2, Zenon
<1>16. Opens(gs, new, pay)
  BY <1>6, <1>9, <1>10, <1>14, <1>15, ZenonT(60) DEF Opens
<1>17. QED
  BY <1>16, OpenedFeeInv, Zenon

\* Every step of the module keeps the fees of the open signings covered.
LEMMA NextFeeInv == BandInv /\ FeeInv /\ [Next]_vars => FeeInv'
<1> SUFFICES ASSUME BandInv, FeeInv, [Next]_vars PROVE FeeInv'
  BY Zenon
<1>1. feePerSigner \in Nat
  BY Zenon DEF FeeInv, FeeType
<1>2. ASSUME UNCHANGED <<tssCount, signingOutcome, signingGroup>> PROVE SigningsKeep
  BY <1>2 DEF SigningsKeep, BandInv, BandType
<1>3. CASE /\ UNCHANGED <<tssCount, signingOutcome, signingGroup>>
           /\ UNCHANGED <<signings, mapping, balance, panicked, feePerSigner>>
  BY <1>1, <1>2, <1>3, QuietFeeInv, ZenonT(60)
<1>4. CASE EndBlock \/ TSSDone \/ UNCHANGED vars
  BY <1>3, <1>4, Zenon DEF EndBlock, TSSDone, vars, tssVars, bandVars
<1>5. ASSUME NEW fee \in FeeChoices, UpdateParams(fee) PROVE FeeInv'
  <2>1. /\ UNCHANGED <<tssCount, signingOutcome, signingGroup>>
        /\ UNCHANGED <<signings, mapping, balance, panicked>> /\ feePerSigner' = fee
    BY <1>5, Zenon DEF UpdateParams, tssVars
  <2>2. fee \in Nat
    BY ParamsAssumption, Zenon
  <2>3. QED
    BY <1>2, <2>1, <2>2, QuietFeeInv, ZenonT(60)
<1>6. ASSUME NEW p \in Pairs, Activate(p) PROVE FeeInv'
  BY <1>3, <1>6, Zenon DEF Activate, signingVars
<1>7. ASSUME NEW g \in GroupIds, NEW t \in 0..MaxTime, TransitionGroup(g, t) \/ ForceTransitionGroup(g, t)
      PROVE  FeeInv'
  BY <1>3, <1>7, ZenonT(60) DEF TransitionGroup, ForceTransitionGroup, signingVars, tssVars
<1>8. ASSUME NEW g \in GroupIds, NEW end \in {"failed", "expired"}, GroupEnded(g, end)
      PROVE  FeeInv'
  BY <1>3, <1>8, Zenon DEF GroupEnded, signingVars
<1>9. ASSUME NEW g \in GroupIds, MemberCaught(g) PROVE FeeInv'
  BY <1>3, <1>9, Zenon DEF MemberCaught, signingVars, bandVars
<1>10. ASSUME NEW s \in SigningIds, NEW idle, SigningTimeout(s, idle) PROVE FeeInv'
  BY <1>3, <1>10, Zenon DEF SigningTimeout, TSS!Timeout
<1>11. ASSUME NEW t \in 0..MaxTime, NextBlock(t) PROVE FeeInv'
  BY <1>3, <1>11, Zenon DEF NextBlock, tssVars
<1>12. QED
  BY ZenonT(60), <1>4, <1>5, <1>6, <1>7, <1>8, <1>9, <1>10, <1>11, GroupCompletedFeeInv, RequestFeeInv,
     ClosedFeeInv DEF Next

\* At first no signing is open and nothing is owed.
LEMMA InitFeeInv == Init => FeeInv
<1> SUFFICES ASSUME Init PROVE FeeInv
  BY Zenon
<1>1. /\ signings = << >> /\ mapping = [s \in SigningIds |-> 0] /\ feePerSigner \in FeeChoices
      /\ balance = 0 /\ panicked = FALSE
  BY Zenon DEF Init
<1>2. signings \in Seq([fee : Nat, current : Nat, incoming : Nat]) /\ 0 \in Nat /\ 0 \in Int
  BY <1>1
<1>3. FeeType
  BY <1>1, <1>2, ParamsAssumption, Zenon DEF FeeType
<1>4. OpenInv
  BY <1>1, Zenon DEF OpenInv
<1>5. SumFunctionOnSet(Owed, SigningIds) = 0
  <2>1. PICK f : f = Owed
    BY Zenon
  <2>2. \A s \in SigningIds : f[s] = 0
    BY <1>1, <2>1, Zenon DEF Owed
  <2>3. SumFunctionOnSet(f, SigningIds) = 0
    BY <2>2, ParamsAssumption, SumZero, ZenonT(60)
  <2>4. QED
    BY <2>1, <2>3, Zenon
<1>6. balance >= SumFunctionOnSet(Owed, SigningIds)
  BY <1>1, <1>5
<1>7. QED
  BY <1>1, <1>3, <1>4, <1>6, ZenonT(60) DEF FeeInv, NoPanic

\* No callback of x/tss panics: the module account holds the fee of every open signing at
\* the price of its day, for any number of signings and however governance changes the fee
\* and the groups, and no member is added twice (createSigningRequest, OnSigningCompleted,
\* OnGroupCreationCompleted).
THEOREM NeverPanics == Spec => []NoPanic
<1>1. FeeInv => NoPanic
  BY Zenon DEF FeeInv
<1>2. QED
  BY <1>1, InitBandInv, NextBandInv, InitFeeInv, NextFeeInv, PTL DEF Spec
=============================================================================
