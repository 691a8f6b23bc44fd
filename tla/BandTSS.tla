------------------------------- MODULE BandTSS -------------------------------
(***************************************************************************)
(* x/bandtss: the module that owns the threshold-signature groups of the   *)
(* chain.  It keeps one current group, hands its duty over to an incoming  *)
(* group (the group transition), sells signatures of the current group for *)
(* a fee and punishes members that let a signing time out.                 *)
(*                                                                         *)
(* x/tss is seen through what it promises its owner: GroupLifecycle for    *)
(* the creation of groups and SigningLifecycle for signings.  Every        *)
(* callback of x/tss (tss_callback.go) is one step with the x/tss step     *)
(* that makes it.  A block is: transactions (phase "tx"), the EndBlocker   *)
(* of x/tss with its callbacks (phase "tss"), the EndBlocker of x/bandtss  *)
(* (phase "bandtss"), which also moves the clock on to the next block.     *)
(***************************************************************************)
EXTENDS Integers, Sequences, FiniteSets, Functions

CONSTANTS
  Accounts,
  GroupIds,                \* 1 .. the number of groups ever created
  SigningIds,              \* 1 .. the number of x/tss signings ever requested
  GroupMembers,            \* GroupMembers[g]: the accounts of group g
  Threshold,               \* Threshold[g]: signers assigned to a signing of g
  FeeChoices,              \* values governance gives to Params.FeePerSigner
  MinTransitionDuration, MaxTransitionDuration, InactivePenaltyDuration,
  MaxBlockGap,             \* greatest distance between two block times
  MaxTimeouts,             \* timed-out attempts of a signing
  MaxTime                  \* block times considered

ASSUME GroupsAssumption ==
  /\ GroupIds \subseteq Nat \ {0} /\ 1 \in GroupIds
  /\ GroupMembers \in [GroupIds -> SUBSET Accounts]
  /\ Threshold \in [GroupIds -> Nat \ {0}]
ASSUME ParamsAssumption ==
  /\ FeeChoices \subseteq Nat
  /\ SigningIds \subseteq Nat \ {0} /\ IsFiniteSet(SigningIds)
  /\ {MinTransitionDuration, MaxTransitionDuration, InactivePenaltyDuration,
      MaxBlockGap, MaxTimeouts, MaxTime} \subseteq Nat
  /\ MinTransitionDuration > 0 /\ MaxBlockGap > 0

VARIABLES
  \* x/tss
  groupOutcome, caught,          \* see GroupLifecycle
  tssCount, signingOutcome,      \* see SigningLifecycle
  timeouts,                      \* timeouts[s]: attempts of s that timed out
  signingGroup,                  \* signingGroup[s]: the group that signs s, or 0
  tssInactive,                   \* members x/tss does not assign to signings
  \* x/bandtss
  currentGroup,                  \* CurrentGroup.GroupID, 0 when there is none
  transition,                    \* GroupTransition, NoTransition when there is none
  members,                       \* members[<<g, a>>]: bandtss Member a of group g
  signings,                      \* bandtss Signings, in the order of their IDs
  mapping,                       \* mapping[s]: the bandtss signing of s, or 0
  feePerSigner,                  \* Params.FeePerSigner
  balance,                       \* coins of the module account
  panicked,                      \* TRUE once a callback panicked
  time, phase                    \* block time and position in the block

tssVars == <<groupOutcome, caught, tssCount, signingOutcome, timeouts,
             signingGroup, tssInactive>>
vars == <<tssVars, currentGroup, transition, members, signings, mapping,
          feePerSigner, balance, panicked, time, phase>>

Pairs == UNION {{g} \X GroupMembers[g] : g \in GroupIds}
PairsOf(g) == {g} \X GroupMembers[g]

Member == [isActive : BOOLEAN, since : 0..MaxTime]
BandSigning == [fee : FeeChoices \cup {0}, current : SigningIds \cup {0},
                incoming : SigningIds \cup {0}]
Statuses == {"CREATING_GROUP", "WAITING_SIGN", "WAITING_EXECUTION"}
Transition == [status : Statuses, signingID : SigningIds \cup {0},
               current : GroupIds \cup {0}, incoming : GroupIds,
               execTime : 0..MaxTime, force : BOOLEAN]
NoTransition == [status |-> "NONE"]

(***************************************************************************)
(* x/tss through its promises.  The callbacks received so far follow from  *)
(* the outcomes and from the number of timeouts.                           *)
(***************************************************************************)
GroupNotified ==
  [g \in GroupIds |-> IF groupOutcome[g] \in {"completed", "failed", "expired"}
                      THEN <<groupOutcome[g]>> ELSE << >>]
SigningNotified ==
  [s \in SigningIds |->
     [i \in 1..timeouts[s] |-> "timeout"] \o
     (CASE signingOutcome[s] = "success" -> <<"completed">>
        [] signingOutcome[s] = "fallen" -> <<"failed">>
        [] OTHER -> << >>)]

Group == INSTANCE GroupLifecycle WITH outcome <- groupOutcome, notified <- GroupNotified
TSS == INSTANCE SigningLifecycle
         WITH signingCount <- tssCount, outcome <- signingOutcome,
              notified <- SigningNotified

\* Groups x/tss may accept a RequestSigning for (the DE queues decide the rest).
CanSign(g) ==
  /\ groupOutcome[g] = "completed"
  /\ Cardinality(PairsOf(g) \ tssInactive) >= Threshold[g]

\* x/tss accepts one signing request for each group of the sequence gs.
AcceptRequests(gs) ==
  /\ \A i \in DOMAIN gs : CanSign(gs[i])
  /\ UNCHANGED timeouts
  /\ TSS!Request(Len(gs))
  /\ signingGroup' = [s \in SigningIds |->
                        IF s \in (tssCount + 1)..(tssCount + Len(gs))
                        THEN gs[s - tssCount] ELSE signingGroup[s]]

groupVars == <<groupOutcome, caught>>
signingVars == <<tssCount, signingOutcome, timeouts, signingGroup>>
bandVars == <<currentGroup, transition, members, signings, mapping,
              feePerSigner, balance, panicked>>

(***************************************************************************)
(* Members of the groups on duty.                                          *)
(***************************************************************************)
NewMember == [isActive |-> TRUE, since |-> time]
CanAddMembers(g) == PairsOf(g) \cap DOMAIN members = {}
AddMembers(g) ==
  members' = [p \in DOMAIN members \cup PairsOf(g) |->
                IF p \in PairsOf(g) THEN NewMember ELSE members[p]]

DeleteMembers(g) ==
  members' = [p \in DOMAIN members \ PairsOf(g) |-> members[p]]

\* A mutant of DeactivateMembers: x/tss is not told.
DeactivateMembers_Local(idle) ==
  /\ members' = [p \in DOMAIN members |->
                   IF p \in idle /\ members[p].isActive
                   THEN [isActive |-> FALSE, since |-> time] ELSE members[p]]
  /\ UNCHANGED tssInactive
DeactivateMembers(idle) ==
  LET down == {p \in idle \cap DOMAIN members : members[p].isActive}
  IN  /\ members' = [p \in DOMAIN members |->
                       IF p \in down THEN [isActive |-> FALSE, since |-> time]
                                     ELSE members[p]]
      /\ tssInactive' = tssInactive \cup down

PenaltyElapsed(p) == members[p].since + InactivePenaltyDuration <= time

\* MsgActivate: a member punished for a timeout comes back.
Activate(p) ==
  /\ phase = "tx"
  /\ p \in DOMAIN members
  /\ ~members[p].isActive
  /\ PenaltyElapsed(p)
  /\ members' = [members EXCEPT ![p] = NewMember]
  /\ tssInactive' = tssInactive \ {p}
  /\ UNCHANGED <<groupVars, signingVars, currentGroup, transition, signings,
                 mapping, feePerSigner, balance, panicked, time, phase>>

(***************************************************************************)
(* The group transition.                                                   *)
(***************************************************************************)
ValidExecTime(t) == t - time \in MinTransitionDuration..MaxTransitionDuration

NoTransitionInProgress == transition = NoTransition

GetIncomingGroupID ==
  IF transition.status = "WAITING_EXECUTION" THEN transition.incoming ELSE 0

NewTransition(incoming, execTime, isForce) ==
  [status |-> IF isForce THEN "WAITING_EXECUTION" ELSE "CREATING_GROUP",
   signingID |-> 0, current |-> currentGroup, incoming |-> incoming,
   execTime |-> execTime, force |-> isForce]

\* MsgTransitionGroup, by governance: a new group is created to take over.
TransitionGroup(g, execTime) ==
  /\ phase = "tx"
  /\ g - 1 \in {0} \cup {h \in GroupIds : groupOutcome[h] # "none"}
  /\ ValidExecTime(execTime)
  /\ NoTransitionInProgress
  /\ Group!Create(g)
  /\ transition' = NewTransition(g, execTime, FALSE)
  /\ UNCHANGED <<signingVars, tssInactive, currentGroup, members, signings,
                 mapping, feePerSigner, balance, panicked, time, phase>>

\* The incoming group must be active and another one than the current group.
ForceTarget(g) == g # currentGroup /\ groupOutcome[g] = "completed"

\* MsgForceTransitionGroup, by governance: an active group takes over without
\* a signature of the current group.
ForceTransitionGroup(g, execTime) ==
  /\ phase = "tx"
  /\ ValidExecTime(execTime)
  /\ NoTransitionInProgress
  /\ ForceTarget(g)
  /\ CanAddMembers(g)
  /\ AddMembers(g)
  /\ transition' = NewTransition(g, execTime, TRUE)
  /\ UNCHANGED <<tssVars, currentGroup, signings, mapping, feePerSigner,
                 balance, panicked, time, phase>>

\* A callback adds the members of g and panics when one is already there.
AddMembersOrPanic(g) ==
  IF CanAddMembers(g) THEN AddMembers(g) /\ UNCHANGED panicked
                      ELSE panicked' = TRUE /\ UNCHANGED members

\* A mutant of AwaitsGroup: a group nobody waits for any more is adopted.
AwaitsGroup_Orphan(g) == transition.status = "CREATING_GROUP"
AwaitsGroup(g) ==
  /\ transition.status = "CREATING_GROUP"
  /\ transition.incoming = g

\* OnGroupCreationCompleted: without a current group the incoming group is
\* ready at once; otherwise the current group is asked to sign the handover,
\* and the transition ends when x/tss refuses the request.
OnGroupCreationCompleted(g) ==
  IF ~AwaitsGroup(g) \/ transition.execTime < time
  THEN UNCHANGED <<signingVars, transition, members, panicked>>
  ELSE IF transition.current = 0
  THEN /\ AddMembersOrPanic(g)
       /\ transition' = [transition EXCEPT !.status = "WAITING_EXECUTION"]
       /\ UNCHANGED signingVars
  ELSE /\ \/ /\ AcceptRequests(<<currentGroup>>)
             /\ transition' = [transition EXCEPT !.status = "WAITING_SIGN",
                                                 !.signingID = tssCount + 1]
          \/ /\ transition' = NoTransition
             /\ UNCHANGED signingVars
       /\ UNCHANGED <<members, panicked>>

\* OnGroupCreationFailed and OnGroupCreationExpired.
OnGroupCreationEnded(g) ==
  transition' = IF AwaitsGroup(g) THEN NoTransition ELSE transition

MemberCaught(g) ==
  /\ phase = "tx"
  /\ Group!Catch(g)
  /\ UNCHANGED <<signingVars, tssInactive, bandVars, time, phase>>

GroupCompleted(g) ==
  /\ phase = "tss"
  /\ Group!Finish(g, "completed")
  /\ OnGroupCreationCompleted(g)
  /\ UNCHANGED <<tssInactive, currentGroup, signings, mapping, feePerSigner,
                 balance, time, phase>>

GroupEnded(g, end) ==
  /\ phase = "tss"
  /\ Group!Finish(g, end)
  /\ OnGroupCreationEnded(g)
  /\ UNCHANGED <<signingVars, tssInactive, currentGroup, members, signings,
                 mapping, feePerSigner, balance, panicked, time, phase>>

(***************************************************************************)
(* Signatures for a fee.                                                   *)
(***************************************************************************)
TotalFee(fee) == fee * Threshold[currentGroup]

OpenMapping(n) ==
  [s \in SigningIds |-> IF s \in (tssCount + 1)..(tssCount + n)
                        THEN Len(signings) + 1 ELSE mapping[s]]

\* createSigningRequest, from MsgRequestSignature, x/oracle or x/tunnel.  The
\* current group must accept the request, the incoming one may refuse it; the
\* governance account and requests without a current group are free.
RequestSignature(byAuthority, incomingAccepts) ==
  LET incoming == IF incomingAccepts THEN GetIncomingGroupID ELSE 0
      asked == (IF currentGroup # 0 THEN <<currentGroup>> ELSE << >>) \o
               (IF incoming # 0 THEN <<incoming>> ELSE << >>)
      charged == ~byAuthority /\ currentGroup # 0
  IN  /\ phase = "tx"
      /\ asked # << >>
      /\ AcceptRequests(asked)
      /\ balance' = balance + (IF charged THEN TotalFee(feePerSigner) ELSE 0)
      /\ signings' = Append(signings,
           [fee |-> IF charged THEN feePerSigner ELSE 0,
            current |-> IF currentGroup # 0 THEN tssCount + 1 ELSE 0,
            incoming |-> IF incoming # 0 THEN tssCount + Len(asked) ELSE 0])
      /\ mapping' = OpenMapping(Len(asked))
      /\ UNCHANGED <<groupVars, tssInactive, currentGroup, transition, members,
                     feePerSigner, panicked, time, phase>>

\* Only the signing of the current group earns the fee.
EarnsFee(s) == signings[mapping[s]].current = s

\* A mutant of Earned: the members are paid the fee of today's parameters.
Earned_Today(s) == Threshold[signingGroup[s]] * feePerSigner
\* What the members assigned to s are paid in total.
Earned(s) ==
  IF EarnsFee(s) THEN Threshold[signingGroup[s]] * signings[mapping[s]].fee ELSE 0

\* A mutant of AwaitsSigning: any signing outside the mapping confirms.
AwaitsSigning_Any(s) == transition.status = "WAITING_SIGN"
AwaitsSigning(s) ==
  /\ transition.status = "WAITING_SIGN"
  /\ transition.signingID = s

OnSigningCompleted(s) ==
  IF mapping[s] # 0
  THEN /\ mapping' = [mapping EXCEPT ![s] = 0]
       /\ IF Earned(s) <= balance
          THEN balance' = balance - Earned(s) /\ UNCHANGED panicked
          ELSE panicked' = TRUE /\ UNCHANGED balance
       /\ UNCHANGED <<transition, members>>
  ELSE /\ IF AwaitsSigning(s)
          THEN /\ AddMembersOrPanic(transition.incoming)
               /\ transition' = [transition EXCEPT !.status = "WAITING_EXECUTION"]
          ELSE UNCHANGED <<transition, members, panicked>>
       /\ UNCHANGED <<mapping, balance>>

OnSigningFailed(s) ==
  IF mapping[s] # 0
  THEN mapping' = [mapping EXCEPT ![s] = 0] /\ UNCHANGED transition
  ELSE /\ transition' = IF AwaitsSigning(s) THEN NoTransition ELSE transition
       /\ UNCHANGED mapping

SigningCompleted(s) ==
  /\ phase = "tss"
  /\ UNCHANGED timeouts
  /\ TSS!Complete(s)
  /\ OnSigningCompleted(s)
  /\ UNCHANGED <<groupVars, signingGroup, tssInactive, currentGroup,
                 signings, feePerSigner, time, phase>>

SigningFailed(s) ==
  /\ phase = "tss"
  /\ UNCHANGED timeouts
  /\ TSS!Fail(s)
  /\ OnSigningFailed(s)
  /\ UNCHANGED <<groupVars, signingGroup, tssInactive, currentGroup,
                 members, signings, feePerSigner, balance, panicked, time, phase>>

\* OnSigningTimeout: the idle members, some of those assigned to the attempt,
\* are put out of duty where bandtss still knows them.
SigningTimeout(s, idle) ==
  /\ phase = "tss"
  /\ timeouts[s] < MaxTimeouts
  /\ idle \in SUBSET PairsOf(signingGroup[s]) \ {{}}
  /\ Cardinality(idle) <= Threshold[signingGroup[s]]
  /\ timeouts' = [timeouts EXCEPT ![s] = @ + 1]
  /\ TSS!Timeout(s)
  /\ DeactivateMembers(idle)
  /\ UNCHANGED <<groupVars, signingGroup, currentGroup, transition, signings,
                 mapping, feePerSigner, balance, panicked, time, phase>>

(***************************************************************************)
(* Parameters and blocks.                                                  *)
(***************************************************************************)
UpdateParams(fee) ==
  /\ phase = "tx"
  /\ feePerSigner' = fee
  /\ UNCHANGED <<tssVars, currentGroup, transition, members, signings, mapping,
                 balance, panicked, time, phase>>

EndBlock ==
  /\ phase = "tx"
  /\ phase' = "tss"
  /\ UNCHANGED <<tssVars, bandVars, time>>

TSSDone ==
  /\ phase = "tss"
  /\ phase' = "bandtss"
  /\ UNCHANGED <<tssVars, bandVars, time>>

\* A mutant of ShouldExecuteGroupTransition: a transition still waiting for its
\* group or its signature is left alone.
ShouldExecuteGroupTransition_Ready ==
  transition.status = "WAITING_EXECUTION" /\ transition.execTime <= time
ShouldExecuteGroupTransition ==
  transition # NoTransition /\ transition.execTime <= time

ReadyToExecute == transition.status = "WAITING_EXECUTION"

ExecuteGroupTransition ==
  /\ transition' = NoTransition
  /\ IF ReadyToExecute
     THEN /\ IF transition.current # 0 THEN DeleteMembers(transition.current)
                                       ELSE UNCHANGED members
          /\ currentGroup' = transition.incoming
     ELSE UNCHANGED <<members, currentGroup>>

NextBlock(t) ==
  /\ phase = "bandtss"
  /\ IF time = MaxTime THEN t = time
                       ELSE t - time \in 1..MaxBlockGap /\ t <= MaxTime
  /\ IF ShouldExecuteGroupTransition THEN ExecuteGroupTransition
                                     ELSE UNCHANGED <<transition, members, currentGroup>>
  /\ time' = t
  /\ phase' = "tx"
  /\ UNCHANGED <<tssVars, signings, mapping, feePerSigner, balance, panicked>>

\* The chain starts without a group, or from an export with group 1 on duty.
Genesis(g) ==
  /\ groupOutcome = [h \in GroupIds |-> IF h = g THEN "completed" ELSE "none"]
  /\ currentGroup = g
  /\ members = [p \in IF g = 0 THEN {} ELSE PairsOf(g) |->
                  [isActive |-> TRUE, since |-> 0]]

Init ==
  /\ \E g \in {0, 1} : Genesis(g)
  /\ caught = [g \in GroupIds |-> FALSE]
  /\ tssCount = 0
  /\ signingOutcome = [s \in SigningIds |-> "none"]
  /\ timeouts = [s \in SigningIds |-> 0]
  /\ signingGroup = [s \in SigningIds |-> 0]
  /\ tssInactive = {}
  /\ transition = NoTransition
  /\ signings = << >>
  /\ mapping = [s \in SigningIds |-> 0]
  /\ feePerSigner \in FeeChoices
  /\ balance = 0
  /\ panicked = FALSE
  /\ time = 0
  /\ phase = "tx"

Next ==
  \/ \E p \in Pairs : Activate(p)
  \/ \E g \in GroupIds, t \in 0..MaxTime : TransitionGroup(g, t)
  \/ \E g \in GroupIds, t \in 0..MaxTime : ForceTransitionGroup(g, t)
  \/ \E g \in GroupIds : MemberCaught(g)
  \/ \E g \in GroupIds : GroupCompleted(g)
  \/ \E g \in GroupIds, end \in {"failed", "expired"} : GroupEnded(g, end)
  \/ \E byAuthority, incomingAccepts \in BOOLEAN :
       RequestSignature(byAuthority, incomingAccepts)
  \/ \E s \in SigningIds : SigningCompleted(s)
  \/ \E s \in SigningIds : SigningFailed(s)
  \/ \E s \in SigningIds :
       signingGroup[s] # 0 /\ \E idle \in SUBSET PairsOf(signingGroup[s]) :
                                SigningTimeout(s, idle)
  \/ \E fee \in FeeChoices : UpdateParams(fee)
  \/ EndBlock
  \/ TSSDone
  \/ \E t \in 0..MaxTime : NextBlock(t)

Spec == Init /\ [][Next]_vars

\* Blocks keep coming: consensus produces them and a block runs to its end.
Fairness ==
  /\ WF_vars(EndBlock)
  /\ WF_vars(TSSDone)
  /\ WF_vars(\E t \in 0..MaxTime : NextBlock(t))

FairSpec == Spec /\ Fairness

(***************************************************************************)
(* Properties.                                                             *)
(***************************************************************************)
\* The state is well typed.
TypeOK ==
  /\ groupOutcome \in [GroupIds -> {"none", "creating", "completed", "failed", "expired"}]
  /\ caught \in [GroupIds -> BOOLEAN]
  /\ tssCount \in Nat
  /\ signingOutcome \in [SigningIds -> {"none", "waiting", "success", "fallen"}]
  /\ timeouts \in [SigningIds -> 0..MaxTimeouts]
  /\ signingGroup \in [SigningIds -> GroupIds \cup {0}]
  /\ tssInactive \subseteq Pairs
  /\ currentGroup \in GroupIds \cup {0}
  /\ transition \in Transition \cup {NoTransition}
  /\ DOMAIN members \subseteq Pairs /\ members \in [DOMAIN members -> Member]
  /\ signings \in Seq(BandSigning)
  /\ mapping \in [SigningIds -> 0..Len(signings)]
  /\ feePerSigner \in FeeChoices
  /\ balance \in Nat
  /\ panicked \in BOOLEAN
  /\ time \in 0..MaxTime
  /\ phase \in {"tx", "tss", "bandtss"}

\* The bandtss members are exactly those of the current group and of the group
\* that is ready to take over, through every transition, abandoned or executed;
\* and such a group finished its key generation with nobody caught cheating
\* (AddMembers, DeleteMembers, ForceTransitionGroup, OnGroupCreationCompleted).
DutyIsSound ==
  LET onDuty == {currentGroup, GetIncomingGroupID} \ {0}
  IN  /\ DOMAIN members = UNION {PairsOf(g) : g \in onDuty}
      /\ \A g \in onDuty : groupOutcome[g] = "completed" /\ ~caught[g]

\* What the module account owes for signing s while it is open.
Owed == [s \in SigningIds |-> IF mapping[s] # 0 THEN Earned(s) ELSE 0]

\* No callback of x/tss panics in the EndBlocker, which would stop the chain
\* (OnGroupCreationCompleted, OnSigningCompleted): no member is added twice, and
\* the module account holds the fee of every signing still open, at the price of
\* the day it was requested, whatever governance and transitions changed since.
NoPanic ==
  /\ ~panicked
  /\ balance >= SumFunctionOnSet(Owed, SigningIds)

\* A member bandtss has put out of duty is never assigned to a signing by x/tss
\* either (DeactivateMember).
IdleInBoth ==
  \A p \in DOMAIN members : ~members[p].isActive => p \in tssInactive

\* The current group is replaced only by a forced transition or after it signed
\* the handover itself (OnSigningCompleted, ExecuteGroupTransition).
HandoverIsSigned ==
  [][currentGroup' # currentGroup /\ currentGroup # 0 =>
       \/ transition.force
       \/ /\ transition.signingID # 0
          /\ signingGroup[transition.signingID] = currentGroup
          /\ signingOutcome[transition.signingID] = "success"]_vars

\* Every transition ends, however its group creation and its signing go.
EveryTransitionEnds == (transition # NoTransition) ~> (transition = NoTransition)

\* "If members are deactivated [...] they must send MsgActivate to rejoin the
\* system" (x/bandtss/README.md): a member x/tss does not assign is inactive in
\* bandtss too, so that MsgActivate can bring the member back.
IdleCanRejoin ==
  \A p \in DOMAIN members : p \in tssInactive => ~members[p].isActive
=============================================================================
