------------------------------ MODULE TSSGroup ------------------------------
(***************************************************************************)
(* Creation of a threshold-signature group in x/tss: the three rounds of   *)
(* distributed key generation (DKG), driven by the messages of msg_server  *)
(* and by the EndBlocker.                                                  *)
(*                                                                         *)
(* A transaction is one step.  The EndBlocker is a run of steps that no    *)
(* transaction can interleave with: one step per iteration of its two      *)
(* loops (HandleProcessGroup, HandleExpiredGroups), ordered by `phase`.    *)
(*                                                                         *)
(* Cryptography is abstracted to what the chain's verifications tell       *)
(* apart: a commit is its author, a sum of commits counts how often each   *)
(* author was added, and an encrypted share is consistent with its         *)
(* dealer's commits or is not.  Honest members run cylinder; the others    *)
(* send any message that the chain accepts.                                *)
(***************************************************************************)
EXTENDS Naturals, Sequences, FiniteSets

CONSTANTS
  MaxGroups,        \* bound: number of groups ever created
  MaxGroupSize,     \* parameter MaxGroupSize
  Periods,          \* the values governance may give CreationPeriod
  MaxHeight,        \* bound: the height stops growing there
  Honest            \* member IDs whose owners run cylinder

GroupIds == 1..MaxGroups
MemberIds == 1..MaxGroupSize

ASSUME MaxGroupsAssumption == MaxGroups \in Nat
ASSUME MaxGroupSizeAssumption == MaxGroupSize \in Nat \ {0}
ASSUME PeriodsAssumption == Periods \subseteq Nat \ {0} /\ Periods # {}
ASSUME MaxHeightAssumption == MaxHeight \in Nat \ {0}
ASSUME HonestAssumption == Honest \subseteq MemberIds

VARIABLES
  (* the block being executed *)
  height, phase,
  (* keeper-wide values *)
  creationPeriod, groupCount, lastExpiredGroupID, pendingProcessGroups,
  (* the Group record and the Member records of each group *)
  status, size, createdHeight, groupPubKey, memberPubKey, malicious,
  (* interim DKG data of each group *)
  dkgContext, accCommits, round1Infos, round1Count, round2Infos, round2Count,
  badShares, confirms, complaints, confirmComplainCount,
  (* the callbacks the owner module has received for each group *)
  callbacks

blockVars == <<height, phase>>
keeperVars == <<creationPeriod, groupCount, lastExpiredGroupID, pendingProcessGroups>>
groupVars == <<status, size, createdHeight, groupPubKey, memberPubKey, malicious>>
round1Vars == <<dkgContext, accCommits, round1Infos, round1Count>>
round2Vars == <<round2Infos, round2Count, badShares>>
round3Vars == <<confirms, complaints, confirmComplainCount>>
vars == <<blockVars, keeperVars, groupVars, round1Vars, round2Vars, round3Vars, callbacks>>

Creating == {"ROUND_1", "ROUND_2", "ROUND_3"}
Statuses == {"NONE", "ACTIVE", "FALLEN", "EXPIRED"} \cup Creating
NoCommits == [m \in MemberIds |-> 0]
MembersOf(g) == 1..size[g]

Init ==
  /\ height = 1
  /\ phase = "tx"
  /\ creationPeriod \in Periods
  /\ groupCount = 0
  /\ lastExpiredGroupID = 0
  /\ pendingProcessGroups = << >>
  /\ status = [g \in GroupIds |-> "NONE"]
  /\ size = [g \in GroupIds |-> 0]
  /\ createdHeight = [g \in GroupIds |-> 0]
  /\ groupPubKey = [g \in GroupIds |-> NoCommits]
  /\ memberPubKey = [g \in GroupIds |-> [m \in MemberIds |-> NoCommits]]
  /\ malicious = [g \in GroupIds |-> {}]
  /\ dkgContext = [g \in GroupIds |-> FALSE]
  /\ accCommits = [g \in GroupIds |-> NoCommits]
  /\ round1Infos = [g \in GroupIds |-> {}]
  /\ round1Count = [g \in GroupIds |-> 0]
  /\ round2Infos = [g \in GroupIds |-> {}]
  /\ round2Count = [g \in GroupIds |-> 0]
  /\ badShares = [g \in GroupIds |-> {}]
  /\ confirms = [g \in GroupIds |-> {}]
  /\ complaints = [g \in GroupIds |-> {}]
  /\ confirmComplainCount = [g \in GroupIds |-> 0]
  /\ callbacks = [g \in GroupIds |-> << >>]

-----------------------------------------------------------------------------
(* Transactions.  A message the chain rejects changes nothing.             *)

\* The owner module creates a group of n distinct members.  The height guard
\* leaves every group of a bounded run the blocks it needs to expire in.
CreateGroup(n) ==
  /\ phase = "tx"
  /\ groupCount < MaxGroups
  /\ \A p \in Periods : height + p <= MaxHeight
  /\ LET g == groupCount + 1
     IN /\ groupCount' = g
        /\ status' = [status EXCEPT ![g] = "ROUND_1"]
        /\ size' = [size EXCEPT ![g] = n]
        /\ createdHeight' = [createdHeight EXCEPT ![g] = height]
        /\ dkgContext' = [dkgContext EXCEPT ![g] = TRUE]
  /\ UNCHANGED <<blockVars, creationPeriod, lastExpiredGroupID, pendingProcessGroups,
                 groupPubKey, memberPubKey, malicious, accCommits, round1Infos,
                 round1Count, round2Vars, round3Vars, callbacks>>

\* A message is about an existing group in the right round and comes from the
\* owner of one of its member IDs (ValidateMemberID).
FromMember(g, m, round) ==
  /\ phase = "tx"
  /\ status[g] = round
  /\ m \in MembersOf(g)

\* The trailing check of all four handlers: the last of the group's members
\* to submit queues the group for the EndBlocker.
AddPendingIfComplete(g, count) ==
  pendingProcessGroups' = IF count = size[g]
                          THEN Append(pendingProcessGroups, g)
                          ELSE pendingProcessGroups

\* The commits are added to the group's accumulated commits.
SubmitDKGRound1(g, m) ==
  /\ FromMember(g, m, "ROUND_1")
  /\ m \notin round1Infos[g]
  /\ dkgContext[g]
  /\ accCommits' = [accCommits EXCEPT ![g][m] = @ + 1]
  /\ round1Infos' = [round1Infos EXCEPT ![g] = @ \cup {m}]
  /\ round1Count' = [round1Count EXCEPT ![g] = @ + 1]
  /\ AddPendingIfComplete(g, round1Count'[g])
  /\ UNCHANGED <<blockVars, creationPeriod, groupCount, lastExpiredGroupID,
                 groupVars, dkgContext, round2Vars, round3Vars, callbacks>>

\* The member's shares for the members in bad do not match its commits: the
\* chain cannot tell, the shares are encrypted.
SubmitDKGRound2(g, m, bad) ==
  /\ FromMember(g, m, "ROUND_2")
  /\ m \notin round2Infos[g]
  /\ bad \subseteq MembersOf(g) \ {m}
  /\ m \in Honest => bad = {}
  /\ memberPubKey' = [memberPubKey EXCEPT ![g][m] = accCommits[g]]
  /\ round2Infos' = [round2Infos EXCEPT ![g] = @ \cup {m}]
  /\ round2Count' = [round2Count EXCEPT ![g] = @ + 1]
  /\ badShares' = [badShares EXCEPT ![g] = @ \cup {<<m, r>> : r \in bad}]
  /\ AddPendingIfComplete(g, round2Count'[g])
  /\ UNCHANGED <<blockVars, creationPeriod, groupCount, lastExpiredGroupID, status, size,
                 createdHeight, groupPubKey, malicious, round1Vars, round3Vars, callbacks>>

\* Mutant: a second complaint is accepted.
NotYetAnswered_ConfirmOnly(g, m) == m \notin confirms[g]

NotYetAnswered(g, m) == m \notin confirms[g] /\ m \notin complaints[g]

\* The dealers whose share for m is inconsistent.
BadDealers(g, m) == {d \in MembersOf(g) : <<d, m>> \in badShares[g]}

\* Mutant: a complaint is believed without its proof.
Blamed_Unproved(m, failed, proved) == failed \cup proved

\* ProcessComplaint blames the respondent of a proved complaint and the
\* complainant of any other.
Blamed(m, failed, proved) == proved \cup (IF failed = {} THEN {} ELSE {m})

\* VerifyComplaint accepts a complaint against d only if d dealt m a bad share.
\* An honest member complains about every bad share and nothing else; any
\* other may accuse anyone, a respondent outside the group and the same one
\* twice included, and spoil the proofs of some complaints.
Complain(g, m, failed, proved) ==
  /\ FromMember(g, m, "ROUND_3")
  /\ NotYetAnswered(g, m)
  /\ failed \cup proved # {}
  /\ failed \subseteq MemberIds \ {m}
  /\ proved \subseteq BadDealers(g, m)
  /\ m \in Honest => failed = {} /\ proved = BadDealers(g, m)
  /\ malicious' = [malicious EXCEPT ![g] = @ \cup Blamed(m, failed, proved)]
  /\ complaints' = [complaints EXCEPT ![g] = @ \cup {m}]
  /\ confirmComplainCount' = [confirmComplainCount EXCEPT ![g] = @ + 1]
  /\ AddPendingIfComplete(g, confirmComplainCount'[g])
  /\ UNCHANGED <<blockVars, creationPeriod, groupCount, lastExpiredGroupID, status, size,
                 createdHeight, groupPubKey, memberPubKey, round1Vars, round2Vars,
                 confirms, callbacks>>

\* An honest member signs with its key, which it has only if every share it
\* received is consistent.
Confirm(g, m) ==
  /\ FromMember(g, m, "ROUND_3")
  /\ NotYetAnswered(g, m)
  /\ dkgContext[g]
  /\ m \in Honest => BadDealers(g, m) = {}
  /\ confirms' = [confirms EXCEPT ![g] = @ \cup {m}]
  /\ confirmComplainCount' = [confirmComplainCount EXCEPT ![g] = @ + 1]
  /\ AddPendingIfComplete(g, confirmComplainCount'[g])
  /\ UNCHANGED <<blockVars, creationPeriod, groupCount, lastExpiredGroupID, groupVars,
                 round1Vars, round2Vars, complaints, callbacks>>

UpdateParams(p) ==
  /\ phase = "tx"
  /\ p # creationPeriod
  /\ creationPeriod' = p
  /\ UNCHANGED <<blockVars, groupCount, lastExpiredGroupID, pendingProcessGroups,
                 groupVars, round1Vars, round2Vars, round3Vars, callbacks>>

-----------------------------------------------------------------------------
(* EndBlocker *)

EndBlock ==
  /\ phase = "tx"
  /\ phase' = "process"
  /\ UNCHANGED <<height, keeperVars, groupVars, round1Vars, round2Vars, round3Vars, callbacks>>

\* Mutant: malicious members are not looked for.
StatusAfterProcess_Trusting(g) ==
  CASE status[g] = "ROUND_1" -> "ROUND_2"
    [] status[g] = "ROUND_2" -> "ROUND_3"
    [] OTHER -> "ACTIVE"

\* What HandleProcessGroup makes of a group, and the callback it ends with.
StatusAfterProcess(g) ==
  CASE status[g] = "ROUND_1" -> "ROUND_2"
    [] status[g] = "ROUND_2" -> "ROUND_3"
    [] status[g] = "ROUND_3" -> IF malicious[g] = {} THEN "ACTIVE" ELSE "FALLEN"
    [] OTHER -> status[g]

CallbackOf(s) == IF s = "ACTIVE" THEN "completed" ELSE "failed"

\* One iteration over the pending groups; the list is emptied as it is read.
HandleProcessGroup ==
  /\ phase = "process"
  /\ pendingProcessGroups # << >>
  /\ LET g == Head(pendingProcessGroups)
     IN /\ status' = [status EXCEPT ![g] = StatusAfterProcess(g)]
        /\ groupPubKey' = IF status[g] = "ROUND_1"
                          THEN [groupPubKey EXCEPT ![g] = accCommits[g]]
                          ELSE groupPubKey
        /\ callbacks' = IF status[g] = "ROUND_3"
                        THEN [callbacks EXCEPT ![g] = Append(@, CallbackOf(StatusAfterProcess(g)))]
                        ELSE callbacks
  /\ pendingProcessGroups' = Tail(pendingProcessGroups)
  /\ UNCHANGED <<blockVars, creationPeriod, groupCount, lastExpiredGroupID, size,
                 createdHeight, memberPubKey, malicious, round1Vars, round2Vars, round3Vars>>

\* Mutant: groups expire before the pending ones are processed.
ProcessDone_ExpireFirst ==
  /\ phase = "process"
  /\ phase' = "expire"
  /\ UNCHANGED <<height, keeperVars, groupVars, round1Vars, round2Vars, round3Vars, callbacks>>

ProcessDone ==
  /\ phase = "process"
  /\ pendingProcessGroups = << >>
  /\ phase' = "expire"
  /\ UNCHANGED <<height, keeperVars, groupVars, round1Vars, round2Vars, round3Vars, callbacks>>

\* A mutant of ExpiredGroupDue: the loop stops one group short.
ExpiredGroupDue_OneShort ==
  /\ lastExpiredGroupID + 1 < groupCount
  /\ createdHeight[lastExpiredGroupID + 1] + creationPeriod <= height

\* The next group HandleExpiredGroups looks at is due.
ExpiredGroupDue ==
  /\ lastExpiredGroupID < groupCount
  /\ createdHeight[lastExpiredGroupID + 1] + creationPeriod <= height

\* A mutant of Unfinished: a finished group expires as well.
Unfinished_Always(g) == TRUE

Unfinished(g) == status[g] \notin {"ACTIVE", "FALLEN"}

\* One iteration of HandleExpiredGroups, DeleteAllDKGInterimData included.
HandleExpiredGroup ==
  /\ phase = "expire"
  /\ ExpiredGroupDue
  /\ LET g == lastExpiredGroupID + 1
     IN /\ status' = IF Unfinished(g) THEN [status EXCEPT ![g] = "EXPIRED"] ELSE status
        /\ callbacks' = IF Unfinished(g)
                        THEN [callbacks EXCEPT ![g] = Append(@, "expired")]
                        ELSE callbacks
        /\ lastExpiredGroupID' = g
        /\ dkgContext' = [dkgContext EXCEPT ![g] = FALSE]
        /\ accCommits' = [accCommits EXCEPT ![g] = NoCommits]
        /\ round1Infos' = [round1Infos EXCEPT ![g] = {}]
        /\ round1Count' = [round1Count EXCEPT ![g] = 0]
        /\ round2Infos' = [round2Infos EXCEPT ![g] = {}]
        /\ round2Count' = [round2Count EXCEPT ![g] = 0]
        /\ confirms' = [confirms EXCEPT ![g] = {}]
        /\ complaints' = [complaints EXCEPT ![g] = {}]
        /\ confirmComplainCount' = [confirmComplainCount EXCEPT ![g] = 0]
  /\ UNCHANGED <<blockVars, creationPeriod, groupCount, pendingProcessGroups, size,
                 createdHeight, groupPubKey, memberPubKey, malicious, badShares>>

\* HandleExpiredGroups breaks at the first group still within its period; the
\* next block starts.
ExpireDone ==
  /\ phase = "expire"
  /\ ~ExpiredGroupDue
  /\ phase' = "tx"
  /\ height' = IF height < MaxHeight THEN height + 1 ELSE height
  /\ UNCHANGED <<keeperVars, groupVars, round1Vars, round2Vars, round3Vars, callbacks>>

-----------------------------------------------------------------------------
MsgNext ==
  \/ \E n \in MemberIds : CreateGroup(n)
  \/ \E p \in Periods : UpdateParams(p)
  \/ \E g \in GroupIds, m \in MemberIds :
       \/ SubmitDKGRound1(g, m)
       \/ \E bad \in SUBSET MemberIds : SubmitDKGRound2(g, m, bad)
       \/ \E failed, proved \in SUBSET MemberIds : Complain(g, m, failed, proved)
       \/ Confirm(g, m)

BlockNext == EndBlock \/ HandleProcessGroup \/ ProcessDone \/ HandleExpiredGroup \/ ExpireDone

Next == MsgNext \/ BlockNext

Spec == Init /\ [][Next]_vars

\* Consensus keeps producing blocks, whatever the transactions do.
FairSpec == Spec /\ WF_vars(BlockNext)
-----------------------------------------------------------------------------
(* Properties *)

TypeOK ==
  /\ height \in 1..MaxHeight
  /\ phase \in {"tx", "process", "expire"}
  /\ creationPeriod \in Periods
  /\ groupCount \in 0..MaxGroups
  /\ lastExpiredGroupID \in 0..groupCount
  /\ pendingProcessGroups \in Seq(GroupIds)
  /\ status \in [GroupIds -> Statuses]
  /\ size \in [GroupIds -> 0..MaxGroupSize]
  /\ createdHeight \in [GroupIds -> 0..MaxHeight]
  /\ groupPubKey \in [GroupIds -> [MemberIds -> Nat]]
  /\ memberPubKey \in [GroupIds -> [MemberIds -> [MemberIds -> Nat]]]
  /\ malicious \in [GroupIds -> SUBSET MemberIds]
  /\ dkgContext \in [GroupIds -> BOOLEAN]
  /\ accCommits \in [GroupIds -> [MemberIds -> Nat]]
  /\ round1Infos \in [GroupIds -> SUBSET MemberIds]
  /\ round2Infos \in [GroupIds -> SUBSET MemberIds]
  /\ round1Count \in [GroupIds -> Nat]
  /\ round2Count \in [GroupIds -> Nat]
  /\ badShares \in [GroupIds -> SUBSET (MemberIds \X MemberIds)]
  /\ confirms \in [GroupIds -> SUBSET MemberIds]
  /\ complaints \in [GroupIds -> SUBSET MemberIds]
  /\ confirmComplainCount \in [GroupIds -> Nat]
  /\ callbacks \in [GroupIds -> Seq({"completed", "failed", "expired"})]

\* The members that have done their part of the round the group is in.
Submitted(g) ==
  CASE status[g] = "ROUND_1" -> round1Infos[g]
    [] status[g] = "ROUND_2" -> round2Infos[g]
    [] status[g] = "ROUND_3" -> confirms[g] \cup complaints[g]
    [] OTHER -> {}

IsPending(g) == \E i \in 1..Len(pendingProcessGroups) : pendingProcessGroups[i] = g

\* The pending list holds exactly the groups in which every member has done
\* its part of the current round, and each once: a group listed twice would
\* skip a round in the EndBlocker, one not listed would wait until it expires
\* (AddPendingProcessGroup in the four handlers).
PendingIsComplete ==
  /\ \A i, j \in 1..Len(pendingProcessGroups) :
       pendingProcessGroups[i] = pendingProcessGroups[j] => i = j
  /\ \A g \in GroupIds :
       IsPending(g) <=> (status[g] \in Creating /\ Submitted(g) = MembersOf(g))

KeysAgree(g) ==
  /\ groupPubKey[g] = [m \in MemberIds |-> IF m \in MembersOf(g) THEN 1 ELSE 0]
  /\ \A m \in MembersOf(g) : memberPubKey[g][m] = groupPubKey[g]

NobodyCheated(g) ==
  /\ malicious[g] = {}
  /\ \A m \in MembersOf(g) \cap Honest : BadDealers(g, m) = {}

\* The public key of an ACTIVE group sums the first commit of each of its
\* members exactly once, the public key of every member was computed from
\* those same sums although it was fixed in an earlier round
\* (UpdateMemberPubKey), no member was caught cheating, and every honest
\* member holds consistent shares.
ActiveGroupSound ==
  \A g \in GroupIds : status[g] = "ACTIVE" => KeysAgree(g) /\ NobodyCheated(g)

\* A member that runs cylinder is never marked malicious, whatever complaints
\* the others send (ProcessComplaint, VerifyComplaint).
HonestNeverMalicious ==
  \A g \in GroupIds : malicious[g] \cap Honest = {}

NoInterimData(g) ==
  /\ ~dkgContext[g]
  /\ accCommits[g] = NoCommits
  /\ round1Infos[g] = {} /\ round1Count[g] = 0
  /\ round2Infos[g] = {} /\ round2Count[g] = 0
  /\ confirms[g] = {} /\ complaints[g] = {} /\ confirmComplainCount[g] = 0

\* Every group up to the last expired ID is finished and has no interim DKG
\* data left; every later one still has its DKG context, which round 1 and the
\* confirmations need (HandleExpiredGroups, DeleteAllDKGInterimData).
InterimDataUntilExpiry ==
  \A g \in 1..groupCount :
    IF g <= lastExpiredGroupID
    THEN status[g] \in {"ACTIVE", "FALLEN", "EXPIRED"} /\ NoInterimData(g)
    ELSE dkgContext[g] /\ status[g] # "EXPIRED"

\* When the EndBlocker is done, no group older than the creation period is
\* still being created, although HandleExpiredGroups stops at the first group
\* that is not due: no older group hides behind a younger one.
NoOverdueGroup ==
  [][phase = "expire" /\ phase' = "tx" =>
       \A g \in 1..groupCount :
         createdHeight[g] + creationPeriod <= height => status'[g] \notin Creating]_vars

\* A group in which everybody answered in round 3 never expires, not even when
\* the last answer comes in the block in which its period ends: the EndBlocker
\* processes pending groups before it looks for expired ones.
CompleteGroupNeverExpires ==
  [][\A g \in GroupIds :
       status[g] = "ROUND_3" /\ Submitted(g) = MembersOf(g) => status'[g] # "EXPIRED"]_vars

\* The creation of every group ends, also when members stay silent.
EveryGroupFinishes ==
  \A g \in GroupIds : status[g] \in Creating ~> status[g] \in {"ACTIVE", "FALLEN", "EXPIRED"}

\* The detailed protocol keeps the promise to the owner module.
Outcome(s) ==
  CASE s = "NONE" -> "none"
    [] s \in Creating -> "creating"
    [] s = "ACTIVE" -> "completed"
    [] s = "FALLEN" -> "failed"
    [] s = "EXPIRED" -> "expired"

Lifecycle == INSTANCE GroupLifecycle
  WITH outcome <- [g \in GroupIds |-> Outcome(status[g])],
       notified <- callbacks,
       caught <- [g \in GroupIds |-> malicious[g] # {}]

\* Each group's creation ends once and for good and its owner receives exactly
\* one callback, the one that names the end (HandleProcessGroup,
\* HandleExpiredGroups).
ImplementsLifecycle == Lifecycle!Spec
=============================================================================
