----------------------------- MODULE TSSSigning -----------------------------
(***************************************************************************)
(* Signing in x/tss: the queues of one-time nonces (DEs) that accounts     *)
(* submit in advance, the assignment of members and nonces to the attempts *)
(* of a signing, the partial signatures, and the EndBlocker's aggregation, *)
(* timeouts and retries (HandleSigningEndBlock).                           *)
(*                                                                         *)
(* As in TSSGroup a transaction is one step and the EndBlocker is one step *)
(* per loop iteration, ordered by `phase`.  A DE is the number its owner   *)
(* gives it, fresh for every DE an account submits.  A partial signature   *)
(* that reaches the store has been verified; whether the aggregate then    *)
(* verifies against the group's key is left open.  All groups are ACTIVE,  *)
(* which a group stays forever (GroupLifecycle).                           *)
(***************************************************************************)
EXTENDS Naturals, Sequences, FiniteSets

CONSTANTS
  Accounts,
  Groups,
  GroupMembers,     \* GroupMembers[g]: the accounts of group g
  Threshold,        \* Threshold[g]: signatures that a signing of g needs
  ParamChoices,     \* the values governance may give the parameters
  MaxSignings,      \* bound: number of signings
  MaxAttempts,      \* the largest MaxSigningAttempt of ParamChoices
  MaxPeriod,        \* the largest SigningPeriod of ParamChoices
  MaxDEs,           \* bound: DEs an account submits in all
  MaxHeight         \* bound: the height stops growing there

ASSUME GroupsAssumption == Groups \subseteq Nat \ {0}
ASSUME GroupMembersAssumption == GroupMembers \in [Groups -> SUBSET Accounts]
ASSUME AccountsAssumption == IsFiniteSet(Accounts)
ASSUME ThresholdAssumption ==
  Threshold \in [Groups -> Nat \ {0}]
ASSUME ParamsAssumption ==
  /\ ParamChoices # {}
  /\ MaxAttempts \in Nat /\ MaxPeriod \in Nat
  /\ ParamChoices \subseteq [signingPeriod : 1..MaxPeriod,
                             maxSigningAttempt : 0..MaxAttempts,
                             maxDESize : Nat \ {0}]
ASSUME BoundsAssumption == MaxSignings \in Nat /\ MaxDEs \in Nat /\ MaxHeight \in Nat \ {0}

SigningIds == 1..MaxSignings
Attempts == SigningIds \X (1..MaxAttempts)
Indices == 0..MaxDEs
NoDE == 0

VARIABLES
  height, phase, params,
  (* the DE queues *)
  deHead, deTail, deStore,
  deCount,                  \* deCount[a]: DEs that a has submitted so far
  (* members that are not active, per group *)
  inactive,
  (* the Signing records *)
  signingCount, status, signingGroup, currentAttempt,
  (* SigningAttempt records and partial signatures, by <<signing, attempt>> *)
  assigned,                 \* the assigned accounts; none: no record
  expiredHeight, partialSigs, partialSigCount,
  pendingProcessSignings, signingExpirations,
  retrySigningIDs,          \* local to HandleSigningEndBlock
  callbacks,                \* the callbacks the owner received per signing
  nonceUses                 \* history: every <<account, DE, signing, attempt>> assigned

blockVars == <<height, phase>>
deVars == <<deHead, deTail, deStore, deCount>>
signingVars == <<signingCount, status, signingGroup, currentAttempt>>
attemptVars == <<assigned, expiredHeight, partialSigs, partialSigCount>>
vars == <<blockVars, params, deVars, inactive, signingVars, attemptVars, nonceUses,
          pendingProcessSignings, signingExpirations, retrySigningIDs, callbacks>>

Init ==
  /\ height = 1
  /\ phase = "tx"
  /\ params \in ParamChoices
  /\ deHead = [a \in Accounts |-> 0]
  /\ deTail = [a \in Accounts |-> 0]
  /\ deStore = [a \in Accounts |-> [i \in Indices |-> NoDE]]
  /\ deCount = [a \in Accounts |-> 0]
  /\ inactive = [g \in Groups |-> {}]
  /\ signingCount = 0
  /\ status = [s \in SigningIds |-> "NONE"]
  /\ signingGroup = [s \in SigningIds |-> 0]
  /\ currentAttempt = [s \in SigningIds |-> 0]
  /\ assigned = [x \in Attempts |-> {}]
  /\ expiredHeight = [x \in Attempts |-> 0]
  /\ partialSigs = [x \in Attempts |-> {}]
  /\ partialSigCount = [x \in Attempts |-> 0]
  /\ pendingProcessSignings = << >>
  /\ signingExpirations = << >>
  /\ retrySigningIDs = << >>
  /\ callbacks = [s \in SigningIds |-> << >>]
  /\ nonceUses = {}

-----------------------------------------------------------------------------
(* The DE queue of an account *)

EnqueuedAt(a, i, n) == deTail[a] <= i /\ i < deTail[a] + n

\* MsgSubmitDEs with n new DEs (EnqueueDEs).
SubmitDEs(a, n) ==
  /\ phase = "tx"
  /\ deCount[a] + n <= MaxDEs
  /\ deTail[a] - deHead[a] + n <= params.maxDESize
  /\ deStore' = [deStore EXCEPT ![a] =
                   [i \in Indices |-> IF EnqueuedAt(a, i, n)
                                      THEN deCount[a] + 1 + (i - deTail[a])
                                      ELSE @[i]]]
  /\ deTail' = [deTail EXCEPT ![a] = @ + n]
  /\ deCount' = [deCount EXCEPT ![a] = @ + n]
  /\ UNCHANGED <<blockVars, params, deHead, inactive, signingVars, attemptVars, nonceUses,
                 pendingProcessSignings, signingExpirations, retrySigningIDs, callbacks>>

\* Mutant: the queue restarts, the DEs stay in the store.
StoreAfterReset_Kept(a) == deStore[a]

StoreAfterReset(a) ==
  [i \in Indices |-> IF deHead[a] <= i /\ i < deTail[a] THEN NoDE ELSE deStore[a][i]]

ResetDE(a) ==
  /\ phase = "tx"
  /\ deStore' = [deStore EXCEPT ![a] = StoreAfterReset(a)]
  /\ deHead' = [deHead EXCEPT ![a] = 0]
  /\ deTail' = [deTail EXCEPT ![a] = 0]
  /\ UNCHANGED <<blockVars, params, deCount, inactive, signingVars, attemptVars, nonceUses,
                 pendingProcessSignings, signingExpirations, retrySigningIDs, callbacks>>

HasDE(a) == deTail[a] > deHead[a]

-----------------------------------------------------------------------------
(* A new attempt *)

GetAvailableMembers(g) == {a \in GroupMembers[g] \ inactive[g] : HasDE(a)}

\* GetRandomMembers: Threshold[g] different members, any of those available.
Selections(g) == {sel \in SUBSET GetAvailableMembers(g) : Cardinality(sel) = Threshold[g]}

\* Mutant: the nonce stays at the head of the queue.
HeadAfter_Peek(a, sel) == deHead[a]

HeadAfter(a, sel) == IF a \in sel THEN deHead[a] + 1 ELSE deHead[a]

\* DequeueDE takes the DE at the head out of the store.
StoreAfter(a, sel) == IF a \in sel THEN [deStore[a] EXCEPT ![deHead[a]] = NoDE] ELSE deStore[a]

ExpiryOf(k) == height + params.signingPeriod

\* Mutant: only the first attempt is entered.
WithExpiration_FirstOnly(s, k) ==
  IF k = 1 THEN Append(signingExpirations, <<s, k>>) ELSE signingExpirations

\* AddSigningExpiration.
WithExpiration(s, k) == Append(signingExpirations, <<s, k>>)

\* Attempt k of signing s by the members sel, each with the DE at the head of
\* its queue (AssignMembersForSigning, InitiateNewSigningRound).
NewAttempt(s, k, sel) ==
  /\ nonceUses' = nonceUses \cup {<<a, deStore[a][deHead[a]], s, k>> : a \in sel}
  /\ deHead' = [a \in Accounts |-> HeadAfter(a, sel)]
  /\ deStore' = [a \in Accounts |-> StoreAfter(a, sel)]
  /\ assigned' = [assigned EXCEPT ![<<s, k>>] = sel]
  /\ expiredHeight' = [expiredHeight EXCEPT ![<<s, k>>] = ExpiryOf(k)]
  /\ currentAttempt' = [currentAttempt EXCEPT ![s] = k]
  /\ status' = [status EXCEPT ![s] = "WAITING"]
  /\ signingExpirations' = WithExpiration(s, k)
  /\ UNCHANGED <<deTail, deCount, partialSigs, partialSigCount>>

\* The owner module requests a signing by group g (RequestSigning,
\* CreateSigning).  The height guard leaves every signing of a bounded run the
\* blocks it needs to time out in.
RequestSigning(g, sel) ==
  /\ phase = "tx"
  /\ signingCount < MaxSignings
  /\ height + MaxAttempts * MaxPeriod <= MaxHeight
  /\ params.maxSigningAttempt >= 1
  /\ sel \in Selections(g)
  /\ signingCount' = signingCount + 1
  /\ signingGroup' = [signingGroup EXCEPT ![signingCount + 1] = g]
  /\ NewAttempt(signingCount + 1, 1, sel)
  /\ UNCHANGED <<blockVars, params, inactive, pendingProcessSignings, retrySigningIDs,
                 callbacks>>

-----------------------------------------------------------------------------
(* Other transactions *)

\* Mutant: a member may sign twice.
NotSignedYet_Any(s, a) == TRUE

NotSignedYet(s, a) == a \notin partialSigs[<<s, currentAttempt[s]>>]

\* MsgSubmitSignature with a signature that verifies.
SubmitSignature(s, a) ==
  /\ phase = "tx"
  /\ status[s] = "WAITING"
  /\ LET x == <<s, currentAttempt[s]>>
     IN /\ x \in Attempts
        /\ a \in assigned[x]
        /\ NotSignedYet(s, a)
        /\ partialSigs' = [partialSigs EXCEPT ![x] = @ \cup {a}]
        /\ partialSigCount' = [partialSigCount EXCEPT ![x] = @ + 1]
        /\ pendingProcessSignings' = IF partialSigCount'[x] = Cardinality(assigned[x])
                                     THEN Append(pendingProcessSignings, s)
                                     ELSE pendingProcessSignings
  /\ UNCHANGED <<blockVars, params, deVars, inactive, signingVars, assigned, expiredHeight,
                 nonceUses, signingExpirations, retrySigningIDs, callbacks>>

\* The owner module activates a member again.
ActivateMember(g, a) ==
  /\ phase = "tx"
  /\ a \in inactive[g]
  /\ inactive' = [inactive EXCEPT ![g] = @ \ {a}]
  /\ UNCHANGED <<blockVars, params, deVars, signingVars, attemptVars, nonceUses,
                 pendingProcessSignings, signingExpirations, retrySigningIDs, callbacks>>

UpdateParams(p) ==
  /\ phase = "tx"
  /\ p # params
  /\ params' = p
  /\ UNCHANGED <<blockVars, deVars, inactive, signingVars, attemptVars, nonceUses,
                 pendingProcessSignings, signingExpirations, retrySigningIDs, callbacks>>

-----------------------------------------------------------------------------
(* EndBlocker *)

EndBlock ==
  /\ phase = "tx"
  /\ phase' = "aggregate"
  /\ UNCHANGED <<height, params, deVars, inactive, signingVars, attemptVars, nonceUses,
                 pendingProcessSignings, signingExpirations, retrySigningIDs, callbacks>>

\* One iteration over the pending signings; verified says whether the combined
\* signature verifies.
AggregatePartialSignatures(verified) ==
  /\ phase = "aggregate"
  /\ pendingProcessSignings # << >>
  /\ LET s == Head(pendingProcessSignings)
     IN IF verified
        THEN /\ status' = [status EXCEPT ![s] = "SUCCESS"]
             /\ callbacks' = [callbacks EXCEPT ![s] = Append(@, "completed")]
             /\ UNCHANGED retrySigningIDs
        ELSE /\ retrySigningIDs' = Append(retrySigningIDs, s)
             /\ UNCHANGED <<status, callbacks>>
  /\ pendingProcessSignings' = Tail(pendingProcessSignings)
  /\ UNCHANGED <<blockVars, params, deVars, inactive, signingCount, signingGroup,
                 currentAttempt, attemptVars, nonceUses, signingExpirations>>

AggregateDone ==
  /\ phase = "aggregate"
  /\ pendingProcessSignings = << >>
  /\ phase' = "expire"
  /\ UNCHANGED <<height, params, deVars, inactive, signingVars, attemptVars, nonceUses,
                 pendingProcessSignings, signingExpirations, retrySigningIDs, callbacks>>

ExpirationDue ==
  /\ signingExpirations # << >>
  /\ expiredHeight[Head(signingExpirations)] <= height

\* Mutant: an attempt counts as incomplete by its signing's status.
Incomplete_ByStatus(x) == status[x[1]] # "SUCCESS"

Incomplete(x) == partialSigCount[x] # Cardinality(assigned[x])

\* GetMembersNotSubmitSignature, asked about the signing's current attempt.
IdleMembers(s) ==
  LET x == <<s, currentAttempt[s]>> IN assigned[x] \ partialSigs[x]

\* One iteration of HandleExpiredSignings, DeleteInterimSigningData included.
\* The owner module deactivates some of the idle members it is told about.
HandleExpiredSigning(deactivated) ==
  /\ phase = "expire"
  /\ ExpirationDue
  /\ LET x == Head(signingExpirations)
         s == x[1]
     IN /\ IF Incomplete(x)
           THEN /\ deactivated \subseteq IdleMembers(s)
                /\ inactive' = [inactive EXCEPT ![signingGroup[s]] = @ \cup deactivated]
                /\ callbacks' = [callbacks EXCEPT ![s] = Append(@, "timeout")]
                /\ retrySigningIDs' = Append(retrySigningIDs, s)
           ELSE /\ deactivated = {}
                /\ UNCHANGED <<inactive, callbacks, retrySigningIDs>>
        /\ assigned' = [assigned EXCEPT ![x] = {}]
        /\ expiredHeight' = [expiredHeight EXCEPT ![x] = 0]
        /\ partialSigs' = [partialSigs EXCEPT ![x] = {}]
        /\ partialSigCount' = [partialSigCount EXCEPT ![x] = 0]
  /\ signingExpirations' = Tail(signingExpirations)
  /\ UNCHANGED <<blockVars, params, deVars, signingVars, nonceUses, pendingProcessSignings>>

ExpireDone ==
  /\ phase = "expire"
  /\ ~ExpirationDue
  /\ phase' = "retry"
  /\ UNCHANGED <<height, params, deVars, inactive, signingVars, attemptVars, nonceUses,
                 pendingProcessSignings, signingExpirations, retrySigningIDs, callbacks>>

\* InitiateNewSigningRound succeeds.
CanRetry(s) ==
  /\ currentAttempt[s] + 1 <= params.maxSigningAttempt
  /\ Selections(signingGroup[s]) # {}

\* The next signing to retry gets a new attempt ...
RetrySigning(sel) ==
  /\ phase = "retry"
  /\ retrySigningIDs # << >>
  /\ LET s == Head(retrySigningIDs)
     IN /\ CanRetry(s)
        /\ sel \in Selections(signingGroup[s])
        /\ NewAttempt(s, currentAttempt[s] + 1, sel)
  /\ retrySigningIDs' = Tail(retrySigningIDs)
  /\ UNCHANGED <<blockVars, params, inactive, signingCount, signingGroup,
                 pendingProcessSignings, callbacks>>

\* ... or falls; the sub-transaction of the failed attempt leaves nothing behind.
HandleFailedSigning ==
  /\ phase = "retry"
  /\ retrySigningIDs # << >>
  /\ LET s == Head(retrySigningIDs)
     IN /\ ~CanRetry(s)
        /\ status' = [status EXCEPT ![s] = "FALLEN"]
        /\ callbacks' = [callbacks EXCEPT ![s] = Append(@, "failed")]
  /\ retrySigningIDs' = Tail(retrySigningIDs)
  /\ UNCHANGED <<blockVars, params, deVars, inactive, signingCount, signingGroup,
                 currentAttempt, attemptVars, nonceUses, pendingProcessSignings,
                 signingExpirations>>

RetryDone ==
  /\ phase = "retry"
  /\ retrySigningIDs = << >>
  /\ phase' = "tx"
  /\ height' = IF height < MaxHeight THEN height + 1 ELSE height
  /\ UNCHANGED <<params, deVars, inactive, signingVars, attemptVars, nonceUses,
                 pendingProcessSignings, signingExpirations, retrySigningIDs, callbacks>>

-----------------------------------------------------------------------------
MsgNext ==
  \/ \E a \in Accounts, n \in 1..MaxDEs : SubmitDEs(a, n)
  \/ \E a \in Accounts : ResetDE(a)
  \/ \E g \in Groups, sel \in SUBSET Accounts : RequestSigning(g, sel)
  \/ \E s \in SigningIds, a \in Accounts : SubmitSignature(s, a)
  \/ \E g \in Groups, a \in Accounts : ActivateMember(g, a)
  \/ \E p \in ParamChoices : UpdateParams(p)

BlockNext ==
  \/ EndBlock
  \/ \E verified \in BOOLEAN : AggregatePartialSignatures(verified)
  \/ AggregateDone
  \/ \E deactivated \in SUBSET Accounts : HandleExpiredSigning(deactivated)
  \/ ExpireDone
  \/ \E sel \in SUBSET Accounts : RetrySigning(sel)
  \/ HandleFailedSigning
  \/ RetryDone

Next == MsgNext \/ BlockNext

Spec == Init /\ [][Next]_vars

\* Consensus keeps producing blocks, whatever the transactions do.
FairSpec == Spec /\ WF_vars(BlockNext)
-----------------------------------------------------------------------------
(* Properties *)

TypeOK ==
  /\ height \in 1..MaxHeight
  /\ phase \in {"tx", "aggregate", "expire", "retry"}
  /\ params \in ParamChoices
  /\ deHead \in [Accounts -> Indices]
  /\ deTail \in [Accounts -> Indices]
  /\ deStore \in [Accounts -> [Indices -> Indices]]
  /\ deCount \in [Accounts -> Indices]
  /\ inactive \in [Groups -> SUBSET Accounts]
  /\ signingCount \in 0..MaxSignings
  /\ status \in [SigningIds -> {"NONE", "WAITING", "SUCCESS", "FALLEN"}]
  /\ signingGroup \in [SigningIds -> Groups \cup {0}]
  /\ currentAttempt \in [SigningIds -> 0..MaxAttempts]
  /\ assigned \in [Attempts -> SUBSET Accounts]
  /\ expiredHeight \in [Attempts -> Nat]
  /\ partialSigs \in [Attempts -> SUBSET Accounts]
  /\ partialSigCount \in [Attempts -> Nat]
  /\ pendingProcessSignings \in Seq(SigningIds)
  /\ signingExpirations \in Seq(Attempts)
  /\ retrySigningIDs \in Seq(SigningIds)
  /\ callbacks \in [SigningIds -> Seq({"completed", "failed", "timeout"})]
  /\ nonceUses \subseteq Accounts \X Indices \X SigningIds \X (1..MaxAttempts)

\* The store holds a DE exactly at the indices from head to tail, so that
\* neither DequeueDE nor ResetDE ever misses one, and none is left behind by
\* MsgResetDE, which starts the indices over.
QueueIsExact ==
  \A a \in Accounts :
    /\ deHead[a] <= deTail[a]
    /\ \A i \in Indices : deStore[a][i] # NoDE <=> deHead[a] <= i /\ i < deTail[a]

\* No nonce is ever used for two attempts: two signatures with one nonce give
\* the member's key away.  This has to hold across both groups an account
\* belongs to, retries in the EndBlocker and resets of the queue.
NonceUsedOnce ==
  \A u, v \in nonceUses :
    u[1] = v[1] /\ u[2] = v[2] => u = v /\ u[2] # NoDE

Occurs(x, seq) == \E i \in 1..Len(seq) : seq[i] = x
NoRepeats(seq) == \A i, j \in 1..Len(seq) : seq[i] = seq[j] => i = j

AllSigned(s) ==
  /\ currentAttempt[s] > 0
  /\ assigned[<<s, currentAttempt[s]>>] # {}
  /\ partialSigs[<<s, currentAttempt[s]>>] = assigned[<<s, currentAttempt[s]>>]

\* A signing that waits is on its way to an end: it is queued for aggregation
\* exactly if everybody assigned has signed its current attempt, or it is due
\* for a retry, or its current attempt is stored and will expire.  No signing is
\* on the pending list or on the retry list twice or on both, and none that has
\* ended is on either.  The expiration list names every stored attempt and no
\* other, each once: HandleExpiredSignings panics on an entry without its
\* attempt, and an attempt without its entry would never time out.  Only the
\* current attempt of a waiting signing can time out: the members reported idle
\* (GetMembersNotSubmitSignature, asked about the current attempt whichever
\* attempt expires) are the ones that let this attempt expire.
WaitingIsTracked ==
  /\ NoRepeats(signingExpirations)
  /\ \A x \in Attempts : Occurs(x, signingExpirations) <=> assigned[x] # {}
  /\ NoRepeats(pendingProcessSignings)
  /\ NoRepeats(retrySigningIDs)
  /\ \A s \in SigningIds :
       LET pending == Occurs(s, pendingProcessSignings)
           retry == Occurs(s, retrySigningIDs)
       IN IF status[s] # "WAITING"
          THEN ~pending /\ ~retry
          ELSE /\ ~(pending /\ retry)
               /\ ~retry => /\ pending <=> AllSigned(s)
                            /\ assigned[<<s, currentAttempt[s]>>] # {}
  /\ \A x \in Attempts :
       assigned[x] # {} /\ Incomplete(x) =>
         x[2] = currentAttempt[x[1]] /\ status[x[1]] = "WAITING"

\* README.md: "The order of expiration time should be increasing (from beginning
\* of the list to the end)".  HandleExpiredSignings stops at the first entry
\* that is not due.
ExpirationsIncrease ==
  \A i, j \in 1..Len(signingExpirations) :
    i < j => expiredHeight[signingExpirations[i]] <= expiredHeight[signingExpirations[j]]

\* Every signing ends, also when members stay silent or aggregation fails.
EverySigningEnds ==
  \A s \in SigningIds : status[s] = "WAITING" ~> status[s] \in {"SUCCESS", "FALLEN"}

Outcome(st) ==
  CASE st = "NONE" -> "none"
    [] st = "WAITING" -> "waiting"
    [] st = "SUCCESS" -> "success"
    [] st = "FALLEN" -> "fallen"

Lifecycle == INSTANCE SigningLifecycle
  WITH outcome <- [s \in SigningIds |-> Outcome(status[s])],
       notified <- callbacks

\* Each signing ends once and for good, and its owner receives exactly one
\* OnSigningCompleted or OnSigningFailed, after the timeouts.
ImplementsLifecycle == Lifecycle!Spec
=============================================================================
