------------------------------ MODULE Cylinder ------------------------------
(***************************************************************************)
(* Cylinder, the daemon of a member of threshold-signature groups.  It      *)
(* keeps secrets in a local store: the data of key generations under way,   *)
(* the private keys of finished groups and the private halves of nonces     *)
(* (DEs).  Workers react to events and, at the start, to what the chain     *)
(* says is pending; every reaction runs in its own goroutine and ends with  *)
(* a message for the sender, which puts messages into transactions.         *)
(*                                                                         *)
(* A secret is a version number; what the chain holds for this member is    *)
(* the version it was made from.  The chain and the other members are       *)
(* external; of the chain only what a member sees is here, and a group does *)
(* not expire.  A crash stops the process; what was written stays written,  *)
(* which a write without sync promises for the end of a process and not for *)
(* the loss of power.                                                       *)
(***************************************************************************)
EXTENDS Integers, Sequences, FiniteSets, Functions

CONSTANTS
  Groups,       \* groups this member belongs to
  Signings,     \* signings
  GroupOf,      \* signing -> its group
  MaxVersion,   \* bound on the number of key-generation secrets made
  DEs,          \* nonces that can be generated
  GasPriceSet,  \* configuration: the owner pays for transactions
  MinDE,        \* configuration: refill when that many were assigned
  MaxDESize,    \* chain parameter: size of the queue
  SenderKeys,   \* keys of the sender
  MaxMessages,  \* messages in one transaction
  SenderTries,  \* attempts to send a transaction
  MaxFaults     \* bound on the number of crashes, lost transactions and retries

CylinderParameters ==
  /\ IsFiniteSet(DEs) /\ DEs \subseteq Nat \ {0}
  /\ MaxVersion \in Nat /\ MinDE \in Nat \ {0} /\ MaxDESize \in Nat
  /\ MaxMessages \in Nat \ {0} /\ SenderTries \in Nat \ {0} /\ MaxFaults \in Nat
  /\ GroupOf \in [Signings -> Groups] /\ GasPriceSet \in BOOLEAN

ASSUME CylinderAssumption == CylinderParameters

VARIABLES
  status,      \* external: group -> its status
  commit,      \* external: group -> version of the accepted round-1 data, 0 before
  shares,      \* external: group -> version of the accepted round-2 data, 0 before
  answer,      \* external: group -> "none", "confirm" or "complain"
  sharesGood,  \* external: group -> whether the others sent good shares
  deQueue,     \* external: the queue of nonces of this member
  assigned,    \* external: signing -> nonce it waits for, 0 for none
  sentTxs,     \* external: transactions on their way, sequences of messages
  dkg,         \* store: group -> version of the key-generation data, 0 for none
  groupKey,    \* store: group -> version of the private key, 0 for none
  privDE,      \* store: nonces whose private half is kept
  daemon,      \* "down", "subscribed" or "running"
  tasks,       \* goroutines of the workers
  version,     \* secrets generated so far
  fresh,       \* nonces not generated yet
  cntUsed,     \* DE worker: assignments since the last refill
  newDEs,      \* DE worker: nonces stored and not yet handed to the sender
  msgCh,       \* messages for the sender
  senders,     \* key -> messages and tries of the transaction it signs
  faults,
  spent        \* ghost: nonces that have signed or were reset

member == <<status, commit, shares, answer, sharesGood, deQueue, assigned, spent>>
store == <<dkg, groupKey, privDE>>
deWorker == <<fresh, cntUsed, newDEs>>
cylinderVars ==
  <<status, commit, shares, answer, sharesGood, deQueue, assigned, sentTxs, dkg, groupKey,
    privDE, daemon, tasks, version, fresh, cntUsed, newDEs, msgCh, senders, faults, spent>>

Idle == [msgs |-> <<>>, try |-> 0]
Handler(worker, id, cause) ==
  [worker |-> worker, id |-> id, cause |-> cause, step |-> "query", secret |-> 0]

\* An event of the chain starts a goroutine if the daemon has subscribed.
Notify(hs) == tasks' = IF daemon = "down" THEN tasks ELSE tasks \cup hs

(***************************************************************************)
(* The chain.                                                              *)
(***************************************************************************)
CreateGroup(g) ==
  /\ status[g] = "NONE"
  /\ status' = [status EXCEPT ![g] = "ROUND_1"]
  /\ Notify({Handler("round1", g, "event")})
  /\ UNCHANGED <<commit, shares, answer, sharesGood, deQueue, assigned, sentTxs, store, daemon,
                 version, deWorker, msgCh, senders, faults, spent>>

\* The others have done their part of a round; in round 2 some may send bad shares,
\* in round 3 some may complain.
FinishRound(g, good) ==
  /\ \/ /\ status[g] = "ROUND_1" /\ commit[g] # 0
        /\ status' = [status EXCEPT ![g] = "ROUND_2"]
        /\ Notify({Handler("round2", g, "event")})
        /\ UNCHANGED sharesGood
     \/ /\ status[g] = "ROUND_2" /\ shares[g] # 0
        /\ status' = [status EXCEPT ![g] = "ROUND_3"]
        /\ sharesGood' = [sharesGood EXCEPT ![g] = good]
        /\ Notify({Handler("round3", g, "event")})
     \/ /\ status[g] = "ROUND_3" /\ answer[g] # "none"
        /\ status' = [status EXCEPT ![g] = IF answer[g] = "confirm" /\ good
                                             THEN "ACTIVE" ELSE "FALLEN"]
        /\ UNCHANGED <<sharesGood, tasks>>
  /\ UNCHANGED <<commit, shares, answer, deQueue, assigned, sentTxs, store, daemon, version,
                 deWorker, msgCh, senders, faults, spent>>

\* A signing, or its next attempt, takes the first nonce of this member.
AssignMember(s) ==
  /\ status[GroupOf[s]] = "ACTIVE" /\ deQueue # <<>>
  /\ deQueue' = Tail(deQueue)
  /\ assigned' = [assigned EXCEPT ![s] = Head(deQueue)]
  /\ Notify({Handler("signing", s, "event"), Handler("assigned", Head(deQueue), "event")})
  /\ UNCHANGED <<status, commit, shares, answer, sharesGood, sentTxs, store, daemon, version,
                 deWorker, msgCh, senders, faults, spent>>

\* MsgResetDE, sent by the owner of the account.
ResetDE ==
  /\ deQueue # <<>>
  /\ deQueue' = <<>>
  /\ spent' = spent \cup Range(deQueue)
  /\ Notify({Handler("deleted", d, "event") : d \in Range(deQueue)})
  /\ UNCHANGED <<status, commit, shares, answer, sharesGood, assigned, sentTxs, store, daemon,
                 version, deWorker, msgCh, senders, faults>>

\* What x/tss asks of a message.
AcceptsMsg(msg) ==
  CASE msg.type = "round1"   -> status[msg.id] = "ROUND_1" /\ commit[msg.id] = 0
    [] msg.type = "round2"   -> status[msg.id] = "ROUND_2" /\ shares[msg.id] = 0
    [] msg.type = "confirm"  -> status[msg.id] = "ROUND_3" /\ answer[msg.id] = "none"
    [] msg.type = "complain" -> status[msg.id] = "ROUND_3" /\ answer[msg.id] = "none"
    [] msg.type = "des"      -> Len(deQueue) + Cardinality(msg.secret) <= MaxDESize
    [] msg.type = "sign"     -> assigned[msg.id] = msg.secret

\* A transaction fails as a whole: also two messages of one kind for one thing spoil it.
Valid(tx) ==
  /\ \A i \in DOMAIN tx : AcceptsMsg(tx[i])
  /\ \A i, j \in DOMAIN tx :
       i # j /\ tx[i].type # "des" => <<tx[i].type, tx[i].id>> # <<tx[j].type, tx[j].id>>

Of(tx, type) == {tx[i] : i \in {j \in DOMAIN tx : tx[j].type = type}}
Applied(f, msgs) ==
  [x \in DOMAIN f |-> IF \E m \in msgs : m.id = x
                      THEN (CHOOSE m \in msgs : m.id = x).secret ELSE f[x]]
Answered(tx) ==
  [g \in Groups |-> IF \E m \in Of(tx, "confirm") : m.id = g THEN "confirm"
                    ELSE IF \E m \in Of(tx, "complain") : m.id = g THEN "complain"
                    ELSE answer[g]]

\* The nonces of a message, one after the other.
Listed(S) ==
  CHOOSE q \in [1..Cardinality(S) -> S] : \A i, j \in DOMAIN q : i # j => q[i] # q[j]

CommitTx(tx) ==
  LET signed == Of(tx, "sign")
  IN  /\ tx \in sentTxs
      /\ sentTxs' = sentTxs \ {tx}
      /\ IF Valid(tx)
         THEN /\ commit' = Applied(commit, Of(tx, "round1"))
              /\ shares' = Applied(shares, Of(tx, "round2"))
              /\ answer' = Answered(tx)
              /\ deQueue' = deQueue \o Listed(UNION {m.secret : m \in Of(tx, "des")})
              /\ spent' = spent \cup {m.secret : m \in signed}
              /\ assigned' = [s \in Signings |-> IF \E m \in signed : m.id = s
                                                 THEN 0 ELSE assigned[s]]
              /\ Notify({Handler("deleted", m.secret, "event") : m \in signed})
         ELSE UNCHANGED <<commit, shares, answer, deQueue, assigned, spent, tasks>>
      /\ UNCHANGED <<status, sharesGood, store, daemon, version, deWorker, msgCh, senders,
                     faults>>

(***************************************************************************)
(* The start: every worker subscribes, then asks for what is pending.      *)
(***************************************************************************)
SubscribeWorkers ==
  /\ daemon = "down"
  /\ daemon' = "subscribed"
  /\ UNCHANGED <<member, sentTxs, store, tasks, version, deWorker, msgCh, senders, faults>>

\* The query PendingGroups: groups that wait for a message of this member.
PendingGroups ==
  {g \in Groups : \/ status[g] = "ROUND_1" /\ commit[g] = 0
                  \/ status[g] = "ROUND_2" /\ shares[g] = 0
                  \/ status[g] = "ROUND_3" /\ answer[g] = "none"}

HandlePending ==
  /\ daemon = "subscribed"
  /\ daemon' = "running"
  /\ tasks' = tasks
       \cup {Handler("round1", g, "start") : g \in PendingGroups}
       \cup {Handler("round2", g, "start") : g \in PendingGroups}
       \cup {Handler("round3", g, "start") : g \in PendingGroups}
       \cup {Handler("signing", s, "start") : s \in {x \in Signings : assigned[x] # 0}}
  /\ UNCHANGED <<member, sentTxs, store, version, deWorker, msgCh, senders, faults>>

(***************************************************************************)
(* The workers of group creation.                                          *)
(***************************************************************************)
To(h, step, secret) ==
  tasks' = (tasks \ {h}) \cup {[h EXCEPT !.step = step, !.secret = secret]}
Done(h) == tasks' = tasks \ {h}
Send(type, id, secret) == msgCh' = Append(msgCh, [type |-> type, id |-> id, secret |-> secret])

\* Round1.handleGroup generates new data, ...
Round1Generate(h) ==
  /\ h.worker = "round1" /\ h.step = "query"
  /\ IF status[h.id] = "ROUND_1"
     THEN /\ version < MaxVersion
          /\ version' = version + 1
          /\ To(h, "store", version')
     ELSE Done(h) /\ UNCHANGED version
  /\ UNCHANGED <<member, sentTxs, store, daemon, deWorker, msgCh, senders, faults>>

\* ... stores it, over what may be there, ...
Round1Store(h) ==
  /\ h.worker = "round1" /\ h.step = "store"
  /\ dkg' = [dkg EXCEPT ![h.id] = h.secret]
  /\ To(h, "send", h.secret)
  /\ UNCHANGED <<member, sentTxs, groupKey, privDE, daemon, version, deWorker, msgCh, senders,
                 faults>>

\* ... and sends it.
Round1Send(h) ==
  /\ h.worker = "round1" /\ h.step = "send"
  /\ Send("round1", h.id, h.secret)
  /\ Done(h)
  /\ UNCHANGED <<member, sentTxs, store, daemon, version, deWorker, senders, faults>>

\* Round2.handleGroup: the shares are computed from the data in the store.
Round2Handle(h) ==
  /\ h.worker = "round2" /\ h.step = "query"
  /\ IF status[h.id] = "ROUND_2" /\ dkg[h.id] # 0
     THEN Send("round2", h.id, dkg[h.id])
     ELSE UNCHANGED msgCh
  /\ Done(h)
  /\ UNCHANGED <<member, sentTxs, store, daemon, version, deWorker, senders, faults>>

\* getOwnPrivKey: the shares of the others are good, and readable with the key that the
\* chain has of this member.
SharesMatch(g) == sharesGood[g] /\ dkg[g] = commit[g]

\* Round3.handleGroup: a key that is stored is confirmed; else it is computed from the
\* shares, which fails where they do not match, and then complained about.
Round3Handle(h) ==
  LET g == h.id
  IN  /\ h.worker = "round3" /\ h.step = "query"
      /\ IF status[g] # "ROUND_3" THEN Done(h) /\ UNCHANGED msgCh
         ELSE IF groupKey[g] # 0 THEN To(h, "send", groupKey[g]) /\ UNCHANGED msgCh
         ELSE IF dkg[g] = 0 THEN Done(h) /\ UNCHANGED msgCh
         ELSE IF SharesMatch(g)
              THEN To(h, "first", dkg[g]) /\ UNCHANGED msgCh
              ELSE Done(h) /\ Send("complain", g, 0)
      /\ UNCHANGED <<member, sentTxs, store, daemon, version, deWorker, senders, faults>>

\* A mutant of KeySteps: the data of the key generation is deleted first.
KeySteps_DeleteFirst == <<"delete", "set">>

\* The order of the two writes: the key is stored, then the data it came from is deleted.
KeySteps == <<"set", "delete">>

\* One of the two writes; the message follows the second.
Round3Write(h) ==
  LET write == IF h.step = "first" THEN KeySteps[1] ELSE KeySteps[2]
  IN  /\ h.worker = "round3" /\ h.step \in {"first", "second"}
      /\ groupKey' = IF write = "set" THEN [groupKey EXCEPT ![h.id] = h.secret] ELSE groupKey
      /\ dkg' = IF write = "delete" THEN [dkg EXCEPT ![h.id] = 0] ELSE dkg
      /\ To(h, IF h.step = "first" THEN "second" ELSE "send", h.secret)
      /\ UNCHANGED <<member, sentTxs, privDE, daemon, version, deWorker, msgCh, senders,
                     faults>>

Round3Send(h) ==
  /\ h.worker = "round3" /\ h.step = "send"
  /\ Send("confirm", h.id, h.secret)
  /\ Done(h)
  /\ UNCHANGED <<member, sentTxs, store, daemon, version, deWorker, senders, faults>>

(***************************************************************************)
(* The worker of nonces, one loop: a tick fills the queue up to twice the   *)
(* minimum, as many assignments as the minimum are made up for.             *)
(***************************************************************************)
\* Without a gas price only a member of the current or the incoming group sends nonces, says
\* x/bandtss; any finished group is taken for one of these, so the model allows more.
CanUpdateDE == GasPriceSet \/ \E g \in Groups : status[g] = "ACTIVE"

\* updateDE: new nonces are stored one by one, then sent.  An error before the last one is
\* stored leaves those before it in the store and sends none.
\* Nonces are random and all alike, so the least ones not used yet stand for any;
\* DEs bounds how many there are.
UpdateDE(n) ==
  IF CanUpdateDE
  THEN \E stored \in 0..n :
         LET des == {d \in fresh : Cardinality({x \in fresh : x < d}) < stored}
         IN  /\ fresh' = fresh \ des
             /\ privDE' = privDE \cup des
             /\ newDEs' = IF stored = n THEN des ELSE {}
  ELSE UNCHANGED <<fresh, privDE, newDEs>>

IntervalUpdateDE ==
  /\ daemon # "down" /\ newDEs = {}
  /\ Len(deQueue) < 2 * MinDE
  /\ UpdateDE(2 * MinDE - Len(deQueue))
  /\ cntUsed' = 0
  /\ UNCHANGED <<member, sentTxs, dkg, groupKey, daemon, tasks, version, msgCh, senders,
                 faults>>

HandleAssigned(h) ==
  /\ h.worker = "assigned" /\ newDEs = {}
  /\ Done(h)
  /\ IF cntUsed + 1 >= MinDE
     THEN UpdateDE(cntUsed + 1) /\ cntUsed' = 0
     ELSE cntUsed' = cntUsed + 1 /\ UNCHANGED <<fresh, privDE, newDEs>>
  /\ UNCHANGED <<member, sentTxs, dkg, groupKey, daemon, version, msgCh, senders, faults>>

SendDEs ==
  /\ newDEs # {}
  /\ Send("des", 0, newDEs)
  /\ newDEs' = {}
  /\ UNCHANGED <<member, sentTxs, store, daemon, tasks, version, fresh, cntUsed, senders,
                 faults>>

\* deleteDE, for a nonce that signed or that was reset.
DeleteDE(h) ==
  /\ h.worker = "deleted"
  /\ privDE' = privDE \ {h.id}
  /\ Done(h)
  /\ UNCHANGED <<member, sentTxs, dkg, groupKey, daemon, version, deWorker, msgCh, senders,
                 faults>>

(***************************************************************************)
(* The worker of signings.                                                 *)
(***************************************************************************)
\* handleSigning: with the nonce the chain names now, the key and its private half.
HandleSigning(h) ==
  /\ h.worker = "signing"
  /\ IF assigned[h.id] # 0 /\ groupKey[GroupOf[h.id]] # 0 /\ assigned[h.id] \in privDE
     THEN Send("sign", h.id, assigned[h.id])
     ELSE UNCHANGED msgCh
  /\ Done(h)
  /\ UNCHANGED <<member, sentTxs, store, daemon, version, deWorker, senders, faults>>

(***************************************************************************)
(* The sender.                                                             *)
(***************************************************************************)
\* A transaction that is broadcast reaches the mempool, unless that fails.
BroadcastMsgs(msgs, fails) == sentTxs' = IF fails THEN sentTxs ELSE sentTxs \cup {msgs}
Fault(happens) == faults' = (IF happens THEN faults + 1 ELSE faults) /\ faults' <= MaxFaults

\* collectMsgs and the first try: a free key takes what waits, up to the limit of a
\* transaction.
SendMsgs(k, fails) ==
  LET n == IF Len(msgCh) < MaxMessages THEN Len(msgCh) ELSE MaxMessages
      msgs == SubSeq(msgCh, 1, n)
  IN  /\ senders[k] = Idle /\ msgCh # <<>>
      /\ senders' = [senders EXCEPT ![k] = [msgs |-> msgs, try |-> 1]]
      /\ msgCh' = SubSeq(msgCh, n + 1, Len(msgCh))
      /\ BroadcastMsgs(msgs, fails)
      /\ Fault(fails)
      /\ UNCHANGED <<member, store, daemon, tasks, version, deWorker>>

\* A later try of BroadcastAndConfirm: the same messages in a new transaction.
TryAgain(k) ==
  /\ senders[k].try \in 1..(SenderTries - 1)
  /\ senders' = [senders EXCEPT ![k].try = @ + 1]
  /\ BroadcastMsgs(senders[k].msgs, FALSE)
  /\ Fault(TRUE)
  /\ UNCHANGED <<member, store, daemon, tasks, version, deWorker, msgCh>>

\* It was confirmed, or the tries are used up: the key is free and the messages are gone.
ReturnSenderKey(k) ==
  /\ senders[k] # Idle
  /\ senders[k].try = SenderTries \/ senders[k].msgs \notin sentTxs
  /\ senders' = [senders EXCEPT ![k] = Idle]
  /\ UNCHANGED <<member, sentTxs, store, daemon, tasks, version, deWorker, msgCh, faults>>

\* The process ends; what it wrote and what it broadcast stay.
CrashCylinder ==
  /\ daemon # "down" /\ Fault(TRUE)
  /\ daemon' = "down" /\ tasks' = {} /\ newDEs' = {} /\ cntUsed' = 0
  /\ msgCh' = <<>> /\ senders' = [k \in SenderKeys |-> Idle]
  /\ UNCHANGED <<member, sentTxs, store, version, fresh>>

CylinderInit ==
  /\ status = [g \in Groups |-> "NONE"] /\ answer = [g \in Groups |-> "none"]
  /\ commit = [g \in Groups |-> 0] /\ shares = [g \in Groups |-> 0]
  /\ sharesGood = [g \in Groups |-> TRUE]
  /\ deQueue = <<>> /\ spent = {} /\ assigned = [s \in Signings |-> 0] /\ sentTxs = {}
  /\ dkg = [g \in Groups |-> 0] /\ groupKey = [g \in Groups |-> 0] /\ privDE = {}
  /\ daemon = "down" /\ tasks = {} /\ version = 0
  /\ fresh = DEs /\ cntUsed = 0 /\ newDEs = {}
  /\ msgCh = <<>> /\ senders = [k \in SenderKeys |-> Idle] /\ faults = 0

CylinderNext ==
  \/ \E g \in Groups : CreateGroup(g)
  \/ \E g \in Groups, good \in BOOLEAN : FinishRound(g, good)
  \/ \E s \in Signings : AssignMember(s)
  \/ ResetDE
  \/ \E tx \in sentTxs : CommitTx(tx)
  \/ SubscribeWorkers
  \/ HandlePending
  \/ \E h \in tasks : Round1Generate(h)
  \/ \E h \in tasks : Round1Store(h)
  \/ \E h \in tasks : Round1Send(h)
  \/ \E h \in tasks : Round2Handle(h)
  \/ \E h \in tasks : Round3Handle(h)
  \/ \E h \in tasks : Round3Write(h)
  \/ \E h \in tasks : Round3Send(h)
  \/ IntervalUpdateDE
  \/ \E h \in tasks : HandleAssigned(h)
  \/ SendDEs
  \/ \E h \in tasks : DeleteDE(h)
  \/ \E h \in tasks : HandleSigning(h)
  \/ \E k \in SenderKeys, fails \in BOOLEAN : SendMsgs(k, fails)
  \/ \E k \in SenderKeys : TryAgain(k)
  \/ \E k \in SenderKeys : ReturnSenderKey(k)
  \/ CrashCylinder

CylinderSpec == CylinderInit /\ [][CylinderNext]_cylinderVars

(***************************************************************************)
(* Properties.                                                             *)
(***************************************************************************)
\* What the chain expects of this member can be delivered: while a group that has its
\* round-1 data is in the making, the store holds the secret or the key made of it; the key
\* of a confirmed group is stored; and so is the private half of every nonce that the chain
\* may assign, or has assigned to a signing that waits, unless it was used up before.
\* Crashes between the writes, messages sent twice and late deletions do not change that
\* (Round3.handleGroup, updateDE, deleteDE).
SecretsAreKept ==
  /\ \A g \in Groups :
       /\ status[g] \in {"ROUND_1", "ROUND_2", "ROUND_3"} /\ commit[g] # 0
            => dkg[g] # 0 \/ groupKey[g] # 0
       /\ answer[g] = "confirm" => groupKey[g] = commit[g]
  /\ \A d \in DEs \ spent :
       d \in Range(deQueue) \/ (\E s \in Signings : assigned[s] = d) => d \in privDE

\* The queue of the chain holds nonces: none that has signed or was reset comes back into
\* it (BroadcastAndConfirm, which sends MsgSubmitDEs again when it is not sure of the first).
NoncesAreNew == Range(deQueue) \cap spent = {}

\* The shares a member sent in round 2 are of the secret it committed to in round 1: a
\* member that runs the daemon as it is never gives the others a reason to complain.
SharesMatchCommits ==
  \A g \in Groups : shares[g] # 0 => shares[g] = commit[g]
=============================================================================
