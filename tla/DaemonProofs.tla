----------------------------- MODULE DaemonProofs -----------------------------
(***************************************************************************)
(* Theorems about the daemons: cylinder, for every set of groups,          *)
(* signings, nonces and keys; yoda, for every set of transactions, every   *)
(* number of keys and every number of crashes; and grogu, for every set of *)
(* signals, every number of keys and every size of the channel.            *)
(***************************************************************************)
EXTENDS Yoda, Cylinder, Grogu, FiniteSetTheorems, TLAPS

-----------------------------------------------------------------------------
(* Cylinder: the secrets the chain counts on are in the store. *)

\* A finite set can be listed.
LEMMA ListedIsSeq ==
  ASSUME NEW S, IsFiniteSet(S)
  PROVE  Listed(S) \in Seq(S)
<1>1. PICK n : n = Cardinality(S)
  BY Zenon
<1>2. n \in Nat /\ ExistsBijection(1..n, S)
  BY <1>1, FS_CardinalityType, ZenonT(60)
<1>3. PICK b \in Bijection(1..n, S) : TRUE
  BY <1>2, Zenon DEF ExistsBijection
<1>4. b \in [1..n -> S] /\ \A i, j \in 1..n : b[i] = b[j] => i = j
  BY <1>3, ZenonT(60) DEF Bijection, Injection, IsInjective
<1>5. DOMAIN b = 1..n
  BY <1>4
<1>6. \A i, j \in DOMAIN b : i # j => b[i] # b[j]
  BY <1>4, <1>5, ZenonT(60)
<1>7. Listed(S) = CHOOSE q \in [1..n -> S] : \A i, j \in DOMAIN q : i # j => q[i] # q[j]
  BY <1>1, ZenonT(60) DEF Listed
<1>8. Listed(S) \in [1..n -> S]
  BY <1>4, <1>6, <1>7, ZenonT(60)
<1>9. QED
  BY <1>2, <1>8, SMTT(30)

-----------------------------------------------------------------------------
\* The nonces whose private half is stored or that are used up; the groups with the secret of
\* their key generation or the key made of it; the groups with a key.
Held == DEs \cap (privDE \cup spent)
Has == {g \in Groups : dkg[g] # 0 \/ groupKey[g] # 0}
Keyed == {g \in Groups : groupKey[g] # 0}

\* Messages that can be kept, for these nonces and groups: a message of round 1 comes after the
\* secret is stored, a confirmation after the key, nonces after their private halves.
GoodMessages(held, has, keyed) ==
  {m \in [type : {"round1", "round2", "confirm", "complain", "des", "sign"},
          id : Groups \cup Signings \cup {0}, secret : Nat \cup DEs \cup SUBSET DEs] :
     /\ m.type = "round1" => m.id \in has /\ m.secret \in Nat \ {0}
     /\ m.type = "confirm" => m.id \in keyed
     /\ m.type = "des" => m.secret \in SUBSET held
     /\ m.type = "sign" => m.secret \in DEs}
Messages == GoodMessages(Held, Has, Keyed)

\* Goroutines, likewise.  From its first write on, the one of round 3 works with the secret that
\* the chain has the commitment of; nonces are deleted when they are used up.
GoodTasks(has, keyed, committedTo, used) ==
  {h \in [worker : {"round1", "round2", "round3", "signing", "assigned", "deleted"},
          id : Groups \cup Signings \cup DEs, cause : {"event", "start"},
          step : {"query", "store", "send", "first", "second"}, secret : Nat] :
     /\ h.worker \in {"round1", "round2", "round3"} => h.id \in Groups
     /\ h.worker = "signing" => h.id \in Signings
     /\ h.worker = "deleted" => h.id \in used
     /\ h.worker = "round1" /\ h.step # "query" => h.secret # 0
     /\ h.worker = "round1" /\ h.step = "send" => h.id \in has
     /\ h.worker = "round3" /\ h.step # "query" => h.secret # 0 /\ h.secret = committedTo[h.id]
     /\ h.worker = "round3" /\ h.step \in {"second", "send"} => h.id \in keyed}
Tasks == GoodTasks(Has, Keyed, commit, spent)

\* A key is made of the secret the chain has the commitment of; commitments and confirmations
\* can be kept.
KeysInv ==
  /\ commit \in [Groups -> Nat] /\ dkg \in [Groups -> Nat] /\ groupKey \in [Groups -> Nat]
  /\ version \in Nat
  /\ \A g \in Groups : /\ groupKey[g] # 0 => groupKey[g] = commit[g]
                       /\ commit[g] # 0 => g \in Has
                       /\ answer[g] = "confirm" => g \in Keyed

\* Nonces that the chain may ask for, or will be told of, are held.
NoncesInv ==
  /\ deQueue \in Seq(Held) /\ assigned \in [Signings -> Held \cup {0}]
  /\ newDEs \in SUBSET Held /\ fresh \in SUBSET DEs

\* Messages can be kept wherever they are.
MailInv ==
  /\ msgCh \in Seq(Messages) /\ sentTxs \in SUBSET Seq(Messages)
  /\ senders \in [SenderKeys -> [msgs : Seq(Messages), try : Nat]]

\* The inductive invariant.
SecretInv == CylinderParameters /\ KeysInv /\ NoncesInv /\ MailInv /\ tasks \in SUBSET Tasks

\* Sequences over a larger set.
LEMMA SeqGrows == ASSUME NEW S, NEW T, S \subseteq T PROVE Seq(S) \subseteq Seq(T)
  OBVIOUS

\* A message that can be kept can still be kept with more nonces, secrets and keys.
LEMMA MessagesGrow ==
  ASSUME NEW held1, NEW held2, held1 \subseteq held2, NEW has1, NEW has2, has1 \subseteq has2,
         NEW keyed1, NEW keyed2, keyed1 \subseteq keyed2
  PROVE  GoodMessages(held1, has1, keyed1) \subseteq GoodMessages(held2, has2, keyed2)
  BY Zenon DEF GoodMessages

\* So can a goroutine go on, as long as the commitment it works with stays.
LEMMA TasksGrow ==
  ASSUME NEW has1, NEW has2, has1 \subseteq has2, NEW keyed1, NEW keyed2, keyed1 \subseteq keyed2,
         NEW c1, NEW c2, \A g \in Groups : c1[g] # 0 => c2[g] = c1[g],
         NEW used1, NEW used2, used1 \subseteq used2
  PROVE  GoodTasks(has1, keyed1, c1, used1) \subseteq GoodTasks(has2, keyed2, c2, used2)
  BY ZenonT(60) DEF GoodTasks

\* A step that forgets nothing keeps the messages and the goroutines good.
LEMMA NothingForgotten ==
  ASSUME Held \subseteq Held', Has \subseteq Has', Keyed \subseteq Keyed', spent \subseteq spent',
         \A g \in Groups : commit[g] # 0 => commit'[g] = commit[g]
  PROVE  /\ Messages \subseteq Messages' /\ Tasks \subseteq Tasks'
         /\ Seq(Messages) \subseteq Seq(Messages') /\ Seq(Held) \subseteq Seq(Held')
<1>1. Messages \subseteq Messages'
  BY MessagesGrow, Zenon DEF Messages
<1>2. Tasks \subseteq Tasks'
  BY TasksGrow, ZenonT(60) DEF Tasks
<1>3. QED
  BY <1>1, <1>2, SeqGrows, Zenon

\* The sets depend on the store and on the chain's record of the member only.
LEMMA NothingChanged ==
  ASSUME UNCHANGED <<dkg, groupKey, privDE, commit, spent>>
  PROVE  /\ Held' = Held /\ Has' = Has /\ Keyed' = Keyed
         /\ Messages' = Messages /\ Tasks' = Tasks
<1>1. Held' = Held /\ Has' = Has /\ Keyed' = Keyed
  BY DEF Held, Has, Keyed
<1>2. QED
  BY <1>1, ZenonT(60) DEF Messages, Tasks

\* At first nothing is stored, promised or under way.
LEMMA SecretInit == ASSUME CylinderParameters, CylinderInit PROVE SecretInv
<1>1. /\ answer = [g \in Groups |-> "none"] /\ commit = [g \in Groups |-> 0]
      /\ deQueue = <<>> /\ spent = {} /\ assigned = [s \in Signings |-> 0] /\ sentTxs = {}
      /\ dkg = [g \in Groups |-> 0] /\ groupKey = [g \in Groups |-> 0] /\ tasks = {}
      /\ version = 0 /\ fresh = DEs /\ newDEs = {} /\ msgCh = <<>>
      /\ senders = [k \in SenderKeys |-> Idle]
  BY Zenon DEF CylinderInit
<1>2. KeysInv
  BY <1>1, SMTT(30) DEF KeysInv
<1>3. NoncesInv
  BY <1>1, SMTT(30) DEF NoncesInv
<1>4. senders \in [SenderKeys -> [msgs : Seq(Messages), try : Nat]]
  <2>1. Idle \in [msgs : Seq(Messages), try : Nat]
    BY DEF Idle
  <2>2. QED
    BY <1>1, <2>1, ZenonT(60)
<1>5. MailInv
  BY <1>1, <1>4, SMTT(30) DEF MailInv
<1>6. QED
  BY <1>1, <1>2, <1>3, <1>5, ZenonT(60) DEF SecretInv

-----------------------------------------------------------------------------
\* Steps that leave the store, the commitments and the nonces used up as they are.
LEMMA SecretFrame ==
  ASSUME SecretInv, UNCHANGED <<dkg, groupKey, privDE, commit, spent, answer>>, version' \in Nat,
         deQueue' \in Seq(Held), assigned' \in [Signings -> Held \cup {0}],
         newDEs' \in SUBSET Held, fresh' \in SUBSET DEs,
         msgCh' \in Seq(Messages), sentTxs' \in SUBSET Seq(Messages),
         senders' \in [SenderKeys -> [msgs : Seq(Messages), try : Nat]],
         tasks' \in SUBSET Tasks
  PROVE  SecretInv'
<1>1. /\ Held' = Held /\ Has' = Has /\ Keyed' = Keyed
      /\ Messages' = Messages /\ Tasks' = Tasks
  BY NothingChanged, SMTT(30)
<1>2. KeysInv'
  BY <1>1, ZenonT(60) DEF SecretInv, KeysInv
<1>3. NoncesInv'
  BY <1>1, ZenonT(60) DEF NoncesInv
<1>4. MailInv'
  BY <1>1, ZenonT(60) DEF MailInv
<1>5. QED
  BY <1>1, <1>2, <1>3, <1>4, ZenonT(60) DEF SecretInv, CylinderParameters

\* A step that changes only the goroutines and what they have sent to the sender.
LEMMA TaskFrame ==
  ASSUME SecretInv, UNCHANGED <<dkg, groupKey, privDE, commit, spent, answer, version, deQueue,
                                assigned, newDEs, fresh, sentTxs, senders>>,
         msgCh' \in Seq(Messages), tasks' \in SUBSET Tasks
  PROVE  SecretInv'
<1>1. /\ version' \in Nat /\ deQueue' \in Seq(Held) /\ assigned' \in [Signings -> Held \cup {0}]
      /\ newDEs' \in SUBSET Held /\ fresh' \in SUBSET DEs /\ sentTxs' \in SUBSET Seq(Messages)
      /\ senders' \in [SenderKeys -> [msgs : Seq(Messages), try : Nat]]
  BY ZenonT(60) DEF SecretInv, KeysInv, NoncesInv, MailInv
<1>2. QED
  BY <1>1, SecretFrame, ZenonT(60)

\* A goroutine that has just been started on a group, a signing or a nonce has nothing to be kept
\* yet.
LEMMA NewTask ==
  ASSUME NEW w \in {"round1", "round2", "round3", "signing", "assigned", "deleted"},
         NEW id \in Groups \cup Signings \cup DEs, NEW cause \in {"event", "start"},
         w \in {"round1", "round2", "round3"} => id \in Groups,
         w = "signing" => id \in Signings, w = "deleted" => id \in spent
  PROVE  Handler(w, id, cause) \in Tasks
  BY DEF Handler, Tasks, GoodTasks

\* Starting such goroutines (Notify).
LEMMA Notified ==
  ASSUME NEW hs, hs \in SUBSET Tasks, SecretInv, Notify(hs)
  PROVE  tasks' \in SUBSET Tasks
  BY ZenonT(60) DEF Notify, SecretInv

\* Sending a message that can be kept to the sender.
LEMMA Mailed ==
  ASSUME SecretInv, NEW type, NEW id, NEW secret, Send(type, id, secret),
         [type |-> type, id |-> id, secret |-> secret] \in Messages
  PROVE  msgCh' \in Seq(Messages)
<1>1. PICK m \in Messages : m = [type |-> type, id |-> id, secret |-> secret]
  BY ZenonT(60)
<1>2. msgCh' = Append(msgCh, m) /\ msgCh \in Seq(Messages)
  BY <1>1, ZenonT(60) DEF Send, SecretInv, MailInv
<1>3. QED
  BY <1>1, <1>2, SMTT(30)

\* The end of a goroutine.
LEMMA TaskGone ==
  ASSUME SecretInv, NEW h, Done(h)
  PROVE  tasks' \in SUBSET Tasks
  BY Zenon DEF Done, SecretInv

\* A goroutine that goes on to its next step.
LEMMA TaskMoved ==
  ASSUME SecretInv, NEW h, NEW step, NEW secret, To(h, step, secret),
         [h EXCEPT !.step = step, !.secret = secret] \in Tasks
  PROVE  tasks' \in SUBSET Tasks
  BY ZenonT(60) DEF To, SecretInv

\* What a goroutine knows.
LEMMA TaskFacts ==
  ASSUME SecretInv, NEW h \in tasks
  PROVE  /\ h \in Tasks
         /\ h.worker \in {"round1", "round2", "round3"} => h.id \in Groups
         /\ h.worker = "signing" => h.id \in Signings
         /\ h.worker = "deleted" => h.id \in spent
         /\ h.worker = "round1" /\ h.step # "query" => h.secret # 0
         /\ h.worker = "round1" /\ h.step = "send" => h.id \in Has
         /\ h.worker = "round3" /\ h.step # "query" => h.secret # 0 /\ h.secret = commit[h.id]
         /\ h.worker = "round3" /\ h.step \in {"second", "send"} => h.id \in Keyed
         /\ h.secret \in Nat
<1>1. h \in Tasks
  BY ZenonT(60) DEF SecretInv
<1>2. QED
  BY <1>1, SMTT(30) DEF Tasks, GoodTasks

\* A goroutine of group creation at another step with another secret.
LEMMA MovedTask ==
  ASSUME NEW h \in Tasks, h.worker \in {"round1", "round3"}, h.id \in Groups,
         NEW step \in {"store", "send", "first", "second"}, NEW secret \in Nat \ {0},
         h.worker = "round1" /\ step = "send" => h.id \in Has,
         h.worker = "round3" => secret = commit[h.id],
         h.worker = "round3" /\ step \in {"second", "send"} => h.id \in Keyed
  PROVE  [h EXCEPT !.step = step, !.secret = secret] \in Tasks
  BY DEF Tasks, GoodTasks

-----------------------------------------------------------------------------
\* CreateGroup and FinishRound: the other members promise nothing for this one.
LEMMA GroupSecrets ==
  ASSUME SecretInv, NEW g \in Groups, NEW good \in BOOLEAN, CreateGroup(g) \/ FinishRound(g, good)
  PROVE  SecretInv'
<1>1. UNCHANGED <<dkg, groupKey, privDE, commit, spent, answer, version, deQueue, assigned, newDEs,
                  fresh, sentTxs, senders, msgCh>>
  BY Zenon DEF CreateGroup, FinishRound, store, deWorker
<1>2. \/ \E w \in {"round1", "round2", "round3"} : Notify({Handler(w, g, "event")})
      \/ UNCHANGED tasks
  BY Zenon DEF CreateGroup, FinishRound
<1>3. \A w \in {"round1", "round2", "round3"} : Handler(w, g, "event") \in Tasks
  BY NewTask, SMTT(30)
<1>4. tasks' \in SUBSET Tasks
  <2>1. CASE UNCHANGED tasks
    BY <2>1, ZenonT(60) DEF SecretInv
  <2>2. ASSUME NEW w \in {"round1", "round2", "round3"}, Notify({Handler(w, g, "event")})
        PROVE  tasks' \in SUBSET Tasks
    <3>1. {Handler(w, g, "event")} \in SUBSET Tasks
      BY <1>3, ZenonT(60)
    <3>2. QED
      BY <2>2, <3>1, Notified, SMTT(30)
  <2>3. QED
    BY <1>2, <2>1, <2>2, SMTT(30)
<1>5. msgCh' \in Seq(Messages)
  BY <1>1, ZenonT(60) DEF SecretInv, MailInv
<1>6. QED
  BY <1>1, <1>4, <1>5, TaskFrame, Zenon

\* Steps that forget nothing.
LEMMA SecretGrows ==
  ASSUME SecretInv, Held \subseteq Held', Has \subseteq Has', Keyed \subseteq Keyed',
         spent \subseteq spent', \A g \in Groups : commit[g] # 0 => commit'[g] = commit[g],
         KeysInv', NoncesInv', tasks' \in SUBSET Tasks',
         msgCh' \in Seq(Messages), sentTxs' \in SUBSET Seq(Messages),
         senders' \in [SenderKeys -> [msgs : Seq(Messages), try : Nat]]
  PROVE  SecretInv'
<1>1. Seq(Messages) \subseteq Seq(Messages')
  BY NothingForgotten, SMTT(30)
<1>2. senders' \in [SenderKeys -> [msgs : Seq(Messages'), try : Nat]]
  <2>1. \A S, T : S \subseteq T => [SenderKeys -> [msgs : S, try : Nat]] \subseteq [SenderKeys -> [msgs : T, try : Nat]]
    OBVIOUS
  <2>2. QED
    BY <1>1, <2>1, ZenonT(60)
<1>3. MailInv'
  BY <1>1, <1>2, ZenonT(60) DEF MailInv
<1>4. QED
  BY <1>3, ZenonT(60) DEF SecretInv, CylinderParameters

\* AssignMember moves the first nonce of the queue to a signing.
LEMMA AssignSecrets ==
  ASSUME SecretInv, NEW s \in Signings, AssignMember(s)
  PROVE  SecretInv'
<1>1. UNCHANGED <<dkg, groupKey, privDE, commit, spent, answer, version, newDEs, fresh, sentTxs,
                  senders, msgCh>>
  BY Zenon DEF AssignMember, store, deWorker
<1>2. PICK d : d = Head(deQueue)
  BY Zenon
<1>3. /\ deQueue # <<>> /\ deQueue' = Tail(deQueue) /\ assigned' = [assigned EXCEPT ![s] = d]
      /\ Notify({Handler("signing", s, "event"), Handler("assigned", d, "event")})
  BY <1>2, ZenonT(60) DEF AssignMember
<1>4. deQueue \in Seq(Held) /\ assigned \in [Signings -> Held \cup {0}]
  BY ZenonT(60) DEF SecretInv, NoncesInv
<1>5. d \in Held /\ deQueue' \in Seq(Held)
  BY <1>2, <1>3, <1>4, SMTT(30)
<1>6. assigned' \in [Signings -> Held \cup {0}]
  BY <1>3, <1>4, <1>5, ZenonT(60)
<1>7. Handler("signing", s, "event") \in Tasks
  BY NewTask, SMTT(30)
<1>8. Handler("assigned", d, "event") \in Tasks
  <2>1. d \in DEs
    BY <1>5, ZenonT(60) DEF Held
  <2>2. QED
    BY <2>1, NewTask, SMTT(30)
<1>9. tasks' \in SUBSET Tasks
  <2>1. {Handler("signing", s, "event"), Handler("assigned", d, "event")} \in SUBSET Tasks
    BY <1>7, <1>8, ZenonT(60)
  <2>2. QED
    BY <1>3, <2>1, Notified, SMTT(30)
<1>10. /\ version' \in Nat /\ newDEs' \in SUBSET Held /\ fresh' \in SUBSET DEs
       /\ msgCh' \in Seq(Messages) /\ sentTxs' \in SUBSET Seq(Messages)
       /\ senders' \in [SenderKeys -> [msgs : Seq(Messages), try : Nat]]
  BY <1>1, ZenonT(60) DEF SecretInv, KeysInv, NoncesInv, MailInv
<1>11. QED
  BY <1>1, <1>5, <1>6, <1>9, <1>10, SecretFrame, ZenonT(60)

\* ResetDE uses up the whole queue, and the deletions follow.
LEMMA ResetSecrets ==
  ASSUME SecretInv, ResetDE
  PROVE  SecretInv'
<1>1. UNCHANGED <<dkg, groupKey, privDE, commit, answer, version, assigned, newDEs, fresh,
                  sentTxs, senders, msgCh>>
  BY Zenon DEF ResetDE, store, deWorker
<1>2. /\ deQueue' = <<>> /\ spent' = spent \cup Range(deQueue)
      /\ Notify({Handler("deleted", d, "event") : d \in Range(deQueue)})
  BY ZenonT(60) DEF ResetDE
<1>3. deQueue \in Seq(Held)
  BY ZenonT(60) DEF SecretInv, NoncesInv
<1>4. Range(deQueue) \subseteq DEs
  BY <1>3, SMTT(30) DEF Range, Held
<1>5. /\ Held \subseteq Held' /\ spent \subseteq spent' /\ Has' = Has /\ Keyed' = Keyed
  BY <1>1, <1>2, SMTT(30) DEF Held, Has, Keyed
<1>6. KeysInv'
  BY <1>1, <1>5, ZenonT(60) DEF SecretInv, KeysInv
<1>7. NoncesInv'
  <2>1. assigned' \in [Signings -> Held \cup {0}] /\ newDEs' \in SUBSET Held /\ fresh' \in SUBSET DEs
    BY <1>1, ZenonT(60) DEF SecretInv, NoncesInv
  <2>2. \A S, T : S \subseteq T => [Signings -> S \cup {0}] \subseteq [Signings -> T \cup {0}]
    BY Zenon
  <2>3. assigned' \in [Signings -> Held' \cup {0}] /\ newDEs' \in SUBSET Held'
    BY <1>5, <2>1, <2>2, ZenonT(60)
  <2>4. deQueue' \in Seq(Held')
    BY <1>2, SMTT(30)
  <2>5. QED
    BY <2>1, <2>3, <2>4, ZenonT(60) DEF NoncesInv
<1>8. \A d \in Range(deQueue) : Handler("deleted", d, "event") \in Tasks'
  <2>1. \A d \in Range(deQueue) : d \in DEs /\ d \in spent'
    BY <1>2, <1>4, ZenonT(60)
  <2>2. QED
    BY <2>1, SMTT(30) DEF Handler, Tasks, GoodTasks
<1>9. Tasks \subseteq Tasks'
  BY <1>1, <1>5, NothingForgotten, ZenonT(60)
<1>10. tasks' \in SUBSET Tasks'
  BY <1>2, <1>8, <1>9, ZenonT(60) DEF Notify, SecretInv
<1>11. /\ msgCh' \in Seq(Messages) /\ sentTxs' \in SUBSET Seq(Messages)
       /\ senders' \in [SenderKeys -> [msgs : Seq(Messages), try : Nat]]
  BY <1>1, ZenonT(60) DEF SecretInv, MailInv
<1>12. QED
  BY <1>1, <1>5, <1>6, <1>7, <1>10, <1>11, SecretGrows, ZenonT(60)

\* Subscribe and HandlePending start goroutines, which have stored nothing yet.
LEMMA StartSecrets ==
  ASSUME SecretInv, SubscribeWorkers \/ HandlePending
  PROVE  SecretInv'
<1>1. UNCHANGED <<dkg, groupKey, privDE, commit, spent, answer, version, deQueue, assigned, newDEs,
                  fresh, sentTxs, senders, msgCh>>
  BY SMTT(30) DEF SubscribeWorkers, HandlePending, member, store, deWorker
<1>2. \A w \in {"round1", "round2", "round3"} : \A g \in Groups : Handler(w, g, "start") \in Tasks
  BY NewTask, SMTT(30)
<1>3. \A s \in Signings : Handler("signing", s, "start") \in Tasks
  BY NewTask, SMTT(30)
<1>4. PendingGroups \subseteq Groups
  BY Zenon DEF PendingGroups
<1>5. tasks' \in SUBSET Tasks
  <2>1. CASE SubscribeWorkers
    BY <2>1, ZenonT(60) DEF SubscribeWorkers, SecretInv
  <2>2. CASE HandlePending
    <3>1. \A h \in tasks' :
            \/ h \in tasks
            \/ \E w \in {"round1", "round2", "round3"}, g \in PendingGroups :
                 h = Handler(w, g, "start")
            \/ \E s \in Signings : h = Handler("signing", s, "start")
      BY <2>2, ZenonT(60) DEF HandlePending
    <3>2. QED
      BY <1>2, <1>3, <1>4, <3>1, ZenonT(60) DEF SecretInv
  <2>3. QED
    BY <2>1, <2>2, ZenonT(60)
<1>6. msgCh' \in Seq(Messages)
  BY <1>1, ZenonT(60) DEF SecretInv, MailInv
<1>7. QED
  BY <1>1, <1>5, <1>6, TaskFrame, ZenonT(60)

-----------------------------------------------------------------------------
\* Round1Generate makes a secret that is not zero.
LEMMA GenerateSecrets ==
  ASSUME SecretInv, NEW h \in tasks, Round1Generate(h)
  PROVE  SecretInv'
<1>1. UNCHANGED <<dkg, groupKey, privDE, commit, spent, answer, deQueue, assigned, newDEs, fresh,
                  sentTxs, senders, msgCh>>
  BY DEF Round1Generate, member, store, deWorker
<1>2. h.worker = "round1" /\ h \in Tasks /\ h.id \in Groups
  BY TaskFacts, ZenonT(60) DEF Round1Generate
<1>3. version \in Nat
  BY ZenonT(60) DEF SecretInv, KeysInv
<1>4. version' \in Nat /\ tasks' \in SUBSET Tasks
  <2>1. CASE Done(h) /\ UNCHANGED version
    BY <1>3, <2>1, TaskGone, ZenonT(60)
  <2>2. CASE version' = version + 1 /\ To(h, "store", version')
    <3>1. version' \in Nat \ {0}
      BY <1>3, <2>2, SMTT(30)
    <3>2. [h EXCEPT !.step = "store", !.secret = version'] \in Tasks
      BY <1>2, <3>1, MovedTask
    <3>3. QED
      BY <2>2, <3>1, <3>2, TaskMoved, ZenonT(60)
  <2>3. QED
    BY <2>1, <2>2, ZenonT(60) DEF Round1Generate
<1>5. /\ deQueue' \in Seq(Held) /\ assigned' \in [Signings -> Held \cup {0}]
      /\ newDEs' \in SUBSET Held /\ fresh' \in SUBSET DEs
      /\ msgCh' \in Seq(Messages) /\ sentTxs' \in SUBSET Seq(Messages)
      /\ senders' \in [SenderKeys -> [msgs : Seq(Messages), try : Nat]]
  BY <1>1, ZenonT(60) DEF SecretInv, NoncesInv, MailInv
<1>6. QED
  BY <1>1, <1>4, <1>5, SecretFrame, ZenonT(60)

\* Only the data of the key generations and the keys are written.
LEMMA KeysWritten ==
  ASSUME SecretInv, KeysInv', Has \subseteq Has', Keyed \subseteq Keyed', tasks' \in SUBSET Tasks',
         UNCHANGED <<privDE, commit, spent, deQueue, assigned, newDEs, fresh, sentTxs, senders, msgCh>>
  PROVE  SecretInv'
<1>1. Held' = Held
  BY Zenon DEF Held
<1>2. NoncesInv'
  BY <1>1, ZenonT(60) DEF SecretInv, NoncesInv
<1>3. /\ msgCh' \in Seq(Messages) /\ sentTxs' \in SUBSET Seq(Messages)
      /\ senders' \in [SenderKeys -> [msgs : Seq(Messages), try : Nat]]
  BY ZenonT(60) DEF SecretInv, MailInv
<1>4. QED
  BY <1>1, <1>2, <1>3, SecretGrows, ZenonT(60)

\* A goroutine of group creation that moves on, in the next state.
LEMMA TaskMovedOn ==
  ASSUME SecretInv, Has \subseteq Has', Keyed \subseteq Keyed', UNCHANGED <<privDE, commit, spent>>,
         NEW h \in tasks, h.worker \in {"round1", "round3"}, h.id \in Groups,
         NEW step \in {"store", "send", "first", "second"}, NEW secret \in Nat \ {0},
         h.worker = "round1" /\ step = "send" => h.id \in Has',
         h.worker = "round3" => secret = commit[h.id],
         h.worker = "round3" /\ step \in {"second", "send"} => h.id \in Keyed',
         To(h, step, secret)
  PROVE  tasks' \in SUBSET Tasks'
<1>1. Held' = Held
  BY ZenonT(60) DEF Held
<1>2. Tasks \subseteq Tasks'
  BY <1>1, NothingForgotten, ZenonT(60)
<1>3. h \in Tasks'
  BY <1>2, ZenonT(60) DEF SecretInv
<1>4. [h EXCEPT !.step = step, !.secret = secret] \in Tasks'
  <2>1. PICK has, keyed, c, used : has = Has' /\ keyed = Keyed' /\ c = commit /\ used = spent
    BY Zenon
  <2>2. Tasks' = GoodTasks(has, keyed, c, used)
    BY <2>1, ZenonT(60) DEF Tasks
  <2>3. /\ h \in GoodTasks(has, keyed, c, used)
        /\ h.worker = "round1" /\ step = "send" => h.id \in has
        /\ h.worker = "round3" => secret = c[h.id]
        /\ h.worker = "round3" /\ step \in {"second", "send"} => h.id \in keyed
    BY <1>3, <2>1, <2>2, ZenonT(60)
  <2>4. [h EXCEPT !.step = step, !.secret = secret] \in GoodTasks(has, keyed, c, used)
    BY <2>3 DEF GoodTasks
  <2>5. QED
    BY <2>2, <2>4, ZenonT(60)
<1>5. QED
  BY <1>2, <1>4, ZenonT(60) DEF To, SecretInv

\* Round1Store may replace a secret by a newer one, never by none.
LEMMA StoreSecrets ==
  ASSUME SecretInv, NEW h \in tasks, Round1Store(h)
  PROVE  SecretInv'
<1>1. UNCHANGED <<groupKey, privDE, commit, spent, answer, version, deQueue, assigned, newDEs, fresh,
                  sentTxs, senders, msgCh>>
  BY DEF Round1Store, member, deWorker
<1>2. /\ h.worker = "round1" /\ h.id \in Groups /\ h.secret \in Nat \ {0}
      /\ dkg' = [dkg EXCEPT ![h.id] = h.secret] /\ To(h, "send", h.secret)
  <2>1. h.worker = "round1" /\ h.step = "store" /\ dkg' = [dkg EXCEPT ![h.id] = h.secret] /\ To(h, "send", h.secret)
    BY ZenonT(60) DEF Round1Store
  <2>2. h.id \in Groups /\ h.secret \in Nat /\ h.secret # 0
    BY <2>1, TaskFacts, SMTT(30)
  <2>3. QED
    BY <2>1, <2>2, SMTT(30)
<1>3. dkg \in [Groups -> Nat]
  BY Zenon DEF SecretInv, KeysInv
<1>4. dkg' \in [Groups -> Nat] /\ \A g \in Groups : dkg'[g] = IF g = h.id THEN h.secret ELSE dkg[g]
  BY <1>2, <1>3, SMTT(30)
<1>5. Has \subseteq Has' /\ h.id \in Has' /\ Keyed' = Keyed
  BY <1>1, <1>2, <1>4, SMTT(30) DEF Has, Keyed
<1>6. KeysInv'
  BY <1>1, <1>4, <1>5, ZenonT(60) DEF SecretInv, KeysInv
<1>7. tasks' \in SUBSET Tasks'
  BY <1>1, <1>2, <1>5, TaskMovedOn, SMTT(30)
<1>8. QED
  BY <1>1, <1>5, <1>6, <1>7, KeysWritten, Zenon

\* Round3Write: the key is stored before the secret it is made of is deleted.
LEMMA WriteSecrets ==
  ASSUME SecretInv, NEW h \in tasks, Round3Write(h)
  PROVE  SecretInv'
<1>1. UNCHANGED <<privDE, commit, spent, answer, version, deQueue, assigned, newDEs, fresh,
                  sentTxs, senders, msgCh>>
  BY DEF Round3Write, member, deWorker
<1>2. h.worker = "round3" /\ h.step \in {"first", "second"}
  BY ZenonT(60) DEF Round3Write
<1>3. /\ h.id \in Groups /\ h.secret \in Nat \ {0} /\ h.secret = commit[h.id]
      /\ h.step = "second" => h.id \in Keyed
  BY <1>2, TaskFacts, SMTT(30)
<1>4. /\ dkg \in [Groups -> Nat] /\ groupKey \in [Groups -> Nat] /\ commit \in [Groups -> Nat]
      /\ \A g \in Groups : /\ groupKey[g] # 0 => groupKey[g] = commit[g]
                           /\ commit[g] # 0 => g \in Has
                           /\ answer[g] = "confirm" => g \in Keyed
      /\ version \in Nat
  BY Zenon DEF SecretInv, KeysInv
<1>5. CASE h.step = "first"
  <2>1. groupKey' = [groupKey EXCEPT ![h.id] = h.secret] /\ dkg' = dkg /\ To(h, "second", h.secret)
    BY <1>5, SMTT(30) DEF Round3Write, KeySteps
  <2>2. /\ groupKey' \in [Groups -> Nat]
        /\ \A g \in Groups : groupKey'[g] = IF g = h.id THEN h.secret ELSE groupKey[g]
    BY <1>3, <1>4, <2>1, SMTT(30)
  <2>3. Has \subseteq Has' /\ Keyed \subseteq Keyed' /\ h.id \in Keyed'
    BY <1>3, <2>1, <2>2, SMTT(30) DEF Has, Keyed
  <2>4. \A g \in Groups : groupKey'[g] # 0 => groupKey'[g] = commit[g]
    BY <1>3, <1>4, <2>2, SMTT(30)
  <2>5. KeysInv'
    BY <1>1, <1>4, <2>1, <2>2, <2>3, <2>4, ZenonT(60) DEF KeysInv
  <2>6. tasks' \in SUBSET Tasks'
    BY <1>1, <1>2, <1>3, <2>1, <2>3, TaskMovedOn, SMTT(30)
  <2>7. QED
    BY <1>1, <2>3, <2>5, <2>6, KeysWritten, ZenonT(60)
<1>6. CASE h.step = "second"
  <2>1. groupKey' = groupKey /\ dkg' = [dkg EXCEPT ![h.id] = 0] /\ To(h, "send", h.secret)
    BY <1>6, SMTT(30) DEF Round3Write, KeySteps
  <2>2. dkg' \in [Groups -> Nat] /\ \A g \in Groups : g # h.id => dkg'[g] = dkg[g]
    BY <1>3, <1>4, <2>1, SMTT(30)
  <2>3. Keyed' = Keyed /\ h.id \in Keyed
    BY <1>3, <1>6, <2>1, ZenonT(60) DEF Keyed
  <2>4. Has \subseteq Has'
    BY <1>3, <2>1, <2>2, <2>3, SMTT(30) DEF Has, Keyed
  <2>5. KeysInv'
    BY <1>1, <1>4, <2>1, <2>2, <2>3, <2>4, ZenonT(60) DEF KeysInv
  <2>6. tasks' \in SUBSET Tasks'
    BY <1>1, <1>2, <1>3, <2>1, <2>3, <2>4, TaskMovedOn, SMTT(30)
  <2>7. QED
    BY <1>1, <2>3, <2>4, <2>5, <2>6, KeysWritten, ZenonT(60)
<1>7. QED
  BY <1>2, <1>5, <1>6, ZenonT(60)

-----------------------------------------------------------------------------
\* Goroutines that end with a message, or with none.
LEMMA SendSecrets ==
  ASSUME SecretInv, NEW h \in tasks,
         \/ Round1Send(h) \/ Round2Handle(h) \/ Round3Handle(h) \/ Round3Send(h)
         \/ HandleSigning(h)
  PROVE  SecretInv'
<1>1. UNCHANGED <<dkg, groupKey, privDE, commit, spent, answer, version, deQueue, assigned, newDEs,
                  fresh, sentTxs, senders>>
  BY DEF Round1Send, Round2Handle, Round3Handle, Round3Send, HandleSigning, member,
         store, deWorker
<1>2. msgCh \in Seq(Messages) /\ tasks \in SUBSET Tasks
  BY ZenonT(60) DEF SecretInv, MailInv
<1>3. h \in Tasks /\ h.secret \in Nat
  BY TaskFacts, ZenonT(60)
<1>4. /\ dkg \in [Groups -> Nat] /\ groupKey \in [Groups -> Nat]
      /\ \A g \in Groups : groupKey[g] # 0 => groupKey[g] = commit[g]
  BY ZenonT(60) DEF SecretInv, KeysInv
<1>5. CASE Round1Send(h)
  <2>1. h.worker = "round1" /\ h.step = "send" /\ Send("round1", h.id, h.secret) /\ Done(h)
    BY <1>5, ZenonT(60) DEF Round1Send
  <2>2. h.id \in Has /\ h.secret \in Nat \ {0} /\ h.id \in Groups
    BY <2>1, TaskFacts
  <2>3. [type |-> "round1", id |-> h.id, secret |-> h.secret] \in Messages
    BY <2>2 DEF Messages, GoodMessages
  <2>4. QED
    BY <1>1, <2>1, <2>3, Mailed, TaskGone, TaskFrame, ZenonT(60)
<1>6. CASE Round2Handle(h)
  <2>1. /\ h.worker = "round2" /\ Done(h)
        /\ Send("round2", h.id, dkg[h.id]) \/ UNCHANGED msgCh
    BY <1>6, ZenonT(60) DEF Round2Handle
  <2>2. h.id \in Groups
    BY <2>1, TaskFacts, ZenonT(60)
  <2>3. [type |-> "round2", id |-> h.id, secret |-> dkg[h.id]] \in Messages
    <3>1. dkg[h.id] \in Nat
      BY <1>4, <2>2, ZenonT(60)
    <3>2. QED
      BY <2>2, <3>1, SMTT(30) DEF Messages, GoodMessages
  <2>4. msgCh' \in Seq(Messages)
    BY <1>2, <2>1, <2>3, Mailed, ZenonT(60)
  <2>5. QED
    BY <1>1, <2>1, <2>4, TaskGone, TaskFrame, ZenonT(60)
<1>7. CASE Round3Handle(h)
  <2>1. h.worker = "round3"
    BY <1>7, ZenonT(60) DEF Round3Handle
  <2>2. h.id \in Groups
    BY <2>1, TaskFacts, ZenonT(60)
  <2>3. \/ Done(h) /\ UNCHANGED msgCh
        \/ groupKey[h.id] # 0 /\ To(h, "send", groupKey[h.id]) /\ UNCHANGED msgCh
        \/ dkg[h.id] # 0 /\ SharesMatch(h.id) /\ To(h, "first", dkg[h.id]) /\ UNCHANGED msgCh
        \/ Done(h) /\ Send("complain", h.id, 0)
    BY <1>7, ZenonT(60) DEF Round3Handle
  <2>4. CASE Done(h) /\ UNCHANGED msgCh
    BY <1>1, <1>2, <2>4, TaskGone, TaskFrame, ZenonT(60)
  <2>5. CASE groupKey[h.id] # 0 /\ To(h, "send", groupKey[h.id]) /\ UNCHANGED msgCh
    <3>1. groupKey[h.id] \in Nat \ {0} /\ groupKey[h.id] = commit[h.id] /\ h.id \in Keyed
      BY <1>4, <2>2, <2>5, SMTT(30) DEF Keyed
    <3>2. [h EXCEPT !.step = "send", !.secret = groupKey[h.id]] \in Tasks
      BY <1>3, <2>1, <2>2, <3>1, MovedTask
    <3>3. QED
      BY <1>1, <1>2, <2>5, <3>2, TaskMoved, TaskFrame, ZenonT(60)
  <2>6. CASE dkg[h.id] # 0 /\ SharesMatch(h.id) /\ To(h, "first", dkg[h.id]) /\ UNCHANGED msgCh
    <3>1. dkg[h.id] \in Nat \ {0} /\ dkg[h.id] = commit[h.id]
      BY <1>4, <2>2, <2>6, SMTT(30) DEF SharesMatch
    <3>2. [h EXCEPT !.step = "first", !.secret = dkg[h.id]] \in Tasks
      BY <1>3, <2>1, <2>2, <3>1, MovedTask
    <3>3. QED
      BY <1>1, <1>2, <2>6, <3>2, TaskMoved, TaskFrame, ZenonT(60)
  <2>7. CASE Done(h) /\ Send("complain", h.id, 0)
    <3>1. [type |-> "complain", id |-> h.id, secret |-> 0] \in Messages
      BY <2>2, SMTT(30) DEF Messages, GoodMessages
    <3>2. QED
      BY <1>1, <2>7, <3>1, Mailed, TaskGone, TaskFrame, ZenonT(60)
  <2>8. QED
    BY <2>3, <2>4, <2>5, <2>6, <2>7, ZenonT(60)
<1>8. CASE Round3Send(h)
  <2>1. h.worker = "round3" /\ h.step = "send" /\ Send("confirm", h.id, h.secret) /\ Done(h)
    BY <1>8, ZenonT(60) DEF Round3Send
  <2>2. h.id \in Keyed /\ h.id \in Groups
    BY <2>1, TaskFacts, SMTT(30)
  <2>3. [type |-> "confirm", id |-> h.id, secret |-> h.secret] \in Messages
    BY <1>3, <2>2, SMTT(30) DEF Messages, GoodMessages
  <2>4. QED
    BY <1>1, <2>1, <2>3, Mailed, TaskGone, TaskFrame, ZenonT(60)
<1>9. CASE HandleSigning(h)
  <2>1. /\ h.worker = "signing" /\ Done(h)
        /\ \/ assigned[h.id] # 0 /\ Send("sign", h.id, assigned[h.id])
           \/ UNCHANGED msgCh
    BY <1>9, ZenonT(60) DEF HandleSigning
  <2>2. h.id \in Signings
    BY <2>1, TaskFacts, ZenonT(60)
  <2>3. assigned[h.id] \in Held \cup {0}
    BY <2>2, ZenonT(60) DEF SecretInv, NoncesInv
  <2>4. assigned[h.id] # 0 => [type |-> "sign", id |-> h.id, secret |-> assigned[h.id]] \in Messages
    <3>1. PICK d : d = assigned[h.id]
      BY ZenonT(60)
    <3>2. d # 0 => d \in DEs
      BY <2>3, <3>1, ZenonT(60) DEF Held
    <3>3. d # 0 => [type |-> "sign", id |-> h.id, secret |-> d] \in Messages
      BY <2>2, <3>2, SMTT(30) DEF Messages, GoodMessages
    <3>4. QED
      BY <3>1, <3>3, ZenonT(60)
  <2>5. msgCh' \in Seq(Messages)
    BY <1>2, <2>1, <2>4, Mailed, ZenonT(60)
  <2>6. QED
    BY <1>1, <2>1, <2>5, TaskGone, TaskFrame, ZenonT(60)
<1>10. QED
  BY <1>5, <1>6, <1>7, <1>8, <1>9, ZenonT(60)

-----------------------------------------------------------------------------
\* Only private halves of nonces are written or deleted.
LEMMA NoncesWritten ==
  ASSUME SecretInv, Held \subseteq Held', newDEs' \in SUBSET Held', fresh' \in SUBSET DEs,
         tasks' \subseteq tasks,
         UNCHANGED <<dkg, groupKey, commit, spent, answer, version, deQueue, assigned, sentTxs,
                     senders, msgCh>>
  PROVE  SecretInv'
<1>1. Has' = Has /\ Keyed' = Keyed
  BY SMTT(30) DEF Has, Keyed
<1>2. KeysInv'
  BY <1>1, ZenonT(60) DEF SecretInv, KeysInv
<1>3. /\ Tasks \subseteq Tasks' /\ Seq(Held) \subseteq Seq(Held')
  BY <1>1, NothingForgotten, ZenonT(60)
<1>4. NoncesInv'
  <2>1. \A S, T : S \subseteq T => [Signings -> S \cup {0}] \subseteq [Signings -> T \cup {0}]
    BY ZenonT(60)
  <2>2. assigned' \in [Signings -> Held' \cup {0}] /\ deQueue' \in Seq(Held')
    BY <1>3, <2>1, ZenonT(60) DEF SecretInv, NoncesInv
  <2>3. QED
    BY <2>2, ZenonT(60) DEF NoncesInv
<1>5. tasks' \in SUBSET Tasks'
  BY <1>3, ZenonT(60) DEF SecretInv
<1>6. /\ msgCh' \in Seq(Messages) /\ sentTxs' \in SUBSET Seq(Messages)
      /\ senders' \in [SenderKeys -> [msgs : Seq(Messages), try : Nat]]
  BY ZenonT(60) DEF SecretInv, MailInv
<1>7. QED
  BY <1>1, <1>2, <1>4, <1>5, <1>6, SecretGrows, ZenonT(60)

\* IntervalUpdateDE and HandleAssigned: new nonces are stored before they are sent.
LEMMA UpdateSecrets ==
  ASSUME SecretInv, IntervalUpdateDE \/ \E h \in tasks : HandleAssigned(h)
  PROVE  SecretInv'
<1>1. UNCHANGED <<dkg, groupKey, commit, spent, answer, version, deQueue, assigned, sentTxs,
                  senders, msgCh>>
  BY SMTT(30) DEF IntervalUpdateDE, HandleAssigned, member
<1>2. tasks' \subseteq tasks
  BY ZenonT(60) DEF IntervalUpdateDE, HandleAssigned, Done
<1>3. (\E n : UpdateDE(n)) \/ UNCHANGED <<fresh, privDE, newDEs>>
  BY ZenonT(60) DEF IntervalUpdateDE, HandleAssigned
<1>4. newDEs \in SUBSET Held /\ fresh \in SUBSET DEs
  BY ZenonT(60) DEF SecretInv, NoncesInv
<1>5. CASE UNCHANGED <<fresh, privDE, newDEs>>
  <2>1. Held' = Held
    BY <1>1, <1>5, ZenonT(60) DEF Held
  <2>2. QED
    BY <1>1, <1>2, <1>4, <1>5, <2>1, NoncesWritten, ZenonT(60)
<1>6. ASSUME NEW n, UpdateDE(n) PROVE SecretInv'
  <2>1. CASE CanUpdateDE
    <3>1. PICK des \in SUBSET fresh :
            fresh' = fresh \ des /\ privDE' = privDE \cup des /\ newDEs' \subseteq des
      BY <1>6, <2>1, ZenonT(60) DEF UpdateDE
    <3>2. Held \subseteq Held' /\ newDEs' \in SUBSET Held' /\ fresh' \in SUBSET DEs
      BY <1>1, <1>4, <3>1, ZenonT(60) DEF Held
    <3>3. QED
      BY <1>1, <1>2, <3>2, NoncesWritten, ZenonT(60)
  <2>2. CASE ~ CanUpdateDE
    BY <1>5, <1>6, <2>2, ZenonT(60) DEF UpdateDE
  <2>3. QED
    BY <2>1, <2>2, SMTT(30)
<1>7. QED
  BY <1>3, <1>5, <1>6, ZenonT(60)

\* What is deleted is used up.
LEMMA DeleteSecrets ==
  ASSUME SecretInv, NEW h \in tasks, DeleteDE(h)
  PROVE  SecretInv'
<1>1. UNCHANGED <<dkg, groupKey, commit, spent, answer, version, deQueue, assigned, newDEs, fresh,
                  sentTxs, senders, msgCh>>
  BY SMTT(30) DEF DeleteDE, member, deWorker
<1>2. h.worker = "deleted" /\ privDE' = privDE \ {h.id} /\ tasks' \subseteq tasks
  BY ZenonT(60) DEF DeleteDE, Done
<1>3. h.id \in spent
  BY <1>2, TaskFacts, ZenonT(60)
<1>4. Held' = Held
  BY <1>1, <1>2, <1>3, ZenonT(60) DEF Held
<1>5. newDEs' \in SUBSET Held' /\ fresh' \in SUBSET DEs
  BY <1>1, <1>4, ZenonT(60) DEF SecretInv, NoncesInv
<1>6. QED
  BY <1>1, <1>2, <1>4, <1>5, NoncesWritten, ZenonT(60)

\* SendDEs sends the nonces that were stored.
LEMMA SendNonces ==
  ASSUME SecretInv, SendDEs
  PROVE  SecretInv'
<1>1. UNCHANGED <<dkg, groupKey, privDE, commit, spent, answer, version, deQueue, assigned, fresh,
                  sentTxs, senders, tasks>>
  BY SMTT(30) DEF SendDEs, member, store
<1>2. Send("des", 0, newDEs) /\ newDEs' = {}
  BY ZenonT(60) DEF SendDEs
<1>3. newDEs \in SUBSET Held
  BY ZenonT(60) DEF SecretInv, NoncesInv
<1>4. [type |-> "des", id |-> 0, secret |-> newDEs] \in Messages
  BY <1>3, SMTT(30) DEF Messages, GoodMessages, Held
<1>5. msgCh' \in Seq(Messages)
  BY <1>2, <1>4, Mailed, SMTT(30)
<1>6. /\ version' \in Nat /\ deQueue' \in Seq(Held) /\ assigned' \in [Signings -> Held \cup {0}]
      /\ newDEs' \in SUBSET Held /\ fresh' \in SUBSET DEs /\ sentTxs' \in SUBSET Seq(Messages)
      /\ senders' \in [SenderKeys -> [msgs : Seq(Messages), try : Nat]] /\ tasks' \in SUBSET Tasks
  BY <1>1, <1>2, ZenonT(60) DEF SecretInv, KeysInv, NoncesInv, MailInv
<1>7. QED
  BY <1>1, <1>5, <1>6, SecretFrame, ZenonT(60)

-----------------------------------------------------------------------------
\* The sender, and a crash.
LEMMA SenderSecrets ==
  ASSUME SecretInv, NEW k \in SenderKeys,
         \/ \E fails \in BOOLEAN : SendMsgs(k, fails)
         \/ TryAgain(k) \/ ReturnSenderKey(k)
  PROVE  SecretInv'
<1>1. UNCHANGED <<dkg, groupKey, privDE, commit, spent, answer, version, deQueue, assigned, fresh>>
  BY DEF SendMsgs, TryAgain, ReturnSenderKey, member, store, deWorker
<1>2. tasks' \subseteq tasks /\ newDEs' \subseteq newDEs
  BY DEF SendMsgs, TryAgain, ReturnSenderKey, deWorker
<1>3. /\ msgCh \in Seq(Messages) /\ sentTxs \in SUBSET Seq(Messages)
      /\ senders \in [SenderKeys -> [msgs : Seq(Messages), try : Nat]]
  BY Zenon DEF SecretInv, MailInv
<1>4. Idle \in [msgs : Seq(Messages), try : Nat]
  BY SMTT(30) DEF Idle
<1>5. /\ msgCh' \in Seq(Messages) /\ sentTxs' \in SUBSET Seq(Messages)
      /\ senders' \in [SenderKeys -> [msgs : Seq(Messages), try : Nat]]
  <2>1. ASSUME NEW fails \in BOOLEAN, SendMsgs(k, fails)
        PROVE  /\ msgCh' \in Seq(Messages) /\ sentTxs' \in SUBSET Seq(Messages)
               /\ senders' \in [SenderKeys -> [msgs : Seq(Messages), try : Nat]]
    <3>1. PICK n : n = IF Len(msgCh) < MaxMessages THEN Len(msgCh) ELSE MaxMessages
      BY ZenonT(60)
    <3>2. MaxMessages \in Nat \ {0}
      BY ZenonT(60) DEF SecretInv, CylinderParameters
    <3>3. n \in Nat /\ n <= Len(msgCh)
      BY <1>3, <3>1, <3>2, SMTT(30)
    <3>4. PICK msgs : msgs = SubSeq(msgCh, 1, n)
      BY ZenonT(60)
    <3>5. msgs \in Seq(Messages) /\ SubSeq(msgCh, n + 1, Len(msgCh)) \in Seq(Messages)
      BY <1>3, <3>3, <3>4, SMTT(30)
    <3>6. /\ senders' = [senders EXCEPT ![k] = [msgs |-> msgs, try |-> 1]]
          /\ msgCh' = SubSeq(msgCh, n + 1, Len(msgCh))
          /\ sentTxs' = IF fails THEN sentTxs ELSE sentTxs \cup {msgs}
      BY <2>1, <3>1, <3>4, ZenonT(60) DEF SendMsgs, BroadcastMsgs
    <3>7. [msgs |-> msgs, try |-> 1] \in [msgs : Seq(Messages), try : Nat]
      BY <3>5, SMTT(30)
    <3>8. senders' \in [SenderKeys -> [msgs : Seq(Messages), try : Nat]]
      BY <1>3, <3>6, <3>7, ZenonT(60)
    <3>9. QED
      BY <1>3, <3>5, <3>6, <3>8, ZenonT(60)
  <2>2. CASE TryAgain(k)
    <3>1. /\ senders' = [senders EXCEPT ![k].try = senders[k].try + 1]
          /\ sentTxs' = sentTxs \cup {senders[k].msgs} /\ msgCh' = msgCh
      BY <2>2, SMTT(30) DEF TryAgain, BroadcastMsgs
    <3>2. senders[k].msgs \in Seq(Messages) /\ senders[k].try \in Nat
      BY <1>3, SMTT(30)
    <3>3. \A S : senders \in [SenderKeys -> [msgs : S, try : Nat]] =>
                  [senders EXCEPT ![k].try = senders[k].try + 1] \in [SenderKeys -> [msgs : S, try : Nat]]
      BY SMTT(30)
    <3>4. QED
      BY <1>3, <3>1, <3>2, <3>3, ZenonT(60)
  <2>3. CASE ReturnSenderKey(k)
    <3>1. senders' = [senders EXCEPT ![k] = Idle] /\ msgCh' = msgCh /\ sentTxs' = sentTxs
      BY <2>3, SMTT(30) DEF ReturnSenderKey
    <3>2. QED
      BY <1>3, <1>4, <3>1, ZenonT(60)
  <2>4. QED
    BY <2>1, <2>2, <2>3, ZenonT(60)
<1>6. /\ version' \in Nat /\ deQueue' \in Seq(Held) /\ assigned' \in [Signings -> Held \cup {0}]
      /\ newDEs' \in SUBSET Held /\ fresh' \in SUBSET DEs /\ tasks' \in SUBSET Tasks
  BY <1>1, <1>2, ZenonT(60) DEF SecretInv, KeysInv, NoncesInv
<1>7. QED
  BY <1>1, <1>5, <1>6, SecretFrame, ZenonT(60)

\* A crash loses goroutines, channel and keys at work, never the store.
LEMMA CrashSecrets ==
  ASSUME SecretInv, CrashCylinder
  PROVE  SecretInv'
<1>1. UNCHANGED <<dkg, groupKey, privDE, commit, spent, answer, version, deQueue, assigned, fresh>>
  BY SMTT(30) DEF CrashCylinder, member, store, deWorker
<1>2. newDEs' \subseteq newDEs /\ tasks' \subseteq tasks
  BY SMTT(30) DEF CrashCylinder, deWorker
<1>3. msgCh' = <<>> /\ senders' = [x \in SenderKeys |-> Idle] /\ sentTxs' = sentTxs
  BY SMTT(30) DEF CrashCylinder
<1>4. Idle \in [msgs : Seq(Messages), try : Nat]
  BY SMTT(30) DEF Idle
<1>5. msgCh' \in Seq(Messages)
  BY <1>3, SMTT(30)
<1>6. sentTxs' \in SUBSET Seq(Messages)
  BY <1>3, ZenonT(60) DEF SecretInv, MailInv
<1>7. senders' \in [SenderKeys -> [msgs : Seq(Messages), try : Nat]]
  BY <1>3, <1>4, ZenonT(60)
<1>8. /\ version' \in Nat /\ deQueue' \in Seq(Held) /\ assigned' \in [Signings -> Held \cup {0}]
      /\ newDEs' \in SUBSET Held /\ fresh' \in SUBSET DEs /\ tasks' \in SUBSET Tasks
  BY <1>1, <1>2, ZenonT(60) DEF SecretInv, KeysInv, NoncesInv
<1>9. QED
  BY <1>1, <1>5, <1>6, <1>7, <1>8, SecretFrame, ZenonT(60)

-----------------------------------------------------------------------------
\* The messages of a transaction that the chain accepts.
LEMMA AcceptedMessages ==
  ASSUME SecretInv, NEW tx \in sentTxs, Valid(tx), NEW type, NEW m \in Of(tx, type)
  PROVE  m.type = type /\ m \in Messages /\ AcceptsMsg(m)
<1>1. PICK i \in DOMAIN tx : m = tx[i] /\ tx[i].type = type
  BY ZenonT(60) DEF Of
<1>2. tx \in Seq(Messages)
  BY ZenonT(60) DEF SecretInv, MailInv
<1>3. tx[i] \in Messages
  BY <1>1, <1>2, SMTT(30)
<1>4. AcceptsMsg(tx[i])
  BY <1>1, ZenonT(60) DEF Valid
<1>5. QED
  BY <1>1, <1>3, <1>4, ZenonT(60)

\* A commitment is accepted once, and its secret is stored.
LEMMA CommitAccepted ==
  ASSUME SecretInv, NEW tx \in sentTxs, Valid(tx), commit' = Applied(commit, Of(tx, "round1"))
  PROVE  /\ commit' \in [Groups -> Nat]
         /\ \A g \in Groups : \/ commit'[g] = commit[g]
                              \/ commit[g] = 0 /\ g \in Has
<1>1. commit \in [Groups -> Nat]
  BY ZenonT(60) DEF SecretInv, KeysInv
<1>2. PICK R : R = Of(tx, "round1")
  BY ZenonT(60)
<1>3. ASSUME NEW m \in R
      PROVE  m.id \in Has /\ m.secret \in Nat /\ commit[m.id] = 0
  <2>1. m.type = "round1" /\ m \in Messages /\ AcceptsMsg(m)
    BY <1>2, <1>3, AcceptedMessages, ZenonT(60)
  <2>2. m.id \in Has /\ m.secret \in Nat
    BY <2>1, SMTT(30) DEF Messages, GoodMessages
  <2>3. commit[m.id] = 0
    BY <2>1, SMTT(30) DEF AcceptsMsg
  <2>4. QED
    BY <2>2, <2>3, SMTT(30)
<1>4. commit' = [x \in Groups |-> IF \E m \in R : m.id = x
                                   THEN (CHOOSE m \in R : m.id = x).secret ELSE commit[x]]
  <2>1. DOMAIN commit = Groups
    BY <1>1, ZenonT(60)
  <2>2. QED
    BY <1>2, <2>1, ZenonT(60) DEF Applied
<1>5. ASSUME NEW g \in Groups
      PROVE  /\ commit'[g] \in Nat
             /\ commit'[g] = commit[g] \/ (commit[g] = 0 /\ g \in Has)
  <2>1. CASE \E m \in R : m.id = g
    <3>1. PICK c : c = CHOOSE m \in R : m.id = g
      BY ZenonT(60)
    <3>2. c \in R /\ c.id = g
      BY <2>1, <3>1, ZenonT(60)
    <3>3. commit'[g] = c.secret
      BY <1>4, <2>1, <3>1, ZenonT(60)
    <3>4. QED
      BY <1>3, <3>2, <3>3, ZenonT(60)
  <2>2. CASE ~ \E m \in R : m.id = g
    <3>1. commit'[g] = commit[g]
      BY <1>4, <2>2, ZenonT(60)
    <3>2. commit[g] \in Nat
      BY <1>1, ZenonT(60)
    <3>3. QED
      BY <3>1, <3>2, ZenonT(60)
  <2>3. QED
    BY <2>1, <2>2, ZenonT(60)
<1>6. commit' \in [Groups -> Nat]
  <2>1. PICK c : c = commit'
    BY ZenonT(60)
  <2>2. c = [x \in Groups |-> c[x]]
    BY <1>4, <2>1, ZenonT(60)
  <2>3. \A x \in Groups : c[x] \in Nat
    BY <1>5, <2>1, ZenonT(60)
  <2>4. c \in [Groups -> Nat]
    BY <2>2, <2>3, SMTT(30)
  <2>5. QED
    BY <2>1, <2>4, ZenonT(60)
<1>7. QED
  BY <1>5, <1>6, ZenonT(60)

\* Nonces that the chain takes into the queue are held.
LEMMA NoncesAccepted ==
  ASSUME SecretInv, NEW tx \in sentTxs, Valid(tx),
         deQueue' = deQueue \o Listed(UNION {m.secret : m \in Of(tx, "des")})
  PROVE  deQueue' \in Seq(Held)
<1>1. PICK U : U = UNION {m.secret : m \in Of(tx, "des")}
  BY ZenonT(60)
<1>2. ASSUME NEW m \in Of(tx, "des")
      PROVE  m.secret \in SUBSET Held
  <2>1. m.type = "des" /\ m \in Messages
    BY <1>2, AcceptedMessages, ZenonT(60)
  <2>2. QED
    BY <2>1, SMTT(30) DEF Messages, GoodMessages
<1>3. U \subseteq Held
  BY <1>1, <1>2, ZenonT(60)
<1>4. IsFiniteSet(U)
  <2>1. IsFiniteSet(DEs)
    BY ZenonT(60) DEF SecretInv, CylinderParameters
  <2>2. U \subseteq DEs
    BY <1>3, ZenonT(60) DEF Held
  <2>3. QED
    BY <2>1, <2>2, FS_Subset, SMTT(30)
<1>5. Listed(U) \in Seq(U)
  BY <1>4, ListedIsSeq, SMTT(30)
<1>6. Listed(U) \in Seq(Held)
  BY <1>3, <1>5, SeqGrows, ZenonT(60)
<1>7. deQueue \in Seq(Held)
  BY ZenonT(60) DEF SecretInv, NoncesInv
<1>8. PICK q : q = Listed(U)
  BY ZenonT(60)
<1>9. deQueue' = deQueue \o q /\ q \in Seq(Held)
  BY <1>1, <1>6, <1>8, ZenonT(60)
<1>10. \A S : \A a, b \in Seq(S) : a \o b \in Seq(S)
  BY SMTT(30)
<1>11. QED
  BY <1>7, <1>9, <1>10, ZenonT(60)

\* A transaction is applied whole or not at all, and what it promises can be kept.
LEMMA CommitSecrets ==
  ASSUME SecretInv, NEW tx \in sentTxs, CommitTx(tx)
  PROVE  SecretInv'
<1>1. UNCHANGED <<dkg, groupKey, privDE, version, newDEs, fresh, senders, msgCh>>
  BY SMTT(30) DEF CommitTx, store, deWorker
<1>2. sentTxs' \subseteq sentTxs
  BY ZenonT(60) DEF CommitTx
<1>3. /\ msgCh' \in Seq(Messages) /\ sentTxs' \in SUBSET Seq(Messages)
      /\ senders' \in [SenderKeys -> [msgs : Seq(Messages), try : Nat]]
  BY <1>1, <1>2, ZenonT(60) DEF SecretInv, MailInv
<1>4. CASE ~ Valid(tx)
  <2>1. UNCHANGED <<commit, answer, deQueue, assigned, spent, tasks>>
    BY <1>4 DEF CommitTx
  <2>2. /\ version' \in Nat /\ deQueue' \in Seq(Held) /\ assigned' \in [Signings -> Held \cup {0}]
        /\ newDEs' \in SUBSET Held /\ fresh' \in SUBSET DEs /\ tasks' \in SUBSET Tasks
    BY <1>1, <2>1, ZenonT(60) DEF SecretInv, KeysInv, NoncesInv
  <2>3. QED
    BY <1>1, <1>3, <2>1, <2>2, SecretFrame, ZenonT(60)
<1>5. CASE Valid(tx)
  <2>1. PICK signed : signed = Of(tx, "sign")
    BY ZenonT(60)
  <2>2. /\ commit' = Applied(commit, Of(tx, "round1"))
        /\ answer' = Answered(tx)
        /\ deQueue' = deQueue \o Listed(UNION {m.secret : m \in Of(tx, "des")})
        /\ spent' = spent \cup {m.secret : m \in signed}
        /\ assigned' = [s \in Signings |-> IF \E m \in signed : m.id = s THEN 0 ELSE assigned[s]]
        /\ Notify({Handler("deleted", m.secret, "event") : m \in signed})
    BY <1>5, <2>1, ZenonT(60) DEF CommitTx
  <2>3. \A m \in signed : m.secret \in DEs
    <3>1. \A m \in signed : m.type = "sign" /\ m \in Messages
      BY <1>5, <2>1, AcceptedMessages, ZenonT(60)
    <3>2. QED
      BY <3>1, SMTT(30) DEF Messages, GoodMessages
  <2>4. /\ commit' \in [Groups -> Nat]
        /\ \A g \in Groups : commit'[g] = commit[g] \/ (commit[g] = 0 /\ g \in Has)
    BY <1>5, <2>2, CommitAccepted
  <2>5. deQueue' \in Seq(Held)
    BY <1>5, <2>2, NoncesAccepted
  <2>6. Has' = Has /\ Keyed' = Keyed /\ spent \subseteq spent' /\ Held \subseteq Held'
    <3>1. Has' = Has /\ Keyed' = Keyed
      BY <1>1, SMTT(30) DEF Has, Keyed
    <3>2. spent \subseteq spent'
      BY <2>2, ZenonT(60)
    <3>3. QED
      BY <1>1, <3>1, <3>2, Zenon DEF Held
  <2>7. \A g \in Groups : commit[g] # 0 => commit'[g] = commit[g]
    BY <2>4, ZenonT(60)
  <2>8. \A g \in Groups : answer'[g] = "confirm" => answer[g] = "confirm" \/ g \in Keyed
    <3>1. ASSUME NEW m \in Of(tx, "confirm") PROVE m.id \in Keyed
      <4>1. m.type = "confirm" /\ m \in Messages
        BY <1>5, <3>1, AcceptedMessages, ZenonT(60)
      <4>2. QED
        BY <4>1, SMTT(30) DEF Messages, GoodMessages
    <3>2. ASSUME NEW g \in Groups, answer'[g] = "confirm", ~ \E m \in Of(tx, "confirm") : m.id = g
          PROVE  answer[g] = "confirm"
      <4>1. answer'[g] = "complain" \/ answer'[g] = answer[g]
        BY <2>2, <3>2, ZenonT(60) DEF Answered
      <4>2. QED
        BY <3>2, <4>1, SMTT(30)
    <3>3. QED
      BY <3>1, <3>2, ZenonT(60)
  <2>9. KeysInv'
    <3>1. /\ dkg \in [Groups -> Nat] /\ groupKey \in [Groups -> Nat] /\ version \in Nat
          /\ \A g \in Groups : /\ groupKey[g] # 0 => groupKey[g] = commit[g]
                               /\ commit[g] # 0 => g \in Has
                               /\ answer[g] = "confirm" => g \in Keyed
      BY ZenonT(60) DEF SecretInv, KeysInv
    <3>2. \A g \in Groups : groupKey[g] # 0 => groupKey[g] = commit'[g]
      BY <2>7, <3>1, ZenonT(60)
    <3>3. \A g \in Groups : commit'[g] # 0 => g \in Has
      BY <2>4, <3>1, ZenonT(60)
    <3>4. QED
      BY <1>1, <2>4, <2>6, <2>8, <3>1, <3>2, <3>3, ZenonT(60) DEF KeysInv
  <2>10. NoncesInv'
    <3>1. assigned \in [Signings -> Held \cup {0}] /\ newDEs \in SUBSET Held /\ fresh \in SUBSET DEs
      BY ZenonT(60) DEF SecretInv, NoncesInv
    <3>2. assigned' \in [Signings -> Held \cup {0}]
      BY <2>2, <3>1
    <3>3. \A S, T : S \subseteq T => [Signings -> S \cup {0}] \subseteq [Signings -> T \cup {0}]
      BY ZenonT(60)
    <3>4. assigned' \in [Signings -> Held' \cup {0}] /\ newDEs' \in SUBSET Held'
      BY <1>1, <2>6, <3>1, <3>2, <3>3, ZenonT(60)
    <3>5. deQueue' \in Seq(Held')
      BY <2>5, <2>6, SeqGrows, ZenonT(60)
    <3>6. QED
      BY <1>1, <3>1, <3>4, <3>5, ZenonT(60) DEF NoncesInv
  <2>11. tasks' \in SUBSET Tasks'
    <3>1. Tasks \subseteq Tasks'
      BY <2>6, <2>7, NothingForgotten, ZenonT(60)
    <3>2. \A m \in signed : m.secret \in DEs /\ m.secret \in spent'
      BY <2>2, <2>3, ZenonT(60)
    <3>3. \A m \in signed : Handler("deleted", m.secret, "event") \in Tasks'
      BY <3>2 DEF Handler, Tasks, GoodTasks
    <3>4. QED
      BY <2>2, <3>1, <3>3, ZenonT(60) DEF Notify, SecretInv
  <2>12. QED
    BY <1>3, <2>6, <2>7, <2>9, <2>10, <2>11, SecretGrows, ZenonT(60)
<1>6. QED
  BY <1>4, <1>5, SMTT(30)

\* Every step keeps the promises of the member.
LEMMA SecretNext == SecretInv /\ [CylinderNext]_cylinderVars => SecretInv'
<1> SUFFICES ASSUME SecretInv, [CylinderNext]_cylinderVars PROVE SecretInv'
  OBVIOUS
<1>1. CASE UNCHANGED cylinderVars
  <2>1. UNCHANGED <<dkg, groupKey, privDE, commit, spent, answer, version, deQueue, assigned, newDEs,
                    fresh, sentTxs, senders, msgCh, tasks>>
    BY <1>1, SMTT(30) DEF cylinderVars
  <2>2. msgCh' \in Seq(Messages) /\ tasks' \in SUBSET Tasks
    BY <2>1, ZenonT(60) DEF SecretInv, MailInv
  <2>3. QED
    BY <2>1, <2>2, TaskFrame, ZenonT(60)
<1>2. ASSUME NEW g \in Groups, CreateGroup(g) PROVE SecretInv'
  BY <1>2, GroupSecrets, ZenonT(60)
<1>3. ASSUME NEW g \in Groups, NEW good \in BOOLEAN, FinishRound(g, good) PROVE SecretInv'
  BY <1>3, GroupSecrets, ZenonT(60)
<1>4. ASSUME NEW s \in Signings, AssignMember(s) PROVE SecretInv'
  BY <1>4, AssignSecrets, ZenonT(60)
<1>5. CASE ResetDE
  BY <1>5, ResetSecrets, ZenonT(60)
<1>6. ASSUME NEW tx \in sentTxs, CommitTx(tx) PROVE SecretInv'
  BY <1>6, CommitSecrets, ZenonT(60)
<1>7. CASE SubscribeWorkers \/ HandlePending
  BY <1>7, StartSecrets, ZenonT(60)
<1>8. ASSUME NEW h \in tasks, Round1Generate(h) PROVE SecretInv'
  BY <1>8, GenerateSecrets, Zenon
<1>9. ASSUME NEW h \in tasks, Round1Store(h) PROVE SecretInv'
  BY <1>9, StoreSecrets, Zenon
<1>10. ASSUME NEW h \in tasks, Round3Write(h) PROVE SecretInv'
  BY <1>10, WriteSecrets, Zenon
<1>11. ASSUME NEW h \in tasks,
              \/ Round1Send(h) \/ Round2Handle(h) \/ Round3Handle(h) \/ Round3Send(h)
              \/ HandleSigning(h)
       PROVE  SecretInv'
  BY <1>11, SendSecrets, ZenonT(60)
<1>12. CASE IntervalUpdateDE \/ \E h \in tasks : HandleAssigned(h)
  BY <1>12, UpdateSecrets, ZenonT(60)
<1>13. CASE SendDEs
  BY <1>13, SendNonces, Zenon
<1>14. ASSUME NEW h \in tasks, DeleteDE(h) PROVE SecretInv'
  BY <1>14, DeleteSecrets, Zenon
<1>15. ASSUME NEW k \in SenderKeys,
              (\E fails \in BOOLEAN : SendMsgs(k, fails)) \/ TryAgain(k) \/ ReturnSenderKey(k)
       PROVE  SecretInv'
  BY <1>15, SenderSecrets, ZenonT(60)
<1>16. CASE CrashCylinder
  BY <1>16, CrashSecrets, Zenon
<1>17. QED
  BY <1>1, <1>2, <1>3, <1>4, <1>5, <1>6, <1>7, <1>8, <1>9, <1>10, <1>11, <1>12, <1>13, <1>14, <1>15,
     <1>16, ZenonT(60) DEF CylinderNext

\* SecretsAreKept of cylinder: what the chain expects of the member can be delivered, for any
\* groups, signings, keys and nonces, whatever crashes, retries and late deletions happen.
THEOREM SecretsKept == CylinderSpec => []SecretsAreKept
<1>1. CylinderInit => SecretInv
  BY SecretInit, CylinderAssumption, SMTT(30)
<1>2. SecretInv => SecretsAreKept
  <2> SUFFICES ASSUME SecretInv PROVE SecretsAreKept
    BY SMTT(30)
  <2>1. ASSUME NEW g \in Groups
        PROVE  /\ commit[g] # 0 => dkg[g] # 0 \/ groupKey[g] # 0
               /\ answer[g] = "confirm" => groupKey[g] = commit[g]
    BY ZenonT(60) DEF SecretInv, KeysInv, Has, Keyed
  <2>2. ASSUME NEW d \in DEs, d \notin spent, d \in Range(deQueue)
        PROVE  d \in privDE
    <3>1. deQueue \in Seq(Held) /\ d \in Range(deQueue)
      BY <2>2, ZenonT(60) DEF SecretInv, NoncesInv
    <3>2. d \in Held
      BY <3>1, SMTT(30) DEF Range
    <3>3. QED
      BY <2>2, <3>2, ZenonT(60) DEF Held
  <2>3. ASSUME NEW d \in DEs, d \notin spent, NEW s \in Signings, assigned[s] = d
        PROVE  d \in privDE
    <3>1. d \in Held \cup {0}
      BY <2>3, ZenonT(60) DEF SecretInv, NoncesInv
    <3>2. d # 0
      BY DEF SecretInv, CylinderParameters
    <3>3. QED
      BY <2>3, <3>1, <3>2, ZenonT(60) DEF Held
  <2>4. QED
    BY <2>1, <2>2, <2>3, ZenonT(60) DEF SecretsAreKept
<1>3. QED
  BY <1>1, <1>2, SecretNext, PTL DEF CylinderSpec

-----------------------------------------------------------------------------
(* Yoda *)

HandlerStages == {"none", "query", "execute", "send", "done"}

-----------------------------------------------------------------------------
(* Requests: none is missed, none is handled twice *)

\* The requests of a transaction that still wait for a report of this validator.
Open(tx) == (Range(tx) \cap Mine) \ (reported \cup expired)

RequestInv ==
  /\ committed \subseteq Txs /\ events \subseteq committed
  /\ stage \in {"down", "subscribed", "running"}
  /\ handlers \in [Requests -> HandlerStages]
  \* Before the main loop runs nothing is handled.
  /\ stage # "running" => handlers = NoHandlers
  \* A request that is handled was found by the query or by an event that is handled.
  /\ \A tx \in events : \A r \in Range(tx) : handlers[r] # "none" => r \in pendingRequests
  \* All open requests of a transaction are handled once its event is, unless it is from
  \* before a start without a list; and from the start if the query found one of them.
  /\ stage = "running" =>
       \A tx \in committed :
         tx \notin events \cup lost \cup unlisted \/ Range(tx) \cap pendingRequests # {}
           => \A r \in Open(tx) : handlers[r] # "none"
  \* The query returns requests of committed transactions.
  /\ pendingRequests \subseteq Created
  /\ \A r \in Requests : handlers[r] # "none" => r \in Created

\* Requests and transactions.
LEMMA RangeFacts ==
  /\ \A tx \in Txs : \A r \in Range(tx) : r \in Requests
  /\ \A tx, ux \in Txs : \A r : r \in Range(tx) /\ r \in Range(ux) => tx = ux
  /\ \A r : r \in Created <=> \E tx \in committed : r \in Range(tx)
  BY TxsAssumption, Zenon DEF Requests, Created

\* What handleTransaction starts on: nothing that is pending, and everything if nothing
\* of the transaction is.
LEMMA UnhandledFacts ==
  ASSUME NEW tx \in Txs
  PROVE  /\ Unhandled(tx) \subseteq Range(tx)
         /\ \A r \in Unhandled(tx) : r \notin pendingRequests
         /\ Range(tx) \cap pendingRequests = {} => Unhandled(tx) = Range(tx)
<1>1. tx \in Seq(Nat) /\ DOMAIN tx = 1..Len(tx) /\ Len(tx) \in Nat
  BY TxsAssumption, SMTT(30)
<1>2. Unhandled(tx) \subseteq Range(tx)
  BY Zenon DEF Unhandled, Range
<1>3. ASSUME NEW r \in Unhandled(tx) PROVE r \notin pendingRequests
  <2>1. PICK i \in DOMAIN tx : r = tx[i] /\ \A j \in 1..i : tx[j] \notin pendingRequests
    BY <1>3, Zenon DEF Unhandled
  <2>2. i \in 1..i
    BY <1>1, <2>1, SMTT(30)
  <2>3. QED
    BY <2>1, <2>2, ZenonT(60)
<1>4. ASSUME Range(tx) \cap pendingRequests = {} PROVE Range(tx) \subseteq Unhandled(tx)
  <2>1. \A j \in DOMAIN tx : tx[j] \notin pendingRequests
    BY <1>4, Zenon DEF Range
  <2>2. \A i \in DOMAIN tx : \A j \in 1..i : j \in DOMAIN tx
    BY <1>1
  <2>3. QED
    BY <2>1, <2>2, ZenonT(60) DEF Unhandled, Range
<1>5. QED
  BY <1>2, <1>3, <1>4, ZenonT(60)

\* Nothing is committed or handled at first.
LEMMA InitRequestInv == Init => RequestInv
  BY Zenon DEF Init, RequestInv, NoHandlers, HandlerStages, Created

\* The steps of a goroutine: a handler that was started never becomes none.
LEMMA HandlerStep ==
  ASSUME RequestInv, UNCHANGED <<committed, events, stage, pendingRequests, lost, unlisted>>,
         reported \subseteq reported', expired \subseteq expired',
         handlers' \in [Requests -> HandlerStages],
         \A r \in Requests : handlers'[r] = "none" <=> handlers[r] = "none"
  PROVE  RequestInv'
<1>1. stage # "running" => handlers' = NoHandlers
  <2> SUFFICES ASSUME stage # "running" PROVE handlers' = NoHandlers
    BY Zenon
  <2>1. \A r \in Requests : handlers[r] = "none"
    BY Zenon DEF RequestInv, NoHandlers
  <2>2. \A r \in Requests : handlers'[r] = "none"
    BY <2>1, Zenon
  <2>3. QED
    BY <2>2, Zenon DEF NoHandlers
<1>2. \A tx \in committed : \A r \in Range(tx) : r \in Requests
  BY RangeFacts, Zenon DEF RequestInv
<1>3. \A tx \in committed : Open(tx)' \subseteq Open(tx) /\ Open(tx) \subseteq Range(tx)
  BY Zenon DEF Open
<1>4. Created' = Created
  BY Zenon DEF Created
<1>5. QED
  BY <1>1, <1>2, <1>3, <1>4, ZenonT(60) DEF RequestInv

\* The steps of the goroutines, of the main loop and of SubmitReport.
LEMMA LoopRequestInv ==
  ASSUME RequestInv,
         \/ \E r \in Requests : \/ Expire(r) \/ GetRequest(r) \/ QueryFails(r) \/ Execute(r)
                                \/ ReceiveReport(r)
         \/ \E reports \in mempool : CommitReports(reports)
         \/ ReceiveFreeKey
         \/ \E k \in Keys : \E i \in DOMAIN submitters[k] : Submit(k, i)
         \/ UNCHANGED vars
  PROVE  /\ RequestInv'
         /\ \A r \in Requests : handlers[r] # handlers'[r] => handlers'[r] # "query"
<1> USE DEF HandlerStages
<1>0. handlers \in [Requests -> HandlerStages]
  BY Zenon DEF RequestInv
<1>1. CASE \E r \in Requests : GetRequest(r) \/ QueryFails(r) \/ Execute(r) \/ ReceiveReport(r)
  <2>1. PICK r \in Requests : GetRequest(r) \/ QueryFails(r) \/ Execute(r) \/ ReceiveReport(r)
    BY <1>1, Zenon
  <2>2. UNCHANGED <<committed, reported, expired, events, stage, pendingRequests, lost, unlisted>>
    BY <2>1, Zenon DEF GetRequest, QueryFails, Execute, ReceiveReport, chain
  <2>3. PICK h \in HandlerStages \ {"none", "query"} : handlers' = [handlers EXCEPT ![r] = h]
    BY <2>1, Zenon DEF GetRequest, QueryFails, Execute, ReceiveReport
  <2>4. handlers[r] # "none"
    BY <2>1, Zenon DEF GetRequest, QueryFails, Execute, ReceiveReport
  <2>5. \A q \in Requests : handlers'[q] = IF q = r THEN h ELSE handlers[q]
    BY <1>0, <2>3, Zenon
  <2>6. handlers' \in [Requests -> HandlerStages]
    BY <1>0, <2>3, Zenon
  <2>7. \A q \in Requests : handlers'[q] = "none" <=> handlers[q] = "none"
    BY <2>4, <2>5, Zenon
  <2>8. RequestInv'
    BY <2>2, <2>6, <2>7, HandlerStep, ZenonT(60)
  <2>9. QED
    BY <2>5, <2>8, ZenonT(60)
<1>2. CASE ~ \E r \in Requests : GetRequest(r) \/ QueryFails(r) \/ Execute(r) \/ ReceiveReport(r)
  <2>1. \/ \E r \in Requests : Expire(r)
        \/ \E reports \in mempool : CommitReports(reports)
        \/ ReceiveFreeKey
        \/ \E k \in Keys : \E i \in DOMAIN submitters[k] : Submit(k, i)
        \/ UNCHANGED vars
    BY <1>2, Zenon
  <2>2. /\ UNCHANGED <<committed, events, stage, pendingRequests, lost, unlisted, handlers>>
        /\ reported \subseteq reported' /\ expired \subseteq expired'
    BY <2>1, ZenonT(60) DEF Expire, CommitReports, ReceiveFreeKey, Submit, Broadcast, GiveBack, OutOfGas,
                goroutines, chain, vars
  <2>3. RequestInv'
    BY <1>0, <2>2, HandlerStep, Zenon
  <2>4. QED
    BY <2>2, <2>3, ZenonT(60)
<1>3. QED
  BY <1>1, <1>2, Zenon

\* A new transaction, or an event lost with the connection.
LEMMA ChainRequestInv ==
  ASSUME RequestInv, NEW tx \in Txs, CommitRequests(tx) \/ LoseEvent(tx)
  PROVE  RequestInv' /\ UNCHANGED handlers
<1>1. CASE CommitRequests(tx)
  <2>1. /\ UNCHANGED <<reported, expired, stage, lost, unlisted, pendingRequests, handlers>>
        /\ tx \notin committed /\ committed' = committed \cup {tx}
        /\ events' = IF stage = "down" THEN events ELSE events \cup {tx}
    BY <1>1, Zenon DEF CommitRequests, goroutines
  <2>2. Range(tx) \cap pendingRequests = {}
    BY <2>1, RangeFacts, ZenonT(60) DEF RequestInv
  <2>3. Created \subseteq Created'
    BY <2>1, Zenon DEF Created
  <2>4. \A ux : Open(ux)' = Open(ux)
    BY <2>1, Zenon DEF Open
  <2>5. ASSUME NEW r \in Range(tx) PROVE handlers[r] # "none" => r \in pendingRequests
    <3>1. r \in Requests /\ r \notin Created
      BY <2>1, RangeFacts, ZenonT(60) DEF RequestInv
    <3>2. QED
      BY <3>1, Zenon DEF RequestInv
  <2>6. QED
    BY <2>1, <2>2, <2>3, <2>4, <2>5, ZenonT(60) DEF RequestInv
<1>2. CASE LoseEvent(tx)
  <2>1. /\ UNCHANGED <<committed, reported, expired, stage, unlisted, pendingRequests, handlers>>
        /\ events' = events \ {tx} /\ lost' = lost \cup {tx} /\ tx \in events
    BY <1>2, Zenon DEF LoseEvent, goroutines, chain
  <2>2. Created' = Created /\ \A ux : Open(ux)' = Open(ux)
    BY <2>1, Zenon DEF Created, Open
  <2>3. QED
    BY <2>1, <2>2, Zenon DEF RequestInv
<1>3. QED
  BY <1>1, <1>2, ZenonT(60)

\* The start and the crash.
LEMMA StartRequestInv ==
  ASSUME RequestInv, Subscribe \/ Run \/ RunUnlisted \/ Crash
  PROVE  /\ RequestInv'
         /\ \A r \in Requests : handlers[r] # handlers'[r] /\ handlers'[r] = "query"
                                  => handlers[r] = "none"
<1> USE DEF HandlerStages
<1>0. handlers \in [Requests -> HandlerStages]
  BY Zenon DEF RequestInv
<1>1. CASE Subscribe
  <2>1. /\ UNCHANGED <<committed, reported, expired, events, lost, unlisted, pendingRequests,
                       handlers>>
        /\ stage = "down" /\ stage' = "subscribed"
    BY <1>1, Zenon DEF Subscribe, chain, goroutines
  <2>2. Created' = Created
    BY <2>1, Zenon DEF Created
  <2>3. QED
    BY <2>1, <2>2, Zenon DEF RequestInv
<1>2. CASE Run \/ RunUnlisted
  <2>1. PICK found \in {StillOpen, {}} :
          /\ UNCHANGED <<committed, reported, expired, events, lost>>
          /\ stage = "subscribed" /\ stage' = "running" /\ pendingRequests' = found
          /\ handlers' = [r \in Requests |-> IF r \in found THEN "query" ELSE handlers[r]]
          /\ found = StillOpen \/ (found = {} /\ unlisted' = committed \ events)
    BY <1>2, Zenon DEF Run, RunUnlisted, StartLoop, chain
  <2>2. handlers = NoHandlers
    BY <2>1, Zenon DEF RequestInv
  <2>3. \A r \in Requests : handlers[r] = "none"
    BY <2>2, Zenon DEF NoHandlers
  <2>4. \A r \in Requests : handlers'[r] = IF r \in found THEN "query" ELSE "none"
    BY <2>1, <2>3, Zenon
  <2>5. handlers' \in [Requests -> HandlerStages]
    BY <1>0, <2>1, Zenon
  <2>6. Created' = Created /\ \A tx : Open(tx)' = Open(tx)
    BY <2>1, Zenon DEF Created, Open
  <2>7. found \subseteq Created
    BY <2>1, Zenon DEF StillOpen
  <2>8. \A tx \in committed : /\ Open(tx) \subseteq StillOpen
                              /\ \A r \in Range(tx) : r \in Requests
    BY RangeFacts, Zenon DEF StillOpen, Open, RequestInv
  <2>9. committed \subseteq Txs /\ events \subseteq committed
    BY Zenon DEF RequestInv
  <2>10. ASSUME NEW tx \in committed', NEW r \in Open(tx)',
                tx \notin events' \cup lost' \cup unlisted' \/ Range(tx) \cap pendingRequests' # {}
         PROVE  handlers'[r] # "none"
    <3>1. found = StillOpen
      BY <2>1, <2>10, Zenon
    <3>2. r \in StillOpen /\ r \in Requests
      BY <2>1, <2>6, <2>8, <2>10, ZenonT(60) DEF Open
    <3>3. QED
      BY <2>4, <3>1, <3>2, Zenon
  <2>11. \A r \in Requests : handlers'[r] # "none" => r \in found
    BY <2>4, Zenon
  <2>12. \A tx \in events : \A r \in Range(tx) : r \in Requests
    BY <2>8, <2>9, Zenon
  <2>13. RequestInv'
    BY <2>1, <2>5, <2>6, <2>7, <2>9, <2>10, <2>11, <2>12, ZenonT(60) DEF RequestInv
  <2>14. QED
    BY <2>3, <2>13, Zenon
<1>3. CASE Crash
  <2>1. /\ UNCHANGED <<committed, reported, expired>>
        /\ stage' = "down" /\ events' = {} /\ pendingRequests' = {} /\ handlers' = NoHandlers
    BY <1>3, Zenon DEF Crash, chain
  <2>2. NoHandlers \in [Requests -> HandlerStages] /\ \A r \in Requests : NoHandlers[r] = "none"
    BY Zenon DEF NoHandlers
  <2>3. Requests' = Requests /\ NoHandlers' = NoHandlers
    BY Zenon DEF NoHandlers
  <2>4. RequestInv'
    BY <2>1, <2>2, <2>3, ZenonT(60) DEF RequestInv
  <2>5. QED
    BY <2>1, <2>2, <2>4, ZenonT(60)
<1>4. QED
  BY <1>1, <1>2, <1>3, ZenonT(60)

\* The event of a transaction.
LEMMA EventRequestInv ==
  ASSUME RequestInv, NEW tx \in Txs, HandleTransaction(tx)
  PROVE  /\ RequestInv'
         /\ \A r \in Requests : handlers[r] # handlers'[r] /\ handlers'[r] = "query"
                                  => handlers[r] = "none"
<1> USE DEF HandlerStages
<1>1. /\ UNCHANGED <<committed, reported, expired, lost, unlisted, stage, pendingRequests>>
      /\ stage = "running" /\ tx \in events /\ events' = events \ {tx}
      /\ handlers' = [r \in Requests |-> IF r \in Unhandled(tx) THEN "query" ELSE handlers[r]]
  BY Zenon DEF HandleTransaction, chain
<1>2. /\ handlers \in [Requests -> HandlerStages]
      /\ committed \subseteq Txs /\ events \subseteq committed
  BY Zenon DEF RequestInv
<1>3. \A r \in Requests : handlers'[r] = IF r \in Unhandled(tx) THEN "query" ELSE handlers[r]
  BY <1>1, Zenon
<1>4. handlers' \in [Requests -> HandlerStages]
  BY <1>1, <1>2, Zenon
<1>5. Created' = Created /\ \A ux : Open(ux)' = Open(ux) /\ Open(ux) \subseteq Range(ux)
  BY <1>1, Zenon DEF Created, Open
<1>6. ASSUME NEW r \in Unhandled(tx) PROVE handlers[r] = "none" /\ r \in Created /\ r \in Requests
  <2>1. r \in Range(tx) /\ r \notin pendingRequests
    BY <1>6, UnhandledFacts, Zenon
  <2>2. r \in Requests /\ r \in Created
    BY <1>1, <1>2, <2>1, RangeFacts, ZenonT(60)
  <2>3. QED
    BY <1>1, <2>1, <2>2, ZenonT(60) DEF RequestInv
<1>7. ASSUME NEW ux \in events', NEW r \in Range(ux), handlers'[r] # "none"
      PROVE  r \in pendingRequests'
  <2>1. ux \in events /\ ux # tx /\ ux \in Txs
    BY <1>1, <1>2, Zenon
  <2>2. r \in Requests /\ r \notin Range(tx)
    BY <2>1, RangeFacts, Zenon
  <2>3. r \notin Unhandled(tx)
    BY <2>2, UnhandledFacts, Zenon
  <2>4. QED
    BY <1>1, <1>3, <1>7, <2>1, <2>2, <2>3, ZenonT(60) DEF RequestInv
<1>8. ASSUME NEW ux \in committed,
             ux \notin events' \cup lost \cup unlisted \/ Range(ux) \cap pendingRequests # {},
             NEW r \in Open(ux)
      PROVE  handlers'[r] # "none"
  <2>1. r \in Range(ux) /\ r \in Requests
    BY <1>2, <1>5, RangeFacts, ZenonT(60)
  <2>2. CASE handlers[r] # "none"
    BY <1>3, <2>1, <2>2, ZenonT(60)
  <2>3. CASE handlers[r] = "none"
    <3>1. ~ (ux \notin events \cup lost \cup unlisted \/ Range(ux) \cap pendingRequests # {})
      BY <1>1, <2>3, Zenon DEF RequestInv
    <3>2. ux = tx /\ Range(tx) \cap pendingRequests = {}
      BY <1>1, <1>8, <3>1, ZenonT(60)
    <3>3. r \in Unhandled(tx)
      BY <2>1, <3>2, UnhandledFacts, Zenon
    <3>4. QED
      BY <1>3, <2>1, <3>3, ZenonT(60)
  <2>4. QED
    BY <2>2, <2>3, Zenon
<1>9. \A r \in Requests : handlers'[r] # "none" => r \in Created
  BY <1>3, <1>6, Zenon DEF RequestInv
<1>10. RequestInv'
  BY <1>1, <1>2, <1>4, <1>5, <1>7, <1>8, <1>9, ZenonT(60) DEF RequestInv
<1>11. QED
  BY <1>3, <1>6, <1>10, ZenonT(60)

\* Every step, one that changes nothing included.
LEMMA NextRequestInv ==
  RequestInv /\ [Next]_vars
    => /\ RequestInv'
       /\ \A r \in Requests : handlers[r] # handlers'[r] /\ handlers'[r] = "query"
                                => handlers[r] = "none"
  BY LoopRequestInv, ChainRequestInv, StartRequestInv, EventRequestInv, ZenonT(60) DEF Next

\* While yoda runs, every open request of its validator has a goroutine or is in an event
\* that was lost or is still to be handled (runImpl, handleTransaction), or is older than a
\* start whose query was answered with an error; however blocks, the subscription, the query
\* and crashes interleave and for any transactions.
THEOREM NoneMissed == Spec => []NoRequestMissed
<1>1. RequestInv => NoRequestMissed
  <2> SUFFICES ASSUME RequestInv, stage = "running",
                      NEW r \in (Created \cap Mine) \ (reported \cup expired)
               PROVE  \/ handlers[r] # "none"
                      \/ \E tx \in events \cup lost \cup unlisted : r \in Range(tx)
    BY Zenon DEF NoRequestMissed
  <2>1. PICK tx \in committed : r \in Range(tx)
    BY RangeFacts, Zenon
  <2>2. r \in Open(tx)
    BY <2>1, Zenon DEF Open
  <2>3. QED
    BY <2>1, <2>2, Zenon DEF RequestInv
<1>2. QED
  BY <1>1, InitRequestInv, NextRequestInv, PTL DEF Spec

\* A running yoda starts on a request once, although the query and the subscription may
\* both tell of it (runImpl, handleTransaction).
THEOREM OnceHandled == Spec => HandledOnce
  BY InitRequestInv, NextRequestInv, PTL DEF Spec, HandledOnce

-----------------------------------------------------------------------------
(* Keys: each is available, signing or on its way back *)

Submitter == [reports : Seq(Requests), attempt : Nat, stage : {"broadcast", "find"}]

KeyType ==
  /\ keyOf \in [Requests -> Keys] /\ keyIndex \in Keys
  /\ available \in [Keys -> BOOLEAN]
  /\ waiting \in [Keys -> Seq(Requests)]
  /\ submitters \in [Keys -> Seq(Submitter)]
  /\ freeKeys \in Seq(Keys)

\* A key is in exactly one place, and in that place once.
OnePlace(k) ==
  LET returned == {i \in DOMAIN freeKeys : freeKeys[i] = k}
  IN  \/ /\ available[k] /\ waiting[k] = <<>> /\ submitters[k] = <<>> /\ returned = {}
      \/ /\ ~ available[k] /\ Len(submitters[k]) = 1 /\ returned = {}
      \/ /\ ~ available[k] /\ submitters[k] = <<>> /\ \E i \in DOMAIN freeKeys : returned = {i}

KeyInv == KeyType /\ \A k \in Keys : OnePlace(k)

\* All keys are available at first ...
LEMMA InitKeyInv == Init => KeyInv
<1>1. NumKeys - 1 \in Keys /\ 0 \in Keys
  BY YodaAssumption DEF Keys
<1>2. QED
  BY <1>1 DEF Init, KeyInv, KeyType, OnePlace

\* ... and after a crash.
LEMMA CrashKeyInv == Crash => KeyInv'
<1>1. NumKeys - 1 \in Keys /\ 0 \in Keys
  BY YodaAssumption DEF Keys
<1>2. QED
  BY <1>1, SMTT(30) DEF Crash, KeyInv, KeyType, OnePlace, Keys, Requests

\* The key of a new goroutine.
LEMMA GoroutineKeyInv ==
  ASSUME KeyInv, NEW r \in Requests, GetRequest(r)
  PROVE  KeyInv'
<1>1. (keyIndex + 1) % NumKeys \in Keys
  BY YodaAssumption DEF KeyInv, KeyType, Keys
<1>2. keyOf' \in [Requests -> Keys] /\ keyIndex' \in Keys
  BY <1>1, Zenon DEF GetRequest, KeyInv, KeyType
<1>3. UNCHANGED loop
  BY Zenon DEF GetRequest
<1>4. QED
  BY <1>2, <1>3, Zenon DEF KeyInv, KeyType, OnePlace, loop

\* A report takes its key or waits for it.
LEMMA ReportKeyInv ==
  ASSUME KeyInv, NEW r \in Requests, ReceiveReport(r)
  PROVE  KeyInv'
<1>1. PICK k \in Keys : k = keyOf[r]
  BY Zenon DEF KeyInv, KeyType
<1>2. UNCHANGED <<keyOf, keyIndex, freeKeys>>
  BY Zenon DEF ReceiveReport
<1>3. CASE available[k]
  <2>1. /\ available' = [available EXCEPT ![k] = FALSE] /\ waiting' = waiting
        /\ submitters' = [submitters EXCEPT ![k] = Append(@, NewSubmitter(<<r>>))]
    BY <1>1, <1>3, ZenonT(60) DEF ReceiveReport, TakeKey, StartSubmitter
  <2>2. NewSubmitter(<<r>>) \in Submitter
    BY DEF NewSubmitter, Submitter
  <2>3. KeyType'
    BY <1>2, <2>1, <2>2, SMTT(30) DEF KeyInv, KeyType
  <2>4. submitters[k] = <<>> /\ submitters[k] \in Seq(Submitter)
    BY <1>3, Zenon DEF KeyInv, KeyType, OnePlace
  <2>5. Len(submitters'[k]) = 1
    BY <2>1, <2>2, <2>4, SMTT(30) DEF KeyInv, KeyType
  <2>6. OnePlace(k)'
    BY <1>2, <1>3, <2>1, <2>5, ZenonT(60) DEF KeyInv, KeyType, OnePlace
  <2>7. \A q \in Keys \ {k} : OnePlace(q)'
    BY <1>2, <2>1, ZenonT(60) DEF KeyInv, KeyType, OnePlace
  <2>8. QED
    BY <2>3, <2>6, <2>7, ZenonT(60) DEF KeyInv, Keys
<1>4. CASE ~ available[k]
  <2>1. /\ waiting' = [waiting EXCEPT ![k] = Append(@, r)]
        /\ UNCHANGED <<available, submitters>>
    BY <1>1, <1>4, Zenon DEF ReceiveReport
  <2>2. KeyType'
    BY <1>2, <2>1, SMTT(30) DEF KeyInv, KeyType
  <2>3. OnePlace(k)'
    BY <1>2, <1>4, <2>1, ZenonT(60) DEF KeyInv, OnePlace
  <2>4. \A q \in Keys \ {k} : OnePlace(q)'
    BY <1>2, <2>1, ZenonT(60) DEF KeyInv, KeyType, OnePlace
  <2>5. QED
    BY <2>2, <2>3, <2>4, Zenon DEF KeyInv, Keys
<1>5. QED
  BY <1>3, <1>4, Zenon

\* What is signed now and what is left are sequences of requests.
LEMMA BatchType ==
  ASSUME NEW queue \in Seq(Requests)
  PROVE  Batch(queue).now \in Seq(Requests) /\ Batch(queue).later \in Seq(Requests)
<1>1. ASSUME Len(queue) > MaxReport
      PROVE  /\ SubSeq(queue, 1, MaxReport) \in Seq(Requests)
             /\ SubSeq(queue, MaxReport + 1, Len(queue)) \in Seq(Requests)
  BY <1>1, YodaAssumption, SMTT(30)
<1>2. <<>> \in Seq(Requests)
  OBVIOUS
<1>3. CASE Len(queue) > MaxReport
  BY <1>1, <1>3, SMTT(30) DEF Batch
<1>4. CASE ~ (Len(queue) > MaxReport)
  BY <1>2, <1>4, SMTT(30) DEF Batch
<1>5. QED
  BY <1>3, <1>4, Zenon

\* A key that comes back signs for the reports that wait, or becomes available.
LEMMA FreeKeyInv ==
  ASSUME KeyInv, ReceiveFreeKey
  PROVE  KeyInv'
<1>1. PICK k \in Keys : k = Head(freeKeys)
  <2>1. freeKeys \in Seq(Keys) /\ freeKeys # <<>>
    BY Zenon DEF KeyInv, KeyType, ReceiveFreeKey
  <2>2. Head(freeKeys) \in Keys
    BY <2>1
  <2>3. QED
    BY <2>2, Zenon
<1>2. UNCHANGED <<keyOf, keyIndex>> /\ freeKeys # <<>> /\ freeKeys' = Tail(freeKeys)
  BY Zenon DEF ReceiveFreeKey, goroutines
<1>3. /\ freeKeys' \in Seq(Keys) /\ Len(freeKeys') = Len(freeKeys) - 1 /\ Len(freeKeys) \in Nat \ {0}
      /\ \A i \in 1..Len(freeKeys') : freeKeys'[i] = freeKeys[i + 1]
      /\ freeKeys[1] = k
  BY <1>1, <1>2, SMTT(30) DEF KeyInv, KeyType
<1>4. DOMAIN freeKeys = 1..Len(freeKeys) /\ DOMAIN freeKeys' = 1..Len(freeKeys')
  BY <1>3 DEF KeyInv, KeyType
<1>5. /\ ~ available[k] /\ submitters[k] = <<>>
      /\ {i \in DOMAIN freeKeys : freeKeys[i] = k} = {1}
  BY <1>3, <1>4, SMTT(30) DEF KeyInv, OnePlace
<1>6. {i \in DOMAIN freeKeys' : freeKeys'[i] = k} = {}
  <2> SUFFICES ASSUME NEW i \in DOMAIN freeKeys', freeKeys'[i] = k PROVE FALSE
    BY Zenon
  <2>1. i + 1 \in DOMAIN freeKeys /\ freeKeys[i + 1] = k /\ i + 1 # 1
    BY <1>3, <1>4, SMTT(30)
  <2>2. QED
    BY <1>5, <2>1, Zenon
<1>7. ASSUME NEW q \in Keys \ {k}
      PROVE  /\ {i \in DOMAIN freeKeys : freeKeys[i] = q} = {}
                  => {i \in DOMAIN freeKeys' : freeKeys'[i] = q} = {}
             /\ \A j \in DOMAIN freeKeys :
                  {i \in DOMAIN freeKeys : freeKeys[i] = q} = {j}
                    => /\ j - 1 \in DOMAIN freeKeys'
                       /\ {i \in DOMAIN freeKeys' : freeKeys'[i] = q} = {j - 1}
  <2>1. \A i \in DOMAIN freeKeys' : i + 1 \in DOMAIN freeKeys /\ freeKeys'[i] = freeKeys[i + 1]
    BY <1>3, <1>4, SMTT(30)
  <2>2. ASSUME NEW j \in DOMAIN freeKeys, {i \in DOMAIN freeKeys : freeKeys[i] = q} = {j}
        PROVE  /\ j - 1 \in DOMAIN freeKeys'
               /\ {i \in DOMAIN freeKeys' : freeKeys'[i] = q} = {j - 1}
    <3>1. freeKeys[j] = q /\ j # 1
      BY <1>3, <2>2, Zenon
    <3>2. j - 1 \in DOMAIN freeKeys' /\ freeKeys'[j - 1] = q
      BY <1>3, <1>4, <3>1, SMTT(30)
    <3>3. ASSUME NEW i \in DOMAIN freeKeys', freeKeys'[i] = q PROVE i = j - 1
      <4>1. i + 1 = j
        BY <2>1, <2>2, <3>3, ZenonT(60)
      <4>2. QED
        BY <1>4, <4>1, <1>3, SMTT(30)
    <3>4. QED
      BY <3>2, <3>3, Zenon
  <2>3. QED
    BY <2>1, <2>2, ZenonT(60)
<1>8. CASE waiting[k] # <<>>
  <2>1. /\ submitters' = [submitters EXCEPT ![k] = Append(@, NewSubmitter(Batch(waiting[k]).now))]
        /\ waiting' = [waiting EXCEPT ![k] = Batch(waiting[k]).later] /\ available' = available
    BY <1>1, <1>8, ZenonT(60) DEF ReceiveFreeKey, StartSubmitter
  <2>2. /\ NewSubmitter(Batch(waiting[k]).now) \in Submitter
        /\ Batch(waiting[k]).later \in Seq(Requests)
    BY BatchType, ZenonT(60) DEF NewSubmitter, Submitter, KeyInv, KeyType
  <2>3. KeyType'
    BY <1>2, <1>3, <2>1, <2>2, SMTT(30) DEF KeyInv, KeyType
  <2>4. Len(submitters'[k]) = 1
    BY <1>5, <2>1, <2>2, SMTT(30) DEF KeyInv, KeyType
  <2>5. OnePlace(k)'
    BY <1>5, <1>6, <2>1, <2>4, ZenonT(60) DEF OnePlace
  <2>6. ASSUME NEW q \in Keys \ {k} PROVE OnePlace(q)'
    <3>1. submitters'[q] = submitters[q] /\ waiting'[q] = waiting[q] /\ available'[q] = available[q]
      BY <2>1, Zenon DEF KeyInv, KeyType
    <3>2. OnePlace(q)
      BY ZenonT(60) DEF KeyInv
    <3>3. QED
      BY <1>7, <3>1, <3>2, ZenonT(60) DEF OnePlace
  <2>7. QED
    BY <2>3, <2>5, <2>6, ZenonT(60) DEF KeyInv, Keys
<1>9. CASE waiting[k] = <<>>
  <2>1. /\ available' = [available EXCEPT ![k] = TRUE]
        /\ UNCHANGED <<waiting, submitters>>
    BY <1>1, <1>9, ZenonT(60) DEF ReceiveFreeKey
  <2>2. KeyType'
    BY <1>2, <1>3, <2>1, ZenonT(60) DEF KeyInv, KeyType
  <2>3. OnePlace(k)'
    BY <1>5, <1>6, <1>9, <2>1, ZenonT(60) DEF OnePlace, KeyInv, KeyType
  <2>4. ASSUME NEW q \in Keys \ {k} PROVE OnePlace(q)'
    <3>1. available'[q] = available[q]
      BY <2>1, ZenonT(60) DEF KeyInv, KeyType
    <3>2. OnePlace(q)
      BY Zenon DEF KeyInv
    <3>3. QED
      BY <1>7, <2>1, <3>1, <3>2, ZenonT(60) DEF OnePlace
  <2>5. QED
    BY <2>2, <2>3, <2>4, Zenon DEF KeyInv, Keys
<1>10. QED
  BY <1>8, <1>9, Zenon

\* SubmitReport ends: the key, which nobody else had, is on its way back.
LEMMA ReturnKeyInv ==
  ASSUME KeyInv, NEW k \in Keys, NEW i \in DOMAIN submitters[k], ReturnKey(k, i),
         UNCHANGED <<keyOf, keyIndex, available, waiting>>
  PROVE  KeyInv'
<1>0. submitters[k] \in Seq(Submitter) /\ freeKeys \in Seq(Keys)
  BY Zenon DEF KeyInv, KeyType
<1>1. submitters[k] # <<>>
  <2>1. DOMAIN submitters[k] = 1..Len(submitters[k]) /\ Len(submitters[k]) \in Nat
    BY <1>0
  <2>2. Len(submitters[k]) >= 1
    BY <2>1
  <2>3. QED
    BY <2>2
<1>2. /\ ~ available[k] /\ Len(submitters[k]) = 1
      /\ {j \in DOMAIN freeKeys : freeKeys[j] = k} = {}
  BY <1>1, Zenon DEF KeyInv, OnePlace
<1>3. i = 1
  BY <1>0, <1>2, SMTT(30)
<1>4. Without(submitters[k], i) = <<>>
  <2>1. SubSeq(submitters[k], 1, 0) = <<>> /\ SubSeq(submitters[k], 2, 1) = <<>>
    BY <1>0, SMTT(30)
  <2>2. Without(submitters[k], i) = SubSeq(submitters[k], 1, 0) \o SubSeq(submitters[k], 2, 1)
    BY <1>2, <1>3, SMTT(30) DEF Without
  <2>3. QED
    BY <2>1, <2>2, SMTT(30)
<1>5. submitters' = [submitters EXCEPT ![k] = <<>>] /\ freeKeys' = Append(freeKeys, k)
  BY <1>4, Zenon DEF ReturnKey
<1>6. /\ freeKeys' \in Seq(Keys) /\ DOMAIN freeKeys = 1..Len(freeKeys) /\ Len(freeKeys) \in Nat
      /\ DOMAIN freeKeys' = 1..(Len(freeKeys) + 1)
      /\ freeKeys'[Len(freeKeys) + 1] = k
      /\ \A j \in 1..Len(freeKeys) : freeKeys'[j] = freeKeys[j]
  BY <1>0, <1>5, SMTT(30)
<1>7. KeyType'
  BY <1>5, <1>6, SMTT(30) DEF KeyInv, KeyType
<1>8. OnePlace(k)'
  <2>1. {j \in DOMAIN freeKeys' : freeKeys'[j] = k} = {Len(freeKeys) + 1}
    BY <1>2, <1>6, SMTT(30)
  <2>2. Len(freeKeys) + 1 \in DOMAIN freeKeys' /\ submitters'[k] = <<>>
    BY <1>5, <1>6, SMTT(30) DEF KeyInv, KeyType
  <2>3. QED
    BY <1>2, <2>1, <2>2, ZenonT(60) DEF OnePlace
<1>9. ASSUME NEW q \in Keys \ {k} PROVE OnePlace(q)'
  <2>1. submitters'[q] = submitters[q]
    BY <1>5, ZenonT(60) DEF KeyInv, KeyType
  <2>2. {j \in DOMAIN freeKeys' : freeKeys'[j] = q} = {j \in DOMAIN freeKeys : freeKeys[j] = q}
    BY <1>6, SMTT(30)
  <2>3. DOMAIN freeKeys \subseteq DOMAIN freeKeys' /\ OnePlace(q)
    BY <1>6, SMTT(30) DEF KeyInv
  <2>4. QED
    BY <2>1, <2>2, <2>3, ZenonT(60) DEF OnePlace
<1>10. QED
  BY <1>7, <1>8, <1>9, ZenonT(60) DEF KeyInv, Keys

\* Replacing an element of a sequence.
LEMMA ReplacedInSeq ==
  ASSUME NEW S, NEW q \in Seq(S), NEW j \in 1..Len(q), NEW x \in S
  PROVE  [q EXCEPT ![j] = x] \in Seq(S) /\ Len([q EXCEPT ![j] = x]) = Len(q)
<1>1. q \in [1..Len(q) -> S] /\ Len(q) \in Nat
  OBVIOUS
<1>2. [q EXCEPT ![j] = x] \in [1..Len(q) -> S]
  BY <1>1, Zenon
<1>3. \A n \in Nat : \A r \in [1..n -> S] : r \in Seq(S) /\ Len(r) = n
  OBVIOUS
<1>4. QED
  BY <1>1, <1>2, <1>3, Zenon

\* SubmitReport goes on with its key.
LEMMA GoesOnKeyInv ==
  ASSUME KeyInv, NEW k \in Keys, NEW i \in DOMAIN submitters[k], NEW new \in Submitter,
         submitters' = [submitters EXCEPT ![k] = [submitters[k] EXCEPT ![i] = new]],
         UNCHANGED <<keyOf, keyIndex, available, waiting, freeKeys>>
  PROVE  KeyInv'
<1>1. submitters[k] \in Seq(Submitter) /\ i \in 1..Len(submitters[k])
  BY DEF KeyInv, KeyType
<1>2. PICK s \in Seq(Submitter) : s = [submitters[k] EXCEPT ![i] = new] /\ Len(s) = Len(submitters[k])
  <2>1. /\ [submitters[k] EXCEPT ![i] = new] \in Seq(Submitter)
        /\ Len([submitters[k] EXCEPT ![i] = new]) = Len(submitters[k])
    BY <1>1, ReplacedInSeq, SMTT(30)
  <2>2. QED
    BY <2>1, Zenon
<1>3. submitters' = [submitters EXCEPT ![k] = s]
  BY <1>2, Zenon
<1>4. KeyType'
  BY <1>3, ZenonT(60) DEF KeyInv, KeyType
<1>5. \A q \in Keys : Len(submitters'[q]) = Len(submitters[q])
  BY <1>2, <1>3, Zenon DEF KeyInv, KeyType
<1>6. \A q \in Keys : submitters'[q] = <<>> <=> submitters[q] = <<>>
  BY <1>4, <1>5, SMTT(30) DEF KeyInv, KeyType
<1>7. QED
  BY <1>4, <1>5, <1>6, ZenonT(60) DEF KeyInv, OnePlace, Keys

\* The three ways on of SubmitReport.
LEMMA SubmitKeyInv ==
  ASSUME KeyInv, NEW k \in Keys, NEW i \in DOMAIN submitters[k], Submit(k, i)
  PROVE  KeyInv'
<1>0. submitters \in [Keys -> Seq(Submitter)] /\ submitters[k][i] \in Submitter
  BY DEF KeyInv, KeyType
<1>1. CASE Broadcast(k, i)
  <2>1. [submitters[k][i] EXCEPT !.stage = "find"] \in Submitter
    BY <1>0, Zenon DEF Submitter
  <2>2. /\ submitters' = [submitters EXCEPT ![k] =
                           [submitters[k] EXCEPT ![i] = [submitters[k][i] EXCEPT !.stage = "find"]]]
        /\ UNCHANGED <<keyOf, keyIndex, available, waiting, freeKeys>>
    BY <1>1, Zenon DEF Broadcast, goroutines
  <2>3. QED
    BY <2>1, <2>2, GoesOnKeyInv, ZenonT(60)
<1>2. CASE GiveBack(k, i)
  BY <1>2, ReturnKeyInv, ZenonT(60) DEF GiveBack, goroutines
<1>3. CASE OutOfGas(k, i)
  <2>1. UNCHANGED <<keyOf, keyIndex, available, waiting>>
    BY <1>3, Zenon DEF OutOfGas, goroutines
  <2>2. CASE submitters[k][i].attempt < MaxTry
    <3>1. PICK new : new = [submitters[k][i] EXCEPT !.attempt = @ + 1, !.stage = "broadcast"]
      BY Zenon
    <3>2. new \in Submitter
      <4>1. submitters[k][i].attempt \in Nat /\ submitters[k][i].attempt + 1 \in Nat
        BY <1>0, SMTT(30) DEF Submitter
      <4>2. QED
        BY <1>0, <3>1, <4>1, ZenonT(60) DEF Submitter
    <3>3. submitters' = [submitters EXCEPT ![k] = [submitters[k] EXCEPT ![i] = new]]
      BY <1>0, <1>3, <2>2, <3>1, ZenonT(60) DEF OutOfGas
    <3>4. freeKeys' = freeKeys
      BY <1>3, <2>2, ZenonT(60) DEF OutOfGas
    <3>5. QED
      BY <2>1, <3>2, <3>3, <3>4, GoesOnKeyInv, ZenonT(60)
  <2>3. CASE ~ submitters[k][i].attempt < MaxTry
    BY <1>3, <2>1, <2>3, ReturnKeyInv, ZenonT(60) DEF OutOfGas
  <2>4. QED
    BY <2>2, <2>3, ZenonT(60)
<1>4. QED
  BY <1>1, <1>2, <1>3, ZenonT(60) DEF Submit

\* Every step, one that changes nothing included.
LEMMA NextKeyInv == KeyInv /\ [Next]_vars => KeyInv'
<1> SUFFICES ASSUME KeyInv, [Next]_vars PROVE KeyInv'
  BY Zenon
<1>1. CASE \/ \E tx \in Txs : CommitRequests(tx) \/ LoseEvent(tx) \/ HandleTransaction(tx)
           \/ \E reports \in mempool : CommitReports(reports)
           \/ \E r \in Requests : Expire(r) \/ QueryFails(r) \/ Execute(r)
           \/ Subscribe \/ Run \/ RunUnlisted \/ UNCHANGED vars
  <2>1. UNCHANGED <<keyOf, keyIndex, available, waiting, submitters, freeKeys>>
    BY <1>1, ZenonT(60) DEF CommitRequests, LoseEvent, HandleTransaction, CommitReports, Expire, QueryFails,
                Execute, Subscribe, Run, RunUnlisted, StartLoop, vars, goroutines, loop
  <2>2. QED
    BY <2>1, Zenon DEF KeyInv, KeyType, OnePlace
<1>2. CASE \/ \E r \in Requests : GetRequest(r) \/ ReceiveReport(r)
           \/ ReceiveFreeKey \/ Crash
           \/ \E k \in Keys : \E i \in DOMAIN submitters[k] : Submit(k, i)
  BY <1>2, GoroutineKeyInv, ReportKeyInv, FreeKeyInv, CrashKeyInv, SubmitKeyInv, ZenonT(60)
<1>3. QED
  BY <1>1, <1>2, ZenonT(60) DEF Next

\* Every key signs for one SubmitReport at a time and is never lost (runImpl, SubmitReport):
\* for any number of keys, however reports arrive and however transactions end.
THEOREM KeysConserved == Spec => []KeyIsConserved
<1>1. KeyInv => KeyIsConserved
  <2> SUFFICES ASSUME KeyInv, NEW k \in Keys
               PROVE  LET returned == Cardinality({i \in DOMAIN freeKeys : freeKeys[i] = k})
                      IN  /\ Len(submitters[k]) + returned + (IF available[k] THEN 1 ELSE 0) = 1
                          /\ available[k] => waiting[k] = <<>>
    BY Zenon DEF KeyIsConserved
  <2>1. OnePlace(k)
    BY Zenon DEF KeyInv
  <2>2. Cardinality({}) = 0 /\ \A j : Cardinality({j}) = 1
    BY FS_EmptySet, FS_Singleton, ZenonT(60)
  <2>3. Len(<<>>) = 0
    BY Zenon
  <2>4. PICK returned : returned = {i \in DOMAIN freeKeys : freeKeys[i] = k}
    BY Zenon
  <2>5. \/ available[k] /\ waiting[k] = <<>> /\ Len(submitters[k]) = 0 /\ Cardinality(returned) = 0
        \/ ~ available[k] /\ Len(submitters[k]) = 1 /\ Cardinality(returned) = 0
        \/ ~ available[k] /\ Len(submitters[k]) = 0 /\ Cardinality(returned) = 1
    BY <2>1, <2>2, <2>3, <2>4, ZenonT(60) DEF OnePlace
  <2>6. /\ Len(submitters[k]) + Cardinality(returned) + (IF available[k] THEN 1 ELSE 0) = 1
        /\ available[k] => waiting[k] = <<>>
    <3>1. PICK n : n = IF available[k] THEN 1 ELSE 0
      BY Zenon
    <3>2. \/ Len(submitters[k]) = 0 /\ Cardinality(returned) = 0 /\ n = 1
          \/ Len(submitters[k]) = 1 /\ Cardinality(returned) = 0 /\ n = 0
          \/ Len(submitters[k]) = 0 /\ Cardinality(returned) = 1 /\ n = 0
      BY <2>5, <3>1, ZenonT(60)
    <3>3. Len(submitters[k]) + Cardinality(returned) + n = 1
      <4>1. 0 + 0 + 1 = 1 /\ 1 + 0 + 0 = 1 /\ 0 + 1 + 0 = 1
        OBVIOUS
      <4>2. QED
        BY <3>2, <4>1, ZenonT(60)
    <3>4. QED
      BY <2>5, <3>1, <3>3, ZenonT(60)
  <2>7. QED
    BY <2>4, <2>6, ZenonT(60)
<1>2. QED
  BY <1>1, InitKeyInv, NextKeyInv, PTL DEF Spec

-----------------------------------------------------------------------------
(***************************************************************************)
(* Grogu: a mark stands for one submission.                                 *)
(***************************************************************************)
\* P is exactly what is in A, in the channel q and with the keys of m, once each.
Exact(P, A, q, m) ==
  /\ P = A \cup (UNION Range(q)) \cup (UNION Range(m))
  /\ \A i \in DOMAIN q :
       /\ q[i] \cap A = {}
       /\ \A j \in DOMAIN q : i # j => q[i] \cap q[j] = {}
       /\ \A k \in SubmitterKeys : q[i] \cap m[k] = {}
  /\ \A k \in SubmitterKeys :
       /\ m[k] \cap A = {}
       /\ \A j \in SubmitterKeys : k # j => m[k] \cap m[j] = {}

Submissions == [SubmitterKeys -> SUBSET Signals]

\* Membership in the union of a list of sets.
LEMMA InUnion ==
  ASSUME NEW f PROVE \A x : x \in UNION Range(f) <=> \E i \in DOMAIN f : x \in f[i]
  BY DEF Range

\* Membership in what the keys are submitting.
LEMMA InSubmissions ==
  ASSUME NEW m, DOMAIN m = SubmitterKeys
  PROVE  \A x : x \in UNION Range(m) <=> \E k \in SubmitterKeys : x \in m[k]
<1>1. \A x : x \in UNION Range(m) <=> \E i \in DOMAIN m : x \in m[i]
  BY InUnion, SMTT(30)
<1>2. QED
  BY <1>1, SMTT(30)

\* Signals that are not pending are marked.
LEMMA ExactMark ==
  ASSUME NEW P, NEW A, NEW q \in Seq(SUBSET Signals), NEW m \in Submissions,
         Exact(P, {}, q, m), A \cap P = {}
  PROVE  Exact(P \cup A, A, q, m)
<1>1. P = (UNION Range(q)) \cup (UNION Range(m))
  BY DEF Exact
<1>2. \A i \in DOMAIN q : q[i] \subseteq P
  BY <1>1, InUnion, ZenonT(60)
<1>3. \A k \in SubmitterKeys : m[k] \subseteq P
  <2>1. DOMAIN m = SubmitterKeys
    BY DEF Submissions
  <2>2. \A x : x \in UNION Range(m) <=> \E k \in SubmitterKeys : x \in m[k]
    BY <2>1, InSubmissions, SMTT(30)
  <2>3. QED
    BY <1>1, <2>2, ZenonT(60)
<1>4. P \cup A = A \cup (UNION Range(q)) \cup (UNION Range(m))
  BY <1>1
<1>5. \A i \in DOMAIN q : q[i] \cap A = {}
  BY <1>2, ZenonT(60)
<1>6. \A k \in SubmitterKeys : m[k] \cap A = {}
  BY <1>3, ZenonT(60)
<1>7. QED
  BY <1>4, <1>5, <1>6, ZenonT(60) DEF Exact

\* They go to the channel.
LEMMA ExactAppend ==
  ASSUME NEW P, NEW A \in SUBSET Signals, NEW q \in Seq(SUBSET Signals), NEW m \in Submissions,
         Exact(P, A, q, m)
  PROVE  Exact(P, {}, Append(q, A), m)
<1>1. PICK r : r = Append(q, A)
  BY Zenon
<1>2. PICK n \in Nat : n = Len(q)
  OBVIOUS
<1>3. /\ DOMAIN q = 1..n /\ DOMAIN r = 1..(n + 1)
      /\ r[n + 1] = A /\ \A i \in 1..n : r[i] = q[i]
  BY <1>1, <1>2, SMTT(30)
<1>4. \A i \in DOMAIN r : i = n + 1 \/ i \in DOMAIN q
  BY <1>3, SMTT(30)
<1>5. UNION Range(r) = A \cup (UNION Range(q))
  <2>1. Range(r) = Range(q) \cup {A}
    BY <1>3, <1>4, SMTT(30) DEF Range
  <2>2. QED
    BY <2>1, SMTT(30)
<1>6. P = {} \cup (UNION Range(r)) \cup (UNION Range(m))
  BY <1>5, SMTT(30) DEF Exact
<1>7. /\ \A i \in DOMAIN q : q[i] \cap A = {} /\ r[i] = q[i]
      /\ \A i, j \in DOMAIN q : i # j => q[i] \cap q[j] = {}
      /\ \A i \in DOMAIN q : \A k \in SubmitterKeys : q[i] \cap m[k] = {}
      /\ \A k \in SubmitterKeys : A \cap m[k] = {}
  BY <1>3, ZenonT(60) DEF Exact
<1>8. ASSUME NEW i \in DOMAIN r
      PROVE  /\ r[i] \cap {} = {}
             /\ \A j \in DOMAIN r : i # j => r[i] \cap r[j] = {}
             /\ \A k \in SubmitterKeys : r[i] \cap m[k] = {}
  BY <1>3, <1>4, <1>7, ZenonT(60)
<1>9. \A k \in SubmitterKeys :
        /\ m[k] \cap {} = {}
        /\ \A j \in SubmitterKeys : k # j => m[k] \cap m[j] = {}
  BY Zenon DEF Exact
<1>10. Exact(P, {}, r, m)
  BY <1>6, <1>8, <1>9, ZenonT(60) DEF Exact
<1>11. QED
  BY <1>1, <1>10, ZenonT(60)

\* An idle key takes the first submission of the channel.
LEMMA ExactStart ==
  ASSUME NEW P, NEW A, NEW q \in Seq(SUBSET Signals), NEW m \in Submissions,
         Exact(P, A, q, m), NEW k \in SubmitterKeys, m[k] = {}, q # <<>>
  PROVE  Exact(P, A, Tail(q), [m EXCEPT ![k] = Head(q)])
<1>1. PICK r, w : r = Tail(q) /\ w = [m EXCEPT ![k] = Head(q)]
  BY Zenon
<1>2. PICK n \in Nat : n = Len(q) /\ n > 0
  OBVIOUS
<1>3. /\ DOMAIN q = 1..n /\ DOMAIN r = 1..(n - 1) /\ \A i \in 1..(n - 1) : r[i] = q[i + 1]
      /\ Head(q) = q[1]
  BY <1>1, <1>2, SMTT(30)
<1>4. /\ w[k] = q[1] /\ \A j \in SubmitterKeys : j # k => w[j] = m[j]
      /\ DOMAIN w = SubmitterKeys /\ DOMAIN m = SubmitterKeys
  BY <1>1, <1>3, SMTT(30) DEF Submissions
<1>5. 1 \in DOMAIN q /\ \A i \in DOMAIN r : i + 1 \in DOMAIN q /\ i + 1 # 1
  BY <1>2, <1>3, SMTT(30)
<1>6. /\ \A i \in DOMAIN q : q[i] \cap A = {}
      /\ \A i, j \in DOMAIN q : i # j => q[i] \cap q[j] = {}
      /\ \A i \in DOMAIN q : \A j \in SubmitterKeys : q[i] \cap m[j] = {}
      /\ \A j \in SubmitterKeys : m[j] \cap A = {}
      /\ \A i, j \in SubmitterKeys : i # j => m[i] \cap m[j] = {}
  BY Zenon DEF Exact
<1>7. \A x : x \in (UNION Range(r)) \cup (UNION Range(w)) <=> x \in (UNION Range(q)) \cup (UNION Range(m))
  <2>1. \A x : x \in UNION Range(r) <=> \E i \in DOMAIN r : x \in q[i + 1]
    BY <1>3 DEF Range
  <2>2. \A x : x \in UNION Range(q) <=> x \in q[1] \/ \E i \in DOMAIN r : x \in q[i + 1]
    <3>1. \A i \in DOMAIN q : i # 1 => i - 1 \in DOMAIN r /\ (i - 1) + 1 = i
      BY <1>2, <1>3
    <3>2. \A x : x \in UNION Range(q) <=> \E i \in DOMAIN q : x \in q[i]
      BY InUnion
    <3>3. QED
      BY <3>1, <3>2, <1>5, Zenon
  <2>3. \A x : x \in UNION Range(w) <=> \E j \in SubmitterKeys : x \in w[j]
    BY <1>4, InSubmissions, SMTT(30)
  <2>4. \A x : x \in UNION Range(m) <=> \E j \in SubmitterKeys : x \in m[j]
    BY <1>4, InSubmissions, SMTT(30)
  <2>5. \A x : x \in UNION Range(w) <=> x \in q[1] \/ \E j \in SubmitterKeys : x \in m[j]
    BY <1>4, <2>3, ZenonT(60)
  <2>6. QED
    BY <2>1, <2>2, <2>4, <2>5, ZenonT(60)
<1>8. P = A \cup (UNION Range(r)) \cup (UNION Range(w))
  <2>1. P = A \cup (UNION Range(q)) \cup (UNION Range(m))
    BY ZenonT(60) DEF Exact
  <2>2. QED
    BY <1>7, <2>1, SMTT(30)
<1>9. ASSUME NEW i \in DOMAIN r
      PROVE  /\ r[i] \cap A = {}
             /\ \A j \in DOMAIN r : i # j => r[i] \cap r[j] = {}
             /\ \A j \in SubmitterKeys : r[i] \cap w[j] = {}
  <2>1. r[i] = q[i + 1] /\ i + 1 \in DOMAIN q /\ i + 1 # 1
    BY <1>3, <1>5, ZenonT(60)
  <2>2. ASSUME NEW j \in DOMAIN r, i # j PROVE r[i] \cap r[j] = {}
    <3>1. r[j] = q[j + 1] /\ j + 1 \in DOMAIN q
      BY <1>3, <1>5, ZenonT(60)
    <3>2. i + 1 # j + 1
      BY <2>2, <1>3, SMTT(30)
    <3>3. QED
      BY <3>1, <3>2, <2>1, <1>6, ZenonT(60)
  <2>3. r[i] \cap A = {}
    BY <2>1, <1>6, ZenonT(60)
  <2>4. ASSUME NEW j \in SubmitterKeys PROVE r[i] \cap w[j] = {}
    <3>1. CASE j = k
      BY <3>1, <2>1, <1>4, <1>5, <1>6, ZenonT(60)
    <3>2. CASE j # k
      BY <3>2, <2>1, <1>4, <1>6, ZenonT(60)
    <3>3. QED
      BY <3>1, <3>2, ZenonT(60)
  <2>5. QED
    BY <2>2, <2>3, <2>4, ZenonT(60)
<1>10. ASSUME NEW j \in SubmitterKeys
       PROVE  /\ w[j] \cap A = {}
              /\ \A i \in SubmitterKeys : j # i => w[j] \cap w[i] = {}
  BY <1>4, <1>5, <1>6, ZenonT(60)
<1>11. Exact(P, A, r, w)
  BY <1>8, <1>9, <1>10, Zenon DEF Exact
<1>12. QED
  BY <1>1, <1>11, ZenonT(60)

\* The mark of one signal of a submission is cleared.
LEMMA ExactClear ==
  ASSUME NEW P, NEW A, NEW q \in Seq(SUBSET Signals), NEW m \in Submissions,
         Exact(P, A, q, m), NEW k \in SubmitterKeys, NEW z \in m[k]
  PROVE  Exact(P \ {z}, A, q, [m EXCEPT ![k] = @ \ {z}])
<1>1. PICK w : w = [m EXCEPT ![k] = @ \ {z}]
  BY ZenonT(60)
<1>2. /\ w[k] = m[k] \ {z} /\ \A j \in SubmitterKeys : j # k => w[j] = m[j]
      /\ DOMAIN w = SubmitterKeys /\ DOMAIN m = SubmitterKeys
  BY <1>1, SMTT(30) DEF Submissions
<1>3. /\ \A i \in DOMAIN q : q[i] \cap A = {}
      /\ \A i, j \in DOMAIN q : i # j => q[i] \cap q[j] = {}
      /\ \A i \in DOMAIN q : \A j \in SubmitterKeys : q[i] \cap m[j] = {}
      /\ \A j \in SubmitterKeys : m[j] \cap A = {}
      /\ \A i, j \in SubmitterKeys : i # j => m[i] \cap m[j] = {}
  BY Zenon DEF Exact
<1>4. \A x : x \in P <=> \/ x \in A
                         \/ \E i \in DOMAIN q : x \in q[i]
                         \/ \E j \in SubmitterKeys : x \in m[j]
  <2>1. P = A \cup (UNION Range(q)) \cup (UNION Range(m))
    BY ZenonT(60) DEF Exact
  <2>2. /\ \A x : x \in UNION Range(q) <=> \E i \in DOMAIN q : x \in q[i]
        /\ \A x : x \in UNION Range(m) <=> \E j \in SubmitterKeys : x \in m[j]
    BY <1>2, InUnion, InSubmissions, SMTT(30)
  <2>3. QED
    BY <2>1, <2>2, ZenonT(60)
<1>5. \A x : x \in A \cup (UNION Range(q)) \cup (UNION Range(w))
             <=> \/ x \in A
                 \/ \E i \in DOMAIN q : x \in q[i]
                 \/ \E j \in SubmitterKeys : x \in w[j]
  <2>1. /\ \A x : x \in UNION Range(q) <=> \E i \in DOMAIN q : x \in q[i]
        /\ \A x : x \in UNION Range(w) <=> \E j \in SubmitterKeys : x \in w[j]
    BY <1>2, InUnion, InSubmissions, SMTT(30)
  <2>2. QED
    BY <2>1, ZenonT(60)
<1>6. \A x : (\E j \in SubmitterKeys : x \in w[j])
             <=> (x # z /\ \E j \in SubmitterKeys : x \in m[j])
  BY <1>2, <1>3, ZenonT(60)
<1>7. \A x : (x \in A \/ \E i \in DOMAIN q : x \in q[i]) => x # z
  BY <1>3, ZenonT(60)
<1>8. \A x : x \in P \ {z} <=> x \in A \cup (UNION Range(q)) \cup (UNION Range(w))
  BY <1>4, <1>5, <1>6, <1>7, ZenonT(60)
<1>9. P \ {z} = A \cup (UNION Range(q)) \cup (UNION Range(w))
  BY <1>8, ZenonT(60)
<1>10. ASSUME NEW j \in SubmitterKeys
       PROVE  /\ w[j] \cap A = {}
              /\ \A i \in SubmitterKeys : j # i => w[j] \cap w[i] = {}
  BY <1>2, <1>3, ZenonT(60)
<1>11. \A i \in DOMAIN q : \A j \in SubmitterKeys : q[i] \cap w[j] = {}
  BY <1>2, <1>3, ZenonT(60)
<1>12. Exact(P \ {z}, A, q, w)
  BY <1>3, <1>9, <1>10, <1>11, ZenonT(60) DEF Exact
<1>13. QED
  BY <1>1, <1>12, ZenonT(60)

-----------------------------------------------------------------------------
PendingInv ==
  /\ submitCh \in Seq(SUBSET Signals) /\ submissions \in Submissions
  /\ selected \in SUBSET Signals
  \* What waits for the prices of Bothan is not pending.
  /\ phase = "bothan" => selected \cap pendingSignalIDs = {}
  /\ Exact(pendingSignalIDs, Sent, submitCh, submissions)

\* At first nothing is pending.
LEMMA PendingInit == ASSUME GroguInit PROVE PendingInv
<1>1. /\ phase = "sleep" /\ selected = {} /\ pendingSignalIDs = {} /\ submitCh = <<>>
      /\ submissions = [k \in SubmitterKeys |-> {}]
  BY ZenonT(60) DEF GroguInit
<1>2. Sent = {}
  BY <1>1, SMTT(30) DEF Sent
<1>3. submitCh \in Seq(SUBSET Signals) /\ submissions \in Submissions /\ DOMAIN submitCh = {}
  BY <1>1, SMTT(30) DEF Submissions
<1>4. (UNION Range(submitCh)) = {} /\ (UNION Range(submissions)) = {}
  BY <1>1, <1>3, SMTT(30) DEF Range
<1>5. Exact(pendingSignalIDs, Sent, submitCh, submissions)
  BY <1>1, <1>2, <1>3, <1>4 DEF Exact
<1>6. phase # "bothan" /\ selected \in SUBSET Signals
  BY <1>1
<1>7. QED
  BY <1>3, <1>5, <1>6, ZenonT(60) DEF PendingInv

\* Steps that leave the submissions alone.
LEMMA PendingKept ==
  ASSUME PendingInv, UNCHANGED <<pendingSignalIDs, submitCh, submissions>>,
         \/ phase' = phase /\ selected' = selected
         \/ /\ phase # "send" /\ phase' # "send"
            /\ selected' \in SUBSET Signals
            /\ phase' = "bothan" => selected' \cap pendingSignalIDs = {}
  PROVE  PendingInv'
<1>1. Sent' = Sent
  BY DEF Sent
<1>2. Exact(pendingSignalIDs, Sent, submitCh, submissions)'
  BY <1>1, ZenonT(60) DEF PendingInv, Exact
<1>3. QED
  BY <1>2, Zenon DEF PendingInv, Submissions

\* SelectSignals picks among the signals that are not pending.
LEMMA SelectPending == ASSUME PendingInv, SelectSignals PROVE PendingInv'
<1>1. /\ phase = "execute" /\ selected' = {s \in NonPendingSignalIDs : PastCooldown(s)}
      /\ phase' = IF selected' = {} THEN "sleep" ELSE "bothan"
      /\ UNCHANGED <<pendingSignalIDs, submitCh, submissions>>
  BY Zenon DEF SelectSignals, submitter
<1>2. selected' \subseteq Signals \ pendingSignalIDs
  BY <1>1, ZenonT(60) DEF NonPendingSignalIDs
<1>3. phase # "send" /\ phase' # "send"
  BY <1>1, SMTT(30)
<1>4. selected' \in SUBSET Signals /\ selected' \cap pendingSignalIDs = {}
  BY <1>2, ZenonT(60)
<1>5. QED
  BY <1>1, <1>3, <1>4, PendingKept, ZenonT(60)

\* The filter drops some of the selected signals.
LEMMA FilterPending ==
  ASSUME PendingInv, NEW due \in Due, FilterPrices(due) PROVE PendingInv'
<1>1. /\ phase = "bothan" /\ selected' = due /\ due \in SUBSET selected
      /\ pendingSignalIDs' = pendingSignalIDs \cup due
      /\ phase' = IF due = {} THEN "sleep" ELSE "send"
      /\ submitCh' = submitCh /\ submissions' = submissions
  BY ZenonT(60) DEF FilterPrices, Due, submitter
<1>2. /\ Exact(pendingSignalIDs, Sent, submitCh, submissions)
      /\ submitCh \in Seq(SUBSET Signals) /\ submissions \in Submissions
      /\ selected \in SUBSET Signals /\ selected \cap pendingSignalIDs = {}
  BY <1>1, ZenonT(60) DEF PendingInv
<1>3. Sent = {} /\ Sent' = due
  BY <1>1, SMTT(30) DEF Sent
<1>4. due \cap pendingSignalIDs = {} /\ due \in SUBSET Signals
  BY <1>1, <1>2, ZenonT(60)
<1>5. Exact(pendingSignalIDs, {}, submitCh, submissions)
  BY <1>2, <1>3, ZenonT(60)
<1>6. Exact(pendingSignalIDs \cup due, due, submitCh, submissions)
  BY <1>2, <1>4, <1>5, ExactMark, ZenonT(60)
<1>7. Exact(pendingSignalIDs, Sent, submitCh, submissions)'
  BY <1>1, <1>3, <1>6, ZenonT(60) DEF Exact
<1>8. phase' # "bothan"
  BY <1>1, SMTT(30)
<1>9. QED
  BY <1>1, <1>2, <1>4, <1>7, <1>8, ZenonT(60) DEF PendingInv, Submissions

\* SubmitPrices marks what it puts into the channel.
LEMMA SubmitPending == ASSUME PendingInv, SubmitPrices PROVE PendingInv'
<1>1. /\ phase = "send" /\ submitCh' = Append(submitCh, selected) /\ selected' = {}
      /\ phase' = "sleep" /\ pendingSignalIDs' = pendingSignalIDs
      /\ submissions' = submissions
  BY Zenon DEF SubmitPrices
<1>2. /\ Exact(pendingSignalIDs, Sent, submitCh, submissions)
      /\ submitCh \in Seq(SUBSET Signals) /\ submissions \in Submissions
      /\ selected \in SUBSET Signals
  BY Zenon DEF PendingInv
<1>3. Sent = selected /\ Sent' = {}
  BY <1>1, SMTT(30) DEF Sent
<1>4. Exact(pendingSignalIDs, selected, submitCh, submissions)
  BY <1>2, <1>3, ZenonT(60)
<1>5. Exact(pendingSignalIDs, {}, Append(submitCh, selected), submissions)
  BY <1>2, <1>4, ExactAppend, ZenonT(60)
<1>6. Exact(pendingSignalIDs, Sent, submitCh, submissions)'
  BY <1>1, <1>3, <1>5, ZenonT(60) DEF Exact
<1>7. submitCh' \in Seq(SUBSET Signals) /\ phase' # "bothan" /\ selected' \in SUBSET Signals
  BY <1>1, <1>2, SMTT(30)
<1>8. QED
  BY <1>1, <1>2, <1>6, <1>7, ZenonT(60) DEF PendingInv, Submissions

\* A key takes a submission out of the channel.
LEMMA StartPending ==
  ASSUME PendingInv, NEW k \in SubmitterKeys, StartSubmission(k) PROVE PendingInv'
<1>1. /\ submitCh # <<>> /\ submissions[k] = {} /\ submitCh' = Tail(submitCh)
      /\ submissions' = [submissions EXCEPT ![k] = Head(submitCh)]
      /\ pendingSignalIDs' = pendingSignalIDs /\ selected' = selected /\ phase' = phase
  BY Zenon DEF StartSubmission, signaller
<1>2. /\ Exact(pendingSignalIDs, Sent, submitCh, submissions)
      /\ submitCh \in Seq(SUBSET Signals) /\ submissions \in Submissions
  BY Zenon DEF PendingInv
<1>3. Sent' = Sent
  BY <1>1, ZenonT(60) DEF Sent
<1>4. Exact(pendingSignalIDs, Sent, Tail(submitCh), [submissions EXCEPT ![k] = Head(submitCh)])
  BY <1>1, <1>2, ExactStart, ZenonT(60)
<1>5. Exact(pendingSignalIDs, Sent, submitCh, submissions)'
  BY <1>1, <1>3, <1>4, ZenonT(60) DEF Exact
<1>6. submitCh' \in Seq(SUBSET Signals) /\ Head(submitCh) \in SUBSET Signals
  BY <1>1, <1>2, SMTT(30)
<1>7. submissions' \in Submissions
  BY <1>1, <1>2, <1>6, ZenonT(60) DEF Submissions
<1>8. QED
  BY <1>1, <1>5, <1>6, <1>7, ZenonT(60) DEF PendingInv, Submissions

\* After a submission, good or bad, its marks are removed one by one.
LEMMA RemovedPending ==
  ASSUME PendingInv, NEW k \in SubmitterKeys, NEW z \in Signals, RemovePending(k, z)
  PROVE  PendingInv'
<1>1. /\ pendingSignalIDs' = pendingSignalIDs \ {z} /\ submitCh' = submitCh
      /\ submissions' = [submissions EXCEPT ![k] = @ \ {z}]
      /\ selected' = selected /\ phase' = phase /\ z \in submissions[k]
  BY ZenonT(60) DEF RemovePending, signaller
<1>2. /\ Exact(pendingSignalIDs, Sent, submitCh, submissions)
      /\ submitCh \in Seq(SUBSET Signals) /\ submissions \in Submissions
  BY Zenon DEF PendingInv
<1>3. Sent' = Sent
  BY <1>1, ZenonT(60) DEF Sent
<1>4. Exact(pendingSignalIDs \ {z}, Sent, submitCh, [submissions EXCEPT ![k] = @ \ {z}])
  BY <1>1, <1>2, ExactClear, ZenonT(60)
<1>5. Exact(pendingSignalIDs, Sent, submitCh, submissions)'
  BY <1>1, <1>3, <1>4, ZenonT(60) DEF Exact
<1>6. submissions' \in Submissions
  BY <1>1, <1>2, SMTT(30) DEF Submissions
<1>7. phase = "bothan" => selected \cap (pendingSignalIDs \ {z}) = {}
  BY Zenon DEF PendingInv
<1>8. QED
  BY <1>1, <1>5, <1>6, <1>7, ZenonT(60) DEF PendingInv, Submissions

\* Every step keeps each mark with exactly one submission.
LEMMA PendingNext == ASSUME PendingInv, [GroguNext]_groguVars PROVE PendingInv'
<1>1. CASE Block \/ (\E h \in Recent : Wake(h))
           \/ (\E q \in Queries, h \in Recent : Answer(q, h))
           \/ (\E q \in Queries : NoAnswer(q) \/ CheckHeight(q) \/ StoreHeight(q))
           \/ Updated \/ (\E k \in SubmitterKeys, arrives \in BOOLEAN : BroadcastPrices(k, arrives))
           \/ (\E k \in SubmitterKeys : Confirmed(k) \/ KeyFails(k))
           \/ UNCHANGED groguVars
  <2>1. /\ UNCHANGED <<pendingSignalIDs, submitCh, submissions>> /\ selected' = selected
        /\ \/ phase' = phase
           \/ phase = "sleep" /\ phase' = "update"
           \/ /\ phase = "update"
              /\ phase' = IF \A q \in Queries : queries[q] = "done" THEN "execute" ELSE "sleep"
    BY <1>1, ZenonT(60) DEF Block, Wake, Answer, NoAnswer, CheckHeight, StoreHeight,
          Updated, BroadcastPrices, Confirmed, KeyFails, groguVars, feeds, signaller, submitter
  <2>2. \/ phase' = phase
        \/ phase # "send" /\ phase' # "send" /\ phase' # "bothan"
    BY <2>1, SMTT(30)
  <2>3. selected' \in SUBSET Signals
    BY <2>1, ZenonT(60) DEF PendingInv
  <2>4. QED
    BY <2>1, <2>2, <2>3, PendingKept, ZenonT(60)
<1>2. CASE SelectSignals
  BY <1>2, SelectPending, SMTT(30)
<1>3. CASE \E due \in Due : FilterPrices(due)
  BY <1>3, FilterPending, ZenonT(60)
<1>4. CASE SubmitPrices
  BY <1>4, SubmitPending
<1>5. CASE \E k \in SubmitterKeys : StartSubmission(k)
  BY <1>5, StartPending, ZenonT(60)
<1>6. CASE \E k \in SubmitterKeys, s \in Signals : RemovePending(k, s)
  BY <1>6, RemovedPending, ZenonT(60)
<1>7. QED
  BY <1>1, <1>2, <1>3, <1>4, <1>5, <1>6, ZenonT(60) DEF GroguNext

\* Grogu's pending marks stand for exactly one submission each, for any number of signals,
\* of keys and of rounds of the signaller.
THEOREM MarksExact == GroguSpec => []PendingIsExact
<1>1. GroguInit => PendingInv
  BY PendingInit, SMTT(30)
<1>2. PendingInv /\ [GroguNext]_groguVars => PendingInv'
  BY PendingNext, SMTT(30)
<1>3. PendingInv => PendingIsExact
  BY ZenonT(60) DEF PendingInv, Exact, PendingIsExact
<1>4. QED
  BY <1>1, <1>2, <1>3, PTL DEF GroguSpec
=============================================================================
