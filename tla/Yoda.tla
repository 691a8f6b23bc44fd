-------------------------------- MODULE Yoda --------------------------------
(***************************************************************************)
(* Yoda, the daemon that reports data requests for a validator.  At the     *)
(* start it subscribes to the transactions that create requests and asks    *)
(* the chain for the requests that are still open.  Every request gets a    *)
(* goroutine that runs its data sources and hands the report, with the key  *)
(* that is to sign it, to the main loop; the main loop starts at most one   *)
(* SubmitReport per key, and batches what arrives meanwhile.                *)
(*                                                                         *)
(* The chain is external: it creates requests, accepts reports and lets     *)
(* requests expire; queries, broadcasts and executors may fail, events and  *)
(* transactions may be lost.                                               *)
(***************************************************************************)
EXTENDS Integers, Sequences, FiniteSets, Functions

CONSTANTS
  Txs,         \* transactions that create requests: sequences of request IDs
  Mine,        \* the requests whose requested validators include this one
  NumKeys,     \* number of reporter keys
  MaxReport,   \* reports in one transaction
  MaxTry,      \* attempts to send a transaction that runs out of gas
  MaxCrashes   \* bound on the number of crashes

ASSUME YodaAssumption ==
  /\ NumKeys \in Nat \ {0} /\ MaxReport \in Nat \ {0} /\ MaxTry \in Nat \ {0}
  /\ MaxCrashes \in Nat

\* The chain numbers requests: no two transactions create the same one.
ASSUME TxsAssumption ==
  /\ \A tx \in Txs : tx \in Seq(Nat)
  /\ \A tx, ux \in Txs : Range(tx) \cap Range(ux) # {} => tx = ux

VARIABLES
  committed,        \* external: the transactions of Txs that are in a block
  reported,         \* external: requests with a report of this validator
  expired,          \* external: requests that no longer take reports
  mempool,          \* external: report transactions on their way, sets of requests
  stage,            \* "down", "subscribed" or "running"
  events,           \* events received and not yet handled
  lost,             \* ghost: events that were lost with the connection
  unlisted,         \* ghost: transactions before a start whose query was answered with an error
  pendingRequests,  \* requests found at the start
  handlers,         \* request -> stage of its goroutine, "none" when it was not started
  keyOf,            \* request -> key index of its goroutine
  keyIndex,         \* the round-robin counter
  available,        \* key -> BOOLEAN, availiableKeys
  waiting,          \* key -> sequence of the reports that wait for the key
  submitters,       \* key -> sequence of the SubmitReport calls that run
  freeKeys,         \* the channel of keys that were given back
  crashes

chain == <<committed, reported, expired, mempool>>
goroutines == <<handlers, keyOf, keyIndex>>
loop == <<available, waiting, submitters, freeKeys>>
vars == <<committed, reported, expired, mempool, stage, events, lost, unlisted, pendingRequests,
          handlers, keyOf, keyIndex, available, waiting, submitters, freeKeys, crashes>>

Keys == 0..(NumKeys - 1)
Requests == UNION {Range(tx) : tx \in Txs}
Created == UNION {Range(tx) : tx \in committed}

(***************************************************************************)
(* The chain.                                                              *)
(***************************************************************************)
\* A transaction that creates requests is committed; a subscriber is told.
CommitRequests(tx) ==
  /\ tx \notin committed
  /\ committed' = committed \cup {tx}
  /\ events' = IF stage = "down" THEN events ELSE events \cup {tx}
  /\ UNCHANGED <<reported, expired, mempool, stage, lost, unlisted, pendingRequests, goroutines,
                 loop, crashes>>

\* An event is lost with the connection.
LoseEvent(tx) ==
  /\ tx \in events
  /\ events' = events \ {tx}
  /\ lost' = lost \cup {tx}
  /\ UNCHANGED <<chain, stage, unlisted, pendingRequests, goroutines, loop, crashes>>

\* A report transaction is one message for each request, all or nothing.
Accepts(reports) == reports \cap (reported \cup expired) = {}

\* A transaction that was given up may still be committed.
CommitReports(reports) ==
  /\ reports \in mempool
  /\ mempool' = mempool \ {reports}
  /\ reported' = IF Accepts(reports) THEN reported \cup reports ELSE reported
  /\ UNCHANGED <<committed, expired, stage, events, lost, unlisted, pendingRequests, goroutines,
                 loop, crashes>>

Expire(r) ==
  /\ r \in Created \ expired
  /\ expired' = expired \cup {r}
  /\ UNCHANGED <<committed, reported, mempool, stage, events, lost, unlisted, pendingRequests,
                 goroutines, loop, crashes>>

(***************************************************************************)
(* The start.                                                              *)
(***************************************************************************)
NoHandlers == [r \in Requests |-> "none"]

Subscribe ==
  /\ stage = "down"
  /\ stage' = "subscribed"
  /\ UNCHANGED <<chain, events, lost, unlisted, pendingRequests, goroutines, loop, crashes>>

\* A mutant of StillOpen: one request at most is returned.
StillOpen_First ==
  LET open == {r \in Created \cap Mine : r \notin reported \cup expired}
  IN  {r \in open : \A q \in open : r <= q}

\* What the query PendingRequests returns.
StillOpen == {r \in Created \cap Mine : r \notin reported \cup expired}

\* The requests that the answer lists, each with a goroutine, then the loop.
StartLoop(found) ==
  /\ stage = "subscribed"
  /\ stage' = "running"
  /\ pendingRequests' = found
  /\ handlers' = [r \in Requests |-> IF r \in found THEN "query" ELSE handlers[r]]
  /\ UNCHANGED <<chain, events, lost, keyOf, keyIndex, loop, crashes>>

\* runImpl: the query is answered.
Run == StartLoop(StillOpen) /\ unlisted' = {}

\* runImpl: the answer has an error code, which is not looked at, and no value, which reads
\* as an empty list.  Only what the subscription tells is known from here on.  (When there
\* is no answer at all the error is logged and the nil answer dereferenced: a Crash.)
RunUnlisted == StartLoop({}) /\ unlisted' = committed \ events

\* A mutant of Unhandled: the list of pending requests is not consulted.
Unhandled_All(tx) == Range(tx)

\* handleTransaction gives up at the first request that is in the pending list.
Unhandled(tx) ==
  {tx[i] : i \in {n \in DOMAIN tx : \A j \in 1..n : tx[j] \notin pendingRequests}}

HandleTransaction(tx) ==
  /\ stage = "running" /\ tx \in events
  /\ events' = events \ {tx}
  /\ handlers' = [r \in Requests |-> IF r \in Unhandled(tx) THEN "query" ELSE handlers[r]]
  /\ UNCHANGED <<chain, stage, lost, unlisted, pendingRequests, keyOf, keyIndex, loop, crashes>>

(***************************************************************************)
(* handleRequest, one goroutine per request.                               *)
(***************************************************************************)
\* GetRequest: a request that is gone, or not for this validator, is skipped.
GetRequest(r) ==
  /\ handlers[r] = "query"
  /\ IF r \in Mine \ expired
     THEN /\ keyIndex' = (keyIndex + 1) % NumKeys
          /\ keyOf' = [keyOf EXCEPT ![r] = keyIndex']
          /\ handlers' = [handlers EXCEPT ![r] = "execute"]
     ELSE /\ handlers' = [handlers EXCEPT ![r] = "done"]
          /\ UNCHANGED <<keyOf, keyIndex>>
  /\ UNCHANGED <<chain, stage, events, lost, unlisted, pendingRequests, loop, crashes>>

\* A query that fails MaxTry times ends the goroutine.
QueryFails(r) ==
  /\ handlers[r] \in {"query", "execute"}
  /\ handlers' = [handlers EXCEPT ![r] = "done"]
  /\ UNCHANGED <<chain, stage, events, lost, unlisted, pendingRequests, keyOf, keyIndex, loop,
                 crashes>>

\* handleRawRequests: a data source that fails is reported with exit code 255.
Execute(r) ==
  /\ handlers[r] = "execute"
  /\ handlers' = [handlers EXCEPT ![r] = "send"]
  /\ UNCHANGED <<chain, stage, events, lost, unlisted, pendingRequests, keyOf, keyIndex, loop,
                 crashes>>

(***************************************************************************)
(* The main loop.                                                          *)
(***************************************************************************)
NewSubmitter(reports) == [reports |-> reports, attempt |-> 1, stage |-> "broadcast"]

StartSubmitter(k, reports) ==
  submitters' = [submitters EXCEPT ![k] = Append(@, NewSubmitter(reports))]

\* A mutant of TakeKey: the key stays available.
TakeKey_Stays(k) == available

\* A key that signs is not available.
TakeKey(k) == [available EXCEPT ![k] = FALSE]

\* A report arrives over the unbuffered channel pendingMsgs.
ReceiveReport(r) ==
  LET k == keyOf[r]
  IN  /\ stage = "running" /\ handlers[r] = "send"
      /\ handlers' = [handlers EXCEPT ![r] = "done"]
      /\ IF available[k]
         THEN /\ available' = TakeKey(k)
              /\ StartSubmitter(k, <<r>>)
              /\ UNCHANGED waiting
         ELSE /\ waiting' = [waiting EXCEPT ![k] = Append(@, r)]
              /\ UNCHANGED <<available, submitters>>
      /\ UNCHANGED <<chain, stage, events, lost, unlisted, pendingRequests, keyOf, keyIndex,
                     freeKeys, crashes>>

\* A mutant of Batch: the report at the cut is dropped.
Batch_SkipsOne(queue) ==
  IF Len(queue) > MaxReport
  THEN [now |-> SubSeq(queue, 1, MaxReport), later |-> SubSeq(queue, MaxReport + 2, Len(queue))]
  ELSE [now |-> queue, later |-> <<>>]

\* At most MaxReport of the waiting reports go into the next transaction.
Batch(queue) ==
  IF Len(queue) > MaxReport
  THEN [now |-> SubSeq(queue, 1, MaxReport), later |-> SubSeq(queue, MaxReport + 1, Len(queue))]
  ELSE [now |-> queue, later |-> <<>>]

ReceiveFreeKey ==
  /\ stage = "running" /\ freeKeys # <<>>
  /\ freeKeys' = Tail(freeKeys)
  /\ LET k == Head(freeKeys)
     IN  IF waiting[k] # <<>>
         THEN /\ StartSubmitter(k, Batch(waiting[k]).now)
              /\ waiting' = [waiting EXCEPT ![k] = Batch(@).later]
              /\ UNCHANGED available
         ELSE /\ available' = [available EXCEPT ![k] = TRUE]
              /\ UNCHANGED <<waiting, submitters>>
  /\ UNCHANGED <<chain, stage, events, lost, unlisted, pendingRequests, goroutines, crashes>>

(***************************************************************************)
(* SubmitReport.                                                           *)
(***************************************************************************)
Without(s, i) == SubSeq(s, 1, i - 1) \o SubSeq(s, i + 1, Len(s))

\* The deferred calls of SubmitReport: the key is given back however it ends.
ReturnKey(k, i) ==
  /\ submitters' = [submitters EXCEPT ![k] = Without(@, i)]
  /\ freeKeys' = Append(freeKeys, k)

\* signAndBroadcast: a transaction of one message per report.
Broadcast(k, i) ==
  /\ submitters[k][i].stage = "broadcast"
  /\ mempool' = mempool \cup {Range(submitters[k][i].reports)}
  /\ submitters' = [submitters EXCEPT ![k][i].stage = "find"]
  /\ UNCHANGED <<committed, reported, expired, stage, events, lost, unlisted, pendingRequests,
                 goroutines, available, waiting, freeKeys, crashes>>

\* All tries to broadcast failed; or the transaction was found, with code 0 or with an
\* error; or it was not found before the timeout.
GiveBack(k, i) ==
  /\ ReturnKey(k, i)
  /\ UNCHANGED <<chain, stage, events, lost, unlisted, pendingRequests, goroutines, available,
                 waiting, crashes>>

\* The transaction ran out of gas: it is taken from the mempool without effect and sent
\* again with more gas, or given up after MaxTry attempts.
OutOfGas(k, i) ==
  /\ submitters[k][i].stage = "find"
  /\ Range(submitters[k][i].reports) \in mempool
  /\ mempool' = mempool \ {Range(submitters[k][i].reports)}
  /\ IF submitters[k][i].attempt < MaxTry
     THEN /\ submitters' = [submitters EXCEPT ![k][i].attempt = @ + 1,
                                              ![k][i].stage = "broadcast"]
          /\ UNCHANGED freeKeys
     ELSE ReturnKey(k, i)
  /\ UNCHANGED <<committed, reported, expired, stage, events, lost, unlisted, pendingRequests,
                 goroutines, available, waiting, crashes>>

(***************************************************************************)
(* A crash loses everything that is not on the chain.                      *)
(***************************************************************************)
Crash ==
  /\ stage # "down" /\ crashes < MaxCrashes
  /\ crashes' = crashes + 1
  /\ stage' = "down"
  /\ events' = {}
  /\ lost' = {}
  /\ unlisted' = {}
  /\ pendingRequests' = {}
  /\ handlers' = NoHandlers
  /\ keyOf' = [r \in Requests |-> 0]
  /\ keyIndex' = NumKeys - 1
  /\ available' = [k \in Keys |-> TRUE]
  /\ waiting' = [k \in Keys |-> <<>>]
  /\ submitters' = [k \in Keys |-> <<>>]
  /\ freeKeys' = <<>>
  /\ UNCHANGED chain

-----------------------------------------------------------------------------
Init ==
  /\ committed = {} /\ reported = {} /\ expired = {} /\ mempool = {}
  /\ stage = "down"
  /\ events = {}
  /\ lost = {}
  /\ unlisted = {}
  /\ pendingRequests = {}
  /\ handlers = NoHandlers
  /\ keyOf = [r \in Requests |-> 0]
  /\ keyIndex = NumKeys - 1
  /\ available = [k \in Keys |-> TRUE]
  /\ waiting = [k \in Keys |-> <<>>]
  /\ submitters = [k \in Keys |-> <<>>]
  /\ freeKeys = <<>>
  /\ crashes = 0

Submit(k, i) == Broadcast(k, i) \/ GiveBack(k, i) \/ OutOfGas(k, i)

Next ==
  \/ \E tx \in Txs : CommitRequests(tx) \/ LoseEvent(tx) \/ HandleTransaction(tx)
  \/ \E reports \in mempool : CommitReports(reports)
  \/ \E r \in Requests : \/ Expire(r) \/ GetRequest(r) \/ QueryFails(r) \/ Execute(r)
                         \/ ReceiveReport(r)
  \/ Subscribe \/ Run \/ RunUnlisted \/ ReceiveFreeKey \/ Crash
  \/ \E k \in Keys : \E i \in DOMAIN submitters[k] : Submit(k, i)

Spec == Init /\ [][Next]_vars

\* The loop goes on, a goroutine runs, a submitter ends: queries and broadcasts are
\* bounded by tries and timeouts.
Fairness ==
  /\ WF_vars(Subscribe) /\ WF_vars(Run \/ RunUnlisted) /\ WF_vars(ReceiveFreeKey)
  /\ \A r \in Requests : /\ WF_vars(GetRequest(r) \/ QueryFails(r))
                         /\ WF_vars(Execute(r) \/ QueryFails(r))
                         /\ WF_vars(ReceiveReport(r))
  /\ \A k \in Keys : WF_vars(\E i \in DOMAIN submitters[k] : GiveBack(k, i))

FairSpec == Spec /\ Fairness

-----------------------------------------------------------------------------
\* A key signs for one SubmitReport at a time, so account sequence numbers do not collide,
\* and it is never lost: it is available, in use or on its way back, and in one of these
\* states only.  As the channel freeKeys has room for every key, giving back never blocks.
KeyIsConserved ==
  \A k \in Keys :
    LET returned == Cardinality({i \in DOMAIN freeKeys : freeKeys[i] = k})
    IN  /\ Len(submitters[k]) + returned + (IF available[k] THEN 1 ELSE 0) = 1
        /\ available[k] => waiting[k] = <<>>

\* While yoda runs, it has started on every open request of its validator that was created
\* before or after it started, unless the event was lost or is still to be handled: the
\* subscription and the query leave no gap, and handleTransaction, which returns at the
\* first request that is pending, does not skip one that nobody else looks after.  After a
\* start whose query was answered with an error, the requests from before the subscription
\* are the only ones it does not know of.
NoRequestMissed ==
  stage = "running" =>
    \A r \in (Created \cap Mine) \ (reported \cup expired) :
      handlers[r] # "none" \/ \E tx \in events \cup lost \cup unlisted : r \in Range(tx)

\* The same without the exemption: a start takes up every request that is open.  It fails:
\* runImpl logs "Failed to get pending requests" when there is no answer but does not look
\* at the code of an answer, and goes on with an empty list.
StartFindsOpen ==
  stage = "running" =>
    \A r \in (Created \cap Mine) \ (reported \cup expired) :
      handlers[r] # "none" \/ \E tx \in events \cup lost : r \in Range(tx)

\* A request is worked on once by a running yoda, although both the query and the
\* subscription may tell of it: a second report would fail and take the others of its
\* transaction with it.
HandledOnce == [][\A r \in Requests : handlers[r] # handlers'[r] /\ handlers'[r] = "query"
                                         => handlers[r] = "none"]_vars

\* r has been handed to the main loop and waits for a key.
Waits(r) == \E k \in Keys : r \in Range(waiting[k])
InSubmission(r) ==
  \E k \in Keys : \E i \in DOMAIN submitters[k] : r \in Range(submitters[k][i].reports)

\* A report that waits for its key is put into a transaction, unless yoda crashes first:
\* none is left in the queue and none is dropped between the queue and SubmitReport.
WaitingIsSubmitted == \A r \in Requests : Waits(r) ~> (InSubmission(r) \/ stage = "down")
=============================================================================
