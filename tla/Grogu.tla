-------------------------------- MODULE Grogu --------------------------------
(***************************************************************************)
(* Grogu, the daemon that submits a validator's signal prices.  The         *)
(* signaller loops: it reads the feeds, the parameters and the validator's  *)
(* last prices with three concurrent queries, picks the signals that are    *)
(* due and not pending, marks them pending and hands them to the submitter. *)
(* The submitter gives every submission a key and a goroutine that sends    *)
(* the transaction until it is confirmed, then clears the pending marks.    *)
(*                                                                         *)
(* Prices are abstracted: a signal that is past its cooldown may or may not *)
(* have moved.  The nodes that answer queries and the chain are external.   *)
(***************************************************************************)
EXTENDS Integers, Sequences, Functions

CONSTANTS
  Signals,        \* signals of the current feeds
  SubmitterKeys,  \* keys of the submitter
  Cooldown,       \* chain parameter: seconds between two prices of a signal
  TimeBuffer,     \* seconds the signaller waits on top of that
  Capacity,       \* places of the channel, and the one submission Start holds without a key
  MaxSends,       \* attempts to send a transaction
  MaxTime,        \* bound on the time
  MaxLag          \* bound on how many blocks a node may be behind

ASSUME GroguAssumption ==
  /\ Cooldown \in Nat /\ TimeBuffer \in Nat /\ Capacity \in Nat \ {0}
  /\ MaxSends \in Nat \ {0} /\ MaxTime \in Nat /\ MaxLag \in Nat

VARIABLES
  now,                       \* external: time, one block each second
  stamps,                    \* external: history of the chain: height -> signal -> time of its price
  priceTxs,                  \* external: transactions on their way, sets of signals
  phase,                     \* of the signaller: "sleep", "update", "execute", "bothan" or "send"
  queries,                   \* query -> "idle", "asked", "checked", "done" or "failed"
  heights,                   \* query -> height of the answer it holds
  maxBlockHeight,            \* highest block an answer came from
  signalIDToValidatorPrice,  \* signal -> time of the last price as read
  selected,                  \* signals the signaller works on
  pendingSignalIDs,          \* signals in a submission
  submitCh,                  \* submissions for the submitter
  submissions,               \* key -> its submission, none for an idle key
  tries                      \* key -> tries left

feeds == <<now, stamps, priceTxs>>
signaller == <<phase, queries, heights, maxBlockHeight, signalIDToValidatorPrice, selected>>
submitter == <<submitCh, submissions, tries>>
groguVars ==
  <<now, stamps, priceTxs, phase, queries, heights, maxBlockHeight, signalIDToValidatorPrice,
    selected, pendingSignalIDs, submitCh, submissions, tries>>

Never == -Cooldown - TimeBuffer   \* no price yet
Queries == {"params", "feeds", "prices"}

(***************************************************************************)
(* The chain: a block each second, with a transaction or without.          *)
(***************************************************************************)
\* x/feeds refuses a submission with a price that comes before the cooldown.
AcceptsPrices(signals) == \A s \in signals : now + 1 >= stamps[now][s] + Cooldown

Block ==
  /\ now < MaxTime
  /\ now' = now + 1
  /\ \/ /\ stamps' = Append(stamps, stamps[now])
        /\ UNCHANGED priceTxs
     \/ \E tx \in priceTxs :
          /\ priceTxs' = priceTxs \ {tx}
          /\ stamps' = Append(stamps, [s \in Signals |-> IF s \in tx /\ AcceptsPrices(tx)
                                                        THEN now + 1 ELSE stamps[now][s]])
  /\ UNCHANGED <<signaller, pendingSignalIDs, submitter>>

(***************************************************************************)
(* The signaller.                                                          *)
(***************************************************************************)
\* The validator has to feed prices, says an answer of a block that is not older than the
\* last; three goroutines start to ask for the state.
Wake(height) ==
  /\ phase = "sleep" /\ height >= maxBlockHeight
  /\ phase' = "update"
  /\ queries' = [q \in Queries |-> "idle"]
  /\ maxBlockHeight' = height
  /\ UNCHANGED <<feeds, heights, signalIDToValidatorPrice, selected, pendingSignalIDs,
                 submitter>>

\* getMaxBlockHeightResponse: the best answer of the nodes is of some recent block.
Answer(q, height) ==
  /\ phase = "update" /\ queries[q] = "idle"
  /\ queries' = [queries EXCEPT ![q] = "asked"]
  /\ heights' = [heights EXCEPT ![q] = height]
  /\ UNCHANGED <<feeds, phase, maxBlockHeight, signalIDToValidatorPrice, selected,
                 pendingSignalIDs, submitter>>

\* No node answers.
NoAnswer(q) ==
  /\ phase = "update" /\ queries[q] = "idle"
  /\ queries' = [queries EXCEPT ![q] = "failed"]
  /\ UNCHANGED <<feeds, phase, heights, maxBlockHeight, signalIDToValidatorPrice, selected,
                 pendingSignalIDs, submitter>>

\* The height is compared with the highest so far, ...
CheckHeight(q) ==
  /\ queries[q] = "asked"
  /\ queries' = [queries EXCEPT ![q] = IF heights[q] < maxBlockHeight THEN "failed"
                                                                     ELSE "checked"]
  /\ UNCHANGED <<feeds, phase, heights, maxBlockHeight, signalIDToValidatorPrice, selected,
                 pendingSignalIDs, submitter>>

\* ... and stored, in a second step.
StoreHeight(q) ==
  /\ queries[q] = "checked"
  /\ queries' = [queries EXCEPT ![q] = "done"]
  /\ maxBlockHeight' = heights[q]
  /\ signalIDToValidatorPrice' = IF q = "prices" THEN stamps[heights[q]]
                                                 ELSE signalIDToValidatorPrice
  /\ UNCHANGED <<feeds, phase, heights, selected, pendingSignalIDs, submitter>>

\* updateInternalVariables: all three must have succeeded.
Updated ==
  /\ phase = "update"
  /\ \A q \in Queries : queries[q] \in {"done", "failed"}
  /\ phase' = IF \A q \in Queries : queries[q] = "done" THEN "execute" ELSE "sleep"
  /\ UNCHANGED <<feeds, queries, heights, maxBlockHeight, signalIDToValidatorPrice, selected,
                 pendingSignalIDs, submitter>>

\* A mutant of NonPendingSignalIDs: every signal of the feeds.
NonPendingSignalIDs_All == Signals

\* getNonPendingSignalIDs
NonPendingSignalIDs == Signals \ pendingSignalIDs

\* shouldUpdatePrice: as far as the signaller knows, the cooldown is over.
PastCooldown(s) == now >= signalIDToValidatorPrice[s] + Cooldown + TimeBuffer

\* execute: the time is taken and the signals are chosen that could be due, ...
SelectSignals ==
  /\ phase = "execute"
  /\ selected' = {s \in NonPendingSignalIDs : PastCooldown(s)}
  /\ phase' = IF selected' = {} THEN "sleep" ELSE "bothan"
  /\ UNCHANGED <<feeds, queries, heights, maxBlockHeight, signalIDToValidatorPrice,
                 pendingSignalIDs, submitter>>

\* filterAndPrepareSignalPrices: the prices that Bothan has for them decide which are due:
\* past their assigned time, with another status or moved enough.
Due == SUBSET selected

\* ... and those that are due are pending from here on.
FilterPrices(due) ==
  /\ phase = "bothan"
  /\ selected' = due
  /\ pendingSignalIDs' = pendingSignalIDs \cup due
  /\ phase' = IF due = {} THEN "sleep" ELSE "send"
  /\ UNCHANGED <<feeds, queries, heights, maxBlockHeight, signalIDToValidatorPrice, submitter>>

\* submitPrices: the submission goes to the channel, when there is room.
SubmitPrices ==
  /\ phase = "send" /\ Len(submitCh) < Capacity
  /\ submitCh' = Append(submitCh, selected)
  /\ selected' = {}
  /\ phase' = "sleep"
  /\ UNCHANGED <<feeds, queries, heights, maxBlockHeight, signalIDToValidatorPrice,
                 pendingSignalIDs, submissions, tries>>

(***************************************************************************)
(* The submitter.                                                          *)
(***************************************************************************)
\* A submission and an idle key start a goroutine.
StartSubmission(k) ==
  /\ submitCh # <<>> /\ submissions[k] = {}
  /\ submissions' = [submissions EXCEPT ![k] = Head(submitCh)]
  /\ tries' = [tries EXCEPT ![k] = MaxSends]
  /\ submitCh' = Tail(submitCh)
  /\ UNCHANGED <<feeds, signaller, pendingSignalIDs>>

\* One round of submitPrice; the broadcast may fail.
BroadcastPrices(k, arrives) ==
  /\ submissions[k] # {} /\ tries[k] > 0
  /\ tries' = [tries EXCEPT ![k] = @ - 1]
  /\ priceTxs' = IF arrives THEN priceTxs \cup {submissions[k]} ELSE priceTxs
  /\ UNCHANGED <<now, stamps, signaller, pendingSignalIDs, submitCh, submissions>>

\* The transaction was confirmed: no more tries.  (Whether it ever arrived, and its code, are
\* not kept, so the model may also stop trying too soon.)
Confirmed(k) ==
  /\ submissions[k] # {} /\ tries[k] \in 1..(MaxSends - 1)
  /\ submissions[k] \notin priceTxs
  /\ tries' = [tries EXCEPT ![k] = 0]
  /\ UNCHANGED <<feeds, signaller, pendingSignalIDs, submitCh, submissions>>

\* The key is not in the keyring.
KeyFails(k) ==
  /\ submissions[k] # {} /\ tries[k] = MaxSends
  /\ tries' = [tries EXCEPT ![k] = 0]
  /\ UNCHANGED <<feeds, signaller, pendingSignalIDs, submitCh, submissions>>

\* removePending, after the last try: the marks are cleared one by one, and after the last
\* the key is idle again.
RemovePending(k, s) ==
  /\ s \in submissions[k] /\ tries[k] = 0
  /\ pendingSignalIDs' = pendingSignalIDs \ {s}
  /\ submissions' = [submissions EXCEPT ![k] = @ \ {s}]
  /\ UNCHANGED <<feeds, signaller, submitCh, tries>>

\* Blocks an answer can be of.
Recent == {h \in (now - MaxLag)..now : h > 0}

GroguInit ==
  /\ now = 1 /\ stamps = <<[s \in Signals |-> Never]>> /\ priceTxs = {}
  /\ phase = "sleep" /\ queries = [q \in Queries |-> "idle"]
  /\ heights = [q \in Queries |-> 1] /\ maxBlockHeight = 0
  /\ signalIDToValidatorPrice = [s \in Signals |-> Never]
  /\ selected = {} /\ pendingSignalIDs = {}
  /\ submitCh = <<>> /\ submissions = [k \in SubmitterKeys |-> {}]
  /\ tries = [k \in SubmitterKeys |-> 0]

GroguNext ==
  \/ Block
  \/ \E h \in Recent : Wake(h)
  \/ \E q \in Queries, h \in Recent : Answer(q, h)
  \/ \E q \in Queries : NoAnswer(q)
  \/ \E q \in Queries : CheckHeight(q)
  \/ \E q \in Queries : StoreHeight(q)
  \/ Updated
  \/ SelectSignals
  \/ \E due \in Due : FilterPrices(due)
  \/ SubmitPrices
  \/ \E k \in SubmitterKeys : StartSubmission(k)
  \/ \E k \in SubmitterKeys, arrives \in BOOLEAN : BroadcastPrices(k, arrives)
  \/ \E k \in SubmitterKeys : Confirmed(k)
  \/ \E k \in SubmitterKeys : KeyFails(k)
  \/ \E k \in SubmitterKeys, s \in Signals : RemovePending(k, s)

GroguSpec == GroguInit /\ [][GroguNext]_groguVars

(***************************************************************************)
(* Properties.                                                             *)
(***************************************************************************)
\* The submission the signaller is about to send.
Sent == IF phase = "send" THEN selected ELSE {}

\* Every pending mark stands for exactly one submission: the one the signaller is about to
\* send, one in the channel or one a goroutine works on.  No signal is submitted twice at a
\* time and no mark is left behind, which would silence the signal (submitPrices,
\* removePending).
PendingIsExact ==
  /\ pendingSignalIDs = Sent \cup (UNION Range(submitCh)) \cup (UNION Range(submissions))
  /\ \A i \in DOMAIN submitCh :
       /\ submitCh[i] \cap Sent = {}
       /\ \A j \in DOMAIN submitCh : i # j => submitCh[i] \cap submitCh[j] = {}
       /\ \A k \in SubmitterKeys : submitCh[i] \cap submissions[k] = {}
  /\ \A k \in SubmitterKeys :
       /\ submissions[k] \cap Sent = {}
       /\ \A j \in SubmitterKeys : k # j => submissions[k] \cap submissions[j] = {}

\* A signal is not sent before its cooldown has passed: shouldUpdatePrice waits for the
\* cooldown and a buffer "to make sure the thresholdTime is not too early".
NotTooEarly ==
  phase = "send" => \A s \in selected : now >= stamps[now][s] + Cooldown

\* The highest height an answer came from is not forgotten: an answer of an older block
\* is refused (getMaxBlockHeightResponse).
HeightNeverFalls == [][maxBlockHeight' >= maxBlockHeight]_groguVars
=============================================================================
