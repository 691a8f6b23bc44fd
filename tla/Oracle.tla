------------------------------- MODULE Oracle -------------------------------
(***************************************************************************)
(* Data requests of x/oracle.  A request, sent as MsgRequestData or as an   *)
(* IBC packet, runs the prepare phase of an oracle script, pays the data    *)
(* sources and asks a random subset of the active validators.  The          *)
(* validators report; once MinCount of them have, the EndBlocker executes   *)
(* the script and saves the result, may order a group signature on it, and  *)
(* answers the IBC channel.  A request that is not resolved in time expires *)
(* and the validators that did not report are deactivated.                  *)
(*                                                                         *)
(* Owasm, x/bank, the IBC channel and x/bandtss are external: prepare asks  *)
(* for the data sources of the script's code, execute succeeds or fails,    *)
(* SendPacket and CreateDirectSigningRequest succeed or fail.  One          *)
(* denomination stands for all: limits are checked per denomination.        *)
(***************************************************************************)
EXTENDS Integers, Sequences, FiniteSets, SequencesExt, FiniteSetsExt

CONSTANTS
  Validators,          \* the bonded validators
  Feeders,             \* those of them that x/feeds may miss a price of
  Users,               \* requesters, relayers and owners
  RequestIds,          \* 1..n: a bound on the number of requests
  Codes,               \* what scripts may ask for: sequences of data sources
  GenesisDataSources,  \* data sources of the genesis state
  GenesisOracleScripts,\* oracle scripts of the genesis state
  MaxDataSources,      \* bounds on the data sources and scripts created
  MaxOracleScripts,
  Fees,                \* fees of a data source
  AskCounts,           \* ask counts, fee limits and wishes for a signature
  FeeLimits,
  TSSWishes,
  SigningFees,         \* what x/bandtss may charge for a signature
  Wealth,              \* what every user owns at first
  ParamChoices,        \* the parameters governance chooses from
  TicksPerSecond,      \* block times are finer than request times
  MaxGap,              \* ticks between two blocks
  MaxHeight            \* bound on the height

ASSUME IdsAssumption ==
  IsFiniteSet(RequestIds) /\ RequestIds = 1..Cardinality(RequestIds)
ASSUME TicksAssumption == TicksPerSecond \in Nat \ {0} /\ MaxGap \in Nat \ {0}
ASSUME AmountsAssumption ==
  AskCounts \subseteq Nat /\ FeeLimits \subseteq Nat /\ SigningFees \subseteq Nat
ASSUME ValidatorsAssumption == IsFiniteSet(Validators)

VARIABLES
  dataSources,     \* sequence of [owner, fee]; the index is the ID
  oracleScripts,   \* sequence of [owner, code]
  requests,        \* the stored requests, a function on their IDs
  requestCount, lastExpired,
  reports,         \* request -> validators that reported
  pendingResolve,  \* the list of requests to resolve in the EndBlocker
  results,         \* request -> sequence of the results written, oldest first
  signingResults,  \* request -> "none", "signing" or "error"
  responses,       \* request -> sequence of the statuses sent over IBC
  status,          \* validator -> [isActive, since]
  params,          \* [expiration, maxAskCount, penalty, ibcEnabled]
  wallet,          \* user -> balance
  spent,           \* history: request -> what its requester has paid for it
  height, time, phase, todo

accounts == <<wallet, spent>>
scripts == <<dataSources, oracleScripts>>
block == <<height, time, phase, todo>>
answers == <<results, signingResults, responses>>
queue == <<requests, requestCount, lastExpired, reports, pendingResolve>>
vars == <<dataSources, oracleScripts, requests, requestCount, lastExpired, reports,
          pendingResolve, results, signingResults, responses, status, params, wallet,
          spent, height, time, phase, todo>>

DataSource == [owner : Users, fee : Fees]
OracleScript == [owner : Users, code : Codes]

\* The zero time of Go: a validator that was never active.
ZeroTime == 0

\* InitGenesis; block times start at two seconds.
Init ==
  /\ dataSources = GenesisDataSources
  /\ oracleScripts = GenesisOracleScripts
  /\ requests = <<>>
  /\ requestCount = 0
  /\ lastExpired = 0
  /\ reports = [r \in RequestIds |-> {}]
  /\ pendingResolve = <<>>
  /\ results = [r \in RequestIds |-> <<>>]
  /\ signingResults = [r \in RequestIds |-> "none"]
  /\ responses = [r \in RequestIds |-> <<>>]
  /\ status = [v \in Validators |-> [isActive |-> FALSE, since |-> ZeroTime]]
  /\ params \in ParamChoices
  /\ wallet = [u \in Users |-> Wealth]
  /\ spent = [r \in RequestIds |-> 0]
  /\ height = 1
  /\ time = 2 * TicksPerSecond
  /\ phase = "tx"
  /\ todo = <<>>

HasResult(r) == results[r] # <<>>

(***************************************************************************)
(* Data sources and oracle scripts.                                        *)
(***************************************************************************)
CreateDataSource(owner, fee) ==
  /\ phase = "tx" /\ Len(dataSources) < MaxDataSources
  /\ dataSources' = Append(dataSources, [owner |-> owner, fee |-> fee])
  /\ UNCHANGED <<oracleScripts, queue, answers, status, params, accounts, block>>

EditDataSource(sender, d, owner, fee) ==
  /\ phase = "tx" /\ dataSources[d].owner = sender
  /\ dataSources' = [dataSources EXCEPT ![d] = [owner |-> owner, fee |-> fee]]
  /\ UNCHANGED <<oracleScripts, queue, answers, status, params, accounts, block>>

CreateOracleScript(owner, code) ==
  /\ phase = "tx" /\ Len(oracleScripts) < MaxOracleScripts
  /\ oracleScripts' = Append(oracleScripts, [owner |-> owner, code |-> code])
  /\ UNCHANGED <<dataSources, queue, answers, status, params, accounts, block>>

EditOracleScript(sender, o, owner, code) ==
  /\ phase = "tx" /\ oracleScripts[o].owner = sender
  /\ oracleScripts' = [oracleScripts EXCEPT ![o] = [owner |-> owner, code |-> code]]
  /\ UNCHANGED <<dataSources, queue, answers, status, params, accounts, block>>

(***************************************************************************)
(* Requests.                                                               *)
(***************************************************************************)
\* IterateBondedValidatorsByPower and the random choice among the active.
GetRandomValidators(size) == kSubset(size, {v \in Validators : status[v].isActive})

\* Every raw request pays the fee of its data source once per validator asked.
CollectFee(code, askCount) ==
  FoldLeft(LAMBDA sum, d : sum + dataSources[d].fee * askCount, 0, code)

\* time.Unix() of the block time, in ticks.
Unix(t) == (t \div TicksPerSecond) * TicksPerSecond

\* A mutant of RemainingLimit: the fees already paid are not taken off.
RemainingLimit_Full(feeLimit, fee) == feeLimit
RemainingLimit(feeLimit, fee) == feeLimit - fee

NewRequest(o, asked, minCount, ibc, tss, payer, feeLimit, fee) ==
  [script |-> o, asked |-> asked, minCount |-> minCount, height |-> height,
   time |-> Unix(time), ibc |-> ibc, tss |-> tss, requester |-> payer,
   feeLimit |-> RemainingLimit(feeLimit, fee), agreed |-> feeLimit, made |-> time,
   sinces |-> [v \in asked |-> status[v].since]]

\* The bound on the height leaves every request the time to expire.
MayExpire == \A p \in ParamChoices : height + p.expiration <= MaxHeight

\* ValidateBasic and PrepareRequest.  agreed, made and sinces are history: the
\* limit the requester set, the exact time of the block, and since when the
\* validators asked were active.
PrepareRequest(payer, o, askCount, minCount, feeLimit, ibc, tss) ==
  LET code == oracleScripts[o].code
      fee == CollectFee(code, askCount)
      id == requestCount + 1
  IN  /\ phase = "tx" /\ id \in RequestIds /\ MayExpire
      /\ 0 < minCount /\ minCount <= askCount /\ askCount <= params.maxAskCount
      /\ code # <<>> /\ \A i \in DOMAIN code : code[i] \in DOMAIN dataSources
      /\ fee \in 0..feeLimit /\ fee <= wallet[payer]
      /\ wallet' = [wallet EXCEPT ![payer] = @ - fee]
      /\ spent' = [spent EXCEPT ![id] = fee]
      /\ \E asked \in GetRandomValidators(askCount) :
           requests' = [r \in DOMAIN requests \cup {id} |->
             IF r = id THEN NewRequest(o, asked, minCount, ibc, tss, payer, feeLimit, fee)
                       ELSE requests[r]]
      /\ requestCount' = id
      /\ UNCHANGED <<scripts, lastExpired, reports, pendingResolve, answers, status,
                     params, block>>

RequestData(sender, o, askCount, minCount, feeLimit, tss) ==
  PrepareRequest(sender, o, askCount, minCount, feeLimit, FALSE, tss)

\* A request packet; the relayer pays.  A refused one is acknowledged with an
\* error and leaves no trace.
OnRecvPacket(relayer, o, askCount, minCount, feeLimit, tss) ==
  /\ params.ibcEnabled
  /\ PrepareRequest(relayer, o, askCount, minCount, feeLimit, TRUE, tss)

(***************************************************************************)
(* Reports.                                                                *)
(***************************************************************************)
\* CheckValidReport; a report has to answer every raw request.
CheckValidReport(r, v) ==
  /\ r \in DOMAIN requests
  /\ v \in requests[r].asked
  /\ v \notin reports[r]

\* A mutant of Sufficient: every report from the MinCount-th on.
Sufficient_AtLeast(r, count) == ~HasResult(r) /\ count >= requests[r].minCount
\* The exact moment when the number of reports is sufficient.
Sufficient(r, count) == ~HasResult(r) /\ count = requests[r].minCount

ReportData(v, r) ==
  /\ phase = "tx"
  /\ r > lastExpired
  /\ CheckValidReport(r, v)
  /\ reports' = [reports EXCEPT ![r] = @ \cup {v}]
  /\ pendingResolve' = IF Sufficient(r, Cardinality(reports'[r]))
                       THEN Append(pendingResolve, r) ELSE pendingResolve
  /\ UNCHANGED <<scripts, requests, requestCount, lastExpired, answers, status, params,
                 accounts, block>>

(***************************************************************************)
(* Validators and parameters.                                              *)
(***************************************************************************)
Activate(v) ==
  /\ phase = "tx"
  /\ ~status[v].isActive
  /\ status[v].since = ZeroTime \/ status[v].since + params.penalty <= time
  /\ status' = [status EXCEPT ![v] = [isActive |-> TRUE, since |-> time]]
  /\ UNCHANGED <<scripts, queue, answers, params, accounts, block>>

UpdateParams(p) ==
  /\ phase = "tx" /\ p # params
  /\ params' = p
  /\ UNCHANGED <<scripts, queue, answers, status, accounts, block>>

(***************************************************************************)
(* The EndBlocker: resolve the pending list, clear it, expire.             *)
(***************************************************************************)
EndBlock ==
  /\ phase = "tx"
  /\ phase' = "resolve"
  /\ todo' = pendingResolve
  /\ UNCHANGED <<scripts, queue, answers, status, params, accounts, height, time>>

\* SaveResult writes the result and answers the channel of the request, if the
\* packet can be sent.
SaveResult(r, st) ==
  /\ results' = [results EXCEPT ![r] =
                   Append(@, [status |-> st, ansCount |-> Cardinality(reports[r]),
                              minCount |-> requests[r].minCount])]
  /\ \/ /\ requests[r].ibc
        /\ responses' = [responses EXCEPT ![r] = Append(@, st)]
     \/ UNCHANGED responses

\* safeCreateSigning: CreateDirectSigningRequest on a cached context charges the
\* requester at most the limit it is given, or fails without a trace.
SafeCreateSigning(r, limit, payer) ==
  \/ \E fee \in SigningFees :
       /\ fee <= limit /\ fee <= wallet[payer]
       /\ wallet' = [wallet EXCEPT ![payer] = @ - fee]
       /\ spent' = [spent EXCEPT ![r] = @ + fee]
       /\ signingResults' = [signingResults EXCEPT ![r] = "signing"]
  \/ /\ signingResults' = [signingResults EXCEPT ![r] = "error"]
     /\ UNCHANGED accounts

\* A successful execution saves the result, then asks for the signature.
ResolveSuccess(r) ==
  /\ SaveResult(r, "SUCCESS")
  /\ IF requests[r].tss
     THEN SafeCreateSigning(r, requests[r].feeLimit, requests[r].requester)
     ELSE UNCHANGED <<signingResults, accounts>>

\* The script fails or returns no data.
ResolveFailure(r) ==
  /\ SaveResult(r, "FAILURE")
  /\ UNCHANGED <<signingResults, accounts>>

ResolveRequest ==
  /\ phase = "resolve" /\ todo # <<>>
  /\ ResolveSuccess(Head(todo)) \/ ResolveFailure(Head(todo))
  /\ todo' = Tail(todo)
  /\ UNCHANGED <<scripts, queue, status, params, height, time, phase>>

\* SetPendingResolveList(ctx, []types.RequestID{}).
ClearedList == <<>>

ResolveDone ==
  /\ phase = "resolve" /\ todo = <<>>
  /\ pendingResolve' = ClearedList
  /\ phase' = "expire"
  /\ UNCHANGED <<scripts, requests, requestCount, lastExpired, reports, answers, status,
                 params, accounts, height, time, todo>>

\* A mutant of Expired: counted from the current height.
Expired_FromNow(r) == height + params.expiration <= height
Expired(r) == requests[r].height + params.expiration <= height

\* A mutant of MissReport: since when the validator is active does not matter.
MissReport_Always(v, requestTime) == status[v].isActive
\* MissReport: only a validator active before the request is deactivated.
MissReport(v, requestTime) == status[v].isActive /\ status[v].since < requestTime

\* One round of the loop of ProcessExpiredRequests.
ProcessExpiredRequest ==
  LET r == lastExpired + 1
      req == requests[r]
      missing == {v \in req.asked \ reports[r] : MissReport(v, req.time)}
  IN  /\ phase = "expire"
      /\ r <= requestCount /\ Expired(r)
      /\ IF HasResult(r) THEN UNCHANGED <<results, responses>> ELSE SaveResult(r, "EXPIRED")
      /\ status' = [v \in Validators |->
           IF v \in missing THEN [isActive |-> FALSE, since |-> time] ELSE status[v]]
      /\ requests' = [x \in DOMAIN requests \ {r} |-> requests[x]]
      /\ reports' = [reports EXCEPT ![r] = {}]
      /\ lastExpired' = r
      /\ UNCHANGED <<scripts, requestCount, pendingResolve, signingResults, params,
                     accounts, block>>

\* The loop ends at the first request that is not due.
ExpiryDone ==
  LET r == lastExpired + 1
  IN  phase = "expire" /\ (r \in DOMAIN requests => ~Expired(r))

\* The EndBlocker of x/feeds comes later: it reports a validator that misses a
\* price.  Which validators these are is the business of Feeds.
MissPrice(v) ==
  /\ ExpiryDone /\ v \in Feeders
  /\ MissReport(v, time)
  /\ status' = [status EXCEPT ![v] = [isActive |-> FALSE, since |-> time]]
  /\ UNCHANGED <<scripts, queue, answers, params, accounts, block>>

\* The next block begins.  Beyond the bound on the height blocks come without
\* moving the clock.
NextBlock(gap) ==
  /\ ExpiryDone
  /\ phase' = "tx"
  /\ height' = Min({height + 1, MaxHeight})
  /\ time' = IF height < MaxHeight THEN time + gap ELSE time
  /\ UNCHANGED <<scripts, queue, answers, status, params, accounts, todo>>

Next ==
  \/ \E u \in Users, fee \in Fees :
       \/ CreateDataSource(u, fee)
       \/ \E d \in DOMAIN dataSources, w \in Users : EditDataSource(u, d, w, fee)
  \/ \E u \in Users, code \in Codes :
       \/ CreateOracleScript(u, code)
       \/ \E o \in DOMAIN oracleScripts, w \in Users : EditOracleScript(u, o, w, code)
  \/ \E u \in Users, o \in DOMAIN oracleScripts, limit \in FeeLimits, tss \in TSSWishes :
       \E ask, min \in AskCounts :
         \/ RequestData(u, o, ask, min, limit, tss)
         \/ OnRecvPacket(u, o, ask, min, limit, tss)
  \/ \E v \in Validators : Activate(v) \/ MissPrice(v) \/ \E r \in DOMAIN requests : ReportData(v, r)
  \/ \E p \in ParamChoices : UpdateParams(p)
  \/ EndBlock \/ ResolveRequest \/ ResolveDone \/ ProcessExpiredRequest
  \/ \E gap \in 1..MaxGap : NextBlock(gap)

Spec == Init /\ [][Next]_vars

\* Blocks keep coming and each runs to its end; nobody has to send a transaction.
Fairness ==
  /\ WF_vars(EndBlock) /\ WF_vars(ResolveRequest) /\ WF_vars(ResolveDone)
  /\ WF_vars(ProcessExpiredRequest)
  /\ WF_vars(\E gap \in 1..MaxGap : NextBlock(gap))

FairSpec == Spec /\ Fairness

(***************************************************************************)
(* Properties.                                                             *)
(***************************************************************************)
\* The state is well typed; the stored requests are exactly those between the
\* last expired one and the newest, so that no MustGetRequest panics.
TypeOK ==
  /\ dataSources \in Seq(DataSource) /\ oracleScripts \in Seq(OracleScript)
  /\ DOMAIN requests = (lastExpired + 1)..requestCount
  /\ requestCount \in RequestIds \cup {0} /\ lastExpired \in 0..requestCount
  /\ reports \in [RequestIds -> SUBSET Validators]
  /\ pendingResolve \in Seq(DOMAIN requests) /\ todo \in Seq(DOMAIN requests)
  /\ signingResults \in [RequestIds -> {"none", "signing", "error"}]
  /\ status \in [Validators -> [isActive : BOOLEAN, since : 0..time]]
  /\ params \in ParamChoices
  /\ wallet \in [Users -> Nat]
  /\ height \in 1..MaxHeight /\ phase \in {"tx", "resolve", "expire"}

\* A request is resolved once: "This can happen at most one time for any request"
\* (ReportData).  Its channel hears of it at most once and hears the result that
\* was saved, and it expires exactly if fewer than MinCount validators reported,
\* also when the last report comes in the block of the expiry (EndBlocker).
ResolvedOnce ==
  \A r \in RequestIds :
    /\ Len(results[r]) <= 1 /\ Len(responses[r]) <= Len(results[r])
    /\ \A i \in DOMAIN results[r] :
         LET result == results[r][i]
         IN  /\ result.status = "EXPIRED" <=> result.ansCount < result.minCount
             /\ i \in DOMAIN responses[r] => responses[r][i] = result.status

\* Data sources and the group signature together never cost more than the limit
\* the requester agreed to, whatever the fees are when the request is resolved
\* (PrepareRequest, ResolveSuccess).
FeesWithinLimit == \A r \in DOMAIN requests : spent[r] <= requests[r].agreed

\* A validator is deactivated, unless x/feeds misses a price of it, only for a
\* request it was asked in its current period of activity and did not answer:
\* never twice for one absence, and not for a request from before it was
\* deactivated and activated again (MissReport).
NoStalePenalty ==
  [][\A v \in Validators : status[v].isActive /\ ~status'[v].isActive /\ ~MissPrice(v) =>
       LET r == lastExpired + 1
       IN  /\ v \in requests[r].asked \ reports[r]
           /\ requests[r].sinces[v] = status[v].since]_vars

\* Every request is resolved, also if nobody reports.
EveryRequestResolves ==
  \A r \in RequestIds : r <= requestCount ~> HasResult(r)

\* MissReport is a "no-op if already inactive or if the validator was active after
\* the time the request happened": a validator active before the request that did
\* not report is deactivated when the request expires.
MissIsPenalised ==
  [][lastExpired' # lastExpired =>
       LET req == requests[lastExpired']
       IN  \A v \in req.asked \ reports[lastExpired'] :
             status[v].isActive /\ status[v].since < req.made => ~status'[v].isActive]_vars
=============================================================================
