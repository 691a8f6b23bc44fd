---------------------------- MODULE OracleProofs ----------------------------
(***************************************************************************)
(* Theorems about x/oracle, for every set of validators, every number of   *)
(* requests, all fees and all parameters.                                  *)
(***************************************************************************)
EXTENDS Oracle, FiniteSetTheorems, TLAPS

-----------------------------------------------------------------------------
(* Steps *)

\* The stored requests are those that have not expired.
IdsInv ==
  /\ requestCount \in Nat /\ lastExpired \in 0..requestCount
  /\ requestCount \in RequestIds \cup {0}
  /\ DOMAIN requests = (lastExpired + 1)..requestCount

\* What of a step the theorems are about stays as it is.
Quiet == UNCHANGED <<requests, requestCount, lastExpired, reports, pendingResolve, results,
                     signingResults, responses, status, spent, time, phase, todo>>

\* A request is stored.
Prepared(req, fee, limit) ==
  LET id == requestCount + 1
  IN  /\ fee \in 0..limit /\ limit \in Nat
      /\ req.minCount \in Nat \ {0} /\ req.time = Unix(time)
      /\ req.asked \subseteq Validators
      /\ \A v \in req.asked : req.sinces[v] = status[v].since
      /\ req.agreed = limit /\ req.feeLimit = limit - fee
      /\ phase = "tx" /\ id \in RequestIds
      /\ spent' = [spent EXCEPT ![id] = fee]
      /\ requests' = [r \in DOMAIN requests \cup {id} |-> IF r = id THEN req ELSE requests[r]]
      /\ requestCount' = id
      /\ UNCHANGED <<lastExpired, reports, pendingResolve, results, signingResults,
                     responses, status, time, phase, todo>>

\* PrepareRequest as the proofs see it.
LEMMA PrepareFacts ==
  ASSUME NEW payer \in Users, NEW o, NEW ask \in AskCounts, NEW min \in AskCounts,
         NEW limit \in FeeLimits, NEW ibc, NEW tss,
         PrepareRequest(payer, o, ask, min, limit, ibc, tss)
  PROVE  \E req, fee : Prepared(req, fee, limit)
<1>1. PICK fee : fee = CollectFee(oracleScripts[o].code, ask)
  BY Zenon
<1>2. PICK id : id = requestCount + 1
  BY Zenon
<1>3. PICK asked \in GetRandomValidators(ask) :
        requests' = [r \in DOMAIN requests \cup {id} |->
          IF r = id THEN NewRequest(o, asked, min, ibc, tss, payer, limit, fee)
                    ELSE requests[r]]
  BY <1>1, <1>2, Zenon DEF PrepareRequest
<1>4. PICK req : req = NewRequest(o, asked, min, ibc, tss, payer, limit, fee)
  BY Zenon
<1>5. asked \subseteq Validators
  BY <1>3, Zenon DEF GetRandomValidators, kSubset
<1>6. /\ fee \in 0..limit /\ 0 < min /\ phase = "tx" /\ id \in RequestIds
      /\ spent' = [spent EXCEPT ![id] = fee] /\ requestCount' = id
      /\ UNCHANGED <<lastExpired, reports, pendingResolve, results, signingResults,
                     responses, status, time, phase, todo>>
  BY <1>1, <1>2, Zenon DEF PrepareRequest, answers, block
<1>7. min \in Nat \ {0} /\ limit \in Nat
  BY <1>6, AmountsAssumption
<1>8. /\ req.minCount = min /\ req.time = Unix(time) /\ req.asked = asked
      /\ req.sinces = [v \in asked |-> status[v].since]
      /\ req.agreed = limit /\ req.feeLimit = limit - fee
  BY <1>4 DEF NewRequest, RemainingLimit
<1>9. QED
  BY <1>2, <1>3, <1>4, <1>5, <1>6, <1>7, <1>8, ZenonT(60) DEF Prepared

\* Every step is one of these.
LEMMA NextCases ==
  ASSUME [Next]_vars
  PROVE  \/ Quiet
         \/ \E limit \in FeeLimits : \E req, fee : Prepared(req, fee, limit)
         \/ \E v \in Validators : Activate(v) \/ MissPrice(v)
         \/ \E v \in Validators, r \in DOMAIN requests : ReportData(v, r)
         \/ EndBlock \/ ResolveRequest \/ ResolveDone \/ ProcessExpiredRequest
         \/ \E gap \in 1..MaxGap : NextBlock(gap)
<1>1. CASE UNCHANGED vars
  BY <1>1, Zenon DEF vars, Quiet
<1>2. CASE \/ \E u \in Users, fee \in Fees :
                \/ CreateDataSource(u, fee)
                \/ \E d \in DOMAIN dataSources, w \in Users : EditDataSource(u, d, w, fee)
           \/ \E u \in Users, code \in Codes :
                \/ CreateOracleScript(u, code)
                \/ \E o \in DOMAIN oracleScripts, w \in Users :
                     EditOracleScript(u, o, w, code)
           \/ \E p \in ParamChoices : UpdateParams(p)
  BY <1>2, ZenonT(60) DEF CreateDataSource, EditDataSource, CreateOracleScript, EditOracleScript,
    UpdateParams, queue, answers, accounts, block, Quiet
<1>3. CASE \E u \in Users, o \in DOMAIN oracleScripts, limit \in FeeLimits, tss \in TSSWishes :
             \E ask, min \in AskCounts :
               \/ RequestData(u, o, ask, min, limit, tss)
               \/ OnRecvPacket(u, o, ask, min, limit, tss)
  <2>1. PICK u \in Users, o \in DOMAIN oracleScripts, limit \in FeeLimits, tss \in TSSWishes :
          \E ask, min \in AskCounts :
            \E ibc : PrepareRequest(u, o, ask, min, limit, ibc, tss)
    BY <1>3, Zenon DEF RequestData, OnRecvPacket
  <2>2. QED
    BY <2>1, PrepareFacts, Zenon
<1>4. QED
  BY <1>1, <1>2, <1>3, Zenon DEF Next

\* Request IDs are the numbers from 1 on.
LEMMA IdFacts ==
  /\ RequestIds \subseteq Nat \ {0}
  /\ \A n \in RequestIds : \A r \in 1..n : r \in RequestIds
<1>1. PICK n \in Nat : RequestIds = 1..n
  BY IdsAssumption, FS_CardinalityType
<1>2. QED
  BY <1>1

\* At first there are no requests.
LEMMA InitIds == Init => IdsInv
  BY DEF Init, IdsInv

\* Identifiers of stored requests are in the range that was given out.
LEMMA StoredIds == IdsInv => DOMAIN requests \subseteq RequestIds
  BY IdFacts DEF IdsInv

\* A stored request keeps its record.
Kept == \A r \in DOMAIN requests' : r \in DOMAIN requests => requests'[r] = requests[r]

\* Every step keeps the stored requests between the last expired and the last created one.
LEMMA NextIds == IdsInv /\ [Next]_vars => IdsInv'
<1> SUFFICES ASSUME IdsInv, [Next]_vars PROVE IdsInv'
  OBVIOUS
<1>1. CASE UNCHANGED <<requests, requestCount, lastExpired>>
  BY <1>1 DEF IdsInv
<1>2. ASSUME NEW limit \in FeeLimits, NEW req, NEW fee, Prepared(req, fee, limit)
      PROVE  IdsInv'
  <2>1. /\ requestCount' = requestCount + 1 /\ lastExpired' = lastExpired
        /\ requestCount + 1 \in RequestIds
        /\ DOMAIN requests' = DOMAIN requests \cup {requestCount + 1}
    BY <1>2 DEF Prepared
  <2>2. DOMAIN requests \cup {requestCount + 1} = (lastExpired + 1)..(requestCount + 1)
    BY DEF IdsInv
  <2>3. QED
    BY <2>1, <2>2, SMTT(30) DEF IdsInv
<1>3. CASE ProcessExpiredRequest
  <2>1. /\ requestCount' = requestCount /\ lastExpired' = lastExpired + 1
        /\ lastExpired + 1 <= requestCount
        /\ DOMAIN requests' = DOMAIN requests \ {lastExpired + 1}
    BY <1>3 DEF ProcessExpiredRequest
  <2>2. DOMAIN requests \ {lastExpired + 1} = (lastExpired + 1 + 1)..requestCount
    BY DEF IdsInv
  <2>3. QED
    BY <2>1, <2>2, SMTT(30) DEF IdsInv
<1>4. QED
  BY <1>1, <1>2, <1>3, NextCases, ZenonT(60)
    DEF Quiet, Activate, MissPrice, ReportData, EndBlock, ResolveRequest, ResolveDone, NextBlock, queue

-----------------------------------------------------------------------------
(* Validators are not deactivated for an absence of the past *)

\* Of a validator that was asked: it is in the period of activity it was asked in, or
\* its present one, if any, began in the second of the request or later.
PenaltyInv ==
  /\ time \in Nat
  /\ status \in [Validators -> [isActive : BOOLEAN, since : Nat]]
  /\ \A r \in DOMAIN requests :
       /\ requests[r].asked \subseteq Validators
       /\ requests[r].time \in Int /\ requests[r].time <= time
       /\ \A v \in requests[r].asked :
            requests[r].sinces[v] = status[v].since \/ requests[r].time <= status[v].since

\* The second a time is in begins before it.
LEMMA UnixFacts == \A t \in Nat : Unix(t) \in Int /\ Unix(t) <= t
  BY TicksAssumption DEF Unix

\* At first no one was asked.
LEMMA InitPenalty == Init => PenaltyInv
<1> SUFFICES ASSUME Init PROVE PenaltyInv
  OBVIOUS
<1>1. time \in Nat
  BY TicksAssumption DEF Init
<1>2. status \in [Validators -> [isActive : BOOLEAN, since : Nat]]
  BY DEF Init, ZeroTime
<1>3. DOMAIN requests = {}
  BY DEF Init
<1>4. QED
  BY <1>1, <1>2, <1>3, SMTT(30) DEF PenaltyInv

\* A validator that is activated or deactivated is so from the time of the block on.
LEMMA PenaltyStep ==
  ASSUME PenaltyInv, Kept, DOMAIN requests' \subseteq DOMAIN requests,
         time' \in Nat, time <= time',
         status' \in [Validators -> [isActive : BOOLEAN, since : Nat]],
         \A v \in Validators : status'[v].since = status[v].since \/ status'[v].since = time
  PROVE  PenaltyInv'
<1>1. ASSUME NEW r \in DOMAIN requests'
      PROVE  /\ requests'[r].asked \subseteq Validators
             /\ requests'[r].time \in Int /\ requests'[r].time <= time'
             /\ \A v \in requests'[r].asked :
                  \/ requests'[r].sinces[v] = status'[v].since
                  \/ requests'[r].time <= status'[v].since
  <2>1. PICK q : q = requests[r] /\ q = requests'[r]
    BY <1>1, Zenon DEF Kept
  <2>2. /\ q.asked \subseteq Validators /\ q.time \in Int /\ q.time <= time /\ time \in Nat
        /\ \A v \in q.asked : q.sinces[v] = status[v].since \/ q.time <= status[v].since
    BY <1>1, <2>1, Zenon DEF PenaltyInv
  <2>3. \A v \in q.asked : q.sinces[v] = status'[v].since \/ q.time <= status'[v].since
    BY <2>2, Zenon
  <2>4. q.time <= time'
    BY <2>2
  <2>5. QED
    BY <2>1, <2>2, <2>3, <2>4, ZenonT(60)
<1>2. QED
  BY <1>1, Zenon DEF PenaltyInv

\* Every step keeps what a penalty rests on: ProcessExpiredRequests deactivates only those who
\* owe a report.
LEMMA NextPenalty == PenaltyInv /\ IdsInv /\ [Next]_vars => PenaltyInv'
<1> SUFFICES ASSUME PenaltyInv, IdsInv, [Next]_vars PROVE PenaltyInv'
  BY Zenon
<1>0. /\ time \in Nat /\ time <= time
      /\ status \in [Validators -> [isActive : BOOLEAN, since : Nat]]
  BY DEF PenaltyInv
<1>1. CASE UNCHANGED <<requests, status, time>>
  BY <1>1, Zenon DEF PenaltyInv
<1>2. ASSUME NEW limit \in FeeLimits, NEW req, NEW fee, Prepared(req, fee, limit)
      PROVE  PenaltyInv'
  <2>1. PICK id : id = requestCount + 1
    BY Zenon
  <2>2. /\ req.time = Unix(time) /\ req.asked \subseteq Validators
        /\ \A v \in req.asked : req.sinces[v] = status[v].since
        /\ requests' = [r \in DOMAIN requests \cup {id} |->
                          IF r = id THEN req ELSE requests[r]]
        /\ time' = time /\ status' = status
    BY <1>2, <2>1, Zenon DEF Prepared
  <2>3. req.time \in Int /\ req.time <= time
    BY <1>0, <2>2, UnixFacts, Zenon
  <2>4. \A r \in DOMAIN requests' :
          requests'[r] = req \/ (r \in DOMAIN requests /\ requests'[r] = requests[r])
    BY <2>2
  <2>5. ASSUME NEW r \in DOMAIN requests'
        PROVE  /\ requests'[r].asked \subseteq Validators
               /\ requests'[r].time \in Int /\ requests'[r].time <= time
               /\ \A v \in requests'[r].asked :
                    \/ requests'[r].sinces[v] = status[v].since
                    \/ requests'[r].time <= status[v].since
    <3>1. CASE requests'[r] = req
      BY <2>2, <2>3, <3>1, Zenon
    <3>2. CASE r \in DOMAIN requests /\ requests'[r] = requests[r]
      BY <3>2, Zenon DEF PenaltyInv
    <3>3. QED
      BY <2>4, <3>1, <3>2, Zenon
  <2>6. QED
    BY <1>0, <2>2, <2>5, ZenonT(60) DEF PenaltyInv
<1>3. ASSUME NEW v \in Validators, Activate(v) \/ MissPrice(v) PROVE PenaltyInv'
  <2>1. PICK b \in BOOLEAN : /\ status' = [status EXCEPT ![v] = [isActive |-> b, since |-> time]]
                             /\ requests' = requests /\ time' = time
    BY <1>3, Zenon DEF Activate, MissPrice, queue, block
  <2>2. /\ status' \in [Validators -> [isActive : BOOLEAN, since : Nat]]
        /\ \A w \in Validators : status'[w].since = status[w].since \/ status'[w].since = time
    BY <1>0, <2>1
  <2>3. QED
    BY <1>0, <2>1, <2>2, PenaltyStep, ZenonT(60) DEF Kept
<1>4. CASE ProcessExpiredRequest
  <2>1. PICK missing :
          status' = [v \in Validators |->
            IF v \in missing THEN [isActive |-> FALSE, since |-> time] ELSE status[v]]
    BY <1>4, Zenon DEF ProcessExpiredRequest
  <2>2. /\ requests' = [x \in DOMAIN requests \ {lastExpired + 1} |-> requests[x]]
        /\ time' = time
    BY <1>4, Zenon DEF ProcessExpiredRequest, block
  <2>3. /\ status' \in [Validators -> [isActive : BOOLEAN, since : Nat]]
        /\ \A w \in Validators : status'[w].since = status[w].since \/ status'[w].since = time
    BY <1>0, <2>1
  <2>4. Kept /\ DOMAIN requests' \subseteq DOMAIN requests
    BY <2>2, Zenon DEF Kept
  <2>5. QED
    BY <1>0, <2>2, <2>3, <2>4, PenaltyStep, ZenonT(60)
<1>5. ASSUME NEW gap \in 1..MaxGap, NextBlock(gap) PROVE PenaltyInv'
  <2>1. /\ time' = (IF height < MaxHeight THEN time + gap ELSE time)
        /\ requests' = requests /\ status' = status
    BY <1>5, Zenon DEF NextBlock, queue
  <2>2. time' \in Nat /\ time <= time'
    BY <1>0, <2>1, TicksAssumption, SMTT(30)
  <2>3. QED
    BY <1>0, <2>1, <2>2, PenaltyStep, ZenonT(60) DEF Kept
<1>6. QED
  BY <1>1, <1>2, <1>3, <1>4, <1>5, NextCases, ZenonT(60)
    DEF Quiet, ReportData, EndBlock, ResolveRequest, ResolveDone, queue, block

\* A validator is deactivated, unless x/feeds misses a price of it, only for a request it was
\* asked in its current period of activity and did not answer (MissReport): for any number of
\* validators and requests, and however governance changes the penalty and the expiration.
THEOREM NoStalePenalties == Spec => NoStalePenalty
<1>1. ASSUME PenaltyInv, IdsInv, [Next]_vars, NEW v \in Validators,
             status[v].isActive, ~status'[v].isActive, ~MissPrice(v)
      PROVE  /\ v \in requests[lastExpired + 1].asked \ reports[lastExpired + 1]
             /\ requests[lastExpired + 1].sinces[v] = status[v].since
  <2>0. /\ status \in [Validators -> [isActive : BOOLEAN, since : Nat]]
        /\ status[v].since \in Nat
    BY <1>1 DEF PenaltyInv
  <2>1. CASE status' = status
    BY <1>1, <2>1, Zenon
  <2>2. CASE \E w \in Validators : Activate(w)
    <3>1. PICK w \in Validators : status' = [status EXCEPT ![w] = [isActive |-> TRUE, since |-> time]]
      BY <2>2, Zenon DEF Activate
    <3>2. QED
      BY <1>1, <2>0, <3>1, SMTT(30)
  <2>3. CASE ProcessExpiredRequest
    <3>1. PICK q, missing :
            /\ q = requests[lastExpired + 1]
            /\ missing = {w \in q.asked \ reports[lastExpired + 1] : MissReport(w, q.time)}
      BY Zenon
    <3>2. /\ status' = [w \in Validators |->
               IF w \in missing THEN [isActive |-> FALSE, since |-> time] ELSE status[w]]
          /\ lastExpired + 1 <= requestCount
      BY <2>3, <3>1, Zenon DEF ProcessExpiredRequest
    <3>3. v \in missing
      BY <1>1, <3>2, Zenon
    <3>4. v \in q.asked \ reports[lastExpired + 1] /\ status[v].since < q.time
      BY <3>1, <3>3, Zenon DEF MissReport
    <3>5. lastExpired + 1 \in DOMAIN requests
      BY <1>1, <3>2, SMTT(30) DEF IdsInv
    <3>6. /\ q.time \in Int
          /\ q.sinces[v] = status[v].since \/ q.time <= status[v].since
      BY <1>1, <3>1, <3>4, <3>5, ZenonT(60) DEF PenaltyInv
    <3>7. ~(q.time <= status[v].since)
      BY <2>0, <3>4, <3>6, SMTT(30)
    <3>8. QED
      BY <3>1, <3>4, <3>6, <3>7, ZenonT(60)
  <2>4. CASE \E w \in Validators : MissPrice(w)
    <3>1. PICK w \in Validators : /\ MissPrice(w)
                                  /\ status' = [status EXCEPT ![w] = [isActive |-> FALSE, since |-> time]]
      BY <2>4, Zenon DEF MissPrice
    <3>2. w # v
      BY <1>1, <3>1, Zenon
    <3>3. QED
      BY <1>1, <2>0, <3>1, <3>2, Zenon
  <2>5. QED
    BY <1>1, <2>1, <2>2, <2>3, <2>4, NextCases, ZenonT(60)
      DEF Quiet, Prepared, ReportData, EndBlock, ResolveRequest, ResolveDone, NextBlock
<1>2. PenaltyInv /\ IdsInv /\ [Next]_vars =>
        [\A v \in Validators : status[v].isActive /\ ~status'[v].isActive /\ ~MissPrice(v) =>
           LET r == lastExpired + 1
           IN  /\ v \in requests[r].asked \ reports[r]
               /\ requests[r].sinces[v] = status[v].since]_vars
  BY <1>1, Zenon
<1>3. QED
  BY <1>2, InitIds, InitPenalty, NextIds, NextPenalty, PTL DEF Spec, NoStalePenalty

-----------------------------------------------------------------------------
(* A request is resolved once *)

In(x, s) == \E i \in DOMAIN s : s[i] = x
Distinct(s) == \A i, j \in DOMAIN s : s[i] = s[j] => i = j

\* The empty list.
LEMMA EmptyFacts == Distinct(<<>>) /\ \A x : ~In(x, <<>>)
  BY DEF Distinct, In

\* Appending a new element to a list without repetitions (AddPendingRequest).
LEMMA AppendFacts ==
  ASSUME NEW S, NEW s \in Seq(S), NEW e \in S, Distinct(s), ~In(e, s)
  PROVE  /\ Append(s, e) \in Seq(S) /\ Distinct(Append(s, e))
         /\ \A x : In(x, Append(s, e)) <=> In(x, s) \/ x = e
<1>1. PICK t : t = Append(s, e)
  BY Zenon
<1>2. /\ t \in Seq(S) /\ Len(s) \in Nat /\ DOMAIN s = 1..Len(s)
      /\ DOMAIN t = 1..(Len(s) + 1) /\ t[Len(s) + 1] = e
      /\ \A i \in 1..Len(s) : t[i] = s[i]
  BY <1>1
<1>3. PICK n : n = Len(s) + 1
  BY Zenon
<1>4. /\ \A i \in DOMAIN s : i \in DOMAIN t /\ t[i] = s[i]
      /\ \A i \in DOMAIN t : i \in DOMAIN s \/ i = n
      /\ n \in DOMAIN t /\ t[n] = e
  BY <1>2, <1>3, SMTT(30)
<1>5. Distinct(t)
  BY <1>4, Zenon DEF Distinct, In
<1>6. \A x : In(x, t) <=> In(x, s) \/ x = e
  BY <1>4, Zenon DEF In
<1>7. QED
  BY <1>1, <1>2, <1>5, <1>6, ZenonT(60)

\* Taking the head off a list without repetitions (the loop of EndBlocker).
LEMMA TailFacts ==
  ASSUME NEW S, NEW s \in Seq(S), s # <<>>, Distinct(s)
  PROVE  /\ Tail(s) \in Seq(S) /\ Head(s) \in S /\ Distinct(Tail(s)) /\ In(Head(s), s)
         /\ \A x : In(x, Tail(s)) <=> In(x, s) /\ x # Head(s)
<1>1. PICK t : t = Tail(s)
  BY Zenon
<1>2. /\ t \in Seq(S) /\ Len(s) \in Nat \ {0} /\ DOMAIN s = 1..Len(s)
      /\ DOMAIN t = 1..(Len(s) - 1) /\ Head(s) = s[1] /\ s[1] \in S
      /\ \A i \in DOMAIN t : t[i] = s[i + 1]
  BY <1>1, SMTT(30)
<1>3. /\ 1 \in DOMAIN s
      /\ \A i \in DOMAIN t : i + 1 \in DOMAIN s /\ i + 1 # 1
      /\ \A i \in DOMAIN s : i # 1 => i - 1 \in DOMAIN t /\ i - 1 + 1 = i
      /\ \A i, j \in DOMAIN t : i + 1 = j + 1 => i = j
  <2>1. PICK n \in Nat \ {0} : DOMAIN s = 1..n /\ DOMAIN t = 1..(n - 1)
    BY <1>2, Zenon
  <2>2. QED
    BY <2>1
<1>4. Distinct(t)
  <2> SUFFICES ASSUME NEW i \in DOMAIN t, NEW j \in DOMAIN t, t[i] = t[j] PROVE i = j
    BY Zenon DEF Distinct
  <2>1. s[i + 1] = s[j + 1] /\ i + 1 \in DOMAIN s /\ j + 1 \in DOMAIN s
    BY <1>2, <1>3, Zenon
  <2>2. i + 1 = j + 1
    BY <2>1, Zenon DEF Distinct
  <2>3. QED
    BY <1>3, <2>2, Zenon
<1>5. ASSUME NEW x PROVE In(x, t) <=> In(x, s) /\ x # Head(s)
  <2>1. ASSUME In(x, t) PROVE In(x, s) /\ x # Head(s)
    <3>1. PICK i \in DOMAIN t : x = s[i + 1]
      BY <1>2, <2>1, Zenon DEF In
    <3>2. i + 1 \in DOMAIN s /\ i + 1 # 1
      BY <1>3, Zenon
    <3>3. s[i + 1] # s[1]
      BY <1>3, <3>2, Zenon DEF Distinct
    <3>4. QED
      BY <1>2, <3>1, <3>2, <3>3, ZenonT(60) DEF In
  <2>2. ASSUME NEW i \in DOMAIN s, s[i] = x, x # Head(s) PROVE In(x, t)
    <3>1. i - 1 \in DOMAIN t /\ t[i - 1] = s[i - 1 + 1] /\ i - 1 + 1 = i
      BY <1>2, <1>3, <2>2, ZenonT(60)
    <3>2. t[i - 1] = x
      BY <2>2, <3>1, SMTT(30)
    <3>3. QED
      BY <3>1, <3>2, ZenonT(60) DEF In
  <2>3. QED
    BY <2>1, <2>2, Zenon DEF In
<1>6. QED
  BY <1>1, <1>2, <1>3, <1>4, <1>5, ZenonT(60) DEF In

\* The requests that have enough reports and wait for the EndBlocker to get to them.
Waiting == IF phase = "tx" THEN pendingResolve ELSE todo

ListInv ==
  /\ phase \in {"tx", "resolve", "expire"}
  /\ pendingResolve \in Seq(RequestIds) /\ todo \in Seq(RequestIds)
  /\ phase = "expire" => todo = <<>> /\ pendingResolve = <<>>
  /\ Distinct(Waiting) /\ \A r : In(r, Waiting) => r \in DOMAIN requests

\* A request waits from its MinCount-th report until it is resolved.
Counted(r) ==
  /\ requests[r].minCount \in Nat \ {0}
  /\ In(r, Waiting) =>
       results[r] = <<>> /\ ~(Cardinality(reports[r]) < requests[r].minCount)
  /\ ~In(r, Waiting) /\ results[r] = <<>> =>
       Cardinality(reports[r]) < requests[r].minCount

\* It has no result, or one that fits the reports it had and is all its channel heard of.
Settled(r) ==
  \/ results[r] = <<>> /\ responses[r] = <<>>
  \/ \E st, n, m :
       /\ results[r] = <<[status |-> st, ansCount |-> n, minCount |-> m]>>
       /\ st = "EXPIRED" <=> n < m
       /\ responses[r] = <<>> \/ responses[r] = <<st>>

ResolveInv ==
  /\ reports \in [RequestIds -> SUBSET Validators]
  /\ DOMAIN results = RequestIds /\ DOMAIN responses = RequestIds
  /\ ListInv
  /\ \A r \in DOMAIN requests : Counted(r)
  /\ \A r \in RequestIds : Settled(r)
  /\ \A r \in RequestIds : r > requestCount => results[r] = <<>> /\ reports[r] = {}

\* At first nothing is pending and there are no results.
LEMMA InitResolve == Init => ResolveInv
<1> SUFFICES ASSUME Init PROVE ResolveInv
  BY Zenon
<1>1. /\ reports \in [RequestIds -> SUBSET Validators]
      /\ DOMAIN results = RequestIds /\ DOMAIN responses = RequestIds
      /\ DOMAIN requests = {}
      /\ \A r \in RequestIds : results[r] = <<>> /\ responses[r] = <<>> /\ reports[r] = {}
  BY DEF Init
<1>2. <<>> \in Seq(RequestIds)
  OBVIOUS
<1>3. ListInv
  BY <1>2, EmptyFacts, ZenonT(60) DEF Init, ListInv, Waiting
<1>4. QED
  BY <1>1, <1>3, ZenonT(60) DEF ResolveInv, Settled

\* A step that leaves the requests and their results as they are.
LEMMA ResolveStep ==
  ASSUME ResolveInv, ListInv', Waiting' = Waiting,
         UNCHANGED <<requests, requestCount, reports, results, responses>>
  PROVE  ResolveInv'
<1>1. \A r \in DOMAIN requests : Counted(r)'
  BY Zenon DEF ResolveInv, Counted
<1>2. \A r \in RequestIds : Settled(r)'
  BY Zenon DEF ResolveInv, Settled
<1>3. QED
  BY <1>1, <1>2, ZenonT(60) DEF ResolveInv

\* Steps that leave requests, reports, results and the lists alone.
LEMMA QuietResolve ==
  ASSUME ResolveInv,
         UNCHANGED <<requests, requestCount, reports, results, responses, pendingResolve,
                     phase, todo>>
  PROVE  ResolveInv'
<1>1. Waiting' = Waiting
  BY Zenon DEF Waiting
<1>2. ListInv'
  BY <1>1, Zenon DEF ResolveInv, ListInv
<1>3. QED
  BY <1>1, <1>2, ResolveStep, ZenonT(60)

\* The EndBlocker goes from one phase to the next.
LEMMA PhaseResolve ==
  ASSUME ResolveInv, EndBlock \/ ResolveDone \/ \E gap \in 1..MaxGap : NextBlock(gap)
  PROVE  ResolveInv'
<1>1. UNCHANGED <<requests, requestCount, reports, results, responses>>
  BY Zenon DEF EndBlock, ResolveDone, NextBlock, queue, answers
<1>2. \/ phase = "tx" /\ phase' = "resolve" /\ todo' = pendingResolve
         /\ pendingResolve' = pendingResolve
      \/ phase = "resolve" /\ phase' = "expire" /\ todo = <<>> /\ todo' = <<>>
         /\ pendingResolve' = <<>>
      \/ phase = "expire" /\ phase' = "tx" /\ todo' = todo /\ pendingResolve' = pendingResolve
  BY Zenon DEF EndBlock, ResolveDone, NextBlock, ExpiryDone, queue, ClearedList
<1>3. "tx" # "resolve" /\ "tx" # "expire" /\ "resolve" # "expire"
  BY Zenon
<1>4. <<>> \in Seq(RequestIds)
  OBVIOUS
<1>5. Waiting' = Waiting
  BY <1>2, <1>3, ZenonT(60) DEF Waiting, ResolveInv, ListInv
<1>6. ListInv'
  BY <1>1, <1>2, <1>3, <1>4, <1>5, ZenonT(60) DEF ResolveInv, ListInv
<1>7. QED
  BY <1>1, <1>5, <1>6, ResolveStep, ZenonT(60)

\* PrepareRequest stores a request that is neither pending nor resolved.
LEMMA PrepareResolve ==
  ASSUME ResolveInv, IdsInv, NEW req, NEW fee, NEW limit, Prepared(req, fee, limit)
  PROVE  ResolveInv'
<1>1. PICK id : id = requestCount + 1
  BY Zenon
<1>2. /\ req.minCount \in Nat \ {0} /\ id \in RequestIds /\ phase = "tx"
      /\ requests' = [r \in DOMAIN requests \cup {id} |-> IF r = id THEN req ELSE requests[r]]
      /\ requestCount' = id
      /\ UNCHANGED <<reports, pendingResolve, results, responses, phase, todo>>
  BY <1>1, Zenon DEF Prepared
<1>3. /\ DOMAIN requests' = DOMAIN requests \cup {id} /\ requests'[id] = req
      /\ \A r \in DOMAIN requests : r # id => requests'[r] = requests[r]
  BY <1>2, Zenon
<1>4. Waiting' = Waiting
  BY <1>2, Zenon DEF Waiting
<1>5. id \notin DOMAIN requests /\ id > requestCount /\ \A r \in RequestIds : r > id => r > requestCount
  BY <1>1, IdFacts, SMTT(30) DEF IdsInv
<1>6. ListInv'
  BY <1>2, <1>3, <1>4, ZenonT(60) DEF ResolveInv, ListInv
<1>7. \A r \in RequestIds : Settled(r)'
  BY <1>2, Zenon DEF ResolveInv, Settled
<1>8. Counted(id)'
  <2>1. reports'[id] = {} /\ ~In(id, Waiting')
    BY <1>2, <1>4, <1>5, ZenonT(60) DEF ResolveInv, ListInv
  <2>2. Cardinality(reports'[id]) = 0
    BY <2>1, FS_EmptySet, ZenonT(60)
  <2>3. Cardinality(reports'[id]) < req.minCount
    BY <1>2, <2>2, SMTT(30)
  <2>4. QED
    BY <1>2, <1>3, <2>1, <2>3, ZenonT(60) DEF Counted
<1>9. ASSUME NEW r \in DOMAIN requests, r # id PROVE Counted(r)'
  BY <1>2, <1>3, <1>4, <1>9, ZenonT(60) DEF ResolveInv, Counted
<1>10. QED
  BY <1>2, <1>3, <1>5, <1>6, <1>7, <1>8, <1>9, ZenonT(60) DEF ResolveInv

\* The MinCount-th report, and no other, puts a request on the list.
LEMMA ReportResolve ==
  ASSUME ResolveInv, IdsInv, NEW v \in Validators, NEW r \in DOMAIN requests, ReportData(v, r)
  PROVE  ResolveInv'
<1>0. r \in RequestIds
  BY StoredIds, Zenon
<1>1. /\ phase = "tx" /\ v \notin reports[r]
      /\ reports' = [reports EXCEPT ![r] = @ \cup {v}]
      /\ pendingResolve' = IF Sufficient(r, Cardinality(reports'[r]))
                           THEN Append(pendingResolve, r) ELSE pendingResolve
      /\ UNCHANGED <<requests, requestCount, results, responses, phase, todo>>
  BY Zenon DEF ReportData, CheckValidReport, answers, block
<1>2. reports[r] \subseteq Validators /\ reports \in [RequestIds -> SUBSET Validators]
  BY <1>0, Zenon DEF ResolveInv
<1>3. /\ reports'[r] = reports[r] \cup {v}
      /\ \A x \in RequestIds : x # r => reports'[x] = reports[x]
      /\ reports' \in [RequestIds -> SUBSET Validators]
  BY <1>0, <1>1, <1>2, SMTT(30)
<1>4. PICK count \in Nat, min \in Nat \ {0} :
        /\ count = Cardinality(reports[r]) /\ Cardinality(reports'[r]) = count + 1
        /\ min = requests[r].minCount
  <2>1. IsFiniteSet(reports[r])
    BY <1>2, ValidatorsAssumption, FS_Subset, ZenonT(60)
  <2>2. Cardinality(reports[r]) \in Nat /\ Cardinality(reports[r] \cup {v}) = Cardinality(reports[r]) + 1
    BY <1>1, <2>1, FS_CardinalityType, FS_AddElement, ZenonT(60)
  <2>3. QED
    BY <1>3, <2>2, ZenonT(60) DEF ResolveInv, Counted
<1>5. Waiting = pendingResolve /\ Waiting' = pendingResolve'
  BY <1>1, Zenon DEF Waiting
<1>6. \A x \in RequestIds : Settled(x)'
  BY <1>1, Zenon DEF ResolveInv, Settled
<1>7. \A x \in RequestIds : x > requestCount' => results'[x] = <<>> /\ reports'[x] = {}
  <2>1. ~(r > requestCount)
    BY DEF IdsInv
  <2>2. QED
    BY <1>1, <1>3, <2>1, ZenonT(60) DEF ResolveInv
<1>8. CASE results[r] = <<>> /\ count + 1 = min
  <2>1. ~In(r, Waiting)
    <3>1. count < min
      BY <1>8
    <3>2. QED
      BY <1>4, <3>1, ZenonT(60) DEF ResolveInv, Counted
  <2>2. pendingResolve' = Append(pendingResolve, r)
    BY <1>1, <1>4, <1>8, ZenonT(60) DEF Sufficient, HasResult
  <2>3. /\ pendingResolve' \in Seq(RequestIds) /\ Distinct(Waiting')
        /\ \A x : In(x, Waiting') <=> In(x, Waiting) \/ x = r
    BY <1>0, <1>5, <2>1, <2>2, AppendFacts, ZenonT(60) DEF ResolveInv, ListInv
  <2>4. ListInv'
    <3>1. phase # "expire"
      BY <1>1, Zenon
    <3>2. QED
      BY <1>1, <2>3, <3>1, ZenonT(60) DEF ResolveInv, ListInv
  <2>5. ~(count + 1 < min)
    BY <1>8, SMTT(30)
  <2>6. Counted(r)'
    BY <1>1, <1>4, <1>8, <2>3, <2>5, ZenonT(60) DEF Counted
  <2>7. ASSUME NEW x \in DOMAIN requests, x # r PROVE Counted(x)'
    BY <1>1, <1>3, <2>3, <2>7, StoredIds, ZenonT(60) DEF ResolveInv, Counted
  <2>8. QED
    BY <1>1, <1>3, <1>6, <1>7, <2>4, <2>6, <2>7, ZenonT(60) DEF ResolveInv
<1>9. CASE ~(results[r] = <<>> /\ count + 1 = min)
  <2>1. pendingResolve' = pendingResolve
    BY <1>1, <1>4, <1>9, ZenonT(60) DEF Sufficient, HasResult
  <2>2. ListInv'
    BY <1>1, <1>5, <2>1, ZenonT(60) DEF ResolveInv, ListInv
  <2>3. Counted(r)'
    <3>1. Counted(r)
      BY Zenon DEF ResolveInv
    <3>2. ~(count < min) => ~(count + 1 < min)
      OBVIOUS
    <3>3. count < min /\ count + 1 # min => count + 1 < min
      OBVIOUS
    <3>4. QED
      BY <1>1, <1>4, <1>5, <1>9, <2>1, <3>1, <3>2, <3>3, ZenonT(60) DEF Counted
  <2>4. ASSUME NEW x \in DOMAIN requests, x # r PROVE Counted(x)'
    BY <1>1, <1>3, <1>5, <2>1, <2>4, StoredIds, ZenonT(60) DEF ResolveInv, Counted
  <2>5. QED
    BY <1>1, <1>3, <1>6, <1>7, <2>2, <2>3, <2>4, Zenon DEF ResolveInv
<1>10. QED
  BY <1>8, <1>9, ZenonT(60)

\* The first result of a request.
LEMMA SaveFacts ==
  ASSUME ResolveInv, NEW r \in RequestIds, NEW st, results[r] = <<>>,
         st = "EXPIRED" <=> Cardinality(reports[r]) < requests[r].minCount,
         SaveResult(r, st)
  PROVE  /\ results'[r] # <<>>
         /\ \A x \in RequestIds : x # r => results'[x] = results[x]
         /\ DOMAIN results' = RequestIds /\ DOMAIN responses' = RequestIds
         /\ \A x \in RequestIds : Settled(x)'
<1>1. PICK n, m : n = Cardinality(reports[r]) /\ m = requests[r].minCount
  BY Zenon
<1>2. PICK result : result = [status |-> st, ansCount |-> n, minCount |-> m]
  BY Zenon
<1>3. results' = [results EXCEPT ![r] = Append(results[r], result)]
  BY <1>1, <1>2, Zenon DEF SaveResult
<1>4. \/ responses' = [responses EXCEPT ![r] = Append(responses[r], st)]
      \/ responses' = responses
  BY Zenon DEF SaveResult
<1>5. responses[r] = <<>>
  <2>1. ASSUME NEW a PROVE <<a>> # <<>>
    OBVIOUS
  <2>2. QED
    BY <2>1, Zenon DEF ResolveInv, Settled
<1>6. \A a : Append(<<>>, a) = <<a>> /\ <<a>> # <<>>
  OBVIOUS
<1>7. DOMAIN results = RequestIds /\ DOMAIN responses = RequestIds
  BY Zenon DEF ResolveInv
<1>8. /\ results'[r] = <<result>> /\ results'[r] # <<>>
      /\ \A x \in RequestIds : x # r => results'[x] = results[x]
      /\ DOMAIN results' = RequestIds
  BY <1>3, <1>6, <1>7, ZenonT(60)
<1>9. /\ responses'[r] = <<>> \/ responses'[r] = <<st>>
      /\ \A x \in RequestIds : x # r => responses'[x] = responses[x]
      /\ DOMAIN responses' = RequestIds
  BY <1>4, <1>5, <1>6, <1>7, ZenonT(60)
<1>10. Settled(r)'
  BY <1>1, <1>2, <1>8, <1>9, ZenonT(60) DEF Settled
<1>11. ASSUME NEW x \in RequestIds, x # r PROVE Settled(x)'
  <2>1. Settled(x) /\ results'[x] = results[x] /\ responses'[x] = responses[x]
    BY <1>8, <1>9, <1>11, ZenonT(60) DEF ResolveInv
  <2>2. QED
    BY <2>1, Zenon DEF Settled
<1>12. QED
  BY <1>8, <1>9, <1>10, <1>11, ZenonT(60)

\* The next request of the list.
LEMMA HeadFacts ==
  ASSUME ResolveInv, IdsInv, ResolveRequest
  PROVE  LET r == Head(todo)
         IN  /\ r \in RequestIds /\ r \in DOMAIN requests
             /\ results[r] = <<>> /\ ~(Cardinality(reports[r]) < requests[r].minCount)
             /\ Waiting = todo /\ Waiting' = Tail(todo) /\ todo' \in Seq(RequestIds)
             /\ Distinct(Tail(todo)) /\ \A x : In(x, Tail(todo)) <=> In(x, todo) /\ x # r
<1>1. phase = "resolve" /\ phase' = phase /\ todo # <<>> /\ todo' = Tail(todo)
  BY Zenon DEF ResolveRequest
<1>2. phase # "tx"
  BY <1>1, Zenon
<1>3. Waiting = todo /\ Waiting' = Tail(todo)
  BY <1>1, <1>2, ZenonT(60) DEF Waiting
<1>4. todo \in Seq(RequestIds) /\ Distinct(todo)
  BY <1>3, Zenon DEF ResolveInv, ListInv
<1>5. /\ Tail(todo) \in Seq(RequestIds) /\ Head(todo) \in RequestIds /\ In(Head(todo), todo)
      /\ Distinct(Tail(todo)) /\ \A x : In(x, Tail(todo)) <=> In(x, todo) /\ x # Head(todo)
  BY <1>1, <1>4, TailFacts, ZenonT(60)
<1>6. Head(todo) \in DOMAIN requests
  BY <1>3, <1>5, ZenonT(60) DEF ResolveInv, ListInv
<1>7. Counted(Head(todo))
  BY <1>6, Zenon DEF ResolveInv
<1>8. QED
  BY <1>1, <1>3, <1>5, <1>6, <1>7, ZenonT(60) DEF Counted

\* ResolveRequest takes the head of the list and gives it its only result.
LEMMA ResolveRequestResolve ==
  ASSUME ResolveInv, IdsInv, ResolveRequest
  PROVE  ResolveInv'
<1>1. PICK r : r = Head(todo)
  BY Zenon
<1>2. /\ r \in RequestIds /\ r \in DOMAIN requests
      /\ results[r] = <<>> /\ ~(Cardinality(reports[r]) < requests[r].minCount)
      /\ Waiting = todo /\ Waiting' = Tail(todo) /\ todo' \in Seq(RequestIds)
      /\ Distinct(Waiting') /\ \A x : In(x, Waiting') <=> In(x, Waiting) /\ x # r
  BY <1>1, HeadFacts, ZenonT(60)
<1>3. /\ phase = "resolve"
      /\ UNCHANGED <<requests, requestCount, reports, pendingResolve, phase>>
  BY Zenon DEF ResolveRequest, queue
<1>4. PICK st \in {"SUCCESS", "FAILURE"} : SaveResult(r, st)
  BY <1>1, Zenon DEF ResolveRequest, ResolveSuccess, ResolveFailure
<1>5. st # "EXPIRED"
  BY <1>4, Zenon
<1>6. /\ results'[r] # <<>> /\ \A x \in RequestIds : x # r => results'[x] = results[x]
      /\ DOMAIN results' = RequestIds /\ DOMAIN responses' = RequestIds
      /\ \A x \in RequestIds : Settled(x)'
  BY <1>2, <1>4, <1>5, SaveFacts, ZenonT(60)
<1>7. ListInv'
  <2>1. phase # "expire"
    BY <1>3, Zenon
  <2>2. QED
    BY <1>2, <1>3, <2>1, ZenonT(60) DEF ResolveInv, ListInv
<1>8. Counted(r)'
  BY <1>2, <1>3, <1>6, ZenonT(60) DEF ResolveInv, Counted
<1>9. ASSUME NEW x \in DOMAIN requests, x # r PROVE Counted(x)'
  BY <1>2, <1>3, <1>6, <1>9, StoredIds, ZenonT(60) DEF ResolveInv, Counted
<1>10. ~(r > requestCount)
  BY <1>2, SMTT(30) DEF IdsInv
<1>11. QED
  BY <1>3, <1>6, <1>7, <1>8, <1>9, <1>10, ZenonT(60) DEF ResolveInv

\* ProcessExpiredRequests resolves what is not resolved and deletes the request and its reports.
LEMMA ExpireResolve ==
  ASSUME ResolveInv, IdsInv, ProcessExpiredRequest
  PROVE  ResolveInv'
<1>1. PICK r : r = lastExpired + 1
  BY Zenon
<1>2. /\ phase = "expire" /\ r <= requestCount
      /\ IF HasResult(r) THEN UNCHANGED <<results, responses>> ELSE SaveResult(r, "EXPIRED")
      /\ requests' = [x \in DOMAIN requests \ {r} |-> requests[x]]
      /\ reports' = [reports EXCEPT ![r] = {}]
      /\ UNCHANGED <<requestCount, pendingResolve, phase, todo>>
  BY <1>1, ZenonT(60) DEF ProcessExpiredRequest, block
<1>3. r \in DOMAIN requests
  BY <1>1, <1>2, SMTT(30) DEF IdsInv
<1>4. r \in RequestIds
  BY <1>3, StoredIds, ZenonT(60)
<1>5. Waiting = <<>> /\ Waiting' = <<>>
  <2>1. phase # "tx"
    BY <1>2, Zenon
  <2>2. QED
    BY <1>2, <2>1, ZenonT(60) DEF Waiting, ResolveInv, ListInv
<1>6. /\ \A x \in RequestIds : x # r => results'[x] = results[x]
      /\ DOMAIN results' = RequestIds /\ DOMAIN responses' = RequestIds
      /\ \A x \in RequestIds : Settled(x)'
  <2>1. CASE HasResult(r)
    BY <1>2, <2>1, ZenonT(60) DEF ResolveInv, Settled
  <2>2. CASE ~HasResult(r)
    <3>1. results[r] = <<>>
      BY <2>2, Zenon DEF HasResult
    <3>2. Cardinality(reports[r]) < requests[r].minCount
      BY <1>3, <1>5, <3>1, EmptyFacts, ZenonT(60) DEF ResolveInv, Counted
    <3>3. QED
      BY <1>2, <1>4, <2>2, <3>1, <3>2, SaveFacts, ZenonT(60)
  <2>3. QED
    BY <2>1, <2>2, ZenonT(60)
<1>7. /\ reports' \in [RequestIds -> SUBSET Validators] /\ reports'[r] = {}
      /\ \A x \in RequestIds : x # r => reports'[x] = reports[x]
  <2>1. reports \in [RequestIds -> SUBSET Validators]
    BY Zenon DEF ResolveInv
  <2>2. QED
    BY <1>2, <1>4, <2>1, SMTT(30)
<1>8. ListInv'
  BY <1>2, <1>5, EmptyFacts, ZenonT(60) DEF ResolveInv, ListInv
<1>9. DOMAIN requests' = DOMAIN requests \ {r} /\ \A x \in DOMAIN requests' : requests'[x] = requests[x]
  BY <1>2, Zenon
<1>10. ASSUME NEW x \in DOMAIN requests' PROVE Counted(x)'
  <2>1. x \in DOMAIN requests /\ x # r /\ requests'[x] = requests[x] /\ Counted(x)
    BY <1>9, Zenon DEF ResolveInv
  <2>2. results'[x] = results[x] /\ reports'[x] = reports[x]
    BY <1>6, <1>7, <2>1, StoredIds, ZenonT(60)
  <2>3. QED
    BY <1>5, <2>1, <2>2, ZenonT(60) DEF Counted
<1>11. ~(r > requestCount)
  BY <1>3 DEF IdsInv
<1>12. QED
  BY <1>2, <1>6, <1>7, <1>8, <1>10, <1>11, ZenonT(60) DEF ResolveInv

\* Every step keeps results, responses and the pending list consistent.
LEMMA NextResolve == ResolveInv /\ IdsInv /\ [Next]_vars => ResolveInv'
<1> SUFFICES ASSUME ResolveInv, IdsInv, [Next]_vars PROVE ResolveInv'
  BY Zenon
<1>1. ASSUME NEW v \in Validators, Activate(v) \/ MissPrice(v) PROVE ResolveInv'
  BY <1>1, QuietResolve, ZenonT(60) DEF Activate, MissPrice, queue, answers, block
<1>2. CASE Quiet
  BY <1>2, QuietResolve, ZenonT(60) DEF Quiet
<1>3. QED
  BY <1>1, <1>2, NextCases, PrepareResolve, ReportResolve, PhaseResolve,
     ResolveRequestResolve, ExpireResolve, ZenonT(60)

\* A request is resolved once, its channel hears of that result only, and it expires exactly
\* if fewer than MinCount validators reported (ReportData, EndBlocker): for any number of
\* requests, validators and reports, in whatever blocks they come.
THEOREM ResolvesOnce == Spec => []ResolvedOnce
<1>1. ResolveInv => ResolvedOnce
  <2> SUFFICES ASSUME ResolveInv, NEW r \in RequestIds
               PROVE  /\ Len(results[r]) <= 1 /\ Len(responses[r]) <= Len(results[r])
                      /\ \A i \in DOMAIN results[r] :
                           /\ results[r][i].status = "EXPIRED"
                                <=> results[r][i].ansCount < results[r][i].minCount
                           /\ i \in DOMAIN responses[r] =>
                                responses[r][i] = results[r][i].status
    BY Zenon DEF ResolvedOnce
  <2>1. Settled(r)
    BY Zenon DEF ResolveInv
  <2>2. CASE results[r] = <<>> /\ responses[r] = <<>>
    BY <2>2, SMTT(30)
  <2>3. ASSUME NEW st, NEW n, NEW m,
               results[r] = <<[status |-> st, ansCount |-> n, minCount |-> m]>>,
               st = "EXPIRED" <=> n < m,
               responses[r] = <<>> \/ responses[r] = <<st>>
        PROVE  /\ Len(results[r]) <= 1 /\ Len(responses[r]) <= Len(results[r])
               /\ \A i \in DOMAIN results[r] :
                    /\ results[r][i].status = "EXPIRED"
                         <=> results[r][i].ansCount < results[r][i].minCount
                    /\ i \in DOMAIN responses[r] =>
                         responses[r][i] = results[r][i].status
    <3>1. PICK result : result = [status |-> st, ansCount |-> n, minCount |-> m]
      BY Zenon
    <3>2. result.status = st /\ result.ansCount = n /\ result.minCount = m
      BY <3>1, SMTT(30)
    <3>3. /\ Len(results[r]) = 1 /\ DOMAIN results[r] = {1} /\ results[r][1] = result
      BY <2>3, <3>1, SMTT(30)
    <3>4. /\ Len(responses[r]) = 0 \/ Len(responses[r]) = 1
          /\ 1 \in DOMAIN responses[r] => responses[r][1] = st
      <4>1. Len(<<>>) = 0 /\ 1 \notin DOMAIN <<>> /\ Len(<<st>>) = 1 /\ <<st>>[1] = st
        OBVIOUS
      <4>2. QED
        BY <2>3, <4>1, ZenonT(60)
    <3>5. Len(results[r]) <= 1 /\ Len(responses[r]) <= Len(results[r])
      <4>1. 0 <= 1 /\ 1 <= 1
        OBVIOUS
      <4>2. QED
        BY <3>3, <3>4, <4>1, ZenonT(60)
    <3>6. QED
      BY <2>3, <3>2, <3>3, <3>4, <3>5, ZenonT(60)
  <2>4. QED
    BY <2>1, <2>2, <2>3, ZenonT(60) DEF Settled
<1>2. QED
  BY <1>1, InitIds, InitResolve, NextIds, NextResolve, PTL DEF Spec

-----------------------------------------------------------------------------
(* The limit of the requester is kept *)

\* Until a request is resolved what was paid and what may still be paid are in the limit.
FeeInv ==
  /\ DOMAIN spent = RequestIds
  /\ \A r \in DOMAIN requests :
       /\ requests[r].agreed \in Nat /\ requests[r].feeLimit \in Nat /\ spent[r] \in Nat
       /\ spent[r] <= requests[r].agreed
       /\ results[r] = <<>> => spent[r] + requests[r].feeLimit <= requests[r].agreed

\* At first nothing was paid.
LEMMA InitFee == Init => FeeInv
  BY DEF Init, FeeInv

\* Every step keeps what was paid within the limit of the request.
LEMMA NextFee == FeeInv /\ ResolveInv /\ IdsInv /\ [Next]_vars => FeeInv'
<1> SUFFICES ASSUME FeeInv, ResolveInv, IdsInv, [Next]_vars PROVE FeeInv'
  BY Zenon
<1>1. CASE UNCHANGED <<requests, results, spent>>
  BY <1>1, ZenonT(60) DEF FeeInv
<1>2. ASSUME NEW limit \in FeeLimits, NEW req, NEW fee, Prepared(req, fee, limit)
      PROVE  FeeInv'
  <2>1. PICK id : id = requestCount + 1
    BY Zenon
  <2>2. /\ fee \in 0..limit /\ limit \in Nat /\ id \in RequestIds
        /\ req.agreed = limit /\ req.feeLimit = limit - fee
        /\ requests' = [r \in DOMAIN requests \cup {id} |-> IF r = id THEN req ELSE requests[r]]
        /\ spent' = [spent EXCEPT ![id] = fee] /\ results' = results
    BY <1>2, <2>1, ZenonT(60) DEF Prepared
  <2>3. /\ req.agreed \in Nat /\ req.feeLimit \in Nat /\ fee \in Nat
        /\ fee <= req.agreed /\ fee + req.feeLimit <= req.agreed
    BY <2>2, SMTT(30)
  <2>4. /\ DOMAIN requests' = DOMAIN requests \cup {id} /\ requests'[id] = req
        /\ \A r \in DOMAIN requests : r # id => requests'[r] = requests[r]
    BY <2>2, Zenon
  <2>5. /\ DOMAIN spent' = RequestIds /\ spent'[id] = fee
        /\ \A r \in RequestIds : r # id => spent'[r] = spent[r]
    BY <2>2, ZenonT(60) DEF FeeInv
  <2>6. ASSUME NEW r \in DOMAIN requests'
        PROVE  /\ requests'[r].agreed \in Nat /\ requests'[r].feeLimit \in Nat
               /\ spent'[r] \in Nat /\ spent'[r] <= requests'[r].agreed
               /\ results'[r] = <<>> =>
                    spent'[r] + requests'[r].feeLimit <= requests'[r].agreed
    <3>1. CASE r = id
      BY <2>3, <2>4, <2>5, <3>1, ZenonT(60)
    <3>2. CASE r # id
      <4>1. r \in DOMAIN requests /\ requests'[r] = requests[r] /\ spent'[r] = spent[r]
        BY <2>4, <2>5, <3>2, StoredIds, ZenonT(60)
      <4>2. QED
        BY <2>2, <4>1, ZenonT(60) DEF FeeInv
    <3>3. QED
      BY <3>1, <3>2, ZenonT(60)
  <2>7. QED
    BY <2>5, <2>6, ZenonT(60) DEF FeeInv
<1>3. CASE ResolveRequest
  <2>1. PICK r : r = Head(todo)
    BY Zenon
  <2>2. r \in RequestIds /\ r \in DOMAIN requests /\ results[r] = <<>>
    BY <1>3, <2>1, HeadFacts, ZenonT(60)
  <2>3. requests' = requests
    BY <1>3, ZenonT(60) DEF ResolveRequest, queue
  <2>4. /\ results'[r] # <<>>
        /\ \A x \in RequestIds : x # r => results'[x] = results[x]
    <3>1. PICK result : results' = [results EXCEPT ![r] = Append(results[r], result)]
      BY <1>3, <2>1, ZenonT(60) DEF ResolveRequest, ResolveSuccess, ResolveFailure, SaveResult
    <3>2. \A a : Append(<<>>, a) # <<>>
      OBVIOUS
    <3>3. QED
      BY <2>2, <3>1, <3>2, ZenonT(60) DEF ResolveInv
  <2>5. PICK fee :
          \/ fee \in SigningFees /\ fee <= requests[r].feeLimit
             /\ spent' = [spent EXCEPT ![r] = @ + fee]
          \/ spent' = spent
    BY <1>3, <2>1, ZenonT(60)
      DEF ResolveRequest, ResolveSuccess, ResolveFailure, SafeCreateSigning, accounts
  <2>6. /\ requests[r].agreed \in Nat /\ requests[r].feeLimit \in Nat /\ spent[r] \in Nat
        /\ spent[r] <= requests[r].agreed
        /\ spent[r] + requests[r].feeLimit <= requests[r].agreed
        /\ DOMAIN spent = RequestIds
    BY <2>2, ZenonT(60) DEF FeeInv
  <2>7. /\ DOMAIN spent' = RequestIds
        /\ \A x \in RequestIds : x # r => spent'[x] = spent[x]
    BY <2>5, <2>6, ZenonT(60)
  <2>8. spent'[r] \in Nat /\ spent'[r] <= requests[r].agreed
    <3>1. CASE spent' = spent
      BY <2>6, <3>1, ZenonT(60)
    <3>2. CASE /\ fee \in SigningFees /\ fee <= requests[r].feeLimit
               /\ spent' = [spent EXCEPT ![r] = @ + fee]
      <4>1. spent'[r] = spent[r] + fee /\ fee \in Nat
        BY <2>2, <2>6, <3>2, AmountsAssumption, ZenonT(60)
      <4>2. QED
        BY <2>6, <3>2, <4>1, SMTT(30)
    <3>3. QED
      BY <2>5, <3>1, <3>2, ZenonT(60)
  <2>9. QED
    BY <2>3, <2>4, <2>6, <2>7, <2>8, StoredIds, ZenonT(60) DEF FeeInv
<1>4. CASE ProcessExpiredRequest
  <2>1. PICK r : r = lastExpired + 1
    BY Zenon
  <2>2. /\ r <= requestCount
        /\ UNCHANGED results \/ SaveResult(r, "EXPIRED")
        /\ requests' = [x \in DOMAIN requests \ {r} |-> requests[x]] /\ spent' = spent
    BY <1>4, <2>1, ZenonT(60) DEF ProcessExpiredRequest, accounts
  <2>3. \A x \in RequestIds : x # r => results'[x] = results[x]
    BY <2>2, ZenonT(60) DEF SaveResult, ResolveInv
  <2>4. /\ DOMAIN requests' = DOMAIN requests \ {r}
        /\ \A x \in DOMAIN requests' : requests'[x] = requests[x]
    BY <2>2, ZenonT(60)
  <2>5. QED
    BY <2>2, <2>3, <2>4, StoredIds, ZenonT(60) DEF FeeInv
<1>5. QED
  BY <1>1, <1>2, <1>3, <1>4, NextCases, ZenonT(60)
    DEF Quiet, Activate, MissPrice, ReportData, EndBlock, ResolveDone, NextBlock, queue, answers, accounts

\* Data sources and group signature together never cost the requester more than the limit it
\* agreed to (PrepareRequest, ResolveSuccess): for any fees, also if they change in between.
THEOREM FeesLimited == Spec => []FeesWithinLimit
<1>1. FeeInv => FeesWithinLimit
  BY Zenon DEF FeeInv, FeesWithinLimit
<1>2. QED
  BY <1>1, InitIds, InitResolve, InitFee, NextIds, NextResolve, NextFee, PTL DEF Spec
=============================================================================
