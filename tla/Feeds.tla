------------------------------- MODULE Feeds -------------------------------
(***************************************************************************)
(* Price feeds of x/feeds.  Voters lock power in x/restake and spread it    *)
(* over signals; every CurrentFeedsUpdateInterval blocks the signals with   *)
(* the most power become the current feeds, each with an interval that      *)
(* shrinks as its power grows.  Active validators submit prices; every      *)
(* EndBlocker computes the price of every feed and deactivates, through     *)
(* x/oracle, the validators that let a feed go without a report.            *)
(*                                                                         *)
(* x/restake, x/staking and the activation of x/oracle are external: the    *)
(* power of a voter covers what it has locked, validators bond and unbond,  *)
(* an inactive validator may activate itself.  A signal is a number: IDs of *)
(* one length, compared as bytes.                                          *)
(***************************************************************************)
EXTENDS Median

CONSTANTS
  Voters,
  Signals,          \* 1..n
  Validators,
  Tokens,           \* [Validators -> Nat]: the tokens of a validator
  OtherTokens,      \* bonded tokens of validators that never report
  VotePowers,       \* powers a vote may give to a signal
  GenesisVotes,     \* the votes of the genesis state
  VoterPowers,      \* total powers of a voter in x/restake
  Submissions,      \* [status, price] a validator may report for a signal
  Discrepancies,    \* differences of the timestamp of a message and the block time
  ParamChoices,     \* the parameters governance chooses from
  MaxGuaranteeBlockTime,
  IntWidth,         \* the bits of an integer: 64 in the code
  Gaps,             \* seconds between two blocks
  MaxHeight         \* bound on the height

\* The first integer that does not fit.
IntLimit == 2^(IntWidth - 1)

\* The sum of the votes for a signal.
VotesFor(vs, s) == SumFunctionOnSet([w \in Voters |-> vs[w][s]], Voters)

\* The powers of a vote are positive integers; the votes of the genesis state add up to
\* integers; a reported price and the largest number of feeds are unsigned.
FeedsParameters ==
  /\ IsFiniteSet(Voters) /\ IsFiniteSet(Validators)
  /\ IsFiniteSet(Signals) /\ Signals = 1..Cardinality(Signals)
  /\ IntWidth \in Nat \ {0} /\ IntLimit \in Nat \ {0}
  /\ VotePowers \subseteq 1..(IntLimit - 1)
  /\ \A v \in GenesisVotes :
       /\ v \in [Voters -> [Signals -> 0..(IntLimit - 1)]]
       /\ \A s \in Signals : VotesFor(v, s) < IntLimit
  /\ Tokens \in [Validators -> Nat] /\ OtherTokens \in Nat
  /\ MaxGuaranteeBlockTime \in Nat \ {0}
  /\ Gaps \subseteq Nat
  /\ Submissions \subseteq [status : Status, price : Nat]
  /\ \A p \in ParamChoices : p.maxCurrentFeeds \in Nat

ASSUME FeedsAssumption == FeedsParameters

VARIABLES
  votes,         \* voter -> signal -> power, 0 where the voter does not vote
  locked,        \* external: voter -> power locked for x/feeds in x/restake
  voterPower,    \* external: voter -> total power in x/restake
  totalPower,    \* signal -> total power, a function on the stored signals
  powerIndex,    \* the pairs <<power, signal>> of the index by power
  currentFeeds,  \* [feeds |-> sequence of [id, power, interval], time, block]
  valPrices,     \* validator -> signal -> [status, price, timestamp, block]
  prices,        \* signal -> [status, price, timestamp], a function on the stored prices
  status,        \* external: validator -> [isActive, since]
  bonded,        \* external: the bonded validators
  params,
  reported,      \* history: validator -> signal -> time of the last accepted report, a
                 \* function on the signals with one since they became current feeds
  height, time, phase, failed

voting == <<votes, locked, voterPower, totalPower, powerIndex>>
pricing == <<valPrices, prices, reported>>
validators == <<status, bonded>>
block == <<height, time, phase, failed>>
vars == <<votes, locked, voterPower, totalPower, powerIndex, currentFeeds, valPrices, prices,
          status, bonded, params, reported, height, time, phase, failed>>

\* Two's complement arithmetic.
Wrap(x) == ((x + IntLimit) % (2 * IntLimit)) - IntLimit

SumPower(vote) == Wrap(SumFunctionOnSet(vote, Signals))

NoVote == [s \in Signals |-> 0]
SignalsOf(vote) == {s \in Signals : vote[s] # 0}

FeedIDs(feeds) == {feeds[i].id : i \in DOMAIN feeds}
current == FeedIDs(currentFeeds.feeds)

(***************************************************************************)
(* Votes.                                                                  *)
(***************************************************************************)
GetSignalTotalPower(stored, s) == IF s \in DOMAIN stored THEN stored[s] ELSE 0

\* A mutant of StoredPower: the old index entries are left behind.
StoredPower_IndexKept(touched, power) ==
  LET kept == {s \in touched : power[s] # 0}
  IN  [stored |-> [s \in (DOMAIN totalPower \ touched) \cup kept |->
                    IF s \in touched THEN power[s] ELSE totalPower[s]],
       index |-> powerIndex \cup {<<power[s], s>> : s \in kept}]

\* SetSignalTotalPower for every signal that is touched, in the order of their IDs: replace
\* the old index entry; delete a signal without power.
StoredPower(touched, power) ==
  LET old == {<<totalPower[s], s>> : s \in touched \cap DOMAIN totalPower}
      kept == {s \in touched : power[s] # 0}
  IN  [stored |-> [s \in (DOMAIN totalPower \ touched) \cup kept |->
                    IF s \in touched THEN power[s] ELSE totalPower[s]],
       index |-> (powerIndex \ old) \cup {<<power[s], s>> : s \in kept}]

\* The power differences of the signals of the old vote and of the new one.
AddPowerDiffs(old, new) ==
  LET touched == SignalsOf(old) \cup SignalsOf(new)
  IN  StoredPower(touched, [s \in touched |->
        Wrap(GetSignalTotalPower(totalPower, s) + Wrap(new[s] - old[s]))])

\* SetLockedPower of x/restake accepts what an unsigned integer can hold and the total
\* power of the voter covers.
CanLock(voter, power) == power >= 0 /\ power <= voterPower[voter]

Vote(voter, vote) ==
  /\ phase = "tx"
  /\ Cardinality(SignalsOf(vote)) <= params.maxCurrentFeeds
  /\ CanLock(voter, SumPower(vote))
  /\ LET result == AddPowerDiffs(votes[voter], vote)
     IN  /\ \A s \in DOMAIN result.stored : result.stored[s] >= 0
         /\ totalPower' = result.stored
         /\ powerIndex' = result.index
  /\ locked' = [locked EXCEPT ![voter] = SumPower(vote)]
  /\ votes' = [votes EXCEPT ![voter] = vote]
  /\ UNCHANGED <<voterPower, currentFeeds, pricing, validators, params, block>>

\* Delegations and stakes change; x/restake keeps them above what is locked.
ChangePower(voter, power) ==
  /\ phase = "tx" /\ power >= locked[voter]
  /\ voterPower' = [voterPower EXCEPT ![voter] = power]
  /\ UNCHANGED <<votes, locked, totalPower, powerIndex, currentFeeds, pricing, validators,
                 params, block>>

(***************************************************************************)
(* Validators and their prices.                                            *)
(***************************************************************************)
ValidateValidatorRequiredToSend(v) == v \in bonded /\ status[v].isActive

\* A mutant of CarriedOver: prices that the message does not mention are lost.
CarriedOver_Dropped(v) == {}

\* The prices that a new submission keeps: those of signals that are still current.
CarriedOver(v) == DOMAIN valPrices[v] \cap current

CooledDown(v, s) ==
  s \in CarriedOver(v) => time >= valPrices[v][s].timestamp + params.cooldownTime

\* MsgSubmitSignalPrices: submission is a function on the signals of the message, and
\* the timestamp of the message is discrepancy away from the block time.
SubmitSignalPrices(v, submission, discrepancy) ==
  /\ phase = "tx"
  /\ Cardinality(DOMAIN submission) <= Len(currentFeeds.feeds)
  /\ ValidateValidatorRequiredToSend(v)
  /\ discrepancy <= params.allowableDiscrepancy
  /\ DOMAIN submission \subseteq current
  /\ \A s \in DOMAIN submission : CooledDown(v, s)
  /\ valPrices' = [valPrices EXCEPT ![v] =
       [s \in CarriedOver(v) \cup DOMAIN submission |->
         IF s \in DOMAIN submission
         THEN [status |-> submission[s].status, price |-> submission[s].price,
               timestamp |-> time, block |-> height]
         ELSE valPrices[v][s]]]
  /\ reported' = [reported EXCEPT ![v] =
       [s \in DOMAIN @ \cup DOMAIN submission |->
         IF s \in DOMAIN submission THEN time ELSE @[s]]]
  /\ UNCHANGED <<voting, currentFeeds, prices, validators, params, block>>

\* MsgActivate of x/oracle.
Activate(v) ==
  /\ phase = "tx" /\ ~status[v].isActive
  /\ status' = [status EXCEPT ![v] = [isActive |-> TRUE, since |-> time]]
  /\ UNCHANGED <<voting, currentFeeds, pricing, bonded, params, block>>

\* x/staking bonds and unbonds validators in its EndBlocker, before x/feeds; the
\* status in x/oracle is left as it is.
ChangeBonded(v) ==
  /\ phase \in {"tx", "staking"}
  /\ phase' = "staking"
  /\ bonded' = (bonded \ {v}) \cup ({v} \ bonded)
  /\ UNCHANGED <<voting, currentFeeds, pricing, status, params, height, time, failed>>

UpdateParams(p) ==
  /\ phase = "tx" /\ p # params
  /\ params' = p
  /\ UNCHANGED <<voting, currentFeeds, pricing, validators, block>>

(***************************************************************************)
(* Current feeds.                                                          *)
(***************************************************************************)
CalculateInterval(power, p) ==
  IF power < p.powerStep THEN 0
  ELSE Max({p.maxInterval \div (power \div p.powerStep), p.minInterval})

\* GetSignalTotalPowersByPower: the index from its end, the highest power first and, as
\* the bytes of an ID are inverted, the lowest ID first.  Entries whose signal is not
\* stored are skipped.
SignalsByPower(stored, index, limit) ==
  LET Before(a, b) == a[1] > b[1] \/ (a[1] = b[1] /\ a[2] < b[2])
      entries == Listed(index, {p \in index \X index : Before(p[1], p[2])})
      found == Picked(entries, {i \in DOMAIN entries : entries[i][2] \in DOMAIN stored})
  IN  [i \in 1..Min({limit, Len(found)}) |-> found[i][2]]

CalculateNewCurrentFeeds(stored, index, p) ==
  LET Feed(s) == [id |-> s, power |-> stored[s],
                  interval |-> CalculateInterval(stored[s], p)]
      top == SignalsByPower(stored, index, p.maxCurrentFeeds)
  IN  Picked([i \in DOMAIN top |-> Feed(top[i])],
             {i \in DOMAIN top : Feed(top[i]).interval > 0})

(***************************************************************************)
(* EndBlocker.                                                             *)
(***************************************************************************)
UpdateDue == height % params.updateInterval = 0

NewFeeds ==
  IF UpdateDue
  THEN [feeds |-> CalculateNewCurrentFeeds(totalPower, powerIndex, params),
        time |-> time, block |-> height]
  ELSE currentFeeds

\* The bonded and active validators, from the most tokens down.
ValidatorsByPower ==
  LET active == {v \in bonded : status[v].isActive}
  IN  CHOOSE s \in [1..Cardinality(active) -> active] :
        \A i, j \in DOMAIN s : i < j => s[i] # s[j] /\ Tokens[s[i]] >= Tokens[s[j]]

\* A report is missed when both the time and, should blocks be slow, the blocks that the
\* feeds, the activation of the validator and its last price allow have passed.
CheckMissReport(cf, f, v) ==
  LET has == f.id \in DOMAIN valPrices[v]
      times == {cf.time + params.gracePeriod, status[v].since + params.gracePeriod} \cup
               (IF has THEN {valPrices[v][f.id].timestamp + f.interval} ELSE {})
      blocks == {cf.block + params.gracePeriod \div MaxGuaranteeBlockTime} \cup
                (IF has THEN {valPrices[v][f.id].block + f.interval \div MaxGuaranteeBlockTime}
                        ELSE {})
  IN  (\A t \in times : t < time) /\ (\A b \in blocks : b < height)

checkHavePrice(f, v) ==
  /\ f.id \in DOMAIN valPrices[v]
  /\ valPrices[v][f.id].timestamp >= time - f.interval

\* The prices CalculatePrices collects for a feed.
PriceInfos(f) ==
  LET byPower == ValidatorsByPower
      have == Picked(byPower, {i \in DOMAIN byPower : checkHavePrice(f, byPower[i])})
  IN  [i \in DOMAIN have |->
        LET p == valPrices[have[i]][f.id]
        IN  [status |-> p.status, power |-> Tokens[have[i]], price |-> p.price,
             timestamp |-> p.timestamp]]

\* The quorum in tokens: a percentage of the bonded tokens, truncated.
PowerQuorum ==
  ((OtherTokens + SumFunctionOnSet(Tokens, bonded)) * params.priceQuorum) \div 100

CalculatePrice(f) ==
  LET infos == PriceInfos(f)
      power == CalculatePricesPowers(infos)
      Price(st, p) == [status |-> st, price |-> p, timestamp |-> time]
  IN  IF 2 * power.unsupported > power.total THEN Price("unknown_signal_id", 0)
      ELSE IF power.total < PowerQuorum \/ 2 * power.available < power.total
           THEN Price("not_ready", 0)
           ELSE LET median == MedianValidatorPriceInfos(infos)
                IN  IF median = InvalidWeightedPrices THEN Price("error", 0)
                    ELSE Price("available", median)

\* MissReport of x/oracle, with the block time as the time of the request.
MissReport(v) ==
  IF status[v].isActive /\ status[v].since < time
  THEN [isActive |-> FALSE, since |-> time]
  ELSE status[v]

\* A mutant of PricesKept: the prices of feeds that are no longer current stay.
PricesKept_All == prices

\* DeleteAllPrices when the feeds are updated.
PricesKept == IF UpdateDue THEN <<>> ELSE prices

\* An error of the median fails the block: the chain stops.
EndBlock ==
  /\ phase \in {"tx", "staking"}
  /\ LET cf == NewFeeds
         price == [i \in DOMAIN cf.feeds |-> CalculatePrice(cf.feeds[i])]
         Missed(v) == \E i \in DOMAIN cf.feeds : CheckMissReport(cf, cf.feeds[i], v)
         Computed(s) == price[CHOOSE i \in DOMAIN cf.feeds : cf.feeds[i].id = s]
     IN  IF \E i \in DOMAIN price : price[i].status = "error"
         THEN /\ failed' = TRUE
              /\ UNCHANGED <<currentFeeds, pricing, status>>
         ELSE /\ currentFeeds' = cf
              /\ prices' = [s \in FeedIDs(cf.feeds) \cup DOMAIN PricesKept |->
                   IF s \in FeedIDs(cf.feeds) THEN Computed(s) ELSE PricesKept[s]]
              /\ status' = [v \in Validators |->
                   IF v \in Range(ValidatorsByPower) /\ Missed(v) THEN MissReport(v)
                   ELSE status[v]]
              /\ reported' = [v \in Validators |->
                   [s \in DOMAIN reported[v] \cap FeedIDs(cf.feeds) |-> reported[v][s]]]
              /\ UNCHANGED <<valPrices, failed>>
  /\ phase' = "end"
  /\ UNCHANGED <<voting, bonded, params, height, time>>

NextBlock(gap) ==
  /\ phase = "end" /\ ~failed /\ height < MaxHeight
  /\ height' = height + 1
  /\ time' = time + gap
  /\ phase' = "tx"
  /\ UNCHANGED <<voting, currentFeeds, pricing, validators, params, failed>>

-----------------------------------------------------------------------------
\* InitGenesis; the validators are bonded and have not been active yet.
Init ==
  /\ votes \in GenesisVotes
  /\ locked = [w \in Voters |-> SumPower(votes[w])]
  /\ voterPower \in [Voters -> VoterPowers]
  /\ \A w \in Voters : voterPower[w] >= locked[w]
  /\ params \in ParamChoices
  /\ totalPower = [s \in {x \in Signals : \E w \in Voters : votes[w][x] # 0} |->
                    VotesFor(votes, s)]
  /\ powerIndex = {<<totalPower[s], s>> : s \in DOMAIN totalPower}
  /\ height = 1
  /\ time = 1
  /\ currentFeeds = [feeds |-> CalculateNewCurrentFeeds(totalPower, powerIndex, params),
                     time |-> time, block |-> height]
  /\ valPrices = [v \in Validators |-> <<>>]
  /\ prices = <<>>
  /\ status = [v \in Validators |-> [isActive |-> FALSE, since |-> 0]]
  /\ bonded = Validators
  /\ reported = [v \in Validators |-> <<>>]
  /\ phase = "tx"
  /\ failed = FALSE

Next ==
  \/ \E w \in Voters, vote \in [Signals -> VotePowers \cup {0}] : Vote(w, vote)
  \/ \E w \in Voters, power \in VoterPowers : ChangePower(w, power)
  \/ \E v \in Validators, S \in SUBSET Signals : \E submission \in [S -> Submissions] :
       \E d \in Discrepancies : SubmitSignalPrices(v, submission, d)
  \/ \E v \in Validators : Activate(v) \/ ChangeBonded(v)
  \/ \E p \in ParamChoices : UpdateParams(p)
  \/ EndBlock
  \/ \E gap \in Gaps : NextBlock(gap)

Spec == Init /\ [][Next]_vars

-----------------------------------------------------------------------------
\* The total powers, updated by differences vote after vote, are the sums of the votes in
\* force; a signal without votes is not stored; the index by power holds exactly one entry
\* per stored signal, at its power.  CalculateNewCurrentFeeds picks the feeds from it.
TotalPowerExact ==
  /\ \A s \in Signals :
       GetSignalTotalPower(totalPower, s) = VotesFor(votes, s)
  /\ \A s \in DOMAIN totalPower : totalPower[s] > 0
  /\ powerIndex = {<<totalPower[s], s>> : s \in DOMAIN totalPower}

\* A vote is backed: what is locked in x/restake for a voter is the sum of the powers of
\* its vote.
VoteIsLocked ==
  \A w \in Voters : locked[w] = SumFunctionOnSet(votes[w], Signals)

\* After the EndBlocker the stored prices are those of the current feeds, computed in this
\* block, and an available price comes from a report that was accepted no longer than the
\* interval of the feed ago.  x/tunnel and the feeds signatures read these prices.
PricesAreCurrent ==
  phase = "end" /\ ~failed =>
    /\ DOMAIN prices = current
    /\ \A i \in DOMAIN currentFeeds.feeds :
         LET f == currentFeeds.feeds[i]
         IN  /\ prices[f.id].timestamp = time
             /\ prices[f.id].status = "available" =>
                  \E v \in bonded : /\ f.id \in DOMAIN valPrices[v]
                                    /\ valPrices[v][f.id].timestamp >= time - f.interval
                                    /\ valPrices[v][f.id].price = prices[f.id].price

\* The EndBlocker deactivates a validator only if, for some current feed, the validator
\* was active and the feeds were unchanged for longer than the grace period and the last
\* report it had accepted for that feed is older than its interval.  Reports that a later
\* message does not repeat still count.
OnlySilentAreDeactivated ==
  [][\A v \in Validators : status[v].isActive /\ ~status'[v].isActive =>
       \E i \in DOMAIN currentFeeds'.feeds :
         LET f == currentFeeds'.feeds[i]
         IN  /\ currentFeeds'.time + params.gracePeriod < time
             /\ status[v].since + params.gracePeriod < time
             /\ f.id \in DOMAIN reported[v] => reported[v][f.id] + f.interval < time]_vars

\* The median that CalculatePrice asks for exists: the EndBlocker does not fail.
EndBlockNeverFails == ~failed
=============================================================================
