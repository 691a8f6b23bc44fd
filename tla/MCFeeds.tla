------------------------------- MODULE MCFeeds -------------------------------
(* Small instances of Feeds for TLC. *)
EXTENDS Feeds

CONSTANT w1

NobodyVoted == {[w \in Voters |-> NoVote]}
\* Both signals are voted for, the first one more than the second.
BothVoted == {[w \in Voters |-> [s \in Signals |-> IF s = 1 THEN 2 ELSE 1]]}

\* Two voters, of whom one votes for both signals.
TwoVoted == {[w \in Voters |-> [s \in Signals |-> IF s = 1 \/ w = w1 THEN 1 ELSE 0]]}

TwoSignals == 1..2
ThreeSignals == 1..3

\* Enough tokens for the quorum not to be truncated to zero.
EqualTokens == [v \in Validators |-> 5]

Params(grace, max, feeds, update, quorum) ==
  [allowableDiscrepancy |-> 1, gracePeriod |-> grace, minInterval |-> 1,
   maxInterval |-> max, powerStep |-> 1, maxCurrentFeeds |-> feeds, cooldownTime |-> 1,
   updateInterval |-> update, priceQuorum |-> quorum]

VoteParams == {Params(1, 2, 2, 1, 30)}
ReportParams == {Params(1, 3, 2, 3, 30), Params(2, 3, 1, 3, 30)}
PriceParams == {Params(1, 2, 1, 2, 50)}
\* A quorum of zero is a valid parameter.
NoQuorum == {Params(1, 2, 2, 2, 0)}
WideParams == {Params(1, 2, 3, 1, 30)}

Available(p) == [status |-> "available", price |-> p]
OneReport == {Available(5)}
TwoReports == {Available(5), [status |-> "unsupported", price |-> 0]}
=============================================================================
