------------------------------- MODULE MCOracle -------------------------------
(* Small instances of Oracle for TLC. *)
EXTENDS Oracle

CONSTANTS alice

OneRequest == 1..1
TwoRequests == 1..2

\* One data source that costs something, one script that asks it.
OneSource == <<[owner |-> alice, fee |-> 1]>>
NoSource == <<>>
NoScript == <<>>
OneScript == <<[owner |-> alice, code |-> <<1>>]>>
\* Scripts that ask once, twice, a data source that may not exist yet, nothing.
OneCode == {<<1>>}
SomeCodes == {<<1>>, <<1, 2>>, <<>>}

Params(expiration, penalty) ==
  [expiration |-> expiration, maxAskCount |-> 2, penalty |-> penalty, ibcEnabled |-> TRUE]

FixedParams == {Params(2, 1)}
ChangingParams == {Params(1, 1), [Params(2, 1) EXCEPT !.ibcEnabled = FALSE]}
=============================================================================
