------------------------------- MODULE Median -------------------------------
(***************************************************************************)
(* The price of a feed: the median of the validators' prices, weighted by  *)
(* power and by how recent a price is (x/feeds/types/median.go).  Power is  *)
(* filled newest first into five sections of the total power; power in an   *)
(* early section weighs more.                                              *)
(***************************************************************************)
EXTENDS Integers, Sequences, FiniteSets, Functions, FiniteSetsExt

Status == {"available", "unavailable", "unsupported"}

\* A validator with its power and its price of the feed.
ValidatorPriceInfo == [status : Status, power : Nat \ {0}, price : Nat, timestamp : Nat]

PowerScalingFactor == 32
\* A mutant of Multipliers: every section counts twice the next one.
Multipliers_Steep == <<160, 80, 40, 20, 10>>

Multipliers == <<60, 40, 20, 11, 10>>
Sections == <<1, 3, 7, 15, 32>>

\* The elements of a finite set in a strict order, which is given as a set of pairs.
Listed(S, before) ==
  [k \in 1..Cardinality(S) |->
    CHOOSE x \in S : Cardinality({y \in S : <<y, x>> \in before}) = k - 1]

\* The elements of a sequence at some of its positions.
Picked(s, positions) ==
  LET order == Listed(positions, {p \in positions \X positions : p[1] < p[2]})
  IN  [k \in DOMAIN order |-> s[order[k]]]

\* The sum of the powers of some entries, and of all of them.
PowerOf(s, positions) == SumFunctionOnSet([i \in DOMAIN s |-> s[i].power], positions)
SumOfPowers(s) == PowerOf(s, DOMAIN s)

OfStatus(s, st) == Picked(s, {i \in DOMAIN s : s[i].status = st})

\* What CalculatePricesPowers returns and CalculatePrice uses.
CalculatePricesPowers(s) ==
  [total |-> SumOfPowers(s),
   available |-> SumOfPowers(OfStatus(s, "available")),
   unsupported |-> SumOfPowers(OfStatus(s, "unsupported"))]

\* A stable sort: positions that the comparison does not tell apart keep their order.
StableSort(s, Less(_, _)) ==
  LET Before(i, j) == Less(s[i], s[j]) \/ (~Less(s[j], s[i]) /\ i < j)
      order == Listed(DOMAIN s, {p \in (DOMAIN s) \X (DOMAIN s) : Before(p[1], p[2])})
  IN  [k \in DOMAIN s |-> s[order[k]]]

NewestFirst(a, b) ==
  a.timestamp > b.timestamp \/ (a.timestamp = b.timestamp /\ a.power > b.power)

\* A mutant of TakePower: a section never fills up.
TakePower_NoLimit(acc, limit) == acc.left

\* What an entry takes of a section that ends at limit.
TakePower(acc, limit) ==
  IF acc.current + acc.left <= limit THEN acc.left ELSE limit - acc.current

\* One step of the loop over the sections for an entry.  The loop stops, without going to
\* the next section, once the power of the entry is used up.
FillSection(total, a, k) ==
  IF a.stop \/ k < a.section THEN a
  ELSE LET take == TakePower(a, total * Sections[k])
       IN  [left |-> a.left - take,
            weight |-> a.weight + take * Multipliers[k],
            stop |-> a.left = take,
            current |-> a.current + take,
            section |-> IF a.left = take THEN k ELSE k + 1]

\* The loop for one entry: current and section go on from entry to entry.
FillSections(total, acc, entry) ==
  LET start == [left |-> PowerScalingFactor * entry.power, weight |-> 0, stop |-> FALSE,
                current |-> acc.current, section |-> acc.section]
      filled[k \in 0..5] == IF k = 0 THEN start ELSE FillSection(total, filled[k - 1], k)
      end == filled[5]
  IN  [current |-> end.current,
       section |-> end.section,
       weighted |-> Append(acc.weighted, [weight |-> end.weight, price |-> entry.price])]

\* The loop over the entries.
DistributePower(total, sorted) ==
  LET done[n \in 0..Len(sorted)] ==
        IF n = 0 THEN [current |-> 0, section |-> 1, weighted |-> <<>>]
        ELSE FillSections(total, done[n - 1], sorted[n])
  IN  done[Len(sorted)].weighted

\* The weighted prices of the available entries, newest first.
WeightedPrices(s) ==
  LET valid == OfStatus(s, "available")
  IN  DistributePower(SumOfPowers(valid), StableSort(valid, NewestFirst))

WeightAt(weighted, positions) ==
  SumFunctionOnSet([i \in DOMAIN weighted |-> weighted[i].weight], positions)

\* The error ErrInvalidWeightedPrices: no price.
InvalidWeightedPrices == -1

LowestFirst(a, b) == a.price < b.price \/ (a.price = b.price /\ a.weight < b.weight)

\* The first price, from the lowest, at which half of the weight is reached.
MedianWeightedPrice(weighted) ==
  LET sorted == StableSort(weighted, LowestFirst)
      reached == {i \in DOMAIN sorted :
                   2 * WeightAt(sorted, 1..i) >= WeightAt(sorted, DOMAIN sorted)}
  IN  IF reached = {} THEN InvalidWeightedPrices ELSE sorted[Min(reached)].price

MedianValidatorPriceInfos(s) == MedianWeightedPrice(WeightedPrices(s))

-----------------------------------------------------------------------------
(***************************************************************************)
(* What the median should be.                                              *)
(***************************************************************************)
\* How much of [a, b] lies in [c, d].
Overlap(a, b, c, d) == Max({0, Min({b, d}) - Max({a, c})})

\* The weight of entry i by definition: lay the scaled powers end to end, newest
\* first; the part that lies in a section counts with the multiplier of the section.
ReferenceWeight(sorted, i) ==
  LET total == SumOfPowers(sorted)
      from == PowerScalingFactor * PowerOf(sorted, 1..(i - 1))
      to == PowerScalingFactor * PowerOf(sorted, 1..i)
      start == <<0>> \o Sections
      part == [k \in 1..5 |-> Overlap(from, to, total * start[k], total * Sections[k])]
  IN  SumFunctionOnSet([k \in 1..5 |-> Multipliers[k] * part[k]], 1..5)

\* The lowest reported price at which the entries up to that price hold half of the
\* weight.
ReferenceMedian(s) ==
  LET sorted == StableSort(OfStatus(s, "available"), NewestFirst)
      weight == [i \in DOMAIN sorted |-> ReferenceWeight(sorted, i)]
      UpTo(p) == {i \in DOMAIN sorted : sorted[i].price <= p}
      halves == {p \in {sorted[i].price : i \in DOMAIN sorted} :
                  2 * SumFunctionOnSet(weight, UpTo(p))
                    >= SumFunctionOnSet(weight, DOMAIN sorted)}
  IN  IF sorted = <<>> THEN InvalidWeightedPrices ELSE Min(halves)

\* Whatever the entries in C report, the median of valid is between the prices of others.
WithinOthers(valid, C, median) ==
  LET others == {valid[i].price : i \in DOMAIN valid \ C}
  IN  Min(others) <= median /\ median <= Max(others)
=============================================================================
