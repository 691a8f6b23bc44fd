------------------------------ MODULE Sampling ------------------------------
(***************************************************************************)
(* How validators are chosen for an oracle request and members for a       *)
(* signing: pkg/bandrng/sampling.go, and the draw without replacement in   *)
(* GetRandomMembers of x/tss.                                              *)
(*                                                                         *)
(* The generator is deterministic and its stream is an argument: a         *)
(* sequence of draws, from which each call takes the next ones.  Indexes   *)
(* count from 1 here and from 0 in the code.  The sum of the weights is    *)
(* taken to fit in 64 bits; safeAdd stops the program when it does not.    *)
(***************************************************************************)
EXTENDS Integers, Sequences, FiniteSets, SequencesExt, FiniteSetsExt

SumSeq(s) == FoldLeft(LAMBDA acc, x : acc + x, 0, s)

\* The first index at which the sum of the weights passes the lucky number.
ChooseOne(draw, weights) ==
  LET lucky == draw % SumSeq(weights)
  IN  Min({i \in DOMAIN weights : SumSeq(SubSeq(weights, 1, i)) > lucky})

\* The pool of weights and indexes without the one that was chosen.
Without(pool, chosen) ==
  [weights |-> RemoveAt(pool.weights, chosen), indexes |-> RemoveAt(pool.indexes, chosen)]

\* One index for each draw, without repetition.
ChooseSome(draws, weights) ==
  LET Round(acc, draw) ==
        LET chosen == ChooseOne(draw, acc.pool.weights)
        IN  [pool |-> Without(acc.pool, chosen),
             chosen |-> Append(acc.chosen, acc.pool.indexes[chosen])]
      pool == [weights |-> weights, indexes |-> [i \in DOMAIN weights |-> i]]
  IN  FoldLeft(Round, [pool |-> pool, chosen |-> <<>>], draws).chosen

WeightOf(weights, chosen) == SumSeq([k \in DOMAIN chosen |-> weights[chosen[k]]])

\* The draws of one try.
DrawsOf(draws, try, cnt) == SubSeq(draws, (try - 1) * cnt + 1, try * cnt)

\* The heaviest of several choices, the first of them when some weigh the same.
ChooseSomeMaxWeight(draws, weights, cnt, tries) ==
  LET Try(best, try) ==
        LET candidate == ChooseSome(DrawsOf(draws, try, cnt), weights)
            sum == WeightOf(weights, candidate)
        IN  IF sum > best.sum THEN [sum |-> sum, chosen |-> candidate] ELSE best
  IN  FoldLeft(Try, [sum |-> 0, chosen |-> <<>>], [k \in 1..tries |-> k]).chosen

\* A mutant of Refill: the gap is filled from the end of the whole list.
Refill_Last(idx, r, size, i) == [idx EXCEPT ![r] = idx[size]]

\* The place of the selected member is taken by the last one that is still in the list.
Refill(idx, r, size, i) == [idx EXCEPT ![r] = idx[size - i]]

\* The members that GetRandomMembers selects of size available ones, one for each draw.
SelectMembers(draws, size) ==
  LET Select(acc, i) ==
        LET r == (draws[i] % (size - i + 1)) + 1
        IN  [idx |-> Refill(acc.idx, r, size, i - 1),
             selected |-> acc.selected \cup {acc.idx[r]}]
  IN  FoldLeft(Select, [idx |-> [k \in 1..size |-> k], selected |-> {}],
               [k \in DOMAIN draws |-> k]).selected
=============================================================================
