------------------------------ MODULE Algorithms ------------------------------
(***************************************************************************)
(* The computations of the chain that keep no state: those of a block, of  *)
(* BlockInputs, the random choice of validators and members, the threshold *)
(* signatures.  Every reachable state is one input of one of them; the     *)
(* properties compare what the code computes with a definition of what it  *)
(* should compute.                                                         *)
(***************************************************************************)
EXTENDS BlockInputs, Sampling, Threshold

CONSTANTS
  MaxAsk,       \* bound on the validators asked
  MaxTries,     \* SamplingTryCount
  MemberIDs,    \* a group of the largest size
  MaxQuorum,    \* bound on the signers among MemberIDs
  GroupSize,    \* a group that generates its key
  Coefficients, NoncePairs, Bindings, Challenges  \* random and hashed values

ASSUME AlgorithmsAssumption == MemberIDs \subseteq 1..(Order - 1) /\ GroupSize \in Nat

\* A request asks some of the active validators.
Choose ==
  \E weights \in PowerLists(MaxChoice), tries \in 1..MaxTries, cnt \in 1..MaxAsk :
    /\ cnt <= Len(weights)
    /\ \E draws \in [1..(cnt * tries) -> 0..(SumSeq(weights) - 1)] :
         input' = [of |-> "choice", weights |-> weights, cnt |-> cnt, tries |-> tries,
                   draws |-> draws]

\* Some members of a large group are assigned to a signing.
Assign ==
  \E n \in 1..MaxQuorum : \E signers \in kSubset(n, MemberIDs) :
    input' = [of |-> "signers", signers |-> signers]

\* A small group generates a key, and as many members as its threshold sign.
SignTogether ==
  \E threshold \in 1..GroupSize :
    \E polynomials \in [1..GroupSize -> [1..threshold -> Coefficients]],
       signers \in kSubset(threshold, 1..GroupSize), challenge \in Challenges :
      \E de \in [signers -> NoncePairs], binding \in [signers -> Bindings] :
        input' = [of |-> "signing", polynomials |-> polynomials, threshold |-> threshold,
                  signers |-> signers, challenge |-> challenge, de |-> de,
                  binding |-> binding]

Next ==
  \/ BlockNext
  \/ input.of = "start" /\ (Choose \/ Assign \/ SignTogether)

Spec == BlockInit /\ [][Next]_input

-----------------------------------------------------------------------------
\* The random choices are fair and complete.  ChooseOne picks an index for as many lucky
\* numbers as its weight; ChooseSomeMaxWeight returns as many validators as were asked
\* for, none twice, that no other try outweighs; and GetRandomMembers selects as many
\* different members as it draws, every set of them for equally many draws.
ChoiceIsFair ==
  input.of = "choice" =>
    LET weights == input.weights
        chosen == ChooseSomeMaxWeight(input.draws, weights, input.cnt, input.tries)
        size == Len(weights)
        Draws(n) == {d \in [1..n -> 0..(size - 1)] : \A i \in 1..n : d[i] <= size - i}
        Ways(S) == Cardinality({d \in Draws(Cardinality(S)) : SelectMembers(d, size) = S})
    IN  /\ \A i \in DOMAIN weights :
             weights[i] = Cardinality({d \in 0..(SumSeq(weights) - 1) :
                                        ChooseOne(d, weights) = i})
        /\ Len(chosen) = input.cnt /\ IsInjective(chosen)
        /\ \A try \in 1..input.tries :
             WeightOf(weights, ChooseSome(DrawsOf(input.draws, try, input.cnt), weights))
               <= WeightOf(weights, chosen)
        /\ \A n \in 1..size : \A d \in Draws(n) : Cardinality(SelectMembers(d, size)) = n
        /\ \A S, T \in SUBSET (1..size) :
             Cardinality(S) = Cardinality(T) => Ways(S) = Ways(T)

\* Whichever members are assigned, as many as the threshold, their signatures are accepted
\* and add up to a signature of the group.  The coefficients, computed from the tables or
\* not, recover the value at zero of every polynomial of lower degree than the number of
\* signers; every secret share passes the check against its commitments; every partial
\* signature passes the check of SubmitSignature against the public key that the chain
\* computed from the commitments, and their combination the check of
\* AggregatePartialSignatures against the key of the group.  The only exceptions are
\* keys and nonces that happen to be zero.
AnyQuorumSigns ==
  /\ input.of = "signers" =>
       \A k \in 0..(Cardinality(input.signers) - 1) :
         SumOf([i \in input.signers |->
                 ComputeLagrangeCoefficient(i, input.signers) * ((i ^ k) % Order)])
           = IF k = 0 THEN 1 ELSE 0
  /\ input.of = "signing" =>
       LET polynomials == input.polynomials
           signers == input.signers
           commits == AccumulatedCommits(polynomials, input.threshold)
           key == [i \in signers |-> OwnPrivateKey(polynomials, i)]
           nonce == [i \in signers |-> OwnNonce(input.de[i], input.binding[i])]
           lagrange == [i \in signers |-> ComputeLagrangeCoefficient(i, signers)]
           partial == [i \in signers |->
                        Sign(key[i], input.challenge, nonce[i], lagrange[i])]
           NoZero == /\ \A i \in signers : key[i] # 0 /\ nonce[i] # 0
                     /\ SumOf(nonce) # 0 /\ GroupPublicKey(commits) # 0
       IN  /\ \A i, j \in 1..GroupSize :
                VerifySecretShare(i, ComputeSecretShare(polynomials[j], i), polynomials[j])
           /\ NoZero =>
                /\ \A i \in signers :
                     Verify(partial[i], input.challenge, ComputeOwnPublicKey(commits, i),
                            lagrange[i])
                /\ Verify(CombineSignatures(partial), input.challenge,
                          GroupPublicKey(commits), 1)
=============================================================================
