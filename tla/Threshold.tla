------------------------------ MODULE Threshold ------------------------------
(***************************************************************************)
(* The algebra of the threshold signatures (pkg/tss): key generation from   *)
(* one polynomial per member, secret shares and the commitments they are   *)
(* checked against, Lagrange coefficients, partial signatures, and their   *)
(* combination.                                                            *)
(*                                                                         *)
(* The scalars are the integers modulo a prime Order and stand for the     *)
(* field of secp256k1; the points are the group they generate, a point     *)
(* being written as its multiple of the generator, so that s * G is s and  *)
(* the sum of points is the sum of scalars.  Hashes (binding factors, the  *)
(* challenge) are arguments.  Encryption of shares is left out.            *)
(***************************************************************************)
EXTENDS Integers, Sequences, FiniteSets, SequencesExt, FiniteSetsExt

CONSTANT Order  \* of the group; a prime above every member ID and above 20

ASSUME ThresholdAssumption == Order \in Nat /\ Order > 20

Scalar == 0..(Order - 1)

\* ModInverse of math/big.
ModInverse(x) == CHOOSE y \in Scalar : (x * y) % Order = 1

\* Sums of scalars and of points, given as a function.
SumOf(f) == SumFunction(f) % Order

\* Horner's rule from the highest coefficient down, on scalars and on points.
SolvePolynomial(coefficients, x) ==
  FoldRight(LAMBDA c, acc : (acc * x + c) % Order, coefficients, 0)

(***************************************************************************)
(* Lagrange coefficients, for signers given as a set of member IDs.        *)
(***************************************************************************)
\* Every step is reduced modulo Order.  The code multiplies big integers and, with the
\* tables, int64, which do not overflow: both products divide twenty factorial.
Product(S, f(_)) == FoldSet(LAMBDA x, acc : (f(x) * acc) % Order, 1, S)

\* The quotient of the products of j and of j - i, over the other signers.
ComputeCoefficient(i, S) ==
  LET others == S \ {i}
      numerator == Product(others, LAMBDA j : j)
      denominator == Product(others, LAMBDA j : j - i)
  IN  (numerator * ModInverse(denominator)) % Order

\* The table PRIME_FACTORS: pairs of a prime and its exponent.
PrimeFactors ==
  <<{}, {<<2, 1>>}, {<<3, 1>>}, {<<2, 2>>}, {<<5, 1>>}, {<<2, 1>>, <<3, 1>>}, {<<7, 1>>},
    {<<2, 3>>}, {<<3, 2>>}, {<<2, 1>>, <<5, 1>>}, {<<11, 1>>}, {<<2, 2>>, <<3, 1>>},
    {<<13, 1>>}, {<<2, 1>>, <<7, 1>>}, {<<3, 1>>, <<5, 1>>}, {<<2, 4>>}, {<<17, 1>>},
    {<<2, 1>>, <<3, 2>>}, {<<19, 1>>}, {<<2, 2>>, <<5, 1>>}>>

Primes == {2, 3, 5, 7, 11, 13, 17, 19}

\* The table PRECOMPUTED_POWERS: its rows end with the highest power in the product of
\* the first twenty numbers.  (The table is written out; its entries are these powers.)
PrecomputedPowers(p) ==
  LET length == CASE p = 2 -> 18 [] p = 3 -> 8 [] p = 5 -> 4 [] p = 7 -> 2 [] OTHER -> 1
  IN  [e \in 0..length |-> p ^ e]

Exponent(n, p) == SumSet({pair[2] : pair \in {q \in PrimeFactors[n] : q[1] = p}})

Distance(i, j) == IF j < i THEN i - j ELSE j - i

\* A mutant of Counts: the factors of the distance are added.
Counts_Added(i, S, p) ==
  MapThenSumSet(LAMBDA j : Exponent(j, p) + Exponent(Distance(i, j), p), S \ {i})

\* The exponent of a prime in the quotient.
Counts(i, S, p) ==
  MapThenSumSet(LAMBDA j : Exponent(j, p) - Exponent(Distance(i, j), p), S \ {i})

\* The same coefficient from the tables; the powers in the numerator and in the
\* denominator cancel first.
ComputeCoefficientPreCompute(i, S) ==
  LET count == [p \in Primes |-> Counts(i, S, p)]
      sign == IF Cardinality({j \in S : j < i}) % 2 = 0 THEN 1 ELSE -1
      numerator == Product({p \in Primes : count[p] > 0}, LAMBDA p : PrecomputedPowers(p)[count[p]])
      denominator == Product({p \in Primes : count[p] < 0}, LAMBDA p : PrecomputedPowers(p)[-count[p]])
  IN  (sign * numerator * ModInverse(denominator)) % Order

ComputeLagrangeCoefficient(i, S) ==
  IF \A j \in S : j <= 20 THEN ComputeCoefficientPreCompute(i, S)
  ELSE ComputeCoefficient(i, S)

(***************************************************************************)
(* Schnorr signatures.  A signature is [R, S]; Failed stands for an error. *)
(***************************************************************************)
Failed == [R |-> -1, S |-> -1]

\* The challenge of a partial signature is multiplied by the coefficient of its signer.
Sign(privKey, challenge, nonce, lagrange) ==
  IF privKey = 0 THEN Failed
  ELSE [R |-> nonce, S |-> (nonce + challenge * lagrange * privKey) % Order]

Verify(signature, challenge, pubKey, lagrange) ==
  LET R == (signature.S - challenge * lagrange * pubKey) % Order
  IN  signature # Failed /\ R # 0 /\ R = signature.R

\* The sum of the R and the sum of the S of the partial signatures.
CombineSignatures(signatures) ==
  [R |-> SumOf([i \in DOMAIN signatures |-> signatures[i].R]),
   S |-> SumOf([i \in DOMAIN signatures |-> signatures[i].S])]

(***************************************************************************)
(* Key generation.  polynomials[j] is the sequence of coefficients of      *)
(* member j; as points, the same sequence is the member's commitments.     *)
(***************************************************************************)
ComputeSecretShare(coefficients, i) == SolvePolynomial(coefficients, i)

VerifySecretShare(i, share, commits) == share = SolvePolynomial(commits, i)

\* The shares of all members for member i, its own included.
OwnPrivateKey(polynomials, i) ==
  SumOf([j \in DOMAIN polynomials |-> ComputeSecretShare(polynomials[j], i)])

\* The sums that AddCoefficientCommits keeps, one for each coefficient.
AccumulatedCommits(polynomials, threshold) ==
  [k \in 1..threshold |-> SumOf([j \in DOMAIN polynomials |-> polynomials[j][k]])]

GroupPublicKey(commits) == commits[1]

ComputeOwnPublicKey(commits, i) == SolvePolynomial(commits, i)

(***************************************************************************)
(* Signing.  A nonce pair is [D, E]; binding is the binding factor.        *)
(***************************************************************************)
\* As scalars the private nonce of a signer, as points its public nonce.
OwnNonce(de, binding) == (de.D + binding * de.E) % Order
=============================================================================
