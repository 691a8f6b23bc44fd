-------------------------- MODULE SigningLifecycle --------------------------
(***************************************************************************)
(* What x/tss promises the module that owns a group about the signings it  *)
(* requests (types/callback.go, TSSCallback): signings are numbered in the *)
(* order of the requests, a signing ends exactly once, with a signature or *)
(* without, the end is final, and the owner receives exactly one of        *)
(* OnSigningCompleted and OnSigningFailed, after any number of             *)
(* OnSigningTimeout.                                                       *)
(***************************************************************************)
EXTENDS Naturals, Sequences

CONSTANT SigningIds     \* an initial segment of the positive numbers

VARIABLES
  signingCount,     \* number of signings requested so far
  outcome,          \* outcome[s]: "none", "waiting", "success" or "fallen"
  notified          \* notified[s]: the callbacks the owner received about s

lifecycleVars == <<signingCount, outcome, notified>>

Init ==
  /\ signingCount = 0
  /\ outcome = [s \in SigningIds |-> "none"]
  /\ notified = [s \in SigningIds |-> << >>]

\* One transaction of the owner may request several signings.
Request(n) ==
  /\ n > 0 /\ signingCount + n \in SigningIds
  /\ signingCount' = signingCount + n
  /\ outcome' = [s \in SigningIds |->
                   IF s \in (signingCount + 1)..(signingCount + n) THEN "waiting"
                                                                  ELSE outcome[s]]
  /\ UNCHANGED notified

Timeout(s) ==
  /\ outcome[s] = "waiting"
  /\ UNCHANGED <<signingCount, outcome>>
  /\ notified' = [notified EXCEPT ![s] = Append(@, "timeout")]

Complete(s) ==
  /\ outcome[s] = "waiting"
  /\ outcome' = [outcome EXCEPT ![s] = "success"]
  /\ notified' = [notified EXCEPT ![s] = Append(@, "completed")]
  /\ UNCHANGED signingCount

Fail(s) ==
  /\ outcome[s] = "waiting"
  /\ outcome' = [outcome EXCEPT ![s] = "fallen"]
  /\ notified' = [notified EXCEPT ![s] = Append(@, "failed")]
  /\ UNCHANGED signingCount

Next ==
  \E s \in SigningIds : Request(s) \/ Timeout(s) \/ Complete(s) \/ Fail(s)

Spec == Init /\ [][Next]_lifecycleVars
=============================================================================
