--------------------------- MODULE GroupLifecycle ---------------------------
(***************************************************************************)
(* What x/tss promises the module that owns a group (types/callback.go,    *)
(* TSSCallback): a group is created once, its creation ends exactly once,  *)
(* the end is final and the owner receives exactly one of the callbacks    *)
(* OnGroupCreationCompleted, OnGroupCreationFailed and                     *)
(* OnGroupCreationExpired, the one that names the end.  A group whose      *)
(* creation completed is free of members caught cheating.                  *)
(***************************************************************************)
EXTENDS Naturals, Sequences

CONSTANT GroupIds       \* the group IDs that may be created

VARIABLES
  outcome,      \* outcome[g]: how far the creation of group g has come
  notified,     \* notified[g]: the callbacks the owner of g received, in order
  caught        \* caught[g]: TRUE once a member of g was marked malicious

lifecycleVars == <<outcome, notified, caught>>

Ends == {"completed", "failed", "expired"}

Init ==
  /\ outcome = [g \in GroupIds |-> "none"]
  /\ notified = [g \in GroupIds |-> << >>]
  /\ caught = [g \in GroupIds |-> FALSE]

Create(g) ==
  /\ outcome[g] = "none"
  /\ outcome' = [outcome EXCEPT ![g] = "creating"]
  /\ UNCHANGED <<notified, caught>>

Catch(g) ==
  /\ outcome[g] = "creating"
  /\ caught' = [caught EXCEPT ![g] = TRUE]
  /\ UNCHANGED <<outcome, notified>>

Finish(g, end) ==
  /\ outcome[g] = "creating"
  /\ end = "completed" => ~caught[g]
  /\ end = "failed" => caught[g]
  /\ outcome' = [outcome EXCEPT ![g] = end]
  /\ notified' = [notified EXCEPT ![g] = Append(@, end)]
  /\ UNCHANGED caught

Next ==
  \E g \in GroupIds :
    \/ Create(g)
    \/ Catch(g)
    \/ \E end \in Ends : Finish(g, end)

Spec == Init /\ [][Next]_lifecycleVars
=============================================================================
