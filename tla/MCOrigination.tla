---------------------------- MODULE MCOrigination ----------------------------
(* One application for a product of three versions. *)
EXTENDS Origination, TLC

CONSTANTS ana, bob

Strict == [maker_checker |-> TRUE, limits |-> TRUE, may_exceed |-> FALSE, evaluation |-> TRUE]
Lax == [maker_checker |-> FALSE, limits |-> FALSE, may_exceed |-> TRUE, evaluation |-> FALSE]
MCPolicies == {Strict, Lax}
MCGrantable == {<<bob, 1>>}

Made == {v \in Version : version[v].state # "none"}
Requested == \E a \in Application : app[a] # NoApp
NoAuthority == policy = None /\ grants = {}

Untouched == parties /\ \A a \in Application, d \in Document : documents[a][d] = "none"

Touched ==
  /\ policy # Strict /\ grants = {} /\ product = "active"
  /\ \A a \in Application :
       /\ app[a].creator = ana /\ app[a].submitter \in {None, ana}
       /\ app[a].row <= (IF parties THEN 5 ELSE 3)
       /\ \A d \in Document : documents[a][d] \in (IF parties THEN {"none", "pending", "verified"} ELSE {"none"})

\* The bound of the composition: three versions while nobody applies for them; an application for a
\* single version under every policy; and one for two versions under the lax policy, edited less.
\* Documents and parties move under the lax policy around one version.
Bounds ==
  \/ ~Requested /\ NoAuthority /\ Untouched
  \/ /\ Untouched \/ (Cardinality(Made) = 1 /\ Touched)
     /\ \A v \in Made : version[v].content = 2
     /\ enabled /\ look = NoLook
     /\ policy = Lax => grants = {}
     /\ \A a \in Application : seen.of = a => seen.row = app[a].row \/ seen.amount # app[a].amount
     /\ \/ Cardinality(Made) = 1 /\ today = 0
        \/ /\ Cardinality(Made) = 2 /\ today <= 1
           /\ policy # Strict /\ grants = {}
           /\ \A a \in Application : app[a].row <= 4

Ids == Permutations(Version)
=============================================================================
