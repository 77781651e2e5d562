----------------------------- MODULE MCMembership -----------------------------
(***************************************************************************)
(* Membership with a cluster of at most three, of which s1 is the node,    *)
(* a server s4 that joins, and changes that compete.                       *)
(***************************************************************************)
EXTENDS Membership

CONSTANTS s1, s2, s3, s4, q1, q2, q3

MCChange == [q \in Request |->
    CASE q = q1 -> [kind |-> "add",    val |-> s4]
      [] q = q2 -> [kind |-> "remove", val |-> s2]
      [] q = q3 -> [kind |-> "remove", val |-> s3]]

MCOthers == {[kind |-> "remove", val |-> s4]}

\* After another leader's change (and so a step-down) and a second one or a full
\* array none of the properties says more: that need not be explored.
Relevant == "foreign" \in met => met \cap {"crossed", "full"} = {}

=============================================================================
