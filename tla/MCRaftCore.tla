----------------------------- MODULE MCRaftCore -----------------------------
(***************************************************************************)
(* RaftCore on small clusters of model values.                             *)
(***************************************************************************)
EXTENDS RaftCore, TLC

Symmetry == Permutations(Server)

(***************************************************************************)
(* Two restrictions of the interleavings, used where a cluster of three    *)
(* would be too large.                                                     *)
(***************************************************************************)
\* Nobody starts an election before everybody was connected once.
ConnectFirst ==
    (\A n \in Server : connected[n] \/ epoch[n] > 0) \/ (\A n \in Server : node'[n].currentTerm = 0)

\* A node that is about to read its role, is no leader and has no response in
\* hand does so at once.  No step of another goroutine or node depends on it
\* or changes what it reads, and no property speaks of it, so the order in
\* which the other steps happen around it makes no difference.
AtRest(n) == loop[n] = "top" /\ held[n] = Nil /\ node[n].role # Leader

Eager ==
    \/ \A n \in Server : ~AtRest(n)
    \/ \E n \in Server :
           /\ AtRest(n)
           /\ loop'[n] # loop[n] \/ node'[n].lastApplied # node[n].lastApplied

CONSTANT MaxElections   \* elections started, in all terms and by all nodes

FewElections == Cardinality({a \in cast' : a[1] = a[3]}) <= MaxElections

(***************************************************************************)
(* Three servers and four terms along one schedule of elections: s1 leads  *)
(* in term 1, gives s2 its vote in term 2 and wins term 3 with the vote of *)
(* s3, while s2 goes on to term 4.  Messages, and the goroutines of s1,    *)
(* are as free as ever.                                                    *)
(***************************************************************************)
CONSTANTS s1, s2, s3

Votes == { <<s1, 1, s1>>, <<s3, 1, s1>>, <<s2, 2, s2>>, <<s1, 2, s2>>,
           <<s2, 3, s2>>, <<s2, 4, s2>>, <<s1, 3, s1>>, <<s3, 3, s1>> }

Scheduled ==
    /\ cast' \subseteq Votes
    /\ node'[s3].log = <<>> /\ node'[s3].currentTerm \in {0, 1, 3}

=============================================================================
