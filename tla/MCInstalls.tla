------------------------------ MODULE MCInstalls ------------------------------
(***************************************************************************)
(* Installs on small clusters.  All servers but the leader are alike.      *)
(***************************************************************************)
EXTENDS Installs, TLC

CONSTANTS s1, s2, s3

Symmetry == Permutations(Peers(L))

\* After L only one more server asks for votes.
OneRival == Cardinality({v[3] : v \in cast'}) <= 2

\* Its second term begins when nothing is in flight, and ends the run.
LastTermLate ==
    \/ \A n \in Server : node'[n].currentTerm < MaxTerm
    \/ isRpcs = {} /\ aeRpcs = EmptyBag /\ voteReqs = {}

\* A node that is about to read its role, is no leader and has no response in
\* hand does so at once: no step of another goroutine or node depends on it or
\* changes what it reads, and no property speaks of it.
AtRest(n) ==
    loop[n] = "top" /\ held[n] = Nil /\ isHeld[n] = Nil /\ node[n].role # Leader

Eager ==
    \/ \A n \in Server : ~AtRest(n)
    \/ \E n \in Server :
           /\ AtRest(n)
           /\ loop'[n] # loop[n] \/ node'[n].lastApplied # node[n].lastApplied

=============================================================================
