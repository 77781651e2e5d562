-------------------------------- MODULE Voting --------------------------------
(***************************************************************************)
(* What the elections of a cluster promise, whatever messages and storage  *)
(* do: servers cast votes, one per term, that are never taken back, and a  *)
(* candidate wins a term in which a quorum has voted for it.  RaftCore is  *)
(* shown to implement this, with the majorities as quorums.                *)
(*                                                                         *)
(* The term of a vote is any natural number.  Next looks for the new vote  *)
(* and the new winner in votes' and winners', which says the same as a     *)
(* quantifier over all of them and can be evaluated.                       *)
(***************************************************************************)
EXTENDS Naturals

CONSTANTS Server, Quorum

VARIABLES
    votes,      \* the votes cast: <<voter, term, candidate>>
    winners     \* <<candidate, term>>

vars == <<votes, winners>>

Init == votes = {} /\ winners = {}

\* The voter has not voted for another candidate in that term.
Vote(b) ==
    /\ b \in Server \X Nat \X Server
    /\ \A a \in votes : a[1] = b[1] /\ a[2] = b[2] => a[3] = b[3]
    /\ votes' = votes \cup {b}

\* A vote cast in the same step counts: a cluster of one elects itself at once.
Win(w) ==
    /\ \E Q \in Quorum : \A v \in Q : <<v, w[2], w[1]>> \in votes'
    /\ winners' = winners \cup {w}

Next ==
    /\ UNCHANGED votes   \/ \E b \in votes'   : Vote(b)
    /\ UNCHANGED winners \/ \E w \in winners' : Win(w)

Spec == Init /\ [][Next]_vars

=============================================================================
