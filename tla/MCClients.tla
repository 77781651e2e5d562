------------------------------ MODULE MCClients ------------------------------
(***************************************************************************)
(* Clients on small clusters.  Of the calls of client k1, c1 and c2 carry  *)
(* the same command (one is the retry of the other) and c3 the next one;   *)
(* c4 and c5 are calls of other clients.                                   *)
(***************************************************************************)
EXTENDS Clients, TLC

CONSTANTS s1, s2, s3, k1, k2, k3, c1, c2, c3, c4, c5

Cmd(k, seq) == [client |-> k, seq |-> seq]

MCCommand == {Cmd(k1, 1), Cmd(k1, 2), Cmd(k2, 1), Cmd(k3, 1)}
MCRequest == [c \in Call |-> CASE c \in {c1, c2} -> Cmd(k1, 1)
                               [] c = c3         -> Cmd(k1, 2)
                               [] c = c4         -> Cmd(k2, 1)
                               [] c = c5         -> Cmd(k3, 1)]
Symmetry == Permutations(Server)

\* Nobody starts an election before everybody was connected once.
ConnectFirst ==
    (\A n \in Server : connected[n] \/ epoch[n] > 0) \/ (\A n \in Server : node'[n].currentTerm = 0)

\* One crash in all, and not before a command is in a log: what crashes do to
\* elections is checked without clients.
OneCrash ==
    /\ \A n, m \in Server : epoch'[n] = 0 \/ epoch'[m] = 0 \/ n = m
    /\ epoch' # epoch => accepted # <<>>

\* Two elections in all, of one term or of two.
TwoElections == Cardinality({a \in cast' : a[1] = a[3]}) <= 2

\* A call that is refused at once is as good as one that is never made.
ToLeaders == \A c \in Call : result[c] = "none" => result'[c] # "refused"

\* A node that is no leader and has no response in hand does not wait to read its
\* role, when it has nothing to apply, and to end persistState, when its applier
\* is idle: no step of another goroutine or node depends on it or changes what it
\* reads, and no property speaks of it.
AtRest(n) ==
    /\ held[n] = Nil /\ node[n].role # Leader
    /\ \/ loop[n] = "top" /\ hand[n] = NoHand /\ saving[n] = NotSaving /\ ~CanApply(node[n])
       \/ saving[n] # NotSaving /\ applier[n] = Idle

\* Nor does an applier wait to look for an earlier call with its command, or to
\* write a snapshot, where there is none.
Passing(n) ==
    \/ applier[n].at = "leader" /\ \A c \in Call : Request[c] = Request[applier[n].call]
                                                  => c = applier[n].call
    \/ applier[n].at = "saved" /\ node[n].snap = Nil

Eager ==
    \/ \A n \in Server : ~AtRest(n) /\ ~Passing(n)
    \/ \E n \in Server : AtRest(n) /\ <<loop'[n], saving'[n]>> # <<loop[n], saving[n]>>
    \/ \E n \in Server : Passing(n) /\ applier'[n].at \in {"new", "unregistered"}

(***************************************************************************)
(* Three servers along one schedule of elections: s1 leads in term 1 and   *)
(* takes a command nobody else gets, s2 leads in term 2 and s1 again in    *)
(* term 3.  Messages and goroutines are as free as ever.                   *)
(***************************************************************************)
Votes == { <<s1, 1, s1>>, <<s3, 1, s1>>,
           <<s2, 2, s2>>, <<s3, 2, s2>>,
           <<s1, 3, s1>>, <<s2, 3, s1>> }

\* The first call is registered and its handler is done.
Waits == c1 \in Range(pending[s1]) /\ applier[s1] = Idle

Below(t) == \A n \in Server : node'[n].currentTerm < t

Scheduled ==
    /\ cast' \subseteq Votes
    /\ site'[c1] \in {Nil, s1}
    /\ node'[s3].log = <<>>
    /\ (\A n \in Server : connected[n]) \/ Below(1)
    /\ Waits \/ Below(2)

=============================================================================
