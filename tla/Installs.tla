------------------------------- MODULE Installs -------------------------------
(***************************************************************************)
(* RaftCore with the InstallSnapshot RPC: sendInstallSnapshotRPC, the run  *)
(* loop's branch for the request, handleInstallSnapshotResponses, and the  *)
(* snapshot loop that restores the state machine (src/raft/snapshot.go).   *)
(*                                                                         *)
(* The cluster starts where one that has run for a while stands: L leads   *)
(* in term 2 and had compacted its log; a majority caught up by way of an  *)
(* InstallSnapshot, and as heartbeats sent that RPC several times, one     *)
(* more request to each follower is still on its way.                      *)
(***************************************************************************)
EXTENDS RaftCore

CONSTANTS
    L,              \* the leader of term 2
    MaxInstalls     \* further InstallSnapshot requests that get through

ASSUME InstallAssumption == L \in Server /\ MaxInstalls \in Nat

VARIABLES
    isRpcs,     \* InstallSnapshot requests and responses in flight
    isHeld,     \* isHeld[n]: the response handleInstallSnapshotResponses of n
                \*   holds after it read the role (Leader), or Nil
    install,    \* install[n]: snapshotInstallChan
    installs    \* InstallSnapshot requests sent

isVars      == <<isRpcs, isHeld, install, installs>>
installVars == <<vars, isVars>>

-----------------------------------------------------------------------------
ISReqOf(n, s, p) ==
    LET a == InstallArgs(s)
    IN  [type |-> "request", src |-> n, dst |-> p, epoch |-> epoch[n], term |-> a.term,
         idx |-> a.idx, lastTerm |-> a.lastTerm, data |-> a.data, config |-> a.config]

Compacted == [idx |-> 0, term |-> 1, data |-> <<>>, config |-> Server]

Voter == [NewNodeState EXCEPT !.currentTerm = 2, !.votedFor = L, !.currentLeader = L]

CaughtUp == [Voter EXCEPT !.log = <<Noop(1, 2)>>, !.snap = Compacted,
                          !.commitIndex = 1, !.lastApplied = 1]

Leading(late) ==
    [CaughtUp EXCEPT !.role       = Leader,
                     !.nextIndex  = [p \in Server |-> IF p \in late THEN 1 ELSE 2],
                     !.matchIndex = [p \in Server |-> IF p \in late THEN -1 ELSE 1],
                     !.lastSent   = [p \in Server |-> 1]]

\* The followers in late have got no entry yet, which L does not know.  A
\* snapshot of index 0 is none that persistState saves.
InstallInit ==
    /\ \E late \in {p \in SUBSET Peers(L) : 2 * Cardinality(p) < Cardinality(Server)} :
          node = [n \in Server |-> CASE n = L     -> Leading(late)
                                     [] n \in late -> Voter
                                     [] OTHER      -> CaughtUp]
    /\ loop      = [n \in Server |-> "top"]
    /\ connected = [n \in Server |-> TRUE]
    /\ held      = [n \in Server |-> Nil]
    /\ disk      = [n \in Server |-> [currentTerm |-> 2, votedFor |-> L,
                                      log |-> node[n].log, snap |-> Nil]]
    /\ sm        = [n \in Server |-> <<>>]
    /\ epoch     = [n \in Server |-> 0]
    /\ voteReqs  = {}
    /\ voteResps = {}
    /\ aeRpcs    = EmptyBag
    /\ calls     = 0
    /\ cast      = {<<n, 2, L>> : n \in Server}
    /\ elected   = {<<L, 2>>}
    /\ tally     = [n \in Server |-> IF n = L THEN [term |-> 2, voters |-> {}] ELSE NoTally]
    /\ isRpcs    = {ISReqOf(L, node[L], p) : p \in Peers(L)}
    /\ isHeld    = [n \in Server |-> Nil]
    /\ install   = [n \in Server |-> Nil]
    /\ installs  = 0

-----------------------------------------------------------------------------
\* sendInstallSnapshotRPC to the peers in ps; a call may fail.
SendInstalls(n, s, ps) ==
    \E sent \in SUBSET {p \in ps : s.snap # Nil} :
        /\ installs + Cardinality(sent) <= MaxInstalls
        /\ installs' = installs + Cardinality(sent)
        /\ isRpcs'   = isRpcs \cup {ISReqOf(n, s, p) : p \in sent}
        /\ UNCHANGED <<isHeld, install>>

Behind(n, s) == {p \in Peers(n) : NextEntryCompacted(s, p)}

LeaderSends(n) ==
    \/ BecomeLeader(n) /\ SendInstalls(n, node'[n], Behind(n, node'[n]))
    \/ Heartbeat(n) /\ SendInstalls(n, node[n], Behind(n, node[n]))

\* A refused AppendEntries that shows the peer behind the snapshot.
HandleAERespInstalling(n) ==
    /\ HandleAEResp(n)
    /\ LET p == held[n].src
       IN  IF /\ ~held[n].success /\ held[n].term <= node[n].currentTerm
              /\ NeedsSnapshot(node'[n], p)
           THEN SendInstalls(n, node'[n], {p}) ELSE UNCHANGED isVars

\* The handler passes the data on to the snapshot loop before it answers.  It
\* does not touch the election timer.
HandleISReq(n, m) ==
    /\ InSelect(n)
    /\ m.type = "request" /\ m.dst = n
    /\ LET s    == HandleInstallSnapshot(node[n], m)
           resp == [type |-> "response", src |-> n, dst |-> m.src, term |-> s.currentTerm,
                    success |-> m.term >= node[n].currentTerm, idx |-> m.idx]
       IN  /\ Persist(n, AfterSelect(n, s))
           /\ \/ isRpcs' = isRpcs \ {m}
              \/ CallerAlive(m) /\ isRpcs' = (isRpcs \ {m}) \cup {resp}
    /\ IF Installs(node[n], m)
       THEN install[n] = Nil /\ install' = [install EXCEPT ![n] = m.data]
       ELSE UNCHANGED install
    /\ GoTo(n, "top")
    /\ UNCHANGED <<connected, held, sm, epoch, netVars, history, isHeld, installs>>

ReceiveISResp(n, r) ==
    /\ isHeld[n] = Nil
    /\ r.type = "response" /\ r.dst = n
    /\ isRpcs' = isRpcs \ {r}
    /\ isHeld' = IF node[n].role = Leader THEN [isHeld EXCEPT ![n] = r] ELSE isHeld
    /\ UNCHANGED <<vars, install, installs>>

\* Like the handler of AppendEntries responses it may get in between a step of
\* the run loop and the persistState that ends the step.
HandleISResp(n) ==
    /\ isHeld[n] # Nil
    /\ LET s == HandleInstallSnapshotResponse(node[n], isHeld[n])
       IN  \/ Update(n, s)
           \/ loop[n] \in {"top", "started"} /\ Persist(n, s)
    /\ isHeld' = [isHeld EXCEPT ![n] = Nil]
    /\ UNCHANGED <<loop, connected, held, sm, epoch, netVars, history, isRpcs, install, installs>>

\* snapshotLoop.
Restore(n) ==
    /\ install[n] # Nil
    /\ sm' = [sm EXCEPT ![n] = install[n]]
    /\ install' = [install EXCEPT ![n] = Nil]
    /\ UNCHANGED <<node, loop, connected, held, disk, epoch, netVars, history,
                   isRpcs, isHeld, installs>>

\* The run loop where it sends and handles no snapshot.
PlainLoop(n) ==
    \/ ApplyLog(n)
    \/ EnterSelect(n)
    \/ FollowerTimeout(n)
    \/ CandidateTimeout(n)
    \/ RequestVotes(n)
    \/ \E m \in voteReqs  : HandleVoteReq(n, m)
    \/ \E r \in voteResps : CountVote(n, r)
    \/ \E r \in voteResps : DrainVote(n, r)
    \/ \E m \in DOMAIN aeRpcs : HandleAEReq(n, m)

InstallNext ==
    \/ \E n \in Server : PlainLoop(n) /\ UNCHANGED isVars
    \/ \E n \in Server : LeaderSends(n)
    \/ \E n \in Server : \E m \in isRpcs : HandleISReq(n, m)
    \/ \E n \in Server : \E r \in DOMAIN aeRpcs : ReceiveAEResp(n, r) /\ UNCHANGED isVars
    \/ \E n \in Server : HandleAERespInstalling(n)
    \/ \E n \in Server : \E r \in isRpcs : ReceiveISResp(n, r)
    \/ \E n \in Server : HandleISResp(n)
    \/ \E n \in Server : Restore(n)

InstallSpec == InstallInit /\ [][InstallNext]_installVars

-----------------------------------------------------------------------------
\* handleInstallSnapshotResponse and handleAppendEntriesResponse, in two
\* goroutines: under one leader without new entries no order of the two kinds of
\* calls and answers makes it believe that a follower holds an entry it lacks.
MatchHeld ==
    (\A v \in cast : v[2] <= 2) =>
        \A p \in Peers(L) : node[L].matchIndex[p] <= LastLogIdx(node[p])

=============================================================================
