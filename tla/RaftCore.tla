------------------------------- MODULE RaftCore -------------------------------
(***************************************************************************)
(* A cluster of RaftNodes (src/raft/node.go): the run loop of every node   *)
(* with its three select statements, the goroutines that send RequestVote  *)
(* and AppendEntries and wait for the answers, the goroutine that handles  *)
(* AppendEntries answers, stable storage, and crashes with restarts.       *)
(*                                                                         *)
(* A node here is never given a client command or a membership change, so  *)
(* its log holds no-op entries only and stays below logArrayCapacity; the  *)
(* modules Clients and Installs add goroutines that do that.               *)
(*                                                                         *)
(* An RPC is a request in flight and then, once the callee handled it, a   *)
(* response in flight.  Both may be delayed, overtaken and lost (the call  *)
(* timed out, the connection broke, the caller stopped waiting), neither   *)
(* is ever duplicated.  A lost AppendEntries request is one that was never *)
(* sent, a lost response is dropped when it is made; a lost RequestVote is *)
(* one that is never delivered.  A response is the return value of a call, *)
(* so it dies with the calling process: a request carries the epoch (the   *)
(* number of restarts) of its caller.                                      *)
(***************************************************************************)
EXTENDS NodeState, Bags

CONSTANTS
    MaxTerm,        \* no election is started in a term beyond this one
    MaxRestarts,    \* restarts per node
    MaxCalls        \* AppendEntries calls that get through, in all

ASSUME BoundsAssumption == MaxTerm \in Nat /\ MaxRestarts \in Nat /\ MaxCalls \in Nat

\* An election appends one entry, so no log is ever compacted.
ASSUME NoCompactionAssumption == MaxTerm < LogCap

VARIABLES
    node,       \* node[n]: the nodeState of n
    loop,       \* loop[n]: where the run loop of n is
    connected,  \* connected[n]: RaftNode.connected
    held,       \* held[n]: the AppendEntries response whose handler has read
                \*   the role (Leader) and not yet locked the state, or Nil
    disk,       \* disk[n]: what Storage holds for n
    sm,         \* sm[n]: the commands applied to the state machine of n
    epoch,      \* epoch[n]: how often n was restarted
    voteReqs,   \* RequestVote requests in flight
    voteResps,  \* RequestVote responses in flight
    aeRpcs,     \* a bag: AppendEntries requests and responses in flight
    calls,      \* the number of AppendEntries calls that got through
    cast,       \* history: the votes <<voter, term, candidate>> given out
    elected,    \* history: <<candidate, term>> that counted a majority
    tally       \* history: tally[n] is the term n last started an election in
                \*   and the voters whose votes electionVotes counts

nodeVars == <<node, loop, connected, held, disk, sm, epoch>>
netVars  == <<voteReqs, voteResps, aeRpcs, calls>>
history  == <<cast, elected, tally>>
vars     == <<nodeVars, netVars, history>>

-----------------------------------------------------------------------------
(***************************************************************************)
(* Messages.                                                               *)
(***************************************************************************)
Epochs == 0..MaxRestarts

VoteReq == [src : Server, dst : Server, epoch : Epochs,
            term : Nat, lastIdx : Index, lastTerm : Index]

VoteResp == [src : Server, dst : Server, term : Nat, granted : BOOLEAN]

AEReq == [type : {"request"}, src : Server, dst : Server, epoch : Epochs,
          term : Nat, leader : Server \cup {Nil}, prevIdx : Index, prevTerm : Index,
          entries : Seq(Entry), commit : Index]

AEResp == [type : {"response"}, src : Server, dst : Server,
           term : Nat, success : BOOLEAN, lastIdx : Index]

VoteReqsOf(n, s) ==
    {[src |-> n, dst |-> p, epoch |-> epoch[n], term |-> s.currentTerm,
      lastIdx |-> LastLogIdx(s), lastTerm |-> LastLogTerm(s)] : p \in Peers(n)}

\* A request goes out only to the peers whose next entry is in the log: for
\* the others sendInstallSnapshotRPC finds no snapshot and returns.
AEReqOf(n, s, p) ==
    LET a == AppendEntriesArgs(s, p)
    IN  [type |-> "request", src |-> n, dst |-> p, epoch |-> epoch[n],
         term |-> a.term, leader |-> a.leader, prevIdx |-> a.prevIdx,
         prevTerm |-> a.prevTerm, entries |-> a.entries, commit |-> a.commit]

AEReqsOf(n, s) ==
    {AEReqOf(n, s, p) : p \in {q \in Peers(n) : ~NextEntryCompacted(s, q)}}

AERespTo(m, s, success) ==
    [type |-> "response", src |-> m.dst, dst |-> m.src, term |-> s.currentTerm,
     success |-> success, lastIdx |-> LastLogIdx(node[m.dst])]

\* The caller of m is still running: it is there to receive the response.
CallerAlive(m) == m.epoch = epoch[m.src]

\* The calls of reqs that get through; the others fail or time out.
SendAE(reqs) ==
    \E sent \in SUBSET reqs :
        /\ calls + Cardinality(sent) <= MaxCalls
        /\ calls'  = calls + Cardinality(sent)
        /\ aeRpcs' = aeRpcs (+) SetToBag(sent)

-----------------------------------------------------------------------------
\* Mutant: votedFor is not saved.
StoredNoVote(s, d) ==
    [ currentTerm |-> s.currentTerm, votedFor |-> d.votedFor, log |-> s.log, snap |-> d.snap ]

\* persistState: SaveState, and SaveSnapshot for a newer snapshot.
Stored(s, d) ==
    [ currentTerm |-> s.currentTerm,
      votedFor    |-> s.votedFor,
      log         |-> s.log,
      snap        |-> IF s.snap # Nil /\ s.snap.idx > s.persistedSnapIdx THEN s.snap ELSE d.snap ]

NoteStored(s) ==
    IF s.snap # Nil /\ s.snap.idx > s.persistedSnapIdx
    THEN [s EXCEPT !.persistedSnapIdx = s.snap.idx] ELSE s

\* The run loop leaves n in state s and persistState saves it.
Persist(n, s) ==
    /\ node' = [node EXCEPT ![n] = NoteStored(s)]
    /\ disk' = [disk EXCEPT ![n] = Stored(s, disk[n])]

\* The run loop leaves n in state s, storage is not written.
Update(n, s) ==
    /\ node' = [node EXCEPT ![n] = s]
    /\ UNCHANGED disk

GoTo(n, l) == loop' = [loop EXCEPT ![n] = l]

\* Mutants: Start forgets the vote; it forgets the term.
RestoredNoVote(d) ==
    [NewNodeState EXCEPT !.currentTerm = d.currentTerm, !.log = d.log]

RestoredNoTerm(d) ==
    [NewNodeState EXCEPT !.votedFor = d.votedFor, !.log = d.log]

\* What Start makes of the stored state d, in a new process.
Restored(d) ==
    LET s == IF d.currentTerm > 0
             THEN [NewNodeState EXCEPT !.currentTerm = d.currentTerm,
                                       !.votedFor    = d.votedFor,
                                       !.log         = SubSeq(d.log, 1, Min({LogCap, Len(d.log)}))]
             ELSE NewNodeState
    IN  IF d.snap = Nil THEN s
        ELSE [s EXCEPT !.snap = d.snap, !.commitIndex = d.snap.idx, !.lastApplied = d.snap.idx]

NoTally == [term |-> 0, voters |-> {}]

RestoredSM(d) == IF d.snap = Nil THEN <<>> ELSE d.snap.data

Init ==
    /\ node      = [n \in Server |-> NewNodeState]
    /\ loop      = [n \in Server |-> "top"]
    /\ connected = [n \in Server |-> Peers(n) = {}]
    /\ held      = [n \in Server |-> Nil]
    /\ disk      = [n \in Server |-> [currentTerm |-> 0, votedFor |-> Nil, log |-> <<>>, snap |-> Nil]]
    /\ sm        = [n \in Server |-> <<>>]
    /\ epoch     = [n \in Server |-> 0]
    /\ voteReqs  = {}
    /\ voteResps = {}
    /\ aeRpcs    = EmptyBag
    /\ calls     = 0
    /\ cast      = {}
    /\ elected   = {}
    /\ tally     = [n \in Server |-> NoTally]

-----------------------------------------------------------------------------
(***************************************************************************)
(* The top of the run loop: apply what is committed, one entry per turn of *)
(* checkLogsToApply, then read the role and enter its select statement.    *)
(***************************************************************************)
ApplyLog(n) ==
    /\ loop[n] = "top"
    /\ CanApply(node[n])
    /\ LET e == NextToApply(node[n])
       IN  sm' = [sm EXCEPT ![n] = IF e.kind = "command" THEN Append(@, e.val) ELSE @]
    /\ Update(n, [node[n] EXCEPT !.lastApplied = node[n].lastApplied + 1])
    /\ UNCHANGED <<loop, connected, held, epoch, netVars, history>>

EnterSelect(n) ==
    /\ loop[n] = "top"
    /\ ~CanApply(node[n])
    /\ GoTo(n, node[n].role)
    /\ Update(n, IF node[n].role = Leader THEN node[n] ELSE CheckElectionTimeout(node[n]))
    /\ UNCHANGED <<connected, held, sm, epoch, netVars, history>>

\* The state in which the select statement of the loop leaves the node: the
\* leader's ends with checkCommits, whatever the role has become meanwhile.
AfterSelect(n, s) == IF loop[n] = Leader THEN CheckCommits(s) ELSE s

\* A follower stops its timer before it handles an RPC.
BeforeRPC(n) == IF loop[n] = Follower THEN StopElectionTimeout(node[n]) ELSE node[n]

InSelect(n) == loop[n] \in {Follower, Candidate, Leader}

BecomeConnected(n) ==
    /\ InSelect(n)
    /\ ~connected[n]
    /\ connected' = [connected EXCEPT ![n] = TRUE]
    /\ Update(n, AfterSelect(n, node[n]))
    /\ GoTo(n, "top")
    /\ UNCHANGED <<held, sm, epoch, netVars, history>>

-----------------------------------------------------------------------------
(***************************************************************************)
(* Elections.                                                              *)
(***************************************************************************)
\* The election timer of a follower or a candidate fires.
StartsElection(n) ==
    /\ node[n].timer
    /\ node[n].currentTerm < MaxTerm
    /\ LET s == StartElection(StopElectionTimeout(node[n]), n)
       IN  /\ Persist(n, s)
           /\ cast'  = cast \cup {<<n, s.currentTerm, n>>}
           /\ tally' = [tally EXCEPT ![n] = [term |-> s.currentTerm, voters |-> {n}]]
    /\ UNCHANGED <<connected, held, sm, epoch, netVars>>

\* A cluster of one needs no other vote.
FollowerTimeout(n) ==
    /\ loop[n] = Follower
    /\ connected[n]
    /\ StartsElection(n)
    /\ GoTo(n, IF Peers(n) = {} THEN "won" ELSE "started")
    /\ elected' = IF Peers(n) = {} THEN elected \cup {<<n, node[n].currentTerm + 1>>} ELSE elected

\* Before all peers are connected the timer is only started again.
TimeoutUnconnected(n) ==
    /\ loop[n] = Follower
    /\ node[n].timer
    /\ ~connected[n]
    /\ Update(n, StopElectionTimeout(node[n]))
    /\ GoTo(n, "top")
    /\ UNCHANGED <<connected, held, sm, epoch, netVars, history>>

CandidateTimeout(n) ==
    /\ loop[n] = Candidate
    /\ StartsElection(n)
    /\ GoTo(n, "started")
    /\ UNCHANGED elected

\* prepareRequestVoteRPC reads the state again, after startElection and
\* persistState have released it.
RequestVotes(n) ==
    /\ loop[n] = "started"
    /\ voteReqs' = voteReqs \cup VoteReqsOf(n, node[n])
    /\ GoTo(n, "top")
    /\ UNCHANGED <<node, connected, held, disk, sm, epoch, voteResps, aeRpcs, calls, history>>

HandleVoteReq(n, m) ==
    /\ InSelect(n)
    /\ m.dst = n
    /\ LET s       == HandleRequestToVote(BeforeRPC(n), m)
           granted == GrantsVote(BeforeRPC(n), m)
           resp    == [src |-> n, dst |-> m.src, term |-> s.currentTerm, granted |-> granted]
       IN  /\ Persist(n, AfterSelect(n, s))
           /\ voteResps' = IF CallerAlive(m) THEN voteResps \cup {resp} ELSE voteResps
           /\ cast' = IF granted THEN cast \cup {<<n, m.term, m.src>>} ELSE cast
    /\ voteReqs' = voteReqs \ {m}
    /\ GoTo(n, "top")
    /\ UNCHANGED <<connected, held, sm, epoch, aeRpcs, calls, elected, tally>>

\* A candidate counts a vote; winElection locks the state anew.
CountVote(n, r) ==
    /\ loop[n] = Candidate
    /\ r.dst = n
    /\ Update(n, UpdateElection(node[n], r))
    /\ tally' = [tally EXCEPT ![n].voters =
           CASE r.term > node[n].currentTerm -> {}
             [] r.term = node[n].currentTerm /\ r.granted -> @ \cup {r.src}
             [] OTHER -> @]
    /\ elected' = IF WinsElection(node[n], r)
                  THEN elected \cup {<<n, node[n].currentTerm>>} ELSE elected
    /\ GoTo(n, IF WinsElection(node[n], r) THEN "won" ELSE "top")
    /\ voteResps' = voteResps \ {r}
    /\ UNCHANGED <<connected, held, sm, epoch, voteReqs, aeRpcs, calls, cast>>

\* The other roles drain the channel.
DrainVote(n, r) ==
    /\ loop[n] \in {Follower, Leader}
    /\ r.dst = n
    /\ Update(n, AfterSelect(n, node[n]))
    /\ voteResps' = voteResps \ {r}
    /\ GoTo(n, "top")
    /\ UNCHANGED <<connected, held, sm, epoch, voteReqs, aeRpcs, calls, history>>

\* winElection, persistState and the first AppendEntries of the leader.
BecomeLeader(n) ==
    /\ loop[n] = "won"
    /\ LET s == WinElection(node[n], n)
       IN  /\ Persist(n, ArgsBuilt(s, Peers(n)))
           /\ SendAE(AEReqsOf(n, s))
    /\ tally' = [tally EXCEPT ![n].voters = {}]
    /\ GoTo(n, "top")
    /\ UNCHANGED <<connected, held, sm, epoch, voteReqs, voteResps, cast, elected>>

-----------------------------------------------------------------------------
(***************************************************************************)
(* Log replication.                                                        *)
(***************************************************************************)
\* The heartbeat of the leader's select: the role is not read again.
Heartbeat(n) ==
    /\ loop[n] = Leader
    /\ Update(n, CheckCommits(ArgsBuilt(node[n], Peers(n))))
    /\ SendAE(AEReqsOf(n, node[n]))
    /\ GoTo(n, "top")
    /\ UNCHANGED <<connected, held, sm, epoch, voteReqs, voteResps, history>>

\* The response may come too late for the caller, or find none.
HandleAEReq(n, m) ==
    /\ InSelect(n)
    /\ m.type = "request" /\ m.dst = n
    /\ LET s    == HandleAppendEntries(BeforeRPC(n), m, sm[n])
           resp == AERespTo(m, s, AcceptsEntries(BeforeRPC(n), m))
           rest == aeRpcs (-) SetToBag({m})
       IN  /\ Persist(n, AfterSelect(n, s))
           /\ \/ aeRpcs' = rest
              \/ CallerAlive(m) /\ aeRpcs' = rest (+) SetToBag({resp})
    /\ GoTo(n, "top")
    /\ UNCHANGED <<connected, held, sm, epoch, calls, voteReqs, voteResps, history>>

\* handleAppendEntriesRPCResponses receives a response and reads the role.
ReceiveAEResp(n, r) ==
    /\ held[n] = Nil
    /\ r.type = "response" /\ r.dst = n
    /\ aeRpcs' = aeRpcs (-) SetToBag({r})
    /\ held' = IF node[n].role = Leader THEN [held EXCEPT ![n] = r] ELSE held
    /\ UNCHANGED <<node, loop, connected, disk, sm, epoch, calls, voteReqs, voteResps, history>>

\* It then locks the state.  It saves nothing itself, but it may get in between
\* a step of the run loop and the persistState that ends the step.
HandleAEResp(n) ==
    /\ held[n] # Nil
    /\ LET s == HandleAppendEntriesResponse(node[n], held[n])
       IN  \/ Update(n, s)
           \/ loop[n] \in {"top", "started"} /\ Persist(n, s)
    /\ held' = [held EXCEPT ![n] = Nil]
    /\ UNCHANGED <<loop, connected, sm, epoch, netVars, history>>

-----------------------------------------------------------------------------
\* The process of n dies and is started again on the same storage.
Restart(n) ==
    /\ epoch[n] < MaxRestarts
    /\ epoch'     = [epoch EXCEPT ![n] = @ + 1]
    /\ Update(n, Restored(disk[n]))
    /\ sm'        = [sm EXCEPT ![n] = RestoredSM(disk[n])]
    /\ GoTo(n, "top")
    /\ connected' = [connected EXCEPT ![n] = Peers(n) = {}]
    /\ held'      = [held EXCEPT ![n] = Nil]
    /\ voteResps' = {r \in voteResps : r.dst # n}
    /\ aeRpcs'    = [m \in {x \in DOMAIN aeRpcs : ~(x.type = "response" /\ x.dst = n)} |-> aeRpcs[m]]
    /\ tally'     = [tally EXCEPT ![n] = NoTally]
    /\ UNCHANGED <<voteReqs, calls, cast, elected>>

RunLoop(n) ==
    \/ ApplyLog(n)
    \/ EnterSelect(n)
    \/ BecomeConnected(n)
    \/ FollowerTimeout(n)
    \/ TimeoutUnconnected(n)
    \/ CandidateTimeout(n)
    \/ RequestVotes(n)
    \/ \E m \in voteReqs  : HandleVoteReq(n, m)
    \/ \E r \in voteResps : CountVote(n, r)
    \/ \E r \in voteResps : DrainVote(n, r)
    \/ BecomeLeader(n)
    \/ Heartbeat(n)
    \/ \E m \in DOMAIN aeRpcs : HandleAEReq(n, m)

Next ==
    \/ \E n \in Server : RunLoop(n)
    \/ \E n \in Server : \E r \in DOMAIN aeRpcs : ReceiveAEResp(n, r)
    \/ \E n \in Server : HandleAEResp(n)
    \/ \E n \in Server : Restart(n)

Spec == Init /\ [][Next]_vars

-----------------------------------------------------------------------------
(***************************************************************************)
(* What is checked.                                                        *)
(***************************************************************************)
Stages == {"top", "started", "won", Follower, Candidate, Leader}

Disk == [currentTerm : Nat, votedFor : Server \cup {Nil}, log : Seq(Entry),
         snap : Snapshot \cup {Nil}]

\* Every variable has its type: nodeState, what Storage holds, the RPCs in
\* flight and the history.
TypeOK ==
    /\ node      \in [Server -> NodeStates]
    /\ loop      \in [Server -> Stages]
    /\ connected \in [Server -> BOOLEAN]
    /\ held      \in [Server -> AEResp \cup {Nil}]
    /\ disk      \in [Server -> Disk]
    /\ sm        \in [Server -> Seq(Command)]
    /\ epoch     \in [Server -> Epochs]
    /\ voteReqs  \subseteq VoteReq
    /\ voteResps \subseteq VoteResp
    /\ calls     \in Nat
    /\ DOMAIN aeRpcs \subseteq AEReq \cup AEResp
    /\ \A m \in DOMAIN aeRpcs : aeRpcs[m] \in Nat \ {0}
    /\ cast      \subseteq Server \X Nat \X Server
    /\ elected   \subseteq Server \X Nat
    /\ tally     \in [Server -> [term : Nat, voters : SUBSET Server]]

\* handleRequestToVote and startElection: whatever is delayed, reordered or
\* lost, and however often servers crash, no server votes for two candidates
\* in one term.
VoteOnce ==
    \A a, b \in cast : a[1] = b[1] /\ a[2] = b[2] => a[3] = b[3]

\* persistState runs before the reply is sent: a server that crashes at any
\* moment after a vote went out finds that vote, or a newer term, in storage.
VoteDurable ==
    \A a \in cast : \/ disk[a[1]].currentTerm > a[2]
                    \/ disk[a[1]].currentTerm = a[2] /\ disk[a[1]].votedFor = a[3]

\* updateElection: electionVotes is the number of different servers that voted
\* for this candidate in the term it runs in, so no vote is counted twice and
\* none of an earlier term or an earlier life of the process is.
VotesAreVoters ==
    \A n \in Server :
        /\ node[n].votes = Cardinality(tally[n].voters)
        /\ \A v \in tally[n].voters : <<v, tally[n].term, n>> \in cast

\* updateElection returns true for at most one candidate per term.
ElectedOnce ==
    \A a, b \in elected : a[2] = b[2] => a[1] = b[1]

\* handleAppendEntries and addNoopLogLocked: the log array holds the indices
\* 0, 1, 2, ... without a gap, terms never decrease along it and none is newer
\* than currentTerm; storage holds such a log too.
LogWellFormed ==
    \A n \in Server : \A s \in {node[n], disk[n]} : \A k \in 1..Len(s.log) :
        /\ s.log[k].index = k - 1
        /\ s.log[k].term <= s.currentTerm
        /\ k > 1 => s.log[k-1].term <= s.log[k].term

\* updateCurrentTerm and its callers: as long as a process lives its term only
\* grows, and in one term a vote once given is neither changed nor taken back.
VoteStable ==
    [][\A n \in Server : epoch'[n] = epoch[n] =>
           /\ node'[n].currentTerm >= node[n].currentTerm
           /\ node'[n].currentTerm = node[n].currentTerm /\ node[n].votedFor # Nil
                => node'[n].votedFor = node[n].votedFor]_vars

\* handleFollower, winElection, handleLeader and checkLogsToApply in a cluster
\* of one: after its last restart the node elects itself, commits its no-op and
\* with it all it had stored, and applies the whole log.
SoloServes ==
    <>[](\A n \in Server : /\ node[n].role = Leader
                           /\ node[n].lastApplied = LastLogIdx(node[n]))

Majorities == {Q \in SUBSET Server : 2 * Cardinality(Q) > Cardinality(Server)}

Ballots == INSTANCE Voting WITH Quorum <- Majorities, votes <- cast, winners <- elected

\* handleRequestToVote, startElection and updateElection, with all their
\* messages, timers and crashes, implement elections by single votes and
\* majorities: every step is a vote the voter may cast, a win by a majority of
\* the votes cast so far, or neither.
ImplementsVoting == Ballots!Spec

-----------------------------------------------------------------------------
(***************************************************************************)
(* What comments and tests of the repository say and the code does not do. *)
(***************************************************************************)
\* handleRequestToVote, "Step down if we see a newer term": no two servers are
\* leaders in the same term.
OneLeaderPerTerm ==
    \A n, m \in Server :
        /\ node[n].role = Leader /\ node[m].role = Leader
        /\ node[n].currentTerm = node[m].currentTerm
        => n = m

\* checkCommits, "if a majority have replicated a newer entry": what a leader
\* holds committed is in the logs of a majority.
CommittedOnMajority ==
    \A n \in Server : node[n].role = Leader =>
        \A k \in 1..Len(node[n].log) : node[n].log[k].index <= node[n].commitIndex =>
            2 * Cardinality({p \in Server : /\ k <= Len(node[p].log)
                                            /\ node[p].log[k] = node[n].log[k]})
                > Cardinality(Server)

\* updateElection, "Returns true if the node has just won the election": a node
\* becomes leader in the term it won.
LeadsWonTerm ==
    [][\A n \in Server : node[n].role # Leader /\ node'[n].role = Leader =>
           <<n, node'[n].currentTerm>> \in elected']_vars

=============================================================================
