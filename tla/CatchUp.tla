------------------------------- MODULE CatchUp -------------------------------
(***************************************************************************)
(* How a leader brings a follower's log in line with its own: heartbeat,   *)
(* handleAppendEntries, the roll-back of nextIndex after a refusal         *)
(* (src/raft/log.go) and InstallSnapshot for a follower that is behind the *)
(* snapshot (src/raft/snapshot.go).                                        *)
(*                                                                         *)
(* The leader has just won an election and stays leader, no command comes  *)
(* in and no call is lost: whether a follower gets there at all depends on *)
(* the two logs only.  One call is out at a time, as the next heartbeat    *)
(* comes long after the answer.                                            *)
(***************************************************************************)
EXTENDS NodeState

CONSTANTS
    L, F,           \* the leader and the follower
    MaxShared,      \* entries the two logs share
    MaxFork,        \* further entries of the follower that the leader lacks
    MaxOwn          \* further entries of the leader at its election

ASSUME PairAssumption == Server = {L, F} /\ L # F /\ Command = {}
ASSUME SizeAssumption == MaxShared \in Nat /\ MaxFork \in Nat /\ MaxOwn \in Nat

VARIABLES
    leader, follower,   \* the two node states
    rpc                 \* the call in progress: a request, a response, or Nil

vars == <<leader, follower, rpc>>

-----------------------------------------------------------------------------
(***************************************************************************)
(* The follower led in term 1: the shared entries are of that term, and so *)
(* are those nobody else got.  The leader then led in term 2 and was       *)
(* elected again in term 3.  It may have compacted a prefix of its log,    *)
(* which a majority without the follower had committed.                    *)
(***************************************************************************)
LogOf(terms) == [k \in 1..Len(terms) |-> Noop(k - 1, terms[k])]

Terms(n, t) == [k \in 1..n |-> t]

Follows(shared, fork) ==
    [NewNodeState EXCEPT !.currentTerm = 1, !.log = LogOf(Terms(shared + fork, 1))]

Leads(shared, own, compacted) ==
    LET terms == Terms(shared, 1) \o Terms(own, 2)
        log   == LogOf(terms)
        s     == [NewNodeState EXCEPT
                     !.currentTerm = 3,
                     !.votedFor    = L,
                     !.log         = SubSeq(log, compacted + 1, Len(log)),
                     !.snap        = IF compacted = 0 THEN Nil
                                     ELSE [idx |-> compacted - 1, term |-> terms[compacted],
                                           data |-> <<>>, config |-> Server],
                     !.commitIndex = compacted - 1,
                     !.lastApplied = compacted - 1]
    IN  WinElection(s, L)

Init ==
    \E shared \in 0..MaxShared, fork \in 0..MaxFork, own \in 0..MaxOwn :
        /\ shared + fork <= LogCap
        /\ follower = Follows(shared, fork)
        /\ \E compacted \in 0..(shared + own) :
              /\ shared + own - compacted <= LogCap
              /\ leader = Leads(shared, own, compacted)
        /\ rpc = Nil

-----------------------------------------------------------------------------
AppendReq(s) ==
    LET a == AppendEntriesArgs(s, F)
    IN  [type |-> "append", term |-> a.term, leader |-> a.leader, prevIdx |-> a.prevIdx,
         prevTerm |-> a.prevTerm, entries |-> a.entries, commit |-> a.commit]

InstallReq(s) ==
    LET a == InstallArgs(s)
    IN  [type |-> "install", term |-> a.term, idx |-> a.idx, lastTerm |-> a.lastTerm,
         data |-> a.data, config |-> a.config]

\* sendAppendEntriesRPCs for one peer: AppendEntries, or InstallSnapshot when
\* the next entry was compacted (then there is a snapshot).
Heartbeat ==
    /\ rpc = Nil
    /\ leader' = CheckCommits(ArgsBuilt(leader, {F}))
    /\ rpc' = IF NextEntryCompacted(leader, F) THEN InstallReq(leader) ELSE AppendReq(leader)
    /\ UNCHANGED follower

HandleAppend ==
    /\ rpc # Nil /\ rpc.type = "append"
    /\ follower' = HandleAppendEntries(follower, rpc, <<>>)
    /\ rpc' = [type |-> "appended", src |-> F, term |-> follower'.currentTerm,
               success |-> AcceptsEntries(follower, rpc), lastIdx |-> LastLogIdx(follower)]
    /\ UNCHANGED leader

HandleInstall ==
    /\ rpc # Nil /\ rpc.type = "install"
    /\ follower' = HandleInstallSnapshot(follower, rpc)
    /\ rpc' = [type |-> "installed", src |-> F, term |-> follower'.currentTerm,
               success |-> rpc.term >= follower.currentTerm, idx |-> rpc.idx]
    /\ UNCHANGED leader

\* A refusal that finds the follower behind the snapshot sends it at once.
HandleAppended ==
    /\ rpc # Nil /\ rpc.type = "appended"
    /\ leader' = HandleAppendEntriesResponse(leader, rpc)
    /\ rpc' = IF ~rpc.success /\ NeedsSnapshot(leader', F)
              THEN InstallReq(leader') ELSE Nil
    /\ UNCHANGED follower

HandleInstalled ==
    /\ rpc # Nil /\ rpc.type = "installed"
    /\ leader' = HandleInstallSnapshotResponse(leader, rpc)
    /\ rpc' = Nil
    /\ UNCHANGED follower

\* checkLogsToApply on the follower.
Apply ==
    /\ CanApply(follower)
    /\ follower' = [follower EXCEPT !.lastApplied = @ + 1]
    /\ UNCHANGED <<leader, rpc>>

Next ==
    \/ Heartbeat
    \/ HandleAppend
    \/ HandleInstall
    \/ HandleAppended
    \/ HandleInstalled
    \/ Apply

\* Heartbeats are sent for ever and calls are answered.
Spec == Init /\ [][Next]_vars /\ WF_vars(Next) /\ WF_vars(Apply)

-----------------------------------------------------------------------------
\* getAppendEntriesArgs and handleAppendEntriesResponse, "all followers
\* eventually advance their commitIndex": the leader's log is committed and
\* applied by the follower, wherever the two logs part.
CatchesUp ==
    <>[](/\ follower.commitIndex = LastLogIdx(leader)
         /\ follower.lastApplied = LastLogIdx(leader))

\* handleAppendEntries: what the follower has applied is what the leader has at
\* that index, also after a snapshot took the place of its log.
AppliedAgrees ==
    \A k \in 1..Len(follower.log), j \in 1..Len(leader.log) :
        /\ follower.log[k].index <= follower.lastApplied
        /\ follower.log[k].index = leader.log[j].index
        => follower.log[k] = leader.log[j]

=============================================================================
