------------------------------ MODULE Membership ------------------------------
(***************************************************************************)
(* Membership changes on one node (src/raft/config_change.go and their     *)
(* callers in node.go and log.go): AddServer and RemoveServer, the server  *)
(* that joins without a vote and is promoted once it has caught up, the    *)
(* queue of changes, and the four goroutines that start a change from it:  *)
(* handleConfigurationMessages, handleAppendEntriesRPCResponses,           *)
(* handleInstallSnapshotResponses and the run loop, which also applies the *)
(* entries and answers the callers.                                        *)
(*                                                                         *)
(* The other servers are an environment: they acknowledge what they were   *)
(* sent, and one of them may take the leadership over, start a change of   *)
(* its own and lose the leadership again.                                  *)
(***************************************************************************)
EXTENDS NodeState, Functions

CONSTANTS
    Self,       \* the node
    Peer,       \* cfg.Peers; the other servers may join
    Request,    \* calls of AddServer and RemoveServer
    Change,     \* Change[q]: what call q asks for
    Others,     \* the changes other leaders start
    MaxTerm     \* no leader beyond this term

ASSUME MembersAssumption == Self \in Server /\ Peer \subseteq Server \ {Self}
ASSUME ChangeAssumption ==
    /\ Change \in [Request -> [kind : {"add", "remove"}, val : Server]]
    /\ Others \subseteq [kind : {"add", "remove"}, val : Server]
    /\ Nil \notin Request
ASSUME MaxTermAssumption == MaxTerm \in Nat

Threads == {"conf", "resp", "inst", "run"}

VARIABLES
    s,          \* nodeState
    keys,       \* the servers that have an entry in nextIndex, matchIndex, ...
    queue,      \* configQueue
    inChange,   \* inConfigChange
    unvoting,   \* the calls in unvotingServers
    applied,    \* pendingConfigApplied: from log indices to calls
    th,         \* th[t]: where goroutine t is, its call and the index it read
    result,     \* result[q]: what became of the call
    met         \* history: what the code's guards do not provide for

vars == <<s, keys, queue, inChange, unvoting, applied, th, result, met>>

Thread(at, q) == [at |-> at, q |-> q, idx |-> 0]

Configuring(log) == {k \in 1..Len(log) : log[k].kind \in {"add", "remove"}}

\* The changes in the log that were not applied yet.
Pending(r) == {k \in Configuring(r.log) : r.log[k].index > r.lastApplied}

Crossed(r) == IF Cardinality(Pending(r)) > 1 THEN {"crossed"} ELSE {}

\* An entry goes to position k + 1 of the array, the last one, or past it: the
\* follower compacts its log and the leader loses the entry, at the latest with
\* the next one.
Filled(k) == IF k + 1 >= LogCap THEN {"full"} ELSE {}

\* takeSnapshot, before this leadership.
Compacted(r) ==
    [r EXCEPT !.snap = [idx |-> 0, term |-> 1, data |-> <<>>, config |-> r.config],
              !.commitIndex = 0, !.lastApplied = 0, !.currentTerm = 2]

\* Self was just elected, in a cluster that never changed: with an empty log, or
\* with one that it has compacted.
Init ==
    /\ LET r == [NewNodeState EXCEPT !.currentTerm = 1, !.votedFor = Self,
                                     !.config    = Peer \cup {Self},
                                     !.oldConfig = Peer \cup {Self}]
       IN  \/ met = {}       /\ s = ArgsBuilt(WinElection(r, Self), Peer)
           \/ met = {"full"} /\ s = ArgsBuilt(WinElection(Compacted(r), Self), Peer)
    /\ keys     = Peer \cup {Self}
    /\ queue    = <<>>
    /\ inChange = FALSE
    /\ unvoting = {}
    /\ applied  = <<>>
    /\ th       = [t \in Threads |-> Thread(IF t = "run" THEN "top" ELSE "idle", Nil)]
    /\ result   = [q \in Request |-> "none"]

Go(t, at) == th' = [th EXCEPT ![t].at = at]

-----------------------------------------------------------------------------
(***************************************************************************)
(* handleConfigurationMessages.                                            *)
(***************************************************************************)
ReceiveCall(q) ==
    /\ th["conf"].at = "idle"
    /\ result[q] = "none"
    /\ IF s.role = Leader
       THEN /\ result' = [result EXCEPT ![q] = "waiting"]
            /\ th' = [th EXCEPT !["conf"] =
                         Thread(IF Change[q].kind = "add" THEN "join" ELSE "enqueue", q)]
       ELSE /\ result' = [result EXCEPT ![q] = "refused"]
            /\ UNCHANGED th
    /\ UNCHANGED <<s, keys, queue, inChange, unvoting, applied, met>>

\* sendAppendEntriesRPCs: cfg.Peers and the joining servers.
Targets(joining) == Peer \cup {Change[q].val : q \in joining}

\* addNewServer: a server not known yet counts as holding entry 0.
Track(x) ==
    [s EXCEPT !.lastSent[x] = 0, !.nextIndex[x] = 0, !.matchIndex[x] = 0]

\* AddServer: the server is sent the log and has no vote yet.  A second call for
\* the same server takes the place of the first.
Join ==
    /\ th["conf"].at = "join"
    /\ LET x == Change[th["conf"].q].val
       IN  /\ keys'     = keys \cup {x}
           /\ unvoting' = {q \in unvoting : Change[q].val # x} \cup {th["conf"].q}
           /\ s' = ArgsBuilt(IF x \in keys THEN s ELSE Track(x), Targets(unvoting'))
    /\ Go("conf", "idle")
    /\ UNCHANGED <<queue, inChange, applied, result, met>>

-----------------------------------------------------------------------------
(***************************************************************************)
(* Starting a change, in any of the four goroutines.                       *)
(***************************************************************************)
\* handleConfigurationRPC, first half.
Enqueue(t) ==
    /\ th[t].at = "enqueue"
    /\ queue' = Append(queue, th[t].q)
    /\ Go(t, "start")
    /\ UNCHANGED <<s, keys, inChange, unvoting, applied, result, met>>

\* addConfigLogUnlocked: serverConfig changes even when the array is full and
\* nothing is appended.
AddConfigLog(q) ==
    LET e == [index |-> LastLogIdx(s) + 1, term |-> s.currentTerm,
              kind |-> Change[q].kind, val |-> Change[q].val]
        c == ApplyConfigurations(s, e.index, <<e>>)
    IN  IF Len(s.log) >= LogCap THEN c ELSE AppendOwn(c, s.currentLeader, e)

Rest(t) == IF t = "run" THEN "select" ELSE "idle"

\* Mutant: a change starts while another is under way.
CanStartAny == queue # <<>>

CanStart == ~inChange /\ queue # <<>>

\* handleNextConfigurationChange, whatever the role is.
StartNext(t) ==
    /\ th[t].at = "start"
    /\ IF CanStart
       THEN /\ inChange' = TRUE
            /\ queue' = Tail(queue)
            /\ s'  = AddConfigLog(Head(queue))
            /\ th' = [th EXCEPT ![t] = Thread("read", Head(queue))]
            /\ met' = met \cup Crossed(s') \cup Filled(Len(s.log))
       ELSE Go(t, Rest(t)) /\ UNCHANGED <<s, queue, inChange, met>>
    /\ UNCHANGED <<keys, unvoting, applied, result>>

\* getLastConfigLogIndex, after the lock was released.
ReadIdx(t) ==
    /\ th[t].at = "read"
    /\ th' = [th EXCEPT ![t] = [@ EXCEPT !.at = "register", !.idx = s.lastConfigIdx]]
    /\ UNCHANGED <<s, keys, queue, inChange, unvoting, applied, result, met>>

\* Mutant: the caller is answered as soon as the change was appended.
RegisterAnswering(t) ==
    /\ th[t].at = "register"
    /\ result' = [result EXCEPT ![th[t].q] = "ok"]
    /\ Go(t, Rest(t))
    /\ UNCHANGED <<s, keys, queue, inChange, unvoting, applied, met>>

Register(t) ==
    /\ th[t].at = "register"
    /\ applied' = [i \in DOMAIN applied \cup {th[t].idx} |->
                      IF i = th[t].idx THEN th[t].q ELSE applied[i]]
    /\ Go(t, Rest(t))
    /\ UNCHANGED <<s, keys, queue, inChange, unvoting, result, met>>

Start(t) == Enqueue(t) \/ StartNext(t) \/ ReadIdx(t) \/ Register(t)

-----------------------------------------------------------------------------
(***************************************************************************)
(* handleAppendEntriesRPCResponses and handleInstallSnapshotResponses: a   *)
(* server has what it was sent last; one that was joining and has caught   *)
(* up is promoted.                                                         *)
(***************************************************************************)
Joining(x) == {q \in unvoting : Change[q].val = x}

\* promoteUnvotingServer, if the server holds all that is committed.
Promote(t, x, match) ==
    IF match < 0 \/ match < s.commitIndex \/ Joining(x) = {} THEN UNCHANGED <<th, unvoting>>
    ELSE \E q \in Joining(x) :
             /\ unvoting' = unvoting \ {q}
             /\ th' = [th EXCEPT ![t] = Thread("enqueue", q)]

Acknowledge(x) ==
    /\ th["resp"].at = "idle"
    /\ s.role = Leader
    /\ x \in Targets(unvoting) /\ ~NextEntryCompacted(s, x)
    /\ s' = HandleAppendEntriesResponse(s, [success |-> TRUE, src |-> x])
    /\ Promote("resp", x, s.lastSent[x])
    /\ UNCHANGED <<keys, queue, inChange, applied, result, met>>

Installed(x) ==
    /\ th["inst"].at = "idle"
    /\ s.role = Leader
    /\ x \in Targets(unvoting) /\ NeedsSnapshot(s, x)
    /\ s' = HandleInstallSnapshotResponse(s, [success |-> TRUE, src |-> x, idx |-> s.snap.idx])
    /\ Promote("inst", x, s.snap.idx)
    /\ UNCHANGED <<keys, queue, inChange, applied, result, met>>

-----------------------------------------------------------------------------
(***************************************************************************)
(* The run loop: apply, checkConfigurationsToStart, select.                *)
(***************************************************************************)
\* applyLog, for a configuration entry on a leader.
Unlocks(e) == e.kind \in {"add", "remove"} /\ s.role = Leader

ApplyLog ==
    /\ th["run"].at = "top"
    /\ CanApply(s)
    /\ s' = [s EXCEPT !.lastApplied = @ + 1]
    /\ LET e    == NextToApply(s)
           told == Unlocks(e) /\ e.index \in DOMAIN applied
       IN  /\ inChange' = (inChange /\ ~Unlocks(e))
           /\ result'   = IF told THEN [result EXCEPT ![applied[e.index]] = "ok"] ELSE result
           /\ applied'  = IF told THEN Restrict(applied, DOMAIN applied \ {e.index}) ELSE applied
    /\ UNCHANGED <<keys, queue, unvoting, th, met>>

\* Mutant: the run loop does not look at the queue.
CheckConfigurationsToStartNever ==
    /\ th["run"].at = "top"
    /\ ~CanApply(s)
    /\ Go("run", "select")
    /\ UNCHANGED <<s, keys, queue, inChange, unvoting, applied, result, met>>

CheckConfigurationsToStart ==
    /\ th["run"].at = "top"
    /\ ~CanApply(s)
    /\ Go("run", "start")
    /\ UNCHANGED <<s, keys, queue, inChange, unvoting, applied, result, met>>

\* handleLeader: a heartbeat goes out or another case of the select comes first;
\* either way it ends with checkCommits, which does not read lastSentLogIndex.
LeaderSelect(beat) ==
    /\ th["run"].at = "select"
    /\ s.role = Leader
    /\ s' = [CheckCommits(s) EXCEPT
                 !.lastSent = IF beat THEN ArgsBuilt(s, Targets(unvoting)).lastSent ELSE @]
    /\ Go("run", "top")
    /\ UNCHANGED <<keys, queue, inChange, unvoting, applied, result, met>>

\* The AppendEntries of leader x in this term: entry e goes after position k, and
\* the leader has committed e or nothing that is new.
Sent(x, term, k, e, committed) ==
    [term |-> term, leader |-> x, prevIdx |-> s.log[k].index, prevTerm |-> s.log[k].term,
     entries |-> <<e>>, commit |-> IF committed THEN e.index ELSE s.commitIndex]

\* Another server leads: it has the log up to some entry, no committed one
\* missing, and then its no-op.
OtherLeads(x, k, committed) ==
    /\ th["run"].at = "select"
    /\ s.currentTerm < MaxTerm
    /\ k \in 1..Len(s.log) /\ s.log[k].index >= s.commitIndex
    /\ LET e == Noop(s.log[k].index + 1, s.currentTerm + 1)
       IN  s' = HandleAppendEntries(s, Sent(x, s.currentTerm + 1, k, e, committed), <<>>)
    /\ met' = met \cup Filled(k)
    /\ Go("run", "top")
    /\ UNCHANGED <<keys, queue, inChange, unvoting, applied, result>>

\* The leader this node follows sends a change that it put after its no-op.
OtherChanges(k, c, committed) ==
    /\ th["run"].at = "select"
    /\ s.role = Follower /\ s.currentLeader \in Peer
    /\ k \in 1..Len(s.log) /\ s.log[k].index >= s.commitIndex
    /\ s.log[k].kind = "noop" /\ s.log[k].term = s.currentTerm
    /\ LET e == [index |-> s.log[k].index + 1, term |-> s.currentTerm,
                 kind |-> c.kind, val |-> c.val]
       IN  s' = HandleAppendEntries(s, Sent(s.currentLeader, s.currentTerm, k, e, committed), <<>>)
    /\ met' = met \cup Crossed(s') \cup Filled(k) \cup {"foreign"}
    /\ Go("run", "top")
    /\ UNCHANGED <<keys, queue, inChange, unvoting, applied, result>>

Elected ==
    /\ th["run"].at = "select"
    /\ s.role = Follower
    /\ s.currentTerm < MaxTerm
    /\ s' = ArgsBuilt(WinElection(StartElection(s, Self), Self), Targets(unvoting))
    /\ met' = met \cup Filled(Len(s.log))
    /\ Go("run", "top")
    /\ UNCHANGED <<keys, queue, inChange, unvoting, applied, result>>

-----------------------------------------------------------------------------
Conf == Join \/ Start("conf")
Resp == Start("resp")
Inst == Start("inst")
Run  == ApplyLog \/ CheckConfigurationsToStart \/ Start("run")
            \/ \E beat \in BOOLEAN : LeaderSelect(beat)

Next ==
    \/ \E q \in Request : ReceiveCall(q)
    \/ Conf
    \/ Resp
    \/ Inst
    \/ \E x \in Server : Acknowledge(x) \/ Installed(x)
    \/ Run
    \/ \E k \in 1..LogCap, committed \in BOOLEAN :
           \/ \E x \in Peer : OtherLeads(x, k, committed)
           \/ \E c \in Others : OtherChanges(k, c, committed)
    \/ Elected

Spec == Init /\ [][Next]_vars

\* The goroutines are scheduled; heartbeats go out, whatever else comes in, and
\* are answered.
FairSpec ==
    /\ Spec
    /\ WF_vars(Conf) /\ WF_vars(Resp) /\ WF_vars(Inst) /\ WF_vars(Run)
    /\ SF_vars(LeaderSelect(TRUE))
    /\ \A x \in Server : SF_vars(Acknowledge(x)) /\ SF_vars(Installed(x))

-----------------------------------------------------------------------------
(***************************************************************************)
(* What is checked.                                                        *)
(***************************************************************************)
\* handleNextConfigurationChange, "if not already in a change": at most one change
\* is in the log and not yet applied.
OneAtATime == Cardinality(Pending(s)) <= 1

\* inConfigChange: that holds although four goroutines start changes, leaderships
\* change and entries are cut off, until another leader's change comes in, which
\* sets no inConfigChange here and unlocks the next one when this node applies it
\* as leader.
OneChange == "foreign" \notin met => OneAtATime

\* addConfigLogUnlocked, applyConfigurationLocked and the revert after a
\* conflict: serverConfig is the initial membership and the changes in the log.
ConfigOfLog == s.config = ConfigAfter(Peer \cup {Self}, s.log)

\* handleAppendEntries, "Revert configuration": that holds, with this node's
\* changes and other leaders', until two are under way at once (there is one
\* oldServerConfig to go back to) or the array has no more room.
ConfigTracksLog == met \cap {"crossed", "full"} = {} => ConfigOfLog

\* waitForConfigApplied, "waits for a configuration log to be applied, then
\* signals the caller": a caller that was told of success has its change in the
\* log, and applied.
AnsweredOwn ==
    \A q \in Request : result[q] = "ok" =>
        \E k \in Configuring(s.log) :
            /\ s.log[k].index <= s.lastApplied
            /\ s.log[k].kind = Change[q].kind /\ s.log[k].val = Change[q].val

\* waitForConfigApplied: that holds until another leader's change comes in, which
\* may take the index the call is registered under, or the array has no more room.
AnsweredApplied == met \cap {"foreign", "full"} = {} => AnsweredOwn

\* handleAppendEntriesRPCResponses and checkConfigurationsToStart: under a leader
\* that stays, a joining server gets its vote, also when its promotion has to
\* wait for another change.
JoinerVotes ==
    [](s.role = Leader) =>
        \A q \in Request :
            q \in unvoting ~> \E k \in Configuring(s.log) :
                                  s.log[k].kind = "add" /\ s.log[k].val = Change[q].val

-----------------------------------------------------------------------------
(***************************************************************************)
(* What comments say and the code does not do.                             *)
(***************************************************************************)
\* sendAppendEntriesRPCs, "sends AppendEntries to all current voting peers".
VotersServed == s.config \ {Self} \subseteq Targets(unvoting)

\* checkCommits, "if a majority have replicated a newer entry": a leader commits
\* what a majority of the voting members hold.
CommittedByVoters ==
    [][s.role = Leader /\ s'.commitIndex > s.commitIndex =>
           2 * Cardinality({x \in s.config : s.matchIndex[x] >= s'.commitIndex})
               > Cardinality(s.config)]_vars

\* waitForConfigApplied, "waits for a configuration log to be applied, then
\* signals the caller": under a leader that stays the call returns.
ChangeAnswered == \A q \in Request : result[q] = "waiting" ~> result[q] # "waiting"

\* handleNextConfigurationChange, "pops the next pending config change and starts
\* processing it": on a node that leads in the end a change that was queued
\* starts, whoever led in between.
QueueMoves ==
    <>[](s.role = Leader) => \A q \in Request : q \in Range(queue) ~> q \notin Range(queue)

=============================================================================
