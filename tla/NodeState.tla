------------------------------ MODULE NodeState ------------------------------
(***************************************************************************)
(* The methods of nodeState (src/raft/state.go, election.go, log.go and    *)
(* the parts of snapshot.go and config_change.go they call) as operators   *)
(* from a node's state to its next state.  Every such method runs under    *)
(* s.mu from its first to its last line, so each is one atomic step of the *)
(* goroutine that calls it; which goroutine calls which method when is     *)
(* said by the modules that extend this one.                               *)
(*                                                                         *)
(* logs[0 .. nextLogIdx-1] is the sequence s.log, so array position i is   *)
(* position i+1 of the sequence, and "no position" (-1) is 0.  Log indices *)
(* are the code's: the first entry has index 0 and "none" is -1.           *)
(***************************************************************************)
EXTENDS Integers, Sequences, FiniteSets, FiniteSetsExt

CONSTANTS
    Server,     \* the cluster: cfg.ID of every node; cfg.Peers are the others
    Command,    \* opaque client commands
    Nil,        \* the empty ServerID, the nil pointer
    LogCap      \* logArrayCapacity

ASSUME ServerAssumption == IsFiniteSet(Server) /\ Server # {} /\ Nil \notin Server
ASSUME LogCapAssumption == LogCap \in Nat \ {0}

Follower  == "follower"
Candidate == "candidate"
Leader    == "leader"

Peers(id) == Server \ {id}

(***************************************************************************)
(* types.RaftLog.  The payload of a configuration entry is the server it   *)
(* adds or removes (types.ConfigChange).                                   *)
(***************************************************************************)
Noop(idx, term) ==
    [index |-> idx, term |-> term, kind |-> "noop", val |-> Nil]

Entry ==
    [index : Nat, term : Nat, kind : {"noop"},          val : {Nil}] \cup
    [index : Nat, term : Nat, kind : {"command"},       val : Command] \cup
    [index : Nat, term : Nat, kind : {"add", "remove"}, val : Server]

Snapshot == [idx : Nat, term : Nat, data : Seq(Command), config : SUBSET Server]

\* The nil pointer is no snapshot.
ASSUME NilAssumption == Nil \notin Snapshot

(***************************************************************************)
(* nodeState, and RaftNode.lastPersistedSnapIdx.  timer stands for         *)
(* electionTimeoutStarted; how long a started timer still has to run is    *)
(* abstracted away.  The maps of leader state have a key for the node      *)
(* itself only after its first append; until then the value given here is  *)
(* one no method can tell from a missing key.                              *)
(***************************************************************************)
Index == Nat \cup {-1}

NodeStates ==
    [ currentTerm      : Nat,
      votedFor         : Server \cup {Nil},
      log              : Seq(Entry),
      role             : {Follower, Candidate, Leader},
      commitIndex      : Index,
      lastApplied      : Index,
      currentLeader    : Server \cup {Nil},
      snap             : Snapshot \cup {Nil},
      nextIndex        : [Server -> Nat],
      matchIndex       : [Server -> Index],
      lastSent         : [Server -> Index],
      timer            : BOOLEAN,
      votes            : Nat,
      config           : SUBSET Server,
      oldConfig        : SUBSET Server,
      lastConfigIdx    : Nat,
      persistedSnapIdx : Nat ]

NewNodeState ==
    [ currentTerm      |-> 0,
      votedFor         |-> Nil,
      log              |-> <<>>,
      role             |-> Follower,
      commitIndex      |-> -1,
      lastApplied      |-> -1,
      currentLeader    |-> Nil,
      snap             |-> Nil,
      nextIndex        |-> [p \in Server |-> 0],
      matchIndex       |-> [p \in Server |-> -1],
      lastSent         |-> [p \in Server |-> -1],
      timer            |-> FALSE,
      votes            |-> 0,
      config           |-> Server,
      oldConfig        |-> Server,
      lastConfigIdx    |-> 0,
      persistedSnapIdx |-> 0 ]

-----------------------------------------------------------------------------
(***************************************************************************)
(* state.go: helpers on the log array and the timer.                       *)
(***************************************************************************)
LastLogIdx(s) ==
    CASE s.log # <<>>                -> s.log[Len(s.log)].index
      [] s.log = <<>> /\ s.snap # Nil -> s.snap.idx
      [] OTHER                        -> -1

LastLogTerm(s) ==
    CASE s.log # <<>>                -> s.log[Len(s.log)].term
      [] s.log = <<>> /\ s.snap # Nil -> s.snap.term
      [] OTHER                        -> -1

\* The last position of log that holds the entry with the given index, or 0.
FindArrayIdx(log, idx) ==
    LET At == {k \in 1..Len(log) : log[k].index = idx}
    IN  IF At = {} THEN 0 ELSE Max(At)

UpdateCurrentTerm(s, term) ==
    [s EXCEPT !.currentTerm = term, !.votedFor = Nil]

CheckElectionTimeout(s) == [s EXCEPT !.timer = TRUE]
StopElectionTimeout(s)  == [s EXCEPT !.timer = FALSE]

\* snapshot.go: compacts the log up to lastApplied, if that entry is in it.
TakeSnapshot(s, data) ==
    LET k == FindArrayIdx(s.log, s.lastApplied)
    IN  IF k = 0 THEN s
        ELSE [s EXCEPT !.snap = [idx    |-> s.log[k].index,
                                 term   |-> s.log[k].term,
                                 data   |-> data,
                                 config |-> s.config],
                       !.log  = SubSeq(s.log, k + 1, Len(s.log))]

-----------------------------------------------------------------------------
(***************************************************************************)
(* election.go                                                             *)
(***************************************************************************)
StartElection(s, id) ==
    [s EXCEPT !.currentTerm = s.currentTerm + 1,
              !.role        = Candidate,
              !.votedFor    = id,
              !.votes       = 1]

\* The candidate's log is at least as up to date as the voter's.
LogUpToDate(s, rva) ==
    \/ rva.lastTerm > LastLogTerm(s)
    \/ rva.lastTerm = LastLogTerm(s) /\ rva.lastIdx >= LastLogIdx(s)

CanVote(s, rva) == s.votedFor \in {Nil, rva.src}

\* Mutant: the vote is cleared when a message of the same term arrives.
TermSeenAgain(s, term) ==
    IF s.currentTerm <= term THEN UpdateCurrentTerm(s, term) ELSE s

\* The state a RequestVote is judged in: a newer term is adopted first.
TermSeen(s, term) ==
    IF s.currentTerm < term THEN UpdateCurrentTerm(s, term) ELSE s

\* Mutant: votedFor is not looked at.
GrantsVoteTwice(s, rva) == s.currentTerm <= rva.term /\ LogUpToDate(s, rva)

GrantsVote(s, rva) ==
    /\ s.currentTerm <= rva.term
    /\ CanVote(TermSeen(s, rva.term), rva)
    /\ LogUpToDate(s, rva)

\* The role changes only when the vote is granted.
HandleRequestToVote(s, rva) ==
    IF GrantsVote(s, rva)
    THEN [StopElectionTimeout(TermSeen(s, rva.term)) EXCEPT
              !.role          = Follower,
              !.votedFor      = rva.src,
              !.currentLeader = rva.src]
    ELSE TermSeen(s, rva.term)

\* Mutant: votes of earlier terms are counted.
UpdateElectionAnyTerm(s, resp) ==
    CASE resp.term > s.currentTerm ->
           [UpdateCurrentTerm(StopElectionTimeout(s), resp.term) EXCEPT
                !.votes = 0, !.role = Follower]
      [] resp.term <= s.currentTerm /\ resp.granted -> [s EXCEPT !.votes = s.votes + 1]
      [] OTHER -> s

\* updateElection: a newer term ends the candidacy, a vote of this term counts.
UpdateElection(s, resp) ==
    CASE resp.term > s.currentTerm ->
           [UpdateCurrentTerm(StopElectionTimeout(s), resp.term) EXCEPT
                !.votes = 0, !.role = Follower]
      [] resp.term = s.currentTerm /\ resp.granted -> [s EXCEPT !.votes = s.votes + 1]
      [] OTHER -> s

WinsElection(s, resp) ==
    /\ resp.term = s.currentTerm
    /\ resp.granted
    /\ s.votes + 1 > Cardinality(s.config) \div 2

\* Mutant: the leader does not count its own copy.
AppendOwnUncounted(s, id, entry) ==
    [s EXCEPT !.log           = Append(s.log, entry),
              !.lastSent[id]  = entry.index,
              !.nextIndex[id] = entry.index + 1]

\* What every append to the leader's own log does to its leader state.
AppendOwn(s, id, entry) ==
    [s EXCEPT !.log            = Append(s.log, entry),
              !.matchIndex[id] = entry.index,
              !.lastSent[id]   = entry.index,
              !.nextIndex[id]  = entry.index + 1]

AddNoopLog(s, id) ==
    IF Len(s.log) >= LogCap THEN s
    ELSE AppendOwn(s, id, Noop(LastLogIdx(s) + 1, s.currentTerm))

\* nextIndex is reset for everyone, matchIndex only for the node itself.
WinElection(s, id) ==
    AddNoopLog([s EXCEPT !.votes          = 0,
                         !.role           = Leader,
                         !.currentLeader  = id,
                         !.nextIndex      = [p \in Server |-> LastLogIdx(s) + 1],
                         !.matchIndex[id] = -1,
                         !.lastSent[id]   = -1], id)

-----------------------------------------------------------------------------
(***************************************************************************)
(* log.go, leader side.                                                    *)
(***************************************************************************)
\* addCommandLog: a full array is compacted first; if that frees nothing the
\* command is refused (-1).  The role is not looked at.
AddCommandLog(s, id, cmd, data) ==
    LET t == IF Len(s.log) >= LogCap THEN TakeSnapshot(s, data) ELSE s
    IN  IF Len(t.log) >= LogCap THEN t
        ELSE AppendOwn(t, id, [index |-> LastLogIdx(s) + 1, term |-> s.currentTerm,
                               kind |-> "command", val |-> cmd])

\* getAppendEntriesArgs returns nil: the next entry is no longer in the log.
NextEntryCompacted(s, p) ==
    /\ FindArrayIdx(s.log, s.nextIndex[p]) = 0
    /\ s.nextIndex[p] <= LastLogIdx(s)

\* The entries for p, all from nextIndex[p] to the end of the log.
EntriesFor(s, p) ==
    LET k == FindArrayIdx(s.log, s.nextIndex[p])
    IN  IF k = 0 THEN <<>> ELSE SubSeq(s.log, k, Len(s.log))

PrevFor(s, p) ==
    LET k == FindArrayIdx(s.log, s.nextIndex[p])
    IN  CASE k = 0                -> [idx |-> LastLogIdx(s), term |-> LastLogTerm(s)]
          [] k = 1 /\ s.snap # Nil -> [idx |-> s.snap.idx, term |-> s.snap.term]
          [] k > 1                -> [idx |-> s.log[k-1].index, term |-> s.log[k-1].term]
          [] OTHER                -> [idx |-> -1, term |-> -1]

AppendEntriesArgs(s, p) ==
    [ term     |-> s.currentTerm,
      leader   |-> s.currentLeader,
      prevIdx  |-> PrevFor(s, p).idx,
      prevTerm |-> PrevFor(s, p).term,
      entries  |-> EntriesFor(s, p),
      commit   |-> s.commitIndex ]

LastSentFor(s, p) ==
    LET es == EntriesFor(s, p)
    IN  IF es = <<>> THEN s.nextIndex[p] - 1 ELSE es[Len(es)].index

\* The leader state after args were built for every peer in ps.
ArgsBuilt(s, ps) ==
    [s EXCEPT !.lastSent = [p \in Server |->
        IF p \in ps /\ ~NextEntryCompacted(s, p) THEN LastSentFor(s, p) ELSE s.lastSent[p]]]

\* Mutant: a follower with an empty log rolls nextIndex back to -1.
HandleAppendEntriesResponseRaw(s, aer) ==
    CASE ~aer.success /\ aer.term > s.currentTerm ->
           [UpdateCurrentTerm(s, aer.term) EXCEPT !.role = Follower, !.currentLeader = aer.src]
      [] ~aer.success /\ aer.term <= s.currentTerm ->
           [s EXCEPT !.nextIndex[aer.src] = aer.lastIdx]
      [] OTHER ->
           [s EXCEPT !.nextIndex[aer.src]  = s.lastSent[aer.src] + 1,
                     !.matchIndex[aer.src] = s.lastSent[aer.src]]

\* Mutant: a refusal does not roll nextIndex back.
HandleAppendEntriesResponseFixed(s, aer) ==
    CASE ~aer.success /\ aer.term > s.currentTerm ->
           [UpdateCurrentTerm(s, aer.term) EXCEPT !.role = Follower, !.currentLeader = aer.src]
      [] ~aer.success /\ aer.term <= s.currentTerm -> s
      [] OTHER ->
           [s EXCEPT !.nextIndex[aer.src]  = s.lastSent[aer.src] + 1,
                     !.matchIndex[aer.src] = s.lastSent[aer.src]]

\* A failed response of a newer term ends the leadership; any other rolls
\* nextIndex back.  A successful one acknowledges the last entry SENT.
HandleAppendEntriesResponse(s, aer) ==
    CASE ~aer.success /\ aer.term > s.currentTerm ->
           [UpdateCurrentTerm(s, aer.term) EXCEPT !.role = Follower, !.currentLeader = aer.src]
      [] ~aer.success /\ aer.term <= s.currentTerm ->
           [s EXCEPT !.nextIndex[aer.src] = IF aer.lastIdx >= 0 THEN aer.lastIdx ELSE 0]
      [] OTHER ->
           [s EXCEPT !.nextIndex[aer.src]  = s.lastSent[aer.src] + 1,
                     !.matchIndex[aer.src] = s.lastSent[aer.src]]

ReplicatedBy(s, idx) == {p \in Server : s.matchIndex[p] >= idx}

\* The positions checkCommits may commit up to: newer than commitIndex, of
\* this term, and on a majority as far as matchIndex says.
Committable(s) ==
    {k \in 1..Len(s.log) :
        /\ \A j \in k..Len(s.log) : s.log[j].index > s.commitIndex
        /\ Cardinality(ReplicatedBy(s, s.log[k].index)) > Cardinality(s.config) \div 2
        /\ s.log[k].term = s.currentTerm}

CheckCommits(s) ==
    IF Committable(s) = {} THEN s
    ELSE [s EXCEPT !.commitIndex = s.log[Max(Committable(s))].index]

-----------------------------------------------------------------------------
(***************************************************************************)
(* log.go, follower side.                                                  *)
(***************************************************************************)
\* The positions of aea.entries from which the follower's log, read from
\* position k+1 on, ends or holds another entry.
Differing(log, k, entries) ==
    {i \in 1..Len(entries) :
        \/ k + i > Len(log)
        \/ log[k+i].index # entries[i].index
        \/ log[k+i].term # entries[i].term}

\* The voting members after the configuration entries es, from base on.
ConfigAfter(base, es) ==
    {x \in Server :
        LET About == {i \in 1..Len(es) : es[i].kind \in {"add", "remove"} /\ es[i].val = x}
        IN  IF About = {} THEN x \in base ELSE es[Max(About)].kind = "add"}

\* applyConfigurationLocked for every configuration entry among es, the first
\* of which goes to array position pos (a position of the array, not an index).
ApplyConfigurations(s, pos, es) ==
    LET Changes == {i \in 1..Len(es) : es[i].kind \in {"add", "remove"}}
        last    == Max(Changes)
    IN  IF Changes = {} THEN s
        ELSE [s EXCEPT !.oldConfig     = ConfigAfter(s.config, SubSeq(es, 1, last - 1)),
                       !.config        = ConfigAfter(s.config, es),
                       !.lastConfigIdx = pos + last - 1]

\* Mutant: the configuration is not reverted when its entry is cut off.
MergeEntriesUnreverted(s, k, entries) ==
    LET Diff == Differing(s.log, k, entries)
        d    == Min(Diff)
        news == SubSeq(entries, d, Len(entries))
    IN  IF Diff = {} THEN s
        ELSE ApplyConfigurations([s EXCEPT !.log = SubSeq(s.log, 1, k + d - 1) \o news],
                                 k + d - 1, news)

\* The loop over aea.Entries: what matches is kept, the first entry that does
\* not cuts the log off and is appended with all that follow it.
MergeEntries(s, k, entries) ==
    LET Diff   == Differing(s.log, k, entries)
        d      == Min(Diff)
        news   == SubSeq(entries, d, Len(entries))
        revert == k + d <= Len(s.log) /\ s.log[k+d].index <= s.lastConfigIdx
        base   == [s EXCEPT !.config = IF revert THEN s.oldConfig ELSE s.config,
                            !.log    = SubSeq(s.log, 1, k + d - 1) \o news]
    IN  IF Diff = {} THEN s ELSE ApplyConfigurations(base, k + d - 1, news)

CommitFrom(s, aea) ==
    LET es == aea.entries
    IN  IF aea.commit <= s.commitIndex THEN s
        ELSE [s EXCEPT !.commitIndex =
                  IF es # <<>> /\ es[Len(es)].index < aea.commit
                  THEN es[Len(es)].index ELSE aea.commit]

\* Mutant: the term of the previous entry is not looked at.
PrevLogOKAnyTerm(s, aea) ==
    \/ aea.prevIdx < 0
    \/ FindArrayIdx(s.log, aea.prevIdx) # 0
    \/ s.snap # Nil /\ s.snap.idx >= aea.prevIdx

\* prevLog consistency: no previous entry, or one with that term, or one that
\* the snapshot covers.
PrevLogOK(s, aea) ==
    LET k == FindArrayIdx(s.log, aea.prevIdx)
    IN  \/ aea.prevIdx < 0
        \/ k # 0 /\ s.log[k].term = aea.prevTerm
        \/ k = 0 /\ s.snap # Nil /\ s.snap.idx >= aea.prevIdx

\* The position after which the entries go (startNext).
MergePoint(s, aea) == IF aea.prevIdx < 0 THEN 0 ELSE FindArrayIdx(s.log, aea.prevIdx)

SteppedDown(s) ==
    IF s.role = Follower THEN s ELSE [StopElectionTimeout(s) EXCEPT !.role = Follower]

Overflows(s, aea) == MergePoint(s, aea) + Len(aea.entries) >= LogCap

AcceptsEntries(s, aea) ==
    aea.term >= s.currentTerm /\ PrevLogOK(s, aea) /\ ~Overflows(s, aea)

\* A batch that would fill the array makes the follower compact its log and
\* refuse: startNext is not computed again after takeSnapshot.
HandleAppendEntries(s, aea, data) ==
    LET f == SteppedDown(TermSeen(s, aea.term))
        l == [f EXCEPT !.currentLeader = aea.leader]
    IN  CASE aea.term < s.currentTerm -> s
          [] aea.term >= s.currentTerm /\ ~PrevLogOK(s, aea) -> f
          [] aea.term >= s.currentTerm /\ PrevLogOK(s, aea) /\ Overflows(s, aea) ->
               TakeSnapshot(l, data)
          [] OTHER -> CommitFrom(MergeEntries(l, MergePoint(s, aea), aea.entries), aea)

\* updateLastApplied: the entry to apply next is known to be committed and is
\* in the log.
CanApply(s) ==
    s.commitIndex > s.lastApplied /\ FindArrayIdx(s.log, s.lastApplied + 1) # 0

NextToApply(s) == s.log[FindArrayIdx(s.log, s.lastApplied + 1)]

-----------------------------------------------------------------------------
(***************************************************************************)
(* snapshot.go: InstallSnapshot.                                           *)
(***************************************************************************)
InstallArgs(s) ==
    [term |-> s.currentTerm, idx |-> s.snap.idx, lastTerm |-> s.snap.term,
     data |-> s.snap.data, config |-> s.snap.config]

\* Mutant: any snapshot of this term or a newer one is installed.
InstallsAlways(s, isa) == isa.term >= s.currentTerm

\* The snapshot is newer than what was applied: it replaces the whole log.
Installs(s, isa) == isa.term >= s.currentTerm /\ isa.idx > s.lastApplied

\* Neither the role, the leader, the timer nor serverConfig changes.
HandleInstallSnapshot(s, isa) ==
    IF Installs(s, isa)
    THEN [TermSeen(s, isa.term) EXCEPT
              !.snap = [idx |-> isa.idx, term |-> isa.lastTerm, data |-> isa.data, config |-> isa.config],
              !.log         = <<>>,
              !.commitIndex = isa.idx,
              !.lastApplied = isa.idx]
    ELSE TermSeen(s, isa.term)

\* Mutant: an installed snapshot is taken for the whole log.
HandleInstallSnapshotResponseAll(s, isr) ==
    CASE ~isr.success /\ isr.term >= s.currentTerm ->
           [UpdateCurrentTerm(s, isr.term) EXCEPT !.role = Follower, !.currentLeader = isr.src]
      [] ~isr.success /\ isr.term < s.currentTerm -> s
      [] OTHER ->
           [s EXCEPT !.lastSent[isr.src]   = LastLogIdx(s),
                     !.nextIndex[isr.src]  = LastLogIdx(s) + 1,
                     !.matchIndex[isr.src] = LastLogIdx(s)]

\* A refusal ends the leadership even in the same term; a success acknowledges
\* the snapshot.
HandleInstallSnapshotResponse(s, isr) ==
    CASE ~isr.success /\ isr.term >= s.currentTerm ->
           [UpdateCurrentTerm(s, isr.term) EXCEPT !.role = Follower, !.currentLeader = isr.src]
      [] ~isr.success /\ isr.term < s.currentTerm -> s
      [] OTHER ->
           [s EXCEPT !.lastSent[isr.src]   = isr.idx,
                     !.nextIndex[isr.src]  = isr.idx + 1,
                     !.matchIndex[isr.src] = isr.idx]

\* handleAppendEntriesResponse after a refusal: the follower's next entry is in
\* the snapshot.
NeedsSnapshot(s, p) == s.snap # Nil /\ s.nextIndex[p] <= s.snap.idx

=============================================================================
