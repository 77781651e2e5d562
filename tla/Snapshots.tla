------------------------------ MODULE Snapshots ------------------------------
(***************************************************************************)
(* A follower that is sent log entries and snapshots: handleAppendEntries  *)
(* (src/raft/log.go), handleInstallSnapshotRequest, takeSnapshot and the   *)
(* snapshot loop (src/raft/snapshot.go), which restores the state machine  *)
(* beside the run loop that applies entries to it.                         *)
(*                                                                         *)
(* Two leaders send: L1 of term 1, whose last entries were never           *)
(* committed, and L2 of term 2.  What they send are heartbeats,            *)
(* retransmissions and snapshots of what their log was at some time, and   *)
(* the network delays and reorders them: any such message may come next.   *)
(***************************************************************************)
EXTENDS NodeState

CONSTANTS
    Me, L1, L2,     \* the follower and the two leaders
    Old, New,       \* the logs the two leaders end up with
    Committed       \* the length of their common prefix, committed under L1

ASSUME LeadersAssumption == {Me, L1, L2} \subseteq Server
\* Every entry of term 1 was made by L1, after all that L1 had before it.
ASSUME LogsAssumption ==
    /\ Old \in Seq(Entry) /\ New \in Seq(Entry)
    /\ Committed \in 0..Len(Old) /\ Committed <= Len(New)
    /\ SubSeq(Old, 1, Committed) = SubSeq(New, 1, Committed)
    /\ \A k \in 1..Len(Old) : Old[k].index = k - 1 /\ Old[k].term = 1
    /\ \A k \in 1..Len(New) : New[k].index = k - 1 /\ New[k].term \in 1..2
    /\ Old # <<>> /\ New # <<>> /\ New[Len(New)].term = 2
    /\ \A k \in 1..Len(New) : New[k].term = 1 =>
          k <= Len(Old) /\ \A j \in 1..k : New[j] = Old[j]

VARIABLES
    s,          \* nodeState
    loop,       \* the run loop: "top" or "select"
    sm,         \* the state machine: the commands it has executed
    install     \* snapshotInstallChan: the snapshot's data, or Nil

vars == <<s, loop, sm, install>>

-----------------------------------------------------------------------------
LogOf(t)       == IF t = 1 THEN Old ELSE New
LeaderOf(t)    == IF t = 1 THEN L1 ELSE L2
CommittedBy(t) == IF t = 1 THEN Committed ELSE Len(New)

\* The shortest log the leader of term t ever had: up to its own first entry.
Elected(t) == Min({k \in 1..Len(LogOf(t)) : LogOf(t)[k].term = t})

\* The state machine after the first k entries of a log.
Executed(log, k) ==
    LET after[i \in 0..k] ==
            IF i = 0 THEN <<>>
            ELSE IF log[i].kind = "command" THEN Append(after[i-1], log[i].val)
            ELSE after[i-1]
    IN  after[k]

\* Sent by the leader of term t when its log had m entries, to a follower whose
\* next entry is number i.
AppendMsg(t, m, i, c) ==
    [ term     |-> t,
      leader   |-> LeaderOf(t),
      prevIdx  |-> i - 2,
      prevTerm |-> IF i = 1 THEN -1 ELSE LogOf(t)[i-1].term,
      entries  |-> SubSeq(LogOf(t), i, m),
      commit   |-> c - 1 ]

\* The leader of term t compacted its first k entries.
InstallMsg(t, k) ==
    [ term |-> t, idx |-> k - 1, lastTerm |-> LogOf(t)[k].term,
      data |-> Executed(LogOf(t), k), config |-> ConfigAfter(Server, SubSeq(LogOf(t), 1, k)) ]

Init ==
    /\ s       = [NewNodeState EXCEPT !.currentTerm = 1]
    /\ loop    = "top"
    /\ sm      = <<>>
    /\ install = Nil

-----------------------------------------------------------------------------
\* checkLogsToApply.
ApplyLog ==
    /\ loop = "top"
    /\ CanApply(s)
    /\ LET e == NextToApply(s)
       IN  sm' = IF e.kind = "command" THEN Append(sm, e.val) ELSE sm
    /\ s' = [s EXCEPT !.lastApplied = @ + 1]
    /\ UNCHANGED <<loop, install>>

EnterSelect ==
    /\ loop = "top"
    /\ ~CanApply(s)
    /\ loop' = "select"
    /\ UNCHANGED <<s, sm, install>>

\* When the array would be full the state machine's state of this moment goes
\* into the follower's own snapshot.
HandleAppend(t) ==
    /\ loop = "select"
    /\ \E m \in Elected(t)..Len(LogOf(t)) : \E i \in 1..(m + 1), c \in 0..Min({m, CommittedBy(t)}) :
          s' = HandleAppendEntries(s, AppendMsg(t, m, i, c), sm)
    /\ loop' = "top"
    /\ UNCHANGED <<sm, install>>

\* The channel to the snapshot loop has room for one snapshot.
HandleInstall(t) ==
    /\ loop = "select"
    /\ \E k \in 1..CommittedBy(t) :
          LET isa == InstallMsg(t, k)
          IN  /\ s' = HandleInstallSnapshot(s, isa)
              /\ IF Installs(s, isa)
                 THEN install = Nil /\ install' = isa.data
                 ELSE UNCHANGED install
    /\ loop' = "top"
    /\ UNCHANGED sm

\* snapshotLoop, at any time.
Restore ==
    /\ install # Nil
    /\ sm' = install
    /\ install' = Nil
    /\ UNCHANGED <<s, loop>>

Next ==
    \/ ApplyLog
    \/ EnterSelect
    \/ \E t \in 1..2 : HandleAppend(t)
    \/ \E t \in 1..2 : HandleInstall(t)
    \/ Restore

Spec == Init /\ [][Next]_vars

-----------------------------------------------------------------------------
(***************************************************************************)
(* What is checked.                                                        *)
(***************************************************************************)
\* handleAppendEntries and checkLogsToApply: whatever arrives late, and however
\* often the log is cut off, compacted or replaced by a snapshot, the entry that
\* is applied at an index is the one that was committed there.
AppliesCommitted ==
    loop = "top" /\ CanApply(s) => NextToApply(s) = New[s.lastApplied + 2]

\* handleInstallSnapshotRequest, "Already have this snapshot or newer": a late
\* snapshot never takes back what was applied or known to be committed.
NeverBack ==
    [][s'.lastApplied >= s.lastApplied /\ s'.commitIndex >= s.commitIndex]_vars

-----------------------------------------------------------------------------
(***************************************************************************)
(* What comments say and the code does not do.                             *)
(***************************************************************************)
Indices(log) == {log[k].index : k \in 1..Len(log)}

Covered(snap, i) == snap # Nil /\ i <= snap.idx

\* A step in term 2 loses no entry that the leader of that term has too.
KeepsEntries ==
    s'.currentTerm = 2 =>
        \A k \in 1..Len(s.log) :
            LET i == s.log[k].index
            IN  s.log[k] = New[i+1] => i \in Indices(s'.log) \/ Covered(s'.snap, i)

\* purgeEntriesFromSnapshot, "This is the fix for the bug": an AppendEntries that
\* repeats what the snapshot covers does not cost the follower later entries.
AppendKeeps == [][s'.snap = s.snap => KeepsEntries]_vars

\* Snapshot, "a compacted prefix of the Raft log": its data is the state after
\* exactly the entries up to its index.
SnapshotIsPrefix ==
    s.snap # Nil => s.snap.data = Executed(New, s.snap.idx + 1)

\* StateMachine, "The RaftNode calls Apply for every committed log entry in
\* order": when no snapshot waits to be restored the state machine has executed
\* the entries up to lastApplied.
StateIsPrefix ==
    install = Nil => sm = Executed(New, s.lastApplied + 1)

=============================================================================
