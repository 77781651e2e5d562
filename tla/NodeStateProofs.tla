--------------------------- MODULE NodeStateProofs ---------------------------
(***************************************************************************)
(* Lemmas about the methods of nodeState: each takes a state to a state,   *)
(* what it does to the term, the vote and the role, and what it does to    *)
(* the log.  The other proof modules rest on them.                         *)
(***************************************************************************)
EXTENDS NodeState, SequenceTheorems, WellFoundedInduction, TLAPS

(***************************************************************************)
(* Positions: a non-empty set of positions has a least and a greatest one. *)
(***************************************************************************)
\* The least-number principle, for a set.
LEMMA NatMin ==
    ASSUME NEW S \in SUBSET Nat, S # {}
    PROVE  \E x \in S : \A y \in S : x <= y
<1>1. PICK x \in S : \A y \in S : ~(<<y, x>> \in OpToRel(<, Nat))
  BY NatLessThanWellFounded, WFMin
<1>2. ASSUME NEW y \in S PROVE x <= y
  <2>1. ~(<<y, x>> \in OpToRel(<, Nat))
    BY <1>1
  <2>2. ~(y < x)
    BY <2>1 DEF OpToRel
  <2>3. x \in Nat /\ y \in Nat
    BY <1>1, <1>2
  <2>4. QED BY <2>2, <2>3
<1>3. QED BY <1>2

\* Min is an element: the first position in which two logs differ.
LEMMA MinIn ==
    ASSUME NEW n \in Nat, NEW S \in SUBSET (1..n), S # {}
    PROVE  Min(S) \in 1..n /\ Min(S) \in S
<1>1. \E x \in S : \A y \in S : x <= y
  BY NatMin
<1>2. QED BY <1>1 DEF Min

\* Max is an element: the last position that holds an index.
LEMMA MaxIn ==
    ASSUME NEW n \in Nat, NEW S \in SUBSET (1..n), S # {}
    PROVE  Max(S) \in 1..n /\ Max(S) \in S
<1> DEFINE D == {n - x : x \in S}
<1>1. \A d \in D : d \in Nat
  OBVIOUS
<1>2. D # {}
  <2>1. PICK x \in S : TRUE
    OBVIOUS
  <2>2. n - x \in D
    BY <2>1
  <2>3. QED BY <2>2
<1>3. D \in SUBSET Nat
  BY <1>1
<1> HIDE DEF D
<1>4. PICK d \in D : \A e \in D : d <= e
  BY <1>2, <1>3, NatMin
<1>5. PICK x \in S : d = n - x
  BY <1>4 DEF D
<1>6. ASSUME NEW y \in S PROVE x >= y
  <2>1. d <= n - y
    BY <1>4 DEF D
  <2>2. QED BY <2>1, <1>5
<1>7. QED BY <1>6 DEF Max

\* findArrayIdxByLogIndex: a position of the log, or none.
LEMMA FindArrayIdxType ==
    ASSUME NEW log \in Seq(Entry), NEW i
    PROVE  FindArrayIdx(log, i) \in 0..Len(log)
<1> DEFINE At == {k \in 1..Len(log) : log[k].index = i}
<1>1. CASE At = {}
  BY <1>1 DEF FindArrayIdx
<1>2. CASE At # {}
  <2>1. Max(At) \in 1..Len(log)
    BY <1>2, MaxIn
  <2>2. QED BY <1>2, <2>1 DEF FindArrayIdx
<1>3. QED BY <1>1, <1>2

-----------------------------------------------------------------------------
(***************************************************************************)
(* Types.                                                                  *)
(***************************************************************************)
\* newNodeState is a state.
LEMMA NewNodeStateType == NewNodeState \in NodeStates
  BY DEF NewNodeState, NodeStates, Index, Follower, Candidate, Leader

\* getLastLogIdxTerm: -1 when there is neither an entry nor a snapshot.
LEMMA LastLogType ==
    ASSUME NEW s \in NodeStates
    PROVE  LastLogIdx(s) \in Index /\ LastLogTerm(s) \in Index
<1>1. s.log \in Seq(Entry) /\ s.snap \in Snapshot \cup {Nil}
  BY DEF NodeStates
<1>2. s.log # <<>> => s.log[Len(s.log)] \in Entry
  BY <1>1
<1>3. QED
  BY <1>1, <1>2 DEF LastLogIdx, LastLogTerm, Index, Entry, Snapshot

\* takeSnapshot keeps a state a state and touches neither vote nor role.
LEMMA TakeSnapshotType ==
    ASSUME NEW s \in NodeStates, NEW data \in Seq(Command)
    PROVE  TakeSnapshot(s, data) \in NodeStates
<1> DEFINE k == FindArrayIdx(s.log, s.lastApplied)
<1>1. s.log \in Seq(Entry) /\ s.config \in SUBSET Server
  BY DEF NodeStates
<1>2. k \in 0..Len(s.log)
  BY <1>1, FindArrayIdxType
<1>3. CASE k = 0
  BY <1>3 DEF TakeSnapshot
<1>4. CASE k # 0
  <2>1. s.log[k] \in Entry
    BY <1>1, <1>2, <1>4
  <2>2. SubSeq(s.log, k + 1, Len(s.log)) \in Seq(Entry)
    BY <1>1, <1>2
  <2> DEFINE sn == [idx |-> s.log[k].index, term |-> s.log[k].term,
                    data |-> data, config |-> s.config]
  <2>3. sn \in Snapshot
    BY <1>1, <2>1 DEF Snapshot, Entry
  <2>4. TakeSnapshot(s, data) =
           [s EXCEPT !.snap = sn, !.log = SubSeq(s.log, k + 1, Len(s.log))]
    BY <1>4 DEF TakeSnapshot
  <2> HIDE DEF sn, k
  <2>5. QED BY <2>2, <2>3, <2>4 DEF NodeStates
<1>5. QED BY <1>3, <1>4

\* The timer functions keep a state a state.
LEMMA TimerType ==
    ASSUME NEW s \in NodeStates
    PROVE  StopElectionTimeout(s) \in NodeStates /\ CheckElectionTimeout(s) \in NodeStates
  BY DEF StopElectionTimeout, CheckElectionTimeout, NodeStates

\* Adopting a newer term keeps a state a state.
LEMMA TermSeenType ==
    ASSUME NEW s \in NodeStates, NEW term \in Nat
    PROVE  TermSeen(s, term) \in NodeStates
  BY DEF TermSeen, UpdateCurrentTerm, NodeStates

\* startElection keeps a state a state.
LEMMA StartElectionType ==
    ASSUME NEW s \in NodeStates, NEW id \in Server
    PROVE  StartElection(s, id) \in NodeStates
<1>1. s.currentTerm + 1 \in Nat
  BY DEF NodeStates
<1>2. QED
  BY <1>1 DEF StartElection, NodeStates, Candidate

\* handleRequestToVote keeps a state a state.
LEMMA HandleRequestToVoteType ==
    ASSUME NEW s \in NodeStates, NEW rva, rva.term \in Nat, rva.src \in Server
    PROVE  HandleRequestToVote(s, rva) \in NodeStates
<1>1. TermSeen(s, rva.term) \in NodeStates
  BY TermSeenType
<1>2. QED
  BY <1>1 DEF HandleRequestToVote, StopElectionTimeout, NodeStates, Follower

\* updateElection keeps a state a state.
LEMMA UpdateElectionType ==
    ASSUME NEW s \in NodeStates, NEW resp, resp.term \in Nat
    PROVE  UpdateElection(s, resp) \in NodeStates
<1>1. s.currentTerm \in Nat /\ s.votes + 1 \in Nat
  BY DEF NodeStates
<1>2. CASE resp.term > s.currentTerm
  <2>1. UpdateElection(s, resp) =
           [UpdateCurrentTerm(StopElectionTimeout(s), resp.term) EXCEPT
                !.votes = 0, !.role = Follower]
    BY <1>2 DEF UpdateElection
  <2>2. UpdateCurrentTerm(StopElectionTimeout(s), resp.term) \in NodeStates
    BY DEF UpdateCurrentTerm, StopElectionTimeout, NodeStates
  <2> DEFINE u == UpdateCurrentTerm(StopElectionTimeout(s), resp.term)
  <2> HIDE DEF u
  <2>3. u \in NodeStates
    BY <2>2 DEF u
  <2>4. [u EXCEPT !.votes = 0, !.role = Follower] \in NodeStates
    BY <2>3 DEF NodeStates, Follower
  <2>5. QED
    BY <2>1, <2>4 DEF u
<1>3. CASE ~(resp.term > s.currentTerm) /\ resp.term = s.currentTerm /\ resp.granted
  <2>1. UpdateElection(s, resp) = [s EXCEPT !.votes = s.votes + 1]
    BY <1>3 DEF UpdateElection
  <2>2. QED
    BY <1>1, <2>1 DEF NodeStates
<1>4. CASE ~(resp.term > s.currentTerm) /\ ~(resp.term = s.currentTerm /\ resp.granted)
  BY <1>4 DEF UpdateElection
<1>5. QED BY <1>2, <1>3, <1>4

\* addNoopLogLocked appends an entry of the current term, or nothing.
LEMMA AddNoopLogType ==
    ASSUME NEW s \in NodeStates, NEW id \in Server
    PROVE  AddNoopLog(s, id) \in NodeStates
<1> DEFINE e == Noop(LastLogIdx(s) + 1, s.currentTerm)
<1>1. e \in Entry /\ e.index \in Nat /\ e.index + 1 \in Nat
  <2>1. LastLogIdx(s) + 1 \in Nat /\ LastLogIdx(s) + 1 + 1 \in Nat /\ s.currentTerm \in Nat
    BY LastLogType, SMTT(40) DEF Index, NodeStates
  <2>2. QED
    BY <2>1 DEF Noop, Entry
<1>2. Append(s.log, e) \in Seq(Entry)
  BY <1>1 DEF NodeStates
<1>3. AddNoopLog(s, id) = s \/ AddNoopLog(s, id) = AppendOwn(s, id, e)
  BY DEF AddNoopLog
<1> HIDE DEF e
<1>4. /\ [s.matchIndex EXCEPT ![id] = e.index] \in [Server -> Index]
      /\ [s.lastSent EXCEPT ![id] = e.index] \in [Server -> Index]
      /\ [s.nextIndex EXCEPT ![id] = e.index + 1] \in [Server -> Nat]
  BY <1>1 DEF NodeStates, Index
<1>5. AppendOwn(s, id, e) \in NodeStates
  BY <1>2, <1>4 DEF AppendOwn, NodeStates
<1>6. QED BY <1>3, <1>5

\* winElection keeps a state a state: nextIndex is never negative.
LEMMA WinElectionType ==
    ASSUME NEW s \in NodeStates, NEW id \in Server
    PROVE  WinElection(s, id) \in NodeStates
<1> DEFINE w == [s EXCEPT !.votes          = 0,
                          !.role           = Leader,
                          !.currentLeader  = id,
                          !.nextIndex      = [p \in Server |-> LastLogIdx(s) + 1],
                          !.matchIndex[id] = -1,
                          !.lastSent[id]   = -1]
<1>1. LastLogIdx(s) + 1 \in Nat
  BY LastLogType DEF Index
<1>2. w \in NodeStates
  BY <1>1 DEF NodeStates, Index, Leader
<1>3. WinElection(s, id) = AddNoopLog(w, id)
  BY DEF WinElection
<1> HIDE DEF w
<1>4. QED BY <1>2, <1>3, AddNoopLogType

\* getAppendEntriesArgs sends a part of the log.
LEMMA EntriesForType ==
    ASSUME NEW s \in NodeStates, NEW p \in Server
    PROVE  EntriesFor(s, p) \in Seq(Entry)
<1> DEFINE k == FindArrayIdx(s.log, s.nextIndex[p])
<1>1. s.log \in Seq(Entry)
  BY DEF NodeStates
<1>2. k \in 0..Len(s.log)
  BY <1>1, FindArrayIdxType
<1>3. k # 0 => SubSeq(s.log, k, Len(s.log)) \in Seq(Entry)
  BY <1>1, <1>2
<1>4. EntriesFor(s, p) = IF k = 0 THEN <<>> ELSE SubSeq(s.log, k, Len(s.log))
  BY DEF EntriesFor
<1> HIDE DEF k
<1>5. QED BY <1>3, <1>4

\* The prevLog of getAppendEntriesArgs is an entry, the snapshot or -1.
LEMMA PrevForType ==
    ASSUME NEW s \in NodeStates, NEW p \in Server
    PROVE  PrevFor(s, p).idx \in Index /\ PrevFor(s, p).term \in Index
<1> DEFINE k == FindArrayIdx(s.log, s.nextIndex[p])
<1>1. s.log \in Seq(Entry) /\ s.snap \in Snapshot \cup {Nil}
  BY DEF NodeStates
<1>2. k \in 0..Len(s.log)
  BY <1>1, FindArrayIdxType
<1>3. k > 1 => s.log[k-1] \in Entry
  BY <1>1, <1>2
<1>4. LastLogIdx(s) \in Index /\ LastLogTerm(s) \in Index
  BY LastLogType
<1>5. PrevFor(s, p) =
        CASE k = 0                -> [idx |-> LastLogIdx(s), term |-> LastLogTerm(s)]
          [] k = 1 /\ s.snap # Nil -> [idx |-> s.snap.idx, term |-> s.snap.term]
          [] k > 1                -> [idx |-> s.log[k-1].index, term |-> s.log[k-1].term]
          [] OTHER                -> [idx |-> -1, term |-> -1]
  BY DEF PrevFor
<1> HIDE DEF k
<1>6. QED BY <1>1, <1>2, <1>3, <1>4, <1>5 DEF Index, Entry, Snapshot

\* getAppendEntriesArgs keeps a state a state: lastSentLogIndex is -1 or more.
LEMMA ArgsBuiltType ==
    ASSUME NEW s \in NodeStates, NEW ps \in SUBSET Server
    PROVE  ArgsBuilt(s, ps) \in NodeStates
<1>1. ASSUME NEW p \in Server PROVE LastSentFor(s, p) \in Index
  <2>1. EntriesFor(s, p) \in Seq(Entry)
    BY EntriesForType
  <2>2. s.nextIndex[p] \in Nat
    BY DEF NodeStates
  <2>3. CASE EntriesFor(s, p) = <<>>
    BY <2>2, <2>3 DEF LastSentFor, Index
  <2>4. CASE EntriesFor(s, p) # <<>>
    <3>1. EntriesFor(s, p)[Len(EntriesFor(s, p))] \in Entry
      BY <2>1, <2>4
    <3>2. QED BY <3>1, <2>4 DEF LastSentFor, Index, Entry
  <2>5. QED BY <2>3, <2>4
<1>2. s.lastSent \in [Server -> Index]
  BY DEF NodeStates
<1> DEFINE ls == [p \in Server |->
        IF p \in ps /\ ~NextEntryCompacted(s, p) THEN LastSentFor(s, p) ELSE s.lastSent[p]]
<1>3. ls \in [Server -> Index]
  BY <1>1, <1>2
<1>4. ArgsBuilt(s, ps) = [s EXCEPT !.lastSent = ls]
  BY DEF ArgsBuilt
<1> HIDE DEF ls
<1>5. QED BY <1>3, <1>4 DEF NodeStates

\* handleAppendEntriesResponse keeps a state a state: a follower with an empty
\* log does not make nextIndex negative.
LEMMA HandleAppendEntriesResponseType ==
    ASSUME NEW s \in NodeStates, NEW aer,
           aer.term \in Nat, aer.src \in Server, aer.lastIdx \in Index, aer.success \in BOOLEAN
    PROVE  HandleAppendEntriesResponse(s, aer) \in NodeStates
<1> DEFINE r == HandleAppendEntriesResponse(s, aer)
<1>1. /\ s.currentTerm \in Nat
      /\ s.lastSent[aer.src] \in Index
      /\ s.lastSent[aer.src] + 1 \in Nat
      /\ (IF aer.lastIdx >= 0 THEN aer.lastIdx ELSE 0) \in Nat
  BY SMTT(40) DEF NodeStates, Index
<1>2. CASE ~aer.success /\ aer.term > s.currentTerm
  <2>1. r = [UpdateCurrentTerm(s, aer.term) EXCEPT !.role = Follower, !.currentLeader = aer.src]
    BY <1>1, <1>2 DEF HandleAppendEntriesResponse
  <2>2. UpdateCurrentTerm(s, aer.term) \in NodeStates
    BY DEF UpdateCurrentTerm, NodeStates
  <2> HIDE DEF r
  <2>3. r \in NodeStates
    BY <2>1, <2>2 DEF NodeStates, Follower
  <2>4. QED BY <2>3 DEF r
<1>3. CASE ~aer.success /\ ~(aer.term > s.currentTerm)
  <2>1. r = [s EXCEPT !.nextIndex[aer.src] = IF aer.lastIdx >= 0 THEN aer.lastIdx ELSE 0]
    BY <1>1, <1>3 DEF HandleAppendEntriesResponse
  <2>2. [s.nextIndex EXCEPT ![aer.src] = IF aer.lastIdx >= 0 THEN aer.lastIdx ELSE 0]
            \in [Server -> Nat]
    BY <1>1 DEF NodeStates
  <2> HIDE DEF r
  <2>3. r \in NodeStates
    BY <2>1, <2>2 DEF NodeStates
  <2>4. QED BY <2>3 DEF r
<1>4. CASE aer.success
  <2>1. r = [s EXCEPT !.nextIndex[aer.src]  = s.lastSent[aer.src] + 1,
                      !.matchIndex[aer.src] = s.lastSent[aer.src]]
    BY <1>4 DEF HandleAppendEntriesResponse
  <2>2. /\ [s.nextIndex EXCEPT ![aer.src] = s.lastSent[aer.src] + 1] \in [Server -> Nat]
        /\ [s.matchIndex EXCEPT ![aer.src] = s.lastSent[aer.src]] \in [Server -> Index]
    BY <1>1 DEF NodeStates
  <2> HIDE DEF r
  <2>3. r \in NodeStates
    BY <2>1, <2>2 DEF NodeStates
  <2>4. QED BY <2>3 DEF r
<1>5. QED BY <1>2, <1>3, <1>4

\* checkCommits moves commitIndex to the index of an entry, or not at all.
LEMMA CheckCommitsType ==
    ASSUME NEW s \in NodeStates
    PROVE  CheckCommits(s) \in NodeStates
<1>1. CASE Committable(s) = {}
  BY <1>1 DEF CheckCommits
<1>2. CASE Committable(s) # {}
  <2>1. s.log \in Seq(Entry)
    BY DEF NodeStates
  <2>2. Committable(s) \in SUBSET (1..Len(s.log))
    BY DEF Committable
  <2>3. Max(Committable(s)) \in 1..Len(s.log)
    BY <1>2, <2>1, <2>2, MaxIn
  <2>4. s.log[Max(Committable(s))].index \in Nat
    <3>1. ASSUME NEW k \in 1..Len(s.log) PROVE s.log[k].index \in Nat
      <4>1. s.log[k] \in Entry
        BY <2>1
      <4>2. QED BY <4>1 DEF Entry
    <3>2. QED BY <2>3, <3>1
  <2>5. QED BY <1>2, <2>4 DEF CheckCommits, NodeStates, Index
<1>3. QED BY <1>1, <1>2

\* applyConfigurationLocked keeps a state a state.
LEMMA ApplyConfigurationsType ==
    ASSUME NEW s \in NodeStates, NEW pos \in Nat, NEW es \in Seq(Entry)
    PROVE  ApplyConfigurations(s, pos, es) \in NodeStates
<1> DEFINE C    == {i \in 1..Len(es) : es[i].kind \in {"add", "remove"}}
           last == Max(C)
<1>1. CASE C = {}
  BY <1>1 DEF ApplyConfigurations
<1>2. CASE C # {}
  <2>1. last \in 1..Len(es)
    BY <1>2, MaxIn
  <2>2. pos + last - 1 \in Nat
    BY <2>1
  <2>3. /\ ConfigAfter(s.config, SubSeq(es, 1, last - 1)) \in SUBSET Server
        /\ ConfigAfter(s.config, es) \in SUBSET Server
    BY DEF ConfigAfter
  <2>4. ApplyConfigurations(s, pos, es) =
          [s EXCEPT !.oldConfig     = ConfigAfter(s.config, SubSeq(es, 1, last - 1)),
                    !.config        = ConfigAfter(s.config, es),
                    !.lastConfigIdx = pos + last - 1]
    BY <1>2 DEF ApplyConfigurations
  <2> HIDE DEF last, C
  <2>5. QED BY <2>2, <2>3, <2>4, ZenonT(40) DEF NodeStates
<1>3. QED BY <1>1, <1>2

\* The loop of handleAppendEntries over the entries keeps a state a state.
LEMMA MergeEntriesType ==
    ASSUME NEW s \in NodeStates, NEW k \in 0..Len(s.log), NEW entries \in Seq(Entry)
    PROVE  MergeEntries(s, k, entries) \in NodeStates
<1> DEFINE Diff   == Differing(s.log, k, entries)
           d      == Min(Diff)
           news   == SubSeq(entries, d, Len(entries))
           revert == k + d <= Len(s.log) /\ s.log[k+d].index <= s.lastConfigIdx
           base   == [s EXCEPT !.config = IF revert THEN s.oldConfig ELSE s.config,
                               !.log    = SubSeq(s.log, 1, k + d - 1) \o news]
<1>1. s.log \in Seq(Entry) /\ s.config \in SUBSET Server /\ s.oldConfig \in SUBSET Server
  BY DEF NodeStates
<1>2. CASE Diff = {}
  BY <1>2 DEF MergeEntries
<1>3. CASE Diff # {}
  <2>1. Diff \in SUBSET (1..Len(entries))
    BY DEF Differing
  <2> HIDE DEF Diff
  <2>2. d \in 1..Len(entries) /\ d \in Diff
    BY <1>3, <2>1, MinIn
  <2>3. k + d - 1 \in Nat /\ k + d - 1 <= Len(s.log)
    <3>1. \A i \in 1..d-1 : i \notin Diff
      <4>1. \E x \in Diff : \A y \in Diff : x <= y
        BY <1>3, <2>1, NatMin
      <4>2. \A y \in Diff : d <= y
        BY <4>1 DEF Min
      <4>3. QED BY <2>1, <2>2, <4>2
    <3> HIDE DEF d
    <3>2. CASE d = 1
      BY <1>1, <2>2, <3>2
    <3>3. CASE d > 1
      <4>1. d - 1 \in 1..Len(entries) /\ d - 1 \notin Diff
        BY <2>2, <3>1, <3>3
      <4>2. ~(k + (d - 1) > Len(s.log))
        BY <4>1 DEF Diff, Differing
      <4> DEFINE n == Len(s.log)
      <4>3. k \in Nat /\ d \in Nat /\ n \in Nat
        BY <1>1, <2>2
      <4> HIDE DEF n
      <4>4. k + (d - 1) <= n
        BY <4>2, <4>3 DEF n
      <4>5. k + d - 1 \in Nat /\ k + d - 1 <= n
        BY <3>3, <4>3, <4>4
      <4>6. QED BY <4>5 DEF n
    <3>4. QED BY <2>2, <3>2, <3>3
  <2>4. news \in Seq(Entry)
    BY <2>2
  <2>5. SubSeq(s.log, 1, k + d - 1) \in Seq(Entry)
    BY <1>1, <2>3
  <2> HIDE DEF d, news, revert
  <2>6. SubSeq(s.log, 1, k + d - 1) \o news \in Seq(Entry)
    BY <2>4, <2>5
  <2>7. (IF revert THEN s.oldConfig ELSE s.config) \in SUBSET Server
    BY <1>1
  <2>8. base \in NodeStates
    BY <2>6, <2>7 DEF NodeStates
  <2> HIDE DEF base
  <2>9. ApplyConfigurations(base, k + d - 1, news) \in NodeStates
    BY <2>3, <2>4, <2>8, ApplyConfigurationsType
  <2>10. MergeEntries(s, k, entries) = ApplyConfigurations(base, k + d - 1, news)
    BY <1>3 DEF MergeEntries, Diff, d, news, revert, base
  <2>11. QED BY <2>9, <2>10
<1>4. QED BY <1>2, <1>3

\* Advancing commitIndex in handleAppendEntries keeps a state a state.
LEMMA CommitFromType ==
    ASSUME NEW s \in NodeStates, NEW aea,
           aea.entries \in Seq(Entry), aea.commit \in Index
    PROVE  CommitFrom(s, aea) \in NodeStates
<1> DEFINE es == aea.entries
           c  == IF es # <<>> /\ es[Len(es)].index < aea.commit
                 THEN es[Len(es)].index ELSE aea.commit
<1>1. es # <<>> => es[Len(es)] \in Entry
  OBVIOUS
<1>2. c \in Index
  BY <1>1 DEF Entry, Index
<1>3. CommitFrom(s, aea) = s \/ CommitFrom(s, aea) = [s EXCEPT !.commitIndex = c]
  BY DEF CommitFrom
<1> HIDE DEF c
<1>4. QED BY <1>2, <1>3, ZenonT(40) DEF NodeStates

\* startNext is a position of the log or the one after its last.
LEMMA MergePointType ==
    ASSUME NEW s \in NodeStates, NEW aea
    PROVE  MergePoint(s, aea) \in 0..Len(s.log)
<1>1. s.log \in Seq(Entry)
  BY DEF NodeStates
<1>2. QED BY <1>1, FindArrayIdxType DEF MergePoint

-----------------------------------------------------------------------------
(***************************************************************************)
(* What the methods do to term, vote and role, and that without membership *)
(* changes in the log the configuration stays the whole cluster.           *)
(***************************************************************************)
SameBallot(s, r) ==
    /\ r.currentTerm = s.currentTerm
    /\ r.votedFor = s.votedFor
    /\ r.role = s.role
    /\ r.votes = s.votes

PlainEntry == {e \in Entry : e.kind \in {"noop", "command"}}

PlainState(s) == s.log \in Seq(PlainEntry) /\ s.config = Server /\ s.oldConfig = Server

\* takeSnapshot compacts the log and changes nothing of this.
LEMMA TakeSnapshotKeeps ==
    ASSUME NEW s \in NodeStates, NEW data
    PROVE  /\ SameBallot(s, TakeSnapshot(s, data))
           /\ PlainState(s) => PlainState(TakeSnapshot(s, data))
<1> DEFINE k  == FindArrayIdx(s.log, s.lastApplied)
           sn == [idx |-> s.log[k].index, term |-> s.log[k].term,
                  data |-> data, config |-> s.config]
           r  == TakeSnapshot(s, data)
<1>1. s.log \in Seq(Entry)
  BY DEF NodeStates
<1>2. k \in 0..Len(s.log)
  BY <1>1, FindArrayIdxType
<1>3. CASE k = 0
  BY <1>3 DEF TakeSnapshot, SameBallot
<1>4. CASE k # 0
  <2>1. r = [s EXCEPT !.snap = sn, !.log = SubSeq(s.log, k + 1, Len(s.log))]
    BY <1>4 DEF TakeSnapshot
  <2>2. s.log \in Seq(PlainEntry) => SubSeq(s.log, k + 1, Len(s.log)) \in Seq(PlainEntry)
    BY <1>2
  <2> HIDE DEF sn, k, r
  <2>3. SameBallot(s, r)
    BY <2>1 DEF NodeStates, SameBallot
  <2>4. r.log = SubSeq(s.log, k + 1, Len(s.log)) /\ r.config = s.config /\ r.oldConfig = s.oldConfig
    BY <2>1 DEF NodeStates
  <2>5. QED BY <2>2, <2>3, <2>4 DEF PlainState, r
<1>5. QED BY <1>3, <1>4

\* So do checkCommits, getAppendEntriesArgs and the step that moves commitIndex.
LEMMA CommitKeeps ==
    ASSUME NEW s \in NodeStates
    PROVE  /\ SameBallot(s, CheckCommits(s))
           /\ PlainState(s) => PlainState(CheckCommits(s))
           /\ \A ps : SameBallot(s, ArgsBuilt(s, ps)) /\ (PlainState(s) => PlainState(ArgsBuilt(s, ps)))
           /\ \A aea : SameBallot(s, CommitFrom(s, aea)) /\ (PlainState(s) => PlainState(CommitFrom(s, aea)))
<1>1. ASSUME NEW x
      PROVE  LET r == [s EXCEPT !.commitIndex = x]
             IN  SameBallot(s, r) /\ (PlainState(s) => PlainState(r))
  BY DEF NodeStates, SameBallot, PlainState
<1>2. ASSUME NEW x
      PROVE  LET r == [s EXCEPT !.lastSent = x]
             IN  SameBallot(s, r) /\ (PlainState(s) => PlainState(r))
  BY DEF NodeStates, SameBallot, PlainState
<1>3. SameBallot(s, s)
  BY DEF SameBallot
<1>4. SameBallot(s, CheckCommits(s)) /\ (PlainState(s) => PlainState(CheckCommits(s)))
  BY <1>1, <1>3 DEF CheckCommits
<1>5. ASSUME NEW ps
      PROVE  SameBallot(s, ArgsBuilt(s, ps)) /\ (PlainState(s) => PlainState(ArgsBuilt(s, ps)))
  BY <1>2 DEF ArgsBuilt
<1>6. ASSUME NEW aea
      PROVE  SameBallot(s, CommitFrom(s, aea)) /\ (PlainState(s) => PlainState(CommitFrom(s, aea)))
  BY <1>1, <1>3 DEF CommitFrom
<1>7. QED BY <1>4, <1>5, <1>6

\* Merging entries changes no ballot; plain entries change no configuration.
LEMMA MergeEntriesKeeps ==
    ASSUME NEW s \in NodeStates, NEW k \in 0..Len(s.log), NEW entries \in Seq(Entry)
    PROVE  /\ SameBallot(s, MergeEntries(s, k, entries))
           /\ PlainState(s) /\ entries \in Seq(PlainEntry) => PlainState(MergeEntries(s, k, entries))
<1> DEFINE Diff   == Differing(s.log, k, entries)
           d      == Min(Diff)
           news   == SubSeq(entries, d, Len(entries))
           revert == k + d <= Len(s.log) /\ s.log[k+d].index <= s.lastConfigIdx
           base   == [s EXCEPT !.config = IF revert THEN s.oldConfig ELSE s.config,
                               !.log    = SubSeq(s.log, 1, k + d - 1) \o news]
           C      == {i \in 1..Len(news) : news[i].kind \in {"add", "remove"}}
           r      == MergeEntries(s, k, entries)
<1>1. CASE Diff = {}
  BY <1>1 DEF MergeEntries, SameBallot
<1>2. CASE Diff # {}
  <2>1. r = ApplyConfigurations(base, k + d - 1, news)
    BY <1>2 DEF MergeEntries
  <2>2. Diff \in SUBSET (1..Len(entries))
    BY DEF Differing
  <2>3. d \in 1..Len(entries)
    BY <1>2, <2>2, MinIn
  <2>4. entries \in Seq(PlainEntry) => news \in Seq(PlainEntry)
    BY <2>3
  <2>5. s.log \in Seq(PlainEntry) => SubSeq(s.log, 1, k + d - 1) \in Seq(PlainEntry)
    <3>1. k + d - 1 <= Len(s.log)
      <4>1. Diff # {} /\ \A i \in 1..d-1 : i \notin Diff
        <5>1. \E x \in Diff : \A y \in Diff : x <= y
          <6>1. Len(entries) \in Nat
            OBVIOUS
          <6>2. Diff \in SUBSET Nat
            BY <2>2, <6>1
          <6> QED
            BY <1>2, <6>2, NatMin, Zenon
        <5>2. \A y \in Diff : d <= y
          BY <5>1 DEF Min
        <5>3. QED BY <1>2, <2>2, <2>3, <5>2
      <4>2. s.log \in Seq(Entry)
        BY DEF NodeStates
      <4>3. CASE d = 1
        BY <4>2, <4>3
      <4>4. CASE d > 1
        <5>1. d - 1 \in 1..Len(entries) /\ d - 1 \notin Diff
          BY <2>3, <4>1, <4>4, SMTT(40)
        <5>2. ~(k + (d - 1) > Len(s.log))
          BY <5>1 DEF Differing
        <5>3. QED BY <2>3, <4>2, <5>2
      <4>5. QED BY <2>3, <4>3, <4>4
    <3>2. QED BY <2>3, <3>1
  <2> HIDE DEF Diff, d, news, revert
  <2>6. /\ SameBallot(s, base)
        /\ base.log = SubSeq(s.log, 1, k + d - 1) \o news
        /\ base.oldConfig = s.oldConfig
        /\ base.config = IF revert THEN s.oldConfig ELSE s.config
        /\ DOMAIN base = DOMAIN s
    BY DEF NodeStates, SameBallot
  <2>7. ASSUME NEW a, NEW b, NEW c
        PROVE  SameBallot(base, [base EXCEPT !.oldConfig = a, !.config = b, !.lastConfigIdx = c])
    BY DEF NodeStates, SameBallot
  <2> HIDE DEF base
  <2>8. SameBallot(base, base)
    BY DEF SameBallot
  <2>9. SameBallot(base, r)
    <3> DEFINE a == ConfigAfter(base.config, SubSeq(news, 1, Max(C) - 1))
               b == ConfigAfter(base.config, news)
               c == k + d - 1 + Max(C) - 1
    <3>1. r = base \/ r = [base EXCEPT !.oldConfig = a, !.config = b, !.lastConfigIdx = c]
      BY <2>1 DEF ApplyConfigurations
    <3> HIDE DEF a, b, c, r, C
    <3>2. SameBallot(base, [base EXCEPT !.oldConfig = a, !.config = b, !.lastConfigIdx = c])
      BY <2>7
    <3>3. CASE r = base
      BY <2>8, <3>3
    <3>4. CASE r = [base EXCEPT !.oldConfig = a, !.config = b, !.lastConfigIdx = c]
      BY <3>2, <3>4
    <3>5. QED BY <3>1, <3>3, <3>4
  <2>10. SameBallot(s, r)
    BY <2>6, <2>9 DEF SameBallot
  <2>11. ASSUME PlainState(s), entries \in Seq(PlainEntry) PROVE PlainState(r)
    <3>1. news \in Seq(PlainEntry)
      BY <2>4, <2>11
    <3>2. ASSUME NEW i \in 1..Len(news) PROVE news[i].kind \notin {"add", "remove"}
      <4>1. news[i] \in PlainEntry
        BY <3>1
      <4>2. QED BY <4>1 DEF PlainEntry
    <3>3. C = {}
      BY <3>2
    <3>4. r = base
      BY <2>1, <3>3 DEF ApplyConfigurations
    <3>5. s.log \in Seq(PlainEntry) /\ s.config = Server /\ s.oldConfig = Server
      BY <2>11 DEF PlainState
    <3>6. SubSeq(s.log, 1, k + d - 1) \o news \in Seq(PlainEntry)
      BY <2>5, <3>1, <3>5
    <3>7. QED BY <2>6, <3>4, <3>5, <3>6 DEF PlainState
  <2>12. QED BY <2>10, <2>11
<1>3. QED BY <1>1, <1>2

\* handleAppendEntries: a stale request changes nothing, one of the current
\* term leaves the vote alone, one of a newer term clears it; the configuration
\* and the vote counter stay.
LEMMA HandleAppendEntriesEffect ==
    ASSUME NEW s \in NodeStates, NEW data \in Seq(Command), NEW aea,
           aea.term \in Nat, aea.leader \in Server \cup {Nil},
           aea.entries \in Seq(Entry), aea.commit \in Index,
           NEW r, r = HandleAppendEntries(s, aea, data)
    PROVE  /\ r \in NodeStates
           /\ r.votes = s.votes
           /\ aea.term < s.currentTerm => r = s
           /\ aea.term >= s.currentTerm => r.currentTerm = aea.term /\ r.role = Follower
           /\ aea.term = s.currentTerm => r.votedFor = s.votedFor
           /\ aea.term > s.currentTerm => r.votedFor = Nil
           /\ PlainState(s) /\ aea.entries \in Seq(PlainEntry) => PlainState(r)
<1> DEFINE f == SteppedDown(TermSeen(s, aea.term))
           l == [f EXCEPT !.currentLeader = aea.leader]
           k == MergePoint(s, aea)
           m == MergeEntries(l, k, aea.entries)
<1>1. s.currentTerm \in Nat
  BY DEF NodeStates
<1>2. CASE aea.term < s.currentTerm
  BY <1>1, <1>2 DEF HandleAppendEntries
<1>3. CASE ~(aea.term < s.currentTerm)
  <2>1. /\ f \in NodeStates
        /\ f.votes = s.votes /\ f.log = s.log
        /\ f.config = s.config /\ f.oldConfig = s.oldConfig
        /\ f.currentTerm = aea.term /\ f.role = Follower
        /\ aea.term = s.currentTerm => f.votedFor = s.votedFor
        /\ aea.term > s.currentTerm => f.votedFor = Nil
    <3> DEFINE g == TermSeen(s, aea.term)
    <3>1. /\ g \in NodeStates
          /\ g.votes = s.votes /\ g.log = s.log
          /\ g.config = s.config /\ g.oldConfig = s.oldConfig
          /\ g.currentTerm = aea.term
          /\ aea.term = s.currentTerm => g.votedFor = s.votedFor
          /\ aea.term > s.currentTerm => g.votedFor = Nil
      <4>1. g \in NodeStates
        BY TermSeenType
      <4>2. CASE s.currentTerm < aea.term
        <5>1. g = [s EXCEPT !.currentTerm = aea.term, !.votedFor = Nil]
          BY <4>2 DEF TermSeen, UpdateCurrentTerm
        <5> HIDE DEF g
        <5>2. /\ g.votes = s.votes /\ g.log = s.log
              /\ g.config = s.config /\ g.oldConfig = s.oldConfig
              /\ g.currentTerm = aea.term /\ g.votedFor = Nil
          BY <5>1 DEF NodeStates
        <5>3. QED BY <1>1, <4>1, <4>2, <5>2
      <4>3. CASE ~(s.currentTerm < aea.term)
        BY <1>1, <1>3, <4>1, <4>3 DEF TermSeen
      <4>4. QED BY <4>2, <4>3
    <3> HIDE DEF g
    <3>2. f = SteppedDown(g)
      BY DEF g
    <3>3. SteppedDown(g) \in NodeStates
      BY <3>1 DEF SteppedDown, StopElectionTimeout, NodeStates, Follower
    <3>4. /\ SteppedDown(g).votes = g.votes /\ SteppedDown(g).log = g.log
          /\ SteppedDown(g).config = g.config /\ SteppedDown(g).oldConfig = g.oldConfig
          /\ SteppedDown(g).currentTerm = g.currentTerm /\ SteppedDown(g).role = Follower
          /\ SteppedDown(g).votedFor = g.votedFor
      BY <3>1 DEF SteppedDown, StopElectionTimeout, NodeStates
    <3>5. QED BY <3>1, <3>2, <3>3, <3>4
  <2> HIDE DEF f
  <2>2. /\ l \in NodeStates
        /\ SameBallot(f, l) /\ l.log = s.log
        /\ l.config = s.config /\ l.oldConfig = s.oldConfig
    BY <2>1 DEF NodeStates, SameBallot
  <2> HIDE DEF l
  <2>3. k \in 0..Len(l.log)
    BY <2>2, MergePointType
  <2>4. m \in NodeStates /\ SameBallot(l, m)
    BY <2>2, <2>3, MergeEntriesType, MergeEntriesKeeps
  <2>5. PlainState(l) /\ aea.entries \in Seq(PlainEntry) => PlainState(m)
    BY <2>2, <2>3, MergeEntriesKeeps
  <2>6. PlainState(s) => PlainState(f) /\ PlainState(l)
    BY <2>1, <2>2 DEF PlainState
  <2> HIDE DEF k, m
  <2>7. /\ CommitFrom(m, aea) \in NodeStates
        /\ SameBallot(m, CommitFrom(m, aea))
        /\ PlainState(m) => PlainState(CommitFrom(m, aea))
    BY <2>4, CommitFromType, CommitKeeps
  <2>8. /\ TakeSnapshot(l, data) \in NodeStates
        /\ SameBallot(l, TakeSnapshot(l, data))
        /\ PlainState(l) => PlainState(TakeSnapshot(l, data))
    BY <2>2, TakeSnapshotType, TakeSnapshotKeeps
  <2>9. r = f \/ r = TakeSnapshot(l, data) \/ r = CommitFrom(m, aea)
    BY <1>1, <1>3 DEF HandleAppendEntries, f, l, k, m
  <2>10. CASE r = f
    BY <1>1, <1>3, <2>1, <2>6, <2>10
  <2>11. CASE r = TakeSnapshot(l, data)
    BY <1>1, <1>3, <2>1, <2>2, <2>6, <2>8, <2>11 DEF SameBallot
  <2>12. CASE r = CommitFrom(m, aea)
    BY <1>1, <1>3, <2>1, <2>2, <2>4, <2>5, <2>6, <2>7, <2>12 DEF SameBallot
  <2>13. QED BY <2>9, <2>10, <2>11, <2>12
<1>4. QED BY <1>2, <1>3

\* winElection keeps term and vote, and the no-op is a plain entry.
LEMMA WinElectionEffect ==
    ASSUME NEW s \in NodeStates, NEW id \in Server, NEW r, r = WinElection(s, id)
    PROVE  /\ r.currentTerm = s.currentTerm /\ r.votedFor = s.votedFor
           /\ r.role = Leader /\ r.votes = 0
           /\ PlainState(s) => PlainState(r)
<1> DEFINE w == [s EXCEPT !.votes          = 0,
                          !.role           = Leader,
                          !.currentLeader  = id,
                          !.nextIndex      = [p \in Server |-> LastLogIdx(s) + 1],
                          !.matchIndex[id] = -1,
                          !.lastSent[id]   = -1]
           e == Noop(LastLogIdx(w) + 1, w.currentTerm)
<1>1. /\ w.currentTerm = s.currentTerm /\ w.votedFor = s.votedFor
      /\ w.role = Leader /\ w.votes = 0 /\ w.log = s.log /\ w.snap = s.snap
      /\ w.config = s.config /\ w.oldConfig = s.oldConfig
      /\ DOMAIN w = DOMAIN s
  BY DEF NodeStates
<1>2. r = AddNoopLog(w, id)
  BY DEF WinElection
<1>3. LastLogIdx(w) + 1 \in Nat /\ w.currentTerm \in Nat
  <2> HIDE DEF w
  <2>1. LastLogIdx(w) = LastLogIdx(s)
    BY <1>1 DEF LastLogIdx
  <2>2. LastLogIdx(s) + 1 \in Nat
    BY LastLogType DEF Index
  <2>3. s.currentTerm \in Nat
    BY DEF NodeStates
  <2>4. QED BY <1>1, <2>1, <2>2, <2>3
<1>4. e \in PlainEntry
  <2>1. e \in Entry /\ e.kind = "noop"
    BY <1>3 DEF Noop, Entry
  <2>2. QED BY <2>1 DEF PlainEntry
<1> HIDE DEF w, e
<1>5. r = w \/ r = AppendOwn(w, id, e)
  BY <1>2 DEF AddNoopLog, e
<1>6. CASE r = w
  BY <1>1, <1>6 DEF PlainState
<1>7. CASE r = AppendOwn(w, id, e)
  <2>1. /\ r.currentTerm = w.currentTerm /\ r.votedFor = w.votedFor
        /\ r.role = w.role /\ r.votes = w.votes
        /\ r.config = w.config /\ r.oldConfig = w.oldConfig
        /\ r.log = Append(w.log, e)
    BY <1>1, <1>7 DEF AppendOwn, NodeStates
  <2>2. w.log \in Seq(PlainEntry) => Append(w.log, e) \in Seq(PlainEntry)
    BY <1>4
  <2>3. QED BY <1>1, <2>1, <2>2 DEF PlainState
<1>8. QED BY <1>5, <1>6, <1>7

(***************************************************************************)
(* What a step may do to a node's ballot: the term grows, or it stays and  *)
(* a vote once given in it stays.                                          *)
(***************************************************************************)
BallotGrows(s, r) ==
    /\ r.currentTerm >= s.currentTerm
    /\ r.currentTerm = s.currentTerm /\ s.votedFor # Nil => r.votedFor = s.votedFor

\* The timer functions and the step that applies an entry leave the ballot alone.
LEMMA TimerKeeps ==
    ASSUME NEW s \in NodeStates
    PROVE  /\ SameBallot(s, StopElectionTimeout(s))
           /\ SameBallot(s, CheckElectionTimeout(s))
           /\ PlainState(s) => PlainState(StopElectionTimeout(s)) /\ PlainState(CheckElectionTimeout(s))
           /\ \A x : SameBallot(s, [s EXCEPT !.lastApplied = x])
           /\ \A x : PlainState(s) => PlainState([s EXCEPT !.lastApplied = x])
           /\ \A x : SameBallot(s, [s EXCEPT !.persistedSnapIdx = x])
           /\ \A x : PlainState(s) => PlainState([s EXCEPT !.persistedSnapIdx = x])
  BY DEF StopElectionTimeout, CheckElectionTimeout, NodeStates, SameBallot, PlainState

\* The same ballot is a ballot that grows.
LEMMA SameBallotGrows ==
    ASSUME NEW s \in NodeStates, NEW r, SameBallot(s, r)
    PROVE  BallotGrows(s, r)
<1>1. s.currentTerm \in Nat
  BY DEF NodeStates
<1>2. QED BY <1>1 DEF SameBallot, BallotGrows

\* startElection moves on to the next term and votes for the node itself.
LEMMA StartElectionEffect ==
    ASSUME NEW s \in NodeStates, NEW id \in Server, NEW r, r = StartElection(s, id)
    PROVE  /\ r.currentTerm = s.currentTerm + 1 /\ r.votedFor = id
           /\ r.role = Candidate /\ r.votes = 1
           /\ BallotGrows(s, r)
           /\ PlainState(s) => PlainState(r)
<1>1. /\ r.currentTerm = s.currentTerm + 1 /\ r.votedFor = id
      /\ r.role = Candidate /\ r.votes = 1
      /\ r.log = s.log /\ r.config = s.config /\ r.oldConfig = s.oldConfig
  BY DEF StartElection, NodeStates
<1>2. s.currentTerm \in Nat
  BY DEF NodeStates
<1>3. QED BY <1>1, <1>2 DEF BallotGrows, PlainState

\* Adopting a newer term clears the vote; any other term changes nothing.
LEMMA TermSeenEffect ==
    ASSUME NEW s \in NodeStates, NEW term \in Nat, NEW r, r = TermSeen(s, term)
    PROVE  /\ term > s.currentTerm => r.currentTerm = term /\ r.votedFor = Nil
           /\ term <= s.currentTerm => r = s
           /\ r.role = s.role /\ r.votes = s.votes
           /\ r.log = s.log /\ r.config = s.config /\ r.oldConfig = s.oldConfig
<1>1. s.currentTerm \in Nat
  BY DEF NodeStates
<1>2. CASE s.currentTerm < term
  <2>1. r = [s EXCEPT !.currentTerm = term, !.votedFor = Nil]
    BY <1>2 DEF TermSeen, UpdateCurrentTerm
  <2>2. QED BY <1>1, <1>2, <2>1 DEF NodeStates
<1>3. CASE ~(s.currentTerm < term)
  BY <1>1, <1>3 DEF TermSeen
<1>4. QED BY <1>2, <1>3

\* handleRequestToVote: a vote is granted only to a candidate of this term or
\* a newer one, and in this term only if none or this one has the vote.
LEMMA HandleRequestToVoteEffect ==
    ASSUME NEW s \in NodeStates, NEW rva, rva.term \in Nat, rva.src \in Server,
           NEW r, r = HandleRequestToVote(s, rva)
    PROVE  /\ BallotGrows(s, r)
           /\ r.votes = s.votes
           /\ PlainState(s) => PlainState(r)
           /\ GrantsVote(s, rva) => /\ r.currentTerm = rva.term
                                    /\ r.votedFor = rva.src
                                    /\ r.role = Follower
           /\ r.role \in {s.role, Follower}
           /\ r.role # Follower => r.currentTerm = s.currentTerm \/ r.currentTerm = rva.term
<1> DEFINE g == TermSeen(s, rva.term)
<1>1. s.currentTerm \in Nat
  BY DEF NodeStates
<1>2. g \in NodeStates
  BY TermSeenType
<1>3. /\ rva.term > s.currentTerm => g.currentTerm = rva.term /\ g.votedFor = Nil
      /\ rva.term <= s.currentTerm => g = s
      /\ g.role = s.role /\ g.votes = s.votes
      /\ g.log = s.log /\ g.config = s.config /\ g.oldConfig = s.oldConfig
  BY TermSeenEffect
<1>4. CASE GrantsVote(s, rva)
  <2>1. r = [StopElectionTimeout(g) EXCEPT
                !.role = Follower, !.votedFor = rva.src, !.currentLeader = rva.src]
    BY <1>4 DEF HandleRequestToVote
  <2>2. s.currentTerm <= rva.term /\ g.votedFor \in {Nil, rva.src}
    BY <1>4 DEF GrantsVote, CanVote
  <2> HIDE DEF g
  <2>3. /\ r.currentTerm = g.currentTerm /\ r.votedFor = rva.src /\ r.role = Follower
        /\ r.votes = g.votes
        /\ r.log = g.log /\ r.config = g.config /\ r.oldConfig = g.oldConfig
    BY <1>2, <2>1 DEF StopElectionTimeout, NodeStates
  <2>4. r.currentTerm = rva.term
    BY <1>1, <1>3, <2>2, <2>3
  <2>5. BallotGrows(s, r)
    BY <1>1, <1>3, <2>2, <2>3, <2>4 DEF BallotGrows
  <2>6. QED BY <1>3, <2>3, <2>4, <2>5 DEF PlainState
<1>5. CASE ~GrantsVote(s, rva)
  <2>1. r = g
    BY <1>5 DEF HandleRequestToVote
  <2> HIDE DEF g
  <2>2. BallotGrows(s, r)
    BY <1>1, <1>3, <2>1 DEF BallotGrows
  <2>3. QED BY <1>1, <1>3, <1>5, <2>1, <2>2 DEF PlainState
<1>6. QED BY <1>4, <1>5

\* updateElection: a newer term ends the candidacy, else the ballot stays and
\* electionVotes counts the vote if it is one of this term.
LEMMA UpdateElectionEffect ==
    ASSUME NEW s \in NodeStates, NEW resp, resp.term \in Nat,
           NEW r, r = UpdateElection(s, resp)
    PROVE  /\ BallotGrows(s, r)
           /\ PlainState(s) => PlainState(r)
           /\ resp.term > s.currentTerm => r.currentTerm = resp.term /\ r.role = Follower /\ r.votes = 0
           /\ resp.term <= s.currentTerm =>
                 /\ r.currentTerm = s.currentTerm /\ r.role = s.role
                 /\ r.votes = IF resp.term = s.currentTerm /\ resp.granted THEN s.votes + 1 ELSE s.votes
<1>1. s.currentTerm \in Nat /\ s.votes \in Nat
  BY DEF NodeStates
<1>2. CASE resp.term > s.currentTerm
  <2>1. r = [UpdateCurrentTerm(StopElectionTimeout(s), resp.term) EXCEPT
                !.votes = 0, !.role = Follower]
    BY <1>2 DEF UpdateElection
  <2>2. /\ r.currentTerm = resp.term /\ r.role = Follower /\ r.votes = 0
        /\ r.log = s.log /\ r.config = s.config /\ r.oldConfig = s.oldConfig
    BY <2>1 DEF UpdateCurrentTerm, StopElectionTimeout, NodeStates
  <2>3. QED BY <1>1, <1>2, <2>2 DEF BallotGrows, PlainState
<1>3. CASE ~(resp.term > s.currentTerm)
  <2>1. CASE resp.term = s.currentTerm /\ resp.granted
    <3>1. r = [s EXCEPT !.votes = s.votes + 1]
      BY <1>3, <2>1 DEF UpdateElection
    <3> DEFINE v == s.votes + 1
    <3>2. r = [s EXCEPT !.votes = v]
      BY <3>1
    <3> HIDE DEF v
    <3>3. /\ r.currentTerm = s.currentTerm /\ r.role = s.role /\ r.votes = v
          /\ r.votedFor = s.votedFor
          /\ r.log = s.log /\ r.config = s.config /\ r.oldConfig = s.oldConfig
      BY <3>2 DEF NodeStates
    <3>4. QED BY <1>1, <1>3, <2>1, <3>3 DEF BallotGrows, PlainState, v
  <2>2. CASE ~(resp.term = s.currentTerm /\ resp.granted)
    <3>1. r = s
      BY <1>3, <2>2 DEF UpdateElection
    <3>2. QED BY <1>1, <1>3, <2>2, <3>1 DEF BallotGrows
  <2>3. QED BY <2>1, <2>2
<1>4. QED BY <1>2, <1>3

\* handleAppendEntriesResponse: only a failed response of a newer term touches
\* the ballot, and then the node is a follower of that term.
LEMMA HandleAppendEntriesResponseEffect ==
    ASSUME NEW s \in NodeStates, NEW aer, aer.term \in Nat, aer.src \in Server,
           aer.success \in BOOLEAN, NEW r, r = HandleAppendEntriesResponse(s, aer)
    PROVE  /\ BallotGrows(s, r)
           /\ PlainState(s) => PlainState(r)
           /\ r.votes = s.votes
           /\ SameBallot(s, r) \/ (r.currentTerm > s.currentTerm /\ r.role = Follower)
<1>1. s.currentTerm \in Nat
  BY DEF NodeStates
<1>2. CASE ~aer.success /\ aer.term > s.currentTerm
  <2>1. r = [UpdateCurrentTerm(s, aer.term) EXCEPT !.role = Follower, !.currentLeader = aer.src]
    BY <1>1, <1>2 DEF HandleAppendEntriesResponse
  <2>2. /\ r.currentTerm = aer.term /\ r.role = Follower /\ r.votes = s.votes
        /\ r.log = s.log /\ r.config = s.config /\ r.oldConfig = s.oldConfig
    BY <2>1 DEF UpdateCurrentTerm, NodeStates
  <2>3. QED BY <1>1, <1>2, <2>2 DEF BallotGrows, PlainState
<1>3. CASE ~(~aer.success /\ aer.term > s.currentTerm)
  <2>1. \/ \E x : r = [s EXCEPT !.nextIndex = x]
        \/ \E x, y : r = [s EXCEPT !.nextIndex = x, !.matchIndex = y]
    BY <1>1, <1>3 DEF HandleAppendEntriesResponse
  <2>2. /\ r.currentTerm = s.currentTerm /\ r.role = s.role /\ r.votes = s.votes
        /\ r.votedFor = s.votedFor
        /\ r.log = s.log /\ r.config = s.config /\ r.oldConfig = s.oldConfig
    BY <2>1 DEF NodeStates
  <2>3. QED BY <1>1, <2>2 DEF BallotGrows, PlainState, SameBallot
<1>4. QED BY <1>2, <1>3

-----------------------------------------------------------------------------
(***************************************************************************)
(* What the methods do to the log.  Most of them leave it alone, and with  *)
(* it the snapshot and lastApplied.                                        *)
(***************************************************************************)
SameLog(s, r) ==
    /\ r.log = s.log
    /\ r.snap = s.snap
    /\ r.lastApplied = s.lastApplied

\* The timer, checkCommits, getAppendEntriesArgs, startElection and a newer term.
LEMMA QuietLog ==
    ASSUME NEW s \in NodeStates
    PROVE  /\ SameLog(s, StopElectionTimeout(s)) /\ SameLog(s, CheckElectionTimeout(s))
           /\ SameLog(s, CheckCommits(s))
           /\ \A ps : SameLog(s, ArgsBuilt(s, ps))
           /\ \A aea : SameLog(s, CommitFrom(s, aea))
           /\ \A id : SameLog(s, StartElection(s, id))
           /\ \A term : SameLog(s, TermSeen(s, term))
           /\ \A x : SameLog(s, [s EXCEPT !.persistedSnapIdx = x])
<1>1. SameLog(s, s)
  BY DEF SameLog
<1>2. /\ \A x : SameLog(s, [s EXCEPT !.commitIndex = x])
      /\ \A x : SameLog(s, [s EXCEPT !.lastSent = x])
      /\ \A x : SameLog(s, [s EXCEPT !.timer = x])
      /\ \A x : SameLog(s, [s EXCEPT !.persistedSnapIdx = x])
      /\ \A x, y : SameLog(s, [s EXCEPT !.currentTerm = x, !.votedFor = y])
      /\ \A x, y, z, v : SameLog(s, [s EXCEPT !.currentTerm = x, !.role = y, !.votedFor = z, !.votes = v])
  BY DEF SameLog, NodeStates
<1>3. SameLog(s, StopElectionTimeout(s)) /\ SameLog(s, CheckElectionTimeout(s))
  BY <1>2 DEF StopElectionTimeout, CheckElectionTimeout
<1>4. SameLog(s, CheckCommits(s))
  BY <1>1, <1>2 DEF CheckCommits
<1>5. \A ps : SameLog(s, ArgsBuilt(s, ps))
  BY <1>2 DEF ArgsBuilt
<1>6. \A aea : SameLog(s, CommitFrom(s, aea))
  BY <1>1, <1>2 DEF CommitFrom
<1>7. \A id : SameLog(s, StartElection(s, id))
  BY <1>2 DEF StartElection
<1>8. \A term : SameLog(s, TermSeen(s, term))
  BY <1>1, <1>2 DEF TermSeen, UpdateCurrentTerm
<1> QED
  BY <1>2, <1>3, <1>4, <1>5, <1>6, <1>7, <1>8

\* handleRequestToVote and updateElection.
LEMMA VotingLog ==
    ASSUME NEW s \in NodeStates, NEW m, m.term \in Nat
    PROVE  SameLog(s, HandleRequestToVote(s, m)) /\ SameLog(s, UpdateElection(s, m))
<1>1. SameLog(s, s)
  BY DEF SameLog
<1>2. SameLog(s, HandleRequestToVote(s, m))
  <2> DEFINE g == TermSeen(s, m.term)
  <2>1. g \in NodeStates /\ SameLog(s, g)
    BY TermSeenType, QuietLog
  <2>2. \/ HandleRequestToVote(s, m) = g
        \/ HandleRequestToVote(s, m) = [StopElectionTimeout(g) EXCEPT
              !.role = Follower, !.votedFor = m.src, !.currentLeader = m.src]
    BY DEF HandleRequestToVote
  <2> HIDE DEF g
  <2>3. SameLog(g, [StopElectionTimeout(g) EXCEPT
              !.role = Follower, !.votedFor = m.src, !.currentLeader = m.src])
    BY <2>1 DEF SameLog, StopElectionTimeout, NodeStates
  <2> QED
    BY <2>1, <2>2, <2>3 DEF SameLog
<1>3. SameLog(s, UpdateElection(s, m))
  <2> DEFINE u == [UpdateCurrentTerm(StopElectionTimeout(s), m.term) EXCEPT
                      !.votes = 0, !.role = Follower]
             v == s.votes + 1
  <2>1. SameLog(s, u)
    BY DEF SameLog, UpdateCurrentTerm, StopElectionTimeout, NodeStates
  <2>2. UpdateElection(s, m) \in {u, s, [s EXCEPT !.votes = v]}
    BY DEF UpdateElection
  <2> HIDE DEF u, v
  <2>3. SameLog(s, [s EXCEPT !.votes = v])
    BY DEF SameLog, NodeStates
  <2> QED
    BY <1>1, <2>1, <2>2, <2>3
<1> QED
  BY <1>2, <1>3

\* handleAppendEntriesResponse; commitIndex stays too.
LEMMA ResponseLog ==
    ASSUME NEW s \in NodeStates, NEW aer, aer.success \in BOOLEAN,
           ~aer.success => aer.term \in Nat,
           NEW r, r = HandleAppendEntriesResponse(s, aer)
    PROVE  SameLog(s, r) /\ r.commitIndex = s.commitIndex
<1>1. \/ r = [UpdateCurrentTerm(s, aer.term) EXCEPT !.role = Follower, !.currentLeader = aer.src]
      \/ \E x : r = [s EXCEPT !.nextIndex = x]
      \/ \E x, y : r = [s EXCEPT !.nextIndex = x, !.matchIndex = y]
  <2>0. s.currentTerm \in Nat
    BY DEF NodeStates
  <2>1. CASE ~aer.success /\ aer.term > s.currentTerm
    <3>1. r = [UpdateCurrentTerm(s, aer.term) EXCEPT !.role = Follower, !.currentLeader = aer.src]
      BY <2>0, <2>1 DEF HandleAppendEntriesResponse
    <3> QED
      BY <3>1
  <2>2. CASE ~aer.success /\ aer.term <= s.currentTerm
    <3> DEFINE i == IF aer.lastIdx >= 0 THEN aer.lastIdx ELSE 0
    <3>1. ~(aer.term > s.currentTerm)
      BY <2>0, <2>2
    <3>2. r = [s EXCEPT !.nextIndex[aer.src] = i]
      BY <2>2, <3>1 DEF HandleAppendEntriesResponse
    <3> HIDE DEF i
    <3>3. r = [s EXCEPT !.nextIndex = [s.nextIndex EXCEPT ![aer.src] = i]]
      BY <3>2
    <3> QED
      BY <3>3
  <2>3. CASE ~(~aer.success /\ aer.term > s.currentTerm) /\ ~(~aer.success /\ aer.term <= s.currentTerm)
    BY <2>3 DEF HandleAppendEntriesResponse
  <2> QED
    BY <2>1, <2>2, <2>3
<1>2. CASE r = [UpdateCurrentTerm(s, aer.term) EXCEPT !.role = Follower, !.currentLeader = aer.src]
  BY <1>2 DEF UpdateCurrentTerm, NodeStates, SameLog
<1>3. CASE \E x : r = [s EXCEPT !.nextIndex = x]
  BY <1>3 DEF NodeStates, SameLog
<1>4. CASE \E x, y : r = [s EXCEPT !.nextIndex = x, !.matchIndex = y]
  BY <1>4 DEF NodeStates, SameLog
<1> QED
  BY <1>1, <1>2, <1>3, <1>4

\* winElection appends its no-op to a log that has room.
LEMMA WinElectionLog ==
    ASSUME NEW s \in NodeStates, NEW id \in Server, NEW r, r = WinElection(s, id)
    PROVE  /\ r.snap = s.snap /\ r.lastApplied = s.lastApplied /\ r.commitIndex = s.commitIndex
           /\ IF Len(s.log) >= LogCap THEN r.log = s.log
              ELSE r.log = Append(s.log, Noop(LastLogIdx(s) + 1, s.currentTerm))
<1> DEFINE w == [s EXCEPT !.votes          = 0,
                          !.role           = Leader,
                          !.currentLeader  = id,
                          !.nextIndex      = [p \in Server |-> LastLogIdx(s) + 1],
                          !.matchIndex[id] = -1,
                          !.lastSent[id]   = -1]
           e == Noop(LastLogIdx(w) + 1, w.currentTerm)
<1>1. /\ w.currentTerm = s.currentTerm /\ w.log = s.log /\ w.snap = s.snap
      /\ w.lastApplied = s.lastApplied /\ w.commitIndex = s.commitIndex /\ DOMAIN w = DOMAIN s
  BY DEF NodeStates
<1>2. r = AddNoopLog(w, id)
  BY DEF WinElection
<1> HIDE DEF w
<1>3. LastLogIdx(w) = LastLogIdx(s)
  BY <1>1 DEF LastLogIdx
<1>4. e = Noop(LastLogIdx(s) + 1, s.currentTerm)
  BY <1>1, <1>3
<1> HIDE DEF e
<1>5. r = IF Len(w.log) >= LogCap THEN w ELSE AppendOwn(w, id, e)
  BY <1>2 DEF AddNoopLog, e
<1>6. CASE Len(s.log) >= LogCap
  BY <1>1, <1>5, <1>6
<1>7. CASE ~(Len(s.log) >= LogCap)
  <2>1. r = AppendOwn(w, id, e)
    BY <1>1, <1>5, <1>7
  <2>2. /\ r.log = Append(w.log, e) /\ r.snap = w.snap
        /\ r.lastApplied = w.lastApplied /\ r.commitIndex = w.commitIndex
    BY <1>1, <2>1 DEF AppendOwn, NodeStates
  <2> QED
    BY <1>1, <1>4, <1>7, <2>2
<1> QED
  BY <1>6, <1>7

\* findArrayIdxByLogIndex finds the entry with that index, if there is one.
LEMMA FindArrayIdxFinds ==
    ASSUME NEW log \in Seq(Entry), NEW i, NEW k, k = FindArrayIdx(log, i)
    PROVE  /\ k = 0 => \A j \in 1..Len(log) : log[j].index # i
           /\ k # 0 => k \in 1..Len(log) /\ log[k].index = i
<1> DEFINE A == {j \in 1..Len(log) : log[j].index = i}
<1>1. A \in SUBSET (1..Len(log)) /\ Len(log) \in Nat
  OBVIOUS
<1>2. k = IF A = {} THEN 0 ELSE Max(A)
  BY DEF FindArrayIdx
<1>3. CASE A = {}
  BY <1>2, <1>3
<1>4. CASE A # {}
  <2>1. Max(A) \in 1..Len(log) /\ Max(A) \in A
    BY <1>1, <1>4, MaxIn
  <2> QED
    BY <1>2, <1>4, <2>1
<1> QED
  BY <1>3, <1>4

\* The loop over the entries: nothing differs and the log stays, or the log is cut
\* off before the first entry that differs and the rest of the batch appended; the
\* entry before that one is the same on both sides.
Merged(log, k, entries, new) ==
    \/ new = log /\ Differing(log, k, entries) = {}
    \/ \E d \in Differing(log, k, entries) :
          /\ k + d - 1 \in 0..Len(log)
          /\ \A j \in Differing(log, k, entries) : d <= j
          /\ d > 1 => /\ log[k+d-1].term = entries[d-1].term
                      /\ log[k+d-1].index = entries[d-1].index
          /\ new = SubSeq(log, 1, k + d - 1) \o SubSeq(entries, d, Len(entries))

\* The loop does that to the log and leaves snapshot, commitIndex and lastApplied.
LEMMA MergeEntriesLog ==
    ASSUME NEW s \in NodeStates, NEW k \in 0..Len(s.log), NEW entries \in Seq(Entry),
           NEW r, r = MergeEntries(s, k, entries)
    PROVE  /\ r.snap = s.snap /\ r.lastApplied = s.lastApplied /\ r.commitIndex = s.commitIndex
           /\ Merged(s.log, k, entries, r.log)
<1> DEFINE Diff   == Differing(s.log, k, entries)
           d      == Min(Diff)
           news   == SubSeq(entries, d, Len(entries))
           revert == k + d <= Len(s.log) /\ s.log[k+d].index <= s.lastConfigIdx
           base   == [s EXCEPT !.config = IF revert THEN s.oldConfig ELSE s.config,
                               !.log    = SubSeq(s.log, 1, k + d - 1) \o news]
           C      == {i \in 1..Len(news) : news[i].kind \in {"add", "remove"}}
           new    == SubSeq(s.log, 1, k + d - 1) \o news
<1>0. Len(s.log) \in Nat /\ s.log \in Seq(Entry)
  BY DEF NodeStates
<1>1. CASE Diff = {}
  BY <1>1 DEF MergeEntries, Merged
<1>2. CASE Diff # {}
  <2>1. r = ApplyConfigurations(base, k + d - 1, news)
    BY <1>2 DEF MergeEntries
  <2>2. Diff \in SUBSET (1..Len(entries)) /\ Diff \in SUBSET Nat
    BY DEF Differing
  <2>3. d \in 1..Len(entries) /\ d \in Diff
    BY <1>2, <2>2, MinIn
  <2>4. \A y \in Diff : d <= y
    <3>1. \E x \in Diff : \A y \in Diff : x <= y
      BY <1>2, <2>2, NatMin
    <3> QED
      BY <3>1 DEF Min
  <2> HIDE DEF d, Diff
  <2>5. d > 1 => /\ k + d - 1 \in 1..Len(s.log)
                 /\ s.log[k+d-1].term = entries[d-1].term
                 /\ s.log[k+d-1].index = entries[d-1].index
    <3> HAVE d > 1
    <3>1. d - 1 \in 1..Len(entries) /\ d - 1 \notin Diff
      BY <2>2, <2>3, <2>4
    <3>2. ~(k + (d-1) > Len(s.log)) /\ s.log[k+(d-1)].index = entries[d-1].index
          /\ s.log[k+(d-1)].term = entries[d-1].term
      BY <3>1 DEF Diff, Differing
    <3>3. k + (d-1) = k + d - 1
      BY <2>3
    <3> QED
      BY <1>0, <2>3, <3>2, <3>3
  <2>6. k + d - 1 \in 0..Len(s.log)
    BY <1>0, <2>3, <2>5
  <2> HIDE DEF revert, new, news
  <2>7. /\ base.log = new /\ base.snap = s.snap /\ base.lastApplied = s.lastApplied
        /\ base.commitIndex = s.commitIndex /\ DOMAIN base = DOMAIN s
    BY DEF NodeStates, new
  <2>8. ASSUME NEW a, NEW b, NEW c
        PROVE  LET q == [base EXCEPT !.oldConfig = a, !.config = b, !.lastConfigIdx = c]
               IN  /\ q.log = base.log /\ q.snap = base.snap /\ q.lastApplied = base.lastApplied
                   /\ q.commitIndex = base.commitIndex
    BY <2>7 DEF NodeStates
  <2> HIDE DEF base
  <2>9. /\ r.log = base.log /\ r.snap = base.snap /\ r.lastApplied = base.lastApplied
        /\ r.commitIndex = base.commitIndex
    <3> DEFINE a == ConfigAfter(base.config, SubSeq(news, 1, Max(C) - 1))
               b == ConfigAfter(base.config, news)
               c == k + d - 1 + Max(C) - 1
    <3>1. r = base \/ r = [base EXCEPT !.oldConfig = a, !.config = b, !.lastConfigIdx = c]
      BY <2>1 DEF ApplyConfigurations
    <3> HIDE DEF a, b, c, C
    <3>2. CASE r = base
      BY <3>2
    <3>3. CASE r = [base EXCEPT !.oldConfig = a, !.config = b, !.lastConfigIdx = c]
      BY <2>8, <3>3
    <3> QED
      BY <3>1, <3>2, <3>3
  <2> QED
    BY <2>3, <2>4, <2>5, <2>6, <2>7, <2>9 DEF new, news, Diff, Merged
<1> QED
  BY <1>1, <1>2

\* handleAppendEntries leaves the log alone, or compacts it and refuses, or merges
\* the entries and moves commitIndex; l is the node once it follows the leader.
LEMMA HandleAppendEntriesLog ==
    ASSUME NEW s \in NodeStates, NEW data, NEW aea,
           aea.term \in Nat, aea.leader \in Server \cup {Nil},
           NEW r, r = HandleAppendEntries(s, aea, data)
    PROVE  \/ /\ SameLog(s, r) /\ r.commitIndex = s.commitIndex
              /\ ~(aea.term >= s.currentTerm /\ PrevLogOK(s, aea))
           \/ \E l \in NodeStates :
                 /\ SameLog(s, l) /\ l.commitIndex = s.commitIndex
                 /\ aea.term >= s.currentTerm /\ PrevLogOK(s, aea)
                 /\ IF Overflows(s, aea) THEN r = TakeSnapshot(l, data)
                    ELSE r = CommitFrom(MergeEntries(l, MergePoint(s, aea), aea.entries), aea)
<1> DEFINE g == TermSeen(s, aea.term)
           f == SteppedDown(g)
           l == [f EXCEPT !.currentLeader = aea.leader]
<1>1. s.currentTerm \in Nat
  BY DEF NodeStates
<1>2. g \in NodeStates /\ SameLog(s, g) /\ g.commitIndex = s.commitIndex
  <2>1. g \in NodeStates /\ SameLog(s, g)
    BY TermSeenType, QuietLog
  <2>2. g.commitIndex = s.commitIndex
    BY DEF TermSeen, UpdateCurrentTerm, NodeStates
  <2> QED
    BY <2>1, <2>2
<1> HIDE DEF g
<1>3. f \in NodeStates /\ SameLog(g, f) /\ f.commitIndex = g.commitIndex
  BY <1>2 DEF SteppedDown, StopElectionTimeout, NodeStates, Follower, SameLog
<1> HIDE DEF f
<1>4. l \in NodeStates /\ SameLog(f, l) /\ l.commitIndex = f.commitIndex
  BY <1>3 DEF NodeStates, SameLog
<1> HIDE DEF l
<1>5. SameLog(s, f) /\ SameLog(s, l) /\ f.commitIndex = s.commitIndex /\ l.commitIndex = s.commitIndex
  BY <1>2, <1>3, <1>4 DEF SameLog
<1>6. CASE aea.term < s.currentTerm
  <2>1. r = s
    BY <1>1, <1>6 DEF HandleAppendEntries
  <2>2. ~(aea.term >= s.currentTerm)
    BY <1>1, <1>6
  <2> QED
    BY <2>1, <2>2 DEF SameLog
<1>7. CASE aea.term >= s.currentTerm /\ ~PrevLogOK(s, aea)
  <2>1. r = f
    BY <1>1, <1>7 DEF HandleAppendEntries, f, g
  <2> QED
    BY <1>5, <1>7, <2>1
<1>8. CASE aea.term >= s.currentTerm /\ PrevLogOK(s, aea)
  <2>1. r = IF Overflows(s, aea) THEN TakeSnapshot(l, data)
            ELSE CommitFrom(MergeEntries(l, MergePoint(s, aea), aea.entries), aea)
    BY <1>1, <1>8 DEF HandleAppendEntries, f, g, l
  <2> QED
    BY <1>4, <1>5, <1>8, <2>1
<1> QED
  BY <1>1, <1>6, <1>7, <1>8

\* The log after the loop over the entries: from position k+1 on it holds entries with
\* the indices and terms of the batch, and it ends there unless it was left alone.
MergedAs(log, k, entries, new) ==
    /\ new \in Seq(Entry) /\ Len(new) >= k + Len(entries)
    /\ new = log \/ Len(new) = k + Len(entries)
    /\ \A j \in 1..k : new[j] = log[j]
    /\ \A j \in 1..Len(entries) :
          /\ new[k+j].index = entries[j].index /\ new[k+j].term = entries[j].term
          /\ new[k+j] = entries[j] \/ (k + j <= Len(log) /\ new[k+j] = log[k+j])

\* The loop leaves such a log.
LEMMA MergedLog ==
    ASSUME NEW log \in Seq(Entry), NEW entries \in Seq(Entry), NEW k \in 0..Len(log),
           NEW new, Merged(log, k, entries, new)
    PROVE  MergedAs(log, k, entries, new)
<1> USE DEF MergedAs
<1> DEFINE n == Len(entries)
<1>0. n \in Nat /\ Len(log) \in Nat
  OBVIOUS
<1>1. ASSUME NEW j \in 1..n, j \notin Differing(log, k, entries)
      PROVE  k + j <= Len(log) /\ log[k+j].index = entries[j].index /\ log[k+j].term = entries[j].term
  <2>1. ~(k + j > Len(log)) /\ log[k+j].index = entries[j].index /\ log[k+j].term = entries[j].term
    BY <1>1 DEF Differing
  <2> QED
    BY <1>0, <2>1
<1>2. CASE new = log /\ Differing(log, k, entries) = {}
  <2>1. n # 0 => k + n <= Len(log)
    BY <1>0, <1>1, <1>2
  <2>2. Len(new) >= k + n
    BY <1>0, <1>2, <2>1
  <2> QED
    BY <1>1, <1>2, <2>2
<1>3. CASE \E d \in Differing(log, k, entries) :
          /\ k + d - 1 \in 0..Len(log)
          /\ \A j \in Differing(log, k, entries) : d <= j
          /\ new = SubSeq(log, 1, k + d - 1) \o SubSeq(entries, d, Len(entries))
  <2>1. PICK d \in Differing(log, k, entries) :
          /\ k + d - 1 \in 0..Len(log)
          /\ \A j \in Differing(log, k, entries) : d <= j
          /\ new = SubSeq(log, 1, k + d - 1) \o SubSeq(entries, d, Len(entries))
    BY <1>3
  <2>2. d \in 1..n
    BY <2>1 DEF Differing
  <2> DEFINE a == SubSeq(log, 1, k + d - 1)
             b == SubSeq(entries, d, Len(entries))
  <2>3. /\ a \in Seq(Entry) /\ Len(a) = k + d - 1
        /\ \A x \in 1..(k + d - 1) : a[x] = log[x]
    BY <1>0, <2>1, <2>2, SMTT(40)
  <2>4. /\ b \in Seq(Entry) /\ Len(b) = n - d + 1
        /\ \A x \in 1..(n - d + 1) : b[x] = entries[d + x - 1]
    BY <1>0, <2>2, SMTT(40)
  <2>5. new = a \o b
    BY <2>1
  <2> HIDE DEF a, b
  <2>6. new \in Seq(Entry) /\ Len(new) = k + n
    <3>1. new \in Seq(Entry) /\ Len(new) = Len(a) + Len(b)
      BY <2>3, <2>4, <2>5, ConcatProperties
    <3>2. (k + d - 1) + (n - d + 1) = k + n
      BY <1>0, <2>2
    <3> QED
      BY <2>3, <2>4, <3>1, <3>2
  <2>7. \A x \in 1..(k + d - 1) : new[x] = log[x]
    BY <1>0, <2>2, <2>3, <2>4, <2>5
  <2>8. ASSUME NEW x \in (k + d)..(k + n) PROVE new[x] = entries[x - k]
    <3>1. new[x] = b[x - (k + d - 1)]
      BY <1>0, <2>2, <2>3, <2>4, <2>5, SMTT(40)
    <3>2. x - (k + d - 1) \in 1..(n - d + 1) /\ d + (x - (k + d - 1)) - 1 = x - k
      BY <1>0, <2>2
    <3> QED
      BY <2>4, <3>1, <3>2
  <2>9. ASSUME NEW j \in 1..n
        PROVE  /\ new[k+j].index = entries[j].index /\ new[k+j].term = entries[j].term
               /\ new[k+j] = entries[j] \/ (k + j <= Len(log) /\ new[k+j] = log[k+j])
    <3>1. CASE j >= d
      <4>1. k + j \in (k + d)..(k + n) /\ (k + j) - k = j
        BY <1>0, <2>2, <3>1
      <4>2. new[k+j] = entries[j]
        BY <2>8, <4>1
      <4> QED
        BY <4>2
    <3>2. CASE ~(j >= d)
      <4>1. j \notin Differing(log, k, entries)
        BY <2>1, <2>2, <3>2
      <4>2. k + j <= Len(log) /\ log[k+j].index = entries[j].index /\ log[k+j].term = entries[j].term
        BY <1>1, <4>1
      <4>3. k + j \in 1..(k + d - 1)
        BY <2>2, <3>2
      <4>4. new[k+j] = log[k+j]
        BY <2>7, <4>3
      <4> QED
        BY <4>2, <4>4
    <3> QED
      BY <3>1, <3>2
  <2>10. \A j \in 1..k : new[j] = log[j]
    <3> TAKE j \in 1..k
    <3>1. j \in 1..(k + d - 1)
      BY <2>2
    <3> QED
      BY <2>7, <3>1
  <2>11. Len(new) >= k + n
    BY <1>0, <2>6
  <2> QED
    BY <2>6, <2>9, <2>10, <2>11
<1>4. \/ new = log /\ Differing(log, k, entries) = {}
      \/ \E d \in Differing(log, k, entries) :
          /\ k + d - 1 \in 0..Len(log)
          /\ \A j \in Differing(log, k, entries) : d <= j
          /\ new = SubSeq(log, 1, k + d - 1) \o SubSeq(entries, d, Len(entries))
  BY DEF Merged
<1> QED
  BY <1>2, <1>3, <1>4

\* takeSnapshot on the log.
LEMMA TakeSnapshotLog ==
    ASSUME NEW x \in NodeStates, NEW data, NEW r, r = TakeSnapshot(x, data)
    PROVE  /\ r.lastApplied = x.lastApplied /\ r.commitIndex = x.commitIndex
           /\ \/ r.log = x.log /\ r.snap = x.snap
              \/ \E k \in 1..Len(x.log) :
                    /\ x.log[k].index = x.lastApplied
                    /\ r.log = SubSeq(x.log, k + 1, Len(x.log))
                    /\ r.snap.idx = x.lastApplied
<1> DEFINE k  == FindArrayIdx(x.log, x.lastApplied)
           sn == [idx |-> x.log[k].index, term |-> x.log[k].term, data |-> data, config |-> x.config]
           g  == SubSeq(x.log, k + 1, Len(x.log))
<1>1. x.log \in Seq(Entry)
  BY DEF NodeStates
<1>2. CASE k = 0
  BY <1>2 DEF TakeSnapshot
<1>3. CASE k # 0
  <2>1. k \in 1..Len(x.log) /\ x.log[k].index = x.lastApplied
    BY <1>1, <1>3, FindArrayIdxFinds
  <2>2. r = [x EXCEPT !.snap = sn, !.log = g]
    BY <1>3 DEF TakeSnapshot
  <2>3. sn.idx = x.log[k].index
    OBVIOUS
  <2> HIDE DEF sn, g
  <2>4. /\ r.lastApplied = x.lastApplied /\ r.commitIndex = x.commitIndex
        /\ r.log = g /\ r.snap = sn
    BY <2>2 DEF NodeStates
  <2> QED
    BY <2>1, <2>3, <2>4 DEF g
<1> QED
  BY <1>2, <1>3

\* handleInstallSnapshot: the snapshot takes the place of the log, or nothing
\* changes but a newer term.
LEMMA InstallSnapshotLog ==
    ASSUME NEW s \in NodeStates, NEW isa, isa.term \in Nat, isa.idx \in Nat, isa.lastTerm \in Nat,
           isa.data \in Seq(Command), isa.config \in SUBSET Server,
           NEW r, r = HandleInstallSnapshot(s, isa)
    PROVE  /\ r \in NodeStates /\ r.role = s.role /\ r.currentLeader = s.currentLeader
           /\ r.matchIndex = s.matchIndex /\ r.nextIndex = s.nextIndex /\ r.lastSent = s.lastSent
           /\ r.currentTerm = TermSeen(s, isa.term).currentTerm
           /\ IF Installs(s, isa)
              THEN /\ r.log = <<>> /\ r.commitIndex = isa.idx /\ r.lastApplied = isa.idx
                   /\ r.snap # Nil /\ r.snap.idx = isa.idx /\ r.snap.term = isa.lastTerm
              ELSE SameLog(s, r) /\ r.commitIndex = s.commitIndex
<1> DEFINE g  == TermSeen(s, isa.term)
           sn == [idx |-> isa.idx, term |-> isa.lastTerm, data |-> isa.data, config |-> isa.config]
           e  == <<>>
           i  == isa.idx
<1>1. g \in NodeStates /\ SameLog(s, g)
  BY TermSeenType, QuietLog
<1>2. /\ g.commitIndex = s.commitIndex /\ g.role = s.role /\ g.currentLeader = s.currentLeader
      /\ g.matchIndex = s.matchIndex /\ g.nextIndex = s.nextIndex /\ g.lastSent = s.lastSent
  BY DEF TermSeen, UpdateCurrentTerm, NodeStates
<1>3. sn \in Snapshot /\ sn.idx = isa.idx /\ sn.term = isa.lastTerm
  BY DEF Snapshot
<1>4. sn # Nil
  BY <1>3, NilAssumption
<1>5. e \in Seq(Entry) /\ i \in Index
  BY DEF Index
<1>6. r = IF Installs(s, isa)
          THEN [g EXCEPT !.snap = sn, !.log = e, !.commitIndex = i, !.lastApplied = i]
          ELSE g
  BY DEF HandleInstallSnapshot
<1>7. CASE ~Installs(s, isa)
  BY <1>1, <1>2, <1>6, <1>7
<1>8. CASE Installs(s, isa)
  <2> HIDE DEF g, sn, e, i
  <2>1. r = [g EXCEPT !.snap = sn, !.log = e, !.commitIndex = i, !.lastApplied = i]
    BY <1>6, <1>8
  <2>2. r \in NodeStates
    BY <1>1, <1>3, <1>5, <2>1, ZenonT(40) DEF NodeStates
  <2>3. /\ r.snap = sn /\ r.log = e /\ r.commitIndex = i /\ r.lastApplied = i
        /\ r.role = g.role /\ r.currentTerm = g.currentTerm /\ r.currentLeader = g.currentLeader
        /\ r.matchIndex = g.matchIndex /\ r.nextIndex = g.nextIndex /\ r.lastSent = g.lastSent
    BY <1>1, <2>1 DEF NodeStates
  <2> QED
    BY <1>2, <1>3, <1>4, <1>8, <2>2, <2>3 DEF e, i, g
<1> QED
  BY <1>7, <1>8

\* handleInstallSnapshotResponse leaves the log alone.
LEMMA InstallResponseLog ==
    ASSUME NEW s \in NodeStates, NEW isr, isr.term \in Nat, isr.src \in Server,
           isr.success \in BOOLEAN, isr.idx \in Nat,
           NEW r, r = HandleInstallSnapshotResponse(s, isr)
    PROVE  /\ r \in NodeStates /\ SameLog(s, r) /\ r.commitIndex = s.commitIndex
           /\ isr.success => /\ r.role = s.role /\ r.currentTerm = s.currentTerm
                             /\ r.currentLeader = s.currentLeader
                             /\ r.lastSent   = [s.lastSent   EXCEPT ![isr.src] = isr.idx]
                             /\ r.nextIndex  = [s.nextIndex  EXCEPT ![isr.src] = isr.idx + 1]
                             /\ r.matchIndex = [s.matchIndex EXCEPT ![isr.src] = isr.idx]
<1>1. s.currentTerm \in Nat
  BY DEF NodeStates
<1>2. CASE ~isr.success /\ isr.term >= s.currentTerm
  <2> DEFINE g == UpdateCurrentTerm(s, isr.term)
  <2>1. r = [g EXCEPT !.role = Follower, !.currentLeader = isr.src]
    BY <1>1, <1>2 DEF HandleInstallSnapshotResponse
  <2>2. g \in NodeStates /\ SameLog(s, g) /\ g.commitIndex = s.commitIndex
    BY DEF UpdateCurrentTerm, NodeStates, SameLog
  <2> HIDE DEF g
  <2>3. r \in NodeStates
    BY <2>1, <2>2 DEF NodeStates, Follower
  <2>4. SameLog(g, r) /\ r.commitIndex = g.commitIndex
    BY <2>1, <2>2 DEF NodeStates, SameLog
  <2> QED
    BY <1>2, <2>2, <2>3, <2>4 DEF SameLog
<1>3. CASE ~isr.success /\ ~(isr.term >= s.currentTerm)
  <2>1. r = s
    BY <1>1, <1>3 DEF HandleInstallSnapshotResponse
  <2> QED
    BY <1>3, <2>1 DEF SameLog
<1>4. CASE isr.success
  <2> DEFINE a == [s.lastSent   EXCEPT ![isr.src] = isr.idx]
             b == [s.nextIndex  EXCEPT ![isr.src] = isr.idx + 1]
             c == [s.matchIndex EXCEPT ![isr.src] = isr.idx]
  <2>1. r = [s EXCEPT !.lastSent = a, !.nextIndex = b, !.matchIndex = c]
    BY <1>4 DEF HandleInstallSnapshotResponse
  <2>2. isr.idx \in Index /\ isr.idx + 1 \in Nat
    BY DEF Index
  <2>3. a \in [Server -> Index] /\ b \in [Server -> Nat] /\ c \in [Server -> Index]
    BY <2>2 DEF NodeStates
  <2> HIDE DEF a, b, c
  <2>4. r \in NodeStates
    BY <2>1, <2>3, ZenonT(40) DEF NodeStates
  <2>5. /\ SameLog(s, r) /\ r.commitIndex = s.commitIndex /\ r.role = s.role
        /\ r.currentTerm = s.currentTerm /\ r.currentLeader = s.currentLeader
        /\ r.lastSent = a /\ r.nextIndex = b /\ r.matchIndex = c
    BY <2>1 DEF NodeStates, SameLog
  <2> QED
    BY <2>4, <2>5 DEF a, b, c
<1> QED
  BY <1>2, <1>3, <1>4

=============================================================================
