---------------------------- MODULE CatchUpProofs ----------------------------
(***************************************************************************)
(* A follower that a leader brings in line: what it has applied is what    *)
(* the leader has there, wherever the two logs part and for every length   *)
(* of theirs.                                                              *)
(***************************************************************************)
EXTENDS CatchUp, NodeStateProofs

(***************************************************************************)
(* The invariant.  The leader's log never changes and continues its        *)
(* snapshot.  A leader always sends all it has from nextIndex on, so the   *)
(* first AppendEntries the follower accepts brings it in line with the     *)
(* whole log of the leader; until then the follower has what it started    *)
(* with and has committed nothing.                                         *)
(***************************************************************************)
Noops(log) == \A k \in 1..Len(log) : log[k] = Noop(log[k].index, log[k].term)

\* The index before the first one in the log.
Base(s) == IF s.snap = Nil THEN -1 ELSE s.snap.idx

LeaderLog(s) ==
    /\ s \in NodeStates
    /\ Noops(s.log)
    /\ \A k \in 1..Len(s.log) : s.log[k].index = Base(s) + k /\ s.log[k].term > 0
    /\ \A j, k \in 1..Len(s.log) : j <= k => s.log[j].term <= s.log[k].term

\* As it was at the start: entries of term 1, none of them committed.
Untouched(s) ==
    /\ s.snap = Nil /\ s.commitIndex = -1 /\ s.lastApplied = -1
    /\ \A k \in 1..Len(s.log) : s.log[k].index = k - 1 /\ s.log[k].term = 1

\* Where both logs have an entry it is the same one.
Agree(log, other) ==
    \A k \in 1..Len(log), j \in 1..Len(other) :
        log[k].index = other[j].index => log[k] = other[j]

FollowerLog(s, l) ==
    /\ s \in NodeStates
    /\ Noops(s.log)
    /\ Untouched(s) \/ Agree(s.log, l.log)

\* The entries are all that l has after its first q, and prevLog is the one before.
SentBy(l, m) ==
    \E q \in 0..Len(l.log) :
        /\ m.entries = SubSeq(l.log, q + 1, Len(l.log))
        /\ m.prevIdx = Base(l) + q
        /\ q > 0 => m.prevTerm = l.log[q].term

RpcOK(l, m) ==
    \/ /\ m.type = "append"
       /\ m.term \in Nat /\ m.leader \in Server \cup {Nil} /\ m.commit \in Index
       /\ SentBy(l, m)
    \/ /\ m.type = "install"
       /\ m.term \in Nat /\ m.idx \in Nat /\ m.lastTerm \in Nat
       /\ m.data \in Seq(Command) /\ m.config \in SUBSET Server
    \/ /\ m.type = "appended"
       /\ m.src = F /\ m.term \in Nat /\ m.success \in BOOLEAN /\ m.lastIdx \in Index
    \/ /\ m.type = "installed"
       /\ m.src = F /\ m.term \in Nat /\ m.success \in BOOLEAN /\ m.idx \in Nat

CatchUpInv ==
    /\ LeaderLog(leader)
    /\ FollowerLog(follower, leader)
    /\ rpc # Nil => RpcOK(leader, rpc)

-----------------------------------------------------------------------------
(***************************************************************************)
(* The leader.                                                             *)
(***************************************************************************)
\* What keeps log and snapshot keeps all of this.
LEMMA LeaderSame ==
    ASSUME NEW l, LeaderLog(l), NEW r \in NodeStates, r.log = l.log, r.snap = l.snap
    PROVE  /\ LeaderLog(r)
           /\ \A s : FollowerLog(s, l) => FollowerLog(s, r)
           /\ \A m : RpcOK(l, m) => RpcOK(r, m)
<1>1. Base(r) = Base(l)
  BY DEF Base
<1>2. LeaderLog(r)
  BY <1>1 DEF LeaderLog
<1>3. \A s : FollowerLog(s, l) => FollowerLog(s, r)
  BY DEF FollowerLog
<1>4. \A m : SentBy(l, m) => SentBy(r, m)
  BY <1>1 DEF SentBy
<1>5. \A m : RpcOK(l, m) => RpcOK(r, m)
  BY <1>4 DEF RpcOK
<1> QED
  BY <1>2, <1>3, <1>5

\* The last index of the leader, from where its log starts.
LEMMA LeaderLast ==
    ASSUME NEW l, LeaderLog(l)
    PROVE  /\ Base(l) \in Index /\ Len(l.log) \in Nat
           /\ LastLogIdx(l) = Base(l) + Len(l.log)
           /\ l.log # <<>> => LastLogTerm(l) = l.log[Len(l.log)].term
<1>1. l.log \in Seq(Entry) /\ l.snap \in Snapshot \cup {Nil}
  BY DEF LeaderLog, NodeStates
<1>2. Base(l) \in Index
  BY <1>1 DEF Base, Snapshot, Index
<1>3. Len(l.log) \in Nat
  BY <1>1
<1>4. CASE l.log = <<>>
  <2>1. Len(l.log) = 0
    BY <1>4
  <2>2. LastLogIdx(l) = Base(l)
    BY <1>4 DEF LastLogIdx, Base
  <2>3. Base(l) \in Int
    BY <1>2 DEF Index
  <2> QED
    BY <1>2, <1>3, <1>4, <2>1, <2>2, <2>3
<1>5. CASE l.log # <<>>
  <2>1. Len(l.log) \in 1..Len(l.log)
    BY <1>1, <1>5
  <2>2. LastLogIdx(l) = l.log[Len(l.log)].index /\ LastLogTerm(l) = l.log[Len(l.log)].term
    BY <1>5 DEF LastLogIdx, LastLogTerm
  <2> QED
    BY <1>2, <1>3, <2>1, <2>2 DEF LeaderLog
<1> QED
  BY <1>4, <1>5

\* getAppendEntriesArgs: the rest of the log, and what comes before it.
LEMMA AppendReqSent ==
    ASSUME NEW l, LeaderLog(l), F \in Server
    PROVE  RpcOK(l, AppendReq(l))
<1> DEFINE k == FindArrayIdx(l.log, l.nextIndex[F])
           n == Len(l.log)
           m == AppendReq(l)
<1>1. l \in NodeStates /\ l.log \in Seq(Entry)
  BY DEF LeaderLog, NodeStates
<1>2. /\ m.type = "append" /\ m.term = l.currentTerm /\ m.leader = l.currentLeader
      /\ m.commit = l.commitIndex /\ m.entries = EntriesFor(l, F)
      /\ m.prevIdx = PrevFor(l, F).idx /\ m.prevTerm = PrevFor(l, F).term
  BY DEF AppendReq, AppendEntriesArgs
<1>3. l.currentTerm \in Nat /\ l.currentLeader \in Server \cup {Nil} /\ l.commitIndex \in Index
  BY <1>1 DEF NodeStates
<1>4. n \in Nat /\ Base(l) \in Int /\ LastLogIdx(l) = Base(l) + n
  BY LeaderLast DEF Index
<1>5. k \in 0..n
  BY <1>1, FindArrayIdxType
<1>6. EntriesFor(l, F) = IF k = 0 THEN <<>> ELSE SubSeq(l.log, k, n)
  BY DEF EntriesFor
<1>7. PrevFor(l, F) =
        CASE k = 0                 -> [idx |-> LastLogIdx(l), term |-> LastLogTerm(l)]
          [] k = 1 /\ l.snap # Nil -> [idx |-> l.snap.idx, term |-> l.snap.term]
          [] k > 1                 -> [idx |-> l.log[k-1].index, term |-> l.log[k-1].term]
          [] OTHER                 -> [idx |-> -1, term |-> -1]
  BY DEF PrevFor
<1> HIDE DEF k, m
<1>8. SentBy(l, m)
  <2>1. CASE k = 0
    <3>1. SubSeq(l.log, n + 1, n) = <<>>
      BY <1>1
    <3>2. m.prevIdx = Base(l) + n /\ m.prevTerm = LastLogTerm(l)
      BY <1>2, <1>4, <1>7, <2>1
    <3>3. n > 0 => m.prevTerm = l.log[n].term
      BY <1>1, <3>2, LeaderLast
    <3>4. m.entries = SubSeq(l.log, n + 1, Len(l.log))
      BY <1>2, <1>6, <2>1, <3>1
    <3>5. n \in 0..Len(l.log)
      <4>1. \A x \in Nat : x \in 0..x
        OBVIOUS
      <4> QED
        BY <1>4, <4>1
    <3> QED
      BY <3>2, <3>3, <3>4, <3>5 DEF SentBy
  <2>2. CASE k = 1
    <3>1. m.entries = SubSeq(l.log, 0 + 1, Len(l.log)) /\ 0 \in 0..Len(l.log)
      BY <1>2, <1>4, <1>6, <2>2
    <3>2. PrevFor(l, F).idx = Base(l)
      BY <1>7, <2>2 DEF Base
    <3>3. m.prevIdx = Base(l) + 0
      BY <1>2, <1>4, <3>2
    <3> QED
      BY <3>1, <3>3 DEF SentBy
  <2>3. CASE k > 1
    <3>1. k - 1 \in 0..n /\ k - 1 \in 1..n /\ (k - 1) + 1 = k /\ k # 0 /\ k # 1
      BY <1>4, <1>5, <2>3
    <3>2. PrevFor(l, F) = [idx |-> l.log[k-1].index, term |-> l.log[k-1].term]
      BY <1>7, <2>3, <3>1
    <3>3. m.prevIdx = Base(l) + (k - 1) /\ m.prevTerm = l.log[k-1].term
      BY <1>2, <3>1, <3>2 DEF LeaderLog
    <3>4. m.entries = SubSeq(l.log, (k - 1) + 1, Len(l.log))
      BY <1>2, <1>6, <3>1
    <3> QED
      BY <3>1, <3>3, <3>4 DEF SentBy
  <2> QED
    BY <1>4, <1>5, <2>1, <2>2, <2>3
<1> QED
  BY <1>2, <1>3, <1>8 DEF RpcOK, m

\* An entry that was compacted is in the snapshot, so there is one.
LEMMA CompactedSnap ==
    ASSUME NEW l, LeaderLog(l), F \in Server, NextEntryCompacted(l, F)
    PROVE  l.snap # Nil
<1> SUFFICES ASSUME l.snap = Nil PROVE FALSE
  OBVIOUS
<1> DEFINE i == l.nextIndex[F]
<1>1. l.log \in Seq(Entry) /\ i \in Nat
  BY DEF LeaderLog, NodeStates
<1>2. FindArrayIdx(l.log, i) = 0 /\ i <= LastLogIdx(l)
  BY DEF NextEntryCompacted
<1>3. Base(l) = -1
  BY DEF Base
<1>4. i <= -1 + Len(l.log) /\ Len(l.log) \in Nat
  BY <1>2, <1>3, LeaderLast
<1> HIDE DEF i
<1>5. i + 1 \in 1..Len(l.log) /\ -1 + (i + 1) = i
  BY <1>1, <1>4
<1>6. l.log[i + 1].index = i
  BY <1>3, <1>5 DEF LeaderLog
<1> QED
  BY <1>1, <1>2, <1>5, <1>6, FindArrayIdxFinds

\* InstallSnapshot carries the snapshot.
LEMMA InstallReqSent ==
    ASSUME NEW l, LeaderLog(l), l.snap # Nil
    PROVE  RpcOK(l, InstallReq(l))
<1>1. l.currentTerm \in Nat /\ l.snap \in Snapshot
  BY DEF LeaderLog, NodeStates
<1>2. /\ l.snap.idx \in Nat /\ l.snap.term \in Nat
      /\ l.snap.data \in Seq(Command) /\ l.snap.config \in SUBSET Server
  BY <1>1 DEF Snapshot
<1> DEFINE m == InstallReq(l)
<1>3. /\ m.type = "install" /\ m.term = l.currentTerm /\ m.idx = l.snap.idx
      /\ m.lastTerm = l.snap.term /\ m.data = l.snap.data /\ m.config = l.snap.config
  BY DEF InstallReq, InstallArgs
<1> HIDE DEF m
<1>4. RpcOK(l, m)
  BY <1>1, <1>2, <1>3 DEF RpcOK
<1> QED
  BY <1>4 DEF m

-----------------------------------------------------------------------------
(***************************************************************************)
(* The follower.                                                           *)
(***************************************************************************)
\* Entries of a leader's log are told apart by their index.
LEMMA SamePlace ==
    ASSUME NEW l, LeaderLog(l), NEW i \in 1..Len(l.log), NEW j \in 1..Len(l.log),
           l.log[i].index = l.log[j].index
    PROVE  i = j
<1>1. Base(l) \in Int
  BY LeaderLast DEF Index
<1>2. Base(l) + i = Base(l) + j
  BY DEF LeaderLog
<1> QED
  BY <1>1, <1>2

\* Where an untouched log accepts the batch: the entry before it is at the same
\* index on both sides, and everything up to there is the same.
LEMMA AcceptedHead ==
    ASSUME NEW l, LeaderLog(l), NEW s \in NodeStates, Untouched(s), Noops(s.log),
           NEW m, NEW q \in 0..Len(l.log), m.prevIdx = Base(l) + q,
           q > 0 => m.prevTerm = l.log[q].term,
           PrevLogOK(s, m), NEW k, k = MergePoint(s, m)
    PROVE  /\ k \in 0..Len(s.log) /\ k = Base(l) + q + 1
           /\ \A x \in 1..k, j \in 1..Len(l.log) :
                 s.log[x].index = l.log[j].index => s.log[x] = l.log[j]
<1> DEFINE f == FindArrayIdx(s.log, m.prevIdx)
<1>1. /\ s.log \in Seq(Entry) /\ s.snap = Nil
      /\ \A x \in 1..Len(s.log) : s.log[x].index = x - 1 /\ s.log[x].term = 1
  BY DEF NodeStates, Untouched
<1>2. Base(l) \in Int /\ Base(l) >= -1 /\ Len(l.log) \in Nat
  BY LeaderLast DEF Index
<1>3. m.prevIdx < 0 \/ (f # 0 /\ s.log[f].term = m.prevTerm)
  BY <1>1 DEF PrevLogOK
<1>4. k = IF m.prevIdx < 0 THEN 0 ELSE f
  BY DEF MergePoint
<1>5. f # 0 => f \in 1..Len(s.log) /\ s.log[f].index = m.prevIdx
  BY <1>1, FindArrayIdxFinds
<1> HIDE DEF f
<1>6. CASE m.prevIdx < 0
  <2>1. k = 0 /\ Base(l) + q < 0
    BY <1>4, <1>6
  <2>2. k = Base(l) + q + 1
    BY <1>2, <2>1
  <2>3. 1..k = {}
    BY <2>1
  <2> QED
    BY <1>1, <2>1, <2>2, <2>3
<1>7. CASE ~(m.prevIdx < 0)
  <2>1. k = f /\ k \in 1..Len(s.log) /\ s.log[k].index = m.prevIdx /\ s.log[k].term = m.prevTerm
    BY <1>3, <1>4, <1>5, <1>7
  <2>2. k - 1 = Base(l) + q /\ m.prevTerm = 1
    BY <1>1, <2>1
  <2>3. k \in Nat /\ k = Base(l) + q + 1
    BY <1>2, <2>1, <2>2
  <2>4. ASSUME NEW x \in 1..k, NEW j \in 1..Len(l.log), s.log[x].index = l.log[j].index
        PROVE  s.log[x] = l.log[j]
    <3>1. x \in 1..Len(s.log)
      BY <2>1, <2>3
    <3>2. s.log[x].index = x - 1 /\ s.log[x].term = 1 /\ s.log[x] = Noop(s.log[x].index, s.log[x].term)
      BY <1>1, <3>1 DEF Noops
    <3>3. l.log[j].index = Base(l) + j /\ l.log[j].term > 0 /\ l.log[j] = Noop(l.log[j].index, l.log[j].term)
      BY DEF LeaderLog, Noops
    <3>4. x - 1 = Base(l) + j
      BY <2>4, <3>2, <3>3
    <3>5. j <= q /\ q > 0
      <4>1. x \in Int /\ j \in Int /\ q \in Int /\ x <= k /\ j >= 1
        BY <2>3
      <4> QED
        BY <1>2, <2>2, <2>3, <3>4, <4>1
    <3>6. q \in 1..Len(l.log)
      BY <3>5
    <3>7. l.log[j].term <= l.log[q].term
      BY <3>5, <3>6 DEF LeaderLog
    <3>8. l.log[q].term = 1
      BY <2>2, <3>5
    <3>9. l.log[j].term \in Nat
      <4>1. l.log[j] \in Entry
        BY DEF LeaderLog, NodeStates
      <4> QED
        BY <4>1 DEF Entry
    <3>10. l.log[j].term = 1
      BY <3>3, <3>7, <3>8, <3>9
    <3> QED
      BY <2>4, <3>2, <3>3, <3>10
  <2>5. k \in 0..Len(s.log)
    BY <2>1
  <2> QED
    BY <2>3, <2>4, <2>5
<1> QED
  BY <1>6, <1>7

\* The loop over the entries of such a batch brings the whole log in line.
LEMMA MergeAgrees ==
    ASSUME NEW l, LeaderLog(l), NEW s, FollowerLog(s, l), NEW m, SentBy(l, m),
           PrevLogOK(s, m), NEW new, Merged(s.log, MergePoint(s, m), m.entries, new)
    PROVE  Noops(new) /\ Agree(new, l.log)
<1> DEFINE k   == MergePoint(s, m)
           log == s.log
           es  == m.entries
           n   == Len(l.log)
<1>1. /\ s \in NodeStates /\ log \in Seq(Entry) /\ l.log \in Seq(Entry) /\ Noops(log)
      /\ Noops(l.log)
  BY DEF FollowerLog, LeaderLog, NodeStates
<1>2. PICK q \in 0..n : /\ es = SubSeq(l.log, q + 1, n)
                        /\ m.prevIdx = Base(l) + q
                        /\ q > 0 => m.prevTerm = l.log[q].term
  BY DEF SentBy
<1>3. k \in 0..Len(log) /\ n \in Nat /\ Len(log) \in Nat
  BY <1>1, MergePointType
<1>4. /\ es \in Seq(Entry) /\ Len(es) = n - q
      /\ \A i \in 1..(n - q) : es[i] = l.log[q + i]
  BY <1>1, <1>2, <1>3, SMTT(40)
<1>5. ASSUME NEW i \in 1..(n - q) PROVE q + i \in 1..n
  BY <1>2, <1>3
<1> HIDE DEF k, log, es
<1>6. log \in Seq(Entry) /\ es \in Seq(Entry) /\ k \in 0..Len(log) /\ Merged(log, k, es, new)
  BY <1>1, <1>3, <1>4 DEF k, log, es
<1>7. /\ new \in Seq(Entry) /\ Len(new) >= k + Len(es)
      /\ new = log \/ Len(new) = k + Len(es)
      /\ \A j \in 1..k : new[j] = log[j]
      /\ \A j \in 1..Len(es) :
            /\ new[k+j].index = es[j].index /\ new[k+j].term = es[j].term
            /\ new[k+j] = es[j] \/ (k + j <= Len(log) /\ new[k+j] = log[k+j])
  <2>1. MergedAs(log, k, es, new)
    BY <1>6, MergedLog, Zenon
  <2> QED
    BY <2>1 DEF MergedAs
\* From the batch on, up to its end, the log has the leader's entries.
<1>8. ASSUME NEW i \in 1..(n - q) PROVE new[k+i] = l.log[q+i]
  <2>1. /\ new[k+i].index = es[i].index /\ new[k+i].term = es[i].term
        /\ new[k+i] = es[i] \/ (k + i <= Len(log) /\ new[k+i] = log[k+i])
    BY <1>4, <1>7
  <2>2. es[i] = l.log[q+i] /\ es[i] = Noop(es[i].index, es[i].term)
    BY <1>1, <1>4, <1>5 DEF Noops
  <2>3. CASE new[k+i] = es[i]
    BY <2>2, <2>3
  <2>4. CASE k + i <= Len(log) /\ new[k+i] = log[k+i]
    <3>1. k + i \in 1..Len(log)
      BY <1>3, <2>4
    <3>2. log[k+i] = Noop(log[k+i].index, log[k+i].term)
      BY <1>1, <3>1 DEF Noops
    <3> QED
      BY <2>1, <2>2, <2>4, <3>2
  <2> QED
    BY <2>1, <2>3, <2>4
\* A position of the new log is before the batch, in it, or after it.
<1>9. ASSUME NEW x \in 1..Len(new)
      PROVE  \/ x \in 1..k /\ new[x] = log[x]
             \/ \E i \in 1..(n - q) : x = k + i /\ new[x] = l.log[q+i]
             \/ new = log /\ x > k + (n - q)
  <2>1. CASE x <= k
    BY <1>3, <1>7, <2>1
  <2>2. CASE x > k /\ x <= k + (n - q)
    <3>1. x - k \in 1..(n - q) /\ k + (x - k) = x
      BY <1>2, <1>3, <2>2
    <3> QED
      BY <1>8, <3>1
  <2>3. CASE x > k + (n - q)
    <3>1. Len(new) # k + (n - q)
      BY <1>2, <1>3, <2>3
    <3> QED
      BY <1>4, <1>7, <2>3, <3>1
  <2>4. x <= k \/ (x > k /\ x <= k + (n - q)) \/ x > k + (n - q)
    BY <1>2, <1>3
  <2> QED
    BY <2>1, <2>2, <2>3, <2>4
<1>10. ASSUME NEW x \in 1..k PROVE x \in 1..Len(log)
  BY <1>3
<1>11. Noops(new)
  <2>1. ASSUME NEW x \in 1..Len(new) PROVE new[x] = Noop(new[x].index, new[x].term)
    <3>1. CASE x \in 1..k /\ new[x] = log[x]
      BY <1>1, <1>10, <3>1 DEF Noops
    <3>2. CASE \E i \in 1..(n - q) : x = k + i /\ new[x] = l.log[q+i]
      BY <1>1, <1>5, <3>2 DEF Noops
    <3>3. CASE new = log /\ x > k + (n - q)
      BY <1>1, <3>3 DEF Noops
    <3> QED
      BY <1>9, <3>1, <3>2, <3>3
  <2> QED
    BY <2>1 DEF Noops
<1>12. ASSUME NEW x \in 1..Len(new), NEW j \in 1..n, new[x].index = l.log[j].index
       PROVE  new[x] = l.log[j]
  <2>1. CASE \E i \in 1..(n - q) : x = k + i /\ new[x] = l.log[q+i]
    <3>1. PICK i \in 1..(n - q) : new[x] = l.log[q+i]
      BY <2>1
    <3>2. q + i = j
      BY <1>5, <1>12, <3>1, SamePlace
    <3> QED
      BY <3>1, <3>2
  <2>2. CASE Agree(log, l.log)
    <3>1. CASE x \in 1..k /\ new[x] = log[x]
      BY <1>10, <1>12, <2>2, <3>1 DEF Agree
    <3>2. CASE new = log
      BY <1>12, <2>2, <3>2 DEF Agree
    <3> QED
      BY <1>9, <2>1, <3>1, <3>2
  <2>3. CASE Untouched(s)
    <3>1. /\ k = Base(l) + q + 1
          /\ \A y \in 1..k, i \in 1..n : log[y].index = l.log[i].index => log[y] = l.log[i]
      <4>1. Noops(s.log)
        BY <1>1 DEF log
      <4>2. /\ MergePoint(s, m) = Base(l) + q + 1
            /\ \A y \in 1..MergePoint(s, m), i \in 1..Len(l.log) :
                  s.log[y].index = l.log[i].index => s.log[y] = l.log[i]
        BY <1>1, <1>2, <2>3, <4>1, AcceptedHead
      <4> QED
        BY <4>2 DEF k, log
    <3>2. CASE x \in 1..k /\ new[x] = log[x]
      BY <1>12, <3>1, <3>2
    <3>3. CASE new = log /\ x > k + (n - q)
      <4>1. new[x].index = x - 1
        BY <2>3, <3>3 DEF Untouched, log
      <4>2. x - 1 = Base(l) + j
        BY <1>12, <4>1 DEF LeaderLog
      <4>3. Base(l) \in Int
        BY LeaderLast DEF Index
      <4>4. x \in Int /\ j <= n /\ j \in Int /\ q \in Int
        BY <1>2, <1>3
      <4>5. FALSE
        BY <1>3, <3>1, <3>3, <4>2, <4>3, <4>4, SMTT(40)
      <4> QED
        BY <4>5
    <3> QED
      BY <1>9, <2>1, <3>2, <3>3
  <2> QED
    BY <2>2, <2>3 DEF FollowerLog, log
<1> QED
  BY <1>11, <1>12 DEF Agree

\* What leaves log, snapshot and indices alone.
LEMMA FollowerSame ==
    ASSUME NEW l, NEW s, FollowerLog(s, l), NEW r \in NodeStates, SameLog(s, r),
           r.commitIndex = s.commitIndex
    PROVE  FollowerLog(r, l)
<1>1. r.log = s.log /\ r.snap = s.snap /\ r.lastApplied = s.lastApplied
  BY DEF SameLog
<1> QED
  BY <1>1 DEF FollowerLog, Untouched

\* takeSnapshot: an untouched log has nothing to compact.
LEMMA CompactKeeps ==
    ASSUME NEW l, NEW s, FollowerLog(s, l), NEW data \in Seq(Command),
           NEW r, r = TakeSnapshot(s, data)
    PROVE  FollowerLog(r, l)
<1>1. s \in NodeStates /\ s.log \in Seq(Entry) /\ Noops(s.log)
  BY DEF FollowerLog, NodeStates
<1>2. r \in NodeStates
  BY <1>1, TakeSnapshotType
<1>3. /\ r.lastApplied = s.lastApplied /\ r.commitIndex = s.commitIndex
      /\ \/ r.log = s.log /\ r.snap = s.snap
         \/ \E k \in 1..Len(s.log) :
               /\ s.log[k].index = s.lastApplied
               /\ r.log = SubSeq(s.log, k + 1, Len(s.log))
  BY <1>1, TakeSnapshotLog
<1>4. CASE r.log = s.log /\ r.snap = s.snap
  BY <1>2, <1>3, <1>4, FollowerSame DEF SameLog
<1>5. CASE \E k \in 1..Len(s.log) :
              /\ s.log[k].index = s.lastApplied
              /\ r.log = SubSeq(s.log, k + 1, Len(s.log))
  <2>1. PICK k \in 1..Len(s.log) :
              /\ s.log[k].index = s.lastApplied
              /\ r.log = SubSeq(s.log, k + 1, Len(s.log))
    BY <1>5
  <2>2. s.log[k].index \in Nat
    <3>1. s.log[k] \in Entry
      BY <1>1
    <3> QED
      BY <3>1 DEF Entry
  <2>3. Agree(s.log, l.log)
    <3>1. s.lastApplied # -1
      BY <2>1, <2>2
    <3> QED
      BY <3>1 DEF FollowerLog, Untouched
  <2>4. ASSUME NEW x \in 1..Len(r.log) PROVE k + x \in 1..Len(s.log) /\ r.log[x] = s.log[k + x]
    BY <1>1, <2>1, SMTT(40)
  <2>5. Noops(r.log)
    BY <1>1, <2>4 DEF Noops
  <2>6. Agree(r.log, l.log)
    <3>1. ASSUME NEW x \in 1..Len(r.log), NEW j \in 1..Len(l.log), r.log[x].index = l.log[j].index
          PROVE  r.log[x] = l.log[j]
      <4>1. k + x \in 1..Len(s.log) /\ r.log[x] = s.log[k + x]
        BY <2>4
      <4> QED
        BY <2>3, <3>1, <4>1 DEF Agree
    <3> QED
      BY <3>1 DEF Agree
  <2> QED
    BY <1>2, <2>5, <2>6 DEF FollowerLog
<1> QED
  BY <1>3, <1>4, <1>5

\* handleAppendEntries.
LEMMA AppendKeeps ==
    ASSUME NEW l, LeaderLog(l), NEW s, FollowerLog(s, l), NEW m,
           m.term \in Nat, m.leader \in Server \cup {Nil}, m.commit \in Index, SentBy(l, m),
           NEW r, r = HandleAppendEntries(s, m, <<>>)
    PROVE  FollowerLog(r, l)
<1>1. s \in NodeStates /\ s.log \in Seq(Entry) /\ l.log \in Seq(Entry)
  BY DEF FollowerLog, LeaderLog, NodeStates
<1>2. m.entries \in Seq(Entry)
  <2>1. PICK q \in 0..Len(l.log) : m.entries = SubSeq(l.log, q + 1, Len(l.log))
    BY DEF SentBy
  <2> QED
    BY <1>1, <2>1
<1>3. <<>> \in Seq(Command)
  OBVIOUS
<1>4. r \in NodeStates
  BY <1>1, <1>2, <1>3, HandleAppendEntriesEffect
<1>5. \/ SameLog(s, r) /\ r.commitIndex = s.commitIndex
      \/ \E b \in NodeStates :
            /\ SameLog(s, b) /\ b.commitIndex = s.commitIndex
            /\ m.term >= s.currentTerm /\ PrevLogOK(s, m)
            /\ IF Overflows(s, m) THEN r = TakeSnapshot(b, <<>>)
               ELSE r = CommitFrom(MergeEntries(b, MergePoint(s, m), m.entries), m)
  BY <1>1, HandleAppendEntriesLog
<1>6. CASE SameLog(s, r) /\ r.commitIndex = s.commitIndex
  BY <1>4, <1>6, FollowerSame
<1>7. ASSUME NEW b \in NodeStates, SameLog(s, b), b.commitIndex = s.commitIndex,
             Overflows(s, m), r = TakeSnapshot(b, <<>>)
      PROVE  FollowerLog(r, l)
  <2>1. FollowerLog(b, l)
    BY <1>7, FollowerSame
  <2> QED
    BY <1>3, <1>7, <2>1, CompactKeeps
<1>8. ASSUME NEW b \in NodeStates, SameLog(s, b), PrevLogOK(s, m),
             r = CommitFrom(MergeEntries(b, MergePoint(s, m), m.entries), m)
      PROVE  FollowerLog(r, l)
  <2> DEFINE k == MergePoint(s, m)
             x == MergeEntries(b, k, m.entries)
  <2>1. b.log = s.log
    BY <1>8 DEF SameLog
  <2>2. k \in 0..Len(b.log)
    BY <1>1, <2>1, MergePointType
  <2> HIDE DEF k
  <2>3. x \in NodeStates
    BY <1>2, <2>2, MergeEntriesType
  <2>4. Merged(b.log, k, m.entries, x.log)
    BY <1>2, <2>2, MergeEntriesLog
  <2>5. r = CommitFrom(x, m)
    BY <1>8 DEF k
  <2> HIDE DEF x
  <2>6. Noops(x.log) /\ Agree(x.log, l.log)
    BY <1>8, <2>1, <2>4, MergeAgrees DEF k
  <2>7. r.log = x.log
    BY <2>3, <2>5, QuietLog DEF SameLog
  <2> QED
    BY <1>4, <2>6, <2>7 DEF FollowerLog
<1> QED
  BY <1>5, <1>6, <1>7, <1>8

\* handleInstallSnapshot: an empty log agrees with every other.
LEMMA InstallKeeps ==
    ASSUME NEW l, NEW s, FollowerLog(s, l), NEW m, m.term \in Nat, m.idx \in Nat,
           m.lastTerm \in Nat, m.data \in Seq(Command), m.config \in SUBSET Server,
           NEW r, r = HandleInstallSnapshot(s, m)
    PROVE  FollowerLog(r, l)
<1>1. s \in NodeStates
  BY DEF FollowerLog
<1>2. /\ r \in NodeStates
      /\ r.log = <<>> \/ (SameLog(s, r) /\ r.commitIndex = s.commitIndex)
  BY <1>1, InstallSnapshotLog
<1>3. CASE r.log = <<>>
  <2>1. 1..Len(r.log) = {}
    BY <1>3
  <2> QED
    BY <1>2, <2>1 DEF FollowerLog, Noops, Agree
<1> QED
  BY <1>2, <1>3, FollowerSame

\* checkLogsToApply: something is committed, so the log is in line.
LEMMA ApplyKeeps ==
    ASSUME NEW l, NEW s, FollowerLog(s, l), CanApply(s),
           NEW r, r = [s EXCEPT !.lastApplied = @ + 1]
    PROVE  FollowerLog(r, l)
<1> DEFINE a == s.lastApplied + 1
<1>1. s \in NodeStates /\ s.commitIndex > s.lastApplied /\ s.lastApplied \in Index
  BY DEF FollowerLog, CanApply, NodeStates
<1>2. Agree(s.log, l.log) /\ Noops(s.log)
  BY <1>1 DEF FollowerLog, Untouched
<1>3. a \in Index
  BY <1>1 DEF Index
<1>4. r = [s EXCEPT !.lastApplied = a]
  OBVIOUS
<1> HIDE DEF a
<1>5. r \in NodeStates /\ r.log = s.log
  BY <1>1, <1>3, <1>4 DEF NodeStates
<1> QED
  BY <1>2, <1>5 DEF FollowerLog

-----------------------------------------------------------------------------
(***************************************************************************)
(* The start.                                                              *)
(***************************************************************************)
\* What is left of a log without its first entries.
LEMMA SuffixOf ==
    ASSUME NEW log \in Seq(Entry), NEW c \in 0..Len(log)
    PROVE  /\ SubSeq(log, c + 1, Len(log)) \in Seq(Entry)
           /\ Len(SubSeq(log, c + 1, Len(log))) = Len(log) - c
           /\ \A k \in 1..(Len(log) - c) : SubSeq(log, c + 1, Len(log))[k] = log[c + k]
  BY SMTT(40)

\* A log of no-ops with the given terms.
LEMMA LogOfTerms ==
    ASSUME NEW terms \in Seq(Nat)
    PROVE  /\ LogOf(terms) \in Seq(Entry) /\ Len(LogOf(terms)) = Len(terms)
           /\ \A k \in 1..Len(terms) : LogOf(terms)[k] = Noop(k - 1, terms[k])
<1>1. Len(terms) \in Nat
  OBVIOUS
<1>2. ASSUME NEW k \in 1..Len(terms) PROVE Noop(k - 1, terms[k]) \in Entry
  <2>1. k - 1 \in Nat /\ terms[k] \in Nat
    OBVIOUS
  <2> QED
    BY <2>1 DEF Noop, Entry
<1>3. LogOf(terms) = [k \in 1..Len(terms) |-> Noop(k - 1, terms[k])]
  BY DEF LogOf
<1>4. LogOf(terms) \in Seq(Entry)
  BY <1>1, <1>2, <1>3
<1> QED
  BY <1>1, <1>3, <1>4

\* The follower of the start.
LEMMA FollowsGood ==
    ASSUME NEW a \in Nat, NEW b \in Nat, NEW l
    PROVE  FollowerLog(Follows(a, b), l)
<1> DEFINE terms == Terms(a + b, 1)
           log   == LogOf(terms)
           one   == 1
           s     == Follows(a, b)
<1>1. a + b \in Nat
  OBVIOUS
<1>2. terms = [k \in 1..(a + b) |-> 1]
  BY DEF Terms
<1>3. terms \in Seq(Nat) /\ Len(terms) = a + b /\ \A k \in 1..(a + b) : terms[k] = 1
  <2> DEFINE n == a + b
  <2> HIDE DEF n
  <2>1. n \in Nat /\ terms = [k \in 1..n |-> 1]
    BY <1>1, <1>2 DEF n
  <2> HIDE DEF terms
  <2>2. terms \in Seq(Nat) /\ Len(terms) = n /\ \A k \in 1..n : terms[k] = 1
    BY <2>1
  <2> QED
    BY <2>2 DEF n
<1> HIDE DEF terms
<1>4. /\ log \in Seq(Entry) /\ Len(log) = a + b
      /\ \A k \in 1..Len(log) : log[k] = Noop(k - 1, 1)
  BY <1>3, LogOfTerms
<1>5. s = [NewNodeState EXCEPT !.currentTerm = one, !.log = log]
  BY DEF Follows, terms
<1> HIDE DEF log, one, s
<1>6. one \in Nat
  BY DEF one
<1>7. s \in NodeStates
  BY <1>4, <1>5, <1>6, NewNodeStateType DEF NodeStates
<1>8. s.log = log /\ s.snap = Nil /\ s.commitIndex = -1 /\ s.lastApplied = -1
  BY <1>5 DEF NewNodeState
<1>9. ASSUME NEW k \in 1..Len(log)
      PROVE  /\ log[k].index = k - 1 /\ log[k].term = 1
             /\ log[k] = Noop(log[k].index, log[k].term)
  BY <1>4 DEF Noop
<1>10. Noops(log)
  BY <1>9 DEF Noops
<1>11. Untouched(s)
  BY <1>8, <1>9 DEF Untouched
<1>12. FollowerLog(s, l)
  BY <1>7, <1>8, <1>10, <1>11 DEF FollowerLog
<1> QED
  BY <1>12 DEF s

\* winElection: the no-op of the new term continues the log.
LEMMA WinKeeps ==
    ASSUME NEW s, LeaderLog(s), L \in Server, s.currentTerm \in Nat \ {0},
           \A k \in 1..Len(s.log) : s.log[k].term <= s.currentTerm
    PROVE  LeaderLog(WinElection(s, L))
<1> DEFINE r == WinElection(s, L)
           n == Len(s.log)
           e == Noop(LastLogIdx(s) + 1, s.currentTerm)
<1>1. s \in NodeStates /\ s.log \in Seq(Entry)
  BY DEF LeaderLog, NodeStates
<1>2. r \in NodeStates
  BY <1>1, WinElectionType
<1>3. r.snap = s.snap /\ (r.log = s.log \/ r.log = Append(s.log, e))
  BY <1>1, WinElectionLog
<1>4. CASE r.log = s.log
  BY <1>2, <1>3, <1>4, LeaderSame
<1>5. CASE r.log = Append(s.log, e)
  <2>1. Base(s) \in Int /\ Base(s) >= -1 /\ n \in Nat /\ LastLogIdx(s) = Base(s) + n
    BY LeaderLast DEF Index
  <2>2. Base(r) = Base(s)
    BY <1>3 DEF Base
  <2>3. e.index = Base(s) + (n + 1) /\ e.term = s.currentTerm /\ e = Noop(e.index, e.term)
    <3>1. LastLogIdx(s) + 1 = Base(s) + (n + 1)
      BY <2>1
    <3> QED
      BY <3>1 DEF Noop
  <2> HIDE DEF e
  <2>4. /\ Len(r.log) = n + 1 /\ r.log[n + 1] = e
        /\ \A k \in 1..n : r.log[k] = s.log[k]
    BY <1>1, <1>5, <2>1
  <2> HIDE DEF r
  <2>5. ASSUME NEW k \in 1..Len(r.log) PROVE k \in 1..n \/ k = n + 1
    BY <2>1, <2>4
  <2>6. Noops(r.log)
    <3>1. ASSUME NEW k \in 1..Len(r.log) PROVE r.log[k] = Noop(r.log[k].index, r.log[k].term)
      <4>1. CASE k \in 1..n
        BY <2>4, <4>1 DEF LeaderLog, Noops
      <4>2. CASE k = n + 1
        BY <2>3, <2>4, <4>2
      <4> QED
        BY <2>5, <4>1, <4>2
    <3> QED
      BY <3>1 DEF Noops
  <2>7. ASSUME NEW k \in 1..Len(r.log) PROVE r.log[k].index = Base(r) + k /\ r.log[k].term > 0
    <3>1. CASE k \in 1..n
      BY <2>2, <2>4, <3>1 DEF LeaderLog
    <3>2. CASE k = n + 1
      BY <2>2, <2>3, <2>4, <3>2
    <3> QED
      BY <2>5, <3>1, <3>2
  <2>8. ASSUME NEW j \in 1..Len(r.log), NEW k \in 1..Len(r.log), j <= k
        PROVE  r.log[j].term <= r.log[k].term
    <3>1. CASE k \in 1..n
      <4>1. j \in 1..n
        BY <2>1, <2>8, <3>1
      <4> QED
        BY <2>4, <2>8, <3>1, <4>1 DEF LeaderLog
    <3>2. CASE k = n + 1
      <4>1. r.log[k].term = s.currentTerm
        BY <2>3, <2>4, <3>2
      <4>2. CASE j \in 1..n
        BY <2>4, <4>1, <4>2
      <4>3. CASE j = n + 1
        BY <3>2, <4>1, <4>3
      <4> QED
        BY <2>5, <4>2, <4>3
    <3> QED
      BY <2>5, <3>1, <3>2
  <2>9. LeaderLog(r)
    BY <1>2, <2>6, <2>7, <2>8 DEF LeaderLog, r
  <2> QED
    BY <2>9 DEF r
<1> QED
  BY <1>3, <1>4, <1>5

\* The leader of the start.
LEMMA LeadsGood ==
    ASSUME NEW a \in Nat, NEW b \in Nat, NEW c \in 0..(a + b)
    PROVE  LeaderLog(Leads(a, b, c))
<1> DEFINE one   == Terms(a, 1)
           two   == Terms(b, 2)
           terms == one \o two
           log   == LogOf(terms)
           n     == a + b
           cut   == SubSeq(log, c + 1, Len(log))
           sn    == IF c = 0 THEN Nil
                    ELSE [idx |-> c - 1, term |-> terms[c], data |-> <<>>, config |-> Server]
           term  == 3
           i     == c - 1
           s     == [NewNodeState EXCEPT !.currentTerm = term, !.votedFor = L, !.log = cut,
                                         !.snap = sn, !.commitIndex = i, !.lastApplied = i]
<1>1. n \in Nat /\ c \in Nat /\ c <= n /\ L \in Server
  BY PairAssumption
<1>2. one \in Seq(Nat) /\ Len(one) = a /\ \A k \in 1..a : one[k] = 1
  BY DEF Terms
<1>3. two \in Seq(Nat) /\ Len(two) = b /\ \A k \in 1..b : two[k] = 2
  BY DEF Terms
<1>4. /\ terms \in Seq(Nat) /\ Len(terms) = n
      /\ \A k \in 1..n : terms[k] = IF k <= a THEN 1 ELSE 2
  <2> HIDE DEF one, two
  <2>1. terms \in Seq(Nat) /\ Len(terms) = n
    BY <1>2, <1>3
  <2>2. ASSUME NEW k \in 1..n PROVE terms[k] = IF k <= a THEN 1 ELSE 2
    <3>1. CASE k <= a
      <4>1. k \in 1..a
        BY <3>1
      <4>2. terms[k] = one[k]
        BY <1>2, <1>3, <4>1
      <4> QED
        BY <1>2, <3>1, <4>1, <4>2
    <3>2. CASE ~(k <= a)
      <4>1. k - a \in 1..b
        BY <3>2
      <4>2. terms[k] = two[k - a]
        BY <1>2, <1>3, <3>2, <4>1
      <4> QED
        BY <1>3, <3>2, <4>1, <4>2
    <3> QED
      BY <3>1, <3>2
  <2> QED
    BY <2>1, <2>2
<1> HIDE DEF terms
<1>5. /\ log \in Seq(Entry) /\ Len(log) = n
      /\ \A k \in 1..n : log[k] = Noop(k - 1, terms[k])
  BY <1>4, LogOfTerms
<1> HIDE DEF log, n
<1>6. /\ cut \in Seq(Entry) /\ Len(cut) = n - c
      /\ \A k \in 1..(n - c) : cut[k] = log[c + k]
  <2>1. log \in Seq(Entry) /\ c \in 0..Len(log)
    BY <1>1, <1>5
  <2>2. /\ cut \in Seq(Entry) /\ Len(cut) = Len(log) - c
        /\ \A k \in 1..(Len(log) - c) : cut[k] = log[c + k]
    BY <2>1, SuffixOf
  <2> QED
    BY <1>5, <2>2
<1>7. sn \in Snapshot \cup {Nil} /\ (sn = Nil <=> c = 0) /\ (c # 0 => sn.idx = c - 1)
  <2>1. CASE c = 0
    BY <2>1
  <2>2. CASE c # 0
    <3>1. c \in 1..n /\ c - 1 \in Nat
      BY <1>1, <2>2
    <3>2. terms[c] \in Nat /\ <<>> \in Seq(Command)
      BY <1>4, <3>1
    <3>3. sn \in Snapshot
      BY <2>2, <3>1, <3>2 DEF Snapshot
    <3> QED
      BY <2>2, <3>3, NilAssumption
  <2> QED
    BY <2>1, <2>2
<1>8. i \in Index /\ term \in Nat
  BY <1>1 DEF Index
<1>9. Leads(a, b, c) = WinElection(s, L)
  BY <1>5 DEF Leads, terms, log, n
<1> HIDE DEF cut, sn, i, term
<1>10. s \in NodeStates
  BY <1>1, <1>6, <1>7, <1>8, NewNodeStateType, ZenonT(60) DEF NodeStates
<1>11. s.log = cut /\ s.snap = sn /\ s.currentTerm = term
  BY DEF NewNodeState
<1> HIDE DEF s
<1>12. Base(s) = c - 1
  BY <1>1, <1>7, <1>11 DEF Base
<1>13. ASSUME NEW k \in 1..Len(cut)
       PROVE  /\ c + k \in 1..n
              /\ cut[k].index = (c - 1) + k /\ cut[k].term = terms[c + k]
              /\ cut[k] = Noop(cut[k].index, cut[k].term)
  <2>1. c + k \in 1..n /\ k \in 1..(n - c)
    BY <1>1, <1>6
  <2>2. cut[k] = Noop(c + k - 1, terms[c + k])
    BY <1>5, <1>6, <2>1
  <2>3. c + k - 1 = (c - 1) + k
    BY <1>1
  <2> QED
    BY <2>1, <2>2, <2>3 DEF Noop
<1>14. ASSUME NEW k \in 1..Len(cut) PROVE cut[k].term \in {1, 2}
  BY <1>4, <1>13
<1>15. ASSUME NEW j \in 1..Len(cut), NEW k \in 1..Len(cut), j <= k
       PROVE  cut[j].term <= cut[k].term
  <2>1. /\ cut[j].term = IF c + j <= a THEN 1 ELSE 2
        /\ cut[k].term = IF c + k <= a THEN 1 ELSE 2
    BY <1>4, <1>13
  <2>2. c + k <= a => c + j <= a
    BY <1>1, <1>15
  <2> QED
    BY <2>1, <2>2
<1>16. LeaderLog(s)
  <2>1. Noops(s.log)
    BY <1>11, <1>13 DEF Noops
  <2>2. \A k \in 1..Len(s.log) : s.log[k].index = Base(s) + k /\ s.log[k].term > 0
    BY <1>11, <1>12, <1>13, <1>14
  <2>3. \A j, k \in 1..Len(s.log) : j <= k => s.log[j].term <= s.log[k].term
    BY <1>11, <1>15
  <2> QED
    BY <1>10, <2>1, <2>2, <2>3 DEF LeaderLog
<1>17. s.currentTerm \in Nat \ {0} /\ \A k \in 1..Len(s.log) : s.log[k].term <= s.currentTerm
  BY <1>11, <1>14 DEF term
<1> QED
  BY <1>1, <1>9, <1>16, <1>17, WinKeeps

\* It holds at the start.
LEMMA InitCatchUp == Init => CatchUpInv
<1> SUFFICES ASSUME Init PROVE CatchUpInv
  OBVIOUS
<1>1. PICK a \in 0..MaxShared, f \in 0..MaxFork, b \in 0..MaxOwn :
        /\ follower = Follows(a, f)
        /\ \E c \in 0..(a + b) : leader = Leads(a, b, c)
        /\ rpc = Nil
  BY DEF Init
<1>2. PICK c \in 0..(a + b) : leader = Leads(a, b, c)
  BY <1>1
<1>3. a \in Nat /\ f \in Nat /\ b \in Nat
  BY SizeAssumption
<1> QED
  BY <1>1, <1>2, <1>3, FollowsGood, LeadsGood DEF CatchUpInv

-----------------------------------------------------------------------------
(***************************************************************************)
(* Every step.                                                             *)
(***************************************************************************)
\* Every step keeps it.
LEMMA NextCatchUp == CatchUpInv /\ [Next]_vars => CatchUpInv'
<1> SUFFICES ASSUME CatchUpInv, [Next]_vars PROVE CatchUpInv'
  OBVIOUS
<1>1. LeaderLog(leader) /\ FollowerLog(follower, leader) /\ (rpc # Nil => RpcOK(leader, rpc))
  BY DEF CatchUpInv
<1>2. leader \in NodeStates /\ follower \in NodeStates /\ L \in Server /\ F \in Server
  BY <1>1, PairAssumption DEF LeaderLog, FollowerLog
\* A leader whose log and snapshot stay.
<1>3. ASSUME leader' \in NodeStates, SameLog(leader, leader'), follower' = follower,
             rpc' # Nil => RpcOK(leader, rpc') \/ RpcOK(leader', rpc')
      PROVE  CatchUpInv'
  <2>1. leader'.log = leader.log /\ leader'.snap = leader.snap
    BY <1>3 DEF SameLog
  <2>2. LeaderLog(leader') /\ FollowerLog(follower, leader') /\ (rpc' # Nil => RpcOK(leader', rpc'))
    BY <1>1, <1>3, <2>1, LeaderSame
  <2> QED
    BY <1>3, <2>2 DEF CatchUpInv
<1>4. CASE Heartbeat
  <2> DEFINE g == ArgsBuilt(leader, {F})
  <2>1. g \in NodeStates /\ SameLog(leader, g)
    BY <1>2, ArgsBuiltType, QuietLog
  <2>2. leader' = CheckCommits(g) /\ follower' = follower
    BY <1>4 DEF Heartbeat
  <2> HIDE DEF g
  <2>3. leader' \in NodeStates /\ SameLog(g, leader')
    BY <2>1, <2>2, CheckCommitsType, QuietLog
  <2>4. SameLog(leader, leader')
    BY <2>1, <2>3 DEF SameLog
  <2>5. RpcOK(leader, rpc')
    <3>1. CASE NextEntryCompacted(leader, F)
      <4>1. rpc' = InstallReq(leader)
        BY <1>4, <3>1 DEF Heartbeat
      <4> QED
        BY <1>1, <1>2, <3>1, <4>1, CompactedSnap, InstallReqSent
    <3>2. CASE ~NextEntryCompacted(leader, F)
      <4>1. rpc' = AppendReq(leader)
        BY <1>4, <3>2 DEF Heartbeat
      <4> QED
        BY <1>1, <1>2, <4>1, AppendReqSent
    <3> QED
      BY <3>1, <3>2
  <2> QED
    BY <1>3, <2>2, <2>3, <2>4, <2>5
<1>5. CASE HandleAppend
  <2>1. /\ rpc.type = "append" /\ RpcOK(leader, rpc) /\ leader' = leader
        /\ follower' = HandleAppendEntries(follower, rpc, <<>>)
    BY <1>1, <1>5 DEF HandleAppend
  <2>2. /\ rpc.term \in Nat /\ rpc.leader \in Server \cup {Nil} /\ rpc.commit \in Index
        /\ SentBy(leader, rpc)
    BY <2>1 DEF RpcOK
  <2>3. FollowerLog(follower', leader)
    BY <1>1, <2>1, <2>2, AppendKeeps
  <2>4. LastLogIdx(follower) \in Index /\ follower'.currentTerm \in Nat
    BY <1>2, <2>3, LastLogType DEF FollowerLog, NodeStates
  <2>5. AcceptsEntries(follower, rpc) \in BOOLEAN
    BY DEF AcceptsEntries
  <2>6. RpcOK(leader, rpc')
    <3>1. rpc' = [type |-> "appended", src |-> F, term |-> follower'.currentTerm,
                  success |-> AcceptsEntries(follower, rpc), lastIdx |-> LastLogIdx(follower)]
      BY <1>5 DEF HandleAppend
    <3> QED
      BY <2>4, <2>5, <3>1 DEF RpcOK
  <2> QED
    BY <1>1, <2>1, <2>3, <2>6 DEF CatchUpInv
<1>6. CASE HandleInstall
  <2>1. /\ rpc.type = "install" /\ RpcOK(leader, rpc) /\ leader' = leader
        /\ follower' = HandleInstallSnapshot(follower, rpc)
    BY <1>1, <1>6 DEF HandleInstall
  <2>2. /\ rpc.term \in Nat /\ rpc.idx \in Nat /\ rpc.lastTerm \in Nat
        /\ rpc.data \in Seq(Command) /\ rpc.config \in SUBSET Server
    BY <2>1 DEF RpcOK
  <2>3. FollowerLog(follower', leader)
    BY <1>1, <2>1, <2>2, InstallKeeps
  <2>4. follower'.currentTerm \in Nat
    BY <2>3 DEF FollowerLog, NodeStates
  <2>5. RpcOK(leader, rpc')
    <3>1. rpc' = [type |-> "installed", src |-> F, term |-> follower'.currentTerm,
                  success |-> rpc.term >= follower.currentTerm, idx |-> rpc.idx]
      BY <1>6 DEF HandleInstall
    <3>2. (rpc.term >= follower.currentTerm) \in BOOLEAN
      OBVIOUS
    <3> QED
      BY <2>2, <2>4, <3>1, <3>2 DEF RpcOK
  <2> QED
    BY <1>1, <2>1, <2>3, <2>5 DEF CatchUpInv
<1>7. CASE HandleAppended
  <2>1. /\ rpc.type = "appended" /\ RpcOK(leader, rpc) /\ follower' = follower
        /\ leader' = HandleAppendEntriesResponse(leader, rpc)
    BY <1>1, <1>7 DEF HandleAppended
  <2>2. rpc.src = F /\ rpc.term \in Nat /\ rpc.success \in BOOLEAN /\ rpc.lastIdx \in Index
    BY <2>1 DEF RpcOK
  <2>3. leader' \in NodeStates
    BY <1>2, <2>1, <2>2, HandleAppendEntriesResponseType
  <2>4. SameLog(leader, leader')
    BY <1>2, <2>1, <2>2, ResponseLog
  <2>5. LeaderLog(leader')
    BY <1>1, <2>3, <2>4, LeaderSame DEF SameLog
  <2>6. rpc' # Nil => RpcOK(leader', rpc')
    <3> HAVE rpc' # Nil
    <3>1. rpc' = InstallReq(leader') /\ leader'.snap # Nil
      BY <1>7 DEF HandleAppended, NeedsSnapshot
    <3> QED
      BY <2>5, <3>1, InstallReqSent
  <2> QED
    BY <1>3, <2>1, <2>3, <2>4, <2>6
<1>8. CASE HandleInstalled
  <2>1. /\ rpc.type = "installed" /\ RpcOK(leader, rpc) /\ follower' = follower /\ rpc' = Nil
        /\ leader' = HandleInstallSnapshotResponse(leader, rpc)
    BY <1>1, <1>8 DEF HandleInstalled
  <2>2. rpc.src = F /\ rpc.term \in Nat /\ rpc.success \in BOOLEAN /\ rpc.idx \in Nat
    BY <2>1 DEF RpcOK
  <2>3. leader' \in NodeStates /\ SameLog(leader, leader')
    BY <1>2, <2>1, <2>2, InstallResponseLog
  <2> QED
    BY <1>3, <2>1, <2>3
<1>9. CASE Apply
  <2>1. /\ CanApply(follower) /\ follower' = [follower EXCEPT !.lastApplied = @ + 1]
        /\ leader' = leader /\ rpc' = rpc
    BY <1>9 DEF Apply
  <2>2. FollowerLog(follower', leader)
    BY <1>1, <2>1, ApplyKeeps
  <2> QED
    BY <1>1, <2>1, <2>2 DEF CatchUpInv
<1>10. CASE UNCHANGED vars
  BY <1>10 DEF CatchUpInv, vars
<1> QED
  BY <1>4, <1>5, <1>6, <1>7, <1>8, <1>9, <1>10 DEF Next

\* It says that what the follower has applied is the leader's.
LEMMA InvAgrees == CatchUpInv => AppliedAgrees
<1> SUFFICES ASSUME CatchUpInv,
                    NEW k \in 1..Len(follower.log), NEW j \in 1..Len(leader.log),
                    follower.log[k].index <= follower.lastApplied,
                    follower.log[k].index = leader.log[j].index
             PROVE  follower.log[k] = leader.log[j]
  BY DEF AppliedAgrees
<1>1. follower.log \in Seq(Entry) /\ (Untouched(follower) \/ Agree(follower.log, leader.log))
  BY DEF CatchUpInv, FollowerLog, NodeStates
<1>2. follower.log[k].index \in Nat
  <2>1. follower.log[k] \in Entry
    BY <1>1
  <2> QED
    BY <2>1 DEF Entry
<1>3. ~Untouched(follower)
  BY <1>2 DEF Untouched
<1> QED
  BY <1>1, <1>3 DEF Agree

\* handleAppendEntries and handleInstallSnapshot: for logs of every length, a log
\* array of every capacity and wherever the logs part, what the follower has
\* applied is what the leader has at that index.
THEOREM AppliedIsLeaders == Spec => []AppliedAgrees
<1>1. Init => CatchUpInv
  BY InitCatchUp
<1>2. CatchUpInv /\ [Next]_vars => CatchUpInv'
  BY NextCatchUp
<1>3. CatchUpInv => AppliedAgrees
  BY InvAgrees
<1> QED
  BY <1>1, <1>2, <1>3, PTL DEF Spec

=============================================================================
