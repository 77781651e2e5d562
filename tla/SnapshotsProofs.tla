--------------------------- MODULE SnapshotsProofs ---------------------------
(***************************************************************************)
(* A follower that is sent entries and snapshots by two leaders: whatever  *)
(* comes late, commitIndex and lastApplied never go back, and the entry    *)
(* applied at an index is the one that was committed there.                *)
(***************************************************************************)
EXTENDS Snapshots, NodeStateProofs

(***************************************************************************)
(* The data of a snapshot: the commands of the entries it stands for.      *)
(***************************************************************************)
LEMMA ExecutedType ==
    ASSUME NEW log \in Seq(Entry), NEW k \in 0..Len(log)
    PROVE  Executed(log, k) \in Seq(Command)
<1> DEFINE Step(f, i) == IF i = 0 THEN <<>>
                         ELSE IF log[i].kind = "command" THEN Append(f[i-1], log[i].val)
                         ELSE f[i-1]
           After(f, n) == f = [i \in 0..n |-> Step(f, i)]
<1>1. ASSUME NEW f, NEW i \in 0..k, i # 0 => f[i-1] \in Seq(Command)
      PROVE  Step(f, i) \in Seq(Command)
  <2>1. CASE i = 0
    BY <2>1
  <2>2. CASE i # 0
    <3>1. log[i] \in Entry
      BY <2>2
    <3>2. log[i].kind = "command" => log[i].val \in Command
      BY <3>1 DEF Entry
    <3> QED
      BY <1>1, <2>2, <3>2
  <2> QED
    BY <2>1, <2>2
\* A function with the recursion's equation takes its values in Seq(Command).
<1>2. ASSUME NEW f, After(f, k) PROVE f[k] \in Seq(Command)
  <2> DEFINE Bad == {i \in Nat : i <= k /\ f[i] \notin Seq(Command)}
  <2>1. \A i \in 0..k : f[i] = Step(f, i)
    BY <1>2
  <2> HIDE DEF Step, After
  <2>2. Bad = {}
    <3> SUFFICES ASSUME Bad # {} PROVE FALSE
      OBVIOUS
    <3>1. PICK i \in Bad : \A j \in Bad : i <= j
      BY NatMin
    <3>2. i # 0 => f[i-1] \in Seq(Command)
      BY <3>1
    <3> QED
      BY <1>1, <2>1, <3>1, <3>2
  <2> QED
    BY <2>2
\* There is one.
<1>3. \E f : After(f, k)
  <2> DEFINE Has(n) == \E f : After(f, n)
             Bad == {n \in Nat : n <= k /\ ~Has(n)}
  <2> HIDE DEF Has
  <2> SUFFICES ASSUME Bad # {} PROVE FALSE
    <3>1. Bad = {} => Has(k)
      OBVIOUS
    <3> QED
      BY <3>1 DEF Has
  <2>1. PICK n \in Bad : \A m \in Bad : n <= m
    BY NatMin
  <2>2. CASE n = 0
    <3> DEFINE f == [i \in 0..0 |-> <<>>]
    <3>1. After(f, 0)
      OBVIOUS
    <3> QED
      BY <2>1, <2>2, <3>1 DEF Has
  <2>3. CASE n # 0
    <3>0. n - 1 \in Nat /\ Has(n - 1)
      BY <2>1, <2>3
    <3>1. PICK g : After(g, n - 1)
      BY <3>0 DEF Has
    <3> DEFINE f == [i \in 0..n |-> IF i = n THEN Step(g, n) ELSE g[i]]
    <3>2. ASSUME NEW i \in 0..n PROVE f[i] = Step(f, i)
      <4>0. \A j \in 0..(n-1) : g[j] = Step(g, j)
        BY <3>1
      <4>1. \A j \in 0..(n-1) : g[j] = Step(g, j) /\ f[j] = g[j]
        <5> HIDE DEF Step
        <5> QED
          BY <2>1, <2>3, <4>0
      <4>2. i # 0 => f[i-1] = g[i-1]
        BY <2>1, <2>3, <4>1
      <4>3. Step(f, i) = Step(g, i)
        BY <4>2
      <4>4. f[i] = Step(g, i)
        <5> HIDE DEF Step
        <5>1. CASE i = n
          BY <5>1
        <5>2. CASE i # n
          <6>1. i \in 0..(n-1)
            BY <2>1, <5>2
          <6> HIDE DEF f
          <6> QED
            BY <4>1, <6>1
        <5> QED
          BY <5>1, <5>2
      <4> QED
        BY <4>3, <4>4
    <3>3. f = [i \in 0..n |-> f[i]]
      OBVIOUS
    <3> HIDE DEF f, Step
    <3>4. After(f, n)
      BY <3>2, <3>3
    <3> QED
      BY <2>1, <3>4 DEF Has
  <2> QED
    BY <2>2, <2>3
<1>4. Executed(log, k) = (CHOOSE f : After(f, k))[k]
  BY DEF Executed
<1> HIDE DEF After
<1> QED
  BY <1>2, <1>3, <1>4

-----------------------------------------------------------------------------
(***************************************************************************)
(* The leaders' logs and what they send.                                   *)
(***************************************************************************)
\* The entry is the one that the leader of term t has at its index.
Of(t, e) == e.index + 1 \in 1..Len(LogOf(t)) /\ e = LogOf(t)[e.index + 1]

\* What is assumed of the two logs, for either.
LEMMA LogOfType ==
    ASSUME NEW t \in 1..2
    PROVE  /\ LogOf(t) \in Seq(Entry) /\ Len(LogOf(t)) \in Nat \ {0}
           /\ \A k \in 1..Len(LogOf(t)) : LogOf(t)[k].index = k - 1 /\ LogOf(t)[k] \in Entry
           /\ LogOf(t)[Len(LogOf(t))].term = t
  BY LogsAssumption DEF LogOf

\* Entries with the same index and term are the same.
LEMMA SameEntry ==
    ASSUME NEW t \in 1..2, NEW u \in 1..2, NEW e, NEW f, Of(t, e), Of(u, f),
           e.index = f.index, e.term = f.term
    PROVE  e = f
<1>1. CASE t = u
  BY <1>1 DEF Of
<1>2. CASE t # u
  <2>1. ASSUME NEW x, NEW y, Of(1, x), Of(2, y), x.index = y.index, x.term = y.term
        PROVE  x = y
    <3> DEFINE k == x.index + 1
    <3>1. k \in 1..Len(Old) /\ k \in 1..Len(New) /\ x = Old[k] /\ y = New[k]
      BY <2>1 DEF Of, LogOf
    <3> HIDE DEF k
    <3>2. New[k].term = 1
      BY <2>1, <3>1, LogsAssumption
    <3>3. k \in 1..k
      BY <3>1
    <3> QED
      BY <3>1, <3>2, <3>3, LogsAssumption
  <2> QED
    BY <1>2, <2>1
<1> QED
  BY <1>1, <1>2

\* An entry both leaders have: so have they all before it.
LEMMA CommonPrefix ==
    ASSUME NEW e, Of(1, e), Of(2, e), NEW f, Of(1, f), f.index <= e.index
    PROVE  Of(2, f)
<1> DEFINE k == e.index + 1
           j == f.index + 1
<1>1. k \in 1..Len(Old) /\ k \in 1..Len(New) /\ e = Old[k] /\ e = New[k]
  BY DEF Of, LogOf
<1>2. j \in 1..Len(Old) /\ f = Old[j]
  BY DEF Of, LogOf
<1>3. e.index = k - 1 /\ f.index = j - 1
  BY <1>1, <1>2, LogsAssumption
<1> HIDE DEF k, j
<1>4. j \in 1..k
  BY <1>1, <1>2, <1>3
<1>5. New[k].term = 1
  BY <1>1, LogsAssumption
<1>6. New[j] = Old[j]
  BY <1>1, <1>4, <1>5, LogsAssumption
<1>7. f.index + 1 = j
  BY DEF j
<1> QED
  BY <1>1, <1>2, <1>4, <1>6, <1>7 DEF Of, LogOf

\* What was committed under L1 is in L2's log.
LEMMA CommittedCommon ==
    ASSUME NEW e, Of(1, e), e.index < Committed
    PROVE  Of(2, e)
<1> DEFINE k == e.index + 1
<1>1. k \in 1..Len(Old) /\ e = Old[k]
  BY DEF Of, LogOf
<1>2. e.index = k - 1 /\ k <= Committed
  BY <1>1, LogsAssumption
<1> HIDE DEF k
<1>3. SubSeq(Old, 1, Committed) = SubSeq(New, 1, Committed)
  BY LogsAssumption
<1>4. SubSeq(Old, 1, Committed)[k] = Old[k] /\ SubSeq(New, 1, Committed)[k] = New[k]
  BY <1>1, <1>2, LogsAssumption
<1>5. k \in 1..Len(New) /\ e = New[k]
  BY <1>1, <1>2, <1>3, <1>4, LogsAssumption
<1> QED
  BY <1>5 DEF Of, LogOf, k

\* The leader has an entry of its own from its election on.
LEMMA ElectedType ==
    ASSUME NEW t \in 1..2
    PROVE  Elected(t) \in 1..Len(LogOf(t))
<1> DEFINE S == {k \in 1..Len(LogOf(t)) : LogOf(t)[k].term = t}
<1>1. S \in SUBSET (1..Len(LogOf(t))) /\ Len(LogOf(t)) \in S
  BY LogOfType
<1>2. Min(S) \in 1..Len(LogOf(t))
  BY <1>1, LogOfType, MinIn
<1> QED
  BY <1>2 DEF Elected

\* An AppendEntries of the leader of term t: entries that continue its log after
\* prevIdx, the last of them (or the previous one) not before its commit index.
Sent(t, aea, m) ==
    /\ m \in 1..Len(LogOf(t))
    /\ aea.term = t /\ aea.leader \in Server
    /\ aea.prevIdx \in Index /\ aea.commit \in Index
    /\ aea.prevIdx < m
    /\ aea.prevIdx >= 0 => aea.prevTerm = LogOf(t)[aea.prevIdx + 1].term
    /\ aea.entries \in Seq(Entry) /\ Len(aea.entries) = m - 1 - aea.prevIdx
    /\ \A j \in 1..Len(aea.entries) :
          aea.entries[j].index = aea.prevIdx + j /\ Of(t, aea.entries[j])
    /\ aea.commit < m
    /\ t = 1 => aea.commit < Committed

\* What HandleAppend hands over is such a message.
LEMMA AppendSent ==
    ASSUME NEW t \in 1..2, NEW m \in Elected(t)..Len(LogOf(t)), NEW i \in 1..(m + 1),
           NEW c \in 0..Min({m, CommittedBy(t)})
    PROVE  Sent(t, AppendMsg(t, m, i, c), m)
<1> DEFINE aea == AppendMsg(t, m, i, c)
<1>1. m \in 1..Len(LogOf(t)) /\ LogOf(t) \in Seq(Entry) /\ Len(LogOf(t)) \in Nat
  BY ElectedType, LogOfType, SMTT(40)
<1>2. c \in Nat /\ c <= m /\ (t = 1 => c <= Committed)
  <2>1. CommittedBy(t) \in Nat
    BY LogsAssumption DEF CommittedBy
  <2>2. \A x \in Nat, y \in Nat : Min({x, y}) \in Nat /\ Min({x, y}) <= x /\ Min({x, y}) <= y
    <3> TAKE x \in Nat, y \in Nat
    <3>1. \E z \in {x, y} : \A w \in {x, y} : z <= w
      OBVIOUS
    <3> QED
      BY <3>1 DEF Min
  <2>3. m \in Nat
    BY <1>1
  <2> HIDE DEF aea
  <2> QED
    BY <2>1, <2>2, <2>3 DEF CommittedBy
<1>3. LeaderOf(t) \in Server
  BY LeadersAssumption DEF LeaderOf
<1>4. /\ aea.term = t /\ aea.leader = LeaderOf(t) /\ aea.prevIdx = i - 2 /\ aea.commit = c - 1
      /\ aea.prevTerm = IF i = 1 THEN -1 ELSE LogOf(t)[i-1].term
      /\ aea.entries = SubSeq(LogOf(t), i, m)
  BY DEF AppendMsg
<1> HIDE DEF aea
<1>5. aea.prevIdx \in Index /\ aea.commit \in Index /\ aea.prevIdx < m /\ aea.commit < m
  BY <1>1, <1>2, <1>4 DEF Index
<1>6. aea.prevIdx >= 0 => aea.prevTerm = LogOf(t)[aea.prevIdx + 1].term
  <2>1. aea.prevIdx + 1 = i - 1 /\ (aea.prevIdx >= 0 => i # 1)
    BY <1>1, <1>4
  <2> QED
    BY <1>4, <2>1
<1>7. aea.entries \in Seq(Entry) /\ Len(aea.entries) = m - 1 - aea.prevIdx
  BY <1>1, <1>4
<1>8. ASSUME NEW j \in 1..Len(aea.entries)
      PROVE  aea.entries[j].index = aea.prevIdx + j /\ Of(t, aea.entries[j])
  <2> DEFINE x == i + j - 1
  <2>1. x \in 1..Len(LogOf(t)) /\ aea.entries[j] = LogOf(t)[x]
    BY <1>1, <1>4, <1>7
  <2>2. LogOf(t)[x].index = x - 1
    BY <2>1, LogOfType
  <2>3. x - 1 = aea.prevIdx + j
    BY <1>1, <1>4
  <2> HIDE DEF x
  <2>4. (x - 1) + 1 = x
    BY <2>1
  <2> QED
    BY <2>1, <2>2, <2>3, <2>4 DEF Of
<1>9. t = 1 => aea.commit < Committed
  BY <1>2, <1>4, LogsAssumption
<1> QED
  BY <1>1, <1>3, <1>4, <1>5, <1>6, <1>7, <1>8, <1>9 DEF Sent, aea

\* What HandleInstall hands over: the entries a leader had compacted.
LEMMA InstallSent ==
    ASSUME NEW t \in 1..2, NEW k \in 1..CommittedBy(t), NEW isa, isa = InstallMsg(t, k)
    PROVE  /\ isa.term = t /\ isa.idx \in Nat /\ isa.lastTerm \in Nat
           /\ isa.data \in Seq(Command) /\ isa.config \in SUBSET Server
           /\ t = 1 => isa.idx < Committed
<1>1. k \in 1..Len(LogOf(t)) /\ (t = 1 => k <= Committed)
  BY LogsAssumption DEF LogOf, CommittedBy
<1>2. LogOf(t) \in Seq(Entry) /\ LogOf(t)[k] \in Entry
  BY <1>1, LogOfType
<1>3. Executed(LogOf(t), k) \in Seq(Command)
  BY <1>1, <1>2, ExecutedType
<1>4. ConfigAfter(Server, SubSeq(LogOf(t), 1, k)) \in SUBSET Server
  BY DEF ConfigAfter
<1>5. LogOf(t)[k].term \in Nat
  BY <1>2 DEF Entry
<1>6. /\ isa.term = t /\ isa.idx = k - 1 /\ isa.lastTerm = LogOf(t)[k].term
      /\ isa.data = Executed(LogOf(t), k)
      /\ isa.config = ConfigAfter(Server, SubSeq(LogOf(t), 1, k))
  BY DEF InstallMsg
<1>7. k - 1 \in Nat /\ (t = 1 => k - 1 < Committed)
  BY <1>1, LogsAssumption
<1> QED
  BY <1>3, <1>4, <1>5, <1>6, <1>7

-----------------------------------------------------------------------------
(***************************************************************************)
(* The follower's log.                                                     *)
(***************************************************************************)
\* Without gaps, each entry some leader's, and before one that L2 has only such
\* as L2 has.
GoodLog(log) ==
    /\ \A k \in 1..Len(log) : log[k].index = log[1].index + (k - 1)
    /\ \A k \in 1..Len(log) : \E t \in 1..2 : Of(t, log[k])
    /\ \A k \in 1..Len(log) : Of(2, log[k]) => \A j \in 1..k : Of(2, log[j])

\* The batch goes after the entry before it, or to the front of the log; in term 1
\* the log has L1's entries only.
Continues(t, aea, log, k) ==
    /\ k # 0 => aea.prevIdx >= 0 /\ log[k].index = aea.prevIdx /\ log[k].term = aea.prevTerm
    /\ t = 1 => \A j \in 1..Len(log) : Of(1, log[j])

\* The log is good and agrees with the leader's up to the end of the batch.
Follows(t, aea, m, log, k, new) ==
    /\ new \in Seq(Entry) /\ GoodLog(new)
    /\ k + Len(aea.entries) \in 0..Len(new)
    /\ \A j \in 1..(k + Len(aea.entries)) : Of(t, new[j])
    /\ t = 1 => \A j \in 1..Len(new) : Of(1, new[j])
    /\ k + Len(aea.entries) # 0 => new[k + Len(aea.entries)].index = m - 1
    /\ k # 0 => new[1] = log[1]
    /\ k = 0 /\ aea.entries = <<>> => new = log
    /\ k = 0 /\ aea.entries # <<>> => new[1].index = aea.prevIdx + 1

\* A batch of the leader of term t, merged after an entry that the leader has:
\* the log stays good and agrees with the leader's up to the end of the batch.
LEMMA MergeSent ==
    ASSUME NEW t \in 1..2, NEW aea, NEW m, Sent(t, aea, m),
           NEW log \in Seq(Entry), GoodLog(log), NEW k \in 0..Len(log),
           NEW new, Merged(log, k, aea.entries, new),
           Continues(t, aea, log, k)
    PROVE  Follows(t, aea, m, log, k, new)
<1> DEFINE n == Len(aea.entries)
           p == aea.prevIdx
<1>0. /\ k # 0 => aea.prevIdx >= 0 /\ log[k].index = aea.prevIdx /\ log[k].term = aea.prevTerm
      /\ t = 1 => \A j \in 1..Len(log) : Of(1, log[j])
  BY DEF Continues
<1>1. /\ aea.entries \in Seq(Entry) /\ n \in Nat /\ p \in Int /\ p >= -1 /\ m \in Nat
      /\ n = m - 1 - p /\ p < m
  BY LogOfType, SMTT(40) DEF Sent, Index
<1>2. \A j \in 1..n : aea.entries[j].index = p + j /\ Of(t, aea.entries[j])
  BY DEF Sent
<1>3. /\ new \in Seq(Entry) /\ Len(new) >= k + n /\ (new = log \/ Len(new) = k + n)
      /\ \A j \in 1..k : new[j] = log[j]
      /\ \A j \in 1..n :
                 /\ new[k+j].index = aea.entries[j].index /\ new[k+j].term = aea.entries[j].term
                 /\ new[k+j] = aea.entries[j] \/ (k + j <= Len(log) /\ new[k+j] = log[k+j])
  <2> DEFINE es == aea.entries
  <2> HIDE DEF es
  <2>1. es \in Seq(Entry) /\ Merged(log, k, es, new)
    BY <1>1 DEF es
  <2>2. /\ new \in Seq(Entry) /\ Len(new) >= k + Len(es)
        /\ new = log \/ Len(new) = k + Len(es)
        /\ \A j \in 1..k : new[j] = log[j]
        /\ \A j \in 1..Len(es) :
              /\ new[k+j].index = es[j].index /\ new[k+j].term = es[j].term
              /\ new[k+j] = es[j] \/ (k + j <= Len(log) /\ new[k+j] = log[k+j])
    <3>1. MergedAs(log, k, es, new)
      BY <2>1, MergedLog, Zenon
    <3> QED
      BY <3>1 DEF MergedAs
  <2> QED
    BY <2>2 DEF es
<1>4. Len(log) \in Nat /\ Len(new) \in Nat
  BY <1>3
<1>5. \A j \in 1..k : Of(t, log[j])
  <2>1. CASE t = 1
    BY <1>0, <1>4, <2>1
  <2>2. CASE t = 2 /\ k # 0
    <3> DEFINE e == LogOf(2)[p + 1]
    <3>1. p + 1 \in 1..Len(LogOf(2))
      BY <1>0, <1>1, <2>2, SMTT(40) DEF Sent
    <3>2. e.index = p /\ e.term = log[k].term
      <4>1. e.index = (p + 1) - 1
        BY <3>1, LogOfType
      <4>2. e.term = aea.prevTerm
        BY <1>0, <2>2 DEF Sent
      <4> QED
        BY <1>0, <1>1, <2>2, <4>1, <4>2
    <3>3. Of(2, e)
      BY <3>1, <3>2 DEF Of
    <3>4. k \in 1..Len(log)
      BY <1>4, <2>2
    <3>5. PICK u \in 1..2 : Of(u, log[k])
      BY <3>4 DEF GoodLog
    <3> HIDE DEF e
    <3>6. log[k] = e
      BY <1>0, <2>2, <3>2, <3>3, <3>5, SameEntry
    <3>7. Of(2, log[k])
      BY <3>3, <3>6
    <3> QED
      BY <2>2, <3>4, <3>7 DEF GoodLog
  <2> QED
    BY <2>1, <2>2
<1>6. \A j \in 1..n : Of(t, new[k+j])
  <2> TAKE j \in 1..n
  <2>1. CASE new[k+j] = aea.entries[j]
    BY <1>2, <2>1
  <2>2. CASE k + j <= Len(log) /\ new[k+j] = log[k+j]
    <3>1. k + j \in 1..Len(log)
      BY <1>1, <1>4, <2>2
    <3>2. PICK u \in 1..2 : Of(u, log[k+j])
      BY <3>1 DEF GoodLog
    <3>3. log[k+j].index = aea.entries[j].index /\ log[k+j].term = aea.entries[j].term
      BY <1>3, <2>2
    <3>4. Of(t, aea.entries[j])
      BY <1>2
    <3>5. log[k+j] = aea.entries[j]
      BY <3>2, <3>3, <3>4, SameEntry
    <3> QED
      BY <2>2, <3>4, <3>5
  <2> QED
    BY <1>3, <2>1, <2>2
<1> HIDE DEF n
<1>7. ASSUME NEW j \in 1..(k + n) PROVE Of(t, new[j])
  <2>1. CASE j <= k
    BY <1>3, <1>5, <2>1
  <2>2. CASE ~(j <= k)
    <3>1. j - k \in 1..n /\ k + (j - k) = j
      BY <1>1, <2>2
    <3> QED
      BY <1>6, <3>1
  <2> QED
    BY <2>1, <2>2
<1>8. k # 0 => /\ new[1] = log[1] /\ log[1].index = p - (k - 1)
               /\ \A j \in 1..k : new[j].index = log[1].index + (j - 1)
  <2> HAVE k # 0
  <2>1. 1 \in 1..Len(log) /\ k \in 1..Len(log) /\ 1 \in 1..k
    BY <1>4
  <2>2. new[1] = log[1] /\ log[k].index = log[1].index + (k - 1)
    BY <1>3, <2>1 DEF GoodLog
  <2>3. log[1] \in Entry
    BY <2>1
  <2>4. log[1].index \in Nat
    BY <2>3 DEF Entry
  <2>5. log[1].index = p - (k - 1)
    BY <1>0, <1>1, <2>2, <2>4, SMTT(40)
  <2>6. \A j \in 1..k : new[j].index = log[1].index + (j - 1)
    BY <1>3, <1>4 DEF GoodLog
  <2> QED
    BY <2>2, <2>5, <2>6
<1>9. \A j \in 1..n : new[k+j].index = p + j
  BY <1>2, <1>3 DEF n
<1>10. k = 0 /\ n # 0 => new[1].index = p + 1
  <2>1. 1 \in 1..n \/ n = 0
    BY <1>1
  <2>2. k = 0 => k + 1 = 1
    OBVIOUS
  <2> QED
    BY <1>9, <2>1, <2>2
<1> HIDE DEF p
<1>11. ASSUME NEW j \in 1..(k + n) PROVE new[j].index = new[1].index + (j - 1) /\ new[j].index = p + (j - k)
  <2>0. p \in Int /\ k \in Int /\ j \in Int
    BY <1>1, <1>4
  <2>1. CASE j <= k
    <3>1. k # 0 /\ j \in 1..k
      BY <2>1
    <3>2. new[1].index = log[1].index /\ new[j].index = log[1].index + (j - 1)
      BY <1>8, <3>1
    <3>3. log[1].index + (j - 1) = p + (j - k)
      BY <1>8, <2>0, <3>1
    <3> QED
      BY <3>2, <3>3
  <2>2. CASE ~(j <= k)
    <3>1. j - k \in 1..n /\ k + (j - k) = j
      BY <1>1, <2>2
    <3>2. new[j].index = p + (j - k)
      BY <1>9, <3>1
    <3>3. CASE k = 0
      <4>1. new[1].index = p + 1
        BY <1>1, <1>10, <3>1, <3>3
      <4> QED
        BY <1>1, <3>2, <3>3, <4>1
    <3>4. CASE k # 0
      <4>1. new[1].index = p - (k - 1)
        BY <1>8, <3>4
      <4>2. p + (j - k) = p - (k - 1) + (j - 1)
        BY <2>0
      <4> QED
        BY <3>2, <4>1, <4>2
    <3> QED
      BY <3>3, <3>4
  <2> QED
    BY <2>1, <2>2
<1>12. t = 1 => \A j \in 1..Len(new) : Of(1, new[j])
  <2>1. CASE new = log
    BY <1>0, <2>1
  <2>2. CASE Len(new) = k + n
    BY <1>7, <2>2
  <2> QED
    BY <1>3, <2>1, <2>2
<1>13. GoodLog(new)
  <2>1. CASE new = log
    BY <2>1
  <2>2. CASE Len(new) = k + n
    <3>1. \A j \in 1..Len(new) : new[j].index = new[1].index + (j - 1)
      BY <1>11, <2>2
    <3>2. \A j \in 1..Len(new) : Of(t, new[j])
      BY <1>7, <2>2
    <3>3. ASSUME NEW j \in 1..Len(new), Of(2, new[j]), NEW i \in 1..j PROVE Of(2, new[i])
      <4>1. i \in 1..Len(new)
        BY <1>4
      <4>2. CASE t = 2
        BY <3>2, <4>1, <4>2
      <4>3. CASE t = 1
        <5>1. new[i].index <= new[j].index
          <6>1. new[i].index = p + (i - k) /\ new[j].index = p + (j - k)
            BY <1>11, <2>2, <4>1
          <6> QED
            BY <1>1, <6>1
        <5> QED
          BY <3>2, <3>3, <4>1, <4>3, <5>1, CommonPrefix
      <4> QED
        BY <4>2, <4>3
    <3> QED
      BY <3>1, <3>2, <3>3 DEF GoodLog
  <2> QED
    BY <1>3, <2>1, <2>2
<1>14. k + n # 0 => new[k + n].index = m - 1
  <2>1. k + n # 0 => k + n \in 1..(k + n)
    BY <1>1
  <2>2. p + ((k + n) - k) = m - 1
    BY <1>1
  <2> QED
    BY <1>11, <2>1, <2>2
<1>15. k = 0 /\ aea.entries = <<>> => new = log
  <2> HAVE k = 0 /\ aea.entries = <<>>
  <2>1. Differing(log, k, aea.entries) = {}
    BY DEF Differing
  <2> QED
    BY <2>1 DEF Merged
<1>16. aea.entries # <<>> => n # 0
  BY <1>1 DEF n
<1>17. k + n \in 0..Len(new)
  BY <1>1, <1>3, <1>4
<1> QED
  BY <1>3, <1>7, <1>8, <1>10, <1>12, <1>13, <1>14, <1>15, <1>16, <1>17 DEF n, p, Follows

-----------------------------------------------------------------------------
(***************************************************************************)
(* The inductive invariant.                                                *)
(***************************************************************************)
\* How far the log has been applied and compacted: it begins at the latest with the
\* entry to apply next and reaches as far as there is something to apply.
Applied(x) ==
    /\ x.lastApplied <= x.commitIndex
    /\ x.snap # Nil => x.snap.idx <= x.lastApplied
    /\ x.log # <<>> => x.log[1].index <= x.lastApplied + 1
    /\ x.commitIndex > x.lastApplied =>
          x.log # <<>> /\ x.log[Len(x.log)].index >= x.commitIndex

\* What is still to be applied is L2's, and before term 2 everything is L1's and
\* only the common entries are committed.
Agrees(x) ==
    /\ \A k \in 1..Len(x.log) :
          x.lastApplied < x.log[k].index /\ x.log[k].index <= x.commitIndex => Of(2, x.log[k])
    /\ x.currentTerm = 1 =>
          x.commitIndex < Committed /\ \A k \in 1..Len(x.log) : Of(1, x.log[k])

GoodFollower(x) ==
    /\ x \in NodeStates /\ x.currentTerm \in 1..2
    /\ GoodLog(x.log)
    /\ Applied(x)
    /\ Agrees(x)

SnapInv ==
    /\ GoodFollower(s)
    /\ loop \in {"top", "select"}
    /\ loop = "select" => s.commitIndex = s.lastApplied
    /\ sm \in Seq(Command)
    /\ install \in Seq(Command) \cup {Nil}

\* What is left of a good log when its beginning is compacted.
GoodSuffix(log, k, new) ==
    /\ GoodLog(new)
    /\ new # <<>> => new[1].index = log[k].index + 1
    /\ \A j \in 1..Len(new) : k + j \in 1..Len(log) /\ new[j] = log[k+j]

LEMMA SuffixGood ==
    ASSUME NEW log \in Seq(Entry), GoodLog(log), NEW k \in 1..Len(log),
           NEW new, new = SubSeq(log, k + 1, Len(log))
    PROVE  GoodSuffix(log, k, new)
<1>1. /\ Len(log) \in Nat /\ new \in Seq(Entry) /\ Len(new) = Len(log) - k
      /\ \A j \in 1..Len(new) : new[j] = log[k+j]
  OBVIOUS
<1>2. \A j \in 1..Len(new) : k + j \in 1..Len(log)
  BY <1>1
<1>3. ASSUME NEW j \in 1..Len(log) PROVE log[j].index \in Nat /\ log[j].index = log[1].index + (j - 1)
  <2>1. log[j] \in Entry
    OBVIOUS
  <2> QED
    BY <2>1 DEF Entry, GoodLog
<1>4. \A j \in 1..Len(new) : new[j].index = log[1].index + (k + j - 1)
  BY <1>1, <1>2, <1>3
<1>5. 1 \in 1..Len(log) /\ log[1].index \in Nat
  BY <1>1, <1>3
<1>6. ASSUME NEW j \in 1..Len(new) PROVE new[j].index = new[1].index + (j - 1)
  <2>1. 1 \in 1..Len(new)
    BY <1>1
  <2>2. new[1].index = log[1].index + (k + 1 - 1) /\ new[j].index = log[1].index + (k + j - 1)
    BY <1>4, <2>1
  <2>3. k \in Int /\ j \in Int
    BY <1>1
  <2>4. \A a \in Int, b \in Int, c \in Int : a + (b + 1 - 1) + (c - 1) = a + (b + c - 1)
    OBVIOUS
  <2>5. log[1].index \in Int
    BY <1>5
  <2> QED
    BY <2>2, <2>3, <2>4, <2>5, ZenonT(60)
<1>7. \A j \in 1..Len(new) : \E t \in 1..2 : Of(t, new[j])
  BY <1>1, <1>2 DEF GoodLog
<1>8. ASSUME NEW j \in 1..Len(new), Of(2, new[j]), NEW i \in 1..j PROVE Of(2, new[i])
  <2>1. i \in 1..Len(new) /\ k + i \in 1..(k + j) /\ k + j \in 1..Len(log)
    BY <1>1
  <2>2. new[i] = log[k+i] /\ new[j] = log[k+j]
    BY <1>1, <2>1
  <2> QED
    BY <1>8, <2>1, <2>2 DEF GoodLog
<1>9. new # <<>> => new[1].index = log[k].index + 1
  <2> HAVE new # <<>>
  <2>1. 1 \in 1..Len(new)
    BY <1>1
  <2>2. new[1].index = log[1].index + (k + 1 - 1) /\ log[k].index = log[1].index + (k - 1)
    BY <1>3, <1>4, <2>1
  <2> QED
    BY <1>1, <1>5, <2>2
<1> QED
  BY <1>1, <1>2, <1>6, <1>7, <1>8, <1>9 DEF GoodLog, GoodSuffix

\* How commitIndex moves: to the leader's, never past what the batch reaches.
LEMMA CommitSent ==
    ASSUME NEW t \in 1..2, NEW aea, NEW m, Sent(t, aea, m), NEW x \in NodeStates,
           NEW r, r = CommitFrom(x, aea)
    PROVE  /\ r.log = x.log /\ r.snap = x.snap /\ r.lastApplied = x.lastApplied
           /\ r.commitIndex = IF aea.commit <= x.commitIndex THEN x.commitIndex ELSE aea.commit
<1> DEFINE es == aea.entries
           c  == IF es # <<>> /\ es[Len(es)].index < aea.commit THEN es[Len(es)].index ELSE aea.commit
<1>1. r.log = x.log /\ r.snap = x.snap /\ r.lastApplied = x.lastApplied
  BY QuietLog DEF SameLog
<1>2. c = aea.commit
  <2>1. es # <<>> => Len(es) \in 1..Len(es)
    BY DEF Sent
  <2>2. es # <<>> => es[Len(es)].index = aea.prevIdx + Len(es)
    BY <2>1 DEF Sent
  <2>3. aea.prevIdx \in Int /\ aea.commit \in Int /\ m \in Int /\ Len(es) = m - 1 - aea.prevIdx /\ aea.commit < m
    BY LogOfType DEF Sent, Index
  <2>4. es # <<>> => ~(es[Len(es)].index < aea.commit)
    BY <2>2, <2>3
  <2> QED
    BY <2>4
<1>3. r = IF aea.commit <= x.commitIndex THEN x ELSE [x EXCEPT !.commitIndex = c]
  BY DEF CommitFrom
<1> HIDE DEF c
<1>4. r.commitIndex = IF aea.commit <= x.commitIndex THEN x.commitIndex ELSE c
  BY <1>3 DEF NodeStates
<1> QED
  BY <1>1, <1>2, <1>4

\* An accepted batch: the case in which handleAppendEntries merges and commits.
LEMMA MergeGood ==
    ASSUME NEW x, GoodFollower(x), x.commitIndex = x.lastApplied,
           NEW t \in 1..2, NEW aea, NEW m, Sent(t, aea, m), t >= x.currentTerm, PrevLogOK(x, aea),
           NEW new, NEW k, k = MergePoint(x, aea), Merged(x.log, k, aea.entries, new),
           NEW r \in NodeStates, r.currentTerm = t,
           r.log = new, r.snap = x.snap, r.lastApplied = x.lastApplied,
           r.commitIndex = IF aea.commit <= x.commitIndex THEN x.commitIndex ELSE aea.commit
    PROVE  GoodFollower(r) /\ r.commitIndex >= x.commitIndex
<1> DEFINE n == Len(aea.entries)
           p == aea.prevIdx
           q == k + n
<1>1. /\ x \in NodeStates /\ x.log \in Seq(Entry) /\ GoodLog(x.log) /\ x.currentTerm \in 1..2
      /\ x.lastApplied \in Index /\ x.snap \in Snapshot \cup {Nil}
  BY DEF GoodFollower, NodeStates
<1>2. /\ x.snap # Nil => x.snap.idx <= x.lastApplied
      /\ x.log # <<>> => x.log[1].index <= x.lastApplied + 1
  BY DEF GoodFollower, Applied
<1>3. /\ p \in Index /\ aea.commit \in Index /\ m \in 1..Len(LogOf(t)) /\ Len(LogOf(t)) \in Nat
      /\ n = m - 1 - p /\ p < m /\ aea.commit < m /\ (t = 1 => aea.commit < Committed)
      /\ aea.entries \in Seq(Entry)
  BY LogOfType DEF Sent
<1>4. k \in 0..Len(x.log) /\ Len(x.log) \in Nat
  BY <1>1, MergePointType
<1>5. k # 0 => p >= 0 /\ x.log[k].index = p /\ x.log[k].term = aea.prevTerm
  <2> HAVE k # 0
  <2>1. ~(p < 0) /\ k = FindArrayIdx(x.log, p)
    BY DEF MergePoint
  <2>2. x.log[k].index = p
    BY <1>1, <2>1, FindArrayIdxFinds
  <2>3. x.log[k].term = aea.prevTerm
    BY <2>1 DEF PrevLogOK
  <2> QED
    BY <1>3, <2>1, <2>2, <2>3 DEF Index
<1>6. t = 1 => \A j \in 1..Len(x.log) : Of(1, x.log[j])
  BY <1>1 DEF GoodFollower, Agrees
\* When the entries go to the front of the log the snapshot covers what is before them.
<1>7. k = 0 => p <= x.lastApplied
  <2> HAVE k = 0
  <2>1. CASE p < 0
    BY <1>1, <1>3, <2>1 DEF Index
  <2>2. CASE ~(p < 0)
    <3>1. FindArrayIdx(x.log, p) = 0
      BY <2>2 DEF MergePoint
    <3>2. x.snap # Nil /\ x.snap.idx >= p
      BY <2>2, <3>1 DEF PrevLogOK
    <3>3. x.snap.idx \in Nat
      BY <1>1, <3>2 DEF Snapshot
    <3> QED
      BY <1>1, <1>2, <1>3, <3>2, <3>3, SMTT(40) DEF Index
  <2> QED
    BY <2>1, <2>2
<1>8. /\ new \in Seq(Entry) /\ GoodLog(new)
      /\ q \in 0..Len(new)
      /\ \A j \in 1..q : Of(t, new[j])
      /\ t = 1 => \A j \in 1..Len(new) : Of(1, new[j])
      /\ q # 0 => new[q].index = m - 1
      /\ k # 0 => new[1] = x.log[1]
      /\ k = 0 /\ aea.entries = <<>> => new = x.log
      /\ k = 0 /\ aea.entries # <<>> => new[1].index = p + 1
  <2>1. Continues(t, aea, x.log, k)
    BY <1>5, <1>6 DEF Continues
  <2>2. Follows(t, aea, m, x.log, k, new)
    BY <1>1, <1>4, <2>1, MergeSent
  <2> QED
    BY <2>2 DEF Follows
<1> HIDE DEF n, p
<1>9. n \in Nat /\ q = k + n
  BY <1>3 DEF n
<1> HIDE DEF q
<1>10. x.commitIndex = x.lastApplied /\ r.lastApplied = x.lastApplied /\ r.log = new /\ r.snap = x.snap
  OBVIOUS
<1>11. r.commitIndex >= x.commitIndex /\ r.commitIndex \in Index
  BY <1>1, <1>3 DEF Index
<1>12. ASSUME r.commitIndex > r.lastApplied
       PROVE  r.commitIndex = aea.commit /\ q \in 1..Len(new) /\ new[q].index >= r.commitIndex
  <2>1. r.commitIndex = aea.commit /\ aea.commit > x.lastApplied
    BY <1>1, <1>3, <1>10, <1>12 DEF Index
  <2>2. q # 0
    <3> SUFFICES ASSUME q = 0 PROVE FALSE
      OBVIOUS
    <3>1. k = 0 /\ n = 0
      BY <1>4, <1>9
    <3>2. p = m - 1
      BY <1>3, <3>1 DEF Index
    <3> QED
      BY <1>1, <1>3, <1>7, <2>1, <3>1, <3>2 DEF Index
  <2>3. new[q].index = m - 1
    BY <1>8, <2>2
  <2>4. m - 1 >= aea.commit
    BY <1>3 DEF Index
  <2>5. Len(new) \in Nat
    BY <1>8
  <2> QED
    BY <1>8, <2>1, <2>2, <2>3, <2>4, <2>5
<1>13. ASSUME NEW j \in 1..Len(new)
       PROVE  new[j].index \in Nat /\ new[1].index \in Nat /\ new[j].index = new[1].index + (j - 1)
  <2>1. 1 \in 1..Len(new)
    BY <1>8
  <2>2. new[j] \in Entry /\ new[1] \in Entry
    BY <1>8, <2>1
  <2>3. new[j].index = new[1].index + (j - 1)
    BY <1>8 DEF GoodLog
  <2> QED
    BY <2>2, <2>3 DEF Entry
<1>14. new # <<>> => new[1].index <= x.lastApplied + 1
  <2> HAVE new # <<>>
  <2>1. CASE k # 0
    <3>1. x.log # <<>>
      BY <1>1, <1>4, <2>1
    <3> QED
      BY <1>2, <1>8, <2>1, <3>1
  <2>2. CASE k = 0 /\ aea.entries = <<>>
    BY <1>2, <1>8, <2>2
  <2>3. CASE k = 0 /\ aea.entries # <<>>
    <3>1. new[1].index = p + 1
      BY <1>8, <2>3
    <3> QED
      BY <1>1, <1>3, <1>7, <2>3, <3>1 DEF Index
  <2> QED
    BY <2>1, <2>2, <2>3
<1>15. Applied(r)
  <2>1. r.commitIndex > r.lastApplied => new # <<>> /\ new[Len(new)].index >= r.commitIndex
    <3> HAVE r.commitIndex > r.lastApplied
    <3>1. q \in 1..Len(new) /\ new[q].index >= r.commitIndex /\ Len(new) \in Nat
      BY <1>8, <1>12
    <3>2. Len(new) \in 1..Len(new)
      BY <3>1
    <3>3. /\ new[q].index = new[1].index + (q - 1) /\ new[Len(new)].index = new[1].index + (Len(new) - 1)
          /\ new[1].index \in Nat
      BY <1>13, <3>1, <3>2
    <3> QED
      BY <1>11, <3>1, <3>2, <3>3, SMTT(40) DEF Index
  <2>2. r.lastApplied <= r.commitIndex
    BY <1>1, <1>10, <1>11 DEF Index
  <2> QED
    BY <1>2, <1>10, <1>14, <2>1, <2>2 DEF Applied
<1>16. Agrees(r)
  <2>1. ASSUME NEW j \in 1..Len(new), r.lastApplied < new[j].index, new[j].index <= r.commitIndex
        PROVE  Of(2, new[j])
    <3>1. r.commitIndex > r.lastApplied
      BY <1>1, <1>10, <1>11, <1>13, <2>1 DEF Index
    <3>2. r.commitIndex = aea.commit /\ q \in 1..Len(new) /\ new[q].index = m - 1
      BY <1>8, <1>12, <3>1
    <3>3. new[j].index = new[1].index + (j - 1) /\ new[q].index = new[1].index + (q - 1) /\ new[1].index \in Nat
      BY <1>13, <3>2
    <3>4. j <= q
      BY <1>3, <2>1, <3>2, <3>3, SMTT(40) DEF Index
    <3>5. Of(t, new[j])
      BY <1>8, <3>4
    <3>6. CASE t = 1
      <4>1. new[j].index < Committed
        BY <1>3, <1>13, <2>1, <3>2, <3>6, LogsAssumption, SMTT(40) DEF Index
      <4> QED
        BY <3>5, <3>6, <4>1, CommittedCommon
    <3> QED
      BY <3>5, <3>6
  <2>2. t = 1 => r.commitIndex < Committed
    <3> HAVE t = 1
    <3>1. x.commitIndex < Committed
      BY <1>1 DEF GoodFollower, Agrees
    <3> QED
      BY <1>3, <3>1
  <2> QED
    BY <1>8, <1>10, <2>1, <2>2 DEF Agrees
<1> QED
  BY <1>8, <1>10, <1>11, <1>15, <1>16 DEF GoodFollower

\* The same log, perhaps in a newer term, or with its beginning compacted.
LEMMA CutGood ==
    ASSUME NEW x, GoodFollower(x), x.commitIndex = x.lastApplied,
           NEW r \in NodeStates, r.currentTerm \in 1..2, r.currentTerm >= x.currentTerm,
           r.lastApplied = x.lastApplied, r.commitIndex = x.commitIndex,
           \/ r.log = x.log /\ r.snap = x.snap
           \/ \E k \in 1..Len(x.log) :
                 /\ x.log[k].index = x.lastApplied
                 /\ r.log = SubSeq(x.log, k + 1, Len(x.log))
                 /\ r.snap.idx = x.lastApplied
    PROVE  GoodFollower(r)
<1>1. /\ x \in NodeStates /\ x.log \in Seq(Entry) /\ GoodLog(x.log) /\ x.currentTerm \in 1..2
      /\ x.lastApplied \in Index /\ r.log \in Seq(Entry)
  BY DEF GoodFollower, NodeStates
<1>2. r.currentTerm = 1 => x.currentTerm = 1
  BY <1>1
<1>3. x.currentTerm = 1 => x.commitIndex < Committed /\ \A k \in 1..Len(x.log) : Of(1, x.log[k])
  BY DEF GoodFollower, Agrees
<1>4. r.lastApplied <= r.commitIndex /\ ~(r.commitIndex > r.lastApplied)
  BY <1>1 DEF Index
<1>5. ASSUME NEW k \in 1..Len(r.log)
      PROVE  ~(r.lastApplied < r.log[k].index /\ r.log[k].index <= r.commitIndex)
  <2>1. r.log[k] \in Entry
    BY <1>1
  <2>2. r.log[k].index \in Nat
    BY <2>1 DEF Entry
  <2> QED
    BY <1>1, <2>2 DEF Index
<1>6. CASE r.log = x.log /\ r.snap = x.snap
  <2>1. Applied(r)
    BY <1>4, <1>6 DEF GoodFollower, Applied
  <2>2. Agrees(r)
    BY <1>2, <1>3, <1>5, <1>6 DEF Agrees
  <2> QED
    BY <1>1, <1>6, <2>1, <2>2 DEF GoodFollower
<1>7. ASSUME NEW k \in 1..Len(x.log),
             x.log[k].index = x.lastApplied, r.log = SubSeq(x.log, k + 1, Len(x.log)),
             r.snap.idx = x.lastApplied
      PROVE  GoodFollower(r)
  <2>1. /\ GoodLog(r.log)
        /\ r.log # <<>> => r.log[1].index = x.log[k].index + 1
        /\ \A j \in 1..Len(r.log) : k + j \in 1..Len(x.log) /\ r.log[j] = x.log[k+j]
    <3>1. GoodSuffix(x.log, k, r.log)
      BY <1>1, <1>7, SuffixGood
    <3> QED
      BY <3>1 DEF GoodSuffix
  <2>2. Applied(r)
    <3>1. r.lastApplied \in Int /\ r.snap.idx = r.lastApplied
      BY <1>1, <1>7 DEF Index
    <3>2. r.log # <<>> => r.log[1].index = r.lastApplied + 1
      BY <1>7, <2>1
    <3> QED
      BY <1>4, <3>1, <3>2 DEF Applied
  <2>3. Agrees(r)
    BY <1>2, <1>3, <1>5, <2>1 DEF Agrees
  <2> QED
    BY <2>1, <2>2, <2>3 DEF GoodFollower
<1> QED
  BY <1>6, <1>7

\* handleAppendEntries keeps the follower good and takes nothing back.
LEMMA AppendGood ==
    ASSUME NEW x, GoodFollower(x), x.commitIndex = x.lastApplied,
           NEW t \in 1..2, NEW aea, NEW m, Sent(t, aea, m), NEW data \in Seq(Command),
           NEW r, r = HandleAppendEntries(x, aea, data)
    PROVE  GoodFollower(r) /\ r.lastApplied = x.lastApplied /\ r.commitIndex >= x.commitIndex
<1>1. /\ x \in NodeStates /\ x.log \in Seq(Entry) /\ x.currentTerm \in 1..2 /\ x.commitIndex \in Index
  BY DEF GoodFollower, NodeStates
<1>2. /\ aea.term = t /\ aea.term \in Nat /\ aea.leader \in Server \cup {Nil}
      /\ aea.entries \in Seq(Entry) /\ aea.commit \in Index
  BY DEF Sent
<1>3. /\ r \in NodeStates /\ (t < x.currentTerm => r = x)
      /\ t >= x.currentTerm => r.currentTerm = t
  BY <1>1, <1>2, HandleAppendEntriesEffect
<1>4. r.currentTerm \in 1..2 /\ r.currentTerm >= x.currentTerm
  BY <1>1, <1>3
<1>5. CASE SameLog(x, r) /\ r.commitIndex = x.commitIndex
  <2>1. GoodFollower(r)
    BY <1>3, <1>4, <1>5, CutGood DEF SameLog
  <2> QED
    BY <1>1, <1>5, <2>1 DEF SameLog, Index
<1>6. ASSUME NEW l \in NodeStates, SameLog(x, l), l.commitIndex = x.commitIndex,
             aea.term >= x.currentTerm, PrevLogOK(x, aea),
             IF Overflows(x, aea) THEN r = TakeSnapshot(l, data)
             ELSE r = CommitFrom(MergeEntries(l, MergePoint(x, aea), aea.entries), aea)
      PROVE  GoodFollower(r) /\ r.lastApplied = x.lastApplied /\ r.commitIndex >= x.commitIndex
  <2>1. l.log = x.log /\ l.snap = x.snap /\ l.lastApplied = x.lastApplied
    BY <1>6 DEF SameLog
  <2>2. CASE Overflows(x, aea)
    <3>1. r = TakeSnapshot(l, data)
      BY <1>6, <2>2
    <3>2. /\ r.lastApplied = l.lastApplied /\ r.commitIndex = l.commitIndex
          /\ \/ r.log = l.log /\ r.snap = l.snap
             \/ \E k \in 1..Len(l.log) :
                   /\ l.log[k].index = l.lastApplied
                   /\ r.log = SubSeq(l.log, k + 1, Len(l.log))
                   /\ r.snap.idx = l.lastApplied
      BY <3>1, TakeSnapshotLog
    <3>3. /\ r.lastApplied = x.lastApplied /\ r.commitIndex = x.commitIndex
          /\ \/ r.log = x.log /\ r.snap = x.snap
             \/ \E k \in 1..Len(x.log) :
                   /\ x.log[k].index = x.lastApplied
                   /\ r.log = SubSeq(x.log, k + 1, Len(x.log))
                   /\ r.snap.idx = x.lastApplied
      BY <1>6, <2>1, <3>2
    <3>4. GoodFollower(r)
      BY <1>3, <1>4, <3>3, CutGood
    <3> QED
      BY <1>1, <3>3, <3>4 DEF Index
  <2>3. CASE ~Overflows(x, aea)
    <3> DEFINE k == MergePoint(x, aea)
               g == MergeEntries(l, k, aea.entries)
    <3>1. r = CommitFrom(g, aea)
      BY <1>6, <2>3
    <3>2. k \in 0..Len(l.log)
      BY <1>1, <2>1, MergePointType
    <3>3. g \in NodeStates
      BY <1>2, <3>2, MergeEntriesType
    <3>4. /\ g.snap = l.snap /\ g.lastApplied = l.lastApplied /\ g.commitIndex = l.commitIndex
          /\ Merged(l.log, k, aea.entries, g.log)
      BY <1>2, <3>2, MergeEntriesLog
    <3> HIDE DEF g
    <3>5. /\ r.log = g.log /\ r.snap = g.snap /\ r.lastApplied = g.lastApplied
          /\ r.commitIndex = IF aea.commit <= g.commitIndex THEN g.commitIndex ELSE aea.commit
      BY <3>1, <3>3, CommitSent
    <3> HIDE DEF k
    <3>6. /\ Merged(x.log, k, aea.entries, r.log) /\ r.snap = x.snap /\ r.lastApplied = x.lastApplied
          /\ r.commitIndex = IF aea.commit <= x.commitIndex THEN x.commitIndex ELSE aea.commit
      BY <1>6, <2>1, <3>4, <3>5
    <3>7. t >= x.currentTerm /\ r.currentTerm = t /\ k = MergePoint(x, aea)
      BY <1>2, <1>3, <1>6 DEF k
    <3> QED
      BY <1>3, <1>6, <3>6, <3>7, MergeGood
  <2> QED
    BY <2>2, <2>3
<1> QED
  BY <1>1, <1>2, <1>5, <1>6, HandleAppendEntriesLog

\* handleInstallSnapshotRequest: an empty log after what the snapshot covers.
LEMMA InstallGood ==
    ASSUME NEW x, GoodFollower(x), x.commitIndex = x.lastApplied,
           NEW t \in 1..2, NEW k \in 1..CommittedBy(t), NEW isa, isa = InstallMsg(t, k),
           NEW r, r = HandleInstallSnapshot(x, isa)
    PROVE  GoodFollower(r) /\ r.lastApplied >= x.lastApplied /\ r.commitIndex = r.lastApplied
<1>1. /\ isa.term = t /\ isa.idx \in Nat /\ isa.lastTerm \in Nat
      /\ isa.data \in Seq(Command) /\ isa.config \in SUBSET Server
      /\ t = 1 => isa.idx < Committed
  BY InstallSent
<1>2. x \in NodeStates /\ x.currentTerm \in 1..2 /\ x.lastApplied \in Index
  BY DEF GoodFollower, NodeStates
<1> DEFINE g  == TermSeen(x, isa.term)
           sn == [idx |-> isa.idx, term |-> isa.lastTerm, data |-> isa.data, config |-> isa.config]
<1>3. /\ g \in NodeStates /\ SameLog(x, g)
  BY <1>1, <1>2, TermSeenType, QuietLog
<1>4. g.currentTerm = (IF x.currentTerm < t THEN t ELSE x.currentTerm) /\ g.commitIndex = x.commitIndex
  BY <1>1, <1>2 DEF TermSeen, UpdateCurrentTerm, NodeStates
<1>5. sn \in Snapshot /\ sn.idx = isa.idx
  BY <1>1 DEF Snapshot
<1>6. r = IF Installs(x, isa)
          THEN [g EXCEPT !.snap = sn, !.log = <<>>, !.commitIndex = isa.idx, !.lastApplied = isa.idx]
          ELSE g
  BY DEF HandleInstallSnapshot
<1> HIDE DEF g, sn
<1>7. g.currentTerm \in 1..2 /\ g.currentTerm >= x.currentTerm
  BY <1>2, <1>4
<1>8. CASE ~Installs(x, isa)
  <2>1. r = g /\ g.log = x.log /\ g.snap = x.snap /\ g.lastApplied = x.lastApplied
    BY <1>3, <1>6, <1>8 DEF SameLog
  <2>2. GoodFollower(r)
    BY <1>3, <1>4, <1>7, <2>1, CutGood
  <2> QED
    BY <1>2, <1>4, <2>1, <2>2 DEF Index
<1>9. CASE Installs(x, isa)
  <2>1. t >= x.currentTerm /\ isa.idx > x.lastApplied
    BY <1>1, <1>9 DEF Installs
  <2>2. r = [g EXCEPT !.snap = sn, !.log = <<>>, !.commitIndex = isa.idx, !.lastApplied = isa.idx]
    BY <1>6, <1>9
  <2>3. r \in NodeStates
    <3>1. isa.idx \in Index /\ <<>> \in Seq(Entry) /\ sn \in Snapshot \cup {Nil}
      BY <1>1, <1>5 DEF Index
    <3> DEFINE a == sn
               b == <<>>
               c == isa.idx
    <3> HIDE DEF a, b, c
    <3>2. a \in Snapshot \cup {Nil} /\ b \in Seq(Entry) /\ c \in Index
      BY <3>1 DEF a, b, c
    <3>3. r = [g EXCEPT !.snap = a, !.log = b, !.commitIndex = c, !.lastApplied = c]
      BY <2>2 DEF a, b, c
    <3> QED
      BY <1>3, <3>2, <3>3, ZenonT(60) DEF NodeStates
  <2>4. /\ r.currentTerm = g.currentTerm /\ r.log = <<>> /\ r.snap = sn
        /\ r.commitIndex = isa.idx /\ r.lastApplied = isa.idx
    BY <1>3, <2>2 DEF NodeStates
  <2>5. g.currentTerm = t
    BY <1>2, <1>4, <2>1
  <2>6. GoodLog(r.log)
    BY <2>4 DEF GoodLog
  <2>7. Applied(r)
    BY <1>1, <1>5, <2>4 DEF Applied
  <2>8. Agrees(r)
    BY <1>1, <2>4, <2>5 DEF Agrees
  <2> QED
    BY <1>1, <1>2, <1>7, <2>1, <2>3, <2>4, <2>6, <2>7, <2>8 DEF GoodFollower, Index
<1> QED
  BY <1>8, <1>9

-----------------------------------------------------------------------------
(***************************************************************************)
(* The theorems.                                                           *)
(***************************************************************************)
\* The node after start, in term 1.
LEMMA InitGood == Init => SnapInv
<1> SUFFICES ASSUME Init PROVE SnapInv
  OBVIOUS
<1>1. s = [NewNodeState EXCEPT !.currentTerm = 1]
  BY DEF Init
<1>2. s \in NodeStates
  BY <1>1, NewNodeStateType DEF NodeStates
<1>3. /\ s.currentTerm = 1 /\ s.log = <<>> /\ s.snap = Nil
      /\ s.commitIndex = -1 /\ s.lastApplied = -1
  BY <1>1 DEF NewNodeState
<1>4. GoodLog(s.log) /\ Applied(s)
  BY <1>3 DEF GoodLog, Applied
<1>5. Agrees(s)
  BY <1>3, LogsAssumption DEF Agrees
<1>6. <<>> \in Seq(Command)
  OBVIOUS
<1> QED
  BY <1>2, <1>3, <1>4, <1>5, <1>6 DEF SnapInv, GoodFollower, Init

\* What there is to apply is in the log, and it is L2's.
LEMMA NextGood ==
    ASSUME NEW x, GoodFollower(x), x.commitIndex > x.lastApplied
    PROVE  CanApply(x) /\ NextToApply(x) = New[x.lastApplied + 2] /\ NextToApply(x) \in Entry
<1>1. /\ x.log \in Seq(Entry) /\ GoodLog(x.log)
      /\ x.lastApplied \in Index /\ x.commitIndex \in Index
  BY DEF GoodFollower, NodeStates
<1>2. /\ x.log # <<>> /\ x.log[Len(x.log)].index >= x.commitIndex
      /\ x.log[1].index <= x.lastApplied + 1
  BY DEF GoodFollower, Applied
<1>3. 1 \in 1..Len(x.log) /\ Len(x.log) \in 1..Len(x.log)
  BY <1>1, <1>2
<1>4. x.log[1] \in Entry
  BY <1>1, <1>3
<1>5. x.log[1].index \in Nat /\ x.log[Len(x.log)].index = x.log[1].index + (Len(x.log) - 1)
  BY <1>1, <1>3, <1>4 DEF Entry, GoodLog
<1> DEFINE k == x.lastApplied + 1 - x.log[1].index + 1
           f == FindArrayIdx(x.log, x.lastApplied + 1)
<1>6. k \in 1..Len(x.log) /\ x.log[1].index + (k - 1) = x.lastApplied + 1
  <2> DEFINE a == x.lastApplied
             b == x.log[1].index
             c == Len(x.log)
             i == x.commitIndex
             z == x.log[Len(x.log)].index
  <2>1. k = a + 1 - b + 1 /\ z = b + (c - 1) /\ b \in Nat
    BY <1>5
  <2>2. z >= i /\ b <= a + 1 /\ i > a
    BY <1>2
  <2>3. a \in Int /\ i \in Int
    BY <1>1 DEF Index
  <2>4. c \in Nat
    BY <1>1, LenProperties
  <2> HIDE DEF a, b, c, i, k, z
  <2>5. k \in 1..c /\ b + (k - 1) = a + 1
    BY <2>1, <2>2, <2>3, <2>4
  <2> QED
    BY <2>5 DEF a, b, c
<1> HIDE DEF k
<1>7. x.log[k].index = x.lastApplied + 1
  BY <1>1, <1>6 DEF GoodLog
<1>8. f # 0
  BY <1>1, <1>6, <1>7, FindArrayIdxFinds
<1>9. f \in 1..Len(x.log) /\ x.log[f].index = x.lastApplied + 1
  BY <1>1, <1>8, FindArrayIdxFinds
<1> HIDE DEF f
<1>10. Of(2, x.log[f])
  <2>1. x.lastApplied < x.log[f].index /\ x.log[f].index <= x.commitIndex
    BY <1>1, <1>9 DEF Index
  <2> QED
    BY <1>9, <2>1 DEF GoodFollower, Agrees
<1>11. x.log[f] = New[x.lastApplied + 2]
  <2>1. x.log[f].index + 1 = x.lastApplied + 2
    BY <1>1, <1>9 DEF Index
  <2> QED
    BY <1>10, <2>1 DEF Of, LogOf
<1>12. x.log[f] \in Entry
  BY <1>1, <1>9
<1> QED
  BY <1>8, <1>11, <1>12 DEF CanApply, NextToApply, f

\* The entry applied at an index is the one that was committed there.
LEMMA GoodApplies == SnapInv => AppliesCommitted
<1> SUFFICES ASSUME SnapInv, CanApply(s) PROVE NextToApply(s) = New[s.lastApplied + 2]
  BY DEF AppliesCommitted
<1>1. GoodFollower(s) /\ s.commitIndex > s.lastApplied
  BY DEF SnapInv, CanApply
<1> QED
  BY <1>1, NextGood

\* One step: the invariant stays, and neither index goes back.
Forward == s'.lastApplied >= s.lastApplied /\ s'.commitIndex >= s.commitIndex

LEMMA NextKeepsGood == SnapInv /\ [Next]_vars => SnapInv' /\ Forward
<1> SUFFICES ASSUME SnapInv, [Next]_vars PROVE SnapInv' /\ Forward
  OBVIOUS
<1>0. /\ GoodFollower(s) /\ s \in NodeStates /\ s.lastApplied \in Index /\ s.commitIndex \in Index
      /\ s.log \in Seq(Entry)
  BY DEF SnapInv, GoodFollower, NodeStates
<1>1. CASE ApplyLog
  <2>1. s.commitIndex > s.lastApplied /\ NextToApply(s) \in Entry
    <3>1. s.commitIndex > s.lastApplied
      BY <1>1 DEF ApplyLog, CanApply
    <3> QED
      BY <1>0, <3>1, NextGood
  <2>2. sm' \in Seq(Command)
    <3>1. NextToApply(s).kind = "command" => NextToApply(s).val \in Command
      BY <2>1 DEF Entry
    <3>2. sm \in Seq(Command)
      BY DEF SnapInv
    <3>3. sm' = IF NextToApply(s).kind = "command" THEN Append(sm, NextToApply(s).val) ELSE sm
      BY <1>1 DEF ApplyLog
    <3> QED
      BY <3>1, <3>2, <3>3
  <2> DEFINE a == s.lastApplied + 1
  <2>3. a \in Index /\ s' = [s EXCEPT !.lastApplied = a]
    BY <1>0, <1>1 DEF ApplyLog, Index
  <2>4. s'.lastApplied = s.lastApplied + 1
    BY <1>0, <2>3 DEF NodeStates
  <2> HIDE DEF a
  <2>5. /\ s' \in NodeStates /\ s'.currentTerm = s.currentTerm
        /\ s'.log = s.log /\ s'.snap = s.snap /\ s'.commitIndex = s.commitIndex
    BY <1>0, <2>3 DEF NodeStates
  <2>6. Applied(s')
    <3>1. s.snap # Nil => s.snap.idx <= s'.lastApplied
      <4>1. s.snap # Nil => s.snap.idx \in Nat /\ s.snap.idx <= s.lastApplied
        BY <1>0 DEF NodeStates, Snapshot, GoodFollower, Applied
      <4> QED
        BY <1>0, <2>4, <4>1 DEF Index
    <3>2. s.log # <<>> => s.log[1].index <= s'.lastApplied + 1
      <4>1. s.log # <<>> => s.log[1] \in Entry
        BY <1>0
      <4>2. s.log # <<>> => s.log[1].index \in Nat /\ s.log[1].index <= s.lastApplied + 1
        BY <1>0, <4>1 DEF Entry, GoodFollower, Applied
      <4> QED
        BY <1>0, <2>4, <4>2 DEF Index
    <3>3. s.log # <<>> /\ s.log[Len(s.log)].index >= s.commitIndex
      BY <1>0, <2>1 DEF GoodFollower, Applied
    <3>4. s'.lastApplied <= s.commitIndex
      BY <1>0, <2>1, <2>4 DEF Index
    <3> QED
      BY <2>5, <3>1, <3>2, <3>3, <3>4 DEF Applied
  <2>7. Agrees(s')
    <3>1. ASSUME NEW k \in 1..Len(s.log), s'.lastApplied < s.log[k].index, s.log[k].index <= s.commitIndex
          PROVE  Of(2, s.log[k])
      <4>1. s.log[k] \in Entry
        BY <1>0
      <4>2. s.lastApplied < s.log[k].index
        BY <1>0, <2>4, <3>1, <4>1 DEF Entry, Index
      <4> QED
        BY <1>0, <3>1, <4>2 DEF GoodFollower, Agrees
    <3> QED
      BY <1>0, <2>5, <3>1 DEF GoodFollower, Agrees
  <2>8. GoodFollower(s')
    BY <1>0, <2>5, <2>6, <2>7 DEF GoodFollower
  <2>9. Forward
    BY <1>0, <2>4, <2>5 DEF Forward, Index
  <2> QED
    BY <1>1, <2>2, <2>8, <2>9 DEF ApplyLog, SnapInv
<1>2. CASE EnterSelect
  <2>1. s' = s /\ sm' = sm /\ install' = install /\ loop' = "select"
    BY <1>2 DEF EnterSelect
  <2>2. s.commitIndex = s.lastApplied
    <3>1. ~(s.commitIndex > s.lastApplied)
      BY <1>0, <1>2, NextGood DEF EnterSelect
    <3>2. s.lastApplied <= s.commitIndex
      BY <1>0 DEF GoodFollower, Applied
    <3> QED
      BY <1>0, <3>1, <3>2 DEF Index
  <2> QED
    BY <1>0, <2>1, <2>2 DEF SnapInv, Forward, Index
<1>3. ASSUME NEW t \in 1..2, HandleAppend(t) PROVE SnapInv' /\ Forward
  <2>1. /\ loop = "select" /\ loop' = "top" /\ sm' = sm /\ install' = install
        /\ s.commitIndex = s.lastApplied /\ sm \in Seq(Command)
    BY <1>3 DEF HandleAppend, SnapInv
  <2>2. PICK m \in Elected(t)..Len(LogOf(t)) : \E i \in 1..(m + 1), c \in 0..Min({m, CommittedBy(t)}) :
            s' = HandleAppendEntries(s, AppendMsg(t, m, i, c), sm)
    BY <1>3 DEF HandleAppend
  <2>3. PICK i \in 1..(m + 1), c \in 0..Min({m, CommittedBy(t)}) :
            s' = HandleAppendEntries(s, AppendMsg(t, m, i, c), sm)
    BY <2>2
  <2>4. Sent(t, AppendMsg(t, m, i, c), m)
    BY AppendSent
  <2>5. GoodFollower(s') /\ s'.lastApplied = s.lastApplied /\ s'.commitIndex >= s.commitIndex
    BY <1>0, <2>1, <2>3, <2>4, AppendGood
  <2> QED
    BY <1>0, <2>1, <2>5 DEF SnapInv, Forward, Index
<1>4. ASSUME NEW t \in 1..2, HandleInstall(t) PROVE SnapInv' /\ Forward
  <2>1. /\ loop = "select" /\ loop' = "top" /\ sm' = sm
        /\ s.commitIndex = s.lastApplied /\ sm \in Seq(Command) /\ install \in Seq(Command) \cup {Nil}
    BY <1>4 DEF HandleInstall, SnapInv
  <2>2. PICK k \in 1..CommittedBy(t) :
           /\ s' = HandleInstallSnapshot(s, InstallMsg(t, k))
           /\ install' \in {install, InstallMsg(t, k).data}
    BY <1>4 DEF HandleInstall
  <2>3. InstallMsg(t, k).data \in Seq(Command)
    BY InstallSent
  <2>4. GoodFollower(s') /\ s'.lastApplied >= s.lastApplied /\ s'.commitIndex = s'.lastApplied
    BY <1>0, <2>1, <2>2, InstallGood
  <2> QED
    BY <1>0, <2>1, <2>2, <2>3, <2>4 DEF SnapInv, Forward
<1>5. CASE Restore
  <2>1. s' = s /\ loop' = loop /\ sm' = install /\ install' = Nil /\ install # Nil
    BY <1>5 DEF Restore
  <2> QED
    BY <1>0, <2>1 DEF SnapInv, Forward, Index
<1>6. CASE UNCHANGED vars
  BY <1>0, <1>6 DEF vars, SnapInv, Forward, Index
<1> QED
  BY <1>1, <1>2, <1>3, <1>4, <1>5, <1>6 DEF Next

\* handleInstallSnapshotRequest and handleAppendEntries: no late message takes back
\* what the follower has applied or knows to be committed.
THEOREM NothingTakenBack == Spec => NeverBack
<1>1. SnapInv /\ [Next]_vars =>
        [s'.lastApplied >= s.lastApplied /\ s'.commitIndex >= s.commitIndex]_vars
  BY NextKeepsGood DEF Forward
<1> QED
  BY InitGood, NextKeepsGood, <1>1, PTL DEF Spec, NeverBack

\* handleAppendEntries and checkLogsToApply: the entry applied at an index is the one
\* that was committed there, for any logs the two leaders may have and any LogCap.
THEOREM CommittedApplied == Spec => []AppliesCommitted
  BY InitGood, NextKeepsGood, GoodApplies, PTL DEF Spec

=============================================================================
