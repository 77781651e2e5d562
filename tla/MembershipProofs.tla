--------------------------- MODULE MembershipProofs ---------------------------
(***************************************************************************)
(* Membership changes, for every cluster, all calls, all changes of other  *)
(* leaders and every size of the log array.  At most one is under way      *)
(* until another leader's change comes in; the configuration is the one    *)
(* the log says until two are under way at once or the array is full; a    *)
(* caller who is told of success got the change until another leader's     *)
(* change comes in or the array is full.                                   *)
(***************************************************************************)
EXTENDS Membership, NodeStateProofs, FiniteSetTheorems

(***************************************************************************)
(* The invariant: the changes in the log that were not applied yet are at  *)
(* most one, and while there is one inConfigChange is set, so that none of *)
(* the four goroutines starts another, until another leader's change comes *)
(* in; and at most one, until two were met.                                *)
(***************************************************************************)
Lone(r) == \A j, k \in Pending(r) : j = k

Stages == {"top", "select", "idle", "join", "enqueue", "start", "read", "register"}

Results == {"none", "waiting", "refused", "ok"}

MemberType ==
    /\ s \in NodeStates
    /\ queue \in Seq(Request)
    /\ unvoting \subseteq Request
    /\ th \in [Threads -> [at : Stages, q : Request \cup {Nil}, idx : Nat]]
    /\ \A t \in Threads : th[t].at \in {"join", "enqueue"} => th[t].q \in Request
    /\ result \in [Request -> Results]

ChangeInv ==
    /\ Lone(s)
    /\ Pending(s) # {} => inChange

LockInv ==
    /\ "foreign" \notin met => ChangeInv /\ "crossed" \notin met
    /\ "crossed" \notin met => Lone(s)

\* No change of another leader comes in, and none joins one that is pending.
Aside == met' \in {met, met \cup {"full"}}

\* No change is added, and of one that was alone not two are made.
Sheds(r, new) ==
    Lone(r) => Lone(new) /\ (Pending(new) # {} => Pending(r) # {})

-----------------------------------------------------------------------------
(***************************************************************************)
(* What the methods of nodeState do to the changes in the log.             *)
(***************************************************************************)
\* A method that leaves the log.
LEMMA SameSheds ==
    ASSUME NEW r, NEW new, SameLog(r, new)
    PROVE  Sheds(r, new)
  BY DEF SameLog, Sheds, Lone, Pending, Configuring

\* The log is cut off after position c, and entries that change nothing follow.
LEMMA CutSheds ==
    ASSUME NEW r \in NodeStates, NEW new, new.lastApplied = r.lastApplied,
           NEW c \in 0..Len(r.log), NEW es \in Seq(Entry),
           \A i \in 1..Len(es) : es[i].kind = "noop",
           new.log = SubSeq(r.log, 1, c) \o es
    PROVE  Sheds(r, new)
<1>1. r.log \in Seq(Entry) /\ Len(r.log) \in Nat /\ Len(es) \in Nat
  BY DEF NodeStates
<1>2. SubSeq(r.log, 1, c) \in Seq(Entry) /\ Len(SubSeq(r.log, 1, c)) = c
      /\ \A k \in 1..c : SubSeq(r.log, 1, c)[k] = r.log[k]
  BY <1>1
<1>3. /\ Len(new.log) = c + Len(es)
      /\ \A k \in 1..c : new.log[k] = r.log[k]
      /\ \A k \in 1..Len(new.log) : k > c => k - c \in 1..Len(es) /\ new.log[k] = es[k - c]
  BY <1>1, <1>2
<1>4. ASSUME NEW k \in Pending(new) PROVE k \in Pending(r)
  <2>1. k \in 1..Len(new.log) /\ new.log[k].kind \in {"add", "remove"}
        /\ new.log[k].index > new.lastApplied
    BY DEF Pending, Configuring
  <2>2. k \in 1..c
    <3> SUFFICES ASSUME k > c PROVE FALSE
      BY <1>1, <1>3, <2>1
    <3> QED
      BY <1>3, <2>1
  <2> QED
    BY <1>1, <1>3, <2>1, <2>2 DEF Pending, Configuring
<1> QED
  BY <1>4 DEF Sheds, Lone

\* takeSnapshot drops a prefix of the log.
LEMMA SnapshotSheds ==
    ASSUME NEW r \in NodeStates, NEW data
    PROVE  Sheds(r, TakeSnapshot(r, data))
<1> DEFINE c   == FindArrayIdx(r.log, r.lastApplied)
           new == TakeSnapshot(r, data)
<1>1. r.log \in Seq(Entry) /\ Len(r.log) \in Nat
  BY DEF NodeStates
<1>2. c \in 0..Len(r.log)
  BY <1>1, FindArrayIdxType
<1>3. CASE c = 0
  <2>1. new = r
    BY <1>3 DEF TakeSnapshot
  <2> QED
    BY <2>1 DEF Sheds
<1>4. CASE c # 0
  <2>1. new.log = SubSeq(r.log, c + 1, Len(r.log)) /\ new.lastApplied = r.lastApplied
    BY <1>4 DEF TakeSnapshot, NodeStates
  <2> HIDE DEF c, new
  <2>2. Len(new.log) = Len(r.log) - c
        /\ \A k \in 1..Len(new.log) : new.log[k] = r.log[c + k] /\ c + k \in 1..Len(r.log)
    BY <1>1, <1>2, <2>1
  <2>3. ASSUME NEW k \in Pending(new) PROVE c + k \in Pending(r) /\ k \in Nat
    <3>1. k \in 1..Len(new.log) /\ new.log[k].kind \in {"add", "remove"}
          /\ new.log[k].index > new.lastApplied
      BY DEF Pending, Configuring
    <3>2. c + k \in 1..Len(r.log) /\ r.log[c + k] = new.log[k] /\ k \in Nat
      BY <2>2, <3>1
    <3> QED
      BY <2>1, <3>1, <3>2 DEF Pending, Configuring
  <2>4. ASSUME Lone(r), NEW j \in Pending(new), NEW k \in Pending(new) PROVE j = k
    <3>1. c + j = c + k
      BY <2>3, <2>4 DEF Lone
    <3> QED
      BY <1>2, <2>3, <3>1
  <2>5. Lone(r) => Lone(new)
    BY <2>4 DEF Lone
  <2> QED
    BY <2>3, <2>5 DEF Sheds, new
<1> QED
  BY <1>3, <1>4

\* handleAppendEntries, for entries that change no membership.
LEMMA HandleSheds ==
    ASSUME NEW r \in NodeStates, NEW aea, aea.term \in Nat, aea.leader \in Server \cup {Nil},
           aea.entries \in Seq(Entry), aea.commit \in Index,
           \A i \in 1..Len(aea.entries) : aea.entries[i].kind = "noop",
           NEW data \in Seq(Command), NEW new, new = HandleAppendEntries(r, aea, data)
    PROVE  new \in NodeStates /\ Sheds(r, new)
<1>1. new \in NodeStates
  BY HandleAppendEntriesEffect
<1>2. CASE SameLog(r, new)
  BY <1>1, <1>2, SameSheds
<1>3. ASSUME NEW l \in NodeStates, SameLog(r, l),
             IF Overflows(r, aea) THEN new = TakeSnapshot(l, data)
             ELSE new = CommitFrom(MergeEntries(l, MergePoint(r, aea), aea.entries), aea)
      PROVE  Sheds(r, new)
  <2> DEFINE k  == MergePoint(r, aea)
             es == aea.entries
             j  == MergeEntries(l, k, es)
  <2>1. Sheds(r, l)
    BY <1>3, SameSheds
  <2>2. k \in 0..Len(l.log)
    BY <1>3, MergePointType DEF SameLog
  <2> HIDE DEF k
  <2>3. Sheds(l, new)
    <3>1. CASE Overflows(r, aea)
      BY <1>3, <3>1, SnapshotSheds
    <3>2. CASE ~Overflows(r, aea)
      <4>1. new = CommitFrom(j, aea) /\ j \in NodeStates
        BY <1>3, <2>2, <3>2, MergeEntriesType DEF k
      <4>2. j.lastApplied = l.lastApplied /\ Merged(l.log, k, es, j.log)
        BY <2>2, MergeEntriesLog
      <4> HIDE DEF j
      <4>3. new.log = j.log /\ new.lastApplied = l.lastApplied
        BY <4>1, <4>2, QuietLog DEF SameLog
      <4>4. CASE j.log = l.log
        BY <4>3, <4>4 DEF Sheds, Lone, Pending, Configuring
      <4>5. ASSUME NEW d \in 1..Len(es), k + d - 1 \in 0..Len(l.log),
                   j.log = SubSeq(l.log, 1, k + d - 1) \o SubSeq(es, d, Len(es))
            PROVE  Sheds(l, new)
        <5> DEFINE c == k + d - 1
                   b == SubSeq(es, d, Len(es))
        <5>1. /\ b \in Seq(Entry) /\ Len(b) = Len(es) - d + 1
              /\ \A i \in 1..Len(b) : b[i] = es[d + i - 1] /\ d + i - 1 \in 1..Len(es)
          OBVIOUS
        <5>2. \A i \in 1..Len(b) : b[i].kind = "noop"
          BY <5>1
        <5>3. c \in 0..Len(l.log) /\ new.log = SubSeq(l.log, 1, c) \o b
          BY <4>3, <4>5
        <5> HIDE DEF b, c
        <5> QED
          BY <4>3, <5>1, <5>2, <5>3, CutSheds
      <4>6. Differing(l.log, k, es) \subseteq 1..Len(es)
        BY DEF Differing
      <4> HIDE DEF es
      <4> QED
        BY <4>2, <4>4, <4>5, <4>6 DEF Merged
    <3> QED
      BY <3>1, <3>2
  <2> QED
    BY <2>1, <2>3 DEF Sheds
<1> QED
  BY <1>1, <1>2, <1>3, HandleAppendEntriesLog

\* winElection appends a no-op or nothing.
LEMMA WinSheds ==
    ASSUME NEW r \in NodeStates, NEW id \in Server
    PROVE  Sheds(r, WinElection(r, id))
<1> DEFINE new == WinElection(r, id)
           e   == Noop(LastLogIdx(r) + 1, r.currentTerm)
<1>1. /\ new.lastApplied = r.lastApplied
      /\ new.log = r.log \/ new.log = Append(r.log, e)
  BY WinElectionLog, LogCapAssumption DEF NodeStates
<1>2. e \in Entry /\ e.kind = "noop"
  <2>1. LastLogIdx(r) + 1 \in Nat /\ r.currentTerm \in Nat
    BY LastLogType, SMTT(40) DEF Index, NodeStates
  <2> QED
    BY <2>1 DEF Noop, Entry
<1> SUFFICES Sheds(r, new)
  OBVIOUS
<1> HIDE DEF new, e
<1>3. CASE new.log = r.log
  BY <1>1, <1>3 DEF Sheds, Lone, Pending, Configuring
<1>4. CASE new.log = Append(r.log, e)
  <2>1. r.log \in Seq(Entry) /\ Len(r.log) \in 0..Len(r.log)
    BY DEF NodeStates
  <2>2. new.log = SubSeq(r.log, 1, Len(r.log)) \o <<e>> /\ <<e>> \in Seq(Entry)
    BY <1>2, <1>4, <2>1
  <2>3. \A i \in 1..Len(<<e>>) : <<e>>[i].kind = "noop"
    BY <1>2
  <2> QED
    BY <1>1, <2>1, <2>2, <2>3, CutSheds
<1> QED
  BY <1>1, <1>3, <1>4

\* addConfigLogUnlocked adds at most the one entry.
LEMMA AddsOne ==
    ASSUME s \in NodeStates, NEW q \in Request
    PROVE  AddConfigLog(q) \in NodeStates /\ (Pending(s) = {} => Lone(AddConfigLog(q)))
<1> DEFINE e   == [index |-> LastLogIdx(s) + 1, term |-> s.currentTerm,
                   kind |-> Change[q].kind, val |-> Change[q].val]
           c   == ApplyConfigurations(s, e.index, <<e>>)
           new == AddConfigLog(q)
<1>1. LastLogIdx(s) + 1 \in Nat /\ LastLogIdx(s) + 1 + 1 \in Nat /\ s.currentTerm \in Nat
      /\ s.log \in Seq(Entry)
  <2>1. LastLogIdx(s) \in Index
    BY LastLogType
  <2>2. s.currentTerm \in Nat /\ s.log \in Seq(Entry)
    BY DEF NodeStates
  <2> QED
    BY <2>1, <2>2 DEF Index
<1>2. Change[q].kind \in {"add", "remove"} /\ Change[q].val \in Server
  BY ChangeAssumption
<1>3. e \in Entry /\ e.index \in Nat /\ e.index + 1 \in Nat
  BY <1>1, <1>2 DEF Entry
<1>4. new = IF Len(s.log) >= LogCap THEN c ELSE AppendOwn(c, s.currentLeader, e)
  BY DEF AddConfigLog
<1> SUFFICES new \in NodeStates /\ (Pending(s) = {} => Lone(new))
  OBVIOUS
<1> HIDE DEF e, new
<1>5. c \in NodeStates /\ c.log = s.log /\ c.lastApplied = s.lastApplied
  <2>1. c \in NodeStates
    <3>1. <<e>> \in Seq(Entry)
      BY <1>3
    <3> QED
      BY <1>3, <3>1, ApplyConfigurationsType
  <2>2. c = s \/ \E x, y, z : c = [s EXCEPT !.oldConfig = x, !.config = y, !.lastConfigIdx = z]
    BY DEF ApplyConfigurations
  <2> QED
    BY <2>1, <2>2 DEF NodeStates
<1> HIDE DEF c
<1>6. CASE Len(s.log) >= LogCap
  BY <1>4, <1>5, <1>6 DEF Lone, Pending, Configuring
<1>7. CASE ~(Len(s.log) >= LogCap)
  <2>1. new = [c EXCEPT !.log                         = Append(s.log, e),
                        !.matchIndex[s.currentLeader] = e.index,
                        !.lastSent[s.currentLeader]   = e.index,
                        !.nextIndex[s.currentLeader]  = e.index + 1]
    BY <1>4, <1>5, <1>7 DEF AppendOwn
  <2>2. Append(s.log, e) \in Seq(Entry) /\ e.index \in Index
    BY <1>1, <1>3 DEF Index
  <2>3. new \in NodeStates
    BY <1>3, <1>5, <2>1, <2>2, ZenonT(60) DEF NodeStates
  <2>4. new.log = Append(s.log, e) /\ new.lastApplied = s.lastApplied
    BY <1>5, <2>1 DEF NodeStates
  <2>5. ASSUME Pending(s) = {}, NEW k \in Pending(new) PROVE k = Len(s.log) + 1
    <3>1. k \in 1..Len(new.log) /\ new.log[k].kind \in {"add", "remove"}
          /\ new.log[k].index > new.lastApplied
      BY DEF Pending, Configuring
    <3>2. k \in 1..Len(s.log)+1
      BY <1>1, <2>4, <3>1
    <3> SUFFICES ASSUME k \in 1..Len(s.log) PROVE FALSE
      BY <1>1, <3>2
    <3>3. new.log[k] = s.log[k]
      BY <1>1, <2>4
    <3> QED
      BY <2>4, <2>5, <3>1, <3>3 DEF Pending, Configuring
  <2> QED
    BY <2>3, <2>5 DEF Lone
<1> QED
  BY <1>6, <1>7

\* sendAppendEntriesRPCs moves lastSent only.
LEMMA SentSheds ==
    ASSUME NEW r \in NodeStates, NEW ps \in SUBSET Server, NEW new, new = ArgsBuilt(r, ps)
    PROVE  new \in NodeStates /\ SameLog(r, new)
  BY ArgsBuiltType, QuietLog

\* A successful answer moves leader state only.
LEMMA AcknowledgedSheds ==
    ASSUME NEW r \in NodeStates, NEW x \in Server, NEW new,
           new = HandleAppendEntriesResponse(r, [success |-> TRUE, src |-> x])
    PROVE  new \in NodeStates /\ SameLog(r, new)
<1>1. new = [r EXCEPT !.nextIndex[x] = r.lastSent[x] + 1, !.matchIndex[x] = r.lastSent[x]]
  BY DEF HandleAppendEntriesResponse
<1>2. r.lastSent[x] \in Index /\ r.lastSent[x] + 1 \in Nat
  <2>1. r.lastSent \in [Server -> Index]
    BY DEF NodeStates
  <2> QED
    BY <2>1 DEF Index
<1>3. /\ [r.nextIndex EXCEPT ![x] = r.lastSent[x] + 1] \in [Server -> Nat]
      /\ [r.matchIndex EXCEPT ![x] = r.lastSent[x]] \in [Server -> Index]
  BY <1>2 DEF NodeStates
<1>4. new \in NodeStates
  BY <1>1, <1>3 DEF NodeStates
<1> QED
  BY <1>1, <1>4 DEF SameLog, NodeStates

\* So does the answer to a snapshot.
LEMMA InstalledSheds ==
    ASSUME NEW r \in NodeStates, NEW x \in Server, NEW i \in Nat, NEW new,
           new = HandleInstallSnapshotResponse(r, [success |-> TRUE, src |-> x, idx |-> i])
    PROVE  new \in NodeStates /\ SameLog(r, new)
<1>1. new = [r EXCEPT !.lastSent[x] = i, !.nextIndex[x] = i + 1, !.matchIndex[x] = i]
  BY DEF HandleInstallSnapshotResponse
<1>2. i \in Index /\ i + 1 \in Nat
  BY DEF Index
<1>3. /\ [r.nextIndex EXCEPT ![x] = i + 1] \in [Server -> Nat]
      /\ [r.matchIndex EXCEPT ![x] = i] \in [Server -> Index]
      /\ [r.lastSent EXCEPT ![x] = i] \in [Server -> Index]
  BY <1>2 DEF NodeStates
<1>4. new \in NodeStates
  BY <1>1, <1>3 DEF NodeStates
<1> QED
  BY <1>1, <1>4 DEF SameLog, NodeStates

\* The servers entries are sent to are servers.
LEMMA TargetsType ==
    ASSUME NEW joining \in SUBSET Request
    PROVE  Targets(joining) \in SUBSET Server
  BY ChangeAssumption, MembersAssumption DEF Targets

\* At most one is at most one.
LEMMA LoneCount ==
    ASSUME NEW r \in NodeStates
    PROVE  (Lone(r) <=> Cardinality(Pending(r)) <= 1) /\ (Lone(r) <=> Crossed(r) = {})
<1>1. IsFiniteSet(Pending(r))
  <2>1. Len(r.log) \in Nat /\ Pending(r) \subseteq 1..Len(r.log)
    BY DEF NodeStates, Pending, Configuring
  <2>2. IsFiniteSet(1..Len(r.log))
    BY <2>1, FS_Interval
  <2> QED
    BY <2>1, <2>2, FS_Subset
<1>2. CASE Pending(r) = {}
  BY <1>2, FS_EmptySet DEF Lone, Crossed
<1>3. CASE Pending(r) # {}
  <2>1. PICK k \in Pending(r) : TRUE
    BY <1>3
  <2> DEFINE R == Pending(r) \ {k}
  <2>2. IsFiniteSet(R) /\ Cardinality(R) = Cardinality(Pending(r)) - 1
    BY <1>1, <2>1, FS_RemoveElement
  <2>3. Cardinality(Pending(r)) \in Nat /\ Cardinality(R) \in Nat
    BY <1>1, <2>2, FS_CardinalityType
  <2>4. Cardinality(R) = 0 <=> R = {}
    BY <2>2, FS_EmptySet
  <2>5. Lone(r) <=> R = {}
    BY <2>1 DEF Lone
  <2> HIDE DEF R
  <2>6. Lone(r) <=> Cardinality(Pending(r)) <= 1
    BY <2>2, <2>3, <2>4, <2>5
  <2>7. Cardinality(Pending(r)) <= 1 <=> ~(Cardinality(Pending(r)) > 1)
    BY <2>3
  <2> QED
    BY <2>6, <2>7 DEF Crossed
<1> QED
  BY <1>2, <1>3

-----------------------------------------------------------------------------
(***************************************************************************)
(* The steps.                                                              *)
(***************************************************************************)
\* A step that starts no change and applies none.
LEMMA ShedStep ==
    ASSUME LockInv, Sheds(s, s'), inChange' = inChange, Aside
    PROVE  LockInv'
<1>1. Lone(s) => Lone(s') /\ (Pending(s') # {} => Pending(s) # {})
  BY DEF Sheds
<1>2. ("foreign" \in met' <=> "foreign" \in met) /\ ("crossed" \in met' <=> "crossed" \in met)
  BY DEF Aside
<1> QED
  BY <1>1, <1>2 DEF LockInv, ChangeInv

\* A step that adds entries without a change.
LEMMA FilledAside ==
    ASSUME NEW k, met' = met \cup Filled(k)
    PROVE  Aside
  BY DEF Filled, Aside

\* A goroutine moves on.
LEMMA GoType ==
    ASSUME MemberType, NEW t \in Threads, NEW at \in Stages \ {"join", "enqueue"}, Go(t, at)
    PROVE  /\ th' \in [Threads -> [at : Stages, q : Request \cup {Nil}, idx : Nat]]
           /\ \A u \in Threads : th'[u].at \in {"join", "enqueue"} => th'[u].q \in Request
  BY DEF MemberType, Go

\* A goroutine takes a call on.
LEMMA ThreadType ==
    ASSUME MemberType, NEW t \in Threads, NEW at \in Stages, NEW q \in Request,
           th' = [th EXCEPT ![t] = Thread(at, q)]
    PROVE  /\ th' \in [Threads -> [at : Stages, q : Request \cup {Nil}, idx : Nat]]
           /\ \A u \in Threads : th'[u].at \in {"join", "enqueue"} => th'[u].q \in Request
  BY DEF MemberType, Thread

\* handleConfigurationMessages takes a call; AddServer makes the server known.
LEMMA CallSteps ==
    ASSUME MemberType, LockInv, (\E q \in Request : ReceiveCall(q)) \/ Join
    PROVE  MemberType' /\ LockInv'
<1>0. "conf" \in Threads /\ {"join", "enqueue", "idle"} \subseteq Stages
  BY DEF Threads, Stages
<1>1. ASSUME NEW q \in Request, ReceiveCall(q) PROVE MemberType' /\ LockInv'
  <2>1. UNCHANGED <<s, queue, inChange, unvoting, met>>
    BY <1>1 DEF ReceiveCall
  <2>2. /\ th' \in [Threads -> [at : Stages, q : Request \cup {Nil}, idx : Nat]]
        /\ \A u \in Threads : th'[u].at \in {"join", "enqueue"} => th'[u].q \in Request
    <3>1. CASE s.role = Leader
      <4> DEFINE at == IF Change[q].kind = "add" THEN "join" ELSE "enqueue"
      <4>1. th' = [th EXCEPT !["conf"] = Thread(at, q)] /\ at \in Stages
        BY <1>0, <1>1, <3>1 DEF ReceiveCall
      <4> HIDE DEF at
      <4> QED
        BY <1>0, <4>1, ThreadType
    <3>2. CASE s.role # Leader
      BY <1>1, <3>2 DEF ReceiveCall, MemberType
    <3> QED
      BY <3>1, <3>2
  <2>3. result' \in [Request -> Results]
    <3>1. \E v \in Results : result' = [result EXCEPT ![q] = v]
      BY <1>1 DEF ReceiveCall, Results
    <3> QED
      BY <3>1 DEF MemberType
  <2>4. MemberType'
    BY <2>1, <2>2, <2>3 DEF MemberType
  <2>5. Sheds(s, s') /\ Aside
    BY <2>1, SameSheds DEF SameLog, Aside
  <2> QED
    BY <2>1, <2>4, <2>5, ShedStep
<1>2. CASE Join
  <2> DEFINE x == Change[th["conf"].q].val
             b == IF x \in keys THEN s ELSE Track(x)
  <2>1. th["conf"].q \in Request /\ s \in NodeStates
    BY <1>0, <1>2 DEF Join, MemberType
  <2>2. x \in Server
    BY <2>1, ChangeAssumption
  <2>3. /\ s' = ArgsBuilt(b, Targets(unvoting'))
        /\ unvoting' \subseteq unvoting \cup {th["conf"].q}
        /\ Go("conf", "idle") /\ UNCHANGED <<queue, inChange, result, met>>
    BY <1>2 DEF Join
  <2> HIDE DEF x
  <2>4. b \in NodeStates /\ SameLog(s, b)
    <3>1. Track(x) \in NodeStates /\ SameLog(s, Track(x))
      BY <2>1, <2>2 DEF Track, NodeStates, Index, SameLog
    <3> QED
      BY <2>1, <3>1 DEF SameLog
  <2> HIDE DEF b
  <2>5. unvoting' \in SUBSET Request
    BY <2>1, <2>3 DEF MemberType
  <2>6. Targets(unvoting') \in SUBSET Server
    BY <2>5, TargetsType
  <2>7. s' \in NodeStates /\ SameLog(s, s')
    <3>1. s' \in NodeStates /\ SameLog(b, s')
      BY <2>3, <2>4, <2>6, SentSheds
    <3> QED
      BY <2>4, <3>1 DEF SameLog
  <2>8. MemberType'
    BY <1>0, <2>3, <2>5, <2>7, GoType DEF MemberType
  <2>9. Sheds(s, s') /\ Aside
    BY <2>3, <2>7, SameSheds DEF Aside
  <2> QED
    BY <2>3, <2>8, <2>9, ShedStep
<1> QED
  BY <1>1, <1>2

\* A change is queued, started when none is under way, and noted for its caller.
LEMMA StartSteps ==
    ASSUME MemberType, LockInv, NEW t \in Threads, Start(t)
    PROVE  MemberType' /\ LockInv'
<1>0. {"top", "select", "idle", "start", "read", "register"} \subseteq Stages \ {"join", "enqueue"}
      /\ Rest(t) \in Stages \ {"join", "enqueue"}
  BY DEF Stages, Rest
<1>s. ASSUME UNCHANGED <<s, inChange, met>> PROVE LockInv'
  <2>1. Sheds(s, s') /\ Aside
    BY <1>s, SameSheds DEF SameLog, Aside
  <2> QED
    BY <1>s, <2>1, ShedStep
<1>1. CASE Enqueue(t)
  <2>1. th[t].q \in Request
    BY <1>1 DEF Enqueue, MemberType
  <2>2. queue' = Append(queue, th[t].q) /\ Go(t, "start") /\ UNCHANGED <<s, inChange, unvoting, result, met>>
    BY <1>1 DEF Enqueue
  <2>3. queue' \in Seq(Request)
    BY <2>1, <2>2 DEF MemberType
  <2>4. /\ th' \in [Threads -> [at : Stages, q : Request \cup {Nil}, idx : Nat]]
        /\ \A u \in Threads : th'[u].at \in {"join", "enqueue"} => th'[u].q \in Request
    BY <1>0, <2>2, GoType
  <2>5. MemberType'
    BY <2>2, <2>3, <2>4 DEF MemberType
  <2> QED
    BY <1>s, <2>2, <2>5
<1>2. CASE StartNext(t)
  <2>1. CASE CanStart
    <3>1. /\ inChange' = TRUE /\ queue' = Tail(queue) /\ s' = AddConfigLog(Head(queue))
          /\ th' = [th EXCEPT ![t] = Thread("read", Head(queue))] /\ UNCHANGED <<unvoting, result>>
          /\ met' = met \cup Crossed(s') \cup Filled(Len(s.log))
      BY <1>2, <2>1 DEF StartNext
    <3>2. ~inChange /\ queue # <<>> /\ queue \in Seq(Request)
      BY <2>1 DEF CanStart, MemberType
    <3>3. Head(queue) \in Request /\ Tail(queue) \in Seq(Request)
      BY <3>2
    <3>4. s' \in NodeStates /\ (Pending(s) = {} => Lone(s'))
      BY <3>1, <3>3, AddsOne DEF MemberType
    <3>5. MemberType'
      BY <1>0, <3>1, <3>3, <3>4, ThreadType DEF MemberType
    <3>6. Lone(s') <=> "crossed" \notin Crossed(s')
      <4>1. Lone(s') <=> Crossed(s') = {}
        BY <3>4, LoneCount
      <4> QED
        BY <4>1 DEF Crossed
    <3>7. /\ "foreign" \in met' <=> "foreign" \in met
          /\ "crossed" \in met' <=> ("crossed" \in met \/ "crossed" \in Crossed(s'))
      BY <3>1 DEF Crossed, Filled
    <3>8. "foreign" \notin met' => ChangeInv' /\ "crossed" \notin met'
      BY <3>1, <3>2, <3>4, <3>6, <3>7 DEF LockInv, ChangeInv
    <3> QED
      BY <3>5, <3>6, <3>7, <3>8 DEF LockInv
  <2>2. CASE ~CanStart
    <3>1. Go(t, Rest(t)) /\ UNCHANGED <<s, queue, inChange, unvoting, result, met>>
      BY <1>2, <2>2 DEF StartNext
    <3>2. MemberType'
      BY <1>0, <3>1, GoType DEF MemberType
    <3> QED
      BY <1>s, <3>1, <3>2
  <2> QED
    BY <2>1, <2>2
<1>3. CASE ReadIdx(t)
  <2>1. th' = [th EXCEPT ![t] = [th[t] EXCEPT !.at = "register", !.idx = s.lastConfigIdx]]
        /\ UNCHANGED <<s, queue, inChange, unvoting, result, met>>
    BY <1>3 DEF ReadIdx
  <2>2. s.lastConfigIdx \in Nat
    BY DEF MemberType, NodeStates
  <2>3. th[t] \in [at : Stages, q : Request \cup {Nil}, idx : Nat]
    BY DEF MemberType
  <2>4. [th[t] EXCEPT !.at = "register", !.idx = s.lastConfigIdx]
          \in [at : Stages \ {"join", "enqueue"}, q : Request \cup {Nil}, idx : Nat]
    BY <1>0, <2>2, <2>3
  <2>5. /\ th' \in [Threads -> [at : Stages, q : Request \cup {Nil}, idx : Nat]]
        /\ \A u \in Threads : th'[u].at \in {"join", "enqueue"} => th'[u].q \in Request
    <3> DEFINE v == [th[t] EXCEPT !.at = "register", !.idx = s.lastConfigIdx]
    <3>1. /\ v \in [at : Stages, q : Request \cup {Nil}, idx : Nat]
          /\ v.at \notin {"join", "enqueue"} /\ th' = [th EXCEPT ![t] = v]
      BY <2>1, <2>4
    <3> HIDE DEF v
    <3> QED
      BY <3>1 DEF MemberType
  <2>6. MemberType'
    BY <2>1, <2>5 DEF MemberType
  <2> QED
    BY <1>s, <2>1, <2>6
<1>4. CASE Register(t)
  <2>1. Go(t, Rest(t)) /\ UNCHANGED <<s, queue, inChange, unvoting, result, met>>
    BY <1>4 DEF Register
  <2>2. MemberType'
    BY <1>0, <2>1, GoType DEF MemberType
  <2> QED
    BY <1>s, <2>1, <2>2
<1> QED
  BY <1>1, <1>2, <1>3, <1>4 DEF Start

\* A server that was joining may be promoted.
LEMMA PromoteType ==
    ASSUME MemberType, NEW t \in Threads, NEW x, NEW match, Promote(t, x, match)
    PROVE  /\ unvoting' \subseteq Request
           /\ th' \in [Threads -> [at : Stages, q : Request \cup {Nil}, idx : Nat]]
           /\ \A u \in Threads : th'[u].at \in {"join", "enqueue"} => th'[u].q \in Request
<1>1. CASE UNCHANGED <<th, unvoting>>
  BY <1>1 DEF MemberType
<1>2. ASSUME NEW q \in Joining(x), unvoting' = unvoting \ {q},
             th' = [th EXCEPT ![t] = Thread("enqueue", q)]
      PROVE  /\ unvoting' \subseteq Request
             /\ th' \in [Threads -> [at : Stages, q : Request \cup {Nil}, idx : Nat]]
             /\ \A u \in Threads : th'[u].at \in {"join", "enqueue"} => th'[u].q \in Request
  <2>1. q \in Request /\ unvoting' \subseteq Request /\ "enqueue" \in Stages
    BY <1>2 DEF Joining, MemberType, Stages
  <2> QED
    BY <1>2, <2>1, ThreadType
<1> QED
  BY <1>1, <1>2 DEF Promote

\* An answer arrives; the server it comes from may be promoted.
LEMMA AcknowledgeStep ==
    ASSUME MemberType, LockInv, NEW x \in Server, Acknowledge(x) \/ Installed(x)
    PROVE  MemberType' /\ LockInv'
<1>0. "resp" \in Threads /\ "inst" \in Threads /\ s \in NodeStates
  BY DEF Threads, MemberType
<1>1. s' \in NodeStates /\ SameLog(s, s')
  <2>1. CASE Acknowledge(x)
    BY <1>0, <2>1, AcknowledgedSheds DEF Acknowledge
  <2>2. CASE Installed(x)
    <3>1. s.snap # Nil
      BY <2>2 DEF Installed, NeedsSnapshot
    <3>2. s.snap \in Snapshot
      BY <1>0, <3>1 DEF NodeStates
    <3>3. s.snap.idx \in Nat
      BY <3>2 DEF Snapshot
    <3> QED
      BY <1>0, <2>2, <3>3, InstalledSheds DEF Installed
  <2> QED
    BY <2>1, <2>2
<1>2. UNCHANGED <<queue, inChange, result, met>>
  BY DEF Acknowledge, Installed
<1>3. \E t \in Threads : \E match : Promote(t, x, match)
  BY <1>0 DEF Acknowledge, Installed
<1>4. MemberType'
  BY <1>1, <1>2, <1>3, PromoteType DEF MemberType
<1>5. Sheds(s, s') /\ Aside
  BY <1>1, <1>2, SameSheds DEF Aside
<1> QED
  BY <1>2, <1>4, <1>5, ShedStep

\* applyLog: the change that is applied was the only one, so inConfigChange ends
\* with it.
LEMMA ApplyLogStep ==
    ASSUME MemberType, LockInv, ApplyLog
    PROVE  MemberType' /\ LockInv'
<1> DEFINE a == s.lastApplied + 1
           k == FindArrayIdx(s.log, a)
           e == NextToApply(s)
<1>1. s \in NodeStates /\ s.log \in Seq(Entry) /\ s.lastApplied \in Index
  BY DEF MemberType, NodeStates
<1>2. s' = [s EXCEPT !.lastApplied = a] /\ UNCHANGED <<queue, unvoting, th, met>>
      /\ inChange' = (inChange /\ ~Unlocks(e)) /\ k # 0
  BY DEF ApplyLog, CanApply
<1>3. a \in Nat /\ a \in Index
  BY <1>1 DEF Index
<1>4. k \in 1..Len(s.log) /\ s.log[k].index = a /\ e = s.log[k]
  BY <1>1, <1>2, FindArrayIdxFinds DEF NextToApply
<1> HIDE DEF k, e
<1>5. a > s.lastApplied
  BY <1>1 DEF Index
<1> HIDE DEF a
<1>6. s' \in NodeStates /\ s'.log = s.log /\ s'.lastApplied = a
  BY <1>1, <1>2, <1>3 DEF NodeStates
<1>7. Pending(s') \subseteq Pending(s) \ {k}
  <2> SUFFICES ASSUME NEW j \in Pending(s') PROVE j \in Pending(s) /\ j # k
    OBVIOUS
  <2>1. j \in Configuring(s.log) /\ s.log[j].index > a /\ j \in 1..Len(s.log)
    BY <1>6 DEF Pending, Configuring
  <2>2. s.log[j].index \in Nat
    <3>1. s.log[j] \in Entry
      BY <1>1, <2>1
    <3> QED
      BY <3>1 DEF Entry
  <2>3. s.log[j].index > s.lastApplied
    BY <1>1, <1>3, <1>5, <2>1, <2>2 DEF Index
  <2>4. j # k
    BY <1>3, <1>4, <2>1
  <2> QED
    BY <2>1, <2>3, <2>4 DEF Pending
<1>8. MemberType'
  <2>1. result' \in [Request -> Results]
    <3>1. result' = result \/ \E q : result' = [result EXCEPT ![q] = "ok"]
      BY DEF ApplyLog
    <3> QED
      BY <3>1 DEF MemberType, Results
  <2> QED
    BY <1>2, <1>6, <2>1 DEF MemberType
<1>9. Lone(s) => Lone(s')
  BY <1>7 DEF Lone
<1>10. ChangeInv => ChangeInv'
  <2> SUFFICES ASSUME ChangeInv PROVE ChangeInv'
    OBVIOUS
  <2>1. CASE Unlocks(e)
    <3>1. k \in Pending(s)
      BY <1>4, <1>5, <2>1 DEF Unlocks, Pending, Configuring
    <3>2. Pending(s') = {}
      BY <1>7, <3>1 DEF ChangeInv, Lone
    <3> QED
      BY <1>9, <3>2 DEF ChangeInv
  <2>2. CASE ~Unlocks(e)
    <3>1. inChange => inChange'
      BY <1>2, <2>2
    <3>2. Pending(s') # {} => inChange
      BY <1>7 DEF ChangeInv
    <3> QED
      BY <1>9, <3>1, <3>2 DEF ChangeInv
  <2> QED
    BY <2>1, <2>2
<1> QED
  BY <1>2, <1>8, <1>9, <1>10 DEF LockInv

\* The run loop looks at the queue; a leader's select may send a heartbeat and
\* ends with checkCommits.
LEMMA SelectSteps ==
    ASSUME MemberType, LockInv,
           CheckConfigurationsToStart \/ (\E beat \in BOOLEAN : LeaderSelect(beat))
    PROVE  MemberType' /\ LockInv'
<1>1. /\ \E at \in Stages \ {"join", "enqueue"} : Go("run", at)
      /\ "run" \in Threads /\ UNCHANGED <<queue, inChange, unvoting, result, met>>
  BY DEF CheckConfigurationsToStart, LeaderSelect, Threads, Stages
<1>2. s \in NodeStates /\ SameLog(s, s) /\ Targets(unvoting) \in SUBSET Server
  BY TargetsType DEF MemberType, SameLog
<1>3. s' \in NodeStates /\ SameLog(s, s')
  <2>1. CASE CheckConfigurationsToStart
    BY <1>2, <2>1 DEF CheckConfigurationsToStart
  <2>2. ASSUME NEW beat \in BOOLEAN, LeaderSelect(beat) PROVE s' \in NodeStates /\ SameLog(s, s')
    <3> DEFINE c  == CheckCommits(s)
               b  == ArgsBuilt(s, Targets(unvoting))
               ls == IF beat THEN b.lastSent ELSE c.lastSent
    <3>1. c \in NodeStates /\ b \in NodeStates /\ SameLog(s, c)
      BY <1>2, CheckCommitsType, ArgsBuiltType, QuietLog
    <3>2. s' = [c EXCEPT !.lastSent = ls]
      BY <2>2 DEF LeaderSelect
    <3> HIDE DEF b, c
    <3>3. ls \in [Server -> Index]
      BY <3>1 DEF NodeStates
    <3> HIDE DEF ls
    <3> QED
      BY <3>1, <3>2, <3>3 DEF NodeStates, SameLog
  <2> QED
    BY <2>1, <2>2
<1>4. MemberType'
  BY <1>1, <1>3, GoType DEF MemberType
<1>5. Sheds(s, s') /\ Aside
  BY <1>1, <1>3, SameSheds DEF Aside
<1> QED
  BY <1>1, <1>4, <1>5, ShedStep

\* What another leader sends.
LEMMA SentType ==
    ASSUME s \in NodeStates, NEW x \in Server \cup {Nil}, NEW term \in Nat,
           NEW k \in 1..Len(s.log), NEW e \in Entry, NEW committed \in BOOLEAN,
           NEW aea, aea = Sent(x, term, k, e, committed)
    PROVE  /\ aea.term = term /\ aea.leader = x /\ aea.entries = <<e>>
           /\ aea.prevIdx = s.log[k].index /\ aea.prevTerm = s.log[k].term
           /\ aea.commit \in {e.index, s.commitIndex}
           /\ aea.commit \in Index /\ aea.entries \in Seq(Entry)
<1>1. e.index \in Index /\ s.commitIndex \in Index /\ <<e>> \in Seq(Entry)
  BY DEF Entry, Index, NodeStates
<1>2. /\ aea.term = term /\ aea.leader = x /\ aea.entries = <<e>>
      /\ aea.prevIdx = s.log[k].index /\ aea.prevTerm = s.log[k].term
      /\ aea.commit \in {e.index, s.commitIndex}
  BY DEF Sent
<1> QED
  BY <1>1, <1>2

\* Another leader's no-op takes the place of what it does not have.
LEMMA OtherLeadsStep ==
    ASSUME MemberType, LockInv, NEW x \in Peer, NEW k, NEW committed \in BOOLEAN,
           OtherLeads(x, k, committed)
    PROVE  MemberType' /\ LockInv'
<1> DEFINE e   == Noop(s.log[k].index + 1, s.currentTerm + 1)
           aea == Sent(x, s.currentTerm + 1, k, e, committed)
<1>1. s \in NodeStates /\ s.log \in Seq(Entry) /\ s.currentTerm + 1 \in Nat
  BY DEF MemberType, NodeStates
<1>2. /\ k \in 1..Len(s.log) /\ s' = HandleAppendEntries(s, aea, <<>>)
      /\ met' = met \cup Filled(k)
      /\ Go("run", "top") /\ UNCHANGED <<queue, inChange, unvoting, result>>
  BY DEF OtherLeads
<1>3. s.log[k].index + 1 \in Nat
  <2>1. s.log[k] \in Entry
    BY <1>1, <1>2
  <2> QED
    BY <2>1 DEF Entry
<1>4. e \in Entry /\ e.kind = "noop"
  BY <1>1, <1>3 DEF Noop, Entry
<1>5. x \in Server \cup {Nil}
  BY MembersAssumption
<1> HIDE DEF e
<1>6. /\ aea.term \in Nat /\ aea.leader \in Server \cup {Nil} /\ aea.entries = <<e>>
      /\ aea.entries \in Seq(Entry) /\ aea.commit \in Index
  BY <1>1, <1>2, <1>4, <1>5, SentType, SMTT(40)
<1> HIDE DEF aea
<1>7. \A i \in 1..Len(aea.entries) : aea.entries[i].kind = "noop"
  BY <1>4, <1>6
<1>8. <<>> \in Seq(Command)
  OBVIOUS
<1>9. s' \in NodeStates /\ Sheds(s, s')
  BY <1>1, <1>2, <1>6, <1>7, <1>8, HandleSheds
<1>10. MemberType'
  BY <1>2, <1>9, GoType DEF MemberType, Threads, Stages
<1> QED
  BY <1>2, <1>9, <1>10, FilledAside, ShedStep

\* Another leader's change: from now on nothing is said of inConfigChange, and of
\* the changes that are pending only if there is still one.
LEMMA OtherChangesStep ==
    ASSUME MemberType, LockInv, NEW k, NEW c \in Others, NEW committed \in BOOLEAN,
           OtherChanges(k, c, committed)
    PROVE  MemberType' /\ LockInv'
<1> DEFINE e   == [index |-> s.log[k].index + 1, term |-> s.currentTerm,
                   kind |-> c.kind, val |-> c.val]
           aea == Sent(s.currentLeader, s.currentTerm, k, e, committed)
<1>1. s \in NodeStates /\ s.log \in Seq(Entry) /\ s.currentTerm \in Nat
      /\ s.currentLeader \in Server \cup {Nil}
  BY DEF MemberType, NodeStates
<1>2. /\ k \in 1..Len(s.log) /\ s' = HandleAppendEntries(s, aea, <<>>)
      /\ met' = met \cup Crossed(s') \cup Filled(k) \cup {"foreign"}
      /\ Go("run", "top") /\ UNCHANGED <<queue, inChange, unvoting, result>>
  BY DEF OtherChanges
<1>3. s.log[k].index + 1 \in Nat
  <2>1. s.log[k] \in Entry
    BY <1>1, <1>2
  <2> QED
    BY <2>1 DEF Entry
<1>4. e \in Entry
  <2>1. c.kind \in {"add", "remove"} /\ c.val \in Server
    BY ChangeAssumption
  <2> QED
    BY <1>1, <1>3, <2>1 DEF Entry
<1> HIDE DEF e
<1>5. /\ aea.term \in Nat /\ aea.leader \in Server \cup {Nil}
      /\ aea.entries \in Seq(Entry) /\ aea.commit \in Index
  <2> DEFINE x == s.currentLeader
             n == s.currentTerm
  <2>1. x \in Server \cup {Nil} /\ n \in Nat /\ aea = Sent(x, n, k, e, committed)
    BY <1>1
  <2> HIDE DEF x, n, aea
  <2>2. /\ aea.term = n /\ aea.leader = x /\ aea.entries = <<e>>
        /\ aea.commit \in {e.index, s.commitIndex}
    BY <2>1 DEF Sent
  <2>3. e.index \in Index /\ s.commitIndex \in Index /\ <<e>> \in Seq(Entry)
    BY <1>1, <1>4 DEF Entry, Index, NodeStates
  <2> QED
    BY <2>1, <2>2, <2>3
<1> HIDE DEF aea
<1>6. s' \in NodeStates
  <2>1. <<>> \in Seq(Command)
    OBVIOUS
  <2> QED
    BY <1>1, <1>2, <1>5, <2>1, HandleAppendEntriesEffect
<1>7. MemberType'
  BY <1>2, <1>6, GoType DEF MemberType, Threads, Stages
<1>8. "crossed" \notin met' => Lone(s')
  <2>1. Lone(s') <=> Crossed(s') = {}
    BY <1>6, LoneCount
  <2> QED
    BY <1>2, <2>1 DEF Crossed
<1> QED
  BY <1>2, <1>7, <1>8 DEF LockInv

\* The node is elected again.
LEMMA ElectedStep ==
    ASSUME MemberType, LockInv, Elected
    PROVE  MemberType' /\ LockInv'
<1> DEFINE b == StartElection(s, Self)
           w == WinElection(b, Self)
<1>1. s \in NodeStates /\ Self \in Server /\ Targets(unvoting) \in SUBSET Server
  BY MembersAssumption, TargetsType DEF MemberType
<1>2. b \in NodeStates /\ SameLog(s, b)
  BY <1>1, StartElectionType, QuietLog
<1>3. /\ s' = ArgsBuilt(w, Targets(unvoting)) /\ met' = met \cup Filled(Len(s.log))
      /\ Go("run", "top") /\ UNCHANGED <<queue, inChange, unvoting, result>>
  BY DEF Elected
<1> HIDE DEF b
<1>4. w \in NodeStates /\ Sheds(b, w) /\ Sheds(s, b)
  BY <1>1, <1>2, WinElectionType, WinSheds, SameSheds
<1> HIDE DEF w
<1>5. s' \in NodeStates /\ Sheds(w, s')
  BY <1>1, <1>3, <1>4, SentSheds, SameSheds
<1>6. Sheds(s, s')
  BY <1>4, <1>5 DEF Sheds
<1>7. MemberType'
  BY <1>3, <1>5, GoType DEF MemberType, Threads, Stages
<1> QED
  BY <1>3, <1>6, <1>7, FilledAside, ShedStep

-----------------------------------------------------------------------------
(***************************************************************************)
(* The theorem.                                                            *)
(***************************************************************************)
\* The node was just elected: its log is the no-op.
LEMMA MemberInit == Init => MemberType /\ LockInv
<1> SUFFICES ASSUME Init PROVE MemberType /\ LockInv
  OBVIOUS
<1> DEFINE r == [NewNodeState EXCEPT !.currentTerm = 1, !.votedFor = Self,
                                     !.config    = Peer \cup {Self},
                                     !.oldConfig = Peer \cup {Self}]
<1>1. Self \in Server /\ Peer \cup {Self} \in SUBSET Server /\ Peer \in SUBSET Server
  BY MembersAssumption
<1>2. r \in NodeStates /\ r.log = <<>> /\ r.config \in SUBSET Server
  BY <1>1, NewNodeStateType DEF NodeStates, NewNodeState
<1>3. PICK b \in {r, Compacted(r)} : s = ArgsBuilt(WinElection(b, Self), Peer)
  BY DEF Init
<1>4. met \in {{}, {"full"}}
  BY DEF Init
<1> HIDE DEF r
<1>5. Compacted(r) \in NodeStates /\ Compacted(r).log = <<>>
  <2>1. [idx |-> 0, term |-> 1, data |-> <<>>, config |-> r.config] \in Snapshot
    BY <1>2 DEF Snapshot
  <2> QED
    BY <1>2, <2>1 DEF Compacted, NodeStates, Index
<1>6. b \in NodeStates /\ b.log = <<>>
  BY <1>2, <1>3, <1>5
<1> DEFINE w == WinElection(b, Self)
<1>7. w \in NodeStates /\ Sheds(b, w)
  BY <1>1, <1>6, WinElectionType, WinSheds
<1>8. s = ArgsBuilt(w, Peer)
  BY <1>3
<1> HIDE DEF w
<1>9. s \in NodeStates /\ Sheds(w, s)
  BY <1>1, <1>7, <1>8, SentSheds, SameSheds
<1>10. Pending(b) = {}
  BY <1>6 DEF Pending, Configuring
<1>11. LockInv
  BY <1>4, <1>7, <1>9, <1>10 DEF Sheds, Lone, ChangeInv, LockInv
<1>12. queue \in Seq(Request) /\ unvoting \subseteq Request /\ result \in [Request -> Results]
  BY DEF Init, Results
<1>13. /\ th \in [Threads -> [at : Stages, q : Request \cup {Nil}, idx : Nat]]
       /\ \A t \in Threads : th[t].at \in {"join", "enqueue"} => th[t].q \in Request
  BY DEF Init, Thread, Threads, Stages
<1> QED
  BY <1>9, <1>11, <1>12, <1>13 DEF MemberType

\* Every step keeps the invariant.
LEMMA MemberStep ==
    ASSUME MemberType, LockInv, [Next]_vars
    PROVE  MemberType' /\ LockInv'
<1>1. {"conf", "resp", "inst", "run"} \subseteq Threads
  BY DEF Threads
<1>2. CASE UNCHANGED vars
  BY <1>2 DEF vars, MemberType, LockInv, ChangeInv
<1>3. CASE Conf \/ Resp \/ Inst \/ Run
  BY <1>1, <1>3, CallSteps, StartSteps, ApplyLogStep, SelectSteps DEF Conf, Resp, Inst, Run
<1> QED
  BY <1>2, <1>3, CallSteps, AcknowledgeStep, OtherLeadsStep, OtherChangesStep, ElectedStep
     DEF Next

\* OneChange: of the membership changes a node starts at most one is in its log
\* and not applied, whichever of its goroutines start them, however leaderships
\* change in between, and wherever the log is cut off or compacted, as long as it
\* was sent no change of another leader.
THEOREM OneChangeAtATime == Spec => []OneChange
<1>1. MemberType /\ LockInv => OneChange
  BY LoneCount DEF MemberType, LockInv, ChangeInv, OneChange, OneAtATime
<1>2. MemberType /\ LockInv /\ [Next]_vars => MemberType' /\ LockInv'
  BY MemberStep
<1> QED
  BY <1>1, <1>2, MemberInit, PTL DEF Spec

-----------------------------------------------------------------------------
(***************************************************************************)
(* Which configuration a node has, and whom it answers.  Both are about a  *)
(* log that is whole: until the array is full it is neither compacted nor  *)
(* does it lose an entry.                                                  *)
(***************************************************************************)
Base == Peer \cup {Self}

\* The log starts with entry 0 and has no gap; what is applied is committed.
Whole(r) ==
    /\ r.snap = Nil
    /\ \A k \in 1..Len(r.log) : r.log[k].index = k - 1
    /\ r.lastApplied <= r.commitIndex /\ r.lastApplied < Len(r.log)

Tracks(r) == r.config = ConfigAfter(Base, r.log)

\* Wherever the log may be cut off, the revert goes back to the configuration of
\* what is left, also with an oldConfig and a lastConfigIdx of an entry that was
\* cut off before.
Reverts(r) ==
    /\ \A c \in 0..Len(r.log) :
          c < Len(r.log) /\ c > r.lastApplied =>
              ConfigAfter(Base, SubSeq(r.log, 1, c)) =
                  IF c <= r.lastConfigIdx THEN r.oldConfig ELSE r.config
    /\ Len(r.log) <= r.lastConfigIdx => r.config = r.oldConfig

ConfigInv(r) == Whole(r) /\ Tracks(r) /\ Reverts(r)

Asks(q, e) == e.kind = Change[q].kind /\ e.val = Change[q].val

Done(r, q) == \E k \in Configuring(r.log) : r.log[k].index <= r.lastApplied /\ Asks(q, r.log[k])

\* Should a change be applied next, call q may be answered.
Owned(r, changing, q) ==
    Done(r, q) \/ (changing /\ \A k \in Pending(r) : Asks(q, r.log[k]))

Noting == {"read", "register"}

AnswerInv ==
    /\ \A t \in Threads : th[t].at \in Noting => Owned(s, inChange, th[t].q)
    /\ \A i \in DOMAIN applied : Owned(s, inChange, applied[i])
    /\ \A q \in Request : result[q] = "ok" => Done(s, q)

-----------------------------------------------------------------------------
(***************************************************************************)
(* ConfigAfter.                                                            *)
(***************************************************************************)
\* The largest of a set of positions.
LEMMA MaxIs ==
    ASSUME NEW S \in SUBSET Nat, NEW n \in S, \A y \in S : y <= n
    PROVE  Max(S) = n
<1>1. \A y \in S : n >= y
  OBVIOUS
<1>2. Max(S) \in S /\ \A y \in S : Max(S) >= y
  BY <1>1 DEF Max
<1>3. Max(S) \in Nat /\ n \in Nat /\ Max(S) >= n /\ Max(S) <= n
  BY <1>2
<1> QED
  BY <1>3

\* Logs with the same changes in the same places have the same configuration.
LEMMA SameChanges ==
    ASSUME NEW base, NEW es \in Seq(Entry), NEW fs \in Seq(Entry),
           Configuring(es) = Configuring(fs), \A k \in Configuring(es) : es[k] = fs[k]
    PROVE  ConfigAfter(base, es) = ConfigAfter(base, fs)
<1> DEFINE A(gs, x) == {i \in 1..Len(gs) : gs[i].kind \in {"add", "remove"} /\ gs[i].val = x}
<1>1. \A gs : ConfigAfter(base, gs) =
          {x \in Server : IF A(gs, x) = {} THEN x \in base ELSE gs[Max(A(gs, x))].kind = "add"}
  BY DEF ConfigAfter
<1>2. ASSUME NEW x PROVE A(es, x) = A(fs, x)
  BY DEF Configuring
<1>3. ASSUME NEW x, A(es, x) # {} PROVE es[Max(A(es, x))] = fs[Max(A(es, x))]
  <2>1. A(es, x) \in SUBSET (1..Len(es)) /\ Len(es) \in Nat
    OBVIOUS
  <2>2. Max(A(es, x)) \in A(es, x)
    BY <1>3, <2>1, MaxIn
  <2> QED
    BY <2>2 DEF Configuring
<1> HIDE DEF A
<1>4. ASSUME NEW x
      PROVE  (IF A(es, x) = {} THEN x \in base ELSE es[Max(A(es, x))].kind = "add")
             <=> (IF A(fs, x) = {} THEN x \in base ELSE fs[Max(A(fs, x))].kind = "add")
  BY <1>2, <1>3
<1> QED
  BY <1>1, <1>4

\* One more change takes effect on what the others made.
Longer(es, e, fs) ==
    Len(fs) = Len(es) + 1 /\ fs[Len(es) + 1] = e /\ \A k \in 1..Len(es) : fs[k] = es[k]

LEMMA OneMore ==
    ASSUME NEW base, NEW es \in Seq(Entry), NEW e \in Entry, e.kind \in {"add", "remove"},
           NEW fs \in Seq(Entry), Longer(es, e, fs)
    PROVE  \A x : x \in ConfigAfter(base, fs) <=>
                  /\ x \in Server
                  /\ (x = e.val /\ e.kind = "add") \/ (x # e.val /\ x \in ConfigAfter(base, es))
<1> DEFINE A(gs, x) == {i \in 1..Len(gs) : gs[i].kind \in {"add", "remove"} /\ gs[i].val = x}
           n == Len(es) + 1
           In(gs, x) == IF A(gs, x) = {} THEN x \in base ELSE gs[Max(A(gs, x))].kind = "add"
<1>1. \A gs : ConfigAfter(base, gs) = {x \in Server : In(gs, x)}
  BY DEF ConfigAfter
<1>2. /\ fs \in Seq(Entry) /\ Len(fs) = n /\ n \in Nat /\ fs[n] = e /\ Len(es) \in Nat
      /\ \A k \in 1..Len(es) : fs[k] = es[k]
  BY DEF Longer
<1>3. e.val \in Server
  BY DEF Entry
<1>4. In(fs, e.val) <=> e.kind = "add"
  <2>1. n \in A(fs, e.val) /\ A(fs, e.val) \in SUBSET Nat /\ \A y \in A(fs, e.val) : y <= n
    BY <1>2
  <2> HIDE DEF A
  <2>2. Max(A(fs, e.val)) = n
    BY <2>1, MaxIs
  <2> QED
    BY <1>2, <2>1, <2>2
<1>5. ASSUME NEW x, x # e.val PROVE In(fs, x) <=> In(es, x)
  <2>1. A(fs, x) = A(es, x)
    BY <1>2, <1>5
  <2>2. A(es, x) # {} => es[Max(A(es, x))] = fs[Max(A(es, x))]
    <3>1. A(es, x) \in SUBSET (1..Len(es))
      OBVIOUS
    <3> HIDE DEF A
    <3> QED
      BY <1>2, <3>1, MaxIn
  <2> HIDE DEF A
  <2> QED
    BY <2>1, <2>2
<1> HIDE DEF In
<1> QED
  BY <1>1, <1>3, <1>4, <1>5

\* No entry, no change.
LEMMA NoChange ==
    ASSUME NEW base \in SUBSET Server
    PROVE  ConfigAfter(base, <<>>) = base
  BY DEF ConfigAfter

-----------------------------------------------------------------------------
(***************************************************************************)
(* What the methods do to the configuration and to the changes done.       *)
(***************************************************************************)
\* Log and configuration stay; more may be committed.
Quiet(r, new) ==
    /\ SameLog(r, new)
    /\ new.config = r.config /\ new.oldConfig = r.oldConfig
    /\ new.lastConfigIdx = r.lastConfigIdx
    /\ new.commitIndex >= r.commitIndex

\* A log that is cut off, with one entry more.
CutAfter(log, c, e, new) == new = SubSeq(log, 1, c) \o <<e>>

\* The log is cut off after position c, with the revert, and one entry follows.
Cut(r, new, c, e) ==
    /\ CutAfter(r.log, c, e, new.log)
    /\ new.snap = r.snap /\ new.lastApplied = r.lastApplied
    /\ new.config = IF c < Len(r.log) /\ c <= r.lastConfigIdx THEN r.oldConfig ELSE r.config
    /\ new.oldConfig = r.oldConfig /\ new.lastConfigIdx = r.lastConfigIdx
    /\ new.commitIndex >= r.commitIndex

\* The same with an entry that is a change: the configuration it finds is the one
\* to go back to.
Added(r, new, c, e) ==
    /\ CutAfter(r.log, c, e, new.log)
    /\ new.snap = r.snap /\ new.lastApplied = r.lastApplied
    /\ new.oldConfig = IF c < Len(r.log) /\ c <= r.lastConfigIdx THEN r.oldConfig ELSE r.config
    /\ new.config = ConfigAfter(new.oldConfig, <<e>>)
    /\ new.lastConfigIdx = c
    /\ new.commitIndex >= r.commitIndex

\* What is done stays done, and no change is added.
Keeps(r, new) ==
    /\ \A q : Done(r, q) => Done(new, q)
    /\ \A k \in Pending(new) : k \in Pending(r) /\ new.log[k] = r.log[k]

LEMMA QuietKeeps ==
    ASSUME NEW r \in NodeStates, NEW new \in NodeStates, Quiet(r, new)
    PROVE  (ConfigInv(r) => ConfigInv(new)) /\ Keeps(r, new)
<1>1. /\ r.lastApplied \in Index /\ r.commitIndex \in Index /\ new.commitIndex \in Index
      /\ new.log = r.log /\ new.snap = r.snap /\ new.lastApplied = r.lastApplied
  BY DEF Quiet, SameLog, NodeStates
<1>2. Whole(r) => Whole(new)
  BY <1>1 DEF Quiet, Whole, Index
<1>3. Tracks(r) => Tracks(new)
  BY <1>1 DEF Quiet, Tracks
<1>4. Reverts(r) => Reverts(new)
  BY <1>1 DEF Quiet, Reverts
<1>5. Keeps(r, new)
  BY <1>1 DEF Keeps, Done, Pending, Configuring
<1> QED
  BY <1>2, <1>3, <1>4, <1>5 DEF ConfigInv

\* One quiet step after another.
LEMMA QuietTwice ==
    ASSUME NEW a \in NodeStates, NEW b \in NodeStates, NEW d \in NodeStates,
           Quiet(a, b), Quiet(b, d)
    PROVE  Quiet(a, d)
<1>1. a.commitIndex \in Index /\ b.commitIndex \in Index /\ d.commitIndex \in Index
  BY DEF NodeStates
<1>2. d.commitIndex >= a.commitIndex
  BY <1>1 DEF Quiet, Index
<1> QED
  BY <1>2 DEF Quiet, SameLog

LEMMA CutOff ==
    ASSUME NEW log \in Seq(Entry), NEW c \in 0..Len(log), NEW e \in Entry,
           NEW new \in Seq(Entry), CutAfter(log, c, e, new)
    PROVE  /\ Len(new) = c + 1 /\ new[c + 1] = e
           /\ \A k \in 1..c : new[k] = log[k]
           /\ \A b \in 0..c : /\ SubSeq(new, 1, b) = SubSeq(log, 1, b)
                             /\ SubSeq(log, 1, b) \in Seq(Entry)
<1>1. Len(log) \in Nat /\ c \in Nat /\ c <= Len(log)
  OBVIOUS
<1>2. /\ Len(new) = c + 1 /\ new[c + 1] = e
      /\ \A k \in 1..c : new[k] = log[k]
  <2> DEFINE p == SubSeq(log, 1, c)
             f == <<e>>
  <2>1. p \in Seq(Entry) /\ Len(p) = c /\ \A k \in 1..c : p[k] = log[k]
    BY <1>1
  <2>2. new = p \o f /\ f \in Seq(Entry) /\ Len(f) = 1 /\ f[1] = e
    BY DEF CutAfter
  <2> HIDE DEF p, f
  <2>4. /\ Len(p \o f) = c + 1
        /\ \A k \in 1..c+1 : (p \o f)[k] = IF k <= c THEN p[k] ELSE f[k - c]
    <3>1. /\ Len(p \o f) = Len(p) + Len(f)
          /\ \A k \in 1..Len(p)+Len(f) :
                (p \o f)[k] = IF k <= Len(p) THEN p[k] ELSE f[k - Len(p)]
      BY <2>1, <2>2, ConcatProperties, Zenon
    <3> QED
      BY <2>1, <2>2, <3>1, Zenon
  <2>5. c + 1 \in 1..c+1 /\ ~(c + 1 <= c) /\ c + 1 - c = 1
        /\ \A k \in 1..c : k \in 1..c+1 /\ k <= c
    BY <1>1
  <2>6. Len(new) = c + 1 /\ \A k \in 1..c+1 : new[k] = IF k <= c THEN p[k] ELSE f[k - c]
    BY <2>2, <2>4, Zenon
  <2>7. new[c + 1] = f[c + 1 - c]
    BY <1>1, <2>5, <2>6
  <2>8. \A k \in 1..c : new[k] = p[k]
    BY <2>5, <2>6
  <2>9. f[c + 1 - c] = e
    BY <2>2, <2>5
  <2> QED
    BY <2>1, <2>6, <2>7, <2>8, <2>9, Zenon
<1>3. ASSUME NEW b \in 0..c
      PROVE  SubSeq(new, 1, b) = SubSeq(log, 1, b) /\ SubSeq(log, 1, b) \in Seq(Entry)
  <2>1. /\ SubSeq(log, 1, b) \in Seq(Entry) /\ SubSeq(new, 1, b) \in Seq(Entry)
        /\ Len(SubSeq(log, 1, b)) = b /\ Len(SubSeq(new, 1, b)) = b
        /\ \A k \in 1..b : SubSeq(log, 1, b)[k] = log[k]
        /\ \A k \in 1..b : SubSeq(new, 1, b)[k] = new[k]
    BY <1>1, <1>2
  <2>2. \A k \in 1..b : SubSeq(log, 1, b)[k] = SubSeq(new, 1, b)[k]
    BY <1>1, <1>2, <2>1
  <2> QED
    BY <2>1, <2>2, SeqEqual
<1> QED
  BY <1>2, <1>3

\* The log stays whole when it is cut off after what is applied.
LEMMA CutWhole ==
    ASSUME NEW r \in NodeStates, NEW new \in NodeStates, NEW c \in 0..Len(r.log), NEW e \in Entry,
           e.index = c, c < Len(r.log) => c > r.lastApplied, Whole(r),
           CutAfter(r.log, c, e, new.log), new.snap = r.snap,
           new.lastApplied = r.lastApplied, new.commitIndex >= r.commitIndex
    PROVE  Whole(new) /\ c > r.lastApplied
<1> DEFINE L == Len(r.log)
<1>1. /\ r.log \in Seq(Entry) /\ new.log \in Seq(Entry) /\ L \in Nat /\ c \in Nat /\ c <= L
      /\ r.lastApplied \in Index /\ r.commitIndex \in Index /\ new.commitIndex \in Index
  BY DEF NodeStates
<1>2. /\ Len(new.log) = c + 1 /\ new.log[c + 1] = e
      /\ \A k \in 1..c : new.log[k] = r.log[k]
  <2> DEFINE u == r.log
             v == new.log
  <2>1. /\ u \in Seq(Entry) /\ v \in Seq(Entry) /\ c \in 0..Len(u)
        /\ CutAfter(u, c, e, v)
    BY <1>1
  <2> HIDE DEF u, v
  <2>2. /\ Len(v) = c + 1 /\ v[c + 1] = e
        /\ \A k \in 1..c : v[k] = u[k]
    BY <2>1, CutOff
  <2> QED
    BY <2>2 DEF u, v
<1>3. r.lastApplied <= new.commitIndex
  BY <1>1 DEF Whole, Index
<1>4. c > r.lastApplied
  BY <1>1 DEF Whole, Index
<1>5. r.lastApplied < c + 1
  BY <1>1, <1>4 DEF Index
<1>6. ASSUME NEW k \in 1..Len(new.log) PROVE new.log[k].index = k - 1
  <2>1. k \in 1..c \/ k = c + 1
    BY <1>1, <1>2
  <2>2. k \in 1..c => k \in 1..L
    BY <1>1
  <2> QED
    BY <1>1, <1>2, <2>1, <2>2, SMTT(40) DEF Whole
<1> QED
  BY <1>2, <1>3, <1>4, <1>5, <1>6 DEF Whole

\* The revert goes back to the configuration of what is left.
LEMMA RevertsTo ==
    ASSUME NEW r \in NodeStates, NEW c \in 0..Len(r.log), c < Len(r.log) => c > r.lastApplied,
           ConfigInv(r)
    PROVE  ConfigAfter(Base, SubSeq(r.log, 1, c)) =
               IF c < Len(r.log) /\ c <= r.lastConfigIdx THEN r.oldConfig ELSE r.config
<1>1. r.log \in Seq(Entry) /\ Len(r.log) \in Nat /\ Tracks(r) /\ Reverts(r)
  BY DEF NodeStates, ConfigInv
<1>2. CASE c < Len(r.log)
  BY <1>1, <1>2 DEF Reverts
<1>3. CASE c = Len(r.log)
  <2>1. SubSeq(r.log, 1, Len(r.log)) = r.log /\ ~(Len(r.log) < Len(r.log))
    BY <1>1
  <2> QED
    BY <1>1, <1>3, <2>1, Zenon DEF Tracks
<1> QED
  BY <1>1, <1>2, <1>3

LEMMA CutKeeps ==
    ASSUME NEW r \in NodeStates, NEW new \in NodeStates, NEW c \in 0..Len(r.log), NEW e \in Entry,
           e.kind = "noop", e.index = c, c < Len(r.log) => c > r.lastApplied,
           Cut(r, new, c, e), ConfigInv(r)
    PROVE  ConfigInv(new) /\ Keeps(r, new)
<1> DEFINE L   == Len(r.log)
           lci == r.lastConfigIdx
<1>1. /\ r.log \in Seq(Entry) /\ new.log \in Seq(Entry) /\ L \in Nat /\ c \in Nat /\ c <= L
      /\ r.lastApplied \in Index /\ r.commitIndex \in Index /\ new.commitIndex \in Index
      /\ lci \in Nat
  BY DEF NodeStates
<1>2. /\ Len(new.log) = c + 1 /\ new.log[c + 1] = e
      /\ \A k \in 1..c : new.log[k] = r.log[k]
      /\ \A b \in 0..c : SubSeq(new.log, 1, b) = SubSeq(r.log, 1, b)
  BY <1>1, CutOff DEF Cut
<1>3. /\ Whole(r) /\ Tracks(r) /\ Reverts(r)
      /\ new.config = IF c < L /\ c <= lci THEN r.oldConfig ELSE r.config
      /\ new.oldConfig = r.oldConfig /\ new.lastConfigIdx = lci
      /\ new.snap = r.snap /\ new.lastApplied = r.lastApplied
      /\ new.commitIndex >= r.commitIndex
  BY DEF Cut, ConfigInv
<1>4. Whole(new)
  BY <1>3, CutWhole DEF Cut
<1>6. ConfigAfter(Base, new.log) = ConfigAfter(Base, SubSeq(r.log, 1, c))
  <2> DEFINE p == SubSeq(r.log, 1, c)
  <2>1. p \in Seq(Entry) /\ Len(p) = c /\ \A k \in 1..c : p[k] = new.log[k]
    BY <1>1, <1>2
  <2> HIDE DEF p
  <2>2. Configuring(new.log) = Configuring(p) /\ \A k \in Configuring(new.log) : new.log[k] = p[k]
    <3>1. \A k \in 1..c+1 : k = c + 1 \/ k \in 1..c
      BY <1>1
    <3>2. \A k \in 1..c : k \in 1..c+1
      BY <1>1
    <3> QED
      BY <1>2, <2>1, <3>1, <3>2 DEF Configuring
  <2>3. ConfigAfter(Base, new.log) = ConfigAfter(Base, p)
    BY <1>1, <2>1, <2>2, SameChanges
  <2> QED
    BY <2>3 DEF p
<1>7. ConfigAfter(Base, SubSeq(r.log, 1, c)) = new.config
  BY <1>3, RevertsTo
<1>8. c <= lci => new.config = r.oldConfig
  <2>1. CASE c < L
    BY <1>3, <2>1
  <2>2. CASE c = L
    BY <1>3, <2>2 DEF Reverts
  <2> QED
    BY <1>1, <2>1, <2>2
<1>9. Reverts(new)
  <2>1. ASSUME NEW b \in 0..Len(new.log), b < Len(new.log), b > new.lastApplied
        PROVE  ConfigAfter(Base, SubSeq(new.log, 1, b)) =
                   IF b <= new.lastConfigIdx THEN new.oldConfig ELSE new.config
    <3>1. b \in 0..c /\ b \in 0..L
      BY <1>1, <1>2, <2>1
    <3>2. SubSeq(new.log, 1, b) = SubSeq(r.log, 1, b)
      BY <1>2, <3>1
    <3>3. CASE b = c
      BY <1>3, <1>7, <1>8, <3>2, <3>3
    <3>4. CASE b < c
      <4>1. b < L /\ b > r.lastApplied
        BY <1>1, <1>3, <2>1, <3>1, <3>4
      <4>2. ConfigAfter(Base, SubSeq(r.log, 1, b)) = IF b <= lci THEN r.oldConfig ELSE r.config
        BY <1>3, <3>1, <4>1 DEF Reverts
      <4>3. ~(b <= lci) => ~(c <= lci)
        BY <1>1, <3>1, <3>4
      <4> QED
        BY <1>3, <3>2, <4>2, <4>3
    <3> QED
      BY <1>1, <3>1, <3>3, <3>4
  <2>2. Len(new.log) <= new.lastConfigIdx => new.config = new.oldConfig
    <3>1. c + 1 <= lci => c <= lci
      BY <1>1
    <3> QED
      BY <1>2, <1>3, <1>8, <3>1
  <2> QED
    BY <2>1, <2>2 DEF Reverts
<1>10. Keeps(r, new)
  <2>1. ASSUME NEW q, NEW k \in Configuring(r.log), r.log[k].index <= r.lastApplied,
               Asks(q, r.log[k])
        PROVE  k \in Configuring(new.log) /\ new.log[k] = r.log[k]
    <3>1. k \in 1..L /\ r.log[k].index = k - 1
      BY <1>3 DEF Configuring, Whole
    <3>2. k \in 1..c
      BY <1>1, <2>1, <3>1 DEF Index
    <3>3. k \in 1..c+1
      BY <1>1, <3>2
    <3> QED
      BY <1>2, <3>2, <3>3 DEF Configuring
  <2>2. ASSUME NEW q, Done(r, q) PROVE Done(new, q)
    BY <1>3, <2>1, <2>2 DEF Done
  <2>3. ASSUME NEW k \in Pending(new) PROVE k \in Pending(r) /\ new.log[k] = r.log[k]
    <3>1. k \in 1..c+1 /\ new.log[k].kind \in {"add", "remove"}
          /\ new.log[k].index > new.lastApplied
      BY <1>2 DEF Pending, Configuring
    <3>2. k # c + 1
      BY <1>2, <3>1
    <3>3. k \in 1..c /\ k \in 1..L
      BY <1>1, <3>1, <3>2
    <3> QED
      BY <1>2, <1>3, <3>1, <3>3 DEF Pending, Configuring
  <2> QED
    BY <2>2, <2>3 DEF Keeps
<1> QED
  BY <1>3, <1>4, <1>6, <1>7, <1>9, <1>10 DEF ConfigInv, Tracks

\* A change that is appended, after a cut or without one, and is the only one that
\* is pending then.
LEMMA AddedKeeps ==
    ASSUME NEW r \in NodeStates, NEW new \in NodeStates, NEW c \in 0..Len(r.log), NEW e \in Entry,
           e.kind \in {"add", "remove"}, e.index = c, c < Len(r.log) => c > r.lastApplied,
           Added(r, new, c, e), ConfigInv(r), Lone(new)
    PROVE  ConfigInv(new)
<1> DEFINE p == SubSeq(r.log, 1, c)
           m == new.oldConfig
           a == r.lastApplied
<1>1. /\ r.log \in Seq(Entry) /\ new.log \in Seq(Entry) /\ c \in Nat /\ a \in Index
      /\ m \in SUBSET Server /\ Whole(r)
  BY DEF NodeStates, ConfigInv
<1>2. /\ Len(new.log) = c + 1 /\ new.log[c + 1] = e
      /\ \A k \in 1..c : new.log[k] = r.log[k]
      /\ \A b \in 0..c : SubSeq(new.log, 1, b) = SubSeq(r.log, 1, b)
  <2> DEFINE u == r.log
             v == new.log
  <2>1. /\ u \in Seq(Entry) /\ v \in Seq(Entry) /\ c \in 0..Len(u)
        /\ CutAfter(u, c, e, v)
    BY <1>1 DEF Added
  <2> HIDE DEF u, v
  <2>2. /\ Len(v) = c + 1 /\ v[c + 1] = e
        /\ \A k \in 1..c : v[k] = u[k]
        /\ \A b \in 0..c : SubSeq(v, 1, b) = SubSeq(u, 1, b)
    BY <2>1, CutOff
  <2> QED
    BY <2>2 DEF u, v
<1>3. p \in Seq(Entry) /\ Len(p) = c /\ \A k \in 1..c : p[k] = new.log[k]
  BY <1>1, <1>2
<1>4. Whole(new) /\ c > a /\ new.lastApplied = a
  BY <1>1, CutWhole DEF Added
<1>5. ConfigAfter(Base, p) = m
  BY RevertsTo DEF Added
<1>6. new.config = ConfigAfter(m, <<e>>) /\ new.lastConfigIdx = c
  BY DEF Added
<1> HIDE DEF p, m, a
<1>7. Tracks(new)
  <2>1. \A x : x \in ConfigAfter(m, <<e>>) <=>
               /\ x \in Server
               /\ (x = e.val /\ e.kind = "add") \/ (x # e.val /\ x \in m)
    <3> DEFINE none == <<>>
               es   == <<e>>
    <3>1. none \in Seq(Entry) /\ Len(none) = 0 /\ ConfigAfter(m, none) = m
      BY <1>1, NoChange
    <3>2. es \in Seq(Entry) /\ Longer(none, e, es)
      BY DEF Longer
    <3> HIDE DEF none, es
    <3>3. \A x : x \in ConfigAfter(m, es) <=>
                 /\ x \in Server
                 /\ (x = e.val /\ e.kind = "add") \/ (x # e.val /\ x \in ConfigAfter(m, none))
      BY <3>1, <3>2, OneMore
    <3> QED
      BY <3>1, <3>3 DEF es
  <2>2. \A x : x \in ConfigAfter(Base, new.log) <=>
               /\ x \in Server
               /\ (x = e.val /\ e.kind = "add") \/ (x # e.val /\ x \in ConfigAfter(Base, p))
    <3> DEFINE v == new.log
    <3>1. v \in Seq(Entry) /\ Longer(p, e, v)
      BY <1>1, <1>2, <1>3 DEF Longer
    <3> HIDE DEF v
    <3>2. \A x : x \in ConfigAfter(Base, v) <=>
                 /\ x \in Server
                 /\ (x = e.val /\ e.kind = "add") \/ (x # e.val /\ x \in ConfigAfter(Base, p))
      BY <1>3, <3>1, OneMore
    <3> QED
      BY <3>2 DEF v
  <2>3. \A x : x \in new.config <=> x \in ConfigAfter(Base, new.log)
    BY <1>5, <1>6, <2>1, <2>2
  <2>4. new.config \in SUBSET Server /\ ConfigAfter(Base, new.log) \in SUBSET Server
    BY DEF NodeStates, ConfigAfter
  <2> QED
    BY <2>3, <2>4 DEF Tracks
<1>8. ASSUME NEW k \in Configuring(p) PROVE k \in 1..c /\ k - 1 <= a
  <2>1. k \in 1..c /\ k \in 1..c+1 /\ new.log[k].kind \in {"add", "remove"} /\ k # c + 1
    BY <1>1, <1>3 DEF Configuring
  <2>2. c + 1 \in Pending(new)
    BY <1>1, <1>2, <1>4 DEF Pending, Configuring
  <2>3. k \notin Pending(new)
    BY <2>1, <2>2 DEF Lone
  <2>4. new.log[k].index = k - 1
    BY <1>2, <1>4, <2>1 DEF Whole
  <2>5. ~(k - 1 > a)
    BY <1>2, <1>4, <2>1, <2>3, <2>4 DEF Pending, Configuring
  <2> QED
    BY <1>1, <2>1, <2>5 DEF Index
<1>9. ASSUME NEW b \in 0..c, b > a PROVE ConfigAfter(Base, SubSeq(new.log, 1, b)) = m
  <2> DEFINE d == SubSeq(new.log, 1, b)
  <2>1. d \in Seq(Entry) /\ Len(d) = b /\ \A k \in 1..b : d[k] = new.log[k]
    BY <1>1, <1>2
  <2> HIDE DEF d
  <2>2. \A k \in 1..b : k \in 1..c /\ d[k] = p[k]
    BY <1>1, <1>3, <2>1
  <2>3. \A k \in Configuring(p) : k \in 1..b
    BY <1>1, <1>8, <1>9 DEF Index
  <2>4. Configuring(d) = Configuring(p) /\ \A k \in Configuring(d) : d[k] = p[k]
    BY <1>3, <2>1, <2>2, <2>3 DEF Configuring
  <2>5. ConfigAfter(Base, d) = ConfigAfter(Base, p)
    BY <1>3, <2>1, <2>4, SameChanges
  <2> QED
    BY <1>5, <2>5 DEF d
<1>10. Reverts(new)
  <2>1. \A b \in 0..c+1 : b < c + 1 => b \in 0..c /\ b <= c
    BY <1>1
  <2>2. ~(c + 1 <= c)
    BY <1>1
  <2> QED
    BY <1>2, <1>4, <1>6, <1>9, <2>1, <2>2 DEF Reverts, m
<1> QED
  BY <1>4, <1>7, <1>10 DEF ConfigInv

\* applyConfigurationLocked for one change.
Reconfigured(r, pos, e) ==
    [r EXCEPT !.oldConfig     = r.config,
              !.config        = ConfigAfter(r.config, <<e>>),
              !.lastConfigIdx = pos]

LEMMA OneApplied ==
    ASSUME NEW r, r.config \in SUBSET Server, NEW pos \in Nat,
           NEW e \in Entry, e.kind \in {"add", "remove"}
    PROVE  ApplyConfigurations(r, pos, <<e>>) = Reconfigured(r, pos, e)
<1> DEFINE es == <<e>>
           Changes == {i \in 1..Len(es) : es[i].kind \in {"add", "remove"}}
<1>1. es \in Seq(Entry) /\ Len(es) = 1 /\ es[1] = e
  OBVIOUS
<1> HIDE DEF es
<1>2. Changes = {1}
  BY <1>1
<1>3. Max(Changes) = 1 /\ Changes # {}
  BY <1>2 DEF Max
<1>4. SubSeq(es, 1, 0) = <<>> /\ pos + 1 - 1 = pos /\ 1 - 1 = 0
  BY <1>1
<1>5. ConfigAfter(r.config, <<>>) = r.config
  BY NoChange
<1> QED
  BY <1>3, <1>4, <1>5 DEF ApplyConfigurations, Reconfigured, es

\* The index after the last one is the length of the log.
LEMMA NextIndexWhole ==
    ASSUME NEW r \in NodeStates, Whole(r)
    PROVE  LastLogIdx(r) = Len(r.log) - 1
<1>1. r.log \in Seq(Entry) /\ Len(r.log) \in Nat
  BY DEF NodeStates
<1>2. CASE r.log = <<>>
  BY <1>2 DEF LastLogIdx, Whole
<1>3. CASE r.log # <<>>
  <2>1. Len(r.log) \in 1..Len(r.log)
    BY <1>1, <1>3
  <2> QED
    BY <1>3, <2>1 DEF LastLogIdx, Whole
<1> QED
  BY <1>2, <1>3

\* checkCommits commits more or nothing.
LEMMA CheckCommitsQuiet ==
    ASSUME NEW r \in NodeStates
    PROVE  CheckCommits(r) \in NodeStates /\ Quiet(r, CheckCommits(r))
<1> DEFINE C == Committable(r)
<1>0. CheckCommits(r) \in NodeStates
  BY CheckCommitsType
<1>1. r.commitIndex \in Index /\ r.log \in Seq(Entry) /\ r.commitIndex >= r.commitIndex
  BY DEF NodeStates, Index
<1>2. CASE C = {}
  BY <1>0, <1>1, <1>2 DEF CheckCommits, Quiet, SameLog
<1>3. CASE C # {}
  <2>1. C \in SUBSET (1..Len(r.log)) /\ Len(r.log) \in Nat
    BY <1>1 DEF Committable
  <2>2. Max(C) \in C /\ Max(C) \in 1..Len(r.log)
    BY <1>3, <2>1, MaxIn
  <2>3. \A k \in C : k \in k..Len(r.log) => r.log[k].index > r.commitIndex
    BY DEF Committable
  <2>4. Max(C) \in Max(C)..Len(r.log)
    BY <2>1, <2>2
  <2>5. r.log[Max(C)].index > r.commitIndex
    BY <2>2, <2>3, <2>4
  <2>6. r.log[Max(C)].index \in Nat
    <3>1. r.log[Max(C)] \in Entry
      BY <1>1, <2>2
    <3> QED
      BY <3>1 DEF Entry
  <2> DEFINE i == r.log[Max(C)].index
  <2>7. CheckCommits(r) = [r EXCEPT !.commitIndex = i]
    BY <1>3 DEF CheckCommits
  <2>8. i >= r.commitIndex
    BY <1>1, <2>5, <2>6 DEF Index
  <2> HIDE DEF i
  <2> QED
    BY <1>0, <1>1, <2>7, <2>8 DEF Quiet, SameLog, NodeStates
<1> QED
  BY <1>2, <1>3

\* startElection, getAppendEntriesArgs, the answers, and a server made known touch
\* neither.
LEMMA OthersQuiet ==
    ASSUME NEW r \in NodeStates
    PROVE  /\ Quiet(r, r)
           /\ Quiet(r, StartElection(r, Self))
           /\ \A ps : Quiet(r, ArgsBuilt(r, ps))
           /\ \A ls : Quiet(r, [r EXCEPT !.lastSent = ls])
           /\ \A x : Quiet(r, HandleAppendEntriesResponse(r, [success |-> TRUE, src |-> x]))
           /\ \A x, i : Quiet(r, HandleInstallSnapshotResponse(r,
                                      [success |-> TRUE, src |-> x, idx |-> i]))
           /\ \A x : Quiet(r, [r EXCEPT !.lastSent[x] = 0, !.nextIndex[x] = 0, !.matchIndex[x] = 0])
<1>1. r.commitIndex >= r.commitIndex
  BY DEF NodeStates, Index
<1>2. Quiet(r, r)
  BY <1>1 DEF Quiet, SameLog
<1>3. Quiet(r, StartElection(r, Self))
  BY <1>1 DEF Quiet, SameLog, StartElection, NodeStates
<1>4. ASSUME NEW ls PROVE Quiet(r, [r EXCEPT !.lastSent = ls])
  BY <1>1 DEF Quiet, SameLog, NodeStates
<1>5. ASSUME NEW ps PROVE Quiet(r, ArgsBuilt(r, ps))
  BY <1>4 DEF ArgsBuilt
<1>6. ASSUME NEW ls, NEW ni, NEW mi
      PROVE  Quiet(r, [r EXCEPT !.lastSent = ls, !.nextIndex = ni, !.matchIndex = mi])
             /\ Quiet(r, [r EXCEPT !.nextIndex = ni, !.matchIndex = mi])
  BY <1>1 DEF Quiet, SameLog, NodeStates
<1>7. ASSUME NEW x
      PROVE  Quiet(r, HandleAppendEntriesResponse(r, [success |-> TRUE, src |-> x]))
  BY <1>6 DEF HandleAppendEntriesResponse
<1>8. ASSUME NEW x, NEW i
      PROVE  Quiet(r, HandleInstallSnapshotResponse(r, [success |-> TRUE, src |-> x, idx |-> i]))
  BY <1>6 DEF HandleInstallSnapshotResponse
<1>9. ASSUME NEW x
      PROVE  Quiet(r, [r EXCEPT !.lastSent[x] = 0, !.nextIndex[x] = 0, !.matchIndex[x] = 0])
  BY <1>6
<1> QED
  BY <1>2, <1>3, <1>4, <1>5, <1>7, <1>8, <1>9

\* winElection cuts nothing off and appends its no-op.
LEMMA WinCut ==
    ASSUME NEW r \in NodeStates, NEW id \in Server, Whole(r), Len(r.log) < LogCap
    PROVE  Cut(r, WinElection(r, id), Len(r.log), Noop(Len(r.log), r.currentTerm))
<1> DEFINE w == [r EXCEPT !.votes          = 0,
                          !.role           = Leader,
                          !.currentLeader  = id,
                          !.nextIndex      = [p \in Server |-> LastLogIdx(r) + 1],
                          !.matchIndex[id] = -1,
                          !.lastSent[id]   = -1]
           e == Noop(Len(r.log), r.currentTerm)
<1>1. r.log \in Seq(Entry) /\ Len(r.log) \in Nat /\ r.commitIndex >= r.commitIndex
      /\ LogCap \in Nat
  BY LogCapAssumption DEF NodeStates, Index
<1>2. /\ w.currentTerm = r.currentTerm /\ w.log = r.log /\ w.snap = r.snap
      /\ w.lastApplied = r.lastApplied /\ w.commitIndex = r.commitIndex /\ DOMAIN w = DOMAIN r
      /\ w.config = r.config /\ w.oldConfig = r.oldConfig /\ w.lastConfigIdx = r.lastConfigIdx
  BY DEF NodeStates
<1>3. WinElection(r, id) = AddNoopLog(w, id)
  BY DEF WinElection
<1> HIDE DEF w
<1>4. LastLogIdx(w) + 1 = Len(r.log)
  <2>1. LastLogIdx(w) = LastLogIdx(r)
    BY <1>2 DEF LastLogIdx
  <2> QED
    BY <1>1, <2>1, NextIndexWhole
<1>5. AddNoopLog(w, id) = AppendOwn(w, id, e)
  BY <1>1, <1>2, <1>4 DEF AddNoopLog
<1> HIDE DEF e
<1>6. \E mi, ls, ni : AppendOwn(w, id, e) =
          [w EXCEPT !.log = Append(w.log, e), !.matchIndex = mi, !.lastSent = ls, !.nextIndex = ni]
  BY DEF AppendOwn
<1> DEFINE new == AppendOwn(w, id, e)
<1>7. /\ new.log = Append(r.log, e) /\ new.snap = r.snap /\ new.lastApplied = r.lastApplied
      /\ new.commitIndex = r.commitIndex /\ new.config = r.config
      /\ new.oldConfig = r.oldConfig /\ new.lastConfigIdx = r.lastConfigIdx
  BY <1>2, <1>6 DEF NodeStates
<1> HIDE DEF new
<1>8. new.log = SubSeq(r.log, 1, Len(r.log)) \o <<e>>
  BY <1>1, <1>7, SMTT(40)
<1>9. Cut(r, new, Len(r.log), e)
  BY <1>1, <1>7, <1>8 DEF Cut, CutAfter
<1> QED
  BY <1>3, <1>5, <1>9 DEF e, new

\* Merging a single entry changes nothing or cuts the log off before it.
LEMMA MergeCut ==
    ASSUME NEW r \in NodeStates, Whole(r), NEW k \in 1..Len(r.log), NEW e \in Entry,
           e.kind \in {"noop", "add", "remove"}
    PROVE  \/ MergeEntries(r, k, <<e>>) = r
           \/ e.kind = "noop" /\ Cut(r, MergeEntries(r, k, <<e>>), k, e)
           \/ e.kind # "noop" /\ Added(r, MergeEntries(r, k, <<e>>), k, e)
<1> DEFINE es     == <<e>>
           Diff   == Differing(r.log, k, es)
           revert == k + 1 <= Len(r.log) /\ r.log[k+1].index <= r.lastConfigIdx
           cfg    == IF revert THEN r.oldConfig ELSE r.config
           log    == SubSeq(r.log, 1, k) \o es
           base   == [r EXCEPT !.config = cfg, !.log = log]
<1>1. r.log \in Seq(Entry) /\ Len(r.log) \in Nat /\ k \in Nat /\ r.commitIndex >= r.commitIndex
      /\ r.lastConfigIdx \in Nat /\ cfg \in SUBSET Server
  BY DEF NodeStates, Index
<1>0. es \in Seq(Entry) /\ Len(es) = 1 /\ es[1] = e
  OBVIOUS
<1> HIDE DEF es
<1>2. es \in Seq(Entry) /\ Len(es) = 1 /\ es[1] = e /\ SubSeq(es, 1, Len(es)) = es
  BY <1>0
<1>3. CASE Diff = {}
  BY <1>3 DEF MergeEntries, es
<1>4. CASE Diff # {}
  <2>1. Diff = {1}
    BY <1>2, <1>4 DEF Differing
  <2>2. Min(Diff) = 1
    BY <2>1 DEF Min
  <2>3. k + 1 - 1 = k
    BY <1>1
  <2>4. MergeEntries(r, k, es) = ApplyConfigurations(base, k, es)
    BY <1>2, <1>4, <2>2, <2>3 DEF MergeEntries
  <2>5. cfg = IF k < Len(r.log) /\ k <= r.lastConfigIdx THEN r.oldConfig ELSE r.config
    <3>1. k + 1 <= Len(r.log) <=> k < Len(r.log)
      BY <1>1
    <3>2. k < Len(r.log) => r.log[k+1].index = k
      <4>1. k < Len(r.log) => k + 1 \in 1..Len(r.log)
        BY <1>1
      <4> QED
        BY <1>1, <4>1 DEF Whole
    <3> QED
      BY <3>1, <3>2
  <2> HIDE DEF cfg
  <2>6. /\ base.log = log /\ base.config = cfg /\ base.snap = r.snap
        /\ base.lastApplied = r.lastApplied /\ base.commitIndex = r.commitIndex
        /\ base.oldConfig = r.oldConfig /\ base.lastConfigIdx = r.lastConfigIdx
        /\ DOMAIN base = DOMAIN r
    BY DEF NodeStates
  <2> HIDE DEF base
  <2>7. CASE e.kind = "noop"
    <3>1. ApplyConfigurations(base, k, es) = base
      BY <1>2, <2>7 DEF ApplyConfigurations
    <3>2. Cut(r, base, k, e)
      BY <1>1, <2>5, <2>6 DEF Cut, CutAfter, es
    <3> QED
      BY <2>4, <2>7, <3>1, <3>2 DEF es
  <2>8. CASE e.kind # "noop"
    <3> DEFINE new == ApplyConfigurations(base, k, <<e>>)
    <3>1. new = Reconfigured(base, k, e)
      <4>1. e.kind \in {"add", "remove"} /\ base.config \in SUBSET Server /\ k \in Nat
        BY <1>1, <2>6, <2>8
      <4> QED
        BY <4>1, OneApplied, Zenon
    <3> HIDE DEF new
    <3>2. /\ new.log = log /\ new.snap = r.snap /\ new.lastApplied = r.lastApplied
          /\ new.commitIndex = r.commitIndex /\ new.oldConfig = cfg
          /\ new.config = ConfigAfter(cfg, <<e>>) /\ new.lastConfigIdx = k
      BY <2>6, <3>1 DEF NodeStates, Reconfigured
    <3>3. Added(r, new, k, e)
      BY <1>1, <2>5, <3>2 DEF Added, CutAfter, es
    <3> QED
      BY <2>4, <2>8, <3>3 DEF es, new
  <2> QED
    BY <2>7, <2>8
<1> QED
  BY <1>3, <1>4

\* One entry of another leader.
LEMMA FollowCut ==
    ASSUME s \in NodeStates, s' \in NodeStates, Whole(s), NEW k \in 1..Len(s.log),
           s.log[k].index >= s.commitIndex, k + 1 < LogCap,
           NEW e \in Entry, e.kind \in {"noop", "add", "remove"}, e.index = k,
           NEW aea, aea.term \in Nat, aea.term >= s.currentTerm, aea.entries = <<e>>,
           aea.leader \in Server \cup {Nil}, aea.prevIdx = s.log[k].index,
           aea.prevTerm = s.log[k].term, aea.commit \in {k, s.commitIndex},
           s' = HandleAppendEntries(s, aea, <<>>)
    PROVE  /\ k \in 0..Len(s.log) /\ k > s.lastApplied
           /\ \/ Quiet(s, s')
              \/ e.kind = "noop" /\ Cut(s, s', k, e)
              \/ e.kind # "noop" /\ Added(s, s', k, e)
<1> DEFINE g   == TermSeen(s, aea.term)
           f   == SteppedDown(g)
           l   == [f EXCEPT !.currentLeader = aea.leader]
           m   == MergeEntries(l, k, <<e>>)
<1>1. s.log \in Seq(Entry) /\ Len(s.log) \in Nat /\ s.currentTerm \in Nat /\ s.commitIndex \in Index
      /\ s.lastApplied \in Index /\ LogCap \in Nat
  BY LogCapAssumption DEF NodeStates
<1>3. s.log[k].index = k - 1 /\ k \in Nat /\ k - 1 + 1 = k
  BY <1>1 DEF Whole
<1>4. k \in 0..Len(s.log) /\ k > s.lastApplied
  BY <1>1, <1>3 DEF Whole, Index
<1>7. FindArrayIdx(s.log, k - 1) = k
  <2> DEFINE j == FindArrayIdx(s.log, k - 1)
  <2>1. j # 0 /\ j \in 1..Len(s.log) /\ s.log[j].index = k - 1
    BY <1>1, <1>3, FindArrayIdxFinds
  <2>2. s.log[j].index = j - 1
    BY <2>1 DEF Whole
  <2> HIDE DEF j
  <2>3. j = k
    BY <1>1, <1>3, <2>1, <2>2
  <2> QED
    BY <2>3 DEF j
<1>8. PrevLogOK(s, aea) /\ MergePoint(s, aea) = k
  <2>1. k # 0 /\ ~(k - 1 < 0)
    BY <1>1
  <2> QED
    BY <1>3, <1>7, <2>1 DEF PrevLogOK, MergePoint
<1>9. ~Overflows(s, aea)
  <2>1. Len(aea.entries) = 1
    OBVIOUS
  <2>2. ~(k + 1 >= LogCap)
    BY <1>1, <1>3
  <2> QED
    BY <1>8, <2>1, <2>2 DEF Overflows
<1>10. s' = CommitFrom(m, aea)
  <2>1. aea.term >= s.currentTerm /\ ~(aea.term < s.currentTerm)
    BY <1>1
  <2>2. HandleAppendEntries(s, aea, <<>>) = CommitFrom(MergeEntries(l, MergePoint(s, aea), aea.entries), aea)
    BY <1>8, <1>9, <2>1 DEF HandleAppendEntries
  <2> QED
    BY <1>8, <2>2
<1>11. g \in NodeStates /\ Quiet(s, g)
  <2>1. g \in NodeStates
    BY <1>1, TermSeenType
  <2>2. s.commitIndex >= s.commitIndex
    BY <1>1 DEF Index
  <2> QED
    BY <2>1, <2>2 DEF Quiet, SameLog, TermSeen, UpdateCurrentTerm, NodeStates
<1> HIDE DEF g
<1>12. f \in NodeStates /\ Quiet(s, f)
  BY <1>11 DEF Quiet, SameLog, SteppedDown, StopElectionTimeout, NodeStates, Follower
<1> HIDE DEF f
<1>13. l \in NodeStates /\ Quiet(s, l)
  BY <1>12 DEF Quiet, SameLog, NodeStates
<1> HIDE DEF l
<1>14. l.log = s.log /\ l.snap = s.snap /\ l.lastApplied = s.lastApplied
  BY <1>13 DEF Quiet, SameLog
<1>15. Whole(l)
  <2>1. l.commitIndex \in Index /\ l.commitIndex >= s.commitIndex
    BY <1>13 DEF Quiet, NodeStates
  <2>2. l.lastApplied <= l.commitIndex
    BY <1>1, <1>14, <2>1 DEF Whole, Index
  <2> QED
    BY <1>14, <2>2 DEF Whole
<1>16. /\ m \in NodeStates
       /\ \/ m = l
          \/ e.kind = "noop" /\ Cut(l, m, k, e)
          \/ e.kind # "noop" /\ Added(l, m, k, e)
  <2>1. k \in 1..Len(l.log) /\ k \in 0..Len(l.log) /\ <<e>> \in Seq(Entry)
    BY <1>4, <1>14
  <2> QED
    BY <1>13, <1>15, <2>1, MergeCut, MergeEntriesType
<1> HIDE DEF m
<1>17. CASE aea.commit <= m.commitIndex
  <2>1. s' = m
    BY <1>10, <1>17 DEF CommitFrom
  <2>2. CASE m = l
    BY <1>4, <1>13, <2>1, <2>2
  <2>3. m # l => m.commitIndex >= s.commitIndex
    <3>1. m.commitIndex \in Index /\ l.commitIndex \in Index /\ l.commitIndex >= s.commitIndex
      BY <1>13, <1>16 DEF NodeStates, Quiet
    <3>2. m # l => m.commitIndex >= l.commitIndex
      BY <1>16 DEF Cut, Added
    <3> QED
      BY <1>1, <3>1, <3>2 DEF Index
  <2>4. CASE m # l /\ e.kind = "noop" /\ Cut(l, m, k, e)
    BY <1>4, <1>13, <2>1, <2>3, <2>4 DEF Quiet, SameLog, Cut
  <2>5. CASE m # l /\ e.kind # "noop" /\ Added(l, m, k, e)
    BY <1>4, <1>13, <2>1, <2>3, <2>5 DEF Quiet, SameLog, Added
  <2> QED
    BY <1>16, <2>2, <2>4, <2>5
<1>18. CASE ~(aea.commit <= m.commitIndex)
  <2>1. m.commitIndex \in Index /\ l.commitIndex \in Index /\ l.commitIndex >= s.commitIndex
        /\ m.commitIndex >= l.commitIndex
    BY <1>13, <1>16, SMTT(40) DEF NodeStates, Quiet, Cut, Added, Index
  <2>2. aea.commit = k
    BY <1>1, <1>18, <2>1 DEF Index
  <2>3. s' = [m EXCEPT !.commitIndex = k]
    <3>1. Len(<<e>>) = 1 /\ <<e>>[1] = e /\ ~(k < k)
      BY <1>3
    <3> QED
      BY <1>10, <1>18, <2>2, <3>1 DEF CommitFrom
  <2>4. k >= s.commitIndex
    BY <1>1, <1>3 DEF Index
  <2>5. /\ s'.log = m.log /\ s'.snap = m.snap /\ s'.lastApplied = m.lastApplied
        /\ s'.config = m.config /\ s'.oldConfig = m.oldConfig
        /\ s'.lastConfigIdx = m.lastConfigIdx /\ s'.commitIndex = k
    BY <1>16, <2>3 DEF NodeStates
  <2>6. CASE m = l
    <3>1. Quiet(s, s')
      BY <1>13, <2>4, <2>5, <2>6 DEF Quiet, SameLog
    <3> QED
      BY <1>4, <3>1
  <2>7. CASE e.kind = "noop" /\ Cut(l, m, k, e)
    BY <1>4, <1>13, <2>4, <2>5, <2>7 DEF Quiet, SameLog, Cut
  <2>8. CASE e.kind # "noop" /\ Added(l, m, k, e)
    BY <1>4, <1>13, <2>4, <2>5, <2>8 DEF Quiet, SameLog, Added
  <2> QED
    BY <1>16, <2>6, <2>7, <2>8
<1> QED
  BY <1>17, <1>18

\* addConfigLogUnlocked cuts nothing off and appends the change.
LEMMA AddAdds ==
    ASSUME s \in NodeStates, NEW q \in Request, Whole(s), Len(s.log) + 1 < LogCap,
           NEW new \in NodeStates, new = AddConfigLog(q)
    PROVE  \E e \in Entry : /\ e.kind \in {"add", "remove"} /\ e.index = Len(s.log)
                            /\ Asks(q, e) /\ Added(s, new, Len(s.log), e)
<1> DEFINE n  == Len(s.log)
           e  == [index |-> n, term |-> s.currentTerm,
                  kind |-> Change[q].kind, val |-> Change[q].val]
           c  == ApplyConfigurations(s, n, <<e>>)
<1>1. /\ s.log \in Seq(Entry) /\ n \in Nat /\ s.currentTerm \in Nat /\ LogCap \in Nat
      /\ s.config \in SUBSET Server /\ s.commitIndex >= s.commitIndex
  BY LogCapAssumption, SMTT(40) DEF NodeStates, Index
<1>2. Change[q].kind \in {"add", "remove"} /\ Change[q].val \in Server
  BY ChangeAssumption
<1>3. e \in Entry /\ e.kind \in {"add", "remove"} /\ e.index = n /\ Asks(q, e)
  BY <1>1, <1>2 DEF Entry, Asks
<1>4. LastLogIdx(s) + 1 = n
  BY <1>1, NextIndexWhole
<1>5. new = AppendOwn(c, s.currentLeader, e)
  BY <1>1, <1>4 DEF AddConfigLog
<1> HIDE DEF e
<1>6. c = Reconfigured(s, n, e)
  BY <1>1, <1>3, OneApplied, Zenon
<1> HIDE DEF c
<1>7. /\ c.log = s.log /\ c.snap = s.snap /\ c.lastApplied = s.lastApplied
      /\ c.commitIndex = s.commitIndex /\ c.oldConfig = s.config
      /\ c.config = ConfigAfter(s.config, <<e>>) /\ c.lastConfigIdx = n /\ DOMAIN c = DOMAIN s
  BY <1>6 DEF NodeStates, Reconfigured
<1>8. /\ new.log = Append(s.log, e) /\ new.snap = s.snap /\ new.lastApplied = s.lastApplied
      /\ new.commitIndex = s.commitIndex /\ new.oldConfig = s.config
      /\ new.config = ConfigAfter(s.config, <<e>>) /\ new.lastConfigIdx = n
  BY <1>5, <1>7 DEF AppendOwn, NodeStates
<1>9. new.log = SubSeq(s.log, 1, n) \o <<e>> /\ ~(n < n)
  BY <1>1, <1>3, <1>8, SMTT(40)
<1>10. Added(s, new, n, e)
  BY <1>1, <1>8, <1>9 DEF Added, CutAfter
<1> QED
  BY <1>3, <1>10

\* When no change was pending, the one that is now is the one that was asked for.
LEMMA AddAnswers ==
    ASSUME NEW r \in NodeStates, NEW new \in NodeStates, NEW e \in Entry, NEW q,
           Added(r, new, Len(r.log), e), Asks(q, e), Pending(r) = {}
    PROVE  /\ \A p : Done(r, p) => Done(new, p)
           /\ \A k \in Pending(new) : Asks(q, new.log[k])
<1> DEFINE n == Len(r.log)
<1>1. r.log \in Seq(Entry) /\ new.log \in Seq(Entry) /\ n \in Nat /\ n \in 0..n
  BY DEF NodeStates
<1>2. /\ Len(new.log) = n + 1 /\ new.log[n + 1] = e
      /\ \A k \in 1..n : new.log[k] = r.log[k]
  <2> DEFINE u == r.log
             v == new.log
  <2>1. /\ u \in Seq(Entry) /\ v \in Seq(Entry) /\ n \in 0..Len(u)
        /\ CutAfter(u, n, e, v)
    BY <1>1 DEF Added
  <2> HIDE DEF u, v, n
  <2>2. /\ Len(v) = n + 1 /\ v[n + 1] = e
        /\ \A k \in 1..n : v[k] = u[k]
    BY <2>1, CutOff
  <2> QED
    BY <2>2 DEF u, v
<1>3. new.lastApplied = r.lastApplied
  BY DEF Added
<1>4. \A p : Done(r, p) => Done(new, p)
  <2>1. \A k \in 1..n : k \in 1..n+1
    BY <1>1
  <2> QED
    BY <1>2, <1>3, <2>1 DEF Done, Configuring
<1>5. ASSUME NEW k \in Pending(new) PROVE Asks(q, new.log[k])
  <2>1. k \in 1..n+1 /\ new.log[k].kind \in {"add", "remove"}
        /\ new.log[k].index > new.lastApplied
    BY <1>2 DEF Pending, Configuring
  <2>2. k \notin 1..n
    BY <1>2, <1>3, <2>1 DEF Pending, Configuring
  <2>3. k = n + 1
    BY <1>1, <2>1, <2>2
  <2> QED
    BY <1>2, <2>3
<1> QED
  BY <1>4, <1>5

-----------------------------------------------------------------------------
(***************************************************************************)
(* The steps.                                                              *)
(***************************************************************************)
\* No goroutine comes to note a call, and none of those that do changes it.
NoneNotes == \A t \in Threads : th'[t].at \in Noting => th[t].at \in Noting /\ th'[t].q = th[t].q

\* Nobody is told of success.
NoneTold == \A q \in Request : result'[q] = "ok" => result[q] = "ok"

LEMMA GoNotes ==
    ASSUME MemberType, NEW t \in Threads, NEW at, at \notin Noting, Go(t, at)
    PROVE  NoneNotes
  BY DEF MemberType, Go, NoneNotes

LEMMA ThreadNotes ==
    ASSUME MemberType, NEW t \in Threads, NEW at, at \notin Noting, NEW q,
           th' = [th EXCEPT ![t] = Thread(at, q)]
    PROVE  NoneNotes
  BY DEF MemberType, Thread, NoneNotes

\* A step that starts no change and applies none.
LEMMA KeepStep ==
    ASSUME Keeps(s, s'), UNCHANGED <<inChange, applied>>, NoneNotes, NoneTold
    PROVE  AnswerInv => AnswerInv'
<1> SUFFICES ASSUME AnswerInv PROVE AnswerInv'
  OBVIOUS
<1>1. \A q : Done(s, q) => Done(s', q)
  BY DEF Keeps
<1>2. \A q : Owned(s, inChange, q) => Owned(s', inChange', q)
  BY <1>1 DEF Keeps, Owned
<1>3. \A t \in Threads : th'[t].at \in Noting => Owned(s', inChange', th'[t].q)
  BY <1>2 DEF AnswerInv, NoneNotes
<1>4. \A i \in DOMAIN applied' : Owned(s', inChange', applied'[i])
  BY <1>2 DEF AnswerInv
<1>5. \A q \in Request : result'[q] = "ok" => Done(s', q)
  BY <1>1 DEF AnswerInv, NoneTold
<1> QED
  BY <1>3, <1>4, <1>5 DEF AnswerInv

LEMMA QuietStep ==
    ASSUME s \in NodeStates, s' \in NodeStates, ConfigInv(s), Quiet(s, s'),
           UNCHANGED <<inChange, applied>>, NoneNotes, NoneTold
    PROVE  ConfigInv(s') /\ (AnswerInv => AnswerInv')
  BY QuietKeeps, KeepStep

\* A call is taken on; AddServer makes a server known; an answer arrives.
LEMMA CallConfig ==
    ASSUME MemberType, MemberType', ConfigInv(s),
           (\E q \in Request : ReceiveCall(q)) \/ Join \/ (\E x \in Server : Acknowledge(x) \/ Installed(x))
    PROVE  ConfigInv(s') /\ (AnswerInv => AnswerInv')
<1>0. {"conf", "resp", "inst"} \subseteq Threads /\ s \in NodeStates /\ s' \in NodeStates
  BY DEF Threads, MemberType
<1>1. ASSUME result' = result PROVE NoneTold
  BY <1>1 DEF NoneTold
<1>2. ASSUME th' = th PROVE NoneNotes
  BY <1>2 DEF NoneNotes
<1>3. ASSUME NEW q \in Request, ReceiveCall(q) PROVE ConfigInv(s') /\ (AnswerInv => AnswerInv')
  <2>1. UNCHANGED <<s, inChange, applied>>
    BY <1>3 DEF ReceiveCall
  <2>2. NoneTold
    <3>1. \E v \in Results \ {"ok"} : result' = [result EXCEPT ![q] = v]
      BY <1>3 DEF ReceiveCall, Results
    <3> QED
      BY <3>1 DEF MemberType, NoneTold
  <2>3. NoneNotes
    <3>1. CASE s.role = Leader
      <4> DEFINE at == IF Change[q].kind = "add" THEN "join" ELSE "enqueue"
      <4>1. th' = [th EXCEPT !["conf"] = Thread(at, q)]
        BY <1>3, <3>1 DEF ReceiveCall
      <4>2. at \notin Noting
        BY DEF Noting
      <4> HIDE DEF at
      <4> QED
        BY <1>0, <4>1, <4>2, ThreadNotes
    <3>2. CASE s.role # Leader
      BY <1>2, <1>3, <3>2 DEF ReceiveCall
    <3> QED
      BY <3>1, <3>2
  <2>4. Quiet(s, s')
    BY <1>0, <2>1, OthersQuiet
  <2> QED
    BY <1>0, <2>1, <2>2, <2>3, <2>4, QuietStep
<1>4. CASE Join
  <2> DEFINE x == Change[th["conf"].q].val
             b == IF x \in keys THEN s ELSE Track(x)
  <2>1. /\ UNCHANGED <<inChange, applied, result>> /\ Go("conf", "idle")
        /\ s' = ArgsBuilt(b, Targets(unvoting'))
    BY <1>4 DEF Join
  <2>2. x \in Server
    <3>1. th["conf"].q \in Request
      BY <1>0, <1>4 DEF Join, MemberType
    <3> QED
      BY <3>1, ChangeAssumption
  <2> HIDE DEF x
  <2>3. b \in NodeStates /\ Quiet(s, b)
    <3>1. Track(x) \in NodeStates
      BY <1>0, <2>2 DEF Track, NodeStates, Index
    <3>2. Quiet(s, s) /\ Quiet(s, Track(x))
      BY <1>0, OthersQuiet DEF Track
    <3> QED
      BY <1>0, <3>1, <3>2
  <2> HIDE DEF b
  <2>4. Quiet(s, s')
    <3>1. Quiet(b, s')
      BY <2>1, <2>3, OthersQuiet
    <3> QED
      BY <1>0, <2>3, <3>1, QuietTwice
  <2>5. NoneNotes
    BY <1>0, <2>1, GoNotes DEF Noting
  <2> QED
    BY <1>0, <1>1, <2>1, <2>4, <2>5, QuietStep
<1>5. ASSUME NEW x \in Server, Acknowledge(x) \/ Installed(x)
      PROVE  ConfigInv(s') /\ (AnswerInv => AnswerInv')
  <2>1. UNCHANGED <<inChange, applied, result>>
    BY <1>5 DEF Acknowledge, Installed
  <2>2. Quiet(s, s')
    BY <1>0, <1>5, OthersQuiet DEF Acknowledge, Installed
  <2>3. NoneNotes
    <3>1. th' = th \/ \E t \in Threads : \E q : th' = [th EXCEPT ![t] = Thread("enqueue", q)]
      BY <1>0, <1>5 DEF Acknowledge, Installed, Promote
    <3> QED
      BY <1>2, <3>1, ThreadNotes DEF Noting
  <2> QED
    BY <1>0, <1>1, <2>1, <2>2, <2>3, QuietStep
<1> QED
  BY <1>3, <1>4, <1>5

\* The run loop looks at the queue; a leader's select may send a heartbeat and
\* ends with checkCommits.
LEMMA SelectConfig ==
    ASSUME MemberType, MemberType', ConfigInv(s),
           CheckConfigurationsToStart \/ (\E beat \in BOOLEAN : LeaderSelect(beat))
    PROVE  ConfigInv(s') /\ (AnswerInv => AnswerInv')
<1>1. UNCHANGED <<inChange, applied, result>> /\ (Go("run", "start") \/ Go("run", "top"))
  BY DEF CheckConfigurationsToStart, LeaderSelect
<1>2. "run" \in Threads /\ s \in NodeStates /\ s' \in NodeStates
  BY DEF Threads, MemberType
<1>3. Quiet(s, s')
  <2>1. CASE CheckConfigurationsToStart
    BY <1>2, <2>1, OthersQuiet DEF CheckConfigurationsToStart
  <2>2. ASSUME NEW beat \in BOOLEAN, LeaderSelect(beat) PROVE Quiet(s, s')
    <3> DEFINE c == CheckCommits(s)
    <3>1. c \in NodeStates /\ Quiet(s, c)
      BY <1>2, CheckCommitsQuiet
    <3>2. \E ls : s' = [c EXCEPT !.lastSent = ls]
      BY <2>2 DEF LeaderSelect
    <3> HIDE DEF c
    <3>3. Quiet(c, s')
      BY <3>1, <3>2, OthersQuiet
    <3> QED
      BY <1>2, <3>1, <3>3, QuietTwice
  <2> QED
    BY <2>1, <2>2
<1>4. NoneNotes
  BY <1>1, <1>2, GoNotes DEF Noting
<1>5. NoneTold
  BY <1>1 DEF NoneTold
<1> QED
  BY <1>1, <1>2, <1>3, <1>4, <1>5, QuietStep

\* A step that leaves the array with room.
LEMMA NotFilled ==
    ASSUME NEW k \in Nat, Filled(k) \subseteq met', "full" \notin met'
    PROVE  k + 1 < LogCap
<1>1. ~(k + 1 >= LogCap)
  BY DEF Filled
<1> QED
  BY <1>1, LogCapAssumption

\* Another leader's no-op, or the node's own, takes the place of what it cuts off.
LEMMA LeadConfig ==
    ASSUME MemberType, MemberType', ConfigInv(s), "full" \notin met',
           \/ \E x \in Peer, k \in 1..LogCap, committed \in BOOLEAN : OtherLeads(x, k, committed)
           \/ Elected
    PROVE  ConfigInv(s') /\ (AnswerInv => AnswerInv')
<1>1. /\ UNCHANGED <<inChange, applied, result>> /\ Go("run", "top")
      /\ "run" \in Threads /\ s \in NodeStates /\ s' \in NodeStates
  BY DEF OtherLeads, Elected, Threads, MemberType
<1>2. NoneNotes
  BY <1>1, GoNotes DEF Noting
<1>3. NoneTold
  BY <1>1 DEF NoneTold
<1>4. ASSUME NEW x \in Peer, NEW k, NEW committed \in BOOLEAN, OtherLeads(x, k, committed)
      PROVE  ConfigInv(s') /\ (AnswerInv => AnswerInv')
  <2> DEFINE e   == Noop(s.log[k].index + 1, s.currentTerm + 1)
             aea == Sent(x, s.currentTerm + 1, k, e, committed)
  <2>1. /\ k \in 1..Len(s.log) /\ s.log[k].index >= s.commitIndex
        /\ s' = HandleAppendEntries(s, aea, <<>>) /\ met' = met \cup Filled(k)
    BY <1>4 DEF OtherLeads
  <2>2. s.log[k].index = k - 1 /\ k \in Nat /\ k - 1 + 1 = k
    BY <2>1 DEF ConfigInv, Whole
  <2>3. s.currentTerm \in Nat /\ s.currentTerm + 1 \in Nat /\ s.currentTerm + 1 >= s.currentTerm
    <3>1. s.currentTerm \in Nat
      BY <1>1 DEF NodeStates
    <3> QED
      BY <3>1
  <2>4. e \in Entry /\ e.kind = "noop" /\ e.index = k
    BY <2>2, <2>3 DEF Noop, Entry
  <2>5. k + 1 < LogCap
    BY <2>1, <2>2, NotFilled
  <2>6. x \in Server \cup {Nil}
    BY MembersAssumption
  <2> HIDE DEF e
  <2>7. /\ aea.term = s.currentTerm + 1 /\ aea.leader = x /\ aea.entries = <<e>>
        /\ aea.prevIdx = s.log[k].index /\ aea.prevTerm = s.log[k].term
        /\ aea.commit \in {k, s.commitIndex}
    BY <2>4 DEF Sent
  <2> HIDE DEF aea
  <2>8. /\ k \in 0..Len(s.log) /\ k > s.lastApplied
        /\ \/ Quiet(s, s')
           \/ Cut(s, s', k, e)
    BY <1>1, <2>1, <2>3, <2>4, <2>5, <2>6, <2>7, FollowCut DEF ConfigInv
  <2>9. CASE Quiet(s, s')
    BY <1>1, <1>2, <1>3, <2>9, QuietStep
  <2>10. CASE Cut(s, s', k, e)
    <3>1. ConfigInv(s') /\ Keeps(s, s')
      BY <1>1, <2>4, <2>8, <2>10, CutKeeps
    <3> QED
      BY <1>1, <1>2, <1>3, <3>1, KeepStep
  <2> QED
    BY <2>8, <2>9, <2>10
<1>5. CASE Elected
  <2> DEFINE b == StartElection(s, Self)
             e == Noop(Len(b.log), b.currentTerm)
             w == WinElection(b, Self)
  <2>1. Self \in Server /\ s' = ArgsBuilt(w, Targets(unvoting)) /\ met' = met \cup Filled(Len(s.log))
    BY <1>5, MembersAssumption DEF Elected
  <2>2. b \in NodeStates /\ Quiet(s, b)
    BY <1>1, <2>1, StartElectionType, OthersQuiet
  <2> HIDE DEF b
  <2>3. ConfigInv(b) /\ Keeps(s, b)
    BY <1>1, <2>2, QuietKeeps
  <2>4. Len(b.log) \in Nat /\ Len(b.log) < LogCap /\ b.currentTerm \in Nat
    <3>1. b.log = s.log /\ Len(s.log) \in Nat /\ b.currentTerm \in Nat /\ LogCap \in Nat
      BY <1>1, <2>2, LogCapAssumption DEF Quiet, SameLog, NodeStates
    <3>2. Len(s.log) + 1 < LogCap
      BY <2>1, <3>1, NotFilled
    <3> QED
      BY <3>1, <3>2
  <2>5. Cut(b, w, Len(b.log), e) /\ w \in NodeStates
    BY <2>1, <2>2, <2>3, <2>4, WinCut, WinElectionType DEF ConfigInv
  <2>6. e \in Entry /\ e.kind = "noop" /\ e.index = Len(b.log)
    BY <2>4 DEF Noop, Entry
  <2> HIDE DEF e, w
  <2>7. Len(b.log) \in 0..Len(b.log) /\ ~(Len(b.log) < Len(b.log))
    BY <2>4
  <2>8. ConfigInv(w) /\ Keeps(b, w)
    BY <2>2, <2>3, <2>5, <2>6, <2>7, CutKeeps
  <2>9. Quiet(w, s')
    BY <2>1, <2>5, OthersQuiet
  <2>10. ConfigInv(s') /\ Keeps(w, s')
    BY <1>1, <2>5, <2>8, <2>9, QuietKeeps
  <2>11. Keeps(s, s')
    BY <2>3, <2>8, <2>10 DEF Keeps
  <2> QED
    BY <1>1, <1>2, <1>3, <2>10, <2>11, KeepStep
<1> QED
  BY <1>4, <1>5

\* Another leader's change goes to the log and to the configuration.
LEMMA ChangeConfig ==
    ASSUME MemberType, MemberType', ConfigInv(s), "full" \notin met', Lone(s'),
           NEW k, NEW c \in Others, NEW committed \in BOOLEAN, OtherChanges(k, c, committed)
    PROVE  ConfigInv(s')
<1> DEFINE e   == [index |-> s.log[k].index + 1, term |-> s.currentTerm,
                   kind |-> c.kind, val |-> c.val]
           aea == Sent(s.currentLeader, s.currentTerm, k, e, committed)
<1>1. s \in NodeStates /\ s' \in NodeStates
  BY DEF MemberType
<1>2. /\ k \in 1..Len(s.log) /\ s.log[k].index >= s.commitIndex
      /\ s' = HandleAppendEntries(s, aea, <<>>) /\ Filled(k) \subseteq met'
  BY DEF OtherChanges
<1>3. s.log[k].index = k - 1 /\ k \in Nat /\ k - 1 + 1 = k
  BY <1>2 DEF ConfigInv, Whole
<1>4. s.currentTerm \in Nat /\ s.currentTerm >= s.currentTerm /\ s.currentLeader \in Server \cup {Nil}
  BY <1>1 DEF NodeStates
<1>5. e \in Entry /\ e.kind \in {"add", "remove"} /\ e.index = k
  <2>1. c.kind \in {"add", "remove"} /\ c.val \in Server
    BY ChangeAssumption
  <2> QED
    BY <1>3, <1>4, <2>1 DEF Entry
<1>6. k + 1 < LogCap
  BY <1>2, <1>3, NotFilled
<1> HIDE DEF e
<1>7. /\ aea.term = s.currentTerm /\ aea.leader = s.currentLeader /\ aea.entries = <<e>>
      /\ aea.prevIdx = s.log[k].index /\ aea.prevTerm = s.log[k].term
      /\ aea.commit \in {k, s.commitIndex}
  BY <1>5 DEF Sent
<1> HIDE DEF aea
<1>8. /\ k \in 0..Len(s.log) /\ k > s.lastApplied
      /\ Quiet(s, s') \/ Added(s, s', k, e)
  BY <1>1, <1>2, <1>4, <1>5, <1>6, <1>7, FollowCut DEF ConfigInv
<1>9. CASE Quiet(s, s')
  BY <1>1, <1>9, QuietKeeps
<1>10. CASE Added(s, s', k, e)
  BY <1>1, <1>5, <1>8, <1>10, AddedKeeps
<1> QED
  BY <1>8, <1>9, <1>10

\* A change is queued, started when none is under way, and noted for its caller.
LEMMA StartConfig ==
    ASSUME MemberType, MemberType', ConfigInv(s), "full" \notin met', Lone(s'),
           NEW t \in Threads, Start(t)
    PROVE  ConfigInv(s') /\ (ChangeInv /\ AnswerInv => AnswerInv')
<1>1. s \in NodeStates /\ s' \in NodeStates /\ Quiet(s, s) /\ "start" \notin Noting
      /\ Rest(t) \notin Noting
  BY OthersQuiet DEF MemberType, Noting, Rest
<1>2. ASSUME result' = result PROVE NoneTold
  BY <1>2 DEF NoneTold
<1>3. CASE Enqueue(t)
  <2>1. UNCHANGED <<s, inChange, applied, result>> /\ Go(t, "start")
    BY <1>3 DEF Enqueue
  <2>2. NoneNotes /\ NoneTold /\ Quiet(s, s')
    BY <1>1, <1>2, <2>1, GoNotes
  <2> QED
    BY <1>1, <2>1, <2>2, QuietStep
<1>4. CASE StartNext(t) /\ ~CanStart
  <2>1. UNCHANGED <<s, inChange, applied, result>> /\ Go(t, Rest(t))
    BY <1>4 DEF StartNext
  <2>2. NoneNotes /\ NoneTold /\ Quiet(s, s')
    BY <1>1, <1>2, <2>1, GoNotes
  <2> QED
    BY <1>1, <2>1, <2>2, QuietStep
<1>5. CASE StartNext(t) /\ CanStart
  <2> DEFINE q == Head(queue)
  <2>1. /\ inChange' = TRUE /\ s' = AddConfigLog(q) /\ UNCHANGED <<applied, result>>
        /\ th' = [th EXCEPT ![t] = Thread("read", q)]
    BY <1>5 DEF StartNext
  <2>2. ~inChange /\ queue # <<>> /\ queue \in Seq(Request)
    BY <1>5 DEF CanStart, MemberType
  <2>3. q \in Request
    BY <2>2
  <2> HIDE DEF q
  <2>4. Len(s.log) \in Nat /\ Len(s.log) \in 0..Len(s.log) /\ ~(Len(s.log) < Len(s.log))
    <3>1. s.log \in Seq(Entry)
      BY <1>1 DEF NodeStates
    <3> QED
      BY <3>1
  <2>5. Len(s.log) + 1 < LogCap
    <3>1. Filled(Len(s.log)) \subseteq met'
      BY <1>5 DEF StartNext
    <3> QED
      BY <2>4, <3>1, NotFilled
  <2>6. PICK e \in Entry : /\ e.kind \in {"add", "remove"} /\ e.index = Len(s.log)
                           /\ Asks(q, e) /\ Added(s, s', Len(s.log), e)
    BY <1>1, <2>1, <2>3, <2>5, AddAdds DEF ConfigInv
  <2>7. ConfigInv(s')
    BY <1>1, <2>4, <2>6, AddedKeeps
  <2>8. ASSUME ChangeInv, AnswerInv PROVE AnswerInv'
    <3>1. Pending(s) = {}
      BY <2>2, <2>8 DEF ChangeInv
    <3>2. /\ \A p : Done(s, p) => Done(s', p)
          /\ \A k \in Pending(s') : Asks(q, s'.log[k])
      BY <1>1, <2>6, <3>1, AddAnswers
    <3>3. \A p : Owned(s, inChange, p) => Owned(s', inChange', p)
      BY <2>2, <3>2 DEF Owned
    <3>4. Owned(s', inChange', q)
      BY <2>1, <3>2 DEF Owned
    <3>5. ASSUME NEW u \in Threads, th'[u].at \in Noting PROVE Owned(s', inChange', th'[u].q)
      <4>1. th' \in [Threads -> [at : Stages, q : Request \cup {Nil}, idx : Nat]]
            /\ th \in [Threads -> [at : Stages, q : Request \cup {Nil}, idx : Nat]]
        BY DEF MemberType
      <4>2. CASE u = t
        BY <2>1, <3>4, <4>1, <4>2 DEF Thread
      <4>3. CASE u # t
        BY <2>1, <2>8, <3>3, <3>5, <4>1, <4>3 DEF AnswerInv
      <4> QED
        BY <4>2, <4>3
    <3>6. \A i \in DOMAIN applied' : Owned(s', inChange', applied'[i])
      BY <2>1, <2>8, <3>3 DEF AnswerInv
    <3>7. \A p \in Request : result'[p] = "ok" => Done(s', p)
      BY <2>1, <2>8, <3>2 DEF AnswerInv
    <3> QED
      BY <3>5, <3>6, <3>7 DEF AnswerInv
  <2> QED
    BY <2>7, <2>8
<1>6. CASE ReadIdx(t)
  <2>1. /\ UNCHANGED <<s, inChange, applied, result>> /\ th[t].at = "read"
        /\ th' = [th EXCEPT ![t] = [th[t] EXCEPT !.at = "register", !.idx = s.lastConfigIdx]]
    BY <1>6 DEF ReadIdx
  <2>2. NoneNotes
    BY <2>1 DEF MemberType, NoneNotes, Noting
  <2>3. NoneTold /\ Quiet(s, s')
    BY <1>1, <1>2, <2>1
  <2> QED
    BY <1>1, <2>1, <2>2, <2>3, QuietStep
<1>7. CASE Register(t)
  <2> DEFINE j == th[t].idx
             q == th[t].q
  <2>1. /\ UNCHANGED <<s, inChange, result>> /\ Go(t, Rest(t)) /\ th[t].at = "register"
        /\ applied' = [i \in DOMAIN applied \cup {j} |-> IF i = j THEN q ELSE applied[i]]
    BY <1>7 DEF Register
  <2>2. NoneNotes
    BY <1>1, <2>1, GoNotes
  <2>3. ConfigInv(s')
    BY <2>1
  <2>4. ASSUME AnswerInv PROVE AnswerInv'
    <3>1. Owned(s, inChange, q)
      BY <2>1, <2>4 DEF AnswerInv, Noting
    <3> HIDE DEF j, q
    <3>2. \A i \in DOMAIN applied' : Owned(s', inChange', applied'[i])
      BY <2>1, <2>4, <3>1 DEF AnswerInv
    <3>3. \A u \in Threads : th'[u].at \in Noting => Owned(s', inChange', th'[u].q)
      BY <2>1, <2>2, <2>4 DEF NoneNotes, AnswerInv
    <3> QED
      BY <2>1, <2>4, <3>2, <3>3 DEF AnswerInv
  <2> QED
    BY <2>3, <2>4
<1> QED
  BY <1>3, <1>4, <1>5, <1>6, <1>7 DEF Start

\* applyLog: the change that is applied is the one all noted callers asked for,
\* unless theirs was applied before.
LEMMA ApplyConfig ==
    ASSUME MemberType, MemberType', ConfigInv(s), ApplyLog
    PROVE  ConfigInv(s') /\ (AnswerInv => AnswerInv')
<1> DEFINE a    == s.lastApplied + 1
           k    == FindArrayIdx(s.log, a)
           e    == NextToApply(s)
           told == Unlocks(e) /\ e.index \in DOMAIN applied
<1>1. s \in NodeStates /\ s.log \in Seq(Entry) /\ s.lastApplied \in Index /\ s.commitIndex \in Index
  BY DEF MemberType, NodeStates
<1>2. /\ s' = [s EXCEPT !.lastApplied = a] /\ th' = th /\ s.commitIndex > s.lastApplied
      /\ inChange' = (inChange /\ ~Unlocks(e)) /\ k # 0
      /\ result'   = IF told THEN [result EXCEPT ![applied[e.index]] = "ok"] ELSE result
      /\ applied'  = IF told THEN Restrict(applied, DOMAIN applied \ {e.index}) ELSE applied
  BY DEF ApplyLog, CanApply
<1>3. k \in 1..Len(s.log) /\ s.log[k].index = a /\ e = s.log[k]
  BY <1>1, <1>2, FindArrayIdxFinds DEF NextToApply
<1>4. a > s.lastApplied /\ a <= s.commitIndex /\ a \in Nat
  BY <1>1, <1>2 DEF Index
<1> HIDE DEF k, e, a
<1>5. /\ s'.log = s.log /\ s'.lastApplied = a /\ s'.snap = s.snap /\ s'.commitIndex = s.commitIndex
      /\ s'.config = s.config /\ s'.oldConfig = s.oldConfig /\ s'.lastConfigIdx = s.lastConfigIdx
  BY <1>1, <1>2 DEF NodeStates
<1>6. ConfigInv(s')
  <2>1. Whole(s') /\ Tracks(s')
    <3>1. a < Len(s.log)
      BY <1>1, <1>3, <1>4 DEF ConfigInv, Whole
    <3> QED
      BY <1>4, <1>5, <3>1 DEF ConfigInv, Whole, Tracks
  <2>2. \A c \in 0..Len(s.log) : c > a => c > s.lastApplied
    BY <1>1, <1>4 DEF Index
  <2>3. Reverts(s')
    BY <1>5, <2>2 DEF ConfigInv, Reverts
  <2> QED
    BY <2>1, <2>3 DEF ConfigInv
<1>7. \A j \in 1..Len(s.log) : s.log[j].index \in Nat
  <2>1. \A j \in 1..Len(s.log) : s.log[j] \in Entry
    BY <1>1
  <2> QED
    BY <2>1 DEF Entry
<1>8. \A q : Done(s, q) => Done(s', q)
  <2>1. \A j \in 1..Len(s.log) : s.log[j].index <= s.lastApplied => s.log[j].index <= a
    BY <1>1, <1>4, <1>7 DEF Index
  <2> QED
    BY <1>5, <2>1 DEF Done, Configuring
<1>9. e.kind \in {"add", "remove"} => \A q : Owned(s, inChange, q) => Done(s', q)
  <2> SUFFICES ASSUME e.kind \in {"add", "remove"}, NEW q, Owned(s, inChange, q) PROVE Done(s', q)
    OBVIOUS
  <2>1. k \in Configuring(s.log) /\ k \in Pending(s)
    BY <1>3, <1>4 DEF Pending, Configuring
  <2>2. CASE Done(s, q)
    BY <1>8, <2>2
  <2>3. CASE Asks(q, s.log[k])
    <3>1. s.log[k].index <= a
      BY <1>3, <1>4
    <3> QED
      BY <1>5, <2>1, <2>3, <3>1 DEF Done
  <2> QED
    BY <2>1, <2>2, <2>3 DEF Owned
<1>10. \A q : Owned(s, inChange, q) => Owned(s', inChange', q)
  <2> SUFFICES ASSUME NEW q, Owned(s, inChange, q) PROVE Owned(s', inChange', q)
    OBVIOUS
  <2>1. CASE e.kind \in {"add", "remove"}
    BY <1>9, <2>1 DEF Owned
  <2>2. CASE e.kind \notin {"add", "remove"}
    <3>1. inChange' = inChange \/ ~inChange
      BY <1>2, <2>2 DEF Unlocks
    <3>2. inChange => inChange'
      BY <1>2, <2>2 DEF Unlocks
    <3>3. \A j \in Pending(s') : j \in Pending(s)
      <4>1. \A j \in 1..Len(s.log) : s.log[j].index > a => s.log[j].index > s.lastApplied
        BY <1>1, <1>4, <1>7 DEF Index
      <4> QED
        BY <1>5, <4>1 DEF Pending, Configuring
    <3> QED
      BY <1>5, <1>8, <3>2, <3>3 DEF Owned
  <2> QED
    BY <2>1, <2>2
<1> SUFFICES ASSUME AnswerInv PROVE AnswerInv'
  BY <1>6
<1>11. \A t \in Threads : th'[t].at \in Noting => Owned(s', inChange', th'[t].q)
  BY <1>2, <1>10 DEF AnswerInv
<1>12. CASE told
  <2> DEFINE p == applied[e.index]
  <2>1. Owned(s, inChange, p) /\ e.kind \in {"add", "remove"}
    BY <1>12 DEF AnswerInv, Unlocks
  <2>2. Done(s', p)
    BY <1>9, <2>1
  <2>3. result' = [result EXCEPT ![p] = "ok"]
    BY <1>2, <1>12
  <2> HIDE DEF p
  <2>4. \A q \in Request : result'[q] = "ok" => Done(s', q)
    BY <1>8, <2>2, <2>3 DEF AnswerInv, MemberType
  <2>5. applied' = [i \in DOMAIN applied \ {e.index} |-> applied[i]]
    BY <1>2, <1>12 DEF Restrict
  <2>6. \A i \in DOMAIN applied' : Owned(s', inChange', applied'[i])
    BY <1>10, <2>5 DEF AnswerInv
  <2> QED
    BY <1>6, <1>11, <2>4, <2>6 DEF AnswerInv
<1>13. CASE ~told
  <2>1. applied' = applied /\ result' = result
    BY <1>2, <1>13
  <2> QED
    BY <1>6, <1>8, <1>10, <1>11, <2>1 DEF AnswerInv
<1> QED
  BY <1>12, <1>13

-----------------------------------------------------------------------------
(***************************************************************************)
(* The theorems.                                                           *)
(***************************************************************************)
\* Neither is claimed of what it does not hold for.
ConfigHeld == met \cap {"crossed", "full"} = {} => ConfigInv(s)

AnswerHeld == met \cap {"foreign", "full"} = {} => AnswerInv

\* The node was just elected: its log is the no-op, its configuration the first.
LEMMA ConfigInit == Init => ConfigHeld /\ AnswerHeld
<1> SUFFICES ASSUME Init PROVE ConfigHeld /\ AnswerHeld
  OBVIOUS
<1> DEFINE b == [NewNodeState EXCEPT !.currentTerm = 1, !.votedFor = Self,
                                     !.config    = Base, !.oldConfig = Base]
           e == Noop(Len(b.log), b.currentTerm)
           w == WinElection(b, Self)
<1>1. Self \in Server /\ Base \in SUBSET Server
  BY MembersAssumption DEF Base
<1>2. b \in NodeStates /\ b.log = <<>> /\ b.snap = Nil /\ b.config = Base /\ b.oldConfig = Base
      /\ b.lastApplied = -1 /\ b.commitIndex = -1 /\ b.currentTerm = 1
  BY <1>1, NewNodeStateType DEF NodeStates, NewNodeState
<1>3. s = ArgsBuilt(w, Peer) \/ "full" \in met
  BY DEF Init, Base
<1> HIDE DEF b
<1>4. s \in NodeStates
  BY MemberInit DEF MemberType
<1>5. ConfigInv(b)
  <2>1. ConfigAfter(Base, b.log) = Base
    BY <1>1, <1>2, NoChange
  <2>2. Len(b.log) = 0
    BY <1>2
  <2> QED
    BY <1>2, <2>1, <2>2 DEF ConfigInv, Whole, Tracks, Reverts
<1>6. Cut(b, w, Len(b.log), e) /\ w \in NodeStates
  <2>1. Len(b.log) < LogCap
    BY <1>2, LogCapAssumption
  <2> QED
    BY <1>1, <1>2, <1>5, <2>1, WinCut, WinElectionType DEF ConfigInv
<1>7. Len(b.log) = 0 /\ e \in Entry /\ e.kind = "noop" /\ e.index = Len(b.log)
  BY <1>2 DEF Noop, Entry
<1> HIDE DEF e, w
<1>8. ConfigInv(w)
  <2>1. Len(b.log) \in 0..Len(b.log) /\ ~(Len(b.log) < Len(b.log))
    BY <1>7
  <2> QED
    BY <1>2, <1>5, <1>6, <1>7, <2>1, CutKeeps
<1>9. ConfigHeld
  <2>1. s = ArgsBuilt(w, Peer) => Quiet(w, s)
    BY <1>6, OthersQuiet
  <2> QED
    BY <1>3, <1>4, <1>6, <1>8, <2>1, QuietKeeps DEF ConfigHeld
<1>10. AnswerInv
  <2>1. th = [t \in Threads |-> Thread(IF t = "run" THEN "top" ELSE "idle", Nil)]
        /\ applied = <<>> /\ result = [q \in Request |-> "none"]
    BY DEF Init
  <2>2. \A t \in Threads : th[t].at \notin Noting
    BY <2>1 DEF Thread, Noting
  <2>3. DOMAIN applied = {}
    BY <2>1
  <2> QED
    BY <2>1, <2>2, <2>3 DEF AnswerInv
<1> QED
  BY <1>9, <1>10 DEF AnswerHeld

\* What was met stays met.
LEMMA MetGrows ==
    ASSUME [Next]_vars
    PROVE  met \subseteq met'
<1>1. CASE UNCHANGED vars
  BY <1>1 DEF vars
<1>2. ASSUME NEW t, Start(t) PROVE met \subseteq met'
  BY <1>2 DEF Start, Enqueue, StartNext, ReadIdx, Register
<1>3. CASE Conf \/ Resp \/ Inst \/ Run
  BY <1>2, <1>3 DEF Conf, Resp, Inst, Run, Join, ApplyLog, CheckConfigurationsToStart, LeaderSelect
<1>4. CASE Next
  BY <1>3, <1>4 DEF Next, ReceiveCall, Acknowledge, Installed, OtherLeads, OtherChanges, Elected
<1> QED
  BY <1>1, <1>4

\* Every step keeps both.
LEMMA ConfigStep ==
    ASSUME MemberType, LockInv, ConfigHeld, AnswerHeld, [Next]_vars
    PROVE  ConfigHeld' /\ AnswerHeld'
<1>1. MemberType' /\ LockInv' /\ met \subseteq met'
  BY MemberStep, MetGrows
<1>2. ASSUME "crossed" \notin met', "full" \notin met'
      PROVE  ConfigInv(s') /\ ("foreign" \notin met' /\ ChangeInv /\ AnswerInv => AnswerInv')
  <2>1. ConfigInv(s) /\ Lone(s')
    BY <1>1, <1>2 DEF ConfigHeld, LockInv
  <2>2. {"conf", "resp", "inst", "run"} \subseteq Threads
    BY DEF Threads
  <2>3. CASE UNCHANGED vars
    BY <2>1, <2>3 DEF vars, AnswerInv
  <2>4. CASE Conf \/ Resp \/ Inst \/ Run
    BY <1>1, <1>2, <2>1, <2>2, <2>4, CallConfig, StartConfig, ApplyConfig, SelectConfig
       DEF Conf, Resp, Inst, Run
  <2>5. ASSUME NEW k, NEW c \in Others, NEW committed \in BOOLEAN, OtherChanges(k, c, committed)
        PROVE  ConfigInv(s') /\ "foreign" \in met'
    <3>1. "foreign" \in met'
      BY <2>5 DEF OtherChanges
    <3> QED
      BY <1>1, <1>2, <2>1, <2>5, <3>1, ChangeConfig
  <2> QED
    BY <1>1, <1>2, <2>1, <2>3, <2>4, <2>5, CallConfig, LeadConfig DEF Next
<1>3. ConfigHeld'
  BY <1>2 DEF ConfigHeld
<1>4. ASSUME "foreign" \notin met', "full" \notin met' PROVE AnswerInv'
  <2>1. "crossed" \notin met' /\ "foreign" \notin met /\ "full" \notin met
    BY <1>1, <1>4 DEF LockInv
  <2>2. ChangeInv /\ AnswerInv
    BY <2>1 DEF LockInv, AnswerHeld
  <2> QED
    BY <1>2, <1>4, <2>1, <2>2
<1> QED
  BY <1>3, <1>4 DEF AnswerHeld

\* ConfigTracksLog: serverConfig is the first membership and the changes in the
\* log, this node's and other leaders', until two changes are pending at once or
\* the array is full.  addConfigLogUnlocked, the revert of handleAppendEntries with
\* one oldConfig only, and an oldConfig left behind by an earlier revert keep it so,
\* wherever another leader cuts the log off.
THEOREM ConfigsTrackLogs == Spec => []ConfigTracksLog
<1> DEFINE I == MemberType /\ LockInv /\ ConfigHeld /\ AnswerHeld
<1>1. Init => I
  BY MemberInit, ConfigInit
<1>2. I /\ [Next]_vars => I'
  BY MemberStep, ConfigStep
<1>3. I => ConfigTracksLog
  BY DEF ConfigHeld, ConfigInv, Tracks, ConfigTracksLog, ConfigOfLog, Base
<1> HIDE DEF I
<1> QED
  BY <1>1, <1>2, <1>3, PTL DEF Spec

\* AnsweredApplied: until another leader's change comes in or the array is full, a
\* caller of AddServer or RemoveServer is told of success only when a change it
\* asked for is applied, although the index it is noted under is read after the
\* lock was released and may be that of a later change.
THEOREM AnswersAreApplied == Spec => []AnsweredApplied
<1> DEFINE I == MemberType /\ LockInv /\ ConfigHeld /\ AnswerHeld
<1>1. Init => I
  BY MemberInit, ConfigInit
<1>2. I /\ [Next]_vars => I'
  BY MemberStep, ConfigStep
<1>3. I => AnsweredApplied
  BY DEF AnswerHeld, AnswerInv, Done, Asks, AnsweredApplied, AnsweredOwn
<1> HIDE DEF I
<1> QED
  BY <1>1, <1>2, <1>3, PTL DEF Spec

=============================================================================
