---------------------------- MODULE RaftCoreProofs ----------------------------
(***************************************************************************)
(* Theorems about RaftCore for every cluster and every value of the bounds:*)
(* types and votes, then the elections, then the log array.                *)
(***************************************************************************)
EXTENDS RaftCore, NodeStateProofs, FiniteSetTheorems

(***************************************************************************)
(* Bags of RPCs.                                                           *)
(***************************************************************************)
RpcBag(B) ==
    /\ DOMAIN B \subseteq AEReq \cup AEResp
    /\ \A m \in DOMAIN B : B[m] \in Nat \ {0}

\* Taking one RPC out of a bag of RPCs.
LEMMA BagRemoveRpc ==
    ASSUME NEW B, RpcBag(B), NEW m
    PROVE  RpcBag(B (-) SetToBag({m})) /\ DOMAIN (B (-) SetToBag({m})) \subseteq DOMAIN B
  BY DEF RpcBag, (-), SetToBag

\* Sending a set of requests.
LEMMA BagSendRpc ==
    ASSUME NEW B, RpcBag(B), NEW S \in SUBSET (AEReq \cup AEResp)
    PROVE  RpcBag(B (+) SetToBag(S)) /\ DOMAIN (B (+) SetToBag(S)) = DOMAIN B \cup S
  BY DEF RpcBag, (+), SetToBag

(***************************************************************************)
(* Storage.                                                                *)
(***************************************************************************)
\* persistState: what is stored, and the state that remembers it.
LEMMA StoredType ==
    ASSUME NEW s \in NodeStates, NEW d \in Disk
    PROVE  /\ Stored(s, d) \in Disk
           /\ NoteStored(s) \in NodeStates
           /\ SameBallot(s, NoteStored(s))
           /\ PlainState(s) => PlainState(NoteStored(s))
           /\ Stored(s, d).currentTerm = s.currentTerm
           /\ Stored(s, d).votedFor = s.votedFor
           /\ Stored(s, d).log = s.log
<1>1. s.snap # Nil => s.snap \in Snapshot /\ s.snap.idx \in Nat
  BY DEF NodeStates, Snapshot
<1>2. Stored(s, d) \in Disk
  BY <1>1 DEF Stored, Disk, NodeStates
<1>3. NoteStored(s) \in NodeStates
  BY <1>1 DEF NoteStored, NodeStates
<1>4. SameBallot(s, s)
  BY DEF SameBallot
<1>5. SameBallot(s, NoteStored(s)) /\ (PlainState(s) => PlainState(NoteStored(s)))
  BY <1>4, TimerKeeps DEF NoteStored
<1>6. QED BY <1>2, <1>3, <1>5 DEF Stored

\* Start: a state with the stored term, vote and log.
LEMMA RestoredType ==
    ASSUME NEW d \in Disk
    PROVE  /\ Restored(d) \in NodeStates
           /\ RestoredSM(d) \in Seq(Command)
           /\ Restored(d).role = Follower /\ Restored(d).votes = 0
           /\ d.currentTerm > 0 => /\ Restored(d).currentTerm = d.currentTerm
                                   /\ Restored(d).votedFor = d.votedFor
           /\ d.log \in Seq(PlainEntry) => PlainState(Restored(d))
<1> DEFINE k == Min({LogCap, Len(d.log)})
           s == IF d.currentTerm > 0
                THEN [NewNodeState EXCEPT !.currentTerm = d.currentTerm,
                                          !.votedFor    = d.votedFor,
                                          !.log         = SubSeq(d.log, 1, k)]
                ELSE NewNodeState
<1>1. d.log \in Seq(Entry) /\ d.currentTerm \in Nat /\ d.votedFor \in Server \cup {Nil}
      /\ d.snap \in Snapshot \cup {Nil}
  BY DEF Disk
<1>2. k \in 0..Len(d.log)
  <2>1. LogCap \in Nat /\ Len(d.log) \in Nat
    BY <1>1, LogCapAssumption
  <2>2. \E x \in {LogCap, Len(d.log)} : \A y \in {LogCap, Len(d.log)} : x <= y
    BY <2>1
  <2>3. k \in {LogCap, Len(d.log)} /\ k <= Len(d.log)
    BY <2>2 DEF Min
  <2>4. QED BY <2>1, <2>3
<1> HIDE DEF k
<1>3. /\ SubSeq(d.log, 1, k) \in Seq(Entry)
      /\ d.log \in Seq(PlainEntry) => SubSeq(d.log, 1, k) \in Seq(PlainEntry)
  <2>1. ASSUME NEW T, d.log \in Seq(T) PROVE SubSeq(d.log, 1, k) \in Seq(T)
    BY <1>2, <2>1
  <2>2. QED BY <1>1, <2>1
<1>4. /\ s \in NodeStates /\ s.role = Follower /\ s.votes = 0
      /\ d.currentTerm > 0 => s.currentTerm = d.currentTerm /\ s.votedFor = d.votedFor
      /\ s.config = Server /\ s.oldConfig = Server
      /\ s.log = SubSeq(d.log, 1, k) \/ s.log = <<>>
  <2>1. CASE d.currentTerm > 0
    BY <1>1, <1>3, <2>1, NewNodeStateType, ZenonT(60) DEF NodeStates, NewNodeState
  <2>2. CASE ~(d.currentTerm > 0)
    BY <2>2, NewNodeStateType DEF NewNodeState
  <2>3. QED BY <2>1, <2>2
<1>5. Restored(d) = IF d.snap = Nil THEN s
        ELSE [s EXCEPT !.snap = d.snap, !.commitIndex = d.snap.idx, !.lastApplied = d.snap.idx]
  BY DEF Restored, k
<1> HIDE DEF s
<1>6. d.snap # Nil => d.snap \in Snapshot /\ d.snap.idx \in Nat /\ d.snap.data \in Seq(Command)
  BY <1>1 DEF Snapshot
<1>7. /\ Restored(d) \in NodeStates
      /\ Restored(d).role = Follower /\ Restored(d).votes = 0
      /\ Restored(d).currentTerm = s.currentTerm /\ Restored(d).votedFor = s.votedFor
      /\ Restored(d).log = s.log /\ Restored(d).config = Server /\ Restored(d).oldConfig = Server
  <2>1. CASE d.snap = Nil
    BY <1>4, <1>5, <2>1
  <2>2. CASE d.snap # Nil
    <3>1. d.snap.idx \in Index
      BY <1>6, <2>2 DEF Index
    <3>2. Restored(d) =
            [s EXCEPT !.snap = d.snap, !.commitIndex = d.snap.idx, !.lastApplied = d.snap.idx]
      BY <1>5, <2>2
    <3>3. Restored(d) \in NodeStates
      BY <1>1, <1>4, <3>1, <3>2, ZenonT(40) DEF NodeStates
    <3>4. /\ Restored(d).role = s.role /\ Restored(d).votes = s.votes
          /\ Restored(d).currentTerm = s.currentTerm /\ Restored(d).votedFor = s.votedFor
          /\ Restored(d).log = s.log /\ Restored(d).config = s.config
          /\ Restored(d).oldConfig = s.oldConfig
      BY <1>4, <3>2 DEF NodeStates
    <3>5. QED BY <1>4, <3>3, <3>4
  <2>3. QED BY <2>1, <2>2
<1>8. RestoredSM(d) \in Seq(Command)
  BY <1>6 DEF RestoredSM
<1>9. <<>> \in Seq(PlainEntry)
  OBVIOUS
<1>10. QED BY <1>3, <1>4, <1>7, <1>8, <1>9 DEF PlainState

-----------------------------------------------------------------------------
(***************************************************************************)
(* The steps in which the run loop leaves a node in state s.               *)
(***************************************************************************)
\* persistState saves term, vote and log of the state the node is left in.
LEMMA PersistStep ==
    ASSUME TypeOK, NEW n \in Server, NEW s \in NodeStates, Persist(n, s)
    PROVE  /\ node' \in [Server -> NodeStates] /\ disk' \in [Server -> Disk]
           /\ SameBallot(s, node'[n]) /\ (PlainState(s) => PlainState(node'[n]))
           /\ disk'[n].currentTerm = s.currentTerm /\ disk'[n].votedFor = s.votedFor
           /\ disk'[n].log = s.log
           /\ \A p \in Server : p # n => node'[p] = node[p] /\ disk'[p] = disk[p]
<1>1. disk[n] \in Disk /\ node \in [Server -> NodeStates] /\ disk \in [Server -> Disk]
  BY DEF TypeOK
<1>2. /\ Stored(s, disk[n]) \in Disk /\ NoteStored(s) \in NodeStates
      /\ SameBallot(s, NoteStored(s)) /\ (PlainState(s) => PlainState(NoteStored(s)))
      /\ Stored(s, disk[n]).currentTerm = s.currentTerm
      /\ Stored(s, disk[n]).votedFor = s.votedFor
      /\ Stored(s, disk[n]).log = s.log
  BY <1>1, StoredType
<1>3. node'[n] = NoteStored(s) /\ disk'[n] = Stored(s, disk[n])
  BY <1>1 DEF Persist
<1>4. QED BY <1>1, <1>2, <1>3 DEF Persist

\* A step that changes the state in memory only.
LEMMA UpdateStep ==
    ASSUME TypeOK, NEW n \in Server, NEW s \in NodeStates, Update(n, s)
    PROVE  /\ node' \in [Server -> NodeStates] /\ disk' \in [Server -> Disk]
           /\ node'[n] = s /\ disk' = disk
           /\ \A p \in Server : p # n => node'[p] = node[p]
  BY DEF TypeOK, Update

\* The leader's select ends with checkCommits; it changes no ballot.
LEMMA AfterSelectKeeps ==
    ASSUME NEW n \in Server, NEW s \in NodeStates
    PROVE  /\ AfterSelect(n, s) \in NodeStates
           /\ SameBallot(s, AfterSelect(n, s))
           /\ PlainState(s) => PlainState(AfterSelect(n, s))
<1>1. SameBallot(s, s)
  BY DEF SameBallot
<1>2. QED BY <1>1, CheckCommitsType, CommitKeeps DEF AfterSelect

\* A follower stops its timer before it handles an RPC; its ballot stays.
LEMMA BeforeRPCKeeps ==
    ASSUME TypeOK, NEW n \in Server
    PROVE  /\ BeforeRPC(n) \in NodeStates
           /\ SameBallot(node[n], BeforeRPC(n))
           /\ PlainState(node[n]) => PlainState(BeforeRPC(n))
<1>1. node[n] \in NodeStates
  BY DEF TypeOK
<1>2. SameBallot(node[n], node[n])
  BY DEF SameBallot
<1>3. QED BY <1>1, <1>2, TimerType, TimerKeeps DEF BeforeRPC

\* The requests of sendAppendEntriesRPCs.
LEMMA AEReqsType ==
    ASSUME TypeOK, NEW n \in Server, NEW s \in NodeStates
    PROVE  /\ AEReqsOf(n, s) \in SUBSET AEReq
           /\ IsFiniteSet(AEReqsOf(n, s))
<1>1. ASSUME NEW p \in Server PROVE AEReqOf(n, s, p) \in AEReq
  <2>1. EntriesFor(s, p) \in Seq(Entry)
    BY EntriesForType
  <2>2. PrevFor(s, p).idx \in Index /\ PrevFor(s, p).term \in Index
    BY PrevForType
  <2>3. epoch[n] \in Epochs
    BY DEF TypeOK
  <2>4. s.currentTerm \in Nat /\ s.currentLeader \in Server \cup {Nil} /\ s.commitIndex \in Index
    BY DEF NodeStates
  <2>5. QED BY <2>1, <2>2, <2>3, <2>4 DEF AEReqOf, AEReq, AppendEntriesArgs
<1> DEFINE P    == {q \in Peers(n) : ~NextEntryCompacted(s, q)}
           F(p) == AEReqOf(n, s, p)
<1>2. P \in SUBSET Server
  BY DEF Peers
<1>3. IsFiniteSet(P)
  BY <1>2, ServerAssumption, FS_Subset
<1>4. AEReqsOf(n, s) = {F(p) : p \in P}
  BY DEF AEReqsOf
<1>5. AEReqsOf(n, s) \in SUBSET AEReq
  BY <1>1, <1>2, <1>4
<1> HIDE DEF P, F
<1>6. IsFiniteSet({F(p) : p \in P})
  <2> DEFINE T == {F(p) : p \in P}
             f == [p \in P |-> F(p)]
  <2>1. f \in Surjection(P, T)
    BY DEF Surjection
  <2> HIDE DEF f, T
  <2>2. IsFiniteSet(T)
    BY <1>3, <2>1, FS_Surjection
  <2>3. QED BY <2>2 DEF T
<1>7. QED BY <1>4, <1>5, <1>6

\* Sending them keeps the network's type.
LEMMA SendAEType ==
    ASSUME TypeOK, NEW n \in Server, NEW s \in NodeStates, SendAE(AEReqsOf(n, s))
    PROVE  /\ calls' \in Nat /\ RpcBag(aeRpcs')
           /\ DOMAIN aeRpcs' \subseteq DOMAIN aeRpcs \cup AEReqsOf(n, s)
<1>1. PICK sent \in SUBSET AEReqsOf(n, s) :
          /\ calls' = calls + Cardinality(sent)
          /\ aeRpcs' = aeRpcs (+) SetToBag(sent)
  BY DEF SendAE
<1>2. AEReqsOf(n, s) \in SUBSET AEReq /\ IsFiniteSet(AEReqsOf(n, s))
  BY AEReqsType
<1>3. IsFiniteSet(sent) /\ Cardinality(sent) \in Nat
  BY <1>1, <1>2, FS_Subset, FS_CardinalityType
<1>4. calls \in Nat /\ RpcBag(aeRpcs)
  BY DEF TypeOK, RpcBag
<1>5. sent \in SUBSET (AEReq \cup AEResp)
  BY <1>1, <1>2
<1>6. RpcBag(aeRpcs') /\ DOMAIN aeRpcs' = DOMAIN aeRpcs \cup sent
  BY <1>1, <1>4, <1>5, BagSendRpc
<1>7. QED BY <1>1, <1>3, <1>4, <1>6

-----------------------------------------------------------------------------
(***************************************************************************)
(* One lemma per action: the types hold after it, and the one node it      *)
(* moves keeps its ballot or lets it grow, in storage no less than what is *)
(* written there.                                                          *)
(***************************************************************************)
BallotStep(n) ==
    /\ BallotGrows(node[n], node'[n])
    /\ \A p \in Server \ {n} : node'[p] = node[p] /\ disk'[p] = disk[p]
    /\ \/ disk'[n] = disk[n]
       \/ /\ disk'[n].currentTerm = node'[n].currentTerm
          /\ disk'[n].votedFor = node'[n].votedFor

\* Saving a state whose ballot has grown is such a step.
LEMMA PersistBallot ==
    ASSUME TypeOK, NEW n \in Server, NEW s \in NodeStates, Persist(n, s), BallotGrows(node[n], s)
    PROVE  BallotStep(n)
<1>1. /\ SameBallot(s, node'[n])
      /\ disk'[n].currentTerm = s.currentTerm /\ disk'[n].votedFor = s.votedFor
      /\ \A p \in Server : p # n => node'[p] = node[p] /\ disk'[p] = disk[p]
  BY PersistStep
<1>2. QED BY <1>1 DEF BallotStep, BallotGrows, SameBallot

\* And so is a change in memory only.
LEMMA UpdateBallot ==
    ASSUME TypeOK, NEW n \in Server, NEW s \in NodeStates, Update(n, s), BallotGrows(node[n], s)
    PROVE  BallotStep(n)
<1>1. node'[n] = s /\ disk' = disk /\ \A p \in Server : p # n => node'[p] = node[p]
  BY UpdateStep
<1>2. QED BY <1>1 DEF BallotStep

\* A step in memory that leaves the ballot and the configuration alone.
QuietStep(n) ==
    /\ SameBallot(node[n], node'[n])
    /\ PlainState(node[n]) => PlainState(node'[n])
    /\ disk' = disk

\* What such a step has to establish.
LEMMA UpdateQuiet ==
    ASSUME TypeOK, NEW n \in Server, NEW s \in NodeStates, Update(n, s),
           SameBallot(node[n], s), PlainState(node[n]) => PlainState(s)
    PROVE  BallotStep(n) /\ QuietStep(n)
<1>1. node'[n] = s /\ disk' = disk
  BY UpdateStep
<1>2. node[n] \in NodeStates
  BY DEF TypeOK
<1>3. BallotStep(n)
  BY <1>2, SameBallotGrows, UpdateBallot
<1>4. QED BY <1>1, <1>3 DEF QuietStep

\* checkLogsToApply applies one entry.
LEMMA ApplyLogStep ==
    ASSUME TypeOK, NEW n \in Server, ApplyLog(n)
    PROVE  TypeOK' /\ BallotStep(n) /\ QuietStep(n)
<1> DEFINE a == node[n].lastApplied + 1
           s == [node[n] EXCEPT !.lastApplied = a]
           e == NextToApply(node[n])
<1>1. node[n] \in NodeStates /\ sm[n] \in Seq(Command)
  BY DEF TypeOK
<1>2. a \in Index
  BY <1>1, SMTT(40) DEF NodeStates, Index
<1> HIDE DEF a
<1>3. s \in NodeStates /\ SameBallot(node[n], s) /\ (PlainState(node[n]) => PlainState(s))
  BY <1>1, <1>2, TimerKeeps DEF NodeStates
<1>4. Update(n, s)
  BY DEF ApplyLog, a
<1> HIDE DEF s
<1>5. node' \in [Server -> NodeStates] /\ disk' \in [Server -> Disk]
  BY <1>3, <1>4, UpdateStep
<1>6. e \in Entry
  <2> DEFINE k == FindArrayIdx(node[n].log, node[n].lastApplied + 1)
  <2>1. node[n].log \in Seq(Entry)
    BY <1>1 DEF NodeStates
  <2>2. k \in 0..Len(node[n].log)
    BY <2>1, FindArrayIdxType
  <2>3. k # 0
    BY DEF ApplyLog, CanApply
  <2> HIDE DEF k
  <2>4. node[n].log[k] \in Entry
    BY <2>1, <2>2, <2>3
  <2>5. QED BY <2>4 DEF NextToApply, k
<1>7. e.kind = "command" => e.val \in Command
  BY <1>6 DEF Entry
<1>8. sm' \in [Server -> Seq(Command)]
  <2> HIDE DEF e
  <2>1. sm' = [sm EXCEPT ![n] = IF e.kind = "command" THEN Append(sm[n], e.val) ELSE sm[n]]
    BY DEF ApplyLog, e
  <2>2. (IF e.kind = "command" THEN Append(sm[n], e.val) ELSE sm[n]) \in Seq(Command)
    BY <1>1, <1>7
  <2>3. sm \in [Server -> Seq(Command)]
    BY DEF TypeOK
  <2>4. QED BY <2>1, <2>2, <2>3
<1>9. BallotStep(n) /\ QuietStep(n)
  BY <1>3, <1>4, UpdateQuiet
<1>10. TypeOK'
  BY <1>5, <1>8 DEF ApplyLog, TypeOK, netVars, history
<1>11. QED BY <1>9, <1>10

\* run reads the role and enters its select statement.
LEMMA EnterSelectStep ==
    ASSUME TypeOK, NEW n \in Server, EnterSelect(n)
    PROVE  TypeOK' /\ BallotStep(n) /\ QuietStep(n)
<1> DEFINE s == IF node[n].role = Leader THEN node[n] ELSE CheckElectionTimeout(node[n])
<1>1. node[n] \in NodeStates /\ node[n].role \in Stages
  BY DEF TypeOK, NodeStates, Stages
<1>2. SameBallot(node[n], node[n])
  BY DEF SameBallot
<1>3. s \in NodeStates /\ SameBallot(node[n], s) /\ (PlainState(node[n]) => PlainState(s))
  BY <1>1, <1>2, TimerType, TimerKeeps
<1>4. Update(n, s)
  BY DEF EnterSelect
<1> HIDE DEF s
<1>5. node' \in [Server -> NodeStates] /\ disk' \in [Server -> Disk]
  BY <1>3, <1>4, UpdateStep
<1>6. loop' \in [Server -> Stages]
  BY <1>1 DEF EnterSelect, GoTo, TypeOK
<1>7. BallotStep(n) /\ QuietStep(n)
  BY <1>3, <1>4, UpdateQuiet
<1>8. TypeOK'
  BY <1>5, <1>6 DEF EnterSelect, TypeOK, netVars, history
<1>9. QED BY <1>7, <1>8

\* All peers are connected.
LEMMA BecomeConnectedStep ==
    ASSUME TypeOK, NEW n \in Server, BecomeConnected(n)
    PROVE  TypeOK' /\ BallotStep(n) /\ QuietStep(n)
<1> DEFINE s == AfterSelect(n, node[n])
<1>1. node[n] \in NodeStates
  BY DEF TypeOK
<1>2. s \in NodeStates /\ SameBallot(node[n], s) /\ (PlainState(node[n]) => PlainState(s))
  BY <1>1, AfterSelectKeeps
<1>3. Update(n, s)
  BY DEF BecomeConnected
<1> HIDE DEF s
<1>4. node' \in [Server -> NodeStates] /\ disk' \in [Server -> Disk]
  BY <1>2, <1>3, UpdateStep
<1>5. loop' \in [Server -> Stages] /\ connected' \in [Server -> BOOLEAN]
  BY DEF BecomeConnected, GoTo, TypeOK, Stages
<1>6. BallotStep(n) /\ QuietStep(n)
  BY <1>2, <1>3, UpdateQuiet
<1>7. TypeOK'
  BY <1>4, <1>5 DEF BecomeConnected, TypeOK, netVars, history
<1>8. QED BY <1>6, <1>7

\* The timer of an unconnected follower is only stopped.
LEMMA TimeoutUnconnectedStep ==
    ASSUME TypeOK, NEW n \in Server, TimeoutUnconnected(n)
    PROVE  TypeOK' /\ BallotStep(n) /\ QuietStep(n)
<1> DEFINE s == StopElectionTimeout(node[n])
<1>1. node[n] \in NodeStates
  BY DEF TypeOK
<1>2. s \in NodeStates /\ SameBallot(node[n], s) /\ (PlainState(node[n]) => PlainState(s))
  BY <1>1, TimerType, TimerKeeps
<1>3. Update(n, s)
  BY DEF TimeoutUnconnected
<1> HIDE DEF s
<1>4. node' \in [Server -> NodeStates] /\ disk' \in [Server -> Disk]
  BY <1>2, <1>3, UpdateStep
<1>5. loop' \in [Server -> Stages]
  BY DEF TimeoutUnconnected, GoTo, TypeOK, Stages
<1>6. BallotStep(n) /\ QuietStep(n)
  BY <1>2, <1>3, UpdateQuiet
<1>7. TypeOK'
  BY <1>4, <1>5 DEF TimeoutUnconnected, TypeOK, netVars, history
<1>8. QED BY <1>6, <1>7

\* startElection and persistState: the node's vote for itself is the one cast.
LEMMA StartsElectionStep ==
    ASSUME TypeOK, NEW n \in Server, StartsElection(n)
    PROVE  /\ node' \in [Server -> NodeStates] /\ disk' \in [Server -> Disk]
           /\ tally' \in [Server -> [term : Nat, voters : SUBSET Server]]
           /\ BallotStep(n)
           /\ node'[n].currentTerm = node[n].currentTerm + 1
           /\ node'[n].votedFor = n /\ node'[n].role = Candidate /\ node'[n].votes = 1
           /\ disk'[n].currentTerm = node'[n].currentTerm /\ disk'[n].votedFor = n
           /\ tally' = [tally EXCEPT ![n] = [term |-> node'[n].currentTerm, voters |-> {n}]]
           /\ cast' = cast \cup {<<n, node'[n].currentTerm, n>>}
           /\ PlainState(node[n]) => PlainState(node'[n]) /\ disk'[n].log \in Seq(PlainEntry)
<1> DEFINE z == StopElectionTimeout(node[n])
           s == StartElection(z, n)
<1>1. node[n] \in NodeStates /\ node[n].currentTerm \in Nat
  BY DEF TypeOK, NodeStates
<1>2. z \in NodeStates /\ SameBallot(node[n], z) /\ (PlainState(node[n]) => PlainState(z))
  BY <1>1, TimerType, TimerKeeps
<1> HIDE DEF z
<1>3. s \in NodeStates
  BY <1>2, StartElectionType
<1>4. /\ s.currentTerm = z.currentTerm + 1 /\ s.votedFor = n
      /\ s.role = Candidate /\ s.votes = 1
      /\ BallotGrows(z, s) /\ (PlainState(z) => PlainState(s))
  BY <1>2, StartElectionEffect
<1>5. /\ Persist(n, s)
      /\ cast' = cast \cup {<<n, s.currentTerm, n>>}
      /\ tally' = [tally EXCEPT ![n] = [term |-> s.currentTerm, voters |-> {n}]]
  BY DEF StartsElection, z
<1> HIDE DEF s
<1>6. BallotGrows(node[n], s)
  BY <1>2, <1>4 DEF SameBallot, BallotGrows
<1>7. /\ node' \in [Server -> NodeStates] /\ disk' \in [Server -> Disk]
      /\ SameBallot(s, node'[n]) /\ (PlainState(s) => PlainState(node'[n]))
      /\ disk'[n].currentTerm = s.currentTerm /\ disk'[n].votedFor = s.votedFor
      /\ disk'[n].log = s.log
  BY <1>3, <1>5, PersistStep
<1>8. BallotStep(n)
  BY <1>3, <1>5, <1>6, PersistBallot
<1>9. s.currentTerm = node[n].currentTerm + 1 /\ s.currentTerm \in Nat
  BY <1>1, <1>2, <1>4 DEF SameBallot
<1>10. tally' \in [Server -> [term : Nat, voters : SUBSET Server]]
  BY <1>5, <1>9 DEF TypeOK
<1>11. PlainState(node[n]) => PlainState(node'[n]) /\ disk'[n].log \in Seq(PlainEntry)
  BY <1>2, <1>4, <1>7 DEF PlainState
<1>12. QED
  BY <1>4, <1>5, <1>7, <1>8, <1>9, <1>10, <1>11 DEF SameBallot

\* The follower's timeout.
LEMMA FollowerTimeoutStep ==
    ASSUME TypeOK, NEW n \in Server, FollowerTimeout(n)
    PROVE  TypeOK' /\ BallotStep(n)
<1>1. /\ StartsElection(n)
      /\ loop' = [loop EXCEPT ![n] = IF Peers(n) = {} THEN "won" ELSE "started"]
      /\ elected' = elected \/ elected' = elected \cup {<<n, node[n].currentTerm + 1>>}
  BY DEF FollowerTimeout, GoTo
<1>2. /\ node' \in [Server -> NodeStates] /\ disk' \in [Server -> Disk]
      /\ tally' \in [Server -> [term : Nat, voters : SUBSET Server]]
      /\ BallotStep(n)
      /\ node'[n].currentTerm = node[n].currentTerm + 1
      /\ cast' = cast \cup {<<n, node'[n].currentTerm, n>>}
  BY <1>1, StartsElectionStep
<1>3. node'[n].currentTerm \in Nat
  BY <1>2 DEF NodeStates
<1>4. loop' \in [Server -> Stages]
  BY <1>1 DEF TypeOK, Stages
<1>5. cast' \subseteq Server \X Nat \X Server /\ elected' \subseteq Server \X Nat
  BY <1>1, <1>2, <1>3 DEF TypeOK
<1>6. TypeOK'
  BY <1>1, <1>2, <1>4, <1>5 DEF StartsElection, TypeOK, netVars
<1>7. QED BY <1>2, <1>6

\* The candidate's timeout.
LEMMA CandidateTimeoutStep ==
    ASSUME TypeOK, NEW n \in Server, CandidateTimeout(n)
    PROVE  TypeOK' /\ BallotStep(n)
<1>1. StartsElection(n) /\ loop' = [loop EXCEPT ![n] = "started"] /\ elected' = elected
  BY DEF CandidateTimeout, GoTo
<1>2. /\ node' \in [Server -> NodeStates] /\ disk' \in [Server -> Disk]
      /\ tally' \in [Server -> [term : Nat, voters : SUBSET Server]]
      /\ BallotStep(n)
      /\ cast' = cast \cup {<<n, node'[n].currentTerm, n>>}
  BY <1>1, StartsElectionStep
<1>3. node'[n].currentTerm \in Nat
  BY <1>2 DEF NodeStates
<1>4. loop' \in [Server -> Stages]
  BY <1>1 DEF TypeOK, Stages
<1>5. cast' \subseteq Server \X Nat \X Server
  BY <1>2, <1>3 DEF TypeOK
<1>6. TypeOK'
  BY <1>1, <1>2, <1>4, <1>5 DEF StartsElection, TypeOK, netVars
<1>7. QED BY <1>2, <1>6

\* prepareRequestVoteRPC and sendRequestVoteRPCs.
LEMMA RequestVotesStep ==
    ASSUME TypeOK, NEW n \in Server, RequestVotes(n)
    PROVE  TypeOK' /\ BallotStep(n)
<1>1. node[n] \in NodeStates /\ node[n].currentTerm \in Nat /\ epoch[n] \in Epochs
  BY DEF TypeOK, NodeStates
<1>2. LastLogIdx(node[n]) \in Index /\ LastLogTerm(node[n]) \in Index
  BY <1>1, LastLogType
<1>3. VoteReqsOf(n, node[n]) \subseteq VoteReq
  BY <1>1, <1>2 DEF VoteReqsOf, VoteReq, Peers
<1>4. loop' \in [Server -> Stages]
  BY DEF RequestVotes, GoTo, TypeOK, Stages
<1>5. BallotStep(n)
  BY <1>1 DEF RequestVotes, BallotStep, BallotGrows
<1>6. TypeOK'
  BY <1>3, <1>4 DEF RequestVotes, TypeOK, history
<1>7. QED BY <1>5, <1>6

\* handleRequestToVote and persistState: a vote granted is the vote the node
\* has, in memory and in storage, when the reply goes out.
LEMMA HandleVoteReqStep ==
    ASSUME TypeOK, NEW n \in Server, NEW m \in voteReqs, HandleVoteReq(n, m)
    PROVE  /\ TypeOK' /\ BallotStep(n)
           /\ node'[n].votes = node[n].votes
           /\ node'[n].role \in {node[n].role, Follower}
           /\ node'[n].role # Follower =>
                 node'[n].currentTerm = node[n].currentTerm \/ node'[n].currentTerm = m.term
           /\ PlainState(node[n]) => PlainState(node'[n]) /\ disk'[n].log \in Seq(PlainEntry)
           /\ \/ cast' = cast
                 /\ \A r \in voteResps' \ voteResps : ~r.granted
              \/ /\ cast' = cast \cup {<<n, m.term, m.src>>}
                 /\ node'[n].currentTerm = m.term /\ node'[n].votedFor = m.src
                 /\ disk'[n].currentTerm = m.term /\ disk'[n].votedFor = m.src
                 /\ node'[n].role = Follower
           /\ \A r \in voteResps' \ voteResps :
                 /\ CallerAlive(m) /\ r.src = n /\ r.dst = m.src
                 /\ r.granted => r.term = m.term
<1> DEFINE b == BeforeRPC(n)
           h == HandleRequestToVote(b, m)
           s == AfterSelect(n, h)
           granted == GrantsVote(b, m)
           resp == [src |-> n, dst |-> m.src, term |-> h.currentTerm, granted |-> granted]
<1>1. node[n] \in NodeStates /\ m.term \in Nat /\ m.src \in Server
  BY DEF TypeOK, VoteReq
<1>2. /\ b \in NodeStates /\ SameBallot(node[n], b)
      /\ PlainState(node[n]) => PlainState(b)
  BY BeforeRPCKeeps
<1> HIDE DEF b
<1>3. h \in NodeStates
  BY <1>1, <1>2, HandleRequestToVoteType
<1>4. /\ BallotGrows(b, h) /\ h.votes = b.votes
      /\ PlainState(b) => PlainState(h)
      /\ granted => h.currentTerm = m.term /\ h.votedFor = m.src /\ h.role = Follower
      /\ h.role \in {b.role, Follower}
      /\ h.role # Follower => h.currentTerm = b.currentTerm \/ h.currentTerm = m.term
  BY <1>1, <1>2, HandleRequestToVoteEffect
<1>5. /\ Persist(n, s)
      /\ voteResps' = IF CallerAlive(m) THEN voteResps \cup {resp} ELSE voteResps
      /\ cast' = IF granted THEN cast \cup {<<n, m.term, m.src>>} ELSE cast
      /\ voteReqs' = voteReqs \ {m}
      /\ loop' = [loop EXCEPT ![n] = "top"]
      /\ UNCHANGED <<connected, held, sm, epoch, aeRpcs, calls, elected, tally>>
  BY DEF HandleVoteReq, GoTo, b
<1> HIDE DEF h
<1>6. s \in NodeStates /\ SameBallot(h, s) /\ (PlainState(h) => PlainState(s))
  BY <1>3, AfterSelectKeeps
<1> HIDE DEF s
<1>7. BallotGrows(node[n], s)
  BY <1>2, <1>4, <1>6 DEF SameBallot, BallotGrows
<1>8. BallotStep(n)
  BY <1>5, <1>6, <1>7, PersistBallot
<1>9. /\ node' \in [Server -> NodeStates] /\ disk' \in [Server -> Disk]
      /\ SameBallot(s, node'[n]) /\ (PlainState(s) => PlainState(node'[n]))
      /\ disk'[n].currentTerm = s.currentTerm /\ disk'[n].votedFor = s.votedFor
      /\ disk'[n].log = s.log
  BY <1>5, <1>6, PersistStep
<1>10. h.currentTerm \in Nat /\ granted \in BOOLEAN
  BY <1>3 DEF NodeStates, GrantsVote
<1> HIDE DEF granted
<1>11. resp \in VoteResp
  BY <1>1, <1>10 DEF VoteResp
<1>12. TypeOK'
  <2>1. loop' \in [Server -> Stages]
    BY <1>5 DEF TypeOK, Stages
  <2>2. voteResps' \subseteq VoteResp /\ voteReqs' \subseteq VoteReq
    BY <1>5, <1>11 DEF TypeOK
  <2>3. cast' \subseteq Server \X Nat \X Server
    BY <1>1, <1>5 DEF TypeOK
  <2>4. QED BY <1>5, <1>9, <2>1, <2>2, <2>3 DEF TypeOK
<1>13. /\ node'[n].votes = node[n].votes
       /\ node'[n].role \in {node[n].role, Follower}
       /\ node'[n].role # Follower =>
             node'[n].currentTerm = node[n].currentTerm \/ node'[n].currentTerm = m.term
       /\ granted => /\ node'[n].currentTerm = m.term /\ node'[n].votedFor = m.src
                     /\ disk'[n].currentTerm = m.term /\ disk'[n].votedFor = m.src
                     /\ node'[n].role = Follower
  BY <1>2, <1>4, <1>6, <1>9 DEF SameBallot
<1>14. PlainState(node[n]) => PlainState(node'[n]) /\ disk'[n].log \in Seq(PlainEntry)
  BY <1>2, <1>4, <1>6, <1>9 DEF PlainState
<1>15. \A r \in voteResps' \ voteResps : CallerAlive(m) /\ r = resp
  BY <1>5
<1>16. \A r \in voteResps' \ voteResps :
           /\ CallerAlive(m) /\ r.src = n /\ r.dst = m.src
           /\ r.granted = granted
           /\ r.granted => r.term = m.term
  BY <1>4, <1>15
<1>17. QED BY <1>5, <1>8, <1>12, <1>13, <1>14, <1>16

\* A candidate counts a vote.
LEMMA CountVoteStep ==
    ASSUME TypeOK, NEW n \in Server, NEW r \in voteResps, CountVote(n, r)
    PROVE  TypeOK' /\ BallotStep(n)
<1> DEFINE s == UpdateElection(node[n], r)
<1>1. node[n] \in NodeStates /\ node[n].currentTerm \in Nat /\ r.term \in Nat /\ r.src \in Server
  BY DEF TypeOK, NodeStates, VoteResp
<1>2. s \in NodeStates /\ BallotGrows(node[n], s)
  BY <1>1, UpdateElectionType, UpdateElectionEffect
<1>3. Update(n, s)
  BY DEF CountVote
<1> HIDE DEF s
<1>4. node' \in [Server -> NodeStates] /\ disk' \in [Server -> Disk]
  BY <1>2, <1>3, UpdateStep
<1>5. loop' \in [Server -> Stages]
  BY DEF CountVote, GoTo, TypeOK, Stages
<1>6. elected' \subseteq Server \X Nat
  BY <1>1 DEF CountVote, TypeOK
<1>7. tally' \in [Server -> [term : Nat, voters : SUBSET Server]]
  <2> DEFINE vs == CASE r.term > node[n].currentTerm -> {}
                     [] r.term = node[n].currentTerm /\ r.granted -> tally[n].voters \cup {r.src}
                     [] OTHER -> tally[n].voters
  <2>1. tally \in [Server -> [term : Nat, voters : SUBSET Server]]
    BY DEF TypeOK
  <2>2. tally[n].voters \in SUBSET Server
    BY <2>1
  <2>3. vs \in SUBSET Server
    BY <1>1, <2>2
  <2>4. tally' = [tally EXCEPT ![n].voters = vs]
    BY DEF CountVote
  <2> HIDE DEF vs
  <2>5. QED BY <2>1, <2>3, <2>4
<1>8. BallotStep(n)
  BY <1>2, <1>3, UpdateBallot
<1>9. TypeOK'
  BY <1>4, <1>5, <1>6, <1>7 DEF CountVote, TypeOK
<1>10. QED BY <1>8, <1>9

\* The other roles drain the channel of vote responses.
LEMMA DrainVoteStep ==
    ASSUME TypeOK, NEW n \in Server, NEW r \in voteResps, DrainVote(n, r)
    PROVE  TypeOK' /\ BallotStep(n) /\ QuietStep(n)
<1> DEFINE s == AfterSelect(n, node[n])
<1>1. node[n] \in NodeStates
  BY DEF TypeOK
<1>2. s \in NodeStates /\ SameBallot(node[n], s) /\ (PlainState(node[n]) => PlainState(s))
  BY <1>1, AfterSelectKeeps
<1>3. Update(n, s)
  BY DEF DrainVote
<1> HIDE DEF s
<1>4. node' \in [Server -> NodeStates] /\ disk' \in [Server -> Disk]
  BY <1>2, <1>3, UpdateStep
<1>5. loop' \in [Server -> Stages]
  BY DEF DrainVote, GoTo, TypeOK, Stages
<1>6. BallotStep(n) /\ QuietStep(n)
  BY <1>2, <1>3, UpdateQuiet
<1>7. TypeOK'
  BY <1>4, <1>5 DEF DrainVote, TypeOK, history
<1>8. QED BY <1>6, <1>7

\* winElection, persistState and the first AppendEntries.
LEMMA BecomeLeaderStep ==
    ASSUME TypeOK, NEW n \in Server, BecomeLeader(n)
    PROVE  /\ TypeOK' /\ BallotStep(n)
           /\ node'[n].currentTerm = node[n].currentTerm
           /\ node'[n].role = Leader /\ node'[n].votes = 0
           /\ PlainState(node[n]) => PlainState(node'[n]) /\ disk'[n].log \in Seq(PlainEntry)
<1> DEFINE w == WinElection(node[n], n)
           s == ArgsBuilt(w, Peers(n))
<1>1. node[n] \in NodeStates /\ Peers(n) \in SUBSET Server
  BY DEF TypeOK, Peers
<1>2. w \in NodeStates
  BY <1>1, WinElectionType
<1>3. /\ w.currentTerm = node[n].currentTerm /\ w.votedFor = node[n].votedFor
      /\ w.role = Leader /\ w.votes = 0
      /\ PlainState(node[n]) => PlainState(w)
  BY <1>1, WinElectionEffect
<1>4. Persist(n, s) /\ SendAE(AEReqsOf(n, w)) /\ loop' = [loop EXCEPT ![n] = "top"]
      /\ tally' = [tally EXCEPT ![n].voters = {}]
      /\ UNCHANGED <<connected, held, sm, epoch, voteReqs, voteResps, cast, elected>>
  BY DEF BecomeLeader, GoTo
<1> HIDE DEF w
<1>5. s \in NodeStates /\ SameBallot(w, s) /\ (PlainState(w) => PlainState(s))
  BY <1>1, <1>2, ArgsBuiltType, CommitKeeps
<1> HIDE DEF s
<1>6. /\ node' \in [Server -> NodeStates] /\ disk' \in [Server -> Disk]
      /\ SameBallot(s, node'[n]) /\ (PlainState(s) => PlainState(node'[n]))
      /\ disk'[n].log = s.log
  BY <1>4, <1>5, PersistStep
<1>7. node[n].currentTerm \in Nat
  BY <1>1 DEF NodeStates
<1>8. BallotGrows(node[n], s)
  BY <1>3, <1>5, <1>7 DEF SameBallot, BallotGrows
<1>9. BallotStep(n)
  BY <1>4, <1>5, <1>8, PersistBallot
<1>10. calls' \in Nat /\ RpcBag(aeRpcs')
  BY <1>2, <1>4, SendAEType
<1>11. /\ loop' \in [Server -> Stages]
       /\ tally' \in [Server -> [term : Nat, voters : SUBSET Server]]
  BY <1>4 DEF TypeOK, Stages
<1>12. TypeOK'
  BY <1>4, <1>6, <1>10, <1>11 DEF TypeOK, RpcBag
<1>13. QED
  BY <1>3, <1>5, <1>6, <1>9, <1>12 DEF SameBallot, PlainState

\* The heartbeat.
LEMMA HeartbeatStep ==
    ASSUME TypeOK, NEW n \in Server, Heartbeat(n)
    PROVE  /\ TypeOK' /\ BallotStep(n)
           /\ SameBallot(node[n], node'[n]) /\ (PlainState(node[n]) => PlainState(node'[n]))
           /\ disk' = disk
<1> DEFINE w == ArgsBuilt(node[n], Peers(n))
           s == CheckCommits(w)
<1>1. node[n] \in NodeStates /\ Peers(n) \in SUBSET Server
  BY DEF TypeOK, Peers
<1>2. w \in NodeStates /\ SameBallot(node[n], w) /\ (PlainState(node[n]) => PlainState(w))
  BY <1>1, ArgsBuiltType, CommitKeeps
<1>3. Update(n, s) /\ SendAE(AEReqsOf(n, node[n])) /\ loop' = [loop EXCEPT ![n] = "top"]
      /\ UNCHANGED <<connected, held, sm, epoch, voteReqs, voteResps, history>>
  BY DEF Heartbeat, GoTo
<1> HIDE DEF w
<1>4. s \in NodeStates /\ SameBallot(w, s) /\ (PlainState(w) => PlainState(s))
  BY <1>2, CheckCommitsType, CommitKeeps
<1> HIDE DEF s
<1>5. SameBallot(node[n], s)
  BY <1>2, <1>4 DEF SameBallot
<1>6. node' \in [Server -> NodeStates] /\ disk' \in [Server -> Disk] /\ node'[n] = s /\ disk' = disk
  BY <1>3, <1>4, UpdateStep
<1>7. BallotStep(n)
  BY <1>1, <1>3, <1>4, <1>5, SameBallotGrows, UpdateBallot
<1>8. calls' \in Nat /\ RpcBag(aeRpcs')
  BY <1>1, <1>3, SendAEType
<1>9. loop' \in [Server -> Stages]
  BY <1>3 DEF TypeOK, Stages
<1>10. TypeOK'
  BY <1>3, <1>6, <1>8, <1>9 DEF TypeOK, RpcBag, history
<1>11. QED BY <1>2, <1>4, <1>5, <1>6, <1>7, <1>10

\* handleAppendEntries and persistState.
LEMMA HandleAEReqStep ==
    ASSUME TypeOK, NEW n \in Server, NEW m \in DOMAIN aeRpcs, HandleAEReq(n, m)
    PROVE  /\ TypeOK' /\ BallotStep(n)
           /\ node'[n].votes = node[n].votes
           /\ \/ SameBallot(node[n], node'[n])
              \/ node'[n].role = Follower
           /\ m \in AEReq
           /\ PlainState(node[n]) /\ m.entries \in Seq(PlainEntry) =>
                 PlainState(node'[n]) /\ disk'[n].log \in Seq(PlainEntry)
           /\ DOMAIN aeRpcs' \subseteq DOMAIN aeRpcs \cup AEResp
<1> DEFINE b    == BeforeRPC(n)
           h    == HandleAppendEntries(b, m, sm[n])
           s    == AfterSelect(n, h)
           ok   == AcceptsEntries(b, m)
           resp == AERespTo(m, h, ok)
           rest == aeRpcs (-) SetToBag({m})
<1>1. node[n] \in NodeStates /\ sm[n] \in Seq(Command) /\ m \in AEReq \cup AEResp /\ RpcBag(aeRpcs)
  BY DEF TypeOK, RpcBag
<1>2. m.type = "request" /\ m.dst = n
  BY DEF HandleAEReq
<1>3. m \in AEReq
  BY <1>1, <1>2 DEF AEResp
<1>4. /\ m.term \in Nat /\ m.leader \in Server \cup {Nil} /\ m.entries \in Seq(Entry)
      /\ m.commit \in Index /\ m.src \in Server /\ m.prevIdx \in Index
  BY <1>3 DEF AEReq
<1>5. b \in NodeStates /\ SameBallot(node[n], b) /\ (PlainState(node[n]) => PlainState(b))
  BY BeforeRPCKeeps
<1> HIDE DEF b
<1>6. /\ h \in NodeStates /\ h.votes = b.votes
      /\ m.term < b.currentTerm => h = b
      /\ m.term >= b.currentTerm => h.currentTerm = m.term /\ h.role = Follower
      /\ m.term = b.currentTerm => h.votedFor = b.votedFor
      /\ PlainState(b) /\ m.entries \in Seq(PlainEntry) => PlainState(h)
  BY <1>1, <1>4, <1>5, HandleAppendEntriesEffect
<1>7. /\ Persist(n, s)
      /\ aeRpcs' = rest \/ aeRpcs' = rest (+) SetToBag({resp})
      /\ loop' = [loop EXCEPT ![n] = "top"]
      /\ UNCHANGED <<connected, held, sm, epoch, calls, voteReqs, voteResps, history>>
  BY DEF HandleAEReq, GoTo, b
<1> HIDE DEF h
<1>8. s \in NodeStates /\ SameBallot(h, s) /\ (PlainState(h) => PlainState(s))
  BY <1>6, AfterSelectKeeps
<1> HIDE DEF s
<1>9. b.currentTerm \in Nat
  BY <1>5 DEF NodeStates
<1>10. BallotGrows(b, h)
  BY <1>4, <1>6, <1>9 DEF BallotGrows
<1>11. BallotGrows(node[n], s)
  BY <1>5, <1>8, <1>10 DEF SameBallot, BallotGrows
<1>12. BallotStep(n)
  BY <1>7, <1>8, <1>11, PersistBallot
<1>13. /\ node' \in [Server -> NodeStates] /\ disk' \in [Server -> Disk]
       /\ SameBallot(s, node'[n]) /\ (PlainState(s) => PlainState(node'[n]))
       /\ disk'[n].log = s.log
  BY <1>7, <1>8, PersistStep
<1>14. resp \in AEResp
  <2>1. h.currentTerm \in Nat
    BY <1>6 DEF NodeStates
  <2>2. ok \in BOOLEAN
    BY DEF AcceptsEntries
  <2>3. LastLogIdx(node[m.dst]) \in Index
    BY <1>1, <1>2, LastLogType
  <2> HIDE DEF ok
  <2>4. QED BY <1>2, <1>4, <2>1, <2>2, <2>3 DEF AERespTo, AEResp
<1> HIDE DEF resp
<1>15. RpcBag(rest) /\ DOMAIN rest \subseteq DOMAIN aeRpcs
  BY <1>1, BagRemoveRpc
<1> HIDE DEF rest
<1>16. /\ RpcBag(rest (+) SetToBag({resp}))
       /\ DOMAIN (rest (+) SetToBag({resp})) = DOMAIN rest \cup {resp}
  BY <1>14, <1>15, BagSendRpc
<1>17. RpcBag(aeRpcs') /\ DOMAIN aeRpcs' \subseteq DOMAIN aeRpcs \cup AEResp
  BY <1>7, <1>14, <1>15, <1>16
<1>18. loop' \in [Server -> Stages]
  BY <1>7 DEF TypeOK, Stages
<1>19. TypeOK'
  BY <1>7, <1>13, <1>17, <1>18 DEF TypeOK, RpcBag, history
<1>20. node'[n].votes = node[n].votes
  BY <1>5, <1>6, <1>8, <1>13 DEF SameBallot
<1>21. SameBallot(node[n], node'[n]) \/ node'[n].role = Follower
  BY <1>4, <1>5, <1>6, <1>8, <1>9, <1>13 DEF SameBallot
<1>22. PlainState(node[n]) /\ m.entries \in Seq(PlainEntry) =>
          PlainState(node'[n]) /\ disk'[n].log \in Seq(PlainEntry)
  BY <1>5, <1>6, <1>8, <1>13 DEF PlainState
<1>23. QED BY <1>3, <1>12, <1>17, <1>19, <1>20, <1>21, <1>22

\* A response is received and the role read.
LEMMA ReceiveAERespStep ==
    ASSUME TypeOK, NEW n \in Server, NEW r \in DOMAIN aeRpcs, ReceiveAEResp(n, r)
    PROVE  TypeOK' /\ BallotStep(n) /\ DOMAIN aeRpcs' \subseteq DOMAIN aeRpcs
<1>1. r \in AEReq \cup AEResp /\ RpcBag(aeRpcs) /\ node[n] \in NodeStates
  BY DEF TypeOK, RpcBag
<1>2. r \in AEResp
  BY <1>1 DEF ReceiveAEResp, AEReq
<1>3. held' \in [Server -> AEResp \cup {Nil}]
  BY <1>2 DEF ReceiveAEResp, TypeOK
<1>4. RpcBag(aeRpcs') /\ DOMAIN aeRpcs' \subseteq DOMAIN aeRpcs
  BY <1>1, BagRemoveRpc DEF ReceiveAEResp
<1>5. TypeOK'
  BY <1>3, <1>4 DEF ReceiveAEResp, TypeOK, RpcBag, history
<1>6. node[n].currentTerm \in Nat
  BY <1>1 DEF NodeStates
<1>7. BallotStep(n)
  BY <1>6 DEF ReceiveAEResp, BallotStep, BallotGrows
<1>8. QED BY <1>4, <1>5, <1>7

\* The response is handled, before or after the persistState of the run loop.
LEMMA HandleAERespStep ==
    ASSUME TypeOK, NEW n \in Server, HandleAEResp(n)
    PROVE  /\ TypeOK' /\ BallotStep(n)
           /\ node'[n].votes = node[n].votes
           /\ \/ SameBallot(node[n], node'[n])
              \/ node'[n].currentTerm > node[n].currentTerm /\ node'[n].role = Follower
           /\ PlainState(node[n]) => /\ PlainState(node'[n])
                                     /\ disk' # disk => disk'[n].log \in Seq(PlainEntry)
<1> DEFINE s == HandleAppendEntriesResponse(node[n], held[n])
<1>1. node[n] \in NodeStates /\ held[n] \in AEResp
  BY DEF TypeOK, HandleAEResp
<1>2. /\ held[n].term \in Nat /\ held[n].src \in Server /\ held[n].lastIdx \in Index
      /\ held[n].success \in BOOLEAN
  BY <1>1 DEF AEResp
<1>3. s \in NodeStates
  BY <1>1, <1>2, HandleAppendEntriesResponseType
<1>4. /\ BallotGrows(node[n], s) /\ (PlainState(node[n]) => PlainState(s))
      /\ s.votes = node[n].votes
      /\ SameBallot(node[n], s) \/ (s.currentTerm > node[n].currentTerm /\ s.role = Follower)
  BY <1>1, <1>2, HandleAppendEntriesResponseEffect
<1>5. (Update(n, s) \/ Persist(n, s)) /\ held' = [held EXCEPT ![n] = Nil]
      /\ UNCHANGED <<loop, connected, sm, epoch, netVars, history>>
  BY DEF HandleAEResp
<1> HIDE DEF s
<1>6. BallotStep(n)
  BY <1>3, <1>4, <1>5, PersistBallot, UpdateBallot
<1>7. SameBallot(s, s)
  BY DEF SameBallot
<1>8. /\ node' \in [Server -> NodeStates] /\ disk' \in [Server -> Disk]
      /\ SameBallot(s, node'[n]) /\ (PlainState(s) => PlainState(node'[n]))
      /\ disk' = disk \/ disk'[n].log = s.log
  BY <1>3, <1>5, <1>7, PersistStep, UpdateStep
<1>9. held' \in [Server -> AEResp \cup {Nil}]
  BY <1>5 DEF TypeOK
<1>10. TypeOK'
  BY <1>5, <1>8, <1>9 DEF TypeOK, netVars, history
<1>11. QED BY <1>4, <1>6, <1>8, <1>10 DEF SameBallot, PlainState

\* A crash and the Start after it.
LEMMA RestartStep ==
    ASSUME TypeOK, NEW n \in Server, Restart(n)
    PROVE  /\ TypeOK'
           /\ node'[n] = Restored(disk[n]) /\ disk' = disk
           /\ \A p \in Server : p # n => node'[p] = node[p]
           /\ DOMAIN aeRpcs' \subseteq DOMAIN aeRpcs
<1>1. disk[n] \in Disk /\ RpcBag(aeRpcs) /\ epoch[n] \in 0..MaxRestarts /\ MaxRestarts \in Nat
  BY BoundsAssumption DEF TypeOK, RpcBag, Epochs
<1>2. Restored(disk[n]) \in NodeStates /\ RestoredSM(disk[n]) \in Seq(Command)
  BY <1>1, RestoredType
<1>3. Update(n, Restored(disk[n]))
  BY DEF Restart
<1>4. /\ node' \in [Server -> NodeStates] /\ disk' \in [Server -> Disk]
      /\ node'[n] = Restored(disk[n]) /\ disk' = disk
      /\ \A p \in Server : p # n => node'[p] = node[p]
  BY <1>2, <1>3, UpdateStep
<1>5. epoch[n] + 1 \in Epochs
  BY <1>1 DEF Restart, Epochs
<1>6. epoch' \in [Server -> Epochs]
  BY <1>5 DEF Restart, TypeOK
<1>7. sm' \in [Server -> Seq(Command)]
  BY <1>2 DEF Restart, TypeOK
<1>8. /\ loop' \in [Server -> Stages] /\ connected' \in [Server -> BOOLEAN]
      /\ held' \in [Server -> AEResp \cup {Nil}]
      /\ tally' \in [Server -> [term : Nat, voters : SUBSET Server]]
  BY DEF Restart, GoTo, TypeOK, Stages, NoTally
<1>9. RpcBag(aeRpcs') /\ DOMAIN aeRpcs' \subseteq DOMAIN aeRpcs
  BY <1>1 DEF Restart, RpcBag
<1>10. voteResps' \subseteq VoteResp
  BY DEF Restart, TypeOK
<1>11. TypeOK'
  BY <1>4, <1>6, <1>7, <1>8, <1>9, <1>10 DEF Restart, TypeOK, RpcBag
<1>12. QED BY <1>4, <1>9, <1>11

-----------------------------------------------------------------------------
(***************************************************************************)
(* Type correctness.                                                       *)
(***************************************************************************)
\* New starts every node in a state of the right type.
LEMMA InitType == Init => TypeOK
<1> SUFFICES ASSUME Init PROVE TypeOK
  OBVIOUS
<1>1. node \in [Server -> NodeStates]
  BY NewNodeStateType DEF Init
<1>2. disk \in [Server -> Disk] /\ sm \in [Server -> Seq(Command)]
  BY DEF Init, Disk
<1>3. epoch \in [Server -> Epochs]
  BY BoundsAssumption DEF Init, Epochs
<1>4. /\ loop \in [Server -> Stages] /\ connected \in [Server -> BOOLEAN]
      /\ held \in [Server -> AEResp \cup {Nil}]
      /\ tally \in [Server -> [term : Nat, voters : SUBSET Server]]
  BY DEF Init, Stages, NoTally
<1>5. DOMAIN aeRpcs = {}
  BY DEF Init, EmptyBag, SetToBag
<1>6. QED BY <1>1, <1>2, <1>3, <1>4, <1>5 DEF Init, TypeOK

\* Every step of a live process: types, and one node's ballot.
LEMMA LiveStep ==
    ASSUME TypeOK, Next
    PROVE  TypeOK' /\ ((\E n \in Server : BallotStep(n)) \/ (\E n \in Server : Restart(n)))
<1>1. ASSUME NEW n \in Server, RunLoop(n) PROVE TypeOK' /\ BallotStep(n)
  BY <1>1, ApplyLogStep, EnterSelectStep, BecomeConnectedStep, FollowerTimeoutStep,
     TimeoutUnconnectedStep, CandidateTimeoutStep, RequestVotesStep, HandleVoteReqStep,
     CountVoteStep, DrainVoteStep, BecomeLeaderStep, HeartbeatStep, HandleAEReqStep DEF RunLoop
<1>2. ASSUME NEW n \in Server, NEW r \in DOMAIN aeRpcs, ReceiveAEResp(n, r)
      PROVE  TypeOK' /\ BallotStep(n)
  BY <1>2, ReceiveAERespStep
<1>3. ASSUME NEW n \in Server, HandleAEResp(n) PROVE TypeOK' /\ BallotStep(n)
  BY <1>3, HandleAERespStep
<1>4. ASSUME NEW n \in Server, Restart(n) PROVE TypeOK'
  BY <1>4, RestartStep
<1>5. QED BY <1>1, <1>2, <1>3, <1>4 DEF Next

\* Type correctness: nodeState, storage, the RPCs in flight and the history
\* keep their types in every cluster; in particular nextIndex never becomes
\* negative and lastSentLogIndex and matchIndex never fall below -1.
THEOREM TypeCorrect == Spec => []TypeOK
<1>1. Init => TypeOK
  BY InitType
<1>2. TypeOK /\ [Next]_vars => TypeOK'
  <2>1. CASE Next
    BY <2>1, LiveStep
  <2>2. CASE UNCHANGED vars
    BY <2>2 DEF vars, nodeVars, netVars, history, TypeOK
  <2>3. QED BY <2>1, <2>2
<1>3. QED BY <1>1, <1>2, PTL DEF Spec

-----------------------------------------------------------------------------
(***************************************************************************)
(* A vote once given binds the server.                                     *)
(***************************************************************************)
\* VoteStable: as long as the process lives, its term only grows and a vote
\* given in a term is neither changed nor taken back.
THEOREM VotesAreStable == Spec => VoteStable
<1> DEFINE A == \A n \in Server : epoch'[n] = epoch[n] =>
                    /\ node'[n].currentTerm >= node[n].currentTerm
                    /\ node'[n].currentTerm = node[n].currentTerm /\ node[n].votedFor # Nil
                         => node'[n].votedFor = node[n].votedFor
<1>1. TypeOK /\ Next => A
  <2> SUFFICES ASSUME TypeOK, Next PROVE A
    OBVIOUS
  <2>1. ASSUME NEW n \in Server PROVE node[n].currentTerm \in Nat /\ epoch[n] \in Nat
    BY BoundsAssumption DEF TypeOK, NodeStates, Epochs
  <2>2. ASSUME NEW k \in Server, BallotStep(k) PROVE A
    BY <2>1, <2>2 DEF BallotStep, BallotGrows
  <2>3. ASSUME NEW k \in Server, Restart(k) PROVE A
    <3>1. \A p \in Server : p # k => node'[p] = node[p]
      BY <2>3, RestartStep
    <3>2. epoch'[k] # epoch[k]
      BY <2>1, <2>3 DEF Restart, TypeOK
    <3>3. QED BY <2>1, <3>1, <3>2
  <2>4. QED BY <2>2, <2>3, LiveStep
<1>2. TypeOK /\ [Next]_vars => [A]_vars
  BY <1>1
<1>3. QED BY <1>2, TypeCorrect, PTL DEF Spec, VoteStable

\* The state s of a server bears out its vote for c in term t.
Backs(s, t, c) == s.currentTerm > t \/ (s.currentTerm = t /\ s.votedFor = c)

(***************************************************************************)
(* The invariant: a server bears out every vote it cast, in memory and in  *)
(* storage, so a new vote of a term it voted in can only repeat the old    *)
(* one.  Start ignores a stored state of term 0, so votes are cast in      *)
(* positive terms only, which is why the requests and the loop are in it.  *)
(***************************************************************************)
CastBacked ==
    \A a \in cast : /\ a[2] > 0
                    /\ Backs(node[a[1]], a[2], a[3])
                    /\ Backs(disk[a[1]], a[2], a[3])

PositiveTerms ==
    /\ \A m \in voteReqs : m.term > 0
    /\ \A n \in Server : loop[n] = "started" => node[n].currentTerm > 0

VoteInv == VoteOnce /\ CastBacked /\ PositiveTerms

\* A step that casts no vote keeps every vote backed.
LEMMA BallotStepBacks ==
    ASSUME TypeOK, TypeOK', CastBacked, NEW n \in Server, BallotStep(n)
    PROVE  \A a \in cast : /\ a[2] > 0
                           /\ Backs(node'[a[1]], a[2], a[3])
                           /\ Backs(disk'[a[1]], a[2], a[3])
<1> SUFFICES ASSUME NEW a \in cast
             PROVE  a[2] > 0 /\ Backs(node'[a[1]], a[2], a[3]) /\ Backs(disk'[a[1]], a[2], a[3])
  OBVIOUS
<1>1. a[1] \in Server /\ a[2] \in Nat /\ a[3] \in Server /\ a[3] # Nil
  BY ServerAssumption DEF TypeOK
<1>2. a[2] > 0 /\ Backs(node[a[1]], a[2], a[3]) /\ Backs(disk[a[1]], a[2], a[3])
  BY DEF CastBacked
<1>3. CASE a[1] # n
  BY <1>1, <1>2, <1>3 DEF BallotStep
<1>4. CASE a[1] = n
  <2>1. /\ node[n].currentTerm \in Nat /\ node'[n].currentTerm \in Nat
    BY DEF TypeOK, NodeStates
  <2>2. BallotGrows(node[n], node'[n])
    BY DEF BallotStep
  <2>3. Backs(node'[n], a[2], a[3])
    BY <1>1, <1>2, <1>4, <2>1, <2>2 DEF BallotGrows, Backs
  <2>4. Backs(disk'[n], a[2], a[3])
    BY <1>2, <1>4, <2>3 DEF BallotStep, Backs
  <2>5. QED BY <1>2, <1>4, <2>3, <2>4
<1>5. QED BY <1>3, <1>4

\* A vote that the voter's new state records is cast at most once: an earlier
\* vote of that term is backed by the same votedFor.
LEMMA CastOneMore ==
    ASSUME TypeOK, TypeOK', VoteOnce, NEW n \in Server, NEW t \in Nat, NEW c \in Server,
           cast' = cast \cup {<<n, t, c>>},
           node'[n].currentTerm = t, node'[n].votedFor = c,
           \A a \in cast : Backs(node'[a[1]], a[2], a[3])
    PROVE  VoteOnce'
<1>1. cast \subseteq Server \X Nat \X Server
  BY DEF TypeOK
<1>2. ASSUME NEW a \in cast, a[1] = n, a[2] = t PROVE a[3] = c
  <2>1. Backs(node'[n], t, a[3])
    BY <1>2
  <2>2. QED BY <2>1 DEF Backs
<1>3. QED BY <1>1, <1>2 DEF VoteOnce

\* Every step keeps VoteInv.
LEMMA VoteInvStep ==
    ASSUME TypeOK, VoteInv, Next
    PROVE  VoteInv'
<1>1. TypeOK'
  BY LiveStep
<1>2. \A p \in Server : node[p].currentTerm \in Nat /\ node'[p].currentTerm \in Nat
  BY <1>1 DEF TypeOK, NodeStates
<1>3. ASSUME NEW n \in Server, BallotStep(n), cast' = cast, voteReqs' \subseteq voteReqs,
             \A p \in Server : loop'[p] = "started" => loop[p] = "started"
      PROVE  VoteInv'
  <2>1. CastBacked'
    BY <1>1, <1>3, BallotStepBacks DEF VoteInv, CastBacked
  <2>2. \A p \in Server : node'[p].currentTerm >= node[p].currentTerm
    BY <1>2, <1>3 DEF BallotStep, BallotGrows
  <2>3. PositiveTerms'
    BY <1>2, <1>3, <2>2 DEF VoteInv, PositiveTerms
  <2>4. VoteOnce'
    BY <1>3 DEF VoteInv, VoteOnce
  <2>5. QED BY <2>1, <2>3, <2>4 DEF VoteInv
<1>4. ASSUME NEW n \in Server, StartsElection(n), BallotStep(n),
             loop' = [loop EXCEPT ![n] = loop'[n]]
      PROVE  VoteInv'
  <2>1. /\ node'[n].currentTerm = node[n].currentTerm + 1 /\ node'[n].votedFor = n
        /\ disk'[n].currentTerm = node'[n].currentTerm /\ disk'[n].votedFor = n
        /\ cast' = cast \cup {<<n, node'[n].currentTerm, n>>}
    BY <1>4, StartsElectionStep
  <2>2. voteReqs' = voteReqs
    BY <1>4 DEF StartsElection, netVars
  <2>3. /\ \A a \in cast : /\ a[2] > 0
                           /\ Backs(node'[a[1]], a[2], a[3])
                           /\ Backs(disk'[a[1]], a[2], a[3])
    BY <1>1, <1>4, BallotStepBacks DEF VoteInv
  <2>4. node'[n].currentTerm > 0
    BY <1>2, <2>1
  <2>5. CastBacked'
    BY <2>1, <2>3, <2>4 DEF CastBacked, Backs
  <2>6. PositiveTerms'
    BY <1>4, <2>2, <2>4 DEF VoteInv, PositiveTerms, BallotStep, TypeOK
  <2>7. VoteOnce'
    <3>1. VoteOnce /\ node'[n].currentTerm \in Nat
      BY <1>2 DEF VoteInv
    <3>2. QED BY <1>1, <2>1, <2>3, <3>1, CastOneMore
  <2>8. QED BY <2>5, <2>6, <2>7 DEF VoteInv
<1>5. ASSUME NEW n \in Server, NEW m \in voteReqs, HandleVoteReq(n, m) PROVE VoteInv'
  <2>1. BallotStep(n)
    BY <1>5, HandleVoteReqStep
  <2>2. voteReqs' \subseteq voteReqs /\ loop' = [loop EXCEPT ![n] = "top"]
    BY <1>5 DEF HandleVoteReq, GoTo
  <2>3. \A p \in Server : loop'[p] = "started" => loop[p] = "started"
    BY <2>2 DEF TypeOK
  <2>4. CASE cast' = cast
    BY <1>3, <2>1, <2>2, <2>3, <2>4
  <2>5. CASE /\ cast' = cast \cup {<<n, m.term, m.src>>}
             /\ node'[n].currentTerm = m.term /\ node'[n].votedFor = m.src
             /\ disk'[n].currentTerm = m.term /\ disk'[n].votedFor = m.src
    <3>1. m.term > 0
      BY DEF VoteInv, PositiveTerms
    <3>2. \A a \in cast : /\ a[2] > 0
                          /\ Backs(node'[a[1]], a[2], a[3])
                          /\ Backs(disk'[a[1]], a[2], a[3])
      BY <1>1, <2>1, BallotStepBacks DEF VoteInv
    <3>3. CastBacked'
      BY <2>5, <3>1, <3>2 DEF CastBacked, Backs
    <3>4. \A p \in Server : node'[p].currentTerm >= node[p].currentTerm
      BY <1>2, <2>1 DEF BallotStep, BallotGrows
    <3>5. PositiveTerms'
      BY <1>2, <2>2, <2>3, <3>4 DEF VoteInv, PositiveTerms
    <3>6. VoteOnce'
      <4>1. VoteOnce /\ m.term \in Nat /\ m.src \in Server
        BY DEF VoteInv, TypeOK, VoteReq
      <4>2. QED BY <1>1, <2>5, <3>2, <4>1, CastOneMore
    <3>7. QED BY <3>3, <3>5, <3>6 DEF VoteInv
  <2>6. QED BY <1>5, <2>4, <2>5, HandleVoteReqStep
<1>6. ASSUME NEW n \in Server, RequestVotes(n) PROVE VoteInv'
  <2>1. /\ UNCHANGED <<node, disk, cast>> /\ node[n].currentTerm > 0
        /\ loop' = [loop EXCEPT ![n] = "top"]
        /\ voteReqs' = voteReqs \cup VoteReqsOf(n, node[n])
    BY <1>6 DEF RequestVotes, history, GoTo, VoteInv, PositiveTerms
  <2>2. \A m \in VoteReqsOf(n, node[n]) : m.term = node[n].currentTerm
    BY DEF VoteReqsOf
  <2>3. CastBacked'
    BY <2>1 DEF VoteInv, CastBacked
  <2>4. PositiveTerms'
    BY <2>1, <2>2 DEF VoteInv, PositiveTerms, TypeOK
  <2>5. QED BY <2>1, <2>3, <2>4 DEF VoteInv, VoteOnce
<1>7. ASSUME NEW n \in Server, Restart(n) PROVE VoteInv'
  <2>1. /\ node'[n] = Restored(disk[n]) /\ disk' = disk
        /\ \A p \in Server : p # n => node'[p] = node[p]
    BY <1>7, RestartStep
  <2>2. cast' = cast /\ voteReqs' = voteReqs /\ loop' = [loop EXCEPT ![n] = "top"]
    BY <1>7 DEF Restart, GoTo
  <2>3. disk[n] \in Disk /\ disk[n].currentTerm \in Nat
    BY DEF TypeOK, Disk
  <2>4. disk[n].currentTerm > 0 => /\ node'[n].currentTerm = disk[n].currentTerm
                                   /\ node'[n].votedFor = disk[n].votedFor
    BY <2>1, <2>3, RestoredType
  <2>5. ASSUME NEW a \in cast PROVE Backs(node'[a[1]], a[2], a[3])
    <3>1. a[1] \in Server /\ a[2] \in Nat
      BY DEF TypeOK
    <3>2. a[2] > 0 /\ Backs(node[a[1]], a[2], a[3]) /\ Backs(disk[a[1]], a[2], a[3])
      BY DEF VoteInv, CastBacked
    <3>3. QED BY <2>1, <2>3, <2>4, <3>1, <3>2 DEF Backs
  <2>6. CastBacked'
    BY <2>1, <2>2, <2>5 DEF VoteInv, CastBacked
  <2>7. PositiveTerms'
    BY <2>1, <2>2 DEF VoteInv, PositiveTerms, TypeOK
  <2>8. QED BY <2>2, <2>6, <2>7 DEF VoteInv, VoteOnce
<1>8. ASSUME NEW n \in Server, FollowerTimeout(n) \/ CandidateTimeout(n) PROVE VoteInv'
  <2>1. StartsElection(n) /\ BallotStep(n)
    BY <1>8, FollowerTimeoutStep, CandidateTimeoutStep DEF FollowerTimeout, CandidateTimeout
  <2>2. loop' = [loop EXCEPT ![n] = loop'[n]]
    BY <1>8 DEF FollowerTimeout, CandidateTimeout, GoTo, TypeOK
  <2>3. QED BY <1>4, <2>1, <2>2
<1>9. ASSUME NEW n \in Server,
             \/ ApplyLog(n) \/ EnterSelect(n) \/ BecomeConnected(n) \/ TimeoutUnconnected(n)
             \/ \E r \in voteResps : CountVote(n, r) \/ DrainVote(n, r)
             \/ BecomeLeader(n) \/ Heartbeat(n) \/ HandleAEResp(n)
             \/ \E m \in DOMAIN aeRpcs : HandleAEReq(n, m) \/ ReceiveAEResp(n, m)
      PROVE  VoteInv'
  <2>1. BallotStep(n)
    BY <1>9, ApplyLogStep, EnterSelectStep, BecomeConnectedStep, TimeoutUnconnectedStep,
       CountVoteStep, DrainVoteStep, BecomeLeaderStep, HeartbeatStep, HandleAEReqStep,
       ReceiveAERespStep, HandleAERespStep
  <2>2. cast' = cast /\ voteReqs' = voteReqs
    BY <1>9 DEF ApplyLog, EnterSelect, BecomeConnected, TimeoutUnconnected, CountVote, DrainVote,
       BecomeLeader, Heartbeat, HandleAEReq, ReceiveAEResp, HandleAEResp, netVars, history
  <2>3. loop' = loop \/ \E l \in Stages \ {"started"} : loop' = [loop EXCEPT ![n] = l]
    <3>1. node[n].role \in Stages \ {"started"}
      BY DEF TypeOK, NodeStates, Stages, Follower, Candidate, Leader
    <3>2. "top" \in Stages \ {"started"} /\ "won" \in Stages \ {"started"}
      BY DEF Stages
    <3>3. QED
      BY <1>9, <3>1, <3>2 DEF ApplyLog, EnterSelect, BecomeConnected, TimeoutUnconnected,
         CountVote, DrainVote, BecomeLeader, Heartbeat, HandleAEReq, ReceiveAEResp,
         HandleAEResp, GoTo
  <2>4. \A p \in Server : loop'[p] = "started" => loop[p] = "started"
    BY <2>3 DEF TypeOK
  <2>5. QED BY <1>3, <2>1, <2>2, <2>4
<1>10. QED
  BY <1>5, <1>6, <1>7, <1>8, <1>9 DEF Next, RunLoop

\* The invariant holds in every reachable state.
LEMMA VoteInit == Init => VoteInv
  BY DEF Init, VoteInv, VoteOnce, CastBacked, PositiveTerms

LEMMA VoteInvariant == Spec => []VoteInv
<1>1. Init => VoteInv
  BY VoteInit
<1>2. TypeOK /\ VoteInv /\ [Next]_vars => VoteInv'
  <2>1. CASE TypeOK /\ VoteInv /\ Next
    BY <2>1, VoteInvStep
  <2>2. CASE UNCHANGED vars
    BY <2>2 DEF vars, nodeVars, netVars, history, VoteInv, VoteOnce, CastBacked, PositiveTerms, Backs
  <2>3. QED BY <2>1, <2>2
<1>3. QED BY <1>1, <1>2, TypeCorrect, PTL DEF Spec

\* VoteOnce: no server votes for two candidates in one term, however many
\* servers there are, whatever is lost or reordered and however often servers
\* crash between any two steps.
THEOREM VotesOnce == Spec => []VoteOnce
<1>1. VoteInv => VoteOnce
  BY DEF VoteInv
<1>2. QED BY <1>1, VoteInvariant, PTL

\* VoteDurable: persistState has saved every vote, or a newer term, by the time
\* the vote is given out.
THEOREM VotesDurable == Spec => []VoteDurable
<1>1. VoteInv => VoteDurable
  BY DEF VoteInv, CastBacked, Backs, VoteDurable
<1>2. QED BY <1>1, VoteInvariant, PTL

-----------------------------------------------------------------------------
(***************************************************************************)
(* What a candidate counts, that a term has at most one winner, and that   *)
(* the elections implement Voting.                                         *)
(***************************************************************************)

\* A vote of v for n in term t may still arrive: it was asked for and not yet
\* answered, or it was given and not yet counted.
Due(n, v, t) ==
    \/ \E m \in voteReqs  : CallerAlive(m) /\ m.src = n /\ m.dst = v /\ m.term = t
    \/ \E r \in voteResps : r.granted /\ r.dst = n /\ r.src = v /\ r.term = t

(***************************************************************************)
(* The messages: a live process has at most one call per peer and term out *)
(* and no call beside the vote that answers it, and a vote on its way was  *)
(* cast.                                                                   *)
(***************************************************************************)
SameCall(m, k) == m.src = k.src /\ m.dst = k.dst /\ m.term = k.term

Answers(r, m) == m.src = r.dst /\ m.dst = r.src /\ m.term = r.term

MsgInv ==
    /\ \A m \in voteReqs : m.epoch <= epoch[m.src]
    /\ \A m, k \in voteReqs : CallerAlive(m) /\ CallerAlive(k) /\ SameCall(m, k) => m = k
    /\ \A r \in voteResps : r.granted => <<r.src, r.term, r.dst>> \in cast
    /\ \A r \in voteResps, m \in voteReqs : r.granted /\ CallerAlive(m) => ~Answers(r, m)

(***************************************************************************)
(* The count: what is still due is of a term the node has reached, comes   *)
(* from a voter that is not counted yet if it is of the term of the        *)
(* election, and could be counted only in that term.  A node may go on as  *)
(* a candidate in a newer term than it started its election in, and it may *)
(* ask for votes in a newer term than it is a candidate in; never both.    *)
(***************************************************************************)
DueInv(n) ==
    \A v \in Server, t \in Nat : Due(n, v, t) =>
        /\ t <= node[n].currentTerm
        /\ loop[n] = "started" => t < node[n].currentTerm
        /\ t = tally[n].term => v \notin tally[n].voters
        /\ t = node[n].currentTerm /\ (loop[n] = Candidate \/ node[n].role = Candidate)
             => t = tally[n].term

StartedInv(n) ==
    loop[n] = "started" =>
        /\ tally[n].voters = {n}
        /\ node[n].role = Candidate => node[n].currentTerm = tally[n].term

CountInv ==
    \A n \in Server : tally[n].term <= node[n].currentTerm /\ StartedInv(n) /\ DueInv(n)

EInv == VotesAreVoters /\ MsgInv /\ CountInv

-----------------------------------------------------------------------------
\* The messages after a step that only takes some away.
LEMMA MsgShrinks ==
    ASSUME MsgInv, voteReqs' \subseteq voteReqs, voteResps' \subseteq voteResps,
           epoch' = epoch, cast \subseteq cast'
    PROVE  /\ MsgInv'
           /\ \A n, v, t : Due(n, v, t)' => Due(n, v, t)
<1>1. \A m : CallerAlive(m)' <=> CallerAlive(m)
  BY DEF CallerAlive
<1>2. MsgInv'
  BY <1>1 DEF MsgInv, SameCall, Answers
<1>3. \A n, v, t : Due(n, v, t)' => Due(n, v, t)
  BY <1>1 DEF Due
<1>4. QED BY <1>2, <1>3

(***************************************************************************)
(* A step of n after which nothing more is due than before and that starts *)
(* no candidacy keeps the count.                                           *)
(***************************************************************************)
CalmStep(n) ==
    /\ BallotStep(n)
    /\ \A p \in Server \ {n} : loop'[p] = loop[p]
    /\ node'[n].role = Candidate => node[n].role = Candidate
    /\ loop'[n] = Candidate => loop[n] = Candidate \/ node[n].role = Candidate
    /\ loop'[n] = "started" => /\ loop[n] = "started"
                               /\ node'[n].role = Candidate =>
                                     node'[n].currentTerm = node[n].currentTerm

\* The count of the nodes that do not move.
LEMMA OthersKeep ==
    ASSUME CountInv, NEW p \in Server,
           node'[p] = node[p], loop'[p] = loop[p], tally'[p] = tally[p],
           \A v \in Server, t \in Nat : Due(p, v, t)' => Due(p, v, t)
    PROVE  tally'[p].term <= node'[p].currentTerm /\ StartedInv(p)' /\ DueInv(p)'
<1>1. tally[p].term <= node[p].currentTerm /\ StartedInv(p) /\ DueInv(p)
  BY DEF CountInv
<1>2. DueInv(p)'
  BY <1>1 DEF DueInv
<1>3. QED BY <1>1, <1>2 DEF StartedInv

\* The count of a node after a calm step of it.
LEMMA CalmKeeps ==
    ASSUME TypeOK, TypeOK', CountInv, NEW n \in Server, CalmStep(n), tally' = tally,
           \A p, v \in Server, t \in Nat : Due(p, v, t)' => Due(p, v, t)
    PROVE  CountInv'
<1>1. ASSUME NEW p \in Server, p # n
      PROVE  tally'[p].term <= node'[p].currentTerm /\ StartedInv(p)' /\ DueInv(p)'
  BY <1>1, OthersKeep DEF CalmStep, BallotStep
<1>2. /\ node[n].currentTerm \in Nat /\ node'[n].currentTerm \in Nat /\ tally[n].term \in Nat
      /\ node'[n].currentTerm >= node[n].currentTerm
  BY DEF CalmStep, BallotStep, BallotGrows, TypeOK, NodeStates
<1>3. tally[n].term <= node[n].currentTerm /\ StartedInv(n) /\ DueInv(n)
  BY DEF CountInv
<1>4. tally'[n].term <= node'[n].currentTerm
  BY <1>2, <1>3
<1>5. StartedInv(n)'
  BY <1>3 DEF StartedInv, CalmStep
<1>6. DueInv(n)'
  <2> SUFFICES ASSUME NEW v \in Server, NEW t \in Nat, Due(n, v, t)'
               PROVE  /\ t <= node'[n].currentTerm
                      /\ loop'[n] = "started" => t < node'[n].currentTerm
                      /\ t = tally'[n].term => v \notin tally'[n].voters
                      /\ t = node'[n].currentTerm /\ (loop'[n] = Candidate \/ node'[n].role = Candidate)
                           => t = tally'[n].term
    BY DEF DueInv
  <2>1. Due(n, v, t)
    OBVIOUS
  <2>2. /\ t <= node[n].currentTerm
        /\ loop[n] = "started" => t < node[n].currentTerm
        /\ t = tally[n].term => v \notin tally[n].voters
        /\ t = node[n].currentTerm /\ (loop[n] = Candidate \/ node[n].role = Candidate)
             => t = tally[n].term
    BY <1>3, <2>1 DEF DueInv
  <2>3. QED BY <1>2, <2>2 DEF CalmStep
<1>7. QED BY <1>1, <1>4, <1>5, <1>6 DEF CountInv

-----------------------------------------------------------------------------
(***************************************************************************)
(* One lemma per group of actions: EInv is kept.                           *)
(***************************************************************************)
\* The steps that neither send a vote message nor count one.
LEMMA CalmActions ==
    ASSUME TypeOK, EInv, NEW n \in Server,
           \/ ApplyLog(n) \/ EnterSelect(n) \/ BecomeConnected(n) \/ TimeoutUnconnected(n)
           \/ \E r \in voteResps : DrainVote(n, r)
           \/ Heartbeat(n) \/ HandleAEResp(n)
           \/ \E m \in DOMAIN aeRpcs : HandleAEReq(n, m) \/ ReceiveAEResp(n, m)
    PROVE  EInv'
<1>1. TypeOK' /\ BallotStep(n)
  BY ApplyLogStep, EnterSelectStep, BecomeConnectedStep, TimeoutUnconnectedStep, DrainVoteStep,
     HeartbeatStep, HandleAEReqStep, ReceiveAERespStep, HandleAERespStep
<1>2. \/ SameBallot(node[n], node'[n])
      \/ /\ node'[n].votes = node[n].votes /\ node'[n].role = Follower
  BY ApplyLogStep, EnterSelectStep, BecomeConnectedStep, TimeoutUnconnectedStep, DrainVoteStep,
     HeartbeatStep, HandleAEReqStep, HandleAERespStep DEF QuietStep, ReceiveAEResp, SameBallot
<1>3. /\ epoch' = epoch /\ voteReqs' = voteReqs /\ voteResps' \subseteq voteResps
      /\ cast' = cast /\ tally' = tally
  BY DEF ApplyLog, EnterSelect, BecomeConnected, TimeoutUnconnected, DrainVote,
     Heartbeat, HandleAEReq, ReceiveAEResp, HandleAEResp, netVars, history
<1>4. \/ loop' = loop
      \/ loop' = [loop EXCEPT ![n] = "top"]
      \/ loop' = [loop EXCEPT ![n] = node[n].role]
  BY DEF ApplyLog, EnterSelect, BecomeConnected, TimeoutUnconnected, DrainVote,
     Heartbeat, HandleAEReq, ReceiveAEResp, HandleAEResp, GoTo
<1>5. loop \in [Server -> Stages] /\ node[n].role \in {Follower, Candidate, Leader}
  BY DEF TypeOK, NodeStates
<1>6. CalmStep(n)
  BY <1>1, <1>2, <1>4, <1>5 DEF CalmStep, SameBallot, Follower, Candidate, Leader
<1>7. MsgInv' /\ \A p, v, t : Due(p, v, t)' => Due(p, v, t)
  BY <1>3, MsgShrinks DEF EInv
<1>8. CountInv'
  BY <1>1, <1>3, <1>6, <1>7, CalmKeeps DEF EInv
<1>9. VotesAreVoters'
  BY <1>1, <1>2, <1>3 DEF EInv, VotesAreVoters, BallotStep, SameBallot
<1>10. QED BY <1>7, <1>8, <1>9 DEF EInv

\* handleRequestToVote: the request is replaced by its answer.
LEMMA HandleVoteReqCounts ==
    ASSUME TypeOK, EInv, NEW n \in Server, NEW m \in voteReqs, HandleVoteReq(n, m)
    PROVE  EInv'
<1>1. /\ TypeOK' /\ BallotStep(n)
      /\ node'[n].votes = node[n].votes
      /\ node'[n].role \in {node[n].role, Follower}
      /\ \/ cast' = cast /\ \A r \in voteResps' \ voteResps : ~r.granted
         \/ cast' = cast \cup {<<n, m.term, m.src>>}
      /\ \A r \in voteResps' \ voteResps :
            CallerAlive(m) /\ r.src = n /\ r.dst = m.src /\ (r.granted => r.term = m.term)
  BY HandleVoteReqStep
<1>2. /\ m.dst = n /\ voteReqs' = voteReqs \ {m} /\ epoch' = epoch /\ tally' = tally
      /\ loop' = [loop EXCEPT ![n] = "top"]
  BY DEF HandleVoteReq, GoTo
<1>3. \A k : CallerAlive(k)' <=> CallerAlive(k)
  BY <1>2 DEF CallerAlive
<1>4. ASSUME NEW r \in voteResps', r.granted
      PROVE  \/ r \in voteResps
             \/ /\ CallerAlive(m) /\ r.src = n /\ r.dst = m.src /\ r.term = m.term
                /\ <<r.src, r.term, r.dst>> \in cast'
  BY <1>1, <1>4
<1>5. \A p, v, t : Due(p, v, t)' => Due(p, v, t)
  BY <1>2, <1>3, <1>4 DEF Due
<1>6. CalmStep(n)
  BY <1>1, <1>2 DEF CalmStep, TypeOK, Candidate, Follower
<1>7. CountInv'
  BY <1>1, <1>2, <1>5, <1>6, CalmKeeps DEF EInv
<1>8. MsgInv'
  <2>1. \A r \in voteResps' : r.granted => <<r.src, r.term, r.dst>> \in cast'
    BY <1>1, <1>4 DEF EInv, MsgInv
  <2>2. \A k \in voteReqs' : k.epoch <= epoch'[k.src]
    BY <1>2 DEF EInv, MsgInv
  <2>3. \A j, k \in voteReqs' : CallerAlive(j)' /\ CallerAlive(k)' /\ SameCall(j, k) => j = k
    BY <1>2, <1>3 DEF EInv, MsgInv
  <2>4. ASSUME NEW r \in voteResps', NEW k \in voteReqs', r.granted, CallerAlive(k)', Answers(r, k)
        PROVE  FALSE
    <3>1. k \in voteReqs /\ k # m /\ CallerAlive(k)
      BY <1>2, <1>3, <2>4
    <3>2. CASE r \in voteResps
      BY <2>4, <3>1, <3>2 DEF EInv, MsgInv
    <3>3. CASE CallerAlive(m) /\ r.src = n /\ r.dst = m.src /\ r.term = m.term
      BY <1>2, <2>4, <3>1, <3>3 DEF EInv, MsgInv, SameCall, Answers
    <3>4. QED BY <1>4, <2>4, <3>2, <3>3
  <2>5. QED BY <2>1, <2>2, <2>3, <2>4 DEF MsgInv, SameCall, Answers
<1>9. VotesAreVoters'
  BY <1>1, <1>2 DEF EInv, VotesAreVoters, BallotStep
<1>10. QED BY <1>7, <1>8, <1>9 DEF EInv

\* sendRequestVoteRPCs: the votes it asks for are of a term nothing was due in.
LEMMA RequestVotesCounts ==
    ASSUME TypeOK, EInv, NEW n \in Server, RequestVotes(n)
    PROVE  EInv'
<1> DEFINE R == VoteReqsOf(n, node[n])
           T == node[n].currentTerm
<1>1. /\ loop[n] = "started" /\ voteReqs' = voteReqs \cup R /\ voteResps' = voteResps
      /\ UNCHANGED <<node, epoch, cast, tally>> /\ loop' = [loop EXCEPT ![n] = "top"]
  BY DEF RequestVotes, GoTo, history
<1>2. /\ \A m \in R : /\ m.src = n /\ m.term = T /\ m.epoch = epoch[n]
                      /\ m.dst \in Server \ {n}
      /\ \A m, k \in R : m.dst = k.dst => m = k
  BY DEF VoteReqsOf, Peers
<1> HIDE DEF R
<1>3. \A m : CallerAlive(m)' <=> CallerAlive(m)
  BY <1>1 DEF CallerAlive
<1>4. /\ T \in Nat /\ tally[n].term \in Nat /\ epoch[n] \in Nat /\ T <= T
      /\ epoch[n] <= epoch[n]
  BY DEF TypeOK, NodeStates, Epochs
<1>5. /\ tally[n].voters = {n} /\ (node[n].role = Candidate => T = tally[n].term)
      /\ tally[n].term <= T /\ DueInv(n)
  BY <1>1 DEF EInv, CountInv, StartedInv
<1>6. \A v \in Server, t \in Nat : Due(n, v, t) => t < T
  BY <1>1, <1>5 DEF DueInv
<1>7. /\ \A m \in voteReqs : CallerAlive(m) /\ m.src = n => m.term # T
      /\ \A r \in voteResps : r.granted /\ r.dst = n => r.term # T
  <2>1. /\ \A m \in voteReqs : m.dst \in Server /\ m.term \in Nat
        /\ \A r \in voteResps : r.src \in Server /\ r.term \in Nat
    BY DEF TypeOK, VoteReq, VoteResp
  <2>2. ASSUME NEW m \in voteReqs, CallerAlive(m), m.src = n PROVE m.term # T
    <3>1. Due(n, m.dst, m.term)
      BY <2>2 DEF Due
    <3>2. QED BY <1>4, <1>6, <2>1, <3>1
  <2>3. ASSUME NEW r \in voteResps, r.granted, r.dst = n PROVE r.term # T
    <3>1. Due(n, r.src, r.term)
      BY <2>3 DEF Due
    <3>2. QED BY <1>4, <1>6, <2>1, <3>1
  <2>4. QED BY <2>2, <2>3
<1>8. MsgInv'
  <2>1. \A m \in voteReqs' : m.epoch <= epoch'[m.src]
    BY <1>1, <1>2, <1>4 DEF EInv, MsgInv
  <2>2. \A m, k \in voteReqs' : CallerAlive(m)' /\ CallerAlive(k)' /\ SameCall(m, k) => m = k
    BY <1>1, <1>2, <1>3, <1>7 DEF EInv, MsgInv, SameCall
  <2>3. \A r \in voteResps', m \in voteReqs' : r.granted /\ CallerAlive(m)' => ~Answers(r, m)
    BY <1>1, <1>2, <1>3, <1>7 DEF EInv, MsgInv, Answers
  <2>4. QED BY <1>1, <2>1, <2>2, <2>3 DEF EInv, MsgInv, SameCall, Answers
<1>9. ASSUME NEW p \in Server, NEW v \in Server, NEW t \in Nat, Due(p, v, t)'
      PROVE  Due(p, v, t) \/ (p = n /\ v # n /\ t = T)
  BY <1>1, <1>2, <1>3, <1>9 DEF Due
<1>10. ASSUME NEW p \in Server, p # n
       PROVE  tally'[p].term <= node'[p].currentTerm /\ StartedInv(p)' /\ DueInv(p)'
  BY <1>1, <1>9, <1>10, OthersKeep DEF EInv
<1>11. loop'[n] = "top"
  BY <1>1 DEF TypeOK
<1>12. DueInv(n)'
  <2> SUFFICES ASSUME NEW v \in Server, NEW t \in Nat, Due(n, v, t)'
               PROVE  /\ t <= T
                      /\ t = tally[n].term => v \notin tally[n].voters
                      /\ t = T /\ node[n].role = Candidate => t = tally[n].term
    BY <1>1, <1>11 DEF DueInv, Candidate
  <2>1. CASE Due(n, v, t)
    BY <1>5, <2>1 DEF DueInv
  <2>2. CASE v # n /\ t = T
    BY <1>4, <1>5, <2>2
  <2>3. QED BY <1>9, <2>1, <2>2
<1>13. StartedInv(n)' /\ tally'[n].term <= node'[n].currentTerm
  BY <1>1, <1>5, <1>11 DEF StartedInv
<1>14. CountInv'
  BY <1>10, <1>12, <1>13 DEF CountInv
<1>15. VotesAreVoters'
  BY <1>1 DEF EInv, VotesAreVoters
<1>16. QED BY <1>8, <1>14, <1>15 DEF EInv

\* startElection: nothing is due in the new term, and the node counts itself.
LEMMA StartsElectionCounts ==
    ASSUME TypeOK, TypeOK', EInv, NEW n \in Server, StartsElection(n),
           loop' = [loop EXCEPT ![n] = loop'[n]]
    PROVE  EInv'
<1>1. /\ BallotStep(n)
      /\ node'[n].currentTerm = node[n].currentTerm + 1
      /\ node'[n].votes = 1
      /\ tally' = [tally EXCEPT ![n] = [term |-> node'[n].currentTerm, voters |-> {n}]]
      /\ cast' = cast \cup {<<n, node'[n].currentTerm, n>>}
  BY StartsElectionStep
<1>2. /\ node[n].currentTerm \in Nat /\ node'[n].currentTerm \in Nat
      /\ tally'[n] = [term |-> node'[n].currentTerm, voters |-> {n}]
      /\ \A p \in Server : p # n => tally'[p] = tally[p] /\ loop'[p] = loop[p]
  BY <1>1, SMTT(40) DEF TypeOK, NodeStates
<1>3. epoch' = epoch /\ voteReqs' = voteReqs /\ voteResps' = voteResps
  BY DEF StartsElection, netVars
<1>4. MsgInv' /\ \A p, v, t : Due(p, v, t)' => Due(p, v, t)
  BY <1>1, <1>3, MsgShrinks DEF EInv
<1>5. ASSUME NEW p \in Server, p # n
      PROVE  tally'[p].term <= node'[p].currentTerm /\ StartedInv(p)' /\ DueInv(p)'
  BY <1>1, <1>2, <1>4, <1>5, OthersKeep DEF EInv, BallotStep
<1>6. StartedInv(n)' /\ tally'[n].term <= node'[n].currentTerm
  BY <1>2 DEF StartedInv
<1>7. \A v \in Server, t \in Nat : Due(n, v, t)' => t < node'[n].currentTerm
  BY <1>1, <1>2, <1>4 DEF EInv, CountInv, DueInv
<1>8. DueInv(n)'
  BY <1>2, <1>7 DEF DueInv
<1>9. VotesAreVoters'
  <2>1. node'[n].votes = Cardinality(tally'[n].voters)
    <3>1. Cardinality({n}) = 1
      BY FS_Singleton
    <3>2. tally'[n].voters = {n}
      BY <1>2
    <3>3. QED BY <1>1, <3>1, <3>2
  <2>2. \A v \in tally'[n].voters : <<v, tally'[n].term, n>> \in cast'
    BY <1>1, <1>2
  <2>3. \A p \in Server : p # n => node'[p] = node[p] /\ tally'[p] = tally[p]
    BY <1>1, <1>2 DEF BallotStep
  <2>4. QED BY <1>1, <2>1, <2>2, <2>3 DEF EInv, VotesAreVoters
<1>10. QED BY <1>4, <1>5, <1>6, <1>8, <1>9 DEF EInv, CountInv

\* What CountVote does to the history: a vote of this term from someone due.
LEMMA CountVoteTally ==
    ASSUME TypeOK, NEW n \in Server, NEW r \in voteResps, CountVote(n, r)
    PROVE  /\ \A p \in Server : p # n => tally'[p] = tally[p]
           /\ tally'[n].term = tally[n].term
           /\ r.term > node[n].currentTerm =>
                 /\ node'[n].currentTerm = r.term /\ node'[n].role = Follower
                 /\ node'[n].votes = 0 /\ tally'[n].voters = {}
           /\ r.term = node[n].currentTerm /\ r.granted =>
                 /\ node'[n].votes = node[n].votes + 1
                 /\ tally'[n].voters = tally[n].voters \cup {r.src}
           /\ r.term < node[n].currentTerm \/ (r.term = node[n].currentTerm /\ ~r.granted) =>
                 node'[n].votes = node[n].votes /\ tally'[n].voters = tally[n].voters
           /\ r.term <= node[n].currentTerm =>
                 node'[n].currentTerm = node[n].currentTerm /\ node'[n].role = node[n].role
           /\ PlainState(node[n]) => PlainState(node'[n])
           /\ disk' = disk
<1>1. /\ node[n] \in NodeStates /\ node[n].currentTerm \in Nat
      /\ r.term \in Nat /\ r.src \in Server /\ r.granted \in BOOLEAN
  BY DEF TypeOK, NodeStates, VoteResp
<1>2. Update(n, UpdateElection(node[n], r)) /\ UpdateElection(node[n], r) \in NodeStates
  BY <1>1, UpdateElectionType DEF CountVote
<1>3. node'[n] = UpdateElection(node[n], r) /\ disk' = disk
  BY <1>2, UpdateStep
<1> DEFINE vs == CASE r.term > node[n].currentTerm -> {}
                   [] r.term = node[n].currentTerm /\ r.granted -> tally[n].voters \cup {r.src}
                   [] OTHER -> tally[n].voters
<1>4. tally' = [tally EXCEPT ![n].voters = vs] /\ tally \in [Server -> [term : Nat, voters : SUBSET Server]]
  BY DEF CountVote, TypeOK
<1>5. /\ r.term > node[n].currentTerm => vs = {}
      /\ r.term = node[n].currentTerm /\ r.granted => vs = tally[n].voters \cup {r.src}
      /\ r.term < node[n].currentTerm \/ (r.term = node[n].currentTerm /\ ~r.granted)
            => vs = tally[n].voters
  BY <1>1
<1> HIDE DEF vs
<1>6. /\ \A p \in Server : p # n => tally'[p] = tally[p]
      /\ tally'[n].term = tally[n].term /\ tally'[n].voters = vs
  BY <1>4
<1>7. QED BY <1>1, <1>3, <1>5, <1>6, UpdateElectionEffect

\* updateElection: a vote that counts is due, hence not counted before.
LEMMA CountVoteCounts ==
    ASSUME TypeOK, EInv, NEW n \in Server, NEW r \in voteResps, CountVote(n, r)
    PROVE  /\ EInv'
           /\ r.term = node[n].currentTerm /\ r.granted => r.term = tally[n].term
<1> DEFINE T == node[n].currentTerm
<1>1. TypeOK' /\ BallotStep(n)
  BY CountVoteStep
<1>2. /\ loop[n] = Candidate /\ r.dst = n /\ cast' = cast /\ epoch' = epoch
      /\ voteReqs' = voteReqs /\ voteResps' = voteResps \ {r}
      /\ loop' = [loop EXCEPT ![n] = IF WinsElection(node[n], r) THEN "won" ELSE "top"]
  BY DEF CountVote, GoTo
<1>3. /\ T \in Nat /\ node'[n].currentTerm \in Nat /\ r.term \in Nat /\ r.src \in Server
      /\ r.granted \in BOOLEAN /\ tally[n].term \in Nat /\ tally[n].voters \in SUBSET Server
  BY <1>1 DEF TypeOK, NodeStates, VoteResp
<1>4. MsgInv' /\ \A p, v, t : Due(p, v, t)' => Due(p, v, t)
  BY <1>2, MsgShrinks DEF EInv
<1>5. tally[n].term <= T /\ DueInv(n) /\ VotesAreVoters /\ MsgInv
  BY DEF EInv, CountInv
<1>6. ASSUME r.granted PROVE Due(n, r.src, r.term)
  BY <1>2, <1>6 DEF Due
<1>7. ASSUME r.term = T, r.granted PROVE r.term = tally[n].term /\ r.src \notin tally[n].voters
  BY <1>2, <1>3, <1>5, <1>6, <1>7 DEF DueInv
<1>8. ASSUME r.granted PROVE ~Due(n, r.src, r.term)'
  <2>1. \A m \in voteReqs : CallerAlive(m) => ~Answers(r, m)
    BY <1>5, <1>8 DEF MsgInv
  <2>2. \A k \in voteResps : k.granted /\ k.dst = n /\ k.src = r.src /\ k.term = r.term => k = r
    <3> SUFFICES ASSUME NEW k \in voteResps, k.granted, k.dst = n, k.src = r.src, k.term = r.term
                 PROVE  k = r
      OBVIOUS
    <3>1. k \in VoteResp /\ r \in VoteResp
      BY DEF TypeOK
    <3>2. k.granted = r.granted
      BY <1>8, <3>1 DEF VoteResp
    <3>3. /\ k = [src |-> k.src, dst |-> k.dst, term |-> k.term, granted |-> k.granted]
          /\ r = [src |-> r.src, dst |-> r.dst, term |-> r.term, granted |-> r.granted]
      BY <3>1 DEF VoteResp
    <3>4. QED BY <1>2, <3>2, <3>3
  <2>3. QED BY <1>2, <2>1, <2>2 DEF Due, Answers, CallerAlive
<1>9. ASSUME NEW p \in Server, p # n
      PROVE  tally'[p].term <= node'[p].currentTerm /\ StartedInv(p)' /\ DueInv(p)'
  <2>1. node'[p] = node[p] /\ loop'[p] = loop[p]
    BY <1>1, <1>2, <1>9 DEF BallotStep, TypeOK
  <2>2. tally'[p] = tally[p]
    BY <1>9, CountVoteTally
  <2>3. QED BY <1>4, <2>1, <2>2, OthersKeep DEF EInv
<1>10. loop'[n] \in {"won", "top"}
  BY <1>2 DEF TypeOK
<1>11. /\ tally'[n].term = tally[n].term
       /\ node'[n].currentTerm >= T
       /\ node'[n].role = Candidate => node'[n].currentTerm = T /\ node[n].role = Candidate
       /\ \/ tally'[n].voters \subseteq tally[n].voters
          \/ r.term = T /\ r.granted /\ tally'[n].voters = tally[n].voters \cup {r.src}
  <2>1. node'[n].currentTerm >= T
    BY <1>1 DEF BallotStep, BallotGrows
  <2>2. CASE r.term > T
    BY <2>1, <2>2, CountVoteTally DEF Follower, Candidate
  <2>3. CASE r.term <= T
    BY <1>3, <2>1, <2>3, CountVoteTally
  <2>4. QED BY <1>3, <2>2, <2>3
<1>12. DueInv(n)'
  <2> SUFFICES ASSUME NEW v \in Server, NEW t \in Nat, Due(n, v, t)'
               PROVE  /\ t <= node'[n].currentTerm
                      /\ t = tally[n].term => v \notin tally'[n].voters
                      /\ t = node'[n].currentTerm /\ node'[n].role = Candidate => t = tally[n].term
    BY <1>10, <1>11 DEF DueInv, Candidate
  <2>1. Due(n, v, t)
    BY <1>4
  <2>2. /\ t <= T /\ (t = tally[n].term => v \notin tally[n].voters)
        /\ t = T => t = tally[n].term
    BY <1>2, <1>5, <2>1 DEF DueInv
  <2>3. r.term = T /\ r.granted /\ t = tally[n].term => v # r.src
    BY <1>7, <1>8
  <2>4. QED BY <1>3, <1>11, <2>2, <2>3
<1>13. StartedInv(n)' /\ tally'[n].term <= node'[n].currentTerm
  BY <1>3, <1>5, <1>10, <1>11 DEF StartedInv
<1>14. CountInv'
  BY <1>9, <1>12, <1>13 DEF CountInv
<1>15. VotesAreVoters'
  <2>1. ASSUME NEW p \in Server, p # n
        PROVE  node'[p].votes = Cardinality(tally'[p].voters)
               /\ \A v \in tally'[p].voters : <<v, tally'[p].term, p>> \in cast'
    <3>1. node'[p] = node[p] /\ tally'[p] = tally[p]
      BY <1>1, <2>1, CountVoteTally DEF BallotStep
    <3>2. QED BY <1>2, <1>5, <3>1 DEF VotesAreVoters
  <2>2. /\ node[n].votes = Cardinality(tally[n].voters)
        /\ \A v \in tally[n].voters : <<v, tally[n].term, n>> \in cast
    BY <1>5 DEF VotesAreVoters
  <2>3. CASE r.term = T /\ r.granted
    <3>1. node'[n].votes = node[n].votes + 1 /\ tally'[n].voters = tally[n].voters \cup {r.src}
      BY <2>3, CountVoteTally
    <3>2. IsFiniteSet(tally[n].voters)
      BY <1>3, ServerAssumption, FS_Subset
    <3>3. Cardinality(tally[n].voters \cup {r.src}) = Cardinality(tally[n].voters) + 1
      BY <1>7, <2>3, <3>2, FS_AddElement
    <3>4. <<r.src, tally[n].term, n>> \in cast
      BY <1>2, <1>5, <1>7, <2>3 DEF MsgInv
    <3>5. QED BY <1>2, <1>11, <2>1, <2>2, <3>1, <3>3, <3>4 DEF VotesAreVoters
  <2>4. CASE r.term > T
    <3>1. node'[n].votes = 0 /\ tally'[n].voters = {}
      BY <2>4, CountVoteTally
    <3>2. QED BY <2>1, <3>1, FS_EmptySet DEF VotesAreVoters
  <2>5. CASE r.term < T \/ (r.term = T /\ ~r.granted)
    <3>1. node'[n].votes = node[n].votes /\ tally'[n].voters = tally[n].voters
      BY <2>5, CountVoteTally
    <3>2. QED BY <1>2, <1>11, <2>1, <2>2, <3>1 DEF VotesAreVoters
  <2>6. QED BY <1>3, <2>3, <2>4, <2>5
<1>16. QED BY <1>4, <1>7, <1>14, <1>15 DEF EInv

\* winElection: the count starts anew at zero.
LEMMA BecomeLeaderCounts ==
    ASSUME TypeOK, EInv, NEW n \in Server, BecomeLeader(n)
    PROVE  EInv'
<1>1. /\ TypeOK' /\ BallotStep(n) /\ node'[n].currentTerm = node[n].currentTerm
      /\ node'[n].role = Leader /\ node'[n].votes = 0
  BY BecomeLeaderStep
<1>2. /\ loop' = [loop EXCEPT ![n] = "top"] /\ tally' = [tally EXCEPT ![n].voters = {}]
      /\ UNCHANGED <<epoch, voteReqs, voteResps, cast>>
  BY DEF BecomeLeader, GoTo
<1>3. /\ loop'[n] = "top" /\ tally'[n].voters = {} /\ tally'[n].term = tally[n].term
      /\ \A p \in Server : p # n => tally'[p] = tally[p] /\ loop'[p] = loop[p]
  BY <1>2 DEF TypeOK
<1>4. MsgInv' /\ \A p, v, t : Due(p, v, t)' => Due(p, v, t)
  BY <1>2, MsgShrinks DEF EInv
<1>5. ASSUME NEW p \in Server, p # n
      PROVE  tally'[p].term <= node'[p].currentTerm /\ StartedInv(p)' /\ DueInv(p)'
  BY <1>1, <1>3, <1>4, <1>5, OthersKeep DEF EInv, BallotStep
<1>6. StartedInv(n)' /\ tally'[n].term <= node'[n].currentTerm
  BY <1>1, <1>3 DEF EInv, CountInv, StartedInv
<1>7. DueInv(n)'
  <2>1. DueInv(n)
    BY DEF EInv, CountInv
  <2>2. QED BY <1>1, <1>3, <1>4, <2>1 DEF DueInv, Candidate, Leader
<1>8. VotesAreVoters'
  <2>1. \A p \in Server : p # n => node'[p] = node[p] /\ tally'[p] = tally[p]
    BY <1>1, <1>3 DEF BallotStep
  <2>2. node'[n].votes = Cardinality(tally'[n].voters)
    BY <1>1, <1>3, FS_EmptySet
  <2>3. QED BY <1>2, <1>3, <2>1, <2>2 DEF EInv, VotesAreVoters
<1>9. QED BY <1>4, <1>5, <1>6, <1>7, <1>8 DEF EInv, CountInv

\* A crash: nothing is due to the new process.
LEMMA RestartCounts ==
    ASSUME TypeOK, EInv, NEW n \in Server, Restart(n)
    PROVE  EInv'
<1>1. /\ TypeOK' /\ node'[n] = Restored(disk[n])
      /\ \A p \in Server : p # n => node'[p] = node[p]
  BY RestartStep
<1>2. /\ epoch' = [epoch EXCEPT ![n] = epoch[n] + 1] /\ tally' = [tally EXCEPT ![n] = NoTally]
      /\ loop' = [loop EXCEPT ![n] = "top"]
      /\ voteReqs' = voteReqs /\ cast' = cast
      /\ voteResps' = {r \in voteResps : r.dst # n}
  BY DEF Restart, GoTo
<1>3. /\ loop'[n] = "top" /\ tally'[n] = NoTally /\ epoch'[n] = epoch[n] + 1 /\ epoch[n] \in Nat
      /\ \A p \in Server : p # n => tally'[p] = tally[p] /\ loop'[p] = loop[p] /\ epoch'[p] = epoch[p]
  BY <1>2 DEF TypeOK, Epochs
<1>4. \A m \in voteReqs : m.src \in Server /\ m.epoch \in Nat /\ m.epoch <= epoch[m.src]
  BY DEF EInv, MsgInv, TypeOK, VoteReq, Epochs
<1>5. \A m \in voteReqs : CallerAlive(m)' => CallerAlive(m) /\ m.src # n
  BY <1>3, <1>4 DEF CallerAlive
<1>6. \A p, v, t : Due(p, v, t)' => Due(p, v, t) /\ p # n
  BY <1>2, <1>5 DEF Due
<1>7. MsgInv'
  <2>1. \A m \in voteReqs' : m.epoch <= epoch'[m.src]
    BY <1>2, <1>3, <1>4
  <2>2. QED BY <1>2, <1>5, <2>1 DEF EInv, MsgInv, SameCall, Answers
<1>8. ASSUME NEW p \in Server, p # n
      PROVE  tally'[p].term <= node'[p].currentTerm /\ StartedInv(p)' /\ DueInv(p)'
  BY <1>1, <1>3, <1>6, <1>8, OthersKeep DEF EInv
<1>9. node'[n].currentTerm \in Nat /\ node'[n].votes = 0
  BY <1>1, RestoredType, SMTT(40) DEF TypeOK, NodeStates
<1>10. StartedInv(n)' /\ tally'[n].term <= node'[n].currentTerm /\ DueInv(n)'
  BY <1>3, <1>6, <1>9 DEF StartedInv, DueInv, NoTally
<1>11. VotesAreVoters'
  <2>1. node'[n].votes = Cardinality(tally'[n].voters)
    BY <1>3, <1>9, FS_EmptySet DEF NoTally
  <2>2. QED BY <1>1, <1>2, <1>3, <2>1 DEF EInv, VotesAreVoters, NoTally
<1>12. QED BY <1>7, <1>8, <1>10, <1>11 DEF EInv, CountInv

\* Every step keeps EInv.
LEMMA EInvStep ==
    ASSUME TypeOK, EInv, Next
    PROVE  EInv'
<1>1. TypeOK'
  BY LiveStep
<1>2. ASSUME NEW n \in Server, FollowerTimeout(n) \/ CandidateTimeout(n) PROVE EInv'
  <2>1. StartsElection(n) /\ loop' = [loop EXCEPT ![n] = loop'[n]]
    BY <1>2 DEF FollowerTimeout, CandidateTimeout, GoTo, TypeOK
  <2>2. QED BY <1>1, <2>1, StartsElectionCounts
<1>3. QED
  BY <1>2, CalmActions, HandleVoteReqCounts, RequestVotesCounts, CountVoteCounts,
     BecomeLeaderCounts, RestartCounts DEF Next, RunLoop

\* EInv holds in every reachable state.
LEMMA EInit == Init => EInv
<1> SUFFICES ASSUME Init PROVE EInv
  OBVIOUS
<1>1. VotesAreVoters
  BY FS_EmptySet DEF Init, VotesAreVoters, NoTally, NewNodeState
<1>2. MsgInv
  BY DEF Init, MsgInv
<1>3. CountInv
  BY DEF Init, CountInv, StartedInv, DueInv, Due, NoTally, NewNodeState
<1>4. QED BY <1>1, <1>2, <1>3 DEF EInv

LEMMA EInvariant == Spec => []EInv
<1>1. Init => EInv
  BY EInit
<1>2. TypeOK /\ EInv /\ [Next]_vars => EInv'
  <2>1. CASE TypeOK /\ EInv /\ Next
    BY <2>1, EInvStep
  <2>2. CASE EInv /\ UNCHANGED vars
    BY <2>2 DEF vars, nodeVars, netVars, history, EInv, VotesAreVoters, MsgInv, CountInv,
       StartedInv, DueInv, Due, CallerAlive
  <2>3. QED BY <2>1, <2>2
<1>3. QED BY <1>1, <1>2, TypeCorrect, PTL DEF Spec

\* VotesAreVoters: electionVotes is the number of different servers that voted
\* for the candidate in the term of its election, in every cluster, whatever
\* late or stale responses reach it and whatever term it has gone on to.
THEOREM VotesCounted == Spec => []VotesAreVoters
<1>1. EInv => VotesAreVoters
  BY DEF EInv
<1>2. QED BY <1>1, EInvariant, PTL

-----------------------------------------------------------------------------
(***************************************************************************)
(* The configuration is the whole cluster as long as nobody appends a      *)
(* configuration entry, so that a majority of it is one of the cluster.    *)
(***************************************************************************)
PlainRpc(m) == m.type = "request" => m.entries \in Seq(PlainEntry)

PlainInv ==
    /\ \A n \in Server : PlainState(node[n]) /\ disk[n].log \in Seq(PlainEntry)
    /\ \A m \in DOMAIN aeRpcs : PlainRpc(m)

\* getAppendEntriesArgs sends what is in the log.
LEMMA PlainRequests ==
    ASSUME NEW n \in Server, NEW s \in NodeStates, PlainState(s)
    PROVE  \A m \in AEReqsOf(n, s) : PlainRpc(m)
<1>1. ASSUME NEW p \in Server PROVE EntriesFor(s, p) \in Seq(PlainEntry)
  <2> DEFINE k == FindArrayIdx(s.log, s.nextIndex[p])
  <2>1. s.log \in Seq(Entry) /\ s.log \in Seq(PlainEntry)
    BY DEF NodeStates, PlainState
  <2>2. k \in 0..Len(s.log)
    BY <2>1, FindArrayIdxType
  <2>3. k # 0 => SubSeq(s.log, k, Len(s.log)) \in Seq(PlainEntry)
    <3> HIDE DEF k
    <3>1. QED BY <2>1, <2>2
  <2>4. QED BY <2>3 DEF EntriesFor
<1>2. ASSUME NEW p \in Server PROVE PlainRpc(AEReqOf(n, s, p))
  BY <1>1 DEF AEReqOf, AppendEntriesArgs, PlainRpc
<1>3. QED BY <1>2 DEF AEReqsOf, Peers

\* A step of one node that leaves its state and what it stores plain.
LEMMA PlainKeeps ==
    ASSUME PlainInv, NEW n \in Server, BallotStep(n), PlainState(node'[n]),
           disk'[n] = disk[n] \/ disk'[n].log \in Seq(PlainEntry),
           \A m \in DOMAIN aeRpcs' : m \in DOMAIN aeRpcs \/ PlainRpc(m)
    PROVE  PlainInv'
<1>1. \A p \in Server : p # n => node'[p] = node[p] /\ disk'[p] = disk[p]
  BY DEF BallotStep
<1>2. \A p \in Server : PlainState(node'[p]) /\ disk'[p].log \in Seq(PlainEntry)
  BY <1>1 DEF PlainInv
<1>3. QED BY <1>2 DEF PlainInv, PlainState, PlainRpc

\* Every step keeps PlainInv.
LEMMA PlainStep ==
    ASSUME TypeOK, PlainInv, Next
    PROVE  PlainInv'
<1>1. ASSUME NEW n \in Server,
             \/ ApplyLog(n) \/ EnterSelect(n) \/ BecomeConnected(n) \/ TimeoutUnconnected(n)
             \/ \E r \in voteResps : DrainVote(n, r)
      PROVE  PlainInv'
  <2>1. BallotStep(n) /\ QuietStep(n)
    BY <1>1, ApplyLogStep, EnterSelectStep, BecomeConnectedStep, TimeoutUnconnectedStep, DrainVoteStep
  <2>2. aeRpcs' = aeRpcs
    BY <1>1 DEF ApplyLog, EnterSelect, BecomeConnected, TimeoutUnconnected, DrainVote, netVars
  <2>3. QED BY <2>1, <2>2, PlainKeeps DEF QuietStep, PlainInv
<1>2. ASSUME NEW n \in Server, FollowerTimeout(n) \/ CandidateTimeout(n) PROVE PlainInv'
  <2>1. StartsElection(n) /\ aeRpcs' = aeRpcs
    BY <1>2 DEF FollowerTimeout, CandidateTimeout, StartsElection, netVars
  <2>2. QED BY <2>1, StartsElectionStep, PlainKeeps DEF PlainInv
<1>3. ASSUME NEW n \in Server, RequestVotes(n) PROVE PlainInv'
  BY <1>3 DEF RequestVotes, PlainInv, PlainState, PlainRpc
<1>4. ASSUME NEW n \in Server, NEW m \in voteReqs, HandleVoteReq(n, m) PROVE PlainInv'
  <2>1. aeRpcs' = aeRpcs
    BY <1>4 DEF HandleVoteReq
  <2>2. QED BY <1>4, <2>1, HandleVoteReqStep, PlainKeeps DEF PlainInv
<1>5. ASSUME NEW n \in Server, NEW r \in voteResps, CountVote(n, r) PROVE PlainInv'
  <2>1. aeRpcs' = aeRpcs
    BY <1>5 DEF CountVote
  <2>2. QED BY <1>5, <2>1, CountVoteStep, CountVoteTally, PlainKeeps DEF PlainInv
<1>6. ASSUME NEW n \in Server, BecomeLeader(n) PROVE PlainInv'
  <2> DEFINE s == WinElection(node[n], n)
  <2>1. node[n] \in NodeStates /\ PlainState(node[n])
    BY DEF TypeOK, PlainInv
  <2>2. s \in NodeStates /\ PlainState(s)
    BY <2>1, WinElectionType, WinElectionEffect
  <2>3. SendAE(AEReqsOf(n, s))
    BY <1>6 DEF BecomeLeader
  <2> HIDE DEF s
  <2>4. \A m \in DOMAIN aeRpcs' : m \in DOMAIN aeRpcs \/ PlainRpc(m)
    BY <2>2, <2>3, SendAEType, PlainRequests
  <2>5. QED BY <1>6, <2>1, <2>4, BecomeLeaderStep, PlainKeeps
<1>7. ASSUME NEW n \in Server, Heartbeat(n) PROVE PlainInv'
  <2>1. node[n] \in NodeStates /\ PlainState(node[n])
    BY DEF TypeOK, PlainInv
  <2>2. SendAE(AEReqsOf(n, node[n]))
    BY <1>7 DEF Heartbeat
  <2>3. \A m \in DOMAIN aeRpcs' : m \in DOMAIN aeRpcs \/ PlainRpc(m)
    BY <2>1, <2>2, SendAEType, PlainRequests
  <2>4. QED BY <1>7, <2>1, <2>3, HeartbeatStep, PlainKeeps
<1>8. ASSUME NEW n \in Server, NEW m \in DOMAIN aeRpcs, HandleAEReq(n, m) PROVE PlainInv'
  <2>1. m.entries \in Seq(PlainEntry) /\ PlainState(node[n])
    BY <1>8 DEF HandleAEReq, PlainInv, PlainRpc
  <2>2. \A r \in AEResp : PlainRpc(r)
    BY DEF AEResp, PlainRpc
  <2>3. QED BY <1>8, <2>1, <2>2, HandleAEReqStep, PlainKeeps
<1>9. ASSUME NEW n \in Server, NEW r \in DOMAIN aeRpcs, ReceiveAEResp(n, r) PROVE PlainInv'
  <2>1. node' = node /\ disk' = disk /\ DOMAIN aeRpcs' \subseteq DOMAIN aeRpcs
    BY <1>9, ReceiveAERespStep DEF ReceiveAEResp
  <2>2. QED BY <2>1 DEF PlainInv, PlainState, PlainRpc
<1>10. ASSUME NEW n \in Server, HandleAEResp(n) PROVE PlainInv'
  <2>1. aeRpcs' = aeRpcs /\ PlainState(node[n])
    BY <1>10 DEF HandleAEResp, netVars, PlainInv
  <2>2. QED BY <1>10, <2>1, HandleAERespStep, PlainKeeps
<1>11. ASSUME NEW n \in Server, Restart(n) PROVE PlainInv'
  <2>1. /\ node'[n] = Restored(disk[n]) /\ disk' = disk
        /\ \A p \in Server : p # n => node'[p] = node[p]
        /\ DOMAIN aeRpcs' \subseteq DOMAIN aeRpcs
    BY <1>11, RestartStep
  <2>2. PlainState(Restored(disk[n]))
    BY RestoredType DEF TypeOK, PlainInv
  <2>3. \A p \in Server : PlainState(node'[p]) /\ disk'[p].log \in Seq(PlainEntry)
    BY <2>1, <2>2 DEF PlainInv
  <2>4. QED BY <2>1, <2>3 DEF PlainInv, PlainState, PlainRpc
<1>12. QED
  BY <1>1, <1>2, <1>3, <1>4, <1>5, <1>6, <1>7, <1>8, <1>9, <1>10, <1>11 DEF Next, RunLoop

-----------------------------------------------------------------------------
\* A winner has the votes of a majority of the cluster.
Majority(c, t) ==
    \E Q \in SUBSET Server : /\ 2 * Cardinality(Q) > Cardinality(Server)
                             /\ \A v \in Q : <<v, t, c>> \in cast

WinnersInv == \A e \in elected : Majority(e[1], e[2])

\* Votes once cast stay cast.
LEMMA CastGrows ==
    ASSUME Next
    PROVE  cast \subseteq cast'
  BY ZenonT(90) DEF Next, RunLoop, ApplyLog, EnterSelect, BecomeConnected, FollowerTimeout, TimeoutUnconnected,
     CandidateTimeout, StartsElection, RequestVotes, HandleVoteReq, CountVote, DrainVote,
     BecomeLeader, Heartbeat, HandleAEReq, ReceiveAEResp, HandleAEResp, Restart, history

\* A candidate that counts a majority has one.
LEMMA CountVoteWins ==
    ASSUME TypeOK, EInv, PlainInv, NEW n \in Server, NEW r \in voteResps, CountVote(n, r),
           WinsElection(node[n], r), NEW t, t = node[n].currentTerm
    PROVE  Majority(n, t)'
<1> DEFINE Q == tally'[n].voters
           q == node[n].votes + 1
<1>1. /\ r.term = node[n].currentTerm /\ r.granted
      /\ q > Cardinality(Server) \div 2
  BY DEF WinsElection, PlainInv, PlainState
<1>2. TypeOK' /\ EInv' /\ r.term = tally[n].term
  BY <1>1, CountVoteStep, CountVoteCounts
<1>3. tally'[n].term = node[n].currentTerm /\ node'[n].votes = q
  BY <1>1, <1>2, CountVoteTally
<1>4. Q \in SUBSET Server /\ q \in Nat /\ Cardinality(Server) \in Nat
  BY <1>2, ServerAssumption, FS_CardinalityType, SMTT(40) DEF TypeOK, NodeStates
<1>5. q = Cardinality(Q) /\ \A v \in Q : <<v, node[n].currentTerm, n>> \in cast'
  BY <1>2, <1>3 DEF EInv, VotesAreVoters
<1>6. 2 * q > Cardinality(Server)
  <2> DEFINE c == Cardinality(Server)
  <2>1. c \in Nat /\ q \in Nat /\ q > c \div 2
    BY <1>1, <1>4
  <2> HIDE DEF c, q
  <2>2. 2 * q > c
    BY <2>1
  <2>3. QED BY <2>2 DEF c
<1>7. QED BY <1>4, <1>5, <1>6 DEF Majority

\* Every step keeps WinnersInv.
LEMMA WinnersStep ==
    ASSUME TypeOK, EInv, PlainInv, WinnersInv, Next
    PROVE  WinnersInv'
<1>1. cast \subseteq cast'
  BY CastGrows
<1>2. \A c, t : Majority(c, t) => Majority(c, t)'
  BY <1>1 DEF Majority
<1>3. ASSUME elected' = elected PROVE WinnersInv'
  BY <1>2, <1>3 DEF WinnersInv
<1>4. ASSUME NEW n \in Server, NEW t, elected' = elected \cup {<<n, t>>}, Majority(n, t)'
      PROVE  WinnersInv'
  BY <1>2, <1>4 DEF WinnersInv
<1>5. ASSUME NEW n \in Server, FollowerTimeout(n) PROVE WinnersInv'
  <2>1. CASE Peers(n) # {}
    BY <1>3, <1>5, <2>1 DEF FollowerTimeout
  <2>2. CASE Peers(n) = {}
    <3>1. PICK t : t = node[n].currentTerm + 1
      OBVIOUS
    <3>2. StartsElection(n) /\ elected' = elected \cup {<<n, t>>}
      BY <1>5, <2>2, <3>1 DEF FollowerTimeout
    <3>3. <<n, t, n>> \in cast'
      BY <3>1, <3>2, StartsElectionStep
    <3>4. Server = {n} /\ Cardinality({n}) = 1
      BY <2>2, FS_Singleton DEF Peers
    <3>5. 2 * Cardinality(Server) > Cardinality(Server)
      BY <3>4
    <3>6. \A v \in Server : <<v, t, n>> \in cast'
      BY <3>3, <3>4
    <3>7. Majority(n, t)'
      BY <3>5, <3>6 DEF Majority
    <3>8. QED BY <1>4, <3>2, <3>7
  <2>3. QED BY <2>1, <2>2
<1>6. ASSUME NEW n \in Server, NEW r \in voteResps, CountVote(n, r) PROVE WinnersInv'
  <2>1. CASE ~WinsElection(node[n], r)
    BY <1>3, <1>6, <2>1 DEF CountVote
  <2>2. CASE WinsElection(node[n], r)
    <3>1. PICK t : t = node[n].currentTerm
      OBVIOUS
    <3>2. elected' = elected \cup {<<n, t>>}
      BY <1>6, <2>2, <3>1 DEF CountVote
    <3>3. Majority(n, t)'
      BY <1>6, <2>2, <3>1, CountVoteWins
    <3>4. QED BY <1>4, <3>2, <3>3
  <2>3. QED BY <2>1, <2>2
<1>7. ASSUME NEW n \in Server,
             \/ ApplyLog(n) \/ EnterSelect(n) \/ BecomeConnected(n) \/ TimeoutUnconnected(n)
             \/ CandidateTimeout(n) \/ RequestVotes(n)
             \/ \E m \in voteReqs : HandleVoteReq(n, m)
             \/ \E r \in voteResps : DrainVote(n, r)
             \/ BecomeLeader(n) \/ Heartbeat(n) \/ HandleAEResp(n) \/ Restart(n)
             \/ \E m \in DOMAIN aeRpcs : HandleAEReq(n, m) \/ ReceiveAEResp(n, m)
      PROVE  WinnersInv'
  <2>1. elected' = elected
    BY <1>7 DEF ApplyLog, EnterSelect, BecomeConnected, TimeoutUnconnected, CandidateTimeout,
       RequestVotes, HandleVoteReq, DrainVote, BecomeLeader, Heartbeat, HandleAEReq,
       ReceiveAEResp, HandleAEResp, Restart, history
  <2>2. QED BY <1>3, <2>1
<1>8. QED BY <1>5, <1>6, <1>7 DEF Next, RunLoop

\* The configuration stays the cluster, and winners have their majority.
LEMMA WinnersInit == Init => PlainInv /\ WinnersInv
<1> SUFFICES ASSUME Init PROVE PlainInv /\ WinnersInv
  OBVIOUS
<1>1. <<>> \in Seq(PlainEntry)
  OBVIOUS
<1>2. PlainState(NewNodeState)
  BY <1>1 DEF PlainState, NewNodeState
<1>3. DOMAIN aeRpcs = {}
  BY DEF Init, EmptyBag, SetToBag
<1>4. PlainInv
  BY <1>1, <1>2, <1>3 DEF Init, PlainInv
<1>5. WinnersInv
  BY DEF Init, WinnersInv
<1>6. QED BY <1>4, <1>5

LEMMA WinnersInvariant == Spec => [](PlainInv /\ WinnersInv)
<1>1. Init => PlainInv /\ WinnersInv
  BY WinnersInit
<1>2. TypeOK /\ EInv /\ PlainInv /\ WinnersInv /\ [Next]_vars => PlainInv' /\ WinnersInv'
  <2>1. CASE TypeOK /\ EInv /\ PlainInv /\ WinnersInv /\ Next
    BY <2>1, PlainStep, WinnersStep
  <2>2. CASE PlainInv /\ WinnersInv /\ UNCHANGED vars
    <3>1. UNCHANGED <<node, disk, aeRpcs, cast, elected>>
      BY <2>2 DEF vars, nodeVars, netVars, history
    <3>2. PlainInv'
      BY <2>2, <3>1 DEF PlainInv, PlainState, PlainRpc
    <3>3. WinnersInv'
      BY <2>2, <3>1 DEF WinnersInv, Majority
    <3>4. QED BY <3>2, <3>3
  <2>3. QED BY <2>1, <2>2
<1>3. QED BY <1>1, <1>2, TypeCorrect, EInvariant, PTL DEF Spec

\* Two majorities share a voter, and it voted once.
LEMMA MajoritiesMeet == TypeOK /\ WinnersInv /\ VoteOnce => ElectedOnce
<1> SUFFICES ASSUME TypeOK, WinnersInv, VoteOnce, NEW a \in elected, NEW b \in elected, a[2] = b[2]
             PROVE  a[1] = b[1]
  BY DEF ElectedOnce
<1> DEFINE t == a[2]
           c == a[1]
           d == b[1]
<1>1. Majority(c, t) /\ Majority(d, t)
  BY DEF WinnersInv
<1> HIDE DEF t, c, d
<1>2. PICK Q \in SUBSET Server : /\ 2 * Cardinality(Q) > Cardinality(Server)
                                 /\ \A v \in Q : <<v, t, c>> \in cast
  BY <1>1 DEF Majority
<1>3. PICK R \in SUBSET Server : /\ 2 * Cardinality(R) > Cardinality(Server)
                                 /\ \A v \in R : <<v, t, d>> \in cast
  BY <1>1 DEF Majority
<1>4. IsFiniteSet(Server) /\ IsFiniteSet(Q) /\ IsFiniteSet(R)
  BY ServerAssumption, FS_Subset
<1>5. /\ Cardinality(Server) \in Nat /\ Cardinality(Q) \in Nat /\ Cardinality(R) \in Nat
  BY <1>4, FS_CardinalityType
<1>6. Cardinality(Q) + Cardinality(R) > Cardinality(Server)
  BY <1>2, <1>3, <1>5
<1>7. PICK v \in Q : v \in R
  BY <1>4, <1>6, FS_MajoritiesIntersect
<1>8. <<v, t, c>> \in cast /\ <<v, t, d>> \in cast
  BY <1>2, <1>3, <1>7
<1>9. c = d
  BY <1>8 DEF VoteOnce
<1>10. QED BY <1>9 DEF c, d

\* ElectedOnce: updateElection elects at most one candidate per term, in every
\* cluster, across crashes and whatever is lost, late or overtaken.
THEOREM OneWinner == Spec => []ElectedOnce
  BY MajoritiesMeet, TypeCorrect, WinnersInvariant, VotesOnce, PTL

-----------------------------------------------------------------------------
(***************************************************************************)
(* RaftCore implements Voting: initial states map to initial states, and   *)
(* every step to a vote, a win, both (a cluster of one), or a stutter.     *)
(***************************************************************************)
Votes == UNCHANGED cast \/ \E b \in cast' : Ballots!Vote(b)
Wins  == UNCHANGED elected \/ \E w \in elected' : Ballots!Win(w)

\* A step that casts one vote casts one the voter may cast.
LEMMA CastsOne ==
    ASSUME VoteOnce', NEW v \in Server, NEW t \in Nat, NEW c \in Server,
           cast' = cast \cup {<<v, t, c>>}
    PROVE  Votes
<1> DEFINE b == <<v, t, c>>
<1>1. b \in cast' /\ cast \subseteq cast' /\ b \in Server \X Nat \X Server
  OBVIOUS
<1>2. \A a \in cast : a[1] = b[1] /\ a[2] = b[2] => a[3] = b[3]
  BY <1>1 DEF VoteOnce
<1>3. Ballots!Vote(b)
  BY <1>1, <1>2 DEF Ballots!Vote
<1>4. QED BY <1>1, <1>3 DEF Votes

\* A step that adds one winner adds one with a majority.
LEMMA WinsOne ==
    ASSUME WinnersInv', NEW c, NEW t, elected' = elected \cup {<<c, t>>}
    PROVE  Wins
<1>1. <<c, t>> \in elected'
  OBVIOUS
<1>2. Majority(c, t)'
  BY <1>1 DEF WinnersInv
<1>3. PICK Q \in SUBSET Server : /\ 2 * Cardinality(Q) > Cardinality(Server)
                                 /\ \A v \in Q : <<v, t, c>> \in cast'
  BY <1>2 DEF Majority
<1>4. Q \in Majorities
  BY <1>3 DEF Majorities
<1>5. Ballots!Win(<<c, t>>)
  BY <1>3, <1>4 DEF Ballots!Win
<1>6. QED BY <1>1, <1>5 DEF Wins

\* An election is started with one vote, the candidate's for itself.
LEMMA StartVotes ==
    ASSUME TypeOK, VoteOnce', NEW n \in Server, StartsElection(n)
    PROVE  Votes
<1>1. node[n].currentTerm \in Nat
  BY DEF TypeOK, NodeStates
<1>2. cast' = cast \cup {<<n, node[n].currentTerm + 1, n>>}
  BY <1>1 DEF StartsElection, StartElection, StopElectionTimeout
<1>3. QED BY <1>1, <1>2, CastsOne

\* A vote request is answered with one vote or none.
LEMMA RequestAnswered ==
    ASSUME TypeOK, VoteOnce', NEW n \in Server, NEW m \in voteReqs, HandleVoteReq(n, m)
    PROVE  Votes
<1>1. m.term \in Nat /\ m.src \in Server
  BY DEF TypeOK, VoteReq
<1>2. cast' = cast \/ cast' = cast \cup {<<n, m.term, m.src>>}
  BY DEF HandleVoteReq
<1>3. QED BY <1>1, <1>2, CastsOne DEF Votes

\* Every step of the cluster is a step of Voting or changes nothing there.
LEMMA StepVotes ==
    ASSUME TypeOK, VoteOnce', WinnersInv', Next
    PROVE  Votes /\ Wins
<1>1. ASSUME NEW n \in Server, FollowerTimeout(n) PROVE Votes /\ Wins
  <2>1. Votes
    BY <1>1, StartVotes DEF FollowerTimeout
  <2>2. elected' = elected \/ elected' = elected \cup {<<n, node[n].currentTerm + 1>>}
    BY <1>1 DEF FollowerTimeout
  <2>3. QED BY <2>1, <2>2, WinsOne DEF Wins
<1>2. ASSUME NEW n \in Server, CandidateTimeout(n) PROVE Votes /\ Wins
  BY <1>2, StartVotes DEF CandidateTimeout, Wins
<1>3. ASSUME NEW n \in Server, NEW m \in voteReqs, HandleVoteReq(n, m) PROVE Votes /\ Wins
  <2>1. elected' = elected
    BY <1>3 DEF HandleVoteReq
  <2>2. QED BY <1>3, <2>1, RequestAnswered DEF Wins
<1>4. ASSUME NEW n \in Server, NEW r \in voteResps, CountVote(n, r) PROVE Votes /\ Wins
  <2>1. cast' = cast
    BY <1>4 DEF CountVote
  <2>2. elected' = elected \/ elected' = elected \cup {<<n, node[n].currentTerm>>}
    BY <1>4 DEF CountVote
  <2>3. QED BY <2>1, <2>2, WinsOne DEF Votes, Wins
<1>5. ASSUME NEW n \in Server,
             \/ ApplyLog(n) \/ EnterSelect(n) \/ BecomeConnected(n) \/ TimeoutUnconnected(n)
             \/ RequestVotes(n) \/ BecomeLeader(n) \/ Heartbeat(n) \/ HandleAEResp(n) \/ Restart(n)
             \/ \E r \in voteResps : DrainVote(n, r)
             \/ \E m \in DOMAIN aeRpcs : HandleAEReq(n, m) \/ ReceiveAEResp(n, m)
      PROVE  Votes /\ Wins
  BY <1>5 DEF ApplyLog, EnterSelect, BecomeConnected, TimeoutUnconnected, RequestVotes, DrainVote,
     BecomeLeader, Heartbeat, HandleAEReq, ReceiveAEResp, HandleAEResp, Restart, history,
     Votes, Wins
<1>6. QED BY <1>1, <1>2, <1>3, <1>4, <1>5 DEF Next, RunLoop

\* ImplementsVoting: for every finite cluster the elections of RaftCore, with
\* lost, late and overtaken messages, crashes and restarts, are behaviours of
\* Voting.
THEOREM RefinesVoting == Spec => ImplementsVoting
<1>1. Init => Ballots!Init
  BY DEF Init, Ballots!Init
<1>2. TypeOK /\ VoteOnce' /\ WinnersInv' /\ [Next]_vars => [Ballots!Next]_(Ballots!vars)
  <2>1. CASE TypeOK /\ VoteOnce' /\ WinnersInv' /\ Next
    BY <2>1, StepVotes DEF Votes, Wins, Ballots!Next
  <2>2. CASE UNCHANGED vars
    BY <2>2 DEF vars, history, Ballots!vars
  <2>3. QED BY <2>1, <2>2
<1>3. QED BY <1>1, <1>2, TypeCorrect, VotesOnce, WinnersInvariant, PTL
      DEF Spec, ImplementsVoting, Ballots!Spec

-----------------------------------------------------------------------------
(***************************************************************************)
(* The log array in RaftCore: indices without a gap and terms that never   *)
(* decrease, in memory and in storage, for every cluster and every value   *)
(* of the bounds.                                                          *)
(***************************************************************************)

(***************************************************************************)
(* The invariant.  An election appends one entry and a node is elected at  *)
(* most once per term it starts an election in, so position k holds an     *)
(* entry of term k or newer.  That is what keeps logs short enough never   *)
(* to be compacted, and it needs the fact about candidates: what they      *)
(* hold is older than the term they run in.                                *)
(***************************************************************************)
GoodLog(log, term) ==
    \A k \in 1..Len(log) :
        /\ log[k].index = k - 1
        /\ k <= log[k].term /\ log[k].term <= term
        /\ k > 1 => log[k-1].term <= log[k].term

OlderLog(s) ==
    /\ s.currentTerm > 0
    /\ \A k \in 1..Len(s.log) : s.log[k].term < s.currentTerm

GoodNode(s) ==
    /\ GoodLog(s.log, s.currentTerm)
    /\ s.snap = Nil
    /\ s.currentTerm <= MaxTerm
    /\ s.role = Candidate => OlderLog(s)

GoodDisk(d) == GoodLog(d.log, d.currentTerm) /\ d.snap = Nil /\ d.currentTerm <= MaxTerm

\* The entries of an AppendEntries continue the log of their sender.
GoodBatch(m) ==
    \A i \in 1..Len(m.entries) :
        /\ m.entries[i].index = m.prevIdx + i
        /\ m.entries[i].index < m.entries[i].term /\ m.entries[i].term <= m.term
        /\ i = 1 => m.prevTerm <= m.entries[i].term
        /\ i > 1 => m.entries[i-1].term <= m.entries[i].term

GoodRpc(m) == m.term <= MaxTerm /\ (m.type = "request" => GoodBatch(m))

LogInv ==
    /\ \A n \in Server : GoodNode(node[n]) /\ GoodDisk(disk[n])
    /\ \A n \in Server : loop[n] \in {Candidate, "won"} => OlderLog(node[n])
    /\ \A n \in Server : held[n] # Nil => held[n].term <= MaxTerm
    /\ \A m \in voteReqs \cup voteResps : m.term <= MaxTerm
    /\ \A m \in DOMAIN aeRpcs : GoodRpc(m)

-----------------------------------------------------------------------------
(***************************************************************************)
(* The methods of nodeState on such a log.                                 *)
(***************************************************************************)
\* An entry has a number for an index and for a term.
LEMMA EntryFields ==
    ASSUME NEW log \in Seq(Entry), NEW k \in 1..Len(log)
    PROVE  log[k].index \in Nat /\ log[k].term \in Nat
<1>1. log[k] \in Entry
  OBVIOUS
<1> QED
  BY <1>1 DEF Entry

\* In a log without gaps an index is found at the position after it.
LEMMA FindGood ==
    ASSUME NEW log \in Seq(Entry), NEW term, GoodLog(log, term), NEW i \in Index
    PROVE  FindArrayIdx(log, i) = IF i \in 0..Len(log)-1 THEN i + 1 ELSE 0
<1> DEFINE k == FindArrayIdx(log, i)
<1>1. /\ k = 0 => \A j \in 1..Len(log) : log[j].index # i
      /\ k # 0 => k \in 1..Len(log) /\ log[k].index = i
  BY FindArrayIdxFinds
<1>2. k \in 0..Len(log) /\ Len(log) \in Nat
  BY FindArrayIdxType
<1> HIDE DEF k
<1>3. \A j \in 1..Len(log) : log[j].index = j - 1
  BY DEF GoodLog
<1>4. CASE k = 0
  <2>1. i \notin 0..Len(log)-1
    <3> SUFFICES ASSUME i \in 0..Len(log)-1 PROVE FALSE
      OBVIOUS
    <3>1. i + 1 \in 1..Len(log) /\ (i + 1) - 1 = i
      BY <1>2
    <3> QED
      BY <1>1, <1>3, <1>4, <3>1
  <2> QED
    BY <1>4, <2>1 DEF k
<1>5. CASE k # 0
  BY <1>1, <1>2, <1>3, <1>5 DEF k, Index
<1> QED
  BY <1>4, <1>5

\* Every entry has a term of its own, so the log is never longer than the term
\* is high, and the array is never full.
LEMMA GoodLen ==
    ASSUME NEW s \in NodeStates, GoodNode(s)
    PROVE  /\ s.log \in Seq(Entry) /\ s.currentTerm \in Nat
           /\ Len(s.log) \in Nat /\ Len(s.log) <= s.currentTerm /\ Len(s.log) < LogCap
<1>1. s.log \in Seq(Entry) /\ s.currentTerm \in Nat /\ Len(s.log) \in Nat
  BY DEF NodeStates
<1>2. Len(s.log) <= s.currentTerm
  <2>1. CASE Len(s.log) = 0
    BY <1>1, <2>1
  <2>2. CASE Len(s.log) # 0
    <3>1. Len(s.log) \in 1..Len(s.log)
      BY <1>1, <2>2
    <3>2. s.log[Len(s.log)].term \in Nat
      BY <1>1, <3>1, EntryFields
    <3> QED
      BY <1>1, <3>1, <3>2 DEF GoodNode, GoodLog
  <2> QED
    BY <2>1, <2>2
<1> QED
  BY <1>1, <1>2, NoCompactionAssumption, BoundsAssumption, LogCapAssumption DEF GoodNode

\* Where the log stays, a term that grows does no harm.
LEMMA GoodKept ==
    ASSUME NEW s \in NodeStates, NEW r \in NodeStates, GoodNode(s),
           r.log = s.log, r.snap = s.snap,
           r.currentTerm >= s.currentTerm, r.currentTerm <= MaxTerm,
           r.role = Candidate => s.role = Candidate
    PROVE  GoodNode(r) /\ (OlderLog(s) => OlderLog(r))
<1>1. s.log \in Seq(Entry) /\ s.currentTerm \in Nat /\ r.currentTerm \in Nat /\ r.log = s.log
      /\ r.snap = s.snap
  BY DEF NodeStates
<1>2. \A k \in 1..Len(s.log) : s.log[k].term \in Nat
  BY <1>1, EntryFields
<1>3. GoodLog(r.log, r.currentTerm)
  BY <1>1, <1>2, SMTT(40) DEF GoodNode, GoodLog
<1>4. OlderLog(s) => OlderLog(r)
  BY <1>1, <1>2 DEF OlderLog
<1> QED
  BY <1>1, <1>3, <1>4 DEF GoodNode

\* startElection: everything in the log is older than the new term.
LEMMA GoodStart ==
    ASSUME NEW s \in NodeStates, NEW id \in Server, GoodNode(s), s.currentTerm < MaxTerm,
           NEW r, r = StartElection(s, id)
    PROVE  GoodNode(r) /\ OlderLog(r)
<1>1. s.log \in Seq(Entry) /\ s.currentTerm \in Nat
  BY DEF NodeStates
<1>2. \A k \in 1..Len(s.log) : s.log[k].term \in Nat
  BY <1>1, EntryFields
<1>3. r.currentTerm = s.currentTerm + 1
  BY StartElectionEffect
<1>4. r.log = s.log /\ r.snap = s.snap
  BY QuietLog DEF SameLog
<1>5. GoodLog(r.log, r.currentTerm)
  BY <1>1, <1>2, <1>3, <1>4 DEF GoodNode, GoodLog
<1>6. OlderLog(r)
  BY <1>1, <1>2, <1>3, <1>4 DEF GoodNode, GoodLog, OlderLog
<1> QED
  BY <1>1, <1>3, <1>4, <1>5, <1>6, BoundsAssumption DEF GoodNode

\* winElection: the no-op is newer than all that is there and takes the next index.
LEMMA GoodWin ==
    ASSUME NEW s \in NodeStates, NEW id \in Server, GoodNode(s), OlderLog(s),
           NEW r, r = WinElection(s, id)
    PROVE  GoodNode(r)
<1> DEFINE n == Len(s.log)
           e == Noop(LastLogIdx(s) + 1, s.currentTerm)
<1>1. s.log \in Seq(Entry) /\ s.currentTerm \in Nat /\ n \in Nat /\ n < LogCap
  BY GoodLen
<1>2. \A k \in 1..n : s.log[k].term \in Nat /\ s.log[k].index = k - 1 /\ k <= s.log[k].term
  BY <1>1, EntryFields DEF GoodNode, GoodLog
<1>3. LastLogIdx(s) = n - 1
  <2>1. CASE s.log = <<>>
    BY <2>1 DEF LastLogIdx, GoodNode
  <2>2. CASE s.log # <<>>
    <3>1. n \in 1..n
      BY <1>1, <2>2
    <3> QED
      BY <1>2, <2>2, <3>1 DEF LastLogIdx
  <2> QED
    BY <2>1, <2>2
<1>4. r.log = Append(s.log, e) /\ r.snap = s.snap
  BY <1>1, WinElectionLog, LogCapAssumption
<1>5. e \in Entry /\ e.index = n /\ e.term = s.currentTerm
  BY <1>1, <1>3 DEF Noop, Entry
<1>6. r.currentTerm = s.currentTerm /\ r.role = Leader
  BY WinElectionEffect
<1> HIDE DEF e
<1>7. /\ Len(r.log) = n + 1 /\ r.log[n+1] = e
      /\ \A k \in 1..n : r.log[k] = s.log[k]
  BY <1>1, <1>4, <1>5
<1>8. n + 1 <= s.currentTerm /\ \A k \in 1..n : s.log[k].term < s.currentTerm
  <2>1. CASE n = 0
    BY <1>1, <2>1 DEF OlderLog
  <2>2. CASE n # 0
    <3>1. n \in 1..n
      BY <1>1, <2>2
    <3> QED
      BY <1>1, <1>2, <3>1 DEF OlderLog
  <2> QED
    BY <2>1, <2>2
<1> HIDE DEF n
<1>9. ASSUME NEW k \in 1..n+1
      PROVE  /\ r.log[k].index = k - 1
             /\ k <= r.log[k].term /\ r.log[k].term <= r.currentTerm
             /\ k > 1 => r.log[k-1].term <= r.log[k].term
  <2>1. CASE k = n + 1
    <3>1. r.log[k] = e
      BY <1>7, <2>1
    <3>2. r.log[k].index = k - 1 /\ k <= r.log[k].term /\ r.log[k].term <= r.currentTerm
      BY <1>1, <1>5, <1>6, <1>8, <2>1, <3>1
    <3>3. k > 1 => k - 1 \in 1..n /\ r.log[k-1] = s.log[k-1]
      BY <1>1, <1>7, <2>1
    <3>4. k > 1 => r.log[k-1].term <= r.log[k].term
      BY <1>1, <1>2, <1>5, <1>8, <3>1, <3>3, SMTT(40)
    <3> QED
      BY <3>2, <3>4
  <2>2. CASE k \in 1..n
    <3>1. r.log[k] = s.log[k]
      BY <1>7, <2>2
    <3>2. k > 1 => k - 1 \in 1..n /\ r.log[k-1] = s.log[k-1]
      BY <1>1, <1>7, <2>2
    <3>3. k > 1 => s.log[k-1].term <= s.log[k].term
      BY <2>2 DEF GoodNode, GoodLog, n
    <3>4. r.log[k].index = k - 1 /\ k <= r.log[k].term
      BY <1>2, <2>2, <3>1
    <3>5. r.log[k].term <= r.currentTerm
      BY <1>1, <1>2, <1>6, <1>8, <2>2, <3>1
    <3> QED
      BY <3>1, <3>2, <3>3, <3>4, <3>5
  <2> QED
    BY <1>1, <2>1, <2>2
<1>10. GoodLog(r.log, r.currentTerm)
  BY <1>7, <1>9 DEF GoodLog
<1> QED
  BY <1>4, <1>6, <1>10 DEF GoodNode, Leader, Candidate

\* getAppendEntriesArgs cuts a batch out of the log.
LEMMA GoodRequest ==
    ASSUME NEW n \in Server, NEW s \in NodeStates, GoodNode(s), NEW p \in Server,
           NEW m, m = AEReqOf(n, s, p)
    PROVE  GoodRpc(m)
<1> DEFINE k == FindArrayIdx(s.log, s.nextIndex[p])
<1>1. s.log \in Seq(Entry) /\ s.currentTerm \in Nat /\ Len(s.log) \in Nat
  BY GoodLen
<1>2. k \in 0..Len(s.log)
  BY <1>1, FindArrayIdxType
<1>3. m.term = s.currentTerm /\ m.entries = EntriesFor(s, p)
      /\ m.prevIdx = PrevFor(s, p).idx /\ m.prevTerm = PrevFor(s, p).term
  BY DEF AEReqOf, AppendEntriesArgs
<1>4. m.entries = IF k = 0 THEN <<>> ELSE SubSeq(s.log, k, Len(s.log))
  BY <1>3 DEF EntriesFor
<1>5. k # 0 => IF k > 1 THEN m.prevIdx = s.log[k-1].index /\ m.prevTerm = s.log[k-1].term
               ELSE m.prevIdx = -1 /\ m.prevTerm = -1
  BY <1>2, <1>3 DEF PrevFor, GoodNode
<1> HIDE DEF k
<1>6. CASE k = 0
  BY <1>3, <1>4, <1>6 DEF GoodRpc, GoodBatch, GoodNode
<1>7. CASE k # 0
  <2>1. /\ Len(m.entries) = Len(s.log) - k + 1
        /\ \A i \in 1..Len(m.entries) : m.entries[i] = s.log[k + i - 1] /\ k + i - 1 \in 1..Len(s.log)
    BY <1>1, <1>2, <1>4, <1>7
  <2>2. \A j \in 1..Len(s.log) :
           /\ s.log[j].term \in Nat /\ s.log[j].index = j - 1
           /\ j <= s.log[j].term /\ s.log[j].term <= s.currentTerm
           /\ j > 1 => s.log[j-1].term <= s.log[j].term
    BY <1>1, EntryFields DEF GoodNode, GoodLog
  <2>3. m.prevIdx = k - 2
    <3>1. CASE k > 1
      <4>1. k - 1 \in 1..Len(s.log)
        BY <1>1, <1>2, <3>1
      <4> QED
        BY <1>2, <1>5, <1>7, <2>2, <3>1, <4>1
    <3>2. CASE k = 1
      BY <1>5, <1>7, <3>2
    <3> QED
      BY <1>2, <1>7, <3>1, <3>2
  <2>4. ASSUME NEW i \in 1..Len(m.entries)
        PROVE  /\ m.entries[i].index = m.prevIdx + i
               /\ m.entries[i].index < m.entries[i].term /\ m.entries[i].term <= m.term
    <3> DEFINE j == k + i - 1
    <3>1. j \in 1..Len(s.log) /\ m.entries[i] = s.log[j]
      BY <2>1
    <3>2. j - 1 = m.prevIdx + i
      BY <1>2, <2>1, <2>3, <1>1
    <3> HIDE DEF j
    <3>3. s.log[j].index < s.log[j].term
      BY <1>1, <2>2, <3>1
    <3> QED
      BY <1>3, <2>2, <3>1, <3>2, <3>3
  <2>5. ASSUME NEW i \in 1..Len(m.entries)
        PROVE  /\ i = 1 => m.prevTerm <= m.entries[i].term
               /\ i > 1 => m.entries[i-1].term <= m.entries[i].term
    <3> DEFINE j == k + i - 1
    <3>1. j \in 1..Len(s.log) /\ m.entries[i] = s.log[j]
      BY <2>1
    <3>2. i > 1 => m.entries[i-1].term <= m.entries[i].term
      <4> HAVE i > 1
      <4>1. i - 1 \in 1..Len(m.entries) /\ k + (i - 1) - 1 = j - 1 /\ j > 1
        BY <1>1, <1>2, <1>7, <2>1
      <4>2. m.entries[i-1] = s.log[j-1]
        BY <2>1, <4>1
      <4> HIDE DEF j
      <4> QED
        BY <2>2, <3>1, <4>1, <4>2
    <3>3. i = 1 => m.prevTerm <= m.entries[i].term
      <4> HAVE i = 1
      <4>1. j = k
        BY <1>2
      <4>2. s.log[k].term \in Nat
        BY <2>2, <3>1, <4>1
      <4> HIDE DEF j
      <4> QED
        BY <1>2, <1>5, <1>7, <2>2, <3>1, <4>1, <4>2
    <3> QED
      BY <3>2, <3>3
  <2> HIDE DEF k
  <2>6. GoodBatch(m)
    BY <2>4, <2>5 DEF GoodBatch
  <2> QED
    BY <1>3, <2>6 DEF GoodRpc, GoodNode
<1> QED
  BY <1>6, <1>7

\* Arithmetic: the position before one in the second part of a joined log.
LEMMA OneBefore ==
    ASSUME NEW i, NEW k, NEW c \in Nat, NEW l \in Nat,
           i \in 1..l, k = c + i, i > 1
    PROVE  i - 1 \in 1..l /\ k - 1 = c + (i - 1)
OBVIOUS

\* Two logs joined where the terms do not decrease and the indices go on.
LEMMA GoodJoin ==
    ASSUME NEW a \in Seq(Entry), NEW b \in Seq(Entry), NEW c \in 0..Len(a), NEW t \in Nat,
           NEW new, new = SubSeq(a, 1, c) \o b,
           \A k \in 1..c : /\ a[k].index = k - 1 /\ k <= a[k].term /\ a[k].term <= t
                           /\ k > 1 => a[k-1].term <= a[k].term,
           \A i \in 1..Len(b) : /\ b[i].index = c + i - 1 /\ c + i <= b[i].term /\ b[i].term <= t
                                /\ i > 1 => b[i-1].term <= b[i].term,
           c > 0 /\ Len(b) > 0 => a[c].term <= b[1].term
    PROVE  GoodLog(new, t)
<1>1. Len(SubSeq(a, 1, c)) = c /\ \A k \in 1..c : SubSeq(a, 1, c)[k] = a[k]
  OBVIOUS
<1>2. SubSeq(a, 1, c) \in Seq(Entry) /\ c \in Nat /\ Len(b) \in Nat
  BY SMTT(40)
<1>3. /\ Len(new) = c + Len(b)
      /\ \A k \in 1..c : new[k] = a[k]
      /\ \A i \in 1..Len(b) : new[c + i] = b[i]
  BY <1>1, <1>2, SMTT(40)
<1>4. ASSUME NEW k \in 1..Len(new)
      PROVE  /\ new[k].index = k - 1 /\ k <= new[k].term /\ new[k].term <= t
             /\ k > 1 => new[k-1].term <= new[k].term
  <2>1. CASE k \in 1..c
    <3>1. k > 1 => k - 1 \in 1..c
      BY <2>1, SMTT(40)
    <3> QED
      BY <1>3, <2>1, <3>1
  <2>2. CASE k \notin 1..c
    <3> DEFINE i == k - c
    <3>0. k \in Nat /\ i \in 1..Len(b) /\ k = c + i
      <4> DEFINE L == Len(b)
      <4>1. k \in 1..c+L /\ L \in Nat
        BY <1>2, <1>3
      <4> HIDE DEF L
      <4>2. i \in 1..L /\ k = c + i /\ k \in Nat
        BY <1>2, <2>2, <4>1
      <4> QED
        BY <4>2 DEF L
    <3> HIDE DEF i
    <3>1. i \in 1..Len(b) /\ k = c + i /\ new[k] = b[i]
      BY <1>3, <3>0
    <3>2. CASE i = 1
      <4>1. k > 1 => c \in 1..c /\ k - 1 = c
        BY <1>2, <3>0, <3>2
      <4>2. k > 1 => new[k-1] = a[c]
        BY <1>3, <4>1
      <4> QED
        BY <1>2, <3>1, <3>2, <4>1, <4>2
    <3>3. CASE i > 1
      <4>1. i - 1 \in 1..Len(b) /\ k - 1 = c + (i - 1)
        BY <1>2, <3>1, <3>3, OneBefore
      <4>2. new[k-1] = b[i-1]
        BY <1>3, <4>1
      <4>3. b[i-1].term <= b[i].term
        BY <3>1, <3>3
      <4>4. b[i].index = c + i - 1 /\ c + i <= b[i].term /\ b[i].term <= t
        BY <3>1
      <4> QED
        BY <3>1, <4>2, <4>3, <4>4, SMTT(40)
    <3> QED
      BY <1>2, <3>1, <3>2, <3>3, SMTT(40)
  <2> QED
    BY <2>1, <2>2
<1> QED
  BY <1>4 DEF GoodLog

\* The previous entry of an accepted request is found where its index says.
LEMMA GoodPrev ==
    ASSUME NEW s \in NodeStates, GoodNode(s), NEW m \in AEReq, PrevLogOK(s, m),
           NEW k, k = MergePoint(s, m)
    PROVE  /\ k \in 0..Len(s.log) /\ k = m.prevIdx + 1
           /\ k > 0 => s.log[k].term = m.prevTerm
<1>1. s.log \in Seq(Entry) /\ Len(s.log) \in Nat /\ s.snap = Nil
  BY GoodLen DEF GoodNode
<1>2. m.prevIdx \in Index
  BY DEF AEReq
<1>3. CASE m.prevIdx < 0
  BY <1>1, <1>2, <1>3 DEF MergePoint, Index
<1>4. CASE ~(m.prevIdx < 0)
  <2>1. k = FindArrayIdx(s.log, m.prevIdx)
    BY <1>4 DEF MergePoint
  <2>2. k # 0 /\ s.log[k].term = m.prevTerm
    BY <1>1, <1>4, <2>1 DEF PrevLogOK
  <2>3. k = IF m.prevIdx \in 0..Len(s.log)-1 THEN m.prevIdx + 1 ELSE 0
    BY <1>1, <1>2, <2>1, FindGood DEF GoodNode
  <2> QED
    BY <1>1, <2>2, <2>3
<1> QED
  BY <1>3, <1>4

\* No batch overflows the array.
LEMMA GoodFits ==
    ASSUME NEW s \in NodeStates, GoodNode(s), NEW m \in AEReq, m.type = "request", GoodRpc(m),
           PrevLogOK(s, m)
    PROVE  ~Overflows(s, m)
<1> DEFINE k == MergePoint(s, m)
           L == Len(m.entries)
<1>1. Len(s.log) \in Nat /\ Len(s.log) < LogCap
  BY GoodLen
<1>2. k \in 0..Len(s.log) /\ k = m.prevIdx + 1
  BY GoodPrev
<1>3. m.entries \in Seq(Entry) /\ L \in Nat /\ m.term \in Nat
  BY DEF AEReq
<1>4. m.term < LogCap
  BY <1>3, NoCompactionAssumption, BoundsAssumption, LogCapAssumption DEF GoodRpc
<1>5. CASE L = 0
  BY <1>1, <1>2, <1>5, LogCapAssumption DEF Overflows
<1>6. CASE L # 0
  <2>1. L \in 1..L
    BY <1>3, <1>6
  <2>2. m.entries[L].index \in Nat /\ m.entries[L].term \in Nat
    BY <1>3, <2>1, EntryFields
  <2>3. m.entries[L].index = m.prevIdx + L /\ m.entries[L].index < m.entries[L].term
        /\ m.entries[L].term <= m.term
    BY <2>1 DEF GoodRpc, GoodBatch
  <2>4. m.prevIdx \in Index
    BY DEF AEReq
  <2>5. k + L < LogCap
    <3> HIDE DEF L, k
    <3> QED
      BY <1>2, <1>3, <1>4, <2>2, <2>3, <2>4, LogCapAssumption, SMTT(40) DEF Index
  <2>6. k + L \in Int
    BY <1>2, <1>3
  <2> QED
    BY <2>5, <2>6, LogCapAssumption DEF Overflows
<1> QED
  BY <1>5, <1>6

\* handleAppendEntries: a batch that is accepted continues the log it is joined to.
LEMMA GoodHandle ==
    ASSUME NEW s \in NodeStates, GoodNode(s), NEW data \in Seq(Command),
           NEW m \in AEReq, m.type = "request", GoodRpc(m),
           NEW r, r = HandleAppendEntries(s, m, data)
    PROVE  r \in NodeStates /\ GoodNode(r)
<1>1. /\ m.term \in Nat /\ m.leader \in Server \cup {Nil} /\ m.entries \in Seq(Entry)
      /\ m.commit \in Index /\ m.prevIdx \in Index
  BY DEF AEReq
<1>2. /\ r \in NodeStates
      /\ m.term < s.currentTerm => r = s
      /\ m.term >= s.currentTerm => r.currentTerm = m.term /\ r.role = Follower
  BY <1>1, HandleAppendEntriesEffect
<1>3. s.log \in Seq(Entry) /\ s.currentTerm \in Nat /\ Len(s.log) \in Nat
  BY GoodLen
<1>4. CASE m.term < s.currentTerm
  BY <1>2, <1>4
<1>5. CASE m.term >= s.currentTerm
  <2>1. r.currentTerm = m.term /\ r.role = Follower /\ r.currentTerm <= MaxTerm
    BY <1>2, <1>5 DEF GoodRpc
  <2>2. CASE SameLog(s, r)
    BY <1>2, <1>5, <2>1, <2>2, GoodKept DEF Follower, Candidate, SameLog
  <2>3. ASSUME NEW l \in NodeStates, SameLog(s, l), PrevLogOK(s, m),
               IF Overflows(s, m) THEN r = TakeSnapshot(l, data)
               ELSE r = CommitFrom(MergeEntries(l, MergePoint(s, m), m.entries), m)
        PROVE  GoodNode(r)
    <3> DEFINE k  == MergePoint(s, m)
               es == m.entries
               j  == MergeEntries(l, k, es)
    <3>1. l.log = s.log /\ l.snap = Nil
      BY <2>3 DEF SameLog, GoodNode
    <3>2. k \in 0..Len(l.log) /\ k = m.prevIdx + 1 /\ (k > 0 => s.log[k].term = m.prevTerm)
      BY <2>3, <3>1, GoodPrev
    <3>3. r = CommitFrom(j, m)
      BY <2>3, GoodFits
    <3> HIDE DEF k, j
    <3>4. j \in NodeStates
      BY <1>1, <3>2, MergeEntriesType DEF j
    <3>5. /\ j.snap = l.snap
          /\ \/ j.log = l.log
             \/ \E d \in 1..Len(es) :
                   /\ k + d - 1 \in 0..Len(l.log)
                   /\ d > 1 => l.log[k+d-1].term = es[d-1].term
                   /\ j.log = SubSeq(l.log, 1, k + d - 1) \o SubSeq(es, d, Len(es))
      <4>1. j.snap = l.snap /\ Merged(l.log, k, es, j.log)
        BY <1>1, <3>2, MergeEntriesLog DEF j
      <4>2. Differing(l.log, k, es) \subseteq 1..Len(es)
        BY DEF Differing
      <4> HIDE DEF es
      <4> QED
        BY <4>1, <4>2 DEF Merged
    <3>6. SameLog(j, r)
      BY <3>3, <3>4, QuietLog
    <3>7. \A i \in 1..Len(s.log) :
             /\ s.log[i].term \in Nat /\ s.log[i].index = i - 1
             /\ i <= s.log[i].term /\ s.log[i].term <= m.term
             /\ i > 1 => s.log[i-1].term <= s.log[i].term
      <4>1. \A i \in 1..Len(s.log) : s.log[i].term \in Nat
        BY <1>3, EntryFields
      <4> QED
        BY <1>1, <1>3, <1>5, <4>1, SMTT(40) DEF GoodNode, GoodLog
    <3>8. GoodLog(j.log, m.term)
      <4>1. CASE j.log = l.log
        BY <3>1, <3>7, <4>1 DEF GoodLog
      <4>2. ASSUME NEW d \in 1..Len(es), k + d - 1 \in 0..Len(l.log),
                   d > 1 => l.log[k+d-1].term = es[d-1].term,
                   j.log = SubSeq(l.log, 1, k + d - 1) \o SubSeq(es, d, Len(es))
            PROVE  GoodLog(j.log, m.term)
        <5> DEFINE c == k + d - 1
                   b == SubSeq(es, d, Len(es))
        <5>1. c \in 0..Len(s.log) /\ Len(es) \in Nat
          BY <1>1, <3>1, <4>2
        <5>2. /\ b \in Seq(Entry) /\ Len(b) = Len(es) - d + 1
              /\ \A i \in 1..Len(b) : b[i] = es[d + i - 1] /\ d + i - 1 \in 1..Len(es)
          BY <1>1, <5>1
        <5>3. \A i \in 1..Len(es) :
                 /\ es[i].index \in Nat /\ es[i].term \in Nat
                 /\ es[i].index = m.prevIdx + i
                 /\ es[i].index < es[i].term /\ es[i].term <= m.term
                 /\ i = 1 => m.prevTerm <= es[i].term
                 /\ i > 1 => es[i-1].term <= es[i].term
          BY <1>1, EntryFields DEF GoodRpc, GoodBatch
        <5> HIDE DEF b
        <5>4. ASSUME NEW i \in 1..Len(b)
              PROVE  /\ b[i].index = c + i - 1 /\ c + i <= b[i].term /\ b[i].term <= m.term
                     /\ i > 1 => b[i-1].term <= b[i].term
          <6> DEFINE x == d + i - 1
          <6>1. x \in 1..Len(es) /\ b[i] = es[x] /\ m.prevIdx + x = c + i - 1
            <7>1. x \in 1..Len(es) /\ b[i] = es[x]
              BY <5>2
            <7>2. m.prevIdx \in Int /\ d \in Int /\ i \in Int /\ k = m.prevIdx + 1
              BY <1>1, <3>2, <5>1, <5>2, SMTT(40) DEF Index
            <7>3. m.prevIdx + x = c + i - 1
              BY <7>2
            <7> QED
              BY <7>1, <7>3
          <6>2. i > 1 => i - 1 \in 1..Len(b) /\ d + (i - 1) - 1 = x - 1 /\ x > 1
            BY <5>1, <5>2
          <6>3. i > 1 => b[i-1] = es[x-1] /\ x > 1
            BY <5>2, <6>2
          <6>4. c + i \in Nat /\ (c + i - 1) + 1 = c + i
            BY <5>1
          <6> HIDE DEF x, c
          <6>5. i > 1 => b[i-1].term <= b[i].term
            BY <5>3, <6>1, <6>3
          <6>6. b[i].index = c + i - 1 /\ b[i].term <= m.term
            BY <5>3, <6>1
          <6>7. c + i <= b[i].term
            BY <5>3, <6>1, <6>4, SMTT(40)
          <6> QED
            BY <6>5, <6>6, <6>7
        <5>5. c > 0 /\ Len(b) > 0 => s.log[c].term <= b[1].term
          <6> HAVE c > 0 /\ Len(b) > 0
          <6>1. 1 \in 1..Len(b) /\ b[1] = es[d]
            BY <5>1, <5>2
          <6>2. CASE d = 1
            <7>1. c = k /\ k > 0
              BY <3>2, <6>2
            <7>2. s.log[c].term = m.prevTerm
              BY <3>2, <7>1
            <7> QED
              BY <5>3, <6>1, <6>2, <7>2
          <6>3. CASE d > 1
            BY <3>1, <4>2, <5>3, <6>1, <6>3
          <6> QED
            BY <6>2, <6>3
        <5>6. \A i \in 1..c : /\ s.log[i].index = i - 1 /\ i <= s.log[i].term
                              /\ s.log[i].term <= m.term
                              /\ i > 1 => s.log[i-1].term <= s.log[i].term
          BY <3>7, <5>1
        <5>7. j.log = SubSeq(s.log, 1, c) \o b
          BY <3>1, <4>2 DEF b
        <5> HIDE DEF c
        <5> QED
          <6>1. \A i \in 1..Len(b) :
                   /\ b[i].index = c + i - 1 /\ c + i <= b[i].term /\ b[i].term <= m.term
                   /\ i > 1 => b[i-1].term <= b[i].term
            BY <5>4
          <6>2. b \in Seq(Entry)
            BY <5>2
          <6> QED
            BY <1>1, <1>3, <5>1, <5>5, <5>6, <5>7, <6>1, <6>2, GoodJoin, ZenonT(60)
      <4> QED
        BY <3>5, <4>1, <4>2
    <3> QED
      BY <2>1, <3>1, <3>5, <3>6, <3>8 DEF GoodNode, SameLog, Follower, Candidate
  <2> QED
    BY <1>1, <1>2, <2>2, <2>3, HandleAppendEntriesLog
<1> QED
  BY <1>1, <1>3, <1>4, <1>5

\* Start reads a log as it was stored.
LEMMA GoodRestored ==
    ASSUME NEW d \in Disk, GoodDisk(d)
    PROVE  GoodNode(Restored(d))
<1> DEFINE k == Min({LogCap, Len(d.log)})
           s == IF d.currentTerm > 0
                THEN [NewNodeState EXCEPT !.currentTerm = d.currentTerm,
                                          !.votedFor    = d.votedFor,
                                          !.log         = SubSeq(d.log, 1, k)]
                ELSE NewNodeState
<1>1. d.log \in Seq(Entry) /\ Len(d.log) \in Nat /\ d.currentTerm \in Nat
  BY DEF Disk
<1>2. k \in 0..Len(d.log)
  <2>1. \E x \in {LogCap, Len(d.log)} : \A y \in {LogCap, Len(d.log)} : x <= y
    BY <1>1, LogCapAssumption
  <2>2. k \in {LogCap, Len(d.log)} /\ k <= Len(d.log)
    BY <2>1 DEF Min
  <2> QED
    BY <1>1, <2>2, LogCapAssumption
<1>3. Restored(d) = s
  BY DEF Restored, GoodDisk
<1>4. Restored(d).role = Follower
  BY RestoredType
<1> HIDE DEF k
<1>5. CASE d.currentTerm > 0
  <2>1. s.log = SubSeq(d.log, 1, k) /\ s.snap = Nil /\ s.currentTerm = d.currentTerm
    BY <1>5 DEF NewNodeState
  <2>2. Len(s.log) = k /\ \A i \in 1..k : s.log[i] = d.log[i]
    BY <1>1, <1>2, <2>1
  <2> HIDE DEF s
  <2>3. ASSUME NEW i \in 1..k
        PROVE  /\ s.log[i].index = i - 1
               /\ i <= s.log[i].term /\ s.log[i].term <= s.currentTerm
               /\ i > 1 => s.log[i-1].term <= s.log[i].term
    <3>1. i \in 1..Len(d.log) /\ (i > 1 => i - 1 \in 1..k)
      BY <1>1, <1>2
    <3> QED
      BY <2>1, <2>2, <3>1 DEF GoodDisk, GoodLog
  <2>4. GoodLog(s.log, s.currentTerm)
    BY <2>2, <2>3 DEF GoodLog
  <2> QED
    BY <1>3, <1>4, <2>1, <2>4 DEF GoodNode, GoodDisk, Follower, Candidate
<1>6. CASE ~(d.currentTerm > 0)
  <2>1. s.log = <<>> /\ s.snap = Nil /\ s.currentTerm = 0
    BY <1>6 DEF NewNodeState
  <2> HIDE DEF s
  <2>2. GoodLog(s.log, s.currentTerm)
    BY <2>1 DEF GoodLog
  <2> QED
    BY <1>3, <1>4, <2>1, <2>2, BoundsAssumption DEF GoodNode, Follower, Candidate
<1> QED
  BY <1>5, <1>6

-----------------------------------------------------------------------------
(***************************************************************************)
(* The steps.                                                              *)
(***************************************************************************)
\* A step of one node: what has to be shown of it.
LEMMA LogStep ==
    ASSUME TypeOK, LogInv, NEW n \in Server,
           \A p \in Server \ {n} : /\ node'[p] = node[p] /\ disk'[p] = disk[p]
                                   /\ loop'[p] = loop[p] /\ held'[p] = held[p],
           GoodNode(node'[n]), GoodDisk(disk'[n]),
           loop'[n] \in {Candidate, "won"} => OlderLog(node'[n]),
           held'[n] # Nil => held'[n].term <= MaxTerm,
           \A m \in voteReqs' \cup voteResps' : m.term <= MaxTerm,
           \A m \in DOMAIN aeRpcs' : GoodRpc(m)
    PROVE  LogInv'
<1>1. ASSUME NEW p \in Server
      PROVE  /\ GoodNode(node'[p]) /\ GoodDisk(disk'[p])
             /\ loop'[p] \in {Candidate, "won"} => OlderLog(node'[p])
             /\ held'[p] # Nil => held'[p].term <= MaxTerm
  <2>1. CASE p = n
    BY <2>1
  <2>2. CASE p # n
    <3>1. node'[p] = node[p] /\ disk'[p] = disk[p] /\ loop'[p] = loop[p] /\ held'[p] = held[p]
      BY <2>2
    <3> QED
      BY <3>1 DEF LogInv
  <2> QED
    BY <2>1, <2>2
<1> QED
  BY <1>1 DEF LogInv

\* persistState stores the log the node has; there is no snapshot to store.
LEMMA PersistGood ==
    ASSUME TypeOK, LogInv, NEW n \in Server, NEW s \in NodeStates, GoodNode(s), Persist(n, s)
    PROVE  /\ node'[n] = s /\ GoodDisk(disk'[n])
           /\ \A p \in Server \ {n} : node'[p] = node[p] /\ disk'[p] = disk[p]
<1>1. node \in [Server -> NodeStates] /\ disk \in [Server -> Disk]
  BY DEF TypeOK
<1>2. s.snap = Nil /\ disk[n].snap = Nil
  BY DEF GoodNode, LogInv, GoodDisk
<1>3. node'[n] = s
  BY <1>1, <1>2 DEF Persist, NoteStored
<1>4. disk'[n] = Stored(s, disk[n])
  BY <1>1 DEF Persist
<1>5. GoodDisk(Stored(s, disk[n]))
  BY <1>2 DEF Stored, GoodDisk, GoodNode
<1> QED
  BY <1>1, <1>3, <1>4, <1>5 DEF Persist

\* A step in memory that leaves log, term and role.
LEMMA QuietGood ==
    ASSUME TypeOK, LogInv, NEW n \in Server, NEW s \in NodeStates, Update(n, s),
           s.log = node[n].log, s.snap = node[n].snap,
           s.currentTerm = node[n].currentTerm, s.role = node[n].role,
           NEW l, loop' = [loop EXCEPT ![n] = l],
           l \in {Candidate, "won"} => OlderLog(node[n]),
           held' = held, voteReqs' \subseteq voteReqs, voteResps' \subseteq voteResps,
           \A m \in DOMAIN aeRpcs' : GoodRpc(m)
    PROVE  LogInv'
<1>1. /\ node'[n] = s /\ disk' = disk /\ \A p \in Server : p # n => node'[p] = node[p]
  BY UpdateStep
<1>2. node[n] \in NodeStates /\ GoodNode(node[n]) /\ GoodDisk(disk[n]) /\ loop \in [Server -> Stages]
      /\ node[n].currentTerm \in Nat
  BY DEF TypeOK, LogInv, NodeStates
<1>3. s.currentTerm >= node[n].currentTerm /\ s.currentTerm <= MaxTerm
  BY <1>2 DEF GoodNode
<1>4. GoodNode(s) /\ (OlderLog(node[n]) => OlderLog(s))
  BY <1>2, <1>3, GoodKept
<1>5. loop'[n] = l /\ \A p \in Server \ {n} : loop'[p] = loop[p]
  BY <1>2
<1>6. \A m \in voteReqs' \cup voteResps' : m.term <= MaxTerm
  BY DEF LogInv
<1>7. held'[n] # Nil => held'[n].term <= MaxTerm
  BY DEF LogInv
<1> QED
  BY <1>1, <1>2, <1>4, <1>5, <1>6, <1>7, LogStep

\* checkLogsToApply, the start of a select, connectedChan, a timer that is only
\* started again, a vote that is drained, and the heartbeat.
LEMMA QuietActions ==
    ASSUME TypeOK, LogInv, NEW n \in Server,
           \/ ApplyLog(n) \/ EnterSelect(n) \/ BecomeConnected(n) \/ TimeoutUnconnected(n)
           \/ (\E r \in voteResps : DrainVote(n, r)) \/ Heartbeat(n)
    PROVE  LogInv'
<1>1. node[n] \in NodeStates /\ GoodNode(node[n]) /\ loop \in [Server -> Stages]
      /\ Peers(n) \in SUBSET Server
  BY DEF TypeOK, LogInv, Peers
<1>2. \A m \in DOMAIN aeRpcs : GoodRpc(m)
  BY DEF LogInv
<1>3. CASE ApplyLog(n)
  <2> DEFINE a == node[n].lastApplied + 1
             s == [node[n] EXCEPT !.lastApplied = a]
  <2>1. a \in Index
    BY <1>1, SMTT(40) DEF NodeStates, Index
  <2>2. Update(n, s) /\ loop[n] = "top" /\ loop' = loop
        /\ UNCHANGED <<held, voteReqs, voteResps, aeRpcs>>
    BY <1>3 DEF ApplyLog, netVars
  <2> HIDE DEF a
  <2>3. /\ s \in NodeStates /\ s.log = node[n].log /\ s.snap = node[n].snap
        /\ s.currentTerm = node[n].currentTerm /\ s.role = node[n].role
    BY <1>1, <2>1 DEF NodeStates
  <2> HIDE DEF s
  <2>4. loop' = [loop EXCEPT ![n] = "top"]
    BY <1>1, <2>2
  <2> QED
    BY <1>2, <2>2, <2>3, <2>4, QuietGood DEF Candidate
<1>4. CASE EnterSelect(n)
  <2> DEFINE s == IF node[n].role = Leader THEN node[n] ELSE CheckElectionTimeout(node[n])
  <2>1. Update(n, s) /\ loop' = [loop EXCEPT ![n] = node[n].role]
        /\ UNCHANGED <<held, voteReqs, voteResps, aeRpcs>>
    BY <1>4 DEF EnterSelect, GoTo, netVars
  <2>2. /\ s \in NodeStates /\ s.log = node[n].log /\ s.snap = node[n].snap
        /\ s.currentTerm = node[n].currentTerm /\ s.role = node[n].role
    BY <1>1, TimerType, TimerKeeps, QuietLog DEF SameBallot, SameLog
  <2> HIDE DEF s
  <2>3. node[n].role \in {Candidate, "won"} => OlderLog(node[n])
    BY <1>1 DEF GoodNode, NodeStates, Follower, Candidate, Leader
  <2> QED
    BY <1>2, <2>1, <2>2, <2>3, QuietGood
<1>5. CASE BecomeConnected(n) \/ \E r \in voteResps : DrainVote(n, r)
  <2> DEFINE s == AfterSelect(n, node[n])
  <2>1. Update(n, s) /\ loop' = [loop EXCEPT ![n] = "top"]
        /\ UNCHANGED <<held, voteReqs, aeRpcs>> /\ voteResps' \subseteq voteResps
    BY <1>5 DEF BecomeConnected, DrainVote, GoTo, netVars
  <2>2. s \in NodeStates /\ SameBallot(node[n], s)
    BY <1>1, AfterSelectKeeps
  <2>3. s.log = node[n].log /\ s.snap = node[n].snap
    BY <1>1, QuietLog DEF AfterSelect, SameLog
  <2> HIDE DEF s
  <2> QED
    BY <1>2, <2>1, <2>2, <2>3, QuietGood DEF SameBallot, Candidate
<1>6. CASE TimeoutUnconnected(n)
  <2> DEFINE s == StopElectionTimeout(node[n])
  <2>1. Update(n, s) /\ loop' = [loop EXCEPT ![n] = "top"]
        /\ UNCHANGED <<held, voteReqs, voteResps, aeRpcs>>
    BY <1>6 DEF TimeoutUnconnected, GoTo, netVars
  <2>2. /\ s \in NodeStates /\ s.log = node[n].log /\ s.snap = node[n].snap
        /\ s.currentTerm = node[n].currentTerm /\ s.role = node[n].role
    BY <1>1, TimerType, TimerKeeps, QuietLog DEF SameBallot, SameLog
  <2> HIDE DEF s
  <2> QED
    BY <1>2, <2>1, <2>2, QuietGood DEF Candidate
<1>7. CASE Heartbeat(n)
  <2> DEFINE w == ArgsBuilt(node[n], Peers(n))
             s == CheckCommits(w)
  <2>1. Update(n, s) /\ SendAE(AEReqsOf(n, node[n])) /\ loop' = [loop EXCEPT ![n] = "top"]
        /\ UNCHANGED <<held, voteReqs, voteResps>>
    BY <1>7 DEF Heartbeat, GoTo
  <2>2. w \in NodeStates /\ SameBallot(node[n], w) /\ SameLog(node[n], w)
    BY <1>1, ArgsBuiltType, CommitKeeps, QuietLog
  <2> HIDE DEF w
  <2>3. s \in NodeStates /\ SameBallot(w, s) /\ SameLog(w, s)
    BY <2>2, CheckCommitsType, CommitKeeps, QuietLog
  <2> HIDE DEF s
  <2>4. DOMAIN aeRpcs' \subseteq DOMAIN aeRpcs \cup AEReqsOf(n, node[n])
    BY <1>1, <2>1, SendAEType
  <2>5. \A m \in AEReqsOf(n, node[n]) : GoodRpc(m)
    BY <1>1, GoodRequest DEF AEReqsOf
  <2> QED
    BY <1>2, <2>1, <2>2, <2>3, <2>4, <2>5, QuietGood DEF SameBallot, SameLog, Candidate
<1> QED
  BY <1>3, <1>4, <1>5, <1>6, <1>7

\* startElection and persistState, in a follower and in a candidate.
LEMMA ElectionGood ==
    ASSUME TypeOK, LogInv, NEW n \in Server, FollowerTimeout(n) \/ CandidateTimeout(n)
    PROVE  LogInv'
<1> DEFINE z == StopElectionTimeout(node[n])
           s == StartElection(z, n)
<1>1. node[n] \in NodeStates /\ GoodNode(node[n]) /\ node[n].currentTerm \in Nat
      /\ loop \in [Server -> Stages]
  BY DEF TypeOK, LogInv, NodeStates
<1>2. z \in NodeStates /\ SameBallot(node[n], z) /\ SameLog(node[n], z)
  BY <1>1, TimerType, TimerKeeps, QuietLog
<1>3. StartsElection(n) /\ loop' = [loop EXCEPT ![n] = loop'[n]]
  BY <1>1 DEF FollowerTimeout, CandidateTimeout, GoTo
<1>4. Persist(n, s) /\ node[n].currentTerm < MaxTerm
      /\ UNCHANGED <<held, voteReqs, voteResps, aeRpcs>>
  BY <1>3 DEF StartsElection, netVars
<1> HIDE DEF z
<1>5. z.currentTerm >= node[n].currentTerm /\ z.currentTerm <= MaxTerm
      /\ z.currentTerm < MaxTerm
  BY <1>1, <1>2, <1>4 DEF SameBallot, GoodNode
<1>6. GoodNode(z)
  BY <1>1, <1>2, <1>5, GoodKept DEF SameBallot, SameLog
<1>7. s \in NodeStates /\ GoodNode(s) /\ OlderLog(s)
  BY <1>2, <1>5, <1>6, GoodStart, StartElectionType
<1> HIDE DEF s
<1>8. /\ node'[n] = s /\ GoodDisk(disk'[n])
      /\ \A p \in Server \ {n} : node'[p] = node[p] /\ disk'[p] = disk[p]
  BY <1>4, <1>7, PersistGood
<1>9. /\ \A p \in Server \ {n} : loop'[p] = loop[p]
      /\ held' = held /\ (held'[n] # Nil => held'[n].term <= MaxTerm)
      /\ \A m \in voteReqs' \cup voteResps' : m.term <= MaxTerm
      /\ \A m \in DOMAIN aeRpcs' : GoodRpc(m)
  BY <1>1, <1>3, <1>4 DEF LogInv
<1> QED
  BY <1>7, <1>8, <1>9, LogStep

\* prepareRequestVoteRPC puts the node's own term into its requests.
LEMMA RequestVotesGood ==
    ASSUME TypeOK, LogInv, NEW n \in Server, RequestVotes(n)
    PROVE  LogInv'
<1>1. /\ voteReqs' = voteReqs \cup VoteReqsOf(n, node[n])
      /\ loop' = [loop EXCEPT ![n] = "top"]
      /\ UNCHANGED <<node, disk, held, voteResps, aeRpcs>>
  BY DEF RequestVotes, GoTo
<1>2. \A m \in VoteReqsOf(n, node[n]) : m.term = node[n].currentTerm
  BY DEF VoteReqsOf
<1>3. node[n].currentTerm <= MaxTerm /\ loop \in [Server -> Stages]
  BY DEF LogInv, GoodNode, TypeOK
<1>4. loop'[n] = "top" /\ \A p \in Server \ {n} : loop'[p] = loop[p]
  BY <1>1, <1>3
<1>5. \A m \in voteReqs' \cup voteResps' : m.term <= MaxTerm
  BY <1>1, <1>2, <1>3 DEF LogInv
<1>6. /\ GoodNode(node'[n]) /\ GoodDisk(disk'[n])
      /\ held'[n] # Nil => held'[n].term <= MaxTerm
      /\ \A m \in DOMAIN aeRpcs' : GoodRpc(m)
  BY <1>1 DEF LogInv
<1> QED
  BY <1>1, <1>4, <1>5, <1>6, LogStep DEF Candidate

\* handleRequestToVote leaves the log; the term is the node's or the request's.
LEMMA VoteReqGood ==
    ASSUME TypeOK, LogInv, NEW n \in Server, NEW m \in voteReqs, HandleVoteReq(n, m)
    PROVE  LogInv'
<1> DEFINE b == BeforeRPC(n)
           h == HandleRequestToVote(b, m)
           s == AfterSelect(n, h)
           resp == [src |-> n, dst |-> m.src, term |-> h.currentTerm, granted |-> GrantsVote(b, m)]
<1>1. node[n] \in NodeStates /\ GoodNode(node[n]) /\ node[n].currentTerm \in Nat
      /\ loop \in [Server -> Stages] /\ m.term \in Nat /\ m.src \in Server /\ m.term <= MaxTerm
  BY DEF TypeOK, LogInv, NodeStates, VoteReq
<1>2. b \in NodeStates /\ SameBallot(node[n], b) /\ SameLog(node[n], b)
  <2>1. SameLog(node[n], node[n])
    BY DEF SameLog
  <2> QED
    BY <1>1, <2>1, BeforeRPCKeeps, QuietLog DEF BeforeRPC
<1>3. /\ Persist(n, s)
      /\ voteResps' \subseteq voteResps \cup {resp} /\ voteReqs' \subseteq voteReqs
      /\ loop' = [loop EXCEPT ![n] = "top"] /\ UNCHANGED <<held, aeRpcs>>
  BY DEF HandleVoteReq, GoTo
<1> HIDE DEF b
<1>4. /\ h \in NodeStates /\ SameLog(b, h) /\ BallotGrows(b, h)
      /\ h.role \in {b.role, Follower}
  BY <1>1, <1>2, HandleRequestToVoteType, HandleRequestToVoteEffect, VotingLog
<1>5. h.currentTerm \in {b.currentTerm, m.term}
  <2> DEFINE g == TermSeen(b, m.term)
  <2>1. g \in NodeStates /\ g.currentTerm \in {b.currentTerm, m.term}
    BY <1>1, <1>2, TermSeenType, ZenonT(60) DEF TermSeen, UpdateCurrentTerm, NodeStates
  <2>2. h.currentTerm = g.currentTerm
    <3> HIDE DEF g
    <3>1. h = g \/ h = [StopElectionTimeout(g) EXCEPT
                           !.role = Follower, !.votedFor = m.src, !.currentLeader = m.src]
      BY DEF HandleRequestToVote, g
    <3>2. [StopElectionTimeout(g) EXCEPT
             !.role = Follower, !.votedFor = m.src, !.currentLeader = m.src].currentTerm
            = g.currentTerm
      BY <2>1 DEF StopElectionTimeout, NodeStates
    <3> QED
      BY <3>1, <3>2
  <2> QED
    BY <2>1, <2>2
<1> HIDE DEF h
<1>6. s \in NodeStates /\ SameBallot(h, s) /\ SameLog(h, s)
  <2>1. SameLog(h, h)
    BY DEF SameLog
  <2> QED
    BY <1>4, <2>1, AfterSelectKeeps, QuietLog DEF AfterSelect
<1> HIDE DEF s
<1>7. h.currentTerm <= MaxTerm
  BY <1>1, <1>2, <1>5 DEF SameBallot, GoodNode
<1>8. s.currentTerm >= node[n].currentTerm /\ s.currentTerm <= MaxTerm
      /\ (s.role = Candidate => node[n].role = Candidate)
  BY <1>2, <1>4, <1>6, <1>7 DEF SameBallot, BallotGrows, Follower, Candidate
<1>9. GoodNode(s)
  BY <1>1, <1>2, <1>4, <1>6, <1>8, GoodKept DEF SameLog
<1>10. /\ node'[n] = s /\ GoodDisk(disk'[n])
       /\ \A p \in Server \ {n} : node'[p] = node[p] /\ disk'[p] = disk[p]
  BY <1>3, <1>6, <1>9, PersistGood
<1>11. resp.term <= MaxTerm
  BY <1>7
<1> HIDE DEF resp
<1>12. /\ loop'[n] = "top" /\ \A p \in Server \ {n} : loop'[p] = loop[p]
       /\ held' = held /\ (held'[n] # Nil => held'[n].term <= MaxTerm)
       /\ \A r \in voteReqs' \cup voteResps' : r.term <= MaxTerm
       /\ \A r \in DOMAIN aeRpcs' : GoodRpc(r)
  BY <1>1, <1>3, <1>11 DEF LogInv
<1> QED
  BY <1>9, <1>10, <1>12, LogStep DEF Candidate

\* A candidate that counts a vote, and wins, has an older log than its term.
LEMMA CountVoteGood ==
    ASSUME TypeOK, LogInv, NEW n \in Server, NEW r \in voteResps, CountVote(n, r)
    PROVE  LogInv'
<1> DEFINE s == UpdateElection(node[n], r)
<1>1. node[n] \in NodeStates /\ GoodNode(node[n]) /\ node[n].currentTerm \in Nat
      /\ loop \in [Server -> Stages] /\ r.term \in Nat /\ r.term <= MaxTerm
      /\ OlderLog(node[n]) /\ GoodDisk(disk[n])
  BY DEF TypeOK, LogInv, NodeStates, VoteResp, CountVote
<1>2. /\ Update(n, s) /\ loop' = [loop EXCEPT ![n] = loop'[n]]
      /\ voteResps' \subseteq voteResps /\ UNCHANGED <<held, voteReqs, aeRpcs>>
  BY <1>1 DEF CountVote, GoTo
<1>3. s \in NodeStates /\ SameLog(node[n], s)
  BY <1>1, UpdateElectionType, VotingLog
<1>4. /\ r.term > node[n].currentTerm => s.currentTerm = r.term /\ s.role = Follower
      /\ r.term <= node[n].currentTerm =>
            s.currentTerm = node[n].currentTerm /\ s.role = node[n].role
  BY <1>1, UpdateElectionEffect
<1> HIDE DEF s
<1>5. s.currentTerm >= node[n].currentTerm /\ s.currentTerm <= MaxTerm
      /\ (s.role = Candidate => node[n].role = Candidate)
  BY <1>1, <1>4 DEF GoodNode, Follower, Candidate
<1>6. GoodNode(s) /\ OlderLog(s)
  BY <1>1, <1>3, <1>5, GoodKept DEF SameLog
<1>7. node'[n] = s /\ disk' = disk /\ \A p \in Server : p # n => node'[p] = node[p]
  BY <1>2, <1>3, UpdateStep
<1>8. /\ \A p \in Server \ {n} : loop'[p] = loop[p]
      /\ held' = held /\ (held'[n] # Nil => held'[n].term <= MaxTerm)
      /\ \A m \in voteReqs' \cup voteResps' : m.term <= MaxTerm
      /\ \A m \in DOMAIN aeRpcs' : GoodRpc(m)
  BY <1>1, <1>2 DEF LogInv
<1> QED
  BY <1>1, <1>6, <1>7, <1>8, LogStep

\* winElection, persistState and the first AppendEntries.
LEMMA BecomeLeaderGood ==
    ASSUME TypeOK, LogInv, NEW n \in Server, BecomeLeader(n)
    PROVE  LogInv'
<1> DEFINE w == WinElection(node[n], n)
           s == ArgsBuilt(w, Peers(n))
<1>1. node[n] \in NodeStates /\ GoodNode(node[n]) /\ OlderLog(node[n])
      /\ loop \in [Server -> Stages] /\ Peers(n) \in SUBSET Server
  BY DEF TypeOK, LogInv, BecomeLeader, Peers
<1>2. w \in NodeStates /\ GoodNode(w)
  BY <1>1, WinElectionType, GoodWin
<1>3. /\ Persist(n, s) /\ SendAE(AEReqsOf(n, w)) /\ loop' = [loop EXCEPT ![n] = "top"]
      /\ UNCHANGED <<held, voteReqs, voteResps>>
  BY DEF BecomeLeader, GoTo
<1> HIDE DEF w
<1>4. s \in NodeStates /\ SameBallot(w, s) /\ SameLog(w, s)
  BY <1>1, <1>2, ArgsBuiltType, CommitKeeps, QuietLog
<1> HIDE DEF s
<1>5. s.currentTerm >= w.currentTerm /\ s.currentTerm <= MaxTerm
      /\ (s.role = Candidate => w.role = Candidate)
  <2>1. w.currentTerm \in Nat
    BY <1>2 DEF NodeStates
  <2> QED
    BY <1>2, <1>4, <2>1 DEF SameBallot, GoodNode
<1>6. GoodNode(s)
  BY <1>2, <1>4, <1>5, GoodKept DEF SameLog
<1>7. /\ node'[n] = s /\ GoodDisk(disk'[n])
      /\ \A p \in Server \ {n} : node'[p] = node[p] /\ disk'[p] = disk[p]
  BY <1>3, <1>4, <1>6, PersistGood
<1>8. DOMAIN aeRpcs' \subseteq DOMAIN aeRpcs \cup AEReqsOf(n, w)
  BY <1>2, <1>3, SendAEType
<1>9. \A m \in AEReqsOf(n, w) : GoodRpc(m)
  BY <1>1, <1>2, GoodRequest DEF AEReqsOf
<1>10. /\ loop'[n] = "top" /\ \A p \in Server \ {n} : loop'[p] = loop[p]
       /\ held' = held /\ (held'[n] # Nil => held'[n].term <= MaxTerm)
       /\ \A m \in voteReqs' \cup voteResps' : m.term <= MaxTerm
       /\ \A m \in DOMAIN aeRpcs' : GoodRpc(m)
  BY <1>1, <1>3, <1>8, <1>9 DEF LogInv
<1> QED
  BY <1>6, <1>7, <1>10, LogStep DEF Candidate

\* handleAppendEntries and persistState; the response carries the node's term.
LEMMA AEReqGood ==
    ASSUME TypeOK, LogInv, NEW n \in Server, NEW m \in DOMAIN aeRpcs, HandleAEReq(n, m)
    PROVE  LogInv'
<1> DEFINE b    == BeforeRPC(n)
           h    == HandleAppendEntries(b, m, sm[n])
           s    == AfterSelect(n, h)
           ok   == AcceptsEntries(b, m)
           resp == AERespTo(m, h, ok)
           rest == aeRpcs (-) SetToBag({m})
<1>1. node[n] \in NodeStates /\ GoodNode(node[n]) /\ node[n].currentTerm \in Nat
      /\ loop \in [Server -> Stages] /\ sm[n] \in Seq(Command) /\ RpcBag(aeRpcs) /\ GoodRpc(m)
  BY DEF TypeOK, LogInv, NodeStates, RpcBag
<1>2. m \in AEReq /\ m.type = "request"
  BY HandleAEReqStep DEF HandleAEReq
<1>3. b \in NodeStates /\ SameBallot(node[n], b) /\ SameLog(node[n], b)
  <2>1. SameLog(node[n], node[n])
    BY DEF SameLog
  <2> QED
    BY <1>1, <2>1, BeforeRPCKeeps, QuietLog DEF BeforeRPC
<1>4. /\ Persist(n, s)
      /\ aeRpcs' = rest \/ aeRpcs' = rest (+) SetToBag({resp})
      /\ loop' = [loop EXCEPT ![n] = "top"]
      /\ UNCHANGED <<held, voteReqs, voteResps>>
  BY DEF HandleAEReq, GoTo
<1> HIDE DEF b
<1>5. GoodNode(b)
  <2>1. b.currentTerm >= node[n].currentTerm /\ b.currentTerm <= MaxTerm
    BY <1>1, <1>3 DEF SameBallot, GoodNode
  <2> QED
    BY <1>1, <1>3, <2>1, GoodKept DEF SameBallot, SameLog
<1>6. h \in NodeStates /\ GoodNode(h)
  BY <1>1, <1>2, <1>3, <1>5, GoodHandle
<1> HIDE DEF h
<1>7. s \in NodeStates /\ SameBallot(h, s) /\ SameLog(h, s)
  <2>1. SameLog(h, h)
    BY DEF SameLog
  <2> QED
    BY <1>6, <2>1, AfterSelectKeeps, QuietLog DEF AfterSelect
<1> HIDE DEF s
<1>8. h.currentTerm \in Nat /\ h.currentTerm <= MaxTerm
  BY <1>6 DEF NodeStates, GoodNode
<1>9. GoodNode(s)
  <2>1. s.currentTerm >= h.currentTerm /\ s.currentTerm <= MaxTerm
    BY <1>7, <1>8 DEF SameBallot
  <2> QED
    BY <1>6, <1>7, <2>1, GoodKept DEF SameBallot, SameLog
<1>10. /\ node'[n] = s /\ GoodDisk(disk'[n])
       /\ \A p \in Server \ {n} : node'[p] = node[p] /\ disk'[p] = disk[p]
  BY <1>4, <1>7, <1>9, PersistGood
<1>11. GoodRpc(resp)
  BY <1>8 DEF AERespTo, GoodRpc
<1>12. resp \in AEResp
  <2>1. ok \in BOOLEAN
    BY DEF AcceptsEntries
  <2>2. m.dst = n /\ m.src \in Server
    BY <1>2 DEF HandleAEReq, AEReq
  <2>3. LastLogIdx(node[m.dst]) \in Index
    BY <1>1, <2>2, LastLogType
  <2> HIDE DEF ok
  <2> QED
    BY <1>8, <2>1, <2>2, <2>3 DEF AERespTo, AEResp
<1> HIDE DEF resp
<1>13. RpcBag(rest) /\ DOMAIN rest \subseteq DOMAIN aeRpcs
  BY <1>1, BagRemoveRpc
<1> HIDE DEF rest
<1>14. DOMAIN (rest (+) SetToBag({resp})) = DOMAIN rest \cup {resp}
  BY <1>12, <1>13, BagSendRpc
<1>15. /\ loop'[n] = "top" /\ \A p \in Server \ {n} : loop'[p] = loop[p]
       /\ held' = held /\ (held'[n] # Nil => held'[n].term <= MaxTerm)
       /\ \A r \in voteReqs' \cup voteResps' : r.term <= MaxTerm
  BY <1>1, <1>4 DEF LogInv
<1>16. \A r \in DOMAIN aeRpcs' : GoodRpc(r)
  <2>1. DOMAIN aeRpcs' \subseteq DOMAIN aeRpcs \cup {resp}
    BY <1>4, <1>13, <1>14
  <2> QED
    BY <1>11, <2>1 DEF LogInv
<1> QED
  BY <1>9, <1>10, <1>15, <1>16, LogStep DEF Candidate

\* handleAppendEntriesRPCResponses receives a response.
LEMMA ReceiveGood ==
    ASSUME TypeOK, LogInv, NEW n \in Server, NEW r \in DOMAIN aeRpcs, ReceiveAEResp(n, r)
    PROVE  LogInv'
<1>1. DOMAIN aeRpcs' \subseteq DOMAIN aeRpcs
  BY ReceiveAERespStep
<1>2. /\ held' = [held EXCEPT ![n] = r] \/ held' = held
      /\ UNCHANGED <<node, loop, disk, voteReqs, voteResps>>
  BY DEF ReceiveAEResp
<1>3. r.term <= MaxTerm /\ held \in [Server -> AEResp \cup {Nil}]
  BY DEF LogInv, GoodRpc, TypeOK
<1>4. /\ \A p \in Server \ {n} : held'[p] = held[p]
      /\ held'[n] # Nil => held'[n].term <= MaxTerm
  BY <1>2, <1>3 DEF LogInv
<1>5. /\ GoodNode(node'[n]) /\ GoodDisk(disk'[n])
      /\ loop'[n] \in {Candidate, "won"} => OlderLog(node'[n])
      /\ \A m \in voteReqs' \cup voteResps' : m.term <= MaxTerm
      /\ \A m \in DOMAIN aeRpcs' : GoodRpc(m)
  BY <1>1, <1>2 DEF LogInv
<1> QED
  BY <1>2, <1>4, <1>5, LogStep

\* handleAppendEntriesResponse, before or after the persistState of the run loop.
LEMMA AERespGood ==
    ASSUME TypeOK, LogInv, NEW n \in Server, HandleAEResp(n)
    PROVE  LogInv'
<1> DEFINE s == HandleAppendEntriesResponse(node[n], held[n])
<1>1. node[n] \in NodeStates /\ GoodNode(node[n]) /\ node[n].currentTerm \in Nat
      /\ held[n] \in AEResp /\ held \in [Server -> AEResp \cup {Nil}] /\ GoodDisk(disk[n])
  BY DEF TypeOK, LogInv, NodeStates, HandleAEResp
<1>2. /\ held[n].term \in Nat /\ held[n].src \in Server /\ held[n].lastIdx \in Index
      /\ held[n].success \in BOOLEAN /\ held[n].term <= MaxTerm
  BY <1>1 DEF AEResp, LogInv, HandleAEResp
<1>3. (Update(n, s) \/ Persist(n, s)) /\ held' = [held EXCEPT ![n] = Nil]
      /\ UNCHANGED <<loop, voteReqs, voteResps, aeRpcs>>
  BY DEF HandleAEResp, netVars
<1>4. s \in NodeStates /\ SameLog(node[n], s) /\ BallotGrows(node[n], s)
      /\ (SameBallot(node[n], s) \/ s.role = Follower)
  BY <1>1, <1>2, HandleAppendEntriesResponseType, HandleAppendEntriesResponseEffect, ResponseLog
<1>5. s.currentTerm \in {node[n].currentTerm, held[n].term}
  <2>1. CASE ~held[n].success /\ held[n].term > node[n].currentTerm
    <3>1. s = [UpdateCurrentTerm(node[n], held[n].term) EXCEPT
                  !.role = Follower, !.currentLeader = held[n].src]
      BY <1>1, <1>2, <2>1 DEF HandleAppendEntriesResponse
    <3> QED
      BY <1>1, <3>1 DEF UpdateCurrentTerm, NodeStates
  <2>2. CASE ~held[n].success /\ held[n].term <= node[n].currentTerm
    <3>1. s = [node[n] EXCEPT !.nextIndex[held[n].src] =
                  IF held[n].lastIdx >= 0 THEN held[n].lastIdx ELSE 0]
      BY <1>1, <1>2, <2>2 DEF HandleAppendEntriesResponse
    <3> QED
      BY <1>1, <3>1 DEF NodeStates
  <2>3. CASE held[n].success
    <3>1. s = [node[n] EXCEPT !.nextIndex[held[n].src]  = node[n].lastSent[held[n].src] + 1,
                              !.matchIndex[held[n].src] = node[n].lastSent[held[n].src]]
      BY <1>2, <2>3 DEF HandleAppendEntriesResponse
    <3> QED
      BY <1>1, <3>1 DEF NodeStates
  <2> QED
    BY <1>1, <1>2, <2>1, <2>2, <2>3
<1> HIDE DEF s
<1>6. s.currentTerm >= node[n].currentTerm /\ s.currentTerm <= MaxTerm
      /\ (s.role = Candidate => node[n].role = Candidate)
  BY <1>1, <1>2, <1>4, <1>5 DEF BallotGrows, SameBallot, GoodNode, Follower, Candidate
<1>7. GoodNode(s) /\ (OlderLog(node[n]) => OlderLog(s))
  BY <1>1, <1>4, <1>6, GoodKept DEF SameLog
<1>8. /\ node'[n] = s /\ GoodDisk(disk'[n])
      /\ \A p \in Server \ {n} : node'[p] = node[p] /\ disk'[p] = disk[p]
  <2>1. CASE Update(n, s)
    BY <1>1, <1>4, <2>1, UpdateStep
  <2>2. CASE Persist(n, s)
    BY <1>4, <1>7, <2>2, PersistGood
  <2> QED
    BY <1>3, <2>1, <2>2
<1>9. /\ \A p \in Server \ {n} : held'[p] = held[p]
      /\ held'[n] = Nil /\ loop' = loop
      /\ loop'[n] \in {Candidate, "won"} => OlderLog(node[n])
      /\ \A m \in voteReqs' \cup voteResps' : m.term <= MaxTerm
      /\ \A m \in DOMAIN aeRpcs' : GoodRpc(m)
  BY <1>1, <1>3 DEF LogInv
<1> QED
  BY <1>7, <1>8, <1>9, LogStep

\* A crash and the Start after it.
LEMMA RestartGood ==
    ASSUME TypeOK, LogInv, NEW n \in Server, Restart(n)
    PROVE  LogInv'
<1>1. disk[n] \in Disk /\ GoodDisk(disk[n]) /\ loop \in [Server -> Stages]
      /\ held \in [Server -> AEResp \cup {Nil}]
  BY DEF TypeOK, LogInv
<1>2. /\ node'[n] = Restored(disk[n]) /\ disk' = disk
      /\ \A p \in Server : p # n => node'[p] = node[p]
      /\ DOMAIN aeRpcs' \subseteq DOMAIN aeRpcs
  BY RestartStep
<1>3. GoodNode(node'[n])
  BY <1>1, <1>2, GoodRestored
<1>4. /\ loop' = [loop EXCEPT ![n] = "top"] /\ held' = [held EXCEPT ![n] = Nil]
      /\ voteReqs' = voteReqs /\ voteResps' \subseteq voteResps
  BY DEF Restart, GoTo
<1>5. /\ loop'[n] = "top" /\ held'[n] = Nil
      /\ \A p \in Server \ {n} : loop'[p] = loop[p] /\ held'[p] = held[p]
  BY <1>1, <1>4
<1>6. /\ \A m \in voteReqs' \cup voteResps' : m.term <= MaxTerm
      /\ \A m \in DOMAIN aeRpcs' : GoodRpc(m)
  BY <1>2, <1>4 DEF LogInv
<1> QED
  BY <1>1, <1>2, <1>3, <1>5, <1>6, LogStep DEF Candidate

-----------------------------------------------------------------------------
(***************************************************************************)
(* The theorem.                                                            *)
(***************************************************************************)
\* New starts every node with an empty log in term 0.
LEMMA LogInit == Init => LogInv
<1> SUFFICES ASSUME Init PROVE LogInv
  OBVIOUS
<1>1. ASSUME NEW n \in Server
      PROVE  /\ GoodNode(node[n]) /\ GoodDisk(disk[n])
             /\ loop[n] \notin {Candidate, "won"} /\ held[n] = Nil
  <2>1. node[n] = NewNodeState /\ disk[n].log = <<>> /\ disk[n].snap = Nil
        /\ disk[n].currentTerm = 0 /\ loop[n] = "top" /\ held[n] = Nil
    BY DEF Init
  <2>2. GoodLog(<<>>, 0)
    BY DEF GoodLog
  <2>3. GoodNode(NewNodeState)
    BY <2>2, BoundsAssumption DEF NewNodeState, GoodNode, Follower, Candidate
  <2> QED
    BY <2>1, <2>2, <2>3, BoundsAssumption DEF GoodDisk, Candidate
<1>2. DOMAIN aeRpcs = {} /\ voteReqs = {} /\ voteResps = {}
  BY DEF Init, EmptyBag, SetToBag
<1> QED
  BY <1>1, <1>2 DEF LogInv

\* Every step keeps LogInv.
LEMMA LogInvStep ==
    ASSUME TypeOK, LogInv, [Next]_vars
    PROVE  LogInv'
<1>1. ASSUME NEW n \in Server, RunLoop(n) PROVE LogInv'
  BY <1>1, QuietActions, ElectionGood, RequestVotesGood, VoteReqGood, CountVoteGood,
     BecomeLeaderGood, AEReqGood DEF RunLoop
<1>2. CASE UNCHANGED vars
  BY <1>2 DEF vars, nodeVars, netVars, LogInv
<1> QED
  BY <1>1, <1>2, ReceiveGood, AERespGood, RestartGood DEF Next

\* LogWellFormed: in every cluster, whatever is lost, delayed or reordered and
\* however often servers crash, every log in memory and in storage holds the
\* indices 0, 1, 2, ... without a gap, and terms that never decrease and never
\* exceed the server's own.
THEOREM LogsWellFormed == Spec => []LogWellFormed
<1>1. LogInv => LogWellFormed
  BY SMTT(40) DEF LogInv, GoodNode, GoodDisk, GoodLog, LogWellFormed
<1>2. TypeOK /\ LogInv /\ [Next]_vars => LogInv'
  BY LogInvStep
<1> QED
  BY <1>1, <1>2, LogInit, TypeCorrect, PTL DEF Spec


=============================================================================
