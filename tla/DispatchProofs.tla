---------------------------- MODULE DispatchProofs ----------------------------
(***************************************************************************)
(* The channels of Dispatch that several goroutines share: every RPC gets  *)
(* the reply to its own request and every takeSnapshot the snapshot it     *)
(* asked for, for any number of RPCs and clients.                          *)
(***************************************************************************)
EXTENDS Dispatch, FiniteSetTheorems, TLAPS

(***************************************************************************)
(* The reply channels.                                                     *)
(***************************************************************************)

\* Where the run loop has a request in hand.
Busy == {"handling", "snapshot", "response", "install", "persisting", "replying"}

\* The run loop and the RPCs it serves.
RunType ==
    /\ rpc \in [Rpc -> {"idle", "sending", "awaiting", "done"}]
    /\ answer \in [Rpc -> Rpc \cup {Nil}]
    /\ run = [at |-> run.at, req |-> run.req]

\* The caller that waits for a reply is the one whose request the run loop has,
\* and there is one as long as it has a request.
Paired ==
    /\ \A r \in Rpc : rpc[r] = "awaiting" => run.at \in Busy /\ run.req = r
    /\ run.at \in Busy => run.req \in Rpc /\ rpc[run.req] = "awaiting"

OwnInv == RunType /\ Paired /\ OwnAnswer

\* At the start nobody waits.
LEMMA OwnInit == Init => OwnInv
  BY DEF Init, OwnInv, RunType, Paired, OwnAnswer, At, Busy

\* A step of a client, of a worker or of the snapshot loop leaves the RPCs and
\* the run loop alone.
LEMMA OwnOthers ==
    ASSUME OwnInv, UNCHANGED <<rpc, answer, run>>
    PROVE  OwnInv'
  BY DEF OwnInv, RunType, Paired, OwnAnswer

\* A step of the run loop that has no request in hand and takes none.
LEMMA OwnIdle ==
    ASSUME OwnInv, run.at \notin Busy, UNCHANGED <<rpc, answer>>,
           NEW l \in {"top", "apply", "select", "exited"}, run' = At(l)
    PROVE  OwnInv'
  BY DEF OwnInv, RunType, Paired, OwnAnswer, At, Busy

\* A step of the run loop that keeps the request it has.
LEMMA OwnBusy ==
    ASSUME OwnInv, run.at \in Busy, UNCHANGED <<rpc, answer>>,
           NEW l \in Busy, run' = On(l, run.req)
    PROVE  OwnInv'
  BY DEF OwnInv, RunType, Paired, OwnAnswer, On, Busy

\* A caller starts to wait when the run loop takes its request, and only then.
LEMMA OwnReceive ==
    ASSUME OwnInv, NEW r \in Rpc, Receive(r)
    PROVE  OwnInv'
<1> USE DEF OwnInv, RunType
<1>1. run.at = "select" /\ rpc[r] = "sending" /\ run' = On("handling", r)
      /\ rpc' = [rpc EXCEPT ![r] = "awaiting"] /\ answer' = answer
  BY DEF Receive
<1>2. RunType'
  BY <1>1 DEF On
<1>3. Paired'
  BY <1>1 DEF Paired, On, Busy
<1>4. OwnAnswer'
  BY <1>1 DEF OwnAnswer
<1> QED
  BY <1>2, <1>3, <1>4

\* The one caller that reads the reply channel is the one the reply is for.
LEMMA OwnReply ==
    ASSUME OwnInv, NEW r \in Rpc, Reply(r)
    PROVE  OwnInv'
<1> USE DEF OwnInv, RunType
<1>1. rpc[r] = "awaiting" /\ rpc' = [rpc EXCEPT ![r] = "done"]
      /\ answer' = [answer EXCEPT ![r] = run.req] /\ run' = At("top")
  BY DEF Reply
<1>2. run.req = r /\ \A q \in Rpc : rpc[q] = "awaiting" => q = r
  BY <1>1 DEF Paired
<1>3. RunType'
  BY <1>1, <1>2 DEF At
<1>4. Paired'
  BY <1>1, <1>2 DEF Paired, At, Busy
<1>5. OwnAnswer'
  BY <1>1, <1>2 DEF OwnAnswer
<1> QED
  BY <1>3, <1>4, <1>5

\* An RPC that comes in waits for the run loop first.
LEMMA OwnArrives ==
    ASSUME OwnInv, NEW r \in Rpc, RpcArrives(r)
    PROVE  OwnInv'
<1> USE DEF OwnInv, RunType, RpcArrives
<1>1. RunType'
  OBVIOUS
<1>2. Paired'
  BY DEF Paired
<1>3. OwnAnswer'
  BY DEF OwnAnswer
<1> QED
  BY <1>1, <1>2, <1>3

\* The run loop's other steps.
LEMMA OwnRunLoop ==
    ASSUME OwnInv, RunLoop
    PROVE  OwnInv'
<1>1. CASE CheckStop
  <2>1. run.at \notin Busy /\ UNCHANGED <<rpc, answer>>
    BY <1>1 DEF CheckStop, Busy, callers
  <2>2. run' = At("exited") \/ run' = At("apply")
    BY <1>1 DEF CheckStop
  <2> QED
    BY <2>1, <2>2, OwnIdle
<1>2. CASE ApplyAndEnter
  <2>1. run.at \notin Busy /\ UNCHANGED <<rpc, answer>> /\ run' = At("select")
    BY <1>2 DEF ApplyAndEnter, Busy
  <2> QED
    BY <2>1, OwnIdle
<1>3. CASE SelectOther
  <2>1. run.at \notin Busy /\ UNCHANGED <<rpc, answer>> /\ run' = At("top")
    BY <1>3 DEF SelectOther, Busy, callers
  <2> QED
    BY <2>1, OwnIdle
<1>4. CASE Handle
  <2>1. run.at \in Busy /\ UNCHANGED <<rpc, answer>>
    BY <1>4 DEF Handle, Busy, callers
  <2>2. \E l \in Busy : run' = On(l, run.req)
    BY <1>4 DEF Handle, Busy
  <2> QED
    BY <2>1, <2>2, OwnBusy
<1>5. CASE InstallSnapshot
  <2>1. run.at \in Busy /\ UNCHANGED <<rpc, answer>>
    BY <1>5 DEF InstallSnapshot, Busy, callers
  <2>2. \E l \in Busy : run' = On(l, run.req)
    BY <1>5 DEF InstallSnapshot, Busy
  <2> QED
    BY <2>1, <2>2, OwnBusy
<1>6. ASSUME NEW r \in Rpc, Receive(r) PROVE OwnInv'
  BY <1>6, OwnReceive
<1>7. ASSUME NEW r \in Rpc, Reply(r) PROVE OwnInv'
  BY <1>7, OwnReply
<1>8. CASE PersistState
  <2>1. run.at \in Busy /\ UNCHANGED <<rpc, answer>> /\ run' = On("replying", run.req)
    BY <1>8 DEF PersistState, Busy, callers
  <2> QED
    BY <2>1, OwnBusy DEF Busy
<1> QED
  BY <1>1, <1>2, <1>3, <1>4, <1>5, <1>6, <1>7, <1>8 DEF RunLoop

\* The two halves of takeSnapshot, in the run loop or in a worker.
LEMMA OwnSnapshot ==
    ASSUME OwnInv, RequestSnapshot \/ ReceiveSnapshot
    PROVE  OwnInv'
<1>1. UNCHANGED <<rpc, answer>>
  BY DEF RequestSnapshot, ReceiveSnapshot, callers
<1>2. \/ run' = run
      \/ run.at \in Busy /\ \E l \in Busy : run' = On(l, run.req)
  BY DEF RequestSnapshot, ReceiveSnapshot, Busy
<1> QED
  BY <1>1, <1>2, OwnOthers, OwnBusy

\* The pairing is kept by every step of every goroutine.
LEMMA OwnStep ==
    ASSUME OwnInv, [Next]_vars
    PROVE  OwnInv'
<1>1. ASSUME NEW r \in Rpc, RpcArrives(r) PROVE OwnInv'
  BY <1>1, OwnArrives
<1>2. ASSUME NEW c \in Client, ClientCalls(c) \/ ClientStopped(c) \/ GetCurrentLeader(c)
      PROVE  OwnInv'
  BY <1>2, OwnOthers DEF ClientCalls, ClientStopped, GetCurrentLeader
<1>3. CASE Stop
  BY <1>3, OwnOthers DEF Stop, callers
<1>4. CASE RunLoop
  BY <1>4, OwnRunLoop
<1>5. ASSUME NEW w \in Workers, Worker(w) PROVE OwnInv'
  BY <1>5, OwnOthers
     DEF Worker, Accept, Refuse, AppendLog, SendAppendEntries, WorkerStops, callers
<1>6. CASE RequestSnapshot \/ ReceiveSnapshot
  BY <1>6, OwnSnapshot
<1>7. CASE SnapshotLoop
  BY <1>7, OwnOthers DEF SnapshotLoop, Wake, Serve, SnapperStops, callers
<1>8. CASE UNCHANGED vars
  BY <1>8, OwnOthers DEF vars
<1> QED
  BY <1>1, <1>2, <1>3, <1>4, <1>5, <1>6, <1>7, <1>8 DEF Next

\* HandleRequestVote, HandleAppendEntries, HandleInstallSnapshot: whatever
\* requests of its kind are under way, a caller is given the reply to its own.
THEOREM EachItsOwnAnswer == Spec => []OwnAnswer
<1>1. Init => OwnInv
  BY OwnInit
<1>2. OwnInv /\ [Next]_vars => OwnInv'
  BY OwnStep
<1>3. OwnInv => OwnAnswer
  BY DEF OwnInv
<1> QED
  BY <1>1, <1>2, <1>3, PTL DEF Spec

-----------------------------------------------------------------------------
(***************************************************************************)
(* The snapshot channels.                                                  *)
(***************************************************************************)
\* The workers, s.mu and the channels.
LockType ==
    /\ run = [at |-> run.at, req |-> run.req]
    /\ worker \in [Workers -> [at  : {"idle", "role", "send", "snapshot", "response", "exited"},
                               req : Client \cup {Nil}]]
    /\ mu \in {Nil, "run"} \cup Workers
    /\ snapper \in {"idle", "serving", "exited"}

\* s.mu is held over a channel operation by the goroutine that is in one.
HoldsLock ==
    /\ mu = "run" <=> run.at \in {"snapshot", "response", "install"}
    /\ \A w \in Workers : mu = w <=> worker[w].at \in {"snapshot", "response"}

Asking == run.at = "response" \/ \E w \in Workers : worker[w].at = "response"

Requested == "snapshotRequestChan" \in buffered
Made      == "snapshotResponseChan" \in buffered

\* What was asked for is in one place.
RoundTrip ==
    /\ Asking <=> Requested \/ Made \/ snapper = "serving"
    /\ ~(Requested /\ Made)
    /\ ~(Requested /\ snapper = "serving")
    /\ ~(Made /\ snapper = "serving")

LockInv == LockType /\ HoldsLock /\ RoundTrip

\* Only the holder of the lock waits for a snapshot, so only one goroutine does.
LEMMA OneAsker ==
    ASSUME LockInv
    PROVE  SnapshotForAsker
<1> USE DEF LockInv, LockType, HoldsLock, RoundTrip, Workers
<1>1. "run" \notin Workers
  OBVIOUS
<1>2. Waiting \subseteq {mu}
  BY <1>1 DEF Waiting
<1>3. Asking <=> Waiting # {}
  BY <1>1 DEF Asking, Waiting
<1>4. Asking => Waiting = {mu}
  BY <1>2, <1>3
<1>5. ~Asking => UnderWay = {}
  BY DEF UnderWay, Requested, Made
<1>6. ASSUME Asking PROVE \E x : UnderWay = {x}
  <2>1. CASE Requested
    BY <2>1 DEF UnderWay, Requested, Made
  <2>2. CASE Made
    BY <2>2 DEF UnderWay, Requested, Made
  <2>3. CASE snapper = "serving"
    BY <2>3 DEF UnderWay, Requested, Made
  <2> QED
    BY <1>6, <2>1, <2>2, <2>3
<1>7. CASE Asking
  <2>1. PICK x : UnderWay = {x}
    BY <1>6, <1>7
  <2>2. Cardinality(Waiting) = 1 /\ Cardinality(UnderWay) = 1
    BY <1>4, <1>7, <2>1, FS_Singleton, SMTT(40)
  <2> QED
    BY <2>2 DEF SnapshotForAsker
<1>8. CASE ~Asking
  <2>1. Cardinality(Waiting) = 0 /\ Cardinality(UnderWay) = 0
    BY <1>3, <1>5, <1>8, FS_EmptySet
  <2> QED
    BY <2>1 DEF SnapshotForAsker
<1> QED
  BY <1>7, <1>8

\* At the start nobody holds the lock and nothing is asked for.
LEMMA LockInit == Init => LockInv
  BY CallersAssumption
     DEF Init, LockInv, LockType, HoldsLock, RoundTrip, Asking, Requested, Made, At, Workers

\* A step that leaves the workers, the lock and the channels alone, of callers or
\* of the run loop on its way between two requests.
LEMMA LockRunMoves ==
    ASSUME LockInv, UNCHANGED <<worker, mu, snapper, buffered>>,
           run.at \notin {"snapshot", "response", "install"},
           run' = [at |-> run'.at, req |-> run'.req],
           run'.at \notin {"snapshot", "response", "install"}
    PROVE  LockInv'
  BY DEF LockInv, LockType, HoldsLock, RoundTrip, Asking, Requested, Made

\* A step of a caller, which touches none of this.
LEMMA LockOthers ==
    ASSUME LockInv, UNCHANGED <<run, worker, mu, snapper, buffered>>
    PROVE  LockInv'
  BY DEF LockInv, LockType, HoldsLock, RoundTrip, Asking, Requested, Made

\* The run loop takes the lock only when it is free and gives it back.
LEMMA LockRunLoop ==
    ASSUME LockInv, RunLoop
    PROVE  LockInv'
<1>1. CASE CheckStop
  BY <1>1, LockRunMoves DEF CheckStop, At
<1>2. CASE ApplyAndEnter
  BY <1>2, LockRunMoves DEF ApplyAndEnter, At
<1>3. CASE SelectOther
  BY <1>3, LockRunMoves DEF SelectOther, At
<1>4. ASSUME NEW r \in Rpc, Receive(r) PROVE LockInv'
  BY <1>4, LockRunMoves DEF Receive, On
<1>5. ASSUME NEW r \in Rpc, Reply(r) PROVE LockInv'
  BY <1>5, LockRunMoves DEF Reply, At
<1>6. CASE Handle
  <2>1. run.at = "handling" /\ mu = Nil /\ UNCHANGED <<worker, snapper, buffered>>
    BY <1>6 DEF Handle
  <2>2. CASE run' = On("persisting", run.req) /\ UNCHANGED mu
    BY <2>1, <2>2, LockRunMoves DEF On
  <2>3. CASE \E l \in {"snapshot", "install"} : run' = On(l, run.req) /\ mu' = "run"
    BY <2>1, <2>3, CallersAssumption
       DEF LockInv, LockType, HoldsLock, RoundTrip, Asking, Requested, Made, On, Workers
  <2> QED
    BY <1>6, <2>2, <2>3 DEF Handle
<1>7. CASE InstallSnapshot
  BY <1>7, CallersAssumption
     DEF InstallSnapshot, LockInv, LockType, HoldsLock, RoundTrip, Asking, Requested, Made, On,
         Workers
<1>8. CASE PersistState
  BY <1>8, LockRunMoves DEF PersistState, On
<1> QED
  BY <1>1, <1>2, <1>3, <1>4, <1>5, <1>6, <1>7, <1>8 DEF RunLoop

\* A worker takes the lock only when it is free.
LEMMA LockWorker ==
    ASSUME LockInv, NEW w \in Workers, Worker(w)
    PROVE  LockInv'
<1> USE DEF LockInv, LockType
<1>1. UNCHANGED <<run, snapper, buffered>>
  BY DEF Worker, Accept, Refuse, AppendLog, SendAppendEntries, WorkerStops
<1>2. worker[w].at \in {"idle", "role", "send"}
  BY DEF Worker, Accept, Refuse, AppendLog, SendAppendEntries, WorkerStops
<1>3. \E l \in {"idle", "role", "send", "snapshot", "exited"}, c \in Client \cup {Nil} :
          /\ worker' = [worker EXCEPT ![w] = On(l, c)]
          /\ l = "snapshot" => mu = Nil /\ mu' = w
          /\ l # "snapshot" => mu' = mu
  <2>1. CASE \E c \in Client : Accept(w, c)
    BY <2>1 DEF Accept
  <2>2. CASE Refuse(w) \/ SendAppendEntries(w) \/ WorkerStops(w)
    BY <2>2 DEF Refuse, SendAppendEntries, WorkerStops, At, On
  <2>3. CASE AppendLog(w)
    <3>1. worker[w].req \in Client \cup {Nil}
      OBVIOUS
    <3>2. \A l : [worker[w] EXCEPT !.at = l] = On(l, worker[w].req)
      BY DEF On
    <3> QED
      BY <2>3, <3>1, <3>2 DEF AppendLog
  <2> QED
    BY <2>1, <2>2, <2>3 DEF Worker
<1>4. PICK l \in {"idle", "role", "send", "snapshot", "exited"}, c \in Client \cup {Nil} :
          /\ worker' = [worker EXCEPT ![w] = On(l, c)]
          /\ l = "snapshot" => mu = Nil /\ mu' = w
          /\ l # "snapshot" => mu' = mu
  BY <1>3
<1>5. worker'[w].at = l /\ \A v \in Workers \ {w} : worker'[v] = worker[v]
  BY <1>4 DEF On
<1>6. LockType'
  BY <1>1, <1>4, <1>5 DEF On
<1>7. HoldsLock'
  BY <1>1, <1>2, <1>4, <1>5, CallersAssumption DEF HoldsLock, Workers
<1>8. RoundTrip'
  BY <1>1, <1>2, <1>4, <1>5 DEF RoundTrip, Asking, Requested, Made
<1> QED
  BY <1>6, <1>7, <1>8

\* The first half of takeSnapshot: the holder of the lock asks, and nothing else
\* was asked for.
LEMMA LockRequest ==
    ASSUME LockInv, RequestSnapshot
    PROVE  LockInv'
<1> USE DEF LockInv, LockType
<1>1. UNCHANGED <<snapper, mu>> /\ buffered' = buffered \cup {"snapshotRequestChan"}
  BY DEF RequestSnapshot
<1>2. CASE run.at = "snapshot" /\ run' = On("response", run.req) /\ UNCHANGED worker
  <2>1. ~Asking
    BY <1>2 DEF Asking, HoldsLock, Workers
  <2> QED
    BY <1>1, <1>2, <2>1 DEF HoldsLock, RoundTrip, Asking, Requested, Made, On
<1>3. ASSUME NEW w \in Workers, worker[w].at = "snapshot",
             worker' = [worker EXCEPT ![w].at = "response"], UNCHANGED run
      PROVE  LockInv'
  <2>1. ~Asking
    BY <1>3 DEF Asking, HoldsLock, Workers
  <2>2. LockType'
    BY <1>1, <1>3
  <2>3. worker'[w].at = "response" /\ \A v \in Workers \ {w} : worker'[v] = worker[v]
    BY <1>3
  <2>4. HoldsLock'
    BY <1>1, <1>3, <2>3 DEF HoldsLock
  <2>5. RoundTrip'
    BY <1>1, <2>1, <2>3 DEF RoundTrip, Asking, Requested, Made
  <2> QED
    BY <2>2, <2>4, <2>5
<1> QED
  BY <1>2, <1>3 DEF RequestSnapshot

\* The second half: the one that asked receives and releases the lock.
LEMMA LockReceive ==
    ASSUME LockInv, ReceiveSnapshot
    PROVE  LockInv'
<1> USE DEF LockInv, LockType
<1>1. /\ snapper' = snapper /\ mu' = Nil /\ Made
      /\ buffered' = buffered \ {"snapshotResponseChan"}
  BY DEF ReceiveSnapshot, Made
<1>2. ~Requested' /\ ~Made' /\ snapper' # "serving"
  BY <1>1 DEF RoundTrip, Requested, Made
<1>3. CASE run.at = "response" /\ run' = On("persisting", run.req) /\ UNCHANGED worker
  <2>1. \A w \in Workers : worker[w].at \notin {"snapshot", "response"}
    BY <1>3 DEF HoldsLock, Workers
  <2>2. LockType'
    BY <1>1, <1>3 DEF On
  <2>3. HoldsLock'
    BY <1>1, <1>3, <2>1, CallersAssumption DEF HoldsLock, On
  <2>4. RoundTrip'
    BY <1>2, <1>3, <2>1 DEF RoundTrip, Asking, On
  <2> QED
    BY <2>2, <2>3, <2>4
<1>4. ASSUME NEW w \in Workers, worker[w].at = "response",
             worker' = [worker EXCEPT ![w].at = "send"], UNCHANGED run
      PROVE  LockInv'
  <2>1. /\ run.at \notin {"snapshot", "response", "install"}
        /\ \A v \in Workers \ {w} : worker[v].at \notin {"snapshot", "response"}
    BY <1>4 DEF HoldsLock, Workers
  <2>2. LockType'
    BY <1>1, <1>4
  <2>3. worker'[w].at = "send" /\ \A v \in Workers \ {w} : worker'[v] = worker[v]
    BY <1>4
  <2>4. HoldsLock'
    BY <1>1, <1>4, <2>1, <2>3, CallersAssumption DEF HoldsLock
  <2>5. RoundTrip'
    BY <1>2, <1>4, <2>1, <2>3 DEF RoundTrip, Asking
  <2> QED
    BY <2>2, <2>4, <2>5
<1> QED
  BY <1>3, <1>4 DEF ReceiveSnapshot

\* snapshotLoop passes what was asked for on, one thing at a time.
LEMMA LockSnapshotLoop ==
    ASSUME LockInv, SnapshotLoop
    PROVE  LockInv'
<1> USE DEF LockInv, LockType
<1>1. UNCHANGED <<run, worker, mu>>
  BY DEF SnapshotLoop, Wake, Serve, SnapperStops
<1>2. HoldsLock'
  BY <1>1 DEF HoldsLock
<1>3. LockType'
  BY <1>1 DEF SnapshotLoop, Wake, Serve, SnapperStops
<1>4. Asking' <=> Asking
  BY <1>1 DEF Asking
<1>5. RoundTrip'
  <2>1. CASE Wake
    BY <1>4, <2>1 DEF Wake, RoundTrip, Requested, Made
  <2>2. CASE Serve
    BY <1>4, <2>2 DEF Serve, RoundTrip, Requested, Made
  <2>3. CASE SnapperStops
    BY <1>4, <2>3 DEF SnapperStops, RoundTrip, Requested, Made
  <2> QED
    BY <2>1, <2>2, <2>3 DEF SnapshotLoop
<1> QED
  BY <1>2, <1>3, <1>5

\* Lock and round trip are kept by every step of every goroutine.
LEMMA LockStep ==
    ASSUME LockInv, [Next]_vars
    PROVE  LockInv'
<1>1. ASSUME NEW r \in Rpc, RpcArrives(r) PROVE LockInv'
  BY <1>1, LockOthers DEF RpcArrives
<1>2. ASSUME NEW c \in Client, ClientCalls(c) \/ ClientStopped(c) \/ GetCurrentLeader(c)
      PROVE  LockInv'
  BY <1>2, LockOthers DEF ClientCalls, ClientStopped, GetCurrentLeader
<1>3. CASE Stop
  BY <1>3, LockOthers DEF Stop
<1>4. CASE RunLoop
  BY <1>4, LockRunLoop
<1>5. ASSUME NEW w \in Workers, Worker(w) PROVE LockInv'
  BY <1>5, LockWorker
<1>6. CASE RequestSnapshot
  BY <1>6, LockRequest
<1>7. CASE ReceiveSnapshot
  BY <1>7, LockReceive
<1>8. CASE SnapshotLoop
  BY <1>8, LockSnapshotLoop
<1>9. CASE UNCHANGED vars
  BY <1>9, LockOthers DEF vars
<1> QED
  BY <1>1, <1>2, <1>3, <1>4, <1>5, <1>6, <1>7, <1>8, <1>9 DEF Next

\* takeSnapshot: whichever goroutines take snapshots and whenever, the one that
\* receives one is the only one that asked, and it is the only one made.
THEOREM SnapshotsForAskers == Spec => []SnapshotForAsker
<1>1. Init => LockInv
  BY LockInit
<1>2. LockInv /\ [Next]_vars => LockInv'
  BY LockStep
<1>3. LockInv => SnapshotForAsker
  BY OneAsker
<1> QED
  BY <1>1, <1>2, <1>3, PTL DEF Spec

=============================================================================
