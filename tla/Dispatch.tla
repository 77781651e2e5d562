------------------------------- MODULE Dispatch -------------------------------
(***************************************************************************)
(* The goroutines of one RaftNode and the channels between them            *)
(* (src/raft/node.go, src/raft/snapshot.go): goroutines of the transport   *)
(* that hand an incoming RPC to the run loop and wait for its reply,       *)
(* clients in Apply, AddServer and RemoveServer, the goroutines that serve *)
(* them, the run loop, the snapshot loop with its round trip under the     *)
(* lock s.mu, and Stop.                                                    *)
(*                                                                         *)
(* What a handler computes is left out; what it waits for is not.  A       *)
(* client's command is committed, or not, at any time.                     *)
(***************************************************************************)
EXTENDS Naturals, FiniteSets

CONSTANTS
    Rpc,        \* incoming RPCs
    KindOf,     \* KindOf[r]: which of the three pairs of channels it uses
    Client,     \* calls of Apply, AddServer and RemoveServer
    Nil

Workers == {"handleApplyRequests", "handleConfigurationMessages"}

ASSUME CallersAssumption ==
    /\ KindOf \in [Rpc -> {"ae", "rv", "is"}]
    /\ Nil \notin Rpc \cup Client \cup Workers \cup {"run"}

VARIABLES
    rpc,        \* rpc[r]: where HandleRequestVote, HandleAppendEntries or
                \*   HandleInstallSnapshot is
    answer,     \* answer[r]: the request whose reply r was given
    client,     \* client[c]: where the call is
    run,        \* the run loop: where it is, and the RPC it handles
    worker,     \* worker[w]: where it is, and the call it handles
    snapper,    \* where snapshotLoop is
    mu,         \* who holds s.mu during a channel operation, or Nil
    buffered,   \* the snapshot channels (capacity 1) that hold an element
    pending,    \* calls whose log entry is not applied yet
    stopped     \* stopCh is closed

vars == <<rpc, answer, client, run, worker, snapper, mu, buffered, pending, stopped>>

callers == <<rpc, answer, client>>

At(l)      == [at |-> l, req |-> Nil]
On(l, r)   == [at |-> l, req |-> r]

Init ==
    /\ rpc      = [r \in Rpc |-> "idle"]
    /\ answer   = [r \in Rpc |-> Nil]
    /\ client   = [c \in Client |-> "idle"]
    /\ run      = At("top")
    /\ worker   = [w \in Workers |-> At("idle")]
    /\ snapper  = "idle"
    /\ mu       = Nil
    /\ buffered = {}
    /\ pending  = {}
    /\ stopped  = FALSE

-----------------------------------------------------------------------------
(***************************************************************************)
(* The callers.  The transport's connections that were accepted before     *)
(* Stop stay open, so an RPC may come in after it.                         *)
(***************************************************************************)
RpcArrives(r) ==
    /\ rpc[r] = "idle"
    /\ rpc' = [rpc EXCEPT ![r] = "sending"]
    /\ UNCHANGED <<answer, client, run, worker, snapper, mu, buffered, pending, stopped>>

ClientCalls(c) ==
    /\ client[c] = "idle"
    /\ client' = [client EXCEPT ![c] = "sending"]
    /\ UNCHANGED <<rpc, answer, run, worker, snapper, mu, buffered, pending, stopped>>


\* Both selects of Apply and of membershipChange have stopCh among their cases.
\* A call that came through HandleApply or HandleAddRemoveServer then asks for
\* the leader, under the lock.
ClientStopped(c) ==
    /\ client[c] \in {"sending", "waiting"}
    /\ stopped
    /\ \E to \in {"stopped", "leader"} : client' = [client EXCEPT ![c] = to]
    /\ UNCHANGED <<rpc, answer, run, worker, snapper, mu, buffered, pending, stopped>>

GetCurrentLeader(c) ==
    /\ client[c] = "leader"
    /\ mu = Nil
    /\ client' = [client EXCEPT ![c] = "stopped"]
    /\ UNCHANGED <<rpc, answer, run, worker, snapper, mu, buffered, pending, stopped>>

Stop ==
    /\ ~stopped
    /\ stopped' = TRUE
    /\ UNCHANGED <<callers, run, worker, snapper, mu, buffered, pending>>

-----------------------------------------------------------------------------
(***************************************************************************)
(* The run loop.                                                           *)
(***************************************************************************)
CheckStop ==
    /\ run.at = "top"
    /\ run' = At(IF stopped THEN "exited" ELSE "apply")
    /\ UNCHANGED <<callers, worker, snapper, mu, buffered, pending, stopped>>

\* checkLogsToApply answers the calls whose entries are committed by now (the
\* result channels are buffered), then the role is read; all of it locks s.mu.
ApplyAndEnter ==
    /\ run.at = "apply"
    /\ mu = Nil
    /\ \E done \in SUBSET pending :
          /\ pending' = pending \ done
          /\ client'  = [c \in Client |-> IF c \in done /\ client[c] = "waiting"
                                          THEN "answered" ELSE client[c]]
    /\ run' = At("select")
    /\ UNCHANGED <<rpc, answer, worker, snapper, mu, buffered, stopped>>

\* Mutant: the next request is taken while a reply waits for its caller.
ReceiveEarly(r) ==
    /\ run.at \in {"select", "replying"}
    /\ rpc[r] = "sending"
    /\ rpc' = [rpc EXCEPT ![r] = "awaiting"]
    /\ run' = On("handling", r)
    /\ UNCHANGED <<answer, client, worker, snapper, mu, buffered, pending, stopped>>

\* Mutant: the select statement has no case for InstallSnapshot.
ReceiveNoInstall(r) ==
    /\ run.at = "select"
    /\ rpc[r] = "sending" /\ KindOf[r] # "is"
    /\ rpc' = [rpc EXCEPT ![r] = "awaiting"]
    /\ run' = On("handling", r)
    /\ UNCHANGED <<answer, client, worker, snapper, mu, buffered, pending, stopped>>

\* The argument channels are unbuffered: the caller waits for the reply from
\* the moment the run loop has its request.
Receive(r) ==
    /\ run.at = "select"
    /\ rpc[r] = "sending"
    /\ rpc' = [rpc EXCEPT ![r] = "awaiting"]
    /\ run' = On("handling", r)
    /\ UNCHANGED <<answer, client, worker, snapper, mu, buffered, pending, stopped>>

\* A timer, a heartbeat, a vote that is counted or drained, or stopCh.
SelectOther ==
    /\ run.at = "select"
    /\ mu = Nil
    /\ run' = At("top")
    /\ UNCHANGED <<callers, worker, snapper, mu, buffered, pending, stopped>>

\* Mutant: the handler does not wait for the lock.
HandleUnlocked ==
    /\ run.at = "handling"
    /\ \/ run' = On("persisting", run.req) /\ UNCHANGED mu
       \/ KindOf[run.req] = "ae" /\ run' = On("snapshot", run.req) /\ mu' = "run"
       \/ KindOf[run.req] = "is" /\ run' = On("install", run.req) /\ mu' = "run"
    /\ UNCHANGED <<callers, worker, snapper, buffered, pending, stopped>>

\* The handler locks s.mu.  AppendEntries may have to take a snapshot and
\* InstallSnapshot to pass one on, both with the lock held.
Handle ==
    /\ run.at = "handling"
    /\ mu = Nil
    /\ \/ run' = On("persisting", run.req) /\ UNCHANGED mu
       \/ KindOf[run.req] = "ae" /\ run' = On("snapshot", run.req) /\ mu' = "run"
       \/ KindOf[run.req] = "is" /\ run' = On("install", run.req) /\ mu' = "run"
    /\ UNCHANGED <<callers, worker, snapper, buffered, pending, stopped>>

InstallSnapshot ==
    /\ run.at = "install"
    /\ "snapshotInstallChan" \notin buffered
    /\ buffered' = buffered \cup {"snapshotInstallChan"}
    /\ mu' = Nil
    /\ run' = On("persisting", run.req)
    /\ UNCHANGED <<callers, worker, snapper, pending, stopped>>

\* persistState locks s.mu anew to read what it writes.
PersistState ==
    /\ run.at = "persisting"
    /\ mu = Nil
    /\ run' = On("replying", run.req)
    /\ UNCHANGED <<callers, worker, snapper, mu, buffered, pending, stopped>>

\* The reply channel of the request, one for each kind.
ReplyChan(r) == KindOf[r]

Reply(r) ==
    /\ run.at = "replying"
    /\ rpc[r] = "awaiting"
    /\ KindOf[r] = ReplyChan(run.req)
    /\ rpc'    = [rpc EXCEPT ![r] = "done"]
    /\ answer' = [answer EXCEPT ![r] = run.req]
    /\ run'    = At("top")
    /\ UNCHANGED <<client, worker, snapper, mu, buffered, pending, stopped>>

-----------------------------------------------------------------------------
(***************************************************************************)
(* handleApplyRequests and handleConfigurationMessages.                    *)
(***************************************************************************)
\* Apply sends to the one, AddServer and RemoveServer to the other.
Accept(w, c) ==
    /\ worker[w].at = "idle"
    /\ client[c] = "sending"
    /\ client' = [client EXCEPT ![c] = "waiting"]
    /\ worker' = [worker EXCEPT ![w] = On("role", c)]
    /\ UNCHANGED <<rpc, answer, run, snapper, mu, buffered, pending, stopped>>

\* Not the leader, a command that was applied before, or no room: the call is
\* answered at once.
Refuse(w) ==
    /\ worker[w].at = "role"
    /\ mu = Nil
    /\ client' = [client EXCEPT ![worker[w].req] = IF @ = "waiting" THEN "answered" ELSE @]
    /\ worker' = [worker EXCEPT ![w] = At("idle")]
    /\ UNCHANGED <<rpc, answer, run, snapper, mu, buffered, pending, stopped>>

\* addCommandLog takes a snapshot when the array is full; a configuration entry
\* is appended without.
AppendLog(w) ==
    /\ worker[w].at = "role"
    /\ mu = Nil
    /\ \/ /\ worker' = [worker EXCEPT ![w].at = "send"]
          /\ pending' = pending \cup {worker[w].req}
          /\ UNCHANGED mu
       \/ /\ w = "handleApplyRequests"
          /\ worker' = [worker EXCEPT ![w].at = "snapshot"]
          /\ mu' = w
          /\ UNCHANGED pending
    /\ UNCHANGED <<callers, run, snapper, buffered, stopped>>

\* persistState and sendAppendEntriesRPCs.
SendAppendEntries(w) ==
    /\ worker[w].at = "send"
    /\ mu = Nil
    /\ worker' = [worker EXCEPT ![w] = At("idle")]
    /\ UNCHANGED <<callers, run, snapper, mu, buffered, pending, stopped>>

WorkerStops(w) ==
    /\ worker[w].at = "idle"
    /\ stopped
    /\ worker' = [worker EXCEPT ![w] = At("exited")]
    /\ UNCHANGED <<callers, run, snapper, mu, buffered, pending, stopped>>

-----------------------------------------------------------------------------
(***************************************************************************)
(* takeSnapshot, in the goroutine that holds the lock, and snapshotLoop.   *)
(***************************************************************************)
RequestSnapshot ==
    /\ "snapshotRequestChan" \notin buffered
    /\ buffered' = buffered \cup {"snapshotRequestChan"}
    /\ \/ /\ run.at = "snapshot"
          /\ run' = On("response", run.req)
          /\ UNCHANGED worker
       \/ \E w \in Workers :
             /\ worker[w].at = "snapshot"
             /\ worker' = [worker EXCEPT ![w].at = "response"]
             /\ UNCHANGED run
    /\ UNCHANGED <<callers, snapper, mu, pending, stopped>>

\* Mutant: a snapshot that failed is asked for again.
ReceiveSnapshotAgain ==
    /\ "snapshotResponseChan" \in buffered
    /\ buffered' = buffered \ {"snapshotResponseChan"}
    /\ \/ run.at = "response" /\ run' = On("snapshot", run.req) /\ UNCHANGED worker
       \/ \E w \in Workers : /\ worker[w].at = "response"
                            /\ worker' = [worker EXCEPT ![w].at = "snapshot"]
                            /\ UNCHANGED run
    /\ UNCHANGED <<callers, snapper, mu, pending, stopped>>

ReceiveSnapshot ==
    /\ "snapshotResponseChan" \in buffered
    /\ buffered' = buffered \ {"snapshotResponseChan"}
    /\ mu' = Nil
    /\ \/ /\ run.at = "response"
          /\ run' = On("persisting", run.req)
          /\ UNCHANGED <<worker, pending>>
       \/ \E w \in Workers :
             /\ worker[w].at = "response"
             /\ worker'  = [worker EXCEPT ![w].at = "send"]
             /\ pending' = pending \cup {worker[w].req}
             /\ UNCHANGED run
    /\ UNCHANGED <<callers, snapper, stopped>>

Wake ==
    /\ snapper = "idle"
    /\ \/ /\ "snapshotRequestChan" \in buffered
          /\ buffered' = buffered \ {"snapshotRequestChan"}
          /\ snapper' = "serving"
       \/ /\ "snapshotInstallChan" \in buffered
          /\ buffered' = buffered \ {"snapshotInstallChan"}
          /\ UNCHANGED snapper
    /\ UNCHANGED <<callers, run, worker, mu, pending, stopped>>

Serve ==
    /\ snapper = "serving"
    /\ "snapshotResponseChan" \notin buffered
    /\ snapper'  = "idle"
    /\ buffered' = buffered \cup {"snapshotResponseChan"}
    /\ UNCHANGED <<callers, run, worker, mu, pending, stopped>>

SnapperStops ==
    /\ snapper = "idle"
    /\ stopped
    /\ snapper' = "exited"
    /\ UNCHANGED <<callers, run, worker, mu, buffered, pending, stopped>>

-----------------------------------------------------------------------------
RunLoop ==
    \/ CheckStop
    \/ ApplyAndEnter
    \/ \E r \in Rpc : Receive(r)
    \/ SelectOther
    \/ Handle
    \/ InstallSnapshot
    \/ PersistState
    \/ \E r \in Rpc : Reply(r)

Worker(w) ==
    \/ \E c \in Client : Accept(w, c)
    \/ Refuse(w)
    \/ AppendLog(w)
    \/ SendAppendEntries(w)
    \/ WorkerStops(w)

SnapshotLoop == Wake \/ Serve \/ SnapperStops

Next ==
    \/ \E r \in Rpc : RpcArrives(r)
    \/ \E c \in Client : ClientCalls(c) \/ ClientStopped(c) \/ GetCurrentLeader(c)
    \/ Stop
    \/ RunLoop
    \/ \E w \in Workers : Worker(w)
    \/ RequestSnapshot
    \/ ReceiveSnapshot
    \/ SnapshotLoop

\* Every goroutine that can go on is scheduled; a select picks at random among
\* its ready cases, so the run loop takes a request that is there again and again.
Spec ==
    /\ Init /\ [][Next]_vars
    /\ WF_vars(RunLoop)
    /\ \A r \in Rpc : SF_vars(Receive(r))
    /\ WF_vars(RequestSnapshot \/ ReceiveSnapshot) /\ WF_vars(SnapshotLoop)
    /\ \A w \in Workers : WF_vars(Worker(w))
    /\ \A c \in Client : WF_vars(ClientStopped(c) \/ GetCurrentLeader(c))

-----------------------------------------------------------------------------
(***************************************************************************)
(* What is checked.                                                        *)
(***************************************************************************)
\* HandleRequestVote, HandleAppendEntries, HandleInstallSnapshot: all callers of
\* one kind read the same reply channel, and yet each gets the reply to its own
\* request.
OwnAnswer == \A r \in Rpc : rpc[r] = "done" => answer[r] = r

\* takeSnapshot: the goroutines that wait for a snapshot, and the snapshots that
\* are asked for, made or delivered.
Waiting  == {g \in {"run"} \cup Workers : "response" = IF g = "run" THEN run.at ELSE worker[g].at}
UnderWay == ({"snapshotRequestChan", "snapshotResponseChan"} \cap buffered)
                \cup {x \in {snapper} : x = "serving"}

\* takeSnapshot, "so the channel round-trip is safe while the lock is held": the
\* two snapshot channels are shared by the run loop and handleApplyRequests, and
\* yet a snapshot that is delivered is the one its receiver asked for, because
\* one goroutine at most waits for one and no other is under way.
SnapshotForAsker == Cardinality(Waiting) <= 1 /\ Cardinality(UnderWay) = Cardinality(Waiting)

\* As long as the node runs every incoming RPC is answered, whatever snapshots
\* are taken and installed under the lock meanwhile.
RpcAnswered == \A r \in Rpc : rpc[r] = "sending" ~> rpc[r] = "done" \/ stopped

\* takeSnapshot and handleInstallSnapshotRequest wait on a channel with s.mu
\* held: the lock is released again, also when Stop comes in between, unless
\* snapshotLoop has ended.
LockReleased == mu # Nil ~> mu = Nil \/ snapper = "exited"

\* Stop: whatever every goroutine is doing, and wherever Stop finds the callers of
\* Apply, AddServer and RemoveServer, the goroutines of the node end and the
\* callers return, unless s.mu is never free again.
Ended ==
    /\ run.at = "exited" /\ snapper = "exited"
    /\ \A w \in Workers : worker[w].at = "exited"
    /\ \A c \in Client : client[c] \in {"idle", "answered", "stopped"}

-----------------------------------------------------------------------------
(***************************************************************************)
(* What comments say and the code does not do.                             *)
(***************************************************************************)
\* Stop, "gracefully shuts down the node": an RPC that came in is answered or
\* given up, its goroutine does not wait for ever.
RpcReleased == \A r \in Rpc : rpc[r] = "sending" ~> rpc[r] = "done"

\* takeSnapshot, "so the channel round-trip is safe while the lock is held": the
\* run loop ends after Stop.
RunLoopExits == stopped ~> run.at = "exited"

=============================================================================
