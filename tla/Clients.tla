------------------------------- MODULE Clients -------------------------------
(***************************************************************************)
(* Client commands: RaftNode.Apply and the goroutine handleApplyRequests   *)
(* (src/raft/node.go), which appends commands to the log beside the run    *)
(* loop, saves the state itself and registers where the result goes; and   *)
(* the run loop's checkLogsToApply and applyLog (src/raft/log.go), which   *)
(* hand committed entries to the state machine and report the results.     *)
(*                                                                         *)
(* A command is what one client sends under one sequence number.  A call   *)
(* is one invocation of Apply; several calls may carry the same command (a *)
(* retry).  RaftCore's ApplyLog is replaced by the steps in which the two  *)
(* goroutines can meet: updateLastApplied and getLog take no lock.         *)
(*                                                                         *)
(* The run loop's own persistState takes no lock either.  RaftCore's step  *)
(* handles an RPC or a timeout and writes the outcome, and no other step   *)
(* of the run loop comes before persistState has read the state once more  *)
(* and written what it read, over whatever the applier saved in between.   *)
(***************************************************************************)
EXTENDS RaftCore, Functions

CONSTANTS
    Client,     \* client ids
    Call,       \* invocations of Apply
    Request     \* Request[c]: the command call c carries

ASSUME CommandAssumption == Command \subseteq [client : Client, seq : Nat \ {0}]
ASSUME RequestAssumption == Request \in [Call -> Command] /\ Nil \notin Call /\ IsFiniteSet(Call)

\* In a cluster of several no log is compacted: no InstallSnapshot is sent here.
ASSUME RoomAssumption ==
    Cardinality(Server) = 1 \/ MaxTerm + Cardinality(Call) < LogCap

VARIABLES
    applier,    \* applier[n]: where handleApplyRequests of n is, and with what
    pending,    \* pending[n]: pendingCommands, from log indices to calls
    lastSeq,    \* lastSeq[n]: clientLastSeq
    hand,       \* hand[n]: within checkLogsToApply, the array position that
                \*   updateLastApplied returned ("found") and the entry getLog
                \*   read there ("taken")
    site,       \* site[c]: the node that call c was made on
    result,     \* result[c]: what became of call c
    accepted,   \* history: the commands appended, in order
    saving,     \* saving[n]: what persistState of the run loop has to write:
                \*   nothing ("none"), what it will read ("due"), what it read
    undone      \* history: undone[n] are the commands that storage held and the
                \*   run loop wrote an older state over

clientVars == <<applier, pending, lastSeq, hand, site, result, accepted>>
saveVars   == <<saving, undone>>
allVars    == <<vars, clientVars, saveVars>>

Handling(at, c) == [at |-> at, call |-> c, idx |-> -1, read |-> Nil]
Idle            == Handling("idle", Nil)
NoHand          == [at |-> "none", pos |-> 0, entry |-> Nil]
NothingSeen     == [k \in Client |-> 0]
Saving(at, r)   == [at |-> at, read |-> r]
NotSaving       == Saving("none", Nil)

\* getPersistentState.
PersistentState(s) ==
    [currentTerm |-> s.currentTerm, votedFor |-> s.votedFor, log |-> s.log]

\* Storage d after SaveState(r).
Written(d, r) ==
    [d EXCEPT !.currentTerm = r.currentTerm, !.votedFor = r.votedFor, !.log = r.log]

Commands(log) == {log[k].val : k \in {j \in 1..Len(log) : log[j].kind = "command"}}

ClientInit ==
    /\ Init
    /\ applier  = [n \in Server |-> Idle]
    /\ pending  = [n \in Server |-> <<>>]
    /\ lastSeq  = [n \in Server |-> NothingSeen]
    /\ hand     = [n \in Server |-> NoHand]
    /\ site     = [c \in Call |-> Nil]
    /\ result   = [c \in Call |-> "none"]
    /\ accepted = <<>>
    /\ saving   = [n \in Server |-> NotSaving]
    /\ undone   = [n \in Server |-> {}]

-----------------------------------------------------------------------------
(***************************************************************************)
(* handleApplyRequests, one call at a time.                                *)
(***************************************************************************)
\* The applier of n goes on with the same call.
Step(n, from, to) ==
    /\ applier[n].at = from
    /\ applier' = [applier EXCEPT ![n].at = to]

\* The applier of n answers the call it handles.
Answer(n, from, res) ==
    /\ applier[n].at = from
    /\ applier' = [applier EXCEPT ![n] = Idle]
    /\ result'  = [result EXCEPT ![applier[n].call] = res]

\* A client's numbers never decrease.  It goes on to the next one whatever
\* became of the one before, and until then may send that one again.
InTurn(c) ==
    \A d \in Call :
        Request[d].client = Request[c].client /\ result[d] # "none"
        => Request[d].seq <= Request[c].seq

\* Apply hands the call over and the applier reads the role.
Submit(n, c) ==
    /\ result[c] = "none"
    /\ InTurn(c)
    /\ applier[n].at = "idle"
    /\ site' = [site EXCEPT ![c] = n]
    /\ IF node[n].role = Leader
       THEN /\ applier' = [applier EXCEPT ![n] = Handling("leader", c)]
            /\ result'  = [result EXCEPT ![c] = "waiting"]
       ELSE /\ result'  = [result EXCEPT ![c] = "refused"]
            /\ UNCHANGED applier
    /\ UNCHANGED <<vars, pending, lastSeq, hand, accepted>>

\* Mutant: the number after the last one is taken for one that was applied.
SeenSoon(n, cmd) == cmd.seq <= lastSeq[n][cmd.client] + 1

Seen(n, cmd) == cmd.seq <= lastSeq[n][cmd.client]

Deduplicate(n) ==
    /\ applier[n].at = "leader"
    /\ IF Seen(n, Request[applier[n].call])
       THEN Answer(n, "leader", "ok")
       ELSE Step(n, "leader", "new") /\ UNCHANGED result
    /\ UNCHANGED <<vars, pending, lastSeq, hand, site, accepted>>

\* addCommandLog, whatever the role is by now.
AppendCommand(n) ==
    /\ applier[n].at = "new"
    /\ LET cmd == Request[applier[n].call]
           s   == AddCommandLog(node[n], n, cmd, sm[n])
           ok  == LastLogIdx(s) # LastLogIdx(node[n])
       IN  /\ Update(n, s)
           /\ IF ok
              THEN /\ applier'  = [applier EXCEPT ![n].at = "appended", ![n].idx = LastLogIdx(s)]
                   /\ accepted' = Append(accepted, cmd)
                   /\ UNCHANGED result
              ELSE /\ Answer(n, "new", "refused")
                   /\ UNCHANGED accepted
    /\ UNCHANGED <<loop, connected, held, sm, epoch, netVars, history, pending, lastSeq, hand, site>>

\* persistState in its steps: the state is read under the lock, ...
GetPersistentState(n) ==
    /\ applier[n].at = "appended"
    /\ applier' = [applier EXCEPT ![n].at   = "read",
                                  ![n].read = PersistentState(node[n])]
    /\ UNCHANGED <<vars, pending, lastSeq, hand, site, result, accepted>>

\* ... then it is written, ...
SaveState(n) ==
    /\ Step(n, "read", "saved")
    /\ disk' = [disk EXCEPT ![n] = Written(@, applier[n].read)]
    /\ UNCHANGED <<node, loop, connected, held, sm, epoch, netVars, history,
                   pending, lastSeq, hand, site, result, accepted>>

\* ... and a newer snapshot after it.
SaveSnapshot(n) ==
    /\ Step(n, "saved", "unregistered")
    /\ node' = [node EXCEPT ![n] = NoteStored(@)]
    /\ disk' = [disk EXCEPT ![n].snap = Stored(node[n], disk[n]).snap]
    /\ UNCHANGED <<loop, connected, held, sm, epoch, netVars, history,
                   pending, lastSeq, hand, site, result, accepted>>

\* Mutant: the result is registered before the command is saved.
RegisterEarly(n) ==
    /\ Step(n, "appended", "registered")
    /\ pending' = [pending EXCEPT ![n] = [i \in DOMAIN @ \cup {applier[n].idx} |->
                      IF i = applier[n].idx THEN applier[n].call ELSE @[i]]]
    /\ UNCHANGED <<vars, lastSeq, hand, site, result, accepted>>

\* The call becomes the one to be told when the entry is applied.
Register(n) ==
    /\ Step(n, "unregistered", "registered")
    /\ pending' = [pending EXCEPT ![n] = [i \in DOMAIN @ \cup {applier[n].idx} |->
                      IF i = applier[n].idx THEN applier[n].call ELSE @[i]]]
    /\ UNCHANGED <<vars, lastSeq, hand, site, result, accepted>>

\* sendAppendEntriesRPCs; a goroutine then waits for the result.
Replicate(n) ==
    /\ applier[n].at = "registered"
    /\ applier' = [applier EXCEPT ![n] = Idle]
    /\ Update(n, ArgsBuilt(node[n], Peers(n)))
    /\ SendAE(AEReqsOf(n, node[n]))
    /\ UNCHANGED <<loop, connected, held, sm, epoch, voteReqs, voteResps, history,
                   pending, lastSeq, hand, site, result, accepted>>

Applier(n) ==
    \/ Deduplicate(n)
    \/ AppendCommand(n)
    \/ GetPersistentState(n)
    \/ SaveState(n)
    \/ SaveSnapshot(n)
    \/ Register(n)
    \/ Replicate(n)

-----------------------------------------------------------------------------
(***************************************************************************)
(* checkLogsToApply.                                                       *)
(***************************************************************************)
\* updateLastApplied: the entry counts as applied from here on.
FindEntry(n) ==
    /\ loop[n] = "top" /\ hand[n] = NoHand /\ saving[n] = NotSaving
    /\ CanApply(node[n])
    /\ hand' = [hand EXCEPT ![n] = [at    |-> "found",
                                    pos   |-> FindArrayIdx(node[n].log, node[n].lastApplied + 1),
                                    entry |-> NextToApply(node[n])]]
    /\ Update(n, [node[n] EXCEPT !.lastApplied = node[n].lastApplied + 1])
    /\ UNCHANGED <<loop, connected, held, sm, epoch, netVars, history,
                   applier, pending, lastSeq, site, result, accepted>>

\* Mutant: the log index after the one sought is taken for the position.
GetLogNext(n) ==
    /\ hand[n].at = "found"
    /\ LET k == hand[n].pos + 1
       IN  hand' = [hand EXCEPT ![n].at    = "taken",
                                ![n].entry = IF k <= Len(node[n].log) THEN node[n].log[k] ELSE @]
    /\ UNCHANGED <<vars, applier, pending, lastSeq, site, result, accepted>>

\* getLog reads the array at that position.  The array keeps what it held
\* beyond the log's end after a compaction.
GetLog(n) ==
    /\ hand[n].at = "found"
    /\ LET k == hand[n].pos
       IN  hand' = [hand EXCEPT ![n].at    = "taken",
                                ![n].entry = IF k <= Len(node[n].log) THEN node[n].log[k] ELSE @]
    /\ UNCHANGED <<vars, applier, pending, lastSeq, site, result, accepted>>

\* Mutant: the role is compared the wrong way round.
TellsFollower(n, e) == node[n].role # Leader /\ e.index \in DOMAIN pending[n]

\* The caller is told, if there is one and the node is leader when it looks.
Tells(n, e) == node[n].role = Leader /\ e.index \in DOMAIN pending[n]

\* applyLog: the state machine, the sequence number and the caller's result.
ApplyEntry(n) ==
    /\ hand[n].at = "taken"
    /\ LET e       == hand[n].entry
           command == e.kind = "command"
           told    == Tells(n, e)
       IN  /\ sm'      = [sm EXCEPT ![n] = IF command THEN Append(@, e.val) ELSE @]
           /\ lastSeq' = IF command
                         THEN [lastSeq EXCEPT ![n][e.val.client] = e.val.seq] ELSE lastSeq
           /\ result'  = IF told THEN [result EXCEPT ![pending[n][e.index]] = "ok"] ELSE result
           /\ pending' = IF told
                         THEN [pending EXCEPT ![n] = Restrict(@, DOMAIN @ \ {e.index})] ELSE pending
    /\ hand' = [hand EXCEPT ![n] = NoHand]
    /\ UNCHANGED <<node, loop, connected, held, disk, epoch, netVars, history, applier, site, accepted>>

-----------------------------------------------------------------------------
(***************************************************************************)
(* The run loop but for RaftCore's ApplyLog: the steps that end without    *)
(* and with persistState, and its reading and its writing of the state.    *)
(***************************************************************************)
UnsavedLoop(n) ==
    \/ EnterSelect(n)
    \/ BecomeConnected(n)
    \/ TimeoutUnconnected(n)
    \/ RequestVotes(n)
    \/ \E r \in voteResps : CountVote(n, r)
    \/ \E r \in voteResps : DrainVote(n, r)
    \/ Heartbeat(n)

PersistingLoop(n) ==
    \/ FollowerTimeout(n)
    \/ CandidateTimeout(n)
    \/ \E m \in voteReqs  : HandleVoteReq(n, m)
    \/ BecomeLeader(n)
    \/ \E m \in DOMAIN aeRpcs : HandleAEReq(n, m)

CoreLoop(n) ==
    /\ hand[n] = NoHand /\ saving[n] = NotSaving
    /\ \/ UnsavedLoop(n) /\ UNCHANGED saving
       \/ PersistingLoop(n) /\ saving' = [saving EXCEPT ![n] = Saving("due", Nil)]
    /\ UNCHANGED <<clientVars, undone>>

ReadToSave(n) ==
    /\ saving[n].at = "due"
    /\ saving' = [saving EXCEPT ![n] = Saving("read", PersistentState(node[n]))]
    /\ UNCHANGED <<vars, clientVars, undone>>

\* The state that was read is written, and a newer snapshot after it.
SaveRead(n) ==
    /\ saving[n].at = "read"
    /\ saving' = [saving EXCEPT ![n] = NotSaving]
    /\ node'   = [node EXCEPT ![n] = NoteStored(@)]
    /\ disk'   = [disk EXCEPT ![n] = [Written(@, saving[n].read) EXCEPT
                                          !.snap = Stored(node[n], disk[n]).snap]]
    /\ undone' = [undone EXCEPT ![n] =
                     @ \cup (Commands(disk[n].log) \ Commands(saving[n].read.log))]
    /\ UNCHANGED <<loop, connected, held, sm, epoch, netVars, history, clientVars>>

ClientLoop(n) ==
    \/ CoreLoop(n)
    \/ ReadToSave(n)
    \/ SaveRead(n)
    \/ (FindEntry(n) \/ GetLog(n) \/ ApplyEntry(n)) /\ UNCHANGED saveVars

\* The process dies with the calls made on it; its maps start empty.
ClientRestart(n) ==
    /\ Restart(n)
    /\ applier' = [applier EXCEPT ![n] = Idle]
    /\ pending' = [pending EXCEPT ![n] = <<>>]
    /\ lastSeq' = [lastSeq EXCEPT ![n] = NothingSeen]
    /\ hand'    = [hand EXCEPT ![n] = NoHand]
    /\ result'  = [c \in Call |->
                      IF site[c] = n /\ result[c] = "waiting" THEN "lost" ELSE result[c]]
    /\ saving'  = [saving EXCEPT ![n] = NotSaving]
    /\ UNCHANGED <<site, accepted, undone>>

ClientNext ==
    \/ \E n \in Server : ClientLoop(n)
    \/ \E n \in Server : Applier(n) /\ UNCHANGED saveVars
    \/ \E n \in Server : \E c \in Call : Submit(n, c) /\ UNCHANGED saveVars
    \/ \E n \in Server : \E r \in DOMAIN aeRpcs :
           ReceiveAEResp(n, r) /\ UNCHANGED <<clientVars, saveVars>>
    \/ \E n \in Server : HandleAEResp(n) /\ UNCHANGED <<disk, clientVars, saveVars>>
    \/ \E n \in Server : ClientRestart(n)

ClientSpec == ClientInit /\ [][ClientNext]_allVars

\* Both goroutines are scheduled, and the timer the run loop waits for fires.
FairClientSpec ==
    ClientSpec /\ \A n \in Server : WF_allVars(ClientLoop(n)) /\ WF_allVars(Applier(n) /\ UNCHANGED saveVars)

-----------------------------------------------------------------------------
(***************************************************************************)
(* What is checked.                                                        *)
(***************************************************************************)
\* handleApplyRequests and applyLog: a call is answered with success only when
\* the state machine of the node it was made on has executed its command.  It
\* does not hold of a leader that comes back after its entry was overwritten.
AckedIsApplied ==
    [][\A c \in Call : result[c] # "ok" /\ result'[c] = "ok"
           => Request[c] \in Range(sm'[site'[c]])]_allVars

InStorage(n, cmd) ==
    \/ cmd \in Commands(disk[n].log)
    \/ disk[n].snap # Nil /\ cmd \in Range(disk[n].snap.data)

\* persistState before the registration: what a caller was told is applied had
\* been saved by the node and is in its storage, whatever crash comes next,
\* unless the run loop wrote an older state over it.
AckedDurable ==
    \A c \in Call : result[c] = "ok" =>
        InStorage(site[c], Request[c]) \/ Request[c] \in undone[site[c]]

\* StateMachine, "The RaftNode calls Apply for every committed log entry in
\* order": under the first leadership every state machine has executed the first
\* of the commands that were appended, in that order, none left out.
AppliedInOrder ==
    (\A v \in cast : v[2] <= 1) =>
        \A n \in Server : /\ Len(sm[n]) <= Len(accepted)
                          /\ sm[n] = SubSeq(accepted, 1, Len(sm[n]))

\* applyLog: a call registered before its entry is applied is answered, unless
\* its node dies.
RegisteredAnswered ==
    \A n \in Server : \A c \in Call :
        (/\ c \in Range(pending[n])
         /\ \E i \in DOMAIN pending[n] : pending[n][i] = c /\ node[n].lastApplied < i)
        ~> (result[c] \in {"ok", "lost"})

-----------------------------------------------------------------------------
(***************************************************************************)
(* What comments and the README say and the code does not do.              *)
(***************************************************************************)
\* persistState, "saves the current term, votedFor and log to stable storage":
\* what a caller was told is applied is in the storage of the node.
AckedStored ==
    \A c \in Call : result[c] = "ok" => InStorage(site[c], Request[c])

\* README, "Deduplicacao de comandos por cliente": no state machine executes a
\* command twice.
AppliedOnce ==
    \A n \in Server : \A i, j \in 1..Len(sm[n]) : sm[n][i] = sm[n][j] => i = j

\* Apply, "Blocks until the command is committed and applied (or the node is
\* stopped)": a call whose command was applied does not block for ever.
AppliedAnswered ==
    \A n \in Server : \A c \in Call :
        (site[c] = n /\ result[c] = "waiting" /\ Request[c] \in Range(sm[n]))
        ~> (result[c] # "waiting")

\* addCommandLog, "appends a new LogCommand entry to the leader's log": entries
\* of the same index and term are the same entry in every log.
SameEntry ==
    \A n, m \in Server :
        \A k \in 1..Min({Len(node[n].log), Len(node[m].log)}) :
            node[n].log[k].term = node[m].log[k].term => node[n].log[k] = node[m].log[k]

=============================================================================
