----------------------------- MODULE Connections -----------------------------
(***************************************************************************)
(* The connection table of RPCTransport (src/transport/rpc_transport.go)   *)
(* and those who use it: connectToPeers at the start of a node, AddServer  *)
(* on a leader, the goroutines that call peers, and Stop.                  *)
(*                                                                         *)
(* A connection is a number.  What net/rpc does is taken from its use: a   *)
(* call on a connection that is closed or broken fails, any other call is  *)
(* answered or times out.  A peer that goes down breaks its connections.   *)
(***************************************************************************)
EXTENDS Naturals, FiniteSets

CONSTANTS
    Peer,       \* cfg.Peers
    Caller,     \* goroutines that send RPCs
    MaxDowns,   \* times a peer goes down, in all
    MaxAdds,    \* calls of AddServer
    Nil

ASSUME ConnectionsAssumption == IsFiniteSet(Peer) /\ MaxDowns \in Nat /\ MaxAdds \in Nat
ASSUME NilAssumption == Nil \notin Nat \cup Peer /\ "conf" \notin Peer

VARIABLES
    up,         \* the peers that accept connections
    downs,      \* how often one went down
    table,      \* connections: table[p] is a connection or Nil
    live,       \* the connections that work, with their peer
    next,       \* the number of the next connection
    th,         \* th[t]: a goroutine inside Connect; for a peer it is its
                \*   goroutine of connectToPeers, "conf" is AddServer's
    newest,     \* newest[p]: the connection stored last
    call,       \* call[c]: the peer and the connection of the call in progress
    signalled,  \* connectedChan was sent to
    adds,       \* AddServer calls
    stopped     \* Stop: stopCh is closed and the table emptied

vars == <<up, downs, table, live, next, th, newest, call, signalled, adds, stopped>>

Threads == Peer \cup {"conf"}

Thread(at, p) == [at |-> at, peer |-> p, id |-> Nil]
NoCall        == [peer |-> Nil, id |-> Nil]

Init ==
    /\ up     \in SUBSET Peer
    /\ downs  = 0
    /\ table  = [p \in Peer |-> Nil]
    /\ live   = {}
    /\ next   = 1
    /\ th     = [t \in Threads |-> IF t = "conf" THEN Thread("done", Nil) ELSE Thread("check", t)]
    /\ newest = [p \in Peer |-> Nil]
    /\ call   = [c \in Caller |-> NoCall]
    /\ signalled = FALSE
    /\ adds = 0
    /\ stopped = FALSE

Works(p, id) == <<p, id>> \in live

-----------------------------------------------------------------------------
(***************************************************************************)
(* Connect.                                                                *)
(***************************************************************************)
\* connectToPeers looks at stopCh before every attempt.
CheckStop(p) ==
    /\ th[p].at = "check"
    /\ th' = [th EXCEPT ![p].at = IF stopped THEN "done" ELSE "disconnect"]
    /\ UNCHANGED <<up, downs, table, live, next, newest, call, signalled, adds, stopped>>

AddServer(p) ==
    /\ th["conf"].at = "done"
    /\ signalled /\ ~stopped /\ adds < MaxAdds
    /\ adds' = adds + 1
    /\ th' = [th EXCEPT !["conf"] = Thread("disconnect", p)]
    /\ UNCHANGED <<up, downs, table, live, next, newest, call, signalled, stopped>>

Disconnect(t) ==
    /\ th[t].at = "disconnect"
    /\ LET p == th[t].peer
       IN  /\ live'  = live \ {<<p, table[p]>>}
           /\ table' = [table EXCEPT ![p] = Nil]
    /\ th' = [th EXCEPT ![t].at = "dial"]
    /\ UNCHANGED <<up, downs, next, newest, call, signalled, adds, stopped>>

Dial(t) ==
    /\ th[t].at = "dial"
    /\ th[t].peer \in up
    /\ live' = live \cup {<<th[t].peer, next>>}
    /\ next' = next + 1
    /\ th' = [th EXCEPT ![t] = [@ EXCEPT !.at = "store", !.id = next]]
    /\ UNCHANGED <<up, downs, table, newest, call, signalled, adds, stopped>>

\* Mutant: the first failure is the last attempt.
DialFailsOnce(t) ==
    /\ th[t].at = "dial"
    /\ th[t].peer \notin up
    /\ th' = [th EXCEPT ![t].at = "done"]
    /\ UNCHANGED <<up, downs, table, live, next, newest, call, signalled, adds, stopped>>

\* connectToPeers tries again; AddServer only logs it.
DialFails(t) ==
    /\ th[t].at = "dial"
    /\ th[t].peer \notin up
    /\ th' = [th EXCEPT ![t].at = IF t = "conf" THEN "done" ELSE "check"]
    /\ UNCHANGED <<up, downs, table, live, next, newest, call, signalled, adds, stopped>>

Store(t) ==
    /\ th[t].at = "store"
    /\ table'  = [table EXCEPT ![th[t].peer] = th[t].id]
    /\ newest' = [newest EXCEPT ![th[t].peer] = th[t].id]
    /\ th'     = [th EXCEPT ![t].at = "done"]
    /\ UNCHANGED <<up, downs, live, next, call, signalled, adds, stopped>>

Connect(t) == Disconnect(t) \/ Dial(t) \/ DialFails(t) \/ Store(t)

\* connectToPeers has heard of every peer.
Signal ==
    /\ ~signalled /\ ~stopped
    /\ \A p \in Peer : th[p].at = "done" /\ th[p].id # Nil
    /\ signalled' = TRUE
    /\ UNCHANGED <<up, downs, table, live, next, th, newest, call, adds, stopped>>

-----------------------------------------------------------------------------
(***************************************************************************)
(* call.                                                                   *)
(***************************************************************************)
Call(c, p) ==
    /\ call[c] = NoCall
    /\ table[p] # Nil
    /\ call' = [call EXCEPT ![c] = [peer |-> p, id |-> table[p]]]
    /\ UNCHANGED <<up, downs, table, live, next, th, newest, signalled, adds, stopped>>

\* Answered, or timed out.
CallEnds(c) ==
    /\ call[c] # NoCall
    /\ Works(call[c].peer, call[c].id)
    /\ call' = [call EXCEPT ![c] = NoCall]
    /\ UNCHANGED <<up, downs, table, live, next, th, newest, signalled, adds, stopped>>

\* The entry of the target is deleted, whichever connection it is by now.
CallFails(c) ==
    /\ call[c] # NoCall
    /\ ~Works(call[c].peer, call[c].id)
    /\ table' = [table EXCEPT ![call[c].peer] = Nil]
    /\ call'  = [call EXCEPT ![c] = NoCall]
    /\ UNCHANGED <<up, downs, live, next, th, newest, signalled, adds, stopped>>

-----------------------------------------------------------------------------
GoesDown(p) ==
    /\ p \in up /\ downs < MaxDowns
    /\ downs' = downs + 1
    /\ up'    = up \ {p}
    /\ live'  = {x \in live : x[1] # p}
    /\ UNCHANGED <<table, next, th, newest, call, signalled, adds, stopped>>

ComesUp(p) ==
    /\ p \notin up
    /\ up' = up \cup {p}
    /\ UNCHANGED <<downs, table, live, next, th, newest, call, signalled, adds, stopped>>

\* Stop closes stopCh and what Close finds in the table.
Stop ==
    /\ ~stopped
    /\ stopped' = TRUE
    /\ live'  = {x \in live : table[x[1]] # x[2]}
    /\ table' = [p \in Peer |-> Nil]
    /\ UNCHANGED <<up, downs, next, th, newest, call, signalled, adds>>

Next ==
    \/ \E p \in Peer : CheckStop(p) \/ AddServer(p)
    \/ \E t \in Threads : Connect(t)
    \/ Signal
    \/ \E c \in Caller : (\E p \in Peer : Call(c, p)) \/ CallEnds(c) \/ CallFails(c)
    \/ \E p \in Peer : GoesDown(p) \/ ComesUp(p)
    \/ Stop

\* The goroutines are scheduled, calls end, and a peer that is down comes back.
Spec ==
    /\ Init /\ [][Next]_vars
    /\ \A p \in Peer : WF_vars(CheckStop(p)) /\ WF_vars(ComesUp(p))
    /\ \A t \in Threads : WF_vars(Connect(t))
    /\ WF_vars(Signal)
    /\ \A c \in Caller : WF_vars(CallEnds(c)) /\ WF_vars(CallFails(c))

-----------------------------------------------------------------------------
(***************************************************************************)
(* What is checked.                                                        *)
(***************************************************************************)
\* connectToPeers, "with retry": whatever peers are down when the node starts and
\* whichever go down meanwhile, the node gets connected or is stopped.
StartsUp == <>(signalled \/ stopped)

-----------------------------------------------------------------------------
(***************************************************************************)
(* What comments and the README say and the code does not do.              *)
(***************************************************************************)
\* Transport.Connect, "establishes or re-establishes a connection to a peer": a
\* peer that is up for good is reachable in the end, also if it went down before.
Reachable ==
    \A p \in Peer : <>[](p \in up /\ ~stopped) => <>[](table[p] # Nil /\ Works(p, table[p]))

\* The same, of the connection AddServer makes anew: as long as it works it is the
\* one in the table, also if a call on the one before fails only now.
KeepsConnection ==
    ~stopped => \A p \in Peer : Works(p, newest[p]) => table[p] = newest[p]

=============================================================================
