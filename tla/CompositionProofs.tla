------------------------- MODULE CompositionProofs --------------------------
(***************************************************************************)
(* The two specifications that compose RaftCore with more of the code:     *)
(* Clients, what the state machines of a cluster execute under its first   *)
(* leader, and Installs, what a leader that has compacted its log believes *)
(* of its followers.  Each for every cluster.                              *)
(***************************************************************************)
EXTENDS Clients, Installs, RaftCoreProofs

(***************************************************************************)
(* The invariant.  As long as nobody has asked for votes in a term above 1 *)
(* at most one server is elected, only its applier appends, and so there   *)
(* is one log: the no-op of the election and the accepted commands.  Every *)
(* log in memory, in storage, in the hands of the applier or of the run    *)
(* loop's persistState and every batch is a piece of it, so merging never  *)
(* cuts anything off, and a state machine has what is behind lastApplied,  *)
(* or one less while an entry is in hand.                                  *)
(***************************************************************************)
FirstTerm == \A v \in cast : v[2] <= 1

\* The array takes all that was accepted, and no log is compacted.
Fits == Len(accepted) + 1 < LogCap

\* The entry at position k of the one log, when acc are the accepted commands.
EntryAt(acc, k) ==
    IF k = 1 THEN Noop(0, 1)
    ELSE [index |-> k - 1, term |-> 1, kind |-> "command", val |-> acc[k-1]]

Piece(acc, log) ==
    /\ Len(log) <= Len(acc) + 1
    /\ \A k \in 1..Len(log) : log[k] = EntryAt(acc, k)

Whole(acc, log) == Piece(acc, log) /\ Len(log) = Len(acc) + 1

\* The entries are those that follow prevIdx in the one log.
Batch(acc, m) ==
    /\ m.prevIdx + Len(m.entries) <= Len(acc)
    /\ \A i \in 1..Len(m.entries) : m.entries[i] = EntryAt(acc, m.prevIdx + 1 + i)

Blank ==
    /\ accepted = <<>>
    /\ \A n \in Server : node[n].log = <<>> /\ disk[n].log = <<>>
    /\ \A m \in DOMAIN aeRpcs : m.type # "request"

Elected(n) == <<n, 1>> \in elected

TermsOK ==
    /\ \A n \in Server : /\ node[n].currentTerm <= 1 /\ disk[n].currentTerm <= 1
                         /\ held[n] # Nil => held[n].term <= 1
    /\ \A m \in voteReqs : m.term <= 1
    /\ \A m \in voteResps : m.term <= 1
    /\ \A m \in DOMAIN aeRpcs : m.term <= 1

\* A winner neither runs again nor wins again in this term.
RaceOK(n) ==
    /\ node[n].role = Candidate \/ loop[n] \in {Candidate, "started", "won"}
         => <<n, 1, n>> \in cast
    /\ Elected(n) => \/ loop[n] = "won"
                     \/ node[n].role # Candidate /\ loop[n] \notin {Candidate, "started"}
    /\ loop[n] = "won" => Elected(n) /\ Blank
    /\ node[n].role = Leader \/ loop[n] = Leader \/ applier[n].at # "idle" => Elected(n) /\ loop[n] # "won"
    /\ node[n].role = Leader \/ applier[n].at # "idle" => Whole(accepted, node[n].log)

ElectedOK ==
    /\ \A e \in elected : e[2] = 1 /\ <<e[1], 1, e[1]>> \in cast
    /\ elected = {} => Blank

NodeOK(n) ==
    /\ Piece(accepted, node[n].log) /\ node[n].snap = Nil
    /\ node[n].lastApplied < Len(node[n].log)
    /\ Piece(accepted, disk[n].log) /\ disk[n].snap = Nil

Saved == [currentTerm : {1}, votedFor : Server, log : Seq(PlainEntry)]

ApplierOK(n) ==
    applier[n].at = "read" =>
        applier[n].read \in Saved /\ applier[n].read.votedFor = n /\ Piece(accepted, applier[n].read.log)

RequestOK(m) == Elected(m.src) /\ m.dst # m.src /\ Batch(accepted, m)

\* A state machine has executed the first c commands.
Executed(acc, s, c) == Len(s) = c /\ c <= Len(acc) /\ \A i \in 1..c : s[i] = acc[i]

MachineOK(n) ==
    \/ /\ hand[n] = NoHand
       /\ Executed(accepted, sm[n], IF node[n].lastApplied > 0 THEN node[n].lastApplied ELSE 0)
    \/ /\ hand[n].at \in {"found", "taken"} /\ loop[n] = "top"
       /\ node[n].lastApplied >= 0
       /\ hand[n].pos = node[n].lastApplied + 1 /\ hand[n].entry = EntryAt(accepted, hand[n].pos)
       /\ Executed(accepted, sm[n], IF node[n].lastApplied > 1 THEN node[n].lastApplied - 1 ELSE 0)

AppliersAt == [at   : {"idle", "leader", "new", "appended", "read", "saved", "unregistered", "registered"},
               call : Call \cup {Nil}, idx : Index, read : Saved \cup {Nil}]

Hands == [at : {"none", "found", "taken"}, pos : Nat, entry : Entry \cup {Nil}]

ClientType ==
    /\ applier  \in [Server -> AppliersAt]
    /\ \A n \in Server : applier[n].at # "idle" => applier[n].call \in Call
    /\ hand     \in [Server -> Hands]
    /\ accepted \in Seq(Command)

Base == TypeOK /\ VoteInv /\ EInv /\ PlainInv /\ WinnersInv

FirstOK ==
    /\ Base /\ ClientType /\ TermsOK /\ ElectedOK
    /\ \A n \in Server : RaceOK(n) /\ NodeOK(n) /\ ApplierOK(n) /\ MachineOK(n)
    /\ \A m \in DOMAIN aeRpcs : m.type = "request" => RequestOK(m)

\* What persistState of the run loop has read: the vote and the term are still
\* those of the node, because no other goroutine changes them in the first term.
Saves == [currentTerm : Nat, votedFor : Server \cup {Nil}, log : Seq(PlainEntry)]

SavingType ==
    saving \in [Server -> [at : {"none", "due", "read"}, read : Saves \cup {Nil}]]

ReadOK(s, acc, r) ==
    /\ r \in Saves /\ r.currentTerm = s.currentTerm /\ r.votedFor = s.votedFor
    /\ Piece(acc, r.log)
    /\ s.log = <<>> => r.log = <<>>

SavingOK(n) ==
    /\ saving[n].at = "read" => ReadOK(node[n], accepted, saving[n].read)
    /\ held[n] # Nil => Elected(n)

SavesOK == SavingType /\ \A n \in Server : SavingOK(n)

FirstInv == FirstTerm => FirstOK /\ SavesOK

-----------------------------------------------------------------------------
(***************************************************************************)
(* Pieces of the one log.                                                  *)
(***************************************************************************)
\* Indices and terms.
LEMMA PieceFields ==
    ASSUME NEW acc, NEW log, Piece(acc, log), NEW k \in 1..Len(log)
    PROVE  /\ log[k].index = k - 1 /\ log[k].term = 1
           /\ log[k].kind = "command" <=> k # 1
           /\ k # 1 => log[k].val = acc[k-1]
<1>1. log[k] = EntryAt(acc, k)
  BY DEF Piece
<1>2. CASE k = 1
  <2>1. log[k] = [index |-> 0, term |-> 1, kind |-> "noop", val |-> Nil]
    BY <1>1, <1>2 DEF EntryAt, Noop
  <2> QED
    BY <1>2, <2>1
<1>3. CASE k # 1
  <2>1. log[k] = [index |-> k - 1, term |-> 1, kind |-> "command", val |-> acc[k-1]]
    BY <1>1, <1>3 DEF EntryAt
  <2> QED
    BY <1>3, <2>1
<1> QED
  BY <1>2, <1>3

\* Position and index are one apart.
LEMMA PieceFind ==
    ASSUME NEW acc, NEW log \in Seq(Entry), Piece(acc, log), NEW i \in Index
    PROVE  FindArrayIdx(log, i) = IF i \in 0..Len(log)-1 THEN i + 1 ELSE 0
<1> DEFINE k == FindArrayIdx(log, i)
<1>1. /\ k = 0 => \A j \in 1..Len(log) : log[j].index # i
      /\ k # 0 => k \in 1..Len(log) /\ log[k].index = i
  BY FindArrayIdxFinds
<1>2. \A j \in 1..Len(log) : log[j].index = j - 1
  BY PieceFields
<1>3. Len(log) \in Nat /\ i \in Int
  BY DEF Index
<1> HIDE DEF k
<1>4. CASE k = 0
  <2>1. i \notin 0..Len(log)-1
    <3> SUFFICES ASSUME i \in 0..Len(log)-1 PROVE FALSE
      OBVIOUS
    <3>1. i + 1 \in 1..Len(log) /\ (i + 1) - 1 = i
      BY <1>3
    <3> QED
      BY <1>1, <1>2, <1>4, <3>1
  <2> QED
    BY <1>4, <2>1 DEF k
<1>5. CASE k # 0
  <2>1. k \in 1..Len(log) /\ i = k - 1
    BY <1>1, <1>2, <1>5
  <2>2. i \in 0..Len(log)-1 /\ k = i + 1
    BY <1>3, <2>1
  <2> QED
    BY <2>2 DEF k
<1> QED
  BY <1>4, <1>5

\* The last index.
LEMMA PieceLast ==
    ASSUME NEW acc, NEW s \in NodeStates, Piece(acc, s.log), s.snap = Nil
    PROVE  LastLogIdx(s) = Len(s.log) - 1
<1>1. s.log \in Seq(Entry) /\ Len(s.log) \in Nat
  BY DEF NodeStates
<1>2. CASE s.log = <<>>
  <2>1. LastLogIdx(s) = -1
    BY <1>2 DEF LastLogIdx
  <2> QED
    BY <1>2, <2>1
<1>3. CASE s.log # <<>>
  <2>1. Len(s.log) \in 1..Len(s.log)
    BY <1>1, <1>3
  <2>2. s.log[Len(s.log)].index = Len(s.log) - 1
    BY <2>1, PieceFields
  <2> QED
    BY <1>3, <2>2 DEF LastLogIdx
<1> QED
  BY <1>2, <1>3

\* new is acc and one command more: the one log goes on.
OneMore(acc, new) ==
    /\ Len(acc) \in Nat /\ Len(new) = Len(acc) + 1
    /\ \A k \in 1..Len(acc)+1 : EntryAt(new, k) = EntryAt(acc, k)
    /\ \A i \in 1..Len(acc) : new[i] = acc[i]

\* Accepting a command is that.
LEMMA PieceGrows ==
    ASSUME NEW acc \in Seq(Command), NEW c \in Command, NEW new, new = Append(acc, c)
    PROVE  new \in Seq(Command) /\ new[Len(acc) + 1] = c /\ OneMore(acc, new)
<1>1. /\ new \in Seq(Command) /\ Len(new) = Len(acc) + 1 /\ Len(acc) \in Nat
      /\ \A i \in 1..Len(acc) : new[i] = acc[i]
      /\ new[Len(acc) + 1] = c
  OBVIOUS
<1>2. ASSUME NEW k \in 1..Len(acc)+1 PROVE EntryAt(new, k) = EntryAt(acc, k)
  <2>1. CASE k = 1
    BY <2>1 DEF EntryAt
  <2>2. CASE k # 1
    <3>1. k - 1 \in 1..Len(acc)
      BY <1>1, <2>2
    <3>2. new[k-1] = acc[k-1]
      BY <1>1, <3>1
    <3> QED
      BY <2>2, <3>2 DEF EntryAt
  <2> QED
    BY <2>1, <2>2
<1> QED
  BY <1>1, <1>2 DEF OneMore

\* A log, a batch and a state machine stay what they are when one more command
\* is accepted.
LEMMA PieceStays ==
    ASSUME NEW acc, NEW new, OneMore(acc, new)
    PROVE  /\ \A log : Len(log) \in Nat /\ Piece(acc, log) => Piece(new, log)
           /\ \A m : Len(m.entries) \in Nat /\ m.prevIdx \in Index /\ Batch(acc, m) => Batch(new, m)
           /\ \A s, i : i \in Nat /\ Executed(acc, s, i) => Executed(new, s, i)
<1>1. /\ Len(new) = Len(acc) + 1 /\ Len(acc) \in Nat
      /\ \A k \in 1..Len(acc)+1 : EntryAt(new, k) = EntryAt(acc, k)
      /\ \A i \in 1..Len(acc) : new[i] = acc[i]
  BY DEF OneMore
<1>2. ASSUME NEW log, Len(log) \in Nat, Piece(acc, log) PROVE Piece(new, log)
  <2>1. Len(log) <= Len(new) + 1
    BY <1>1, <1>2 DEF Piece
  <2>2. ASSUME NEW k \in 1..Len(log) PROVE log[k] = EntryAt(new, k)
    <3>1. k \in 1..Len(acc)+1
      BY <1>1, <1>2 DEF Piece
    <3> QED
      BY <1>1, <1>2, <3>1 DEF Piece
  <2> QED
    BY <2>1, <2>2 DEF Piece
<1>3. ASSUME NEW m, Len(m.entries) \in Nat, m.prevIdx \in Index, Batch(acc, m) PROVE Batch(new, m)
  <2>1. m.prevIdx + Len(m.entries) <= Len(acc) /\ m.prevIdx \in Int /\ m.prevIdx >= -1
    BY <1>3 DEF Batch, Index
  <2>2. m.prevIdx + Len(m.entries) <= Len(new)
    BY <1>1, <1>3, <2>1
  <2>3. ASSUME NEW i \in 1..Len(m.entries) PROVE m.entries[i] = EntryAt(new, m.prevIdx + 1 + i)
    <3>1. m.prevIdx + 1 + i \in 1..Len(acc)+1
      BY <1>1, <1>3, <2>1, SMTT(40)
    <3>2. EntryAt(new, m.prevIdx + 1 + i) = EntryAt(acc, m.prevIdx + 1 + i)
      BY <1>1, <3>1
    <3> QED
      BY <1>3, <3>2 DEF Batch
  <2> QED
    BY <2>2, <2>3 DEF Batch
<1>4. ASSUME NEW s, NEW i, i \in Nat, Executed(acc, s, i) PROVE Executed(new, s, i)
  <2>1. i <= Len(acc) /\ Len(s) = i /\ \A j \in 1..i : s[j] = acc[j]
    BY <1>4 DEF Executed
  <2>2. \A j \in 1..i : j \in 1..Len(acc)
    BY <1>1, <1>4, <2>1
  <2>3. i <= Len(new)
    BY <1>1, <1>4, <2>1
  <2> QED
    BY <1>1, <2>1, <2>2, <2>3 DEF Executed
<1> QED
  BY <1>2, <1>3, <1>4

\* What is left of a piece when the end is cut off.
LEMMA PieceCut ==
    ASSUME NEW acc \in Seq(Command), NEW log \in Seq(Entry), Piece(acc, log), NEW j \in 0..Len(log)
    PROVE  Piece(acc, SubSeq(log, 1, j))
<1>1. Len(SubSeq(log, 1, j)) = j /\ \A k \in 1..j : SubSeq(log, 1, j)[k] = log[k]
  OBVIOUS
<1>2. Len(acc) \in Nat /\ Len(log) \in Nat /\ Len(log) <= Len(acc) + 1
  BY DEF Piece
<1>3. \A k \in 1..j : k \in 1..Len(log)
  BY <1>2
<1>4. j <= Len(acc) + 1
  BY <1>2
<1> QED
  BY <1>1, <1>3, <1>4 DEF Piece

\* getAppendEntriesArgs sends what follows prevIdx in the one log.
LEMMA PieceSent ==
    ASSUME NEW acc \in Seq(Command), NEW s \in NodeStates, Piece(acc, s.log), s.snap = Nil,
           NEW n \in Server, NEW p \in Server, NEW m, m = AEReqOf(n, s, p)
    PROVE  Batch(acc, m)
<1> DEFINE i == s.nextIndex[p]
           k == FindArrayIdx(s.log, i)
           len == Len(s.log)
<1>1. /\ s.log \in Seq(Entry) /\ len \in Nat /\ i \in Nat /\ Len(acc) \in Nat
      /\ len <= Len(acc) + 1
  BY DEF NodeStates, Piece
<1>2. k = IF i \in 0..len-1 THEN i + 1 ELSE 0
  BY <1>1, PieceFind DEF Index
<1>3. m.prevIdx = PrevFor(s, p).idx /\ m.entries = EntriesFor(s, p)
  BY DEF AEReqOf, AppendEntriesArgs
<1>4. CASE k = 0
  <2>1. m.prevIdx = len - 1
    BY <1>3, <1>4, PieceLast DEF PrevFor
  <2>2. m.entries = <<>>
    BY <1>3, <1>4 DEF EntriesFor
  <2>3. Len(m.entries) = 0
    BY <2>2
  <2> QED
    BY <1>1, <2>1, <2>3 DEF Batch
<1>5. CASE k # 0
  <2>1. k \in 1..len
    BY <1>1, <1>2, <1>5
  <2>2. /\ m.entries = SubSeq(s.log, k, len)
        /\ Len(m.entries) = len - k + 1
        /\ \A j \in 1..(len - k + 1) : m.entries[j] = s.log[k + j - 1]
    BY <1>1, <1>3, <1>5, <2>1, SMTT(40) DEF EntriesFor
  <2>3. m.prevIdx = k - 2
    <3>1. CASE k = 1
      BY <1>3, <3>1 DEF PrevFor
    <3>2. CASE k > 1
      <4>1. m.prevIdx = s.log[k-1].index
        BY <1>3, <3>2 DEF PrevFor
      <4>2. k - 1 \in 1..len
        BY <1>1, <2>1, <3>2
      <4>3. s.log[k-1].index = (k - 1) - 1
        BY <4>2, PieceFields
      <4> QED
        BY <2>1, <4>1, <4>3
    <3> QED
      BY <2>1, <3>1, <3>2
  <2>4. m.prevIdx + Len(m.entries) <= Len(acc)
    BY <1>1, <2>1, <2>2, <2>3
  <2>5. ASSUME NEW j \in 1..Len(m.entries) PROVE m.entries[j] = EntryAt(acc, m.prevIdx + 1 + j)
    <3> HIDE DEF k, len
    <3>a. j \in 1..(len - k + 1) /\ j \in Int /\ k \in Int /\ len \in Nat
      BY <1>1, <2>1, <2>2
    <3>1. j \in 1..(len - k + 1) /\ k + j - 1 \in 1..len /\ m.prevIdx + 1 + j = k + j - 1
      BY <2>1, <2>3, <3>a
    <3>2. s.log[k + j - 1] = EntryAt(acc, k + j - 1)
      BY <3>1 DEF Piece, len
    <3> QED
      BY <2>2, <3>1, <3>2
  <2> QED
    BY <2>4, <2>5 DEF Batch
<1> QED
  BY <1>4, <1>5

\* The entries of a batch that follows position k go on from there in the one
\* log: merging them loses nothing.
LEMMA PieceMerged ==
    ASSUME NEW acc \in Seq(Command), NEW log \in Seq(Entry), Piece(acc, log),
           NEW m, m.entries \in Seq(Entry), m.prevIdx \in Index, Batch(acc, m),
           NEW k \in 0..Len(log), k = m.prevIdx + 1,
           NEW new, Merged(log, k, m.entries, new)
    PROVE  Piece(acc, new) /\ new \in Seq(Entry) /\ Len(new) >= Len(log)
<1> DEFINE es == m.entries
<1>1. MergedAs(log, k, es, new)
  BY MergedLog
<1>2. /\ Len(log) \in Nat /\ Len(es) \in Nat /\ Len(acc) \in Nat /\ Len(new) \in Nat
      /\ new \in Seq(Entry) /\ k \in Int
      /\ k + Len(es) <= Len(acc) + 1
      /\ \A i \in 1..Len(es) : es[i] = EntryAt(acc, k + i)
  <2>1. new \in Seq(Entry)
    BY <1>1 DEF MergedAs
  <2>2. m.prevIdx \in Int /\ m.prevIdx + Len(es) <= Len(acc) /\ Len(es) \in Nat /\ Len(acc) \in Nat
    BY DEF Batch, Index
  <2>3. \A i \in 1..Len(es) : es[i] = EntryAt(acc, k + i)
    BY DEF Batch
  <2> HIDE DEF es
  <2>4. k + Len(es) <= Len(acc) + 1
    BY <2>2
  <2> QED
    BY <2>1, <2>2, <2>3, <2>4
<1> HIDE DEF es
<1>3. CASE new = log
  BY <1>2, <1>3
<1>4. CASE new # log
  <2>1. Len(new) = k + Len(es)
    BY <1>1, <1>4 DEF MergedAs
  <2>2. ASSUME NEW x \in 1..Len(new) PROVE new[x] = EntryAt(acc, x)
    <3>1. CASE x <= k
      <4>1. x \in 1..k /\ x \in 1..Len(log)
        BY <1>2, <3>1
      <4> QED
        BY <1>1, <4>1 DEF MergedAs, Piece
    <3>2. CASE x > k
      <4> DEFINE j == x - k
      <4>1. j \in 1..Len(es) /\ k + j = x
        BY <1>2, <2>1, <3>2, SMTT(40)
      <4> HIDE DEF j
      <4>2. new[k+j] = es[j] \/ (k + j <= Len(log) /\ new[k+j] = log[k+j])
        BY <1>1, <4>1 DEF MergedAs
      <4>3. k + j <= Len(log) => k + j \in 1..Len(log)
        BY <1>2, <4>1, SMTT(40)
      <4>4. k + j \in 1..Len(log) => log[k+j] = EntryAt(acc, k+j)
        BY DEF Piece
      <4>5. es[j] = EntryAt(acc, k + j)
        BY <1>2, <4>1
      <4>6. new[k+j] = EntryAt(acc, k+j)
        BY <4>2, <4>3, <4>4, <4>5, Zenon
      <4> QED
        BY <4>1, <4>6
    <3> QED
      BY <1>2, <3>1, <3>2
  <2>3. PICK d \in Differing(log, k, es) : TRUE
    BY <1>4, Zenon DEF Merged, es
  <2>4. d \in 1..Len(es) /\ (\/ k + d > Len(log)
                             \/ log[k+d].index # es[d].index \/ log[k+d].term # es[d].term)
    BY <2>3 DEF Differing
  <2>5. k + d > Len(log)
    <3> SUFFICES ASSUME ~(k + d > Len(log)) PROVE FALSE
      OBVIOUS
    <3>1. k + d \in 1..Len(log)
      BY <1>2, <2>4, SMTT(40)
    <3>2. log[k+d] = EntryAt(acc, k + d)
      BY <3>1 DEF Piece
    <3>3. es[d] = EntryAt(acc, k + d)
      BY <1>2, <2>4
    <3> QED
      BY <2>4, <3>2, <3>3
  <2>6. Len(new) >= Len(log) /\ Len(new) <= Len(acc) + 1
    BY <1>2, <2>1, <2>4, <2>5
  <2> QED
    BY <1>2, <2>2, <2>6 DEF Piece
<1> QED
  BY <1>3, <1>4

\* handleAppendEntries with a batch of the one log: the log stays a piece of it and
\* loses nothing; the array is not full, so nothing is compacted.
LEMMA PieceHandle ==
    ASSUME NEW acc \in Seq(Command), Len(acc) + 1 < LogCap,
           NEW s \in NodeStates, Piece(acc, s.log), s.snap = Nil, NEW data \in Seq(Command),
           NEW m \in AEReq, Batch(acc, m), NEW r, r = HandleAppendEntries(s, m, data)
    PROVE  /\ r \in NodeStates /\ Piece(acc, r.log) /\ Len(r.log) >= Len(s.log)
           /\ r.snap = Nil /\ r.lastApplied = s.lastApplied
<1>1. /\ m.term \in Nat /\ m.leader \in Server \cup {Nil} /\ m.entries \in Seq(Entry)
      /\ m.commit \in Index /\ m.prevIdx \in Index
  BY DEF AEReq
<1>2. r \in NodeStates
  BY <1>1, HandleAppendEntriesEffect
<1>3. s.log \in Seq(Entry) /\ Len(s.log) \in Nat /\ Len(acc) \in Nat /\ LogCap \in Nat
  BY LogCapAssumption DEF NodeStates
<1>4. CASE SameLog(s, r)
  BY <1>2, <1>3, <1>4 DEF SameLog
<1>5. ASSUME NEW l \in NodeStates, SameLog(s, l), PrevLogOK(s, m),
             IF Overflows(s, m) THEN r = TakeSnapshot(l, data)
             ELSE r = CommitFrom(MergeEntries(l, MergePoint(s, m), m.entries), m)
      PROVE  /\ Piece(acc, r.log) /\ Len(r.log) >= Len(s.log)
             /\ r.snap = Nil /\ r.lastApplied = s.lastApplied
  <2> DEFINE k == MergePoint(s, m)
             j == MergeEntries(l, k, m.entries)
  <2>1. l.log = s.log /\ l.snap = Nil /\ l.lastApplied = s.lastApplied
    BY <1>5 DEF SameLog
  <2>2. k \in 0..Len(s.log) /\ k = m.prevIdx + 1
    <3>1. CASE m.prevIdx < 0
      BY <1>1, <1>3, <3>1 DEF MergePoint, Index
    <3>2. CASE ~(m.prevIdx < 0)
      <4>1. k = FindArrayIdx(s.log, m.prevIdx) /\ k # 0
        BY <1>5, <3>2 DEF MergePoint, PrevLogOK
      <4>2. k = IF m.prevIdx \in 0..Len(s.log)-1 THEN m.prevIdx + 1 ELSE 0
        BY <1>1, <1>3, <4>1, PieceFind
      <4> QED
        BY <1>3, <4>1, <4>2
    <3> QED
      BY <3>1, <3>2
  <2>3. ~Overflows(s, m)
    <3>1. k + Len(m.entries) <= Len(acc) + 1
      <4>1. m.prevIdx \in Int /\ Len(m.entries) \in Nat /\ m.prevIdx + Len(m.entries) <= Len(acc)
        BY <1>1 DEF Batch, Index
      <4> QED
        BY <1>3, <2>2, <4>1
    <3>2. Len(m.entries) \in Nat /\ k \in Nat
      BY <1>1, <2>2
    <3> HIDE DEF k
    <3>3. ~(k + Len(m.entries) >= LogCap)
      BY <1>3, <3>1, <3>2
    <3> QED
      BY <3>3 DEF Overflows, k
  <2>4. r = CommitFrom(j, m)
    BY <1>5, <2>3
  <2> HIDE DEF k
  <2>5. /\ j \in NodeStates /\ j.snap = l.snap /\ j.lastApplied = l.lastApplied
        /\ Merged(s.log, k, m.entries, j.log)
    BY <1>1, <2>1, <2>2, MergeEntriesType, MergeEntriesLog
  <2> HIDE DEF j
  <2>6. SameLog(j, r)
    BY <2>4, <2>5, QuietLog
  <2>7. Piece(acc, j.log) /\ Len(j.log) >= Len(s.log)
    BY <1>1, <1>3, <2>2, <2>5, PieceMerged
  <2> QED
    BY <2>1, <2>5, <2>6, <2>7 DEF SameLog
<1> QED
  BY <1>1, <1>2, <1>4, <1>5, HandleAppendEntriesLog

-----------------------------------------------------------------------------
(***************************************************************************)
(* What the elections promise, in the steps of RaftCore and in those of    *)
(* the two goroutines that touch no ballot.                                *)
(***************************************************************************)
\* A step of RaftCore.
LEMMA CoreBase ==
    ASSUME Base, Next
    PROVE  Base' /\ cast \subseteq cast'
  BY LiveStep, VoteInvStep, EInvStep, PlainStep, WinnersStep, CastGrows DEF Base

\* A step of n that leaves its ballot alone, and all that elections are made of.
LEMMA QuietBase ==
    ASSUME Base, TypeOK', NEW n \in Server, BallotStep(n), SameBallot(node[n], node'[n]),
           PlainState(node'[n]), disk'[n] = disk[n] \/ disk'[n].log \in Seq(PlainEntry),
           UNCHANGED <<loop, epoch, voteReqs, voteResps, cast, elected, tally>>,
           \A m \in DOMAIN aeRpcs' : m \in DOMAIN aeRpcs \/ PlainRpc(m)
    PROVE  Base'
<1>1. TypeOK /\ VoteInv /\ EInv /\ PlainInv /\ WinnersInv
  BY DEF Base
<1>2. VoteInv'
  <2>1. VoteOnce' /\ CastBacked'
    BY <1>1, BallotStepBacks DEF VoteInv, VoteOnce, CastBacked
  <2>2. \A p \in Server : node'[p].currentTerm = node[p].currentTerm
    BY DEF BallotStep, SameBallot
  <2>3. PositiveTerms'
    BY <1>1, <2>2 DEF VoteInv, PositiveTerms
  <2> QED
    BY <2>1, <2>3 DEF VoteInv
<1>3. EInv'
  <2>1. MsgInv' /\ \A p, v, t : Due(p, v, t)' => Due(p, v, t)
    BY <1>1, MsgShrinks DEF EInv
  <2>2. CalmStep(n)
    BY DEF CalmStep, SameBallot
  <2>3. CountInv'
    BY <1>1, <2>1, <2>2, CalmKeeps DEF EInv
  <2>4. \A p \in Server : node'[p].votes = node[p].votes
    BY DEF BallotStep, SameBallot
  <2>5. VotesAreVoters'
    BY <1>1, <2>4 DEF EInv, VotesAreVoters
  <2> QED
    BY <2>1, <2>3, <2>5 DEF EInv
<1>4. PlainInv'
  BY <1>1, PlainKeeps
<1>5. WinnersInv'
  BY <1>1 DEF WinnersInv, Majority
<1> QED
  BY <1>2, <1>3, <1>4, <1>5 DEF Base

\* At most one server is elected in term 1, ...
AloneElected == \A n, p \in Server : Elected(n) /\ Elected(p) => n = p

LEMMA OneElected == Base => AloneElected
<1> HAVE Base
<1>1. ElectedOnce
  BY MajoritiesMeet DEF Base, VoteInv
<1> QED
  BY <1>1 DEF ElectedOnce, Elected, AloneElected

\* ... after a step too.
LEMMA OneElectedNext == Base' => AloneElected'
  BY OneElected, PTL

\* It is in term 1 and has voted for itself, in memory and in storage.
LEMMA ElectedBallot ==
    ASSUME FirstOK, NEW n \in Server, Elected(n)
    PROVE  /\ node[n].currentTerm = 1 /\ node[n].votedFor = n
           /\ disk[n].currentTerm = 1 /\ disk[n].votedFor = n
<1>1. <<n, 1, n>> \in cast
  BY DEF FirstOK, ElectedOK, Elected
<1>2. Backs(node[n], 1, n) /\ Backs(disk[n], 1, n)
  BY <1>1 DEF FirstOK, Base, VoteInv, CastBacked
<1>3. node[n].currentTerm \in Nat /\ disk[n].currentTerm \in Nat
  BY DEF FirstOK, Base, TypeOK, NodeStates, Disk
<1>4. node[n].currentTerm <= 1 /\ disk[n].currentTerm <= 1
  BY DEF FirstOK, TermsOK
<1> QED
  BY <1>2, <1>3, <1>4 DEF Backs

LEMMA ElectedBallotNext ==
    ASSUME FirstOK', NEW n \in Server, Elected(n)'
    PROVE  node'[n].currentTerm = 1 /\ node'[n].votedFor = n
<1>1. <<n, 1, n>> \in cast'
  BY DEF FirstOK, ElectedOK, Elected
<1>2. Backs(node[n], 1, n)'
  BY <1>1 DEF FirstOK, Base, VoteInv, CastBacked
<1>3. node'[n].currentTerm \in Nat /\ node'[n].currentTerm <= 1
  BY DEF FirstOK, Base, TypeOK, NodeStates, TermsOK
<1> QED
  BY <1>2, <1>3 DEF Backs

-----------------------------------------------------------------------------
(***************************************************************************)
(* What a step of n has to establish.  Only the elected server accepts     *)
(* commands, and only one server is elected, so the others keep their part *)
(* of the invariant.                                                       *)
(***************************************************************************)
OthersSame(n) ==
    \A p \in Server \ {n} : /\ node'[p] = node[p] /\ disk'[p] = disk[p] /\ loop'[p] = loop[p]
                            /\ applier'[p] = applier[p] /\ hand'[p] = hand[p] /\ sm'[p] = sm[p]

Accepts(n) == accepted' = accepted \/ (Elected(n) /\ OneMore(accepted, accepted'))

\* Logs, batches and what was executed stay what they are.
LEMMA AcceptsKeeps ==
    ASSUME NEW n, Accepts(n)
    PROVE  /\ \A log : Len(log) \in Nat /\ Piece(accepted, log) => Piece(accepted', log)
           /\ \A m : Len(m.entries) \in Nat /\ m.prevIdx \in Index /\ Batch(accepted, m)
                        => Batch(accepted', m)
           /\ \A s, i : i \in Nat /\ Executed(accepted, s, i) => Executed(accepted', s, i)
           /\ \A k \in 1..Len(accepted)+1 : EntryAt(accepted', k) = EntryAt(accepted, k)
<1>1. CASE accepted' = accepted
  BY <1>1
<1>2. CASE OneMore(accepted, accepted')
  BY <1>2, PieceStays DEF OneMore
<1> QED
  BY <1>1, <1>2 DEF Accepts

\* A server that does not move.
LEMMA OtherKeeps ==
    ASSUME FirstOK, NEW n \in Server, NEW p \in Server, p # n, OthersSame(n), Accepts(n),
           cast \subseteq cast', elected \subseteq elected', elected' \subseteq elected \cup {<<n, 1>>},
           Elected(n) \/ (Blank => Blank')
    PROVE  RaceOK(p)' /\ NodeOK(p)' /\ ApplierOK(p)' /\ MachineOK(p)'
<1>1. /\ node'[p] = node[p] /\ disk'[p] = disk[p] /\ loop'[p] = loop[p]
      /\ applier'[p] = applier[p] /\ hand'[p] = hand[p] /\ sm'[p] = sm[p]
  BY DEF OthersSame
<1>2. RaceOK(p) /\ NodeOK(p) /\ ApplierOK(p) /\ MachineOK(p)
  BY DEF FirstOK
<1>3. Elected(p)' <=> Elected(p)
  BY DEF Elected
<1>4. Elected(p) => (Blank => Blank') /\ accepted' = accepted
  <2>1. Elected(p) => ~Elected(n)
    BY OneElected DEF FirstOK, AloneElected
  <2> QED
    BY <2>1 DEF Accepts
<1>5. RaceOK(p)'
  <2>1. loop[p] = "won" => Elected(p) /\ Blank'
    BY <1>2, <1>4 DEF RaceOK
  <2>2. node[p].role = Leader \/ applier[p].at # "idle" => Elected(p) /\ Whole(accepted, node[p].log)
    BY <1>2 DEF RaceOK
  <2>3. node[p].role = Leader \/ applier[p].at # "idle" => Whole(accepted', node[p].log)
    BY <1>4, <2>2
  <2> QED
    BY <1>1, <1>2, <1>3, <2>1, <2>3 DEF RaceOK
<1>6. /\ Len(node[p].log) \in Nat /\ Len(disk[p].log) \in Nat /\ node[p].lastApplied \in Index
      /\ applier[p].at = "read" => Len(applier[p].read.log) \in Nat
  BY <1>2, SMTT(40) DEF FirstOK, Base, TypeOK, NodeStates, Disk, ApplierOK, Saved
<1>7. NodeOK(p)'
  BY <1>1, <1>2, <1>6, AcceptsKeeps DEF NodeOK
<1>8. ApplierOK(p)'
  BY <1>1, <1>2, <1>6, AcceptsKeeps DEF ApplierOK
<1>9. MachineOK(p)'
  <2> DEFINE a == node[p].lastApplied
  <2>1. a \in Int /\ a < Len(node[p].log) /\ Len(node[p].log) <= Len(accepted) + 1
        /\ Len(accepted) \in Nat
    BY <1>2, <1>6 DEF NodeOK, Piece, Index, FirstOK, ClientType
  <2>2. a >= 0 => a + 1 \in 1..Len(accepted)+1
    BY <1>6, <2>1
  <2>3. (IF a > 0 THEN a ELSE 0) \in Nat /\ (IF a > 1 THEN a - 1 ELSE 0) \in Nat
    BY <2>1
  <2>4. a >= 0 => EntryAt(accepted', a + 1) = EntryAt(accepted, a + 1)
    BY <2>2, AcceptsKeeps
  <2>5. CASE hand[p] = NoHand /\ Executed(accepted, sm[p], IF a > 0 THEN a ELSE 0)
    <3>1. Executed(accepted', sm[p], IF a > 0 THEN a ELSE 0)
      BY <2>3, <2>5, AcceptsKeeps
    <3> QED
      BY <1>1, <2>5, <3>1 DEF MachineOK
  <2>6. CASE /\ hand[p].at \in {"found", "taken"} /\ loop[p] = "top" /\ a >= 0
             /\ hand[p].pos = a + 1 /\ hand[p].entry = EntryAt(accepted, hand[p].pos)
             /\ Executed(accepted, sm[p], IF a > 1 THEN a - 1 ELSE 0)
    <3>1. Executed(accepted', sm[p], IF a > 1 THEN a - 1 ELSE 0)
      BY <2>3, <2>6, AcceptsKeeps
    <3>2. hand[p].entry = EntryAt(accepted', hand[p].pos)
      BY <2>4, <2>6
    <3> QED
      BY <1>1, <2>6, <3>1, <3>2 DEF MachineOK
  <2> QED
    BY <1>2, <2>5, <2>6 DEF MachineOK
<1> QED
  BY <1>5, <1>7, <1>8, <1>9

\* A step of n.
LEMMA FirstStep ==
    ASSUME FirstOK, NEW n \in Server, OthersSame(n), Accepts(n), Base', ClientType', TermsOK',
           cast \subseteq cast', elected \subseteq elected',
           elected' = elected \/ (elected' = elected \cup {<<n, 1>>} /\ <<n, 1, n>> \in cast'),
           Elected(n) \/ (Blank => Blank'),
           RaceOK(n)', NodeOK(n)', ApplierOK(n)', MachineOK(n)',
           \A m \in DOMAIN aeRpcs' : m \in DOMAIN aeRpcs \/ (m.type = "request" => RequestOK(m)')
    PROVE  FirstOK'
<1>1. \A p \in Server : RaceOK(p)' /\ NodeOK(p)' /\ ApplierOK(p)' /\ MachineOK(p)'
  <2>1. ASSUME NEW p \in Server, p # n PROVE RaceOK(p)' /\ NodeOK(p)' /\ ApplierOK(p)' /\ MachineOK(p)'
    BY <2>1, OtherKeeps
  <2> QED
    BY <2>1
<1>2. ElectedOK'
  <2>1. ASSUME NEW e \in elected' PROVE e[2] = 1 /\ <<e[1], 1, e[1]>> \in cast'
    BY DEF FirstOK, ElectedOK
  <2>2. elected' = {} => Blank'
    BY DEF FirstOK, ElectedOK, Elected
  <2> QED
    BY <2>1, <2>2 DEF ElectedOK
<1>3. ASSUME NEW m \in DOMAIN aeRpcs', m.type = "request" PROVE RequestOK(m)'
  <2>1. CASE m \in DOMAIN aeRpcs
    <3>1. RequestOK(m) /\ m \in AEReq \cup AEResp
      BY <1>3, <2>1 DEF FirstOK, Base, TypeOK
    <3>2. m \in AEReq
      BY <1>3, <3>1 DEF AEResp
    <3>3. Len(m.entries) \in Nat /\ m.prevIdx \in Index
      BY <3>2 DEF AEReq
    <3>4. Batch(accepted', m)
      BY <3>1, <3>3, AcceptsKeeps DEF RequestOK
    <3> QED
      BY <3>1, <3>4 DEF RequestOK, Elected
  <2> QED
    BY <1>3, <2>1
<1> QED
  BY <1>1, <1>2, <1>3 DEF FirstOK

-----------------------------------------------------------------------------
(***************************************************************************)
(* Steps of RaftCore that leave the logs alone.                            *)
(***************************************************************************)
\* Nobody comes into a term above 1.
LEMMA TermsKeep ==
    ASSUME TermsOK, NEW n \in Server,
           \A p \in Server \ {n} : node'[p] = node[p] /\ disk'[p] = disk[p] /\ held'[p] = held[p],
           node'[n].currentTerm <= 1, disk'[n] = disk[n] \/ disk'[n].currentTerm <= 1,
           held'[n] = held[n] \/ (held'[n] # Nil => held'[n].term <= 1),
           \A m \in voteReqs'  : m \in voteReqs \/ m.term <= 1,
           \A m \in voteResps' : m \in voteResps \/ m.term <= 1,
           \A m \in DOMAIN aeRpcs' : m \in DOMAIN aeRpcs \/ m.term <= 1
    PROVE  TermsOK'
<1>1. ASSUME NEW p \in Server
      PROVE  /\ node'[p].currentTerm <= 1 /\ disk'[p].currentTerm <= 1
             /\ held'[p] # Nil => held'[p].term <= 1
  <2>1. CASE p = n
    BY <2>1 DEF TermsOK
  <2>2. CASE p # n
    BY <2>2 DEF TermsOK
  <2> QED
    BY <2>1, <2>2
<1> QED
  BY <1>1, Zenon DEF TermsOK

\* persistState where there is no snapshot.
LEMMA PersistFirst ==
    ASSUME FirstOK, NEW n \in Server, NEW s \in NodeStates, s.snap = Nil, Persist(n, s)
    PROVE  /\ node'[n] = s /\ disk'[n].log = s.log /\ disk'[n].snap = Nil
           /\ disk'[n].currentTerm = s.currentTerm /\ disk'[n].votedFor = s.votedFor
           /\ \A p \in Server \ {n} : node'[p] = node[p] /\ disk'[p] = disk[p]
<1>1. node \in [Server -> NodeStates] /\ disk \in [Server -> Disk] /\ disk[n].snap = Nil
  BY DEF FirstOK, Base, TypeOK, NodeOK
<1>2. NoteStored(s) = s
  BY DEF NoteStored
<1>3. /\ Stored(s, disk[n]).log = s.log /\ Stored(s, disk[n]).snap = Nil
      /\ Stored(s, disk[n]).currentTerm = s.currentTerm /\ Stored(s, disk[n]).votedFor = s.votedFor
  BY <1>1 DEF Stored
<1> QED
  BY <1>1, <1>2, <1>3 DEF Persist

\* The roles after a step in which nobody wins.
LEMMA RaceKeeps ==
    ASSUME FirstOK, NEW n \in Server, elected' = elected, cast \subseteq cast',
           accepted' = accepted, applier' = applier, node'[n].log = node[n].log,
           node'[n].role = Leader => node[n].role = Leader,
           loop'[n] = Leader => node[n].role = Leader \/ loop[n] = Leader,
           node'[n].role = Candidate \/ loop'[n] \in {Candidate, "started"} =>
               \/ node[n].role = Candidate \/ loop[n] \in {Candidate, "started"}
               \/ <<n, 1, n>> \in cast' /\ ~Elected(n),
           loop'[n] = "won" <=> loop[n] = "won",
           loop[n] = "won" => (Blank => Blank')
    PROVE  RaceOK(n)'
<1>1. RaceOK(n)
  BY DEF FirstOK
<1>2. Elected(n)' <=> Elected(n)
  BY DEF Elected
<1>3. node'[n].role = Candidate \/ loop'[n] \in {Candidate, "started", "won"} => <<n, 1, n>> \in cast'
  BY <1>1 DEF RaceOK
<1>4. Elected(n) => \/ loop'[n] = "won"
                    \/ node'[n].role # Candidate /\ loop'[n] \notin {Candidate, "started"}
  BY <1>1 DEF RaceOK
<1>5. loop'[n] = "won" => Elected(n) /\ Blank'
  BY <1>1 DEF RaceOK
<1>6. /\ node'[n].role = Leader \/ loop'[n] = Leader \/ applier'[n].at # "idle"
           => Elected(n) /\ loop'[n] # "won"
      /\ node'[n].role = Leader \/ applier'[n].at # "idle" => Whole(accepted', node'[n].log)
  BY <1>1 DEF RaceOK
<1> QED
  BY <1>2, <1>3, <1>4, <1>5, <1>6 DEF RaceOK

\* The roles after n has won.
LEMMA RaceWon ==
    ASSUME FirstOK, Base', NEW n \in Server, ~Elected(n),
           elected' = elected \cup {<<n, 1>>}, <<n, 1, n>> \in cast',
           Blank => Blank', applier' = applier, node'[n].role = Leader => node[n].role = Leader,
           loop'[n] = "won"
    PROVE  RaceOK(n)'
<1>1. RaceOK(n)
  BY DEF FirstOK
<1>2. Elected(n)'
  BY DEF Elected
<1>3. elected = {}
  <2> SUFFICES ASSUME NEW e \in elected PROVE FALSE
    OBVIOUS
  <2>1. elected \subseteq Server \X Nat /\ e[2] = 1
    BY DEF FirstOK, Base, TypeOK, ElectedOK
  <2>2. PICK c \in Server, t \in Nat : e = <<c, t>>
    BY <2>1
  <2>3. e = <<c, 1>>
    BY <2>1, <2>2
  <2>4. Elected(c)'
    BY <2>3 DEF Elected
  <2>5. c = n
    BY <1>2, <2>4, OneElectedNext DEF AloneElected
  <2> QED
    BY <2>3, <2>5 DEF Elected
<1>4. Blank'
  BY <1>3 DEF FirstOK, ElectedOK
<1>5. node'[n].role # Leader /\ applier'[n].at = "idle" /\ loop'[n] # Leader
  BY <1>1 DEF RaceOK, Leader
<1> QED
  BY <1>2, <1>4, <1>5 DEF RaceOK

\* As long as nobody has won there is nothing in the logs.
LEMMA BlankKeeps ==
    ASSUME NEW n \in Server, accepted' = accepted,
           \A p \in Server \ {n} : node'[p] = node[p] /\ disk'[p] = disk[p],
           SameLog(node[n], node'[n]), disk'[n] = disk[n] \/ disk'[n].log = node[n].log,
           \A m \in DOMAIN aeRpcs' : m \in DOMAIN aeRpcs \/ m.type # "request"
    PROVE  Blank => Blank'
<1> HAVE Blank
<1>1. \A p \in Server : node'[p].log = <<>> /\ disk'[p].log = <<>>
  BY DEF Blank, SameLog
<1> QED
  BY <1>1 DEF Blank

\* The rest of the invariant after a step of n that leaves its log alone.
LEMMA QuietFirst ==
    ASSUME FirstOK, NEW n \in Server, Base', cast \subseteq cast', UNCHANGED clientVars, sm' = sm,
           \A p \in Server \ {n} : /\ node'[p] = node[p] /\ disk'[p] = disk[p]
                                   /\ loop'[p] = loop[p],
           SameLog(node[n], node'[n]),
           disk'[n] = disk[n] \/ (disk'[n].log = node[n].log /\ disk'[n].snap = Nil),
           hand[n] = NoHand \/ loop'[n] = loop[n],
           elected' = elected \/ (elected' = elected \cup {<<n, 1>>} /\ <<n, 1, n>> \in cast'),
           TermsOK', RaceOK(n)',
           \A m \in DOMAIN aeRpcs' :
               \/ m \in DOMAIN aeRpcs
               \/ m.type = "request" => Elected(n) /\ Batch(accepted, m) /\ m.src = n /\ m.dst # n
    PROVE  FirstOK'
<1>1. NodeOK(n) /\ ApplierOK(n) /\ MachineOK(n)
  BY DEF FirstOK
<1>2. accepted' = accepted /\ applier' = applier /\ hand' = hand
  BY DEF clientVars
<1>3. NodeOK(n)'
  BY <1>1, <1>2 DEF NodeOK, SameLog
<1>4. ApplierOK(n)'
  BY <1>1, <1>2 DEF ApplierOK
<1>5. MachineOK(n)'
  <2>1. node'[n].lastApplied = node[n].lastApplied
    BY DEF SameLog
  <2>2. hand[n] = NoHand => hand[n].at \notin {"found", "taken"}
    BY DEF NoHand
  <2> QED
    BY <1>1, <1>2, <2>1, <2>2 DEF MachineOK
<1>6. ClientType'
  BY DEF FirstOK, ClientType, clientVars
<1>7. Elected(n) \/ (Blank => Blank')
  BY <1>2, BlankKeeps
<1>8. \A m \in DOMAIN aeRpcs' : m \in DOMAIN aeRpcs \/ (m.type = "request" => RequestOK(m)')
  BY <1>2 DEF RequestOK, Elected
<1>9. OthersSame(n) /\ Accepts(n)
  BY <1>2 DEF OthersSame, Accepts
<1> QED
  BY <1>3, <1>4, <1>5, <1>6, <1>7, <1>8, <1>9, FirstStep

\* A turn of the loop that changes neither the ballot nor the log of n.
LEMMA QuietTurn ==
    ASSUME FirstOK, NEW n \in Server, hand[n] = NoHand, Next, UNCHANGED clientVars,
           NEW s \in NodeStates, Update(n, s), SameLog(node[n], s), SameBallot(node[n], s),
           NEW l \in {"top", node[n].role}, GoTo(n, l), loop[n] # "won",
           UNCHANGED <<held, sm, voteReqs, elected>>, voteResps' \subseteq voteResps,
           \A m \in DOMAIN aeRpcs' :
               \/ m \in DOMAIN aeRpcs
               \/ m.term <= 1 /\ Elected(n) /\ Batch(accepted, m) /\ m.src = n /\ m.dst # n
    PROVE  FirstOK'
<1>1. Base' /\ cast \subseteq cast'
  BY CoreBase DEF FirstOK
<1>2. TypeOK /\ TermsOK /\ node[n].currentTerm <= 1
  BY DEF FirstOK, Base, TermsOK
<1>3. node'[n] = s /\ disk' = disk /\ \A p \in Server \ {n} : node'[p] = node[p]
  BY <1>2, UpdateStep
<1>4. loop'[n] = l /\ \A p \in Server \ {n} : loop'[p] = loop[p]
  BY <1>2 DEF GoTo, TypeOK
<1>5. TermsOK'
  BY <1>2, <1>3, TermsKeep DEF SameBallot
<1>6. accepted' = accepted /\ applier' = applier
  BY DEF clientVars
<1>7. node[n].role \in {Follower, Candidate, Leader}
  BY <1>2 DEF TypeOK, NodeStates
<1>8. RaceOK(n)'
  <2>1. node'[n].role = node[n].role /\ node'[n].log = node[n].log
    BY <1>3 DEF SameBallot, SameLog
  <2>2. loop'[n] # "won" /\ loop'[n] # "started" /\ (loop'[n] \in {Leader, Candidate} => node[n].role = loop'[n])
    BY <1>4, <1>7 DEF Leader, Candidate, Follower
  <2> QED
    BY <1>1, <1>6, <2>1, <2>2, RaceKeeps
<1>9. SameLog(node[n], node'[n])
  BY <1>3
<1> QED
  BY <1>1, <1>3, <1>4, <1>5, <1>8, <1>9, QuietFirst

\* The role is read.
LEMMA EnterSelectFirst ==
    ASSUME FirstOK, NEW n \in Server, hand[n] = NoHand, EnterSelect(n), UNCHANGED clientVars
    PROVE  FirstOK'
<1> DEFINE s == IF node[n].role = Leader THEN node[n] ELSE CheckElectionTimeout(node[n])
<1>1. Next
  BY DEF Next, RunLoop
<1>2. node[n] \in NodeStates
  BY DEF FirstOK, Base, TypeOK
<1>3. s \in NodeStates /\ SameLog(node[n], s) /\ SameBallot(node[n], s)
  BY <1>2, TimerType, TimerKeeps, QuietLog DEF SameLog, SameBallot
<1>4. Update(n, s) /\ GoTo(n, node[n].role)
  BY DEF EnterSelect
<1>5. loop[n] # "won" /\ UNCHANGED <<held, sm, voteReqs, elected, voteResps, aeRpcs>>
  BY DEF EnterSelect, netVars, history
<1> HIDE DEF s
<1> QED
  BY <1>1, <1>3, <1>4, <1>5, QuietTurn

\* The end of the leader's select.
LEMMA AfterSelectLog ==
    ASSUME NEW n, NEW s \in NodeStates, NEW r, r = AfterSelect(n, s)
    PROVE  r \in NodeStates /\ SameLog(s, r) /\ SameBallot(s, r)
  BY CheckCommitsType, CommitKeeps, QuietLog DEF AfterSelect, SameLog, SameBallot

\* A turn that only ends a select statement.
LEMMA EndSelectFirst ==
    ASSUME FirstOK, NEW n \in Server, hand[n] = NoHand, UNCHANGED clientVars,
           BecomeConnected(n) \/ (\E r \in voteResps : DrainVote(n, r))
    PROVE  FirstOK'
<1> DEFINE s == AfterSelect(n, node[n])
<1>1. Next
  BY DEF Next, RunLoop
<1>2. node[n] \in NodeStates
  BY DEF FirstOK, Base, TypeOK
<1>3. s \in NodeStates /\ SameLog(node[n], s) /\ SameBallot(node[n], s)
  BY <1>2, AfterSelectLog
<1>4. /\ Update(n, s) /\ GoTo(n, "top") /\ voteResps' \subseteq voteResps
      /\ loop[n] # "won" /\ UNCHANGED <<held, sm, voteReqs, elected, aeRpcs>>
  BY DEF BecomeConnected, DrainVote, InSelect, netVars, history, Leader, Candidate, Follower
<1> HIDE DEF s
<1> QED
  BY <1>1, <1>3, <1>4, QuietTurn

\* A timer that fires too early.
LEMMA TimeoutFirst ==
    ASSUME FirstOK, NEW n \in Server, hand[n] = NoHand, UNCHANGED clientVars, TimeoutUnconnected(n)
    PROVE  FirstOK'
<1> DEFINE s == StopElectionTimeout(node[n])
<1>1. Next
  BY DEF Next, RunLoop
<1>2. node[n] \in NodeStates
  BY DEF FirstOK, Base, TypeOK
<1>3. s \in NodeStates /\ SameLog(node[n], s) /\ SameBallot(node[n], s)
  BY <1>2, TimerType, TimerKeeps, QuietLog
<1>4. /\ Update(n, s) /\ GoTo(n, "top") /\ loop[n] # "won"
      /\ UNCHANGED <<held, sm, voteReqs, elected, aeRpcs, voteResps>>
  BY DEF TimeoutUnconnected, netVars, history, Follower
<1> HIDE DEF s
<1> QED
  BY <1>1, <1>3, <1>4, QuietTurn

\* What the elected server sends.
LEMMA SentFirst ==
    ASSUME FirstOK, NEW n \in Server, Elected(n), NEW s \in NodeStates, NEW acc \in Seq(Command),
           Piece(acc, s.log), s.snap = Nil, s.currentTerm <= 1, SendAE(AEReqsOf(n, s))
    PROVE  \A m \in DOMAIN aeRpcs' :
               \/ m \in DOMAIN aeRpcs
               \/ /\ m.term <= 1 /\ Batch(acc, m) /\ m.src = n /\ m.dst # n
                  /\ m.type = "request" /\ m \in AEReqsOf(n, s)
<1>1. DOMAIN aeRpcs' \subseteq DOMAIN aeRpcs \cup AEReqsOf(n, s)
  BY SendAEType DEF FirstOK, Base
<1>2. ASSUME NEW p \in Server \ {n}
      PROVE  LET m == AEReqOf(n, s, p)
             IN  m.term <= 1 /\ Batch(acc, m) /\ m.src = n /\ m.dst # n /\ m.type = "request"
  <2>1. Batch(acc, AEReqOf(n, s, p))
    BY PieceSent
  <2> QED
    BY <2>1 DEF AEReqOf, AppendEntriesArgs
<1>3. \A m \in AEReqsOf(n, s) :
         m.term <= 1 /\ Batch(acc, m) /\ m.src = n /\ m.dst # n /\ m.type = "request"
  BY <1>2 DEF AEReqsOf, Peers
<1> QED
  BY <1>1, <1>3

\* A heartbeat, which the role no longer matters for.
LEMMA HeartbeatFirst ==
    ASSUME FirstOK, NEW n \in Server, hand[n] = NoHand, UNCHANGED clientVars, Heartbeat(n)
    PROVE  FirstOK'
<1> DEFINE b == ArgsBuilt(node[n], Peers(n))
           s == CheckCommits(b)
<1>1. Next
  BY DEF Next, RunLoop
<1>2. node[n] \in NodeStates
  BY DEF FirstOK, Base, TypeOK
<1>3. b \in NodeStates /\ SameLog(node[n], b) /\ SameBallot(node[n], b)
  BY <1>2, ArgsBuiltType, CommitKeeps, QuietLog DEF Peers
<1>4. s \in NodeStates /\ SameLog(b, s) /\ SameBallot(b, s)
  <2> HIDE DEF b
  <2> QED
    BY <1>3, CheckCommitsType, CommitKeeps, QuietLog
<1>5. SameLog(node[n], s) /\ SameBallot(node[n], s)
  <2> HIDE DEF b, s
  <2> QED
    BY <1>3, <1>4 DEF SameLog, SameBallot
<1>6. /\ Update(n, s) /\ GoTo(n, "top") /\ loop[n] = Leader /\ SendAE(AEReqsOf(n, node[n]))
      /\ UNCHANGED <<held, sm, voteReqs, elected, voteResps>>
  BY DEF Heartbeat, history
<1>7. Elected(n) /\ Piece(accepted, node[n].log) /\ node[n].snap = Nil /\ node[n].currentTerm <= 1
      /\ accepted \in Seq(Command)
  BY <1>6 DEF FirstOK, RaceOK, NodeOK, TermsOK, ClientType
<1>8. \A m \in DOMAIN aeRpcs' :
         \/ m \in DOMAIN aeRpcs
         \/ m.term <= 1 /\ Elected(n) /\ Batch(accepted, m) /\ m.src = n /\ m.dst # n
  BY <1>2, <1>6, <1>7, SentFirst
<1>9. loop[n] # "won"
  BY <1>6 DEF Leader
<1> HIDE DEF s, b
<1> QED
  BY <1>1, <1>4, <1>5, <1>6, <1>8, <1>9, QuietTurn

\* prepareRequestVoteRPC sends the term of the node.
LEMMA RequestVotesFirst ==
    ASSUME FirstOK, NEW n \in Server, hand[n] = NoHand, UNCHANGED clientVars, RequestVotes(n)
    PROVE  FirstOK'
<1>1. Base' /\ cast \subseteq cast'
  BY CoreBase DEF FirstOK, Next, RunLoop
<1>2. TypeOK /\ TermsOK /\ node[n].currentTerm <= 1
  BY DEF FirstOK, Base, TermsOK
<1>3. /\ loop[n] = "started" /\ voteReqs' = voteReqs \cup VoteReqsOf(n, node[n]) /\ GoTo(n, "top")
      /\ UNCHANGED <<node, held, disk, sm, voteResps, aeRpcs, elected>>
  BY DEF RequestVotes, history
<1>4. \A m \in voteReqs' : m \in voteReqs \/ m.term <= 1
  BY <1>2, <1>3 DEF VoteReqsOf
<1>5. TermsOK'
  BY <1>2, <1>3, <1>4, TermsKeep
<1>6. loop'[n] = "top" /\ \A p \in Server \ {n} : loop'[p] = loop[p]
  BY <1>2, <1>3 DEF GoTo, TypeOK
<1>7. accepted' = accepted /\ applier' = applier
  BY DEF clientVars
<1>8. RaceOK(n)'
  BY <1>1, <1>3, <1>6, <1>7, RaceKeeps DEF Leader, Candidate
<1>9. SameLog(node[n], node'[n])
  BY <1>3 DEF SameLog
<1> QED
  BY <1>1, <1>3, <1>5, <1>6, <1>8, <1>9, QuietFirst

\* The term after a RequestVote.
LEMMA VotedTerm ==
    ASSUME NEW s \in NodeStates, NEW m \in VoteReq, NEW r, r = HandleRequestToVote(s, m)
    PROVE  r.currentTerm \in {s.currentTerm, m.term}
<1>1. m.term \in Nat /\ s.currentTerm \in Nat
  BY DEF VoteReq, NodeStates
<1> DEFINE t == TermSeen(s, m.term)
<1>2. t \in NodeStates /\ t.currentTerm \in {s.currentTerm, m.term}
  BY <1>1, TermSeenType, TermSeenEffect, SMTT(40)
<1> HIDE DEF t
<1>3. r.currentTerm = t.currentTerm
  BY <1>2 DEF HandleRequestToVote, StopElectionTimeout, NodeStates, t
<1> QED
  BY <1>2, <1>3

\* handleRequestToVote: a vote asked for in the first term.
LEMMA VoteReqFirst ==
    ASSUME FirstOK, NEW n \in Server, hand[n] = NoHand, UNCHANGED clientVars,
           NEW m \in voteReqs, HandleVoteReq(n, m)
    PROVE  FirstOK'
<1> DEFINE b == BeforeRPC(n)
           h == HandleRequestToVote(b, m)
           s == AfterSelect(n, h)
<1>1. Base' /\ cast \subseteq cast'
  BY CoreBase DEF FirstOK, Next, RunLoop
<1>2. /\ TypeOK /\ TermsOK /\ node[n].currentTerm <= 1 /\ m.term <= 1 /\ m \in VoteReq
      /\ node[n] \in NodeStates /\ node[n].snap = Nil
  BY DEF FirstOK, Base, TermsOK, TypeOK, NodeOK
<1>3. b \in NodeStates /\ SameLog(node[n], b) /\ SameBallot(node[n], b)
  BY <1>2, BeforeRPCKeeps, QuietLog DEF BeforeRPC, SameLog
<1> HIDE DEF b
<1>4. /\ h \in NodeStates /\ SameLog(b, h) /\ h.role \in {b.role, Follower}
      /\ h.currentTerm \in {b.currentTerm, m.term}
  BY <1>2, <1>3, HandleRequestToVoteType, HandleRequestToVoteEffect, VotingLog, VotedTerm DEF VoteReq
<1> HIDE DEF h
<1>5. s \in NodeStates /\ SameLog(h, s) /\ SameBallot(h, s)
  BY <1>4, AfterSelectLog
<1>6. /\ Persist(n, s) /\ GoTo(n, "top") /\ InSelect(n)
      /\ voteResps' \subseteq voteResps \cup
            {[src |-> n, dst |-> m.src, term |-> h.currentTerm, granted |-> GrantsVote(b, m)]}
      /\ voteReqs' \subseteq voteReqs
      /\ UNCHANGED <<held, sm, aeRpcs, elected>>
  BY DEF HandleVoteReq, s, h, b
<1> HIDE DEF s
<1>7. /\ SameLog(node[n], s) /\ s.role \in {node[n].role, Follower} /\ s.currentTerm <= 1
      /\ h.currentTerm <= 1 /\ s.snap = Nil
  BY <1>2, <1>3, <1>4, <1>5 DEF SameLog, SameBallot
<1>8. /\ node'[n] = s /\ disk'[n].log = node[n].log /\ disk'[n].snap = Nil
      /\ disk'[n].currentTerm <= 1
      /\ \A p \in Server \ {n} : node'[p] = node[p] /\ disk'[p] = disk[p]
  BY <1>5, <1>6, <1>7, PersistFirst DEF SameLog
<1>9. TermsOK'
  <2>1. \A r \in voteResps' : r \in voteResps \/ r.term <= 1
    BY <1>6, <1>7
  <2> QED
    BY <1>2, <1>6, <1>7, <1>8, <2>1, TermsKeep
<1>10. loop'[n] = "top" /\ \A p \in Server \ {n} : loop'[p] = loop[p]
  BY <1>2, <1>6 DEF GoTo, TypeOK
<1>11. RaceOK(n)'
  <2>1. accepted' = accepted /\ applier' = applier /\ node'[n].log = node[n].log
    BY <1>7, <1>8 DEF clientVars, SameLog
  <2>2. node'[n].role \in {node[n].role, Follower} /\ loop[n] # "won"
    BY <1>6, <1>7, <1>8 DEF InSelect, Leader, Candidate, Follower
  <2>3. /\ node'[n].role = Leader => node[n].role = Leader
        /\ node'[n].role = Candidate => node[n].role = Candidate
    BY <2>2 DEF Leader, Candidate, Follower
  <2> QED
    BY <1>1, <1>6, <1>10, <2>1, <2>2, <2>3, RaceKeeps DEF Leader, Candidate
<1> QED
  BY <1>1, <1>6, <1>7, <1>8, <1>9, <1>10, <1>11, QuietFirst

\* handleAppendEntriesRPCResponses takes a response.
LEMMA ReceiveFirst ==
    ASSUME FirstOK, NEW n \in Server, UNCHANGED clientVars, NEW r \in DOMAIN aeRpcs, ReceiveAEResp(n, r)
    PROVE  FirstOK'
<1>1. Base' /\ cast \subseteq cast'
  BY CoreBase DEF FirstOK, Next
<1>2. TypeOK /\ TermsOK /\ node[n].currentTerm <= 1 /\ r.term <= 1
  BY DEF FirstOK, Base, TermsOK
<1>3. /\ DOMAIN aeRpcs' \subseteq DOMAIN aeRpcs
      /\ UNCHANGED <<node, loop, disk, sm, voteReqs, voteResps, elected>>
  BY <1>2, ReceiveAERespStep DEF ReceiveAEResp, history
<1>4. held'[n] = held[n] \/ held'[n] = r
  BY <1>2 DEF ReceiveAEResp, TypeOK
<1>5. \A p \in Server \ {n} : held'[p] = held[p]
  BY <1>2 DEF ReceiveAEResp, TypeOK
<1>6. TermsOK'
  BY <1>2, <1>3, <1>4, <1>5, TermsKeep
<1>7. SameLog(node[n], node'[n]) /\ accepted' = accepted /\ applier' = applier
  BY <1>3 DEF SameLog, clientVars
<1>8. Blank => Blank'
  BY <1>3, <1>7, BlankKeeps
<1>9. RaceOK(n)'
  BY <1>1, <1>3, <1>7, <1>8, RaceKeeps
<1> QED
  BY <1>1, <1>3, <1>6, <1>7, <1>9, QuietFirst

\* The term and the role after an AppendEntries response.
LEMMA AnsweredTerm ==
    ASSUME NEW s \in NodeStates, NEW r \in AEResp, NEW a, a = HandleAppendEntriesResponse(s, r)
    PROVE  a.currentTerm \in {s.currentTerm, r.term} /\ a.role \in {s.role, Follower}
<1>1. r.term \in Nat /\ r.success \in BOOLEAN /\ s.currentTerm \in Nat
  BY DEF AEResp, NodeStates
<1>2. CASE ~r.success /\ r.term > s.currentTerm
  <2>1. a = [UpdateCurrentTerm(s, r.term) EXCEPT !.role = Follower, !.currentLeader = r.src]
    BY <1>1, <1>2 DEF HandleAppendEntriesResponse
  <2> QED
    BY <2>1 DEF UpdateCurrentTerm, NodeStates
<1>3. CASE ~r.success /\ r.term <= s.currentTerm
  <2>1. a = [s EXCEPT !.nextIndex[r.src] = IF r.lastIdx >= 0 THEN r.lastIdx ELSE 0]
    BY <1>1, <1>3 DEF HandleAppendEntriesResponse
  <2> QED
    BY <2>1 DEF NodeStates
<1>4. CASE r.success
  <2>1. a = [s EXCEPT !.nextIndex[r.src]  = s.lastSent[r.src] + 1,
                      !.matchIndex[r.src] = s.lastSent[r.src]]
    BY <1>1, <1>4 DEF HandleAppendEntriesResponse
  <2> QED
    BY <2>1 DEF NodeStates
<1> QED
  BY <1>1, <1>2, <1>3, <1>4

\* It handles the response, and may get in before a persistState of the loop.
LEMMA AnswerFirst ==
    ASSUME FirstOK, NEW n \in Server, UNCHANGED clientVars, HandleAEResp(n)
    PROVE  FirstOK'
<1> DEFINE s == HandleAppendEntriesResponse(node[n], held[n])
<1>1. Base' /\ cast \subseteq cast'
  BY CoreBase DEF FirstOK, Next
<1>2. /\ TypeOK /\ TermsOK /\ node[n].currentTerm <= 1 /\ held[n] \in AEResp /\ held[n].term <= 1
      /\ node[n] \in NodeStates /\ node[n].snap = Nil
  BY DEF FirstOK, Base, TermsOK, TypeOK, HandleAEResp, NodeOK
<1>3. /\ s \in NodeStates /\ SameLog(node[n], s)
      /\ s.currentTerm \in {node[n].currentTerm, held[n].term} /\ s.role \in {node[n].role, Follower}
  BY <1>2, AnsweredTerm, ResponseLog, HandleAppendEntriesResponseType DEF AEResp
<1>4. /\ Update(n, s) \/ Persist(n, s)
      /\ held' = [held EXCEPT ![n] = Nil]
      /\ UNCHANGED <<loop, sm, voteReqs, voteResps, aeRpcs, elected>>
  BY DEF HandleAEResp, netVars, history
<1> HIDE DEF s
<1>5. s.snap = Nil /\ s.currentTerm <= 1
  BY <1>2, <1>3 DEF SameLog
<1>6. /\ node'[n] = s
      /\ disk'[n] = disk[n] \/ (disk'[n].log = node[n].log /\ disk'[n].snap = Nil /\ disk'[n].currentTerm <= 1)
      /\ \A p \in Server \ {n} : node'[p] = node[p] /\ disk'[p] = disk[p]
  <2>1. CASE Update(n, s)
    BY <1>2, <1>3, <2>1, UpdateStep
  <2>2. CASE Persist(n, s)
    BY <1>3, <1>5, <2>2, PersistFirst DEF SameLog
  <2> QED
    BY <1>4, <2>1, <2>2
<1>7. held'[n] = Nil /\ \A p \in Server \ {n} : held'[p] = held[p]
  BY <1>2, <1>4 DEF TypeOK
<1>8. TermsOK'
  BY <1>2, <1>4, <1>5, <1>6, <1>7, TermsKeep
<1>9. SameLog(node[n], node'[n]) /\ accepted' = accepted /\ applier' = applier
  BY <1>3, <1>6 DEF clientVars
<1>10. Blank => Blank'
  BY <1>4, <1>6, <1>9, BlankKeeps
<1>11. RaceOK(n)'
  <2>1. /\ node'[n].role = Leader => node[n].role = Leader
        /\ node'[n].role = Candidate => node[n].role = Candidate
        /\ node'[n].log = node[n].log
    BY <1>3, <1>6 DEF SameLog, Leader, Candidate, Follower
  <2> QED
    BY <1>1, <1>4, <1>9, <1>10, <2>1, RaceKeeps
<1> QED
  BY <1>1, <1>4, <1>6, <1>8, <1>9, <1>11, QuietFirst

-----------------------------------------------------------------------------
(***************************************************************************)
(* Elections.                                                              *)
(***************************************************************************)
\* Who voted for itself in the first term is in it.
LEMMA RunsInFirst ==
    ASSUME FirstOK, NEW n \in Server, <<n, 1, n>> \in cast
    PROVE  node[n].currentTerm = 1
<1>1. Backs(node[n], 1, n)
  BY DEF FirstOK, Base, VoteInv, CastBacked
<1>2. node[n].currentTerm \in Nat /\ node[n].currentTerm <= 1
  BY DEF FirstOK, Base, TypeOK, NodeStates, TermsOK
<1> QED
  BY <1>1, <1>2 DEF Backs

\* An election starts: it is the first one of n.
LEMMA StartFirst ==
    ASSUME FirstOK, FirstTerm', NEW n \in Server, hand[n] = NoHand, UNCHANGED clientVars,
           FollowerTimeout(n) \/ CandidateTimeout(n)
    PROVE  FirstOK'
<1> DEFINE b == StopElectionTimeout(node[n])
           s == StartElection(b, n)
<1>1. Base' /\ cast \subseteq cast'
  BY CoreBase DEF FirstOK, Next, RunLoop
<1>2. TypeOK /\ TermsOK /\ node[n] \in NodeStates /\ node[n].snap = Nil /\ node[n].currentTerm \in Nat
  BY DEF FirstOK, Base, TypeOK, NodeOK, NodeStates
<1>3. /\ StartsElection(n) /\ loop[n] # "won" /\ loop'[n] \in {"won", "started"}
      /\ \A p \in Server \ {n} : loop'[p] = loop[p]
      /\ IF loop'[n] = "won" THEN elected' = elected \cup {<<n, node[n].currentTerm + 1>>}
         ELSE elected' = elected
  BY <1>2 DEF FollowerTimeout, CandidateTimeout, GoTo, TypeOK, Follower, Candidate
<1>4. b \in NodeStates /\ SameLog(node[n], b) /\ b.currentTerm = node[n].currentTerm
  BY <1>2, TimerType, TimerKeeps, QuietLog DEF SameBallot
<1> HIDE DEF b
<1>5. /\ s \in NodeStates /\ SameLog(b, s) /\ s.currentTerm = node[n].currentTerm + 1
      /\ s.role = Candidate
  BY <1>4, StartElectionType, StartElectionEffect, QuietLog
<1>6. /\ Persist(n, s) /\ cast' = cast \cup {<<n, s.currentTerm, n>>}
      /\ UNCHANGED <<held, sm, voteReqs, voteResps, aeRpcs>>
  BY <1>3 DEF StartsElection, netVars, s, b
<1> HIDE DEF s
<1>7. s.currentTerm = 1 /\ node[n].currentTerm = 0
  <2>1. <<n, s.currentTerm, n>> \in cast'
    BY <1>6
  <2>2. s.currentTerm <= 1
    BY <2>1 DEF FirstTerm
  <2> QED
    BY <1>2, <1>5, <2>2
<1>8. SameLog(node[n], s) /\ s.snap = Nil
  BY <1>2, <1>4, <1>5 DEF SameLog
<1>9. /\ node'[n] = s /\ disk'[n].log = node[n].log /\ disk'[n].snap = Nil
      /\ disk'[n].currentTerm = 1
      /\ \A p \in Server \ {n} : node'[p] = node[p] /\ disk'[p] = disk[p]
  BY <1>5, <1>6, <1>7, <1>8, PersistFirst DEF SameLog
<1>10. TermsOK'
  BY <1>2, <1>6, <1>7, <1>9, TermsKeep
<1>11. ~Elected(n)
  BY <1>7, ElectedBallot
<1>12. <<n, 1, n>> \in cast'
  BY <1>6, <1>7
<1>13. SameLog(node[n], node'[n]) /\ accepted' = accepted /\ applier' = applier
  BY <1>8, <1>9 DEF clientVars
<1>14. Blank => Blank'
  BY <1>6, <1>9, <1>13, BlankKeeps
<1>15. RaceOK(n)'
  <2>1. node'[n].role # Leader /\ node'[n].log = node[n].log
    BY <1>5, <1>9, <1>13 DEF Leader, Candidate, SameLog
  <2>2. CASE loop'[n] = "won"
    <3>1. elected' = elected \cup {<<n, 1>>}
      BY <1>3, <1>7, <2>2
    <3> QED
      BY <1>1, <1>11, <1>12, <1>13, <1>14, <2>1, <2>2, <3>1, RaceWon
  <2>3. CASE loop'[n] # "won"
    BY <1>1, <1>3, <1>11, <1>12, <1>13, <2>1, <2>3, RaceKeeps DEF Leader
  <2> QED
    BY <2>2, <2>3
<1>16. elected' = elected \/ (elected' = elected \cup {<<n, 1>>} /\ <<n, 1, n>> \in cast')
  BY <1>3, <1>7, <1>12
<1> QED
  BY <1>1, <1>3, <1>6, <1>9, <1>10, <1>13, <1>15, <1>16, QuietFirst

\* A vote is counted, and may be the last one missing.
LEMMA CountVoteFirst ==
    ASSUME FirstOK, NEW n \in Server, hand[n] = NoHand, UNCHANGED clientVars,
           NEW r \in voteResps, CountVote(n, r)
    PROVE  FirstOK'
<1> DEFINE s == UpdateElection(node[n], r)
<1>1. Base' /\ cast \subseteq cast'
  BY CoreBase DEF FirstOK, Next, RunLoop
<1>2. /\ TypeOK /\ TermsOK /\ node[n] \in NodeStates /\ r \in VoteResp /\ r.term <= 1
  BY DEF FirstOK, Base, TypeOK, NodeStates, TermsOK
<1>3. /\ loop[n] = Candidate /\ Update(n, s) /\ loop'[n] \in {"won", "top"}
      /\ \A p \in Server \ {n} : loop'[p] = loop[p]
      /\ IF loop'[n] = "won" THEN elected' = elected \cup {<<n, node[n].currentTerm>>}
         ELSE elected' = elected
      /\ voteResps' \subseteq voteResps
      /\ UNCHANGED <<held, sm, voteReqs, aeRpcs, cast>>
  BY <1>2 DEF CountVote, GoTo, TypeOK
<1>4. <<n, 1, n>> \in cast /\ ~Elected(n)
  BY <1>3 DEF FirstOK, RaceOK, Candidate
<1>5. node[n].currentTerm = 1
  BY <1>4, RunsInFirst
<1>6. s \in NodeStates /\ SameLog(node[n], s) /\ s.role = node[n].role /\ s.currentTerm = 1
  BY <1>2, <1>5, UpdateElectionType, UpdateElectionEffect, VotingLog DEF VoteResp
<1> HIDE DEF s
<1>7. node'[n] = s /\ disk' = disk /\ \A p \in Server \ {n} : node'[p] = node[p]
  BY <1>2, <1>3, <1>6, UpdateStep
<1>8. TermsOK'
  BY <1>2, <1>3, <1>6, <1>7, TermsKeep
<1>9. SameLog(node[n], node'[n]) /\ accepted' = accepted /\ applier' = applier
  BY <1>6, <1>7 DEF clientVars
<1>10. Blank => Blank'
  BY <1>3, <1>7, <1>9, BlankKeeps
<1>11. RaceOK(n)'
  <2>1. node'[n].role = node[n].role /\ node'[n].log = node[n].log
    BY <1>6, <1>7, <1>9 DEF SameLog
  <2>2. CASE loop'[n] = "won"
    <3>1. elected' = elected \cup {<<n, 1>>} /\ <<n, 1, n>> \in cast'
      BY <1>3, <1>4, <1>5, <2>2
    <3> QED
      BY <1>1, <1>4, <1>9, <1>10, <2>1, <2>2, <3>1, RaceWon
  <2>3. CASE loop'[n] = "top"
    <3>1. elected' = elected /\ loop[n] # "won"
      BY <1>3, <2>3 DEF Candidate
    <3> QED
      BY <1>1, <1>3, <1>9, <2>1, <2>3, <3>1, RaceKeeps DEF Leader, Candidate
  <2> QED
    BY <1>3, <2>2, <2>3
<1>12. elected' = elected \/ (elected' = elected \cup {<<n, 1>>} /\ <<n, 1, n>> \in cast')
  BY <1>3, <1>4, <1>5
<1> QED
  BY <1>1, <1>3, <1>7, <1>8, <1>9, <1>11, <1>12, QuietFirst

-----------------------------------------------------------------------------
(***************************************************************************)
(* The steps that write logs.                                              *)
(***************************************************************************)
\* winElection in a cluster that has no log yet: the no-op is the first entry.
LEMMA NoopFirst ==
    ASSUME NEW s \in NodeStates, s.log = <<>>, s.snap = Nil, s.currentTerm = 1, NEW id \in Server,
           NEW r, r = WinElection(s, id), NEW acc, acc = <<>>
    PROVE  /\ r \in NodeStates /\ Whole(acc, r.log) /\ r.snap = Nil
           /\ r.lastApplied = s.lastApplied
           /\ r.currentTerm = 1 /\ r.votedFor = s.votedFor /\ r.role = Leader
<1>1. r \in NodeStates /\ r.currentTerm = 1 /\ r.role = Leader /\ r.votedFor = s.votedFor
  BY WinElectionType, WinElectionEffect
<1>2. LastLogIdx(s) = -1
  BY DEF LastLogIdx
<1>3. ~(Len(s.log) >= LogCap)
  BY LogCapAssumption
<1>4. /\ r.snap = s.snap /\ r.lastApplied = s.lastApplied
      /\ r.log = Append(s.log, Noop(LastLogIdx(s) + 1, s.currentTerm))
  BY <1>3, WinElectionLog
<1>5. r.log = <<Noop(0, 1)>>
  BY <1>2, <1>4
<1>6. Len(r.log) = 1 /\ r.log[1] = Noop(0, 1) /\ Len(acc) = 0
  BY <1>5
<1>7. \A k \in 1..1 : k = 1
  OBVIOUS
<1>8. Whole(acc, r.log)
  BY <1>6, <1>7 DEF Whole, Piece, EntryAt
<1> QED
  BY <1>1, <1>4, <1>8

\* The winner becomes leader.
LEMMA BecomeLeaderFirst ==
    ASSUME FirstOK, NEW n \in Server, hand[n] = NoHand, UNCHANGED clientVars, BecomeLeader(n)
    PROVE  FirstOK'
<1> DEFINE w == WinElection(node[n], n)
           s == ArgsBuilt(w, Peers(n))
<1>1. Base' /\ cast \subseteq cast'
  BY CoreBase DEF FirstOK, Next, RunLoop
<1>2. /\ TypeOK /\ TermsOK /\ node[n] \in NodeStates /\ node[n].snap = Nil
      /\ node[n].lastApplied \in Index /\ node[n].lastApplied < Len(node[n].log)
      /\ accepted \in Seq(Command) /\ MachineOK(n)
  BY DEF FirstOK, Base, TypeOK, NodeOK, NodeStates, ClientType
<1>3. /\ loop[n] = "won" /\ Persist(n, s) /\ SendAE(AEReqsOf(n, w)) /\ GoTo(n, "top")
      /\ UNCHANGED <<held, sm, voteReqs, voteResps, elected>>
  BY DEF BecomeLeader
<1>4. Elected(n) /\ Blank /\ node[n].log = <<>> /\ accepted = <<>>
  BY <1>3 DEF FirstOK, RaceOK, Blank
<1>5. node[n].currentTerm = 1
  BY <1>4, ElectedBallot
<1>6. /\ w \in NodeStates /\ Whole(accepted, w.log) /\ w.snap = Nil
      /\ w.lastApplied = node[n].lastApplied /\ w.currentTerm = 1 /\ w.role = Leader
  BY <1>2, <1>4, <1>5, NoopFirst
<1> HIDE DEF w
<1>7. s \in NodeStates /\ SameLog(w, s) /\ SameBallot(w, s)
  BY <1>6, ArgsBuiltType, CommitKeeps, QuietLog DEF Peers
<1> HIDE DEF s
<1>8. /\ Whole(accepted, s.log) /\ s.snap = Nil /\ s.lastApplied = node[n].lastApplied
      /\ s.currentTerm = 1 /\ s.role = Leader
  BY <1>6, <1>7 DEF SameLog, SameBallot
<1>9. /\ node'[n] = s /\ disk'[n].log = s.log /\ disk'[n].snap = Nil /\ disk'[n].currentTerm = 1
      /\ \A p \in Server \ {n} : node'[p] = node[p] /\ disk'[p] = disk[p]
  BY <1>3, <1>7, <1>8, PersistFirst
<1>10. \A m \in DOMAIN aeRpcs' :
          \/ m \in DOMAIN aeRpcs
          \/ m.term <= 1 /\ Batch(accepted, m) /\ m.src = n /\ m.dst # n
  <2>1. Piece(accepted, w.log) /\ w.currentTerm <= 1
    BY <1>6 DEF Whole
  <2> QED
    BY <1>2, <1>3, <1>4, <1>6, <2>1, SentFirst
<1>11. TermsOK'
  <2>1. node'[n].currentTerm <= 1 /\ disk'[n].currentTerm <= 1
    BY <1>8, <1>9
  <2> QED
    BY <1>2, <1>3, <1>9, <1>10, <2>1, TermsKeep
<1>12. loop'[n] = "top" /\ \A p \in Server \ {n} : loop'[p] = loop[p]
  BY <1>2, <1>3 DEF GoTo, TypeOK
<1>13. accepted' = accepted /\ applier' = applier /\ hand' = hand
  BY DEF clientVars
<1>14. Elected(n)'
  BY <1>3, <1>4 DEF Elected
<1>15. RaceOK(n)'
  BY <1>8, <1>9, <1>12, <1>13, <1>14 DEF RaceOK, Leader, Candidate
<1>16. NodeOK(n)'
  <2>1. Piece(accepted, s.log) /\ Len(s.log) = Len(accepted) + 1 /\ Len(accepted) = 0
    BY <1>4, <1>8 DEF Whole
  <2>2. node[n].lastApplied < Len(s.log)
    BY <1>2, <1>4, <2>1 DEF Index
  <2> QED
    BY <1>8, <1>9, <1>13, <2>1, <2>2 DEF NodeOK
<1>17. ApplierOK(n)' /\ ClientType'
  BY <1>13 DEF FirstOK, ApplierOK, ClientType, clientVars
<1>18. MachineOK(n)'
  BY <1>2, <1>3, <1>8, <1>9, <1>12, <1>13 DEF MachineOK, NoHand
<1>19. \A m \in DOMAIN aeRpcs' : m \in DOMAIN aeRpcs \/ (m.type = "request" => RequestOK(m)')
  BY <1>10, <1>13, <1>14 DEF RequestOK
<1>20. OthersSame(n) /\ Accepts(n)
  BY <1>3, <1>9, <1>12, <1>13 DEF OthersSame, Accepts
<1> QED
  BY <1>1, <1>3, <1>4, <1>11, <1>15, <1>16, <1>17, <1>18, <1>19, <1>20, FirstStep

\* Adding one message to a bag.
LEMMA BagOne ==
    ASSUME NEW B, NEW x
    PROVE  DOMAIN (B (+) SetToBag({x})) = DOMAIN B \cup {x}
  BY DEF (+), SetToBag

\* A follower takes entries of the one log.
LEMMA AppendFirst ==
    ASSUME FirstOK, Fits, NEW n \in Server, hand[n] = NoHand, UNCHANGED clientVars,
           NEW m \in DOMAIN aeRpcs, HandleAEReq(n, m)
    PROVE  FirstOK'
<1> DEFINE b == BeforeRPC(n)
           h == HandleAppendEntries(b, m, sm[n])
           s == AfterSelect(n, h)
           resp == AERespTo(m, h, AcceptsEntries(b, m))
           rest == aeRpcs (-) SetToBag({m})
<1>1. Base' /\ cast \subseteq cast'
  BY CoreBase DEF FirstOK, Next, RunLoop
<1>2. /\ TypeOK /\ TermsOK /\ node[n] \in NodeStates /\ sm[n] \in Seq(Command)
      /\ node[n].currentTerm <= 1 /\ m.term <= 1 /\ accepted \in Seq(Command)
      /\ NodeOK(n) /\ RaceOK(n) /\ MachineOK(n)
      /\ m.type = "request" /\ m.dst = n /\ m \in AEReq \cup AEResp
  BY DEF FirstOK, Base, TypeOK, ClientType, TermsOK, HandleAEReq
<1>3. m \in AEReq /\ RequestOK(m)
  BY <1>2 DEF AEResp, FirstOK
<1>4. ~Elected(n) /\ ~Blank
  <2>1. m.src \in Server
    BY <1>3 DEF AEReq
  <2> QED
    BY <1>2, <1>3, <2>1, OneElected DEF FirstOK, AloneElected, RequestOK, Blank
<1>5. b \in NodeStates /\ SameLog(node[n], b) /\ SameBallot(node[n], b)
  BY <1>2, BeforeRPCKeeps, QuietLog DEF BeforeRPC, SameLog
<1> HIDE DEF b
<1>6. /\ h \in NodeStates /\ Piece(accepted, h.log) /\ Len(h.log) >= Len(b.log)
      /\ h.snap = Nil /\ h.lastApplied = b.lastApplied
  <2>1. Piece(accepted, b.log) /\ b.snap = Nil
    BY <1>2, <1>5 DEF SameLog, NodeOK
  <2> QED
    BY <1>2, <1>3, <1>5, <2>1, PieceHandle DEF Fits, RequestOK
<1>7. h.currentTerm \in {b.currentTerm, m.term} /\ h.role \in {b.role, Follower}
  <2>1. /\ m.term \in Nat /\ m.leader \in Server \cup {Nil} /\ m.entries \in Seq(Entry)
        /\ m.commit \in Index /\ b.currentTerm \in Nat
    BY <1>3, <1>5 DEF AEReq, NodeStates
  <2>2. /\ m.term < b.currentTerm => h = b
        /\ m.term >= b.currentTerm => h.currentTerm = m.term /\ h.role = Follower
    BY <1>2, <1>5, <2>1, HandleAppendEntriesEffect
  <2> HIDE DEF h
  <2> QED
    BY <2>1, <2>2
<1>8. /\ Persist(n, s) /\ GoTo(n, "top")
      /\ aeRpcs' = rest \/ aeRpcs' = rest (+) SetToBag({resp})
      /\ UNCHANGED <<held, sm, voteReqs, voteResps, elected>>
  BY DEF HandleAEReq, history, b, h, s
<1> HIDE DEF h
<1>9. s \in NodeStates /\ SameLog(h, s) /\ SameBallot(h, s)
  BY <1>6, AfterSelectLog
<1> HIDE DEF s
<1>10. /\ Piece(accepted, s.log) /\ Len(s.log) >= Len(node[n].log) /\ s.snap = Nil
       /\ s.lastApplied = node[n].lastApplied /\ s.currentTerm <= 1 /\ h.currentTerm <= 1
       /\ s.role \in {node[n].role, Follower}
  BY <1>2, <1>5, <1>6, <1>7, <1>9 DEF SameLog, SameBallot
<1>11. /\ node'[n] = s /\ disk'[n].log = s.log /\ disk'[n].snap = Nil
       /\ disk'[n].currentTerm = s.currentTerm
       /\ \A p \in Server \ {n} : node'[p] = node[p] /\ disk'[p] = disk[p]
  BY <1>8, <1>9, <1>10, PersistFirst
<1>12. \A x \in DOMAIN aeRpcs' : x \in DOMAIN aeRpcs \/ (x.term <= 1 /\ x.type = "response")
  <2>1. resp.term <= 1 /\ resp.type = "response"
    BY <1>10 DEF AERespTo
  <2> HIDE DEF resp
  <2>2. DOMAIN rest \subseteq DOMAIN aeRpcs
    BY <1>2, BagRemoveRpc DEF TypeOK, RpcBag
  <2> HIDE DEF rest
  <2>3. DOMAIN (rest (+) SetToBag({resp})) = DOMAIN rest \cup {resp}
    BY BagOne
  <2> QED
    BY <1>8, <2>1, <2>2, <2>3
<1>13. TermsOK'
  BY <1>2, <1>8, <1>10, <1>11, <1>12, TermsKeep
<1>14. loop'[n] = "top" /\ \A p \in Server \ {n} : loop'[p] = loop[p]
  BY <1>2, <1>8 DEF GoTo, TypeOK
<1>15. accepted' = accepted /\ applier' = applier /\ hand' = hand
  BY DEF clientVars
<1>16. RaceOK(n)'
  <2>1. ~Elected(n)' /\ node[n].role # Leader /\ applier[n].at = "idle"
    BY <1>2, <1>4, <1>8 DEF Elected, RaceOK
  <2>2. node'[n].role # Leader /\ (node'[n].role = Candidate => node[n].role = Candidate)
    BY <1>10, <1>11, <2>1 DEF Leader, Candidate, Follower
  <2> QED
    BY <1>1, <1>2, <1>14, <1>15, <2>1, <2>2 DEF RaceOK, Leader, Candidate
<1>17. NodeOK(n)'
  <2>1. node[n].lastApplied < Len(s.log)
    <3>1. s.log \in Seq(Entry) /\ node[n].log \in Seq(Entry) /\ node[n].lastApplied \in Index
      BY <1>2, <1>9 DEF NodeStates
    <3>2. Len(s.log) \in Nat /\ Len(node[n].log) \in Nat /\ node[n].lastApplied \in Int
      BY <3>1 DEF Index
    <3> QED
      BY <1>2, <1>10, <3>2 DEF NodeOK
  <2> QED
    BY <1>10, <1>11, <1>15, <2>1 DEF NodeOK
<1>18. ApplierOK(n)' /\ ClientType'
  BY <1>15 DEF FirstOK, ApplierOK, ClientType, clientVars
<1>19. MachineOK(n)'
  BY <1>2, <1>8, <1>10, <1>11, <1>14, <1>15 DEF MachineOK, NoHand
<1>20. OthersSame(n) /\ Accepts(n)
  BY <1>8, <1>11, <1>14, <1>15 DEF OthersSame, Accepts
<1> QED
  BY <1>1, <1>4, <1>8, <1>12, <1>13, <1>16, <1>17, <1>18, <1>19, <1>20, FirstStep

\* Start: what was stored of the one log is a piece of it, and nothing is applied.
LEMMA RestoredFirst ==
    ASSUME NEW acc \in Seq(Command), NEW d \in Disk, Piece(acc, d.log), d.snap = Nil,
           NEW r, r = Restored(d)
    PROVE  /\ Piece(acc, r.log) /\ (d.log = <<>> => r.log = <<>>)
           /\ r.snap = Nil /\ r.lastApplied = -1
           /\ r.currentTerm = d.currentTerm /\ r.role = Follower
<1> DEFINE k == Min({LogCap, Len(d.log)})
           s == IF d.currentTerm > 0
                THEN [NewNodeState EXCEPT !.currentTerm = d.currentTerm,
                                          !.votedFor    = d.votedFor,
                                          !.log         = SubSeq(d.log, 1, k)]
                ELSE NewNodeState
<1>1. d.log \in Seq(Entry) /\ Len(d.log) \in Nat /\ d.currentTerm \in Nat
  BY DEF Disk
<1>2. k \in 0..Len(d.log)
  <2>1. \E x \in {LogCap, Len(d.log)} : \A y \in {LogCap, Len(d.log)} : x <= y
    BY <1>1, LogCapAssumption
  <2>2. k \in {LogCap, Len(d.log)} /\ k <= Len(d.log)
    BY <2>1 DEF Min
  <2> QED
    BY <1>1, <2>2, LogCapAssumption
<1>3. r = s
  BY DEF Restored
<1>4. r.role = Follower
  BY RestoredType
<1> HIDE DEF k
<1>5. CASE d.currentTerm > 0
  <2>1. /\ s.log = SubSeq(d.log, 1, k) /\ s.snap = Nil /\ s.currentTerm = d.currentTerm
        /\ s.lastApplied = -1
    BY <1>5 DEF NewNodeState
  <2> HIDE DEF s
  <2>2. Piece(acc, s.log)
    BY <1>1, <1>2, <2>1, PieceCut
  <2>3. d.log = <<>> => s.log = <<>>
    <3> HAVE d.log = <<>>
    <3>1. Len(d.log) = 0
      OBVIOUS
    <3>2. k = 0
      BY <1>2, <3>1
    <3> QED
      BY <1>1, <2>1, <3>2
  <2> QED
    BY <1>3, <1>4, <2>1, <2>2, <2>3
<1>6. CASE ~(d.currentTerm > 0)
  <2>1. s.log = <<>> /\ s.snap = Nil /\ s.currentTerm = 0 /\ s.lastApplied = -1
    BY <1>6 DEF NewNodeState
  <2> HIDE DEF s
  <2>2. Piece(acc, s.log)
    BY <2>1 DEF Piece
  <2> QED
    BY <1>1, <1>3, <1>4, <1>6, <2>1, <2>2
<1> QED
  BY <1>5, <1>6

\* A process dies and is started again.
LEMMA RestartFirst ==
    ASSUME FirstOK, NEW n \in Server, ClientRestart(n)
    PROVE  FirstOK'
<1>1. Base' /\ cast \subseteq cast' /\ Restart(n)
  BY CoreBase DEF FirstOK, Next, ClientRestart
<1>2. /\ TypeOK /\ TermsOK /\ disk[n] \in Disk /\ Piece(accepted, disk[n].log) /\ disk[n].snap = Nil
      /\ accepted \in Seq(Command) /\ disk[n].currentTerm <= 1
  BY DEF FirstOK, Base, TypeOK, NodeOK, ClientType, TermsOK
<1>3. /\ node'[n] = Restored(disk[n]) /\ disk' = disk
      /\ \A p \in Server : p # n => node'[p] = node[p]
      /\ DOMAIN aeRpcs' \subseteq DOMAIN aeRpcs
  BY <1>1, <1>2, RestartStep
<1>4. /\ Piece(accepted, node'[n].log) /\ (disk[n].log = <<>> => node'[n].log = <<>>)
      /\ node'[n].snap = Nil /\ node'[n].lastApplied = -1
      /\ node'[n].currentTerm = disk[n].currentTerm /\ node'[n].role = Follower
  BY <1>2, <1>3, RestoredFirst
<1>5. /\ loop'[n] = "top" /\ held'[n] = Nil /\ sm'[n] = <<>>
      /\ \A p \in Server \ {n} : loop'[p] = loop[p] /\ held'[p] = held[p] /\ sm'[p] = sm[p]
      /\ voteReqs' = voteReqs /\ voteResps' \subseteq voteResps /\ elected' = elected
  BY <1>1, <1>2 DEF Restart, GoTo, TypeOK, RestoredSM
<1>6. TermsOK'
  BY <1>2, <1>3, <1>4, <1>5, TermsKeep
<1>7. /\ applier'[n] = Idle /\ hand'[n] = NoHand /\ accepted' = accepted
      /\ \A p \in Server \ {n} : applier'[p] = applier[p] /\ hand'[p] = hand[p]
  BY DEF ClientRestart, FirstOK, ClientType
<1>8. ClientType'
  <2>1. Idle \in AppliersAt
    BY DEF Idle, Handling, Index, AppliersAt
  <2>2. NoHand \in Hands
    BY DEF NoHand, Hands
  <2>3. Idle.at = "idle"
    BY DEF Idle, Handling
  <2>4. applier' = [applier EXCEPT ![n] = Idle] /\ hand' = [hand EXCEPT ![n] = NoHand]
    BY DEF ClientRestart
  <2> HIDE DEF Idle, NoHand
  <2> QED
    BY <1>7, <2>1, <2>2, <2>3, <2>4 DEF FirstOK, ClientType
<1>9. RaceOK(n)' /\ ApplierOK(n)'
  BY <1>4, <1>5, <1>7 DEF RaceOK, ApplierOK, Idle, Handling, Leader, Candidate, Follower
<1>10. NodeOK(n)'
  <2>1. node' \in [Server -> NodeStates]
    BY <1>1 DEF Base, TypeOK
  <2>2. Len(node'[n].log) \in Nat
    BY <2>1 DEF NodeStates
  <2> QED
    BY <1>2, <1>3, <1>4, <1>7, <2>2 DEF NodeOK
<1>11. MachineOK(n)'
  <2>1. Len(accepted) \in Nat /\ Len(sm'[n]) = 0
    BY <1>2, <1>5
  <2>2. Executed(accepted', sm'[n], 0)
    BY <1>7, <2>1 DEF Executed
  <2> QED
    BY <1>4, <1>7, <2>2 DEF MachineOK
<1>12. Blank => Blank'
  <2> HAVE Blank
  <2>1. \A p \in Server : node'[p].log = <<>>
    BY <1>3, <1>4 DEF Blank
  <2> QED
    BY <1>3, <1>7, <2>1 DEF Blank
<1>13. OthersSame(n) /\ Accepts(n)
  BY <1>3, <1>5, <1>7 DEF OthersSame, Accepts
<1> QED
  BY <1>1, <1>3, <1>5, <1>6, <1>8, <1>9, <1>10, <1>11, <1>12, <1>13, FirstStep

-----------------------------------------------------------------------------
(***************************************************************************)
(* handleApplyRequests.                                                    *)
(***************************************************************************)
\* A step that no variable of RaftCore takes part in.
LEMMA StillFirst ==
    ASSUME FirstOK, NEW n \in Server, UNCHANGED vars, accepted' = accepted, ClientType',
           \A p \in Server \ {n} : applier'[p] = applier[p] /\ hand'[p] = hand[p],
           applier'[n].at # "idle" => applier[n].at # "idle" \/ node[n].role = Leader,
           ApplierOK(n)', MachineOK(n)'
    PROVE  FirstOK'
<1>1. /\ UNCHANGED <<node, loop, connected, held, disk, sm, epoch>>
      /\ UNCHANGED <<voteReqs, voteResps, aeRpcs, calls, cast, elected, tally>>
  BY DEF vars, nodeVars, netVars, history
<1>2. Base'
  <2>1. TypeOK /\ TypeOK' /\ PlainInv
    BY <1>1 DEF FirstOK, Base, TypeOK
  <2>2. node[n] \in NodeStates /\ PlainState(node'[n])
    BY <1>1, <2>1 DEF TypeOK, PlainInv
  <2>3. SameBallot(node[n], node'[n])
    BY <1>1 DEF SameBallot
  <2>4. BallotStep(n)
    BY <1>1, <2>2, <2>3, SameBallotGrows DEF BallotStep
  <2> QED
    BY <1>1, <2>1, <2>2, <2>3, <2>4, QuietBase DEF FirstOK
<1>3. TermsOK'
  BY <1>1 DEF FirstOK, TermsOK
<1>4. NodeOK(n)'
  BY <1>1 DEF FirstOK, NodeOK
<1>5. Blank => Blank'
  BY <1>1 DEF Blank
<1>6. RaceOK(n)'
  <2>1. RaceOK(n) /\ (Elected(n)' <=> Elected(n))
    BY <1>1 DEF FirstOK, Elected
  <2> QED
    BY <1>1, <1>5, <2>1 DEF RaceOK
<1>7. OthersSame(n) /\ Accepts(n)
  BY <1>1 DEF OthersSame, Accepts
<1> QED
  BY <1>1, <1>2, <1>3, <1>4, <1>5, <1>6, <1>7, FirstStep

\* A step of the applier alone.
LEMMA ApplierFirst ==
    ASSUME FirstOK, NEW n \in Server, UNCHANGED <<vars, hand, accepted>>,
           NEW a \in AppliersAt, applier' = [applier EXCEPT ![n] = a],
           a.at # "idle" => a.call \in Call /\ (applier[n].at # "idle" \/ node[n].role = Leader),
           a.at # "read"
    PROVE  FirstOK'
<1>1. applier'[n] = a /\ \A p \in Server \ {n} : applier'[p] = applier[p]
  BY DEF FirstOK, ClientType
<1>2. ClientType'
  BY <1>1 DEF FirstOK, ClientType
<1>3. ApplierOK(n)'
  BY <1>1 DEF ApplierOK
<1>4. MachineOK(n)'
  BY DEF FirstOK, MachineOK, vars, nodeVars
<1> QED
  BY <1>1, <1>2, <1>3, <1>4, StillFirst

\* The applier goes on with the same call.
LEMMA StepFirst ==
    ASSUME FirstOK, NEW n \in Server, UNCHANGED <<vars, hand, accepted>>,
           NEW from, NEW to \in {"new", "saved", "unregistered", "registered"}, from # "idle", Step(n, from, to)
    PROVE  FirstOK'
<1> DEFINE a == [applier[n] EXCEPT !.at = to]
<1>1. applier[n] \in AppliersAt /\ applier[n].at # "idle" /\ applier[n].call \in Call
  BY DEF FirstOK, ClientType, Step
<1>2. applier' = [applier EXCEPT ![n] = a]
  BY DEF Step, FirstOK, ClientType
<1>3. a \in AppliersAt /\ a.at = to /\ a.call = applier[n].call
  BY <1>1 DEF AppliersAt
<1> HIDE DEF a
<1> QED
  BY <1>1, <1>2, <1>3, ApplierFirst

\* The applier is free again.
LEMMA IdleFirst ==
    ASSUME FirstOK, NEW n \in Server, UNCHANGED <<vars, hand, accepted>>,
           applier' = [applier EXCEPT ![n] = Idle]
    PROVE  FirstOK'
<1>1. Idle \in AppliersAt /\ Idle.at = "idle"
  BY DEF Idle, Handling, Index, AppliersAt
<1> QED
  BY <1>1, ApplierFirst

\* Apply hands over a call.
LEMMA SubmitFirst ==
    ASSUME FirstOK, NEW n \in Server, NEW c \in Call, Submit(n, c)
    PROVE  FirstOK'
<1>1. UNCHANGED <<vars, hand, accepted>>
  BY DEF Submit
<1>2. CASE node[n].role = Leader
  <2>1. applier' = [applier EXCEPT ![n] = Handling("leader", c)]
    BY <1>2 DEF Submit
  <2>2. /\ Handling("leader", c) \in AppliersAt /\ Handling("leader", c).at = "leader"
        /\ Handling("leader", c).call = c
    BY DEF Handling, Index, AppliersAt
  <2> QED
    BY <1>1, <1>2, <2>1, <2>2, ApplierFirst
<1>3. CASE node[n].role # Leader
  <2>1. applier' = applier
    BY <1>3 DEF Submit
  <2>2. ClientType' /\ ApplierOK(n)' /\ MachineOK(n)'
    BY <1>1, <2>1 DEF FirstOK, ClientType, ApplierOK, MachineOK, vars, nodeVars
  <2> QED
    BY <1>1, <2>1, <2>2, StillFirst
<1> QED
  BY <1>2, <1>3

\* A call that was seen before is answered, another one goes on.
LEMMA DeduplicateFirst ==
    ASSUME FirstOK, NEW n \in Server, Deduplicate(n)
    PROVE  FirstOK'
<1>1. UNCHANGED <<vars, hand, accepted>>
  BY DEF Deduplicate
<1>2. applier' = [applier EXCEPT ![n] = Idle] \/ Step(n, "leader", "new")
  BY DEF Deduplicate, Answer
<1> QED
  BY <1>1, <1>2, IdleFirst, StepFirst

\* The caller is registered.
LEMMA RegisterFirst ==
    ASSUME FirstOK, NEW n \in Server, Register(n)
    PROVE  FirstOK'
<1>1. UNCHANGED <<vars, hand, accepted>> /\ Step(n, "unregistered", "registered")
  BY DEF Register
<1> QED
  BY <1>1, StepFirst

\* There is no snapshot to save.
LEMMA SaveSnapshotFirst ==
    ASSUME FirstOK, NEW n \in Server, SaveSnapshot(n)
    PROVE  FirstOK'
<1>1. /\ node \in [Server -> NodeStates] /\ disk \in [Server -> Disk]
      /\ node[n].snap = Nil /\ disk[n].snap = Nil
  BY DEF FirstOK, Base, TypeOK, NodeOK
<1>2. node' = node
  <2>1. node' = [node EXCEPT ![n] = NoteStored(node[n])]
    BY DEF SaveSnapshot
  <2>2. NoteStored(node[n]) = node[n]
    BY <1>1 DEF NoteStored
  <2> QED
    BY <1>1, <2>1, <2>2
<1>3. disk' = disk
  <2>1. disk' = [disk EXCEPT ![n].snap = Stored(node[n], disk[n]).snap]
    BY DEF SaveSnapshot
  <2>2. Stored(node[n], disk[n]).snap = disk[n].snap
    BY <1>1 DEF Stored
  <2>3. disk[n] \in Disk
    BY <1>1
  <2>4. [disk[n] EXCEPT !.snap = disk[n].snap] = disk[n]
    BY <2>3 DEF Disk
  <2> QED
    BY <1>1, <2>1, <2>2, <2>4
<1>4. UNCHANGED <<vars, hand, accepted>> /\ Step(n, "saved", "unregistered")
  BY <1>2, <1>3 DEF SaveSnapshot, vars, nodeVars
<1> QED
  BY <1>4, StepFirst

\* The state is read to be saved: the elected server has all of the log.
LEMMA ReadFirst ==
    ASSUME FirstOK, NEW n \in Server, GetPersistentState(n)
    PROVE  FirstOK'
<1> DEFINE r == [currentTerm |-> node[n].currentTerm, votedFor |-> node[n].votedFor, log |-> node[n].log]
           a == [applier[n] EXCEPT !.at = "read", !.read = r]
<1>1. /\ applier[n].at = "appended" /\ UNCHANGED <<vars, hand, accepted>>
      /\ applier' = [applier EXCEPT ![n] = a]
  BY DEF GetPersistentState, PersistentState, FirstOK, ClientType
<1>2. applier[n] \in AppliersAt /\ applier[n].call \in Call /\ applier \in [Server -> AppliersAt]
  BY <1>1 DEF FirstOK, ClientType
<1>3. Elected(n) /\ Piece(accepted, node[n].log) /\ PlainState(node[n])
  BY <1>1 DEF FirstOK, RaceOK, NodeOK, Base, PlainInv
<1>4. node[n].currentTerm = 1 /\ node[n].votedFor = n
  BY <1>3, ElectedBallot
<1>5. r \in Saved /\ r.votedFor = n /\ r.log = node[n].log
  BY <1>3, <1>4 DEF Saved, PlainState
<1> HIDE DEF r
<1>6. a \in AppliersAt /\ a.at = "read" /\ a.read = r /\ a.call = applier[n].call
  BY <1>2, <1>5 DEF AppliersAt
<1> HIDE DEF a
<1>7. applier'[n] = a /\ \A p \in Server \ {n} : applier'[p] = applier[p]
  BY <1>1, <1>2
<1>8. ClientType'
  BY <1>1, <1>2, <1>6, <1>7 DEF FirstOK, ClientType
<1>9. ApplierOK(n)'
  BY <1>1, <1>3, <1>5, <1>6, <1>7 DEF ApplierOK
<1>10. MachineOK(n)'
  BY <1>1 DEF FirstOK, MachineOK, vars, nodeVars
<1> QED
  BY <1>1, <1>7, <1>8, <1>9, <1>10, StillFirst

\* A step of one of the two goroutines that writes the log, the storage or the state
\* machine of n, and leaves its ballot alone.
LEMMA WritesFirst ==
    ASSUME FirstOK, NEW n \in Server, TypeOK', ClientType', OthersSame(n), Accepts(n),
           UNCHANGED <<loop, held, epoch, voteReqs, voteResps, cast, elected, tally>>,
           SameBallot(node[n], node'[n]), PlainState(node'[n]),
           \/ disk'[n] = disk[n]
           \/ /\ Elected(n) /\ disk'[n].currentTerm = 1 /\ disk'[n].votedFor = n
              /\ disk'[n].log \in Seq(PlainEntry),
           \A m \in DOMAIN aeRpcs' :
               \/ m \in DOMAIN aeRpcs
               \/ m.term <= 1 /\ Elected(n) /\ Batch(accepted', m) /\ m.src = n /\ m.dst # n /\ PlainRpc(m),
           Elected(n) \/ (Blank => Blank'),
           Elected(n) => loop[n] # "won",
           node[n].role = Leader \/ applier'[n].at # "idle" => Elected(n) /\ Whole(accepted', node'[n].log),
           NodeOK(n)', ApplierOK(n)', MachineOK(n)'
    PROVE  FirstOK'
<1>1. node[n] \in NodeStates /\ RaceOK(n) /\ TermsOK
  BY DEF FirstOK, Base, TypeOK
<1>2. node'[n].currentTerm = node[n].currentTerm /\ node'[n].votedFor = node[n].votedFor
      /\ node'[n].role = node[n].role
  BY DEF SameBallot
<1>3. \A p \in Server \ {n} : node'[p] = node[p] /\ disk'[p] = disk[p]
  BY DEF OthersSame
<1>4. disk'[n] = disk[n] \/ (disk'[n].currentTerm = node'[n].currentTerm /\ disk'[n].votedFor = node'[n].votedFor)
  BY <1>2, ElectedBallot
<1>5. BallotStep(n)
  BY <1>1, <1>3, <1>4, SameBallotGrows DEF BallotStep
<1>6. Base'
  BY <1>5, QuietBase DEF FirstOK
<1>7. TermsOK'
  <2>1. node'[n].currentTerm <= 1
    BY <1>1, <1>2 DEF TermsOK
  <2> QED
    BY <1>1, <1>3, <2>1, TermsKeep
<1>8. Elected(n)' <=> Elected(n)
  BY DEF Elected
<1>9. RaceOK(n)'
  <2>1. loop[n] # "won"
    BY <1>1 DEF RaceOK
  <2> QED
    BY <1>1, <1>2, <1>8, <2>1 DEF RaceOK
<1>10. \A m \in DOMAIN aeRpcs' : m \in DOMAIN aeRpcs \/ (m.type = "request" => RequestOK(m)')
  BY <1>8 DEF RequestOK
<1> QED
  BY <1>6, <1>7, <1>9, <1>10, FirstStep

\* addCommandLog where the array is not full: the command goes to the end of the log.
LEMMA CommandAppended ==
    ASSUME NEW acc \in Seq(Command), Len(acc) + 1 < LogCap, NEW c \in Command,
           NEW s \in NodeStates, Whole(acc, s.log), s.snap = Nil, s.currentTerm = 1,
           NEW id \in Server, NEW data, NEW r, r = AddCommandLog(s, id, c, data)
    PROVE  /\ r \in NodeStates /\ Whole(Append(acc, c), r.log) /\ SameBallot(s, r)
           /\ r.snap = Nil /\ r.lastApplied = s.lastApplied
           /\ PlainState(s) => PlainState(r)
           /\ LastLogIdx(r) = LastLogIdx(s) + 1 /\ LastLogIdx(r) \in Index
<1> DEFINE e == [index |-> LastLogIdx(s) + 1, term |-> s.currentTerm, kind |-> "command", val |-> c]
           new == Append(acc, c)
<1>1. /\ s.log \in Seq(Entry) /\ Len(acc) \in Nat /\ Len(s.log) = Len(acc) + 1 /\ LogCap \in Nat
      /\ Piece(acc, s.log)
  BY LogCapAssumption DEF NodeStates, Whole
<1>2. LastLogIdx(s) = Len(acc)
  BY <1>1, PieceLast, SMTT(40)
<1>3. /\ e = [index |-> Len(acc) + 1, term |-> 1, kind |-> "command", val |-> c]
      /\ e \in Entry /\ e \in PlainEntry /\ e.index = Len(acc) + 1
  BY <1>1, <1>2 DEF Entry, PlainEntry
<1>4. r = AppendOwn(s, id, e)
  <2>1. ~(Len(s.log) >= LogCap)
    BY <1>1
  <2> QED
    BY <2>1 DEF AddCommandLog
<1> HIDE DEF e
<1>5. /\ r.log = Append(s.log, e) /\ SameBallot(s, r) /\ r.snap = Nil /\ r.lastApplied = s.lastApplied
      /\ r.config = s.config /\ r.oldConfig = s.oldConfig
  BY <1>4 DEF AppendOwn, NodeStates, SameBallot
<1>6. r \in NodeStates
  <2>1. Append(s.log, e) \in Seq(Entry)
    BY <1>1, <1>3
  <2>2. e.index \in Index /\ e.index + 1 \in Nat
    BY <1>1, <1>3 DEF Index
  <2>3. /\ [s.matchIndex EXCEPT ![id] = e.index] \in [Server -> Index]
        /\ [s.lastSent EXCEPT ![id] = e.index] \in [Server -> Index]
        /\ [s.nextIndex EXCEPT ![id] = e.index + 1] \in [Server -> Nat]
    BY <2>2 DEF NodeStates
  <2> QED
    BY <1>4, <2>1, <2>3, ZenonT(60) DEF AppendOwn, NodeStates
<1>7. /\ Len(r.log) = Len(acc) + 2
      /\ \A k \in 1..Len(acc)+1 : r.log[k] = s.log[k]
      /\ r.log[Len(acc) + 2] = e
  BY <1>1, <1>5
<1>8. new[Len(acc) + 1] = c /\ OneMore(acc, new) /\ Len(new) = Len(acc) + 1
  <2>1. new[Len(acc) + 1] = c /\ OneMore(acc, new)
    BY PieceGrows
  <2> QED
    BY <2>1 DEF OneMore
<1> HIDE DEF new
<1>9. Whole(new, r.log)
  <2>1. ASSUME NEW k \in 1..Len(r.log) PROVE r.log[k] = EntryAt(new, k)
    <3>1. CASE k = Len(acc) + 2
      <4>1. k # 1 /\ k - 1 = Len(acc) + 1
        BY <1>1, <3>1
      <4>2. EntryAt(new, k) = [index |-> k - 1, term |-> 1, kind |-> "command", val |-> new[k-1]]
        BY <4>1 DEF EntryAt
      <4> QED
        BY <1>3, <1>7, <1>8, <3>1, <4>1, <4>2
    <3>2. CASE k # Len(acc) + 2
      <4>1. k \in 1..Len(acc)+1
        BY <1>1, <1>7, <3>2
      <4>2. s.log[k] = EntryAt(acc, k)
        BY <1>1, <4>1 DEF Piece
      <4> QED
        BY <1>7, <1>8, <4>1, <4>2 DEF OneMore
    <3> QED
      BY <3>1, <3>2
  <2>2. Len(r.log) = Len(new) + 1 /\ Len(r.log) <= Len(new) + 1
    BY <1>1, <1>7, <1>8
  <2> QED
    BY <2>1, <2>2 DEF Whole, Piece
<1>10. PlainState(s) => PlainState(r)
  <2>1. s.log \in Seq(PlainEntry) => Append(s.log, e) \in Seq(PlainEntry)
    BY <1>3
  <2> QED
    BY <1>5, <2>1 DEF PlainState
<1>11. LastLogIdx(r) = Len(acc) + 1
  <2>1. Piece(new, r.log)
    BY <1>9 DEF Whole
  <2>2. LastLogIdx(r) = Len(r.log) - 1
    BY <1>5, <1>6, <2>1, PieceLast
  <2> QED
    BY <1>1, <1>7, <2>2
<1> QED
  BY <1>1, <1>2, <1>5, <1>6, <1>9, <1>10, <1>11 DEF Index, new

\* The applier appends: it runs on the elected server only.
LEMMA CommandFirst ==
    ASSUME FirstOK, Fits, NEW n \in Server, AppendCommand(n)
    PROVE  FirstOK'
<1> DEFINE c == Request[applier[n].call]
           s == AddCommandLog(node[n], n, c, sm[n])
           a == [applier[n] EXCEPT !.at = "appended", !.idx = LastLogIdx(s)]
<1>1. /\ applier[n].at = "new" /\ applier[n] \in AppliersAt /\ applier[n].call \in Call
      /\ applier \in [Server -> AppliersAt] /\ accepted \in Seq(Command)
      /\ TypeOK /\ node[n] \in NodeStates /\ NodeOK(n) /\ MachineOK(n) /\ PlainState(node[n])
  BY DEF AppendCommand, FirstOK, ClientType, Base, TypeOK, PlainInv
<1>2. Elected(n) /\ loop[n] # "won" /\ Whole(accepted, node[n].log)
  BY <1>1 DEF FirstOK, RaceOK
<1>3. node[n].currentTerm = 1 /\ node[n].snap = Nil
  BY <1>1, <1>2, ElectedBallot DEF NodeOK
<1>4. c \in Command
  BY <1>1, RequestAssumption
<1> HIDE DEF c
<1> DEFINE new == Append(accepted, c)
<1>5. /\ s \in NodeStates /\ Whole(new, s.log) /\ SameBallot(node[n], s)
      /\ s.snap = Nil /\ s.lastApplied = node[n].lastApplied /\ PlainState(s)
      /\ LastLogIdx(s) = LastLogIdx(node[n]) + 1 /\ LastLogIdx(s) \in Index
  <2>1. s = AddCommandLog(node[n], n, c, sm[n]) /\ new = Append(accepted, c) /\ Len(accepted) + 1 < LogCap
    BY DEF Fits
  <2>2. /\ accepted \in Seq(Command) /\ node[n] \in NodeStates /\ PlainState(node[n])
    BY <1>1
  <2> HIDE DEF s
  <2>3. /\ s \in NodeStates /\ Whole(Append(accepted, c), s.log) /\ SameBallot(node[n], s)
        /\ s.snap = Nil /\ s.lastApplied = node[n].lastApplied
        /\ PlainState(node[n]) => PlainState(s)
        /\ LastLogIdx(s) = LastLogIdx(node[n]) + 1 /\ LastLogIdx(s) \in Index
    BY <1>2, <1>3, <1>4, <2>1, <2>2, CommandAppended
  <2> QED
    BY <2>2, <2>3
<1>6. LastLogIdx(s) # LastLogIdx(node[n])
  <2>1. LastLogIdx(node[n]) \in Int
    BY <1>1, LastLogType DEF Index
  <2> HIDE DEF s
  <2> QED
    BY <1>5, <2>1
<1>7. /\ Update(n, s) /\ accepted' = new
      /\ applier' = [applier EXCEPT ![n].at = "appended", ![n].idx = LastLogIdx(s)]
      /\ UNCHANGED <<loop, connected, held, sm, epoch, voteReqs, voteResps, aeRpcs, calls>>
      /\ UNCHANGED <<cast, elected, tally, hand>>
  BY <1>6 DEF AppendCommand, netVars, history, c
<1> HIDE DEF s
<1>8. new \in Seq(Command) /\ OneMore(accepted, new)
  BY <1>1, <1>4, PieceGrows
<1> HIDE DEF new
<1>9. /\ node' \in [Server -> NodeStates] /\ node'[n] = s /\ disk' = disk
      /\ \A p \in Server \ {n} : node'[p] = node[p]
  BY <1>1, <1>5, <1>7, UpdateStep
<1>10. applier'[n] = a /\ applier' = [applier EXCEPT ![n] = a]
  BY <1>1, <1>7
<1>11. a \in AppliersAt /\ a.at = "appended" /\ a.call \in Call
  BY <1>1, <1>5 DEF AppliersAt
<1> HIDE DEF a
<1>12. \A p \in Server \ {n} : applier'[p] = applier[p]
  BY <1>1, <1>10
<1>13. ClientType'
  BY <1>1, <1>7, <1>8, <1>10, <1>11, <1>12 DEF FirstOK, ClientType
<1>14. TypeOK'
  BY <1>1, <1>7, <1>9 DEF TypeOK
<1>15. OthersSame(n) /\ Accepts(n)
  BY <1>2, <1>7, <1>8, <1>9, <1>12 DEF OthersSame, Accepts
<1>16. NodeOK(n)'
  <2>1. Piece(new, s.log) /\ Len(s.log) = Len(new) + 1 /\ Len(new) = Len(accepted) + 1
    BY <1>5, <1>8 DEF Whole, OneMore
  <2>2. Piece(new, disk[n].log)
    BY <1>1, <1>7, <1>15, AcceptsKeeps DEF NodeOK, TypeOK, Disk
  <2>3. node[n].lastApplied < Len(s.log)
    <3>1. node[n].lastApplied \in Index /\ Len(accepted) \in Nat
      BY <1>1 DEF NodeStates
    <3>2. node[n].lastApplied < Len(node[n].log) /\ Len(node[n].log) = Len(accepted) + 1
      BY <1>1, <1>2 DEF NodeOK, Whole
    <3> QED
      BY <2>1, <3>1, <3>2 DEF Index
  <2> QED
    BY <1>1, <1>5, <1>7, <1>9, <2>1, <2>2, <2>3 DEF NodeOK
<1>17. ApplierOK(n)'
  BY <1>10, <1>11 DEF ApplierOK
<1>18. MachineOK(n)'
  <2> DEFINE x == node[n].lastApplied
  <2>1. /\ x \in Int /\ x < Len(node[n].log) /\ Len(node[n].log) = Len(accepted) + 1
        /\ Len(accepted) \in Nat
    BY <1>1, <1>2 DEF NodeOK, NodeStates, Index, Whole
  <2>2. x >= 0 => x + 1 \in 1..Len(accepted)+1
    BY <2>1
  <2>3. (IF x > 0 THEN x ELSE 0) \in Nat /\ (IF x > 1 THEN x - 1 ELSE 0) \in Nat
    BY <2>1
  <2>4. x >= 0 => EntryAt(accepted', x + 1) = EntryAt(accepted, x + 1)
    BY <1>15, <2>2, AcceptsKeeps
  <2>5. node'[n].lastApplied = x /\ hand' = hand /\ sm' = sm /\ loop' = loop
    BY <1>5, <1>7, <1>9
  <2>6. CASE hand[n] = NoHand /\ Executed(accepted, sm[n], IF x > 0 THEN x ELSE 0)
    <3>1. Executed(accepted', sm[n], IF x > 0 THEN x ELSE 0)
      BY <1>15, <2>3, <2>6, AcceptsKeeps
    <3> QED
      BY <2>5, <2>6, <3>1 DEF MachineOK
  <2>7. CASE /\ hand[n].at \in {"found", "taken"} /\ loop[n] = "top" /\ x >= 0
             /\ hand[n].pos = x + 1 /\ hand[n].entry = EntryAt(accepted, hand[n].pos)
             /\ Executed(accepted, sm[n], IF x > 1 THEN x - 1 ELSE 0)
    <3>1. Executed(accepted', sm[n], IF x > 1 THEN x - 1 ELSE 0)
      BY <1>15, <2>3, <2>7, AcceptsKeeps
    <3>2. hand[n].entry = EntryAt(accepted', hand[n].pos)
      BY <2>4, <2>7
    <3> QED
      BY <2>5, <2>7, <3>1, <3>2 DEF MachineOK
  <2> QED
    BY <1>1, <2>6, <2>7 DEF MachineOK
<1>19. Whole(accepted', node'[n].log) /\ SameBallot(node[n], node'[n]) /\ PlainState(node'[n])
  BY <1>5, <1>7, <1>9
<1> QED
  BY <1>2, <1>7, <1>9, <1>13, <1>14, <1>15, <1>16, <1>17, <1>18, <1>19, WritesFirst

\* SaveState writes what was read, perhaps after the log has gone on.
LEMMA SaveFirst ==
    ASSUME FirstOK, NEW n \in Server, SaveState(n)
    PROVE  FirstOK'
<1> DEFINE r == applier[n].read
           a == [applier[n] EXCEPT !.at = "saved"]
           d == [disk[n] EXCEPT !.currentTerm = r.currentTerm, !.votedFor = r.votedFor, !.log = r.log]
<1>1. /\ applier[n].at = "read" /\ applier[n] \in AppliersAt /\ applier[n].call \in Call
      /\ applier \in [Server -> AppliersAt]
      /\ TypeOK /\ disk[n] \in Disk /\ NodeOK(n) /\ MachineOK(n) /\ PlainState(node[n])
  BY DEF SaveState, Step, FirstOK, ClientType, Base, TypeOK, PlainInv
<1>2. Elected(n) /\ loop[n] # "won" /\ Whole(accepted, node[n].log)
  BY <1>1 DEF FirstOK, RaceOK
<1>3. r \in Saved /\ r.votedFor = n /\ Piece(accepted, r.log)
  BY <1>1 DEF FirstOK, ApplierOK
<1>4. r.currentTerm = 1 /\ r.log \in Seq(PlainEntry) /\ r.log \in Seq(Entry)
  <2>1. r.currentTerm = 1 /\ r.log \in Seq(PlainEntry)
    BY <1>3 DEF Saved
  <2>2. PlainEntry \subseteq Entry
    BY DEF PlainEntry
  <2> HIDE DEF r
  <2> QED
    BY <2>1, <2>2
<1>5. /\ disk' = [disk EXCEPT ![n] = d] /\ applier' = [applier EXCEPT ![n] = a]
      /\ UNCHANGED <<node, loop, connected, held, sm, epoch, voteReqs, voteResps, aeRpcs, calls>>
      /\ UNCHANGED <<cast, elected, tally, hand, accepted>>
  BY <1>1 DEF SaveState, Written, Step, netVars, history, TypeOK
<1> HIDE DEF r
<1>6. /\ d \in Disk /\ d.currentTerm = 1 /\ d.votedFor = n /\ d.log = r.log /\ d.snap = disk[n].snap
  <2>1. disk[n] \in Disk /\ r.currentTerm = 1 /\ r.votedFor = n /\ r.log \in Seq(Entry)
    BY <1>1, <1>3, <1>4
  <2>2. PICK t, v, l : t = r.currentTerm /\ v = r.votedFor /\ l = r.log
    OBVIOUS
  <2>3. d = [disk[n] EXCEPT !.currentTerm = t, !.votedFor = v, !.log = l]
    BY <2>2
  <2>4. t \in Nat /\ v \in Server \cup {Nil} /\ l \in Seq(Entry)
    BY <2>1, <2>2
  <2> HIDE DEF d
  <2>5. d.currentTerm = t /\ d.votedFor = v /\ d.log = l /\ d.snap = disk[n].snap
    BY <2>1, <2>3 DEF Disk
  <2>6. d \in Disk
    BY <2>1, <2>3, <2>4 DEF Disk
  <2> QED
    BY <2>1, <2>2, <2>5, <2>6
<1>7. a \in AppliersAt /\ a.at = "saved" /\ a.call \in Call
  BY <1>1 DEF AppliersAt
<1> HIDE DEF a, d
<1>8. /\ disk'[n] = d /\ applier'[n] = a
      /\ \A p \in Server \ {n} : disk'[p] = disk[p] /\ applier'[p] = applier[p]
  BY <1>1, <1>5 DEF TypeOK
<1>9. TypeOK'
  BY <1>1, <1>5, <1>6 DEF TypeOK
<1>10. ClientType'
  BY <1>1, <1>5, <1>7, <1>8 DEF FirstOK, ClientType
<1>11. OthersSame(n) /\ Accepts(n)
  BY <1>5, <1>8 DEF OthersSame, Accepts
<1>12. NodeOK(n)'
  BY <1>1, <1>3, <1>5, <1>6, <1>8 DEF NodeOK
<1>13. ApplierOK(n)' /\ MachineOK(n)'
  BY <1>1, <1>5, <1>7, <1>8 DEF ApplierOK, MachineOK
<1>14. /\ Whole(accepted', node'[n].log) /\ SameBallot(node[n], node'[n]) /\ PlainState(node'[n])
       /\ disk'[n].currentTerm = 1 /\ disk'[n].votedFor = n /\ disk'[n].log \in Seq(PlainEntry)
  BY <1>1, <1>2, <1>4, <1>5, <1>6, <1>8 DEF SameBallot
<1> QED
  BY <1>2, <1>5, <1>9, <1>10, <1>11, <1>12, <1>13, <1>14, WritesFirst

\* sendAppendEntriesRPCs after the registration.
LEMMA ReplicateFirst ==
    ASSUME FirstOK, NEW n \in Server, Replicate(n)
    PROVE  FirstOK'
<1> DEFINE s == ArgsBuilt(node[n], Peers(n))
<1>1. /\ applier[n].at = "registered" /\ applier \in [Server -> AppliersAt]
      /\ TypeOK /\ node[n] \in NodeStates /\ NodeOK(n) /\ MachineOK(n) /\ PlainState(node[n])
      /\ accepted \in Seq(Command) /\ node[n].currentTerm <= 1
  BY DEF Replicate, FirstOK, ClientType, Base, TypeOK, PlainInv, TermsOK
<1>2. Elected(n) /\ loop[n] # "won" /\ Whole(accepted, node[n].log)
  BY <1>1 DEF FirstOK, RaceOK
<1>3. s \in NodeStates /\ SameLog(node[n], s) /\ SameBallot(node[n], s) /\ PlainState(s)
  BY <1>1, ArgsBuiltType, CommitKeeps, QuietLog DEF Peers
<1>4. /\ Update(n, s) /\ SendAE(AEReqsOf(n, node[n])) /\ applier' = [applier EXCEPT ![n] = Idle]
      /\ UNCHANGED <<loop, connected, held, sm, epoch, voteReqs, voteResps>>
      /\ UNCHANGED <<cast, elected, tally, hand, accepted>>
  BY DEF Replicate, history
<1> HIDE DEF s
<1>5. /\ node' \in [Server -> NodeStates] /\ node'[n] = s /\ disk' = disk
      /\ \A p \in Server \ {n} : node'[p] = node[p]
  BY <1>1, <1>3, <1>4, UpdateStep
<1>6. Idle \in AppliersAt /\ Idle.at = "idle"
  BY DEF Idle, Handling, Index, AppliersAt
<1>7. applier'[n] = Idle /\ \A p \in Server \ {n} : applier'[p] = applier[p]
  BY <1>1, <1>4
<1>8. TypeOK'
  <2>1. calls' \in Nat /\ RpcBag(aeRpcs')
    BY <1>1, <1>4, SendAEType
  <2> QED
    BY <1>1, <1>4, <1>5, <2>1 DEF TypeOK, RpcBag
<1>9. ClientType'
  BY <1>1, <1>4, <1>6, <1>7 DEF FirstOK, ClientType
<1>10. OthersSame(n) /\ Accepts(n)
  BY <1>4, <1>5, <1>7 DEF OthersSame, Accepts
<1>11. NodeOK(n)'
  BY <1>1, <1>3, <1>4, <1>5 DEF NodeOK, SameLog
<1>12. ApplierOK(n)'
  BY <1>6, <1>7 DEF ApplierOK
<1>13. MachineOK(n)'
  BY <1>1, <1>3, <1>4, <1>5 DEF MachineOK, SameLog
<1>14. Whole(accepted', node'[n].log) /\ SameBallot(node[n], node'[n]) /\ PlainState(node'[n])
  BY <1>2, <1>3, <1>4, <1>5 DEF SameLog
<1>15. \A m \in DOMAIN aeRpcs' :
          \/ m \in DOMAIN aeRpcs
          \/ m.term <= 1 /\ Elected(n) /\ Batch(accepted', m) /\ m.src = n /\ m.dst # n /\ PlainRpc(m)
  <2>1. \A m \in AEReqsOf(n, node[n]) : PlainRpc(m)
    BY <1>1, PlainRequests
  <2>2. Piece(accepted, node[n].log) /\ node[n].snap = Nil
    BY <1>1 DEF NodeOK
  <2> QED
    BY <1>1, <1>2, <1>4, <2>1, <2>2, SentFirst
<1> QED
  BY <1>2, <1>4, <1>5, <1>8, <1>9, <1>10, <1>11, <1>12, <1>13, <1>14, <1>15, WritesFirst

-----------------------------------------------------------------------------
(***************************************************************************)
(* checkLogsToApply.                                                       *)
(***************************************************************************)
\* A step of the applying loop: nothing but lastApplied, the hand and the state
\* machine of n.
LEMMA HandFirst ==
    ASSUME FirstOK, NEW n \in Server,
           NEW i \in Index, node' = [node EXCEPT ![n] = [node[n] EXCEPT !.lastApplied = i]],
           i < Len(node[n].log),
           NEW h \in Hands, hand' = [hand EXCEPT ![n] = h],
           NEW x \in Seq(Command), sm' = [sm EXCEPT ![n] = x],
           UNCHANGED <<loop, connected, held, disk, epoch, netVars, history, applier, accepted>>,
           \/ h = NoHand /\ Executed(accepted, x, IF i > 0 THEN i ELSE 0)
           \/ /\ h.at \in {"found", "taken"} /\ loop[n] = "top" /\ i >= 0
              /\ h.pos = i + 1 /\ h.entry = EntryAt(accepted, h.pos)
              /\ Executed(accepted, x, IF i > 1 THEN i - 1 ELSE 0)
    PROVE  FirstOK'
<1> DEFINE s == [node[n] EXCEPT !.lastApplied = i]
<1>1. /\ TypeOK /\ node[n] \in NodeStates /\ NodeOK(n) /\ RaceOK(n) /\ ApplierOK(n) /\ PlainState(node[n])
      /\ hand \in [Server -> Hands]
  BY DEF FirstOK, ClientType, Base, TypeOK, PlainInv
<1>2. /\ s \in NodeStates /\ SameBallot(node[n], s) /\ PlainState(s)
      /\ s.log = node[n].log /\ s.snap = node[n].snap /\ s.lastApplied = i
  BY <1>1 DEF NodeStates, SameBallot, PlainState
<1> HIDE DEF s
<1>3. /\ node'[n] = s /\ hand'[n] = h /\ sm'[n] = x
      /\ \A p \in Server \ {n} : node'[p] = node[p] /\ hand'[p] = hand[p] /\ sm'[p] = sm[p]
      /\ node' \in [Server -> NodeStates] /\ sm' \in [Server -> Seq(Command)]
      /\ hand' \in [Server -> Hands]
  BY <1>1, <1>2 DEF TypeOK, s
<1>4. UNCHANGED <<voteReqs, voteResps, aeRpcs, calls, cast, elected, tally>>
  BY DEF netVars, history
<1>5. TypeOK'
  BY <1>1, <1>3, <1>4 DEF TypeOK
<1>6. ClientType'
  BY <1>3 DEF FirstOK, ClientType
<1>7. OthersSame(n) /\ Accepts(n)
  BY <1>3 DEF OthersSame, Accepts
<1>8. NodeOK(n)'
  BY <1>1, <1>2, <1>3 DEF NodeOK
<1>9. ApplierOK(n)' /\ MachineOK(n)'
  BY <1>1, <1>2, <1>3 DEF ApplierOK, MachineOK
<1>10. Blank => Blank'
  <2> HAVE Blank
  <2>1. \A p \in Server : node'[p].log = node[p].log
    BY <1>2, <1>3
  <2> QED
    BY <1>4, <2>1 DEF Blank
<1>11. Elected(n)' <=> Elected(n)
  BY <1>4 DEF Elected
<1>12. RaceOK(n)'
  <2>1. node'[n].role = node[n].role /\ node'[n].log = node[n].log
    BY <1>2, <1>3 DEF SameBallot
  <2> QED
    BY <1>1, <1>4, <1>10, <1>11, <2>1 DEF RaceOK
<1>13. BallotStep(n)
  BY <1>1, <1>2, <1>3, SameBallotGrows DEF BallotStep
<1>14. SameBallot(node[n], node'[n]) /\ PlainState(node'[n])
  BY <1>2, <1>3
<1>15. Base'
  BY <1>4, <1>5, <1>13, <1>14, QuietBase DEF FirstOK
<1>16. TermsOK'
  <2>1. TermsOK /\ node'[n].currentTerm <= 1
    BY <1>14 DEF FirstOK, TermsOK, SameBallot
  <2> QED
    BY <1>3, <1>4, <2>1, TermsKeep
<1> QED
  BY <1>4, <1>6, <1>7, <1>8, <1>9, <1>10, <1>12, <1>15, <1>16, FirstStep

\* updateLastApplied: the next entry is in hand and not yet executed.
LEMMA FindFirst ==
    ASSUME FirstOK, NEW n \in Server, FindEntry(n)
    PROVE  FirstOK'
<1> DEFINE i == node[n].lastApplied + 1
           k == FindArrayIdx(node[n].log, i)
           h == [at |-> "found", pos |-> k, entry |-> node[n].log[k]]
<1>1. /\ node[n] \in NodeStates /\ hand[n] = NoHand /\ loop[n] = "top" /\ CanApply(node[n])
      /\ Piece(accepted, node[n].log) /\ MachineOK(n) /\ sm[n] \in Seq(Command)
  BY DEF FindEntry, FirstOK, Base, TypeOK, NodeOK
<1>2. node[n].log \in Seq(Entry) /\ node[n].lastApplied \in Index
  BY <1>1 DEF NodeStates
<1>3. i \in Index /\ i >= 0
  BY <1>2 DEF Index
<1>4. k # 0
  BY <1>1 DEF CanApply
<1>5. i \in 0..Len(node[n].log)-1 /\ k = i + 1
  BY <1>1, <1>2, <1>3, <1>4, PieceFind
<1>6. k \in 1..Len(node[n].log) /\ i < Len(node[n].log)
  <2> HIDE DEF k, i
  <2>1. Len(node[n].log) \in Nat
    BY <1>2
  <2> QED
    BY <1>5, <2>1
<1>7. node[n].log[k] = EntryAt(accepted, k) /\ node[n].log[k] \in Entry
  BY <1>1, <1>2, <1>6 DEF Piece
<1>8. /\ hand' = [hand EXCEPT ![n] = h] /\ sm' = [sm EXCEPT ![n] = sm[n]]
      /\ node' = [node EXCEPT ![n] = [node[n] EXCEPT !.lastApplied = i]] /\ disk' = disk
      /\ UNCHANGED <<loop, connected, held, disk, epoch, netVars, history, applier, accepted>>
  BY DEF FindEntry, NextToApply, Update, FirstOK, Base, TypeOK
<1>9. Executed(accepted, sm[n], IF i > 1 THEN i - 1 ELSE 0)
  <2>1. NoHand.at = "none"
    BY DEF NoHand
  <2>2. Executed(accepted, sm[n], IF node[n].lastApplied > 0 THEN node[n].lastApplied ELSE 0)
    BY <1>1, <2>1 DEF MachineOK
  <2>3. (IF i > 1 THEN i - 1 ELSE 0) = IF node[n].lastApplied > 0 THEN node[n].lastApplied ELSE 0
    BY <1>2 DEF Index
  <2> HIDE DEF i
  <2> QED
    BY <2>2, <2>3
<1> HIDE DEF i, k
<1>10. /\ h \in Hands /\ h.at = "found" /\ h.pos = i + 1 /\ h.entry = EntryAt(accepted, h.pos)
  BY <1>5, <1>6, <1>7 DEF Hands
<1> HIDE DEF h
<1> QED
  BY <1>1, <1>3, <1>6, <1>8, <1>9, <1>10, HandFirst

\* getLog: the position still holds the entry.
LEMMA GetFirst ==
    ASSUME FirstOK, NEW n \in Server, GetLog(n)
    PROVE  FirstOK'
<1> DEFINE k == hand[n].pos
           h == [hand[n] EXCEPT !.at = "taken",
                                !.entry = IF k <= Len(node[n].log) THEN node[n].log[k] ELSE hand[n].entry]
<1>1. /\ hand[n].at = "found" /\ hand[n] \in Hands /\ hand \in [Server -> Hands]
      /\ node[n] \in NodeStates /\ Piece(accepted, node[n].log) /\ MachineOK(n) /\ ApplierOK(n)
  BY DEF GetLog, FirstOK, ClientType, Base, TypeOK, NodeOK
<1>2. hand[n] # NoHand
  BY <1>1 DEF NoHand
<1>3. /\ loop[n] = "top" /\ node[n].lastApplied >= 0
      /\ k = node[n].lastApplied + 1 /\ hand[n].entry = EntryAt(accepted, k)
      /\ Executed(accepted, sm[n], IF node[n].lastApplied > 1 THEN node[n].lastApplied - 1 ELSE 0)
  BY <1>1, <1>2 DEF MachineOK
<1>4. node[n].log \in Seq(Entry) /\ k \in Nat /\ k >= 1
  <2>1. node[n].log \in Seq(Entry) /\ node[n].lastApplied \in Index /\ k \in Nat
    BY <1>1 DEF NodeStates, Hands
  <2> HIDE DEF k
  <2> QED
    BY <1>3, <2>1 DEF Index
<1>5. k <= Len(node[n].log) => node[n].log[k] = EntryAt(accepted, k) /\ node[n].log[k] \in Entry
  <2> HAVE k <= Len(node[n].log)
  <2>1. k \in 1..Len(node[n].log)
    BY <1>4
  <2> QED
    BY <1>1, <1>4, <2>1 DEF Piece
<1>6. /\ hand' = [hand EXCEPT ![n] = h]
      /\ UNCHANGED vars /\ UNCHANGED <<applier, accepted>>
  BY <1>1 DEF GetLog
<1>7. PICK e : e = IF k <= Len(node[n].log) THEN node[n].log[k] ELSE hand[n].entry
  OBVIOUS
<1>8. e \in Entry \cup {Nil} /\ e = EntryAt(accepted, k)
  BY <1>1, <1>3, <1>5, <1>7 DEF Hands
<1>9. h = [hand[n] EXCEPT !.at = "taken", !.entry = e]
  BY <1>7
<1> HIDE DEF h
<1>10. h \in Hands /\ h.at = "taken" /\ h.pos = k /\ h.entry = e
  BY <1>1, <1>8, <1>9 DEF Hands
<1> HIDE DEF k
<1>11. hand'[n] = h /\ \A p \in Server \ {n} : hand'[p] = hand[p] /\ applier'[p] = applier[p]
  BY <1>1, <1>6
<1>12. ClientType'
  BY <1>1, <1>6, <1>10 DEF FirstOK, ClientType
<1>13. UNCHANGED <<node, loop, sm>>
  BY <1>6 DEF vars, nodeVars
<1>14. MachineOK(n)'
  BY <1>3, <1>6, <1>8, <1>10, <1>11, <1>13 DEF MachineOK
<1>15. ApplierOK(n)'
  BY <1>1, <1>6 DEF ApplierOK
<1> QED
  BY <1>6, <1>11, <1>12, <1>14, <1>15, StillFirst

\* applyLog executes the command in hand, which is the next one.
LEMMA ExecuteFirst ==
    ASSUME FirstOK, NEW n \in Server, ApplyEntry(n)
    PROVE  FirstOK'
<1> DEFINE a == node[n].lastApplied
           e == hand[n].entry
           x == IF e.kind = "command" THEN Append(sm[n], e.val) ELSE sm[n]
<1>1. /\ hand[n].at = "taken" /\ NodeOK(n) /\ MachineOK(n) /\ node[n] \in NodeStates
      /\ sm[n] \in Seq(Command) /\ accepted \in Seq(Command) /\ node \in [Server -> NodeStates]
      /\ sm \in [Server -> Seq(Command)]
  BY DEF ApplyEntry, FirstOK, ClientType, Base, TypeOK
<1>2. hand[n] # NoHand
  BY <1>1 DEF NoHand
<1>3. /\ a >= 0 /\ hand[n].pos = a + 1 /\ e = EntryAt(accepted, a + 1)
      /\ Executed(accepted, sm[n], IF a > 1 THEN a - 1 ELSE 0)
  BY <1>1, <1>2 DEF MachineOK
<1>4. a \in Index /\ a < Len(node[n].log) /\ Len(node[n].log) <= Len(accepted) + 1
      /\ Len(node[n].log) \in Nat /\ Len(accepted) \in Nat
  BY <1>1, SMTT(40) DEF NodeOK, Piece, NodeStates
<1>5. x \in Seq(Command) /\ Executed(accepted, x, IF a > 0 THEN a ELSE 0)
  <2>1. CASE a = 0
    <3>1. e = Noop(0, 1)
      BY <1>3, <2>1 DEF EntryAt
    <3>2. e.kind = "noop"
      BY <3>1 DEF Noop
    <3> HIDE DEF e, a
    <3>3. x = sm[n]
      BY <3>2
    <3> HIDE DEF x
    <3> QED
      BY <1>1, <1>3, <2>1, <3>3
  <2>2. CASE a # 0
    <3>1. a \in Nat /\ a >= 1 /\ a <= Len(accepted)
      <4> HIDE DEF a
      <4> QED
        BY <1>3, <1>4, <2>2 DEF Index
    <3>2. e = [index |-> a, term |-> 1, kind |-> "command", val |-> accepted[a]]
      <4> HIDE DEF a, e
      <4>1. a + 1 # 1 /\ (a + 1) - 1 = a
        BY <3>1
      <4> QED
        BY <1>3, <4>1 DEF EntryAt
    <3> HIDE DEF a
    <3>3. e.kind = "command" /\ e.val = accepted[a]
      BY <3>2
    <3>4. accepted[a] \in Command
      BY <1>1, <3>1
    <3> HIDE DEF e
    <3>5. x = Append(sm[n], accepted[a])
      BY <3>3
    <3>6. (IF a > 1 THEN a - 1 ELSE 0) = a - 1 /\ (IF a > 0 THEN a ELSE 0) = a
      BY <3>1
    <3>7. Len(sm[n]) = a - 1 /\ \A i \in 1..(a - 1) : sm[n][i] = accepted[i]
      BY <1>3, <3>6 DEF Executed
    <3> HIDE DEF x
    <3>8. PICK w : w = sm[n]
      OBVIOUS
    <3>9. w \in Seq(Command) /\ Len(w) = a - 1 /\ x = Append(w, accepted[a])
          /\ \A i \in 1..(a - 1) : w[i] = accepted[i]
      BY <1>1, <3>5, <3>7, <3>8
    <3>10. x \in Seq(Command) /\ Len(x) = a
      BY <3>1, <3>4, <3>9
    <3>11. \A i \in 1..a : x[i] = accepted[i]
      <4> TAKE i \in 1..a
      <4>1. CASE i = a
        BY <3>1, <3>4, <3>9, <4>1
      <4>2. CASE i # a
        <5>1. i \in 1..(a - 1)
          BY <3>1, <4>2
        <5>2. x[i] = w[i]
          BY <3>1, <3>4, <3>9, <5>1
        <5> QED
          BY <3>9, <5>1, <5>2
      <4> QED
        BY <4>1, <4>2
    <3> QED
      BY <3>1, <3>6, <3>10, <3>11 DEF Executed
  <2> QED
    BY <2>1, <2>2
<1>6. /\ sm' = [sm EXCEPT ![n] = x] /\ hand' = [hand EXCEPT ![n] = NoHand]
      /\ UNCHANGED <<node, loop, connected, held, disk, epoch, netVars, history, applier, accepted>>
  BY DEF ApplyEntry
<1>7. node' = [node EXCEPT ![n] = [node[n] EXCEPT !.lastApplied = a]]
  <2>1. [node[n] EXCEPT !.lastApplied = a] = node[n]
    BY <1>1 DEF NodeStates
  <2> HIDE DEF a
  <2> QED
    BY <1>1, <1>6, <2>1
<1>8. NoHand \in Hands
  BY DEF NoHand, Hands
<1> HIDE DEF a, x, e
<1> QED
  BY <1>4, <1>5, <1>6, <1>7, <1>8, HandFirst

-----------------------------------------------------------------------------
(***************************************************************************)
(* The first leadership.                                                   *)
(***************************************************************************)
\* New starts with empty logs and empty storage.
LEMMA FirstInit == ClientInit => FirstOK
<1> SUFFICES ASSUME ClientInit PROVE FirstOK
  OBVIOUS
<1>1. Init
  BY DEF ClientInit
<1>2. Base
  BY <1>1, InitType, VoteInit, EInit, WinnersInit DEF Base
<1>3. Idle \in AppliersAt /\ Idle.at = "idle" /\ NoHand \in Hands
  BY DEF Idle, Handling, Index, AppliersAt, NoHand, Hands
<1>4. ClientType
  BY <1>3 DEF ClientInit, ClientType
<1>5. DOMAIN aeRpcs = {} /\ elected = {} /\ cast = {} /\ voteReqs = {} /\ voteResps = {}
  BY <1>1 DEF Init, EmptyBag, SetToBag
<1>6. ASSUME NEW n \in Server
      PROVE  /\ node[n].log = <<>> /\ node[n].snap = Nil /\ node[n].lastApplied = -1
             /\ node[n].role = Follower /\ node[n].currentTerm = 0
             /\ disk[n].log = <<>> /\ disk[n].snap = Nil /\ disk[n].currentTerm = 0
             /\ held[n] = Nil /\ loop[n] = "top" /\ sm[n] = <<>>
             /\ applier[n].at = "idle" /\ hand[n] = NoHand
  BY <1>1, <1>3 DEF Init, NewNodeState, ClientInit
<1>7. accepted = <<>> /\ Len(accepted) = 0
  BY DEF ClientInit
<1>8. TermsOK
  BY <1>5, <1>6 DEF TermsOK
<1>9. ElectedOK
  BY <1>5, <1>6, <1>7 DEF ElectedOK, Blank
<1>10. ASSUME NEW n \in Server PROVE NodeOK(n)
  <2>1. Piece(accepted, <<>>)
    BY <1>7 DEF Piece
  <2>2. -1 < Len(<<>>)
    OBVIOUS
  <2> QED
    BY <1>6, <2>1, <2>2 DEF NodeOK
<1>11. ASSUME NEW n \in Server PROVE RaceOK(n)
  BY <1>5, <1>6 DEF RaceOK, Elected, Follower, Candidate, Leader
<1>12. ASSUME NEW n \in Server PROVE ApplierOK(n)
  BY <1>6 DEF ApplierOK
<1>13. ASSUME NEW n \in Server PROVE MachineOK(n)
  <2>1. Executed(accepted, <<>>, 0)
    BY <1>7 DEF Executed
  <2> QED
    BY <1>6, <2>1 DEF MachineOK
<1> QED
  BY <1>2, <1>4, <1>5, <1>8, <1>9, <1>10, <1>11, <1>12, <1>13 DEF FirstOK

\* persistState of the run loop writes what it read.
LEMMA SaveReadFirst ==
    ASSUME FirstOK, SavesOK, NEW n \in Server, SaveRead(n)
    PROVE  FirstOK'
<1> DEFINE r == saving[n].read
           d == [Written(disk[n], r) EXCEPT !.snap = Stored(node[n], disk[n]).snap]
<1>1. /\ node \in [Server -> NodeStates] /\ disk \in [Server -> Disk] /\ disk[n] \in Disk
      /\ node[n] \in NodeStates /\ node[n].snap = Nil /\ disk[n].snap = Nil
      /\ NodeOK(n) /\ ApplierOK(n) /\ MachineOK(n) /\ PlainState(node[n]) /\ TypeOK /\ TermsOK
  BY DEF FirstOK, Base, TypeOK, NodeOK, PlainInv
<1>2. ReadOK(node[n], accepted, r)
  BY DEF SaveRead, SavesOK, SavingOK
<1>3. node' = node
  <2>1. node' = [node EXCEPT ![n] = NoteStored(node[n])]
    BY DEF SaveRead
  <2>2. NoteStored(node[n]) = node[n]
    BY <1>1 DEF NoteStored
  <2> QED
    BY <1>1, <2>1, <2>2
<1>4. /\ disk' = [disk EXCEPT ![n] = d]
      /\ UNCHANGED <<loop, connected, held, sm, epoch, voteReqs, voteResps, aeRpcs, calls>>
      /\ UNCHANGED <<cast, elected, tally, applier, hand, accepted>>
  BY DEF SaveRead, netVars, history, clientVars
<1>5. Stored(node[n], disk[n]).snap = Nil
  BY <1>1 DEF Stored
<1> HIDE DEF r
<1>6. /\ d \in Disk /\ d.currentTerm = r.currentTerm /\ d.votedFor = r.votedFor /\ d.log = r.log
      /\ d.snap = Nil
  <2>1. PICK u, v, l, z : /\ u = r.currentTerm /\ v = r.votedFor /\ l = r.log
                          /\ z = Stored(node[n], disk[n]).snap
    OBVIOUS
  <2>2. d = [[disk[n] EXCEPT !.currentTerm = u, !.votedFor = v, !.log = l] EXCEPT !.snap = z]
    BY <2>1 DEF Written
  <2>3. u \in Nat /\ v \in Server \cup {Nil} /\ l \in Seq(Entry) /\ z = Nil
    <3>1. u \in Nat /\ v \in Server \cup {Nil} /\ l \in Seq(PlainEntry)
      BY <1>2, <2>1 DEF ReadOK, Saves
    <3>2. PlainEntry \subseteq Entry
      BY DEF PlainEntry
    <3> QED
      BY <1>5, <2>1, <3>1, <3>2
  <2> HIDE DEF d
  <2>4. d.currentTerm = u /\ d.votedFor = v /\ d.log = l /\ d.snap = z
    BY <1>1, <2>2 DEF Disk
  <2>5. d \in Disk
    BY <1>1, <2>2, <2>3 DEF Disk
  <2> QED
    BY <2>1, <2>3, <2>4, <2>5
<1> HIDE DEF d
<1>7. disk'[n] = d /\ \A p \in Server \ {n} : disk'[p] = disk[p]
  BY <1>1, <1>4
<1>8. r.log \in Seq(PlainEntry) /\ r.currentTerm = node[n].currentTerm /\ r.votedFor = node[n].votedFor
  BY <1>2 DEF ReadOK, Saves
<1>9. TypeOK'
  BY <1>1, <1>3, <1>4, <1>6 DEF TypeOK
<1>10. SameBallot(node[n], node'[n]) /\ PlainState(node'[n])
  BY <1>1, <1>3 DEF SameBallot
<1>11. BallotStep(n)
  BY <1>1, <1>3, <1>6, <1>7, <1>8, <1>10, SameBallotGrows DEF BallotStep
<1>12. Base'
  BY <1>4, <1>6, <1>7, <1>8, <1>9, <1>10, <1>11, QuietBase DEF FirstOK
<1>13. TermsOK'
  <2>1. node[n].currentTerm <= 1
    BY <1>1 DEF TermsOK
  <2> QED
    BY <1>1, <1>3, <1>4, <1>6, <1>7, <1>8, <2>1, TermsKeep
<1>14. Blank => Blank'
  <2> HAVE Blank
  <2>1. \A p \in Server : node'[p].log = <<>> /\ disk'[p].log = <<>>
    BY <1>2, <1>3, <1>6, <1>7 DEF Blank, ReadOK
  <2> QED
    BY <1>4, <2>1 DEF Blank
<1>15. RaceOK(n)'
  BY <1>3, <1>4, <1>14, RaceKeeps
<1>16. NodeOK(n)'
  BY <1>1, <1>2, <1>3, <1>4, <1>6, <1>7 DEF NodeOK, ReadOK
<1>17. ClientType' /\ ApplierOK(n)' /\ MachineOK(n)'
  BY <1>1, <1>3, <1>4 DEF FirstOK, ClientType, ApplierOK, MachineOK
<1>18. OthersSame(n) /\ Accepts(n)
  BY <1>3, <1>4, <1>7 DEF OthersSame, Accepts
<1> QED
  BY <1>4, <1>12, <1>13, <1>14, <1>15, <1>16, <1>17, <1>18, FirstStep

\* The run loop reads the state to save it, which changes nothing here.
LEMMA ToSaveFirst ==
    ASSUME FirstOK, NEW n \in Server, UNCHANGED <<vars, clientVars>>
    PROVE  FirstOK'
<1>1. UNCHANGED vars /\ UNCHANGED <<applier, hand, accepted>>
  BY DEF clientVars
<1>2. UNCHANGED <<node, loop, sm, cast>>
  BY <1>1 DEF vars, nodeVars, history
<1>3. ClientType' /\ ApplierOK(n)' /\ MachineOK(n)'
  BY <1>1, <1>2 DEF FirstOK, ClientType, ApplierOK, MachineOK
<1> QED
  BY <1>1, <1>3, StillFirst

\* The run loop and the replies.
LEMMA LoopFirst ==
    ASSUME FirstOK, SavesOK, FirstTerm', Fits, NEW n \in Server, ClientLoop(n)
    PROVE  FirstOK'
<1>1. CASE CoreLoop(n)
  <2> hand[n] = NoHand /\ UNCHANGED clientVars
    BY <1>1 DEF CoreLoop
  <2>1. CASE EnterSelect(n)
    BY <2>1, EnterSelectFirst
  <2>2. CASE BecomeConnected(n) \/ \E r \in voteResps : DrainVote(n, r)
    BY <2>2, EndSelectFirst
  <2>3. CASE FollowerTimeout(n) \/ CandidateTimeout(n)
    BY <2>3, StartFirst
  <2>4. CASE TimeoutUnconnected(n)
    BY <2>4, TimeoutFirst
  <2>5. CASE RequestVotes(n)
    BY <2>5, RequestVotesFirst
  <2>6. ASSUME NEW m \in voteReqs, HandleVoteReq(n, m) PROVE FirstOK'
    BY <2>6, VoteReqFirst
  <2>7. ASSUME NEW r \in voteResps, CountVote(n, r) PROVE FirstOK'
    BY <2>7, CountVoteFirst
  <2>8. CASE BecomeLeader(n)
    BY <2>8, BecomeLeaderFirst
  <2>9. CASE Heartbeat(n)
    BY <2>9, HeartbeatFirst
  <2>10. ASSUME NEW m \in DOMAIN aeRpcs, HandleAEReq(n, m) PROVE FirstOK'
    BY <2>10, AppendFirst
  <2> QED
    BY <1>1, <2>1, <2>2, <2>3, <2>4, <2>5, <2>6, <2>7, <2>8, <2>9, <2>10
    DEF CoreLoop, UnsavedLoop, PersistingLoop
<1>2. CASE ReadToSave(n)
  BY <1>2, ToSaveFirst DEF ReadToSave
<1> QED
  BY <1>1, <1>2, SaveReadFirst, FindFirst, GetFirst, ExecuteFirst DEF ClientLoop

\* The steps of the run loop that Clients takes over are steps of RaftCore.
LEMMA CoreLoopRuns ==
    ASSUME NEW n \in Server, CoreLoop(n)
    PROVE  RunLoop(n)
  BY DEF CoreLoop, UnsavedLoop, PersistingLoop, RunLoop

\* Votes once cast stay cast, so the first leadership was one before the step.
LEMMA FirstBefore ==
    ASSUME ClientNext, FirstTerm'
    PROVE  FirstTerm
<1>1. CASE Next
  BY <1>1, CastGrows DEF FirstTerm
<1>2. CASE cast' = cast
  BY <1>2 DEF FirstTerm
<1>3. ASSUME NEW n \in Server, ClientLoop(n) PROVE Next \/ cast' = cast
  <2>1. CASE CoreLoop(n)
    BY <2>1, CoreLoopRuns DEF Next
  <2>2. CASE FindEntry(n) \/ GetLog(n) \/ ApplyEntry(n) \/ ReadToSave(n) \/ SaveRead(n)
    BY <2>2 DEF FindEntry, GetLog, ApplyEntry, ReadToSave, SaveRead, vars, history
  <2> QED
    BY <1>3, <2>1, <2>2 DEF ClientLoop
<1>4. ASSUME NEW n \in Server, Applier(n) PROVE cast' = cast
  BY <1>4 DEF Applier, Deduplicate, AppendCommand, GetPersistentState, SaveState, SaveSnapshot,
     Register, Replicate, vars, history
<1>5. ASSUME NEW n \in Server, NEW c \in Call, Submit(n, c) PROVE cast' = cast
  BY <1>5 DEF Submit, vars, history
<1>6. ASSUME NEW n \in Server, ClientRestart(n) PROVE Next
  BY <1>6 DEF ClientRestart, Next
<1>7. ASSUME NEW n \in Server, HandleAEResp(n) \/ \E r \in DOMAIN aeRpcs : ReceiveAEResp(n, r) PROVE Next
  BY <1>7 DEF Next
<1> QED
  BY <1>1, <1>2, <1>3, <1>4, <1>5, <1>6, <1>7 DEF ClientNext

-----------------------------------------------------------------------------
(***************************************************************************)
(* What persistState of the run loop has read.                             *)
(***************************************************************************)
\* A node whose ballot stays, and whose log does not become empty.
Steady(s, r) ==
    /\ r.currentTerm = s.currentTerm /\ r.votedFor = s.votedFor
    /\ r.log = <<>> => s.log = <<>>

LEMMA SteadySaves ==
    ASSUME SavesOK, SavingType', elected \subseteq elected', NEW k, Accepts(k),
           \A p \in Server :
               /\ saving'[p].at = "read" =>
                     \/ saving'[p] = saving[p] /\ Steady(node[p], node'[p])
                     \/ ReadOK(node'[p], accepted', saving'[p].read)
               /\ held'[p] # Nil => held'[p] = held[p] \/ Elected(p)
    PROVE  SavesOK'
<1>1. ASSUME NEW p \in Server PROVE SavingOK(p)'
  <2>1. SavingOK(p)
    BY DEF SavesOK
  <2>2. held'[p] # Nil => Elected(p)'
    BY <2>1 DEF SavingOK, Elected
  <2>3. ASSUME saving'[p] = saving[p], saving[p].at = "read", Steady(node[p], node'[p])
        PROVE  ReadOK(node'[p], accepted', saving[p].read)
    <3>1. ReadOK(node[p], accepted, saving[p].read)
      BY <2>1, <2>3 DEF SavingOK
    <3>2. Len(saving[p].read.log) \in Nat
      BY <3>1 DEF ReadOK, Saves
    <3>3. Piece(accepted', saving[p].read.log)
      BY <3>1, <3>2, AcceptsKeeps DEF ReadOK
    <3> QED
      BY <2>3, <3>1, <3>3 DEF ReadOK, Steady
  <2> QED
    BY <2>2, <2>3 DEF SavingOK
<1> QED
  BY <1>1 DEF SavesOK

LEMMA SavingTypes ==
    ASSUME SavesOK, NEW n \in Server, NEW at \in {"none", "due", "read"}, NEW r \in Saves \cup {Nil},
           saving' = [saving EXCEPT ![n] = Saving(at, r)]
    PROVE  /\ SavingType' /\ saving'[n].at = at /\ saving'[n].read = r
           /\ \A p \in Server \ {n} : saving'[p] = saving[p]
<1>1. /\ Saving(at, r) \in [at : {"none", "due", "read"}, read : Saves \cup {Nil}]
      /\ Saving(at, r).at = at /\ Saving(at, r).read = r
  BY DEF Saving
<1> HIDE DEF Saving
<1> QED
  BY <1>1 DEF SavesOK, SavingType

\* A step of the run loop, which has nothing to save before it.
LEMMA CoreSaves ==
    ASSUME FirstOK, SavesOK, NEW n \in Server, CoreLoop(n)
    PROVE  SavesOK'
<1>1. /\ RunLoop(n) /\ Next /\ UNCHANGED <<accepted, held>>
      /\ \A p \in Server \ {n} : node'[p] = node[p]
  <2>1. RunLoop(n) /\ UNCHANGED accepted
    BY CoreLoopRuns DEF CoreLoop, clientVars
  <2>2. held' = held /\ \A p \in Server \ {n} : node'[p] = node[p]
    <3>1. PICK s : Update(n, s) \/ Persist(n, s) \/ UNCHANGED node
      BY Zenon DEF CoreLoop, UnsavedLoop, PersistingLoop, EnterSelect, BecomeConnected, FollowerTimeout,
         TimeoutUnconnected, CandidateTimeout, StartsElection, RequestVotes, HandleVoteReq, CountVote,
         DrainVote, BecomeLeader, Heartbeat, HandleAEReq
    <3>2. node \in [Server -> NodeStates]
      BY DEF FirstOK, Base, TypeOK
    <3>3. \A p \in Server \ {n} : node'[p] = node[p]
      BY <3>1, <3>2 DEF Update, Persist
    <3>4. held' = held
      BY DEF CoreLoop, UnsavedLoop, PersistingLoop, EnterSelect, BecomeConnected, FollowerTimeout,
         TimeoutUnconnected, CandidateTimeout, StartsElection, RequestVotes, HandleVoteReq, CountVote,
         DrainVote, BecomeLeader, Heartbeat, HandleAEReq
    <3> QED
      BY <3>3, <3>4
  <2> QED
    BY <2>1, <2>2 DEF Next
<1>2. elected \subseteq elected'
  BY DEF CoreLoop, UnsavedLoop, PersistingLoop, EnterSelect, BecomeConnected, FollowerTimeout,
     TimeoutUnconnected, CandidateTimeout, StartsElection, RequestVotes, HandleVoteReq, CountVote,
     DrainVote, BecomeLeader, Heartbeat, HandleAEReq, history
<1>3. /\ SavingType' /\ saving'[n].at # "read"
      /\ \A p \in Server \ {n} : saving'[p] = saving[p]
  <2>1. CASE saving' = saving
    <3>1. saving[n].at = "none"
      BY DEF CoreLoop, NotSaving, Saving
    <3> QED
      BY <2>1, <3>1 DEF SavesOK, SavingType
  <2>2. CASE saving' = [saving EXCEPT ![n] = Saving("due", Nil)]
    BY <2>2, SavingTypes
  <2> QED
    BY <2>1, <2>2 DEF CoreLoop
<1> QED
  BY <1>1, <1>2, <1>3, SteadySaves DEF Accepts, Steady

\* The state is read.
LEMMA ReadSaves ==
    ASSUME FirstOK, SavesOK, NEW n \in Server, ReadToSave(n)
    PROVE  SavesOK'
<1> DEFINE r == PersistentState(node[n])
<1>1. UNCHANGED <<node, held, elected, accepted>> /\ saving' = [saving EXCEPT ![n] = Saving("read", r)]
  BY DEF ReadToSave, vars, nodeVars, history, clientVars
<1>2. /\ node[n] \in NodeStates /\ node[n].log \in Seq(PlainEntry) /\ Piece(accepted, node[n].log)
  BY DEF FirstOK, Base, TypeOK, PlainInv, PlainState, NodeOK
<1>3. /\ r.currentTerm = node[n].currentTerm /\ r.votedFor = node[n].votedFor /\ r.log = node[n].log
      /\ r \in Saves
  BY <1>2 DEF PersistentState, Saves, NodeStates
<1>4. ReadOK(node[n], accepted, r)
  BY <1>2, <1>3 DEF ReadOK
<1> HIDE DEF r
<1>5. /\ SavingType' /\ saving'[n].read = r
      /\ \A p \in Server \ {n} : saving'[p] = saving[p]
  BY <1>1, <1>3, SavingTypes
<1> QED
  BY <1>1, <1>4, <1>5, SteadySaves DEF Accepts, Steady

\* Nothing to save any more.
LEMMA EndSaves ==
    ASSUME FirstOK, SavesOK, NEW n \in Server, saving' = [saving EXCEPT ![n] = NotSaving],
           UNCHANGED <<elected, accepted>>, held'[n] = held[n] \/ held'[n] = Nil,
           \A p \in Server \ {n} : node'[p] = node[p] /\ held'[p] = held[p]
    PROVE  SavesOK'
<1>1. /\ SavingType' /\ saving'[n].at # "read"
      /\ \A p \in Server \ {n} : saving'[p] = saving[p]
  BY SavingTypes DEF NotSaving
<1> QED
  BY <1>1, SteadySaves DEF Accepts, Steady

\* A step of another goroutine.
LEMMA OtherSaves ==
    ASSUME SavesOK, UNCHANGED <<saving, held, elected>>, NEW k, Accepts(k),
           \A p \in Server : Steady(node[p], node'[p])
    PROVE  SavesOK'
  BY SteadySaves DEF SavesOK, SavingType

\* The log of the applier's node after addCommandLog.
LEMMA CommandSaves ==
    ASSUME FirstOK, FirstOK', SavesOK, NEW n \in Server, AppendCommand(n), UNCHANGED saving, Fits
    PROVE  SavesOK'
<1> DEFINE s == AddCommandLog(node[n], n, Request[applier[n].call], sm[n])
<1>1. /\ node' = [node EXCEPT ![n] = s] /\ UNCHANGED <<held, elected>>
      /\ accepted' = accepted \/ accepted' = Append(accepted, Request[applier[n].call])
      /\ applier[n].at = "new"
  BY DEF AppendCommand, Update, history
<1>2. /\ node \in [Server -> NodeStates] /\ accepted \in Seq(Command)
      /\ applier[n].call \in Call /\ Request[applier[n].call] \in Command
  BY <1>1, RequestAssumption DEF FirstOK, Base, TypeOK, ClientType
<1>3. Elected(n) /\ Elected(n)' /\ Whole(accepted, node[n].log) /\ Len(accepted) \in Nat
  <2>1. RaceOK(n) /\ applier[n].at # "idle"
    BY <1>1 DEF FirstOK
  <2>2. Elected(n) /\ Whole(accepted, node[n].log)
    BY <2>1 DEF RaceOK
  <2> QED
    BY <1>1, <1>2, <2>2 DEF Elected
<1>4. node'[n].currentTerm = node[n].currentTerm /\ node'[n].votedFor = node[n].votedFor
  BY <1>3, ElectedBallot, ElectedBallotNext
<1>5. node'[n].log # <<>>
  <2>1. SameBallot(node[n], s) /\ Whole(Append(accepted, Request[applier[n].call]), s.log)
    <3> DEFINE c == Request[applier[n].call]
    <3>1. /\ node[n] \in NodeStates /\ node[n].snap = Nil /\ node[n].currentTerm = 1
          /\ Len(accepted) + 1 < LogCap /\ c \in Command /\ accepted \in Seq(Command)
      BY <1>2, <1>3, ElectedBallot DEF FirstOK, NodeOK, Fits
    <3>2. s = AddCommandLog(node[n], n, c, sm[n])
      OBVIOUS
    <3> HIDE DEF s, c
    <3>3. SameBallot(node[n], s) /\ Whole(Append(accepted, c), s.log)
      BY <1>3, <3>1, <3>2, CommandAppended
    <3> QED
      BY <3>3 DEF c
  <2> QED
    BY <1>1, <1>2, <2>1 DEF Whole
<1>6. Accepts(n)
  BY <1>1, <1>2, <1>3, PieceGrows DEF Accepts
<1>7. \A p \in Server : Steady(node[p], node'[p])
  BY <1>1, <1>2, <1>4, <1>5 DEF Steady
<1> QED
  BY <1>1, <1>6, <1>7, OtherSaves

\* The response is handled: the elected server stays in its term.
LEMMA AnswerSaves ==
    ASSUME FirstOK, FirstOK', SavesOK, NEW n \in Server, HandleAEResp(n),
           UNCHANGED <<saving, accepted, disk>>
    PROVE  SavesOK'
<1> DEFINE s == HandleAppendEntriesResponse(node[n], held[n])
<1>1. /\ held[n] # Nil /\ held' = [held EXCEPT ![n] = Nil] /\ UNCHANGED elected
      /\ Update(n, s) \/ Persist(n, s)
  BY DEF HandleAEResp, history
<1>2. /\ node[n] \in NodeStates /\ node \in [Server -> NodeStates] /\ held[n] \in AEResp
      /\ node[n].snap = Nil /\ held \in [Server -> AEResp \cup {Nil}]
  BY <1>1 DEF FirstOK, Base, TypeOK, NodeOK
<1>3. Elected(n) /\ Elected(n)'
  BY <1>1 DEF SavesOK, SavingOK, Elected
<1>4. node'[n].currentTerm = node[n].currentTerm /\ node'[n].votedFor = node[n].votedFor
  BY <1>3, ElectedBallot, ElectedBallotNext
<1>5. s \in NodeStates /\ SameLog(node[n], s)
  BY <1>2, ResponseLog, HandleAppendEntriesResponseType DEF AEResp
<1> HIDE DEF s
<1>6. node'[n] = s /\ \A p \in Server \ {n} : node'[p] = node[p]
  <2>1. s.snap = Nil
    BY <1>2, <1>5 DEF SameLog
  <2>2. CASE Update(n, s)
    BY <1>2, <1>5, <2>2, UpdateStep DEF FirstOK, Base
  <2>3. CASE Persist(n, s)
    BY <1>5, <2>1, <2>3, PersistFirst
  <2> QED
    BY <1>1, <2>2, <2>3
<1>7. node'[n].log = node[n].log
  BY <1>5, <1>6 DEF SameLog
<1>8. \A p \in Server : Steady(node[p], node'[p])
  BY <1>4, <1>6, <1>7 DEF Steady
<1>9. \A p \in Server : held'[p] # Nil => held'[p] = held[p]
  BY <1>1, <1>2
<1>10. SavingType' /\ \A p \in Server : saving'[p] = saving[p]
  BY DEF SavesOK, SavingType
<1> QED
  BY <1>1, <1>8, <1>9, <1>10, SteadySaves DEF Accepts

\* A response is taken over by a leader.
LEMMA ReceiveSaves ==
    ASSUME FirstOK, SavesOK, NEW n \in Server, NEW r \in DOMAIN aeRpcs, ReceiveAEResp(n, r),
           UNCHANGED <<saving, accepted>>
    PROVE  SavesOK'
<1>1. UNCHANGED <<node, elected>> /\ held \in [Server -> AEResp \cup {Nil}]
  BY DEF ReceiveAEResp, history, FirstOK, Base, TypeOK
<1>2. \A p \in Server : held'[p] = held[p] \/ (p = n /\ node[n].role = Leader)
  BY <1>1 DEF ReceiveAEResp
<1>3. node[n].role = Leader => Elected(n)
  BY DEF FirstOK, RaceOK
<1>4. SavingType' /\ \A p \in Server : saving'[p] = saving[p]
  BY DEF SavesOK, SavingType
<1> QED
  BY <1>1, <1>2, <1>3, <1>4, SteadySaves DEF Accepts, Steady

\* Every step keeps SavesOK.
LEMMA SavesStep ==
    ASSUME FirstOK, FirstOK', SavesOK, Fits, ClientNext
    PROVE  SavesOK'
<1>1. node \in [Server -> NodeStates] /\ accepted \in Seq(Command)
  BY DEF FirstOK, Base, TypeOK, ClientType
<1>2. ASSUME UNCHANGED <<node, held, elected, accepted, saving>> PROVE SavesOK'
  BY <1>2, OtherSaves DEF Accepts, Steady
<1>3. ASSUME NEW n \in Server, ClientLoop(n) PROVE SavesOK'
  <2>1. CASE SaveRead(n)
    <3>1. /\ node' = [node EXCEPT ![n] = NoteStored(node[n])] /\ UNCHANGED <<held, elected, accepted>>
          /\ saving' = [saving EXCEPT ![n] = NotSaving]
      BY <2>1 DEF SaveRead, history, clientVars
    <3> QED
      BY <1>1, <3>1, EndSaves
  <2>2. CASE FindEntry(n) /\ UNCHANGED saveVars
    <3>1. /\ node' = [node EXCEPT ![n] = [node[n] EXCEPT !.lastApplied = node[n].lastApplied + 1]]
          /\ UNCHANGED <<held, elected, accepted, saving>>
      BY <2>2 DEF FindEntry, Update, history, saveVars
    <3>2. \A p \in Server : Steady(node[p], node'[p])
      BY <1>1, <3>1 DEF Steady, NodeStates
    <3> QED
      BY <3>1, <3>2, OtherSaves DEF Accepts
  <2>3. CASE (GetLog(n) \/ ApplyEntry(n)) /\ UNCHANGED saveVars
    BY <1>2, <2>3 DEF GetLog, ApplyEntry, vars, nodeVars, history, saveVars
  <2> QED
    BY <1>3, <2>1, <2>2, <2>3, CoreSaves, ReadSaves DEF ClientLoop
<1>4. ASSUME NEW n \in Server, Applier(n), UNCHANGED saveVars PROVE SavesOK'
  <2>1. CASE Deduplicate(n) \/ GetPersistentState(n) \/ SaveState(n) \/ Register(n)
    BY <1>2, <1>4, <2>1 DEF Deduplicate, GetPersistentState, SaveState, Register, vars, nodeVars,
       history, saveVars
  <2>2. CASE AppendCommand(n)
    BY <1>4, <2>2, CommandSaves DEF saveVars
  <2>3. CASE SaveSnapshot(n)
    <3>1. NoteStored(node[n]) = node[n]
      BY DEF NoteStored, FirstOK, NodeOK
    <3>2. node' = node /\ UNCHANGED <<held, elected, accepted, saving>>
      BY <1>1, <1>4, <2>3, <3>1 DEF SaveSnapshot, history, saveVars
    <3> QED
      BY <1>2, <3>2
  <2>4. CASE Replicate(n)
    <3>1. /\ node' = [node EXCEPT ![n] = ArgsBuilt(node[n], Peers(n))]
          /\ UNCHANGED <<held, elected, accepted, saving>>
      BY <1>4, <2>4 DEF Replicate, Update, history, saveVars
    <3>2. Steady(node[n], ArgsBuilt(node[n], Peers(n)))
      BY <1>1 DEF Steady, ArgsBuilt, NodeStates
    <3>3. \A p \in Server : Steady(node[p], node'[p])
      BY <1>1, <3>1, <3>2 DEF Steady
    <3> QED
      BY <3>1, <3>3, OtherSaves DEF Accepts
  <2> QED
    BY <1>4, <2>1, <2>2, <2>3, <2>4 DEF Applier
<1>5. ASSUME NEW n \in Server, NEW c \in Call, Submit(n, c), UNCHANGED saveVars PROVE SavesOK'
  BY <1>2, <1>5 DEF Submit, vars, nodeVars, history, saveVars
<1>6. ASSUME NEW n \in Server, ClientRestart(n) PROVE SavesOK'
  <2>1. Restart(n) /\ saving' = [saving EXCEPT ![n] = NotSaving] /\ UNCHANGED <<elected, accepted>>
    BY <1>6 DEF ClientRestart, Restart
  <2>2. held'[n] = Nil /\ \A p \in Server \ {n} : node'[p] = node[p] /\ held'[p] = held[p]
    BY <1>1, <2>1 DEF Restart, Update, FirstOK, Base, TypeOK
  <2> QED
    BY <2>1, <2>2, EndSaves
<1>7. ASSUME NEW n \in Server, NEW r \in DOMAIN aeRpcs, ReceiveAEResp(n, r), UNCHANGED <<clientVars, saveVars>>
      PROVE  SavesOK'
  BY <1>7, ReceiveSaves DEF clientVars, saveVars
<1>8. ASSUME NEW n \in Server, HandleAEResp(n), UNCHANGED <<disk, clientVars, saveVars>> PROVE SavesOK'
  BY <1>8, AnswerSaves DEF clientVars, saveVars
<1> QED
  BY <1>3, <1>4, <1>5, <1>6, <1>7, <1>8 DEF ClientNext

\* Every step keeps FirstInv.
LEMMA FirstInvStep ==
    ASSUME FirstInv, Fits, [ClientNext]_allVars
    PROVE  FirstInv'
<1> SUFFICES ASSUME FirstTerm' PROVE FirstOK' /\ SavesOK'
  BY DEF FirstInv
<1>1. CASE ClientNext
  <2>1. FirstOK /\ SavesOK
    BY <1>1, FirstBefore DEF FirstInv
  <2>2. ASSUME NEW n \in Server, ClientLoop(n) PROVE FirstOK'
    BY <2>1, <2>2, LoopFirst
  <2>3. ASSUME NEW n \in Server, Applier(n) PROVE FirstOK'
    BY <2>1, <2>3, DeduplicateFirst, CommandFirst, ReadFirst, SaveFirst, SaveSnapshotFirst,
       RegisterFirst, ReplicateFirst DEF Applier
  <2>4. ASSUME NEW n \in Server, NEW c \in Call, Submit(n, c) PROVE FirstOK'
    BY <2>1, <2>4, SubmitFirst
  <2>5. ASSUME NEW n \in Server, NEW r \in DOMAIN aeRpcs, ReceiveAEResp(n, r), UNCHANGED clientVars
        PROVE  FirstOK'
    BY <2>1, <2>5, ReceiveFirst
  <2>6. ASSUME NEW n \in Server, HandleAEResp(n), UNCHANGED clientVars PROVE FirstOK'
    BY <2>1, <2>6, AnswerFirst
  <2>7. ASSUME NEW n \in Server, ClientRestart(n) PROVE FirstOK'
    BY <2>1, <2>7, RestartFirst
  <2>8. FirstOK'
    BY <1>1, <2>2, <2>3, <2>4, <2>5, <2>6, <2>7 DEF ClientNext
  <2> QED
    BY <1>1, <2>1, <2>8, SavesStep
<1>2. CASE UNCHANGED allVars
  <2>1. UNCHANGED <<vars, clientVars, saving>>
    BY <1>2 DEF allVars, saveVars
  <2>2. UNCHANGED <<node, held, elected, cast, accepted>>
    BY <2>1 DEF vars, nodeVars, history, clientVars
  <2>3. FirstOK /\ SavesOK
    BY <2>2 DEF FirstTerm, FirstInv
  <2>4. PICK n \in Server : TRUE
    BY ServerAssumption
  <2>5. FirstOK'
    BY <2>1, <2>3, ToSaveFirst
  <2>6. SavesOK'
    BY <2>1, <2>2, <2>3, OtherSaves DEF Accepts, Steady
  <2> QED
    BY <2>5, <2>6
<1> QED
  BY <1>1, <1>2

\* What is executed is the beginning of what was accepted.
LEMMA ExecutedInOrder ==
    ASSUME NEW acc \in Seq(Command), NEW s \in Seq(Command), NEW c, Executed(acc, s, c)
    PROVE  Len(s) <= Len(acc) /\ s = SubSeq(acc, 1, Len(s))
<1>1. Len(s) \in Nat /\ Len(acc) \in Nat /\ Len(s) <= Len(acc) /\ \A i \in 1..Len(s) : s[i] = acc[i]
  BY DEF Executed
<1> DEFINE u == SubSeq(acc, 1, Len(s))
<1>2. u \in Seq(Command) /\ Len(u) = Len(s) /\ \A i \in 1..Len(s) : u[i] = acc[i]
  BY <1>1
<1> HIDE DEF u
<1>3. s = u
  BY <1>1, <1>2
<1> QED
  BY <1>1, <1>3 DEF u

\* AppliedInOrder: whatever is lost, late or out of order, however often nodes
\* crash and wherever the applier and the run loop meet, a state machine has
\* executed the first of the accepted commands in the order of acceptance, none
\* left out and none executed again, as long as there was one leadership and the
\* log array has room for what was accepted.
THEOREM AppliesInOrder == ClientSpec /\ []Fits => []AppliedInOrder
<1>1. ClientInit => FirstInv
  <2> SUFFICES ASSUME ClientInit PROVE SavesOK
    BY FirstInit DEF FirstInv
  <2>1. saving = [n \in Server |-> NotSaving] /\ \A n \in Server : held[n] = Nil
    BY DEF ClientInit, Init
  <2>2. NotSaving \in [at : {"none", "due", "read"}, read : Saves \cup {Nil}] /\ NotSaving.at = "none"
    BY DEF NotSaving, Saving
  <2> QED
    BY <2>1, <2>2 DEF SavesOK, SavingType, SavingOK
<1>2. FirstInv /\ Fits /\ [ClientNext]_allVars => FirstInv'
  BY FirstInvStep
<1>3. FirstInv => AppliedInOrder
  <2> SUFFICES ASSUME FirstOK, NEW n \in Server
               PROVE  Len(sm[n]) <= Len(accepted) /\ sm[n] = SubSeq(accepted, 1, Len(sm[n]))
    BY DEF FirstInv, FirstTerm, AppliedInOrder
  <2>1. accepted \in Seq(Command) /\ sm[n] \in Seq(Command) /\ MachineOK(n)
    BY DEF FirstOK, ClientType, Base, TypeOK
  <2>2. PICK c : Executed(accepted, sm[n], c)
    BY <2>1 DEF MachineOK
  <2> QED
    BY <2>1, <2>2, ExecutedInOrder
<1> QED
  BY <1>1, <1>2, <1>3, PTL DEF ClientSpec

-----------------------------------------------------------------------------
(***************************************************************************)
(* A cluster of several has room for all calls: every call appends at most *)
(* once, for it is handed over once and its applier appends once.          *)
(***************************************************************************)
Unsent == {c \in Call : result[c] = "none"}
Asking == {n \in Server : applier[n].at \in {"leader", "new"}}

\* A record of these four fields, whatever they hold.
IsHandling(a) == a = [at |-> a.at, call |-> a.call, idx |-> a.idx, read |-> a.read]

CallsTyped ==
    /\ applier = [n \in Server |-> applier[n]] /\ result = [c \in Call |-> result[c]]
    /\ \A n \in Server : /\ IsHandling(applier[n])
                         /\ applier[n].at \in {"leader", "new"} => applier[n].call \in Call
    /\ accepted \in Seq(Command)

CallsCounted ==
    /\ CallsTyped
    /\ Len(accepted) + Cardinality(Unsent) + Cardinality(Asking) <= Cardinality(Call)

LEMMA CountsFinite ==
    /\ IsFiniteSet(Unsent) /\ Cardinality(Unsent) \in Nat
    /\ IsFiniteSet(Asking) /\ Cardinality(Asking) \in Nat
    /\ Cardinality(Call) \in Nat
<1>1. IsFiniteSet(Call) /\ IsFiniteSet(Server) /\ Unsent \in SUBSET Call /\ Asking \in SUBSET Server
  BY ServerAssumption, RequestAssumption DEF Unsent, Asking
<1>2. IsFiniteSet(Unsent) /\ IsFiniteSet(Asking)
  BY <1>1, FS_Subset
<1> QED
  BY <1>1, <1>2, FS_CardinalityType

LEMMA CountsFiniteNext ==
    /\ IsFiniteSet(Unsent') /\ Cardinality(Unsent') \in Nat
    /\ IsFiniteSet(Asking') /\ Cardinality(Asking') \in Nat
<1>1. IsFiniteSet(Call) /\ IsFiniteSet(Server) /\ Unsent' \in SUBSET Call /\ Asking' \in SUBSET Server
  BY ServerAssumption, RequestAssumption DEF Unsent, Asking
<1>2. IsFiniteSet(Unsent') /\ IsFiniteSet(Asking')
  BY <1>1, FS_Subset
<1> QED
  BY <1>1, <1>2, FS_CardinalityType

\* A step that appends nothing and hands over nothing.
LEMMA CountKeeps ==
    ASSUME CallsCounted, CallsTyped', accepted' = accepted, Unsent' \subseteq Unsent, Asking' \subseteq Asking
    PROVE  CallsCounted'
<1>1. Cardinality(Unsent') <= Cardinality(Unsent) /\ Cardinality(Asking') <= Cardinality(Asking)
  BY CountsFinite, FS_Subset
<1>2. Len(accepted) \in Nat
  BY DEF CallsCounted, CallsTyped
<1>3. PICK u, v, x, y : u = Cardinality(Unsent) /\ v = Cardinality(Unsent')
                        /\ x = Cardinality(Asking) /\ y = Cardinality(Asking')
  OBVIOUS
<1>4. PICK a, c : a = Len(accepted) /\ c = Cardinality(Call)
  OBVIOUS
<1>5. u \in Nat /\ v \in Nat /\ x \in Nat /\ y \in Nat /\ a \in Nat /\ c \in Nat
  BY <1>2, <1>3, <1>4, CountsFinite, CountsFiniteNext
<1>6. v <= u /\ y <= x /\ a + u + x <= c
  BY <1>1, <1>3, <1>4 DEF CallsCounted
<1>7. a + v + y <= c
  BY <1>5, <1>6
<1> QED
  BY <1>3, <1>4, <1>7 DEF CallsCounted

\* The applier of n goes from one call or stage to another.
LEMMA ApplierTyped ==
    ASSUME CallsTyped, NEW n \in Server, NEW a, IsHandling(a), applier' = [applier EXCEPT ![n] = a],
           a.at \in {"leader", "new"} => a.call \in Call,
           result' = [c \in Call |-> result'[c]], accepted' \in Seq(Command)
    PROVE  CallsTyped' /\ applier'[n] = a /\ \A p \in Server \ {n} : applier'[p] = applier[p]
<1>1. /\ applier' = [p \in Server |-> IF p = n THEN a ELSE applier[p]]
  BY DEF CallsTyped
<1>2. applier'[n] = a /\ \A p \in Server \ {n} : applier'[p] = applier[p]
  BY <1>1
<1>3. applier' = [p \in Server |-> applier'[p]]
  BY <1>1
<1>4. \A p \in Server : /\ IsHandling(applier'[p])
                        /\ applier'[p].at \in {"leader", "new"} => applier'[p].call \in Call
  BY <1>2 DEF CallsTyped
<1> QED
  BY <1>2, <1>3, <1>4 DEF CallsTyped, IsHandling

\* The fields of the applier after a change of stage.
LEMMA StageFields ==
    ASSUME NEW a, IsHandling(a), NEW to, NEW b, b = [a EXCEPT !.at = to]
    PROVE  IsHandling(b) /\ b.at = to /\ b.call = a.call
<1>1. PICK t, c, j, o : t = a.at /\ c = a.call /\ j = a.idx /\ o = a.read
  OBVIOUS
<1>2. a = [at |-> t, call |-> c, idx |-> j, read |-> o]
  BY <1>1 DEF IsHandling
<1>3. b = [[at |-> t, call |-> c, idx |-> j, read |-> o] EXCEPT !.at = to]
  BY <1>2
<1>4. b = [at |-> to, call |-> c, idx |-> j, read |-> o]
  BY <1>3
<1> QED
  BY <1>1, <1>4 DEF IsHandling

LEMMA IdleFields == IsHandling(Idle) /\ Idle.at = "idle"
  BY DEF IsHandling, Idle, Handling

\* The applier changes stage, and results are only given.
LEMMA ResultTyped ==
    ASSUME CallsTyped, NEW c, NEW v, v # "none", result' = [result EXCEPT ![c] = v]
    PROVE  result' = [d \in Call |-> result'[d]] /\ Unsent' \subseteq Unsent
<1>1. result' = [d \in Call |-> IF d = c THEN v ELSE result[d]]
  BY DEF CallsTyped
<1> QED
  BY <1>1 DEF Unsent

\* A step of the applier of n that neither takes a call over nor appends.
LEMMA StageCounts ==
    ASSUME CallsCounted, NEW n \in Server, NEW a, IsHandling(a), applier' = [applier EXCEPT ![n] = a],
           a.at \in {"leader", "new"} => a.call \in Call /\ applier[n].at \in {"leader", "new"},
           result' = [c \in Call |-> result'[c]], Unsent' \subseteq Unsent, accepted' = accepted
    PROVE  CallsCounted'
<1>1. CallsTyped /\ accepted' \in Seq(Command)
  BY DEF CallsCounted, CallsTyped
<1>2. CallsTyped' /\ applier'[n] = a /\ \A p \in Server \ {n} : applier'[p] = applier[p]
  BY <1>1, ApplierTyped
<1>3. Asking' \subseteq Asking
  BY <1>2 DEF Asking
<1> QED
  BY <1>2, <1>3, CountKeeps

\* A step that leaves the applier and what was appended alone.
LEMMA OtherCounts ==
    ASSUME CallsCounted, UNCHANGED <<applier, accepted>>,
           result' = [c \in Call |-> result'[c]], Unsent' \subseteq Unsent
    PROVE  CallsCounted'
<1>1. CallsTyped'
  BY DEF CallsCounted, CallsTyped
<1>2. Asking' \subseteq Asking
  BY DEF Asking
<1> QED
  BY <1>1, <1>2, CountKeeps

LEMMA SameCounts ==
    ASSUME CallsCounted, UNCHANGED <<applier, accepted, result>>
    PROVE  CallsCounted'
<1>1. result' = [c \in Call |-> result'[c]] /\ Unsent' \subseteq Unsent
  BY DEF CallsCounted, CallsTyped, Unsent
<1> QED
  BY <1>1, OtherCounts

\* Apply: the call is no longer unsent, and at most one applier more has one.
LEMMA SubmitCounts ==
    ASSUME CallsCounted, NEW n \in Server, NEW c \in Call, Submit(n, c)
    PROVE  CallsCounted'
<1>1. CallsTyped /\ c \in Unsent /\ UNCHANGED accepted
  BY DEF CallsCounted, Submit, Unsent
<1>2. CASE node[n].role # Leader
  <2>1. result' = [result EXCEPT ![c] = "refused"] /\ UNCHANGED applier
    BY <1>2 DEF Submit
  <2>2. result' = [d \in Call |-> result'[d]] /\ Unsent' \subseteq Unsent
    BY <1>1, <2>1, ResultTyped
  <2> QED
    BY <1>1, <2>1, <2>2, OtherCounts
<1>3. CASE node[n].role = Leader
  <2> DEFINE a == Handling("leader", c)
  <2>1. result' = [result EXCEPT ![c] = "waiting"] /\ applier' = [applier EXCEPT ![n] = a]
    BY <1>3 DEF Submit
  <2>2. IsHandling(a) /\ a.at = "leader" /\ a.call = c
    BY DEF Handling, IsHandling
  <2> HIDE DEF a
  <2>3. result' = [d \in Call |-> IF d = c THEN "waiting" ELSE result[d]]
    BY <1>1, <2>1 DEF CallsTyped
  <2>4. Unsent' = Unsent \ {c} /\ result' = [d \in Call |-> result'[d]]
    BY <2>3 DEF Unsent
  <2>5. accepted' \in Seq(Command) /\ Len(accepted) \in Nat
    BY <1>1 DEF CallsTyped
  <2>6. CallsTyped' /\ applier'[n] = a /\ \A p \in Server \ {n} : applier'[p] = applier[p]
    BY <1>1, <2>1, <2>2, <2>4, <2>5, ApplierTyped
  <2>7. Asking' = Asking \cup {n}
    BY <2>2, <2>6 DEF Asking
  <2>8. Cardinality(Unsent') = Cardinality(Unsent) - 1
    BY <1>1, <2>4, CountsFinite, FS_RemoveElement
  <2>9. Cardinality(Asking') <= Cardinality(Asking) + 1
    <3>1. Cardinality(Asking') = IF n \in Asking THEN Cardinality(Asking) ELSE Cardinality(Asking) + 1
      BY <2>7, CountsFinite, FS_AddElement
    <3>2. Cardinality(Asking) \in Nat
      BY CountsFinite
    <3> QED
      BY <3>1, <3>2
  <2>10. PICK u, v, x, y : u = Cardinality(Unsent) /\ v = Cardinality(Unsent')
                           /\ x = Cardinality(Asking) /\ y = Cardinality(Asking')
    OBVIOUS
  <2>11. PICK l, k : l = Len(accepted) /\ k = Cardinality(Call)
    OBVIOUS
  <2>12. u \in Nat /\ v \in Nat /\ x \in Nat /\ y \in Nat /\ l \in Nat /\ k \in Nat
    BY <2>5, <2>10, <2>11, CountsFinite, CountsFiniteNext
  <2>13. v = u - 1 /\ y <= x + 1 /\ l + u + x <= k
    BY <2>8, <2>9, <2>10, <2>11 DEF CallsCounted
  <2>14. l + v + y <= k
    BY <2>12, <2>13
  <2> QED
    BY <1>1, <2>6, <2>10, <2>11, <2>14 DEF CallsCounted
<1> QED
  BY <1>2, <1>3

\* addCommandLog: the applier goes past its only append of the call.
LEMMA CommandCounts ==
    ASSUME CallsCounted, NEW n \in Server, AppendCommand(n)
    PROVE  CallsCounted'
<1> DEFINE s   == AddCommandLog(node[n], n, Request[applier[n].call], sm[n])
           ok  == LastLogIdx(s) # LastLogIdx(node[n])
<1>1. CallsTyped /\ applier[n].at = "new" /\ IsHandling(applier[n]) /\ applier[n].call \in Call
  BY DEF CallsCounted, CallsTyped, AppendCommand
<1>2. CASE ~ok
  <2>1. /\ applier' = [applier EXCEPT ![n] = Idle] /\ accepted' = accepted
        /\ result' = [result EXCEPT ![applier[n].call] = "refused"]
    BY <1>2 DEF AppendCommand, Answer
  <2>2. result' = [d \in Call |-> result'[d]] /\ Unsent' \subseteq Unsent
    BY <1>1, <2>1, ResultTyped
  <2> QED
    BY <2>1, <2>2, IdleFields, StageCounts
<1>3. CASE ok
  <2> DEFINE cmd == Request[applier[n].call]
             a   == [applier[n] EXCEPT !.at = "appended", !.idx = LastLogIdx(s)]
  <2>1. /\ applier' = [applier EXCEPT ![n] = a] /\ accepted' = Append(accepted, cmd) /\ result' = result
    BY <1>1, <1>3 DEF AppendCommand, CallsTyped
  <2>2. cmd \in Command
    BY <1>1, RequestAssumption
  <2>3. PICK i : i = LastLogIdx(s)
    OBVIOUS
  <2>4. a = [applier[n] EXCEPT !.at = "appended", !.idx = i]
    BY <2>3
  <2> HIDE DEF a, cmd, s
  <2>5. IsHandling(a) /\ a.at = "appended"
    <3>1. PICK t, c, j, o : t = applier[n].at /\ c = applier[n].call /\ j = applier[n].idx /\ o = applier[n].read
      OBVIOUS
    <3>2. applier[n] = [at |-> t, call |-> c, idx |-> j, read |-> o]
      BY <1>1, <3>1 DEF IsHandling
    <3>3. a = [[at |-> t, call |-> c, idx |-> j, read |-> o] EXCEPT !.at = "appended", !.idx = i]
      BY <2>4, <3>2
    <3> HIDE DEF a
    <3>4. a = [at |-> "appended", call |-> c, idx |-> i, read |-> o]
      BY <3>3
    <3> QED
      BY <3>4 DEF IsHandling
  <2>6. accepted' \in Seq(Command) /\ Len(accepted) \in Nat /\ Len(accepted') = Len(accepted) + 1
    BY <1>1, <2>1, <2>2 DEF CallsTyped
  <2>7. Unsent' = Unsent /\ result' = [d \in Call |-> result'[d]]
    BY <1>1, <2>1 DEF Unsent, CallsTyped
  <2>8. CallsTyped' /\ applier'[n] = a /\ \A p \in Server \ {n} : applier'[p] = applier[p]
    BY <1>1, <2>1, <2>5, <2>6, <2>7, ApplierTyped
  <2>9. n \in Asking /\ Asking' = Asking \ {n}
    BY <1>1, <2>5, <2>8 DEF Asking
  <2>10. Cardinality(Asking') = Cardinality(Asking) - 1
    BY <2>9, CountsFinite, FS_RemoveElement
  <2>11. PICK u, x, y : u = Cardinality(Unsent) /\ x = Cardinality(Asking) /\ y = Cardinality(Asking')
    OBVIOUS
  <2>12. PICK l, m, k : l = Len(accepted) /\ m = Len(accepted') /\ k = Cardinality(Call)
    OBVIOUS
  <2>13. u \in Nat /\ x \in Nat /\ y \in Nat /\ l \in Nat /\ k \in Nat
    BY <2>6, <2>11, <2>12, CountsFinite, CountsFiniteNext
  <2>14. y = x - 1 /\ m = l + 1 /\ l + u + x <= k
    BY <2>6, <2>10, <2>11, <2>12 DEF CallsCounted
  <2>15. m + u + y <= k
    BY <2>13, <2>14
  <2> QED
    BY <2>7, <2>8, <2>11, <2>12, <2>15 DEF CallsCounted
<1> QED
  BY <1>2, <1>3

\* The other steps of the applier.
LEMMA ApplierCounts ==
    ASSUME CallsCounted, NEW n \in Server, Applier(n)
    PROVE  CallsCounted'
<1>1. CallsTyped /\ IsHandling(applier[n])
      /\ (applier[n].at \in {"leader", "new"} => applier[n].call \in Call)
  BY DEF CallsCounted, CallsTyped
<1>2. ASSUME NEW from, NEW to, Step(n, from, to), UNCHANGED <<result, accepted>>,
             to \in {"leader", "new"} => from \in {"leader", "new"}
      PROVE  CallsCounted'
  <2> DEFINE a == [applier[n] EXCEPT !.at = to]
  <2>1. applier' = [applier EXCEPT ![n] = a] /\ applier[n].at = from
    BY <1>1, <1>2 DEF Step, CallsTyped
  <2>2. IsHandling(a) /\ a.at = to /\ a.call = applier[n].call
    BY <1>1, StageFields
  <2>3. result' = [c \in Call |-> result'[c]] /\ Unsent' \subseteq Unsent
    BY <1>1, <1>2 DEF CallsTyped, Unsent
  <2> HIDE DEF a
  <2> QED
    BY <1>1, <1>2, <2>1, <2>2, <2>3, StageCounts
<1>3. CASE Deduplicate(n)
  <2>1. UNCHANGED accepted
    BY <1>3 DEF Deduplicate
  <2>2. CASE Seen(n, Request[applier[n].call])
    <3>1. applier' = [applier EXCEPT ![n] = Idle] /\ result' = [result EXCEPT ![applier[n].call] = "ok"]
      BY <1>3, <2>2 DEF Deduplicate, Answer
    <3>2. result' = [d \in Call |-> result'[d]] /\ Unsent' \subseteq Unsent
      BY <1>1, <3>1, ResultTyped
    <3> QED
      BY <2>1, <3>1, <3>2, IdleFields, StageCounts
  <2>3. CASE ~Seen(n, Request[applier[n].call])
    BY <1>2, <1>3, <2>1, <2>3 DEF Deduplicate
  <2> QED
    BY <2>2, <2>3
<1>4. CASE GetPersistentState(n)
  <2> DEFINE w == [currentTerm |-> node[n].currentTerm, votedFor |-> node[n].votedFor, log |-> node[n].log]
  <2>1. PICK r : r = w
    OBVIOUS
  <2> DEFINE a == [applier[n] EXCEPT !.at = "read", !.read = r]
  <2>2. /\ applier' = [applier EXCEPT ![n] = a] /\ UNCHANGED <<result, accepted>>
    BY <1>1, <1>4, <2>1 DEF GetPersistentState, PersistentState, CallsTyped
  <2>3. IsHandling(a) /\ a.at = "read"
    <3>1. PICK t, c, j, o : t = applier[n].at /\ c = applier[n].call /\ j = applier[n].idx /\ o = applier[n].read
      OBVIOUS
    <3>2. applier[n] = [at |-> t, call |-> c, idx |-> j, read |-> o]
      BY <1>1, <3>1 DEF IsHandling
    <3>3. a = [[at |-> t, call |-> c, idx |-> j, read |-> o] EXCEPT !.at = "read", !.read = r]
      BY <3>2
    <3> HIDE DEF a
    <3>4. a = [at |-> "read", call |-> c, idx |-> j, read |-> r]
      BY <3>3
    <3> QED
      BY <3>4 DEF IsHandling
  <2>4. result' = [c \in Call |-> result'[c]] /\ Unsent' \subseteq Unsent
    BY <1>1, <2>2 DEF CallsTyped, Unsent
  <2> HIDE DEF a
  <2> QED
    BY <2>2, <2>3, <2>4, StageCounts
<1>5. CASE SaveState(n)
  BY <1>2, <1>5 DEF SaveState
<1>6. CASE SaveSnapshot(n)
  BY <1>2, <1>6 DEF SaveSnapshot
<1>7. CASE Register(n)
  BY <1>2, <1>7 DEF Register
<1>8. CASE Replicate(n)
  <2>1. applier' = [applier EXCEPT ![n] = Idle] /\ UNCHANGED <<result, accepted>>
    BY <1>8 DEF Replicate
  <2>2. result' = [c \in Call |-> result'[c]] /\ Unsent' \subseteq Unsent
    BY <1>1, <2>1 DEF CallsTyped, Unsent
  <2> QED
    BY <2>1, <2>2, IdleFields, StageCounts
<1> QED
  BY <1>3, <1>4, <1>5, <1>6, <1>7, <1>8, CommandCounts DEF Applier

\* Every step counts right.
LEMMA CountsStep ==
    ASSUME CallsCounted, [ClientNext]_allVars
    PROVE  CallsCounted'
<1>1. CASE UNCHANGED clientVars
  BY <1>1, SameCounts DEF clientVars
<1>2. ASSUME NEW n \in Server, ClientLoop(n) PROVE CallsCounted'
  <2>1. CASE FindEntry(n) \/ GetLog(n)
    BY <2>1, SameCounts DEF FindEntry, GetLog
  <2>2. CASE ApplyEntry(n)
    <3>1. UNCHANGED <<applier, accepted>>
      BY <2>2 DEF ApplyEntry
    <3>2. PICK c : result' = result \/ result' = [result EXCEPT ![c] = "ok"]
      BY <2>2 DEF ApplyEntry
    <3>3. result' = [d \in Call |-> result'[d]] /\ Unsent' \subseteq Unsent
      BY <3>2, ResultTyped DEF CallsCounted, CallsTyped, Unsent
    <3> QED
      BY <3>1, <3>3, OtherCounts
  <2>3. CASE CoreLoop(n) \/ ReadToSave(n) \/ SaveRead(n)
    BY <1>1, <2>3 DEF CoreLoop, ReadToSave, SaveRead
  <2> QED
    BY <1>2, <2>1, <2>2, <2>3 DEF ClientLoop
<1>3. ASSUME NEW n \in Server, ClientRestart(n) PROVE CallsCounted'
  <2>1. applier' = [applier EXCEPT ![n] = Idle] /\ UNCHANGED accepted
    BY <1>3 DEF ClientRestart
  <2>2. result' = [d \in Call |-> IF site[d] = n /\ result[d] = "waiting" THEN "lost" ELSE result[d]]
    BY <1>3 DEF ClientRestart
  <2>3. result' = [d \in Call |-> result'[d]] /\ Unsent' \subseteq Unsent
    BY <2>2 DEF Unsent
  <2> QED
    BY <2>1, <2>3, IdleFields, StageCounts
<1>4. CASE UNCHANGED allVars
  BY <1>1, <1>4 DEF allVars
<1> QED
  BY <1>1, <1>2, <1>3, <1>4, ApplierCounts, SubmitCounts DEF ClientNext

\* With no call taken over, all of them are unsent.
LEMMA CountsInit == ClientInit => CallsCounted
<1> SUFFICES ASSUME ClientInit PROVE CallsCounted
  OBVIOUS
<1>1. CallsTyped
  <2>1. /\ applier = [n \in Server |-> applier[n]] /\ result = [c \in Call |-> result[c]]
        /\ \A n \in Server : applier[n] = Idle
    BY DEF ClientInit
  <2>2. accepted \in Seq(Command)
    BY DEF ClientInit
  <2> QED
    BY <2>1, <2>2, IdleFields DEF CallsTyped
<1>2. Unsent = Call /\ Asking = {} /\ Len(accepted) = 0
  BY IdleFields DEF ClientInit, Unsent, Asking
<1>3. Cardinality(Asking) = 0
  BY <1>2, FS_EmptySet
<1>4. Cardinality(Call) \in Nat
  BY CountsFinite
<1> QED
  BY <1>1, <1>2, <1>3, <1>4 DEF CallsCounted

\* AppliedInOrder in every cluster of several, for which RoomAssumption says that
\* no log is compacted: handleApplyRequests appends a call at most once, so that
\* the array always has room for what was accepted.
THEOREM AppliesInCluster ==
    ASSUME Cardinality(Server) # 1, MaxTerm > 0
    PROVE  ClientSpec => []AppliedInOrder
<1>1. CallsCounted => Fits
  <2> SUFFICES ASSUME CallsCounted PROVE Fits
    OBVIOUS
  <2>1. PICK u, x, a, c : u = Cardinality(Unsent) /\ x = Cardinality(Asking) /\ a = Len(accepted)
                          /\ c = Cardinality(Call)
    OBVIOUS
  <2>2. u \in Nat /\ x \in Nat /\ a \in Nat /\ c \in Nat
    BY <2>1, CountsFinite DEF CallsCounted, CallsTyped
  <2>3. a + u + x <= c /\ MaxTerm + c < LogCap
    BY <2>1, RoomAssumption DEF CallsCounted
  <2>4. a + 1 < LogCap
    BY <2>2, <2>3, BoundsAssumption, LogCapAssumption
  <2> QED
    BY <2>1, <2>4 DEF Fits
<1>2. CallsCounted /\ [ClientNext]_allVars => CallsCounted'
  BY CountsStep
<1> QED
  BY <1>1, <1>2, CountsInit, AppliesInOrder, PTL DEF ClientSpec

-----------------------------------------------------------------------------
(***************************************************************************)
(* Installs: InstallSnapshot and AppendEntries calls of one leader, any    *)
(* number of them, in any order.                                           *)
(***************************************************************************)

(***************************************************************************)
(* The invariant.  As long as nobody has asked for votes in a newer term   *)
(* the leader's log stands still.  A follower has nothing, or the snapshot *)
(* and perhaps the entry after it; it never loses either, as a snapshot is *)
(* installed only over an empty state.  An AppendEntries is accepted only  *)
(* by a follower that then has the leader's last entry, so the answer may  *)
(* be taken for whatever was sent last.                                    *)
(***************************************************************************)
OneTerm == \A v \in cast : v[2] <= 2

Last == Noop(1, 2)

LeaderOK(s) ==
    /\ s.role = Leader /\ s.currentTerm = 2
    /\ s.log = <<Last>> /\ s.snap = Compacted
    /\ s.commitIndex = 1 /\ s.lastApplied = 1
    /\ \A p \in Server : s.nextIndex[p] <= 2 /\ s.lastSent[p] <= 1

\* Nothing yet.
Fresh(s) == s.log = <<>> /\ s.snap = Nil /\ s.lastApplied = -1 /\ s.commitIndex = -1

\* The snapshot, and perhaps the entry after it.
Has(s) ==
    /\ s.log \in {<<>>, <<Last>>}
    /\ s.snap # Nil /\ s.snap.idx \in {0, 1} /\ s.lastApplied >= 0

HasAll(s) == Has(s) /\ LastLogIdx(s) = 1

FollowerOK(s) == s.role = Follower /\ s.currentTerm = 2 /\ (Fresh(s) \/ Has(s))

AEReqOK(m) ==
    /\ m.src = L /\ m.dst \in Peers(L) /\ m.term = 2
    /\ \/ m.entries = <<Last>> /\ m.prevIdx = 0
       \/ m.entries = <<>> /\ m.prevIdx = 1

AERespOK(r) ==
    /\ r.dst = L /\ r.src \in Peers(L) /\ r.term = 2 /\ r.lastIdx <= 1
    /\ r.success => HasAll(node[r.src])

ISReqOK(m) ==
    /\ m.src = L /\ m.dst \in Peers(L) /\ m.term = 2 /\ m.idx = 0 /\ m.lastTerm = 1
    /\ m.data = <<>> /\ m.config = Server

ISRespOK(r) ==
    /\ r.dst = L /\ r.src \in Peers(L) /\ r.term = 2 /\ r.success = TRUE /\ r.idx = 0
    /\ Has(node[r.src])

NodesOK ==
    /\ LeaderOK(node[L]) /\ loop[L] \in {"top", Leader}
    /\ \A p \in Peers(L) : FollowerOK(node[p]) /\ loop[p] \in {"top", Follower}
    /\ \A p \in Peers(L) : node[L].matchIndex[p] <= LastLogIdx(node[p])

CallsOK ==
    /\ voteReqs = {} /\ voteResps = {}
    /\ \A m \in DOMAIN aeRpcs : /\ m.type = "request" => AEReqOK(m)
                                /\ m.type = "response" => AERespOK(m)
    /\ \A n \in Server : held[n] # Nil => n = L /\ AERespOK(held[n])

InstallsOK ==
    /\ \A m \in isRpcs : \/ m.type = "request" /\ ISReqOK(m)
                         \/ m.type = "response" /\ ISRespOK(m)
    /\ DOMAIN isHeld = Server
    /\ \A n \in Server : isHeld[n] # Nil => n = L /\ ISRespOK(isHeld[n])
    /\ install \in [Server -> Seq(Command) \cup {Nil}]

InstallInv == OneTerm => TypeOK /\ NodesOK /\ CallsOK /\ InstallsOK

\* What a step of a follower leaves it with: no less than before.
Kept(s, r) ==
    /\ Has(s) => Has(r)
    /\ HasAll(s) => HasAll(r)
    /\ LastLogIdx(s) <= LastLogIdx(r)

\* The same but for timer, vote and what was stored.
Like(s, r) ==
    /\ SameLog(s, r) /\ r.commitIndex = s.commitIndex
    /\ r.role = s.role /\ r.currentTerm = s.currentTerm
    /\ r.nextIndex = s.nextIndex /\ r.matchIndex = s.matchIndex /\ r.lastSent = s.lastSent

-----------------------------------------------------------------------------
(***************************************************************************)
(* The followers.                                                          *)
(***************************************************************************)
\* The last index of a follower.
LEMMA FollowerLast ==
    ASSUME NEW s
    PROVE  /\ Last.index = 1 /\ Last.term = 2
           /\ Fresh(s) => LastLogIdx(s) = -1
           /\ Has(s) /\ s.log = <<>> => LastLogIdx(s) = s.snap.idx
           /\ s.log = <<Last>> => LastLogIdx(s) = 1
           /\ Has(s) => LastLogIdx(s) \in {0, 1}
<1>1. Last.index = 1 /\ Last.term = 2
  BY DEF Last, Noop
<1>2. Fresh(s) => LastLogIdx(s) = -1
  BY DEF Fresh, LastLogIdx
<1>3. Has(s) /\ s.log = <<>> => LastLogIdx(s) = s.snap.idx
  BY DEF Has, LastLogIdx
<1>4. s.log = <<Last>> => LastLogIdx(s) = 1
  <2>1. <<Last>> # <<>> /\ Len(<<Last>>) = 1 /\ <<Last>>[1] = Last
    OBVIOUS
  <2> QED
    BY <1>1, <2>1 DEF LastLogIdx
<1>5. Has(s) => LastLogIdx(s) \in {0, 1}
  BY <1>3, <1>4 DEF Has
<1> QED
  BY <1>1, <1>2, <1>3, <1>4, <1>5

\* What is the same but for timer, vote and storage is as good.
LEMMA LikeKeeps ==
    ASSUME NEW s, NEW r, Like(s, r)
    PROVE  /\ LastLogIdx(r) = LastLogIdx(s)
           /\ LeaderOK(s) => LeaderOK(r)
           /\ FollowerOK(s) => FollowerOK(r)
           /\ Has(s) => Has(r)
           /\ HasAll(s) => HasAll(r)
<1>1. LastLogIdx(r) = LastLogIdx(s)
  BY DEF Like, SameLog, LastLogIdx
<1>2. LeaderOK(s) => LeaderOK(r)
  BY DEF Like, SameLog, LeaderOK
<1>3. (Has(s) => Has(r)) /\ (Fresh(s) => Fresh(r))
  BY DEF Like, SameLog, Has, Fresh
<1>4. FollowerOK(s) => FollowerOK(r)
  BY <1>3 DEF Like, FollowerOK
<1> QED
  BY <1>1, <1>2, <1>3, <1>4 DEF HasAll

\* The timer and the note of what was stored.
LEMMA QuietLike ==
    ASSUME NEW s \in NodeStates
    PROVE  /\ Like(s, s)
           /\ Like(s, StopElectionTimeout(s)) /\ Like(s, CheckElectionTimeout(s))
           /\ Like(s, NoteStored(s))
<1>1. Like(s, s)
  BY DEF Like, SameLog
<1>2. /\ \A x : Like(s, [s EXCEPT !.timer = x])
      /\ \A x : Like(s, [s EXCEPT !.persistedSnapIdx = x])
  BY DEF Like, SameLog, NodeStates
<1> QED
  BY <1>1, <1>2 DEF StopElectionTimeout, CheckElectionTimeout, NoteStored

\* takeSnapshot never takes a snapshot away.
LEMMA SnapTaken ==
    ASSUME NEW x \in NodeStates, x.snap # Nil, NEW data \in Seq(Command)
    PROVE  TakeSnapshot(x, data).snap # Nil
<1> DEFINE k  == FindArrayIdx(x.log, x.lastApplied)
           sn == [idx |-> x.log[k].index, term |-> x.log[k].term, data |-> data, config |-> x.config]
           g  == SubSeq(x.log, k + 1, Len(x.log))
<1>1. x.log \in Seq(Entry) /\ x.config \in SUBSET Server
  BY DEF NodeStates
<1>2. CASE k = 0
  BY <1>2 DEF TakeSnapshot
<1>3. CASE k # 0
  <2>1. k \in 1..Len(x.log)
    BY <1>1, <1>3, FindArrayIdxFinds
  <2>2. x.log[k] \in Entry
    BY <1>1, <2>1
  <2>3. x.log[k].index \in Nat /\ x.log[k].term \in Nat
    BY <2>2 DEF Entry
  <2>4. TakeSnapshot(x, data) = [x EXCEPT !.snap = sn, !.log = g]
    BY <1>3 DEF TakeSnapshot
  <2>5. sn \in Snapshot
    BY <1>1, <2>3 DEF Snapshot
  <2> HIDE DEF sn, g
  <2>6. TakeSnapshot(x, data).snap = sn
    BY <2>4 DEF NodeStates
  <2> QED
    BY <2>5, <2>6, NilAssumption
<1> QED
  BY <1>2, <1>3

\* A follower refuses AppendEntries while it has nothing; afterwards it takes the
\* entry, or knows that it has it, or compacts its log.
LEMMA FollowerAppends ==
    ASSUME NEW s \in NodeStates, FollowerOK(s), NEW m \in AEReq, AEReqOK(m),
           NEW data \in Seq(Command), NEW r, r = HandleAppendEntries(s, m, data)
    PROVE  /\ r \in NodeStates /\ FollowerOK(r) /\ Kept(s, r)
           /\ AcceptsEntries(s, m) => HasAll(r)
<1>1. /\ m.term = 2 /\ m.leader \in Server \cup {Nil} /\ m.entries \in Seq(Entry)
      /\ m.commit \in Index /\ s.currentTerm = 2
      /\ m.prevIdx \in {0, 1} /\ m.prevIdx \in Int
  BY DEF AEReqOK, AEReq, FollowerOK
<1>2. r \in NodeStates /\ r.currentTerm = 2 /\ r.role = Follower
  BY <1>1, HandleAppendEntriesEffect
<1>3. \/ SameLog(s, r) /\ r.commitIndex = s.commitIndex /\ ~PrevLogOK(s, m)
      \/ \E l \in NodeStates :
            /\ SameLog(s, l) /\ PrevLogOK(s, m)
            /\ IF Overflows(s, m) THEN r = TakeSnapshot(l, data)
               ELSE r = CommitFrom(MergeEntries(l, MergePoint(s, m), m.entries), m)
  BY <1>1, HandleAppendEntriesLog
<1>4. s.log \in Seq(Entry)
  BY DEF NodeStates
<1>5. CASE SameLog(s, r) /\ r.commitIndex = s.commitIndex /\ ~PrevLogOK(s, m)
  <2>1. ~AcceptsEntries(s, m)
    BY <1>5 DEF AcceptsEntries
  <2>2. (Has(s) => Has(r)) /\ (Fresh(s) => Fresh(r)) /\ LastLogIdx(r) = LastLogIdx(s)
    BY <1>5 DEF SameLog, Has, Fresh, LastLogIdx
  <2>3. LastLogIdx(s) \in Int
    BY LastLogType DEF Index
  <2> QED
    BY <1>2, <2>1, <2>2, <2>3 DEF FollowerOK, Kept, HasAll
<1>6. ASSUME NEW l \in NodeStates, SameLog(s, l), PrevLogOK(s, m),
             IF Overflows(s, m) THEN r = TakeSnapshot(l, data)
             ELSE r = CommitFrom(MergeEntries(l, MergePoint(s, m), m.entries), m)
      PROVE  /\ Has(r) /\ Kept(s, r)
             /\ AcceptsEntries(s, m) => HasAll(r)
  <2> DEFINE k == FindArrayIdx(s.log, m.prevIdx)
  <2>1. k # 0 => k \in 1..Len(s.log) /\ s.log[k].index = m.prevIdx
    BY <1>4, FindArrayIdxFinds
  <2>2. /\ k # 0 \/ (s.snap # Nil /\ s.snap.idx >= m.prevIdx)
        /\ MergePoint(s, m) = k
    BY <1>1, <1>6 DEF PrevLogOK, MergePoint
  <2> HIDE DEF k
  <2>3. Has(s)
    <3>1. s.log = <<>> => k = 0
      BY <2>1
    <3> QED
      BY <2>2, <3>1 DEF Fresh, FollowerOK
  <2>4. l.log = s.log /\ l.snap = s.snap /\ l.lastApplied = s.lastApplied /\ l.log \in {<<>>, <<Last>>}
    BY <1>6, <2>3 DEF SameLog, Has
  <2>5. s.lastApplied >= 0 /\ s.snap # Nil /\ s.snap.idx \in {0, 1} /\ s.log \in {<<>>, <<Last>>}
    BY <2>3 DEF Has
  <2>6. ASSUME Has(r), r.log = <<Last>> \/ LastLogIdx(r) = 1 \/ SameLog(s, r)
        PROVE  Kept(s, r)
    <3>1. CASE r.log = <<Last>> \/ LastLogIdx(r) = 1
      <4>1. LastLogIdx(r) = 1 /\ LastLogIdx(s) \in {0, 1}
        BY <2>3, <3>1, FollowerLast
      <4> QED
        BY <2>6, <4>1 DEF Kept, HasAll
    <3>2. CASE SameLog(s, r)
      <4>1. LastLogIdx(r) = LastLogIdx(s) /\ LastLogIdx(s) \in {0, 1}
        BY <2>3, <3>2, FollowerLast DEF SameLog, LastLogIdx
      <4> QED
        BY <2>6, <4>1 DEF Kept, HasAll
    <3> QED
      BY <2>6, <3>1, <3>2
  <2>7. CASE Overflows(s, m)
    <3>1. r = TakeSnapshot(l, data) /\ ~AcceptsEntries(s, m)
      BY <1>6, <2>7 DEF AcceptsEntries
    <3>2. /\ r.lastApplied = l.lastApplied
          /\ \/ r.log = l.log /\ r.snap = l.snap
             \/ \E i \in 1..Len(l.log) :
                   /\ l.log[i].index = l.lastApplied
                   /\ r.log = SubSeq(l.log, i + 1, Len(l.log))
                   /\ r.snap.idx = l.lastApplied
      BY <3>1, TakeSnapshotLog, SMTT(40)
    <3>3. CASE r.log = l.log /\ r.snap = l.snap
      <4>1. SameLog(s, r) /\ Has(r)
        BY <2>3, <2>4, <3>2, <3>3 DEF SameLog, Has
      <4> QED
        BY <2>6, <3>1, <4>1
    <3>4. CASE \E i \in 1..Len(l.log) :
                   /\ l.log[i].index = l.lastApplied
                   /\ r.log = SubSeq(l.log, i + 1, Len(l.log))
                   /\ r.snap.idx = l.lastApplied
      <4>1. PICK i \in 1..Len(l.log) : /\ l.log[i].index = l.lastApplied
                                       /\ r.log = SubSeq(l.log, i + 1, Len(l.log))
                                       /\ r.snap.idx = l.lastApplied
        BY <3>4
      <4>2. l.log = <<Last>> /\ i = 1 /\ l.log[1] = Last
        <5>1. Len(<<>>) = 0 /\ Len(<<Last>>) = 1 /\ <<Last>>[1] = Last
          OBVIOUS
        <5>2. l.log # <<>>
          BY <5>1
        <5>3. l.log = <<Last>>
          BY <2>4, <5>2
        <5> QED
          BY <5>1, <5>3
      <4>3. l.lastApplied = 1 /\ r.snap.idx = 1
        BY <4>1, <4>2, FollowerLast
      <4>4. r.log = <<>>
        BY <4>1, <4>2
      <4>5. r.snap # Nil
        BY <3>1, <2>4, <2>5, SnapTaken
      <4>6. Has(r) /\ LastLogIdx(r) = 1
        BY <3>2, <4>3, <4>4, <4>5, FollowerLast DEF Has
      <4> QED
        BY <2>6, <3>1, <4>6
    <3> QED
      BY <3>2, <3>3, <3>4
  <2>8. CASE ~Overflows(s, m)
    <3> DEFINE g == MergeEntries(l, k, m.entries)
    <3>1. k \in 0..Len(l.log)
      BY <1>4, <2>4, FindArrayIdxType DEF k
    <3>2. g \in NodeStates
      BY <1>1, <3>1, MergeEntriesType
    <3>3. /\ g.snap = l.snap /\ g.lastApplied = l.lastApplied
          /\ Merged(l.log, k, m.entries, g.log)
      BY <1>1, <3>1, MergeEntriesLog
    <3>4. r = CommitFrom(g, m)
      BY <1>6, <2>2, <2>8
    <3> HIDE DEF g
    <3>5. SameLog(g, r)
      BY <3>2, <3>4, QuietLog
    <3>6. r.snap = s.snap /\ r.lastApplied = s.lastApplied /\ r.log = g.log
      BY <2>4, <3>3, <3>5 DEF SameLog
    <3>7. l.log \in Seq(Entry)
      BY <1>4, <2>4
    <3>8. CASE m.entries = <<Last>> /\ m.prevIdx = 0
      <4>1. k = 0
        <5>1. k # 0 => s.log = <<Last>> /\ k = 1
          BY <2>1, <2>5
        <5>2. k # 0 => s.log[k] = Last
          BY <5>1
        <5> QED
          BY <2>1, <3>8, <5>2, FollowerLast
      <4>2. /\ g.log \in Seq(Entry) /\ Len(g.log) >= 1
            /\ g.log = l.log \/ Len(g.log) = 1
            /\ g.log[1] = Last \/ (1 <= Len(l.log) /\ g.log[1] = l.log[1])
        <5>1. Len(m.entries) = 1 /\ m.entries[1] = Last
          BY <3>8
        <5>2. /\ g.log \in Seq(Entry) /\ Len(g.log) >= k + Len(m.entries)
              /\ g.log = l.log \/ Len(g.log) = k + Len(m.entries)
              /\ \A j \in 1..Len(m.entries) :
                    /\ g.log[k+j].index = m.entries[j].index /\ g.log[k+j].term = m.entries[j].term
                    /\ g.log[k+j] = m.entries[j] \/ (k + j <= Len(l.log) /\ g.log[k+j] = l.log[k+j])
          <6>1. l.log \in Seq(Entry) /\ m.entries \in Seq(Entry) /\ k \in 0..Len(l.log)
                /\ Merged(l.log, k, m.entries, g.log)
            BY <1>1, <3>1, <3>3, <3>7
          <6>2. MergedAs(l.log, k, m.entries, g.log)
            BY <6>1, MergedLog, Zenon
          <6> QED
            BY <6>2 DEF MergedAs
        <5> QED
          BY <4>1, <5>1, <5>2
      <4>3. l.log # <<>> => Len(l.log) = 1 /\ l.log[1] = Last
        BY <2>4
      <4>4. g.log[1] = Last /\ Len(g.log) = 1
        BY <2>4, <4>2, <4>3
      <4>5. g.log = <<Last>>
        BY <4>2, <4>4
      <4>6. Has(r) /\ r.log = <<Last>>
        BY <2>5, <3>6, <4>5 DEF Has
      <4>7. HasAll(r)
        BY <4>6, FollowerLast DEF HasAll
      <4> QED
        BY <2>6, <4>6, <4>7
    <3>9. CASE m.entries = <<>> /\ m.prevIdx = 1
      <4>1. g.log = l.log
        <5>1. 1..Len(m.entries) = {}
          BY <3>9
        <5>2. Differing(l.log, k, m.entries) = {}
          BY <5>1 DEF Differing
        <5> QED
          BY <3>3, <5>2 DEF Merged
      <4>2. SameLog(s, r)
        BY <2>4, <3>6, <4>1 DEF SameLog
      <4>3. Has(r) /\ LastLogIdx(r) = LastLogIdx(s)
        BY <2>3, <4>2 DEF SameLog, Has, LastLogIdx
      <4>4. LastLogIdx(s) = 1
        <5>1. CASE s.log = <<Last>>
          BY <5>1, FollowerLast
        <5>2. CASE s.log = <<>>
          <6>1. k = 0
            BY <2>1, <5>2
          <6>2. s.snap.idx = 1
            BY <2>2, <2>5, <3>9, <6>1
          <6> QED
            BY <2>3, <5>2, <6>2, FollowerLast
        <5> QED
          BY <2>5, <5>1, <5>2
      <4> QED
        BY <2>6, <4>2, <4>3, <4>4 DEF HasAll
    <3> QED
      BY <3>8, <3>9 DEF AEReqOK
  <2> QED
    BY <2>7, <2>8
<1>7. CASE \E l \in NodeStates :
            /\ SameLog(s, l) /\ PrevLogOK(s, m)
            /\ IF Overflows(s, m) THEN r = TakeSnapshot(l, data)
               ELSE r = CommitFrom(MergeEntries(l, MergePoint(s, m), m.entries), m)
  <2>1. Has(r) /\ Kept(s, r) /\ (AcceptsEntries(s, m) => HasAll(r))
    BY <1>6, <1>7
  <2> QED
    BY <1>2, <2>1 DEF FollowerOK
<1> QED
  BY <1>3, <1>5, <1>7

\* A snapshot is installed only where there was nothing.
LEMMA FollowerInstalls ==
    ASSUME NEW s \in NodeStates, FollowerOK(s), NEW m, ISReqOK(m),
           NEW r, r = HandleInstallSnapshot(s, m)
    PROVE  r \in NodeStates /\ FollowerOK(r) /\ Kept(s, r) /\ Has(r)
<1>1. /\ m.term = 2 /\ m.idx = 0 /\ m.lastTerm = 1 /\ m.data \in Seq(Command)
      /\ m.config \in SUBSET Server /\ s.currentTerm = 2 /\ s.role = Follower
  BY DEF ISReqOK, FollowerOK
<1>2. /\ r \in NodeStates /\ r.role = s.role
      /\ r.currentTerm = TermSeen(s, m.term).currentTerm
      /\ IF Installs(s, m)
         THEN /\ r.log = <<>> /\ r.commitIndex = m.idx /\ r.lastApplied = m.idx
              /\ r.snap # Nil /\ r.snap.idx = m.idx
         ELSE SameLog(s, r) /\ r.commitIndex = s.commitIndex
  BY <1>1, InstallSnapshotLog
<1>3. r.currentTerm = 2
  BY <1>1, <1>2 DEF TermSeen
<1>4. CASE Fresh(s)
  <2>1. Installs(s, m)
    BY <1>1, <1>4 DEF Installs, Fresh
  <2>2. Has(r)
    BY <1>1, <1>2, <2>1 DEF Has
  <2>3. ~Has(s) /\ LastLogIdx(s) = -1 /\ LastLogIdx(r) \in {0, 1}
    BY <1>4, <2>2, FollowerLast DEF Fresh, Has
  <2> QED
    BY <1>1, <1>2, <1>3, <2>2, <2>3 DEF Kept, HasAll, FollowerOK
<1>5. CASE Has(s)
  <2>1. ~Installs(s, m)
    <3>1. s.lastApplied \in Index /\ s.lastApplied >= 0
      BY <1>5 DEF NodeStates, Has
    <3> QED
      BY <1>1, <3>1 DEF Installs, Index
  <2>2. SameLog(s, r)
    BY <1>2, <2>1
  <2>3. Has(r) /\ LastLogIdx(r) = LastLogIdx(s) /\ LastLogIdx(s) \in {0, 1}
    BY <1>5, <2>2, FollowerLast DEF SameLog, Has, LastLogIdx
  <2> QED
    BY <1>1, <1>2, <1>3, <1>5, <2>3 DEF Kept, HasAll, FollowerOK
<1> QED
  BY <1>4, <1>5 DEF FollowerOK

-----------------------------------------------------------------------------
(***************************************************************************)
(* The leader.                                                             *)
(***************************************************************************)
\* Its snapshot and its log.
LEMMA LeaderHas ==
    ASSUME NEW s, LeaderOK(s)
    PROVE  /\ s.snap # Nil /\ s.snap.idx = 0 /\ s.snap.term = 1 /\ s.snap.data = <<>>
           /\ s.snap.config = Server
           /\ Len(s.log) = 1 /\ s.log[1] = Last /\ s.log # <<>>
           /\ LastLogIdx(s) = 1
           /\ \A i : FindArrayIdx(s.log, i) = IF i = 1 THEN 1 ELSE 0
<1>1. s.snap = Compacted /\ s.log = <<Last>>
  BY DEF LeaderOK
<1>2. /\ Compacted \in Snapshot /\ Compacted.idx = 0 /\ Compacted.term = 1 /\ Compacted.data = <<>>
      /\ Compacted.config = Server
  BY DEF Compacted, Snapshot
<1>3. Compacted # Nil
  BY <1>2, NilAssumption
<1>4. Len(s.log) = 1 /\ s.log[1] = Last /\ s.log # <<>>
  BY <1>1
<1>5. LastLogIdx(s) = 1
  BY <1>1, FollowerLast
<1>6. Last \in Entry /\ s.log \in Seq(Entry)
  <2>1. Last \in Entry
    BY DEF Last, Noop, Entry
  <2> QED
    BY <1>1, <2>1
<1>7. ASSUME NEW i PROVE FindArrayIdx(s.log, i) = IF i = 1 THEN 1 ELSE 0
  <2> DEFINE k == FindArrayIdx(s.log, i)
  <2>1. /\ k = 0 => \A j \in 1..Len(s.log) : s.log[j].index # i
        /\ k # 0 => k \in 1..Len(s.log) /\ s.log[k].index = i
    BY <1>6, FindArrayIdxFinds
  <2> HIDE DEF k
  <2>2. 1..Len(s.log) = {1} /\ s.log[1].index = 1
    BY <1>4, FollowerLast
  <2>3. k = IF i = 1 THEN 1 ELSE 0
    BY <2>1, <2>2
  <2> QED
    BY <2>3 DEF k
<1> QED
  BY <1>1, <1>2, <1>3, <1>4, <1>5, <1>7

\* checkCommits: everything is committed already.
LEMMA CommitsNothing ==
    ASSUME NEW s, LeaderOK(s)
    PROVE  CheckCommits(s) = s
<1>1. Len(s.log) = 1 /\ s.log[1] = Last /\ Last.index = 1 /\ s.commitIndex = 1
  BY LeaderHas, FollowerLast DEF LeaderOK
<1>2. ASSUME NEW k \in 1..Len(s.log), \A j \in k..Len(s.log) : s.log[j].index > s.commitIndex
      PROVE  FALSE
  <2>1. k = 1 /\ 1 \in k..Len(s.log)
    BY <1>1
  <2> QED
    BY <1>1, <1>2, <2>1
<1>3. Committable(s) = {}
  BY <1>2 DEF Committable
<1> QED
  BY <1>3 DEF CheckCommits

\* getAppendEntriesArgs: the last entry for who lacks it, else none; either way
\* the last index is the one that was sent last.
LEMMA LeaderArgs ==
    ASSUME NEW s \in NodeStates, LeaderOK(s), NEW p \in Peers(L), ~NextEntryCompacted(s, p)
    PROVE  AEReqOK(AEReqOf(L, s, p)) /\ LastSentFor(s, p) = 1
<1> DEFINE i == s.nextIndex[p]
           m == AEReqOf(L, s, p)
<1>1. p \in Server /\ i \in Nat /\ i <= 2
  BY DEF Peers, LeaderOK, NodeStates
<1>2. /\ s.snap # Nil /\ s.snap.idx = 0 /\ Len(s.log) = 1 /\ s.log[1] = Last /\ LastLogIdx(s) = 1
      /\ s.log = <<Last>> /\ s.currentTerm = 2 /\ Last.index = 1
  BY LeaderHas, FollowerLast DEF LeaderOK
<1>3. FindArrayIdx(s.log, i) = IF i = 1 THEN 1 ELSE 0
  BY LeaderHas
<1>4. i # 0
  BY <1>2, <1>3 DEF NextEntryCompacted
<1>5. /\ m.src = L /\ m.dst = p /\ m.term = 2 /\ m.entries = EntriesFor(s, p)
      /\ m.prevIdx = PrevFor(s, p).idx
  BY <1>2 DEF AEReqOf, AppendEntriesArgs
<1> HIDE DEF m
<1>6. CASE i = 1
  <2>1. FindArrayIdx(s.log, s.nextIndex[p]) = 1
    BY <1>3, <1>6
  <2>2. EntriesFor(s, p) = SubSeq(s.log, 1, Len(s.log))
    BY <2>1 DEF EntriesFor
  <2>3. EntriesFor(s, p) = <<Last>>
    <3>1. s.log \in Seq(Entry)
      BY DEF NodeStates
    <3>2. SubSeq(s.log, 1, Len(s.log)) = s.log
      BY <3>1
    <3> QED
      BY <1>2, <2>2, <3>2
  <2>4. PrevFor(s, p) = [idx |-> s.snap.idx, term |-> s.snap.term]
    BY <1>2, <2>1 DEF PrevFor
  <2>5. LastSentFor(s, p) = 1
    <3>1. <<Last>> # <<>> /\ Len(<<Last>>) = 1 /\ <<Last>>[1] = Last
      OBVIOUS
    <3> QED
      BY <1>2, <2>3, <3>1 DEF LastSentFor
  <2> QED
    BY <1>2, <1>5, <2>3, <2>4, <2>5 DEF AEReqOK, m
<1>7. CASE i = 2
  <2>1. FindArrayIdx(s.log, s.nextIndex[p]) = 0
    BY <1>3, <1>7
  <2>2. EntriesFor(s, p) = <<>>
    BY <2>1 DEF EntriesFor
  <2>3. PrevFor(s, p) = [idx |-> LastLogIdx(s), term |-> LastLogTerm(s)]
    BY <2>1 DEF PrevFor
  <2>4. LastSentFor(s, p) = 1
    BY <1>7, <2>2 DEF LastSentFor
  <2> QED
    BY <1>2, <1>5, <2>2, <2>3, <2>4 DEF AEReqOK, m
<1> QED
  BY <1>1, <1>4, <1>6, <1>7

\* The heartbeat changes what was sent last, no more.
LEMMA LeaderBeats ==
    ASSUME NEW s \in NodeStates, LeaderOK(s), NEW r, r = CheckCommits(ArgsBuilt(s, Peers(L)))
    PROVE  LeaderOK(r) /\ r.matchIndex = s.matchIndex
<1> DEFINE ls == [p \in Server |->
                    IF p \in Peers(L) /\ ~NextEntryCompacted(s, p) THEN LastSentFor(s, p) ELSE s.lastSent[p]]
           w  == [s EXCEPT !.lastSent = ls]
<1>1. ASSUME NEW p \in Server PROVE ls[p] <= 1
  BY LeaderArgs DEF LeaderOK
<1>2. w = ArgsBuilt(s, Peers(L))
  BY DEF ArgsBuilt
<1> HIDE DEF ls
<1>3. /\ w.lastSent = ls /\ w.role = s.role /\ w.currentTerm = s.currentTerm /\ w.log = s.log
      /\ w.snap = s.snap /\ w.commitIndex = s.commitIndex /\ w.lastApplied = s.lastApplied
      /\ w.nextIndex = s.nextIndex /\ w.matchIndex = s.matchIndex
  BY DEF NodeStates
<1> HIDE DEF w
<1>4. LeaderOK(w)
  BY <1>1, <1>3 DEF LeaderOK
<1>5. r = w
  BY <1>2, <1>4, CommitsNothing
<1> QED
  BY <1>3, <1>4, <1>5

\* An answer to AppendEntries: the follower that accepted has the last entry.
LEMMA LeaderAnswered ==
    ASSUME NEW s \in NodeStates, LeaderOK(s), NEW a \in AEResp, a.src \in Peers(L), a.term = 2,
           a.lastIdx <= 1, NEW r, r = HandleAppendEntriesResponse(s, a)
    PROVE  /\ LeaderOK(r)
           /\ \A p \in Server : p # a.src \/ ~a.success => r.matchIndex[p] = s.matchIndex[p]
           /\ a.success => r.matchIndex[a.src] <= 1
<1>1. /\ a.src \in Server /\ a.success \in BOOLEAN /\ a.lastIdx \in Index /\ s.currentTerm = 2
      /\ a.term \in Nat
  BY DEF AEResp, Peers, LeaderOK
<1>2. /\ s.lastSent[a.src] \in Index /\ s.lastSent[a.src] <= 1
      /\ s.nextIndex \in [Server -> Nat] /\ s.matchIndex \in [Server -> Index]
      /\ \A p \in Server : s.nextIndex[p] <= 2
  BY <1>1 DEF LeaderOK, NodeStates
<1>3. CASE ~a.success
  <2> DEFINE i  == IF a.lastIdx >= 0 THEN a.lastIdx ELSE 0
             ni == [s.nextIndex EXCEPT ![a.src] = i]
  <2>1. r = [s EXCEPT !.nextIndex = ni]
    BY <1>1, <1>3 DEF HandleAppendEntriesResponse
  <2>2. i <= 2
    BY <1>1 DEF Index
  <2> HIDE DEF i
  <2>3. \A p \in Server : ni[p] <= 2
    BY <1>1, <1>2, <2>2
  <2> HIDE DEF ni
  <2>4. /\ r.nextIndex = ni /\ r.role = s.role /\ r.currentTerm = s.currentTerm /\ r.log = s.log
        /\ r.snap = s.snap /\ r.commitIndex = s.commitIndex /\ r.lastApplied = s.lastApplied
        /\ r.lastSent = s.lastSent /\ r.matchIndex = s.matchIndex
    BY <2>1 DEF NodeStates
  <2>5. LeaderOK(r)
    BY <2>3, <2>4 DEF LeaderOK
  <2> QED
    BY <1>3, <2>4, <2>5
<1>4. CASE a.success
  <2> DEFINE ni == [s.nextIndex  EXCEPT ![a.src] = s.lastSent[a.src] + 1]
             mi == [s.matchIndex EXCEPT ![a.src] = s.lastSent[a.src]]
  <2>1. r = [s EXCEPT !.nextIndex = ni, !.matchIndex = mi]
    BY <1>4 DEF HandleAppendEntriesResponse
  <2>2. s.lastSent[a.src] + 1 <= 2
    BY <1>2 DEF Index
  <2>3. \A p \in Server : ni[p] <= 2
    BY <1>1, <1>2, <2>2
  <2>4. mi[a.src] <= 1 /\ \A p \in Server : p # a.src => mi[p] = s.matchIndex[p]
    BY <1>1, <1>2
  <2> HIDE DEF ni, mi
  <2>5. /\ r.nextIndex = ni /\ r.role = s.role /\ r.currentTerm = s.currentTerm /\ r.log = s.log
        /\ r.snap = s.snap /\ r.commitIndex = s.commitIndex /\ r.lastApplied = s.lastApplied
        /\ r.lastSent = s.lastSent /\ r.matchIndex = mi
    BY <2>1 DEF NodeStates
  <2>6. LeaderOK(r)
    BY <2>3, <2>5 DEF LeaderOK
  <2> QED
    BY <1>4, <2>4, <2>5, <2>6
<1> QED
  BY <1>1, <1>3, <1>4

\* An answer to InstallSnapshot acknowledges the snapshot.
LEMMA LeaderInstalled ==
    ASSUME NEW s \in NodeStates, LeaderOK(s), NEW a, a.src \in Peers(L), a.term = 2,
           a.success \in BOOLEAN, a.idx = 0, NEW r, r = HandleInstallSnapshotResponse(s, a)
    PROVE  /\ r \in NodeStates
           /\ a.success => /\ LeaderOK(r)
                           /\ \A p \in Server : p # a.src => r.matchIndex[p] = s.matchIndex[p]
                           /\ r.matchIndex[a.src] = 0
<1>1. a.src \in Server /\ a.term \in Nat /\ a.idx \in Nat
  BY DEF Peers
<1>2. /\ r \in NodeStates /\ SameLog(s, r) /\ r.commitIndex = s.commitIndex
      /\ a.success => /\ r.role = s.role /\ r.currentTerm = s.currentTerm
                      /\ r.lastSent   = [s.lastSent   EXCEPT ![a.src] = a.idx]
                      /\ r.nextIndex  = [s.nextIndex  EXCEPT ![a.src] = a.idx + 1]
                      /\ r.matchIndex = [s.matchIndex EXCEPT ![a.src] = a.idx]
  BY ONLY s \in NodeStates, a.success \in BOOLEAN, r = HandleInstallSnapshotResponse(s, a),
          <1>1, InstallResponseLog
<1>3. /\ s.lastSent \in [Server -> Index] /\ s.nextIndex \in [Server -> Nat]
      /\ s.matchIndex \in [Server -> Index]
  BY DEF NodeStates
<1>4. \A p \in Server : s.nextIndex[p] <= 2 /\ s.lastSent[p] <= 1
  BY DEF LeaderOK
<1>5. ASSUME a.success PROVE \A p \in Server : r.nextIndex[p] <= 2 /\ r.lastSent[p] <= 1
  BY <1>2, <1>3, <1>4, <1>5
<1>6. ASSUME a.success PROVE LeaderOK(r)
  BY <1>2, <1>5, <1>6 DEF LeaderOK, SameLog
<1> QED
  BY <1>1, <1>2, <1>3, <1>6

-----------------------------------------------------------------------------
(***************************************************************************)
(* Steps of the cluster.                                                   *)
(***************************************************************************)
AllOK == TypeOK /\ NodesOK /\ CallsOK /\ InstallsOK

\* What an answer says of its sender stays true.
AnswersKept ==
    \A r : /\ AERespOK(r) => AERespOK(r)'
           /\ ISRespOK(r) => ISRespOK(r)'

\* Quiet changes before and after a step of a follower.
LEMMA KeptLike ==
    ASSUME NEW s, NEW t, NEW r
    PROVE  /\ Kept(s, t) /\ Like(t, r) => Kept(s, r)
           /\ Like(s, t) /\ Kept(t, r) => Kept(s, r)
           /\ Like(s, r) /\ LastLogIdx(s) \in Int => Kept(s, r)
<1>1. Like(t, r) => LastLogIdx(r) = LastLogIdx(t) /\ (Has(t) => Has(r)) /\ (HasAll(t) => HasAll(r))
  BY LikeKeeps
<1>2. Like(s, t) => LastLogIdx(t) = LastLogIdx(s) /\ (Has(s) => Has(t)) /\ (HasAll(s) => HasAll(t))
  BY LikeKeeps
<1>3. Like(s, r) => LastLogIdx(r) = LastLogIdx(s) /\ (Has(s) => Has(r)) /\ (HasAll(s) => HasAll(r))
  BY LikeKeeps
<1> QED
  BY <1>1, <1>2, <1>3 DEF Kept

\* persistState.
LEMMA PersistLike ==
    ASSUME TypeOK, NEW n \in Server, NEW s \in NodeStates, Persist(n, s)
    PROVE  Like(s, node'[n]) /\ \A p \in Server \ {n} : node'[p] = node[p]
<1>1. node \in [Server -> NodeStates]
  BY DEF TypeOK
<1>2. node' = [node EXCEPT ![n] = NoteStored(s)]
  BY DEF Persist
<1>3. Like(s, NoteStored(s))
  BY QuietLike
<1> QED
  BY <1>1, <1>2, <1>3

\* One follower moves.
LEMMA FollowerMoves ==
    ASSUME TypeOK, TypeOK', NodesOK, NEW n \in Peers(L),
           \A p \in Server \ {n} : node'[p] = node[p] /\ loop'[p] = loop[p],
           FollowerOK(node'[n]), Kept(node[n], node'[n]), loop'[n] \in {"top", Follower}
    PROVE  NodesOK' /\ AnswersKept
<1>1. L \in Server /\ L # n /\ n \in Server /\ Peers(L) = Server \ {L}
  BY InstallAssumption DEF Peers
<1>2. node'[L] = node[L] /\ loop'[L] = loop[L]
  BY <1>1
<1>3. LeaderOK(node'[L]) /\ loop'[L] \in {"top", Leader}
  BY <1>2 DEF NodesOK
<1>4. ASSUME NEW p \in Peers(L)
      PROVE  /\ FollowerOK(node'[p]) /\ loop'[p] \in {"top", Follower}
             /\ Has(node[p]) => Has(node'[p])
             /\ HasAll(node[p]) => HasAll(node'[p])
             /\ LastLogIdx(node[p]) <= LastLogIdx(node'[p])
  <2>1. CASE p = n
    BY <2>1 DEF Kept
  <2>2. CASE p # n
    <3>1. node'[p] = node[p] /\ loop'[p] = loop[p] /\ node[p] \in NodeStates
      BY <1>1, <2>2 DEF TypeOK
    <3>2. LastLogIdx(node[p]) \in Int
      BY <3>1, LastLogType DEF Index
    <3> QED
      BY <3>1, <3>2 DEF NodesOK
  <2> QED
    BY <2>1, <2>2
<1>5. ASSUME NEW p \in Peers(L) PROVE node'[L].matchIndex[p] <= LastLogIdx(node'[p])
  <2>1. p \in Server /\ node[L] \in NodeStates /\ node[p] \in NodeStates /\ node'[p] \in NodeStates
    BY <1>1 DEF TypeOK
  <2>2. node[L].matchIndex[p] \in Int
    <3>1. node[L].matchIndex \in [Server -> Index]
      BY <2>1 DEF NodeStates
    <3> QED
      BY <2>1, <3>1 DEF Index
  <2>3. LastLogIdx(node[p]) \in Int /\ LastLogIdx(node'[p]) \in Int
    BY <2>1, LastLogType DEF Index
  <2>4. node[L].matchIndex[p] <= LastLogIdx(node[p])
    BY DEF NodesOK
  <2> QED
    BY <1>2, <1>4, <2>2, <2>3, <2>4
<1>6. NodesOK'
  BY <1>3, <1>4, <1>5 DEF NodesOK
<1>7. AnswersKept
  BY <1>4 DEF AnswersKept, AERespOK, ISRespOK
<1> QED
  BY <1>6, <1>7

\* The leader moves.
LEMMA LeaderMoves ==
    ASSUME NodesOK, \A p \in Peers(L) : node'[p] = node[p] /\ loop'[p] = loop[p],
           LeaderOK(node'[L]), loop'[L] \in {"top", Leader},
           \A p \in Peers(L) : \/ node'[L].matchIndex[p] = node[L].matchIndex[p]
                               \/ node'[L].matchIndex[p] <= LastLogIdx(node[p])
    PROVE  NodesOK' /\ AnswersKept
<1>1. ASSUME NEW p \in Peers(L)
      PROVE  /\ FollowerOK(node'[p]) /\ loop'[p] \in {"top", Follower}
             /\ node'[L].matchIndex[p] <= LastLogIdx(node'[p])
  <2>1. /\ FollowerOK(node[p]) /\ loop[p] \in {"top", Follower}
        /\ node[L].matchIndex[p] <= LastLogIdx(node[p])
        /\ node'[p] = node[p] /\ loop'[p] = loop[p]
    BY DEF NodesOK
  <2> QED
    BY <2>1
<1>2. NodesOK'
  BY <1>1 DEF NodesOK
<1>3. AnswersKept
  BY DEF AnswersKept, AERespOK, ISRespOK
<1> QED
  BY <1>2, <1>3

\* AppendEntries calls: only what is sent or taken up now is new.
LEMMA CallsKept ==
    ASSUME CallsOK, AnswersKept, UNCHANGED <<voteReqs, voteResps>>,
           \A m \in DOMAIN aeRpcs' : \/ m \in DOMAIN aeRpcs
                                     \/ m.type = "request" /\ AEReqOK(m)
                                     \/ m.type = "response" /\ AERespOK(m)',
           \A x \in Server : \/ held'[x] = held[x] \/ held'[x] = Nil
                             \/ x = L /\ AERespOK(held[x])'
    PROVE  CallsOK'
<1>1. ASSUME NEW m \in DOMAIN aeRpcs'
      PROVE  (m.type = "request" => AEReqOK(m)) /\ (m.type = "response" => AERespOK(m)')
  <2>1. CASE m \in DOMAIN aeRpcs
    BY <2>1 DEF CallsOK, AnswersKept
  <2>2. CASE m.type = "request" /\ AEReqOK(m)
    BY <2>2
  <2>3. CASE m.type = "response" /\ AERespOK(m)'
    BY <2>3
  <2> QED
    BY <2>1, <2>2, <2>3
<1>2. ASSUME NEW x \in Server, held'[x] # Nil
      PROVE  x = L /\ AERespOK(held[x])'
  <2>1. CASE held'[x] = held[x]
    <3>1. x = L /\ AERespOK(held[x])
      BY <1>2, <2>1 DEF CallsOK
    <3> QED
      BY <2>1, <3>1 DEF AnswersKept, AERespOK
  <2> QED
    BY <1>2, <2>1
<1>3. \A m : AEReqOK(m) => AEReqOK(m)'
  BY DEF AEReqOK
<1> QED
  BY <1>1, <1>2, <1>3 DEF CallsOK

\* InstallSnapshot calls likewise.
LEMMA InstallsKept ==
    ASSUME InstallsOK, AnswersKept,
           \A m \in isRpcs' : \/ m \in isRpcs
                              \/ m.type = "request" /\ ISReqOK(m)
                              \/ m.type = "response" /\ ISRespOK(m)',
           DOMAIN isHeld' = Server,
           \A x \in Server : \/ isHeld'[x] = isHeld[x] \/ isHeld'[x] = Nil
                             \/ x = L /\ ISRespOK(isHeld[x])',
           install' \in [Server -> Seq(Command) \cup {Nil}]
    PROVE  InstallsOK'
<1>1. \A m : ISReqOK(m) => ISReqOK(m)'
  BY DEF ISReqOK
<1>2. ASSUME NEW m \in isRpcs'
      PROVE  \/ m.type = "request" /\ ISReqOK(m)
             \/ m.type = "response" /\ ISRespOK(m)'
  BY DEF InstallsOK, AnswersKept
<1>3. ASSUME NEW x \in Server, isHeld'[x] # Nil
      PROVE  x = L /\ ISRespOK(isHeld[x])'
  BY <1>3 DEF InstallsOK, AnswersKept, ISRespOK
<1> QED
  BY <1>1, <1>2, <1>3 DEF InstallsOK

\* A step without calls.
LEMMA NoCalls ==
    ASSUME AllOK, TypeOK', NodesOK', AnswersKept, UNCHANGED <<voteReqs, voteResps, aeRpcs, held, isVars>>
    PROVE  AllOK'
<1>1. CallsOK'
  BY CallsKept DEF AllOK
<1>2. DOMAIN isHeld' = Server /\ install' \in [Server -> Seq(Command) \cup {Nil}]
  BY DEF AllOK, InstallsOK, isVars
<1>3. InstallsOK'
  BY <1>2, InstallsKept DEF AllOK, isVars
<1> QED
  BY <1>1, <1>3 DEF AllOK

\* A step that changes no node.
LEMMA NoNode ==
    ASSUME AllOK, UNCHANGED <<node, loop>>
    PROVE  NodesOK' /\ AnswersKept
  BY DEF AllOK, NodesOK, AnswersKept, AERespOK, ISRespOK

\* checkLogsToApply: the leader has applied everything.
LEMMA ApplyOK ==
    ASSUME AllOK, NEW n \in Server, ApplyLog(n), UNCHANGED isVars
    PROVE  AllOK'
<1> DEFINE a == node[n].lastApplied + 1
           r == [node[n] EXCEPT !.lastApplied = a]
<1>1. TypeOK /\ TypeOK' /\ NodesOK /\ node[n] \in NodeStates
  BY ApplyLogStep DEF AllOK, TypeOK
<1>2. /\ node[n].commitIndex > node[n].lastApplied
      /\ node' = [node EXCEPT ![n] = r] /\ loop' = loop /\ loop[n] = "top"
      /\ UNCHANGED <<voteReqs, voteResps, aeRpcs, held>>
  BY DEF ApplyLog, CanApply, Update, netVars
<1>3. n # L
  BY <1>1, <1>2 DEF NodesOK, LeaderOK
<1>4. n \in Peers(L) /\ FollowerOK(node[n])
  BY <1>1, <1>3 DEF Peers, NodesOK
<1>5. Has(node[n])
  BY <1>2, <1>4 DEF FollowerOK, Fresh
<1>6. a >= 0
  <2>1. node[n].lastApplied \in Index /\ node[n].lastApplied >= 0
    BY <1>1, <1>5 DEF NodeStates, Has
  <2> QED
    BY <2>1 DEF Index
<1> HIDE DEF a
<1>7. /\ r.lastApplied = a /\ r.log = node[n].log /\ r.snap = node[n].snap
      /\ r.role = node[n].role /\ r.currentTerm = node[n].currentTerm
  BY <1>1 DEF NodeStates
<1> HIDE DEF r
<1>8. Has(r) /\ LastLogIdx(r) = LastLogIdx(node[n])
  BY <1>5, <1>6, <1>7 DEF Has, LastLogIdx
<1>9. FollowerOK(r) /\ Kept(node[n], r)
  <2>1. LastLogIdx(node[n]) \in Int
    BY <1>5, FollowerLast
  <2> QED
    BY <1>4, <1>5, <1>7, <1>8, <2>1 DEF FollowerOK, Kept, HasAll
<1>10. node'[n] = r /\ \A p \in Server \ {n} : node'[p] = node[p]
  BY <1>1, <1>2 DEF TypeOK
<1>11. NodesOK' /\ AnswersKept
  BY <1>1, <1>2, <1>4, <1>9, <1>10, FollowerMoves
<1> QED
  BY <1>1, <1>2, <1>11, NoCalls

\* run reads the role.
LEMMA SelectOK ==
    ASSUME AllOK, NEW n \in Server, EnterSelect(n), UNCHANGED isVars
    PROVE  AllOK'
<1> DEFINE r == IF node[n].role = Leader THEN node[n] ELSE CheckElectionTimeout(node[n])
<1>1. /\ TypeOK /\ TypeOK' /\ NodesOK /\ node[n] \in NodeStates
      /\ node \in [Server -> NodeStates] /\ loop \in [Server -> Stages] /\ L \in Server
  BY EnterSelectStep, InstallAssumption DEF AllOK, TypeOK
<1>2. /\ node' = [node EXCEPT ![n] = r] /\ loop' = [loop EXCEPT ![n] = node[n].role]
      /\ UNCHANGED <<voteReqs, voteResps, aeRpcs, held>>
  BY DEF EnterSelect, Update, GoTo, netVars
<1>3. Like(node[n], r)
  BY <1>1, QuietLike
<1> HIDE DEF r
<1>4. /\ node'[n] = r /\ loop'[n] = node[n].role
      /\ \A p \in Server \ {n} : node'[p] = node[p] /\ loop'[p] = loop[p]
  BY <1>1, <1>2
<1>5. NodesOK' /\ AnswersKept
  <2>1. CASE n = L
    <3>1. LeaderOK(node[L]) /\ LeaderOK(node'[L]) /\ node'[L].matchIndex = node[L].matchIndex
      BY <1>1, <1>3, <1>4, <2>1, LikeKeeps DEF NodesOK, Like
    <3>2. loop'[L] = Leader
      BY <1>4, <2>1, <3>1 DEF LeaderOK
    <3>3. \A p \in Peers(L) : node'[p] = node[p] /\ loop'[p] = loop[p]
      BY <1>4, <2>1 DEF Peers
    <3> QED
      BY <1>1, <3>1, <3>2, <3>3, LeaderMoves
  <2>2. CASE n # L
    <3>1. n \in Peers(L) /\ FollowerOK(node[n])
      BY <1>1, <2>2 DEF Peers, NodesOK
    <3>2. LastLogIdx(node[n]) \in Int
      BY <1>1, LastLogType DEF Index
    <3>3. FollowerOK(node'[n]) /\ Kept(node[n], node'[n])
      BY <1>3, <1>4, <3>1, <3>2, LikeKeeps, KeptLike
    <3>4. loop'[n] = Follower
      BY <1>4, <3>1 DEF FollowerOK
    <3> QED
      BY <1>1, <1>4, <3>1, <3>3, <3>4, FollowerMoves
  <2> QED
    BY <2>1, <2>2
<1> QED
  BY <1>1, <1>2, <1>5, NoCalls

\* sendInstallSnapshotRPC.
LEMMA SendsOK ==
    ASSUME AllOK, AnswersKept, NEW s, LeaderOK(s), NEW ps \in SUBSET Peers(L), SendInstalls(L, s, ps)
    PROVE  InstallsOK'
<1>1. PICK sent \in SUBSET ps : /\ isRpcs' = isRpcs \cup {ISReqOf(L, s, p) : p \in sent}
                                /\ UNCHANGED <<isHeld, install>>
  BY DEF SendInstalls
<1>2. ASSUME NEW p \in Peers(L)
      PROVE  ISReqOf(L, s, p).type = "request" /\ ISReqOK(ISReqOf(L, s, p))
  <2>1. /\ s.snap.idx = 0 /\ s.snap.term = 1 /\ s.snap.data = <<>> /\ s.snap.config = Server
        /\ s.currentTerm = 2
    BY LeaderHas DEF LeaderOK
  <2> QED
    BY <2>1 DEF ISReqOf, InstallArgs, ISReqOK
<1>3. ASSUME NEW m \in isRpcs'
      PROVE  m \in isRpcs \/ (m.type = "request" /\ ISReqOK(m))
  BY <1>1, <1>2
<1>4. DOMAIN isHeld' = Server /\ install' \in [Server -> Seq(Command) \cup {Nil}]
  BY <1>1 DEF AllOK, InstallsOK
<1> QED
  BY <1>1, <1>3, <1>4, InstallsKept DEF AllOK

\* The heartbeat: AppendEntries to some peers, InstallSnapshot to others.
LEMMA HeartbeatOK ==
    ASSUME AllOK, NEW n \in Server, Heartbeat(n), SendInstalls(n, node[n], Behind(n, node[n]))
    PROVE  AllOK'
<1>1. /\ TypeOK /\ TypeOK' /\ NodesOK /\ CallsOK /\ node[n] \in NodeStates
      /\ node \in [Server -> NodeStates] /\ loop \in [Server -> Stages] /\ L \in Server
  BY HeartbeatStep, InstallAssumption DEF AllOK, TypeOK
<1>2. /\ node' = [node EXCEPT ![n] = CheckCommits(ArgsBuilt(node[n], Peers(n)))]
      /\ loop' = [loop EXCEPT ![n] = "top"] /\ loop[n] = Leader
      /\ SendAE(AEReqsOf(n, node[n]))
      /\ UNCHANGED <<voteReqs, voteResps, held>>
  BY DEF Heartbeat, Update, GoTo
<1>3. n = L
  <2>1. n # L => loop[n] \in {"top", Follower}
    BY <1>1 DEF Peers, NodesOK
  <2> QED
    BY <1>2, <2>1 DEF Follower, Leader
<1>4. LeaderOK(node[L])
  BY <1>1 DEF NodesOK
<1>5. LeaderOK(node'[L]) /\ node'[L].matchIndex = node[L].matchIndex
  BY <1>1, <1>2, <1>3, <1>4, LeaderBeats
<1>6. /\ loop'[L] = "top"
      /\ \A p \in Peers(L) : node'[p] = node[p] /\ loop'[p] = loop[p]
  BY <1>1, <1>2, <1>3 DEF Peers
<1>7. NodesOK' /\ AnswersKept
  BY <1>1, <1>5, <1>6, LeaderMoves
<1>8. DOMAIN aeRpcs' \subseteq DOMAIN aeRpcs \cup AEReqsOf(L, node[L])
  BY <1>1, <1>2, <1>3, SendAEType
<1>9. ASSUME NEW m \in AEReqsOf(L, node[L])
      PROVE  m.type = "request" /\ AEReqOK(m)
  <2>1. PICK p \in Peers(L) : ~NextEntryCompacted(node[L], p) /\ m = AEReqOf(L, node[L], p)
    BY DEF AEReqsOf
  <2>2. m.type = "request"
    BY <2>1 DEF AEReqOf
  <2>3. AEReqOK(m)
    BY <1>1, <1>3, <1>4, <2>1, LeaderArgs
  <2> QED
    BY <2>2, <2>3
<1>10. CallsOK'
  BY <1>1, <1>2, <1>7, <1>8, <1>9, CallsKept
<1>11. InstallsOK'
  <2>1. Behind(L, node[L]) \in SUBSET Peers(L)
    BY DEF Behind
  <2> QED
    BY <1>3, <1>4, <1>7, <2>1, SendsOK
<1> QED
  BY <1>1, <1>7, <1>10, <1>11 DEF AllOK

\* A follower in its select statement.
LEMMA InFollowerSelect ==
    ASSUME AllOK, NEW n \in Peers(L), InSelect(n)
    PROVE  /\ loop[n] = Follower /\ loop[n] # Leader
           /\ n \in Server /\ FollowerOK(node[n]) /\ node[n] \in NodeStates
<1>1. loop[n] \in {"top", Follower} /\ FollowerOK(node[n]) /\ n \in Server
  BY DEF AllOK, NodesOK, Peers
<1>2. loop[n] = Follower
  BY <1>1 DEF InSelect, Follower, Candidate, Leader
<1> QED
  BY <1>1, <1>2 DEF AllOK, TypeOK, Follower, Leader

\* handleAppendEntries and its answer.
LEMMA AppendOK ==
    ASSUME AllOK, NEW n \in Server, NEW m \in DOMAIN aeRpcs, HandleAEReq(n, m), UNCHANGED isVars
    PROVE  AllOK'
<1> DEFINE b    == BeforeRPC(n)
           h    == HandleAppendEntries(b, m, sm[n])
           ok   == AcceptsEntries(b, m)
           resp == AERespTo(m, h, ok)
           rest == aeRpcs (-) SetToBag({m})
<1>1. /\ TypeOK /\ TypeOK' /\ NodesOK /\ CallsOK /\ InstallsOK /\ m \in AEReq /\ sm[n] \in Seq(Command)
      /\ loop \in [Server -> Stages] /\ RpcBag(aeRpcs)
  BY HandleAEReqStep DEF AllOK, TypeOK, RpcBag
<1>2. /\ InSelect(n) /\ m.type = "request" /\ m.dst = n
      /\ Persist(n, AfterSelect(n, h))
      /\ aeRpcs' = rest \/ aeRpcs' = rest (+) SetToBag({resp})
      /\ loop' = [loop EXCEPT ![n] = "top"]
      /\ UNCHANGED <<held, voteReqs, voteResps>>
  BY DEF HandleAEReq, GoTo
<1>3. AEReqOK(m) /\ m.src = L /\ n \in Peers(L)
  BY <1>1, <1>2 DEF CallsOK, AEReqOK
<1>4. loop[n] = Follower /\ loop[n] # Leader /\ FollowerOK(node[n]) /\ node[n] \in NodeStates
  BY <1>2, <1>3, InFollowerSelect
<1>5. b \in NodeStates /\ Like(node[n], b)
  BY <1>1, <1>4, BeforeRPCKeeps, QuietLike DEF BeforeRPC
<1>6. FollowerOK(b)
  BY <1>4, <1>5, LikeKeeps
<1> HIDE DEF b
<1>7. h \in NodeStates /\ FollowerOK(h) /\ Kept(b, h) /\ (ok => HasAll(h))
  BY <1>1, <1>3, <1>5, <1>6, FollowerAppends
<1>8. Persist(n, h)
  BY <1>2, <1>4 DEF AfterSelect
<1>9. resp = [type |-> "response", src |-> n, dst |-> L, term |-> h.currentTerm,
              success |-> ok, lastIdx |-> LastLogIdx(node[n])]
  BY <1>2, <1>3 DEF AERespTo
<1>10. ok \in BOOLEAN
  BY DEF AcceptsEntries
<1> HIDE DEF h, ok, resp, rest
<1>11. Like(h, node'[n]) /\ \A p \in Server \ {n} : node'[p] = node[p]
  BY <1>1, <1>7, <1>8, PersistLike
<1>12. FollowerOK(node'[n]) /\ Kept(node[n], node'[n]) /\ (ok => HasAll(node'[n]))
  BY <1>5, <1>7, <1>11, LikeKeeps, KeptLike
<1>13. loop'[n] = "top" /\ \A p \in Server \ {n} : loop'[p] = loop[p]
  BY <1>1, <1>2
<1>14. NodesOK' /\ AnswersKept
  BY <1>1, <1>3, <1>11, <1>12, <1>13, FollowerMoves
<1>15. h.currentTerm = 2 /\ LastLogIdx(node[n]) \in Index /\ LastLogIdx(node[n]) <= 1
  <2>1. LastLogIdx(node[n]) \in {-1, 0, 1}
    BY <1>4, FollowerLast DEF FollowerOK
  <2> QED
    BY <1>7, <2>1 DEF FollowerOK, Index
<1>16. resp \in AEResp
  BY <1>9, <1>10, <1>15, InstallAssumption DEF AEResp
<1>17. RpcBag(rest) /\ DOMAIN rest \subseteq DOMAIN aeRpcs
  BY <1>1, BagRemoveRpc DEF rest
<1>18. DOMAIN (rest (+) SetToBag({resp})) = DOMAIN rest \cup {resp}
  BY <1>16, <1>17, BagSendRpc
<1>19. DOMAIN aeRpcs' \subseteq DOMAIN aeRpcs \cup {resp}
  BY <1>2, <1>17, <1>18
<1>20. ASSUME NEW x \in DOMAIN aeRpcs', x \notin DOMAIN aeRpcs
       PROVE  x.type = "response" /\ AERespOK(x)'
  <2>1. x = resp
    BY <1>19, <1>20
  <2>2. /\ x.type = "response" /\ x.src = n /\ x.dst = L /\ x.term = 2 /\ x.lastIdx <= 1
        /\ x.success = ok
    BY <1>9, <1>15, <2>1
  <2>3. x.success => HasAll(node'[n])
    BY <1>12, <2>2
  <2> QED
    BY <1>3, <2>2, <2>3 DEF AERespOK
<1>21. CallsOK'
  BY <1>1, <1>2, <1>14, <1>20, CallsKept
<1>22. DOMAIN isHeld' = Server /\ install' \in [Server -> Seq(Command) \cup {Nil}]
  BY <1>1 DEF InstallsOK, isVars
<1>23. InstallsOK'
  BY <1>1, <1>14, <1>22, InstallsKept DEF isVars
<1> QED
  BY <1>1, <1>14, <1>21, <1>23 DEF AllOK

\* The leader's handler receives an answer.
LEMMA ReceiveOK ==
    ASSUME AllOK, NEW n \in Server, NEW r \in DOMAIN aeRpcs, ReceiveAEResp(n, r), UNCHANGED isVars
    PROVE  AllOK'
<1>1. /\ TypeOK /\ TypeOK' /\ CallsOK /\ InstallsOK /\ DOMAIN aeRpcs' \subseteq DOMAIN aeRpcs
      /\ held \in [Server -> AEResp \cup {Nil}]
  BY ReceiveAERespStep DEF AllOK, TypeOK
<1>2. /\ r.type = "response" /\ r.dst = n /\ UNCHANGED <<node, loop, voteReqs, voteResps>>
      /\ held' = [held EXCEPT ![n] = r] \/ held' = held
  BY DEF ReceiveAEResp
<1>3. AERespOK(r) /\ n = L
  BY <1>1, <1>2 DEF CallsOK, AERespOK
<1>4. NodesOK' /\ AnswersKept
  BY <1>2, NoNode
<1>5. AERespOK(r)'
  BY <1>3, <1>4 DEF AnswersKept
<1>6. ASSUME NEW x \in Server
      PROVE  held'[x] = held[x] \/ (x = L /\ AERespOK(held[x])')
  <2>1. CASE x = n /\ held' = [held EXCEPT ![n] = r]
    <3>1. held'[x] = r
      BY <1>1, <2>1
    <3> QED
      BY <1>3, <1>5, <2>1, <3>1 DEF AERespOK
  <2>2. CASE x # n \/ held' = held
    BY <1>1, <1>2, <2>2
  <2> QED
    BY <1>2, <2>1, <2>2
<1>7. CallsOK'
  BY <1>1, <1>2, <1>4, <1>6, CallsKept
<1>8. DOMAIN isHeld' = Server /\ install' \in [Server -> Seq(Command) \cup {Nil}]
  BY <1>1 DEF InstallsOK, isVars
<1>9. InstallsOK'
  BY <1>1, <1>4, <1>8, InstallsKept DEF isVars
<1> QED
  BY <1>1, <1>4, <1>7, <1>9 DEF AllOK

\* It handles the answer, and may send the snapshot after a refusal.
LEMMA AnswerOK ==
    ASSUME AllOK, NEW n \in Server, HandleAERespInstalling(n)
    PROVE  AllOK'
<1> DEFINE a == held[n]
           s == HandleAppendEntriesResponse(node[n], a)
<1>1. /\ HandleAEResp(n)
      /\ SendInstalls(n, node'[n], {a.src}) \/ UNCHANGED isVars
  BY DEF HandleAERespInstalling
<1>2. /\ TypeOK /\ TypeOK' /\ NodesOK /\ CallsOK /\ InstallsOK /\ node[n] \in NodeStates
      /\ held \in [Server -> AEResp \cup {Nil}]
  BY <1>1, HandleAERespStep DEF AllOK, TypeOK
<1>3. /\ Update(n, s) \/ Persist(n, s)
      /\ held' = [held EXCEPT ![n] = Nil] /\ loop' = loop
      /\ UNCHANGED <<voteReqs, voteResps, aeRpcs>>
  BY <1>1 DEF HandleAEResp, netVars
<1>4. a # Nil
  BY <1>1 DEF HandleAEResp
<1>5. n = L /\ AERespOK(a) /\ a \in AEResp
  BY <1>2, <1>4 DEF CallsOK
<1>6. /\ a.src \in Peers(L) /\ a.term = 2 /\ a.lastIdx <= 1 /\ a.success \in BOOLEAN
      /\ a.success => HasAll(node[a.src])
  BY <1>5 DEF AERespOK, AEResp
<1>7. LeaderOK(node[L])
  BY <1>2 DEF NodesOK
<1> HIDE DEF a
<1>8. s \in NodeStates
  BY <1>2, <1>5, HandleAppendEntriesResponseType DEF AEResp
<1>9. /\ LeaderOK(s)
      /\ \A p \in Server : p # a.src \/ ~a.success => s.matchIndex[p] = node[L].matchIndex[p]
      /\ a.success => s.matchIndex[a.src] <= 1
  BY <1>2, <1>5, <1>6, <1>7, LeaderAnswered
<1> HIDE DEF s
<1>10. Like(s, node'[n]) /\ \A p \in Server \ {n} : node'[p] = node[p]
  <2>1. CASE Update(n, s)
    BY <1>2, <1>8, <2>1, UpdateStep, QuietLike
  <2>2. CASE Persist(n, s)
    BY <1>2, <1>8, <2>2, PersistLike
  <2> QED
    BY <1>3, <2>1, <2>2
<1>11. LeaderOK(node'[L]) /\ node'[L].matchIndex = s.matchIndex
  BY <1>5, <1>9, <1>10, LikeKeeps DEF Like
<1>12. ASSUME NEW p \in Peers(L)
       PROVE  \/ node'[L].matchIndex[p] = node[L].matchIndex[p]
              \/ node'[L].matchIndex[p] <= LastLogIdx(node[p])
  <2>1. p \in Server
    BY DEF Peers
  <2>2. CASE p = a.src /\ a.success
    BY <1>6, <1>9, <1>11, <2>2 DEF HasAll
  <2>3. CASE p # a.src \/ ~a.success
    BY <1>9, <1>11, <2>1, <2>3
  <2> QED
    BY <2>2, <2>3
<1>13. NodesOK' /\ AnswersKept
  <2>1. \A p \in Peers(L) : node'[p] = node[p] /\ loop'[p] = loop[p]
    BY <1>3, <1>5, <1>10 DEF Peers
  <2>2. loop'[L] \in {"top", Leader}
    BY <1>2, <1>3 DEF NodesOK
  <2> QED
    BY <1>2, <1>11, <1>12, <2>1, <2>2, LeaderMoves
<1>14. \A x \in Server : held'[x] = held[x] \/ held'[x] = Nil
  BY <1>2, <1>3
<1>15. CallsOK'
  BY <1>2, <1>3, <1>13, <1>14, CallsKept
<1>16. InstallsOK'
  <2>1. CASE SendInstalls(n, node'[n], {a.src})
    BY <1>5, <1>6, <1>11, <1>13, <2>1, SendsOK
  <2>2. CASE UNCHANGED isVars
    <3>1. DOMAIN isHeld' = Server /\ install' \in [Server -> Seq(Command) \cup {Nil}]
      BY <1>2, <2>2 DEF InstallsOK, isVars
    <3> QED
      BY <1>2, <1>13, <2>2, <3>1, InstallsKept DEF isVars
  <2> QED
    BY <1>1, <2>1, <2>2
<1> QED
  BY <1>2, <1>13, <1>15, <1>16 DEF AllOK

\* handleInstallSnapshot and its answer.
LEMMA InstallOK ==
    ASSUME AllOK, NEW n \in Server, NEW m \in isRpcs, HandleISReq(n, m)
    PROVE  AllOK'
<1> DEFINE h    == HandleInstallSnapshot(node[n], m)
           ok   == m.term >= node[n].currentTerm
           resp == [type |-> "response", src |-> n, dst |-> m.src, term |-> h.currentTerm,
                    success |-> ok, idx |-> m.idx]
<1>1. /\ TypeOK /\ NodesOK /\ CallsOK /\ InstallsOK
      /\ loop \in [Server -> Stages] /\ install \in [Server -> Seq(Command) \cup {Nil}]
  BY DEF AllOK, TypeOK, InstallsOK
<1>2. /\ InSelect(n) /\ m.type = "request" /\ m.dst = n
      /\ Persist(n, AfterSelect(n, h))
      /\ isRpcs' = isRpcs \ {m} \/ isRpcs' = (isRpcs \ {m}) \cup {resp}
      /\ install' = install \/ install' = [install EXCEPT ![n] = m.data]
      /\ loop' = [loop EXCEPT ![n] = "top"]
      /\ UNCHANGED <<connected, held, sm, epoch, netVars, history, isHeld>>
  BY DEF HandleISReq, GoTo
<1>3. ISReqOK(m)
  BY <1>1, <1>2 DEF InstallsOK
<1>4. n \in Peers(L) /\ m.src = L /\ m.term = 2 /\ m.idx = 0 /\ m.data \in Seq(Command)
  BY <1>2, <1>3 DEF ISReqOK
<1>5. loop[n] = Follower /\ loop[n] # Leader /\ FollowerOK(node[n]) /\ node[n] \in NodeStates
  BY <1>2, <1>4, InFollowerSelect
<1>6. h \in NodeStates /\ FollowerOK(h) /\ Kept(node[n], h) /\ Has(h)
  BY <1>3, <1>5, FollowerInstalls
<1>7. Persist(n, h)
  BY <1>2, <1>5 DEF AfterSelect
<1>8. ok = TRUE /\ h.currentTerm = 2
  BY <1>4, <1>5, <1>6 DEF FollowerOK
<1>9. resp = [type |-> "response", src |-> n, dst |-> L, term |-> 2, success |-> TRUE, idx |-> 0]
  BY <1>4, <1>8
<1> HIDE DEF h, ok, resp
<1>10. Like(h, node'[n]) /\ \A p \in Server \ {n} : node'[p] = node[p]
  BY <1>1, <1>6, <1>7, PersistLike
<1>11. FollowerOK(node'[n]) /\ Kept(node[n], node'[n]) /\ Has(node'[n])
  BY <1>6, <1>10, LikeKeeps, KeptLike
<1>12. loop'[n] = "top" /\ \A p \in Server \ {n} : loop'[p] = loop[p]
  BY <1>1, <1>2
<1>13. TypeOK'
  <2>1. node' \in [Server -> NodeStates] /\ disk' \in [Server -> Disk]
    BY <1>1, <1>6, <1>7, PersistStep
  <2>2. loop' \in [Server -> Stages]
    BY <1>1, <1>2 DEF Stages
  <2> QED
    BY <1>1, <1>2, <2>1, <2>2 DEF TypeOK, netVars, history
<1>14. NodesOK' /\ AnswersKept
  BY <1>1, <1>4, <1>10, <1>11, <1>12, <1>13, FollowerMoves
<1>15. CallsOK'
  BY <1>1, <1>2, <1>14, CallsKept DEF netVars
<1>16. ASSUME NEW x \in isRpcs', x \notin isRpcs
       PROVE  x.type = "response" /\ ISRespOK(x)'
  <2>1. x = resp
    BY <1>2, <1>16
  <2>2. /\ x.type = "response" /\ x.src = n /\ x.dst = L /\ x.term = 2 /\ x.success = TRUE
        /\ x.idx = 0
    BY <1>9, <2>1
  <2> QED
    BY <1>4, <1>11, <2>2 DEF ISRespOK
<1>17. install' \in [Server -> Seq(Command) \cup {Nil}] /\ DOMAIN isHeld' = Server
  BY <1>1, <1>2, <1>4 DEF InstallsOK
<1>18. InstallsOK'
  BY <1>1, <1>2, <1>14, <1>16, <1>17, InstallsKept
<1> QED
  BY <1>13, <1>14, <1>15, <1>18 DEF AllOK

\* The leader's handler of InstallSnapshot answers receives one.
LEMMA ReceiveInstalledOK ==
    ASSUME AllOK, NEW n \in Server, NEW r \in isRpcs, ReceiveISResp(n, r)
    PROVE  AllOK'
<1>1. TypeOK /\ CallsOK /\ InstallsOK /\ DOMAIN isHeld = Server
  BY DEF AllOK, InstallsOK
<1>2. /\ r.type = "response" /\ r.dst = n /\ isRpcs' \subseteq isRpcs
      /\ isHeld' = [isHeld EXCEPT ![n] = r] \/ isHeld' = isHeld
      /\ UNCHANGED <<vars, install>>
  BY DEF ReceiveISResp
<1>3. ISRespOK(r) /\ n = L
  BY <1>1, <1>2 DEF InstallsOK, ISRespOK
<1>4. UNCHANGED <<node, loop, voteReqs, voteResps, aeRpcs, held>>
  BY <1>2 DEF vars, nodeVars, netVars
<1>5. NodesOK' /\ AnswersKept
  BY <1>4, NoNode
<1>6. TypeOK'
  BY <1>1, <1>2 DEF TypeOK, vars, nodeVars, netVars, history
<1>7. CallsOK'
  BY <1>1, <1>4, <1>5, CallsKept
<1>8. ISRespOK(r)'
  BY <1>3, <1>5 DEF AnswersKept
<1>9. ASSUME NEW x \in Server
      PROVE  isHeld'[x] = isHeld[x] \/ (x = L /\ ISRespOK(isHeld[x])')
  <2>1. CASE x = n /\ isHeld' = [isHeld EXCEPT ![n] = r]
    <3>1. isHeld'[x] = r
      BY <1>1, <2>1
    <3> QED
      BY <1>3, <1>8, <2>1, <3>1 DEF ISRespOK
  <2>2. CASE x # n \/ isHeld' = isHeld
    BY <1>1, <1>2, <2>2
  <2> QED
    BY <1>2, <2>1, <2>2
<1>10. DOMAIN isHeld' = Server /\ install' \in [Server -> Seq(Command) \cup {Nil}]
  BY <1>1, <1>2 DEF InstallsOK
<1>11. InstallsOK'
  BY <1>1, <1>2, <1>5, <1>9, <1>10, InstallsKept
<1> QED
  BY <1>5, <1>6, <1>7, <1>11 DEF AllOK

\* It handles it.
LEMMA InstalledOK ==
    ASSUME AllOK, NEW n \in Server, HandleISResp(n)
    PROVE  AllOK'
<1> DEFINE a == isHeld[n]
           s == HandleInstallSnapshotResponse(node[n], a)
<1>1. TypeOK /\ NodesOK /\ CallsOK /\ InstallsOK /\ node[n] \in NodeStates /\ DOMAIN isHeld = Server
  BY DEF AllOK, TypeOK, InstallsOK
<1>2. /\ Update(n, s) \/ Persist(n, s)
      /\ isHeld' = [isHeld EXCEPT ![n] = Nil]
      /\ UNCHANGED <<loop, connected, held, sm, epoch, netVars, history, isRpcs, install>>
  BY DEF HandleISResp
<1>3. n = L /\ ISRespOK(a)
  BY <1>1 DEF InstallsOK, HandleISResp
<1>4. a.src \in Peers(L) /\ a.term = 2 /\ a.idx = 0 /\ Has(node[a.src])
  BY <1>3 DEF ISRespOK
<1>5. a.success \in BOOLEAN /\ a.success
  BY <1>3, Zenon DEF ISRespOK
<1>6. LeaderOK(node[L])
  BY <1>1 DEF NodesOK
<1> HIDE DEF a
<1>7. /\ s \in NodeStates /\ LeaderOK(s)
      /\ \A p \in Server : p # a.src => s.matchIndex[p] = node[L].matchIndex[p]
      /\ s.matchIndex[a.src] = 0
  <2> DEFINE l == node[L]
  <2>1. l \in NodeStates /\ LeaderOK(l) /\ s = HandleInstallSnapshotResponse(l, a)
    BY <1>1, <1>3, <1>6
  <2> HIDE DEF l, s
  <2>2. a.success \in BOOLEAN
    BY <1>5
  <2>3. /\ s \in NodeStates
        /\ a.success => /\ LeaderOK(s)
                        /\ \A p \in Server : p # a.src => s.matchIndex[p] = l.matchIndex[p]
                        /\ s.matchIndex[a.src] = 0
    BY <1>4, <2>1, <2>2, LeaderInstalled
  <2> QED
    BY <1>5, <2>3, Zenon DEF l
<1> HIDE DEF s
<1>8. Like(s, node'[n]) /\ \A p \in Server \ {n} : node'[p] = node[p]
  <2>1. CASE Update(n, s)
    BY <1>1, <1>7, <2>1, UpdateStep, QuietLike
  <2>2. CASE Persist(n, s)
    BY <1>1, <1>7, <2>2, PersistLike
  <2> QED
    BY <1>2, <2>1, <2>2
<1>9. LeaderOK(node'[L]) /\ node'[L].matchIndex = s.matchIndex
  BY <1>3, <1>7, <1>8, LikeKeeps DEF Like
<1>10. ASSUME NEW p \in Peers(L)
       PROVE  \/ node'[L].matchIndex[p] = node[L].matchIndex[p]
              \/ node'[L].matchIndex[p] <= LastLogIdx(node[p])
  <2>1. CASE p = a.src
    <3>1. LastLogIdx(node[p]) \in {0, 1}
      BY <1>4, <2>1, FollowerLast
    <3> QED
      BY <1>7, <1>9, <2>1, <3>1
  <2>2. CASE p # a.src
    BY <1>7, <1>9, <2>2 DEF Peers
  <2> QED
    BY <2>1, <2>2
<1>11. NodesOK' /\ AnswersKept
  <2>1. \A p \in Peers(L) : node'[p] = node[p] /\ loop'[p] = loop[p]
    BY <1>2, <1>3, <1>8 DEF Peers
  <2>2. loop'[L] \in {"top", Leader}
    BY <1>1, <1>2 DEF NodesOK
  <2> QED
    BY <1>1, <1>9, <1>10, <2>1, <2>2, LeaderMoves
<1>12. TypeOK'
  <2>1. node' \in [Server -> NodeStates] /\ disk' \in [Server -> Disk]
    BY <1>1, <1>2, <1>7, PersistStep, UpdateStep
  <2> QED
    BY <1>1, <1>2, <2>1 DEF TypeOK, netVars, history
<1>13. CallsOK'
  BY <1>1, <1>2, <1>11, CallsKept DEF netVars
<1>14. /\ DOMAIN isHeld' = Server /\ install' \in [Server -> Seq(Command) \cup {Nil}]
       /\ \A x \in Server : isHeld'[x] = isHeld[x] \/ isHeld'[x] = Nil
  BY <1>1, <1>2 DEF InstallsOK
<1>15. InstallsOK'
  BY <1>1, <1>2, <1>11, <1>14, InstallsKept
<1> QED
  BY <1>11, <1>12, <1>13, <1>15 DEF AllOK

\* snapshotLoop restores the state machine.
LEMMA RestoreOK ==
    ASSUME AllOK, NEW n \in Server, Restore(n)
    PROVE  AllOK'
<1>1. TypeOK /\ CallsOK /\ InstallsOK /\ install \in [Server -> Seq(Command) \cup {Nil}]
  BY DEF AllOK, InstallsOK
<1>2. /\ install[n] # Nil /\ sm' = [sm EXCEPT ![n] = install[n]]
      /\ install' = [install EXCEPT ![n] = Nil]
      /\ UNCHANGED <<node, loop, connected, held, disk, epoch, netVars, history, isRpcs, isHeld>>
  BY DEF Restore
<1>3. sm' \in [Server -> Seq(Command)]
  <2>1. sm \in [Server -> Seq(Command)] /\ install[n] \in Seq(Command)
    BY <1>1, <1>2 DEF TypeOK
  <2> QED
    BY <1>2, <2>1
<1>4. TypeOK'
  BY <1>1, <1>2, <1>3 DEF TypeOK, netVars, history
<1>5. NodesOK' /\ AnswersKept
  BY <1>2, NoNode
<1>6. CallsOK'
  BY <1>1, <1>2, <1>5, CallsKept DEF netVars
<1>7. DOMAIN isHeld' = Server /\ install' \in [Server -> Seq(Command) \cup {Nil}]
  BY <1>1, <1>2 DEF InstallsOK
<1>8. InstallsOK'
  BY <1>1, <1>2, <1>5, <1>7, InstallsKept
<1> QED
  BY <1>4, <1>5, <1>6, <1>8 DEF AllOK

-----------------------------------------------------------------------------
(***************************************************************************)
(* The start.                                                              *)
(***************************************************************************)
\* The states the servers start in.
LEMMA StartTypes ==
    /\ Voter \in NodeStates /\ FollowerOK(Voter) /\ LastLogIdx(Voter) = -1
    /\ CaughtUp \in NodeStates /\ FollowerOK(CaughtUp) /\ LastLogIdx(CaughtUp) = 1
    /\ Voter.log = <<>> /\ CaughtUp.log = <<Last>> /\ <<Last>> \in Seq(Entry)
    /\ \A late \in SUBSET Peers(L) :
          /\ Leading(late) \in NodeStates /\ LeaderOK(Leading(late))
          /\ \A p \in Server : Leading(late).matchIndex[p] = IF p \in late THEN -1 ELSE 1
<1>1. NewNodeState \in NodeStates /\ L \in Server
  BY NewNodeStateType, InstallAssumption
<1>2. Compacted \in Snapshot /\ Compacted.idx = 0 /\ Compacted # Nil
  <2>1. Compacted \in Snapshot /\ Compacted.idx = 0
    BY DEF Compacted, Snapshot
  <2> QED
    BY <2>1, NilAssumption
<1>3. <<Last>> \in Seq(Entry)
  <2>1. Last \in Entry
    BY DEF Last, Noop, Entry
  <2> QED
    BY <2>1
<1>4. Voter = [NewNodeState EXCEPT !.currentTerm = 2, !.votedFor = L, !.currentLeader = L]
  BY DEF Voter
<1>5. Voter \in NodeStates
  BY <1>1, <1>4 DEF NodeStates
<1>6. /\ Voter.role = Follower /\ Voter.currentTerm = 2 /\ Voter.log = <<>> /\ Voter.snap = Nil
      /\ Voter.lastApplied = -1 /\ Voter.commitIndex = -1
  BY <1>4 DEF NewNodeState
<1>7. FollowerOK(Voter) /\ LastLogIdx(Voter) = -1
  BY <1>6 DEF FollowerOK, Fresh, LastLogIdx
<1> DEFINE g == <<Last>>
<1>8. CaughtUp = [Voter EXCEPT !.log = g, !.snap = Compacted, !.commitIndex = 1, !.lastApplied = 1]
  BY DEF CaughtUp, Last
<1>9. 1 \in Index /\ g \in Seq(Entry)
  BY <1>3 DEF Index
<1> HIDE DEF g
<1>10. CaughtUp \in NodeStates
  BY <1>2, <1>5, <1>8, <1>9, ZenonT(40) DEF NodeStates
<1>11. /\ CaughtUp.role = Follower /\ CaughtUp.currentTerm = 2 /\ CaughtUp.log = g
       /\ CaughtUp.snap = Compacted /\ CaughtUp.lastApplied = 1 /\ CaughtUp.commitIndex = 1
  BY <1>5, <1>6, <1>8 DEF NodeStates
<1>12. CaughtUp.log = <<Last>>
  BY <1>11 DEF g
<1>13. FollowerOK(CaughtUp) /\ LastLogIdx(CaughtUp) = 1
  BY <1>2, <1>11, <1>12, FollowerLast DEF FollowerOK, Has
<1>14. ASSUME NEW late \in SUBSET Peers(L)
       PROVE  /\ Leading(late) \in NodeStates /\ LeaderOK(Leading(late))
              /\ \A p \in Server : Leading(late).matchIndex[p] = IF p \in late THEN -1 ELSE 1
  <2> DEFINE ni == [p \in Server |-> IF p \in late THEN 1 ELSE 2]
             mi == [p \in Server |-> IF p \in late THEN -1 ELSE 1]
             ls == [p \in Server |-> 1]
             r  == Leading(late)
  <2>1. r = [CaughtUp EXCEPT !.role = Leader, !.nextIndex = ni, !.matchIndex = mi, !.lastSent = ls]
    BY DEF Leading
  <2>2. ni \in [Server -> Nat] /\ mi \in [Server -> Index] /\ ls \in [Server -> Index]
    BY DEF Index
  <2>3. \A p \in Server : ni[p] <= 2 /\ ls[p] <= 1 /\ mi[p] = IF p \in late THEN -1 ELSE 1
    OBVIOUS
  <2> HIDE DEF ni, mi, ls, r
  <2>4. r \in NodeStates
    <3>1. Leader \in {Follower, Candidate, Leader}
      OBVIOUS
    <3> QED
      BY <1>10, <2>1, <2>2, <3>1, ZenonT(40) DEF NodeStates
  <2>5. /\ r.role = Leader /\ r.nextIndex = ni /\ r.matchIndex = mi /\ r.lastSent = ls
        /\ r.currentTerm = CaughtUp.currentTerm /\ r.log = CaughtUp.log /\ r.snap = CaughtUp.snap
        /\ r.lastApplied = CaughtUp.lastApplied /\ r.commitIndex = CaughtUp.commitIndex
    BY <1>10, <2>1 DEF NodeStates
  <2>6. LeaderOK(r)
    BY <1>11, <1>12, <2>3, <2>5 DEF LeaderOK
  <2> QED
    BY <2>3, <2>4, <2>5, <2>6 DEF r
<1> QED
  BY <1>3, <1>5, <1>6, <1>7, <1>10, <1>12, <1>13, <1>14

\* The start has all of it.
LEMMA StartOK ==
    ASSUME InstallInit
    PROVE  AllOK
<1>1. PICK late \in SUBSET Peers(L) :
          node = [n \in Server |-> CASE n = L -> Leading(late)
                                     [] n \in late -> Voter
                                     [] OTHER -> CaughtUp]
  BY DEF InstallInit
<1>2. L \in Server /\ Peers(L) = Server \ {L} /\ L \notin late
  BY <1>1, InstallAssumption DEF Peers
<1>3. node[L] = Leading(late)
  BY <1>1, <1>2
<1>4. ASSUME NEW p \in Peers(L)
      PROVE  node[p] = IF p \in late THEN Voter ELSE CaughtUp
  BY <1>1, <1>2
<1>5. node \in [Server -> NodeStates] /\ \A n \in Server : node[n].log \in Seq(Entry)
  <2>1. ASSUME NEW n \in Server PROVE node[n] \in NodeStates
    BY <1>1, <1>2, <1>3, <1>4, StartTypes
  <2>2. node = [n \in Server |-> node[n]]
    BY <1>1
  <2>3. \A n \in Server : node[n].log \in Seq(Entry)
    BY <2>1 DEF NodeStates
  <2> QED
    BY <2>1, <2>2, <2>3
<1>6. NodesOK
  <2>1. ASSUME NEW p \in Peers(L)
        PROVE  /\ FollowerOK(node[p]) /\ loop[p] = "top"
               /\ node[L].matchIndex[p] <= LastLogIdx(node[p])
    <3>1. loop[p] = "top" /\ p \in Server
      BY DEF InstallInit, Peers
    <3>2. node[L].matchIndex[p] = IF p \in late THEN -1 ELSE 1
      BY <1>3, <3>1, StartTypes
    <3>3. CASE p \in late
      <4>1. node[p] = Voter
        BY <1>4, <3>3
      <4> QED
        BY <3>1, <3>2, <3>3, <4>1, StartTypes
    <3>4. CASE p \notin late
      <4>1. node[p] = CaughtUp
        BY <1>4, <3>4
      <4> QED
        BY <3>1, <3>2, <3>4, <4>1, StartTypes
    <3> QED
      BY <3>3, <3>4
  <2>2. loop[L] = "top"
    BY <1>2 DEF InstallInit
  <2>3. LeaderOK(node[L])
    BY <1>3, StartTypes
  <2> QED
    BY <2>1, <2>2, <2>3 DEF NodesOK
<1>7. TypeOK
  <2>1. loop \in [Server -> Stages] /\ connected \in [Server -> BOOLEAN]
    BY DEF InstallInit, Stages
  <2>2. held \in [Server -> AEResp \cup {Nil}] /\ sm \in [Server -> Seq(Command)]
    BY DEF InstallInit
  <2>3. epoch \in [Server -> Epochs]
    BY BoundsAssumption DEF InstallInit, Epochs
  <2>4. disk \in [Server -> Disk]
    BY <1>2, <1>5 DEF InstallInit, Disk
  <2>5. /\ voteReqs \subseteq VoteReq /\ voteResps \subseteq VoteResp /\ calls \in Nat
        /\ DOMAIN aeRpcs = {}
    BY DEF InstallInit, EmptyBag, SetToBag
  <2>6. /\ cast \subseteq Server \X Nat \X Server /\ elected \subseteq Server \X Nat
        /\ tally \in [Server -> [term : Nat, voters : SUBSET Server]]
    BY <1>2 DEF InstallInit, NoTally
  <2> QED
    BY <1>5, <2>1, <2>2, <2>3, <2>4, <2>5, <2>6 DEF TypeOK
<1>8. CallsOK
  <2>1. DOMAIN aeRpcs = {} /\ voteReqs = {} /\ voteResps = {} /\ \A n \in Server : held[n] = Nil
    BY DEF InstallInit, EmptyBag, SetToBag
  <2> QED
    BY <2>1 DEF CallsOK
<1>9. InstallsOK
  <2>1. /\ isRpcs = {ISReqOf(L, node[L], p) : p \in Peers(L)}
        /\ DOMAIN isHeld = Server /\ \A n \in Server : isHeld[n] = Nil
        /\ install \in [Server -> Seq(Command) \cup {Nil}]
    BY DEF InstallInit
  <2>2. ASSUME NEW p \in Peers(L)
        PROVE  ISReqOf(L, node[L], p).type = "request" /\ ISReqOK(ISReqOf(L, node[L], p))
    <3> DEFINE s == node[L]
    <3>1. /\ s.snap.idx = 0 /\ s.snap.term = 1 /\ s.snap.data = <<>> /\ s.snap.config = Server
          /\ s.currentTerm = 2
      BY <1>6, LeaderHas DEF NodesOK, LeaderOK
    <3> HIDE DEF s
    <3>2. ISReqOf(L, s, p).type = "request" /\ ISReqOK(ISReqOf(L, s, p))
      BY <3>1 DEF ISReqOf, InstallArgs, ISReqOK
    <3> QED
      BY <3>2 DEF s
  <2> QED
    BY <2>1, <2>2 DEF InstallsOK
<1> QED
  BY <1>6, <1>7, <1>8, <1>9 DEF AllOK

-----------------------------------------------------------------------------
(***************************************************************************)
(* The theorem.                                                            *)
(***************************************************************************)
\* Votes are given out, never taken back.
LEMMA VotesGrow ==
    ASSUME InstallNext
    PROVE  cast \subseteq cast'
<1>1. ASSUME NEW n, PlainLoop(n) PROVE cast \subseteq cast'
  <2>1. CASE ApplyLog(n) \/ EnterSelect(n) \/ CandidateTimeout(n) \/ FollowerTimeout(n) \/ RequestVotes(n)
    BY <2>1 DEF ApplyLog, EnterSelect, CandidateTimeout, FollowerTimeout, RequestVotes,
                StartsElection, history
  <2>2. CASE \E m \in voteReqs : HandleVoteReq(n, m)
    BY <2>2 DEF HandleVoteReq
  <2>3. CASE \E r \in voteResps : CountVote(n, r) \/ DrainVote(n, r)
    BY <2>3 DEF CountVote, DrainVote, history
  <2>4. CASE \E m \in DOMAIN aeRpcs : HandleAEReq(n, m)
    BY <2>4 DEF HandleAEReq, history
  <2> QED
    BY <1>1, <2>1, <2>2, <2>3, <2>4 DEF PlainLoop
<1>2. ASSUME NEW n, LeaderSends(n) PROVE cast \subseteq cast'
  BY <1>2 DEF LeaderSends, BecomeLeader, Heartbeat, history
<1>3. ASSUME NEW n, NEW m, HandleISReq(n, m) \/ ReceiveAEResp(n, m) \/ ReceiveISResp(n, m)
      PROVE  cast \subseteq cast'
  BY <1>3 DEF HandleISReq, ReceiveAEResp, ReceiveISResp, vars, history
<1>4. ASSUME NEW n, HandleAERespInstalling(n) \/ HandleISResp(n) \/ Restore(n)
      PROVE  cast \subseteq cast'
  BY <1>4 DEF HandleAERespInstalling, HandleAEResp, HandleISResp, Restore, history
<1> QED
  BY <1>1, <1>2, <1>3, <1>4 DEF InstallNext

\* A step after which there still is one term is one of those above.
LEMMA InstallInvStep ==
    ASSUME InstallInv, [InstallNext]_installVars
    PROVE  InstallInv'
<1> SUFFICES ASSUME OneTerm' PROVE AllOK'
  BY DEF InstallInv, AllOK
<1>1. cast \subseteq cast'
  BY VotesGrow DEF installVars, vars, history
<1>2. AllOK
  BY <1>1 DEF OneTerm, InstallInv, AllOK
<1>3. CASE UNCHANGED installVars
  <2>1. UNCHANGED <<node, loop, voteReqs, voteResps, aeRpcs, held, isVars>>
    BY <1>3 DEF installVars, vars, nodeVars, netVars
  <2>2. TypeOK'
    BY <1>2, <1>3 DEF AllOK, TypeOK, installVars, vars, nodeVars, netVars, history
  <2> QED
    BY <1>2, <2>1, <2>2, NoNode, NoCalls
<1>4. ASSUME NEW n \in Server
      PROVE  /\ loop[n] \in {"top", Follower, Leader}
             /\ loop[n] = Follower => node[n].currentTerm = 2
             /\ voteReqs = {} /\ voteResps = {}
  <2>1. CASE n = L
    BY <1>2, <2>1 DEF AllOK, NodesOK, CallsOK, Follower, Leader
  <2>2. CASE n # L
    BY <1>2, <2>2 DEF AllOK, NodesOK, CallsOK, Peers, FollowerOK
  <2> QED
    BY <2>1, <2>2
<1>5. ASSUME NEW n \in Server, PlainLoop(n), UNCHANGED isVars PROVE AllOK'
  <2>1. CASE ApplyLog(n)
    BY <1>2, <1>5, <2>1, ApplyOK
  <2>2. CASE EnterSelect(n)
    BY <1>2, <1>5, <2>2, SelectOK
  <2>3. CASE FollowerTimeout(n)
    <3>1. node'[n].currentTerm = node[n].currentTerm + 1 /\ cast' = cast \cup {<<n, node'[n].currentTerm, n>>}
      BY <1>2, <2>3, StartsElectionStep DEF AllOK, FollowerTimeout
    <3>2. node[n].currentTerm = 2
      BY <1>4, <2>3 DEF FollowerTimeout
    <3>3. <<n, 3, n>> \in cast'
      BY <3>1, <3>2
    <3> QED
      BY <3>3 DEF OneTerm
  <2>4. CASE CandidateTimeout(n) \/ RequestVotes(n)
    BY <1>4, <2>4 DEF CandidateTimeout, RequestVotes, Follower, Candidate, Leader
  <2>5. CASE \/ \E m \in voteReqs : HandleVoteReq(n, m)
             \/ \E r \in voteResps : CountVote(n, r)
             \/ \E r \in voteResps : DrainVote(n, r)
    BY <1>4, <2>5
  <2>6. CASE \E m \in DOMAIN aeRpcs : HandleAEReq(n, m)
    BY <1>2, <1>5, <2>6, AppendOK
  <2> QED
    BY <1>5, <2>1, <2>2, <2>3, <2>4, <2>5, <2>6 DEF PlainLoop
<1>6. ASSUME NEW n \in Server, LeaderSends(n) PROVE AllOK'
  <2>1. ~BecomeLeader(n)
    BY <1>4 DEF BecomeLeader, Follower, Leader
  <2> QED
    BY <1>2, <1>6, <2>1, HeartbeatOK DEF LeaderSends
<1> QED
  BY <1>2, <1>3, <1>5, <1>6, ReceiveOK, AnswerOK, InstallOK, ReceiveInstalledOK, InstalledOK, RestoreOK
     DEF InstallNext

\* As long as nobody asks for votes in a newer term the leader never believes that
\* a follower holds an entry it lacks: for every cluster, any number of calls of
\* both kinds, and every order in which calls and answers are handled.
THEOREM MatchIsHeld == InstallSpec => []MatchHeld
<1>1. InstallInit => InstallInv
  BY StartOK DEF InstallInv, AllOK
<1>2. InstallInv /\ [InstallNext]_installVars => InstallInv'
  BY InstallInvStep
<1>3. InstallInv => MatchHeld
  BY DEF InstallInv, OneTerm, NodesOK, MatchHeld
<1> QED
  BY <1>1, <1>2, <1>3, PTL DEF InstallSpec

=============================================================================
