----------------------------- MODULE MonetaryIBD -----------------------------
(***************************************************************************)
(* Initial block download between monetary nodes: Server and Client of     *)
(* tools/monetary_ibd.py, run on several nodes at once.                    *)
(*                                                                         *)
(* A node's store is one directory that its client writes, that its server *)
(* indexes once and then reads, and that outlives both processes.  A       *)
(* server handles one connection at a time; a client talks to one server,  *)
(* verifies each record it is sent and writes those it accepts.            *)
(*                                                                         *)
(* All stores are about one chain from one anchor: a record is its place   *)
(* in that chain, and whether it passes the checks of parse_record and     *)
(* check_pow.                                                              *)
(***************************************************************************)
EXTENDS Integers, Sequences, SequencesExt

CONSTANTS
  Node,        \* the nodes
  Source,      \* those that have their store from elsewhere, and never sync
  Length,      \* records in the store of a source
  DamagedAt,   \* places at which a source's record may be damaged
  Batch,       \* batch: records asked for at once
  Limit,       \* --limit: records wanted
  None,        \* Python's None
  Reset,       \* a connection that was reset by the server's end
  Lost,        \* a connection whose client is gone without a word
  MaxSyncs,    \* bound: syncs ever started
  MaxFaults    \* bound: processes killed and machines lost

ASSUME NodeAssumption == Source \subseteq Node /\ Node \cap {None, Lost} = {} /\ None # Reset
ASSUME BatchAssumption == Batch \in Nat \ {0}
ASSUME LengthAssumption == Length \in Nat /\ DamagedAt \subseteq 1..Length
ASSUME BoundsAssumption == Limit \in Nat /\ MaxSyncs \in Nat /\ MaxFaults \in Nat

VARIABLES
  store,     \* store[n]: what is in n's file, in order
  index,     \* index[n]: records n's server counted when it started, or None
  serving,   \* serving[n]: the client whose connection n's server handles,
             \* None, or Lost: it waits for a client that is no more
  pc,        \* pc[n]: what n's client does
  peer,      \* peer[n]: the node its socket leads to
  total,     \* total[n]: records it wants of that one
  got,       \* got[n]: records it has asked for and counted
  accepted,  \* accepted[n]: records it has verified in this sync
  reply,     \* reply[n]: what is on its way to it, None, or Reset
  syncs,     \* auxiliary: syncs started
  faults,    \* auxiliary: processes killed, machines lost
  suspect    \* auxiliary: nodes that have served a store with a hole in it

serverVars == <<index, serving>>
clientVars == <<pc, peer, total, got, accepted, reply>>
auxVars == <<syncs, faults, suspect>>
vars == <<store, serverVars, clientVars, auxVars>>

\* What stands in a file where a record should: a record that passes the
\* checks, one that does not, or the first bytes of one ("stub": fewer than
\* the 10 of magic, version and length).
Kind == {"sound", "damaged", "cut", "stub"}
Fragment == [place : Nat, kind : Kind]
Sound(i) == [place |-> i, kind |-> "sound"]

Waiting == {"info", "get"}
Ended == {"none", "ok", "rejected", "error"}

SourceStores ==
  {[i \in 1..Length |-> IF i \in bad THEN [place |-> i, kind |-> "damaged"] ELSE Sound(i)] :
     bad \in {{}} \cup {{i} : i \in DamagedAt}}

Init ==
  /\ store \in {f \in [Node -> SourceStores \cup {<<>>}] :
                  \A n \in Node : n \in Source <=> f[n] # <<>>}
  /\ index = [n \in Node |-> None]
  /\ serving = [n \in Node |-> None]
  /\ pc = [n \in Node |-> "none"]
  /\ peer = [n \in Node |-> None]
  /\ total = [n \in Node |-> 0]
  /\ got = [n \in Node |-> 0]
  /\ accepted = [n \in Node |-> <<>>]
  /\ reply = [n \in Node |-> None]
  /\ syncs = 0
  /\ faults = 0
  /\ suspect = {}

-----------------------------------------------------------------------------
(* The server of node m.                                                   *)

HasHole(s) == \E i \in DOMAIN s : s[i].kind # "sound"

\* Server.__init__ and serve_forever: it walks the file by the lengths in
\* its headers, and fails on one that is too short to hold a length.
Serve(m) ==
  /\ index[m] = None
  /\ \A i \in DOMAIN store[m] : store[m][i].kind # "stub"
  /\ index' = [index EXCEPT ![m] = Len(store[m])]
  /\ suspect' = IF HasHole(store[m]) THEN suspect \cup {m} ELSE suspect
  /\ UNCHANGED <<store, serving, clientVars, syncs, faults>>

\* The process ends (Ctrl-C); its connections are reset.
StopServing(m) ==
  /\ index[m] # None
  /\ faults < MaxFaults
  /\ faults' = faults + 1
  /\ index' = [index EXCEPT ![m] = None]
  /\ serving' = [serving EXCEPT ![m] = None]
  /\ reply' = [n \in Node |-> IF pc[n] \in Waiting /\ peer[n] = m THEN Reset ELSE reply[n]]
  /\ UNCHANGED <<store, pc, peer, total, got, accepted, syncs, suspect>>

\* TCPServer: a connection is taken from the backlog when the handler of the
\* one before has returned.
TakeConnection(m, n) ==
  /\ index[m] # None
  /\ serving[m] = None
  /\ pc[n] \in Waiting /\ peer[n] = m /\ reply[n] = None
  /\ serving' = [serving EXCEPT ![m] = n]
  /\ UNCHANGED <<store, index, clientVars, auxVars>>

\* H.handle, cmd "info".
AnswerInfo(m, n) ==
  /\ serving[m] = n
  /\ pc[n] = "info" /\ peer[n] = m /\ reply[n] = None
  /\ reply' = [reply EXCEPT ![n] = [count |-> index[m]]]
  /\ UNCHANGED <<store, serverVars, pc, peer, total, got, accepted, auxVars>>

\* How many records from start on the index has, of count.
Indexed(m, start, count) ==
  IF start + count <= index[m] THEN count ELSE IF start <= index[m] THEN index[m] - start ELSE 0

\* Faulty: start is taken for the number of a record that counts from one.
ReadFromNext(m, start, n) ==
  SubSeq(store[m], start + 2, IF start + n + 1 <= Len(store[m]) THEN start + n + 1 ELSE Len(store[m]))

\* Server.get: the bytes that are now where the index says, if any are.
Read(m, start, n) ==
  SubSeq(store[m], start + 1, IF start + n <= Len(store[m]) THEN start + n ELSE Len(store[m]))

\* H.handle, cmd "get": n counts the records read, the payload has their bytes.
Wanted(n) == IF total[n] - got[n] < Batch THEN total[n] - got[n] ELSE Batch
AnswerGet(m, n) ==
  /\ serving[m] = n
  /\ pc[n] = "get" /\ peer[n] = m /\ reply[n] = None
  /\ LET count == Indexed(m, got[n], Wanted(n))
     IN reply' = [reply EXCEPT ![n] = [n |-> count, payload |-> Read(m, got[n], count)]]
  /\ UNCHANGED <<store, serverVars, pc, peer, total, got, accepted, auxVars>>

-----------------------------------------------------------------------------
(* The client of node n.                                                   *)

\* sync is left, by its return or by an exception: the socket is closed, so
\* the handler returns, and so is the file, with all that was written to it.
End(n, how, records) ==
  /\ pc' = [pc EXCEPT ![n] = how]
  /\ accepted' = [accepted EXCEPT ![n] = records]
  /\ store' = [store EXCEPT ![n] = records]
  /\ serving' = [m \in Node |-> IF serving[m] = n THEN None ELSE serving[m]]
  /\ reply' = [reply EXCEPT ![n] = None]
  /\ UNCHANGED <<index, peer, total, auxVars>>

\* Client.__init__: the file is opened to be written anew.
Sync(n, m) ==
  /\ n # m /\ n \notin Source
  /\ pc[n] \in Ended
  /\ syncs < MaxSyncs
  /\ syncs' = syncs + 1
  /\ store' = [store EXCEPT ![n] = <<>>]
  /\ suspect' = IF index[n] # None THEN suspect \cup {n} ELSE suspect
  /\ pc' = [pc EXCEPT ![n] = "connect"]
  /\ peer' = [peer EXCEPT ![n] = m]
  /\ total' = [total EXCEPT ![n] = 0]
  /\ got' = [got EXCEPT ![n] = 0]
  /\ accepted' = [accepted EXCEPT ![n] = <<>>]
  /\ UNCHANGED <<serverVars, reply, faults>>

\* sync: create_connection succeeds if the server listens, even while it
\* handles another; the request is sent.
Connect(n) ==
  /\ pc[n] = "connect"
  /\ index[peer[n]] # None
  /\ pc' = [pc EXCEPT ![n] = "info"]
  /\ UNCHANGED <<store, serverVars, peer, total, got, accepted, reply, auxVars>>

\* Faulty: a client waits for an answer for ever.
ConnectionFailsOnReset(n) ==
  /\ \/ pc[n] = "connect"
     \/ pc[n] \in Waiting /\ reply[n] = Reset
  /\ End(n, "error", accepted[n])
  /\ UNCHANGED got

\* The connection is refused or reset, or 30 seconds pass without an answer.
ConnectionFails(n) ==
  /\ \/ pc[n] = "connect"
     \/ pc[n] \in Waiting /\ reply[n] \in {None, Reset}
  /\ End(n, "error", accepted[n])
  /\ UNCHANGED got

\* sync: total is what is there, or the limit.
WithinLimit(count) == IF Limit < count THEN Limit ELSE count

ReceiveInfo(n) ==
  /\ pc[n] = "info" /\ reply[n] \notin {None, Reset}
  /\ LET count == WithinLimit(reply[n].count)
     IN IF count = 0
        THEN End(n, "ok", <<>>) /\ UNCHANGED got
        ELSE /\ pc' = [pc EXCEPT ![n] = "get"]
             /\ total' = [total EXCEPT ![n] = count]
             /\ reply' = [reply EXCEPT ![n] = None]
             /\ UNCHANGED <<store, serverVars, peer, got, accepted, auxVars>>

\* Faulty: the checks of a record itself are left out.
AcceptableUnread(records, r) == r.place = Len(records) + 1

\* accept_record: it is sound, and it is the child of the last one.
Acceptable(records, r) == r.kind = "sound" /\ r.place = Len(records) + 1

\* feed: accept record after record, up to the first that is refused.
Fed(records, payload) ==
  LET taken == CHOOSE k \in 0..Len(payload) :
                 /\ \A i \in 1..k : Acceptable(records \o SubSeq(payload, 1, i - 1), payload[i])
                 /\ k < Len(payload) =>
                      ~Acceptable(records \o SubSeq(payload, 1, k), payload[k + 1])
  IN records \o SubSeq(payload, 1, taken)

\* Faulty: the loop stops one short.
FetchedEarly(n, count) == count + 1 >= total[n]

\* sync: while got < total.
Fetched(n, count) == count >= total[n]

\* sync: feed what came; count it; go on, return, or stop at a bad record.
\* What is written reaches the disk at once or later.
ReceiveRecords(n) ==
  /\ pc[n] = "get" /\ reply[n] \notin {None, Reset}
  /\ LET payload == reply[n].payload
         records == Fed(accepted[n], payload)
         all == Len(records) = Len(accepted[n]) + Len(payload)
     IN /\ got' = [got EXCEPT ![n] = IF all THEN @ + reply[n].n ELSE @]
        /\ IF ~all THEN End(n, "rejected", records)
           ELSE IF reply[n].n = 0 \/ Fetched(n, got'[n]) THEN End(n, "ok", records)
           ELSE /\ accepted' = [accepted EXCEPT ![n] = records]
                /\ \E disk \in Prefixes(records) :
                     /\ Len(disk) >= Len(store[n])
                     /\ store' = [store EXCEPT ![n] = disk]
                /\ reply' = [reply EXCEPT ![n] = None]
                /\ UNCHANGED <<serverVars, pc, peer, total, auxVars>>

\* The process is killed or its machine is lost.  Its file is cut where the
\* disk was; its end of the connection is closed, or nobody closes it.
Die(n) ==
  /\ pc[n] \notin Ended
  /\ faults < MaxFaults
  /\ faults' = faults + 1
  /\ pc' = [pc EXCEPT ![n] = "none"]
  /\ accepted' = [accepted EXCEPT ![n] = <<>>]
  /\ \/ UNCHANGED store
     \/ /\ Len(store[n]) < Len(accepted[n])
        /\ \E kind \in {"cut", "stub"} :
             store' = [store EXCEPT ![n] = Append(@, [place |-> Len(@) + 1, kind |-> kind])]
  /\ \E left \in {None, Lost} :
       serving' = [m \in Node |-> IF serving[m] = n THEN left ELSE serving[m]]
  /\ reply' = [reply EXCEPT ![n] = None]
  /\ UNCHANGED <<index, peer, total, got, syncs, suspect>>

-----------------------------------------------------------------------------
Next ==
  \/ \E m \in Node : Serve(m) \/ StopServing(m)
  \/ \E m, n \in Node : TakeConnection(m, n) \/ AnswerInfo(m, n) \/ AnswerGet(m, n)
  \/ \E n, m \in Node : Sync(n, m)
  \/ \E n \in Node :
       Connect(n) \/ ConnectionFails(n) \/ ReceiveInfo(n) \/ ReceiveRecords(n) \/ Die(n)

Spec == Init /\ [][Next]_vars

\* A running client goes on: what it waits for comes, or its timeout does.
\* Nothing is assumed of servers.
Fairness ==
  \A n \in Node :
    WF_vars(ConnectionFails(n) \/ ReceiveInfo(n) \/ ReceiveRecords(n))

FairSpec == Spec /\ Fairness

-----------------------------------------------------------------------------
(* Properties.                                                             *)

\* Whatever its peers hold or lose, and however often it was cut off, a
\* node's store is the chain's records from the anchor up, each of them
\* verified, and at most a piece of one at its end.
StoreProven ==
  \A n \in Node \ Source :
    \A i \in DOMAIN store[n] :
      /\ store[n][i].place = i
      /\ store[n][i].kind = "sound" \/ (i = Len(store[n]) /\ store[n][i].kind \in {"cut", "stub"})

\* A sync that returns True has verified all the records it set out to fetch
\* and has them on disk, if its peer's store has no hole and was not written
\* anew while it was served.
OkIsComplete ==
  \A n \in Node :
    pc[n] = "ok" /\ peer[n] \notin suspect =>
      Len(accepted[n]) = total[n] /\ store[n] = accepted[n]

\* No record is refused that was verified before: a store that was synced
\* can be synced from, over any number of hops.
HonestNotRejected ==
  \A n \in Node : pc[n] = "rejected" => peer[n] \in suspect

\* A client is never stuck, whatever becomes of its server: its sync ends.
EverySyncEnds ==
  \A n \in Node : pc[n] \notin Ended ~> pc[n] \in Ended
=============================================================================
