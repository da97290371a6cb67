------------------------- MODULE DashboardFeedProofs -------------------------
(***************************************************************************)
(* The dashboard's feed for any sizes of the feed, of an answer and of the *)
(* poller's memory, any number of polls, fetches and changes of the world. *)
(***************************************************************************)
EXTENDS DashboardFeed, DataLemmas

-----------------------------------------------------------------------------
(* What events, fields and answers are.                                    *)

Told ==
  [kind : {"watching", "block"}, what : Int \X Int] \cup
  [kind : {"node"}, what : {Up, Down}] \cup
  [kind : {"mempool", "store"}, what : Nat] \cup
  [kind : {"wallet"}, what : Nat \cup {None}] \cup
  [kind : {"indexer"}, what : Nat \cup {Up, Down}] \cup
  [kind : {"tor"}, what : BOOLEAN] \cup
  [kind : {"tick"}, what : BOOLEAN \cup {None}]

World ==
  [up : BOOLEAN, tip : Nat, mempool : Nat, store : Nat \cup {None}, wallet : BOOLEAN, txs : Nat,
   indexer : Nat \cup {Down}, clearnet : BOOLEAN]

Poller ==
  [lastHeight : Nat \cup {None}, cursor : Int, target : Nat, lastMempool : Nat \cup {None},
   lastStore : Nat \cup {None}, seenWallet : SUBSET Nat, seenOrder : Seq(Nat),
   warnedNoWallet : BOOLEAN, warnedDown : BOOLEAN, indexer : Nat \cup {None, Down},
   lastIndexer : Nat \cup {None}, beats : Nat, torWarned : BOOLEAN,
   clearnet : BOOLEAN \cup {None}, failed : BOOLEAN]

TypeInv == world \in World /\ p \in Poller /\ said \in Seq(Told)

-----------------------------------------------------------------------------
(* The inductive invariant.                                                *)

\* Neighbours in a list are different.
Differ(s) == \A i \in 1..(Len(s) - 1) : s[i].what # s[i + 1].what

\* The heights that were named end where the poller goes on.
HeightsInv ==
  LET b == Of({"watching", "block"})
  IN /\ \A i \in 1..(Len(b) - 1) : b[i + 1].what[1] = b[i].what[2] + 1
     /\ b = <<>> <=> p.lastHeight = None
     /\ IF pc = "block"
        THEN /\ b # <<>> /\ b[Len(b)].what[2] = p.cursor - 1
             /\ p.cursor <= p.target
        ELSE b # <<>> => b[Len(b)].what[2] = p.lastHeight

NodeInv ==
  /\ Differ(Of({"node"}))
  /\ LastOf("node", Down) <=> p.warnedDown
  /\ p.failed = p.warnedDown

TorInv ==
  /\ Differ(Of({"tor"}))
  /\ LastOf("tor", TRUE) <=> p.torWarned
  /\ p.torWarned <=> p.clearnet = TRUE

\* The last that was said of the indexer is its height, if a height.
IndexerInv ==
  LET s == Of({"indexer"})
  IN /\ Differ(s)
     /\ LastOf("indexer", Down) <=> p.indexer = Down
     /\ s = <<>> <=> p.indexer = None
     /\ p.indexer = None => p.lastIndexer = None
     /\ s # <<>> /\ s[Len(s)].what \in Nat => s[Len(s)].what = p.lastIndexer

\* The memory of transactions up to the one numbered top: in order, bounded,
\* and with all from low on that fit into it.
Memory(order, seen, low, top) ==
  /\ order \in Seq(Nat) /\ seen = {order[i] : i \in 1..Len(order)}
  /\ Len(order) <= SeenMax
  /\ \A i, j \in 1..Len(order) : i < j => order[i] < order[j]
  /\ \A i \in 1..Len(order) : order[i] \in 1..top
  /\ \A t \in low..top : t > top - SeenMax => t \in seen

\* The oldest of those that are listed when there are n.
Low(n) == IF n > Recent THEN n - Recent + 1 ELSE 1

\* Every transaction that was told is at most the last, and the recent ones
\* are remembered.
WalletInv ==
  /\ \E top \in 0..world.txs :
       /\ Memory(p.seenOrder, p.seenWallet, Low(top), top)
       /\ LET s == Of({"wallet"})
          IN \A i \in 1..Len(s) : s[i].what = None \/ s[i].what \in 1..top
  /\ LET s == Of({"wallet"})
     IN /\ \A i, j \in 1..Len(s) : s[i].what = s[j].what => i = j
        /\ \A i \in 1..Len(s) : s[i].what = None => p.warnedNoWallet

\* The feed holds the newest events.
FeedInv ==
  /\ next = Len(said) + 1
  /\ LET m == IF Len(said) > FeedMax THEN FeedMax ELSE Len(said)
     IN events = [i \in 1..m |-> next - m + i - 1]

Page == [run : Nat, last : Nat, shown : Seq(Nat), lagged : BOOLEAN]
Flight == [since : Nat, ids : Seq(Nat) \cup {None}]

\* What is shown rises, up to the last.
Ordered(pg) ==
  /\ \A i \in 1..(Len(pg.shown) - 1) : pg.shown[i] < pg.shown[i + 1]
  /\ pg.shown # <<>> => pg.shown[Len(pg.shown)] = pg.last

\* A fetch of a page that has shown all up to last, when n comes next: its
\* answer goes on where it was asked.
OnTime(f, last, n) ==
  /\ f.since <= last
  /\ f.ids # None => /\ \A k \in 1..Len(f.ids) : f.ids[k] = f.since + k
                     /\ f.since + Len(f.ids) < n

\* A fetch of a page that has shown the event last.
Timely(f, last, n) ==
  f.since <= last /\ (f.ids # None => \A k \in 1..Len(f.ids) : f.ids[k] < n)

Complete(pg) == pg.shown = [i \in 1..pg.last |-> i]

PageInv ==
  /\ page \in Page /\ flight \in Seq(Flight) /\ run \in Nat /\ page.run <= run
  /\ Ordered(page)
  /\ page.run = run =>
       /\ page.last < next
       /\ \A i \in 1..Len(flight) : Timely(flight[i], page.last, next)
       /\ ~page.lagged =>
            Complete(page) /\ \A i \in 1..Len(flight) : OnTime(flight[i], page.last, next)

IInv ==
  /\ TypeInv /\ FeedInv /\ HeightsInv /\ NodeInv /\ TorInv /\ IndexerInv /\ WalletInv /\ PageInv

-----------------------------------------------------------------------------
(* Parts of lists.                                                         *)

\* The newest of a list are its last.
LEMMA NewestIs ==
  ASSUME NEW R, NEW s \in Seq(R), NEW n \in Nat
  PROVE  LET k == IF Len(s) > n THEN n ELSE Len(s)
         IN /\ Newest(s, n) \in Seq(R) /\ Len(Newest(s, n)) = k
            /\ \A i \in 1..k : Newest(s, n)[i] = s[Len(s) - k + i]
<1> DEFINE k == IF Len(s) > n THEN n ELSE Len(s)
           m == IF Len(s) > n THEN Len(s) - n + 1 ELSE 1
<1>1. /\ Len(s) \in Nat /\ k \in Nat /\ k <= Len(s) /\ m = Len(s) - k + 1
      /\ Newest(s, n) = SubSeq(s, m, Len(s))
      /\ \A i \in 1..Len(s) : s[i] \in R
  BY DEF Newest
<1> HIDE DEF k, m
<1>2. SubSeq(s, m, Len(s)) = [i \in 1..k |-> s[Len(s) - k + i]]
  <2>1. Len(s) - m + 1 = k /\ \A i \in 1..k : i + m - 1 = Len(s) - k + i
    BY <1>1
  <2>2. SubSeq(s, m, Len(s)) = [i \in 1..(Len(s) - m + 1) |-> s[i + m - 1]]
    BY <1>1
  <2> QED BY <2>1, <2>2
<1>3. \A i \in 1..k : s[Len(s) - k + i] \in R
  BY <1>1
<1>4. [i \in 1..k |-> s[Len(s) - k + i]] \in Seq(R)
  BY <1>1, <1>3
<1>5. /\ Newest(s, n) \in Seq(R) /\ Len(Newest(s, n)) = k
      /\ \A i \in 1..k : Newest(s, n)[i] = s[Len(s) - k + i]
  BY <1>1, <1>2, <1>4
<1> QED BY <1>5 DEF k

LEMMA NewestAll ==
  ASSUME NEW R, NEW s \in Seq(R), NEW n \in Nat, Len(s) <= n
  PROVE  Newest(s, n) = s
<1>1. Len(s) \in Nat /\ ~(Len(s) > n)
  OBVIOUS
<1>2. Newest(s, n) = SubSeq(s, 1, Len(s))
  BY <1>1 DEF Newest
<1> QED BY <1>2

LEMMA NewestLast ==
  ASSUME NEW R, NEW s \in Seq(R), NEW n \in Nat, Len(s) > n
  PROVE  /\ Newest(s, n) \in Seq(R) /\ Len(Newest(s, n)) = n
         /\ \A i \in 1..n : Newest(s, n)[i] = s[Len(s) - n + i]
BY NewestIs

\* What Of keeps of a list of events.
Part(s, kinds) == Only(s, {i \in DOMAIN s : s[i].kind \in kinds})

LEMMA PartIs ==
  ASSUME NEW s \in Seq(Told), NEW kinds
  PROVE  /\ Part(s, kinds) \in Seq(Told)
         /\ \A k \in 1..Len(Part(s, kinds)) : \E i \in 1..Len(s) :
              Part(s, kinds)[k] = s[i] /\ s[i].kind \in kinds
<1> DEFINE P == {i \in DOMAIN s : s[i].kind \in kinds}
           t == Only(s, P)
<1>1. /\ t \in Seq(Told)
      /\ \E idx \in [1..Len(t) -> Nat] : IndexOf(idx, t, s, Len(s), P)
  <2> HIDE DEF P
  <2> QED BY OnlyIs
<1>2. PICK idx \in [1..Len(t) -> Nat] : IndexOf(idx, t, s, Len(s), P)
  BY <1>1
<1>3. \A k \in 1..Len(t) : idx[k] \in P /\ idx[k] \in 1..Len(s) /\ t[k] = s[idx[k]]
  <2> HIDE DEF t, P
  <2> QED BY <1>2 DEF IndexOf
<1>4. Part(s, kinds) = t
  BY DEF Part
<1>5. \A i \in P : s[i].kind \in kinds
  OBVIOUS
<1> HIDE DEF t, P
<1> QED BY <1>1, <1>3, <1>4, <1>5

LEMMA PartConcat ==
  ASSUME NEW s \in Seq(Told), NEW t \in Seq(Told), NEW kinds
  PROVE  Part(s \o t, kinds) = Part(s, kinds) \o Part(t, kinds)
<1> DEFINE P == {i \in DOMAIN s : s[i].kind \in kinds}
           Q == {i \in DOMAIN t : t[i].kind \in kinds}
           O == {i \in DOMAIN (s \o t) : (s \o t)[i].kind \in kinds}
<1>1. \A i \in 1..Len(s) : i \in O <=> i \in P
  OBVIOUS
<1>2. \A i \in 1..Len(t) : Len(s) + i \in O <=> i \in Q
  OBVIOUS
<1>3. Part(s \o t, kinds) = Only(s \o t, O) /\ Part(s, kinds) = Only(s, P) /\ Part(t, kinds) = Only(t, Q)
  BY DEF Part
<1> HIDE DEF O, P, Q
<1> QED BY <1>1, <1>2, <1>3, OnlyConcat

\* A list without events of these kinds, and one of nothing else.
LEMMA PartNone ==
  ASSUME NEW s \in Seq(Told), NEW kinds, \A i \in 1..Len(s) : s[i].kind \notin kinds
  PROVE  Part(s, kinds) = <<>>
<1>1. Part(s, kinds) \in Seq(Told) /\ ~ \E k \in 1..Len(Part(s, kinds)) : TRUE
  BY PartIs
<1> QED BY <1>1

LEMMA PartAll ==
  ASSUME NEW s \in Seq(Told), NEW kinds, \A i \in 1..Len(s) : s[i].kind \in kinds
  PROVE  Part(s, kinds) = s
<1> DEFINE P == {i \in DOMAIN s : s[i].kind \in kinds}
<1>1. \A i \in 1..Len(s) : i \in P <=> i <= Len(s)
  OBVIOUS
<1>2. Len(s) \in 0..Len(s)
  OBVIOUS
<1>3. Part(s, kinds) = Only(s, P)
  BY DEF Part
<1> HIDE DEF P
<1>4. Only(s, P) = [k \in 1..Len(s) |-> s[k]]
  BY <1>1, <1>2, OnlyPrefix
<1> QED BY <1>3, <1>4

-----------------------------------------------------------------------------
(* What the steps of the poller say and change.                            *)

\* The events that a step adds to the feed, and what is kept of each kind.
LEMMA SayIs ==
  ASSUME said \in Seq(Told), NEW evs, evs \in Seq(Told), Say(evs), NEW kinds
  PROVE  /\ said' \in Seq(Told) /\ Of(kinds)' = Of(kinds) \o Part(evs, kinds)
         /\ Of(kinds) = Part(said, kinds)
<1>1. said' = said \o evs
  BY DEF Say
<1>2. Of(kinds) = Part(said, kinds) /\ Of(kinds)' = Part(said', kinds)
  BY DEF Of, Part
<1>3. Part(said \o evs, kinds) = Part(said, kinds) \o Part(evs, kinds)
  BY PartConcat
<1>4. said' \in Seq(Told)
  BY <1>1
<1> QED BY <1>1, <1>2, <1>3, <1>4

\* A step of the poller that says events of these kinds only.
Tells(kinds) ==
  \E evs \in Seq(Told) : Say(evs) /\ \A i \in 1..Len(evs) : evs[i].kind \in kinds

KeepsHeights == p'.lastHeight = p.lastHeight /\ p'.cursor = p.cursor /\ p'.target = p.target
KeepsNode == p'.warnedDown = p.warnedDown /\ p'.failed = p.failed
KeepsTor == p'.torWarned = p.torWarned /\ p'.clearnet = p.clearnet
KeepsIndexer == p'.indexer = p.indexer /\ p'.lastIndexer = p.lastIndexer
KeepsWallet ==
  /\ p'.seenOrder = p.seenOrder /\ p'.seenWallet = p.seenWallet
  /\ p'.warnedNoWallet = p.warnedNoWallet

LEMMA TellsType ==
  ASSUME TypeInv, NEW kinds, Tells(kinds), UNCHANGED world, p' \in Poller
  PROVE  TypeInv'
<1>1. PICK evs \in Seq(Told) : Say(evs)
  BY DEF Tells
<1>2. said' \in Seq(Told)
  BY <1>1 DEF Say, TypeInv
<1> QED BY <1>2 DEF TypeInv

LEMMA EventIs ==
  ASSUME NEW kind, NEW what, [kind |-> kind, what |-> what] \in Told
  PROVE  /\ Event(kind, what) \in Seq(Told) /\ Len(Event(kind, what)) = 1
         /\ Event(kind, what)[1] = [kind |-> kind, what |-> what]
BY DEF Event

LEMMA SilentIs == Silent \in Seq(Told) /\ Len(Silent) = 0
BY DEF Silent

\* Nothing new of other kinds.
LEMMA QuietIs ==
  ASSUME TypeInv, NEW told, Tells(told), NEW kinds, told \cap kinds = {}
  PROVE  Of(kinds)' = Of(kinds)
<1>1. PICK evs \in Seq(Told) : Say(evs) /\ \A i \in 1..Len(evs) : evs[i].kind \in told
  BY DEF Tells
<1>2. Of(kinds)' = Of(kinds) \o Part(evs, kinds) /\ Of(kinds) = Part(said, kinds) /\ said \in Seq(Told)
  BY <1>1, SayIs DEF TypeInv
<1>3. Part(evs, kinds) = <<>>
  <2>1. \A i \in 1..Len(evs) : evs[i].kind \notin kinds
    BY <1>1
  <2> QED BY <2>1, PartNone
<1>4. Of(kinds) \in Seq(Told)
  BY <1>2, PartIs
<1> QED BY <1>2, <1>3, <1>4

\* A step that says nothing, or one event.
LEMMA NothingTells ==
  ASSUME Say(Silent), NEW kinds
  PROVE  Tells(kinds)
<1>1. Silent \in Seq(Told) /\ \A i \in 1..Len(Silent) : Silent[i].kind \in kinds
  BY SilentIs
<1> QED BY <1>1 DEF Tells

LEMMA StepTells ==
  ASSUME NEW kind, NEW what, [kind |-> kind, what |-> what] \in Told,
         Say(Silent) \/ Say(Event(kind, what))
  PROVE  Tells({kind})
<1>1. CASE Say(Silent)
  BY <1>1, NothingTells
<1>2. CASE Say(Event(kind, what))
  <2>1. /\ Event(kind, what) \in Seq(Told)
        /\ \A i \in 1..Len(Event(kind, what)) : Event(kind, what)[i].kind \in {kind}
    BY EventIs
  <2> QED BY <1>2, <2>1 DEF Tells
<1> QED BY <1>1, <1>2

LEMMA PollerFields ==
  ASSUME p \in Poller
  PROVE  /\ p.lastHeight \in Nat \cup {None} /\ p.cursor \in Int /\ p.target \in Nat
         /\ p.lastMempool \in Nat \cup {None} /\ p.lastStore \in Nat \cup {None}
         /\ p.seenWallet \in SUBSET Nat /\ p.seenOrder \in Seq(Nat)
         /\ p.warnedNoWallet \in BOOLEAN /\ p.warnedDown \in BOOLEAN
         /\ p.indexer \in Nat \cup {None, Down} /\ p.lastIndexer \in Nat \cup {None}
         /\ p.beats \in Nat /\ p.torWarned \in BOOLEAN
         /\ p.clearnet \in BOOLEAN \cup {None} /\ p.failed \in BOOLEAN
BY DEF Poller

LEMMA UnreachableIs ==
  ASSUME TypeInv, Unreachable
  PROVE  /\ Tells({"node"}) /\ p' \in Poller /\ UNCHANGED <<world, page, flight, run>>
         /\ KeepsHeights /\ KeepsTor /\ KeepsIndexer /\ KeepsWallet
         /\ pc = "info" /\ pc' = "info" /\ p'.warnedDown = TRUE /\ p'.failed = TRUE
         /\ IF p.warnedDown THEN Say(Silent) ELSE Say(Event("node", Down))
<1>1. /\ p \in Poller /\ p' = [p EXCEPT !.warnedDown = TRUE, !.failed = TRUE]
      /\ Say(IF p.warnedDown THEN Silent ELSE Event("node", Down))
      /\ UNCHANGED <<world, page, flight, run>> /\ pc = "info" /\ pc' = "info"
  BY DEF TypeInv, Unreachable, Step
<1>2. p' \in Poller
  BY <1>1 DEF Poller
<1>3. /\ KeepsHeights /\ KeepsTor /\ KeepsIndexer /\ KeepsWallet
      /\ p'.warnedDown = TRUE /\ p'.failed = TRUE
  BY <1>1 DEF Poller, KeepsHeights, KeepsTor, KeepsIndexer, KeepsWallet
<1>4. IF p.warnedDown THEN Say(Silent) ELSE Say(Event("node", Down))
  BY <1>1
<1>5. [kind |-> "node", what |-> Down] \in Told
  BY DEF Told
<1>6. Tells({"node"})
  BY <1>4, <1>5, StepTells
<1> QED BY <1>1, <1>2, <1>3, <1>4, <1>6

LEMMA MempoolIs ==
  ASSUME TypeInv, MempoolEvent
  PROVE  /\ Tells({"mempool"}) /\ p' \in Poller /\ UNCHANGED <<world, page, flight, run>>
         /\ KeepsHeights /\ KeepsNode /\ KeepsTor /\ KeepsIndexer /\ KeepsWallet
         /\ pc = "mempool" /\ pc' = "store"
<1>1. /\ p \in Poller /\ world.mempool \in Nat
      /\ UNCHANGED <<world, page, flight, run>> /\ pc = "mempool" /\ pc' = "store"
      /\ p' = p \/ p' = [p EXCEPT !.lastMempool = world.mempool]
      /\ Say(Silent) \/ Say(Event("mempool", world.mempool))
  BY DEF TypeInv, World, MempoolEvent, Step
<1>2. p' \in Poller
  BY <1>1 DEF Poller
<1>3. KeepsHeights /\ KeepsNode /\ KeepsTor /\ KeepsIndexer /\ KeepsWallet
  BY <1>1 DEF Poller, KeepsHeights, KeepsNode, KeepsTor, KeepsIndexer, KeepsWallet
<1>4. [kind |-> "mempool", what |-> world.mempool] \in Told
  BY <1>1 DEF Told
<1>5. PICK w : w = world.mempool
  OBVIOUS
<1>6. Tells({"mempool"})
  BY <1>1, <1>4, <1>5, StepTells
<1> QED BY <1>1, <1>2, <1>3, <1>6

LEMMA StoreIs ==
  ASSUME TypeInv, StoreEvent
  PROVE  /\ Tells({"store"}) /\ p' \in Poller /\ UNCHANGED <<world, page, flight, run>>
         /\ KeepsHeights /\ KeepsNode /\ KeepsTor /\ KeepsIndexer /\ KeepsWallet
         /\ pc = "store" /\ pc' = "wallet"
<1>1. /\ p \in Poller /\ UNCHANGED <<world, page, flight, run>> /\ pc = "store" /\ pc' = "wallet"
      /\ \/ p' = p /\ Say(Silent)
         \/ /\ world.store \in Nat
            /\ p' = [p EXCEPT !.lastStore = world.store]
            /\ Say(Silent) \/ Say(Event("store", world.store))
  BY DEF TypeInv, World, StoreEvent, Step
<1>2. p' \in Poller
  BY <1>1 DEF Poller
<1>3. KeepsHeights /\ KeepsNode /\ KeepsTor /\ KeepsIndexer /\ KeepsWallet
  BY <1>1 DEF Poller, KeepsHeights, KeepsNode, KeepsTor, KeepsIndexer, KeepsWallet
<1>4. Tells({"store"})
  <2>1. CASE Say(Silent)
    BY <2>1, NothingTells
  <2>2. CASE world.store \in Nat /\ Say(Event("store", world.store))
    <3>1. PICK w : w = world.store
      OBVIOUS
    <3>2. [kind |-> "store", what |-> w] \in Told
      BY <2>2, <3>1 DEF Told
    <3> QED BY <2>2, <3>1, <3>2, StepTells
  <2> QED BY <1>1, <2>1, <2>2
<1> QED BY <1>1, <1>2, <1>3, <1>4

LEMMA InfoIs ==
  ASSUME TypeInv, Info
  PROVE  /\ Tells({"watching", "block"}) /\ p' \in Poller /\ UNCHANGED <<world, page, flight, run>>
         /\ KeepsNode /\ KeepsTor /\ KeepsIndexer /\ KeepsWallet
         /\ pc = "info"
         /\ \E h \in Nat :
              \/ /\ p.lastHeight = None /\ p'.lastHeight = h /\ pc' = "mempool"
                 /\ Say(Event("watching", <<h, h>>))
              \/ \E first \in Int :
                   /\ p.lastHeight \in Nat /\ p.lastHeight < first /\ first <= h /\ pc' = "block"
                   /\ p'.lastHeight = p.lastHeight /\ p'.cursor = first /\ p'.target = h
                   /\ IF first > p.lastHeight + 1
                      THEN Say(Event("block", <<p.lastHeight + 1, first - 1>>)) ELSE Say(Silent)
              \/ p.lastHeight # None /\ p' = p /\ Say(Silent) /\ pc' = "mempool"
<1> DEFINE h == world.tip
           first == IF p.lastHeight + 1 > h - Detail THEN p.lastHeight + 1 ELSE h - Detail
<1>1. /\ p \in Poller /\ h \in Nat /\ p.lastHeight \in Nat \cup {None} /\ Detail \in Nat
  BY PollerFields, PollAssumption DEF TypeInv, World
<1>2. UNCHANGED <<world, page, flight, run>> /\ pc = "info"
  BY DEF Info, Step
<1>3. CASE p.lastHeight = None /\ Step(Event("watching", <<h, h>>), [p EXCEPT !.lastHeight = h], "mempool")
  <2>1. p' = [p EXCEPT !.lastHeight = h] /\ Say(Event("watching", <<h, h>>)) /\ pc' = "mempool"
    BY <1>3 DEF Step
  <2>2. /\ p' \in Poller /\ p'.lastHeight = h
        /\ KeepsNode /\ KeepsTor /\ KeepsIndexer /\ KeepsWallet
    BY <1>1, <2>1 DEF Poller, KeepsNode, KeepsTor, KeepsIndexer, KeepsWallet
  <2>3. Tells({"watching", "block"})
    <3>1. PICK w : w = <<h, h>>
      OBVIOUS
    <3>2. [kind |-> "watching", what |-> w] \in Told
      BY <1>1, <3>1 DEF Told
    <3>3. Say(Event("watching", w))
      BY <2>1, <3>1
    <3>4. /\ Event("watching", w) \in Seq(Told) /\ Len(Event("watching", w)) = 1
          /\ \A i \in 1..1 : Event("watching", w)[i].kind \in {"watching", "block"}
      BY <3>2, EventIs
    <3> QED BY <3>3, <3>4 DEF Tells
  <2> QED BY <1>1, <1>2, <1>3, <2>1, <2>2, <2>3
<1>4. CASE /\ p.lastHeight # None /\ h > p.lastHeight
           /\ Step(IF first > p.lastHeight + 1
                     THEN Event("block", <<p.lastHeight + 1, first - 1>>) ELSE Silent,
                   [p EXCEPT !.cursor = first, !.target = h], "block")
  <2>1. /\ p' = [p EXCEPT !.cursor = first, !.target = h] /\ pc' = "block"
        /\ Say(IF first > p.lastHeight + 1
                 THEN Event("block", <<p.lastHeight + 1, first - 1>>) ELSE Silent)
    BY <1>4 DEF Step
  <2>2. p.lastHeight \in Nat /\ first \in Int /\ p.lastHeight < first /\ first <= h
    BY <1>1, <1>4
  <2>3. IF first > p.lastHeight + 1
        THEN Say(Event("block", <<p.lastHeight + 1, first - 1>>)) ELSE Say(Silent)
    <3> HIDE DEF first
    <3> QED BY <2>1
  <2> HIDE DEF first, h
  <2>4. /\ p' \in Poller /\ p'.lastHeight = p.lastHeight /\ p'.cursor = first /\ p'.target = h
        /\ KeepsNode /\ KeepsTor /\ KeepsIndexer /\ KeepsWallet
    BY <1>1, <2>1, <2>2 DEF Poller, KeepsNode, KeepsTor, KeepsIndexer, KeepsWallet
  <2>5. Tells({"watching", "block"})
    <3>1. CASE Say(Silent)
      BY <3>1, NothingTells
    <3>2. CASE Say(Event("block", <<p.lastHeight + 1, first - 1>>))
      <4>1. PICK w : w = <<p.lastHeight + 1, first - 1>>
        OBVIOUS
      <4>2. [kind |-> "block", what |-> w] \in Told
        BY <2>2, <4>1 DEF Told
      <4>3. Say(Event("block", w))
        BY <3>2, <4>1
      <4>4. /\ Event("block", w) \in Seq(Told) /\ Len(Event("block", w)) = 1
            /\ \A i \in 1..1 : Event("block", w)[i].kind \in {"watching", "block"}
        BY <4>2, EventIs
      <4> QED BY <4>3, <4>4 DEF Tells
    <3> QED BY <2>3, <3>1, <3>2
  <2> QED BY <1>1, <1>2, <2>1, <2>2, <2>3, <2>4, <2>5
<1>5. CASE p.lastHeight # None /\ Step(Silent, p, "mempool")
  <2>1. p' = p /\ Say(Silent) /\ pc' = "mempool"
    BY <1>5 DEF Step
  <2>2. p' \in Poller /\ KeepsNode /\ KeepsTor /\ KeepsIndexer /\ KeepsWallet
    BY <1>1, <2>1 DEF KeepsNode, KeepsTor, KeepsIndexer, KeepsWallet
  <2>3. Tells({"watching", "block"})
    BY <2>1, NothingTells
  <2> QED BY <1>1, <1>2, <1>5, <2>1, <2>2, <2>3
<1> QED BY <1>3, <1>4, <1>5 DEF Info

LEMMA BlockIs ==
  ASSUME TypeInv, BlockEvent
  PROVE  /\ Tells({"block"}) /\ p' \in Poller /\ UNCHANGED <<world, page, flight, run>>
         /\ KeepsNode /\ KeepsTor /\ KeepsIndexer /\ KeepsWallet
         /\ pc = "block" /\ Say(Event("block", <<p.cursor, p.cursor>>))
         /\ IF p.cursor < p.target
            THEN /\ pc' = "block" /\ p'.cursor = p.cursor + 1 /\ p'.target = p.target
                 /\ p'.lastHeight = p.lastHeight
            ELSE pc' = "mempool" /\ p'.lastHeight = p.target
<1>1. /\ p \in Poller /\ p.cursor \in Int /\ p.target \in Nat
      /\ UNCHANGED <<world, page, flight, run>> /\ pc = "block"
      /\ Say(Event("block", <<p.cursor, p.cursor>>))
      /\ p' = AfterBlock(p) /\ pc' = IF p.cursor < p.target THEN "block" ELSE "mempool"
  BY PollerFields DEF TypeInv, BlockEvent, Step
<1>2. Tells({"block"})
  <2>1. PICK w : w = <<p.cursor, p.cursor>>
    OBVIOUS
  <2>2. [kind |-> "block", what |-> w] \in Told
    BY <1>1, <2>1 DEF Told
  <2> QED BY <1>1, <2>1, <2>2, StepTells
<1>3. CASE p.cursor < p.target
  <2>1. p' = [p EXCEPT !.cursor = p.cursor + 1] /\ p.cursor + 1 \in Int
    BY <1>1, <1>3 DEF AfterBlock
  <2>2. /\ p' \in Poller /\ KeepsNode /\ KeepsTor /\ KeepsIndexer /\ KeepsWallet
        /\ p'.cursor = p.cursor + 1 /\ p'.target = p.target /\ p'.lastHeight = p.lastHeight
    BY <1>1, <2>1 DEF Poller, KeepsNode, KeepsTor, KeepsIndexer, KeepsWallet
  <2> QED BY <1>1, <1>2, <1>3, <2>2
<1>4. CASE ~(p.cursor < p.target)
  <2>1. p' = [p EXCEPT !.cursor = 0, !.target = 0, !.lastHeight = p.target]
    BY <1>1, <1>4 DEF AfterBlock
  <2>2. p' \in Poller
    <3>1. PICK t \in Nat : t = p.target
      BY <1>1
    <3>2. PICK c \in Int, z \in Nat : c = 0 /\ z = 0
      OBVIOUS
    <3>3. p' = [p EXCEPT !.cursor = c, !.target = z, !.lastHeight = t]
      BY <2>1, <3>1, <3>2
    <3> QED BY <1>1, <3>3 DEF Poller
  <2>3. KeepsNode /\ KeepsTor /\ p'.lastHeight = p.target
    BY <1>1, <2>1 DEF Poller, KeepsNode, KeepsTor
  <2>4. KeepsIndexer /\ KeepsWallet
    BY <1>1, <2>1 DEF Poller, KeepsIndexer, KeepsWallet
  <2> QED BY <1>1, <1>2, <1>4, <2>2, <2>3, <2>4
<1> QED BY <1>3, <1>4

LEMMA IndexerIs ==
  ASSUME TypeInv, IndexerEvent
  PROVE  /\ Tells({"indexer"}) /\ p' \in Poller /\ UNCHANGED <<world, page, flight, run>>
         /\ KeepsHeights /\ KeepsNode /\ KeepsTor /\ KeepsWallet
         /\ pc = "indexer" /\ pc' = "tor"
         /\ \/ Say(Silent) /\ p' = p
            \/ \E h \in Nat \cup {Down} :
                 /\ p'.indexer = h /\ p'.lastIndexer = IF h = Down THEN p.lastIndexer ELSE h
                 /\ IF h # Down
                    THEN IF p.indexer = Down THEN Say(Event("indexer", Up))
                         ELSE IF p.lastIndexer = None \/ h # p.lastIndexer
                              THEN Say(Event("indexer", h)) ELSE Say(Silent)
                    ELSE IF p.indexer = Down THEN Say(Silent) ELSE Say(Event("indexer", Down))
<1> DEFINE h == world.indexer
           wasDown == p.indexer # None /\ p.indexer = Down
           ev == IF h # Down
                 THEN IF wasDown THEN Event("indexer", Up)
                      ELSE IF p.lastIndexer = None \/ h # p.lastIndexer
                           THEN Event("indexer", h) ELSE Silent
                 ELSE IF wasDown THEN Silent ELSE Event("indexer", Down)
<1>1. /\ p \in Poller /\ h \in Nat \cup {Down} /\ p.lastIndexer \in Nat \cup {None}
      /\ UNCHANGED <<world, page, flight, run>> /\ pc = "indexer" /\ pc' = "tor"
      /\ wasDown <=> p.indexer = Down
  BY PollerFields, ValueAssumption DEF TypeInv, World, IndexerEvent, Step
<1>2. CASE Step(Silent, p, "tor")
  <2>1. p' = p /\ Say(Silent)
    BY <1>2 DEF Step
  <2>2. p' \in Poller /\ KeepsHeights /\ KeepsNode /\ KeepsTor /\ KeepsWallet
    BY <1>1, <2>1 DEF KeepsHeights, KeepsNode, KeepsTor, KeepsWallet
  <2>3. Tells({"indexer"})
    BY <2>1, NothingTells
  <2> QED BY <1>1, <2>1, <2>2, <2>3
<1>3. CASE Step(ev, [p EXCEPT !.indexer = h, !.lastIndexer = IF h = Down THEN @ ELSE h], "tor")
  <2> DEFINE l == IF h = Down THEN p.lastIndexer ELSE h
  <2>1. p' = [p EXCEPT !.indexer = h, !.lastIndexer = l] /\ Say(ev)
    BY <1>3 DEF Step
  <2>2. l \in Nat \cup {None}
    BY <1>1
  <2>3. IF h # Down
        THEN IF p.indexer = Down THEN Say(Event("indexer", Up))
             ELSE IF p.lastIndexer = None \/ h # p.lastIndexer
                  THEN Say(Event("indexer", h)) ELSE Say(Silent)
        ELSE IF p.indexer = Down THEN Say(Silent) ELSE Say(Event("indexer", Down))
    <3> HIDE DEF wasDown, h
    <3> QED BY <1>1, <2>1
  <2>4. Tells({"indexer"})
    <3>1. PICK w : w = h
      OBVIOUS
    <3>2. /\ [kind |-> "indexer", what |-> Up] \in Told /\ [kind |-> "indexer", what |-> Down] \in Told
          /\ [kind |-> "indexer", what |-> w] \in Told
      BY <1>1, <3>1 DEF Told
    <3>3. \/ Say(Silent) \/ Say(Event("indexer", Up)) \/ Say(Event("indexer", Down))
          \/ Say(Event("indexer", w))
      <4> HIDE DEF h
      <4> QED BY <2>3, <3>1
    <3> QED BY <3>2, <3>3, StepTells
  <2> HIDE DEF h, l
  <2>5. p' \in Poller /\ p'.indexer = h /\ p'.lastIndexer = l
    BY <1>1, <2>1, <2>2 DEF Poller
  <2>6. KeepsHeights /\ KeepsNode
    BY <1>1, <2>1 DEF Poller, KeepsHeights, KeepsNode
  <2>7. KeepsTor /\ KeepsWallet
    BY <1>1, <2>1 DEF Poller, KeepsTor, KeepsWallet
  <2>8. p'.lastIndexer = IF h = Down THEN p.lastIndexer ELSE h
    BY <2>5 DEF l
  <2> QED BY <1>1, <2>3, <2>4, <2>5, <2>6, <2>7, <2>8
<1>4. \/ Step(Silent, p, "tor")
      \/ Step(ev, [p EXCEPT !.indexer = h, !.lastIndexer = IF h = Down THEN @ ELSE h], "tor")
  BY DEF IndexerEvent
<1> QED BY <1>2, <1>3, <1>4

LEMMA PollerPeers ==
  ASSUME NEW q \in Poller, NEW clear \in BOOLEAN
  PROVE  /\ AfterPeers(q, clear) \in Poller
         /\ AfterPeers(q, clear).clearnet = clear /\ AfterPeers(q, clear).torWarned = clear
BY DEF AfterPeers, Poller

LEMMA TorIs ==
  ASSUME TypeInv, TorEvent
  PROVE  /\ Tells({"tor"}) /\ p' \in Poller /\ UNCHANGED <<world, page, flight, run>>
         /\ KeepsHeights /\ KeepsNode /\ KeepsIndexer /\ KeepsWallet
         /\ pc = "tor" /\ pc' = "beat"
         /\ \/ Say(Silent) /\ p' = p
            \/ \E clear \in BOOLEAN :
                 /\ p'.clearnet = clear /\ p'.torWarned = clear
                 /\ IF clear = p.torWarned THEN Say(Silent) ELSE Say(Event("tor", clear))
<1>1. /\ p \in Poller /\ world.clearnet \in BOOLEAN
      /\ UNCHANGED <<world, page, flight, run>> /\ pc = "tor" /\ pc' = "beat"
  BY DEF TypeInv, World, TorEvent, Step
<1>2. PICK clear : clear = world.clearnet
  OBVIOUS
<1>3. CASE Step(Silent, p, "beat")
  <2>1. p' = p /\ Say(Silent)
    BY <1>3 DEF Step
  <2>2. p' \in Poller /\ KeepsHeights /\ KeepsNode /\ KeepsIndexer /\ KeepsWallet
    BY <1>1, <2>1 DEF KeepsHeights, KeepsNode, KeepsIndexer, KeepsWallet
  <2>3. Tells({"tor"})
    BY <2>1, NothingTells
  <2> QED BY <1>1, <2>1, <2>2, <2>3
<1>4. CASE Step(IF clear = p.torWarned THEN Silent ELSE Event("tor", clear),
                AfterPeers(p, clear), "beat")
  <2>1. /\ p' = AfterPeers(p, clear) /\ p' = [p EXCEPT !.clearnet = clear, !.torWarned = clear]
        /\ clear \in BOOLEAN
        /\ IF clear = p.torWarned THEN Say(Silent) ELSE Say(Event("tor", clear))
    BY <1>1, <1>2, <1>4 DEF Step, AfterPeers
  <2>2. p' \in Poller /\ p'.clearnet = clear /\ p'.torWarned = clear
    BY <1>1, <2>1, PollerPeers
  <2>3. KeepsHeights /\ KeepsNode
    BY <1>1, <2>1 DEF Poller, KeepsHeights, KeepsNode
  <2>4. KeepsIndexer /\ KeepsWallet
    BY <1>1, <2>1 DEF Poller, KeepsIndexer, KeepsWallet
  <2>5. Tells({"tor"})
    <3>1. [kind |-> "tor", what |-> clear] \in Told
      BY <2>1 DEF Told
    <3> QED BY <2>1, <3>1, StepTells
  <2> QED BY <1>1, <2>1, <2>2, <2>3, <2>4, <2>5
<1> QED BY <1>2, <1>3, <1>4 DEF TorEvent

\* The fields after a tick without an exception.
LEMMA PollerBack ==
  ASSUME NEW q \in Poller, NEW n \in Nat
  PROVE  /\ [q EXCEPT !.beats = n, !.warnedDown = FALSE, !.failed = FALSE] \in Poller
         /\ [q EXCEPT !.beats = n, !.warnedDown = FALSE, !.failed = FALSE].warnedDown = FALSE
         /\ [q EXCEPT !.beats = n, !.warnedDown = FALSE, !.failed = FALSE].failed = FALSE
BY DEF Poller

\* The heartbeat says that the node is back last, whatever it says before.
LEMMA HeartIs ==
  ASSUME TypeInv, Heartbeat
  PROVE  /\ Tells({"tick", "node"}) /\ p' \in Poller /\ UNCHANGED <<world, page, flight, run>>
         /\ KeepsHeights /\ KeepsTor /\ KeepsIndexer /\ KeepsWallet
         /\ pc = "beat" /\ pc' = "info" /\ p'.warnedDown = FALSE /\ p'.failed = FALSE
         /\ Of({"node"})' = IF p.warnedDown
                            THEN Append(Of({"node"}), [kind |-> "node", what |-> Up])
                            ELSE Of({"node"})
<1> DEFINE due == p.beats + 1 = BeatEvery
           tick == IF due THEN Event("tick", p.clearnet) ELSE Silent
           back == IF p.warnedDown THEN Event("node", Up) ELSE Silent
           q == [p EXCEPT !.beats = IF due THEN 0 ELSE @ + 1,
                          !.warnedDown = FALSE, !.failed = FALSE]
<1>1. /\ p \in Poller /\ p.beats \in Nat /\ p.clearnet \in BOOLEAN \cup {None}
      /\ UNCHANGED <<world, page, flight, run>> /\ pc = "beat" /\ pc' = "info"
      /\ Say(tick \o back) /\ p' = q /\ said \in Seq(Told)
  BY PollerFields DEF TypeInv, Heartbeat, Step
<1>2. /\ tick \in Seq(Told) /\ \A i \in 1..Len(tick) : tick[i].kind = "tick"
  <2>1. PICK w : w = p.clearnet
    OBVIOUS
  <2>2. [kind |-> "tick", what |-> w] \in Told
    BY <1>1, <2>1 DEF Told
  <2>3. /\ Event("tick", w) \in Seq(Told) /\ Len(Event("tick", w)) = 1
        /\ Event("tick", w)[1].kind = "tick"
    BY <2>2, EventIs
  <2>4. tick = Event("tick", w) \/ tick = Silent
    BY <2>1
  <2> HIDE DEF tick
  <2>5. CASE tick = Event("tick", w)
    BY <2>3, <2>5
  <2>6. CASE tick = Silent
    BY <2>6, SilentIs
  <2> QED BY <2>4, <2>5, <2>6
<1>3. /\ back \in Seq(Told) /\ \A i \in 1..Len(back) : back[i].kind = "node"
      /\ back = IF p.warnedDown THEN <<[kind |-> "node", what |-> Up]>> ELSE <<>>
  <2>1. [kind |-> "node", what |-> Up] \in Told
    BY DEF Told
  <2>2. /\ Event("node", Up) \in Seq(Told) /\ Len(Event("node", Up)) = 1
        /\ Event("node", Up)[1].kind = "node" /\ Event("node", Up) = <<[kind |-> "node", what |-> Up]>>
        /\ Silent = <<>>
    BY <2>1, EventIs DEF Event, Silent
  <2>3. back = IF p.warnedDown THEN Event("node", Up) ELSE Silent
    OBVIOUS
  <2> HIDE DEF back
  <2> QED BY <2>2, <2>3, SilentIs
<1>4. PICK t, b, evs : t = tick /\ b = back /\ evs = t \o b
  OBVIOUS
<1>5. /\ t \in Seq(Told) /\ \A i \in 1..Len(t) : t[i].kind = "tick"
      /\ b \in Seq(Told) /\ \A i \in 1..Len(b) : b[i].kind = "node"
      /\ b = IF p.warnedDown THEN <<[kind |-> "node", what |-> Up]>> ELSE <<>>
      /\ evs = t \o b /\ Say(evs)
  <2> HIDE DEF tick, back
  <2> QED BY <1>1, <1>2, <1>3, <1>4
<1> HIDE DEF tick, back
<1>6. evs \in Seq(Told) /\ \A i \in 1..Len(evs) : evs[i].kind \in {"tick", "node"}
  BY <1>5
<1>7. Tells({"tick", "node"})
  BY <1>5, <1>6 DEF Tells
<1>8. Of({"node"})' = Of({"node"}) \o b
  <2>1. Of({"node"})' = Of({"node"}) \o Part(evs, {"node"})
    <3>1. evs \in Seq(Told) /\ Say(evs) /\ said \in Seq(Told)
      BY <1>1, <1>5, <1>6
    <3> QED BY <3>1, SayIs
  <2>2. Part(evs, {"node"}) = Part(t, {"node"}) \o Part(b, {"node"})
    BY <1>5, PartConcat
  <2>3. Part(t, {"node"}) = <<>>
    BY <1>5, PartNone
  <2>4. Part(b, {"node"}) = b
    BY <1>5, PartAll
  <2>5. <<>> \o b = b
    BY <1>5
  <2> QED BY <2>1, <2>2, <2>3, <2>4, <2>5, Zenon
<1>9. Of({"node"}) \in Seq(Told)
  <2>1. Of({"node"}) = Part(said, {"node"})
    BY DEF Of, Part
  <2> QED BY <1>1, <2>1, PartIs
<1>10. Of({"node"})' = IF p.warnedDown THEN Append(Of({"node"}), [kind |-> "node", what |-> Up])
                       ELSE Of({"node"})
  <2>1. PICK o \in Seq(Told) : o = Of({"node"})
    BY <1>9
  <2>2. b \in Seq(Told) /\ b = IF p.warnedDown THEN <<[kind |-> "node", what |-> Up]>> ELSE <<>>
    BY <1>5
  <2>3. o \o b = IF p.warnedDown THEN Append(o, [kind |-> "node", what |-> Up]) ELSE o
    BY <2>2
  <2> QED BY <1>8, <2>1, <2>3
<1>11. p' \in Poller /\ p'.warnedDown = FALSE /\ p'.failed = FALSE
  <2>1. PICK n \in Nat : n = IF due THEN 0 ELSE p.beats + 1
    BY <1>1
  <2>2. p' = [p EXCEPT !.beats = n, !.warnedDown = FALSE, !.failed = FALSE]
    BY <1>1, <2>1
  <2>3. /\ [p EXCEPT !.beats = n, !.warnedDown = FALSE, !.failed = FALSE] \in Poller
        /\ [p EXCEPT !.beats = n, !.warnedDown = FALSE, !.failed = FALSE].warnedDown = FALSE
        /\ [p EXCEPT !.beats = n, !.warnedDown = FALSE, !.failed = FALSE].failed = FALSE
    BY <1>1, PollerBack
  <2> QED BY <2>2, <2>3
<1>12. KeepsHeights /\ KeepsTor
  BY <1>1 DEF Poller, KeepsHeights, KeepsTor
<1>13. KeepsIndexer /\ KeepsWallet
  BY <1>1 DEF Poller, KeepsIndexer, KeepsWallet
<1> QED BY <1>1, <1>7, <1>10, <1>11, <1>12, <1>13

-----------------------------------------------------------------------------
(* The memory of wallet transactions.                                      *)

\* Numbers that rise from place to place rise by one at least.
LEMMA RisingIs ==
  ASSUME NEW s \in Seq(Nat), \A i, j \in 1..Len(s) : i < j => s[i] < s[j]
  PROVE  \A i \in 1..Len(s) : s[i] >= s[1] + i - 1
<1> DEFINE N == Len(s)
           S == {n \in Nat : n + 1 \in 1..N => s[n + 1] >= s[1] + n}
<1>1. N \in Nat /\ (\A i \in 1..N : s[i] \in Nat) /\ \A i, j \in 1..N : i < j => s[i] < s[j]
  OBVIOUS
<1> HIDE DEF N
<1>2. 0 \in S
  BY <1>1
<1>3. ASSUME NEW n \in S PROVE n + 1 \in S
  <2> SUFFICES ASSUME (n + 1) + 1 \in 1..N PROVE s[(n + 1) + 1] >= s[1] + (n + 1)
    OBVIOUS
  <2>1. n + 1 \in 1..N /\ n + 1 < (n + 1) + 1 /\ n \in Nat /\ 1 \in 1..N
    BY <1>1
  <2>2. s[n + 1] >= s[1] + n /\ s[n + 1] < s[(n + 1) + 1]
    BY <1>1, <2>1
  <2>3. s[n + 1] \in Nat /\ s[(n + 1) + 1] \in Nat /\ s[1] \in Nat
    BY <1>1, <2>1
  <2> QED BY <2>1, <2>2, <2>3
<1>4. \A n \in Nat : n \in S
  <2>1. S \subseteq Nat
    OBVIOUS
  <2> HIDE DEF S
  <2> QED BY <1>2, <1>3, <2>1, SetInduction
<1>5. ASSUME NEW i \in 1..N PROVE s[i] >= s[1] + i - 1
  <2>1. i - 1 \in S /\ (i - 1) + 1 = i /\ i - 1 \in Nat /\ s[1] \in Nat
    BY <1>1, <1>4
  <2> QED BY <1>5, <2>1
<1> QED BY <1>5 DEF N

Forgotten(order, seen) == IF Len(order) = SeenMax THEN seen \ {Head(order)} ELSE seen

\* The deque and the set forget the same one, and never one that is due.
LEMMA MemoryGrows ==
  ASSUME NEW order, NEW seen, NEW low \in Nat, NEW top \in Nat, Memory(order, seen, low, top),
         NEW key \in Nat, key > top, \A t \in low..key : t > top => t = key
  PROVE  Memory(Newest(Append(order, key), SeenMax), Forgotten(order, seen) \cup {key}, low, key)
<1> DEFINE N == Len(order)
           long == Append(order, key)
           new == Newest(long, SeenMax)
           rest == Forgotten(order, seen) \cup {key}
<1>1. /\ order \in Seq(Nat) /\ seen = {order[i] : i \in 1..N} /\ N <= SeenMax
      /\ \A i, j \in 1..N : i < j => order[i] < order[j]
      /\ \A i \in 1..N : order[i] \in 1..top
      /\ \A t \in low..top : t > top - SeenMax => t \in seen
  BY DEF Memory
<1>2. SeenMax \in Nat \ {0} /\ N \in Nat
  BY <1>1, SeenAssumption
<1>3. /\ long \in Seq(Nat) /\ Len(long) = N + 1 /\ long[N + 1] = key
      /\ \A i \in 1..N : long[i] = order[i]
  BY <1>1
<1>4. new = Newest(long, SeenMax)
  OBVIOUS
<1> HIDE DEF long, N, new, rest
<1>5. CASE N < SeenMax
  <2>1. new = long
    <3>1. Len(long) <= SeenMax /\ SeenMax \in Nat
      BY <1>2, <1>3, <1>5
    <3> QED BY <1>3, <1>4, <3>1, NewestAll
  <2>2. \A i \in 1..(N + 1) : i \in 1..N \/ i = N + 1
    BY <1>2
  <2>3. /\ new \in Seq(Nat) /\ Len(new) = N + 1
        /\ new[N + 1] = key /\ \A i \in 1..N : new[i] = order[i]
    BY <1>3, <2>1
  <2>4. rest = seen \cup {key}
    BY <1>2, <1>5 DEF Forgotten, N, rest
  <2>5. rest = {new[i] : i \in 1..Len(new)}
    <3>1. ASSUME NEW t \in rest PROVE \E i \in 1..(N + 1) : new[i] = t
      <4>1. CASE t = key
        <5>1. N + 1 \in 1..(N + 1)
          BY <1>2
        <5> QED BY <2>3, <4>1, <5>1
      <4>2. CASE t \in seen
        <5>1. PICK i \in 1..N : t = order[i]
          BY <1>1, <4>2
        <5>2. i \in 1..(N + 1)
          BY <1>2
        <5> QED BY <2>3, <5>1, <5>2
      <4> QED BY <2>4, <4>1, <4>2
    <3>2. ASSUME NEW i \in 1..(N + 1) PROVE new[i] \in rest
      <4>1. CASE i = N + 1
        BY <2>3, <2>4, <4>1
      <4>2. CASE i \in 1..N
        BY <1>1, <2>3, <2>4, <4>2
      <4> QED BY <2>2, <4>1, <4>2
    <3> QED BY <2>3, <3>1, <3>2
  <2>6. ASSUME NEW i \in 1..(N + 1), NEW j \in 1..(N + 1), i < j PROVE new[i] < new[j]
    <3>1. i \in 1..N /\ new[i] = order[i] /\ order[i] \in 1..top
      BY <1>1, <1>2, <2>3, <2>6
    <3>2. CASE j = N + 1
      BY <2>3, <3>1, <3>2
    <3>3. CASE j \in 1..N
      BY <1>1, <2>3, <2>6, <3>1, <3>3
    <3> QED BY <2>2, <3>2, <3>3
  <2>7. ASSUME NEW i \in 1..(N + 1) PROVE new[i] \in 1..key
    <3>1. CASE i = N + 1
      BY <2>3, <3>1
    <3>2. CASE i \in 1..N
      <4>1. new[i] \in 1..top
        BY <1>1, <2>3, <3>2
      <4> QED BY <4>1
    <3> QED BY <2>2, <3>1, <3>2
  <2>8. ASSUME NEW t \in low..key, t > key - SeenMax PROVE t \in rest
    <3>1. t = key \/ (t \in low..top /\ t > top - SeenMax)
      BY <1>2, <2>8
    <3> QED BY <1>1, <2>4, <3>1
  <2>9. Len(new) <= SeenMax
    BY <1>2, <1>5, <2>3
  <2>10. Memory(new, rest, low, key)
    BY <2>3, <2>5, <2>6, <2>7, <2>8, <2>9 DEF Memory
  <2> QED BY <1>4, <2>10 DEF rest, long
<1>6. CASE N = SeenMax
  <2>1. /\ new \in Seq(Nat) /\ Len(new) = N
        /\ \A i \in 1..N : new[i] = long[(N + 1) - N + i]
    <3>1. long \in Seq(Nat) /\ Len(long) = N + 1 /\ N \in Nat /\ Len(long) > N
      BY <1>2, <1>3
    <3>2. new = Newest(long, N)
      BY <1>4, <1>6
    <3> HIDE DEF N, long
    <3>3. /\ Newest(long, N) \in Seq(Nat) /\ Len(Newest(long, N)) = N
          /\ \A i \in 1..N : Newest(long, N)[i] = long[Len(long) - N + i]
      BY <3>1, NewestLast
    <3> QED BY <3>1, <3>2, <3>3
  <2>2. /\ \A i \in 1..N : (N + 1) - N + i = i + 1 /\ (i + 1 \in 1..N \/ i = N)
        /\ \A i \in 2..N : i - 1 \in 1..N /\ (i - 1) + 1 = i
        /\ 1 \in 1..N /\ N \in 1..N
    BY <1>2, <1>6
  <2>3. /\ \A i \in 1..N : new[i] = IF i = N THEN key ELSE order[i + 1]
    BY <1>2, <1>3, <2>1, <2>2
  <2>4. Head(order) = order[1] /\ rest = (seen \ {order[1]}) \cup {key}
    BY <1>1, <1>2, <1>6 DEF Forgotten, N, rest
  <2>5. rest = {new[i] : i \in 1..Len(new)}
    <3>1. ASSUME NEW t \in rest PROVE \E i \in 1..N : new[i] = t
      <4>1. CASE t = key
        <5>1. N \in 1..N /\ new[N] = key
          BY <2>2, <2>3
        <5> QED BY <4>1, <5>1
      <4>2. CASE t \in seen /\ t # order[1]
        <5>1. PICK i \in 1..N : t = order[i]
          BY <1>1, <4>2
        <5>2. i \in 2..N /\ i - 1 # N
          BY <1>2, <4>2, <5>1
        <5>3. i - 1 \in 1..N /\ new[i - 1] = order[i]
          BY <2>2, <2>3, <5>2
        <5> QED BY <5>1, <5>3
      <4> QED BY <2>4, <4>1, <4>2
    <3>2. ASSUME NEW i \in 1..N PROVE new[i] \in rest
      <4>1. CASE i = N
        BY <2>3, <2>4, <4>1
      <4>2. CASE i # N
        <5>1. i + 1 \in 1..N /\ 1 < i + 1 /\ new[i] = order[i + 1]
          BY <1>2, <2>2, <2>3, <4>2
        <5>2. order[i + 1] \in seen
          BY <1>1, <5>1
        <5>3. order[1] < order[i + 1] /\ order[1] \in 1..top /\ order[i + 1] \in 1..top
          BY <1>1, <2>2, <5>1
        <5> QED BY <2>4, <5>1, <5>2, <5>3
      <4> QED BY <4>1, <4>2
    <3> QED BY <2>1, <3>1, <3>2
  <2>6. ASSUME NEW i \in 1..N, NEW j \in 1..N, i < j PROVE new[i] < new[j]
    <3>1. i # N /\ i + 1 \in 1..N /\ new[i] = order[i + 1] /\ order[i + 1] \in 1..top
      BY <1>1, <1>2, <2>2, <2>3, <2>6
    <3>2. CASE j = N
      BY <1>2, <2>3, <3>1, <3>2
    <3>3. CASE j # N
      <4>1. j + 1 \in 1..N /\ new[j] = order[j + 1] /\ i + 1 < j + 1
        BY <1>2, <2>2, <2>3, <2>6, <3>3
      <4> QED BY <1>1, <3>1, <4>1
    <3> QED BY <3>2, <3>3
  <2>7. ASSUME NEW i \in 1..N PROVE new[i] \in 1..key
    <3>1. CASE i = N
      BY <2>3, <3>1
    <3>2. CASE i # N
      <4>1. new[i] = order[i + 1] /\ order[i + 1] \in 1..top
        BY <1>1, <2>2, <2>3, <3>2
      <4> QED BY <4>1
    <3> QED BY <3>1, <3>2
  <2>8. ASSUME NEW t \in low..key, t > key - SeenMax PROVE t \in rest
    <3>1. CASE t = key
      BY <2>4, <3>1
    <3>2. CASE t # key
      <4>1. t \in low..top /\ t > top - SeenMax
        BY <1>2, <2>8, <3>2
      <4>2. order[N] >= order[1] + N - 1 /\ order[N] \in 1..top /\ order[1] \in Nat
        <5>1. /\ order \in Seq(Nat) /\ \A i, j \in 1..Len(order) : i < j => order[i] < order[j]
              /\ \A i \in 1..Len(order) : order[i] \in 1..top
          BY <1>1 DEF N
        <5>2. \A i \in 1..Len(order) : order[i] >= order[1] + i - 1
          BY <5>1, RisingIs
        <5>3. \A i \in 1..N : order[i] >= order[1] + i - 1
          BY <5>2 DEF N
        <5>4. order[N] >= order[1] + N - 1 /\ order[N] \in 1..top /\ order[1] \in 1..top
          BY <1>1, <2>2, <5>3
        <5> QED BY <5>4
      <4>3. t # order[1]
        <5>1. SeenMax \in Nat /\ N = SeenMax /\ t \in Int /\ top \in Nat /\ order[N] <= top
          BY <1>2, <1>6, <2>8, <4>2
        <5>2. order[1] <= top - SeenMax + 1 /\ key \in Nat /\ t > key - SeenMax
          BY <2>8, <4>2, <5>1
        <5> QED BY <4>2, <5>1, <5>2
      <4> QED BY <1>1, <2>4, <4>1, <4>3
    <3> QED BY <3>1, <3>2
  <2>9. Len(new) <= SeenMax
    BY <1>2, <1>6, <2>1
  <2>10. Memory(new, rest, low, key)
    BY <2>1, <2>5, <2>6, <2>7, <2>8, <2>9 DEF Memory
  <2> QED BY <1>4, <2>10 DEF rest, long
<1> QED BY <1>1, <1>2, <1>5, <1>6

\* The fields that the memory is not.
Else(q, r) ==
  /\ r.lastHeight = q.lastHeight /\ r.cursor = q.cursor /\ r.target = q.target
  /\ r.warnedDown = q.warnedDown /\ r.failed = q.failed
  /\ r.torWarned = q.torWarned /\ r.clearnet = q.clearnet
  /\ r.indexer = q.indexer /\ r.lastIndexer = q.lastIndexer
  /\ r.warnedNoWallet = q.warnedNoWallet

LEMMA SeenIs ==
  ASSUME NEW q \in Poller, NEW key \in Nat
  PROVE  /\ Seen(q, key) \in Poller /\ Else(q, Seen(q, key))
         /\ Seen(q, key).seenOrder = Newest(Append(q.seenOrder, key), SeenMax)
         /\ Seen(q, key).seenWallet = Forgotten(q.seenOrder, q.seenWallet) \cup {key}
<1>1. q.seenOrder \in Seq(Nat) /\ q.seenWallet \in SUBSET Nat
  BY DEF Poller
<1> DEFINE order == Newest(Append(q.seenOrder, key), SeenMax)
           seen == Forgotten(q.seenOrder, q.seenWallet) \cup {key}
<1>2. order \in Seq(Nat)
  <2>1. Append(q.seenOrder, key) \in Seq(Nat) /\ SeenMax \in Nat
    BY <1>1, SeenAssumption
  <2> QED BY <2>1, NewestIs
<1>3. seen \in SUBSET Nat
  BY <1>1 DEF Forgotten
<1>4. Seen(q, key) = [q EXCEPT !.seenWallet = seen, !.seenOrder = order]
  BY DEF Seen, Forgotten
<1> HIDE DEF order, seen
<1>5. /\ Seen(q, key) \in Poller
      /\ Seen(q, key).seenOrder = order /\ Seen(q, key).seenWallet = seen
  BY <1>2, <1>3, <1>4 DEF Poller
<1>6. Else(q, Seen(q, key))
  BY <1>4 DEF Poller, Else
<1> QED BY <1>5, <1>6 DEF order, seen

LEMMA ElseTrans ==
  ASSUME NEW a, NEW b, NEW c, Else(a, b), Else(b, c)
  PROVE  Else(a, c)
BY DEF Else

\* The loop over new transactions: it ends with the last of them remembered.
LEMMA AllSeenIs ==
  ASSUME NEW q \in Poller, NEW keys \in Seq(Nat), NEW first \in Nat, NEW low \in Nat, NEW top \in Nat,
         \A i \in 1..Len(keys) : keys[i] = first + i - 1,
         Memory(q.seenOrder, q.seenWallet, low, top), first > top, first = top + 1 \/ first <= low
  PROVE  /\ AllSeen(q, keys) \in Poller /\ Else(q, AllSeen(q, keys))
         /\ Len(keys) > 0 =>
              Memory(AllSeen(q, keys).seenOrder, AllSeen(q, keys).seenWallet, low, first + Len(keys) - 1)
         /\ Len(keys) = 0 => AllSeen(q, keys) = q
<1> DEFINE N == Len(keys)
           step == [x \in (1..N) \X Poller |-> Seen(x[2], keys[x[1]])]
           body(h) == [n \in 0..N |-> IF n = 0 THEN q ELSE Seen(h[n - 1], keys[n])]
           seen == CHOOSE h : h = body(h)
<1>1. N \in Nat /\ \A i \in 1..N : keys[i] \in Nat /\ keys[i] = first + i - 1
  OBVIOUS
<1>2. AllSeen(q, keys) = seen[N]
  BY DEF AllSeen
<1> HIDE DEF N
<1>3. step \in [(1..N) \X Poller -> Poller] /\ \A n \in 1..N, x \in Poller : step[<<n, x>>] = Seen(x, keys[n])
  BY <1>1, SeenIs
<1> HIDE DEF step
<1>4. PICK f \in [0..N -> Poller] : f[0] = q /\ \A n \in 1..N : f[n] = step[<<n, f[n - 1]>>]
  <2>1. PICK f \in [0..N -> Poller] : Repeats(f, q, step, N)
    BY <1>1, <1>3, LoopExists
  <2> QED BY <2>1 DEF Repeats
<1>5. \A n \in 1..N : n - 1 \in 0..N /\ n \in 0..N /\ n # 0
  BY <1>1
<1>6. f = body(f)
  <2>1. ASSUME NEW n \in 0..N PROVE f[n] = IF n = 0 THEN q ELSE Seen(f[n - 1], keys[n])
    <3>1. CASE n = 0
      BY <1>4, <3>1
    <3>2. CASE n \in 1..N
      BY <1>3, <1>4, <1>5, <3>2
    <3> QED BY <1>1, <3>1, <3>2
  <2>2. f = [n \in 0..N |-> f[n]]
    OBVIOUS
  <2> QED BY <2>1, <2>2
<1>7. seen = body(seen)
  BY <1>6
<1> HIDE DEF seen
<1>8. seen[0] = q /\ \A n \in 1..N : seen[n] = Seen(seen[n - 1], keys[n])
  <2>1. 0 \in 0..N
    BY <1>1
  <2> QED BY <1>5, <1>7, <2>1
<1> HIDE DEF body
<1> DEFINE S == {n \in Nat : n <= N =>
                   /\ seen[n] \in Poller /\ Else(q, seen[n])
                   /\ IF n = 0 THEN seen[n] = q
                      ELSE Memory(seen[n].seenOrder, seen[n].seenWallet, low, first + n - 1)}
<1>9. 0 \in S
  BY <1>8 DEF Else
<1>10. ASSUME NEW n \in S PROVE n + 1 \in S
  <2> SUFFICES ASSUME n + 1 <= N
               PROVE  /\ seen[n + 1] \in Poller /\ Else(q, seen[n + 1])
                      /\ Memory(seen[n + 1].seenOrder, seen[n + 1].seenWallet, low, first + (n + 1) - 1)
    OBVIOUS
  <2>1. /\ n \in Nat /\ n <= N /\ n + 1 \in 1..N /\ (n + 1) - 1 = n /\ first + (n + 1) - 1 = first + n
        /\ keys[n + 1] = first + n /\ keys[n + 1] \in Nat
    <3>1. n \in Nat
      OBVIOUS
    <3>2. n <= N /\ n + 1 \in 1..N /\ (n + 1) - 1 = n
      <4> HIDE DEF S
      <4> QED BY <1>1, <3>1
    <3> HIDE DEF S, seen
    <3>3. keys[n + 1] = first + (n + 1) - 1
      BY <1>1, <3>2
    <3> QED BY <1>1, <3>1, <3>2, <3>3
  <2>2. /\ seen[n] \in Poller /\ Else(q, seen[n]) /\ seen[n + 1] = Seen(seen[n], keys[n + 1])
        /\ IF n = 0 THEN seen[n] = q
           ELSE Memory(seen[n].seenOrder, seen[n].seenWallet, low, first + n - 1)
    BY <1>8, <2>1
  <2> HIDE DEF S
  <2>3. seen[n + 1] \in Poller /\ Else(q, seen[n + 1])
    BY <2>1, <2>2, SeenIs, ElseTrans
  <2> DEFINE last == IF n = 0 THEN top ELSE first + n - 1
  <2>4. /\ Memory(seen[n].seenOrder, seen[n].seenWallet, low, last) /\ last \in Nat
        /\ keys[n + 1] > last /\ \A t \in low..(keys[n + 1]) : t > last => t = keys[n + 1]
    <3>1. CASE n = 0
      BY <2>1, <2>2, <3>1
    <3>2. CASE n # 0
      BY <2>1, <2>2, <3>2
    <3> QED BY <3>1, <3>2
  <2> HIDE DEF last
  <2>5. Memory(Newest(Append(seen[n].seenOrder, keys[n + 1]), SeenMax),
               Forgotten(seen[n].seenOrder, seen[n].seenWallet) \cup {keys[n + 1]}, low, keys[n + 1])
    BY <2>1, <2>4, MemoryGrows
  <2>6. Memory(seen[n + 1].seenOrder, seen[n + 1].seenWallet, low, first + (n + 1) - 1)
    BY <2>1, <2>2, <2>5, SeenIs
  <2> QED BY <2>3, <2>6
<1>11. N \in S
  <2>1. S \subseteq Nat
    OBVIOUS
  <2> HIDE DEF S
  <2> QED BY <1>1, <1>9, <1>10, <2>1, SetInduction
<1>12. /\ seen[N] \in Poller /\ Else(q, seen[N])
       /\ IF N = 0 THEN seen[N] = q
          ELSE Memory(seen[N].seenOrder, seen[N].seenWallet, low, first + N - 1)
  BY <1>1, <1>11
<1> QED BY <1>1, <1>2, <1>12 DEF N

\* The listed transactions that are not remembered are those after the last
\* that was told.
LEMMA FreshIs ==
  ASSUME TypeInv, NEW n \in Nat, n = world.txs, NEW top \in 0..n,
         Memory(p.seenOrder, p.seenWallet, Low(top), top)
  PROVE  LET fresh == Only(Listed, {i \in DOMAIN Listed : Listed[i] \notin p.seenWallet})
         IN /\ fresh \in Seq(Nat)
            /\ \E f \in Nat :
                 /\ f > top /\ (f = top + 1 \/ f <= Low(n))
                 /\ \A i \in 1..Len(fresh) : fresh[i] = f + i - 1
                 /\ Len(fresh) > 0 => f + Len(fresh) - 1 = n
<1> DEFINE all == [i \in 1..n |-> i]
           k == IF n > Recent THEN Recent ELSE n
           s == Listed
           P == {i \in DOMAIN s : s[i] \notin p.seenWallet}
           m == IF top > n - k THEN top - (n - k) ELSE 0
           fresh == Only(s, P)
<1>1. Recent \in Nat /\ SeenMax \in Nat /\ Recent <= SeenMax /\ k \in Nat /\ k <= n /\ k <= Recent
  BY SeenAssumption
<1> DEFINE first == n - k + m + 1
<1>2. s \in Seq(Nat) /\ Len(s) = k /\ \A i \in 1..k : s[i] = n - k + i
  <2>1. all \in Seq(Nat) /\ Len(all) = n /\ \A i \in 1..n : all[i] = i
    OBVIOUS
  <2>2. s = Newest(all, Recent)
    BY DEF Listed
  <2> HIDE DEF all
  <2>0. k = IF Len(all) > Recent THEN Recent ELSE Len(all)
    BY <2>1
  <2> HIDE DEF s, k
  <2>3. /\ s \in Seq(Nat) /\ Len(s) = k /\ \A i \in 1..k : s[i] = all[Len(all) - k + i]
    <3>1. LET j == IF Len(all) > Recent THEN Recent ELSE Len(all)
          IN /\ Newest(all, Recent) \in Seq(Nat) /\ Len(Newest(all, Recent)) = j
             /\ \A i \in 1..j : Newest(all, Recent)[i] = all[Len(all) - j + i]
      BY <1>1, <2>1, NewestIs
    <3> QED BY <2>0, <2>2, <3>1
  <2>4. \A i \in 1..k : n - k + i \in 1..n
    BY <1>1
  <2> QED BY <2>1, <2>3, <2>4
<1> HIDE DEF s
<1>3. m \in 0..k /\ n - k + m >= top /\ (n - k + m = top \/ m = 0)
  BY <1>1
<1>4. ASSUME NEW i \in 1..k PROVE i \in P <=> i > m
  <2>1. i \in P <=> n - k + i \notin p.seenWallet
    BY <1>2
  <2>2. CASE i > m
    <3>1. n - k + i > top /\ n - k + i \in Nat
      BY <1>1, <1>3, <2>2
    <3>2. \A t \in p.seenWallet : t \in 1..top
      BY DEF Memory
    <3>3. n - k + i \notin p.seenWallet
      BY <3>1, <3>2
    <3> QED BY <2>1, <2>2, <3>3
  <2>3. CASE i <= m
    <3>1. m # 0 /\ n - k + m = top
      BY <1>1, <1>3, <2>3
    <3>2. n - k + i \in Low(top)..top /\ n - k + i > top - SeenMax
      BY <1>1, <1>3, <2>3, <3>1 DEF Low
    <3>3. n - k + i \in p.seenWallet
      BY <3>2 DEF Memory
    <3> QED BY <1>1, <2>1, <2>3, <3>3, <1>3
  <2> QED BY <1>1, <1>3, <2>2, <2>3
<1>9. first > top /\ (first = top + 1 \/ first <= Low(n))
  BY <1>1, <1>3 DEF Low
<1> HIDE DEF P, m, k
<1>5. fresh = [i \in 1..(k - m) |-> s[m + i]]
  <2>1. s \in Seq(Nat) /\ m \in 0..Len(s) /\ \A i \in 1..Len(s) : i \in P <=> i > m
    BY <1>2, <1>3, <1>4
  <2>2. Only(s, P) = [i \in 1..(Len(s) - m) |-> s[m + i]]
    BY <2>1, OnlySuffix
  <2> QED BY <1>2, <2>2
<1>6. /\ \A i \in 1..(k - m) : m + i \in 1..k /\ n - k + (m + i) = first + i - 1
      /\ k - m \in Nat /\ first \in Nat
      /\ first + (k - m) - 1 = n
      /\ \A i \in 1..(k - m) : first + i - 1 \in Nat
  BY <1>1, <1>3
<1> HIDE DEF first
<1>7. \A i \in 1..(k - m) : s[m + i] = first + i - 1
  BY <1>2, <1>6
<1> HIDE DEF fresh
<1>8. /\ fresh \in Seq(Nat) /\ Len(fresh) = k - m
      /\ \A i \in 1..Len(fresh) : fresh[i] = first + i - 1
  <2>1. PICK c \in Nat : c = k - m
    BY <1>6
  <2>2. fresh = [i \in 1..c |-> s[m + i]] /\ \A i \in 1..c : s[m + i] = first + i - 1
    BY <1>5, <1>7, <2>1 DEF fresh
  <2>3. \A i \in 1..c : s[m + i] \in Nat
    BY <1>6, <2>1, <2>2
  <2>4. fresh \in Seq(Nat) /\ Len(fresh) = c /\ \A i \in 1..c : fresh[i] = s[m + i]
    BY <2>2, <2>3
  <2> QED BY <2>1, <2>2, <2>4
<1>10. \E f \in Nat :
         /\ f > top /\ (f = top + 1 \/ f <= Low(n))
         /\ \A i \in 1..Len(fresh) : fresh[i] = f + i - 1
         /\ Len(fresh) > 0 => f + Len(fresh) - 1 = n
  BY <1>6, <1>8, <1>9
<1> QED BY <1>8, <1>10 DEF fresh, P, s

LEMMA LaterLow ==
  ASSUME NEW n \in Nat, NEW top \in 0..n,
         Memory(p.seenOrder, p.seenWallet, Low(top), top)
  PROVE  Low(n) \in Nat /\ Memory(p.seenOrder, p.seenWallet, Low(n), top)
<1>1. Low(n) \in Nat /\ Low(top) \in Nat /\ Low(top) <= Low(n)
  BY SeenAssumption DEF Low
<1>2. \A t \in Low(n)..top : t \in Low(top)..top
  BY <1>1
<1> QED BY <1>1, <1>2 DEF Memory

\* The wallet's transactions are told as they came, after those that were.
LEMMA TransactionsIs ==
  ASSUME TypeInv, WalletInv, world.wallet, world.up, WalletEvent
  PROVE  /\ Tells({"wallet"}) /\ p' \in Poller /\ Else(p, p') /\ WalletInv'
<1> DEFINE n == world.txs
           fresh == Only(Listed, {i \in DOMAIN Listed : Listed[i] \notin p.seenWallet})
           evs == [i \in 1..Len(fresh) |-> [kind |-> "wallet", what |-> fresh[i]]]
           s == Of({"wallet"})
<1>1. /\ p \in Poller /\ n \in Nat /\ said \in Seq(Told) /\ world' = world
      /\ Say(evs) /\ p' = AllSeen(p, fresh)
  BY DEF TypeInv, World, WalletEvent, Step
<1>2. PICK top \in 0..n :
        /\ Memory(p.seenOrder, p.seenWallet, Low(top), top)
        /\ \A i \in 1..Len(s) : s[i].what = None \/ s[i].what \in 1..top
  BY DEF WalletInv
<1>3. /\ fresh \in Seq(Nat)
      /\ \E f \in Nat :
           /\ f > top /\ (f = top + 1 \/ f <= Low(n))
           /\ \A i \in 1..Len(fresh) : fresh[i] = f + i - 1
           /\ Len(fresh) > 0 => f + Len(fresh) - 1 = n
  <2>1. PICK m \in Nat : m = world.txs
    BY <1>1
  <2>2. top \in 0..m
    BY <2>1
  <2> HIDE DEF n
  <2>3. n = m
    BY <2>1 DEF n
  <2>4. /\ fresh \in Seq(Nat)
        /\ \E f \in Nat :
             /\ f > top /\ (f = top + 1 \/ f <= Low(m))
             /\ \A i \in 1..Len(fresh) : fresh[i] = f + i - 1
             /\ Len(fresh) > 0 => f + Len(fresh) - 1 = m
    BY <1>2, <2>1, <2>2, FreshIs
  <2> QED BY <2>3, <2>4
<1> HIDE DEF fresh, n, evs, s
<1>4. PICK first \in Nat :
        /\ first > top /\ (first = top + 1 \/ first <= Low(n))
        /\ \A i \in 1..Len(fresh) : fresh[i] = first + i - 1
        /\ Len(fresh) > 0 => first + Len(fresh) - 1 = n
  BY <1>3
<1>5. PICK keys \in Seq(Nat) : keys = fresh
  BY <1>3
<1>6. PICK q \in Poller : q = p
  BY <1>1
<1>7. PICK m \in Nat : m = n
  BY <1>1
<1>8. Low(m) \in Nat /\ Memory(p.seenOrder, p.seenWallet, Low(m), top)
  BY <1>2, <1>7, LaterLow
<1>9. /\ AllSeen(q, keys) \in Poller /\ Else(q, AllSeen(q, keys))
      /\ Len(keys) > 0 =>
           Memory(AllSeen(q, keys).seenOrder, AllSeen(q, keys).seenWallet, Low(m), first + Len(keys) - 1)
      /\ Len(keys) = 0 => AllSeen(q, keys) = q
  <2>1. PICK low \in Nat : low = Low(m)
    BY <1>8
  <2>2. /\ Memory(q.seenOrder, q.seenWallet, low, top) /\ (first = top + 1 \/ first <= low)
        /\ top \in Nat /\ first > top /\ \A i \in 1..Len(keys) : keys[i] = first + i - 1
    BY <1>1, <1>2, <1>4, <1>5, <1>6, <1>7, <1>8, <2>1
  <2>3. /\ AllSeen(q, keys) \in Poller /\ Else(q, AllSeen(q, keys))
        /\ Len(keys) > 0 =>
             Memory(AllSeen(q, keys).seenOrder, AllSeen(q, keys).seenWallet, low, first + Len(keys) - 1)
        /\ Len(keys) = 0 => AllSeen(q, keys) = q
    BY <2>2, AllSeenIs
  <2> QED BY <2>1, <2>3
<1>10. p' \in Poller /\ Else(p, p')
  BY <1>1, <1>5, <1>6, <1>9
<1>11. /\ evs \in Seq(Told) /\ Len(evs) = Len(fresh)
       /\ \A i \in 1..Len(evs) : evs[i].kind = "wallet" /\ evs[i].what = fresh[i]
  <2>1. Len(fresh) \in Nat /\ \A i \in 1..Len(fresh) : fresh[i] \in Nat
    BY <1>3
  <2>2. \A i \in 1..Len(fresh) : [kind |-> "wallet", what |-> fresh[i]] \in Told
    BY <2>1 DEF Told
  <2> QED BY <2>1, <2>2 DEF evs
<1>12. Tells({"wallet"})
  BY <1>1, <1>11 DEF Tells
<1>13. s' = s \o evs /\ s \in Seq(Told)
  <2>1. Of({"wallet"})' = Of({"wallet"}) \o Part(evs, {"wallet"}) /\ Of({"wallet"}) = Part(said, {"wallet"})
    BY <1>1, <1>11, SayIs
  <2>2. Part(evs, {"wallet"}) = evs
    BY <1>11, PartAll
  <2> QED BY <1>1, <2>1, <2>2, PartIs DEF s
<1> DEFINE last == IF Len(keys) > 0 THEN m ELSE top
<1>14. /\ Memory(p'.seenOrder, p'.seenWallet, Low(last), last) /\ last \in 0..m
       /\ top <= last
  <2>1. CASE Len(keys) > 0
    <3>1. last = m /\ first + Len(keys) - 1 = m /\ m \in 0..m /\ top <= m
      BY <1>2, <1>4, <1>5, <1>7, <2>1
    <3>2. p' = AllSeen(q, keys)
      BY <1>1, <1>5, <1>6
    <3> HIDE DEF last
    <3> QED BY <1>9, <2>1, <3>1, <3>2
  <2>2. CASE ~(Len(keys) > 0)
    <3>1. Len(keys) = 0
      BY <2>2
    <3> QED BY <1>1, <1>2, <1>5, <1>6, <1>7, <1>9, <2>2, <3>1
  <2> QED BY <2>1, <2>2
<1>15. \A j \in 1..Len(evs) : evs[j].what \in 1..last /\ evs[j].what > top
  BY <1>1, <1>2, <1>4, <1>5, <1>7, <1>11
<1>16. last \in Nat /\ world'.txs = m /\ p'.warnedNoWallet = p.warnedNoWallet
  BY <1>1, <1>2, <1>7, <1>10 DEF Else, n
<1> HIDE DEF last
<1>17. /\ \A i, j \in 1..Len(s) : s[i].what = s[j].what => i = j
       /\ \A i \in 1..Len(s) : s[i].what = None => p.warnedNoWallet
  BY DEF WalletInv, s
<1>18. \A i, j \in 1..Len(evs) : evs[i].what = evs[j].what => i = j
  BY <1>3, <1>4, <1>11
<1>19. /\ \A i \in 1..Len(s') : IF i <= Len(s) THEN s'[i] = s[i]
                              ELSE i - Len(s) \in 1..Len(evs) /\ s'[i] = evs[i - Len(s)]
       /\ \A i \in 1..Len(s') : i <= Len(s) => i \in 1..Len(s)
  BY <1>11, <1>13
<1>20. \A i \in 1..Len(s') : s'[i].what = None \/ s'[i].what \in 1..last
  <2>1. \A x \in 1..top : x \in 1..last
    BY <1>2, <1>14, <1>16
  <2> QED BY <1>2, <1>15, <1>19, <2>1
<1>21. \A i \in 1..Len(s') : s'[i].what = None => p'.warnedNoWallet
  <2>1. None \notin 1..last
    BY <1>16, ValueAssumption
  <2>2. ASSUME NEW i \in 1..Len(s'), s'[i].what = None PROVE p'.warnedNoWallet
    <3>1. CASE i <= Len(s)
      <4>1. i \in 1..Len(s) /\ s[i].what = None
        BY <1>19, <2>2, <3>1
      <4> QED BY <1>16, <1>17, <4>1
    <3>2. CASE ~(i <= Len(s))
      <4>1. i - Len(s) \in 1..Len(evs) /\ s'[i] = evs[i - Len(s)]
        BY <1>19, <3>2
      <4> QED BY <1>15, <2>1, <2>2, <4>1
    <3> QED BY <3>1, <3>2
  <2> QED BY <2>2
<1>22. ASSUME NEW i \in 1..Len(s'), NEW j \in 1..Len(s'), s'[i].what = s'[j].what
       PROVE  i = j
  <2>1. ASSUME NEW a \in 1..Len(s), NEW b \in 1..Len(evs) PROVE s[a].what # evs[b].what
    <3>1. None \notin 1..last
      BY <1>16, ValueAssumption
    <3>2. evs[b].what \in 1..last /\ evs[b].what > top
      BY <1>15
    <3>3. s[a].what = None \/ s[a].what \in 1..top
      BY <1>2
    <3> QED BY <3>1, <3>2, <3>3
  <2>2. CASE i <= Len(s) /\ j <= Len(s)
    BY <1>17, <1>19, <1>22, <2>2
  <2>3. CASE ~(i <= Len(s)) /\ ~(j <= Len(s))
    <3>0. PICK a \in 1..Len(evs), b \in 1..Len(evs) :
            a = i - Len(s) /\ b = j - Len(s) /\ s'[i] = evs[a] /\ s'[j] = evs[b]
      BY <1>19, <2>3
    <3>1. i - Len(s) = j - Len(s)
      BY <1>18, <1>22, <3>0
    <3>2. i \in Int /\ j \in Int /\ Len(s) \in Int
      BY <1>13
    <3> QED BY <3>1, <3>2
  <2>4. CASE i <= Len(s) /\ ~(j <= Len(s))
    BY <1>19, <1>22, <2>1, <2>4
  <2>5. CASE ~(i <= Len(s)) /\ j <= Len(s)
    <3>1. s[j].what = evs[i - Len(s)].what /\ j \in 1..Len(s) /\ i - Len(s) \in 1..Len(evs)
      BY <1>19, <1>22, <2>5
    <3> QED BY <2>1, <3>1
  <2> QED BY <2>2, <2>3, <2>4, <2>5
<1>23. WalletInv'
  <2>1. last \in 0..(world'.txs)
    BY <1>14, <1>16
  <2>2. \E t \in 0..(world'.txs) :
          /\ Memory(p'.seenOrder, p'.seenWallet, Low(t), t)
          /\ \A i \in 1..Len(s') : s'[i].what = None \/ s'[i].what \in 1..t
    BY <1>14, <1>20, <2>1
  <2> QED BY <1>21, <1>22, <2>2 DEF WalletInv, s
<1> QED BY <1>10, <1>12, <1>23

\* What is kept of these kinds when nothing is said, and when one is said.
LEMMA OfType ==
  ASSUME TypeInv, NEW kinds
  PROVE  /\ Of(kinds) \in Seq(Told)
         /\ \A i \in 1..Len(Of(kinds)) : Of(kinds)[i] \in Told /\ Of(kinds)[i].kind \in kinds
<1>1. Of(kinds) = Part(said, kinds) /\ said \in Seq(Told)
  BY DEF Of, Part, TypeInv
<1>2. /\ Part(said, kinds) \in Seq(Told)
      /\ \A k \in 1..Len(Part(said, kinds)) : \E i \in 1..Len(said) :
           Part(said, kinds)[k] = said[i] /\ said[i].kind \in kinds
  BY <1>1, PartIs
<1>3. \A i \in 1..Len(said) : said[i] \in Told
  BY <1>1
<1> QED BY <1>1, <1>2, <1>3

LEMMA NoMore ==
  ASSUME TypeInv, Say(Silent), NEW kinds
  PROVE  Of(kinds)' = Of(kinds)
<1>1. Silent \in Seq(Told) /\ \A i \in 1..Len(Silent) : Silent[i].kind \in {}
  BY SilentIs
<1>2. Tells({})
  BY <1>1 DEF Tells
<1>3. {} \cap kinds = {}
  OBVIOUS
<1> QED BY <1>2, <1>3, QuietIs

LEMMA OneMore ==
  ASSUME TypeInv, NEW kind, NEW what, [kind |-> kind, what |-> what] \in Told,
         Say(Event(kind, what)), NEW kinds, kind \in kinds
  PROVE  Of(kinds)' = Append(Of(kinds), [kind |-> kind, what |-> what])
<1> DEFINE e == [kind |-> kind, what |-> what]
           s == Event(kind, what)
<1>1. /\ s \in Seq(Told) /\ s = <<e>> /\ e \in Told /\ e.kind \in kinds
      /\ Len(s) = 1 /\ s[1] = e
  BY EventIs DEF Event
<1> HIDE DEF e, s
<1>2. \A i \in 1..Len(s) : s[i].kind \in kinds
  BY <1>1
<1>3. Part(s, kinds) = s
  BY <1>1, <1>2, PartAll
<1>4. Of(kinds)' = Of(kinds) \o Part(s, kinds) /\ Of(kinds) \in Seq(Told)
  BY <1>1, OfType, SayIs DEF s, TypeInv
<1>5. PICK t \in Seq(Told) : t = Of(kinds)
  BY <1>4
<1>6. t \o <<e>> = Append(t, e)
  BY <1>1
<1> QED BY <1>1, <1>3, <1>4, <1>5, <1>6 DEF e

LEMMA WalletKept ==
  ASSUME TypeInv, WalletInv, Of({"wallet"})' = Of({"wallet"}), KeepsWallet,
         world'.txs \in Nat, world.txs <= world'.txs
  PROVE  WalletInv'
<1> DEFINE s == Of({"wallet"})
<1>1. PICK top \in 0..world.txs :
        /\ Memory(p.seenOrder, p.seenWallet, Low(top), top)
        /\ \A i \in 1..Len(s) : s[i].what = None \/ s[i].what \in 1..top
  BY DEF WalletInv
<1>2. /\ \A i, j \in 1..Len(s) : s[i].what = s[j].what => i = j
      /\ \A i \in 1..Len(s) : s[i].what = None => p.warnedNoWallet
  BY DEF WalletInv
<1>3. s' = s /\ p'.warnedNoWallet = p.warnedNoWallet
  BY DEF KeepsWallet
<1>4. top \in 0..(world'.txs) /\ Memory(p'.seenOrder, p'.seenWallet, Low(top), top)
  <2>1. world.txs \in Nat
    BY DEF TypeInv, World
  <2> QED BY <1>1, <2>1 DEF KeepsWallet
<1> HIDE DEF s
<1>5. \E t \in 0..(world'.txs) :
        /\ Memory(p'.seenOrder, p'.seenWallet, Low(t), t)
        /\ \A i \in 1..Len(s') : s'[i].what = None \/ s'[i].what \in 1..t
  BY <1>1, <1>3, <1>4
<1>6. /\ \A i, j \in 1..Len(s') : s'[i].what = s'[j].what => i = j
      /\ \A i \in 1..Len(s') : s'[i].what = None => p'.warnedNoWallet
  BY <1>2, <1>3
<1> QED BY <1>5, <1>6 DEF WalletInv, s

LEMMA WalletIs ==
  ASSUME TypeInv, WalletInv, WalletEvent
  PROVE  /\ Tells({"wallet"}) /\ p' \in Poller /\ UNCHANGED <<world, page, flight, run>>
         /\ KeepsHeights /\ KeepsNode /\ KeepsTor /\ KeepsIndexer
         /\ pc = "wallet" /\ pc' = "indexer" /\ WalletInv'
<1>1. /\ p \in Poller /\ world \in World /\ said \in Seq(Told)
      /\ UNCHANGED <<world, page, flight, run>> /\ pc = "wallet" /\ pc' = "indexer"
  BY DEF TypeInv, WalletEvent, Step
<1>2. CASE world.up /\ world.wallet
  <2>1. Tells({"wallet"}) /\ p' \in Poller /\ Else(p, p') /\ WalletInv'
    BY <1>2, TransactionsIs
  <2>2. KeepsHeights /\ KeepsNode /\ KeepsTor /\ KeepsIndexer
    BY <2>1 DEF Else, KeepsHeights, KeepsNode, KeepsTor, KeepsIndexer
  <2> QED BY <1>1, <2>1, <2>2
<1>3. CASE ~(world.up /\ world.wallet)
  <2> DEFINE s == Of({"wallet"})
             none == [kind |-> "wallet", what |-> None]
  <2>1. \/ Say(Silent) /\ p' = p
        \/ /\ Say(IF p.warnedNoWallet THEN Silent ELSE Event("wallet", None))
           /\ p' = [p EXCEPT !.warnedNoWallet = TRUE]
    BY <1>1, <1>3 DEF WalletEvent, Step, World
  <2>2. p' \in Poller /\ (p'.warnedNoWallet = p.warnedNoWallet \/ p'.warnedNoWallet = TRUE)
    BY <1>1, <2>1 DEF Poller
  <2>3. KeepsHeights /\ KeepsNode /\ KeepsTor /\ KeepsIndexer
    BY <1>1, <2>1 DEF Poller, KeepsHeights, KeepsNode, KeepsTor, KeepsIndexer
  <2>4. p'.seenOrder = p.seenOrder /\ p'.seenWallet = p.seenWallet
    BY <1>1, <2>1 DEF Poller
  <2>5. none \in Told
    BY DEF Told
  <2>6. \/ Say(Silent) /\ p'.warnedNoWallet = p.warnedNoWallet
        \/ Say(Event("wallet", None)) /\ ~p.warnedNoWallet /\ p'.warnedNoWallet = TRUE
    <3>1. p.warnedNoWallet \in BOOLEAN
      BY <1>1 DEF Poller
    <3>2. p' = [p EXCEPT !.warnedNoWallet = TRUE] => p'.warnedNoWallet = TRUE
      BY <1>1 DEF Poller
    <3>3. CASE p.warnedNoWallet
      BY <2>1, <3>1, <3>2, <3>3
    <3>4. CASE ~p.warnedNoWallet
      BY <2>1, <3>2, <3>4
    <3> QED BY <3>3, <3>4
  <2>7. Tells({"wallet"})
    <3>1. Say(Silent) \/ Say(Event("wallet", None))
      BY <2>6
    <3> QED BY <2>5, <3>1, StepTells
  <2>8. s \in Seq(Told) /\ p.warnedNoWallet \in BOOLEAN
    <3>1. s = Part(said, {"wallet"})
      BY DEF Of, Part
    <3> QED BY <1>1, <3>1, PartIs DEF Poller
  <2>9. ASSUME Say(Silent) PROVE s' = s
    BY <2>9, NoMore
  <2>10. CASE p'.warnedNoWallet = p.warnedNoWallet /\ Say(Silent)
    <3>1. KeepsWallet
      BY <2>4, <2>10 DEF KeepsWallet
    <3>2. world'.txs \in Nat /\ world.txs <= world'.txs
      BY <1>1 DEF World
    <3> QED BY <1>1, <2>2, <2>3, <2>7, <2>9, <2>10, <3>1, <3>2, WalletKept DEF s
  <2>11. CASE Say(Event("wallet", None)) /\ ~p.warnedNoWallet /\ p'.warnedNoWallet = TRUE
    <3>1. s' = Append(s, none)
      BY <2>5, <2>11, OneMore
    <3> PICK n \in Nat : n = Len(s)
      BY <2>8
    <3>2. /\ Len(s') = n + 1 /\ s'[n + 1].what = None
          /\ \A i \in 1..n : s'[i] = s[i]
          /\ \A i \in 1..(n + 1) : i \in 1..n \/ i = n + 1
      BY <2>5, <2>8, <3>1
    <3>3. PICK top \in 0..world.txs :
            /\ Memory(p.seenOrder, p.seenWallet, Low(top), top)
            /\ \A i \in 1..n : s[i].what = None \/ s[i].what \in 1..top
      BY DEF WalletInv
    <3>4. /\ \A i, j \in 1..n : s[i].what = s[j].what => i = j
          /\ \A i \in 1..n : s[i].what # None
      BY <2>11 DEF WalletInv
    <3> HIDE DEF s
    <3>5. \A i, j \in 1..(n + 1) : s'[i].what = s'[j].what => i = j
      BY <3>2, <3>4
    <3>6. \A i \in 1..(n + 1) : s'[i].what = None \/ s'[i].what \in 1..top
      BY <3>2, <3>3
    <3>7. \E t \in 0..(world'.txs) :
            /\ Memory(p'.seenOrder, p'.seenWallet, Low(t), t)
            /\ \A i \in 1..Len(s') : s'[i].what = None \/ s'[i].what \in 1..t
      BY <1>1, <2>4, <3>2, <3>3, <3>6
    <3>8. WalletInv'
      BY <2>11, <3>2, <3>5, <3>7 DEF WalletInv, s
    <3> QED BY <1>1, <2>2, <2>3, <2>7, <3>8
  <2> QED BY <2>6, <2>10, <2>11
<1> QED BY <1>1, <1>2, <1>3

-----------------------------------------------------------------------------
(* What a step of the poller keeps.                                        *)

\* The feed holds the newest, whatever is said.
LEMMA FeedKept ==
  ASSUME TypeInv, FeedInv, NEW evs, evs \in Seq(Told), Say(evs)
  PROVE  FeedInv' /\ next' >= next /\ next \in Nat /\ next' \in Nat
<1>1. PICK n \in Nat, k \in Nat : n = Len(said) /\ k = Len(evs)
  BY DEF TypeInv
<1>2. /\ Len(said') = n + k /\ next = n + 1 /\ next' = n + k + 1
      /\ events' = Newest(events \o [i \in 1..k |-> next + i - 1], FeedMax)
  BY <1>1 DEF TypeInv, FeedInv, Say
<1> DEFINE m == IF n > FeedMax THEN FeedMax ELSE n
           l == IF n + k > FeedMax THEN FeedMax ELSE n + k
           new == [i \in 1..k |-> next + i - 1]
           long == events \o new
           c == n + 1 - m
<1>3. /\ FeedMax \in Nat /\ m \in Nat /\ l \in Nat /\ c \in Nat /\ m <= n /\ l <= m + k
      /\ l = IF m + k > FeedMax THEN FeedMax ELSE m + k
  BY SizeAssumption
<1>4. events = [i \in 1..m |-> next - m + i - 1]
  BY <1>1 DEF FeedInv
<1>5. /\ \A i \in 1..m : next - m + i - 1 = c + i - 1 /\ c + i - 1 \in Nat
      /\ \A i \in 1..k : next + i - 1 = c + (m + i) - 1 /\ c + (m + i) - 1 \in Nat
      /\ \A i \in 1..(m + k) : i \in 1..m \/ (i - m \in 1..k /\ m + (i - m) = i)
  BY <1>2, <1>3
<1>6. n + k + 1 - l = c + (m + k - l)
  BY <1>3
<1> HIDE DEF m, l, c
<1>7. events \in Seq(Nat) /\ Len(events) = m /\ \A i \in 1..m : events[i] = c + i - 1
  BY <1>3, <1>4, <1>5
<1>8. new \in Seq(Nat) /\ Len(new) = k /\ \A i \in 1..k : new[i] = c + (m + i) - 1
  <2>1. \A i \in 1..k : next + i - 1 \in Nat
    BY <1>5
  <2>2. new \in Seq(Nat) /\ Len(new) = k /\ \A i \in 1..k : new[i] = next + i - 1
    BY <2>1
  <2> HIDE DEF new
  <2> QED BY <1>5, <2>2
<1> HIDE DEF new
<1>9. long \in Seq(Nat) /\ Len(long) = m + k /\ \A i \in 1..(m + k) : long[i] = c + i - 1
  <2>0. PICK a \in Seq(Nat), b \in Seq(Nat) : a = events /\ b = new
    BY <1>7, <1>8
  <2>1. /\ long \in Seq(Nat) /\ Len(long) = m + k
        /\ \A i \in 1..(m + k) : long[i] = IF i <= m THEN events[i] ELSE new[i - m]
    <3>1. /\ a \o b \in Seq(Nat) /\ Len(a \o b) = Len(a) + Len(b)
          /\ \A i \in 1..(Len(a) + Len(b)) : (a \o b)[i] = IF i <= Len(a) THEN a[i] ELSE b[i - Len(a)]
      OBVIOUS
    <3>2. Len(a) = m /\ Len(b) = k /\ a \o b = long
      BY <1>7, <1>8, <2>0
    <3> QED BY <2>0, <3>1, <3>2
  <2>2. ASSUME NEW i \in 1..(m + k) PROVE long[i] = c + i - 1
    <3>1. CASE i \in 1..m
      BY <1>3, <1>7, <2>1, <3>1
    <3>2. CASE i - m \in 1..k /\ m + (i - m) = i
      BY <1>3, <1>8, <2>1, <3>2
    <3> QED BY <1>5, <3>1, <3>2
  <2> QED BY <2>1, <2>2
<1>10. events' = Newest(long, FeedMax)
  BY <1>2 DEF new
<1> HIDE DEF long
<1>11. /\ events' \in Seq(Nat) /\ Len(events') = l
       /\ \A i \in 1..l : events'[i] = long[m + k - l + i]
  <2>1. PICK s \in Seq(Nat) : s = long
    BY <1>9
  <2>2. /\ Newest(s, FeedMax) \in Seq(Nat) /\ Len(Newest(s, FeedMax)) = l
        /\ \A i \in 1..l : Newest(s, FeedMax)[i] = s[Len(s) - l + i]
    <3>1. l = IF Len(s) > FeedMax THEN FeedMax ELSE Len(s)
      BY <1>3, <1>9, <2>1
    <3>2. PICK x \in Nat, z \in Nat : x = l /\ z = FeedMax
      BY <1>3
    <3>3. /\ Newest(s, z) \in Seq(Nat) /\ Len(Newest(s, z)) = x
          /\ \A i \in 1..x : Newest(s, z)[i] = s[Len(s) - x + i]
      <4>1. x = IF Len(s) > z THEN z ELSE Len(s)
        BY <3>1, <3>2
      <4>2. s \in Seq(Nat) /\ z \in Nat /\ x \in Nat
        BY <3>2
      <4> QED BY <4>1, <4>2, NewestIs
    <3> QED BY <3>2, <3>3
  <2>3. events' = Newest(s, FeedMax) /\ Len(s) = m + k
    BY <1>9, <1>10, <2>1
  <2>4. /\ Newest(s, FeedMax) \in Seq(Nat) /\ Len(Newest(s, FeedMax)) = l
        /\ \A i \in 1..l : Newest(s, FeedMax)[i] = long[m + k - l + i]
    <3>1. s = long /\ Len(s) = m + k
      BY <2>1, <2>3
    <3>2. ASSUME NEW i \in 1..l PROVE Newest(s, FeedMax)[i] = long[m + k - l + i]
      <4>1. Newest(s, FeedMax)[i] = s[Len(s) - l + i]
        BY <2>2
      <4>2. m \in Nat /\ l \in Nat
        BY <1>3
      <4> QED BY <3>1, <4>1, <4>2
    <3> QED BY <2>2, <3>2
  <2> QED BY <2>3, <2>4
<1>12. \A i \in 1..l : /\ m + k - l + i \in 1..(m + k)
                       /\ c + (m + k - l + i) - 1 = next' - l + i - 1
  BY <1>2, <1>3, <1>6
<1>13. \A i \in 1..l : events'[i] = next' - l + i - 1
  BY <1>9, <1>11, <1>12
<1>14. events' = [i \in 1..l |-> next' - l + i - 1]
  <2>1. events' = [i \in 1..l |-> events'[i]]
    BY <1>11
  <2> QED BY <1>13, <2>1
<1>15. l = IF Len(said') > FeedMax THEN FeedMax ELSE Len(said')
  BY <1>2 DEF l
<1>16. FeedInv'
  BY <1>2, <1>14, <1>15 DEF FeedInv
<1> QED BY <1>2, <1>16

\* The page's part of the invariant, with what the poller does not touch.
LEMMA PageGrows ==
  ASSUME PageInv, UNCHANGED <<page, flight, run>>, next \in Nat, next' \in Nat, next <= next'
  PROVE  PageInv'
<1>1. page \in Page /\ flight \in Seq(Flight) /\ \A i \in 1..Len(flight) : flight[i] \in Flight
  BY DEF PageInv
<1>2. page.last \in Nat
  BY <1>1 DEF Page
<1>3. ASSUME NEW f \in Flight
      PROVE  /\ Timely(f, page.last, next) => Timely(f, page.last, next')
             /\ OnTime(f, page.last, next) => OnTime(f, page.last, next')
  <2>1. f.since \in Nat /\ (f.ids # None => f.ids \in Seq(Nat))
    BY DEF Flight
  <2>2. f.ids # None => Len(f.ids) \in Nat /\ \A k \in 1..Len(f.ids) : f.ids[k] \in Nat
    BY <2>1
  <2>3. Timely(f, page.last, next) => Timely(f, page.last, next')
    BY <2>2 DEF Timely
  <2>4. OnTime(f, page.last, next) => OnTime(f, page.last, next')
    BY <2>1, <2>2 DEF OnTime
  <2> QED BY <2>3, <2>4
<1>4. page' = page /\ flight' = flight /\ run' = run
  OBVIOUS
<1>5. page.run = run =>
        /\ page.last < next'
        /\ \A i \in 1..Len(flight) : Timely(flight[i], page.last, next')
        /\ ~page.lagged =>
             Complete(page) /\ \A i \in 1..Len(flight) : OnTime(flight[i], page.last, next')
  BY <1>1, <1>2, <1>3 DEF PageInv
<1>6. /\ page \in Page /\ flight \in Seq(Flight) /\ run \in Nat /\ page.run <= run
      /\ Ordered(page)
  BY DEF PageInv
<1> QED BY <1>4, <1>5, <1>6 DEF PageInv

\* The parts of the invariant that a step does not touch.
LEMMA LastKept ==
  ASSUME NEW kind, NEW what, Of({kind})' = Of({kind})
  PROVE  LastOf(kind, what)' <=> LastOf(kind, what)
BY DEF LastOf

LEMMA HeightsKept ==
  ASSUME HeightsInv, Of({"watching", "block"})' = Of({"watching", "block"}), KeepsHeights,
         pc # "block", pc' # "block"
  PROVE  HeightsInv'
<1> DEFINE b == Of({"watching", "block"})
<1>1. b' = b /\ p'.lastHeight = p.lastHeight
  BY DEF KeepsHeights
<1>2. /\ \A i \in 1..(Len(b) - 1) : b[i + 1].what[1] = b[i].what[2] + 1
      /\ b = <<>> <=> p.lastHeight = None
      /\ b # <<>> => b[Len(b)].what[2] = p.lastHeight
  BY DEF HeightsInv
<1> HIDE DEF b
<1>3. /\ \A i \in 1..(Len(b') - 1) : b'[i + 1].what[1] = b'[i].what[2] + 1
      /\ b' = <<>> <=> p'.lastHeight = None
      /\ b' # <<>> => b'[Len(b')].what[2] = p'.lastHeight
  BY <1>1, <1>2
<1> QED BY <1>3 DEF HeightsInv, b

LEMMA NodeKept ==
  ASSUME NodeInv, Of({"node"})' = Of({"node"}), KeepsNode
  PROVE  NodeInv'
<1>1. Differ(Of({"node"}))'
  BY DEF NodeInv, Differ
<1>2. LastOf("node", Down)' <=> LastOf("node", Down)
  BY LastKept
<1> QED BY <1>1, <1>2 DEF NodeInv, KeepsNode

LEMMA TorKept ==
  ASSUME TorInv, Of({"tor"})' = Of({"tor"}), KeepsTor
  PROVE  TorInv'
<1>1. Differ(Of({"tor"}))'
  BY DEF TorInv, Differ
<1>2. LastOf("tor", TRUE)' <=> LastOf("tor", TRUE)
  BY LastKept
<1> QED BY <1>1, <1>2 DEF TorInv, KeepsTor

LEMMA IndexerKept ==
  ASSUME IndexerInv, Of({"indexer"})' = Of({"indexer"}), KeepsIndexer
  PROVE  IndexerInv'
<1> DEFINE s == Of({"indexer"})
<1>1. s' = s /\ p'.indexer = p.indexer /\ p'.lastIndexer = p.lastIndexer
  BY DEF KeepsIndexer
<1>2. LastOf("indexer", Down)' <=> LastOf("indexer", Down)
  BY LastKept
<1>3. /\ Differ(s)
      /\ LastOf("indexer", Down) <=> p.indexer = Down
      /\ s = <<>> <=> p.indexer = None
      /\ p.indexer = None => p.lastIndexer = None
      /\ s # <<>> /\ s[Len(s)].what \in Nat => s[Len(s)].what = p.lastIndexer
  BY DEF IndexerInv
<1> HIDE DEF s
<1>4. /\ Differ(s')
      /\ LastOf("indexer", Down)' <=> p'.indexer = Down
      /\ s' = <<>> <=> p'.indexer = None
      /\ p'.indexer = None => p'.lastIndexer = None
      /\ s' # <<>> /\ s'[Len(s')].what \in Nat => s'[Len(s')].what = p'.lastIndexer
  BY <1>1, <1>2, <1>3 DEF Differ
<1> QED BY <1>4 DEF IndexerInv, s, Differ

\* A step of the poller that says events of these kinds.
LEMMA PollKeeps ==
  ASSUME IInv, NEW told, Tells(told), p' \in Poller, UNCHANGED <<world, page, flight, run>>
  PROVE  /\ TypeInv' /\ FeedInv' /\ PageInv'
         /\ KeepsHeights /\ told \cap {"watching", "block"} = {} /\ pc # "block" /\ pc' # "block"
            => HeightsInv'
         /\ KeepsNode /\ "node" \notin told => NodeInv'
         /\ KeepsTor /\ "tor" \notin told => TorInv'
         /\ KeepsIndexer /\ "indexer" \notin told => IndexerInv'
         /\ KeepsWallet /\ "wallet" \notin told => WalletInv'
<1>1. PICK evs \in Seq(Told) : Say(evs)
  BY DEF Tells
<1>2. TypeInv'
  BY TellsType DEF IInv
<1>3. FeedInv' /\ next' >= next /\ next \in Nat /\ next' \in Nat
  BY <1>1, FeedKept DEF IInv
<1>4. PageInv'
  BY <1>3, PageGrows DEF IInv
<1>5. KeepsHeights /\ told \cap {"watching", "block"} = {} /\ pc # "block" /\ pc' # "block"
      => HeightsInv'
  BY QuietIs, HeightsKept DEF IInv
<1>6. \A kind : kind \notin told => Of({kind})' = Of({kind})
  <2> SUFFICES ASSUME NEW kind, kind \notin told PROVE Of({kind})' = Of({kind})
    OBVIOUS
  <2>1. told \cap {kind} = {}
    OBVIOUS
  <2> QED BY <2>1, QuietIs DEF IInv
<1>7. KeepsNode /\ "node" \notin told => NodeInv'
  BY <1>6, NodeKept DEF IInv
<1>8. KeepsTor /\ "tor" \notin told => TorInv'
  BY <1>6, TorKept DEF IInv
<1>9. KeepsIndexer /\ "indexer" \notin told => IndexerInv'
  BY <1>6, IndexerKept DEF IInv
<1>10. KeepsWallet /\ "wallet" \notin told => WalletInv'
  <2>1. world'.txs \in Nat /\ world.txs <= world'.txs
    BY DEF IInv, TypeInv, World
  <2> QED BY <1>6, <2>1, WalletKept DEF IInv
<1> QED BY <1>2, <1>3, <1>4, <1>5, <1>7, <1>8, <1>9, <1>10

-----------------------------------------------------------------------------
(* What a step of the poller says is true and new.                         *)

LEMMA AppendDiffers ==
  ASSUME NEW s \in Seq(Told), NEW e \in Told, Differ(s), s # <<>> => s[Len(s)].what # e.what
  PROVE  /\ Differ(Append(s, e)) /\ Append(s, e) # <<>>
         /\ Append(s, e)[Len(Append(s, e))] = e
<1>1. PICK n \in Nat : n = Len(s)
  OBVIOUS
<1>2. /\ Len(Append(s, e)) = n + 1 /\ Append(s, e)[n + 1] = e
      /\ \A i \in 1..n : Append(s, e)[i] = s[i]
  BY <1>1
<1>3. Append(s, e) # <<>>
  <2>1. Len(Append(s, e)) # 0 /\ Len(<<>>) = 0
    BY <1>1, <1>2
  <2> QED BY <2>1
<1>4. ASSUME NEW i \in 1..n PROVE Append(s, e)[i].what # Append(s, e)[i + 1].what
  <2>1. CASE i = n
    <3>1. s # <<>> /\ Append(s, e)[i] = s[Len(s)] /\ Append(s, e)[i + 1] = e
      BY <1>1, <1>2, <2>1
    <3> QED BY <3>1
  <2>2. CASE i # n
    <3>1. i \in 1..(Len(s) - 1) /\ i \in 1..n /\ i + 1 \in 1..n
      BY <1>1, <2>2
    <3> QED BY <1>2, <3>1 DEF Differ
  <2> QED BY <2>1, <2>2
<1>5. Differ(Append(s, e))
  <2>1. \A i \in 1..(Len(Append(s, e)) - 1) : i \in 1..n
    BY <1>2
  <2> QED BY <1>4, <2>1 DEF Differ
<1> QED BY <1>2, <1>3, <1>5

\* One more event of a kind, if it is not what was said last.
LEMMA SaidNews ==
  ASSUME TypeInv, NEW kind, NEW what, [kind |-> kind, what |-> what] \in Told,
         Of({kind})' = Append(Of({kind}), [kind |-> kind, what |-> what]),
         Differ(Of({kind})), ~LastOf(kind, what)
  PROVE  Differ(Of({kind}))' /\ Of({kind})' # <<>> /\ \A w : LastOf(kind, w)' <=> w = what
<1>1. PICK s \in Seq(Told) : s = Of({kind})
  BY OfType
<1>2. PICK e \in Told : e = [kind |-> kind, what |-> what]
  OBVIOUS
<1>3. Differ(s) /\ (s # <<>> => s[Len(s)].what # e.what)
  BY <1>1, <1>2 DEF LastOf
<1>4. /\ Differ(Append(s, e)) /\ Append(s, e) # <<>>
      /\ Append(s, e)[Len(Append(s, e))] = e
  BY <1>3, AppendDiffers
<1>5. Of({kind})' = Append(s, e) /\ e.what = what
  BY <1>1, <1>2
<1>6. \A w : LastOf(kind, w)' <=> w = what
  BY <1>4, <1>5 DEF LastOf
<1>7. Differ(Of({kind}))'
  BY <1>4, <1>5 DEF Differ
<1> QED BY <1>4, <1>5, <1>6, <1>7

LEMMA NodeDown ==
  ASSUME TypeInv, NodeInv, Unreachable
  PROVE  NodeInv'
<1>1. /\ p'.warnedDown = TRUE /\ p'.failed = TRUE
      /\ IF p.warnedDown THEN Say(Silent) ELSE Say(Event("node", Down))
  BY UnreachableIs
<1>2. Differ(Of({"node"}))' /\ LastOf("node", Down)'
  <2>1. CASE p.warnedDown
    <3>1. Of({"node"})' = Of({"node"})
      BY <1>1, <2>1, NoMore
    <3>2. LastOf("node", Down)' <=> LastOf("node", Down)
      BY <3>1, LastKept
    <3> QED BY <2>1, <3>1, <3>2 DEF NodeInv, Differ
  <2>2. CASE ~p.warnedDown
    <3>1. [kind |-> "node", what |-> Down] \in Told
      BY DEF Told
    <3>2. Of({"node"})' = Append(Of({"node"}), [kind |-> "node", what |-> Down])
      BY <1>1, <2>2, <3>1, OneMore
    <3>3. ~LastOf("node", Down) /\ Differ(Of({"node"}))
      BY <2>2 DEF NodeInv
    <3> QED BY <3>1, <3>2, <3>3, SaidNews
  <2> QED BY <2>1, <2>2
<1> QED BY <1>1, <1>2 DEF NodeInv

LEMMA NodeUp ==
  ASSUME TypeInv, NodeInv, Heartbeat
  PROVE  NodeInv'
<1>1. /\ p'.warnedDown = FALSE /\ p'.failed = FALSE
      /\ Of({"node"})' = IF p.warnedDown
                         THEN Append(Of({"node"}), [kind |-> "node", what |-> Up])
                         ELSE Of({"node"})
  BY HeartIs
<1>2. Differ(Of({"node"}))' /\ ~LastOf("node", Down)'
  <2>1. CASE p.warnedDown
    <3>1. [kind |-> "node", what |-> Up] \in Told
      BY DEF Told
    <3>2. Of({"node"})' = Append(Of({"node"}), [kind |-> "node", what |-> Up])
      BY <1>1, <2>1
    <3>3. ~LastOf("node", Up) /\ Differ(Of({"node"})) /\ Up # Down
      BY <2>1, ValueAssumption DEF NodeInv, LastOf
    <3> QED BY <3>1, <3>2, <3>3, SaidNews
  <2>2. CASE ~p.warnedDown
    <3>1. Of({"node"})' = Of({"node"})
      BY <1>1, <2>2
    <3>2. LastOf("node", Down)' <=> LastOf("node", Down)
      BY <3>1, LastKept
    <3> QED BY <2>2, <3>1, <3>2 DEF NodeInv, Differ
  <2> QED BY <2>1, <2>2
<1> QED BY <1>1, <1>2 DEF NodeInv

LEMMA TorSaid ==
  ASSUME TypeInv, TorInv, TorEvent
  PROVE  TorInv'
<1>1. \/ Say(Silent) /\ p' = p
      \/ \E clear \in BOOLEAN :
           /\ p'.clearnet = clear /\ p'.torWarned = clear
           /\ IF clear = p.torWarned THEN Say(Silent) ELSE Say(Event("tor", clear))
  BY TorIs
<1>2. p.torWarned \in BOOLEAN /\ p.clearnet \in BOOLEAN \cup {None}
  BY PollerFields DEF TypeInv
<1>3. ASSUME Say(Silent)
      PROVE  Differ(Of({"tor"}))' /\ (LastOf("tor", TRUE)' <=> p.torWarned)
  <2>1. Of({"tor"})' = Of({"tor"})
    BY <1>3, NoMore
  <2>2. LastOf("tor", TRUE)' <=> LastOf("tor", TRUE)
    BY <2>1, LastKept
  <2> QED BY <2>1, <2>2 DEF TorInv, Differ
<1>4. CASE Say(Silent) /\ p' = p
  BY <1>3, <1>4 DEF TorInv
<1>5. CASE \E clear \in BOOLEAN :
             /\ p'.clearnet = clear /\ p'.torWarned = clear
             /\ IF clear = p.torWarned THEN Say(Silent) ELSE Say(Event("tor", clear))
  <2>1. PICK clear \in BOOLEAN :
          /\ p'.clearnet = clear /\ p'.torWarned = clear
          /\ IF clear = p.torWarned THEN Say(Silent) ELSE Say(Event("tor", clear))
    BY <1>5
  <2>2. Differ(Of({"tor"}))' /\ (LastOf("tor", TRUE)' <=> clear)
    <3>1. CASE clear = p.torWarned
      BY <1>3, <2>1, <3>1
    <3>2. CASE clear # p.torWarned
      <4>1. [kind |-> "tor", what |-> clear] \in Told
        BY DEF Told
      <4>2. Of({"tor"})' = Append(Of({"tor"}), [kind |-> "tor", what |-> clear])
        BY <2>1, <3>2, <4>1, OneMore
      <4>3. ~LastOf("tor", clear) /\ Differ(Of({"tor"}))
        <5>1. CASE clear = TRUE
          BY <1>2, <3>2, <5>1 DEF TorInv
        <5>2. CASE clear = FALSE
          BY <1>2, <3>2, <5>2 DEF TorInv, LastOf
        <5> QED BY <5>1, <5>2, Zenon
      <4>4. Differ(Of({"tor"}))' /\ \A w : LastOf("tor", w)' <=> w = clear
        BY <4>1, <4>2, <4>3, SaidNews
      <4>5. LastOf("tor", TRUE)' <=> TRUE = clear
        BY <4>4
      <4> QED BY <4>4, <4>5
    <3> QED BY <3>1, <3>2
  <2>3. p'.torWarned <=> p'.clearnet = TRUE
    BY <2>1
  <2> QED BY <2>1, <2>2, <2>3 DEF TorInv
<1> QED BY <1>1, <1>4, <1>5

LEMMA IndexerSaid ==
  ASSUME TypeInv, IndexerInv, IndexerEvent
  PROVE  IndexerInv'
<1> DEFINE s == Of({"indexer"})
<1>1. \/ Say(Silent) /\ p' = p
      \/ \E h \in Nat \cup {Down} :
           /\ p'.indexer = h /\ p'.lastIndexer = IF h = Down THEN p.lastIndexer ELSE h
           /\ IF h # Down
              THEN IF p.indexer = Down THEN Say(Event("indexer", Up))
                   ELSE IF p.lastIndexer = None \/ h # p.lastIndexer
                        THEN Say(Event("indexer", h)) ELSE Say(Silent)
              ELSE IF p.indexer = Down THEN Say(Silent) ELSE Say(Event("indexer", Down))
  BY IndexerIs
<1>2. /\ s \in Seq(Told)
      /\ \A i \in 1..Len(s) : s[i].what \in Nat \cup {Up, Down}
      /\ p.indexer \in Nat \cup {None, Down} /\ p.lastIndexer \in Nat \cup {None}
  <2>1. \A e \in Told : e.kind \in {"indexer"} => e.what \in Nat \cup {Up, Down}
    BY DEF Told
  <2>2. s \in Seq(Told) /\ \A i \in 1..Len(s) : s[i] \in Told /\ s[i].kind \in {"indexer"}
    BY OfType
  <2> HIDE DEF s
  <2> QED BY <2>1, <2>2, PollerFields DEF TypeInv
<1>3. /\ Differ(s)
      /\ LastOf("indexer", Down) <=> p.indexer = Down
      /\ s = <<>> <=> p.indexer = None
      /\ p.indexer = None => p.lastIndexer = None
      /\ s # <<>> /\ s[Len(s)].what \in Nat => s[Len(s)].what = p.lastIndexer
  BY DEF IndexerInv
<1>4. \A w : LastOf("indexer", w) <=> s # <<>> /\ s[Len(s)].what = w
  BY DEF LastOf
<1>5. /\ None \notin Nat /\ Up \notin Nat /\ Down \notin Nat
      /\ None # Down /\ None # Up /\ Up # Down
  BY ValueAssumption
<1>6. ASSUME Say(Silent)
      PROVE  s' = s /\ \A w : LastOf("indexer", w)' <=> LastOf("indexer", w)
  <2>1. s' = s
    BY <1>6, NoMore
  <2> QED BY <2>1, LastKept
<1>7. ASSUME NEW w \in Nat \cup {Up, Down}, Say(Event("indexer", w)), ~LastOf("indexer", w)
      PROVE  Differ(s)' /\ s' # <<>> /\ \A v : LastOf("indexer", v)' <=> v = w
  <2>1. [kind |-> "indexer", what |-> w] \in Told
    BY DEF Told
  <2>2. s' = Append(s, [kind |-> "indexer", what |-> w])
    BY <1>7, <2>1, OneMore
  <2> QED BY <1>3, <1>7, <2>1, <2>2, SaidNews
<1>8. CASE Say(Silent) /\ p' = p
  <2>1. KeepsIndexer /\ s' = s
    BY <1>6, <1>8 DEF KeepsIndexer
  <2> QED BY <2>1, IndexerKept
<1>9. ASSUME NEW h \in Nat \cup {Down},
             p'.indexer = h, p'.lastIndexer = IF h = Down THEN p.lastIndexer ELSE h,
             IF h # Down
             THEN IF p.indexer = Down THEN Say(Event("indexer", Up))
                  ELSE IF p.lastIndexer = None \/ h # p.lastIndexer
                       THEN Say(Event("indexer", h)) ELSE Say(Silent)
             ELSE IF p.indexer = Down THEN Say(Silent) ELSE Say(Event("indexer", Down))
      PROVE  IndexerInv'
  <2>1. h # None /\ (h # Down => h \in Nat)
    BY <1>5
  <2>2. SUFFICES /\ Differ(s)' /\ (LastOf("indexer", Down)' <=> h = Down) /\ s' # <<>>
                 /\ \A w \in Nat : LastOf("indexer", w)' => w = p'.lastIndexer
    <3>1. \A w : LastOf("indexer", w)' <=> s' # <<>> /\ s'[Len(s')].what = w
      BY DEF LastOf
    <3> HIDE DEF s
    <3> QED BY <1>9, <2>1, <3>1 DEF IndexerInv, s
  <2>3. CASE h # Down /\ p.indexer = Down
    <3>1. Say(Event("indexer", Up)) /\ ~LastOf("indexer", Up)
      BY <1>3, <1>4, <1>5, <1>9, <2>3
    <3>2. Differ(s)' /\ s' # <<>> /\ \A v : LastOf("indexer", v)' <=> v = Up
      BY <1>7, <3>1
    <3> QED BY <1>5, <2>3, <3>2
  <2>4. CASE h # Down /\ p.indexer # Down /\ (p.lastIndexer = None \/ h # p.lastIndexer)
    <3>1. Say(Event("indexer", h))
      BY <1>9, <2>4
    <3>2. ~LastOf("indexer", h)
      BY <1>3, <1>4, <1>5, <2>1, <2>4
    <3>3. Differ(s)' /\ s' # <<>> /\ \A v : LastOf("indexer", v)' <=> v = h
      BY <1>7, <3>1, <3>2
    <3>4. p'.lastIndexer = h
      BY <1>9, <2>4
    <3> QED BY <2>4, <3>3, <3>4
  <2>5. CASE h # Down /\ p.indexer # Down /\ ~(p.lastIndexer = None \/ h # p.lastIndexer)
    <3>1. Say(Silent) /\ p'.lastIndexer = p.lastIndexer
      BY <1>9, <2>5
    <3>2. s' = s /\ \A w : LastOf("indexer", w)' <=> LastOf("indexer", w)
      BY <1>6, <3>1
    <3>3. s # <<>> /\ ~LastOf("indexer", Down) /\ \A w \in Nat : LastOf("indexer", w) => w = p.lastIndexer
      BY <1>3, <1>4, <2>5
    <3>4. Differ(s)'
      BY <1>3, <3>2 DEF Differ
    <3> QED BY <2>5, <3>1, <3>2, <3>3, <3>4
  <2>6. CASE h = Down /\ p.indexer = Down
    <3>1. Say(Silent) /\ p'.lastIndexer = p.lastIndexer
      BY <1>9, <2>6
    <3>2. s' = s /\ \A w : LastOf("indexer", w)' <=> LastOf("indexer", w)
      BY <1>6, <3>1
    <3>3. s # <<>> /\ LastOf("indexer", Down) /\ \A w \in Nat : LastOf("indexer", w) => w = p.lastIndexer
      BY <1>3, <1>4, <2>6
    <3>4. Differ(s)'
      BY <1>3, <3>2 DEF Differ
    <3> QED BY <2>6, <3>1, <3>2, <3>3, <3>4
  <2>7. CASE h = Down /\ p.indexer # Down
    <3>1. Say(Event("indexer", Down)) /\ ~LastOf("indexer", Down)
      BY <1>3, <1>9, <2>7
    <3>2. Differ(s)' /\ s' # <<>> /\ \A v : LastOf("indexer", v)' <=> v = Down
      BY <1>7, <3>1
    <3> QED BY <1>5, <2>7, <3>2
  <2> QED BY <2>3, <2>4, <2>5, <2>6, <2>7
<1> QED BY <1>1, <1>8, <1>9

\* One more range of heights, which goes on where the last one ended.
LEMMA HeightsGrow ==
  ASSUME NEW b \in Seq([kind : {"watching", "block"}, what : Int \X Int]),
         NEW e \in [kind : {"watching", "block"}, what : Int \X Int],
         \A i \in 1..(Len(b) - 1) : b[i + 1].what[1] = b[i].what[2] + 1,
         b # <<>> => e.what[1] = b[Len(b)].what[2] + 1
  PROVE  LET l == Append(b, e)
         IN /\ \A i \in 1..(Len(l) - 1) : l[i + 1].what[1] = l[i].what[2] + 1
            /\ l # <<>> /\ l[Len(l)] = e
<1> DEFINE l == Append(b, e)
<1>1. PICK n \in Nat : n = Len(b)
  OBVIOUS
<1>2. /\ Len(l) = n + 1 /\ l[n + 1] = e /\ \A i \in 1..n : l[i] = b[i]
  BY <1>1
<1>3. l # <<>>
  <2>1. Len(l) # 0 /\ Len(<<>>) = 0
    BY <1>1, <1>2
  <2> QED BY <2>1
<1> HIDE DEF l
<1>4. ASSUME NEW i \in 1..n PROVE l[i + 1].what[1] = l[i].what[2] + 1
  <2>1. CASE i = n
    <3>1. b # <<>> /\ l[i] = b[Len(b)] /\ l[i + 1] = e
      BY <1>1, <1>2, <2>1
    <3> QED BY <3>1
  <2>2. CASE i # n
    <3>1. i \in 1..(Len(b) - 1) /\ i \in 1..n /\ i + 1 \in 1..n
      BY <1>1, <2>2
    <3> QED BY <1>2, <3>1
  <2> QED BY <2>1, <2>2
<1>5. \A i \in 1..(Len(l) - 1) : i \in 1..n
  BY <1>2
<1>6. /\ \A i \in 1..(Len(l) - 1) : l[i + 1].what[1] = l[i].what[2] + 1
      /\ l # <<>> /\ l[Len(l)] = e
  BY <1>2, <1>3, <1>4, <1>5
<1> QED BY <1>6 DEF l

LEMMA HeightsType ==
  ASSUME TypeInv
  PROVE  Of({"watching", "block"}) \in Seq([kind : {"watching", "block"}, what : Int \X Int])
<1>1. \A e \in Told : e.kind \in {"watching", "block"} =>
        e \in [kind : {"watching", "block"}, what : Int \X Int]
  BY DEF Told
<1>2. PICK b \in Seq(Told) : b = Of({"watching", "block"})
  BY OfType
<1>3. \A i \in 1..Len(b) : b[i] \in [kind : {"watching", "block"}, what : Int \X Int]
  BY <1>1, <1>2, OfType
<1>4. ASSUME NEW R, NEW s \in Seq(Told), \A i \in 1..Len(s) : s[i] \in R PROVE s \in Seq(R)
  <2>1. s = [i \in 1..Len(s) |-> s[i]] /\ Len(s) \in Nat
    OBVIOUS
  <2> QED BY <1>4, <2>1
<1>5. b \in Seq([kind : {"watching", "block"}, what : Int \X Int])
  BY <1>3, <1>4
<1> QED BY <1>2, <1>5

\* An event about the heights a to c, said after the one about what is before a.
LEMMA HeightsSaid ==
  ASSUME TypeInv, HeightsInv, NEW kind \in {"watching", "block"}, NEW a \in Int, NEW c \in Int,
         Say(Event(kind, <<a, c>>)),
         LET b == Of({"watching", "block"}) IN b # <<>> => a = b[Len(b)].what[2] + 1
  PROVE  LET b == Of({"watching", "block"})'
         IN /\ \A i \in 1..(Len(b) - 1) : b[i + 1].what[1] = b[i].what[2] + 1
            /\ b # <<>> /\ b[Len(b)].what[2] = c
<1> DEFINE e == [kind |-> kind, what |-> <<a, c>>]
           kinds == {"watching", "block"}
<1>1. e \in [kind : kinds, what : Int \X Int] /\ e \in Told /\ e.what = <<a, c>>
  BY DEF Told
<1>2. PICK b \in Seq([kind : kinds, what : Int \X Int]) : b = Of(kinds)
  BY HeightsType
<1>3. Of(kinds)' = Append(b, e)
  BY <1>1, <1>2, OneMore
<1>4. /\ \A i \in 1..(Len(b) - 1) : b[i + 1].what[1] = b[i].what[2] + 1
      /\ b # <<>> => e.what[1] = b[Len(b)].what[2] + 1
  BY <1>1, <1>2 DEF HeightsInv
<1> HIDE DEF e
<1>5. LET l == Append(b, e)
      IN /\ \A i \in 1..(Len(l) - 1) : l[i + 1].what[1] = l[i].what[2] + 1
         /\ l # <<>> /\ l[Len(l)] = e
  BY <1>1, <1>4, HeightsGrow
<1>6. PICK l : l = Append(b, e)
  OBVIOUS
<1>7. /\ \A i \in 1..(Len(l) - 1) : l[i + 1].what[1] = l[i].what[2] + 1
      /\ l # <<>> /\ l[Len(l)].what[2] = c
  BY <1>1, <1>5, <1>6
<1>8. Of({"watching", "block"})' = l
  BY <1>3, <1>6
<1> QED BY <1>7, <1>8

LEMMA HeightsBlock ==
  ASSUME TypeInv, HeightsInv, BlockEvent
  PROVE  HeightsInv'
<1> DEFINE b == Of({"watching", "block"})
<1>1. /\ pc = "block" /\ Say(Event("block", <<p.cursor, p.cursor>>))
      /\ IF p.cursor < p.target
         THEN /\ pc' = "block" /\ p'.cursor = p.cursor + 1 /\ p'.target = p.target
              /\ p'.lastHeight = p.lastHeight
         ELSE pc' = "mempool" /\ p'.lastHeight = p.target
  BY BlockIs
<1>2. PICK c \in Int, t \in Nat : c = p.cursor /\ t = p.target
  BY PollerFields DEF TypeInv
<1>3. b # <<>> /\ b[Len(b)].what[2] = c - 1 /\ c <= t /\ p.lastHeight # None
  BY <1>1, <1>2 DEF HeightsInv
<1>4. /\ \A i \in 1..(Len(b') - 1) : b'[i + 1].what[1] = b'[i].what[2] + 1
      /\ b' # <<>> /\ b'[Len(b')].what[2] = c
  <2>1. Say(Event("block", <<c, c>>))
    BY <1>1, <1>2
  <2>2. c = b[Len(b)].what[2] + 1
    BY <1>3
  <2> QED BY <2>1, <2>2, HeightsSaid
<1> HIDE DEF b
<1>5. None \notin Nat
  BY ValueAssumption
<1>6. CASE c < t
  <2>1. pc' = "block" /\ p'.cursor = c + 1 /\ p'.target = t /\ p'.lastHeight # None
    BY <1>1, <1>2, <1>3, <1>6
  <2> QED BY <1>4, <1>6, <2>1 DEF HeightsInv, b
<1>7. CASE ~(c < t)
  <2>1. pc' = "mempool" /\ p'.lastHeight = t /\ c = t
    BY <1>1, <1>2, <1>3, <1>7
  <2> QED BY <1>4, <1>5, <2>1 DEF HeightsInv, b
<1> QED BY <1>6, <1>7

LEMMA HeightsInfo ==
  ASSUME TypeInv, HeightsInv, Info
  PROVE  HeightsInv'
<1> DEFINE b == Of({"watching", "block"})
<1>1. PICK h \in Nat :
        \/ /\ p.lastHeight = None /\ p'.lastHeight = h /\ pc' = "mempool"
           /\ Say(Event("watching", <<h, h>>))
        \/ \E first \in Int :
             /\ p.lastHeight \in Nat /\ p.lastHeight < first /\ first <= h /\ pc' = "block"
             /\ p'.lastHeight = p.lastHeight /\ p'.cursor = first /\ p'.target = h
             /\ IF first > p.lastHeight + 1
                THEN Say(Event("block", <<p.lastHeight + 1, first - 1>>)) ELSE Say(Silent)
        \/ p.lastHeight # None /\ p' = p /\ Say(Silent) /\ pc' = "mempool"
  BY InfoIs
<1>2. /\ \A i \in 1..(Len(b) - 1) : b[i + 1].what[1] = b[i].what[2] + 1
      /\ b = <<>> <=> p.lastHeight = None
      /\ b # <<>> => b[Len(b)].what[2] = p.lastHeight
  <2>1. pc = "info"
    BY InfoIs
  <2> QED BY <2>1 DEF HeightsInv
<1>3. None \notin Nat
  BY ValueAssumption
<1>4. Say(Silent) => b' = b
  BY NoMore
<1>5. ASSUME NEW x \in Int, NEW y \in Int, NEW kind \in {"watching", "block"},
             Say(Event(kind, <<x, y>>)), b # <<>> => x = b[Len(b)].what[2] + 1
      PROVE  /\ \A i \in 1..(Len(b') - 1) : b'[i + 1].what[1] = b'[i].what[2] + 1
             /\ b' # <<>> /\ b'[Len(b')].what[2] = y
  BY <1>5, HeightsSaid
<1> HIDE DEF b
<1>6. CASE p.lastHeight = None /\ p'.lastHeight = h /\ pc' = "mempool" /\ Say(Event("watching", <<h, h>>))
  <2>1. /\ \A i \in 1..(Len(b') - 1) : b'[i + 1].what[1] = b'[i].what[2] + 1
        /\ b' # <<>> /\ b'[Len(b')].what[2] = h
    BY <1>2, <1>5, <1>6
  <2> QED BY <1>3, <1>6, <2>1 DEF HeightsInv, b
<1>7. CASE \E first \in Int :
             /\ p.lastHeight \in Nat /\ p.lastHeight < first /\ first <= h /\ pc' = "block"
             /\ p'.lastHeight = p.lastHeight /\ p'.cursor = first /\ p'.target = h
             /\ IF first > p.lastHeight + 1
                THEN Say(Event("block", <<p.lastHeight + 1, first - 1>>)) ELSE Say(Silent)
  <2>1. PICK first \in Int, last \in Nat :
          /\ p.lastHeight = last /\ last < first /\ first <= h /\ pc' = "block"
          /\ p'.lastHeight = last /\ p'.cursor = first /\ p'.target = h
          /\ IF first > last + 1 THEN Say(Event("block", <<last + 1, first - 1>>)) ELSE Say(Silent)
    BY <1>7
  <2>2. b # <<>> /\ b[Len(b)].what[2] = last
    BY <1>2, <1>3, <2>1
  <2>3. /\ \A i \in 1..(Len(b') - 1) : b'[i + 1].what[1] = b'[i].what[2] + 1
        /\ b' # <<>> /\ b'[Len(b')].what[2] = first - 1
    <3>1. CASE first > last + 1
      <4>1. Say(Event("block", <<last + 1, first - 1>>)) /\ last + 1 \in Int /\ first - 1 \in Int
        BY <2>1, <3>1
      <4> QED BY <1>5, <2>2, <4>1
    <3>2. CASE ~(first > last + 1)
      <4>1. b' = b /\ last = first - 1
        BY <1>4, <2>1, <3>2
      <4> QED BY <1>2, <2>2, <4>1
    <3> QED BY <3>1, <3>2
  <2> QED BY <1>3, <2>1, <2>3 DEF HeightsInv, b
<1>8. CASE p.lastHeight # None /\ p' = p /\ Say(Silent) /\ pc' = "mempool"
  <2>1. b' = b
    BY <1>4, <1>8
  <2> QED BY <1>2, <1>8, <2>1 DEF HeightsInv, b
<1> QED BY <1>1, <1>6, <1>7, <1>8

-----------------------------------------------------------------------------
(* The poller keeps the invariant.                                         *)

LEMMA PollKeepsAll ==
  ASSUME IInv, Poll
  PROVE  IInv'
<1>1. TypeInv /\ HeightsInv /\ NodeInv /\ TorInv /\ IndexerInv /\ WalletInv
  BY DEF IInv
<1>2. CASE Unreachable
  <2>1. /\ Tells({"node"}) /\ p' \in Poller /\ UNCHANGED <<world, page, flight, run>>
        /\ KeepsHeights /\ KeepsTor /\ KeepsIndexer /\ KeepsWallet
        /\ pc = "info" /\ pc' = "info"
    BY <1>1, <1>2, UnreachableIs
  <2>2. {"node"} \cap {"watching", "block"} = {}
    OBVIOUS
  <2>3. NodeInv'
    BY <1>1, <1>2, NodeDown
  <2> QED BY <2>1, <2>2, <2>3, PollKeeps DEF IInv
<1>3. CASE Info
  <2>1. /\ Tells({"watching", "block"}) /\ p' \in Poller /\ UNCHANGED <<world, page, flight, run>>
        /\ KeepsNode /\ KeepsTor /\ KeepsIndexer /\ KeepsWallet
    BY <1>1, <1>3, InfoIs
  <2>2. HeightsInv'
    BY <1>1, <1>3, HeightsInfo
  <2> QED BY <2>1, <2>2, PollKeeps DEF IInv
<1>4. CASE BlockEvent
  <2>1. /\ Tells({"block"}) /\ p' \in Poller /\ UNCHANGED <<world, page, flight, run>>
        /\ KeepsNode /\ KeepsTor /\ KeepsIndexer /\ KeepsWallet
    BY <1>1, <1>4, BlockIs
  <2>2. HeightsInv'
    BY <1>1, <1>4, HeightsBlock
  <2> QED BY <2>1, <2>2, PollKeeps DEF IInv
<1>5. CASE MempoolEvent
  <2>1. /\ Tells({"mempool"}) /\ p' \in Poller /\ UNCHANGED <<world, page, flight, run>>
        /\ KeepsHeights /\ KeepsNode /\ KeepsTor /\ KeepsIndexer /\ KeepsWallet
        /\ pc = "mempool" /\ pc' = "store"
    BY <1>1, <1>5, MempoolIs
  <2>2. {"mempool"} \cap {"watching", "block"} = {}
    OBVIOUS
  <2> QED BY <2>1, <2>2, PollKeeps DEF IInv
<1>6. CASE StoreEvent
  <2>1. /\ Tells({"store"}) /\ p' \in Poller /\ UNCHANGED <<world, page, flight, run>>
        /\ KeepsHeights /\ KeepsNode /\ KeepsTor /\ KeepsIndexer /\ KeepsWallet
        /\ pc = "store" /\ pc' = "wallet"
    BY <1>1, <1>6, StoreIs
  <2>2. {"store"} \cap {"watching", "block"} = {}
    OBVIOUS
  <2> QED BY <2>1, <2>2, PollKeeps DEF IInv
<1>7. CASE WalletEvent
  <2>1. /\ Tells({"wallet"}) /\ p' \in Poller /\ UNCHANGED <<world, page, flight, run>>
        /\ KeepsHeights /\ KeepsNode /\ KeepsTor /\ KeepsIndexer
        /\ pc = "wallet" /\ pc' = "indexer" /\ WalletInv'
    BY <1>1, <1>7, WalletIs
  <2>2. {"wallet"} \cap {"watching", "block"} = {}
    OBVIOUS
  <2> QED BY <2>1, <2>2, PollKeeps DEF IInv
<1>8. CASE IndexerEvent
  <2>1. /\ Tells({"indexer"}) /\ p' \in Poller /\ UNCHANGED <<world, page, flight, run>>
        /\ KeepsHeights /\ KeepsNode /\ KeepsTor /\ KeepsWallet
        /\ pc = "indexer" /\ pc' = "tor"
    BY <1>1, <1>8, IndexerIs
  <2>2. {"indexer"} \cap {"watching", "block"} = {}
    OBVIOUS
  <2>3. IndexerInv'
    BY <1>1, <1>8, IndexerSaid
  <2> QED BY <2>1, <2>2, <2>3, PollKeeps DEF IInv
<1>9. CASE TorEvent
  <2>1. /\ Tells({"tor"}) /\ p' \in Poller /\ UNCHANGED <<world, page, flight, run>>
        /\ KeepsHeights /\ KeepsNode /\ KeepsIndexer /\ KeepsWallet
        /\ pc = "tor" /\ pc' = "beat"
    BY <1>1, <1>9, TorIs
  <2>2. {"tor"} \cap {"watching", "block"} = {}
    OBVIOUS
  <2>3. TorInv'
    BY <1>1, <1>9, TorSaid
  <2> QED BY <2>1, <2>2, <2>3, PollKeeps DEF IInv
<1>10. CASE Heartbeat
  <2>1. /\ Tells({"tick", "node"}) /\ p' \in Poller /\ UNCHANGED <<world, page, flight, run>>
        /\ KeepsHeights /\ KeepsTor /\ KeepsIndexer /\ KeepsWallet
        /\ pc = "beat" /\ pc' = "info"
    BY <1>1, <1>10, HeartIs
  <2>2. {"tick", "node"} \cap {"watching", "block"} = {}
    OBVIOUS
  <2>3. NodeInv'
    BY <1>1, <1>10, NodeUp
  <2> QED BY <2>1, <2>2, <2>3, PollKeeps DEF IInv
<1> QED
  BY <1>2, <1>3, <1>4, <1>5, <1>6, <1>7, <1>8, <1>9, <1>10 DEF Poll

-----------------------------------------------------------------------------
(* The page, and the threads that answer it.                               *)

LEMMA RemovedIs ==
  ASSUME NEW R, NEW s \in Seq(R), NEW i \in 1..Len(s)
  PROVE  /\ RemoveAt(s, i) \in Seq(R)
         /\ \A k \in 1..Len(RemoveAt(s, i)) : \E j \in 1..Len(s) : RemoveAt(s, i)[k] = s[j]
<1> DEFINE a == SubSeq(s, 1, i - 1)
           b == SubSeq(s, i + 1, Len(s))
<1>1. PICK n \in Nat : n = Len(s) /\ i \in 1..n
  OBVIOUS
<1>2. /\ a \in Seq(R) /\ Len(a) = i - 1 /\ \A k \in 1..(i - 1) : a[k] = s[k]
      /\ b \in Seq(R) /\ Len(b) = n - i /\ \A k \in 1..(n - i) : b[k] = s[i + k]
  <2>1. /\ 1 <= n /\ i - 1 \in 0..n /\ i + 1 \in 1..(n + 1)
        /\ \A k \in 1..(i - 1) : k \in 1..n
        /\ \A k \in 1..(n - i) : i + k \in 1..n /\ k + (i + 1) - 1 = i + k
        /\ (i - 1) - 1 + 1 = i - 1 /\ n - (i + 1) + 1 = n - i /\ n - i \in Nat
    BY <1>1
  <2>2. \A k \in 1..n : s[k] \in R
    BY <1>1
  <2>3. a = [k \in 1..(i - 1) |-> s[k]]
    BY <1>1, <2>1
  <2>4. b = [k \in 1..(n - i) |-> s[i + k]]
    <3>1. b = [k \in 1..(n - (i + 1) + 1) |-> s[k + (i + 1) - 1]]
      BY <1>1, <2>1
    <3> QED BY <2>1, <3>1
  <2> HIDE DEF a, b
  <2>5. a \in Seq(R) /\ Len(a) = i - 1 /\ \A k \in 1..(i - 1) : a[k] = s[k]
    BY <2>1, <2>2, <2>3
  <2>6. b \in Seq(R) /\ Len(b) = n - i /\ \A k \in 1..(n - i) : b[k] = s[i + k]
    BY <2>1, <2>2, <2>4
  <2> QED BY <2>5, <2>6
<1>3. RemoveAt(s, i) = a \o b
  BY DEF RemoveAt
<1> HIDE DEF a, b
<1>4. PICK x \in Seq(R), y \in Seq(R) : x = a /\ y = b
  BY <1>2
<1>5. /\ x \o y \in Seq(R) /\ Len(x \o y) = Len(x) + Len(y)
      /\ \A k \in 1..(Len(x) + Len(y)) : (x \o y)[k] = IF k <= Len(x) THEN x[k] ELSE y[k - Len(x)]
  OBVIOUS
<1>6. ASSUME NEW k \in 1..(Len(x) + Len(y)) PROVE \E j \in 1..n : (x \o y)[k] = s[j]
  <2>1. Len(x) = i - 1 /\ Len(y) = n - i
    BY <1>2, <1>4
  <2>2. CASE k <= Len(x)
    <3>1. k \in 1..(i - 1) /\ k \in 1..n
      BY <1>1, <2>1, <2>2
    <3> QED BY <1>2, <1>4, <1>5, <2>2, <3>1
  <2>3. CASE ~(k <= Len(x))
    <3>1. k - Len(x) \in 1..(n - i) /\ i + (k - Len(x)) \in 1..n
      BY <1>1, <2>1, <2>3
    <3>2. (x \o y)[k] = s[i + (k - Len(x))]
      BY <1>2, <1>4, <1>5, <2>3, <3>1
    <3> QED BY <3>1, <3>2
  <2> QED BY <2>2, <2>3
<1> QED BY <1>1, <1>3, <1>4, <1>5, <1>6

LEMMA EventsType ==
  ASSUME TypeInv, FeedInv
  PROVE  next \in Nat /\ events \in Seq(Nat)
<1>1. PICK n \in Nat : n = Len(said) /\ next = n + 1
  BY DEF TypeInv, FeedInv
<1>2. PICK m \in Nat : m <= n /\ events = [i \in 1..m |-> next - m + i - 1]
  <2> DEFINE m == IF n > FeedMax THEN FeedMax ELSE n
  <2>1. m \in Nat /\ m <= n
    BY SizeAssumption
  <2>2. events = [i \in 1..m |-> next - m + i - 1]
    BY <1>1 DEF FeedInv
  <2> HIDE DEF m
  <2> QED BY <2>1, <2>2
<1>3. \A i \in 1..m : next - m + i - 1 \in Nat
  BY <1>1, <1>2
<1> QED BY <1>1, <1>2, <1>3

LEMMA SinceType ==
  ASSUME TypeInv, FeedInv, NEW after
  PROVE  Since(after) \in Seq(Nat)
<1>1. PICK s \in Seq(Nat), P \in SUBSET DOMAIN events : s = events /\ P = {i \in DOMAIN events : events[i] > after}
  BY EventsType
<1>2. Only(s, P) \in Seq(Nat) /\ Limit \in Nat
  BY OnlyIs, SizeAssumption
<1>3. Newest(Only(s, P), Limit) \in Seq(Nat)
  BY <1>2, NewestIs
<1> QED BY <1>1, <1>3 DEF Since

\* What an answer holds: what is known, and all since if it is not too much.
LEMMA SinceIs ==
  ASSUME TypeInv, FeedInv, NEW after \in Nat, after < next
  PROVE  /\ Since(after) \in Seq(Nat)
         /\ \A k \in 1..Len(Since(after)) : Since(after)[k] < next
         /\ next - 1 - after <= Limit =>
              /\ Len(Since(after)) = next - 1 - after
              /\ \A k \in 1..Len(Since(after)) : Since(after)[k] = after + k
<1>1. PICK n \in Nat : n = Len(said) /\ next = n + 1
  BY DEF TypeInv, FeedInv
<1> DEFINE m == IF n > FeedMax THEN FeedMax ELSE n
           cut == IF after + m > n THEN after + m - n ELSE 0
           P == {i \in DOMAIN events : events[i] > after}
           new == Only(events, P)
<1>2. /\ FeedMax \in Nat /\ Limit \in Nat /\ Limit <= FeedMax /\ m \in Nat /\ m <= n
      /\ cut \in 0..m /\ n - m + cut >= after /\ (n - m + cut = after \/ cut = 0)
      /\ n - after <= Limit => n - m + cut = after
  BY <1>1, SizeAssumption
<1>3. events = [i \in 1..m |-> next - m + i - 1]
  BY <1>1 DEF FeedInv
<1> HIDE DEF m, cut
<1>4. events \in Seq(Nat) /\ Len(events) = m /\ \A i \in 1..m : events[i] = n - m + i
  <2>1. \A i \in 1..m : next - m + i - 1 = n - m + i /\ n - m + i \in Nat
    BY <1>1, <1>2
  <2>2. \A i \in 1..m : next - m + i - 1 \in Nat
    BY <2>1
  <2>3. events \in Seq(Nat) /\ Len(events) = m /\ \A i \in 1..m : events[i] = next - m + i - 1
    BY <1>2, <1>3, <2>2
  <2> QED BY <2>1, <2>3
<1>5. PICK s \in Seq(Nat) : s = events
  BY <1>4
<1>6. \A i \in 1..Len(s) : i \in P <=> i > cut
  BY <1>2, <1>4, <1>5
<1> HIDE DEF P
<1>7. new = [k \in 1..(Len(s) - cut) |-> s[cut + k]]
  <2>1. cut \in 0..Len(s)
    BY <1>2, <1>4, <1>5
  <2> QED BY <1>5, <1>6, <2>1, OnlySuffix
<1> HIDE DEF new
<1>8. /\ new \in Seq(Nat) /\ Len(new) = m - cut
      /\ \A k \in 1..(m - cut) : new[k] = n - m + cut + k
  <2>1. PICK c \in Nat : c = m - cut /\ Len(s) - cut = c
    BY <1>2, <1>4, <1>5
  <2>2. \A k \in 1..c : cut + k \in 1..m /\ n - m + (cut + k) = n - m + cut + k
    BY <1>2, <2>1
  <2>3. \A k \in 1..c : s[cut + k] = n - m + cut + k /\ s[cut + k] \in Nat
    BY <1>2, <1>4, <1>5, <2>2
  <2>4. new = [k \in 1..c |-> s[cut + k]]
    BY <1>7, <2>1
  <2>5. new \in Seq(Nat) /\ Len(new) = c /\ \A k \in 1..c : new[k] = s[cut + k]
    BY <2>3, <2>4
  <2> QED BY <2>1, <2>3, <2>5
<1>9. Since(after) = Newest(new, Limit)
  BY DEF Since, new, P
<1>10. /\ Newest(new, Limit) \in Seq(Nat)
       /\ \A k \in 1..Len(Newest(new, Limit)) : \E j \in 1..Len(new) : Newest(new, Limit)[k] = new[j]
  <2>1. PICK t \in Seq(Nat) : t = new
    BY <1>8
  <2>2. Newest(t, Limit) \in Seq(Nat)
    BY <1>2, NewestIs
  <2>3. ASSUME NEW k \in 1..Len(Newest(t, Limit)) PROVE \E j \in 1..Len(t) : Newest(t, Limit)[k] = t[j]
    <3>1. CASE Len(t) > Limit
      <4>1. /\ Len(Newest(t, Limit)) = Limit
            /\ \A i \in 1..Limit : Newest(t, Limit)[i] = t[Len(t) - Limit + i]
        BY <1>2, <3>1, NewestLast
      <4>2. Len(t) - Limit + k \in 1..Len(t) /\ k \in 1..Limit
        BY <1>2, <3>1, <4>1
      <4> QED BY <4>1, <4>2
    <3>2. CASE ~(Len(t) > Limit)
      <4>1. Len(t) <= Limit
        BY <1>2, <3>2
      <4>2. Newest(t, Limit) = t
        BY <1>2, <4>1, NewestAll
      <4> QED BY <4>2
    <3> QED BY <3>1, <3>2
  <2> QED BY <2>1, <2>2, <2>3
<1>11. \A j \in 1..Len(new) : new[j] < next
  BY <1>1, <1>2, <1>8
<1>12. CASE next - 1 - after <= Limit
  <2>1. n - m + cut = after /\ m - cut = n - after /\ n - after <= Limit
    BY <1>1, <1>2, <1>12
  <2>2. PICK t \in Seq(Nat) : t = new
    BY <1>8
  <2>3. Newest(t, Limit) = t
    <3>1. Len(t) <= Limit
      BY <1>8, <2>1, <2>2
    <3> QED BY <1>2, <3>1, NewestAll
  <2>4. Len(new) = next - 1 - after /\ \A k \in 1..Len(new) : new[k] = after + k
    BY <1>1, <1>8, <2>1
  <2> QED BY <1>9, <1>10, <1>11, <2>2, <2>3, <2>4
<1>13. CASE ~(next - 1 - after <= Limit)
  BY <1>9, <1>10, <1>11, <1>13
<1> QED BY <1>12, <1>13

\* One event of an answer.
LEMMA ShownIs ==
  ASSUME NEW pg \in Page, NEW id \in Nat, Ordered(pg)
  PROVE  /\ Shown(pg, id) \in Page /\ Ordered(Shown(pg, id))
         /\ Shown(pg, id).run = pg.run /\ Shown(pg, id).lagged = pg.lagged
         /\ Shown(pg, id).last = IF id > pg.last THEN id ELSE pg.last
         /\ Complete(pg) /\ id <= pg.last + 1 => Complete(Shown(pg, id))
<1>1. pg.shown \in Seq(Nat) /\ pg.last \in Nat
  BY DEF Page
<1>2. CASE id > pg.last
  <2> DEFINE s == pg.shown
             l == Append(s, id)
             q == Shown(pg, id)
  <2>1. q = [pg EXCEPT !.last = id, !.shown = l]
    BY <1>2 DEF Shown
  <2>2. PICK n \in Nat : n = Len(s)
    BY <1>1
  <2>3. l \in Seq(Nat) /\ Len(l) = n + 1 /\ l[n + 1] = id /\ \A i \in 1..n : l[i] = s[i]
    BY <1>1, <2>2
  <2> HIDE DEF l
  <2>4. /\ q \in Page /\ q.last = id /\ q.shown = l /\ q.run = pg.run /\ q.lagged = pg.lagged
    BY <2>1, <2>3 DEF Page
  <2>5. Ordered(q)
    <3>1. ASSUME NEW i \in 1..n PROVE l[i] < l[i + 1]
      <4>1. CASE i = n
        <5>1. s # <<>> /\ n \in 1..n
          BY <1>1, <2>2, <4>1
        <5>2. l[i] = pg.last /\ l[i + 1] = id
          BY <2>2, <2>3, <4>1, <5>1 DEF Ordered
        <5> QED BY <1>2, <5>2
      <4>2. CASE i # n
        <5>1. i \in 1..(Len(s) - 1) /\ i \in 1..n /\ i + 1 \in 1..n
          BY <2>2, <4>2
        <5> QED BY <2>3, <5>1 DEF Ordered
      <4> QED BY <4>1, <4>2
    <3>2. Len(l) - 1 = n
      BY <2>3
    <3> QED BY <2>3, <2>4, <3>1, <3>2 DEF Ordered
  <2>6. Complete(pg) /\ id <= pg.last + 1 => Complete(q)
    <3> SUFFICES ASSUME Complete(pg), id <= pg.last + 1 PROVE Complete(q)
      OBVIOUS
    <3>1. id = pg.last + 1 /\ s = [i \in 1..(pg.last) |-> i]
      BY <1>1, <1>2 DEF Complete
    <3>2. n = pg.last /\ \A i \in 1..n : s[i] = i
      BY <1>1, <2>2, <3>1
    <3>3. \A i \in 1..(n + 1) : i \in 1..n \/ i = n + 1
      OBVIOUS
    <3>4. \A i \in 1..(n + 1) : l[i] = i
      BY <2>3, <3>1, <3>2, <3>3
    <3>5. l = [i \in 1..(n + 1) |-> i]
      <4>1. l = [i \in 1..(n + 1) |-> l[i]]
        BY <2>3
      <4> QED BY <3>4, <4>1
    <3> QED BY <2>4, <3>1, <3>2, <3>5 DEF Complete
  <2> QED BY <1>2, <2>4, <2>5, <2>6
<1>3. CASE ~(id > pg.last)
  BY <1>3 DEF Shown
<1> QED BY <1>2, <1>3

\* The loop over the events of an answer.
LEMMA AllShownIs ==
  ASSUME NEW pg \in Page, NEW ids \in Seq(Nat), Ordered(pg), NEW since \in Nat
  PROVE  /\ AllShown(pg, ids) \in Page /\ Ordered(AllShown(pg, ids))
         /\ AllShown(pg, ids).run = pg.run /\ AllShown(pg, ids).lagged = pg.lagged
         /\ pg.last <= AllShown(pg, ids).last
         /\ \/ AllShown(pg, ids).last = pg.last
            \/ \E k \in 1..Len(ids) : AllShown(pg, ids).last = ids[k]
         /\ Complete(pg) /\ since <= pg.last /\ (\A k \in 1..Len(ids) : ids[k] = since + k)
            => Complete(AllShown(pg, ids))
<1> DEFINE N == Len(ids)
           step == [x \in (1..N) \X Page |-> Shown(x[2], ids[x[1]])]
           Good(q) ==
             /\ Ordered(q) /\ q.run = pg.run /\ q.lagged = pg.lagged /\ pg.last <= q.last
             /\ q.last = pg.last \/ \E k \in 1..N : q.last = ids[k]
           Runs == Complete(pg) /\ since <= pg.last /\ \A k \in 1..N : ids[k] = since + k
           body(h) == [n \in 0..N |-> IF n = 0 THEN pg ELSE Shown(h[n - 1], ids[n])]
           shown == CHOOSE h : h = body(h)
<1>1. N \in Nat /\ (\A i \in 1..N : ids[i] \in Nat) /\ \A q \in Page : q.last \in Nat
  BY DEF Page
<1>2. AllShown(pg, ids) = shown[N]
  BY DEF AllShown
<1> HIDE DEF N
<1>3. /\ step \in [(1..N) \X Page -> Page]
      /\ \A n \in 1..N, x \in Page : step[<<n, x>>] = Shown(x, ids[n])
  <2>1. \A x \in (1..N) \X Page : Shown(x[2], ids[x[1]]) \in Page
    <3> SUFFICES ASSUME NEW q \in Page, NEW id \in Nat PROVE Shown(q, id) \in Page
      BY <1>1
    <3>1. Append(q.shown, id) \in Seq(Nat)
      BY DEF Page
    <3>2. CASE id > q.last
      <4>1. PICK s \in Seq(Nat) : s = Append(q.shown, id)
        BY <3>1
      <4>2. Shown(q, id) = [q EXCEPT !.last = id, !.shown = s]
        BY <3>2, <4>1 DEF Shown
      <4> QED BY <4>2 DEF Page
    <3>3. CASE ~(id > q.last)
      BY <3>3 DEF Shown
    <3> QED BY <3>2, <3>3
  <2> QED BY <2>1
<1> HIDE DEF step
<1>4. PICK f \in [0..N -> Page] : f[0] = pg /\ \A n \in 1..N : f[n] = step[<<n, f[n - 1]>>]
  <2>1. PICK f \in [0..N -> Page] : Repeats(f, pg, step, N)
    BY <1>1, <1>3, LoopExists
  <2> QED BY <2>1 DEF Repeats
<1>5. \A n \in 1..N : n - 1 \in 0..N /\ n \in 0..N /\ n # 0
  BY <1>1
<1>6. f = body(f)
  <2>1. ASSUME NEW n \in 0..N PROVE f[n] = IF n = 0 THEN pg ELSE Shown(f[n - 1], ids[n])
    <3>1. CASE n = 0
      BY <1>4, <3>1
    <3>2. CASE n \in 1..N
      BY <1>3, <1>4, <1>5, <3>2
    <3> QED BY <1>1, <3>1, <3>2
  <2>2. f = [n \in 0..N |-> f[n]]
    OBVIOUS
  <2> QED BY <2>1, <2>2
<1>7. shown = body(shown)
  BY <1>6
<1> HIDE DEF shown
<1>8. shown[0] = pg /\ \A n \in 1..N : shown[n] = Shown(shown[n - 1], ids[n])
  <2>1. 0 \in 0..N
    BY <1>1
  <2> QED BY <1>5, <1>7, <2>1
<1> HIDE DEF body
<1> DEFINE S == {n \in Nat : n <= N =>
                   /\ shown[n] \in Page /\ Good(shown[n])
                   /\ Runs => Complete(shown[n]) /\ since + n <= shown[n].last}
<1>9. 0 \in S
  BY <1>1, <1>8
<1>10. ASSUME NEW n \in S PROVE n + 1 \in S
  <2> SUFFICES ASSUME n + 1 <= N
               PROVE  /\ shown[n + 1] \in Page /\ Good(shown[n + 1])
                      /\ Runs => Complete(shown[n + 1]) /\ since + (n + 1) <= shown[n + 1].last
    OBVIOUS
  <2>1. /\ n \in Nat /\ n <= N /\ n + 1 \in 1..N /\ (n + 1) - 1 = n
        /\ ids[n + 1] \in Nat
    <3>1. n \in Nat
      OBVIOUS
    <3> HIDE DEF S
    <3> QED BY <1>1, <3>1
  <2>2. /\ shown[n] \in Page /\ Good(shown[n])
        /\ Runs => Complete(shown[n]) /\ since + n <= shown[n].last
    BY <2>1
  <2> HIDE DEF S
  <2>3. PICK q \in Page, id \in Nat : q = shown[n] /\ id = ids[n + 1] /\ shown[n + 1] = Shown(q, id)
    BY <1>8, <2>1, <2>2
  <2>4. /\ Shown(q, id) \in Page /\ Ordered(Shown(q, id))
        /\ Shown(q, id).run = q.run /\ Shown(q, id).lagged = q.lagged
        /\ Shown(q, id).last = IF id > q.last THEN id ELSE q.last
        /\ Complete(q) /\ id <= q.last + 1 => Complete(Shown(q, id))
    BY <2>2, <2>3, ShownIs
  <2>5. q.last \in Nat /\ pg.last \in Nat
    BY <1>1
  <2>6. Good(shown[n + 1])
    <3>1. PICK r : r = Shown(q, id) /\ r = shown[n + 1]
      BY <2>3
    <3>2. /\ q.run = pg.run /\ q.lagged = pg.lagged /\ pg.last <= q.last
          /\ q.last = pg.last \/ \E k \in 1..N : q.last = ids[k]
      BY <2>2, <2>3
    <3>3. Ordered(r) /\ r.run = pg.run /\ r.lagged = pg.lagged
      BY <2>4, <3>1, <3>2
    <3>4. pg.last <= r.last /\ (r.last = pg.last \/ \E k \in 1..N : r.last = ids[k])
      <4>1. CASE id > q.last
        <5>1. r.last = id /\ id = ids[n + 1] /\ n + 1 \in 1..N
          BY <2>1, <2>3, <2>4, <3>1, <4>1
        <5> QED BY <2>5, <3>2, <4>1, <5>1
      <4>2. CASE ~(id > q.last)
        <5>1. r.last = q.last
          BY <2>4, <3>1, <4>2
        <5> QED BY <3>2, <5>1
      <4> QED BY <4>1, <4>2
    <3> QED BY <3>1, <3>3, <3>4
  <2>7. Runs => Complete(shown[n + 1]) /\ since + (n + 1) <= shown[n + 1].last
    <3> SUFFICES ASSUME Runs PROVE Complete(shown[n + 1]) /\ since + (n + 1) <= shown[n + 1].last
      OBVIOUS
    <3>1. id = since + (n + 1) /\ Complete(q) /\ since + n <= q.last
      BY <2>1, <2>2, <2>3
    <3> HIDE DEF Runs
    <3> QED BY <2>1, <2>3, <2>4, <2>5, <3>1
  <2> QED BY <2>3, <2>4, <2>6, <2>7
<1>11. N \in S
  <2>1. S \subseteq Nat
    OBVIOUS
  <2> HIDE DEF S
  <2> QED BY <1>1, <1>9, <1>10, <2>1, SetInduction
<1>12. /\ shown[N] \in Page /\ Good(shown[N])
       /\ Runs => Complete(shown[N])
  BY <1>1, <1>11
<1> HIDE DEF S
<1> QED BY <1>2, <1>12 DEF N

\* The steps that leave the feed and the poller alone.
LEMMA IdleKeeps ==
  ASSUME IInv, UNCHANGED <<feed, pc, p>>, world' \in World, world.txs <= world'.txs
  PROVE  TypeInv' /\ FeedInv' /\ HeightsInv' /\ NodeInv' /\ TorInv' /\ IndexerInv' /\ WalletInv'
<1>1. /\ said' = said /\ events' = events /\ next' = next /\ p' = p /\ pc' = pc
      /\ \A kinds : Of(kinds)' = Of(kinds)
  BY DEF feed, Of
<1>2. KeepsHeights /\ KeepsNode /\ KeepsTor /\ KeepsIndexer /\ KeepsWallet
  BY <1>1 DEF KeepsHeights, KeepsNode, KeepsTor, KeepsIndexer, KeepsWallet
<1>3. TypeInv'
  BY <1>1 DEF IInv, TypeInv
<1>4. FeedInv'
  BY <1>1 DEF IInv, FeedInv
<1>5. HeightsInv'
  <2> DEFINE b == Of({"watching", "block"})
  <2>1. b' = b
    BY <1>1
  <2>2. HeightsInv
    BY DEF IInv
  <2> QED BY <1>1, <2>1, <2>2 DEF HeightsInv
<1>6. NodeInv' /\ TorInv' /\ IndexerInv'
  BY <1>1, <1>2, NodeKept, TorKept, IndexerKept DEF IInv
<1>7. WalletInv'
  <2>1. world'.txs \in Nat
    BY DEF World
  <2> QED BY <1>1, <1>2, <2>1, WalletKept DEF IInv
<1> QED BY <1>3, <1>4, <1>5, <1>6, <1>7

\* What the page's part says of a fetch.
LEMMA FlightIs ==
  ASSUME PageInv, NEW i \in 1..Len(flight)
  PROVE  /\ flight[i] \in Flight
         /\ page.run = run => Timely(flight[i], page.last, next)
         /\ page.run = run /\ ~page.lagged => OnTime(flight[i], page.last, next)
BY DEF PageInv

\* The page's part after a step after which the fetches are f.
LEMMA FetchesAre ==
  ASSUME PageInv, UNCHANGED <<next, page, run>>, flight' \in Seq(Flight),
         \A i \in 1..Len(flight') :
           \/ \E j \in 1..Len(flight) : flight'[i] = flight[j]
           \/ page.run = run => /\ Timely(flight'[i], page.last, next)
                                /\ ~page.lagged => OnTime(flight'[i], page.last, next)
  PROVE  PageInv'
<1>1. next' = next /\ page' = page /\ run' = run
  OBVIOUS
<1>2. \A i \in 1..Len(flight') :
        page.run = run => /\ Timely(flight'[i], page.last, next)
                          /\ ~page.lagged => OnTime(flight'[i], page.last, next)
  BY FlightIs
<1> QED BY <1>1, <1>2 DEF PageInv

LEMMA FetchKeeps ==
  ASSUME IInv, Fetch
  PROVE  PageInv'
<1>1. page \in Page /\ flight \in Seq(Flight) /\ PageInv
  BY DEF IInv, PageInv
<1>2. page.last \in Nat
  BY <1>1 DEF Page
<1>3. PICK f \in Flight : f = [since |-> page.last, ids |-> None]
  BY <1>2 DEF Flight
<1>4. flight' = Append(flight, f) /\ UNCHANGED <<next, page, run>>
  BY <1>3 DEF Fetch, Idle, feed
<1>5. Timely(f, page.last, next) /\ OnTime(f, page.last, next)
  <2>1. f.since = page.last /\ f.ids = None
    BY <1>3
  <2> QED BY <1>2, <2>1 DEF Timely, OnTime
<1>6. PICK n \in Nat : n = Len(flight)
  BY <1>1
<1>7. /\ flight' \in Seq(Flight) /\ Len(flight') = n + 1 /\ flight'[n + 1] = f
      /\ \A i \in 1..n : flight'[i] = flight[i]
      /\ \A i \in 1..(n + 1) : i \in 1..n \/ i = n + 1
  BY <1>1, <1>4, <1>6
<1> QED BY <1>1, <1>4, <1>5, <1>6, <1>7, FetchesAre

LEMMA LoseKeeps ==
  ASSUME IInv, Lose
  PROVE  PageInv'
<1>1. flight \in Seq(Flight) /\ PageInv
  BY DEF IInv, PageInv
<1>2. PICK i \in 1..Len(flight) : flight' = RemoveAt(flight, i)
  BY <1>1 DEF Lose
<1>3. UNCHANGED <<next, page, run>>
  BY DEF Lose, Idle, feed
<1>4. PICK s \in Seq(Flight) : s = flight
  BY <1>1
<1>5. /\ RemoveAt(s, i) \in Seq(Flight)
      /\ \A k \in 1..Len(RemoveAt(s, i)) : \E j \in 1..Len(s) : RemoveAt(s, i)[k] = s[j]
  BY <1>2, <1>4, RemovedIs
<1>6. /\ flight' \in Seq(Flight)
      /\ \A k \in 1..Len(flight') : \E j \in 1..Len(flight) : flight'[k] = flight[j]
  BY <1>2, <1>4, <1>5
<1> QED BY <1>1, <1>3, <1>6, FetchesAre

LEMMA ReloadKeeps ==
  ASSUME IInv, Reload
  PROVE  PageInv'
<1>1. /\ page' = [run |-> run, last |-> 0, shown |-> <<>>, lagged |-> FALSE] /\ flight' = <<>>
      /\ next' = next /\ run' = run
  BY DEF Reload, NewPage, Idle, feed
<1>2. next \in Nat /\ 0 < next /\ run \in Nat
  BY DEF IInv, FeedInv, TypeInv, PageInv
<1>3. /\ page' \in Page /\ page'.last = 0 /\ page'.shown = <<>> /\ page'.run = run'
      /\ flight' \in Seq(Flight) /\ Len(flight') = 0
  BY <1>1, <1>2 DEF Page
<1>4. Ordered(page') /\ Complete(page')
  BY <1>3 DEF Ordered, Complete
<1> QED BY <1>1, <1>2, <1>3, <1>4 DEF PageInv

\* A new run of the server: the page is one of another.
LEMMA RestartKeeps ==
  ASSUME IInv, Restart
  PROVE  PageInv'
<1>1. /\ page \in Page /\ flight \in Seq(Flight) /\ run \in Nat /\ page.run <= run /\ Ordered(page)
  BY DEF IInv, PageInv
<1>2. page.run \in Nat
  BY <1>1 DEF Page
<1>3. /\ run' = run + 1 /\ page' = page
      /\ flight' = Only(flight, {i \in DOMAIN flight : flight[i].ids # None})
  BY DEF Restart
<1>4. flight' \in Seq(Flight)
  <2>1. PICK s \in Seq(Flight), P \in SUBSET DOMAIN flight : s = flight /\ P = {i \in DOMAIN flight : flight[i].ids # None}
    BY <1>1
  <2>2. Only(s, P) \in Seq(Flight)
    BY OnlyIs
  <2> QED BY <1>3, <2>1, <2>2
<1>5. run' \in Nat /\ page'.run <= run' /\ page'.run # run'
  BY <1>1, <1>2, <1>3
<1> QED BY <1>1, <1>3, <1>4, <1>5 DEF PageInv

LEMMA FlightAnswered ==
  ASSUME NEW g \in Flight, NEW ids
  PROVE  [g EXCEPT !.ids = ids] = [since |-> g.since, ids |-> ids]
BY DEF Flight

\* An answer that leaves something out makes the page lag.
LEMMA AnswerKeeps ==
  ASSUME IInv, Answer
  PROVE  PageInv'
<1>1. /\ page \in Page /\ flight \in Seq(Flight) /\ run \in Nat /\ page.run <= run /\ Ordered(page)
      /\ PageInv /\ TypeInv /\ FeedInv
  BY DEF IInv, PageInv
<1>2. PICK i \in 1..Len(flight) :
        /\ flight' = [flight EXCEPT ![i].ids = Since(flight[i].since)]
        /\ page' = [page EXCEPT !.lagged = @ \/ next - 1 - flight[i].since > Limit]
  <2>1. DOMAIN flight = 1..Len(flight)
    BY <1>1
  <2> QED BY <2>1, Zenon DEF Answer
<1>3. next' = next /\ run' = run
  BY DEF Answer, Idle, feed
<1>4. PICK g \in Flight, after \in Nat : g = flight[i] /\ after = flight[i].since
  <2>1. flight[i] \in Flight
    BY <1>1, FlightIs
  <2> QED BY <2>1 DEF Flight
<1>5. PICK new \in Seq(Nat) : new = Since(after)
  BY <1>1, SinceType
<1>6. PICK f \in Flight : f = [since |-> after, ids |-> new]
  BY DEF Flight
<1>7. flight' \in Seq(Flight) /\ Len(flight') = Len(flight) /\ flight'[i] = f
      /\ \A j \in 1..Len(flight) : j # i => flight'[j] = flight[j]
  <2>1. g \in [since : Nat, ids : Seq(Nat) \cup {None}] /\ g.since = after
    BY <1>4 DEF Flight
  <2>2. [flight[i] EXCEPT !.ids = new] = f
    <3>1. [g EXCEPT !.ids = new] = [since |-> g.since, ids |-> new]
      BY FlightAnswered
    <3> QED BY <1>4, <1>6, <2>1, <3>1
  <2>3. flight' = [flight EXCEPT ![i] = f]
    BY <1>1, <1>2, <1>4, <1>5, <2>2
  <2> QED BY <1>1, <2>3
<1>8. PICK lag \in BOOLEAN : lag = (next - 1 - after > Limit)
  <2>1. (next - 1 - after > Limit) \in BOOLEAN
    OBVIOUS
  <2> QED BY <2>1, Zenon
<1>9. /\ page' \in Page /\ page'.last = page.last /\ page'.shown = page.shown /\ page'.run = page.run
      /\ page'.lagged = (page.lagged \/ lag)
  <2>1. PICK l \in BOOLEAN : l = (page.lagged \/ lag)
    OBVIOUS
  <2>2. page' = [page EXCEPT !.lagged = l]
    BY <1>2, <1>4, <1>8, <2>1
  <2> QED BY <1>1, <2>1, <2>2 DEF Page
<1>10. Ordered(page') /\ (Complete(page) => Complete(page'))
  BY <1>1, <1>9 DEF Ordered, Complete
<1>11. ASSUME page.run = run
       PROVE  Timely(f, page.last, next) /\ (~lag => OnTime(f, page.last, next))
  <2>1. page.last < next /\ Timely(flight[i], page.last, next)
    BY <1>1, <1>11 DEF PageInv
  <2>2. after <= page.last /\ after < next /\ page.last \in Nat /\ next \in Nat
    BY <1>1, <1>4, <2>1, EventsType DEF Timely, Page
  <2>3. /\ \A k \in 1..Len(new) : new[k] < next
        /\ next - 1 - after <= Limit =>
             /\ Len(new) = next - 1 - after
             /\ \A k \in 1..Len(new) : new[k] = after + k
    BY <1>1, <1>5, <2>2, SinceIs
  <2>4. Limit \in Nat
    BY SizeAssumption
  <2>5. f.since = after /\ f.ids = new
    BY <1>6
  <2>6. Timely(f, page.last, next)
    BY <2>2, <2>3, <2>5 DEF Timely
  <2>7. ~lag => OnTime(f, page.last, next)
    <3> SUFFICES ASSUME ~lag PROVE OnTime(f, page.last, next)
      OBVIOUS
    <3>1. next - 1 - after <= Limit
      <4>1. ~(next - 1 - after > Limit)
        BY <1>8, Zenon
      <4> QED BY <2>2, <2>4, <4>1
    <3>2. after + Len(new) < next
      BY <2>2, <2>3, <3>1
    <3> QED BY <2>2, <2>3, <2>5, <3>1, <3>2 DEF OnTime
  <2> QED BY <2>6, <2>7
<1>12. ASSUME page.run = run
       PROVE  /\ \A j \in 1..Len(flight') : Timely(flight'[j], page.last, next)
              /\ ~page.lagged /\ ~lag =>
                   \A j \in 1..Len(flight') : OnTime(flight'[j], page.last, next)
  BY <1>1, <1>7, <1>11, <1>12, FlightIs
<1>13. page.run = run => page.last < next /\ (~page.lagged => Complete(page))
  BY <1>1 DEF PageInv
<1> QED BY <1>1, <1>3, <1>7, <1>9, <1>10, <1>12, <1>13 DEF PageInv

\* An answer shows what is new in it.
LEMMA DeliverKeeps ==
  ASSUME IInv, Deliver
  PROVE  PageInv'
<1>1. /\ page \in Page /\ flight \in Seq(Flight) /\ run \in Nat /\ page.run <= run /\ Ordered(page)
      /\ PageInv /\ TypeInv /\ FeedInv
  BY DEF IInv, PageInv
<1>2. PICK i \in 1..Len(flight) :
        /\ flight[i].ids # None
        /\ page' = AllShown(page, flight[i].ids)
        /\ flight' = RemoveAt(flight, i)
  BY <1>1 DEF Deliver
<1>3. next' = next /\ run' = run
  BY DEF Deliver, Idle, feed
<1>4. PICK ids \in Seq(Nat), since \in Nat : ids = flight[i].ids /\ since = flight[i].since
  <2>1. flight[i] \in Flight
    BY <1>1, FlightIs
  <2> QED BY <1>2, <2>1 DEF Flight
<1>5. PICK pg \in Page : pg = page
  BY <1>1
<1>6. PICK s \in Seq(Flight) : s = flight
  BY <1>1
<1>7. /\ page' \in Page /\ Ordered(page') /\ page'.run = pg.run /\ page'.lagged = pg.lagged
      /\ pg.last <= page'.last
      /\ page'.last = pg.last \/ \E k \in 1..Len(ids) : page'.last = ids[k]
      /\ Complete(pg) /\ since <= pg.last /\ (\A k \in 1..Len(ids) : ids[k] = since + k)
         => Complete(page')
  BY <1>1, <1>2, <1>4, <1>5, AllShownIs
<1>8. /\ flight' \in Seq(Flight)
      /\ \A k \in 1..Len(flight') : \E j \in 1..Len(flight) : flight'[k] = flight[j]
  <2>1. /\ RemoveAt(s, i) \in Seq(Flight)
        /\ \A k \in 1..Len(RemoveAt(s, i)) : \E j \in 1..Len(s) : RemoveAt(s, i)[k] = s[j]
    BY <1>2, <1>6, RemovedIs
  <2> QED BY <1>2, <1>6, <2>1
<1>9. ASSUME page.run = run
      PROVE  /\ page'.last < next /\ \A j \in 1..Len(flight') : Timely(flight'[j], page'.last, next)
             /\ ~page'.lagged =>
                  Complete(page') /\ \A j \in 1..Len(flight') : OnTime(flight'[j], page'.last, next)
  <2>1. /\ page.last < next /\ Timely(flight[i], page.last, next)
        /\ ~page.lagged => Complete(page) /\ OnTime(flight[i], page.last, next)
    BY <1>1, <1>9 DEF PageInv
  <2>2. page.last \in Nat /\ page'.last \in Nat /\ page.last <= page'.last
    <3>1. \A q \in Page : q.last \in Nat
      BY DEF Page
    <3>2. page \in Page /\ page' \in Page /\ page.last <= page'.last
      BY <1>1, <1>5, <1>7
    <3> QED BY <3>1, <3>2
  <2>3. ASSUME NEW f \in Flight
        PROVE  /\ Timely(f, page.last, next) => Timely(f, page'.last, next)
               /\ OnTime(f, page.last, next) => OnTime(f, page'.last, next)
    <3>1. f.since \in Nat
      BY DEF Flight
    <3> QED BY <2>2, <3>1 DEF Timely, OnTime
  <2>4. \A j \in 1..Len(flight') :
          /\ Timely(flight'[j], page'.last, next)
          /\ ~page.lagged => OnTime(flight'[j], page'.last, next)
    BY <1>1, <1>8, <1>9, <2>3, FlightIs
  <2>5. page'.last < next
    <3>1. \A k \in 1..Len(ids) : ids[k] < next
      BY <1>2, <1>4, <2>1 DEF Timely
    <3> QED BY <1>5, <1>7, <2>1, <3>1
  <2>6. ~page.lagged => Complete(page')
    <3> SUFFICES ASSUME ~page.lagged PROVE Complete(page')
      OBVIOUS
    <3>1. since <= page.last /\ \A k \in 1..Len(ids) : ids[k] = since + k
      BY <1>2, <1>4, <2>1 DEF OnTime
    <3> QED BY <1>5, <1>7, <2>1, <3>1
  <2> QED BY <1>5, <1>7, <2>4, <2>5, <2>6
<1> QED BY <1>1, <1>3, <1>5, <1>7, <1>8, <1>9 DEF PageInv

-----------------------------------------------------------------------------
(* The world, and the theorems.                                            *)

LEMMA WorldIs ==
  ASSUME TypeInv, WorldChanges
  PROVE  /\ world' \in World /\ world.txs <= world'.txs
         /\ UNCHANGED <<feed, pc, p, page, flight, run>>
<1>1. PICK part \in Changing : \E x \in Becomes[part] : world' = [world EXCEPT ![part] = x]
  BY DEF WorldChanges
<1>0. PICK v \in Becomes[part] : world' = [world EXCEPT ![part] = v]
  BY <1>1
<1>2. world \in World /\ UNCHANGED <<feed, pc, p, page, flight, run>>
  BY DEF TypeInv, WorldChanges
<1>3. /\ Delta \in Nat /\ MaxTip \in Nat /\ MaxTxs \in Nat
      /\ part \in {"up", "clearnet", "wallet", "tip", "mempool", "store", "txs", "indexer"}
  BY <1>1, PollAssumption, BoundAssumption, ChangingAssumption
<1>4. PICK n \in Nat : n = world.txs
  BY <1>2 DEF World
<1>5. CASE part \in {"up", "clearnet", "wallet"}
  <2>1. v \in BOOLEAN
    BY <1>5 DEF Becomes
  <2> QED BY <1>0, <1>2, <1>5, <2>1 DEF World
<1>6. CASE part \in {"tip", "mempool"}
  <2>1. v \in Nat
    BY <1>3, <1>6 DEF Becomes
  <2> QED BY <1>0, <1>2, <1>6, <2>1 DEF World
<1>7. CASE part = "store"
  <2>1. v \in Nat \cup {None}
    BY <1>7 DEF Becomes
  <2> QED BY <1>0, <1>2, <1>7, <2>1 DEF World
<1>8. CASE part = "txs"
  <2>1. v \in Nat /\ n <= v
    BY <1>3, <1>4, <1>8 DEF Becomes
  <2> QED BY <1>0, <1>2, <1>4, <1>8, <2>1 DEF World
<1>9. CASE part = "indexer"
  <2>1. v \in Nat \cup {Down}
    BY <1>9 DEF Becomes
  <2> QED BY <1>0, <1>2, <1>9, <2>1 DEF World
<1> QED BY <1>3, <1>5, <1>6, <1>7, <1>8, <1>9

\* A server that has said nothing yet.
Begins ==
  world \in World /\ events = <<>> /\ next = 1 /\ said = <<>> /\ pc = "info" /\ p = NewPoller
Fine == TypeInv /\ FeedInv /\ HeightsInv /\ NodeInv /\ TorInv /\ IndexerInv /\ WalletInv

LEMMA BeginsFine == Begins => Fine
<1> SUFFICES ASSUME world \in World, events = <<>>, next = 1, said = <<>>, pc = "info", p = NewPoller
             PROVE  TypeInv /\ FeedInv /\ HeightsInv /\ NodeInv /\ TorInv /\ IndexerInv /\ WalletInv
  BY DEF Begins, Fine
<1>1. TypeInv
  <2>1. NewPoller \in Poller
    BY DEF NewPoller, Poller
  <2> QED BY <2>1 DEF TypeInv
<1>2. FeedInv
  BY SizeAssumption DEF FeedInv
<1>3. \A kinds : Of(kinds) = <<>>
  <2> SUFFICES ASSUME NEW kinds PROVE Of(kinds) = <<>>
    OBVIOUS
  <2>1. said \in Seq(Told) /\ \A i \in 1..Len(said) : said[i].kind \notin kinds
    OBVIOUS
  <2>2. PICK s \in Seq(Told) : s = said /\ \A i \in 1..Len(s) : s[i].kind \notin kinds
    BY <2>1
  <2>3. Part(s, kinds) = <<>>
    BY <2>2, PartNone
  <2> QED BY <2>2, <2>3 DEF Of, Part
<1>4. \A kind, what : ~LastOf(kind, what)
  BY <1>3 DEF LastOf
<1>5. Len(<<>>) = 0
  OBVIOUS
<1>6. HeightsInv
  BY <1>3, <1>5 DEF HeightsInv, NewPoller
<1>7. NodeInv
  BY <1>3, <1>4, <1>5 DEF NodeInv, Differ, NewPoller
<1>8. TorInv
  <2>1. None # TRUE
    BY ValueAssumption
  <2>2. p.torWarned = FALSE /\ p.clearnet = None
    BY DEF NewPoller
  <2>3. Differ(Of({"tor"}))
    BY <1>3, <1>5 DEF Differ
  <2> QED BY <1>4, <2>1, <2>2, <2>3 DEF TorInv
<1>9. IndexerInv
  BY <1>3, <1>4, <1>5, ValueAssumption DEF IndexerInv, Differ, NewPoller
<1>10. WalletInv
  <2>1. Memory(<<>>, {}, Low(0), 0)
    BY SeenAssumption DEF Memory, Low
  <2>2. 0 \in 0..world.txs
    BY DEF World
  <2>3. p.seenOrder = <<>> /\ p.seenWallet = {}
    BY DEF NewPoller
  <2> QED BY <1>3, <1>5, <2>1, <2>2, <2>3 DEF WalletInv
<1> QED BY <1>1, <1>2, <1>6, <1>7, <1>8, <1>9, <1>10

LEMMA BeginsFineAgain == Begins' => Fine'
BY BeginsFine, PTL

LEMMA InitInv ==
  ASSUME Init
  PROVE  IInv
<1>1. world \in World
  BY DEF Init, World
<1>2. TypeInv /\ FeedInv /\ HeightsInv /\ NodeInv /\ TorInv /\ IndexerInv /\ WalletInv
  BY <1>1, BeginsFine DEF Init, Begins, Fine
<1>3. PageInv
  <2>1. /\ page = [run |-> 1, last |-> 0, shown |-> <<>>, lagged |-> FALSE]
        /\ flight = <<>> /\ next = 1 /\ run = 1
    BY DEF Init, NewPage
  <2>2. page \in Page /\ flight \in Seq(Flight) /\ Len(flight) = 0
    BY <2>1 DEF Page
  <2>3. Ordered(page) /\ Complete(page)
    BY <2>1 DEF Ordered, Complete
  <2> QED BY <2>1, <2>2, <2>3 DEF PageInv
<1> QED BY <1>2, <1>3 DEF IInv

LEMMA NextInv ==
  ASSUME IInv, [Next]_vars
  PROVE  IInv'
<1>1. CASE Poll
  BY <1>1, PollKeepsAll
<1>2. TypeInv /\ world \in World /\ world.txs \in Nat
  BY DEF IInv, TypeInv, World
<1>3. CASE Fetch \/ Answer \/ Deliver \/ Lose \/ Reload
  <2>1. UNCHANGED <<feed, pc, p>> /\ world' = world
    BY <1>3 DEF Fetch, Answer, Deliver, Lose, Reload, Idle
  <2>2. PageInv'
    BY <1>3, FetchKeeps, AnswerKeeps, DeliverKeeps, LoseKeeps, ReloadKeeps
  <2>3. world' \in World /\ world.txs <= world'.txs
    BY <1>2, <2>1
  <2> QED BY <2>1, <2>2, <2>3, IdleKeeps DEF IInv
<1>4. CASE WorldChanges
  <2>1. /\ world' \in World /\ world.txs <= world'.txs
        /\ UNCHANGED <<feed, pc, p, page, flight, run>>
    BY <1>2, <1>4, WorldIs
  <2>2. PageInv' /\ PageInv
    BY <2>1 DEF IInv, PageInv, feed
  <2> QED BY <2>1, <2>2, IdleKeeps DEF IInv
<1>5. CASE Restart
  <2>1. /\ world' = world /\ events' = <<>> /\ next' = 1 /\ said' = <<>> /\ pc' = "info"
        /\ p' = NewPoller
    BY <1>5 DEF Restart
  <2>2. PageInv'
    BY <1>5, RestartKeeps
  <2>3. (TypeInv /\ FeedInv /\ HeightsInv /\ NodeInv /\ TorInv /\ IndexerInv /\ WalletInv)'
    <3>1. Begins'
      BY <1>2, <2>1 DEF Begins
    <3> QED BY <3>1, BeginsFineAgain DEF Fine
  <2> QED BY <2>2, <2>3 DEF IInv
<1>6. CASE UNCHANGED vars
  <2>1. UNCHANGED <<feed, pc, p, page, flight, run>> /\ world' = world
    BY <1>6 DEF vars
  <2>2. PageInv'
    BY <2>1 DEF IInv, PageInv, feed
  <2>3. world' \in World /\ world.txs <= world'.txs
    BY <1>2, <2>1
  <2> QED BY <2>1, <2>2, <2>3, IdleKeeps DEF IInv
<1> QED
  BY <1>1, <1>3, <1>4, <1>5, <1>6 DEF Next

\* Every reachable state satisfies the invariant.
THEOREM FeedInvariant == Spec => []IInv
<1>1. Init => IInv
  BY InitInv
<1>2. IInv /\ [Next]_vars => IInv'
  BY NextInv
<1> QED BY <1>1, <1>2, PTL DEF Spec

\* Whatever the node does, and however the poller's steps lie between its
\* changes, the feed names every height once and in order.
THEOREM HeightsTheorem == Spec => []HeightsAccounted
<1>1. ASSUME IInv PROVE HeightsAccounted
  <2> DEFINE b == Of({"watching", "block"})
  <2>1. /\ \A i \in 1..(Len(b) - 1) : b[i + 1].what[1] = b[i].what[2] + 1
        /\ pc # "block" => (b # <<>> => b[Len(b)].what[2] = p.lastHeight)
    BY <1>1 DEF IInv, HeightsInv
  <2> HIDE DEF b
  <2>2. /\ \A i \in 1..(Len(b) - 1) : b[i + 1].what[1] = b[i].what[2] + 1
        /\ pc # "block" /\ b # <<>> => b[Len(b)].what[2] = p.lastHeight
    BY <2>1
  <2> QED BY <2>2 DEF HeightsAccounted, b
<1> QED BY <1>1, FeedInvariant, PTL

\* What the feed said last of the node, the peers and the indexer is what the
\* poller found last, it says nothing twice in a row, and no transaction of
\* the wallet twice.
THEOREM TruthTheorem == Spec => []FeedTellsTruth
<1>1. ASSUME IInv PROVE FeedTellsTruth
  <2>1. NodeInv /\ TorInv /\ IndexerInv /\ WalletInv
    BY <1>1 DEF IInv
  <2>2. pc = "info" => (LastOf("node", Down) <=> p.failed)
    BY <2>1 DEF NodeInv
  <2>3. LastOf("tor", TRUE) <=> p.clearnet = TRUE
    BY <2>1 DEF TorInv
  <2>4. LastOf("indexer", Down) <=> p.indexer = Down
    BY <2>1 DEF IndexerInv
  <2>5. \A kind \in {"node", "tor", "indexer"} : Differ(Of({kind}))
    BY <2>1 DEF NodeInv, TorInv, IndexerInv
  <2>6. LET s == Of({"wallet"}) IN \A i, j \in 1..Len(s) : s[i].what = s[j].what => i = j
    BY <2>1 DEF WalletInv
  <2> QED BY <2>2, <2>3, <2>4, <2>5, <2>6 DEF FeedTellsTruth, Differ
<1> QED BY <1>1, FeedInvariant, PTL

\* However its fetches overlap, are lost and come back out of order, a page
\* shows events in order and none twice, and one that never was more than an
\* answer behind has missed none.
THEOREM PageTheorem == Spec => []PageMissesNothing
<1>1. ASSUME IInv PROVE PageMissesNothing
  <2>1. PageInv
    BY <1>1 DEF IInv
  <2>2. \A i \in 1..(Len(page.shown) - 1) : page.shown[i] < page.shown[i + 1]
    BY <2>1 DEF PageInv, Ordered
  <2>3. page.run = run /\ ~page.lagged => page.shown = [i \in 1..(page.last) |-> i]
    BY <2>1 DEF PageInv, Complete
  <2> QED BY <2>2, <2>3 DEF PageMissesNothing
<1> QED BY <1>1, FeedInvariant, PTL
=============================================================================
