--------------------------- MODULE DashboardFeed ----------------------------
(***************************************************************************)
(* The live feed of monetary_ui.py.  A poller thread asks the node, the    *)
(* store, the wallet, the indexer and the list of peers in turn and adds   *)
(* events to a bounded Feed.  A page fetches what is newer than the last   *)
(* event it has shown; its fetches are not ordered and may overlap.  The   *)
(* server may be restarted under an open page.                             *)
(*                                                                         *)
(* One action of the poller is one *_event method: between two of them the *)
(* world changes, and the threads that answer pages read the feed.         *)
(***************************************************************************)
EXTENDS Integers, FiniteSets, Sequences, SequencesExt, Lists

CONSTANTS
  FeedMax,      \* FEED_MAX: events held
  Limit,        \* events in an answer: 200
  Detail,       \* blocks told one by one, less one: 8
  Delta,        \* MEMPOOL_REPORT_DELTA
  Recent,       \* wallet transactions asked for: 20
  SeenMax,      \* SEEN_WALLET_MAX
  BeatEvery,    \* HEARTBEAT_EVERY
  Fetches,      \* fetches of a page that may overlap
  None, Up, Down,
  Changing,     \* the parts of the world that change
  MaxTicks, MaxChanges, MaxTip, MaxTxs \* bounds of the model

ASSUME SizeAssumption  == FeedMax \in Nat \ {0} /\ Limit \in 1 .. FeedMax
ASSUME PollAssumption  == Detail \in Nat /\ Delta \in Nat \ {0} /\ BeatEvery \in Nat \ {0}
ASSUME SeenAssumption  == Recent \in Nat /\ SeenMax \in Nat \ {0} /\ Recent <= SeenMax
ASSUME PageAssumption  == Fetches \in Nat
ASSUME ValueAssumption == /\ {None, Up, Down} \cap (Int \cup BOOLEAN) = {}
                          /\ None # Up /\ None # Down /\ Up # Down
ASSUME ChangingAssumption ==
  Changing \subseteq {"up", "clearnet", "wallet", "tip", "mempool", "store", "txs", "indexer"}
ASSUME BoundAssumption == /\ MaxTicks \in Nat /\ MaxChanges \in Nat
                          /\ MaxTip \in Nat /\ MaxTxs \in Nat

VARIABLES
  world,        \* what the poller looks at
  events, next, \* Feed: the ids of _events, and _next
  pc, p,        \* the poller: where it is, and its fields
  page, flight, \* the page: what it has shown, and its fetches
  said,         \* every event of this run of the server, by id
  run, ticks, changes

feed == <<events, next, said>>
vars == <<world, feed, pc, p, page, flight, run, ticks, changes>>

-----------------------------------------------------------------------------
(* Feed *)

(* The last n elements of a sequence, or all. *)
Newest(s, n) == SubSeq(s, IF Len(s) > n THEN Len(s) - n + 1 ELSE 1, Len(s))

(* Feed.add, of one event after another: the deque drops its oldest. *)
Say(evs) ==
  /\ said' = said \o evs
  /\ next' = next + Len(evs)
  /\ events' = Newest(events \o [i \in 1 .. Len(evs) |-> next + i - 1], FeedMax)

(* Feed.since: of what is newer, the newest. *)
Since(after) == Newest(Only(events, {i \in DOMAIN events : events[i] > after}), Limit)

Event(kind, what) == << [kind |-> kind, what |-> what] >>
Silent == << >>

-----------------------------------------------------------------------------
(* Poller *)

NewPoller ==
  [lastHeight |-> None, cursor |-> 0, target |-> 0, lastMempool |-> None,
   lastStore |-> None, seenWallet |-> {}, seenOrder |-> <<>>, warnedNoWallet |-> FALSE,
   warnedDown |-> FALSE, indexer |-> None, lastIndexer |-> None, beats |-> 0,
   torWarned |-> FALSE, clearnet |-> None, failed |-> FALSE]

NewPage == [run |-> run, last |-> 0, shown |-> <<>>, lagged |-> FALSE]

Init ==
  /\ world = [up |-> TRUE, tip |-> 1, mempool |-> 0, store |-> 1, wallet |-> TRUE, txs |-> 0,
              indexer |-> 1, clearnet |-> FALSE]
  /\ events = <<>> /\ next = 1 /\ said = <<>>
  /\ pc = "info" /\ p = NewPoller
  /\ run = 1 /\ ticks = 0 /\ changes = 0
  /\ page = NewPage /\ flight = <<>>

(* A step of the poller: it says evs, has fields q, and goes on at l. *)
Step(evs, q, l) ==
  /\ Say(evs) /\ p' = q /\ pc' = l
  /\ UNCHANGED <<world, page, flight, run, changes>>

(* tick fails at its first call: run says once that the node is down.        *)
Unreachable ==
  /\ pc = "info" /\ ticks < MaxTicks /\ ~world.up
  /\ ticks' = ticks + 1
  /\ Step(IF p.warnedDown THEN Silent ELSE Event("node", Down),
          [p EXCEPT !.warnedDown = TRUE, !.failed = TRUE], "info")

(* tick, up to the blocks: what is too far behind is named in one event. *)
Info ==
  /\ pc = "info" /\ ticks < MaxTicks /\ world.up
  /\ ticks' = ticks + 1
  /\ LET h == world.tip
         first == IF p.lastHeight + 1 > h - Detail THEN p.lastHeight + 1 ELSE h - Detail
     IN  \/ /\ p.lastHeight = None
            /\ Step(Event("watching", <<h, h>>), [p EXCEPT !.lastHeight = h], "mempool")
         \/ /\ p.lastHeight # None /\ h > p.lastHeight
            /\ Step(IF first > p.lastHeight + 1
                      THEN Event("block", <<p.lastHeight + 1, first - 1>>) ELSE Silent,
                    [p EXCEPT !.cursor = first, !.target = h], "block")
         \/ /\ p.lastHeight # None /\ h <= p.lastHeight
            /\ Step(Silent, p, "mempool")

(* The loop over the blocks goes on, or has ended and sets last_height. *)
AfterBlockForgets(q) ==
  IF q.cursor < q.target THEN [q EXCEPT !.cursor = @ + 1]
  ELSE [q EXCEPT !.cursor = 0, !.target = 0]

AfterBlock(q) ==
  IF q.cursor < q.target THEN [q EXCEPT !.cursor = @ + 1]
  ELSE [q EXCEPT !.cursor = 0, !.target = 0, !.lastHeight = q.target]

(* block_event: with figures or without, an event. *)
BlockEvent ==
  /\ pc = "block"
  /\ Step(Event("block", <<p.cursor, p.cursor>>), AfterBlock(p),
          IF p.cursor < p.target THEN "block" ELSE "mempool")
  /\ UNCHANGED ticks

Away(a, b) == IF a > b THEN a - b ELSE b - a

MempoolEvent ==
  /\ pc = "mempool"
  /\ \/ /\ ~world.up
        /\ Step(Silent, p, "store")
     \/ /\ world.up
        /\ IF p.lastMempool # None /\ Away(world.mempool, p.lastMempool) < Delta
           THEN Step(Silent, p, "store")
           ELSE Step(IF p.lastMempool = None THEN Silent ELSE Event("mempool", world.mempool),
                     [p EXCEPT !.lastMempool = world.mempool], "store")
  /\ UNCHANGED ticks

(* store_event: read_state gives nothing if state.json is missing. *)
StoreEvent ==
  /\ pc = "store"
  /\ IF world.store = None \/ (p.lastStore # None /\ world.store <= p.lastStore)
     THEN Step(Silent, p, "wallet")
     ELSE Step(IF p.lastStore = None THEN Silent ELSE Event("store", world.store),
               [p EXCEPT !.lastStore = world.store], "wallet")
  /\ UNCHANGED ticks

(* The set and the deque of seen transactions after one more; the deque      *)
(* drops its oldest by itself.                                               *)
Seen(q, key) ==
  [q EXCEPT !.seenWallet = (IF Len(q.seenOrder) = SeenMax THEN @ \ {Head(q.seenOrder)} ELSE @)
                             \cup {key},
            !.seenOrder = Newest(Append(@, key), SeenMax)]

(* The loop over what is new. *)
AllSeen(q, keys) ==
  LET seen[n \in 0 .. Len(keys)] == IF n = 0 THEN q ELSE Seen(seen[n - 1], keys[n])
  IN  seen[Len(keys)]

(* listtransactions: the transactions are numbered as they came. *)
Listed == Newest([i \in 1 .. world.txs |-> i], Recent)

(* wallet_event: the list is in order, so what the loop itself makes the     *)
(* memory drop does not come later in it, and what is new is known before.   *)
WalletEvent ==
  /\ pc = "wallet"
  /\ \/ /\ ~world.up
        /\ Step(Silent, p, "indexer")
     \/ /\ world.up /\ ~world.wallet
        /\ Step(IF p.warnedNoWallet THEN Silent ELSE Event("wallet", None),
                [p EXCEPT !.warnedNoWallet = TRUE], "indexer")
     \/ /\ world.up /\ world.wallet
        /\ LET fresh == Only(Listed, {i \in DOMAIN Listed : Listed[i] \notin p.seenWallet})
           IN  Step([i \in 1 .. Len(fresh) |-> [kind |-> "wallet", what |-> fresh[i]]],
                    AllSeen(p, fresh), "indexer")
  /\ UNCHANGED ticks

(* indexer_event, if the last probe was long enough ago. *)
IndexerEvent ==
  /\ pc = "indexer"
  /\ \/ Step(Silent, p, "tor")
     \/ LET h == world.indexer
            wasDown == p.indexer # None /\ p.indexer = Down
            ev == IF h # Down
                  THEN IF wasDown THEN Event("indexer", Up)
                       ELSE IF p.lastIndexer = None \/ h # p.lastIndexer
                            THEN Event("indexer", h) ELSE Silent
                  ELSE IF wasDown THEN Silent ELSE Event("indexer", Down)
        IN  Step(ev, [p EXCEPT !.indexer = h, !.lastIndexer = IF h = Down THEN @ ELSE h], "tor")
  /\ UNCHANGED ticks

(* tor_state and tor_warned after a look at the peers. *)
AfterPeersWarned(q, clear) == [q EXCEPT !.clearnet = clear, !.torWarned = @ \/ clear]
AfterPeers(q, clear) == [q EXCEPT !.clearnet = clear, !.torWarned = clear]

TorEvent ==
  /\ pc = "tor"
  /\ \/ /\ ~world.up
        /\ Step(Silent, p, "beat")
     \/ /\ world.up
        /\ Step(IF world.clearnet = p.torWarned THEN Silent ELSE Event("tor", world.clearnet),
                AfterPeers(p, world.clearnet), "beat")
  /\ UNCHANGED ticks

(* heartbeat, and the end of a tick without an exception in run. *)
Heartbeat ==
  /\ pc = "beat"
  /\ LET due == p.beats + 1 = BeatEvery
         tick == IF due THEN Event("tick", p.clearnet) ELSE Silent
         back == IF p.warnedDown THEN Event("node", Up) ELSE Silent
     IN  Step(tick \o back,
              [p EXCEPT !.beats = IF due THEN 0 ELSE @ + 1,
                        !.warnedDown = FALSE, !.failed = FALSE], "info")
  /\ UNCHANGED ticks

Poll == \/ Unreachable \/ Info \/ BlockEvent \/ MempoolEvent \/ StoreEvent
        \/ WalletEvent \/ IndexerEvent \/ TorEvent \/ Heartbeat

-----------------------------------------------------------------------------
(* The page, and the threads that answer it. *)

Idle == UNCHANGED <<world, feed, pc, p, run, ticks>>

Fetch ==
  /\ Len(flight) < Fetches
  /\ flight' = Append(flight, [since |-> page.last, ids |-> None])
  /\ Idle /\ UNCHANGED <<page, changes>>

(* do_GET of /events.json.  A page lags when an answer leaves something out. *)
Answer ==
  /\ \E i \in DOMAIN flight :
       /\ flight[i].ids = None
       /\ flight' = [flight EXCEPT ![i].ids = Since(flight[i].since)]
       /\ page' = [page EXCEPT !.lagged = @ \/ next - 1 - flight[i].since > Limit]
  /\ Idle /\ UNCHANGED changes

ShownAll(pg, id) == [pg EXCEPT !.last = id, !.shown = Append(@, id)]
ShownNext(pg, id) == IF id = pg.last + 1 THEN ShownAll(pg, id) ELSE pg

(* What the page adds of an answer: ids above the last shown, one by one. *)
Shown(pg, id) == IF id > pg.last THEN [pg EXCEPT !.last = id, !.shown = Append(@, id)] ELSE pg

AllShown(pg, ids) ==
  LET shown[n \in 0 .. Len(ids)] == IF n = 0 THEN pg ELSE Shown(shown[n - 1], ids[n])
  IN  shown[Len(ids)]

(* poll: an answer comes, not necessarily that of the first fetch. *)
Deliver ==
  /\ \E i \in DOMAIN flight :
       /\ flight[i].ids # None
       /\ page' = AllShown(page, flight[i].ids)
       /\ flight' = RemoveAt(flight, i)
  /\ Idle /\ UNCHANGED changes

-----------------------------------------------------------------------------
(* The world changes. *)

Change == changes < MaxChanges /\ changes' = changes + 1

(* What each part of the world may become. *)
Becomes ==
  [up |-> BOOLEAN, clearnet |-> BOOLEAN, wallet |-> BOOLEAN, tip |-> 1 .. MaxTip,
   mempool |-> 0 .. Delta, store |-> {None, 1, 2}, txs |-> world.txs .. MaxTxs,
   indexer |-> {Down, 1, 2}]

WorldChanges ==
  /\ Change
  /\ \E part \in Changing : \E v \in Becomes[part] \ {world[part]} :
       world' = [world EXCEPT ![part] = v]
  /\ UNCHANGED <<feed, pc, p, page, flight, run, ticks>>

(* A fetch fails on its way there or back. *)
Lose ==
  /\ Change
  /\ \E i \in DOMAIN flight : flight' = RemoveAt(flight, i)
  /\ Idle /\ UNCHANGED page

Reload ==
  /\ Change
  /\ page' = NewPage /\ flight' = <<>>
  /\ Idle

(* The process ends and is started again: a new Feed and a new Poller. *)
Restart ==
  /\ Change
  /\ run' = run + 1
  /\ events' = <<>> /\ next' = 1 /\ said' = <<>> /\ pc' = "info" /\ p' = NewPoller
  /\ flight' = Only(flight, {i \in DOMAIN flight : flight[i].ids # None})
  /\ UNCHANGED <<world, page, ticks>>

Next == Poll \/ Fetch \/ Answer \/ Deliver \/ WorldChanges \/ Lose \/ Reload \/ Restart

Spec == Init /\ [][Next]_vars

(* The page polls by a timer, and what is asked is answered if it is not lost. *)
FairSpec == Spec /\ WF_vars(Fetch) /\ WF_vars(Answer) /\ WF_vars(Deliver)
-----------------------------------------------------------------------------
Of(kinds) == Only(said, {i \in DOMAIN said : said[i].kind \in kinds})

(* With fetches that overlap and are answered out of order, a page shows     *)
(* events in order and none twice; and a page of this run of the server      *)
(* that never was more than an answer behind has missed none.                *)
PageMissesNothing ==
  /\ \A i \in 1 .. Len(page.shown) - 1 : page.shown[i] < page.shown[i + 1]
  /\ page.run = run /\ ~page.lagged => page.shown = [i \in 1 .. page.last |-> i]

(* Over outages, jumps and reorganisations, the feed names every height from *)
(* the first it watched to the last it knows once, by itself or in a range,  *)
(* in ascending order.                                                       *)
HeightsAccounted ==
  LET b == Of({"watching", "block"})
  IN  /\ \A i \in 1 .. Len(b) - 1 : b[i + 1].what[1] = b[i].what[2] + 1
      /\ pc # "block" /\ b # <<>> => b[Len(b)].what[2] = p.lastHeight

LastOf(kind, what) == LET s == Of({kind}) IN s # <<>> /\ s[Len(s)].what = what

(* What the feed said last about the node, the peers and the indexer is what *)
(* the poller last found, and nothing is said twice in a row.                *)
FeedTellsTruth ==
  /\ pc = "info" => (LastOf("node", Down) <=> p.failed)
  /\ LastOf("tor", TRUE) <=> p.clearnet = TRUE
  /\ LastOf("indexer", Down) <=> p.indexer = Down
  /\ \A kind \in {"node", "tor", "indexer"} :
       LET s == Of({kind}) IN \A i \in 1 .. Len(s) - 1 : s[i].what # s[i + 1].what
  /\ LET s == Of({"wallet"}) IN \A i, j \in 1 .. Len(s) : s[i].what = s[j].what => i = j

(* A page shows, in the end, every event or a later one.                     *)
PageCatchesUp ==
  \A n \in 1 .. 2 :
    (page.run = run /\ next > n) ~> (page.last >= n \/ page.run # run)
=============================================================================
