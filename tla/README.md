# A verification of the monetary node tools

TLA+ models of the programs under `src/tools/`, the TLC runs that check them on small instances, and TLAPS
proofs about the daemon, the header checks, the block download, the store, its index, the dashboard's feed and two
pure decisions. A reader needs the repository beside this directory: every definition that models code names the
lines it models in `PROJECT.json`, under `map`.

Check a model: `tlc -workers 2 -config StoreReaders_store.cfg StoreReaders`. Check the proofs:
`tlapm MonetaryDaemonProofs.tla`, and the same for the other modules whose names end in `Proofs` and for
`DataLemmas`. `StoreProofs` and `DashboardFeedProofs` take about five minutes each, the others less.

## 1. The system

A *monetary node* sits beside a Bitcoin node (Knots, Core) that validates everything. It takes blocks from
that node, removes what carries data rather than money (inscription envelopes, oversized `OP_RETURN`, stamp
multisig, oversized input scripts), and keeps the rest in a store from which each block still verifies
against its own header.

```
              blk*.dat                        RPC
 Bitcoin node ────────► mindex ─► index ─┐     │
      │                                  ▼     ▼
      │                        monetary_store  monetary_daemon ── state.json
      │                                  └──┬──┘
      ▼                                     ▼
 monetary_ui, chain_check            the store: mblk*.dat ◄──── monetary_ibd (client)
 inscription_scan, utxo_scan,            │   │   │   │                ▲
 chainstate_filter, carrier_policy       ▼   ▼   ▼   ▼                │
                    monetary_commit, wallet_check,       monetary_ibd (server)
                    spend_check, commit_scan             of another node
```

### Inventory

| Component | State | Operations | What is hard | What makes it correct |
|---|---|---|---|---|
| **Daemon** `monetary_daemon.py` | store files, `state.json`, `self.state` in memory, position in the catch-up loop | start checks, `--adopt`, catch up to `depth` below the tip, fetch, strip, append with fsync, save the position, retry after any I/O error | the node reorganises between any two calls; a crash between append and save; an append that fails half way; retries | the store is one linked chain, buried and on the node's chain; C and `state.json` describe it; no block is skipped or stored twice; it refuses and stops when, and only when, it should |
| **Header checks** `monetary_ibd.py` `HeaderChain`, `check_pow`, `bits_to_target`, `target_to_bits`, `next_target` | tip, height, time of the window's first header, last time and bits | accept or refuse one header | compact floating-point targets, boundaries of windows, an anchor in mid-window | what is accepted is linked, has work and obeys the difficulty rule; the network's own chain is never refused |
| **IBD server and client** `monetary_ibd.py` | the server's index of its file; the client's socket, counters and file | index, listen, answer `info` and `get`; connect, ask, verify, write, give up | an index that is older than the file; a killed client whose partial file is served in turn; a single-threaded server with a dead client | a synced store is proven and complete; honest stores are never refused; every sync ends |
| **Store writer** `monetary_store.py` | `mblk*.dat` | classify and strip a block, write records into files of bounded size, verify a store | runs that are killed or repeated over other ranges into one directory; damage on disk | everything kept verifies from disk alone; nothing that is money is lost; damage is noticed |
| **Block index** `monetary_store.py` `build_index`, `height_map`; `mindex.py` | a cache file: files with sizes, and records | load, reuse, scan, checkpoint, save; follow the chain | the node writes while files are read; kills between checkpoints; forks | records point at what they name; a finished index is complete; the right branch is followed |
| **Commitment** `monetary_commit.py` | none; C is derived | chain the digests of a store's records | damage at any place of any file | there is a C exactly for the stores that can be read through |
| **Wallet check** `wallet_check.py` | watched outpoints, balances | decode addresses, scan a store | modified and stripped transactions; texts that are nearly addresses | the difference to the true balance is what was stripped; one script for an address, one address for a script |
| **Spend check** `spend_check.py` | dropped outputs by outpoint | scan a store, verify signatures of the spends | create, drop and spend in one block; the cases of a curve; signatures that pass over keys | every spend of a dropped output is found, and called valid exactly when it is |
| **Commit-output scan** `commit_scan.py` | a window of recent outputs | scan a store | the window's edges | an input is resolved exactly if its output is in the window |
| **Dashboard** `monetary_ui.py` | `Feed` (a bounded list of events), `Poller` (last height, seen wallet transactions, warned flags), one HTTP thread per request | poll the node and the logs, push events, answer readers | two threads, a bounded feed, slow readers, reorganisations, restarts | every height is told once; the feed's last word is what was last found; a page misses nothing while it keeps up |
| **Tie-break patch** `core-spam-tiebreak.patch` | a score and a time of arrival per block, in memory | score a block that arrives, compare two by work, score and arrival, start again | blocks before their parents, clocks that go back, restarts; a comparator that must be an order | more work always wins; who is late never does |
| **Carrier policy** `carrier_policy.py` | none | CompactSize, pushes, envelopes of a registered carrier, decide | encodings at their width limits, several ways to push the same bytes | only the canonical envelope is kept over the limit |
| **Chainstate filter, UTXO scan** `chainstate_filter.py`, `utxo_scan.py` | counters, two files, a histogram of heights | read a snapshot, split it | two encodings of integers; six of scripts; edges of bands | every coin is found, and in one file and one band |
| **Witness split** `witness_split.py` | two files | split blocks, put them together again | offsets | the parts make the block |
| **Inscription scan, strip measurement** `inscription_scan.py`, `spam_strip.py` | a CSV file, totals, the pauses of a call | measure a range, resume it | kills that leave half a line, throttling, interruptions | a resumed run counts what one run would |
| **Chain check** `chain_check.py` | none | compare a table of hashes with a node | – | – |
| **Prototypes, scripts, documents** | – | – | – | – |

How they interact: the index, the store and `state.json` are files that one program leaves for another and
that outlive both; the daemon asks the node over RPC, one call at a time; clients and servers of the IBD
exchange one request and one answer over a socket. Nothing locks anything. That is where most of the hazards
in `PROJECT.json` come from.

## 2. The models

| Module | Models | Extends, uses |
|---|---|---|
| `CommittedLog` | what the daemon promises of its store (abstract) | |
| `MonetaryDaemon` | `monetary_daemon.py` with the node and the disk | `INSTANCE CommittedLog` |
| `MonetaryDaemonProofs` | theorems about it | `MonetaryDaemon`, TLAPS |
| `CompactTarget` | the arithmetic of targets | |
| `HeaderChain` | the header checks, against a network that follows the consensus rule | `CompactTarget` |
| `HeaderChainProofs` | theorems about them and about the compact form of targets | `HeaderChain`, `DataLemmas` |
| `MonetaryIBD` | servers and clients on several nodes | |
| `MonetaryIBDProofs` | theorems about them | `MonetaryIBD`, TLAPS |
| `MonetaryStore` | the store writer, its disk and its verification | `Lists` |
| `StoreReaders` | the commitment and the three tools that scan a store | `MonetaryStore` |
| `StoreProofs` | theorems about the store, its verification, the commitment and the three readers | `StoreReaders`, `DataLemmas` |
| `BlockIndex` | the two indexers, their cache and the chain through an index | `Lists` |
| `BlockIndexProofs` | theorems about the cache, a finished index and the chain through it | `BlockIndex`, `DataLemmas` |
| `Lists` | the loop that keeps some members of a list | |
| `DataLemmas` | what such loops make of lists; induction, recursion, division, numbering (proved) | `Lists`, TLAPS |
| `ScanResume` | the two tools that measure a range into a CSV file, with kills and resumption | |
| `DashboardFeed` | the dashboard's poller, its feed, the answers and a page | `Lists` |
| `DashboardFeedProofs` | theorems about what the feed says and a page shows | `DashboardFeed`, `DataLemmas` |
| `Envelopes` | four walks of a script for data that is never executed | |
| `CarrierPolicy` | which `OP_RETURN` outputs are retained | |
| `Snapshot` | two readers of a UTXO snapshot, the split and the bands of age | |
| `WitnessSplit` | `split_block` and `recombine` | |
| `Signatures` | the curve, ECDSA, the signature hash, bare multisig | |
| `Addresses` | `address_to_script` | |
| `TieBreak` | the tie-break patch in as much of Bitcoin Core as it needs | |
| `Decisions` | enumerates inputs for those two, and says what is decided of them | `INSTANCE` of both |
| `DecisionProofs` | theorems about what is retained, for every script, and about the tips, for every race | `Decisions`, `DataLemmas` |
| `Algorithms` | enumerates inputs for the other five modules without state, and `CompactTarget` | `Decisions`, `INSTANCE` of each |

A module is instantiated by its `.cfg` files, `<Module>_<question>.cfg`. A definition whose comment begins
with "Faulty:" is a plausible error in the definition that follows it; nothing uses it. Substituted for that
definition, it breaks the property it is listed with under `mutants`, which shows that the property says
something about the code.

### MonetaryDaemon

Three parties share the state. The *node* is a chain of blocks `(id, prev, height)` that one step extends or
reorganises (`Reorganise(k)`: k blocks off, k+1 on). The *disk* is `store`, the fragments written to
`mblk*.dat` in order – whole records or torn ones – and `stateFile`. The *process* is `pc` (the call it makes
next), `mem` (`self.state`) and the loop variables of `catch_up`. One action is what happens between two
calls to the outside: `BlockCount`, `BlockHash`, `RawBlock` (with the check of the parent), `AppendRecord`
(with its fsync and the move of `self.state`), `SaveState`. Between any two of them the node may reorganise,
the call may fail (`IOFails`, back to the poll loop), the append may fail part way (`AppendFails`), or the
process may be killed (`Kill`, `KillInAppend`).

`store_tail` is modelled by what it computes from torn records, not as "the last record": it walks each file
by the lengths in the headers, counts what has 74 bytes and a magic, and may take a hash from two records
that ran together (`TailHash`). Hashes keep the byte order they are written in, because the code compares
them as strings.

### HeaderChain and CompactTarget

The network is built from genesis by the consensus rule (`RuleBits`, written from the headers and not from a
client's variables), with all sequences of short and long delays. The client then starts at `Anchor` and
is offered the network's next header or one of somebody else's: linked or not, with work or not, with the
network's bits, with those that its own variables would make it expect, with harder or easier ones, with a
negative mantissa. Targets are in base 4 with three digits of mantissa and a window has two blocks: small
enough to enumerate, with all the cases of the code (sizes below and above the mantissa, the sign bit, both
clamps, the easiest target).

### MonetaryIBD

A record is its place in the chain and whether it passes the checks; a node's store is a sequence of them.
The server's index is taken when it starts, and afterwards `Read` reads what *now* stands at an indexed
place. A client's steps are the messages it sends and receives; it may time out whenever it waits, be killed
with a piece of a record at the end of its file, or vanish without closing its socket (`Lost`), which
occupies the single-threaded server. A node that has synced can serve, so what is checked holds over two hops.

### MonetaryStore and StoreReaders

An output is a coin, told by its transaction and its number; a transaction is the coins it spends, the kinds of
its outputs (money or spam), and the carrier it has besides (an envelope in its witness, an oversized input
script). The chain is any sequence of blocks of such transactions. `StripBlock` makes the store's record: what is kept whole, what is
rebuilt without its dropped outputs or its witness, what only leaves a txid, and the filter entries of
dropped outputs. A txid is what it is a hash of (`Legacy`), so a body that is not the transaction's has
another; a digest is what it is a digest of. The merkle root is the tree of ids; equal trees are equal roots. `Start`, `WriteBlock`, `Finish` and
`Kill` are the write loop of `main`, over any range, into the same directory again and again; `Damage` changes
a record on disk. `VerifyStore` is a fold over what the files then contain, and each reader a loop over their
records, written as a recursive function with what the reader keeps from one record to the next; `Commitment` says
whether the tool raised and what it chained.

### BlockIndex

The node stores a tree of blocks in any order into files that it allocates ahead of their contents and
cuts when they are full. An indexer (either program) takes all sizes, then reads file after file while the
node goes on; `mindex` saves the cache at checkpoints, both at the end; `Kill` leaves the cache as it is.
`Heights` is `height_map` over the records in memory, up to the height `End`; at a fork it compares how far the first
children go on, up to `DepthLimit` (200 in the code).

### ScanResume

The CSV file is modelled as the text it is: a line is a sequence of numbers, a number a sequence of digits,
because a killed run leaves any prefix of what it had buffered and the next one writes on from there: a height
can run together with half of another. Both tools are in the module, told apart by `tool`: `spam_strip` reads
files and derives its mismatches from the last height and the count of matches, `inscription_scan` calls a node
that throttles it (`Throttled`, with its budget of pauses, and `ThrottledTooLong` when that is used up) or fails
(`Retried`). `ThrottledTooLong`, `GivenUp`, `Interrupt` and `Kill` are the ways in which a run stops early.

### DashboardFeed

One action of the poller is one of its `*_event` methods; between two of them the world may change: the node goes
away, the tip jumps or falls back, the wallet is unloaded, transactions come, peers appear on clearnet. `Say` is
`Feed.add`, with its bounded deque, and `Since` the answer to a page. The page starts fetches that overlap, are
answered in any order or lost; it is reloaded, or the server is restarted under it, which starts ids again at 1.

### The algorithms

`Algorithms` takes one input per behaviour, out of sets chosen so that every case of the code is met, and its
invariants say of each what the module's properties say:

- *Envelopes.* A script is a sequence of opcodes, told apart as far as the four walks tell them apart, with a
  last push that may be cut. The reference is Script's stack of branches.
- *CarrierPolicy.* A payload is what `match` looks at, a script its pushes with their forms and lengths.
- *Snapshot.* A file is a sequence of bytes, written as Bitcoin Core writes it (external, and so marked). What is said
  of the split and the bands is said of what was read from it, against what was written.
- *WitnessSplit.* A block is a sequence of bytes, with fields of fixed width as one element.
- *Signatures.* The curve of the code over a field of 43 elements and a group of 31, with every point and every
  pair (r, s); an ECDSA signature is told by the scalars, a transaction by what the signature hash covers.
- *Addresses.* Bech32 with the whole checksum of the code, in 30 bits; Base58Check in small bases.
- *TieBreak.* Two branches of two blocks leave a common one. `Receive` is `ReceivedBlockTransactions` with the
  descendants that waited, `Activate` takes the best candidate, `Restart` forgets what is in memory only. `Run` is the
  node after each of a list of events, arrivals and restarts.

## 3. What the runs check

| Run | Bounds | Result |
|---|---|---|
| `daemon_safety` | depth 2, 8 blocks, reorganisations of up to 3, 2 faulty appends | holds: `TypeOK`, `StoreOnChain`, `NoFalseAlarm`, `StoreLinked`, `CommitmentDescribesStore`, `StateFileBehindStore`, `NoBlockSkipped` |
| `daemon_live` | depth 1, 6 blocks, reorganisations of up to 2 | holds: `BuriedIsStored`, `DeepReorgStops`, and the refinement `ImplementsLog` |
| `headers_aligned` | window 2, anchor at a boundary, heights to 7 | holds: `DifficultyRuleEnforced`, `AcceptsTheNetwork` |
| `ibd_sync` | 3 nodes, 4 records, batches of 2, 3 syncs, 1 fault | holds: `StoreProven`, `OkIsComplete`, `HonestNotRejected`, `EverySyncEnds` |
| `store_readers` | 3 transactions with up to 3 outputs, files of 3, 5 events | holds: `VerifiesFromDisk`, `NothingLost`, `DamageNoticed`, `SuccessIsComplete`, `CommitIffVerified`, `GapIsWhatWasStripped`, `DroppedSpendsFound`, `WindowIsExact` |
| `index_build` | 4 blocks and genesis, files of 2, 3 runs, depths to 2, heights to 3 | holds: `CacheTruthful`, `FullFilesComplete`, `ShortForksResolved` |
| `scan_resume` | 3 blocks, flush after 2 rows, 4 runs, 2 kills | holds: `ResumeIsExact`, `RunEnds` |
| `feed_poller` | 4 polls, 3 changes, feed of 3, 2 seen transactions | holds: `HeightsAccounted`, `FeedTellsTruth` |
| `feed_page` | 2 overlapping fetches, feed of 3, answers of 2, 2 changes | holds: `PageMissesNothing`, `PageCatchesUp` |
| `algorithms` | see below; 214,000 inputs | holds: `EnvelopesAreDead`, `EnvelopesAreCanonical`, `SnapshotIsExact`, `BlocksRoundTrip`, `SignaturesAreExact`, `EncodingsAreExact`, `TipsAreStable` |
| `daemon_resume` | depth 1, 5 blocks | **violated**: `RefusesOnlyDisagreement` |
| `store_renumbered` | 2 transactions | **violated**: `SpendsAreMarked` |

Why the bounds are enough to be interesting:

- *Daemon.* Eight blocks and reorganisations of three at depth two reach both a reorganisation the depth
  covers and one it does not, before, between and after the daemon's calls. Files of two records make it roll
  over, and two faulty appends let a torn record be followed by a retry that is torn again. Theorems (section 5)
  lift the safety properties to all bounds.
- *Headers.* Seven heights are three windows of two blocks: an aligned client sees two boundaries with a
  complete window behind it. The delays make a retarget hit both clamps, and the genesis target lets
  one of them reach the easiest target. Theorems lift both properties to all bounds.
- *IBD.* Three nodes and three syncs allow a sync from a store that was itself synced, and one into a store
  that is being served. Three records wanted of four, in batches of two, end in a partial batch at the limit.
  Theorems lift the three safety properties to all bounds.
- *Store.* Three transactions are a coinbase, one that creates and one that spends, in one block or in two. Five
  events are, for instance, a run with a block, a kill, and a second run, or a finished run and its damage.
  Theorems lift all properties to all bounds.
- *Index.* Four blocks in files of two make a first file that is full, a last one that grows under the scan,
  and trees with a stale branch at any height. With depths counted to two and heights followed to three, branches
  reach the limit and the end of the walk. Theorems lift the three properties to all bounds.
- *Scan.* Three blocks with a flush after two leave rows in the buffer at the end and in the middle; four runs
  with two kills allow a cut line, a row that runs on from it, and a second cut.
- *Feed.* A feed of three and answers of two let a page be behind by one answer and by more; four polls allow
  an outage, the return from it and a reorganisation meanwhile; a memory of two transactions evicts.
- *Algorithms.* All scripts of six opcodes that nest, and all of four opcodes; the lengths at each limit of a
  push; the edges of every band; every point and signature on the small curve; every target; every order in
  which four blocks arrive, with pauses within the window and beyond it and a restart.

### Fairness

- *Daemon* (`FairSpec`): strong fairness of each call of the loop. `run` retries for ever, so a call that
  is possible again and again succeeds in the end. Weak fairness would not do, since a failing call disables
  the next. Nothing is assumed of the node, of restarts or of `--adopt`.
- *IBD* (`FairSpec`): weak fairness of a client's receiving or failing. The client's socket has a timeout
  of 30 seconds, so what it waits for comes or is given up. Nothing is assumed of servers.
- *Scan* (`FairSpec`): weak fairness of the run's own steps. Every call has a timeout and every pause an end;
  nothing is assumed of the node, which may throttle or fail for as long as the tool asks. That it ends rests on
  `rpc` giving up, which the module's text denies (section 4).
- *Page* (`FairSpec`): weak fairness of fetching, answering and delivering. The page fetches by a timer, the server
  has a thread per request. Losses are bounded by the model's changes; nothing is assumed of the poller.
- The other modules state safety only. Their programs end by themselves (a run of the writer or of an
  indexer), which is why those runs do not look for deadlocks.

## 4. Where code and documents disagree

Three statements of the repository that the code does not keep are listed as findings in `PROJECT.json`, which quotes
each. The first two are shown by a run that violates the statement, the third by a property that holds and is
incompatible with it.

1. *The daemon refuses every restart* (`daemon_resume`). The hash in `state.json` is in display order, the
   tail's in the order of the record (`monetary_daemon.py:230`).
2. *Outputs behind a dropped one change their number* (`store_renumbered`, `wallet_check.py:265`). A wallet
   does not see them spent, and `spend_check` and `commit_scan` look under the wrong outpoint. This is not among the
   limits the tool lists.
3. *The inscription scan does give up under throttling* (`inscription_scan.py:90`). Its text says that it "waits out HTTP
   403 throttling indefinitely rather than dying" (lines 11-13); `rpc` raises when the pauses of one call would exceed
   3600 seconds, as its own text says (62-64), and the run ends, for `--resume` to go on. `RunEnds` in `scan_resume` says
   so of every run: a node that throttles for ever ends it (`ThrottledTooLong`). The tool the text describes, in which
   the count of pauses never ends the call (`WaitsIndefinitely`, the property's mutant), violates `RunEnds`.

Seen while modelling, in the models as the code has it, and kept out of the properties that hold by an
explicit condition:

- *The daemon appends behind torn bytes*: an append that fails part way is retried like an unreachable node
  (`monetary_daemon.py:327`), without a look at the store. `StateFileBehindStore` and `CommitmentDescribesStore`
  are of stores whose appends went as written.
- *An adopted store always reports a deep reorganisation* (`monetary_daemon.py:496`), for the same byte order as
  above. `NoFalseAlarm` is of a daemon's own store.
- *The first retarget after a mid-window anchor is checked against the wrong time* (`monetary_ibd.py:211`), so a
  header of the network is refused; the code that skips that check is never reached. `AcceptsTheNetwork` is checked
  from an aligned anchor. `bits_to_target` raises for a negative mantissa, outside the `try` of `accept_record`.
- *A block written into preallocated space is not indexed* (`monetary_store.py:269`) until the file grows by a
  chunk. `FullFilesComplete` is of all files but the one the node was writing.
- *A page that was behind by more than 200 events skips the older part* (`monetary_ui.py:185`), although the feed
  holds 400: `since` returns the newest ones. `PageMissesNothing` is of a page that kept up. After a restart of the
  server, ids start at 1 and an open page shows nothing until they pass the last it has seen. The first poll
  announces wallet transactions that are long known.
- *`Policy(entries=[])` is not the old ruleset "exactly"* (`carrier_policy.py:45`): it measures the payload, the
  stripper the script with its opcodes, so it keeps a little more. `DropsNoMore` is what holds.
- *A straggler can take the place of a settled tip* (`core-spam-tiebreak.patch:162`, against the comment on its lines
  127-128): one that arrives before its parent is scored in time, competes when the parent comes, and wins with the
  lower score. `TipsAreStable` is of parents first. As `SpamScore` returns 0 for every block, the option changes no
  tip, which the run shows too.
- *The walks of a script differ*: the store takes branches opened by `OP_NOTIF` for envelopes, two of the others do
  not; none treats `OP_ELSE` or a push of negative zero as Script does; `spam_strip.iter_script` does not look whether a
  length field is there, so that a script cut in it raises an error nobody catches. `EnvelopesAreDead` says what they
  agree on. `chainstate_filter` does not take a multisig whose keys are pushed by `OP_PUSHDATA` for one, the store does.
- *Readers differ in what they skip*: `wallet_check.py:356` passes over stripped transactions with their filter entries;
  the readers of a store do not compare digests; `rebuild_without` keeps the oversized input script that makes a
  transaction modified. `spends_without_entry` (`spend_check.py:409`) is reported and never counted.
- *`address_to_script` is more generous than BIP 173*: versions above 16, programs of any length from version 1,
  Base58 payloads of any length; an address without data is an `IndexError`. `EncodingsAreExact` is of addresses
  as the standards make them, their misspellings, and the digits that follow.

## 5. What is proved

`MonetaryDaemonProofs`, for every depth, start height, file size and bound:

| Theorem | States |
|---|---|
| `TypeCorrect` | `Spec => []TypeOK` |
| `Invariance` | `Spec => []IInv` |
| `ShallowReorgsAreInvisible` | `Spec => []StoreOnChain` |
| `NoFalseAlarms` | `Spec => []NoFalseAlarm` |
| `StoreIsOneChain` | `Spec => []StoreLinked` |
| `CommitmentIsOfStore` | `Spec => []CommitmentDescribesStore` |
| `StateFileNeverAhead` | `Spec => []StateFileBehindStore` |
| `EveryHeightIsStored` | `Spec => []NoBlockSkipped` |
| `Refinement` | `Spec => ImplementsLog`, if `MaxAppendFaults = 0` |

*Assumptions*: those named in `MonetaryDaemon` – the start height is at least 1, the bounds are naturals,
files hold at least one record, and `NoState` is no state. `Refinement` also assumes that no append goes wrong
in part: a torn record is in the store and not in the log, so the abstract log would have to guess.

*The argument.* None of the properties is inductive. That the store stays on the chain when the node
reorganises needs every stored block to be `Depth` deep. That a new record is `Depth` deep needs the block in hand
to have been that deep when it was asked for, and to be on the chain still unless there was a deep
reorganisation: a reorganisation of up to `Depth` blocks cannot reach it, because the tip never comes down
(`LoopInv`). That the new record continues the store needs memory to describe its end (`MemoryInv`), which
after a restart needs `state.json` to describe a prefix and the start checks to have compared the counts
(`StateFileBehindStore`, `PositionInv`). An adopted store is kept apart by the byte order of its hash, which no parent is
equal to, so nothing is ever appended to it (`AdoptedInv`). `IInv` is the conjunction; there is a
lemma for each action, `IInvStep` puts them together, and each theorem takes its conjunct.

The refinement maps the log to the store's blocks, the published commitment to that of `state.json` (empty without
one), and ownership to not being adopted. `AppendRecord` is `Extend`, `SaveState` is `Publish`, `Adopt` is
`Disown`, and every other action stutters.

`MonetaryIBDProofs`, for any set of nodes and sources, any damaged places, lengths, batch and limit:

| Theorem | States |
|---|---|
| `Inductive` | `Spec => []IInv` |
| `StoresAreProven` | `Spec => []StoreProven` |
| `HonestStoresAreServed` | `Spec => []HonestNotRejected` |
| `SyncsAreComplete` | `Spec => []OkIsComplete` |

*Assumptions*: those named in `MonetaryIBD` – sources are nodes, the markers for "no peer", "lost" and "reset" are none
of what they mark, a batch holds at least one record, the bounds are naturals.

*The argument.* A store is proven because the file never gets ahead of what its client has verified, and
what it has verified is the chain from the anchor up (`RecordsInv`); when a sync is cut off, a piece of one record at
most is behind that. A record is refused only for a damaged store: a source's records are in order, sound or not
(`SourceInv`); a server that was not seen with a hole, nor written anew while it served, still has what its
index says (`ServerInv`); so its client, whose position is what it has accepted, is sent just the next records
(`ClientInv`, `LoopInv`). A synced store satisfies what `ServerInv` asks of a source, which carries the
argument over any number of hops. Completeness is a second induction on top of that (`FetchInv`): what was set out for is what the
index held, and an answer is as long as asked.

`DecisionProofs`, for any script, and for two branches of any length with any events, scores, window and late score:

| Theorem | States |
|---|---|
| `OnlyCanonicalEnvelopes` | an entry of the registry retains only those scripts that `encode_op_return` makes of the one envelope of 1 to 16 inputs and outputs |
| `EnvelopesTheorem` | `EnvelopesAreCanonical` of any output |
| `ComparatorIsStrictWeakOrder` | what `std::set` requires of the comparator and the patch's comment claims, with the option and without |
| `LateIsWorse` | a block of no more work that arrives after the window is worse than the incumbent |
| `RunInv` | every node of a race satisfies `NodeInv` |
| `TipsTheorem` | `TipsAreStable` of any race |
| `DecisionsTheorem` | `Deciding => [](EnvelopesAreCanonical /\ TipsAreStable)`: both, of the inputs that `Output` and `Race` take |

*Assumptions*: those named in `Decisions` – `None` is no number and no block, the window is a natural, the late score at
least 1. `TipsTheorem` is of events that name blocks of the two branches, with scores up to the late one; `RaceIs` and
`OutputIs` show that the inputs of the run are such.

*The argument.* The script: a total of sizes is `TotalIs` and grows with each of them (`TotalGrows`), so a payload is never
longer than its script, and what the stripper keeps a policy without entries keeps; a count has one encoding
(`CountsAreCanonical`), so an envelope has one length, and a push longer than 255 bytes one minimal form. The race:
`NodeInv` says that each chain of candidates is whole back to the fork, that candidates of one height have different
sequences, and that the tip is a candidate none is better than. The comparator then orders the candidates, so there is
one best (`BestIsTip`). When a block arrives, those it links come after all that were candidates (`Linked`), and the best is
the old tip or the highest of the new ones (`BestAfter`); after a restart the active chain has the lowest sequence. If
parents come first, an index is `Rooted`, so a block links nothing but itself (`NothingWaits`); a tip of as much work that
takes the place of another is thus that block, scored against the very tip it replaces (`TipChanges`), and it cannot have
been late, as then its score would not be lower. With every score 0, what is not scored 0 was late, behind a candidate of its
height (`ZeroInv`); there are two branches, so the score says what the sequence says, and the node with the option and
the node without are the same after every event (`RunsAgree`).

`HeaderChainProofs`, for every base, interval, timespan, anchor, set of delays and of other targets:

| Theorem | States |
|---|---|
| `CompactFormIsExact` | `CompactIsExact(target)` of every target: its compact form is not negative, loses less than its last digit and is the form of what it decodes to |
| `ChainInv` | `Spec => []IInv` |
| `DifficultyTheorem` | `Spec => []DifficultyRuleEnforced` |
| `NetworkIsAccepted` | `Spec => []AcceptsTheNetwork`, if the anchor is at a boundary or the check is off |

*Assumptions*: those named in `CompactTarget` and `HeaderChain` – the base is even (the top digit's top bit is the
sign), the timespan is at least 4, the network's first target is at least 1. That of `NetworkIsAccepted` is needed: from an anchor in
mid-window the code refuses a header of the network (section 4). A retarget that rounds down to zero is no
counterexample: nothing meets a zero target, so the network does not mine such a header (`Mine`).

*The argument.* The compact form: a target's `Size` is the one number of digits that fits (`SizeExists`, from powers that
grow), its leading three digits are below the base cubed (`Leading`), and moving them off the sign bit drops one digit
exactly when the top bit is set. The invariant: the network's headers are numbered, linked and obey the rule
(`NetworkInv`); what was accepted is linked, with proof of work (`LinkedInv`); and the client's fields are those of the last header
and of the window's first (`ClientInv`, with `WindowStart`). Of the latter follows that the header at a boundary is compared
with what the rule makes of the same two headers (`WindowIs`): the client's window is complete exactly when it has
counted from a boundary or over a whole interval. For `AcceptsTheNetwork`, a chain that so far is the
network's own gives the client the network's window.

`BlockIndexProofs`, for any number of blocks, any capacity, chunk and distance of checkpoints:

| Theorem | States |
|---|---|
| `IndexInv` | `Spec => []IInv` |
| `CacheTheorem` | `Spec => []CacheTruthful` |
| `FullFilesTheorem` | `Spec => []FullFilesComplete` |
| `ForksTheorem` | `Spec => []ShortForksResolved` |

*Assumptions*: those named in `BlockIndex`, among them that a full file does not end where a chunk does
(`FileCap % Chunk # 0`). The code tells a full file from a growing one by its size alone, and the node cuts a full file to what it holds.
If that were a multiple of the chunk, the file would keep its size while blocks are still written into it, and the cache
would take it for unchanged.

*The argument.* The node's files are all full but the last (`FilesInv`), so the files an indexer found when it started
are the node's still, but the last (`CurrentInv`). What a file held before it grew it holds at the same places
afterwards (`Grown`), so records stay true. What a cache reuses is a file of the same size; a size that is no
multiple of the chunk is that of a full file, of which the cached records were complete (`CacheInv`), and one that
is may belong to a file with more blocks by now – which is why `FullFilesComplete` excludes the last. The records of files whose
size differs are dropped before they are read again, which `Only` and its lemmas follow through the lists.

The chain: in an index without false records the `Children` of a block are the blocks on it, each once (`ChildrenAre`). A
depth is 0 exactly of a block nothing is built on (`DepthIs`), whatever the limit, as long as it is at least 1; where
stale branches are of one block, at most one of the children at a fork goes on (`OnlyOneGoesOn`), so the deepest is that one
(`DeepestIs`). By induction over the heights (`ChainInv`), `Heights` is on the chain that goes on and stops where it does.

`StoreProofs`, for any chain of any length, any transactions, any ranges, number of runs and kills, any damage and
any file size:

| Theorem | States |
|---|---|
| `StoreInv` | `Spec => []IInv` |
| `SufficiencyTheorem` | `Spec => []VerifiesFromDisk` |
| `DamageTheorem` | `Spec => []DamageNoticed` |
| `SuccessTheorem` | `Spec => []SuccessIsComplete` |
| `CommitmentTheorem` | `Spec => []CommitIffVerified` |
| `CompletenessTheorem` | `Spec => []NothingLost` |
| `LedgerTheorem` | `Spec => []LedgerInv` |
| `DroppedSpendsTheorem` | `Spec => []DroppedSpendsFound` |
| `WindowTheorem` | `Spec => []WindowIsExact` |
| `WalletTheorem` | `Spec => []GapIsWhatWasStripped` |

*Assumptions*: those named in `MonetaryStore` and `StoreReaders`, all of them on the types of constants.

*The argument.* Whatever lies in the directory was once written for a block of the chain, and has been damaged or
not (`FilesInv`): that survives every step, because a chain only grows and ids are never given twice (`Sound`). A run
that is under way has its blocks so far, in order, in the files up to the open one, each file beginning where the
one before ends (`UnderWay`, `Holds`); what lies behind is of an earlier run. So much is enough for `DamageNoticed` and
`CommitIffVerified`, which are about any state of the disk, and, if nothing is bad, for `SuccessIsComplete`: the run's
records come first in the directory. `VerifiesFromDisk` and `NothingLost` need what `StripBlock` computes:
that the record of a block is readable – its transactions have the ids of the block's, so that the tree of ids is the
header's – and that an output of the block is in the record, with the number it has in the block, either among
the outputs that were kept or as a filter entry. The filter entries are a fold over the transactions
(`FlattenSeq`), the dropped outputs are `Only` of a transaction's; the lemmas say of each where its members come from and in which order.

The three readers go through a store once and keep what they may need later, so each is right only because of the order of the
chain: ids rise along it and a transaction spends what exists, of transactions before it (`LedgerInv`, inductive over `MineAny`).
A store that verifies and is the blocks of one range holds their records in that order (`ReadiedIs`), and ids tell transactions
apart (`IdsTell`). Of each loop a lemma states what it has computed after so many blocks, and is proved by induction over
them: `DroppedLoop` (an entry is recorded no later than the block that spends it is looked up), `CommitsLoop` (the outputs
remembered are those of the last `Window` blocks, `RecentIs`), `WalletLoop` (the balance is what the blocks so far created
less what they spent, `BalanceGrows`). Where an output behind a dropped one has moved, the last two do not hold, which is the finding
of section 4; `NothingMoved` (`UnmovedIs`) is that no output has.

`DashboardFeedProofs`, for any sizes of the feed, of an answer and of the poller's memory, any number of polls, of
overlapping fetches, of changes and of restarts:

| Theorem | States |
|---|---|
| `FeedInvariant` | `Spec => []IInv` |
| `HeightsTheorem` | `Spec => []HeightsAccounted` |
| `TruthTheorem` | `Spec => []FeedTellsTruth` |
| `PageTheorem` | `Spec => []PageMissesNothing` |

*Assumptions*: those named in `DashboardFeed`. An answer is not larger than the feed (200 of 400); the memory of
transactions is not smaller than the list that is asked for (2000 and 20), without which a transaction would be
announced again with every poll; `None`, `Up` and `Down` are different and neither numbers nor truth values; and only the named parts of the
world change. That transactions are listed in the order they came, and none is ever withdrawn, is what the model says
of the wallet.

*The argument.* For each kind of event the poller has a field that says what it told last, and the two agree between any
two steps (`HeightsInv`, `NodeInv`, `TorInv`, `IndexerInv`); in the middle of the loop over blocks the heights told end
just below the cursor. What a step says of one kind leaves the list of every other as it was (`QuietIs`), so each step
is looked at for the kinds it can say. For the wallet, the deque and the set hold the same transactions, in order, and all
of the last `SeenMax` that were ever in a list (`Memory`); a list reaches back at most `Recent <= SeenMax`, so what was
forgotten is not in it any more (`WalletInv`). The feed holds the newest events, numbered without gaps (`FeedInv`), so an
answer that does not leave anything out goes on right behind where it was asked; the page has advanced by whole answers of
that kind, and its fetches were asked at or before what it shows (`OnTime`). An old page of a server that was started
anew is no page of the present run, of which only the order is claimed (`Ordered`).

*Loops.* What a loop computes is proved where it is written as a recursive function: `Power` in
`CompactTarget`, `Only` in `Lists`, `Depth` and `Heights` in `BlockIndex`, the readers of `StoreReaders`, `Total` in `CarrierPolicy`,
`Run` in `TieBreak`, `AllSeen` and `AllShown` in `DashboardFeed`, and `FlattenSeq` of the community modules. The library's induction
theorems take an operator as parameter, which the provers cannot instantiate; `DataLemmas` does induction over a
set of numbers instead (`SetInduction`, `NatRecursion`), and proves of each loop what it makes of any list. The proofs about the store do not
open `MerkleRoot`, since equal ids have equal trees, nor `Written`, so they hold whatever
decides when a file is full.

*Left to TLC*: liveness under fairness (`BuriedIsStored`, `DeepReorgStops`, `EverySyncEnds`, `RunEnds`,
`PageCatchesUp`) and anything about `ENABLED`; `ResumeIsExact`, whose text runs together digit by digit;
and the properties of the run `algorithms` that compare a decoder, a walk or an arithmetic with another over every input
(`EnvelopesAreDead`, `SnapshotIsExact`, `BlocksRoundTrip`, `SignaturesAreExact`, `EncodingsAreExact` but for the compact form
of targets): they are inductions over the input data. No module here uses `RECURSIVE`.

## 6. What is left out

- *Bytes.* Serialisation, varints and offsets are modelled by what they determine (which record, which hash,
  whether a check passes). Malformed bytes in a record are one verdict, "damaged", or a cut.
- *Power failures.* A crash ends a process. The order in which a disk makes renames and data durable is not
  modelled; `monetary_daemon.py` does not fsync its directory, `save_index_cache` not even its file.
- *Cryptography.* Hashes are injective. The curve is that of the code over a small field; a signature's DER encoding
  (`parse_der`) is not modelled.
- *Statistics, wording, arguments.* Counters that are only printed and the parsing of command lines; the bytes that
  `spam_strip.strip_block` adds up, and what `inscription_scan` says of an inscription's type.
- *The dashboard's cards.* HTML, `tor_card`, the page's cap of 250 rows; `quips.py`, which is not in the repository.
- *Copies.* `witness_split` reads blocks through a copy of an older `build_index`; the copy is not modelled.
- *`--resume-from` and `--expect`* of `monetary_commit`, and the Electrum client of `wallet_check`.
- *Two of a kind.* Two daemons on one store, or two indexers on one cache, would share temporary files; no
  document says that this is supported.
- `chain_check`, the prototypes and the scripts, for the reasons under `components`.

## 7. What could be added

1. `--resume-from` of the commitment against a commitment of the whole, over a store that grows between the two.
2. The Electrum client of `wallet_check`: answers out of order, subscriptions between requests, timeouts.
3. A node that writes two block files at a time, which `BlockIndex` leaves out.
4. The cycle of a whole node: one daemon's store indexed, committed to, served and synced while it grows. Its
   parts are modelled, and the store is their only interface.
