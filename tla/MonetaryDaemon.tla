--------------------------- MODULE MonetaryDaemon ---------------------------
(***************************************************************************)
(* The daemon of tools/monetary_daemon.py: it follows a Bitcoin node,      *)
(* strips each block once it is Depth confirmations deep, appends the      *)
(* record to the store, extends the commitment C, and saves its position   *)
(* in state.json.                                                          *)
(*                                                                         *)
(* Three parties share the state: the node (whose active chain grows and   *)
(* is reorganised), the disk (the store's files and state.json, which      *)
(* survive a crash) and the process (which does not).  The process is a    *)
(* sequence of calls, each of which can fail: pc names the next one.       *)
(***************************************************************************)
EXTENDS Integers, Sequences, FiniteSets

CONSTANTS
  StartHeight,     \* --start-height: height of the store's first record
  Depth,           \* --depth: confirmations before a block is stripped
  FileSize,        \* --file-size, counted in records and fragments
  NoState,         \* what load_state returns when there is no state.json
  MaxBlocks,       \* bound: blocks the node ever produces
  MaxReorg,        \* bound: blocks one reorganisation can disconnect
  MaxAppendFaults  \* bound: appends that fail or are cut short by a crash

ASSUME StartAssumption == StartHeight \in Nat \ {0}
ASSUME DepthAssumption == Depth \in Nat
ASSUME BoundsAssumption ==
  /\ FileSize \in Nat \ {0}
  /\ MaxBlocks \in Nat
  /\ MaxReorg \in Nat
  /\ MaxAppendFaults \in Nat

VARIABLES
  \* the node
  chain,        \* its active chain: chain[h] is the block at height h
  minted,       \* blocks produced so far, on any branch
  deepest,      \* auxiliary: the most blocks one reorganisation disconnected
  \* the disk
  store,        \* the mblk*.dat files, as the fragments written, in order
  stateFile,    \* state.json, or NoState
  \* the process
  pc,           \* the call it makes next, or "down"
  exit,         \* why it last went down
  mem,          \* self.state
  h, target,    \* the loop of catch_up
  got,          \* the block being processed
  \* auxiliary
  appendFaults, \* appends that did not go as written
  adopted       \* --adopt has been used

nodeVars == <<chain, minted, deepest>>
diskVars == <<store, stateFile>>
loopVars == <<h, target, got>>
procVars == <<pc, exit, mem, loopVars>>
auxVars  == <<appendFaults, adopted>>
vars == <<nodeVars, diskVars, procVars, auxVars>>

-----------------------------------------------------------------------------
(* Data.                                                                   *)

\* A block is what the daemon looks at: its identity (what its hash
\* determines), the identity of its parent, and its height.  Identity 0 is
\* the genesis block.
Block == [id : 0..MaxBlocks, prev : 0..MaxBlocks, height : 0..MaxBlocks]
NoBlock == [id |-> 0, prev |-> 0, height |-> 0]

\* A 32-byte hash in hex, with the order its bytes are written in: the
\* order of the record ("internal"), the reversed order of the RPC
\* ("display"), or bytes of two records run together ("mixed").
Hash == [block : Block, order : {"none", "internal", "display", "mixed"}]
NoHash == [block |-> NoBlock, order |-> "none"]
Display(b) == [block |-> b, order |-> "display"]
Internal(b) == [block |-> b, order |-> "internal"]

\* self.state and state.json.  A height of None is 0 (and its hash NoHash).
\* The commitment chains over every record in turn, so it stands for the
\* sequence of blocks it was computed over; its zero value is <<>>.
State == [height : Nat, hash : Hash, records : Nat, commitment : Seq(Block)]
FreshState == [height |-> 0, hash |-> NoHash, records |-> 0, commitment |-> <<>>]

ASSUME NoStateAssumption == NoState \notin State

\* What one append leaves in a file: a whole record, or its first bytes:
\* fewer than the 4 of the magic ("stub"), fewer than the 74 that store_tail
\* reads ("short"), or more ("long").
TornKind == {"stub", "short", "long"}
Fragment == [kind : TornKind \cup {"whole"}, block : Block, file : Nat]

Up == pc # "down"

-----------------------------------------------------------------------------
(* The store as the code reads it.                                         *)

\* _open_target: the last file while it is below file_size, else a new one.
OpenTarget ==
  IF store = <<>> THEN 0
  ELSE LET last == store[Len(store)].file
           size == Cardinality({i \in DOMAIN store : store[i].file = last})
       IN IF size < FileSize THEN last ELSE last + 1

\* store_tail walks each file from its start, jumping by the length in each
\* header; what stands behind a torn record is off that walk.
OnWalk(i) ==
  \A j \in 1..(i-1) : store[j].file = store[i].file => store[j].kind = "whole"

FollowedInFile(i) ==
  /\ i + 1 \in DOMAIN store
  /\ store[i+1].file = store[i].file

\* A fragment counts as a record when 74 bytes can be read where it starts
\* and the first 4 are the magic; a later append can supply missing bytes.
Counted(i) ==
  /\ OnWalk(i)
  /\ \/ store[i].kind \in {"whole", "long"}
     \/ store[i].kind = "short" /\ FollowedInFile(i)

CountedSet == {i \in DOMAIN store : Counted(i)}
TailCount == Cardinality(CountedSet)

\* last_hash is the hash bytes at offset 42 of the last record counted.
TailHash ==
  IF CountedSet = {} THEN NoHash
  ELSE LET last == CHOOSE i \in CountedSet : \A j \in CountedSet : j <= i
       IN IF store[last].kind = "short"
          THEN [block |-> store[last].block, order |-> "mixed"]
          ELSE Internal(store[last].block)

-----------------------------------------------------------------------------
Init ==
  /\ chain = <<>>
  /\ minted = 0
  /\ deepest = 0
  /\ store = <<>>
  /\ stateFile = NoState
  /\ pc = "down"
  /\ exit = "none"
  /\ mem = FreshState
  /\ h = 0
  /\ target = 0
  /\ got = NoBlock
  /\ appendFaults = 0
  /\ adopted = FALSE

-----------------------------------------------------------------------------
(* The node (external): it validates; the daemon only asks it questions.   *)

\* The node disconnects k blocks and connects k + 1 new ones; with k = 0 it
\* just finds the next block.  It shows its chain only before and after.
Reorganise(k) ==
  LET fork == Len(chain) - k
      NewId(i) == minted + i - fork
  IN /\ k <= Len(chain)
     /\ minted + k + 1 <= MaxBlocks
     /\ chain' = [i \in 1..(Len(chain) + 1) |->
                    IF i <= fork THEN chain[i]
                    ELSE [id |-> NewId(i),
                          prev |-> IF i = 1 THEN 0
                                   ELSE IF i = fork + 1 THEN chain[fork].id
                                   ELSE NewId(i - 1),
                          height |-> i]]
     /\ minted' = minted + k + 1
     /\ deepest' = IF k > deepest THEN k ELSE deepest
     /\ UNCHANGED <<diskVars, procVars, auxVars>>

-----------------------------------------------------------------------------
(* The process.  Its loop variables are reset where the code drops them.   *)

\* An exception, a signal or a crash: the memory of the process is gone.
GoDown(why) ==
  /\ pc' = "down"
  /\ exit' = why
  /\ mem' = FreshState
  /\ h' = 0 /\ target' = 0 /\ got' = NoBlock

\* catch_up is left, by its return or by an IOError: run sleeps, then calls
\* it again.
BackToPoll ==
  /\ pc' = "poll"
  /\ h' = 0 /\ target' = 0 /\ got' = NoBlock

\* Daemon.__init__: refuse to run when state.json and the store disagree on
\* the number of records or on the last hash.
Refuses ==
  IF stateFile = NoState THEN TailCount # 0
  ELSE \/ TailCount # stateFile.records
       \/ /\ TailHash # NoHash
          /\ stateFile.hash # NoHash
          /\ TailHash # stateFile.hash

\* Faulty: the state file is used without asking whether there is one.
InitialStateUnchecked == stateFile

InitialState == IF stateFile = NoState THEN FreshState ELSE stateFile

Start ==
  /\ pc = "down"
  /\ IF Refuses
     THEN GoDown("refused")
     ELSE /\ pc' = "poll"
          /\ exit' = "none"
          /\ mem' = InitialState
          /\ UNCHANGED loopVars
  /\ UNCHANGED <<nodeVars, diskVars, auxVars>>

\* --adopt: write a state.json for whatever store_tail finds.
Adopt ==
  /\ pc = "down"
  /\ TailCount # 0
  /\ stateFile' = [height |-> StartHeight + TailCount - 1, hash |-> TailHash,
                   records |-> TailCount, commitment |-> <<>>]
  /\ adopted' = TRUE
  /\ exit' = "none"
  /\ UNCHANGED <<nodeVars, store, pc, mem, loopVars, appendFaults>>

\* catch_up: ask for the tip; the blocks buried Depth deep are to be done.
NextHeight == IF mem.hash = NoHash THEN StartHeight ELSE mem.height + 1

\* Faulty: the newest block is taken too.
BuriedAtTip == Len(chain)

Buried == Len(chain) - Depth

\* Faulty: off by one, a block exactly Depth deep is not taken.
BlockCountLate ==
  /\ pc = "poll"
  /\ NextHeight < Buried
  /\ h' = NextHeight
  /\ target' = Buried
  /\ pc' = "hash"
  /\ UNCHANGED <<nodeVars, diskVars, auxVars, exit, mem, got>>

BlockCount ==
  /\ pc = "poll"
  /\ NextHeight <= Buried
  /\ h' = NextHeight
  /\ target' = Buried
  /\ pc' = "hash"
  /\ UNCHANGED <<nodeVars, diskVars, auxVars, exit, mem, got>>

\* catch_up: ask for the hash of the block that is now at height h.
BlockHash ==
  /\ pc = "hash"
  /\ h <= Len(chain)
  /\ got' = chain[h]
  /\ pc' = "block"
  /\ UNCHANGED <<nodeVars, diskVars, auxVars, exit, mem, h, target>>

\* Faulty: the parent of a block is not looked at.
ExtendsAnything(b) == TRUE

\* process: fetch that block (the node keeps blocks it has disconnected);
\* give up if it does not extend the last one stored.
Extends(b) ==
  \/ mem.hash = NoHash
  \/ mem.hash.order = "display" /\ mem.hash.block.id = b.prev

\* Faulty: state.json is saved before the record is appended.
RawBlockSavesState ==
  /\ pc = "block"
  /\ IF Extends(got)
     THEN /\ pc' = "append"
          /\ stateFile' = [height |-> h, hash |-> Display(got),
                           records |-> mem.records + 1,
                           commitment |-> Append(mem.commitment, got)]
          /\ UNCHANGED <<exit, mem, loopVars>>
     ELSE GoDown("reorg") /\ UNCHANGED stateFile
  /\ UNCHANGED <<nodeVars, store, auxVars>>

RawBlock ==
  /\ pc = "block"
  /\ IF Extends(got)
     THEN pc' = "append" /\ UNCHANGED <<exit, mem, loopVars>>
     ELSE GoDown("reorg")
  /\ UNCHANGED <<nodeVars, diskVars, auxVars>>

\* Faulty: the hash is kept in the byte order of the record.
AdvanceInternal(s, b) ==
  [height |-> h, hash |-> Internal(b), records |-> s.records + 1,
   commitment |-> Append(s.commitment, b)]

\* Faulty: the commitment is not extended.
AdvanceKeepsC(s, b) ==
  [height |-> h, hash |-> Display(b), records |-> s.records + 1,
   commitment |-> s.commitment]

\* process: append the record, fsync it, and move self.state on.
Advance(s, b) ==
  [height |-> h, hash |-> Display(b), records |-> s.records + 1,
   commitment |-> Append(s.commitment, b)]

Written(kind) ==
  Append(store, [kind |-> kind, block |-> got, file |-> OpenTarget])

AppendRecord ==
  /\ pc = "append"
  /\ store' = Written("whole")
  /\ mem' = Advance(mem, got)
  /\ pc' = "save"
  /\ UNCHANGED <<nodeVars, stateFile, auxVars, exit, loopVars>>

\* save_state: a temporary file, fsync, os.replace.  The loop goes on.
SaveState ==
  /\ pc = "save"
  /\ stateFile' = mem
  /\ IF h < target
     THEN pc' = "hash" /\ h' = h + 1 /\ got' = NoBlock /\ UNCHANGED target
     ELSE BackToPoll
  /\ UNCHANGED <<nodeVars, store, auxVars, exit, mem>>

\* Faulty: self.state is moved on before the append that fails.
IOFailsAfterAdvance ==
  /\ pc \in {"hash", "block", "append", "save"}
  /\ BackToPoll
  /\ mem' = IF pc = "append" THEN Advance(mem, got) ELSE mem
  /\ UNCHANGED <<nodeVars, diskVars, auxVars, exit>>

\* The next call raises an IOError and has changed nothing: the node is not
\* reached, answers with an error or with another block; the record's file
\* cannot be written; the new state.json does not replace the old one.
IOFails ==
  /\ pc \in {"hash", "block", "append", "save"}
  /\ BackToPoll
  /\ UNCHANGED <<nodeVars, diskVars, auxVars, exit, mem>>

\* write raises with the record partly in the file (disk full), or fsync
\* raises with all of it there: an IOError like any other to run.
AppendFails(kind) ==
  /\ pc = "append"
  /\ appendFaults < MaxAppendFaults
  /\ store' = Written(kind)
  /\ appendFaults' = appendFaults + 1
  /\ BackToPoll
  /\ UNCHANGED <<nodeVars, stateFile, adopted, exit, mem>>

\* Ctrl-C, --once, an exception that is not an IOError, a crash.
Kill ==
  /\ Up
  /\ GoDown("killed")
  /\ UNCHANGED <<nodeVars, diskVars, auxVars>>

\* The same with the record partly written.
KillInAppend(kind) ==
  /\ pc = "append"
  /\ appendFaults < MaxAppendFaults
  /\ store' = Written(kind)
  /\ appendFaults' = appendFaults + 1
  /\ GoDown("killed")
  /\ UNCHANGED <<nodeVars, stateFile, adopted>>

-----------------------------------------------------------------------------
Next ==
  \/ \E k \in 0..MaxReorg : Reorganise(k)
  \/ Start
  \/ Adopt
  \/ BlockCount
  \/ BlockHash
  \/ RawBlock
  \/ AppendRecord
  \/ SaveState
  \/ IOFails
  \/ \E kind \in TornKind \cup {"whole"} : AppendFails(kind)
  \/ Kill
  \/ \E kind \in TornKind : KillInAppend(kind)

Spec == Init /\ [][Next]_vars

\* A call that run keeps retrying succeeds in the end.  Nothing is assumed
\* of the node's chain, of restarts or of --adopt.
Fairness ==
  /\ SF_vars(BlockCount)
  /\ SF_vars(BlockHash)
  /\ SF_vars(RawBlock)
  /\ SF_vars(AppendRecord)
  /\ SF_vars(SaveState)

FairSpec == Spec /\ Fairness

-----------------------------------------------------------------------------
(* Properties.                                                             *)

TypeOK ==
  /\ minted \in 0..MaxBlocks
  /\ chain \in Seq(Block) /\ Len(chain) <= minted
  /\ deepest \in Nat
  /\ store \in Seq(Fragment)
  /\ stateFile \in State \cup {NoState}
  /\ pc \in {"down", "poll", "hash", "block", "append", "save"}
  /\ exit \in {"none", "refused", "reorg", "killed"}
  /\ mem \in State
  /\ h \in Nat /\ target \in Nat
  /\ pc \in {"hash", "block", "append", "save"} => h \in 1..target
  /\ got \in Block
  /\ appendFaults \in Nat
  /\ adopted \in BOOLEAN

Stored == [i \in DOMAIN store |-> store[i].block]

\* "A reorg shallower than the depth never touches the store": as long as no
\* reorganisation disconnected more than Depth blocks, everything in the
\* store (failed appends included) is on the node's chain, Depth deep.
StoreOnChain ==
  deepest <= Depth =>
    \A i \in DOMAIN store :
      /\ store[i].block.height <= Len(chain) - Depth
      /\ chain[store[i].block.height] = store[i].block

\* The daemon stops for a reorganisation only if there was one deeper than
\* Depth (a store that was adopted aside).
NoFalseAlarm ==
  exit = "reorg" /\ ~adopted => deepest > Depth

\* The records of the store are one chain of blocks from StartHeight up,
\* whatever reorganisations, restarts and failing calls came between.
StoreLinked ==
  appendFaults = 0 =>
    \A i \in DOMAIN store :
      /\ store[i].kind = "whole"
      /\ store[i].block.height = StartHeight + i - 1
      /\ i > 1 => store[i].block.prev = store[i-1].block.id

\* The C of a running daemon is the C that monetary_commit.py computes from
\* the records on disk, and its position is the end of the store.
CommitmentDescribesStore ==
  Up /\ appendFaults = 0 /\ ~adopted =>
    /\ mem.commitment = Stored
    /\ mem.records = Len(store)
    /\ store # <<>> => mem.hash = Display(store[Len(store)].block)

\* state.json is never ahead of the store: it describes a prefix of it, in
\* every field, at every instant a crash can come.
StateFileBehindStore ==
  appendFaults = 0 /\ ~adopted /\ stateFile # NoState =>
    LET n == stateFile.records
    IN /\ n \in DOMAIN store
       /\ stateFile.height = StartHeight + n - 1
       /\ stateFile.hash = Display(store[n].block)
       /\ stateFile.commitment = SubSeq(Stored, 1, n)

\* Appends that fail, are cut short or are retried lose no block: every
\* height a running daemon has behind it has a whole record in the store.
NoBlockSkipped ==
  Up /\ ~adopted /\ mem.hash # NoHash =>
    \A n \in StartHeight..mem.height :
      \E i \in DOMAIN store :
        store[i].kind = "whole" /\ store[i].block.height = n

(* The inductive invariant behind them.                                    *)

\* The node's chain is one: heights are positions, parents are neighbours.
ChainLinked ==
  \A i \in DOMAIN chain :
    /\ chain[i].height = i
    /\ i > 1 => chain[i].prev = chain[i-1].id

\* The block in hand is the one that comes next, and it was on the chain,
\* Depth deep, when it was asked for.
LoopInv ==
  /\ pc \in {"hash", "block", "append", "save"} => target <= Buried
  /\ pc \in {"hash", "block", "append"} => h = NextHeight
  /\ pc \in {"block", "append", "save"} =>
       got.height = h /\ (deepest <= Depth => chain[h] = got)
  /\ pc = "append" => Extends(got)
  /\ pc = "save" => mem.hash = Display(got) /\ mem.height = h

\* A position, in memory or in state.json, is that of a block in the store,
\* and every height up to it has a whole record.
Position(s) ==
  s.hash # NoHash =>
    /\ s.hash.order = "display"
    /\ s.hash.block.height = s.height
    /\ s.height >= StartHeight
    /\ \E i \in DOMAIN store : store[i].block = s.hash.block
    /\ \A n \in StartHeight..s.height :
         \E i \in DOMAIN store :
           store[i].kind = "whole" /\ store[i].block.height = n

PositionInv ==
  ~adopted =>
    /\ Position(mem)
    /\ stateFile # NoState => stateFile.hash # NoHash /\ Position(stateFile)

\* Once a store has been adopted, the hash in state.json is in the byte order
\* of the record, which no parent hash is compared equal to.
AdoptedInv ==
  adopted =>
    /\ pc \notin {"append", "save"}
    /\ stateFile # NoState
    /\ stateFile.hash.order \in {"internal", "mixed"}
    /\ Up => mem.hash.order \in {"internal", "mixed"}

StoreHeights == \A i \in DOMAIN store : store[i].block.height >= 1

\* As long as every append went as written, memory describes the store.
MemoryInv ==
  Up /\ appendFaults = 0 /\ ~adopted =>
    /\ mem.commitment = Stored
    /\ mem.records = Len(store)
    /\ IF store = <<>>
       THEN mem.hash = NoHash
       ELSE /\ mem.hash = Display(store[Len(store)].block)
            /\ mem.height = StartHeight + Len(store) - 1

IInv ==
  /\ ChainLinked
  /\ LoopInv
  /\ PositionInv
  /\ AdoptedInv
  /\ StoreHeights
  /\ MemoryInv
  /\ StoreOnChain
  /\ NoFalseAlarm
  /\ StoreLinked
  /\ StateFileBehindStore

\* A block that is Depth deep is stored sooner or later, if the daemon stays
\* up.
BuriedIsStored ==
  \A n \in StartHeight..MaxBlocks :
    (Up /\ n <= Len(chain) - Depth) ~> (~Up \/ mem.height >= n)

\* After a reorganisation that disconnected the last block stored, the
\* daemon stops.
DeepReorgStops ==
  (Up /\ mem.hash # NoHash /\ mem.hash.block \notin {chain[i] : i \in DOMAIN chain})
    ~> ~Up

\* With appends that fail cleanly or not at all, the daemon implements the
\* abstract log: the store's blocks, and the commitment in state.json.
Log == INSTANCE CommittedLog
  WITH log <- Stored,
       published <- IF stateFile = NoState THEN <<>> ELSE stateFile.commitment,
       owned <- ~adopted

ImplementsLog == Log!Spec

(* What the code's comments say that it does not do.                       *)

\* "On start the daemon verifies the state matches the store's actual tail
\* and refuses to run if they disagree": it refuses only if they disagree.
RefusesOnlyDisagreement ==
  exit = "refused" =>
    ~ /\ stateFile # NoState
      /\ stateFile.records = TailCount
      /\ stateFile.hash.block = TailHash.block
=============================================================================
