---------------------------- MODULE MonetaryStore ----------------------------
(***************************************************************************)
(* The block store of tools/monetary_store.py: blocks of a range are       *)
(* stripped one after the other, written as records into files that roll   *)
(* over at a size, read back, and verified from the files alone.           *)
(*                                                                         *)
(* The disk outlives the run that writes it: a run can be killed, run      *)
(* again over another range into the same directory, and a record can be   *)
(* damaged where it lies.                                                  *)
(***************************************************************************)
EXTENDS Integers, FiniteSets, SequencesExt, Lists

CONSTANTS
  FileSize,    \* --file-size, in entries
  None,        \* Python's None
  MaxTxs,      \* bound: transactions of the chain
  MaxOutputs,  \* bound: outputs of the chain
  MaxEvents    \* bound: transactions, runs and faults together

ASSUME SizeAssumption == FileSize \in Nat
ASSUME NoneAssumption == None \notin Nat
ASSUME BoundsAssumption == MaxTxs \in Nat /\ MaxOutputs \in Nat /\ MaxEvents \in Nat

VARIABLES
  chain,   \* the blocks in the node's blk*.dat: chain[h] is a sequence of txs
  files,   \* the directory: files[i] is the records of its i-th mblk*.dat
  pc,      \* what the latest run does: "none", "writing", "done", "killed"
  range,   \* <<--start, --end>> of the latest run
  next,    \* the height its loop is at
  open,    \* the file it has open
  runs,    \* auxiliary: runs started
  faults   \* auxiliary: processes killed, records damaged

runVars == <<pc, range, next, open>>
vars == <<chain, files, runVars, runs, faults>>

-----------------------------------------------------------------------------
(* Transactions and blocks (external).                                     *)

\* An output is told by the transaction it is of and its number there, which
\* counts from one.  Its amount and script go with it.
Coin == [tx : Nat, n : Nat]
Junk == [tx |-> 0, n |-> 0]

\* What classify_output makes of an output (dust is retained, like money), and
\* what else is spam about a transaction: an envelope in its witness, or an
\* input script over the limit.
OutputKind == {"monetary", "spam"}
Carrier == {"none", "envelope", "scriptsig"}

Coins(t) == [n \in DOMAIN t.outs |-> [tx |-> t.id, n |-> n]]
Ids(txs) == [i \in DOMAIN txs |-> txs[i].id]
TxsIn(blocks) == FlattenSeq(blocks)
TxSet == {TxsIn(chain)[i] : i \in DOMAIN TxsIn(chain)}

Created(txs) == UNION {{Coins(t)[n] : n \in DOMAIN t.outs} : t \in txs}
SpentBy(txs) == UNION {t.ins : t \in txs}

\* A SegWit transaction has a witness.
HasWitness(t) == t.carrier # "scriptsig"

-----------------------------------------------------------------------------
(* Stripping.                                                              *)

Dropped(t) == {n \in DOMAIN t.outs : t.outs[n] = "spam"}
Touched(t) == t.carrier # "none" \/ Dropped(t) # {}

Flag(t) ==
  IF ~Touched(t) THEN "whole"
  ELSE IF Dropped(t) = DOMAIN t.outs THEN "stripped" ELSE "modified"

\* The transaction as it is ...
Whole(t) == [ins |-> t.ins, outs |-> Coins(t), bigScript |-> t.carrier = "scriptsig",
             witness |-> HasWitness(t)]

\* ... and rebuild_without: less its witness and its dropped outputs.  Those
\* that are kept move up.
RebuildWithout(t) ==
  [Whole(t) EXCEPT !.outs = Only(Coins(t), DOMAIN t.outs \ Dropped(t)),
                   !.witness = FALSE]

Entry(t) ==
  [flag |-> Flag(t),
   txid |-> IF Flag(t) = "whole" THEN None ELSE t.id,
   body |-> IF Flag(t) = "whole" THEN Whole(t)
            ELSE IF Flag(t) = "modified" THEN RebuildWithout(t) ELSE None]

\* Faulty: none for a transaction of which nothing else is kept.
FilterEntriesOfKept(t) ==
  IF Flag(t) = "stripped" THEN <<>>
  ELSE LET dropped == Only(Coins(t), Dropped(t))
       IN [i \in DOMAIN dropped |-> [key |-> dropped[i], coin |-> dropped[i]]]

\* One entry for each dropped output: its outpoint, and what it held.
FilterEntries(t) ==
  LET dropped == Only(Coins(t), Dropped(t))
  IN [i \in DOMAIN dropped |-> [key |-> dropped[i], coin |-> dropped[i]]]

\* SHA256d of what follows the digest, without a collision.
Digest(record) == <<record.hash, record.header, record.txs, record.filters>>

\* strip_block.  A header, and the hash of a block, is told by its height.
StripBlock(h) ==
  LET block == chain[h]
      record == [frame |-> "good", digest |-> <<>>, hash |-> h, header |-> h,
                 txs |-> [i \in DOMAIN block |-> Entry(block[i])],
                 filters |-> FlattenSeq([i \in DOMAIN block |-> FilterEntries(block[i])])]
  IN [record EXCEPT !.digest = Digest(record)]

-----------------------------------------------------------------------------
(* Reading back.                                                           *)

\* What the hash of a transaction covers: everything but the witness.
Legacy(body) == [ins |-> body.ins, outs |-> body.outs, bigScript |-> body.bigScript]

\* Faulty: the witness is hashed as well.
TxidOfBodyWithWitness(body) ==
  IF \E t \in TxSet : Legacy(Whole(t)) = Legacy(body) /\ ~body.witness
  THEN (CHOOSE t \in TxSet : Legacy(Whole(t)) = Legacy(body)).id
  ELSE 0

\* SHA256d of body_legacy: the txid of the transaction that is, or another (0).
TxidOfBody(body) ==
  IF \E t \in TxSet : Legacy(Whole(t)) = Legacy(body)
  THEN (CHOOSE t \in TxSet : Legacy(Whole(t)) = Legacy(body)).id
  ELSE 0

\* read_record: the txids, computed for what is whole and else as stored.
Txids(record) ==
  [i \in DOMAIN record.txs |->
     IF record.txs[i].flag = "whole" THEN TxidOfBody(record.txs[i].body)
     ELSE record.txs[i].txid]

\* merkle_root: hash pairs, the last with itself if it has no other, until
\* one is left.
Pairs(level) ==
  [i \in 1..((Len(level) + 1) \div 2) |->
     <<level[2 * i - 1], level[IF 2 * i <= Len(level) THEN 2 * i ELSE 2 * i - 1]>>]
MerkleRoot(txids) ==
  FoldLeft(LAMBDA level, i : IF Len(level) = 1 THEN level ELSE Pairs(level),
           [i \in DOMAIN txids |-> <<txids[i]>>], [i \in DOMAIN txids |-> i])

\* Bytes 36 to 68 of a header: the root of that block's transactions.
RootIn(header) == IF header \in DOMAIN chain THEN MerkleRoot(Ids(chain[header])) ELSE None

\* Faulty: the digest is not compared.
ReadableUnchecked(record) == record.frame = "good"

\* read_record does not raise.
Readable(record) == record.frame = "good" /\ record.digest = Digest(record)

\* verify_store: a file is read up to the first record that cannot be.
ReadIn(file) ==
  LET bad == {i \in DOMAIN file : ~Readable(file[i])}
  IN IF bad = {} THEN file
     ELSE SubSeq(file, 1, (CHOOSE i \in bad : \A j \in bad : i <= j) - 1)
Verified(record) ==
  record.hash = record.header /\ MerkleRoot(Txids(record)) = RootIn(record.header)
VerifyStore ==
  LET read == FlattenSeq([i \in DOMAIN files |-> ReadIn(files[i])])
      good == {k \in DOMAIN read : Verified(read[k])}
  IN [ok |-> Cardinality(good),
      bad |-> Len(read) - Cardinality(good)
                + Cardinality({i \in DOMAIN files : ReadIn(files[i]) # files[i]})]

-----------------------------------------------------------------------------
Init ==
  /\ chain = <<>>
  /\ files = <<>>
  /\ pc = "none"
  /\ range = <<0, 0>>
  /\ next = 0
  /\ open = 0
  /\ runs = 0
  /\ faults = 0

Events == Cardinality(TxSet) + runs + faults

\* The chain: a transaction spends what is unspent in the range, or else what
\* was there before it, and starts a block or joins the last one.
Mine(t) ==
  /\ runs = 0
  /\ Cardinality(TxSet) < MaxTxs
  /\ Events < MaxEvents
  /\ Cardinality(Created(TxSet \cup {t})) <= MaxOutputs
  /\ \/ chain' = Append(chain, <<t>>)
     \/ chain # <<>> /\ chain' = [chain EXCEPT ![Len(chain)] = Append(@, t)]
  /\ UNCHANGED <<files, runVars, runs, faults>>

MineAny ==
  \E ins \in SUBSET (Created(TxSet) \ SpentBy(TxSet)),
     outs \in UNION {[1..n -> OutputKind] : n \in 1..MaxOutputs},
     carrier \in Carrier :
    Mine([id |-> Cardinality(TxSet) + 1, ins |-> ins, outs |-> outs, carrier |-> carrier])

\* Faulty: what is in the file stays.
OpenedToAppend(i, records) ==
  IF i \in DOMAIN files THEN [files EXCEPT ![i] = @ \o records] ELSE Append(files, records)

\* What a file of the directory becomes when it is opened to be written.
Opened(i, records) ==
  IF i \in DOMAIN files THEN [files EXCEPT ![i] = records] ELSE Append(files, records)

\* main: the range is in the index; the first file is opened.
Start(first, last) ==
  /\ pc # "writing"
  /\ Events < MaxEvents
  /\ runs' = runs + 1
  /\ pc' = "writing"
  /\ range' = <<first, last>>
  /\ next' = first
  /\ open' = 1
  /\ files' = Opened(1, <<>>)
  /\ UNCHANGED <<chain, faults>>

Size(record) == Len(record.txs) + Len(record.filters)
Written == FoldLeft(LAMBDA sum, record : sum + Size(record), 0, files[open])

\* The record goes into the file that is open, or into the next one if it
\* would make that too large (even one that is empty).
WriteRecord(record) ==
  LET full == Written + Size(record) > FileSize
  IN /\ open' = IF full THEN open + 1 ELSE open
     /\ files' = IF full THEN Opened(open + 1, <<record>>)
                 ELSE [files EXCEPT ![open] = Append(@, record)]

\* The loop of main: strip the block, write its record.
WriteBlock ==
  /\ pc = "writing"
  /\ next <= range[2]
  /\ WriteRecord(StripBlock(next))
  /\ next' = next + 1
  /\ UNCHANGED <<chain, pc, range, runs, faults>>

\* The files are closed; verify_store reads them.
Finish ==
  /\ pc = "writing"
  /\ next > range[2]
  /\ pc' = "done"
  /\ UNCHANGED <<chain, files, range, next, open, runs, faults>>

\* The run is killed: of the open file, what was flushed is left, and perhaps
\* a part of the next record.
Kill ==
  /\ pc = "writing"
  /\ Events < MaxEvents
  /\ faults' = faults + 1
  /\ pc' = "killed"
  /\ \E left \in Prefixes(files[open]) :
       \/ files' = [files EXCEPT ![open] = left]
       \/ /\ Len(left) < Len(files[open])
          /\ files' = [files EXCEPT ![open] =
                        Append(left, [files[open][Len(left) + 1] EXCEPT !.frame = "cut"])]
  /\ UNCHANGED <<chain, range, next, open, runs>>

\* What a record can become when some bytes of it change.
DamagedEntry(e) ==
  IF e.flag = "stripped" THEN [e EXCEPT !.txid = 0]
  ELSE [e EXCEPT !.body.outs[1] = Junk]
DamagedForms(record) ==
  {[record EXCEPT !.frame = "bad"], [record EXCEPT !.digest = <<>>],
   [record EXCEPT !.hash = 0], [record EXCEPT !.header = 0]}
    \cup {[record EXCEPT !.txs[i] = DamagedEntry(record.txs[i])] : i \in DOMAIN record.txs}
    \cup {[record EXCEPT !.filters[i].coin = Junk] : i \in DOMAIN record.filters}

Damage(i, j) ==
  /\ pc # "writing"
  /\ Events < MaxEvents
  /\ faults' = faults + 1
  /\ \E record \in DamagedForms(files[i][j]) : files' = [files EXCEPT ![i][j] = record]
  /\ UNCHANGED <<chain, runVars, runs>>

Next ==
  \/ MineAny
  \/ \E last \in DOMAIN chain : \E first \in 1..last : Start(first, last)
  \/ WriteBlock
  \/ Finish
  \/ Kill
  \/ \E i \in DOMAIN files : \E j \in DOMAIN files[i] : Damage(i, j)

Spec == Init /\ [][Next]_vars

-----------------------------------------------------------------------------
(* Properties.                                                             *)

OnDisk == FlattenSeq(files)

\* "The store is sufficient": of a run that was not disturbed, every block is
\* verified against its own header from the files alone, and no other.
VerifiesFromDisk ==
  pc = "done" /\ runs = 1 /\ faults = 0 =>
    VerifyStore = [ok |-> range[2] - range[1] + 1, bad |-> 0]

\* The outputs of a transaction, put together again from its entry and the
\* filter entries: those that were kept fill the numbers that no filter entry
\* has.
Restored(entry, id, filters) ==
  LET mine == {i \in DOMAIN filters : filters[i].key.tx = id}
      kept == IF entry.flag = "stripped" THEN <<>> ELSE entry.body.outs
      taken == {filters[i].key.n : i \in mine}
  IN [n \in 1..(Len(kept) + Cardinality(mine)) |->
        IF n \in taken THEN filters[CHOOSE i \in mine : filters[i].key.n = n].coin
        ELSE kept[Cardinality((1..n) \ taken)]]

\* A record that verifies holds every output of its block, under its number
\* and once, kept or in a filter entry; and the inputs of every transaction
\* that keeps an output.
NothingLost ==
  \A k \in DOMAIN OnDisk :
    LET record == OnDisk[k]
    IN Readable(record) /\ Verified(record) =>
         \A i \in DOMAIN record.txs :
           LET t == chain[record.header][i]
           IN /\ Restored(record.txs[i], t.id, record.filters) = Coins(t)
              /\ record.txs[i].flag # "stripped" => record.txs[i].body.ins = t.ins

\* Whatever was cut off or damaged, and wherever: a store in which
\* verify_store finds nothing bad holds records as they were written.
DamageNoticed ==
  VerifyStore.bad = 0 =>
    \A k \in DOMAIN OnDisk : OnDisk[k] = StripBlock(OnDisk[k].hash)

\* A run that ends in a store with nothing bad has left the blocks of its
\* range there, in order and before anything else, whatever was in the
\* directory, and however the runs before it ended.
SuccessIsComplete ==
  pc = "done" /\ VerifyStore.bad = 0 =>
    /\ Len(OnDisk) >= range[2] - range[1] + 1
    /\ \A k \in 1..(range[2] - range[1] + 1) : OnDisk[k].hash = range[1] + k - 1
=============================================================================
