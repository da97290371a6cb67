---------------------------- MODULE StoreReaders ----------------------------
(***************************************************************************)
(* The tools that read a monetary store and nothing else, beside           *)
(* verify_store: monetary_commit.py, wallet_check.py, spend_check.py and   *)
(* commit_scan.py.  Each is one pass over the records, in the order of the *)
(* files; only the first looks at the digests.                             *)
(*                                                                         *)
(* They are read here as functions of the directory, at every state of it; *)
(* --start-height is the first height of the latest run.                   *)
(***************************************************************************)
EXTENDS MonetaryStore

CONSTANT Window  \* --window of commit_scan.py

ASSUME WindowAssumption == Window \in Nat

-----------------------------------------------------------------------------
(* monetary_commit.py                                                      *)

\* Faulty: it is --no-verify that has the digests checked.
CommitmentInverted(verify) ==
  IF \E k \in DOMAIN OnDisk :
       \/ OnDisk[k].frame # "good"
       \/ ~verify /\ OnDisk[k].digest # Digest(OnDisk[k])
  THEN [raised |-> TRUE, chained |-> <<>>]
  ELSE [raised |-> FALSE,
        chained |-> [k \in DOMAIN OnDisk |-> <<OnDisk[k].hash, OnDisk[k].digest>>]]

\* compute: C chains over the hash and the digest of each record, so it stands
\* for their sequence; iter_records may raise.
Commitment(verify) ==
  IF \E k \in DOMAIN OnDisk :
       \/ OnDisk[k].frame # "good"
       \/ verify /\ OnDisk[k].digest # Digest(OnDisk[k])
  THEN [raised |-> TRUE, chained |-> <<>>]
  ELSE [raised |-> FALSE,
        chained |-> [k \in DOMAIN OnDisk |-> <<OnDisk[k].hash, OnDisk[k].digest>>]]

-----------------------------------------------------------------------------
(* wallet_check.py, every script being watched: scan.                      *)

CoinsOf(keyed) == {w.coin : w \in keyed}

\* parse_tx: what a body spends, and its outputs, numbered by their place.
ParseTx(txid, body) ==
  [txid |-> txid, complete |-> TRUE, vin |-> body.ins,
   vout |-> {[key |-> [tx |-> txid, n |-> n], coin |-> body.outs[n]] : n \in DOMAIN body.outs}]

\* iter_store: the transactions of a record; of one stripped, the txid.
WalletTxs(record) ==
  [i \in DOMAIN record.txs |->
     IF record.txs[i].flag = "stripped"
     THEN [txid |-> Txids(record)[i], complete |-> FALSE, vin |-> {}, vout |-> {}]
     ELSE ParseTx(Txids(record)[i], record.txs[i].body)]

FiltersOf(txid, filters) ==
  {filters[i] : i \in {j \in DOMAIN filters : filters[j].key.tx = txid}}

\* Faulty: what is spent is watched no more, but stays in the balance.
SpendKeepsBalance(s, ins) ==
  [s EXCEPT !.watched = {w \in @ : w.key \notin ins}]

\* Inputs that spend a watched outpoint mark it spent.
Spend(s, ins) ==
  LET hit == {w \in s.watched : w.key \in ins}
  IN [s EXCEPT !.watched = @ \ hit, !.balance = @ \ CoinsOf(hit)]

\* Outputs are watched, those kept first.
Watch(s, kept, dropped) ==
  [s EXCEPT !.watched = {w \in @ \cup kept : \A d \in dropped : d.key # w.key} \cup dropped,
            !.balance = @ \cup CoinsOf(kept) \cup CoinsOf(dropped)]

WalletTx(s, tx, filters) ==
  IF ~tx.complete THEN s
  ELSE [Watch(Spend(s, tx.vin), tx.vout, FiltersOf(tx.txid, filters))
          EXCEPT !.history = @ \cup {<<tx.txid, s.height>>}]

WalletBlock(s, record) ==
  LET txs == WalletTxs(record)
      after[i \in 0..Len(txs)] ==
        IF i = 0 THEN s ELSE WalletTx(after[i - 1], txs[i], record.filters)
  IN [after[Len(txs)] EXCEPT !.height = @ + 1]

NoWallet == [watched |-> {}, balance |-> {}, history |-> {}, height |-> range[1]]

Wallet ==
  LET after[k \in 0..Len(OnDisk)] ==
        IF k = 0 THEN NoWallet ELSE WalletBlock(after[k - 1], OnDisk[k])
  IN after[Len(OnDisk)]

-----------------------------------------------------------------------------
(* spend_check.py: the spends of dropped outputs that run finds.           *)

\* parse_tx, of which run looks up the inputs.
InputsIn(body) == body.ins

\* iter_store: the transactions of a record that are not stripped.
SpendTxs(record) ==
  {[txid |-> Txids(record)[i], vin |-> InputsIn(record.txs[i].body)] :
     i \in {j \in DOMAIN record.txs : record.txs[j].flag # "stripped"}}

\* The spends, by what a record holds, of outpoints among the dropped ones.
SpendsOf(record, dropped) ==
  UNION {{<<tx.txid, c>> : c \in tx.vin \cap dropped} : tx \in SpendTxs(record)}

\* Faulty: the inputs of a block are looked up before its filter entries are
\* recorded.
SpendsInBlockLate(s, record) ==
  [dropped |-> s.dropped \cup {record.filters[i].key : i \in DOMAIN record.filters},
   found |-> s.found \cup SpendsOf(record, s.dropped)]

\* The filter entries of the block first, then the inputs of what it holds.
SpendsInBlock(s, record) ==
  LET dropped == s.dropped \cup {record.filters[i].key : i \in DOMAIN record.filters}
  IN [dropped |-> dropped, found |-> s.found \cup SpendsOf(record, dropped)]

DroppedSpends ==
  LET after[k \in 0..Len(OnDisk)] ==
        IF k = 0 THEN [dropped |-> {}, found |-> {}] ELSE SpendsInBlock(after[k - 1], OnDisk[k])
  IN after[Len(OnDisk)].found

-----------------------------------------------------------------------------
(* commit_scan.py: the outputs that carriers spend, in a window of blocks. *)

\* parse_tx: the inputs, and the outputs under their places in the body.
InputsAndOutputs(txid, body) ==
  [txid |-> txid, vin |-> body.ins, vout |-> {[tx |-> txid, n |-> n] : n \in DOMAIN body.outs}]

\* iter_store: each transaction with its flag.
CommitTxs(record) ==
  [i \in DOMAIN record.txs |->
     [flag |-> record.txs[i].flag,
      p |-> IF record.txs[i].flag = "stripped" THEN None
            ELSE InputsAndOutputs(Txids(record)[i], record.txs[i].body)]]

\* Of what is stripped, p is None.  A carrier is told by its flag: in what is
\* whole, there is no envelope.
CommitsTx(s, tx) ==
  LET seen == (UNION {s.recent[j] : j \in DOMAIN s.recent}) \cup s.here
  IN IF tx.flag = "stripped" THEN s
     ELSE [s EXCEPT
             !.here = @ \cup tx.p.vout,
             !.found = IF tx.flag = "modified"
                       THEN @ \cup {<<tx.p.txid, c>> : c \in tx.p.vin \cap seen} ELSE @]

\* Faulty: one block too few is kept.
KeepTooFew(recent) ==
  IF Len(recent) >= Window THEN SubSeq(recent, Len(recent) - Window + 2, Len(recent))
  ELSE recent

\* The blocks that stay in the window.
Keep(recent) ==
  IF Len(recent) > Window THEN SubSeq(recent, Len(recent) - Window + 1, Len(recent))
  ELSE recent

CommitsInBlock(s, record) ==
  LET txs == CommitTxs(record)
      after[i \in 0..Len(txs)] == IF i = 0 THEN s ELSE CommitsTx(after[i - 1], txs[i])
  IN [after[Len(txs)] EXCEPT !.recent = Keep(Append(@, after[Len(txs)].here)), !.here = {}]

Commits ==
  LET after[k \in 0..Len(OnDisk)] ==
        IF k = 0 THEN [recent |-> <<>>, here |-> {}, found |-> {}]
        ELSE CommitsInBlock(after[k - 1], OnDisk[k])
  IN after[Len(OnDisk)].found

-----------------------------------------------------------------------------
(* Properties: of a store that verifies and that is the blocks of one      *)
(* range, which is what the readers take for granted.                      *)

Readied ==
  /\ pc = "done"
  /\ VerifyStore.bad = 0
  /\ Len(OnDisk) = range[2] - range[1] + 1

InRange == TxsIn(SubSeq(chain, range[1], range[2]))
RangeTxs == {InRange[i] : i \in DOMAIN InRange}
Held == {t \in RangeTxs : Flag(t) # "stripped"}
HeightOf(t) == CHOOSE h \in DOMAIN chain : \E i \in DOMAIN chain[h] : chain[h][i] = t

\* Outputs that rebuild_without moves to the number of another.
Moved(t) ==
  {c \in {Coins(t)[n] : n \in DOMAIN t.outs} :
     /\ Flag(t) = "modified"
     /\ c.n \notin Dropped(t)
     /\ \E n \in Dropped(t) : n < c.n}
NothingMoved == \A t \in RangeTxs : Moved(t) = {}

\* monetary_commit.py computes a commitment from a store, digests checked,
\* exactly when verify_store finds nothing bad in it: two readers that walk
\* the records on their own never disagree on what is corrupt.
CommitIffVerified == ~Commitment(TRUE).raised <=> VerifyStore.bad = 0

\* "This is the gap being measured": a wallet's balance and history differ
\* from the chain's by what stripped transactions created or spent, and by
\* nothing else, as long as no output has moved.
GapIsWhatWasStripped ==
  Readied /\ NothingMoved =>
    /\ Wallet.balance = Created(Held) \ SpentBy(Held)
    /\ Wallet.history = {<<t.id, HeightOf(t)>> : t \in Held}

\* "For every input in the store that spends a dropped output, is the filter
\* entry present": every such spend is found, under its own outpoint, in the
\* block that created the output too, and nothing else is taken for one.
DroppedSpendsFound ==
  Readied =>
    DroppedSpends =
      UNION {{<<t.id, c>> : c \in {d \in t.ins : \E u \in RangeTxs :
                                       d.tx = u.id /\ d.n \in Dropped(u)}} : t \in Held}

\* "Commits older than the window are counted as misses": what a carrier
\* spends is found if and only if the store holds it in the same block or in
\* the Window blocks before, as long as no output has moved.
WindowIsExact ==
  Readied /\ NothingMoved =>
    Commits =
      UNION {{<<t.id, c>> : c \in {d \in t.ins : \E u \in Held :
                /\ d.tx = u.id /\ d.n \notin Dropped(u)
                /\ HeightOf(t) - HeightOf(u) \in 0..Window}} :
             t \in {u \in Held : Flag(u) = "modified"}}

(* What the code's comments say that it does not do.                       *)

\* "Inputs spending a watched outpoint mark it spent": no output that a
\* transaction in the store spends is left in a balance.
SpendsAreMarked == Readied => Wallet.balance \cap SpentBy(Held) = {}
=============================================================================
