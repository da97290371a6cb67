----------------------------- MODULE StoreProofs ------------------------------
(***************************************************************************)
(* The block store for any chain, any ranges, any number of runs, killed   *)
(* or not, any damage on the disk and any size of files.                   *)
(***************************************************************************)
EXTENDS StoreReaders, DataLemmas

-----------------------------------------------------------------------------
(* What the chain and the disk are made of.                                *)

Tx == [id : Nat \ {0}, ins : SUBSET Coin, outs : Seq(OutputKind) \ {<<>>}, carrier : Carrier]

Body == [ins : SUBSET Coin, outs : Seq(Coin), bigScript : BOOLEAN, witness : BOOLEAN]
EntryForm ==
  {e \in [flag : {"whole", "modified", "stripped"}, txid : Nat \cup {None}, body : Body \cup {None}] :
     e.flag # "stripped" => e.body \in Body}
Filter == [key : Coin, coin : Coin]
Fields == Nat \X Nat \X Seq(EntryForm) \X Seq(Filter)
Record == [frame : {"good", "bad", "cut"}, digest : Fields \cup {<<>>}, hash : Nat, header : Nat,
           txs : Seq(EntryForm), filters : Seq(Filter)]

LEMMA CoinsIs ==
  ASSUME NEW t \in Tx
  PROVE  /\ Coins(t) \in Seq(Coin) /\ Len(Coins(t)) = Len(t.outs) /\ Len(t.outs) \in Nat \ {0}
         /\ DOMAIN t.outs = 1..Len(t.outs)
         /\ \A n \in 1..Len(t.outs) : Coins(t)[n] = [tx |-> t.id, n |-> n]
         /\ Dropped(t) \subseteq 1..Len(t.outs)
<1>1. t.outs \in Seq(OutputKind) /\ t.outs # <<>> /\ t.id \in Nat
  BY DEF Tx
<1>2. Len(t.outs) \in Nat \ {0} /\ DOMAIN t.outs = 1..Len(t.outs)
  BY <1>1
<1>3. Coins(t) = [n \in 1..Len(t.outs) |-> [tx |-> t.id, n |-> n]]
  BY <1>2 DEF Coins
<1>4. \A n \in 1..Len(t.outs) : [tx |-> t.id, n |-> n] \in Coin
  BY <1>1, <1>2 DEF Coin
<1>5. Coins(t) \in Seq(Coin) /\ Len(Coins(t)) = Len(t.outs)
  BY <1>2, <1>3, <1>4
<1> QED BY <1>2, <1>3, <1>5 DEF Dropped

LEMMA WholeIs ==
  ASSUME NEW t \in Tx
  PROVE  Whole(t) \in Body /\ Whole(t).outs = Coins(t) /\ Whole(t).ins = t.ins
<1>1. Coins(t) \in Seq(Coin) /\ t.ins \in SUBSET Coin
  BY CoinsIs DEF Tx
<1> QED BY <1>1 DEF Whole, Body, HasWitness

LEMMA RebuildIs ==
  ASSUME NEW t \in Tx
  PROVE  /\ RebuildWithout(t) \in Body /\ RebuildWithout(t).ins = t.ins
         /\ RebuildWithout(t).outs = Only(Coins(t), (1..Len(t.outs)) \ Dropped(t))
<1> DEFINE kept == Only(Coins(t), (1..Len(t.outs)) \ Dropped(t))
<1>1. Coins(t) \in Seq(Coin) /\ DOMAIN t.outs = 1..Len(t.outs)
  BY CoinsIs
<1>2. kept \in Seq(Coin)
  BY <1>1, OnlyIs
<1>3. RebuildWithout(t) = [Whole(t) EXCEPT !.outs = kept, !.witness = FALSE]
  BY <1>1 DEF RebuildWithout
<1> HIDE DEF kept
<1>4. Whole(t) \in Body /\ Whole(t).ins = t.ins
  BY WholeIs
<1>5. RebuildWithout(t) = [ins |-> t.ins, outs |-> kept, bigScript |-> Whole(t).bigScript,
                           witness |-> FALSE]
  BY <1>3 DEF Whole
<1>6. Whole(t).bigScript \in BOOLEAN /\ t.ins \in SUBSET Coin
  BY <1>4 DEF Body
<1>7. RebuildWithout(t) \in Body
  BY <1>2, <1>5, <1>6 DEF Body
<1> QED BY <1>5, <1>7 DEF kept

LEMMA EntryIs ==
  ASSUME NEW t \in Tx
  PROVE  /\ Entry(t) \in EntryForm /\ Entry(t).flag = Flag(t)
         /\ Entry(t).txid = IF Flag(t) = "whole" THEN None ELSE t.id
         /\ Entry(t).body = IF Flag(t) = "whole" THEN Whole(t)
                            ELSE IF Flag(t) = "modified" THEN RebuildWithout(t) ELSE None
         /\ Flag(t) \in {"whole", "modified", "stripped"}
<1>1. Whole(t) \in Body /\ RebuildWithout(t) \in Body /\ t.id \in Nat
  BY WholeIs, RebuildIs DEF Tx
<1>2. Flag(t) \in {"whole", "modified", "stripped"}
  BY DEF Flag
<1>3. Entry(t) = [flag |-> Flag(t), txid |-> IF Flag(t) = "whole" THEN None ELSE t.id,
                  body |-> IF Flag(t) = "whole" THEN Whole(t)
                           ELSE IF Flag(t) = "modified" THEN RebuildWithout(t) ELSE None]
  BY DEF Entry
<1>4. Entry(t).txid \in Nat \cup {None} /\ Entry(t).body \in Body \cup {None}
      /\ (Flag(t) # "stripped" => Entry(t).body \in Body)
  BY <1>1, <1>2, <1>3
<1>5. Entry(t) \in EntryForm
  BY <1>2, <1>3, <1>4 DEF EntryForm
<1> QED BY <1>2, <1>3, <1>5

\* The filter entries of a transaction are those of its dropped outputs, each
\* once.
LEMMA FiltersAre ==
  ASSUME NEW t \in Tx
  PROVE  /\ FilterEntries(t) \in Seq(Filter)
         /\ \A i \in 1..Len(FilterEntries(t)) :
              \E n \in Dropped(t) : FilterEntries(t)[i] = [key |-> [tx |-> t.id, n |-> n],
                                                           coin |-> [tx |-> t.id, n |-> n]]
         /\ \A n \in Dropped(t) : \E i \in 1..Len(FilterEntries(t)) :
              FilterEntries(t)[i].key.n = n
         /\ \A i, j \in 1..Len(FilterEntries(t)) :
              FilterEntries(t)[i].key.n = FilterEntries(t)[j].key.n => i = j
<1> DEFINE dropped == Only(Coins(t), Dropped(t))
<1>1. /\ Coins(t) \in Seq(Coin) /\ Len(Coins(t)) = Len(t.outs)
      /\ \A n \in 1..Len(t.outs) : Coins(t)[n] = [tx |-> t.id, n |-> n]
      /\ Dropped(t) \subseteq 1..Len(t.outs)
  BY CoinsIs
<1>2. /\ Only(Coins(t), Dropped(t)) \in Seq(Coin)
      /\ \E idx \in [1..Len(Only(Coins(t), Dropped(t))) -> Nat] :
           IndexOf(idx, Only(Coins(t), Dropped(t)), Coins(t), Len(Coins(t)), Dropped(t))
  BY <1>1, OnlyIs
<1> HIDE DEF dropped
<1>3. dropped \in Seq(Coin)
  BY <1>2 DEF dropped
<1>4. PICK idx \in [1..Len(dropped) -> Nat] :
        IndexOf(idx, dropped, Coins(t), Len(Coins(t)), Dropped(t))
  BY <1>2 DEF dropped
<1>5. /\ \A k \in 1..Len(dropped) : idx[k] \in Dropped(t) /\ dropped[k] = Coins(t)[idx[k]]
      /\ \A j, k \in 1..Len(dropped) : idx[j] = idx[k] => j = k
      /\ \A i \in Dropped(t) : \E k \in 1..Len(dropped) : idx[k] = i
  BY <1>1, <1>4 DEF IndexOf
<1>6. \A k \in 1..Len(dropped) : dropped[k] = [tx |-> t.id, n |-> idx[k]] /\ dropped[k] \in Coin
  BY <1>1, <1>3, <1>5
<1>7. FilterEntries(t) = [k \in 1..Len(dropped) |-> [key |-> dropped[k], coin |-> dropped[k]]]
  <2>1. DOMAIN dropped = 1..Len(dropped)
    BY <1>3
  <2> QED BY <2>1 DEF FilterEntries, dropped
<1>8. \A k \in 1..Len(dropped) : [key |-> dropped[k], coin |-> dropped[k]] \in Filter
  BY <1>6 DEF Filter
<1>9. FilterEntries(t) \in Seq(Filter) /\ Len(FilterEntries(t)) = Len(dropped)
  BY <1>3, <1>7, <1>8
<1>10. \A k \in 1..Len(dropped) :
         /\ FilterEntries(t)[k] = [key |-> [tx |-> t.id, n |-> idx[k]],
                                   coin |-> [tx |-> t.id, n |-> idx[k]]]
         /\ FilterEntries(t)[k].key.n = idx[k]
  BY <1>6, <1>7
<1>11. \A i \in 1..Len(dropped) :
         \E n \in Dropped(t) : FilterEntries(t)[i] = [key |-> [tx |-> t.id, n |-> n],
                                                      coin |-> [tx |-> t.id, n |-> n]]
  BY <1>5, <1>10
<1>12. \A n \in Dropped(t) : \E i \in 1..Len(dropped) : FilterEntries(t)[i].key.n = n
  <2> SUFFICES ASSUME NEW n \in Dropped(t)
               PROVE  \E i \in 1..Len(dropped) : FilterEntries(t)[i].key.n = n
    OBVIOUS
  <2>1. PICK k \in 1..Len(dropped) : idx[k] = n
    BY <1>5
  <2>2. FilterEntries(t)[k].key.n = n
    BY <1>10, <2>1
  <2> QED BY <2>2
<1>13. \A i, j \in 1..Len(dropped) :
         FilterEntries(t)[i].key.n = FilterEntries(t)[j].key.n => i = j
  <2> SUFFICES ASSUME NEW i \in 1..Len(dropped), NEW j \in 1..Len(dropped),
                      FilterEntries(t)[i].key.n = FilterEntries(t)[j].key.n
               PROVE  i = j
    OBVIOUS
  <2>1. idx[i] = idx[j]
    BY <1>10
  <2> QED BY <1>5, <2>1
<1> QED BY <1>9, <1>11, <1>12, <1>13

-----------------------------------------------------------------------------
(* The record of a block.                                                  *)

Block == Seq(Tx)

FiltersOfBlock(block) == [i \in DOMAIN block |-> FilterEntries(block[i])]

LEMMA BlockFilters ==
  ASSUME NEW block \in Block
  PROVE  /\ FiltersOfBlock(block) \in Seq(Seq(Filter)) /\ Len(FiltersOfBlock(block)) = Len(block)
         /\ \A i \in 1..Len(block) : FiltersOfBlock(block)[i] = FilterEntries(block[i])
<1>1. DOMAIN block = 1..Len(block) /\ Len(block) \in Nat /\ \A i \in 1..Len(block) : block[i] \in Tx
  BY DEF Block
<1>2. \A i \in 1..Len(block) : FilterEntries(block[i]) \in Seq(Filter)
  BY <1>1, FiltersAre
<1> QED BY <1>1, <1>2 DEF FiltersOfBlock

LEMMA StripIs ==
  ASSUME NEW h \in Nat, chain[h] \in Block
  PROVE  /\ StripBlock(h) \in Record
         /\ StripBlock(h) = [frame |-> "good", digest |-> Digest(StripBlock(h)), hash |-> h,
                             header |-> h, txs |-> [i \in 1..Len(chain[h]) |-> Entry(chain[h][i])],
                             filters |-> FlattenSeq(FiltersOfBlock(chain[h]))]
         /\ Digest(StripBlock(h)) =
              <<h, h, StripBlock(h).txs, StripBlock(h).filters>>
<1> DEFINE txs == [i \in 1..Len(chain[h]) |-> Entry(chain[h][i])]
           filters == FlattenSeq(FiltersOfBlock(chain[h]))
           record == [frame |-> "good", digest |-> <<>>, hash |-> h, header |-> h,
                      txs |-> txs, filters |-> filters]
<1>1. /\ DOMAIN chain[h] = 1..Len(chain[h]) /\ Len(chain[h]) \in Nat
      /\ \A i \in 1..Len(chain[h]) : chain[h][i] \in Tx
  BY DEF Block
<1>2. StripBlock(h) = [record EXCEPT !.digest = Digest(record)]
  BY <1>1 DEF StripBlock, FiltersOfBlock
<1>3. txs \in Seq(EntryForm)
  <2>1. \A i \in 1..Len(chain[h]) : Entry(chain[h][i]) \in EntryForm
    BY <1>1, EntryIs
  <2> QED BY <1>1, <2>1
<1>4. filters \in Seq(Filter)
  BY BlockFilters, FlattenHas
<1> HIDE DEF txs, filters
<1>5. Digest(record) = <<h, h, txs, filters>>
  BY DEF Digest
<1>6. StripBlock(h) = [frame |-> "good", digest |-> <<h, h, txs, filters>>, hash |-> h, header |-> h,
                       txs |-> txs, filters |-> filters]
  BY <1>2, <1>5
<1>7. Digest(StripBlock(h)) = <<h, h, txs, filters>>
  BY <1>6 DEF Digest
<1>8. <<h, h, txs, filters>> \in Fields
  BY <1>3, <1>4 DEF Fields
<1>9. StripBlock(h) \in Record
  BY <1>3, <1>4, <1>6, <1>8 DEF Record
<1>10. StripBlock(h).txs = txs /\ StripBlock(h).filters = filters
  BY <1>6
<1> QED BY <1>6, <1>7, <1>9, <1>10 DEF txs, filters

\* A record that can be read and has the digest of a block is its record.
LEMMA ReadableIs ==
  ASSUME NEW h \in Nat, chain[h] \in Block, NEW r \in Record, Readable(r),
         r.digest = <<>> \/ r.digest = Digest(StripBlock(h))
  PROVE  r = StripBlock(h)
<1>1. r.frame = "good" /\ r.digest = <<r.hash, r.header, r.txs, r.filters>>
  BY DEF Readable, Digest
<1>2. r.digest # <<>>
  BY <1>1
<1>3. Digest(StripBlock(h)) = <<h, h, StripBlock(h).txs, StripBlock(h).filters>>
  BY StripIs
<1>4. <<r.hash, r.header, r.txs, r.filters>> = <<h, h, StripBlock(h).txs, StripBlock(h).filters>>
  BY <1>1, <1>2, <1>3
<1>5. /\ r.hash = h /\ r.header = h /\ r.txs = StripBlock(h).txs
      /\ r.filters = StripBlock(h).filters
  BY <1>4
<1>6. r = [frame |-> "good", digest |-> Digest(StripBlock(h)), hash |-> h, header |-> h,
           txs |-> StripBlock(h).txs, filters |-> StripBlock(h).filters]
  BY <1>1, <1>2, <1>5 DEF Record
<1>7. StripBlock(h) = [frame |-> "good", digest |-> Digest(StripBlock(h)), hash |-> h,
                       header |-> h, txs |-> StripBlock(h).txs, filters |-> StripBlock(h).filters]
  <2> DEFINE txs == [i \in 1..Len(chain[h]) |-> Entry(chain[h][i])]
             filters == FlattenSeq(FiltersOfBlock(chain[h]))
  <2>1. StripBlock(h) = [frame |-> "good", digest |-> Digest(StripBlock(h)), hash |-> h,
                         header |-> h, txs |-> txs, filters |-> filters]
    BY StripIs
  <2> HIDE DEF txs, filters
  <2>2. StripBlock(h).txs = txs /\ StripBlock(h).filters = filters
    BY <2>1
  <2> QED BY <2>1, <2>2
<1> QED BY <1>6, <1>7

-----------------------------------------------------------------------------
(* Reading back.                                                           *)

\* The transactions of a chain are those of its blocks.
TxsOf(blocks) == {TxsIn(blocks)[i] : i \in DOMAIN TxsIn(blocks)}

LEMMA TxsAre ==
  ASSUME NEW blocks \in Seq(Block)
  PROVE  /\ TxsOf(blocks) \subseteq Tx
         /\ \A h \in 1..Len(blocks) : \A i \in 1..Len(blocks[h]) : blocks[h][i] \in TxsOf(blocks)
         /\ \A t \in TxsOf(blocks) :
              \E h \in 1..Len(blocks) : \E i \in 1..Len(blocks[h]) : t = blocks[h][i]
<1> DEFINE all == FlattenSeq(blocks)
<1>1. /\ all \in Seq(Tx)
      /\ \A i \in 1..Len(blocks) : \A j \in 1..Len(blocks[i]) :
           \E k \in 1..Len(all) : all[k] = blocks[i][j]
      /\ \A k \in 1..Len(all) :
           \E i \in 1..Len(blocks) : \E j \in 1..Len(blocks[i]) : all[k] = blocks[i][j]
  BY FlattenHas DEF Block
<1>2. TxsOf(blocks) = {all[k] : k \in DOMAIN all}
  BY DEF TxsOf, TxsIn
<1> HIDE DEF all
<1>3. TxsOf(blocks) = {all[k] : k \in 1..Len(all)} /\ \A k \in 1..Len(all) : all[k] \in Tx
  BY <1>1, <1>2
<1>4. TxsOf(blocks) \subseteq Tx
  BY <1>3
<1>5. ASSUME NEW h \in 1..Len(blocks), NEW i \in 1..Len(blocks[h])
      PROVE  blocks[h][i] \in TxsOf(blocks)
  <2>1. PICK k \in 1..Len(all) : all[k] = blocks[h][i]
    BY <1>1
  <2> QED BY <1>3, <2>1
<1>6. ASSUME NEW t \in TxsOf(blocks)
      PROVE  \E h \in 1..Len(blocks) : \E i \in 1..Len(blocks[h]) : t = blocks[h][i]
  <2>1. PICK k \in 1..Len(all) : t = all[k]
    BY <1>3
  <2> QED BY <1>1, <2>1
<1> QED BY <1>4, <1>5, <1>6

LEMMA TxSetIs ==
  ASSUME chain \in Seq(Block)
  PROVE  /\ TxSet \subseteq Tx
         /\ \A h \in 1..Len(chain) : \A i \in 1..Len(chain[h]) : chain[h][i] \in TxSet
         /\ \A t \in TxSet : \E h \in 1..Len(chain) : \E i \in 1..Len(chain[h]) : t = chain[h][i]
<1>1. TxSet = TxsOf(chain)
  BY DEF TxSet, TxsOf
<1> QED BY <1>1, TxsAre

\* Mining adds one transaction to the last block or to a new one.
Mined(blocks, t) ==
  {Append(blocks, <<t>>)}
    \cup (IF blocks = <<>> THEN {} ELSE {[blocks EXCEPT ![Len(blocks)] = Append(@, t)]})

LEMMA MinedAdds ==
  ASSUME NEW blocks \in Seq(Block), NEW t \in Tx, NEW more \in Mined(blocks, t)
  PROVE  more \in Seq(Block) /\ TxsOf(more) = TxsOf(blocks) \cup {t}
<1>1. /\ Len(blocks) \in Nat /\ DOMAIN blocks = 1..Len(blocks)
      /\ \A h \in 1..Len(blocks) : blocks[h] \in Seq(Tx) /\ Len(blocks[h]) \in Nat
  BY DEF Block
<1> DEFINE Adds(last, i) ==
             /\ last \in 1..Len(more) /\ i \in 1..Len(more[last])
             /\ more \in Seq(Block) /\ Len(more) >= Len(blocks) /\ more[last][i] = t
             /\ \A h \in 1..Len(blocks) : \A k \in 1..Len(blocks[h]) :
                  h \in 1..Len(more) /\ k \in 1..Len(more[h]) /\ more[h][k] = blocks[h][k]
             /\ \A h \in 1..Len(more) : \A k \in 1..Len(more[h]) :
                  \/ h = last /\ k = i
                  \/ h \in 1..Len(blocks) /\ k \in 1..Len(blocks[h]) /\ more[h][k] = blocks[h][k]
<1>2. \E last, i \in Nat : Adds(last, i)
  <2>1. CASE more = Append(blocks, <<t>>)
    <3>1. <<t>> \in Block /\ Len(<<t>>) = 1 /\ <<t>>[1] = t
      BY DEF Block
    <3>2. /\ more \in Seq(Block) /\ Len(more) = Len(blocks) + 1 /\ more[Len(blocks) + 1] = <<t>>
          /\ \A h \in 1..Len(blocks) : more[h] = blocks[h]
      BY <2>1, <3>1
    <3>3. Len(blocks) + 1 \in 1..Len(more) /\ 1 \in 1..Len(more[Len(blocks) + 1])
      BY <1>1, <3>1, <3>2
    <3>4. \A h \in 1..Len(more) : h \in 1..Len(blocks) \/ h = Len(blocks) + 1
      BY <1>1, <3>2
    <3>5. \A k \in 1..Len(more[Len(blocks) + 1]) : k = 1
      BY <3>1, <3>2
    <3>6. \A h \in 1..Len(blocks) : \A k \in 1..Len(blocks[h]) :
            h \in 1..Len(more) /\ k \in 1..Len(more[h]) /\ more[h][k] = blocks[h][k]
      BY <1>1, <3>2
    <3>7. \A h \in 1..Len(more) : \A k \in 1..Len(more[h]) :
            \/ h = Len(blocks) + 1 /\ k = 1
            \/ h \in 1..Len(blocks) /\ k \in 1..Len(blocks[h]) /\ more[h][k] = blocks[h][k]
      BY <1>1, <3>2, <3>4, <3>5
    <3>8. Adds(Len(blocks) + 1, 1)
      BY <1>1, <3>1, <3>2, <3>3, <3>6, <3>7
    <3>9. Len(blocks) + 1 \in Nat /\ 1 \in Nat
      BY <1>1
    <3> HIDE DEF Adds
    <3> QED BY <3>8, <3>9
  <2>2. CASE blocks # <<>> /\ more = [blocks EXCEPT ![Len(blocks)] = Append(@, t)]
    <3> DEFINE z == Len(blocks)
               old == blocks[z]
    <3>1. z \in 1..Len(blocks) /\ old \in Seq(Tx) /\ Len(old) \in Nat
      BY <1>1, <2>2
    <3>2. /\ Append(old, t) \in Seq(Tx) /\ Len(Append(old, t)) = Len(old) + 1
          /\ Append(old, t)[Len(old) + 1] = t
          /\ \A k \in 1..Len(old) : Append(old, t)[k] = old[k]
      BY <3>1
    <3>3. more = [blocks EXCEPT ![z] = Append(old, t)]
      BY <2>2
    <3> HIDE DEF z, old
    <3>4. /\ more \in Seq(Block) /\ Len(more) = Len(blocks) /\ more[z] = Append(old, t)
          /\ \A h \in 1..Len(blocks) : h # z => more[h] = blocks[h]
      BY <1>1, <3>1, <3>2, <3>3 DEF Block
    <3>5. z \in 1..Len(more) /\ Len(old) + 1 \in 1..Len(more[z])
      BY <3>1, <3>2, <3>4
    <3>6. \A k \in 1..Len(more[z]) : k \in 1..Len(old) \/ k = Len(old) + 1
      BY <3>1, <3>2, <3>4
    <3>7. old = blocks[z]
      BY DEF old
    <3>8. \A h \in 1..Len(blocks) : \A k \in 1..Len(blocks[h]) :
             h \in 1..Len(more) /\ k \in 1..Len(more[h]) /\ more[h][k] = blocks[h][k]
      <4> SUFFICES ASSUME NEW h \in 1..Len(blocks), NEW k \in 1..Len(blocks[h])
                   PROVE  h \in 1..Len(more) /\ k \in 1..Len(more[h]) /\ more[h][k] = blocks[h][k]
        OBVIOUS
      <4>1. CASE h = z
        <5>1. blocks[h] = old /\ more[h] = Append(old, t) /\ k \in 1..Len(old)
          BY <3>4, <3>7, <4>1
        <5>2. k \in 1..(Len(old) + 1) /\ Append(old, t)[k] = old[k]
          BY <3>1, <3>2, <5>1
        <5>3. h \in 1..Len(more)
          BY <1>1, <3>4
        <5> QED BY <3>2, <5>1, <5>2, <5>3
      <4>2. CASE h # z
        BY <1>1, <3>4, <4>2
      <4> QED BY <4>1, <4>2
    <3>9. \A h \in 1..Len(more) : \A k \in 1..Len(more[h]) :
            \/ h = z /\ k = Len(old) + 1
            \/ h \in 1..Len(blocks) /\ k \in 1..Len(blocks[h]) /\ more[h][k] = blocks[h][k]
      BY <1>1, <3>1, <3>2, <3>4, <3>6, <3>7
    <3>10. Adds(z, Len(old) + 1)
      BY <1>1, <3>2, <3>4, <3>5, <3>8, <3>9
    <3>11. z \in Nat /\ Len(old) + 1 \in Nat
      BY <3>1
    <3> HIDE DEF Adds
    <3> QED BY <3>10, <3>11
  <2> HIDE DEF Adds
  <2> QED BY <2>1, <2>2 DEF Mined
<1>3. PICK last \in Nat, i \in Nat : Adds(last, i)
  BY <1>2
<1>4. ASSUME NEW u \in TxsOf(more) PROVE u \in TxsOf(blocks) \cup {t}
  <2>1. PICK h \in 1..Len(more) : \E k \in 1..Len(more[h]) : u = more[h][k]
    BY <1>3, TxsAre
  <2>4. PICK k \in 1..Len(more[h]) : u = more[h][k]
    BY <2>1
  <2>2. CASE h = last /\ k = i
    BY <1>3, <2>4, <2>2
  <2>3. CASE h \in 1..Len(blocks) /\ k \in 1..Len(blocks[h]) /\ more[h][k] = blocks[h][k]
    BY <2>4, <2>3, TxsAre
  <2> QED BY <1>3, <2>4, <2>2, <2>3
<1>5. ASSUME NEW u \in TxsOf(blocks) PROVE u \in TxsOf(more)
  <2>1. PICK h \in 1..Len(blocks) : \E k \in 1..Len(blocks[h]) : u = blocks[h][k]
    BY TxsAre
  <2>4. PICK k \in 1..Len(blocks[h]) : u = blocks[h][k]
    BY <2>1
  <2>2. h \in 1..Len(more) /\ k \in 1..Len(more[h]) /\ more[h][k] = u
    BY <1>3, <2>4
  <2> QED BY <1>3, <2>2, TxsAre
<1>6. t \in TxsOf(more)
  BY <1>3, TxsAre
<1>7. TxsOf(more) = TxsOf(blocks) \cup {t}
  BY <1>4, <1>5, <1>6
<1> QED BY <1>3, <1>7

\* The txid that is computed from a whole body is that of its transaction.
LEMMA TxidIs ==
  ASSUME chain \in Seq(Block), NEW t \in TxSet
  PROVE  TxidOfBody(Whole(t)) = t.id
<1> DEFINE u == CHOOSE u \in TxSet : Legacy(Whole(u)) = Legacy(Whole(t))
<1>1. u \in TxSet /\ Legacy(Whole(u)) = Legacy(Whole(t))
  OBVIOUS
<1>2. TxidOfBody(Whole(t)) = u.id
  BY <1>1 DEF TxidOfBody
<1> HIDE DEF u
<1>3. u \in Tx /\ t \in Tx
  BY <1>1, TxSetIs
<1>4. Coins(u) = Coins(t)
  BY <1>1 DEF Legacy, Whole
<1>5. 1 \in 1..Len(t.outs) /\ Len(u.outs) = Len(t.outs)
  BY <1>3, <1>4, CoinsIs
<1>6. Coins(u)[1] = [tx |-> u.id, n |-> 1] /\ Coins(t)[1] = [tx |-> t.id, n |-> 1]
  BY <1>3, <1>5, CoinsIs
<1> QED BY <1>2, <1>4, <1>6

\* The txids that are read from the record of a block are those of it.
LEMMA TxidsAre ==
  ASSUME chain \in Seq(Block), NEW h \in 1..Len(chain)
  PROVE  Txids(StripBlock(h)) = [i \in 1..Len(chain[h]) |-> chain[h][i].id]
<1>1. chain[h] \in Block /\ h \in Nat
  OBVIOUS
<1>2. DOMAIN chain[h] = 1..Len(chain[h]) /\ \A i \in 1..Len(chain[h]) : chain[h][i] \in Tx
  BY <1>1 DEF Block
<1> DEFINE r == StripBlock(h)
           filters == FlattenSeq(FiltersOfBlock(chain[h]))
<1>3. r = [frame |-> "good", digest |-> Digest(r), hash |-> h, header |-> h,
           txs |-> [i \in 1..Len(chain[h]) |-> Entry(chain[h][i])], filters |-> filters]
  BY <1>1, StripIs
<1> HIDE DEF r, filters
<1>4. r.txs = [i \in 1..Len(chain[h]) |-> Entry(chain[h][i])]
  BY <1>3
<1>5. ASSUME NEW i \in 1..Len(chain[h])
      PROVE  (IF r.txs[i].flag = "whole" THEN TxidOfBody(r.txs[i].body) ELSE r.txs[i].txid)
               = chain[h][i].id
  <2> DEFINE t == chain[h][i]
  <2>1. t \in TxSet /\ t \in Tx /\ r.txs[i] = Entry(t)
    BY <1>2, <1>4, TxSetIs
  <2> HIDE DEF t
  <2>2. /\ Entry(t).flag = Flag(t)
        /\ Entry(t).txid = IF Flag(t) = "whole" THEN None ELSE t.id
        /\ Entry(t).body = IF Flag(t) = "whole" THEN Whole(t)
                           ELSE IF Flag(t) = "modified" THEN RebuildWithout(t) ELSE None
    BY <2>1, EntryIs
  <2>3. TxidOfBody(Whole(t)) = t.id
    BY <2>1, TxidIs
  <2> QED BY <2>1, <2>2, <2>3 DEF t
<1>6. DOMAIN r.txs = 1..Len(chain[h])
  BY <1>4
<1>7. Txids(r) = [i \in 1..Len(chain[h]) |->
                    IF r.txs[i].flag = "whole" THEN TxidOfBody(r.txs[i].body) ELSE r.txs[i].txid]
  BY <1>6 DEF Txids
<1> QED BY <1>5, <1>7 DEF r

\* A record as it was written verifies against its header.
LEMMA WrittenVerifies ==
  ASSUME chain \in Seq(Block), NEW h \in 1..Len(chain)
  PROVE  Verified(StripBlock(h)) /\ Readable(StripBlock(h))
<1>1. chain[h] \in Block /\ h \in Nat /\ h \in DOMAIN chain /\ DOMAIN chain[h] = 1..Len(chain[h])
  BY DEF Block
<1> DEFINE r == StripBlock(h)
           txs == [i \in 1..Len(chain[h]) |-> Entry(chain[h][i])]
           filters == FlattenSeq(FiltersOfBlock(chain[h]))
<1>2. r = [frame |-> "good", digest |-> Digest(r), hash |-> h, header |-> h, txs |-> txs,
           filters |-> filters]
  BY <1>1, StripIs
<1>3. Txids(r) = [i \in 1..Len(chain[h]) |-> chain[h][i].id]
  BY TxidsAre
<1>4. Ids(chain[h]) = [i \in 1..Len(chain[h]) |-> chain[h][i].id]
  BY <1>1 DEF Ids
<1> HIDE DEF r, filters, txs
<1>5. r.frame = "good" /\ r.digest = Digest(r) /\ r.hash = h /\ r.header = h
  BY <1>2
<1>6. RootIn(h) = MerkleRoot(Ids(chain[h]))
  BY <1>1 DEF RootIn
<1>7. Verified(r)
  BY <1>3, <1>4, <1>5, <1>6 DEF Verified
<1>8. Readable(r)
  BY <1>5 DEF Readable
<1> QED BY <1>7, <1>8 DEF r

\* A file is read to its end if and only if all of it can be read.
LEMMA ReadInIs ==
  ASSUME NEW file \in Seq(Record)
  PROVE  /\ ReadIn(file) \in Seq(Record)
         /\ ReadIn(file) = file <=> \A j \in 1..Len(file) : Readable(file[j])
<1> DEFINE bad == {j \in DOMAIN file : ~Readable(file[j])}
           b == CHOOSE i \in bad : \A j \in bad : i <= j
<1>1. Len(file) \in Nat /\ DOMAIN file = 1..Len(file)
  OBVIOUS
<1>2. CASE bad = {}
  <2>1. ReadIn(file) = file
    BY <1>2 DEF ReadIn
  <2>2. \A j \in 1..Len(file) : Readable(file[j])
    BY <1>1, <1>2
  <2> QED BY <2>1, <2>2
<1>3. CASE bad # {}
  <2>1. bad \subseteq Nat
    BY <1>1
  <2>2. \E i \in bad : \A j \in bad : i <= j
    <3> HIDE DEF bad
    <3> QED BY <1>3, <2>1, LeastElement
  <2>3. b \in bad
    BY <2>2
  <2>4. ReadIn(file) = SubSeq(file, 1, b - 1)
    BY <1>3 DEF ReadIn
  <2> HIDE DEF b
  <2>5. b \in 1..Len(file) /\ ~Readable(file[b])
    BY <1>1, <2>3
  <2>6. b - 1 \in 0..Len(file) /\ b - 1 < Len(file)
    BY <1>1, <2>5
  <2> DEFINE c == b - 1
  <2>7. c \in 0..Len(file) /\ c < Len(file) /\ c \in Nat
    BY <1>1, <2>6
  <2> HIDE DEF c
  <2>8. SubSeq(file, 1, c) \in Seq(Record) /\ Len(SubSeq(file, 1, c)) = c
    <3>1. \A i \in 1..c : file[i] \in Record
      BY <1>1, <2>7
    <3>2. SubSeq(file, 1, c) = [i \in 1..c |-> file[i]]
      BY <1>1, <2>7
    <3> QED BY <2>7, <3>1, <3>2
  <2>9. SubSeq(file, 1, c) # file
    BY <2>7, <2>8
  <2> QED BY <2>4, <2>5, <2>8, <2>9 DEF c
<1> QED BY <1>2, <1>3

AllReadable == \A i \in 1..Len(files) : \A j \in 1..Len(files[i]) : Readable(files[i][j])

\* If nothing is bad, all can be read; if all can be read and verifies, then
\* nothing is bad and all is good.
LEMMA VerifyIs ==
  ASSUME files \in Seq(Seq(Record))
  PROVE  /\ VerifyStore.bad = 0 => AllReadable
         /\ AllReadable /\ (\A k \in 1..Len(OnDisk) : Verified(OnDisk[k])) =>
              VerifyStore = [ok |-> Len(OnDisk), bad |-> 0]
<1> DEFINE parts == [i \in DOMAIN files |-> ReadIn(files[i])]
           read == FlattenSeq(parts)
           good == {k \in DOMAIN read : Verified(read[k])}
           cut == {i \in DOMAIN files : ReadIn(files[i]) # files[i]}
<1>1. /\ Len(files) \in Nat /\ DOMAIN files = 1..Len(files)
      /\ \A i \in 1..Len(files) : files[i] \in Seq(Record)
  OBVIOUS
<1>2. VerifyStore = [ok |-> Cardinality(good),
                     bad |-> Len(read) - Cardinality(good) + Cardinality(cut)]
  BY DEF VerifyStore
<1>3. parts \in Seq(Seq(Record))
  <2>1. \A i \in 1..Len(files) : ReadIn(files[i]) \in Seq(Record)
    BY <1>1, ReadInIs
  <2> QED BY <1>1, <2>1
<1>4. read \in Seq(Record)
  <2> HIDE DEF parts
  <2> QED BY <1>3, FlattenHas
<1>5. AllReadable <=> \A i \in 1..Len(files) : ReadIn(files[i]) = files[i]
  BY <1>1, ReadInIs DEF AllReadable
<1>6. AllReadable => read = OnDisk
  <2> SUFFICES ASSUME AllReadable PROVE parts = files
    BY DEF OnDisk
  <2>1. parts = [i \in 1..Len(files) |-> files[i]]
    BY <1>1, <1>5
  <2> QED BY <1>1, <2>1
<1> HIDE DEF read
<1>7. /\ IsFiniteSet(good) /\ Cardinality(good) \in Nat /\ Cardinality(good) <= Len(read)
      /\ Len(read) \in Nat
  <2>1. Len(read) \in Nat /\ good \in SUBSET (1..Len(read))
    BY <1>4
  <2>2. IsFiniteSet(1..Len(read)) /\ Cardinality(1..Len(read)) = Len(read)
    BY <2>1, OneTo
  <2> HIDE DEF good
  <2>3. IsFiniteSet(good) /\ Cardinality(good) <= Len(read)
    BY <2>1, <2>2, FS_Subset
  <2> QED BY <2>1, <2>3, FS_CardinalityType
<1>8. IsFiniteSet(cut) /\ Cardinality(cut) \in Nat
  <2>1. cut \in SUBSET (1..Len(files)) /\ IsFiniteSet(1..Len(files))
    BY <1>1, OneTo
  <2> HIDE DEF cut
  <2>2. IsFiniteSet(cut)
    BY <2>1, FS_Subset
  <2> QED BY <2>2, FS_CardinalityType
<1>9. Cardinality(cut) = 0 <=> cut = {}
  <2> HIDE DEF cut
  <2> QED BY <1>8, FS_EmptySet
<1>10. cut = {} <=> AllReadable
  BY <1>1, <1>5
<1>11. VerifyStore.bad = 0 => Cardinality(cut) = 0
  <2> HIDE DEF cut, good
  <2> QED BY <1>2, <1>7, <1>8
<1>12. ASSUME AllReadable, \A k \in 1..Len(OnDisk) : Verified(OnDisk[k])
       PROVE  VerifyStore = [ok |-> Len(OnDisk), bad |-> 0]
  <2>1. read = OnDisk /\ Len(read) \in Nat
    BY <1>6, <1>7, <1>12
  <2>2. good = 1..Len(read)
    BY <1>4, <1>12, <2>1
  <2>3. Cardinality(good) = Len(read)
    <3>1. Cardinality(1..Len(read)) = Len(read)
      BY <2>1, OneTo
    <3> HIDE DEF good
    <3> QED BY <2>2, <3>1
  <2>4. Cardinality(cut) = 0
    BY <1>9, <1>10, <1>12
  <2> HIDE DEF good, cut
  <2> QED BY <1>2, <2>1, <2>3, <2>4
<1> QED BY <1>9, <1>10, <1>11, <1>12

-----------------------------------------------------------------------------
(* What the files hold.                                                    *)

\* The records of the blocks.
Strips == [h \in Nat |-> StripBlock(h)]

\* A record that was written for height h, and may have been damaged since.
Was(record, strips, h) == record.digest = <<>> \/ record.digest = Digest(strips[h])

Is(record, strips, h) == record = strips[h]

\* Every record was written for one of the heights 1 to n.
AllWere(fs, strips, n) ==
  \A i \in 1..Len(fs) : \A j \in 1..Len(fs[i]) : \E h \in 1..n : Was(fs[i][j], strips, h)

\* Where in the store each file ends.
Places == [Nat -> Nat]

\* The files 1 to n hold the heights from first to before upto, in order.
Holds(fs, n, off, first, upto, strips, faulty) ==
  /\ Offsets(off, fs, n)
  /\ first + off[n] = upto
  /\ \A i \in 1..n : \A j \in 1..Len(fs[i]) :
       /\ Was(fs[i][j], strips, first + off[i - 1] + (j - 1))
       /\ faulty = 0 => Is(fs[i][j], strips, first + off[i - 1] + (j - 1))

LEMMA StripsIs ==
  ASSUME chain \in Seq(Block), NEW h \in 1..Len(chain)
  PROVE  Strips[h] = StripBlock(h) /\ Strips[h] \in Record /\ Was(Strips[h], Strips, h)
<1>1. h \in Nat /\ chain[h] \in Block
  OBVIOUS
<1>2. StripBlock(h) \in Record /\ Digest(StripBlock(h)) = StripBlock(h).digest
  <2> DEFINE txs == [i \in 1..Len(chain[h]) |-> Entry(chain[h][i])]
             filters == FlattenSeq(FiltersOfBlock(chain[h]))
             digest == Digest(StripBlock(h))
  <2>1. StripBlock(h) \in Record
    BY <1>1, StripIs
  <2>2. StripBlock(h) = [frame |-> "good", digest |-> digest, hash |-> h, header |-> h,
                         txs |-> txs, filters |-> filters]
    BY <1>1, StripIs
  <2> HIDE DEF txs, filters, digest
  <2>3. StripBlock(h).digest = digest
    BY <2>2
  <2> QED BY <2>1, <2>3 DEF digest
<1>3. Strips[h] = StripBlock(h)
  BY <1>1 DEF Strips
<1> QED BY <1>2, <1>3 DEF Was

\* What writing and damage make of the files.
Appended(fs, n, r) == [fs EXCEPT ![n] = Append(@, r)]
Rolled(fs, n, r) == IF n \in DOMAIN fs THEN [fs EXCEPT ![n] = <<r>>] ELSE Append(fs, <<r>>)
Damaged(fs, p, q, r) == [fs EXCEPT ![p][q] = r]

LEMMA FilesAre ==
  ASSUME NEW fs \in Seq(Seq(Record))
  PROVE  /\ Len(fs) \in Nat /\ DOMAIN fs = 1..Len(fs)
         /\ \A i \in 1..Len(fs) : fs[i] \in Seq(Record) /\ Len(fs[i]) \in Nat
  OBVIOUS

\* ... said of each of their records.
IsAppended(more, fs, n, r) ==
  /\ Len(more) = Len(fs) /\ \A i \in 1..Len(fs) : Len(fs[i]) \in Nat
  /\ \A i \in 1..Len(fs) : i # n => more[i] = fs[i]
  /\ Len(more[n]) = Len(fs[n]) + 1 /\ more[n][Len(fs[n]) + 1] = r
  /\ \A j \in 1..Len(fs[n]) : more[n][j] = fs[n][j]

IsRolled(more, fs, n, r) ==
  /\ n \in 1..Len(more) /\ (Len(fs) = n - 1 => Len(more) = n) /\ more[n] = <<r>>
  /\ \A i \in 1..Len(fs) : Len(fs[i]) \in Nat
  /\ \A i \in 1..Len(more) : i = n \/ (i \in 1..Len(fs) /\ more[i] = fs[i])
  /\ \A i \in 1..(n - 1) : more[i] = fs[i]

IsDamaged(more, fs, p, q, r) ==
  /\ Len(more) = Len(fs) /\ \A i \in 1..Len(fs) : Len(more[i]) = Len(fs[i])
  /\ \A i \in 1..Len(fs) : \A j \in 1..Len(fs[i]) :
       more[i][j] = fs[i][j] \/ (i = p /\ j = q /\ more[i][j] = r)

LEMMA AppendedIs ==
  ASSUME NEW fs \in Seq(Seq(Record)), NEW n \in 1..Len(fs), NEW r \in Record
  PROVE  /\ Appended(fs, n, r) \in Seq(Seq(Record))
         /\ IsAppended(Appended(fs, n, r), fs, n, r)
<1> DEFINE file == Append(fs[n], r)
<1>1. /\ Len(fs) \in Nat /\ \A i \in 1..Len(fs) : fs[i] \in Seq(Record) /\ Len(fs[i]) \in Nat
  BY FilesAre
<1>2. Appended(fs, n, r) = [fs EXCEPT ![n] = file]
  BY DEF Appended
<1>3. /\ file \in Seq(Record) /\ Len(file) = Len(fs[n]) + 1 /\ file[Len(fs[n]) + 1] = r
      /\ \A j \in 1..Len(fs[n]) : file[j] = fs[n][j]
  BY <1>1
<1> HIDE DEF file
<1>4. /\ Appended(fs, n, r) \in Seq(Seq(Record)) /\ Len(Appended(fs, n, r)) = Len(fs)
      /\ \A i \in 1..Len(fs) : i # n => Appended(fs, n, r)[i] = fs[i]
      /\ Appended(fs, n, r)[n] = file
  BY <1>1, <1>2, <1>3
<1> QED BY <1>1, <1>3, <1>4 DEF IsAppended

LEMMA NextOrEnd ==
  ASSUME NEW m \in Nat, NEW n \in 0..m
  PROVE  (n + 1 \in 1..m /\ n # m) \/ (n + 1 \notin 1..m /\ n = m)
  OBVIOUS

LEMMA RolledIs ==
  ASSUME NEW fs \in Seq(Seq(Record)), NEW n \in 0..Len(fs), NEW r \in Record
  PROVE  /\ Rolled(fs, n + 1, r) \in Seq(Seq(Record))
         /\ IsRolled(Rolled(fs, n + 1, r), fs, n + 1, r)
<1> DEFINE file == <<r>>
           more == Rolled(fs, n + 1, r)
<1>1. Len(fs) \in Nat /\ DOMAIN fs = 1..Len(fs) /\ n \in Nat /\ (n + 1) - 1 = n
  BY FilesAre
<1>2. more = IF n + 1 \in 1..Len(fs) THEN [fs EXCEPT ![n + 1] = file] ELSE Append(fs, file)
  BY <1>1 DEF Rolled
<1>3. file \in Seq(Record)
  OBVIOUS
<1> HIDE DEF file, more
<1>4. /\ more \in Seq(Seq(Record)) /\ n + 1 \in 1..Len(more) /\ more[n + 1] = file
      /\ Len(fs) = n => Len(more) = n + 1
      /\ \A i \in 1..Len(more) : i = n + 1 \/ (i \in 1..Len(fs) /\ more[i] = fs[i])
      /\ \A i \in 1..n : more[i] = fs[i]
  <2>1. CASE n + 1 \in 1..Len(fs)
    <3> DEFINE m == n + 1
    <3>1. more = [fs EXCEPT ![m] = file] /\ m \in 1..Len(fs) /\ m = n + 1
      BY <1>2, <2>1
    <3>2. \A i \in 1..n : i # m /\ i \in 1..Len(fs)
      BY <1>1, <3>1
    <3> HIDE DEF m
    <3>3. /\ more \in Seq(Seq(Record)) /\ Len(more) = Len(fs) /\ more[m] = file
          /\ \A i \in 1..Len(fs) : i # m => more[i] = fs[i]
      BY <1>3, <3>1
    <3>4. Len(fs) # n
      BY <1>1, <2>1, NextOrEnd
    <3> QED BY <3>1, <3>2, <3>3, <3>4
  <2>2. CASE n + 1 \notin 1..Len(fs)
    <3>1. Len(fs) = n
      BY <1>1, <2>2, NextOrEnd
    <3>2. more = Append(fs, file)
      BY <1>2, <2>2
    <3>3. /\ more \in Seq(Seq(Record)) /\ Len(more) = n + 1 /\ more[n + 1] = file
          /\ \A i \in 1..n : more[i] = fs[i]
      BY <1>3, <3>1, <3>2
    <3>4. \A i \in 1..(n + 1) : i = n + 1 \/ i \in 1..n
      BY <1>1
    <3> QED BY <1>1, <3>1, <3>3, <3>4
  <2> QED BY <2>1, <2>2
<1>5. \A i \in 1..Len(fs) : Len(fs[i]) \in Nat
  BY FilesAre
<1> QED BY <1>1, <1>4, <1>5 DEF file, more, IsRolled

LEMMA DamagedIs ==
  ASSUME NEW fs \in Seq(Seq(Record)), NEW p \in 1..Len(fs), NEW q \in 1..Len(fs[p]),
         NEW r \in Record
  PROVE  /\ Damaged(fs, p, q, r) \in Seq(Seq(Record))
         /\ IsDamaged(Damaged(fs, p, q, r), fs, p, q, r)
<1> DEFINE file == [fs[p] EXCEPT ![q] = r]
<1>1. /\ Len(fs) \in Nat /\ \A i \in 1..Len(fs) : fs[i] \in Seq(Record) /\ Len(fs[i]) \in Nat
  BY FilesAre
<1>2. Damaged(fs, p, q, r) = [fs EXCEPT ![p] = file]
  BY DEF Damaged
<1>3. /\ file \in Seq(Record) /\ Len(file) = Len(fs[p]) /\ file[q] = r
      /\ \A j \in 1..Len(fs[p]) : j # q => file[j] = fs[p][j]
  BY <1>1
<1> HIDE DEF file
<1>4. /\ Damaged(fs, p, q, r) \in Seq(Seq(Record)) /\ Len(Damaged(fs, p, q, r)) = Len(fs)
      /\ \A i \in 1..Len(fs) : i # p => Damaged(fs, p, q, r)[i] = fs[i]
      /\ Damaged(fs, p, q, r)[p] = file
  BY <1>1, <1>2, <1>3
<1>5. ASSUME NEW i \in 1..Len(fs), NEW j \in 1..Len(fs[i])
      PROVE  \/ Damaged(fs, p, q, r)[i][j] = fs[i][j]
             \/ i = p /\ j = q /\ Damaged(fs, p, q, r)[i][j] = r
  <2>1. CASE i = p
    BY <1>3, <1>4, <2>1
  <2>2. CASE i # p
    BY <1>4, <2>2
  <2> QED BY <2>1, <2>2
<1>6. \A i \in 1..Len(fs) : Len(Damaged(fs, p, q, r)[i]) = Len(fs[i])
  BY <1>3, <1>4
<1> QED BY <1>4, <1>5, <1>6 DEF IsDamaged

LEMMA NextOffset ==
  ASSUME NEW off \in Places, NEW n \in Nat, NEW m \in Nat
  PROVE  \E to \in Places : to[n] = m /\ \A i \in 0..n : i # n => to[i] = off[i] /\ off[i] \in Nat
<1> DEFINE to == [off EXCEPT ![n] = m]
<1>1. /\ to \in Places /\ to[n] = m
      /\ \A i \in 0..n : i # n => to[i] = off[i] /\ off[i] \in Nat
  BY DEF Places
<1> HIDE DEF to
<1> QED BY <1>1

\* A record is appended to the open file ...
LEMMA AppendHolds ==
  ASSUME NEW fs, Len(fs) \in Nat, NEW n \in Nat \ {0}, n <= Len(fs), NEW off \in Places,
         NEW first \in Nat, NEW upto \in Nat, NEW strips, NEW faulty \in Nat,
         Holds(fs, n, off, first, upto, strips, faulty),
         NEW r, Is(r, strips, upto), Was(r, strips, upto),
         NEW top \in Nat, AllWere(fs, strips, top), upto \in 1..top,
         NEW more, IsAppended(more, fs, n, r)
  PROVE  /\ AllWere(more, strips, top)
         /\ \E to \in Places : Holds(more, n, to, first, upto + 1, strips, faulty)
<1>1. n - 1 \in Nat /\ n - 1 # n /\ n \in 1..Len(fs)
  OBVIOUS
<1>2. \A i \in 1..Len(fs) : Len(fs[i]) \in Nat
  BY DEF IsAppended
<1>3. /\ Len(more) = Len(fs) /\ Len(more[n]) = Len(fs[n]) + 1 /\ more[n][Len(fs[n]) + 1] = r
      /\ \A i \in 1..Len(fs) : i # n => more[i] = fs[i]
      /\ \A j \in 1..Len(fs[n]) : more[n][j] = fs[n][j]
  BY DEF IsAppended
<1>4. \A i \in 1..Len(fs) : \A j \in 1..Len(more[i]) :
        \/ i = n /\ j = Len(fs[n]) + 1 /\ more[i][j] = r
        \/ j \in 1..Len(fs[i]) /\ more[i][j] = fs[i][j]
  <2> SUFFICES ASSUME NEW i \in 1..Len(fs), NEW j \in 1..Len(more[i])
               PROVE  \/ i = n /\ j = Len(fs[n]) + 1 /\ more[i][j] = r
                      \/ j \in 1..Len(fs[i]) /\ more[i][j] = fs[i][j]
    OBVIOUS
  <2>1. CASE i = n
    <3>1. Len(fs[n]) \in Nat /\ j \in 1..(Len(fs[n]) + 1)
      BY <1>1, <1>2, <1>3, <2>1
    <3>2. j \in 1..Len(fs[n]) \/ j = Len(fs[n]) + 1
      BY <3>1
    <3> QED BY <1>3, <2>1, <3>2
  <2>2. CASE i # n
    BY <1>3, <2>2
  <2> QED BY <2>1, <2>2
<1>5. AllWere(more, strips, top)
  <2> SUFFICES ASSUME NEW i \in 1..Len(fs), NEW j \in 1..Len(more[i])
               PROVE  \E h \in 1..top : Was(more[i][j], strips, h)
    BY <1>3 DEF AllWere
  <2>1. CASE more[i][j] = r
    BY <2>1
  <2>2. CASE j \in 1..Len(fs[i]) /\ more[i][j] = fs[i][j]
    BY <2>2 DEF AllWere
  <2> QED BY <1>4, <2>1, <2>2
<1>6. off[0] = 0 /\ \A i \in 1..n : off[i] = off[i - 1] + Len(fs[i])
  BY DEF Holds, Offsets
<1>7. first + off[n] = upto /\ off[n] \in Nat /\ off[n] + 1 \in Nat
  <2>1. off[n] \in Nat
    BY DEF Places
  <2> QED BY <2>1 DEF Holds
<1>8. PICK to \in Places : to[n] = off[n] + 1 /\ \A i \in 0..n : i # n => to[i] = off[i] /\ off[i] \in Nat
  BY <1>7, NextOffset
<1>9. to[n] = off[n] + 1
  BY <1>8
<1>10. \A i \in 0..n : i # n => to[i] = off[i] /\ off[i] \in Nat
  BY <1>8
<1>11. Offsets(to, more, n)
  <2>1. to[0] = 0
    BY <1>6, <1>10
  <2>2. ASSUME NEW i \in 1..n PROVE to[i] = to[i - 1] + Len(more[i])
    <3>1. i \in 1..Len(fs) /\ i - 1 \in 0..n /\ i - 1 # n /\ i \in 0..n
      OBVIOUS
    <3>2. to[i - 1] = off[i - 1] /\ off[i - 1] \in Nat /\ Len(fs[i]) \in Nat
      BY <1>2, <1>10, <3>1
    <3>3. off[i] = off[i - 1] + Len(fs[i])
      BY <1>6
    <3>4. CASE i = n
      <4>1. to[i] = off[i] + 1 /\ Len(more[i]) = Len(fs[i]) + 1
        BY <1>3, <1>9, <3>4
      <4> QED BY <3>2, <3>3, <4>1
    <3>5. CASE i # n
      <4>1. to[i] = off[i] /\ more[i] = fs[i]
        BY <1>3, <1>10, <3>1, <3>5
      <4> QED BY <3>2, <3>3, <4>1
    <3> QED BY <3>4, <3>5
  <2> QED BY <2>1, <2>2 DEF Offsets
<1>12. first + to[n] = upto + 1
  <2>1. PICK o \in Nat : o = off[n] /\ first + o = upto /\ to[n] = o + 1
    BY <1>7, <1>9
  <2>2. first + (o + 1) = upto + 1
    <3>1. first + o = upto
      BY <2>1
    <3> QED BY <3>1
  <2> QED BY <2>1, <2>2
<1>13. ASSUME NEW i \in 1..n, NEW j \in 1..Len(more[i])
       PROVE  /\ Was(more[i][j], strips, first + to[i - 1] + (j - 1))
              /\ faulty = 0 => Is(more[i][j], strips, first + to[i - 1] + (j - 1))
  <2>1. i \in 1..Len(fs) /\ i - 1 \in 0..n /\ i - 1 # n
    OBVIOUS
  <2>2. to[i - 1] = off[i - 1] /\ off[i - 1] \in Nat /\ Len(fs[i]) \in Nat
    BY <1>2, <1>10, <2>1
  <2>3. CASE i = n /\ j = Len(fs[n]) + 1 /\ more[i][j] = r
    <3>1. off[n] = off[i - 1] + (j - 1)
      <4>1. off[n] = off[i - 1] + Len(fs[i]) /\ j = Len(fs[i]) + 1
        BY <1>6, <2>3
      <4> QED BY <2>2, <4>1
    <3>2. first + off[i - 1] + (j - 1) = upto
      BY <1>7, <2>2, <3>1
    <3> QED BY <2>2, <2>3, <3>2
  <2>4. CASE j \in 1..Len(fs[i]) /\ more[i][j] = fs[i][j]
    BY <2>2, <2>4 DEF Holds
  <2> QED BY <1>4, <2>1, <2>3, <2>4
<1>14. Holds(more, n, to, first, upto + 1, strips, faulty)
  BY <1>11, <1>12, <1>13 DEF Holds
<1> QED BY <1>5, <1>14

\* ... or is the first of the next one, which may have been there.
LEMMA RollHolds ==
  ASSUME NEW fs, Len(fs) \in Nat, NEW n \in Nat \ {0}, n <= Len(fs), NEW off \in Places,
         NEW first \in Nat, NEW upto \in Nat, NEW strips, NEW faulty \in Nat,
         Holds(fs, n, off, first, upto, strips, faulty),
         NEW r, Is(r, strips, upto), Was(r, strips, upto),
         NEW top \in Nat, AllWere(fs, strips, top), upto \in 1..top,
         NEW more, IsRolled(more, fs, n + 1, r)
  PROVE  /\ AllWere(more, strips, top)
         /\ \E to \in Places : Holds(more, n + 1, to, first, upto + 1, strips, faulty)
<1>1. n + 1 \in Nat /\ (n + 1) - 1 = n
  OBVIOUS
<1>2. \A i \in 1..n : i \in 1..Len(fs)
  OBVIOUS
<1>3. /\ more[n + 1] = <<r>> /\ \A i \in 1..Len(fs) : Len(fs[i]) \in Nat
      /\ \A i \in 1..Len(more) : i = n + 1 \/ (i \in 1..Len(fs) /\ more[i] = fs[i])
      /\ \A i \in 1..n : more[i] = fs[i]
  BY <1>1 DEF IsRolled
<1>4. Len(more[n + 1]) = 1 /\ more[n + 1][1] = r
  BY <1>3
<1>5. AllWere(more, strips, top)
  <2> SUFFICES ASSUME NEW i \in 1..Len(more), NEW j \in 1..Len(more[i])
               PROVE  \E h \in 1..top : Was(more[i][j], strips, h)
    BY DEF AllWere
  <2>1. CASE i = n + 1
    <3>1. Len(more[i]) = 1 /\ more[i][1] = r
      BY <1>4, <2>1
    <3>2. j = 1
      BY <3>1
    <3> QED BY <3>1, <3>2
  <2>2. CASE i \in 1..Len(fs) /\ more[i] = fs[i]
    BY <2>2 DEF AllWere
  <2> QED BY <1>3, <2>1, <2>2
<1>6. off[0] = 0 /\ \A i \in 1..n : off[i] = off[i - 1] + Len(fs[i])
  BY DEF Holds, Offsets
<1>7. first + off[n] = upto /\ off[n] \in Nat /\ off[n] + 1 \in Nat
  <2>1. off[n] \in Nat
    BY DEF Places
  <2> QED BY <2>1 DEF Holds
<1>8. PICK to \in Places :
        to[n + 1] = off[n] + 1 /\ \A i \in 0..(n + 1) : i # n + 1 => to[i] = off[i] /\ off[i] \in Nat
  BY <1>1, <1>7, NextOffset
<1>9. to[n + 1] = off[n] + 1
  BY <1>8
<1>10. \A i \in 0..n : to[i] = off[i] /\ off[i] \in Nat
  BY <1>8
<1>11. Offsets(to, more, n + 1)
  <2>1. to[0] = 0
    BY <1>6, <1>10
  <2>2. ASSUME NEW i \in 1..(n + 1) PROVE to[i] = to[i - 1] + Len(more[i])
    <3>1. CASE i = n + 1
      <4>1. i - 1 = n /\ n \in 0..n
        BY <3>1
      <4>2. to[i - 1] = off[n] /\ Len(more[i]) = 1 /\ to[i] = off[n] + 1
        BY <1>4, <1>9, <1>10, <3>1, <4>1
      <4> QED BY <4>2
    <3>2. CASE i # n + 1
      <4>1. i \in 1..n /\ i \in 0..n /\ i - 1 \in 0..n
        BY <3>2
      <4>2. to[i] = off[i] /\ to[i - 1] = off[i - 1] /\ more[i] = fs[i]
        BY <1>3, <1>10, <4>1
      <4> QED BY <1>6, <4>1, <4>2
    <3> QED BY <3>1, <3>2
  <2> QED BY <2>1, <2>2 DEF Offsets
<1>12. first + to[n + 1] = upto + 1
  <2>1. PICK o \in Nat : o = off[n] /\ first + o = upto /\ to[n + 1] = o + 1
    BY <1>7, <1>9
  <2>2. first + (o + 1) = upto + 1
    <3>1. first + o = upto
      BY <2>1
    <3> QED BY <3>1
  <2> QED BY <2>1, <2>2
<1>13. ASSUME NEW i \in 1..(n + 1), NEW j \in 1..Len(more[i])
       PROVE  /\ Was(more[i][j], strips, first + to[i - 1] + (j - 1))
              /\ faulty = 0 => Is(more[i][j], strips, first + to[i - 1] + (j - 1))
  <2>1. CASE i = n + 1
    <3>1. j = 1 /\ more[i][j] = r
      <4>1. Len(more[i]) = 1 /\ more[i][1] = r
        BY <1>4, <2>1
      <4> QED BY <4>1
    <3>2. i - 1 = n /\ n \in 0..n /\ j - 1 = 0
      BY <2>1, <3>1
    <3>3. to[i - 1] = off[n]
      BY <1>10, <3>2
    <3>4. first + to[i - 1] + (j - 1) = upto
      BY <1>7, <3>2, <3>3
    <3> QED BY <3>1, <3>4
  <2>2. CASE i # n + 1
    <3>1. i \in 1..n /\ i - 1 \in 0..n
      BY <2>2
    <3>2. more[i] = fs[i] /\ to[i - 1] = off[i - 1]
      BY <1>3, <1>10, <3>1
    <3>3. j \in 1..Len(fs[i])
      BY <3>2
    <3> QED BY <3>1, <3>2, <3>3 DEF Holds
  <2> QED BY <2>1, <2>2
<1>14. Holds(more, n + 1, to, first, upto + 1, strips, faulty)
  BY <1>11, <1>12, <1>13 DEF Holds
<1> QED BY <1>5, <1>14

\* A record that is damaged keeps its digest or loses it.
LEMMA DamageHolds ==
  ASSUME NEW fs, Len(fs) \in Nat, NEW p, NEW q,
         NEW r, r.digest = <<>> \/ r.digest = fs[p][q].digest,
         NEW strips, NEW top \in Nat, AllWere(fs, strips, top),
         NEW more, IsDamaged(more, fs, p, q, r)
  PROVE  /\ AllWere(more, strips, top)
         /\ \A n \in 1..Len(fs) : \A off \in Places : \A first, upto, faulty \in Nat :
              Holds(fs, n, off, first, upto, strips, faulty) =>
                Holds(more, n, off, first, upto, strips, faulty + 1)
<1>1. Len(fs) \in Nat
  OBVIOUS
<1>2. /\ Len(more) = Len(fs) /\ \A i \in 1..Len(fs) : Len(more[i]) = Len(fs[i])
      /\ \A i \in 1..Len(fs) : \A j \in 1..Len(fs[i]) :
           more[i][j] = fs[i][j] \/ (i = p /\ j = q /\ more[i][j] = r)
  BY DEF IsDamaged
<1>3. \A i \in 1..Len(fs) : \A j \in 1..Len(fs[i]) : \A h :
        Was(fs[i][j], strips, h) => Was(more[i][j], strips, h)
  BY <1>2 DEF Was
<1>4. AllWere(more, strips, top)
  <2> SUFFICES ASSUME NEW i \in 1..Len(fs), NEW j \in 1..Len(fs[i])
               PROVE  \E h \in 1..top : Was(more[i][j], strips, h)
    BY <1>2 DEF AllWere
  <2>1. PICK h \in 1..top : Was(fs[i][j], strips, h)
    BY DEF AllWere
  <2> QED BY <1>3, <2>1
<1>5. ASSUME NEW n \in 1..Len(fs), NEW off \in Places, NEW first \in Nat, NEW upto \in Nat,
             NEW faulty \in Nat, Holds(fs, n, off, first, upto, strips, faulty)
      PROVE  Holds(more, n, off, first, upto, strips, faulty + 1)
  <2>1. \A i \in 1..n : i \in 1..Len(fs)
    BY <1>1
  <2>2. Offsets(off, more, n)
    BY <1>2, <1>5, <2>1 DEF Holds, Offsets
  <2>3. ASSUME NEW i \in 1..n, NEW j \in 1..Len(more[i])
        PROVE  Was(more[i][j], strips, first + off[i - 1] + (j - 1))
    <3>1. i \in 1..Len(fs) /\ j \in 1..Len(fs[i])
      BY <1>2, <2>1
    <3>2. Was(fs[i][j], strips, first + off[i - 1] + (j - 1))
      BY <1>5, <3>1 DEF Holds
    <3> QED BY <1>3, <3>1, <3>2
  <2>4. faulty + 1 # 0
    OBVIOUS
  <2>5. first + off[n] = upto
    BY <1>5 DEF Holds
  <2> QED BY <2>2, <2>3, <2>4, <2>5 DEF Holds
<1> QED BY <1>4, <1>5

\* A run that is killed leaves a part of a file, whose last record may be cut.
Killed(file) ==
  Prefixes(file)
    \cup {Append(left, [file[Len(left) + 1] EXCEPT !.frame = "cut"]) :
            left \in {l \in Prefixes(file) : Len(l) < Len(file)}}

LEMMA KilledIs ==
  ASSUME NEW file \in Seq(Record), NEW left \in Killed(file)
  PROVE  /\ left \in Seq(Record) /\ Len(left) \in Nat /\ Len(left) <= Len(file)
         /\ \A j \in 1..Len(left) : left[j].digest = file[j].digest
<1>1. Len(file) \in Nat /\ \A j \in 1..Len(file) : file[j] \in Record
  OBVIOUS
<1>2. ASSUME NEW l \in Prefixes(file)
      PROVE  /\ l \in Seq(Record) /\ Len(l) \in Nat /\ Len(l) <= Len(file)
             /\ \A j \in 1..Len(l) : l[j] = file[j]
  <2>1. PICK n \in 0..Len(file) : l = SubSeq(file, 1, n)
    BY DEF Prefixes
  <2>2. n \in Nat /\ n <= Len(file) /\ \A j \in 1..n : j \in 1..Len(file)
    BY <1>1
  <2>3. l = [j \in 1..n |-> file[j]]
    BY <1>1, <2>1, <2>2
  <2> QED BY <1>1, <2>2, <2>3
<1>3. CASE left \in Prefixes(file)
  BY <1>1, <1>2, <1>3
<1>4. CASE \E l \in Prefixes(file) :
             Len(l) < Len(file) /\ left = Append(l, [file[Len(l) + 1] EXCEPT !.frame = "cut"])
  <2>1. PICK l \in Prefixes(file) :
               Len(l) < Len(file) /\ left = Append(l, [file[Len(l) + 1] EXCEPT !.frame = "cut"])
    BY <1>4
  <2>2. /\ l \in Seq(Record) /\ Len(l) \in Nat
        /\ \A j \in 1..Len(l) : l[j] = file[j]
    BY <1>2
  <2> DEFINE n == Len(l) + 1
             cut == [file[n] EXCEPT !.frame = "cut"]
  <2>3. n \in 1..Len(file) /\ file[n] \in Record
    BY <1>1, <2>1, <2>2
  <2>4. cut \in Record /\ cut.digest = file[n].digest
    BY <2>3 DEF Record
  <2>5. left = Append(l, cut)
    BY <2>1
  <2> HIDE DEF cut
  <2>6. /\ left \in Seq(Record) /\ Len(left) = n /\ left[n] = cut
        /\ \A j \in 1..Len(l) : left[j] = l[j]
    BY <2>2, <2>4, <2>5
  <2>7. \A j \in 1..n : j = n \/ j \in 1..Len(l)
    BY <2>2
  <2> QED BY <2>2, <2>3, <2>4, <2>6, <2>7
<1> QED BY <1>3, <1>4 DEF Killed

LEMMA KillHolds ==
  ASSUME NEW fs \in Seq(Seq(Record)), NEW n \in 1..Len(fs), NEW left \in Killed(fs[n]),
         NEW strips, NEW top \in Nat, AllWere(fs, strips, top)
  PROVE  /\ [fs EXCEPT ![n] = left] \in Seq(Seq(Record))
         /\ Len([fs EXCEPT ![n] = left]) = Len(fs)
         /\ AllWere([fs EXCEPT ![n] = left], strips, top)
<1> DEFINE more == [fs EXCEPT ![n] = left]
<1>1. /\ Len(fs) \in Nat /\ \A i \in 1..Len(fs) : fs[i] \in Seq(Record) /\ Len(fs[i]) \in Nat
  BY FilesAre
<1>2. /\ left \in Seq(Record) /\ Len(left) \in Nat /\ Len(left) <= Len(fs[n])
      /\ \A j \in 1..Len(left) : left[j].digest = fs[n][j].digest
  BY <1>1, KilledIs
<1>3. /\ more \in Seq(Seq(Record)) /\ Len(more) = Len(fs) /\ more[n] = left
      /\ \A i \in 1..Len(fs) : i # n => more[i] = fs[i]
  BY <1>1, <1>2
<1> HIDE DEF more
<1>4. ASSUME NEW i \in 1..Len(fs), NEW j \in 1..Len(more[i])
      PROVE  \E h \in 1..top : Was(more[i][j], strips, h)
  <2>1. j \in 1..Len(fs[i]) /\ more[i][j].digest = fs[i][j].digest
    <3>1. CASE i = n
      <4>1. j \in 1..Len(left) /\ more[i][j].digest = left[j].digest
        BY <1>3, <3>1
      <4>2. Len(fs[n]) \in Nat
        BY <1>1
      <4>3. j \in 1..Len(fs[n])
        BY <1>2, <4>1, <4>2
      <4> QED BY <1>2, <3>1, <4>1, <4>3
    <3>2. CASE i # n
      BY <1>3, <3>2
    <3> QED BY <3>1, <3>2
  <2>2. PICK h \in 1..top : Was(fs[i][j], strips, h)
    BY <2>1 DEF AllWere
  <2> QED BY <2>1, <2>2 DEF Was
<1> QED BY <1>3, <1>4 DEF AllWere, more

\* Damage leaves a record.
LEMMA FormsAre ==
  ASSUME NEW record \in Record, NEW r \in DamagedForms(record)
  PROVE  r \in Record /\ (r.digest = <<>> \/ r.digest = record.digest)
<1>1. Junk \in Coin
  BY DEF Junk, Coin
<1>2. ASSUME NEW e \in EntryForm
      PROVE  DamagedEntry(e) \in EntryForm
  <2>1. CASE e.flag = "stripped"
    <3>1. DamagedEntry(e) = [e EXCEPT !.txid = 0]
      BY <2>1 DEF DamagedEntry
    <3> QED BY <2>1, <3>1 DEF EntryForm
  <2>2. CASE e.flag # "stripped"
    <3>1. e.body \in Body
      BY <2>2 DEF EntryForm
    <3>2. e.body.outs \in Seq(Coin)
      BY <3>1 DEF Body
    <3> DEFINE outs == [e.body.outs EXCEPT ![1] = Junk]
               body == [e.body EXCEPT !.outs = outs]
    <3>3. outs \in Seq(Coin)
      <4>1. 1 \in Nat
        OBVIOUS
      <4>2. PICK q \in Seq(Coin) : q = e.body.outs
        BY <3>2
      <4>3. [q EXCEPT ![1] = Junk] \in Seq(Coin)
        BY <1>1, <4>1, Replaced
      <4> QED BY <4>2, <4>3
    <3> HIDE DEF outs
    <3>4. body \in Body
      BY <3>1, <3>3 DEF Body
    <3>5. DamagedEntry(e) = [e EXCEPT !.body = body]
      BY <2>2, Zenon DEF DamagedEntry, outs
    <3> HIDE DEF body
    <3> QED BY <2>2, <3>4, <3>5 DEF EntryForm
  <2> QED BY <2>1, <2>2
<1>3. record.txs \in Seq(EntryForm) /\ record.filters \in Seq(Filter)
  BY DEF Record
<1>4. CASE r \in {[record EXCEPT !.frame = "bad"], [record EXCEPT !.digest = <<>>],
                  [record EXCEPT !.hash = 0], [record EXCEPT !.header = 0]}
  BY <1>4 DEF Record
<1>5. CASE \E i \in DOMAIN record.txs :
             r = [record EXCEPT !.txs[i] = DamagedEntry(record.txs[i])]
  <2>1. PICK i \in DOMAIN record.txs :
               r = [record EXCEPT !.txs[i] = DamagedEntry(record.txs[i])]
    BY <1>5
  <2>2. record.txs[i] \in EntryForm
    BY <1>3
  <2> DEFINE e == DamagedEntry(record.txs[i])
             txs == [record.txs EXCEPT ![i] = e]
  <2>3. e \in EntryForm
    BY <1>2, <2>2
  <2>4. r = [record EXCEPT !.txs = txs]
    BY <2>1, Zenon
  <2> HIDE DEF e
  <2>5. txs \in Seq(EntryForm)
    BY <1>3, <2>3
  <2> HIDE DEF txs
  <2> QED BY <2>4, <2>5 DEF Record
<1>6. CASE \E i \in DOMAIN record.filters :
             r = [record EXCEPT !.filters[i].coin = Junk]
  <2>1. PICK i \in DOMAIN record.filters :
               r = [record EXCEPT !.filters[i].coin = Junk]
    BY <1>6
  <2>2. record.filters[i] \in Filter
    BY <1>3
  <2> DEFINE e == [record.filters[i] EXCEPT !.coin = Junk]
             filters == [record.filters EXCEPT ![i] = e]
  <2>3. e \in Filter
    BY <1>1, <2>2 DEF Filter
  <2>4. r = [record EXCEPT !.filters = filters]
    BY <2>1, Zenon
  <2> HIDE DEF e
  <2>5. filters \in Seq(Filter)
    BY <1>3, <2>3
  <2> HIDE DEF filters
  <2> QED BY <2>4, <2>5 DEF Record
<1> QED BY <1>4, <1>5, <1>6 DEF DamagedForms

-----------------------------------------------------------------------------
(* The inductive invariant.                                                *)

\* The ids of transactions are the numbers of them mined so far, so no two of
\* a block are the same.
Sound(blocks) ==
  /\ blocks \in Seq(Block)
  /\ IsFiniteSet(TxsOf(blocks))
  /\ \A t \in TxsOf(blocks) : t.id <= Cardinality(TxsOf(blocks))
  /\ \A h \in 1..Len(blocks) : \A i, j \in 1..Len(blocks[h]) :
       blocks[h][i].id = blocks[h][j].id => i = j

LEMMA NoBlocks == Sound(<<>>)
<1>1. <<>> \in Seq(Block) /\ Len(<<>>) = 0
  OBVIOUS
<1>2. \A blocks \in Seq(Block) : Len(blocks) = 0 => TxsOf(blocks) = {}
  <2> SUFFICES ASSUME NEW blocks \in Seq(Block), Len(blocks) = 0, NEW t \in TxsOf(blocks)
               PROVE  FALSE
    OBVIOUS
  <2>1. \E h \in 1..Len(blocks) : \E i \in 1..Len(blocks[h]) : t = blocks[h][i]
    BY TxsAre
  <2> QED BY <2>1
<1>3. TxsOf(<<>>) = {}
  BY <1>1, <1>2
<1> QED BY <1>1, <1>3, FS_EmptySet DEF Sound

LEMMA SoundGrows ==
  ASSUME NEW blocks, Sound(blocks), NEW t \in Tx, t.id = Cardinality(TxsOf(blocks)) + 1,
         NEW more \in Mined(blocks, t)
  PROVE  Sound(more)
<1> DEFINE N == Cardinality(TxsOf(blocks))
<1>1. blocks \in Seq(Block) /\ IsFiniteSet(TxsOf(blocks)) /\ N \in Nat
  BY FS_CardinalityType DEF Sound
<1>2. more \in Seq(Block) /\ TxsOf(more) = TxsOf(blocks) \cup {t}
  BY <1>1, MinedAdds
<1>3. \A u \in TxsOf(blocks) : u.id \in Nat /\ u.id <= N /\ u.id # t.id
  <2>1. TxsOf(blocks) \subseteq Tx
    BY <1>1, TxsAre
  <2>2. \A u \in TxsOf(blocks) : u.id \in Nat /\ u.id <= N
    BY <2>1 DEF Sound, Tx
  <2> HIDE DEF N
  <2>3. t.id = N + 1
    BY DEF N
  <2> QED BY <1>1, <2>2, <2>3
<1>4. IsFiniteSet(TxsOf(more)) /\ Cardinality(TxsOf(more)) = N + 1
  <2>1. t \notin TxsOf(blocks)
    BY <1>3
  <2> QED BY <1>1, <1>2, <2>1, FS_AddElement
<1>5. \A u \in TxsOf(more) : u.id <= Cardinality(TxsOf(more))
  BY <1>1, <1>2, <1>3, <1>4
<1>6. \A h \in 1..Len(blocks) : \A i, j \in 1..Len(blocks[h]) :
        blocks[h][i].id = blocks[h][j].id => i = j
  BY DEF Sound
<1>7. /\ Len(blocks) \in Nat /\ \A h \in 1..Len(blocks) : blocks[h] \in Seq(Tx) /\ Len(blocks[h]) \in Nat
      /\ \A h \in 1..Len(blocks) : \A i \in 1..Len(blocks[h]) : blocks[h][i].id # t.id
  BY <1>1, <1>3, TxsAre DEF Block
<1>8. ASSUME NEW h \in 1..Len(more), NEW i \in 1..Len(more[h]), NEW j \in 1..Len(more[h]),
             more[h][i].id = more[h][j].id
      PROVE  i = j
  <2>1. CASE more = Append(blocks, <<t>>)
    <3>1. h \in 1..Len(blocks) \/ h = Len(blocks) + 1
      BY <1>7, <2>1
    <3>2. CASE h \in 1..Len(blocks)
      <4>1. more[h] = blocks[h]
        BY <1>7, <2>1, <3>2
      <4> QED BY <1>6, <1>8, <3>2, <4>1
    <3>3. CASE h = Len(blocks) + 1
      <4>1. more[h] = <<t>>
        BY <1>7, <2>1, <3>3
      <4>2. i \in 1..1 /\ j \in 1..1
        BY <4>1
      <4> QED BY <4>2
    <3> QED BY <3>1, <3>2, <3>3
  <2>2. CASE blocks # <<>> /\ more = [blocks EXCEPT ![Len(blocks)] = Append(@, t)]
    <3> DEFINE top == Len(blocks)
               last == Append(blocks[top], t)
    <3>1. top \in 1..Len(blocks)
      BY <1>1, <1>7, <2>2
    <3>2. more = [blocks EXCEPT ![top] = last] /\ h \in 1..Len(blocks)
      BY <1>7, <2>2
    <3>3. \A k \in 1..Len(blocks[top]) : last[k] = blocks[top][k]
      BY <1>7, <3>1
    <3>4. Len(last) = Len(blocks[top]) + 1 /\ last[Len(blocks[top]) + 1] = t
      BY <1>7, <3>1
    <3> HIDE DEF last
    <3>5. CASE h = top
      <4>1. more[h] = last
        BY <1>7, <3>1, <3>2, <3>5
      <4>2. \A k \in 1..Len(last) : k \in 1..Len(blocks[top]) \/ k = Len(blocks[top]) + 1
        BY <1>7, <3>1, <3>4
      <4> DEFINE m == Len(blocks[top])
      <4>3. (i \in 1..m \/ i = m + 1) /\ (j \in 1..m \/ j = m + 1)
        BY <4>1, <4>2
      <4>4. /\ i \in 1..m => last[i] = blocks[top][i] /\ last[i].id # t.id
            /\ j \in 1..m => last[j] = blocks[top][j] /\ last[j].id # t.id
            /\ last[m + 1] = t
        BY <1>7, <3>1, <3>3, <3>4
      <4> HIDE DEF m
      <4>5. last[i].id = last[j].id
        BY <1>8, <4>1
      <4>6. CASE i \in 1..m /\ j \in 1..m
        <5>1. blocks[top][i].id = blocks[top][j].id
          BY <4>4, <4>5, <4>6
        <5> QED BY <1>6, <3>1, <4>6, <5>1 DEF m
      <4> QED BY <4>3, <4>4, <4>5, <4>6
    <3>6. CASE h # top
      <4>1. more[h] = blocks[h]
        BY <1>7, <3>2, <3>6
      <4> QED BY <1>6, <1>8, <3>2, <4>1
    <3> QED BY <3>5, <3>6
  <2>3. \/ more = Append(blocks, <<t>>)
        \/ blocks # <<>> /\ more = [blocks EXCEPT ![Len(blocks)] = Append(@, t)]
    BY DEF Mined
  <2> QED BY <2>1, <2>2, <2>3
<1>9. \A h \in 1..Len(more) : \A i, j \in 1..Len(more[h]) :
        more[h][i].id = more[h][j].id => i = j
  BY <1>8
<1> QED BY <1>2, <1>4, <1>5, <1>9 DEF Sound

ChainInv == Sound(chain)

\* Whatever lies in the directory was written for some block of the chain, and
\* still has the digest of it or none.
FilesInv == files \in Seq(Seq(Record)) /\ AllWere(files, Strips, Len(chain))

\* The files up to the n-th are the records of the heights from first to before
\* upto.
Progress(fs, n, first, upto, strips, faulty) ==
  \E off \in Places : Holds(fs, n, off, first, upto, strips, faulty)

\* A run that writes or is done has its blocks up to next in the files up to
\* the open one; only files of an earlier run lie behind it.
UnderWay ==
  /\ range \in Nat \X Nat /\ range[1] \in 1..range[2] /\ range[2] \in 1..Len(chain)
  /\ next \in range[1]..(range[2] + 1) /\ (pc = "done" => next = range[2] + 1)
  /\ open \in 1..Len(files) /\ (runs = 1 => Len(files) = open)
  /\ Progress(files, open, range[1], next, Strips, faults)

RunInv ==
  /\ runs \in Nat /\ faults \in Nat
  /\ runs = 0 <=> pc = "none"
  /\ runs = 0 => files = <<>>
  /\ pc \in {"writing", "done"} => UnderWay

IInv == ChainInv /\ FilesInv /\ RunInv

\* The first file is opened: what was in it is gone.
Emptied(fs) == IF 1 \in DOMAIN fs THEN [fs EXCEPT ![1] = <<>>] ELSE Append(fs, <<>>)

LEMMA EmptiedHolds ==
  ASSUME NEW fs \in Seq(Seq(Record)), NEW strips, NEW top \in Nat, AllWere(fs, strips, top)
  PROVE  /\ Emptied(fs) \in Seq(Seq(Record)) /\ 1 \in 1..Len(Emptied(fs))
         /\ Len(fs) = 0 => Len(Emptied(fs)) = 1
         /\ AllWere(Emptied(fs), strips, top)
         /\ \A first \in Nat : \A faulty : Progress(Emptied(fs), 1, first, first, strips, faulty)
<1> DEFINE more == Emptied(fs)
<1>1. Len(fs) \in Nat /\ DOMAIN fs = 1..Len(fs) /\ <<>> \in Seq(Record) /\ Len(<<>>) = 0
  BY FilesAre
<1>2. /\ more \in Seq(Seq(Record)) /\ 1 \in 1..Len(more) /\ more[1] = <<>>
      /\ Len(fs) = 0 => Len(more) = 1
      /\ \A i \in 1..Len(more) : i = 1 \/ (i \in 1..Len(fs) /\ more[i] = fs[i])
  <2>1. CASE 1 \in 1..Len(fs)
    <3>1. more = [fs EXCEPT ![1] = <<>>]
      BY <1>1, <2>1 DEF Emptied
    <3> HIDE DEF more
    <3>2. /\ more \in Seq(Seq(Record)) /\ Len(more) = Len(fs) /\ more[1] = <<>>
          /\ \A i \in 1..Len(fs) : i # 1 => more[i] = fs[i]
      BY <1>1, <2>1, <3>1
    <3> QED BY <1>1, <2>1, <3>2
  <2>2. CASE 1 \notin 1..Len(fs)
    <3>1. more = Append(fs, <<>>) /\ Len(fs) = 0
      BY <1>1, <2>2 DEF Emptied
    <3> HIDE DEF more
    <3>2. more \in Seq(Seq(Record)) /\ Len(more) = 1 /\ more[1] = <<>>
      BY <1>1, <3>1
    <3> QED BY <1>1, <3>2
  <2> QED BY <2>1, <2>2
<1> HIDE DEF more
<1>3. Len(more[1]) = 0
  BY <1>1, <1>2
<1>4. AllWere(more, strips, top)
  <2> SUFFICES ASSUME NEW i \in 1..Len(more), NEW j \in 1..Len(more[i])
               PROVE  \E h \in 1..top : Was(more[i][j], strips, h)
    BY DEF AllWere
  <2>1. i # 1
    BY <1>3
  <2>2. i \in 1..Len(fs) /\ more[i] = fs[i]
    BY <1>2, <2>1
  <2> QED BY <2>2 DEF AllWere
<1>5. ASSUME NEW first \in Nat, NEW faulty
      PROVE  Progress(more, 1, first, first, strips, faulty)
  <2> DEFINE off == [n \in Nat |-> 0]
  <2>1. off \in Places /\ off[0] = 0 /\ off[1] = 0
    BY DEF Places
  <2> HIDE DEF off
  <2>2. Offsets(off, more, 1)
    BY <1>3, <2>1 DEF Offsets
  <2>3. Holds(more, 1, off, first, first, strips, faulty)
    BY <1>3, <2>1, <2>2 DEF Holds
  <2> QED BY <2>1, <2>3 DEF Progress
<1> QED BY <1>2, <1>4, <1>5 DEF more

-----------------------------------------------------------------------------
(* Its steps.                                                              *)

LEMMA StripsStay ==
  ASSUME chain' = chain
  PROVE  Strips' = Strips
<1>1. \A h \in Nat : StripBlock(h)' = StripBlock(h)
  BY DEF StripBlock, Digest
<1> QED BY <1>1 DEF Strips

LEMMA InitHolds == Init => IInv
<1> SUFFICES ASSUME Init PROVE IInv
  OBVIOUS
<1>1. ChainInv
  BY NoBlocks DEF Init, ChainInv
<1>2. FilesInv
  <2>1. files \in Seq(Seq(Record)) /\ Len(files) = 0
    BY DEF Init
  <2> QED BY <2>1 DEF FilesInv, AllWere
<1>3. RunInv
  BY DEF Init, RunInv
<1> QED BY <1>1, <1>2, <1>3 DEF IInv

\* What is mined: a transaction with the next id, which spends what the others
\* have created.
LEMMA MinedIs ==
  ASSUME Sound(chain), MineAny
  PROVE  \E t \in Tx :
           /\ t.id = Cardinality(TxsOf(chain)) + 1 /\ t.ins \subseteq Created(TxsOf(chain))
           /\ chain' \in Mined(chain, t)
           /\ runs = 0 /\ files' = files /\ runs' = runs /\ faults' = faults /\ pc' = pc
<1>1. PICK ins \in SUBSET (Created(TxSet) \ SpentBy(TxSet)),
           outs \in UNION {[1..n -> OutputKind] : n \in 1..MaxOutputs},
           carrier \in Carrier :
        Mine([id |-> Cardinality(TxSet) + 1, ins |-> ins, outs |-> outs, carrier |-> carrier])
  BY DEF MineAny
<1> DEFINE t == [id |-> Cardinality(TxSet) + 1, ins |-> ins, outs |-> outs, carrier |-> carrier]
<1>2. chain \in Seq(Block) /\ TxSet = TxsOf(chain)
  BY DEF Sound, TxSet, TxsOf
<1>3. ins \in SUBSET Coin /\ ins \subseteq Created(TxSet)
  <2>1. TxSet \subseteq Tx
    BY <1>2, TxsAre
  <2>2. \A u \in Tx : \A n \in DOMAIN u.outs : Coins(u)[n] \in Coin
    <3> SUFFICES ASSUME NEW u \in Tx, NEW n \in DOMAIN u.outs PROVE Coins(u)[n] \in Coin
      OBVIOUS
    <3>1. Coins(u) \in Seq(Coin) /\ n \in 1..Len(Coins(u))
      BY CoinsIs
    <3> QED BY <3>1
  <2>3. Created(TxSet) \subseteq Coin
    BY <2>1, <2>2 DEF Created
  <2> QED BY <2>3
<1>4. outs \in Seq(OutputKind) \ {<<>>}
  <2>1. PICK n \in 1..MaxOutputs : outs \in [1..n -> OutputKind]
    OBVIOUS
  <2>2. outs \in Seq(OutputKind) /\ n \in Nat /\ Len(outs) = n
    BY <2>1, BoundsAssumption
  <2> QED BY <2>1, <2>2
<1>5. Cardinality(TxSet) \in Nat
  BY <1>2, FS_CardinalityType DEF Sound
<1>6. t \in Tx /\ t.id = Cardinality(TxsOf(chain)) + 1 /\ t.ins \subseteq Created(TxsOf(chain))
  BY <1>2, <1>3, <1>4, <1>5 DEF Tx
<1>7. /\ runs = 0 /\ files' = files /\ runs' = runs /\ faults' = faults /\ pc' = pc
      /\ chain' \in Mined(chain, t)
  <2>1. \/ chain' = Append(chain, <<t>>)
        \/ chain # <<>> /\ chain' = [chain EXCEPT ![Len(chain)] = Append(@, t)]
    BY <1>1 DEF Mine
  <2> QED BY <1>1, <2>1 DEF Mine, Mined, runVars
<1> HIDE DEF t
<1> QED BY <1>6, <1>7

LEMMA MineHolds == IInv /\ MineAny => IInv'
<1> SUFFICES ASSUME IInv, MineAny PROVE IInv'
  OBVIOUS
<1>1. PICK t \in Tx :
        /\ t.id = Cardinality(TxsOf(chain)) + 1 /\ chain' \in Mined(chain, t)
        /\ runs = 0 /\ files' = files /\ runs' = runs /\ faults' = faults /\ pc' = pc
  BY MinedIs DEF IInv, ChainInv
<1>2. ChainInv'
  BY <1>1, SoundGrows DEF IInv, ChainInv
<1>3. runs \in Nat /\ faults \in Nat /\ pc = "none" /\ files = <<>>
  BY <1>1 DEF IInv, RunInv
<1>4. FilesInv'
  <2>1. files' \in Seq(Seq(Record)) /\ Len(files') = 0
    BY <1>1, <1>3
  <2> QED BY <2>1 DEF FilesInv, AllWere
<1>5. RunInv'
  BY <1>1, <1>3 DEF RunInv
<1> QED BY <1>2, <1>4, <1>5 DEF IInv

\* Nothing else changes the chain.
LEMMA ChainStays ==
  ASSUME IInv, chain' = chain
  PROVE  /\ ChainInv' /\ Strips' = Strips /\ Len(chain) \in Nat
         /\ files \in Seq(Seq(Record)) /\ AllWere(files, Strips, Len(chain))
         /\ chain \in Seq(Block)
<1>1. ChainInv'
  BY DEF IInv, ChainInv
<1>2. chain \in Seq(Block)
  BY DEF IInv, ChainInv, Sound
<1>3. Len(chain) \in Nat
  BY <1>2
<1>4. Strips' = Strips
  BY StripsStay
<1> QED BY <1>1, <1>2, <1>3, <1>4 DEF IInv, FilesInv

LEMMA StartHolds ==
  ASSUME IInv, NEW last \in DOMAIN chain, NEW first \in 1..last, Start(first, last)
  PROVE  IInv'
<1>1. /\ chain' = chain /\ runs' = runs + 1 /\ pc' = "writing" /\ range' = <<first, last>>
      /\ next' = first /\ open' = 1 /\ files' = Emptied(files) /\ faults' = faults
  BY DEF Start, Opened, Emptied
<1>2. /\ ChainInv' /\ Strips' = Strips /\ Len(chain) \in Nat
      /\ files \in Seq(Seq(Record)) /\ AllWere(files, Strips, Len(chain)) /\ chain \in Seq(Block)
  BY <1>1, ChainStays
<1>3. /\ files' \in Seq(Seq(Record)) /\ 1 \in 1..Len(files') /\ (Len(files) = 0 => Len(files') = 1)
      /\ AllWere(files', Strips, Len(chain))
      /\ \A n \in Nat : \A faulty : Progress(files', 1, n, n, Strips, faulty)
  BY <1>1, <1>2, EmptiedHolds, Zenon
<1>4. FilesInv'
  BY <1>1, <1>2, <1>3 DEF FilesInv
<1>5. last \in 1..Len(chain) /\ first \in Nat /\ last \in Nat
  BY <1>2
<1>6. runs \in Nat /\ faults \in Nat /\ (runs = 0 => files = <<>>)
  BY DEF IInv, RunInv
<1>7. runs' = 1 => Len(files') = 1
  BY <1>1, <1>3, <1>6
<1>8. /\ range' \in Nat \X Nat /\ range'[1] = first /\ range'[2] = last
      /\ range'[1] \in 1..range'[2] /\ range'[2] \in 1..Len(chain)
      /\ next' \in range'[1]..(range'[2] + 1)
  BY <1>1, <1>5
<1>9. Progress(files', open', range'[1], next', Strips', faults')
  BY <1>1, <1>2, <1>3, <1>5, <1>8
<1>10. UnderWay'
  BY <1>1, <1>3, <1>7, <1>8, <1>9 DEF UnderWay
<1>11. RunInv'
  BY <1>1, <1>6, <1>10 DEF RunInv
<1> QED BY <1>2, <1>4, <1>11 DEF IInv

LEMMA WriteHolds ==
  ASSUME IInv, WriteBlock
  PROVE  IInv'
<1> DEFINE record == StripBlock(next)
<1>1. /\ chain' = chain /\ runs' = runs /\ pc' = pc /\ pc = "writing" /\ range' = range
      /\ next <= range[2] /\ next' = next + 1 /\ faults' = faults
  BY DEF WriteBlock
<1>2. /\ ChainInv' /\ Strips' = Strips /\ Len(chain) \in Nat
      /\ files \in Seq(Seq(Record)) /\ AllWere(files, Strips, Len(chain)) /\ chain \in Seq(Block)
  BY <1>1, ChainStays
<1>3. runs \in Nat /\ faults \in Nat /\ runs # 0 /\ UnderWay
  BY <1>1 DEF IInv, RunInv
<1>4. range \in Nat \X Nat /\ range[1] \in 1..range[2] /\ range[2] \in 1..Len(chain)
      /\ next \in range[1]..(range[2] + 1) /\ open \in 1..Len(files)
      /\ (runs = 1 => Len(files) = open)
  BY <1>3 DEF UnderWay
<1>5. PICK off \in Places : Holds(files, open, off, range[1], next, Strips, faults)
  BY <1>3 DEF UnderWay, Progress
<1>6. range[1] \in Nat /\ range[2] \in Nat /\ next \in Nat /\ next \in 1..Len(chain)
  BY <1>1, <1>2, <1>4
<1>7. Strips[next] = record /\ record \in Record /\ Was(record, Strips, next) /\ Is(record, Strips, next)
  BY <1>2, <1>6, StripsIs DEF Is
<1>8. Len(files) \in Nat /\ DOMAIN files = 1..Len(files)
  BY <1>2, FilesAre
<1>9. open \in Nat \ {0} /\ open <= Len(files) /\ open \in 0..Len(files)
  <2>1. open \in 1..Len(files) /\ Len(files) \in Nat
    BY <1>4, <1>8
  <2>2. \A m \in Nat : \A n \in 1..m : n \in Nat \ {0} /\ n <= m /\ n \in 0..m
    OBVIOUS
  <2> QED BY <2>1, <2>2, Zenon
<1>10. \/ open' = open /\ files' = Appended(files, open, record)
       \/ open' = open + 1 /\ files' = Rolled(files, open + 1, record)
  BY DEF WriteBlock, WriteRecord, Opened, Appended, Rolled
<1> HIDE DEF record
<1>11. /\ files' \in Seq(Seq(Record)) /\ AllWere(files', Strips, Len(chain))
       /\ open' \in 1..Len(files') /\ (runs = 1 => Len(files') = open')
       /\ Progress(files', open', range[1], next + 1, Strips, faults)
  <2>1. CASE open' = open /\ files' = Appended(files, open, record)
    <3>1. files' \in Seq(Seq(Record)) /\ IsAppended(files', files, open, record)
      BY <1>2, <1>4, <1>7, <2>1, AppendedIs
    <3>2. /\ AllWere(files', Strips, Len(chain))
          /\ \E to \in Places : Holds(files', open, to, range[1], next + 1, Strips, faults)
      BY <1>2, <1>3, <1>5, <1>6, <1>7, <1>8, <1>9, <3>1, AppendHolds
    <3>3. Len(files') = Len(files)
      BY <3>1 DEF IsAppended
    <3> QED BY <1>4, <2>1, <3>1, <3>2, <3>3 DEF Progress
  <2>2. CASE open' = open + 1 /\ files' = Rolled(files, open + 1, record)
    <3>1. files' \in Seq(Seq(Record)) /\ IsRolled(files', files, open + 1, record)
      BY <1>2, <1>7, <1>9, <2>2, RolledIs
    <3>2. /\ AllWere(files', Strips, Len(chain))
          /\ \E to \in Places : Holds(files', open + 1, to, range[1], next + 1, Strips, faults)
      BY <1>2, <1>3, <1>5, <1>6, <1>7, <1>8, <1>9, <3>1, RollHolds
    <3>3. open + 1 \in 1..Len(files') /\ (Len(files) = (open + 1) - 1 => Len(files') = open + 1)
      BY <3>1 DEF IsRolled
    <3>4. (open + 1) - 1 = open
      BY <1>9
    <3> QED BY <1>4, <2>2, <3>1, <3>2, <3>3, <3>4 DEF Progress
  <2> QED BY <1>10, <2>1, <2>2
<1>12. FilesInv'
  BY <1>1, <1>2, <1>11 DEF FilesInv
<1>13. next + 1 \in range[1]..(range[2] + 1)
  BY <1>1, <1>4, <1>6
<1>14. Progress(files', open', range'[1], next', Strips', faults')
  BY <1>1, <1>2, <1>11
<1>15. UnderWay'
  BY <1>1, <1>4, <1>11, <1>13, <1>14 DEF UnderWay
<1>16. RunInv'
  BY <1>1, <1>3, <1>15 DEF RunInv
<1> QED BY <1>2, <1>12, <1>16 DEF IInv

LEMMA FinishHolds ==
  ASSUME IInv, Finish
  PROVE  IInv'
<1>1. /\ chain' = chain /\ runs' = runs /\ pc = "writing" /\ pc' = "done" /\ range' = range
      /\ next > range[2] /\ next' = next /\ faults' = faults /\ files' = files /\ open' = open
  BY DEF Finish
<1>2. /\ ChainInv' /\ Strips' = Strips /\ Len(chain) \in Nat
      /\ files \in Seq(Seq(Record)) /\ AllWere(files, Strips, Len(chain))
  BY <1>1, ChainStays
<1>3. runs \in Nat /\ faults \in Nat /\ runs # 0 /\ UnderWay
  BY <1>1 DEF IInv, RunInv
<1>4. next = range[2] + 1
  BY <1>1, <1>3 DEF UnderWay
<1>5. UnderWay'
  BY <1>1, <1>2, <1>3, <1>4 DEF UnderWay
<1>6. RunInv'
  BY <1>1, <1>3, <1>5 DEF RunInv
<1>7. FilesInv'
  BY <1>1, <1>2 DEF FilesInv
<1> QED BY <1>2, <1>6, <1>7 DEF IInv

LEMMA KillStepHolds ==
  ASSUME IInv, Kill
  PROVE  IInv'
<1>1. /\ chain' = chain /\ runs' = runs /\ pc = "writing" /\ pc' = "killed" /\ faults' = faults + 1
      /\ open' = open
  BY DEF Kill
<1>2. /\ ChainInv' /\ Strips' = Strips /\ Len(chain) \in Nat
      /\ files \in Seq(Seq(Record)) /\ AllWere(files, Strips, Len(chain))
  BY <1>1, ChainStays
<1>3. runs \in Nat /\ faults \in Nat /\ runs # 0 /\ open \in 1..Len(files)
  BY <1>1 DEF IInv, RunInv, UnderWay
<1>4. PICK left \in Killed(files[open]) : files' = [files EXCEPT ![open] = left]
  <2>1. PICK l \in Prefixes(files[open]) :
          \/ files' = [files EXCEPT ![open] = l]
          \/ /\ Len(l) < Len(files[open])
             /\ files' = [files EXCEPT ![open] =
                           Append(l, [files[open][Len(l) + 1] EXCEPT !.frame = "cut"])]
    BY DEF Kill
  <2> QED BY <2>1 DEF Killed
<1>5. files' \in Seq(Seq(Record)) /\ AllWere(files', Strips, Len(chain))
  BY <1>2, <1>3, <1>4, KillHolds
<1>6. FilesInv'
  BY <1>1, <1>2, <1>5 DEF FilesInv
<1>7. RunInv'
  BY <1>1, <1>3 DEF RunInv
<1> QED BY <1>2, <1>6, <1>7 DEF IInv

LEMMA DamageStepHolds ==
  ASSUME IInv, NEW p \in DOMAIN files, NEW q \in DOMAIN files[p], Damage(p, q)
  PROVE  IInv'
<1>1. /\ chain' = chain /\ runs' = runs /\ pc # "writing" /\ pc' = pc /\ faults' = faults + 1
      /\ range' = range /\ next' = next /\ open' = open
  BY DEF Damage, runVars
<1>2. /\ ChainInv' /\ Strips' = Strips /\ Len(chain) \in Nat
      /\ files \in Seq(Seq(Record)) /\ AllWere(files, Strips, Len(chain))
  BY <1>1, ChainStays
<1>3. /\ Len(files) \in Nat /\ DOMAIN files = 1..Len(files)
      /\ \A i \in 1..Len(files) : files[i] \in Seq(Record) /\ Len(files[i]) \in Nat
  BY <1>2, FilesAre
<1>4. p \in 1..Len(files) /\ files[p] \in Seq(Record)
  BY <1>3
<1>5. q \in 1..Len(files[p]) /\ files[p][q] \in Record
  BY <1>4
<1>6. PICK r \in DamagedForms(files[p][q]) : files' = Damaged(files, p, q, r)
  BY DEF Damage, Damaged
<1>7. r \in Record /\ (r.digest = <<>> \/ r.digest = files[p][q].digest)
  BY <1>5, FormsAre
<1>8. files' \in Seq(Seq(Record)) /\ IsDamaged(files', files, p, q, r)
  BY <1>2, <1>4, <1>5, <1>6, <1>7, DamagedIs
<1>9. /\ AllWere(files', Strips, Len(chain))
      /\ \A n \in 1..Len(files) : \A off \in Places : \A first, upto, faulty \in Nat :
           Holds(files, n, off, first, upto, Strips, faulty) =>
             Holds(files', n, off, first, upto, Strips, faulty + 1)
  BY <1>2, <1>3, <1>7, <1>8, DamageHolds
<1>10. Len(files') = Len(files)
  BY <1>8 DEF IsDamaged
<1>11. FilesInv'
  BY <1>1, <1>2, <1>8, <1>9 DEF FilesInv
<1>12. runs \in Nat /\ faults \in Nat /\ (runs = 0 <=> pc = "none") /\ (runs = 0 => files = <<>>)
  BY DEF IInv, RunInv
<1>13. runs # 0
  BY <1>4, <1>12
<1>14. ASSUME pc = "done" PROVE UnderWay'
  <2>1. UnderWay
    BY <1>14 DEF IInv, RunInv
  <2>2. /\ range \in Nat \X Nat /\ range[1] \in 1..range[2] /\ range[2] \in 1..Len(chain)
        /\ next \in range[1]..(range[2] + 1) /\ (pc = "done" => next = range[2] + 1)
        /\ open \in 1..Len(files) /\ (runs = 1 => Len(files) = open)
    BY <2>1 DEF UnderWay
  <2>3. PICK off \in Places : Holds(files, open, off, range[1], next, Strips, faults)
    BY <2>1 DEF UnderWay, Progress
  <2>4. range[1] \in Nat /\ range[2] \in Nat /\ next \in Nat
    BY <2>2
  <2>5. Holds(files', open, off, range[1], next, Strips, faults + 1)
    BY <1>9, <1>12, <2>2, <2>3, <2>4
  <2>6. Progress(files', open', range'[1], next', Strips', faults')
    BY <1>1, <1>2, <2>5 DEF Progress
  <2> QED BY <1>1, <1>10, <2>2, <2>6 DEF UnderWay
<1>15. RunInv'
  BY <1>1, <1>12, <1>13, <1>14 DEF RunInv
<1> QED BY <1>2, <1>11, <1>15 DEF IInv

\* The invariant that the theorems about the store follow from.
THEOREM StoreInv == Spec => []IInv
<1>1. Init => IInv
  BY InitHolds
<1>2. IInv /\ [Next]_vars => IInv'
  <2> SUFFICES ASSUME IInv, [Next]_vars PROVE IInv'
    OBVIOUS
  <2>1. CASE MineAny
    BY <2>1, MineHolds
  <2>2. CASE \E last \in DOMAIN chain : \E first \in 1..last : Start(first, last)
    BY <2>2, StartHolds
  <2>3. CASE WriteBlock
    BY <2>3, WriteHolds
  <2>4. CASE Finish
    BY <2>4, FinishHolds
  <2>5. CASE Kill
    BY <2>5, KillStepHolds
  <2>6. CASE \E i \in DOMAIN files : \E j \in DOMAIN files[i] : Damage(i, j)
    BY <2>6, DamageStepHolds
  <2>7. CASE UNCHANGED vars
    <3>1. /\ chain' = chain /\ files' = files /\ pc' = pc /\ range' = range /\ next' = next
          /\ open' = open /\ runs' = runs /\ faults' = faults
      BY <2>7 DEF vars, runVars
    <3>2. /\ ChainInv' /\ Strips' = Strips
          /\ files \in Seq(Seq(Record)) /\ AllWere(files, Strips, Len(chain))
      BY <3>1, ChainStays
    <3>3. FilesInv'
      BY <3>1, <3>2 DEF FilesInv
    <3>4. RunInv'
      BY <3>1, <3>2 DEF IInv, RunInv, UnderWay
    <3> QED BY <3>2, <3>3, <3>4 DEF IInv
  <2> QED BY <2>1, <2>2, <2>3, <2>4, <2>5, <2>6, <2>7 DEF Next
<1> QED BY <1>1, <1>2, PTL DEF Spec

-----------------------------------------------------------------------------
(* What follows from it.                                                   *)

\* Where all can be read, each record is that of some block, and verifies.
LEMMA ReadableAreStrips ==
  ASSUME IInv, AllReadable
  PROVE  /\ \A i \in 1..Len(files) : \A j \in 1..Len(files[i]) : \A h \in 1..Len(chain) :
              Was(files[i][j], Strips, h) => files[i][j] = StripBlock(h)
         /\ OnDisk \in Seq(Record)
         /\ \A k \in 1..Len(OnDisk) : \E h \in 1..Len(chain) :
              OnDisk[k] = StripBlock(h) /\ OnDisk[k].hash = h
         /\ \A k \in 1..Len(OnDisk) : Verified(OnDisk[k]) /\ Readable(OnDisk[k])
<1>1. /\ files \in Seq(Seq(Record)) /\ AllWere(files, Strips, Len(chain)) /\ chain \in Seq(Block)
      /\ Len(chain) \in Nat
  BY DEF IInv, FilesInv, ChainInv, Sound
<1>2. ASSUME NEW i \in 1..Len(files), NEW j \in 1..Len(files[i]), NEW h \in 1..Len(chain),
             Was(files[i][j], Strips, h)
      PROVE  files[i][j] = StripBlock(h)
  <2>1. files[i][j] \in Record
    <3>1. files[i] \in Seq(Record)
      BY <1>1, FilesAre
    <3> QED BY <3>1
  <2>2. Readable(files[i][j])
    BY DEF AllReadable
  <2>3. h \in Nat /\ chain[h] \in Block
    BY <1>1
  <2>4. Strips[h] = StripBlock(h)
    BY <2>3 DEF Strips
  <2> QED BY <1>2, <2>1, <2>2, <2>3, <2>4, ReadableIs DEF Was
<1>3. /\ OnDisk \in Seq(Record)
      /\ \A k \in 1..Len(OnDisk) : \E i \in 1..Len(files) : \E j \in 1..Len(files[i]) :
           OnDisk[k] = files[i][j]
  BY <1>1, FlattenHas DEF OnDisk
<1>4. ASSUME NEW k \in 1..Len(OnDisk)
      PROVE  /\ \E h \in 1..Len(chain) : OnDisk[k] = StripBlock(h) /\ OnDisk[k].hash = h
             /\ Verified(OnDisk[k]) /\ Readable(OnDisk[k])
  <2>1. PICK i \in 1..Len(files) : \E j \in 1..Len(files[i]) : OnDisk[k] = files[i][j]
    BY <1>3
  <2>2. PICK j \in 1..Len(files[i]) : OnDisk[k] = files[i][j]
    BY <2>1
  <2>3. PICK h \in 1..Len(chain) : Was(files[i][j], Strips, h)
    BY <1>1 DEF AllWere
  <2>4. files[i][j] = StripBlock(h)
    BY <1>2, <2>3
  <2>5. StripBlock(h).hash = h
    <3>1. h \in Nat /\ chain[h] \in Block
      BY <1>1
    <3> QED BY <3>1, StripIs
  <2>6. Verified(StripBlock(h)) /\ Readable(StripBlock(h))
    BY <1>1, WrittenVerifies
  <2> QED BY <2>2, <2>4, <2>5, <2>6
<1> QED BY <1>2, <1>3, <1>4

\* The records of the files up to the open one, and with them all that is read
\* first, are those of the range.
LEMMA RangeIsFirst ==
  ASSUME IInv, AllReadable, pc = "done"
  PROVE  /\ Len(OnDisk) \in Nat /\ range[1] \in Nat /\ range[2] \in Nat
         /\ Len(OnDisk) >= range[2] - range[1] + 1
         /\ runs = 1 => Len(OnDisk) = range[2] - range[1] + 1
         /\ \A k \in 1..(range[2] - range[1] + 1) : OnDisk[k].hash = range[1] + k - 1
<1>1. /\ files \in Seq(Seq(Record)) /\ chain \in Seq(Block) /\ Len(chain) \in Nat
      /\ UnderWay
  BY DEF IInv, FilesInv, ChainInv, Sound, RunInv
<1>2. /\ range \in Nat \X Nat /\ range[1] \in 1..range[2] /\ range[2] \in 1..Len(chain)
      /\ next = range[2] + 1
      /\ open \in 1..Len(files) /\ (runs = 1 => Len(files) = open)
  BY <1>1 DEF UnderWay
<1>3. PICK off \in Places : Holds(files, open, off, range[1], next, Strips, faults)
  BY <1>1 DEF UnderWay, Progress
<1>4. PICK all \in Places : Offsets(all, files, Len(files))
  BY <1>1, OffsetsExist DEF Places
<1>5. OnDisk \in Seq(Record) /\ Chained(OnDisk, files, all)
  BY <1>1, <1>4, FlattenIs DEF OnDisk, Places
<1>6. /\ Len(files) \in Nat /\ DOMAIN files = 1..Len(files)
      /\ \A i \in 1..Len(files) : files[i] \in Seq(Record) /\ Len(files[i]) \in Nat
  BY <1>1, FilesAre
<1>7. /\ open \in Nat /\ open \in 0..Len(files)
      /\ \A i \in 1..open : i \in 1..Len(files) /\ i - 1 \in 0..open /\ i - 1 \in Nat
  <2>1. \A m \in Nat : \A n \in 1..m :
          n \in Nat /\ n \in 0..m /\ \A i \in 1..n : i \in 1..m /\ i - 1 \in 0..n /\ i - 1 \in Nat
    OBVIOUS
  <2> QED BY <1>2, <1>6, <2>1, Zenon
<1>8. Offsets(off, files, open) /\ Offsets(all, files, open)
  BY <1>3, <1>4, <1>7 DEF Holds, Offsets
<1>9. \A i \in 0..open : off[i] = all[i]
  BY <1>1, <1>7, <1>8, OffsetsAgree DEF Places
<1> DEFINE part == SubSeq(files, 1, open)
<1>10. /\ part \in Seq(Seq(Record)) /\ Len(part) = open
       /\ \A i \in 1..open : part[i] = files[i]
  <2>1. part = [i \in 1..open |-> files[i]]
    BY <1>1, <1>7
  <2> HIDE DEF part
  <2>2. \A i \in 1..open : files[i] \in Seq(Record)
    BY <1>6, <1>7
  <2> QED BY <1>7, <2>1, <2>2
<1> HIDE DEF part
<1>11. Offsets(off, part, Len(part))
  BY <1>8, <1>10 DEF Offsets
<1>12. Chained(FlattenSeq(part), part, off) /\ FlattenSeq(part) \in Seq(Record)
  BY <1>10, <1>11, FlattenIs DEF Places
<1>13. \A k \in 1..off[open] : \E i \in 1..open : \E j \in 1..Len(files[i]) : k = off[i - 1] + j
  <2>1. Len(FlattenSeq(part)) = off[open]
    BY <1>10, <1>12 DEF Chained
  <2>2. \A k \in 1..Len(FlattenSeq(part)) :
          \E i \in 1..Len(part) : \E j \in 1..Len(part[i]) : k = off[i - 1] + j
    BY <1>12 DEF Chained
  <2> QED BY <1>10, <2>1, <2>2
<1>14. off[open] \in Nat /\ range[1] + off[open] = range[2] + 1
  <2>1. off[open] \in Nat
    BY <1>7 DEF Places
  <2> QED BY <1>2, <1>3, <2>1 DEF Holds
<1>15. off[open] = range[2] - range[1] + 1 /\ range[1] \in Nat /\ range[2] \in Nat
  <2>1. range[1] \in Nat /\ range[2] \in Nat
    BY <1>2
  <2> QED BY <1>14, <2>1
<1>16. ASSUME NEW k \in 1..off[open]
       PROVE  k \in 1..Len(OnDisk) /\ OnDisk[k].hash = range[1] + k - 1
  <2>1. PICK i \in 1..open : \E j \in 1..Len(files[i]) : k = off[i - 1] + j
    BY <1>13
  <2>2. PICK j \in 1..Len(files[i]) : k = off[i - 1] + j
    BY <2>1
  <2>3. /\ i \in 1..Len(files) /\ i - 1 \in 0..open /\ i - 1 \in Nat /\ all[i - 1] = off[i - 1]
        /\ off[i - 1] \in Nat /\ j \in Nat
    <3>1. i \in 1..Len(files) /\ i - 1 \in 0..open /\ i - 1 \in Nat
      BY <1>7
    <3>2. off[i - 1] \in Nat
      BY <3>1 DEF Places
    <3>3. j \in Nat
      BY <1>6, <3>1
    <3> QED BY <1>9, <3>1, <3>2, <3>3
  <2>4. k \in 1..Len(OnDisk) /\ OnDisk[k] = files[i][j]
    BY <1>5, <2>2, <2>3 DEF Chained
  <2> DEFINE h == range[1] + off[i - 1] + (j - 1)
  <2>5. Was(files[i][j], Strips, h)
    BY <1>3 DEF Holds
  <2>6. h = range[1] + k - 1 /\ h \in 1..Len(chain)
    <3>1. k \in Nat /\ k >= 1 /\ k <= off[open]
      BY <1>14
    <3>2. h = range[1] + k - 1
      <4>1. \A a, b, c \in Nat : a + b + (c - 1) = a + (b + c) - 1
        OBVIOUS
      <4> QED BY <1>15, <2>2, <2>3, <4>1
    <3>3. range[1] >= 1 /\ range[2] <= Len(chain)
      BY <1>1, <1>2, <1>15
    <3>4. Len(chain) \in Nat
      BY <1>1
    <3> HIDE DEF h
    <3>5. h \in Nat /\ h >= range[1] /\ h <= range[2]
      BY <1>15, <3>1, <3>2
    <3> QED BY <1>15, <3>2, <3>3, <3>4, <3>5
  <2> HIDE DEF h
  <2>7. files[i][j] = StripBlock(h)
    BY <2>3, <2>5, <2>6, ReadableAreStrips
  <2>8. StripBlock(h).hash = h
    <3>1. h \in Nat /\ chain[h] \in Block
      BY <1>1, <2>6
    <3> QED BY <3>1, StripIs
  <2> QED BY <2>4, <2>6, <2>7, <2>8
<1>17. Len(OnDisk) \in Nat /\ Len(OnDisk) >= off[open]
  <2>1. Len(OnDisk) \in Nat
    BY <1>5
  <2>2. CASE off[open] = 0
    BY <2>1, <2>2
  <2>3. CASE off[open] # 0
    <3>1. off[open] \in 1..off[open]
      BY <1>14, <2>3
    <3>2. off[open] \in 1..Len(OnDisk)
      BY <1>16, <3>1
    <3> QED BY <2>1, <3>2
  <2> QED BY <2>2, <2>3
<1>18. runs = 1 => Len(OnDisk) = off[open]
  <2>1. Len(OnDisk) = all[Len(files)]
    BY <1>5 DEF Chained
  <2>2. open \in 0..open
    BY <1>7
  <2> QED BY <1>2, <1>9, <2>1, <2>2
<1> QED BY <1>15, <1>16, <1>17, <1>18

\* Whatever was cut off or damaged, and in any number of places: when
\* verify_store finds nothing bad, the disk holds records as they were written.
THEOREM DamageTheorem == Spec => []DamageNoticed
<1>1. IInv => DamageNoticed
  <2> SUFFICES ASSUME IInv, VerifyStore.bad = 0
               PROVE  \A k \in DOMAIN OnDisk : OnDisk[k] = StripBlock(OnDisk[k].hash)
    BY DEF DamageNoticed
  <2>1. AllReadable
    BY VerifyIs DEF IInv, FilesInv
  <2>2. /\ OnDisk \in Seq(Record)
        /\ \A k \in 1..Len(OnDisk) : \E h \in 1..Len(chain) :
             OnDisk[k] = StripBlock(h) /\ OnDisk[k].hash = h
    BY <2>1, ReadableAreStrips
  <2>3. DOMAIN OnDisk = 1..Len(OnDisk)
    BY <2>2
  <2> QED BY <2>2, <2>3
<1> QED BY <1>1, StoreInv, PTL

\* A run that ends in a store with nothing bad has left its blocks there, in
\* order and first, however the runs before it ended.
THEOREM SuccessTheorem == Spec => []SuccessIsComplete
<1>1. IInv => SuccessIsComplete
  <2> SUFFICES ASSUME IInv, pc = "done", VerifyStore.bad = 0
               PROVE  /\ Len(OnDisk) >= range[2] - range[1] + 1
                      /\ \A k \in 1..(range[2] - range[1] + 1) : OnDisk[k].hash = range[1] + k - 1
    BY DEF SuccessIsComplete
  <2>1. AllReadable
    BY VerifyIs DEF IInv, FilesInv
  <2> QED BY <2>1, RangeIsFirst
<1> QED BY <1>1, StoreInv, PTL

\* Of a run that was not disturbed, every block verifies from the files alone.
THEOREM SufficiencyTheorem == Spec => []VerifiesFromDisk
<1>1. IInv => VerifiesFromDisk
  <2> SUFFICES ASSUME IInv, pc = "done", runs = 1, faults = 0
               PROVE  VerifyStore = [ok |-> range[2] - range[1] + 1, bad |-> 0]
    BY DEF VerifiesFromDisk
  <2>1. /\ files \in Seq(Seq(Record)) /\ chain \in Seq(Block) /\ Len(chain) \in Nat /\ UnderWay
    BY DEF IInv, FilesInv, ChainInv, Sound, RunInv
  <2>2. /\ range \in Nat \X Nat /\ range[1] \in 1..range[2] /\ range[2] \in 1..Len(chain)
        /\ next = range[2] + 1 /\ open \in 1..Len(files) /\ Len(files) = open
    BY <2>1 DEF UnderWay
  <2>3. PICK off \in Places : Holds(files, open, off, range[1], next, Strips, faults)
    BY <2>1 DEF UnderWay, Progress
  <2>4. ASSUME NEW i \in 1..Len(files), NEW j \in 1..Len(files[i])
        PROVE  Readable(files[i][j])
    <3> DEFINE h == range[1] + off[i - 1] + (j - 1)
    <3>1. files[i][j] = Strips[h]
      BY <2>2, <2>3 DEF Holds, Is
    <3>2. Len(files) \in Nat /\ Len(files[i]) \in Nat
      BY <2>1, FilesAre
    <3>3. i - 1 \in Nat /\ j \in Nat /\ j >= 1
      BY <3>2
    <3>4. off[i - 1] \in Nat /\ off[Len(files)] \in Nat
      BY <3>2, <3>3 DEF Places
    <3>5. Offsets(off, files, Len(files)) /\ range[1] + off[Len(files)] = range[2] + 1
      BY <2>2, <2>3 DEF Holds
    <3>6. off[i - 1] + j \in 1..off[Len(files)]
      <4>1. Chained(FlattenSeq(files), files, off)
        BY <2>1, <3>5, FlattenIs DEF Places
      <4> QED BY <4>1 DEF Chained
    <3>7. h \in 1..Len(chain)
      <4>1. \A a, b, c, d, e, l \in Nat :
              /\ b + c \in 1..d /\ c >= 1 /\ a + d = e + 1 /\ e <= l /\ a >= 1
              => a + b + (c - 1) \in 1..l
        OBVIOUS
      <4>2. range[1] \in Nat /\ range[2] \in Nat /\ range[1] >= 1 /\ range[2] <= Len(chain)
        BY <2>1, <2>2
      <4> QED BY <2>1, <3>3, <3>4, <3>5, <3>6, <4>1, <4>2
    <3> HIDE DEF h
    <3>8. Strips[h] = StripBlock(h)
      BY <2>1, <3>7 DEF Strips
    <3> QED BY <2>1, <3>1, <3>7, <3>8, WrittenVerifies
  <2>5. AllReadable
    BY <2>4 DEF AllReadable
  <2>6. Len(OnDisk) = range[2] - range[1] + 1
    BY <2>5, RangeIsFirst
  <2>7. \A k \in 1..Len(OnDisk) : Verified(OnDisk[k])
    BY <2>5, ReadableAreStrips
  <2> QED BY <2>1, <2>5, <2>6, <2>7, VerifyIs
<1> QED BY <1>1, StoreInv, PTL

\* The commitment is computed, digests checked, exactly when verify_store finds
\* nothing bad.
THEOREM CommitmentTheorem == Spec => []CommitIffVerified
<1>1. IInv => CommitIffVerified
  <2> SUFFICES ASSUME IInv PROVE ~Commitment(TRUE).raised <=> VerifyStore.bad = 0
    BY DEF CommitIffVerified
  <2>1. files \in Seq(Seq(Record))
    BY DEF IInv, FilesInv
  <2>2. /\ OnDisk \in Seq(Record)
        /\ \A i \in 1..Len(files) : \A j \in 1..Len(files[i]) :
             \E k \in 1..Len(OnDisk) : OnDisk[k] = files[i][j]
    BY <2>1, FlattenHas DEF OnDisk
  <2>3. DOMAIN OnDisk = 1..Len(OnDisk)
    BY <2>2
  <2>4. Commitment(TRUE).raised <=> \E k \in 1..Len(OnDisk) : ~Readable(OnDisk[k])
    <3>1. (\E k \in DOMAIN OnDisk :
             \/ OnDisk[k].frame # "good"
             \/ TRUE /\ OnDisk[k].digest # Digest(OnDisk[k]))
          <=> \E k \in 1..Len(OnDisk) : ~Readable(OnDisk[k])
      BY <2>3 DEF Readable
    <3> DEFINE chained == [k \in DOMAIN OnDisk |-> <<OnDisk[k].hash, OnDisk[k].digest>>]
    <3>2. Commitment(TRUE) = IF \E k \in 1..Len(OnDisk) : ~Readable(OnDisk[k])
                             THEN [raised |-> TRUE, chained |-> <<>>]
                             ELSE [raised |-> FALSE, chained |-> chained]
      BY <3>1 DEF Commitment
    <3> HIDE DEF chained
    <3>3. PICK c : c = Commitment(TRUE)
      OBVIOUS
    <3> DEFINE bad == \E k \in 1..Len(OnDisk) : ~Readable(OnDisk[k])
    <3>4. c = IF bad THEN [raised |-> TRUE, chained |-> <<>>]
              ELSE [raised |-> FALSE, chained |-> chained]
      BY <3>2, <3>3, Zenon
    <3> HIDE DEF bad
    <3>5. c.raised <=> bad
      <4>1. CASE bad
        <5>1. c = [raised |-> TRUE, chained |-> <<>>]
          BY <3>4, <4>1
        <5>2. c.raised
          BY <5>1
        <5> QED BY <4>1, <5>2
      <4>2. CASE ~bad
        <5>1. c = [raised |-> FALSE, chained |-> chained]
          BY <3>4, <4>2
        <5>2. ~c.raised
          BY <5>1
        <5> QED BY <4>2, <5>2
      <4> QED BY <4>1, <4>2
    <3> QED BY <3>3, <3>5, Zenon DEF bad
  <2>5. ASSUME VerifyStore.bad = 0 PROVE ~Commitment(TRUE).raised
    <3>1. AllReadable
      BY <2>1, <2>5, VerifyIs
    <3> QED BY <2>4, <3>1, ReadableAreStrips
  <2>6. ASSUME ~Commitment(TRUE).raised PROVE VerifyStore.bad = 0
    <3>1. AllReadable
      BY <2>2, <2>4, <2>6 DEF AllReadable
    <3>2. \A k \in 1..Len(OnDisk) : Verified(OnDisk[k])
      BY <3>1, ReadableAreStrips
    <3>3. VerifyStore = [ok |-> Len(OnDisk), bad |-> 0]
      BY <2>1, <3>1, <3>2, VerifyIs
    <3> QED BY <3>3
  <2> QED BY <2>5, <2>6
<1> QED BY <1>1, StoreInv, PTL

\* The filter entries of a block that name a transaction of it are one for
\* each output that it has dropped.
IsMine(filters, t, q) == q \in 1..Len(filters) /\ filters[q].key.tx = t.id

Names(filters, t) ==
  /\ \A q \in 1..Len(filters) : \E n \in Dropped(t) :
       filters[q] = [key |-> [tx |-> t.id, n |-> n], coin |-> [tx |-> t.id, n |-> n]]
  /\ \A n \in Dropped(t) : \E q \in 1..Len(filters) : filters[q].key.n = n
  /\ \A q, s \in 1..Len(filters) : filters[q].key.n = filters[s].key.n => q = s

NamesMine(filters, t) ==
  /\ \A q : IsMine(filters, t, q) => \E n \in Dropped(t) :
       filters[q] = [key |-> [tx |-> t.id, n |-> n], coin |-> [tx |-> t.id, n |-> n]]
  /\ \A n \in Dropped(t) : \E q : IsMine(filters, t, q) /\ filters[q].key.n = n
  /\ \A q, s : /\ IsMine(filters, t, q) /\ IsMine(filters, t, s)
               /\ filters[q].key.n = filters[s].key.n
               => q = s

LEMMA MineAre ==
  ASSUME NEW block \in Block,
         \A i, j \in 1..Len(block) : block[i].id = block[j].id => i = j,
         NEW p \in 1..Len(block), NEW filters, filters = FlattenSeq(FiltersOfBlock(block)),
         NEW t, t = block[p]
  PROVE  filters \in Seq(Filter) /\ t \in Tx /\ NamesMine(filters, t)
<1> DEFINE parts == FiltersOfBlock(block)
<1>1. /\ parts \in Seq(Seq(Filter)) /\ Len(parts) = Len(block) /\ Len(block) \in Nat
      /\ \A i \in 1..Len(block) : parts[i] = FilterEntries(block[i]) /\ block[i] \in Tx
  BY BlockFilters DEF Block
<1>2. filters = FlattenSeq(parts)
  OBVIOUS
<1> HIDE DEF parts
<1>3. PICK off \in [Nat -> Nat] : Offsets(off, parts, Len(parts))
  BY <1>1, OffsetsExist
<1>4. filters \in Seq(Filter) /\ Chained(filters, parts, off)
  <2>1. PICK seqs \in Seq(Seq(Filter)) : seqs = parts
    BY <1>1
  <2>2. FlattenSeq(seqs) \in Seq(Filter) /\ Chained(FlattenSeq(seqs), seqs, off)
    BY <1>3, <2>1, FlattenIs
  <2> QED BY <1>2, <2>1, <2>2
<1>5. t \in Tx /\ parts[p] = FilterEntries(t) /\ p \in 1..Len(parts)
  BY <1>1
<1>6. ASSUME NEW i \in 1..Len(parts)
      PROVE  /\ Names(parts[i], block[i])
             /\ \A j \in 1..Len(parts[i]) : parts[i][j].key.tx = block[i].id
  <2>1. PICK u \in Tx : u = block[i]
    BY <1>1
  <2>2. parts[i] = FilterEntries(u)
    BY <1>1, <2>1
  <2>3. Names(FilterEntries(u), u)
    BY FiltersAre DEF Names
  <2>4. \A j \in 1..Len(FilterEntries(u)) : FilterEntries(u)[j].key.tx = u.id
    <3> SUFFICES ASSUME NEW j \in 1..Len(FilterEntries(u))
                 PROVE  FilterEntries(u)[j].key.tx = u.id
      OBVIOUS
    <3>1. PICK n \in Dropped(u) : FilterEntries(u)[j] = [key |-> [tx |-> u.id, n |-> n],
                                                         coin |-> [tx |-> u.id, n |-> n]]
      BY <2>3 DEF Names
    <3> QED BY <3>1
  <2> QED BY <2>1, <2>2, <2>3, <2>4
<1>7. PICK mine : mine = parts[p] /\ Names(mine, t) /\ \A j \in 1..Len(mine) : mine[j].key.tx = t.id
  BY <1>5, <1>6
<1>8. ASSUME NEW q, IsMine(filters, t, q)
      PROVE  \E j \in 1..Len(parts[p]) : q = off[p - 1] + j /\ filters[q] = parts[p][j]
  <2>1. q \in 1..Len(filters) /\ filters[q].key.tx = t.id
    BY <1>8 DEF IsMine
  <2>2. PICK i \in 1..Len(parts) : \E j \in 1..Len(parts[i]) : q = off[i - 1] + j
    BY <1>4, <2>1 DEF Chained
  <2>3. PICK j \in 1..Len(parts[i]) : q = off[i - 1] + j
    BY <2>2
  <2>4. filters[q] = parts[i][j]
    BY <1>4, <2>3 DEF Chained
  <2>5. filters[q].key.tx = block[i].id
    BY <1>6, <2>4
  <2>6. i = p
    BY <1>1, <2>1, <2>5
  <2> QED BY <2>3, <2>4, <2>6
<1>9. ASSUME NEW q, IsMine(filters, t, q)
      PROVE  \E n \in Dropped(t) :
               filters[q] = [key |-> [tx |-> t.id, n |-> n], coin |-> [tx |-> t.id, n |-> n]]
  <2>1. PICK j \in 1..Len(mine) : filters[q] = mine[j]
    BY <1>7, <1>8, <1>9
  <2>2. \E n \in Dropped(t) :
          mine[j] = [key |-> [tx |-> t.id, n |-> n], coin |-> [tx |-> t.id, n |-> n]]
    BY <1>7 DEF Names
  <2> QED BY <2>1, <2>2, Zenon
<1>10. ASSUME NEW n \in Dropped(t)
      PROVE  \E q : IsMine(filters, t, q) /\ filters[q].key.n = n
  <2>1. PICK j \in 1..Len(mine) : mine[j].key.n = n
    BY <1>7 DEF Names
  <2> DEFINE q == off[p - 1] + j
  <2>2. q \in 1..Len(filters) /\ filters[q] = mine[j]
    BY <1>4, <1>5, <1>7 DEF Chained
  <2>3. filters[q].key.tx = t.id
    BY <1>7, <2>2
  <2> HIDE DEF q
  <2> QED BY <2>1, <2>2, <2>3 DEF IsMine
<1>11. ASSUME NEW q, NEW s, IsMine(filters, t, q), IsMine(filters, t, s),
              filters[q].key.n = filters[s].key.n
       PROVE  q = s
  <2>1. PICK j \in 1..Len(parts[p]) : q = off[p - 1] + j /\ filters[q] = parts[p][j]
    BY <1>8, <1>11
  <2>2. PICK k \in 1..Len(parts[p]) : s = off[p - 1] + k /\ filters[s] = parts[p][k]
    BY <1>8, <1>11
  <2>3. parts[p][j].key.n = parts[p][k].key.n
    BY <1>11, <2>1, <2>2
  <2>4. j = k
    BY <1>5, <1>6, <2>3 DEF Names
  <2> QED BY <2>1, <2>2, <2>4
<1> QED BY <1>4, <1>5, <1>9, <1>10, <1>11 DEF NamesMine

\* What is kept of a transaction are the outputs that were not dropped, in
\* order.
Kept(entry) == IF entry.flag = "stripped" THEN <<>> ELSE entry.body.outs

LEMMA KeptRank ==
  ASSUME NEW coins \in Seq(Coin), NEW keep, keep \subseteq 1..Len(coins)
  PROVE  \A n \in keep : Only(coins, keep)[Cardinality((1..n) \cap keep)] = coins[n]
BY OnlyRank

LEMMA KeptIs ==
  ASSUME NEW t \in Tx
  PROVE  /\ Kept(Entry(t)) \in Seq(Coin)
         /\ Len(Kept(Entry(t))) = Cardinality((1..Len(t.outs)) \ Dropped(t))
         /\ \A n \in (1..Len(t.outs)) \ Dropped(t) :
              Kept(Entry(t))[Cardinality((1..n) \ Dropped(t))] = Coins(t)[n]
         /\ Entry(t).flag # "stripped" => Entry(t).body.ins = t.ins
<1> DEFINE N == Len(t.outs)
           D == Dropped(t)
           K == (1..N) \ D
           kept == Kept(Entry(t))
<1>1. /\ Coins(t) \in Seq(Coin) /\ Len(Coins(t)) = N /\ N \in Nat \ {0} /\ DOMAIN t.outs = 1..N
      /\ D \subseteq 1..N
  BY CoinsIs
<1>2. /\ Entry(t).flag = Flag(t)
      /\ Entry(t).body = IF Flag(t) = "whole" THEN Whole(t)
                         ELSE IF Flag(t) = "modified" THEN RebuildWithout(t) ELSE None
      /\ Flag(t) \in {"whole", "modified", "stripped"}
  BY EntryIs
<1>3. kept = IF Flag(t) = "whole" THEN Coins(t)
             ELSE IF Flag(t) = "modified" THEN Only(Coins(t), K) ELSE <<>>
  <2>1. Whole(t).outs = Coins(t) /\ RebuildWithout(t).outs = Only(Coins(t), K)
    BY WholeIs, RebuildIs
  <2> HIDE DEF K, D, N
  <2> QED BY <1>2, <2>1 DEF Kept
<1>4. /\ Flag(t) = "whole" => D = {}
      /\ Flag(t) = "stripped" => K = {}
  BY <1>1 DEF Flag, Touched
<1>5. Entry(t).flag # "stripped" => Entry(t).body.ins = t.ins
  <2>1. Whole(t).ins = t.ins /\ RebuildWithout(t).ins = t.ins
    BY WholeIs, RebuildIs
  <2> QED BY <1>2, <2>1
<1>6. \A n \in K : (1..n) \ D = (1..n) \cap K
  BY <1>1
<1> HIDE DEF D, K, kept
<1>7. /\ kept \in Seq(Coin) /\ Len(kept) = Cardinality(K)
      /\ \A n \in K : kept[Cardinality((1..n) \ D)] = Coins(t)[n]
  <2>1. CASE Flag(t) = "whole"
    <3>1. D = {} /\ K = 1..N /\ kept = Coins(t)
      BY <1>3, <1>4, <2>1 DEF K
    <3>2. Cardinality(1..N) = N
      BY <1>1, OneTo
    <3>3. ASSUME NEW n \in 1..N PROVE Cardinality((1..n) \ D) = n
      <4>1. n \in Nat /\ (1..n) \ D = 1..n
        BY <1>1, <3>1
      <4> QED BY <4>1, OneTo
    <3> QED BY <1>1, <3>1, <3>2, <3>3
  <2>2. CASE Flag(t) = "modified"
    <3>1. kept = Only(Coins(t), K) /\ K \subseteq 1..Len(Coins(t))
      BY <1>1, <1>3, <2>2 DEF K
    <3>2. PICK coins \in Seq(Coin) : coins = Coins(t)
      BY <1>1
    <3>3. /\ Only(coins, K) \in Seq(Coin) /\ Len(Only(coins, K)) = Cardinality(K)
          /\ \A n \in K : Only(coins, K)[Cardinality((1..n) \cap K)] = coins[n]
      <4>1. coins \in Seq(Coin) /\ K \subseteq 1..Len(coins)
        BY <3>1, <3>2
      <4>2. Only(coins, K) \in Seq(Coin) /\ Len(Only(coins, K)) = Cardinality(K)
        BY <4>1, OnlyRank
      <4>3. \A n \in K : Only(coins, K)[Cardinality((1..n) \cap K)] = coins[n]
        BY <4>1, KeptRank
      <4> QED BY <4>2, <4>3
    <3> QED BY <1>6, <3>1, <3>2, <3>3
  <2>3. CASE Flag(t) = "stripped"
    <3>1. K = {} /\ kept = <<>>
      BY <1>3, <1>4, <2>3
    <3>2. <<>> \in Seq(Coin) /\ Len(<<>>) = 0 /\ Cardinality({}) = 0
      BY FS_EmptySet
    <3> QED BY <3>1, <3>2
  <2> QED BY <1>2, <2>1, <2>2, <2>3
<1> QED BY <1>5, <1>7 DEF kept, K, D

LEMMA RestoredIs ==
  ASSUME NEW block \in Block,
         \A i, j \in 1..Len(block) : block[i].id = block[j].id => i = j,
         NEW p \in 1..Len(block), NEW filters, filters = FlattenSeq(FiltersOfBlock(block)),
         NEW t, t = block[p]
  PROVE  Restored(Entry(t), t.id, filters) = Coins(t)
<1> DEFINE D == Dropped(t)
           N == Len(t.outs)
           mine == {i \in DOMAIN filters : filters[i].key.tx = t.id}
           kept == Kept(Entry(t))
           taken == {filters[i].key.n : i \in mine}
<1>1. filters \in Seq(Filter) /\ t \in Tx /\ NamesMine(filters, t)
  BY MineAre
<1>2. /\ Coins(t) \in Seq(Coin) /\ Len(Coins(t)) = N /\ N \in Nat /\ D \subseteq 1..N
      /\ \A n \in 1..N : Coins(t)[n] = [tx |-> t.id, n |-> n]
  BY <1>1, CoinsIs
<1>3. /\ Len(kept) = Cardinality((1..N) \ D)
      /\ \A n \in (1..N) \ D : kept[Cardinality((1..n) \ D)] = Coins(t)[n]
  BY <1>1, KeptIs
<1>4. /\ DOMAIN filters = 1..Len(filters) /\ Len(filters) \in Nat
      /\ \A q : q \in mine <=> IsMine(filters, t, q)
  BY <1>1 DEF IsMine
<1>5. Restored(Entry(t), t.id, filters) =
        [n \in 1..(Len(kept) + Cardinality(mine)) |->
           IF n \in taken THEN filters[CHOOSE i \in mine : filters[i].key.n = n].coin
           ELSE kept[Cardinality((1..n) \ taken)]]
  BY DEF Restored, Kept
<1> HIDE DEF kept, D, N
<1>6. \A q \in mine : filters[q].key.n \in D /\ filters[q].coin = [tx |-> t.id, n |-> filters[q].key.n]
  <2> SUFFICES ASSUME NEW q \in mine
               PROVE  filters[q].key.n \in D /\ filters[q].coin = [tx |-> t.id, n |-> filters[q].key.n]
    OBVIOUS
  <2>1. PICK n \in D :
          filters[q] = [key |-> [tx |-> t.id, n |-> n], coin |-> [tx |-> t.id, n |-> n]]
    <3>1. IsMine(filters, t, q)
      BY <1>4
    <3> QED BY <1>1, <3>1, Zenon DEF NamesMine, D
  <2> QED BY <2>1
<1>7. IsFiniteSet(mine)
  <2>1. IsFiniteSet(1..Len(filters)) /\ mine \subseteq 1..Len(filters)
    BY <1>4, OneTo
  <2> QED BY <2>1, FS_Subset
<1> HIDE DEF mine
<1>8. taken = D
  <2>1. ASSUME NEW n \in D PROVE \E q \in mine : filters[q].key.n = n
    BY <1>1, <1>4 DEF NamesMine, D
  <2>2. \A q \in mine : filters[q].key.n \in D
    BY <1>6
  <2> QED BY <2>1, <2>2
<1> HIDE DEF taken
<1>9. IsFiniteSet(D) /\ Cardinality(D) = Cardinality(mine)
  <2> DEFINE number == [q \in mine |-> filters[q].key.n]
  <2>1. number \in [mine -> D]
    BY <1>6
  <2>2. \A a, b \in mine : number[a] = number[b] => a = b
    BY <1>1, <1>4 DEF NamesMine, D
  <2>3. \A n \in D : \E q \in mine : number[q] = n
    BY <1>1, <1>4 DEF NamesMine, D
  <2> HIDE DEF number
  <2>4. number \in Bijection(mine, D)
    BY <2>1, <2>2, <2>3 DEF Bijection, Injection, Surjection, IsInjective
  <2>5. ExistsBijection(mine, D)
    BY <2>4 DEF ExistsBijection
  <2> QED BY <1>7, <2>5, FS_Bijection
<1>10. Len(kept) + Cardinality(mine) = N
  <2>1. IsFiniteSet(1..N) /\ Cardinality(1..N) = N
    BY <1>2, OneTo
  <2>2. (1..N) \cap D = D
    BY <1>2
  <2>3. Cardinality((1..N) \ D) = N - Cardinality(D)
    <3>1. PICK all : all = 1..N
      OBVIOUS
    <3>2. IsFiniteSet(all) /\ Cardinality(all) = N /\ all \cap D = D
      BY <2>1, <2>2, <3>1
    <3>3. Cardinality(all \ D) = Cardinality(all) - Cardinality(all \cap D)
      BY <1>9, <3>2, FS_Difference, Zenon
    <3> QED BY <3>1, <3>2, <3>3, Zenon
  <2>4. Cardinality(D) \in Nat
    BY <1>9, FS_CardinalityType
  <2> QED BY <1>2, <1>3, <1>9, <2>3, <2>4
<1>11. ASSUME NEW n \in 1..N
       PROVE  (IF n \in D THEN filters[CHOOSE i \in mine : filters[i].key.n = n].coin
               ELSE kept[Cardinality((1..n) \ D)]) = Coins(t)[n]
  <2>1. CASE n \in D
    <3> DEFINE q == CHOOSE i \in mine : filters[i].key.n = n
    <3>1. q \in mine /\ filters[q].key.n = n
      BY <1>1, <1>4, <2>1 DEF NamesMine, D
    <3> HIDE DEF q
    <3>2. filters[q].coin = [tx |-> t.id, n |-> n]
      BY <1>6, <3>1
    <3>3. filters[q].coin = Coins(t)[n]
      BY <1>2, <3>2
    <3> QED BY <2>1, <3>3 DEF q
  <2>2. CASE n \notin D
    BY <1>3, <2>2
  <2> QED BY <2>1, <2>2
<1> DEFINE f == [n \in 1..N |-> IF n \in D THEN filters[CHOOSE i \in mine : filters[i].key.n = n].coin
                                ELSE kept[Cardinality((1..n) \ D)]]
<1>12. Restored(Entry(t), t.id, filters) = f
  BY <1>5, <1>8, <1>10
<1>13. \A n \in 1..N : f[n] = Coins(t)[n]
  BY <1>11
<1>14. DOMAIN f = 1..N /\ f = [n \in 1..N |-> f[n]]
  OBVIOUS
<1> HIDE DEF f
<1>15. Coins(t) = [n \in 1..N |-> Coins(t)[n]]
  BY <1>2
<1> QED BY <1>12, <1>13, <1>14, <1>15

\* No output of a block is lost or changed, and no input of what is kept: the
\* record has each, kept or in a filter entry, under its number.
THEOREM CompletenessTheorem == Spec => []NothingLost
<1>1. IInv => NothingLost
  <2> SUFFICES ASSUME IInv, NEW k \in DOMAIN OnDisk, Readable(OnDisk[k]),
                      NEW i \in DOMAIN OnDisk[k].txs
               PROVE  LET t == chain[OnDisk[k].header][i]
                      IN /\ Restored(OnDisk[k].txs[i], t.id, OnDisk[k].filters) = Coins(t)
                         /\ OnDisk[k].txs[i].flag # "stripped" => OnDisk[k].txs[i].body.ins = t.ins
    BY DEF NothingLost
  <2>1. /\ files \in Seq(Seq(Record)) /\ AllWere(files, Strips, Len(chain)) /\ chain \in Seq(Block)
        /\ Len(chain) \in Nat /\ Sound(chain)
    BY DEF IInv, FilesInv, ChainInv, Sound
  <2>2. PICK h \in 1..Len(chain) : OnDisk[k] = StripBlock(h)
    <3>1. /\ OnDisk \in Seq(Record)
          /\ \A m \in 1..Len(OnDisk) : \E a \in 1..Len(files) : \E b \in 1..Len(files[a]) :
               OnDisk[m] = files[a][b]
      BY <2>1, FlattenHas DEF OnDisk
    <3>2. k \in 1..Len(OnDisk) /\ OnDisk[k] \in Record
      BY <3>1
    <3>3. PICK a \in 1..Len(files) : \E b \in 1..Len(files[a]) : OnDisk[k] = files[a][b]
      BY <3>1, <3>2
    <3>4. PICK b \in 1..Len(files[a]) : OnDisk[k] = files[a][b]
      BY <3>3
    <3>5. PICK h \in 1..Len(chain) : Was(files[a][b], Strips, h)
      BY <2>1 DEF AllWere
    <3>6. h \in Nat /\ chain[h] \in Block /\ Strips[h] = StripBlock(h)
      BY <2>1 DEF Strips
    <3>7. OnDisk[k] = StripBlock(h)
      BY <3>2, <3>4, <3>5, <3>6, ReadableIs DEF Was
    <3> QED BY <3>7
  <2>3. h \in Nat /\ chain[h] \in Block
    BY <2>1
  <2> DEFINE block == chain[h]
             filters == FlattenSeq(FiltersOfBlock(block))
  <2>4. /\ OnDisk[k].header = h /\ OnDisk[k].txs = [j \in 1..Len(block) |-> Entry(block[j])]
        /\ OnDisk[k].filters = filters
    BY <2>2, <2>3, StripIs
  <2>5. i \in 1..Len(block) /\ OnDisk[k].txs[i] = Entry(block[i])
    BY <2>4
  <2>6. \A a, b \in 1..Len(block) : block[a].id = block[b].id => a = b
    BY <2>1 DEF Sound
  <2>7. block[i] \in Tx
    BY <2>3, <2>5 DEF Block
  <2> HIDE DEF block
  <2>8. Restored(Entry(block[i]), block[i].id, filters) = Coins(block[i])
    BY <2>3, <2>5, <2>6, RestoredIs DEF block
  <2> HIDE DEF filters
  <2>9. Entry(block[i]).flag # "stripped" => Entry(block[i]).body.ins = block[i].ins
    BY <2>7, KeptIs
  <2>10. chain[OnDisk[k].header] = block
    BY <2>4 DEF block
  <2> QED BY <2>4, <2>5, <2>8, <2>9, <2>10
<1> QED BY <1>1, StoreInv, PTL

-----------------------------------------------------------------------------
(* The order of the chain: what the readers, who see each block once, rely *)
(* on.                                                                     *)

\* Of two transactions, the one that comes first in the chain has the smaller
\* id.
InOrder(blocks) ==
  \A g, h \in 1..Len(blocks) : \A j \in 1..Len(blocks[g]), i \in 1..Len(blocks[h]) :
    g < h \/ (g = h /\ j < i) => blocks[g][j].id < blocks[h][i].id

\* A transaction spends outputs of those before it.
SpendsEarlier(txs) ==
  \A t \in txs : \A c \in t.ins :
    c.tx < t.id /\ \E u \in txs : u.id = c.tx /\ c.n \in DOMAIN u.outs

LedgerInv == InOrder(chain) /\ SpendsEarlier(TxSet)

\* What is mined is at the end.
LEMMA MinedIsLast ==
  ASSUME NEW blocks \in Seq(Block), NEW t \in Tx, NEW more \in Mined(blocks, t),
         NEW h \in 1..Len(more), NEW i \in 1..Len(more[h])
  PROVE  \/ h \in 1..Len(blocks) /\ i \in 1..Len(blocks[h]) /\ more[h][i] = blocks[h][i]
         \/ h = Len(more) /\ i = Len(more[h]) /\ more[h][i] = t
<1>1. /\ Len(blocks) \in Nat /\ DOMAIN blocks = 1..Len(blocks)
      /\ \A g \in 1..Len(blocks) : blocks[g] \in Seq(Tx) /\ Len(blocks[g]) \in Nat
  BY DEF Block
<1>2. CASE more = Append(blocks, <<t>>)
  <2>1. Len(more) = Len(blocks) + 1 /\ (h \in 1..Len(blocks) \/ h = Len(blocks) + 1)
    BY <1>1, <1>2
  <2>2. CASE h \in 1..Len(blocks)
    <3>1. more[h] = blocks[h]
      BY <1>1, <1>2, <2>2
    <3> QED BY <2>2, <3>1
  <2>3. CASE h = Len(blocks) + 1
    <3>1. more[h] = <<t>>
      BY <1>1, <1>2, <2>3
    <3>2. Len(more[h]) = 1 /\ i \in 1..1 /\ more[h][1] = t
      BY <3>1
    <3> QED BY <2>1, <2>3, <3>2
  <2> QED BY <2>1, <2>2, <2>3
<1>3. CASE blocks # <<>> /\ more = [blocks EXCEPT ![Len(blocks)] = Append(@, t)]
  <2> DEFINE top == Len(blocks)
             last == Append(blocks[top], t)
  <2>1. top \in 1..Len(blocks)
    <3>1. Len(blocks) # 0
      BY <1>3
    <3> QED BY <1>1, <3>1
  <2>2. more = [blocks EXCEPT ![top] = last] /\ h \in 1..Len(blocks) /\ Len(more) = top
    <3>1. more = [blocks EXCEPT ![top] = last]
      BY <1>3
    <3> HIDE DEF last, top
    <3>2. DOMAIN more = 1..Len(blocks)
      BY <1>1, <3>1
    <3>3. Len(more) = Len(blocks)
      BY <1>1, <3>2
    <3> QED BY <3>1, <3>3 DEF top
  <2>3. \A k \in 1..Len(blocks[top]) : last[k] = blocks[top][k]
    BY <1>1, <2>1
  <2>4. Len(last) = Len(blocks[top]) + 1 /\ last[Len(blocks[top]) + 1] = t
    BY <1>1, <2>1
  <2> HIDE DEF last
  <2>5. CASE h = top
    <3>1. more[h] = last
      BY <1>1, <2>1, <2>2, <2>5
    <3>2. i \in 1..Len(blocks[top]) \/ i = Len(blocks[top]) + 1
      BY <1>1, <2>1, <2>4, <3>1
    <3>3. CASE i \in 1..Len(blocks[top])
      BY <2>1, <2>3, <2>5, <3>1, <3>3
    <3>4. CASE i = Len(blocks[top]) + 1
      BY <2>2, <2>4, <2>5, <3>1, <3>4
    <3> QED BY <3>2, <3>3, <3>4
  <2>6. CASE h # top
    <3>1. h \in DOMAIN blocks
      BY <1>1, <2>2
    <3> HIDE DEF top
    <3>2. more[h] = blocks[h]
      BY <2>2, <2>6, <3>1
    <3> QED BY <2>2, <3>2
  <2> QED BY <2>5, <2>6
<1>4. \/ more = Append(blocks, <<t>>)
      \/ blocks # <<>> /\ more = [blocks EXCEPT ![Len(blocks)] = Append(@, t)]
  BY DEF Mined
<1> QED BY <1>2, <1>3, <1>4

\* What is mined has an id of its own, larger than any before it,
LEMMA OrderGrows ==
  ASSUME NEW blocks, Sound(blocks), InOrder(blocks), NEW t \in Tx,
         t.id = Cardinality(TxsOf(blocks)) + 1, NEW more \in Mined(blocks, t)
  PROVE  InOrder(more)
<1>1. /\ blocks \in Seq(Block) /\ Cardinality(TxsOf(blocks)) \in Nat
      /\ \A u \in TxsOf(blocks) : u \in Tx /\ u.id <= Cardinality(TxsOf(blocks))
  BY FS_CardinalityType, TxsAre DEF Sound
<1>2. more \in Seq(Block)
  BY <1>1, MinedAdds
<1>3. Len(more) \in Nat /\ \A h \in 1..Len(more) : Len(more[h]) \in Nat
  BY <1>2 DEF Block
<1> DEFINE Old(h, i) == h \in 1..Len(blocks) /\ i \in 1..Len(blocks[h]) /\ more[h][i] = blocks[h][i]
           AtEnd(h, i) == h = Len(more) /\ i = Len(more[h]) /\ more[h][i] = t
<1>4. \A h \in 1..Len(more) : \A i \in 1..Len(more[h]) : Old(h, i) \/ AtEnd(h, i)
  BY <1>1, MinedIsLast
<1>5. \A h, i : Old(h, i) => more[h][i].id < t.id
  <2> SUFFICES ASSUME NEW h, NEW i, Old(h, i) PROVE more[h][i].id < t.id
    OBVIOUS
  <2>1. blocks[h][i] \in TxsOf(blocks)
    BY <1>1, TxsAre
  <2>2. blocks[h][i].id \in Nat /\ blocks[h][i].id <= Cardinality(TxsOf(blocks))
    BY <1>1, <2>1 DEF Tx
  <2> QED BY <1>1, <2>2
<1> SUFFICES ASSUME NEW g \in 1..Len(more), NEW h \in 1..Len(more),
                    NEW j \in 1..Len(more[g]), NEW i \in 1..Len(more[h]),
                    g < h \/ (g = h /\ j < i)
             PROVE  more[g][j].id < more[h][i].id
  BY DEF InOrder
<1>6. g \in Nat /\ h \in Nat /\ j \in Nat /\ i \in Nat /\ h <= Len(more) /\ i <= Len(more[h])
  BY <1>3
<1>7. ~AtEnd(g, j)
  BY <1>3, <1>6
<1>8. Old(g, j)
  BY <1>4, <1>7
<1>9. CASE Old(h, i)
  BY <1>8, <1>9 DEF InOrder
<1>10. CASE AtEnd(h, i)
  BY <1>5, <1>8, <1>10
<1> QED BY <1>4, <1>9, <1>10

\* ... and spends outputs of what is there.
LEMMA SpendsGrow ==
  ASSUME NEW blocks, Sound(blocks), SpendsEarlier(TxsOf(blocks)), NEW t \in Tx,
         t.id = Cardinality(TxsOf(blocks)) + 1, t.ins \subseteq Created(TxsOf(blocks)),
         NEW more \in Mined(blocks, t)
  PROVE  SpendsEarlier(TxsOf(more))
<1> DEFINE txs == TxsOf(blocks)
<1>1. /\ blocks \in Seq(Block) /\ Cardinality(txs) \in Nat
      /\ \A u \in txs : u \in Tx /\ u.id <= Cardinality(txs)
  BY FS_CardinalityType, TxsAre DEF Sound
<1>2. TxsOf(more) = txs \cup {t}
  BY <1>1, MinedAdds
<1>3. ASSUME NEW c \in t.ins
      PROVE  c.tx < t.id /\ \E u \in txs : u.id = c.tx /\ c.n \in DOMAIN u.outs
  <2>1. PICK u \in txs : c \in {Coins(u)[n] : n \in DOMAIN u.outs}
    BY <1>3 DEF Created
  <2>2. PICK n \in DOMAIN u.outs : c = Coins(u)[n]
    BY <2>1
  <2>3. c = [tx |-> u.id, n |-> n]
    BY <1>1, <2>2, CoinsIs
  <2>4. u.id \in Nat /\ u.id <= Cardinality(txs)
    BY <1>1 DEF Tx
  <2>5. c.tx = u.id /\ c.n = n
    BY <2>3
  <2> HIDE DEF txs
  <2>6. c.tx < t.id
    BY <1>1, <2>4, <2>5 DEF txs
  <2> QED BY <2>2, <2>5, <2>6
<1> HIDE DEF txs
<1>4. SpendsEarlier(txs)
  BY DEF txs
<1> QED BY <1>2, <1>3, <1>4 DEF SpendsEarlier

\* Every step keeps the order of the chain.
LEMMA LedgerStep == IInv /\ LedgerInv /\ [Next]_vars => LedgerInv'
<1> SUFFICES ASSUME IInv, LedgerInv, [Next]_vars PROVE LedgerInv'
  OBVIOUS
<1>1. Sound(chain) /\ TxSet = TxsOf(chain)
  BY DEF IInv, ChainInv, TxSet, TxsOf
<1>2. ASSUME MineAny PROVE LedgerInv'
  <2>1. PICK t : /\ t \in Tx /\ t.id = Cardinality(TxsOf(chain)) + 1
                 /\ t.ins \subseteq Created(TxsOf(chain)) /\ chain' \in Mined(chain, t)
    BY <1>1, <1>2, MinedIs
  <2>2. InOrder(chain')
    BY <1>1, <2>1, OrderGrows DEF LedgerInv
  <2>3. SpendsEarlier(TxsOf(chain'))
    BY <1>1, <2>1, SpendsGrow DEF LedgerInv
  <2>4. TxSet' = TxsOf(chain')
    BY DEF TxSet, TxsOf
  <2> QED BY <2>2, <2>3, <2>4 DEF LedgerInv
<1>3. ASSUME chain' = chain PROVE LedgerInv'
  BY <1>3 DEF LedgerInv, TxSet
<1>4. MineAny \/ chain' = chain
  BY DEF Next, vars, Start, WriteBlock, Finish, Kill, Damage
<1> QED BY <1>2, <1>3, <1>4

\* It is invariant, for any chain.
THEOREM LedgerTheorem == Spec => []LedgerInv
<1>1. Init => LedgerInv
  <2> SUFFICES ASSUME Init PROVE LedgerInv
    OBVIOUS
  <2>1. chain \in Seq(Block) /\ Len(chain) = 0
    BY DEF Init
  <2>2. TxSet = {}
    BY <2>1, TxSetIs
  <2> QED BY <2>1, <2>2 DEF LedgerInv, InOrder, SpendsEarlier
<1> QED BY <1>1, LedgerStep, StoreInv, PTL DEF Spec

-----------------------------------------------------------------------------
(* What the readers find on the disk.                                      *)

\* A record of a block, as the readers see it.
RecordOf(r, block) ==
  /\ r.txs = [i \in 1..Len(block) |-> Entry(block[i])]
  /\ r.filters = FlattenSeq(FiltersOfBlock(block))
  /\ Txids(r) = [i \in 1..Len(block) |-> block[i].id]

\* The disk holds the blocks of the range and nothing else; in them, a
\* transaction is told by its id, and spends what those before it created.
Stored(blocks) ==
  /\ blocks \in Seq(Block)
  /\ OnDisk \in Seq(Record) /\ Len(OnDisk) = Len(blocks)
  /\ \A k \in 1..Len(blocks) : RecordOf(OnDisk[k], blocks[k])
  /\ RangeTxs = TxsOf(blocks)
  /\ InOrder(blocks)
  /\ \A k \in 1..Len(blocks) : \A i \in 1..Len(blocks[k]) :
       HeightOf(blocks[k][i]) = range[1] + k - 1
  /\ \A t \in RangeTxs : \A c \in t.ins :
       c.tx < t.id /\ \A u \in RangeTxs : u.id = c.tx => c.n \in DOMAIN u.outs

\* A place in the chain is told by the id of what is there.
LEMMA IdsTell ==
  ASSUME NEW blocks \in Seq(Block), InOrder(blocks),
         NEW g \in 1..Len(blocks), NEW h \in 1..Len(blocks),
         NEW j \in 1..Len(blocks[g]), NEW i \in 1..Len(blocks[h])
  PROVE  /\ blocks[g][j].id = blocks[h][i].id => g = h /\ j = i
         /\ blocks[g][j].id < blocks[h][i].id => g < h \/ (g = h /\ j < i)
<1>1. /\ blocks[g] \in Seq(Tx) /\ blocks[h] \in Seq(Tx) /\ g \in Nat /\ h \in Nat
      /\ i \in Nat /\ j \in Nat
  BY DEF Block
<1>2. blocks[g][j].id \in Nat /\ blocks[h][i].id \in Nat
  <2>1. blocks[g][j] \in Tx /\ blocks[h][i] \in Tx
    BY <1>1
  <2> QED BY <2>1 DEF Tx
<1>3. /\ g < h \/ (g = h /\ j < i) => blocks[g][j].id < blocks[h][i].id
      /\ h < g \/ (h = g /\ i < j) => blocks[h][i].id < blocks[g][j].id
  BY DEF InOrder
<1> QED BY <1>1, <1>2, <1>3

\* What verify_store finds nothing bad in, and that has a record for each block
\* of the range, is that.
LEMMA ReadiedIs ==
  ASSUME IInv, LedgerInv, Readied
  PROVE  \E blocks \in Seq(Block) : Stored(blocks)
<1> DEFINE first == range[1]
           last == range[2]
           blocks == SubSeq(chain, first, last)
<1>1. AllReadable /\ pc = "done" /\ Len(OnDisk) = last - first + 1
  BY VerifyIs DEF IInv, FilesInv, Readied
<1>2. /\ chain \in Seq(Block) /\ Len(chain) \in Nat
      /\ first \in Nat /\ last \in Nat /\ 1 <= first /\ first <= last /\ last <= Len(chain)
  BY <1>1 DEF IInv, ChainInv, Sound, RunInv, UnderWay
<1>3. /\ OnDisk \in Seq(Record) /\ Len(OnDisk) \in Nat
      /\ \A k \in 1..Len(OnDisk) : /\ OnDisk[k].hash = first + k - 1
                                    /\ \E h \in 1..Len(chain) : OnDisk[k] = StripBlock(h) /\ OnDisk[k].hash = h
  BY <1>1, RangeIsFirst, ReadableAreStrips
<1>4. /\ blocks \in Seq(Block) /\ Len(blocks) = last - first + 1
      /\ \A k \in 1..Len(blocks) : /\ first + k - 1 \in 1..Len(chain)
                                   /\ blocks[k] = chain[first + k - 1]
  <2>1. ASSUME NEW k \in 1..(last - first + 1) PROVE first + k - 1 \in 1..Len(chain)
    BY <1>2
  <2>2. blocks = [k \in 1..(last - first + 1) |-> chain[first + k - 1]]
    <3>1. PICK s \in Seq(Block), a \in Nat, b \in Nat : s = chain /\ a = first /\ b = last
      BY <1>2
    <3>2. SubSeq(s, a, b) = [k \in 1..(b - a + 1) |-> s[a + k - 1]]
      OBVIOUS
    <3> QED BY <3>1, <3>2
  <2>3. last - first + 1 \in Nat
    BY <1>2
  <2>4. \A k \in 1..(last - first + 1) : chain[first + k - 1] \in Block
    BY <1>2, <2>1
  <2> HIDE DEF blocks, first, last
  <2> QED BY <2>1, <2>2, <2>3, <2>4
<1>5. RangeTxs = TxsOf(blocks)
  BY DEF RangeTxs, InRange, TxsOf
<1> HIDE DEF blocks, first, last
<1>6. ASSUME NEW k \in 1..Len(blocks) PROVE RecordOf(OnDisk[k], blocks[k])
  <2>1. k \in 1..Len(OnDisk)
    BY <1>1, <1>4
  <2>2. PICK h \in 1..Len(chain) : OnDisk[k] = StripBlock(h) /\ h = first + k - 1
    BY <1>3, <2>1
  <2>3. blocks[k] = chain[h] /\ chain[h] \in Block /\ h \in Nat
    BY <1>2, <1>4, <2>2
  <2> DEFINE txs == [i \in 1..Len(chain[h]) |-> Entry(chain[h][i])]
             filters == FlattenSeq(FiltersOfBlock(chain[h]))
  <2>4. StripBlock(h) = [frame |-> "good", digest |-> Digest(StripBlock(h)), hash |-> h,
                         header |-> h, txs |-> txs, filters |-> filters]
    BY <2>3, StripIs
  <2>5. Txids(StripBlock(h)) = [i \in 1..Len(chain[h]) |-> chain[h][i].id]
    BY <1>2, TxidsAre
  <2> HIDE DEF txs, filters
  <2>6. StripBlock(h).txs = txs /\ StripBlock(h).filters = filters
    BY <2>4
  <2> QED BY <2>2, <2>3, <2>5, <2>6 DEF RecordOf, txs, filters
<1>7. InOrder(blocks)
  <2> SUFFICES ASSUME NEW g \in 1..Len(blocks), NEW h \in 1..Len(blocks),
                      NEW j \in 1..Len(blocks[g]), NEW i \in 1..Len(blocks[h]),
                      g < h \/ (g = h /\ j < i)
               PROVE  blocks[g][j].id < blocks[h][i].id
    BY DEF InOrder
  <2> DEFINE a == first + g - 1
             b == first + h - 1
  <2>1. a \in 1..Len(chain) /\ b \in 1..Len(chain) /\ blocks[g] = chain[a] /\ blocks[h] = chain[b]
    BY <1>4
  <2>2. a < b \/ (a = b /\ j < i)
    BY <1>2, <1>4
  <2> HIDE DEF a, b
  <2> QED BY <2>1, <2>2 DEF LedgerInv, InOrder
<1>8. ASSUME NEW k \in 1..Len(blocks), NEW i \in 1..Len(blocks[k])
      PROVE  HeightOf(blocks[k][i]) = first + k - 1
  <2> DEFINE t == blocks[k][i]
             h == first + k - 1
             z == CHOOSE g \in DOMAIN chain : \E j \in DOMAIN chain[g] : chain[g][j] = t
  <2>1. h \in 1..Len(chain) /\ i \in 1..Len(chain[h]) /\ chain[h][i] = t
    BY <1>4
  <2>2. \A g \in 1..Len(chain) : DOMAIN chain[g] = 1..Len(chain[g])
    BY <1>2 DEF Block
  <2>3. DOMAIN chain = 1..Len(chain)
    BY <1>2
  <2> HIDE DEF t, h
  <2>4. \E g \in DOMAIN chain : \E j \in DOMAIN chain[g] : chain[g][j] = t
    BY <2>1, <2>2, <2>3
  <2>5. z \in DOMAIN chain /\ \E j \in DOMAIN chain[z] : chain[z][j] = t
    BY <2>4
  <2>6. HeightOf(t) = z
    BY DEF HeightOf
  <2> HIDE DEF z
  <2>7. PICK j \in 1..Len(chain[z]) : chain[z][j] = t
    BY <2>2, <2>3, <2>5
  <2>8. InOrder(chain) /\ chain \in Seq(Block) /\ z \in 1..Len(chain)
    BY <1>2, <2>3, <2>5 DEF LedgerInv
  <2>9. chain[z][j].id = chain[h][i].id
    BY <2>1, <2>7
  <2>10. z = h
    <3>1. PICK b \in 1..Len(chain) : b = h
      BY <2>1
    <3>2. PICK a \in 1..Len(chain) : a = z
      BY <2>8
    <3>3. PICK q \in 1..Len(chain[b]) : q = i
      BY <2>1, <3>1
    <3>4. PICK m \in 1..Len(chain[a]) : m = j
      BY <3>2
    <3>5. chain[a][m].id = chain[b][q].id
      BY <2>9, <3>1, <3>2, <3>3, <3>4
    <3>6. a = b
      BY <2>8, <3>5, IdsTell
    <3> QED BY <3>1, <3>2, <3>6
  <2> QED BY <2>6, <2>10 DEF t, h
<1>9. ASSUME NEW t \in RangeTxs, NEW c \in t.ins
      PROVE  c.tx < t.id /\ \A u \in RangeTxs : u.id = c.tx => c.n \in DOMAIN u.outs
  <2>1. \A u \in RangeTxs : \E k \in 1..Len(chain) : \E i \in 1..Len(chain[k]) : u = chain[k][i]
    <3> SUFFICES ASSUME NEW u \in RangeTxs
                 PROVE  \E k \in 1..Len(chain) : \E i \in 1..Len(chain[k]) : u = chain[k][i]
      OBVIOUS
    <3>1. PICK k \in 1..Len(blocks) : \E i \in 1..Len(blocks[k]) : u = blocks[k][i]
      BY <1>4, <1>5, TxsAre
    <3>2. first + k - 1 \in 1..Len(chain) /\ blocks[k] = chain[first + k - 1]
      BY <1>4
    <3> QED BY <3>1, <3>2
  <2>2. t \in TxSet
    BY <1>2, <2>1, TxSetIs
  <2>3. c.tx < t.id /\ \E w \in TxSet : w.id = c.tx /\ c.n \in DOMAIN w.outs
    BY <2>2 DEF LedgerInv, SpendsEarlier
  <2>4. PICK w \in TxSet : w.id = c.tx /\ c.n \in DOMAIN w.outs
    BY <2>3
  <2>5. ASSUME NEW u \in RangeTxs, u.id = c.tx PROVE u = w
    <3>1. PICK g \in 1..Len(chain), h \in 1..Len(chain) :
            (\E j \in 1..Len(chain[g]) : u = chain[g][j]) /\ \E i \in 1..Len(chain[h]) : w = chain[h][i]
      BY <1>2, <2>1, TxSetIs
    <3>2. PICK j \in 1..Len(chain[g]) : u = chain[g][j]
      BY <3>1
    <3>3. PICK i \in 1..Len(chain[h]) : w = chain[h][i]
      BY <3>1
    <3>4. InOrder(chain)
      BY DEF LedgerInv
    <3>5. chain[g][j].id = chain[h][i].id
      BY <2>4, <2>5, <3>2, <3>3
    <3>6. g = h /\ j = i
      BY <1>2, <3>4, <3>5, IdsTell
    <3> QED BY <3>2, <3>3, <3>6
  <2> QED BY <2>3, <2>4, <2>5
<1>10. Stored(blocks)
  BY <1>1, <1>3, <1>4, <1>5, <1>6, <1>7, <1>8, <1>9 DEF Stored, first
<1> QED BY <1>4, <1>10

\* The outputs dropped of a transaction, and of a block.
DroppedOf(t) == {[tx |-> t.id, n |-> n] : n \in Dropped(t)}
DroppedIn(block) == UNION {DroppedOf(block[i]) : i \in 1..Len(block)}

\* The keys of the filter entries of a block are what is dropped in it.
LEMMA KeysAre ==
  ASSUME NEW block \in Block, NEW filters, filters = FlattenSeq(FiltersOfBlock(block))
  PROVE  /\ filters \in Seq(Filter)
         /\ {filters[q].key : q \in DOMAIN filters} = DroppedIn(block)
         /\ \A q \in DOMAIN filters : filters[q].coin = filters[q].key
<1> DEFINE parts == FiltersOfBlock(block)
<1>1. /\ parts \in Seq(Seq(Filter)) /\ Len(parts) = Len(block) /\ Len(block) \in Nat
      /\ \A i \in 1..Len(block) : parts[i] = FilterEntries(block[i]) /\ block[i] \in Tx
  BY BlockFilters DEF Block
<1> HIDE DEF parts
<1>2. /\ filters \in Seq(Filter)
      /\ \A i \in 1..Len(parts) : \A j \in 1..Len(parts[i]) :
           \E q \in 1..Len(filters) : filters[q] = parts[i][j]
      /\ \A q \in 1..Len(filters) :
           \E i \in 1..Len(parts) : \E j \in 1..Len(parts[i]) : filters[q] = parts[i][j]
  <2>1. PICK seqs \in Seq(Seq(Filter)) : seqs = parts /\ filters = FlattenSeq(seqs)
    BY <1>1 DEF parts
  <2>2. /\ FlattenSeq(seqs) \in Seq(Filter)
        /\ \A i \in 1..Len(seqs) : \A j \in 1..Len(seqs[i]) :
             \E q \in 1..Len(FlattenSeq(seqs)) : FlattenSeq(seqs)[q] = seqs[i][j]
        /\ \A q \in 1..Len(FlattenSeq(seqs)) :
             \E i \in 1..Len(seqs) : \E j \in 1..Len(seqs[i]) : FlattenSeq(seqs)[q] = seqs[i][j]
    BY FlattenHas
  <2> QED BY <2>1, <2>2
<1>3. DOMAIN filters = 1..Len(filters)
  BY <1>2
<1>4. ASSUME NEW q \in 1..Len(filters)
      PROVE  filters[q].key \in DroppedIn(block) /\ filters[q].coin = filters[q].key
  <2>1. PICK i \in 1..Len(parts) : \E j \in 1..Len(parts[i]) : filters[q] = parts[i][j]
    BY <1>2
  <2>2. PICK j \in 1..Len(parts[i]) : filters[q] = parts[i][j]
    BY <2>1
  <2>3. PICK t \in Tx : t = block[i] /\ parts[i] = FilterEntries(t) /\ i \in 1..Len(block)
    BY <1>1
  <2>4. PICK n \in Dropped(t) :
          FilterEntries(t)[j] = [key |-> [tx |-> t.id, n |-> n], coin |-> [tx |-> t.id, n |-> n]]
    BY <2>3, FiltersAre
  <2>5. filters[q].key = [tx |-> t.id, n |-> n] /\ filters[q].coin = [tx |-> t.id, n |-> n]
    BY <2>2, <2>3, <2>4
  <2>6. filters[q].key \in DroppedOf(t)
    BY <2>5 DEF DroppedOf
  <2> QED BY <2>3, <2>5, <2>6 DEF DroppedIn
<1>5. ASSUME NEW c \in DroppedIn(block) PROVE \E q \in 1..Len(filters) : c = filters[q].key
  <2>1. PICK i \in 1..Len(block) : c \in DroppedOf(block[i])
    BY DEF DroppedIn
  <2>2. PICK t \in Tx : t = block[i] /\ parts[i] = FilterEntries(t) /\ i \in 1..Len(parts)
    BY <1>1
  <2>3. PICK n \in Dropped(t) : c = [tx |-> t.id, n |-> n]
    BY <2>1, <2>2 DEF DroppedOf
  <2>4. PICK j \in 1..Len(FilterEntries(t)) : FilterEntries(t)[j].key.n = n
    BY <2>2, FiltersAre
  <2>5. PICK m \in Dropped(t) :
          FilterEntries(t)[j] = [key |-> [tx |-> t.id, n |-> m], coin |-> [tx |-> t.id, n |-> m]]
    <3>1. \A q \in 1..Len(FilterEntries(t)) : \E m \in Dropped(t) :
            FilterEntries(t)[q] = [key |-> [tx |-> t.id, n |-> m], coin |-> [tx |-> t.id, n |-> m]]
      BY <2>2, FiltersAre
    <3> QED BY <2>4, <3>1
  <2>6. FilterEntries(t)[j].key = c
    BY <2>3, <2>4, <2>5
  <2>7. PICK q \in 1..Len(filters) : filters[q] = parts[i][j]
    BY <1>2, <2>2, <2>4
  <2> QED BY <2>2, <2>6, <2>7
<1>6. {filters[q].key : q \in DOMAIN filters} = DroppedIn(block)
  BY <1>3, <1>4, <1>5
<1>7. \A q \in DOMAIN filters : filters[q].coin = filters[q].key
  BY <1>3, <1>4
<1> QED BY <1>2, <1>6, <1>7

\* What is kept of an entry, whole or in part.
LEMMA EntryKept ==
  ASSUME NEW t \in Tx, Flag(t) # "stripped"
  PROVE  /\ Entry(t).flag = Flag(t) /\ Entry(t).body.ins = t.ins
         /\ Entry(t).body.outs = Kept(Entry(t))
BY EntryIs, KeptIs DEF Kept

-----------------------------------------------------------------------------
(* spend_check.py.                                                         *)

\* What the transactions of a block that are kept spend, of some outputs.
SpendsIn(block, dropped) ==
  UNION {{<<block[i].id, c>> : c \in block[i].ins \cap dropped} :
           i \in {j \in 1..Len(block) : Flag(block[j]) # "stripped"}}

\* The same of its record.
LEMMA SpendsAre ==
  ASSUME NEW block \in Block, NEW r, RecordOf(r, block), NEW dropped
  PROVE  SpendsOf(r, dropped) = SpendsIn(block, dropped)
<1> DEFINE places == {j \in 1..Len(block) : Flag(block[j]) # "stripped"}
<1>1. /\ DOMAIN r.txs = 1..Len(block) /\ \A i \in 1..Len(block) : r.txs[i] = Entry(block[i])
      /\ \A i \in 1..Len(block) : Txids(r)[i] = block[i].id
  BY DEF RecordOf
<1>2. \A i \in 1..Len(block) : block[i] \in Tx
  BY DEF Block
<1>3. {j \in DOMAIN r.txs : r.txs[j].flag # "stripped"} = places
  BY <1>1, <1>2, EntryIs
<1>4. \A i \in places : InputsIn(r.txs[i].body) = block[i].ins
  BY <1>1, <1>2, EntryKept DEF InputsIn
<1>5. SpendTxs(r) = {[txid |-> block[i].id, vin |-> block[i].ins] : i \in places}
  <2>1. SpendTxs(r) = {[txid |-> Txids(r)[i], vin |-> InputsIn(r.txs[i].body)] : i \in places}
    BY <1>3 DEF SpendTxs
  <2>2. \A i \in places : Txids(r)[i] = block[i].id
    BY <1>1
  <2> HIDE DEF places
  <2> QED BY <1>4, <2>1, <2>2
<1> HIDE DEF places
<1>6. ASSUME NEW p PROVE p \in SpendsOf(r, dropped) <=> p \in SpendsIn(block, dropped)
  <2>1. p \in SpendsOf(r, dropped)
          <=> \E tx \in SpendTxs(r) : \E c \in tx.vin \cap dropped : p = <<tx.txid, c>>
    BY DEF SpendsOf
  <2>2. p \in SpendsIn(block, dropped)
          <=> \E i \in places : \E c \in block[i].ins \cap dropped : p = <<block[i].id, c>>
    BY DEF SpendsIn, places
  <2>3. ASSUME NEW tx \in SpendTxs(r)
        PROVE  \E i \in places : tx.txid = block[i].id /\ tx.vin = block[i].ins
    BY <1>5
  <2>4. ASSUME NEW i \in places
        PROVE  \E tx \in SpendTxs(r) : tx.txid = block[i].id /\ tx.vin = block[i].ins
    <3> DEFINE tx == [txid |-> block[i].id, vin |-> block[i].ins]
    <3>1. tx \in SpendTxs(r) /\ tx.txid = block[i].id /\ tx.vin = block[i].ins
      BY <1>5
    <3> HIDE DEF tx
    <3> QED BY <3>1
  <2> QED BY <2>1, <2>2, <2>3, <2>4
<1> QED BY <1>6

\* After k blocks, what is dropped in them, and of that what they spend.
DroppedTo(blocks, k) == UNION {DroppedIn(blocks[m]) : m \in 1..k}
FoundTo(blocks, k) == UNION {SpendsIn(blocks[m], DroppedTo(blocks, m)) : m \in 1..k}

\* The loop over the blocks.
LEMMA DroppedLoop ==
  ASSUME NEW blocks, Stored(blocks)
  PROVE  DroppedSpends = FoundTo(blocks, Len(blocks))
<1> DEFINE N == Len(blocks)
           v == [dropped |-> {}, found |-> {}]
           body(f) == [k \in 0..N |-> IF k = 0 THEN v ELSE SpendsInBlock(f[k - 1], OnDisk[k])]
           g == [k \in 0..N |-> [dropped |-> DroppedTo(blocks, k), found |-> FoundTo(blocks, k)]]
<1>1. /\ N \in Nat /\ Len(OnDisk) = N /\ blocks \in Seq(Block)
      /\ \A k \in 1..N : blocks[k] \in Block /\ RecordOf(OnDisk[k], blocks[k])
  BY DEF Stored
<1>2. ASSUME NEW k \in 1..N
      PROVE  SpendsInBlock([dropped |-> DroppedTo(blocks, k - 1), found |-> FoundTo(blocks, k - 1)],
                           OnDisk[k])
               = [dropped |-> DroppedTo(blocks, k), found |-> FoundTo(blocks, k)]
  <2>1. 1..k = (1..(k - 1)) \cup {k}
    BY <1>1, UpToLast
  <2>2. DroppedTo(blocks, k) = DroppedTo(blocks, k - 1) \cup DroppedIn(blocks[k])
    BY <2>1 DEF DroppedTo
  <2>3. FoundTo(blocks, k) = FoundTo(blocks, k - 1) \cup SpendsIn(blocks[k], DroppedTo(blocks, k))
    BY <2>1 DEF FoundTo
  <2>4. {OnDisk[k].filters[q].key : q \in DOMAIN OnDisk[k].filters} = DroppedIn(blocks[k])
    <3>1. PICK block, filters :
            block \in Block /\ block = blocks[k] /\ filters = OnDisk[k].filters
      BY <1>1
    <3>2. filters = FlattenSeq(FiltersOfBlock(block))
      BY <1>1, <3>1 DEF RecordOf
    <3> QED BY <3>1, <3>2, KeysAre
  <2>5. \A d : SpendsOf(OnDisk[k], d) = SpendsIn(blocks[k], d)
    BY <1>1, SpendsAre
  <2> QED BY <2>2, <2>3, <2>4, <2>5 DEF SpendsInBlock
<1>3. DroppedTo(blocks, 0) = {} /\ FoundTo(blocks, 0) = {}
  BY DEF DroppedTo, FoundTo
<1> DEFINE after == CHOOSE f : f = body(f)
<1>4. DroppedSpends = after[N].found
  BY <1>1 DEF DroppedSpends
<1> HIDE DEF N, v
<1>5. g = body(g)
  <2>1. ASSUME NEW k \in 0..N
        PROVE  g[k] = IF k = 0 THEN v ELSE SpendsInBlock(g[k - 1], OnDisk[k])
    <3>1. CASE k = 0
      BY <1>3, <3>1 DEF v
    <3>2. CASE k # 0
      <4>1. k \in 1..N /\ k - 1 \in 0..N
        BY <1>1, <3>2
      <4>2. g[k - 1] = [dropped |-> DroppedTo(blocks, k - 1), found |-> FoundTo(blocks, k - 1)]
        BY <4>1
      <4> QED BY <1>2, <3>2, <4>1, <4>2
    <3> QED BY <3>1, <3>2
  <2>2. g = [k \in 0..N |-> g[k]]
    OBVIOUS
  <2> HIDE DEF g
  <2> QED BY <2>1, <2>2
<1>6. after = body(after)
  <2> HIDE DEF g
  <2> QED BY <1>5
<1> HIDE DEF after
<1>7. ASSUME NEW k \in 1..N, after[k - 1] = g[k - 1] PROVE after[k] = g[k]
  <2>1. k \in 0..N /\ k # 0
    BY <1>1
  <2> HIDE DEF g
  <2>2. after[k] = SpendsInBlock(after[k - 1], OnDisk[k])
    BY <1>6, <2>1
  <2>3. g[k] = SpendsInBlock(g[k - 1], OnDisk[k])
    BY <1>5, <2>1
  <2> QED BY <1>7, <2>2, <2>3
<1>8. after[N] = g[N] /\ N \in 0..N
  <2>1. N \in 0..N /\ 0 \in 0..N
    BY <1>1
  <2> HIDE DEF g
  <2>2. after[0] = v /\ g[0] = v
    BY <1>5, <1>6, <2>1
  <2>3. after[N] = g[N]
    <3>1. after[0] = g[0]
      BY <2>2
    <3>2. \A q \in 1..N : after[q - 1] = g[q - 1] => after[q] = g[q]
      BY <1>7
    <3>3. N \in Nat
      BY <1>1
    <3> QED BY <3>1, <3>2, <3>3, LoopsAgree
  <2> QED BY <2>1, <2>3
<1>9. g[N] = [dropped |-> DroppedTo(blocks, N), found |-> FoundTo(blocks, N)]
  BY <1>8
<1> HIDE DEF g
<1> QED BY <1>4, <1>8, <1>9 DEF N

\* Every spend, by what the store holds, of an output that it has dropped is
\* found under its own outpoint, and nothing else is taken for one: the entry of
\* an output is recorded no later than the block that spends it is looked up.
THEOREM DroppedSpendsTheorem == Spec => []DroppedSpendsFound
<1>1. ASSUME IInv, LedgerInv PROVE DroppedSpendsFound
  <2> DEFINE lost(t) == {d \in t.ins : \E u \in RangeTxs : d.tx = u.id /\ d.n \in Dropped(u)}
             all == UNION {{<<t.id, c>> : c \in lost(t)} : t \in Held}
  <2> SUFFICES ASSUME Readied PROVE DroppedSpends = all
    BY DEF DroppedSpendsFound
  <2>1. PICK blocks \in Seq(Block) : Stored(blocks)
    BY <1>1, ReadiedIs
  <2> DEFINE N == Len(blocks)
  <2>2. DroppedSpends = FoundTo(blocks, N)
    BY <2>1, DroppedLoop
  <2>3. /\ N \in Nat /\ RangeTxs = TxsOf(blocks) /\ InOrder(blocks)
        /\ \A k \in 1..N : blocks[k] \in Block /\ Len(blocks[k]) \in Nat
        /\ \A k \in 1..N : \A i \in 1..Len(blocks[k]) : blocks[k][i] \in RangeTxs /\ blocks[k][i] \in Tx
        /\ \A t \in RangeTxs : \A c \in t.ins : c.tx < t.id
    BY <2>1, TxsAre DEF Stored, Block
  <2>4. \A t \in RangeTxs : \E k \in 1..N : \E i \in 1..Len(blocks[k]) : t = blocks[k][i]
    BY <2>1, <2>3, TxsAre
  <2> HIDE DEF N
  <2>5. ASSUME NEW p, p \in FoundTo(blocks, N) PROVE p \in all
    <3>1. PICK m \in 1..N : p \in SpendsIn(blocks[m], DroppedTo(blocks, m))
      BY <2>5 DEF FoundTo
    <3>2. PICK i \in 1..Len(blocks[m]) :
            /\ Flag(blocks[m][i]) # "stripped"
            /\ \E c \in blocks[m][i].ins \cap DroppedTo(blocks, m) : p = <<blocks[m][i].id, c>>
      BY <3>1 DEF SpendsIn
    <3>3. PICK t : t = blocks[m][i] /\ t \in Held
      BY <2>3, <3>2 DEF Held
    <3>4. PICK c \in t.ins \cap DroppedTo(blocks, m) : p = <<t.id, c>>
      BY <3>2, <3>3
    <3>5. PICK g \in 1..m : c \in DroppedIn(blocks[g])
      BY <3>4 DEF DroppedTo
    <3>6. PICK j \in 1..Len(blocks[g]) : c \in DroppedOf(blocks[g][j])
      BY <3>5 DEF DroppedIn
    <3>7. g \in 1..N
      BY <2>3
    <3>8. PICK n \in Dropped(blocks[g][j]) : c = [tx |-> blocks[g][j].id, n |-> n]
      BY <3>6 DEF DroppedOf
    <3>9. c.tx = blocks[g][j].id /\ c.n \in Dropped(blocks[g][j])
      BY <3>8
    <3>10. c \in lost(t)
      BY <2>3, <3>4, <3>7, <3>9, <3>6
    <3> HIDE DEF lost
    <3> QED BY <3>3, <3>4, <3>10
  <2>6. ASSUME NEW p, p \in all PROVE p \in FoundTo(blocks, N)
    <3>1. PICK t \in Held : \E c \in lost(t) : p = <<t.id, c>>
      BY <2>6
    <3>2. PICK c \in lost(t) : p = <<t.id, c>>
      BY <3>1
    <3>3. t \in RangeTxs /\ Flag(t) # "stripped"
      BY DEF Held
    <3>4. PICK u \in RangeTxs : c.tx = u.id /\ c.n \in Dropped(u)
      OBVIOUS
    <3>5. c \in t.ins
      OBVIOUS
    <3>6. PICK m \in 1..N : \E i \in 1..Len(blocks[m]) : t = blocks[m][i]
      BY <2>4, <3>3
    <3>7. PICK i \in 1..Len(blocks[m]) : t = blocks[m][i]
      BY <3>6
    <3>8. PICK g \in 1..N : \E j \in 1..Len(blocks[g]) : u = blocks[g][j]
      BY <2>4
    <3>9. PICK j \in 1..Len(blocks[g]) : u = blocks[g][j]
      BY <3>8
    <3>10. g \in 1..m
      <4>1. u.id < t.id
        BY <2>3, <3>3, <3>4, <3>5
      <4>2. g < m \/ (g = m /\ j < i)
        BY <2>3, <3>7, <3>9, <4>1, IdsTell DEF N
      <4> QED BY <2>3, <4>2
    <3>11. c = [tx |-> u.id, n |-> c.n]
      <4>1. t.ins \subseteq Coin
        BY <2>3, <3>7 DEF Tx
      <4> QED BY <3>4, <3>5, <4>1 DEF Coin
    <3>12. c \in DroppedTo(blocks, m)
      <4>1. c \in DroppedOf(u)
        BY <3>4, <3>11 DEF DroppedOf
      <4>2. c \in DroppedIn(blocks[g])
        BY <3>9, <4>1 DEF DroppedIn
      <4> QED BY <3>10, <4>2 DEF DroppedTo
    <3>13. p \in SpendsIn(blocks[m], DroppedTo(blocks, m))
      BY <3>2, <3>3, <3>5, <3>7, <3>12 DEF SpendsIn
    <3> QED BY <3>13 DEF FoundTo
  <2> HIDE DEF all
  <2> QED BY <2>2, <2>5, <2>6
<1> QED BY <1>1, StoreInv, LedgerTheorem, PTL

-----------------------------------------------------------------------------
(* Where no output has moved.                                              *)

\* The outputs of a transaction that are kept, and of a block up to a place.
KeptOf(t) == {[tx |-> t.id, n |-> n] : n \in (1..Len(t.outs)) \ Dropped(t)}
KeptTo(block, i) == UNION {KeptOf(block[j]) : j \in 1..i}
KeptIn(block) == KeptTo(block, Len(block))

\* If no output of a transaction has moved, those that are kept are under their
\* numbers.
LEMMA UnmovedIs ==
  ASSUME NEW t \in Tx, Flag(t) # "stripped", Moved(t) = {}
  PROVE  \E M \in 0..Len(t.outs) :
           /\ (1..Len(t.outs)) \ Dropped(t) = 1..M
           /\ Entry(t).body.outs = [n \in 1..M |-> [tx |-> t.id, n |-> n]]
<1> DEFINE N == Len(t.outs)
           D == Dropped(t)
           K == (1..N) \ D
<1>1. /\ Coins(t) \in Seq(Coin) /\ Len(Coins(t)) = N /\ N \in Nat \ {0} /\ DOMAIN t.outs = 1..N
      /\ \A n \in 1..N : Coins(t)[n] = [tx |-> t.id, n |-> n]
      /\ D \subseteq 1..N
  BY CoinsIs
<1>2. /\ Entry(t).body = IF Flag(t) = "whole" THEN Whole(t)
                         ELSE IF Flag(t) = "modified" THEN RebuildWithout(t) ELSE None
      /\ Flag(t) \in {"whole", "modified"}
  BY EntryIs
<1>3. CASE Flag(t) = "whole"
  <2>1. D = {} /\ K = 1..N
    BY <1>3 DEF Flag, Touched
  <2>2. Entry(t).body.outs = Coins(t)
    BY <1>2, <1>3, WholeIs
  <2>3. Coins(t) = [n \in 1..N |-> [tx |-> t.id, n |-> n]]
    BY <1>1 DEF Coins
  <2> HIDE DEF N, D
  <2> QED BY <1>1, <2>1, <2>2, <2>3 DEF N, D
<1>4. CASE Flag(t) = "modified"
  <2>1. \E M \in 0..N : K = 1..M
    <3>1. CASE D = {}
      BY <1>1, <3>1
    <3>2. CASE D # {}
      <4>1. PICK d \in D : \A n \in D : d <= n
        <5>1. D \subseteq Nat
          BY <1>1
        <5> HIDE DEF D
        <5> QED BY <3>2, <5>1, LeastElement
      <4>2. d \in 1..N
        BY <1>1
      <4>3. ASSUME NEW n \in K, ~(n < d) PROVE FALSE
        <5>1. n \in 1..N /\ n \notin D /\ d < n
          BY <1>1, <4>2, <4>3
        <5> DEFINE c == Coins(t)[n]
        <5>2. c = [tx |-> t.id, n |-> n] /\ c \in {Coins(t)[m] : m \in DOMAIN t.outs}
          BY <1>1, <5>1
        <5> HIDE DEF c
        <5>3. c.n = n
          BY <5>2
        <5>4. c \in Moved(t)
          BY <1>4, <5>1, <5>2, <5>3 DEF Moved
        <5> QED BY <5>4
      <4>4. K = 1..(d - 1)
        <5>1. \A n \in 1..(d - 1) : n \in 1..N /\ n \notin D
          BY <1>1, <4>1, <4>2
        <5>2. \A n \in K : n \in 1..(d - 1)
          BY <1>1, <4>2, <4>3
        <5> QED BY <5>1, <5>2
      <4>5. d - 1 \in 0..N
        BY <1>1, <4>2
      <4> QED BY <4>4, <4>5
    <3> QED BY <3>1, <3>2
  <2>2. PICK M \in 0..N : K = 1..M
    BY <2>1
  <2>3. Entry(t).body.outs = Only(Coins(t), K)
    BY <1>2, <1>4, RebuildIs
  <2>4. \A i \in 1..N : i \in K <=> i <= M
    BY <1>1, <2>2
  <2> HIDE DEF K
  <2>5. Only(Coins(t), K) = [n \in 1..M |-> Coins(t)[n]]
    <3>1. PICK coins \in Seq(Coin) : coins = Coins(t) /\ Len(coins) = N
      BY <1>1
    <3>2. Only(coins, K) = [n \in 1..M |-> coins[n]]
      BY <2>4, <3>1, OnlyPrefix
    <3> QED BY <3>1, <3>2
  <2>6. [n \in 1..M |-> Coins(t)[n]] = [n \in 1..M |-> [tx |-> t.id, n |-> n]]
    BY <1>1
  <2> QED BY <2>2, <2>3, <2>5, <2>6 DEF K
<1> QED BY <1>2, <1>3, <1>4

-----------------------------------------------------------------------------
(* commit_scan.py.                                                         *)

\* What the carriers of a block up to a place spend, of some outputs and those
\* of the block before them.
CarriedTo(block, near, i) ==
  UNION {{<<block[j].id, c>> : c \in block[j].ins \cap (near \cup KeptTo(block, j - 1))} :
           j \in {q \in 1..i : Flag(block[q]) = "modified"}}

\* The outputs in a window.
InWindow(recent) == UNION {recent[j] : j \in DOMAIN recent}

\* What a transaction spends of some outputs, if it is a carrier.
CarriedBy(t, outs) ==
  IF Flag(t) = "modified" THEN {<<t.id, c>> : c \in t.ins \cap outs} ELSE {}

\* A transaction, as the tool has it.
CommitOf(t) ==
  [flag |-> Entry(t).flag,
   p |-> IF Entry(t).flag = "stripped" THEN None ELSE InputsAndOutputs(t.id, Entry(t).body)]

\* The state of the tool.
ScanOf(recent, here, found) == [recent |-> recent, here |-> here, found |-> found]

\* One transaction.
LEMMA CommitsTxIs ==
  ASSUME NEW t \in Tx, Moved(t) = {}, NEW recent, NEW here, NEW found
  PROVE  CommitsTx(ScanOf(recent, here, found), CommitOf(t))
           = ScanOf(recent, here \cup KeptOf(t), found \cup CarriedBy(t, InWindow(recent) \cup here))
<1> DEFINE near == InWindow(recent)
           s == [recent |-> recent, here |-> here, found |-> found]
           tx == CommitOf(t)
           spent == {<<t.id, c>> : c \in t.ins \cap (near \cup here)}
           carried == CarriedBy(t, near \cup here)
<1>1. tx.flag = Flag(t) /\ Flag(t) \in {"whole", "modified", "stripped"}
  BY EntryIs DEF CommitOf
<1>4. tx.flag # "stripped" => tx.p = InputsAndOutputs(t.id, Entry(t).body)
  BY DEF CommitOf
<1>5. carried = IF Flag(t) = "modified" THEN spent ELSE {}
  BY DEF CarriedBy
<1> HIDE DEF tx, carried
<1>2. CASE Flag(t) = "stripped"
  <2>1. CommitsTx(s, tx) = s
    BY <1>1, <1>2 DEF CommitsTx
  <2>2. KeptOf(t) = {}
    BY <1>2, CoinsIs DEF KeptOf, Flag
  <2>3. carried = {}
    BY <1>2, <1>5
  <2> QED BY <2>1, <2>2, <2>3 DEF carried, tx, ScanOf
<1>3. CASE Flag(t) # "stripped"
  <2>1. tx.p = InputsAndOutputs(t.id, Entry(t).body)
    BY <1>1, <1>3, <1>4
  <2>2. Entry(t).body.ins = t.ins
    BY <1>3, EntryKept
  <2>3. PICK M \in 0..Len(t.outs) :
          /\ (1..Len(t.outs)) \ Dropped(t) = 1..M
          /\ Entry(t).body.outs = [n \in 1..M |-> [tx |-> t.id, n |-> n]]
    BY <1>3, UnmovedIs
  <2>4. DOMAIN Entry(t).body.outs = (1..Len(t.outs)) \ Dropped(t)
    BY <2>3
  <2>5. tx.p = [txid |-> t.id, vin |-> t.ins, vout |-> KeptOf(t)]
    BY <2>1, <2>2, <2>4 DEF InputsAndOutputs, KeptOf
  <2>6. tx.p.txid = t.id /\ tx.p.vin = t.ins /\ tx.p.vout = KeptOf(t)
    BY <2>5
  <2> DEFINE seen == (UNION {s.recent[j] : j \in DOMAIN s.recent}) \cup s.here
             hits == {<<tx.p.txid, c>> : c \in tx.p.vin \cap seen}
  <2>7. CommitsTx(s, tx) = IF tx.flag = "stripped" THEN s
                           ELSE [s EXCEPT !.here = @ \cup tx.p.vout,
                                          !.found = IF tx.flag = "modified" THEN @ \cup hits ELSE @]
    BY DEF CommitsTx
  <2>8. seen = near \cup here
    BY DEF InWindow
  <2> HIDE DEF seen
  <2>9. hits = spent
    BY <2>6, <2>8
  <2> HIDE DEF hits, spent
  <2>10. CommitsTx(s, tx) = [s EXCEPT !.here = @ \cup KeptOf(t),
                                     !.found = IF Flag(t) = "modified" THEN @ \cup spent ELSE @]
    <3> HIDE DEF s
    <3> QED BY <1>1, <1>3, <2>6, <2>7, <2>9
  <2>11. CASE Flag(t) = "modified"
    <3>1. CommitsTx(s, tx) = [s EXCEPT !.here = @ \cup KeptOf(t), !.found = @ \cup spent]
      BY <2>10, <2>11
    <3>2. carried = spent
      BY <1>5, <2>11
    <3> QED BY <3>1, <3>2 DEF carried, tx, ScanOf
  <2>12. CASE Flag(t) # "modified"
    <3>1. CommitsTx(s, tx) = [s EXCEPT !.here = @ \cup KeptOf(t)]
      BY <2>10, <2>12
    <3>2. carried = {}
      BY <1>5, <2>12
    <3> QED BY <3>1, <3>2 DEF carried, tx, ScanOf
  <2> QED BY <2>11, <2>12
<1> QED BY <1>2, <1>3

\* One block: its transactions, and the blocks that stay in the window.
LEMMA CommitsBlockIs ==
  ASSUME NEW block \in Block, NEW r, RecordOf(r, block),
         \A i \in 1..Len(block) : Moved(block[i]) = {},
         NEW recent, NEW found
  PROVE  CommitsInBlock(ScanOf(recent, {}, found), r)
           = ScanOf(Keep(Append(recent, KeptIn(block))), {},
                    found \cup CarriedTo(block, InWindow(recent), Len(block)))
<1> DEFINE near == InWindow(recent)
           N == Len(block)
           v == [recent |-> recent, here |-> {}, found |-> found]
           txs == CommitTxs(r)
           body(f) == [i \in 0..N |-> IF i = 0 THEN v ELSE CommitsTx(f[i - 1], txs[i])]
           g == [i \in 0..N |-> [recent |-> recent, here |-> KeptTo(block, i),
                                 found |-> found \cup CarriedTo(block, near, i)]]
           after == CHOOSE f : f = body(f)
<1>1. N \in Nat /\ \A i \in 1..N : block[i] \in Tx
  BY DEF Block
<1>2. /\ DOMAIN r.txs = 1..N
      /\ \A i \in 1..N : r.txs[i] = Entry(block[i]) /\ Txids(r)[i] = block[i].id
  BY DEF RecordOf
<1>3. /\ Len(txs) = N
      /\ \A i \in 1..N : txs[i] = CommitOf(block[i])
  BY <1>1, <1>2 DEF CommitTxs, CommitOf
<1>4. CommitsInBlock(v, r) = [after[N] EXCEPT !.recent = Keep(Append(@, after[N].here)), !.here = {}]
  BY <1>3 DEF CommitsInBlock
<1> HIDE DEF N, v, txs
<1>5. ASSUME NEW i \in 1..N
      PROVE  CommitsTx([recent |-> recent, here |-> KeptTo(block, i - 1),
                        found |-> found \cup CarriedTo(block, near, i - 1)], txs[i])
               = [recent |-> recent, here |-> KeptTo(block, i),
                  found |-> found \cup CarriedTo(block, near, i)]
  <2> DEFINE before == KeptTo(block, i - 1)
             carried == found \cup CarriedTo(block, near, i - 1)
             more == CarriedBy(block[i], near \cup before)
  <2>1. 1..i = (1..(i - 1)) \cup {i}
    BY <1>1, UpToLast
  <2>2. KeptTo(block, i) = before \cup KeptOf(block[i])
    BY <2>1 DEF KeptTo
  <2>3. CarriedTo(block, near, i) = CarriedTo(block, near, i - 1) \cup more
    <3>1. CASE Flag(block[i]) = "modified"
      <4>1. {q \in 1..i : Flag(block[q]) = "modified"}
              = {q \in 1..(i - 1) : Flag(block[q]) = "modified"} \cup {i}
        BY <2>1, <3>1
      <4> QED BY <3>1, <4>1 DEF CarriedTo, CarriedBy
    <3>2. CASE Flag(block[i]) # "modified"
      <4>1. {q \in 1..i : Flag(block[q]) = "modified"}
              = {q \in 1..(i - 1) : Flag(block[q]) = "modified"}
        BY <2>1, <3>2
      <4> QED BY <3>2, <4>1 DEF CarriedTo, CarriedBy
    <3> QED BY <3>1, <3>2
  <2>4. CommitsTx([recent |-> recent, here |-> before, found |-> carried], txs[i])
          = [recent |-> recent, here |-> before \cup KeptOf(block[i]), found |-> carried \cup more]
    <3>1. PICK t \in Tx : t = block[i] /\ Moved(t) = {}
      BY <1>1 DEF N
    <3>2. txs[i] = CommitOf(t)
      BY <1>3, <3>1
    <3>3. PICK here, old : here = before /\ old = carried
      OBVIOUS
    <3> HIDE DEF before, carried
    <3>4. CommitsTx(ScanOf(recent, here, old), CommitOf(t))
            = ScanOf(recent, here \cup KeptOf(t), old \cup CarriedBy(t, near \cup here))
      <4>1. t \in Tx /\ Moved(t) = {}
        BY <3>1
      <4>2. CommitsTx(ScanOf(recent, here, old), CommitOf(t))
              = ScanOf(recent, here \cup KeptOf(t), old \cup CarriedBy(t, InWindow(recent) \cup here))
        BY <4>1, CommitsTxIs
      <4> QED BY <4>2
    <3> QED BY <3>1, <3>2, <3>3, <3>4 DEF ScanOf
  <2>5. carried \cup more = found \cup CarriedTo(block, near, i)
    <3> HIDE DEF more
    <3> QED BY <2>3
  <2> HIDE DEF carried, more
  <2>6. [recent |-> recent, here |-> before \cup KeptOf(block[i]), found |-> carried \cup more]
          = [recent |-> recent, here |-> KeptTo(block, i),
             found |-> found \cup CarriedTo(block, near, i)]
    BY <2>2, <2>5
  <2> QED BY <2>4, <2>6 DEF carried
<1>6. KeptTo(block, 0) = {} /\ CarriedTo(block, near, 0) = {}
  BY DEF KeptTo, CarriedTo
<1>7. g = body(g)
  <2>1. ASSUME NEW i \in 0..N
        PROVE  g[i] = IF i = 0 THEN v ELSE CommitsTx(g[i - 1], txs[i])
    <3>1. CASE i = 0
      BY <1>6, <3>1 DEF v
    <3>2. CASE i # 0
      <4>1. i \in 1..N /\ i - 1 \in 0..N
        BY <1>1, <3>2
      <4>2. g[i - 1] = [recent |-> recent, here |-> KeptTo(block, i - 1),
                        found |-> found \cup CarriedTo(block, near, i - 1)]
        BY <4>1
      <4> QED BY <1>5, <3>2, <4>1, <4>2
    <3> QED BY <3>1, <3>2
  <2>2. g = [i \in 0..N |-> g[i]]
    OBVIOUS
  <2> HIDE DEF g
  <2> QED BY <2>1, <2>2
<1>8. after = body(after)
  <2> HIDE DEF g
  <2> QED BY <1>7
<1> HIDE DEF after
<1>9. ASSUME NEW i \in 1..N, after[i - 1] = g[i - 1] PROVE after[i] = g[i]
  <2>1. i \in 0..N /\ i # 0
    BY <1>1
  <2> HIDE DEF g
  <2>2. after[i] = CommitsTx(after[i - 1], txs[i])
    BY <1>8, <2>1
  <2>3. g[i] = CommitsTx(g[i - 1], txs[i])
    BY <1>7, <2>1
  <2> QED BY <1>9, <2>2, <2>3
<1>10. after[N] = g[N] /\ N \in 0..N
  <2>1. N \in 0..N /\ 0 \in 0..N
    BY <1>1
  <2> HIDE DEF g
  <2>2. after[0] = v /\ g[0] = v
    BY <1>7, <1>8, <2>1
  <2>3. after[N] = g[N]
    <3>1. after[0] = g[0]
      BY <2>2
    <3>2. \A q \in 1..N : after[q - 1] = g[q - 1] => after[q] = g[q]
      BY <1>9
    <3>3. N \in Nat
      BY <1>1
    <3> QED BY <3>1, <3>2, <3>3, LoopsAgree
  <2> QED BY <2>1, <2>3
<1>11. after[N] = [recent |-> recent, here |-> KeptIn(block),
                   found |-> found \cup CarriedTo(block, near, N)]
  BY <1>10 DEF KeptIn, N
<1> HIDE DEF g
<1>12. CommitsInBlock(v, r) = [recent |-> Keep(Append(recent, KeptIn(block))), here |-> {},
                              found |-> found \cup CarriedTo(block, near, N)]
  <2>1. PICK last, kept, carried : /\ last = after[N] /\ kept = KeptIn(block)
                                   /\ carried = found \cup CarriedTo(block, near, N)
    OBVIOUS
  <2>2. last = [recent |-> recent, here |-> kept, found |-> carried]
    BY <1>11, <2>1
  <2>3. CommitsInBlock(v, r) = [last EXCEPT !.recent = Keep(Append(@, last.here)), !.here = {}]
    BY <1>4, <2>1
  <2>4. last.here = kept /\ last.recent = recent
    BY <2>2
  <2>5. CommitsInBlock(v, r) = [last EXCEPT !.recent = Keep(Append(recent, kept)), !.here = {}]
    BY <2>3, <2>4
  <2>6. PICK rest : rest = Keep(Append(recent, kept))
    OBVIOUS
  <2>7. [last EXCEPT !.recent = rest, !.here = {}] = [recent |-> rest, here |-> {}, found |-> carried]
    <3>1. [last EXCEPT !.recent = rest] = [recent |-> rest, here |-> kept, found |-> carried]
      BY <2>2
    <3>2. PICK w : w = [last EXCEPT !.recent = rest]
      OBVIOUS
    <3>3. w = [recent |-> rest, here |-> kept, found |-> carried]
      BY <3>1, <3>2
    <3>4. [w EXCEPT !.here = {}] = [recent |-> rest, here |-> {}, found |-> carried]
      <4>1. PICK none : none = {}
        OBVIOUS
      <4>2. [w EXCEPT !.here = none] = [recent |-> rest, here |-> none, found |-> carried]
        BY <3>3
      <4> QED BY <4>1, <4>2
    <3>5. [last EXCEPT !.recent = rest, !.here = {}] = [w EXCEPT !.here = {}]
      BY <3>2
    <3> QED BY <3>4, <3>5
  <2> QED BY <2>1, <2>5, <2>6, <2>7
<1> QED BY <1>12 DEF v, N, ScanOf

\* The blocks in the window after k of them, and what is kept in those.
RecentTo(blocks, k) ==
  IF k <= Window THEN [j \in 1..k |-> KeptIn(blocks[j])]
  ELSE [j \in 1..Window |-> KeptIn(blocks[k - Window + j])]
NearTo(blocks, k) == UNION {KeptIn(blocks[g]) : g \in {q \in 1..k : k - q < Window}}

\* What Keep keeps of those is those after the next block.
LEMMA RecentIs ==
  ASSUME NEW blocks \in Seq(Block), NEW k \in 1..Len(blocks)
  PROVE  /\ Keep(Append(RecentTo(blocks, k - 1), KeptIn(blocks[k]))) = RecentTo(blocks, k)
         /\ InWindow(RecentTo(blocks, k)) = NearTo(blocks, k)
<1> DEFINE V == {KeptIn(blocks[j]) : j \in 1..Len(blocks)}
<1>1. k \in Nat \ {0} /\ Window \in Nat /\ Len(blocks) \in Nat /\ k <= Len(blocks)
  BY WindowAssumption
<1>2. PICK kept \in [1..Len(blocks) -> V] : \A j \in 1..Len(blocks) : kept[j] = KeptIn(blocks[j])
  <2> DEFINE kept == [j \in 1..Len(blocks) |-> KeptIn(blocks[j])]
  <2>1. kept \in [1..Len(blocks) -> V] /\ \A j \in 1..Len(blocks) : kept[j] = KeptIn(blocks[j])
    OBVIOUS
  <2> HIDE DEF kept
  <2> QED BY <2>1
<1> HIDE DEF V
<1>3. ASSUME NEW m \in 0..Len(blocks)
      PROVE  /\ RecentTo(blocks, m) = IF m <= Window THEN [j \in 1..m |-> kept[j]]
                                      ELSE [j \in 1..Window |-> kept[m - Window + j]]
             /\ RecentTo(blocks, m) \in Seq(V)
             /\ Len(RecentTo(blocks, m)) = IF m <= Window THEN m ELSE Window
  <2>1. CASE m <= Window
    <3>1. \A j \in 1..m : j \in 1..Len(blocks)
      BY <1>1
    <3>2. RecentTo(blocks, m) = [j \in 1..m |-> kept[j]]
      BY <1>2, <2>1, <3>1 DEF RecentTo
    <3>3. [j \in 1..m |-> kept[j]] \in Seq(V) /\ Len([j \in 1..m |-> kept[j]]) = m
      BY <1>1, <1>2, <3>1
    <3> QED BY <2>1, <3>2, <3>3
  <2>2. CASE ~(m <= Window)
    <3>1. \A j \in 1..Window : m - Window + j \in 1..Len(blocks)
      BY <1>1, <2>2
    <3>2. RecentTo(blocks, m) = [j \in 1..Window |-> kept[m - Window + j]]
      BY <1>2, <2>2, <3>1 DEF RecentTo
    <3>3. /\ [j \in 1..Window |-> kept[m - Window + j]] \in Seq(V)
          /\ Len([j \in 1..Window |-> kept[m - Window + j]]) = Window
      BY <1>1, <1>2, <3>1
    <3> QED BY <2>2, <3>2, <3>3
  <2> QED BY <2>1, <2>2
<1> DEFINE old == RecentTo(blocks, k - 1)
           new == RecentTo(blocks, k)
           longer == Append(old, kept[k])
<1>4. k - 1 \in 0..Len(blocks) /\ k \in 0..Len(blocks)
  BY <1>1
<1>5. /\ old = IF k - 1 <= Window THEN [j \in 1..(k - 1) |-> kept[j]]
              ELSE [j \in 1..Window |-> kept[k - 1 - Window + j]]
      /\ old \in Seq(V) /\ Len(old) = IF k - 1 <= Window THEN k - 1 ELSE Window
      /\ kept[k] \in V /\ kept[k] = KeptIn(blocks[k])
  BY <1>2, <1>3, <1>4
<1>6. /\ new = IF k <= Window THEN [j \in 1..k |-> kept[j]]
              ELSE [j \in 1..Window |-> kept[k - Window + j]]
      /\ new \in Seq(V) /\ Len(new) = IF k <= Window THEN k ELSE Window
  BY <1>2, <1>3, <1>4
<1> HIDE DEF old, new
<1>7. /\ longer \in Seq(V) /\ Len(longer) = Len(old) + 1
      /\ \A j \in 1..Len(old) : longer[j] = old[j]
      /\ longer[Len(old) + 1] = kept[k]
  <2>1. PICK s \in Seq(V), e \in V : s = old /\ e = kept[k]
    BY <1>5
  <2>2. /\ Append(s, e) \in Seq(V) /\ Len(Append(s, e)) = Len(s) + 1
        /\ \A j \in 1..Len(s) : Append(s, e)[j] = s[j]
        /\ Append(s, e)[Len(s) + 1] = e
    OBVIOUS
  <2> QED BY <2>1, <2>2
<1> HIDE DEF longer
<1>8. Keep(longer) = new
  <2>1. CASE k <= Window
    <3>1. Len(longer) = k /\ Keep(longer) = longer
      BY <1>1, <1>5, <1>7, <2>1 DEF Keep
    <3>2. ASSUME NEW j \in 1..k PROVE longer[j] = kept[j]
      <4>1. k - 1 <= Window /\ Len(old) = k - 1
        BY <1>1, <1>5, <2>1
      <4>2. CASE j = k
        BY <1>1, <1>7, <4>1, <4>2
      <4>3. CASE j # k
        <5>1. j \in 1..(k - 1)
          BY <1>1, <4>3
        <5>2. longer[j] = old[j]
          BY <1>7, <4>1, <5>1
        <5>3. old = [q \in 1..(k - 1) |-> kept[q]]
          BY <1>5, <4>1
        <5> QED BY <5>1, <5>2, <5>3
      <4> QED BY <4>2, <4>3
    <3>3. longer = [j \in 1..k |-> longer[j]]
      BY <1>1, <1>7, <3>1
    <3>4. longer = [j \in 1..k |-> kept[j]]
      BY <3>2, <3>3
    <3> QED BY <1>6, <2>1, <3>1, <3>4
  <2>2. CASE ~(k <= Window)
    <3>1. Len(old) = Window /\ Len(longer) = Window + 1
      BY <1>1, <1>5, <1>7, <2>2
    <3>2. Keep(longer) = SubSeq(longer, 2, Window + 1)
      BY <1>1, <3>1 DEF Keep
    <3>3. SubSeq(longer, 2, Window + 1) = [j \in 1..Window |-> longer[j + 1]]
      BY <1>1, <1>7, <3>1
    <3>4. ASSUME NEW j \in 1..Window PROVE longer[j + 1] = kept[k - Window + j]
      <4>1. CASE j = Window
        <5>1. longer[j + 1] = kept[k] /\ k - Window + j = k
          BY <1>1, <1>7, <3>1, <4>1
        <5> QED BY <5>1
      <4>2. CASE j # Window
        <5>1. j + 1 \in 1..Window
          BY <1>1, <4>2
        <5>2. longer[j + 1] = old[j + 1]
          BY <1>7, <3>1, <5>1
        <5>3. CASE k - 1 <= Window
          <6>1. k - 1 = Window /\ old[j + 1] = kept[j + 1] /\ k - Window + j = j + 1
            BY <1>1, <1>5, <2>2, <5>1, <5>3
          <6> QED BY <5>2, <6>1
        <5>4. CASE ~(k - 1 <= Window)
          <6>1. old[j + 1] = kept[k - 1 - Window + (j + 1)]
            BY <1>5, <5>1, <5>4
          <6>2. k - 1 - Window + (j + 1) = k - Window + j
            BY <1>1
          <6> QED BY <5>2, <6>1, <6>2
        <5> QED BY <5>3, <5>4
      <4> QED BY <4>1, <4>2
    <3>5. [j \in 1..Window |-> longer[j + 1]] = [j \in 1..Window |-> kept[k - Window + j]]
      BY <3>4
    <3> QED BY <1>6, <2>2, <3>2, <3>3, <3>5
  <2> QED BY <2>1, <2>2
<1>9. UNION {new[j] : j \in DOMAIN new} = NearTo(blocks, k)
  <2>1. CASE k <= Window
    <3>1. {q \in 1..k : k - q < Window} = 1..k
      BY <1>1, <2>1
    <3>2. DOMAIN new = 1..k /\ \A j \in 1..k : new[j] = KeptIn(blocks[j])
      BY <1>1, <1>2, <1>6, <2>1
    <3> QED BY <3>1, <3>2 DEF NearTo
  <2>2. CASE ~(k <= Window)
    <3>1. DOMAIN new = 1..Window
      BY <1>6, <2>2
    <3>2. ASSUME NEW j \in 1..Window
          PROVE  /\ k - Window + j \in {q \in 1..k : k - q < Window}
                 /\ new[j] = KeptIn(blocks[k - Window + j])
      <4>1. k - Window + j \in 1..k /\ k - (k - Window + j) < Window /\ k - Window + j \in 1..Len(blocks)
        BY <1>1, <2>2
      <4>2. new[j] = kept[k - Window + j]
        BY <1>6, <2>2
      <4> QED BY <1>2, <4>1, <4>2
    <3>3. ASSUME NEW q \in 1..k, k - q < Window
          PROVE  q - (k - Window) \in 1..Window /\ k - Window + (q - (k - Window)) = q
      BY <1>1, <2>2, <3>3
    <3>4. ASSUME NEW c, c \in UNION {new[j] : j \in DOMAIN new} PROVE c \in NearTo(blocks, k)
      <4>1. PICK j \in 1..Window : c \in new[j]
        BY <3>1, <3>4
      <4> QED BY <3>2, <4>1 DEF NearTo
    <3>5. ASSUME NEW c, c \in NearTo(blocks, k) PROVE c \in UNION {new[j] : j \in DOMAIN new}
      <4>1. PICK q \in 1..k : k - q < Window /\ c \in KeptIn(blocks[q])
        BY <3>5 DEF NearTo
      <4>2. PICK j \in 1..Window : k - Window + j = q
        BY <3>3, <4>1
      <4>3. c \in new[j]
        BY <3>2, <4>1, <4>2
      <4> QED BY <3>1, <4>3
    <3> QED BY <3>4, <3>5
  <2> QED BY <2>1, <2>2
<1>10. InWindow(new) = NearTo(blocks, k)
  BY <1>9 DEF InWindow
<1> QED BY <1>5, <1>8, <1>10 DEF longer, old, new

\* What the carriers of the blocks up to k spend, of what is in the window.
CommitsTo(blocks, k) ==
  UNION {CarriedTo(blocks[m], NearTo(blocks, m - 1), Len(blocks[m])) : m \in 1..k}

\* The loop over the blocks.
LEMMA CommitsLoop ==
  ASSUME NEW blocks, Stored(blocks), NothingMoved
  PROVE  Commits = CommitsTo(blocks, Len(blocks))
<1> DEFINE N == Len(blocks)
           v == ScanOf(<<>>, {}, {})
           body(f) == [k \in 0..N |-> IF k = 0 THEN v ELSE CommitsInBlock(f[k - 1], OnDisk[k])]
           g == [k \in 0..N |-> ScanOf(RecentTo(blocks, k), {}, CommitsTo(blocks, k))]
<1>1. /\ N \in Nat /\ Len(OnDisk) = N /\ blocks \in Seq(Block)
      /\ \A k \in 1..N : blocks[k] \in Block /\ RecordOf(OnDisk[k], blocks[k])
  BY DEF Stored
<1>2. RecentTo(blocks, 0) = <<>> /\ InWindow(RecentTo(blocks, 0)) = NearTo(blocks, 0)
  <2>1. RecentTo(blocks, 0) = [j \in 1..0 |-> KeptIn(blocks[j])]
    BY WindowAssumption DEF RecentTo
  <2>2. RecentTo(blocks, 0) = <<>>
    BY <2>1
  <2>3. NearTo(blocks, 0) = {}
    BY DEF NearTo
  <2>4. InWindow(<<>>) = {}
    BY DEF InWindow
  <2> QED BY <2>2, <2>3, <2>4
<1>3. \A k \in 0..N : InWindow(RecentTo(blocks, k)) = NearTo(blocks, k)
  <2> SUFFICES ASSUME NEW k \in 1..N PROVE InWindow(RecentTo(blocks, k)) = NearTo(blocks, k)
    BY <1>1, <1>2
  <2> QED BY <1>1, RecentIs
<1>4. ASSUME NEW k \in 1..N
      PROVE  CommitsInBlock(ScanOf(RecentTo(blocks, k - 1), {}, CommitsTo(blocks, k - 1)), OnDisk[k])
               = ScanOf(RecentTo(blocks, k), {}, CommitsTo(blocks, k))
  <2>1. PICK block, r, recent, found :
          /\ block \in Block /\ block = blocks[k] /\ r = OnDisk[k]
          /\ recent = RecentTo(blocks, k - 1) /\ found = CommitsTo(blocks, k - 1)
    BY <1>1
  <2>2. RecordOf(r, block) /\ \A i \in 1..Len(block) : Moved(block[i]) = {}
    <3>1. \A i \in 1..Len(block) : block[i] \in RangeTxs
      BY <1>1, <2>1, TxsAre DEF Stored
    <3> QED BY <1>1, <2>1, <3>1 DEF NothingMoved
  <2>3. CommitsInBlock(ScanOf(recent, {}, found), r)
          = ScanOf(Keep(Append(recent, KeptIn(block))), {},
                   found \cup CarriedTo(block, InWindow(recent), Len(block)))
    <3>1. block \in Block
      BY <2>1
    <3> QED BY <2>2, <3>1, CommitsBlockIs
  <2>4. Keep(Append(recent, KeptIn(block))) = RecentTo(blocks, k)
    BY <1>1, <2>1, RecentIs
  <2>5. InWindow(recent) = NearTo(blocks, k - 1)
    <3>1. k - 1 \in 0..N
      BY <1>1
    <3> QED BY <1>3, <2>1, <3>1
  <2>6. CommitsTo(blocks, k) = found \cup CarriedTo(block, NearTo(blocks, k - 1), Len(block))
    <3>1. 1..k = (1..(k - 1)) \cup {k}
      BY <1>1, UpToLast
    <3> QED BY <2>1, <3>1 DEF CommitsTo
  <2> QED BY <2>1, <2>3, <2>4, <2>5, <2>6
<1>5. CommitsTo(blocks, 0) = {}
  BY DEF CommitsTo
<1> DEFINE after == CHOOSE f : f = body(f)
<1>6. Commits = after[N].found
  BY <1>1 DEF Commits, ScanOf
<1> HIDE DEF N, v
<1>7. g = body(g)
  <2>1. ASSUME NEW k \in 0..N
        PROVE  g[k] = IF k = 0 THEN v ELSE CommitsInBlock(g[k - 1], OnDisk[k])
    <3>1. CASE k = 0
      BY <1>2, <1>5, <3>1 DEF v
    <3>2. CASE k # 0
      <4>1. k \in 1..N /\ k - 1 \in 0..N
        BY <1>1, <3>2
      <4>2. g[k - 1] = ScanOf(RecentTo(blocks, k - 1), {}, CommitsTo(blocks, k - 1))
        BY <4>1
      <4> QED BY <1>4, <3>2, <4>1, <4>2
    <3> QED BY <3>1, <3>2
  <2>2. g = [k \in 0..N |-> g[k]]
    OBVIOUS
  <2> HIDE DEF g
  <2> QED BY <2>1, <2>2
<1>8. after = body(after)
  <2> HIDE DEF g
  <2> QED BY <1>7
<1> HIDE DEF after
<1>9. ASSUME NEW k \in 1..N, after[k - 1] = g[k - 1] PROVE after[k] = g[k]
  <2>1. k \in 0..N /\ k # 0
    BY <1>1
  <2> HIDE DEF g
  <2>2. after[k] = CommitsInBlock(after[k - 1], OnDisk[k])
    BY <1>8, <2>1
  <2>3. g[k] = CommitsInBlock(g[k - 1], OnDisk[k])
    BY <1>7, <2>1
  <2> QED BY <1>9, <2>2, <2>3
<1>10. after[N] = g[N] /\ N \in 0..N
  <2>1. N \in 0..N /\ 0 \in 0..N
    BY <1>1
  <2> HIDE DEF g
  <2>2. after[0] = v /\ g[0] = v
    BY <1>7, <1>8, <2>1
  <2>3. after[N] = g[N]
    <3>1. after[0] = g[0]
      BY <2>2
    <3>2. \A q \in 1..N : after[q - 1] = g[q - 1] => after[q] = g[q]
      BY <1>9
    <3>3. N \in Nat
      BY <1>1
    <3> QED BY <3>1, <3>2, <3>3, LoopsAgree
  <2> QED BY <2>1, <2>3
<1>11. g[N] = ScanOf(RecentTo(blocks, N), {}, CommitsTo(blocks, N))
  BY <1>10
<1> HIDE DEF g
<1>12. after[N].found = CommitsTo(blocks, N)
  BY <1>10, <1>11 DEF ScanOf
<1> QED BY <1>6, <1>12 DEF N

\* What is kept of a transaction.
LEMMA KeptOfIs ==
  ASSUME NEW t \in Tx, NEW c
  PROVE  /\ c \in KeptOf(t) => Flag(t) # "stripped" /\ c.tx = t.id /\ c.n \notin Dropped(t)
         /\ c \in Coin /\ c.tx = t.id /\ c.n \in DOMAIN t.outs /\ c.n \notin Dropped(t) => c \in KeptOf(t)
<1>1. DOMAIN t.outs = 1..Len(t.outs) /\ Dropped(t) \subseteq 1..Len(t.outs)
  BY CoinsIs
<1>2. ASSUME c \in KeptOf(t)
      PROVE  Flag(t) # "stripped" /\ c.tx = t.id /\ c.n \notin Dropped(t)
  <2>1. PICK n \in (1..Len(t.outs)) \ Dropped(t) : c = [tx |-> t.id, n |-> n]
    BY <1>2 DEF KeptOf
  <2>2. Flag(t) # "stripped"
    BY <1>1 DEF Flag
  <2> QED BY <2>1, <2>2
<1>3. ASSUME c \in Coin, c.tx = t.id, c.n \in DOMAIN t.outs, c.n \notin Dropped(t) PROVE c \in KeptOf(t)
  <2>1. c = [tx |-> t.id, n |-> c.n]
    BY <1>3 DEF Coin
  <2>2. c.n \in (1..Len(t.outs)) \ Dropped(t)
    BY <1>1, <1>3
  <2> QED BY <2>1, <2>2 DEF KeptOf
<1> QED BY <1>2, <1>3

\* The blocks of the range and their transactions.
LEMMA PlacesAre ==
  ASSUME NEW blocks, Stored(blocks)
  PROVE  /\ Len(blocks) \in Nat /\ blocks \in Seq(Block) /\ InOrder(blocks)
         /\ \A k \in 1..Len(blocks) : blocks[k] \in Block /\ Len(blocks[k]) \in Nat
         /\ \A k \in 1..Len(blocks) : \A i \in 1..Len(blocks[k]) :
              blocks[k][i] \in RangeTxs /\ blocks[k][i] \in Tx
         /\ \A t \in RangeTxs : \E k \in 1..Len(blocks) : \E i \in 1..Len(blocks[k]) : t = blocks[k][i]
         /\ \A t \in RangeTxs : t \in Tx /\ t.ins \subseteq Coin
<1>1. blocks \in Seq(Block) /\ RangeTxs = TxsOf(blocks) /\ InOrder(blocks)
  BY DEF Stored
<1>2. /\ \A k \in 1..Len(blocks) : \A i \in 1..Len(blocks[k]) : blocks[k][i] \in RangeTxs
      /\ \A t \in RangeTxs : \E k \in 1..Len(blocks) : \E i \in 1..Len(blocks[k]) : t = blocks[k][i]
  BY <1>1, TxsAre
<1>3. \A k \in 1..Len(blocks) : /\ blocks[k] \in Block /\ Len(blocks[k]) \in Nat
                                 /\ \A i \in 1..Len(blocks[k]) : blocks[k][i] \in Tx
  BY <1>1 DEF Block
<1>4. \A t \in RangeTxs : t \in Tx
  BY <1>2, <1>3
<1>5. \A t \in Tx : t.ins \subseteq Coin
  BY DEF Tx
<1> QED BY <1>1, <1>2, <1>3, <1>4, <1>5

\* What a carrier in the store spends is found exactly when the store holds the
\* output, in the same block or in the Window blocks before it, as long as no
\* output has moved: the window neither loses a block too early nor keeps one
\* too many, and never holds an output of a later transaction.
THEOREM WindowTheorem == Spec => []WindowIsExact
<1>1. ASSUME IInv, LedgerInv PROVE WindowIsExact
  <2> DEFINE near(t, u) == HeightOf(t) - HeightOf(u) \in 0..Window
             hit(t) == {d \in t.ins : \E u \in Held :
                          /\ d.tx = u.id /\ d.n \notin Dropped(u)
                          /\ near(t, u)}
             all == UNION {{<<t.id, c>> : c \in hit(t)} : t \in {u \in Held : Flag(u) = "modified"}}
  <2> SUFFICES ASSUME Readied, NothingMoved PROVE Commits = all
    BY DEF WindowIsExact
  <2>1. PICK blocks \in Seq(Block) : Stored(blocks)
    BY <1>1, ReadiedIs
  <2> DEFINE N == Len(blocks)
  <2>2. Commits = CommitsTo(blocks, N)
    BY <2>1, CommitsLoop
  <2>3. /\ N \in Nat /\ blocks \in Seq(Block) /\ InOrder(blocks)
        /\ \A k \in 1..N : blocks[k] \in Block /\ Len(blocks[k]) \in Nat
        /\ \A k \in 1..N : \A i \in 1..Len(blocks[k]) : blocks[k][i] \in RangeTxs /\ blocks[k][i] \in Tx
        /\ \A t \in RangeTxs : \E k \in 1..N : \E i \in 1..Len(blocks[k]) : t = blocks[k][i]
        /\ \A t \in RangeTxs : t \in Tx /\ t.ins \subseteq Coin
    BY <2>1, PlacesAre
  <2>4. /\ \A t \in RangeTxs : \A c \in t.ins :
             c.tx < t.id /\ \A u \in RangeTxs : u.id = c.tx => c.n \in DOMAIN u.outs
        /\ \A k \in 1..N : \A i \in 1..Len(blocks[k]) : HeightOf(blocks[k][i]) = range[1] + k - 1
        /\ range[1] \in Int /\ Window \in Nat
    BY <1>1, <2>1, WindowAssumption DEF Stored, IInv, ChainInv, RunInv, UnderWay, Readied
  <2> HIDE DEF N
  <2>5. ASSUME NEW m \in 1..N, NEW g \in 1..N, NEW i \in 1..Len(blocks[m]), NEW j \in 1..Len(blocks[g]),
               NEW t, t = blocks[m][i], NEW u, u = blocks[g][j]
        PROVE  near(t, u) <=> g <= m /\ m - g <= Window
    <3>1. HeightOf(t) = range[1] + m - 1 /\ HeightOf(u) = range[1] + g - 1
      BY <2>4, <2>5
    <3>2. m \in Nat /\ g \in Nat
      BY <2>3
    <3>3. HeightOf(t) - HeightOf(u) = m - g
      BY <2>4, <3>1, <3>2
    <3>4. m - g \in 0..Window <=> g <= m /\ m - g <= Window
      BY <2>4, <3>2
    <3> QED BY <3>3, <3>4
  <2> HIDE DEF near
  <2>6. ASSUME NEW p, p \in CommitsTo(blocks, N) PROVE p \in all
    <3>1. PICK m \in 1..N : p \in CarriedTo(blocks[m], NearTo(blocks, m - 1), Len(blocks[m]))
      BY <2>6 DEF CommitsTo
    <3>2. PICK i \in 1..Len(blocks[m]) :
            /\ Flag(blocks[m][i]) = "modified"
            /\ \E c \in blocks[m][i].ins \cap (NearTo(blocks, m - 1) \cup KeptTo(blocks[m], i - 1)) :
                 p = <<blocks[m][i].id, c>>
      BY <3>1 DEF CarriedTo
    <3>3. PICK t : t = blocks[m][i]
      OBVIOUS
    <3>4. t \in Held /\ Flag(t) = "modified"
      BY <2>3, <3>2, <3>3 DEF Held
    <3>5. PICK c \in t.ins \cap (NearTo(blocks, m - 1) \cup KeptTo(blocks[m], i - 1)) : p = <<t.id, c>>
      BY <3>2, <3>3
    <3>6. \E g \in 1..N : /\ g <= m /\ m - g <= Window
                          /\ \E j \in 1..Len(blocks[g]) : c \in KeptOf(blocks[g][j])
      <4>1. CASE c \in NearTo(blocks, m - 1)
        <5>1. PICK g \in 1..(m - 1) : (m - 1) - g < Window /\ c \in KeptIn(blocks[g])
          BY <4>1 DEF NearTo
        <5>2. PICK j \in 1..Len(blocks[g]) : c \in KeptOf(blocks[g][j])
          BY <5>1 DEF KeptIn, KeptTo
        <5>3. g \in 1..N /\ g <= m /\ m - g <= Window
          BY <2>3, <2>4, <5>1
        <5> QED BY <5>2, <5>3
      <4>2. CASE c \in KeptTo(blocks[m], i - 1)
        <5>1. PICK j \in 1..(i - 1) : c \in KeptOf(blocks[m][j])
          BY <4>2 DEF KeptTo
        <5>2. j \in 1..Len(blocks[m]) /\ m <= m /\ m - m <= Window
          BY <2>3, <2>4
        <5> QED BY <5>1, <5>2
      <4> QED BY <3>5, <4>1, <4>2
    <3>7. PICK g \in 1..N : /\ g <= m /\ m - g <= Window
                            /\ \E j \in 1..Len(blocks[g]) : c \in KeptOf(blocks[g][j])
      BY <3>6
    <3>8. PICK j \in 1..Len(blocks[g]) : c \in KeptOf(blocks[g][j])
      BY <3>7
    <3>9. PICK u \in Tx : u = blocks[g][j] /\ u \in RangeTxs
      BY <2>3
    <3>10. Flag(u) # "stripped" /\ c.tx = u.id /\ c.n \notin Dropped(u)
      BY <3>8, <3>9, KeptOfIs
    <3>11. near(t, u)
      BY <2>5, <3>3, <3>7, <3>9
    <3>12. u \in Held
      BY <3>9, <3>10 DEF Held
    <3>13. c \in hit(t)
      BY <3>5, <3>10, <3>11, <3>12
    <3> HIDE DEF hit
    <3> QED BY <3>4, <3>5, <3>13
  <2>7. ASSUME NEW p, p \in all PROVE p \in CommitsTo(blocks, N)
    <3>1. PICK t \in Held : Flag(t) = "modified" /\ \E c \in hit(t) : p = <<t.id, c>>
      BY <2>7
    <3>2. PICK c \in hit(t) : p = <<t.id, c>>
      BY <3>1
    <3>3. PICK u \in Held : c.tx = u.id /\ c.n \notin Dropped(u) /\ near(t, u)
      OBVIOUS
    <3>4. c \in t.ins /\ t \in RangeTxs /\ u \in RangeTxs
      BY DEF Held
    <3>5. c \in KeptOf(u)
      <4>1. u \in Tx /\ c \in Coin /\ c.n \in DOMAIN u.outs
        BY <2>3, <2>4, <3>3, <3>4
      <4> QED BY <3>3, <4>1, KeptOfIs
    <3>6. PICK m \in 1..N : \E i \in 1..Len(blocks[m]) : t = blocks[m][i]
      BY <2>3, <3>4
    <3>7. PICK i \in 1..Len(blocks[m]) : t = blocks[m][i]
      BY <3>6
    <3>8. PICK g \in 1..N : \E j \in 1..Len(blocks[g]) : u = blocks[g][j]
      BY <2>3, <3>4
    <3>9. PICK j \in 1..Len(blocks[g]) : u = blocks[g][j]
      BY <3>8
    <3>10. m - g <= Window
      BY <2>5, <3>3, <3>7, <3>9
    <3>11. g < m \/ (g = m /\ j < i)
      <4>1. blocks[g][j].id < blocks[m][i].id
        BY <2>4, <3>3, <3>4, <3>7, <3>9
      <4> QED BY <2>3, <4>1, IdsTell DEF N
    <3>12. c \in NearTo(blocks, m - 1) \cup KeptTo(blocks[m], i - 1)
      <4>1. CASE g < m
        <5>1. g \in 1..(m - 1) /\ (m - 1) - g < Window
          BY <2>3, <2>4, <3>10, <4>1
        <5>2. c \in KeptIn(blocks[g])
          BY <3>5, <3>9 DEF KeptIn, KeptTo
        <5> QED BY <5>1, <5>2 DEF NearTo
      <4>2. CASE g = m /\ j < i
        <5>1. j \in 1..(i - 1)
          BY <2>3, <4>2
        <5> QED BY <3>5, <3>9, <4>2, <5>1 DEF KeptTo
      <4> QED BY <3>11, <4>1, <4>2
    <3>13. p \in CarriedTo(blocks[m], NearTo(blocks, m - 1), Len(blocks[m]))
      BY <3>1, <3>2, <3>4, <3>7, <3>12 DEF CarriedTo
    <3> QED BY <3>13 DEF CommitsTo
  <2> HIDE DEF all
  <2> QED BY <2>2, <2>6, <2>7
<1> QED BY <1>1, StoreInv, LedgerTheorem, PTL

-----------------------------------------------------------------------------
(* wallet_check.py.                                                        *)

\* Outputs under their own outpoints.
Watched(coins) == {[key |-> c, coin |-> c] : c \in coins}

\* All the outputs of a transaction.
OutputsOf(t) == {Coins(t)[n] : n \in DOMAIN t.outs}

\* The state of the tool.
WalletOf(coins, history, height) ==
  [watched |-> Watched(coins), balance |-> coins, history |-> history, height |-> height]

\* They are those kept and those dropped.
LEMMA OutputsAre ==
  ASSUME NEW t \in Tx
  PROVE  /\ OutputsOf(t) = KeptOf(t) \cup DroppedOf(t)
         /\ \A c \in OutputsOf(t) : c.tx = t.id
<1>1. /\ DOMAIN t.outs = 1..Len(t.outs) /\ Dropped(t) \subseteq 1..Len(t.outs)
      /\ \A n \in 1..Len(t.outs) : Coins(t)[n] = [tx |-> t.id, n |-> n]
  BY CoinsIs
<1>2. OutputsOf(t) = {[tx |-> t.id, n |-> n] : n \in 1..Len(t.outs)}
  <2> DEFINE all == {[tx |-> t.id, n |-> n] : n \in 1..Len(t.outs)}
  <2>1. ASSUME NEW c PROVE c \in OutputsOf(t) <=> \E n \in 1..Len(t.outs) : c = Coins(t)[n]
    BY <1>1 DEF OutputsOf
  <2>2. ASSUME NEW c PROVE c \in all <=> \E n \in 1..Len(t.outs) : c = Coins(t)[n]
    BY <1>1
  <2> HIDE DEF all
  <2>3. \A c : c \in OutputsOf(t) <=> c \in all
    BY <2>1, <2>2
  <2> QED BY <2>3 DEF all
<1>3. 1..Len(t.outs) = ((1..Len(t.outs)) \ Dropped(t)) \cup Dropped(t)
  BY <1>1
<1> QED BY <1>2, <1>3 DEF KeptOf, DroppedOf

\* What is dropped of a transaction is what the filter has under its id.
FilteredIs(t, filters) == FiltersOf(t.id, filters) = Watched(DroppedOf(t))

\* They are, as no two transactions of a block have the same id.
LEMMA FiltersOfIs ==
  ASSUME NEW block \in Block, NEW filters, filters = FlattenSeq(FiltersOfBlock(block)),
         NEW i \in 1..Len(block),
         \A j, q \in 1..Len(block) : block[j].id = block[q].id => j = q
  PROVE  FilteredIs(block[i], filters)
<1>1. /\ filters \in Seq(Filter)
      /\ {filters[q].key : q \in DOMAIN filters} = DroppedIn(block)
      /\ \A q \in DOMAIN filters : filters[q].coin = filters[q].key
  BY KeysAre
<1>2. PICK t \in Tx : t = block[i]
  BY DEF Block
<1>3. \A j \in 1..Len(block) : \A c \in DroppedOf(block[j]) : c.tx = block[j].id
  BY DEF DroppedOf
<1>4. ASSUME NEW w, w \in FiltersOf(t.id, filters) PROVE w \in Watched(DroppedOf(t))
  <2>1. PICK q \in DOMAIN filters : filters[q].key.tx = t.id /\ w = filters[q]
    BY <1>4 DEF FiltersOf
  <2>2. PICK c : c = filters[q].key /\ c \in DroppedIn(block)
    BY <1>1
  <2>3. PICK j \in 1..Len(block) : c \in DroppedOf(block[j])
    BY <2>2 DEF DroppedIn
  <2>4. j = i
    BY <1>2, <1>3, <2>1, <2>2, <2>3
  <2>5. w = [key |-> c, coin |-> c]
    <3>1. w \in Filter /\ w.key = c /\ w.coin = c
      BY <1>1, <2>1, <2>2
    <3> QED BY <3>1 DEF Filter
  <2> QED BY <1>2, <2>3, <2>4, <2>5 DEF Watched
<1>5. ASSUME NEW w, w \in Watched(DroppedOf(t)) PROVE w \in FiltersOf(t.id, filters)
  <2>1. PICK c \in DroppedOf(t) : w = [key |-> c, coin |-> c]
    BY <1>5 DEF Watched
  <2>2. c \in DroppedIn(block) /\ c.tx = t.id
    BY <1>2, <1>3 DEF DroppedIn
  <2>3. PICK q \in DOMAIN filters : filters[q].key = c
    BY <1>1, <2>2
  <2>4. filters[q] = w
    <3>1. filters[q] \in Filter /\ filters[q].key = c /\ filters[q].coin = c
      BY <1>1, <2>3
    <3> QED BY <2>1, <3>1 DEF Filter
  <2> QED BY <2>2, <2>3, <2>4 DEF FiltersOf
<1> QED BY <1>2, <1>4, <1>5 DEF FilteredIs

\* A transaction of a record, as the tool has it.
WalletTxOf(t) ==
  IF Entry(t).flag = "stripped"
  THEN [txid |-> t.id, complete |-> FALSE, vin |-> {}, vout |-> {}]
  ELSE ParseTx(t.id, Entry(t).body)

\* Of a transaction that is stripped, the tool sees nothing.
LEMMA WalletSkips ==
  ASSUME NEW t \in Tx, Flag(t) = "stripped", NEW s, NEW filters
  PROVE  WalletTx(s, WalletTxOf(t), filters) = s
<1> DEFINE tx == WalletTxOf(t)
<1>1. Entry(t).flag = Flag(t)
  BY EntryIs
<1>2. ~tx.complete
  BY <1>1 DEF WalletTxOf
<1> HIDE DEF tx
<1>3. WalletTx(s, tx, filters) = s
  BY <1>2 DEF WalletTx
<1> QED BY <1>3 DEF tx

\* Of another, what it spends is gone, and all its outputs are there, those kept
\* by what the entry says and those dropped by the filter.
LEMMA WalletTxIs ==
  ASSUME NEW t \in Tx, Flag(t) # "stripped", Moved(t) = {},
         NEW coins, NEW history, NEW height, NEW filters, FilteredIs(t, filters)
  PROVE  WalletTx(WalletOf(coins, history, height), WalletTxOf(t), filters)
           = WalletOf((coins \ t.ins) \cup OutputsOf(t), history \cup {<<t.id, height>>}, height)
<1> DEFINE s == WalletOf(coins, history, height)
           tx == WalletTxOf(t)
           left == coins \ t.ins
<1>1. PICK M \in 0..Len(t.outs) :
        /\ (1..Len(t.outs)) \ Dropped(t) = 1..M
        /\ Entry(t).body.outs = [n \in 1..M |-> [tx |-> t.id, n |-> n]]
  BY UnmovedIs
<1>2. Entry(t).body.ins = t.ins /\ Entry(t).flag = Flag(t)
  BY EntryKept
<1>3. {[key |-> [tx |-> t.id, n |-> n], coin |-> Entry(t).body.outs[n]] : n \in DOMAIN Entry(t).body.outs}
        = Watched(KeptOf(t))
  <2> DEFINE outs == Entry(t).body.outs
  <2>1. DOMAIN outs = 1..M /\ \A n \in 1..M : outs[n] = [tx |-> t.id, n |-> n]
    BY <1>1
  <2> HIDE DEF outs
  <2>2. {[key |-> [tx |-> t.id, n |-> n], coin |-> outs[n]] : n \in DOMAIN outs}
          = {[key |-> [tx |-> t.id, n |-> n], coin |-> [tx |-> t.id, n |-> n]] : n \in 1..M}
    BY <2>1
  <2>3. Watched(KeptOf(t))
          = {[key |-> [tx |-> t.id, n |-> n], coin |-> [tx |-> t.id, n |-> n]] : n \in 1..M}
    BY <1>1 DEF Watched, KeptOf
  <2> QED BY <2>2, <2>3 DEF outs
<1>4. tx = [txid |-> t.id, complete |-> TRUE, vin |-> t.ins, vout |-> Watched(KeptOf(t))]
  BY <1>1, <1>2, <1>3 DEF WalletTxOf, ParseTx
<1>5. tx.txid = t.id /\ tx.complete /\ tx.vin = t.ins /\ tx.vout = Watched(KeptOf(t))
  BY <1>4
<1>6. s.watched = Watched(coins) /\ s.balance = coins /\ s.history = history /\ s.height = height
  BY DEF WalletOf
<1>7. ASSUME NEW set PROVE CoinsOf(Watched(set)) = set
  <2>1. ASSUME NEW c \in CoinsOf(Watched(set)) PROVE c \in set
    <3>1. PICK w \in Watched(set) : c = w.coin
      BY DEF CoinsOf
    <3>2. PICK d \in set : w = [key |-> d, coin |-> d]
      BY DEF Watched
    <3> QED BY <3>1, <3>2
  <2>2. ASSUME NEW c \in set PROVE c \in CoinsOf(Watched(set))
    <3>1. PICK w : w = [key |-> c, coin |-> c]
      OBVIOUS
    <3>2. w \in Watched(set) /\ w.coin = c
      BY <3>1 DEF Watched
    <3> QED BY <3>2 DEF CoinsOf
  <2> QED BY <2>1, <2>2
<1> DEFINE hit == {w \in s.watched : w.key \in tx.vin}
<1>8. hit = Watched(coins \cap t.ins)
  <2>1. hit = {w \in Watched(coins) : w.key \in t.ins}
    BY <1>5, <1>6
  <2> HIDE DEF hit
  <2> QED BY <2>1 DEF Watched
<1>9. Spend(s, tx.vin) = WalletOf(left, history, height)
  <2>1. Spend(s, tx.vin) = [s EXCEPT !.watched = @ \ hit, !.balance = @ \ CoinsOf(hit)]
    BY DEF Spend
  <2>2. CoinsOf(hit) = coins \cap t.ins
    <3> HIDE DEF hit
    <3> QED BY <1>7, <1>8
  <2>3. Watched(coins) \ hit = Watched(left)
    <3> HIDE DEF hit
    <3>1. Watched(coins) \ Watched(coins \cap t.ins) = Watched(left)
      BY DEF Watched
    <3> QED BY <1>8, <3>1
  <2>4. coins \ CoinsOf(hit) = left
    <3> HIDE DEF hit
    <3> QED BY <2>2
  <2> HIDE DEF hit
  <2>5. Spend(s, tx.vin) = [watched |-> Watched(coins) \ hit, balance |-> coins \ CoinsOf(hit),
                            history |-> history, height |-> height]
    BY <2>1 DEF WalletOf
  <2> QED BY <2>3, <2>4, <2>5 DEF WalletOf
<1> HIDE DEF hit, s, tx
<1>10. OutputsOf(t) = KeptOf(t) \cup DroppedOf(t)
  BY OutputsAre
<1>11. Watch(WalletOf(left, history, height), Watched(KeptOf(t)), Watched(DroppedOf(t)))
         = WalletOf(left \cup OutputsOf(t), history, height)
  <2> DEFINE kept == Watched(KeptOf(t))
             dropped == Watched(DroppedOf(t))
             watched == {w \in Watched(left) \cup kept : \A d \in dropped : d.key # w.key} \cup dropped
             balance == left \cup CoinsOf(kept) \cup CoinsOf(dropped)
  <2>1. watched = Watched(left \cup OutputsOf(t))
    BY <1>10 DEF Watched
  <2>2. balance = left \cup OutputsOf(t)
    BY <1>7, <1>10
  <2>3. Watch(WalletOf(left, history, height), kept, dropped)
          = [WalletOf(left, history, height) EXCEPT
               !.watched = {w \in @ \cup kept : \A d \in dropped : d.key # w.key} \cup dropped,
               !.balance = @ \cup CoinsOf(kept) \cup CoinsOf(dropped)]
    BY DEF Watch
  <2> HIDE DEF kept, dropped
  <2>4. Watch(WalletOf(left, history, height), kept, dropped)
          = [watched |-> watched, balance |-> balance, history |-> history, height |-> height]
    BY <2>3 DEF WalletOf
  <2> HIDE DEF watched, balance
  <2> QED BY <2>1, <2>2, <2>4 DEF WalletOf, kept, dropped
<1>12. WalletTx(s, tx, filters)
         = [WalletOf(left \cup OutputsOf(t), history, height) EXCEPT !.history = @ \cup {<<t.id, height>>}]
  <2>1. WalletTx(s, tx, filters)
          = [Watch(Spend(s, tx.vin), tx.vout, FiltersOf(tx.txid, filters))
               EXCEPT !.history = @ \cup {<<tx.txid, s.height>>}]
    BY <1>5 DEF WalletTx
  <2>2. PICK rest : rest = WalletOf(left, history, height)
    OBVIOUS
  <2>3. PICK all : all = WalletOf(left \cup OutputsOf(t), history, height)
    OBVIOUS
  <2>4. Spend(s, tx.vin) = rest /\ Watch(rest, tx.vout, FiltersOf(tx.txid, filters)) = all
    BY <1>5, <1>9, <1>11, <2>2, <2>3 DEF FilteredIs
  <2>5. WalletTx(s, tx, filters) = [all EXCEPT !.history = @ \cup {<<tx.txid, s.height>>}]
    BY <2>1, <2>4
  <2> QED BY <1>5, <1>6, <2>3, <2>5
<1>13. [WalletOf(left \cup OutputsOf(t), history, height) EXCEPT !.history = @ \cup {<<t.id, height>>}]
         = WalletOf(left \cup OutputsOf(t), history \cup {<<t.id, height>>}, height)
  <2>1. PICK all, pairs, balance :
          /\ all = WalletOf(left \cup OutputsOf(t), history, height)
          /\ pairs = Watched(left \cup OutputsOf(t)) /\ balance = left \cup OutputsOf(t)
    OBVIOUS
  <2>2. all = [watched |-> pairs, balance |-> balance, history |-> history, height |-> height]
    BY <2>1 DEF WalletOf
  <2>3. all.history = history
    BY <2>2
  <2>4. PICK longer : longer = history \cup {<<t.id, height>>}
    OBVIOUS
  <2>5. [all EXCEPT !.history = longer]
          = [watched |-> pairs, balance |-> balance, history |-> longer, height |-> height]
    BY <2>2
  <2> QED BY <2>1, <2>3, <2>4, <2>5 DEF WalletOf
<1> QED BY <1>12, <1>13 DEF s, tx

\* The transactions of a block up to a place that are not stripped, and of the
\* blocks up to k.
HeldTo(block, i) == {block[j] : j \in {q \in 1..i : Flag(block[q]) # "stripped"}}
ReadTo(blocks, k) == UNION {HeldTo(blocks[m], Len(blocks[m])) : m \in 1..k}

\* The state of the tool once it has read some transactions, and no other.
WalletAfter(txs, height) ==
  WalletOf(Created(txs) \ SpentBy(txs), {<<t.id, HeightOf(t)>> : t \in txs}, height)

\* The transactions of a block.
ThoseOf(block) == {block[i] : i \in 1..Len(block)}

\* Transactions that spend outputs of those before them.
Spending(txs) == txs \subseteq Tx /\ \A t \in txs : \A c \in t.ins : c.tx < t.id

\* No output of the last of them is spent, so that it adds all its outputs.
LEMMA BalanceGrows ==
  ASSUME NEW txs, NEW t, Spending(txs \cup {t}), \A u \in txs : u.id < t.id
  PROVE  Created(txs \cup {t}) \ SpentBy(txs \cup {t})
           = ((Created(txs) \ SpentBy(txs)) \ t.ins) \cup OutputsOf(t)
<1>1. t \in Tx /\ \A u \in txs \cup {t} : u \in Tx /\ u.id \in Nat /\ u.ins \subseteq Coin
  BY DEF Spending, Tx
<1>2. Created(txs \cup {t}) = Created(txs) \cup OutputsOf(t)
  BY DEF Created, OutputsOf
<1>3. SpentBy(txs \cup {t}) = SpentBy(txs) \cup t.ins
  BY DEF SpentBy
<1>4. ASSUME NEW c \in OutputsOf(t) PROVE c \notin SpentBy(txs) \cup t.ins
  <2>1. SUFFICES ASSUME NEW u \in txs \cup {t}, c \in u.ins PROVE FALSE
    BY DEF SpentBy
  <2>2. c.tx = t.id
    BY <1>1, OutputsAre
  <2>3. c.tx < u.id /\ u.id <= t.id
    BY <1>1, <2>1 DEF Spending
  <2> QED BY <1>1, <2>2, <2>3
<1> QED BY <1>2, <1>3, <1>4

\* A block at a height, after some transactions.
Follows(block, txs, height) ==
  /\ Spending(txs) /\ Spending(ThoseOf(block))
  /\ \A i \in 1..Len(block) : Moved(block[i]) = {} /\ HeightOf(block[i]) = height
  /\ \A i \in 1..Len(block) : \A u \in txs : u.id < block[i].id
  /\ \A j, i \in 1..Len(block) : j < i => block[j].id < block[i].id

\* One block.
LEMMA WalletBlockIs ==
  ASSUME NEW block \in Block, NEW r, RecordOf(r, block), NEW txs, NEW height,
         Follows(block, txs, height)
  PROVE  WalletBlock(WalletAfter(txs, height), r)
           = WalletAfter(txs \cup HeldTo(block, Len(block)), height + 1)
<1> DEFINE N == Len(block)
           v == WalletAfter(txs, height)
           wtxs == WalletTxs(r)
           body(f) == [i \in 0..N |-> IF i = 0 THEN v ELSE WalletTx(f[i - 1], wtxs[i], r.filters)]
           g == [i \in 0..N |-> WalletAfter(txs \cup HeldTo(block, i), height)]
           after == CHOOSE f : f = body(f)
<1>1. N \in Nat /\ \A i \in 1..N : block[i] \in Tx /\ block[i].id \in Nat
  <2>1. \A t \in Tx : t.id \in Nat
    BY DEF Tx
  <2> QED BY <2>1 DEF Block
<1>2. /\ DOMAIN r.txs = 1..N
      /\ \A i \in 1..N : r.txs[i] = Entry(block[i]) /\ Txids(r)[i] = block[i].id
      /\ r.filters = FlattenSeq(FiltersOfBlock(block))
  BY DEF RecordOf
<1>3. Len(wtxs) = N /\ \A i \in 1..N : wtxs[i] = WalletTxOf(block[i])
  <2> DEFINE form(i) == IF r.txs[i].flag = "stripped"
                        THEN [txid |-> Txids(r)[i], complete |-> FALSE, vin |-> {}, vout |-> {}]
                        ELSE ParseTx(Txids(r)[i], r.txs[i].body)
  <2>1. ASSUME NEW i \in 1..N PROVE form(i) = WalletTxOf(block[i])
    BY <1>2 DEF WalletTxOf
  <2>2. wtxs = [i \in 1..N |-> form(i)]
    BY <1>2 DEF WalletTxs
  <2> HIDE DEF form, wtxs
  <2> QED BY <1>1, <2>1, <2>2
<1>4. WalletBlock(v, r) = [after[N] EXCEPT !.height = @ + 1]
  BY <1>3 DEF WalletBlock
<1> HIDE DEF N, v, wtxs
<1>unmoved. \A i \in 1..N : Moved(block[i]) = {} /\ HeightOf(block[i]) = height
  BY DEF Follows, N
<1>spending. Spending(txs) /\ Spending(ThoseOf(block))
  BY DEF Follows
<1>before. \A i \in 1..N : \A u \in txs : u.id < block[i].id
  BY DEF Follows, N
<1>order. \A j, i \in 1..N : j < i => block[j].id < block[i].id
  BY DEF Follows, N
<1>5. \A j, q \in 1..N : block[j].id = block[q].id => j = q
  <2> SUFFICES ASSUME NEW j \in 1..N, NEW q \in 1..N, block[j].id = block[q].id, j # q PROVE FALSE
    OBVIOUS
  <2>1. j < q \/ q < j
    BY <1>1
  <2>2. block[j].id < block[q].id \/ block[q].id < block[j].id
    <3>1. CASE j < q
      BY <1>order, <3>1
    <3>2. CASE q < j
      BY <1>order, <3>2
    <3> QED BY <2>1, <3>1, <3>2
  <2> QED BY <1>1, <2>2
<1>6. ASSUME NEW i \in 1..N
      PROVE  WalletTx(WalletAfter(txs \cup HeldTo(block, i - 1), height), wtxs[i], r.filters)
               = WalletAfter(txs \cup HeldTo(block, i), height)
  <2> DEFINE done == txs \cup HeldTo(block, i - 1)
  <2>1. PICK t \in Tx : t = block[i] /\ Moved(t) = {} /\ HeightOf(t) = height
    BY <1>1, <1>unmoved
  <2>2. PICK coins, history : /\ coins = Created(done) \ SpentBy(done)
                              /\ history = {<<u.id, HeightOf(u)>> : u \in done}
    OBVIOUS
  <2>3. PICK filters : filters = r.filters
    OBVIOUS
  <2>4. FilteredIs(t, filters)
    BY <1>2, <1>5, <2>1, <2>3, FiltersOfIs DEF N
  <2>5. Flag(t) # "stripped" =>
          WalletTx(WalletOf(coins, history, height), WalletTxOf(t), filters)
            = WalletOf((coins \ t.ins) \cup OutputsOf(t), history \cup {<<t.id, height>>}, height)
    <3>1. t \in Tx /\ Moved(t) = {} /\ FilteredIs(t, filters)
      BY <2>1, <2>4
    <3> QED BY <3>1, WalletTxIs
  <2>6. 1..i = (1..(i - 1)) \cup {i}
    BY <1>1, UpToLast
  <2>7. WalletAfter(done, height) = WalletOf(coins, history, height)
    BY <2>2 DEF WalletAfter
  <2>8. CASE Flag(t) = "stripped"
    <3>1. {q \in 1..i : Flag(block[q]) # "stripped"} = {q \in 1..(i - 1) : Flag(block[q]) # "stripped"}
      BY <2>1, <2>6, <2>8
    <3>2. HeldTo(block, i) = HeldTo(block, i - 1)
      BY <3>1 DEF HeldTo
    <3>3. WalletTx(WalletOf(coins, history, height), WalletTxOf(t), filters) = WalletOf(coins, history, height)
      BY <2>1, <2>8, WalletSkips
    <3> QED BY <1>3, <2>1, <2>3, <2>7, <3>2, <3>3
  <2>9. CASE Flag(t) # "stripped"
    <3>1. {q \in 1..i : Flag(block[q]) # "stripped"}
            = {q \in 1..(i - 1) : Flag(block[q]) # "stripped"} \cup {i}
      BY <2>1, <2>6, <2>9
    <3>2. txs \cup HeldTo(block, i) = done \cup {t}
      BY <2>1, <3>1 DEF HeldTo
    <3>3. \A u \in done : u.id < t.id
      <4>1. \A q \in 1..(i - 1) : q \in 1..N /\ q < i
        BY <1>1
      <4>2. \A u \in HeldTo(block, i - 1) : \E q \in 1..(i - 1) : u = block[q]
        BY DEF HeldTo
      <4>3. \A q \in 1..(i - 1) : block[q].id < t.id
        BY <1>order, <2>1, <4>1
      <4>4. \A u \in txs : u.id < t.id
        BY <1>before, <2>1
      <4> QED BY <4>2, <4>3, <4>4
    <3>4. Spending(done \cup {t})
      <4>1. \A q \in 1..(i - 1) : q \in 1..N
        BY <1>1
      <4>2. HeldTo(block, i - 1) \cup {t} \subseteq {block[q] : q \in 1..N}
        BY <2>1, <4>1 DEF HeldTo
      <4> QED BY <1>spending, <4>2 DEF Spending, ThoseOf, N
    <3>5. Created(done \cup {t}) \ SpentBy(done \cup {t}) = (coins \ t.ins) \cup OutputsOf(t)
      <4> HIDE DEF done
      <4> QED BY <2>2, <3>3, <3>4, BalanceGrows
    <3>6. {<<u.id, HeightOf(u)>> : u \in done \cup {t}} = history \cup {<<t.id, height>>}
      <4> HIDE DEF done
      <4> QED BY <2>1, <2>2
    <3>7. WalletAfter(done \cup {t}, height)
            = WalletOf((coins \ t.ins) \cup OutputsOf(t), history \cup {<<t.id, height>>}, height)
      <4> HIDE DEF done
      <4> QED BY <3>5, <3>6 DEF WalletAfter
    <3> QED BY <1>3, <2>1, <2>3, <2>5, <2>7, <2>9, <3>2, <3>7
  <2> QED BY <2>8, <2>9
<1>7. HeldTo(block, 0) = {}
  BY DEF HeldTo
<1>8. g = body(g)
  <2>1. ASSUME NEW i \in 0..N
        PROVE  g[i] = IF i = 0 THEN v ELSE WalletTx(g[i - 1], wtxs[i], r.filters)
    <3>1. CASE i = 0
      <4>1. txs \cup HeldTo(block, 0) = txs
        BY <1>7
      <4> QED BY <3>1, <4>1 DEF v
    <3>2. CASE i # 0
      <4>1. i \in 1..N /\ i - 1 \in 0..N
        BY <1>1, <3>2
      <4>2. g[i - 1] = WalletAfter(txs \cup HeldTo(block, i - 1), height)
        BY <4>1
      <4> QED BY <1>6, <3>2, <4>1, <4>2
    <3> QED BY <3>1, <3>2
  <2>2. g = [i \in 0..N |-> g[i]]
    OBVIOUS
  <2> HIDE DEF g
  <2> QED BY <2>1, <2>2
<1>9. after = body(after)
  <2> HIDE DEF g
  <2> QED BY <1>8
<1> HIDE DEF after
<1>10. ASSUME NEW i \in 1..N, after[i - 1] = g[i - 1] PROVE after[i] = g[i]
  <2>1. i \in 0..N /\ i # 0
    BY <1>1
  <2> HIDE DEF g
  <2>2. after[i] = WalletTx(after[i - 1], wtxs[i], r.filters)
    BY <1>9, <2>1
  <2>3. g[i] = WalletTx(g[i - 1], wtxs[i], r.filters)
    BY <1>8, <2>1
  <2> QED BY <1>10, <2>2, <2>3
<1>11. after[N] = g[N] /\ N \in 0..N
  <2>1. N \in 0..N /\ 0 \in 0..N
    BY <1>1
  <2> HIDE DEF g
  <2>2. after[0] = v /\ g[0] = v
    BY <1>8, <1>9, <2>1
  <2>3. after[N] = g[N]
    <3>1. after[0] = g[0]
      BY <2>2
    <3>2. \A q \in 1..N : after[q - 1] = g[q - 1] => after[q] = g[q]
      BY <1>10
    <3>3. N \in Nat
      BY <1>1
    <3> QED BY <3>1, <3>2, <3>3, LoopsAgree
  <2> QED BY <2>1, <2>3
<1>12. after[N] = WalletAfter(txs \cup HeldTo(block, N), height)
  BY <1>11
<1> HIDE DEF g
<1>13. WalletBlock(v, r) = WalletAfter(txs \cup HeldTo(block, N), height + 1)
  <2>1. PICK last, all : last = after[N] /\ all = txs \cup HeldTo(block, N)
    OBVIOUS
  <2>2. PICK coins, history, pairs :
          /\ coins = Created(all) \ SpentBy(all) /\ history = {<<u.id, HeightOf(u)>> : u \in all}
          /\ pairs = Watched(coins)
    OBVIOUS
  <2>3. last = [watched |-> pairs, balance |-> coins, history |-> history, height |-> height]
    BY <1>12, <2>1, <2>2 DEF WalletAfter, WalletOf
  <2>4. WalletAfter(all, height + 1)
          = [watched |-> pairs, balance |-> coins, history |-> history, height |-> height + 1]
    BY <2>2 DEF WalletAfter, WalletOf
  <2>5. last.height = height
    BY <2>3
  <2>6. PICK higher : higher = height + 1
    OBVIOUS
  <2>7. [last EXCEPT !.height = higher]
          = [watched |-> pairs, balance |-> coins, history |-> history, height |-> higher]
    BY <2>3
  <2> QED BY <1>4, <2>1, <2>4, <2>5, <2>6, <2>7
<1> QED BY <1>13 DEF v, N

\* The loop over the blocks.
LEMMA WalletLoop ==
  ASSUME NEW blocks, Stored(blocks), NothingMoved, range[1] \in Int
  PROVE  Wallet = WalletAfter(ReadTo(blocks, Len(blocks)), range[1] + Len(blocks))
<1> DEFINE N == Len(blocks)
           v == NoWallet
           body(f) == [k \in 0..N |-> IF k = 0 THEN v ELSE WalletBlock(f[k - 1], OnDisk[k])]
           g == [k \in 0..N |-> WalletAfter(ReadTo(blocks, k), range[1] + k)]
<1>1. /\ N \in Nat /\ Len(OnDisk) = N /\ blocks \in Seq(Block) /\ InOrder(blocks)
      /\ \A k \in 1..N : blocks[k] \in Block /\ Len(blocks[k]) \in Nat /\ RecordOf(OnDisk[k], blocks[k])
      /\ \A k \in 1..N : \A i \in 1..Len(blocks[k]) :
           blocks[k][i] \in RangeTxs /\ HeightOf(blocks[k][i]) = range[1] + k - 1
  BY PlacesAre DEF Stored
<1>2. \A t \in RangeTxs : t \in Tx /\ Moved(t) = {} /\ \A c \in t.ins : c.tx < t.id
  BY PlacesAre DEF Stored, NothingMoved
<1>3. ASSUME NEW k \in 1..N
      PROVE  WalletBlock(WalletAfter(ReadTo(blocks, k - 1), range[1] + (k - 1)), OnDisk[k])
               = WalletAfter(ReadTo(blocks, k), range[1] + k)
  <2>1. PICK block, r, txs, height :
          /\ block \in Block /\ block = blocks[k] /\ r = OnDisk[k] /\ RecordOf(r, block)
          /\ txs = ReadTo(blocks, k - 1) /\ height = range[1] + (k - 1)
    BY <1>1
  <2>2. \A i \in 1..Len(block) : /\ block[i] \in RangeTxs
                                 /\ Moved(block[i]) = {} /\ HeightOf(block[i]) = height
    <3>1. \A i \in 1..Len(block) : block[i] \in RangeTxs /\ HeightOf(block[i]) = range[1] + k - 1
      BY <1>1, <2>1
    <3>2. height = range[1] + k - 1
      BY <1>1, <2>1
    <3> QED BY <1>2, <3>1, <3>2
  <2>3. \A j, i \in 1..Len(block) : j < i => block[j].id < block[i].id
    BY <1>1, <2>1 DEF InOrder
  <2>4. \A u \in txs : \E m \in 1..(k - 1) : \E j \in 1..Len(blocks[m]) : u = blocks[m][j]
    BY <2>1 DEF ReadTo, HeldTo
  <2>5. \A m \in 1..(k - 1) : m \in 1..N /\ m < k
    BY <1>1
  <2>6. ASSUME NEW i \in 1..Len(block), NEW u \in txs PROVE u.id < block[i].id
    <3>1. PICK m \in 1..(k - 1) : \E j \in 1..Len(blocks[m]) : u = blocks[m][j]
      BY <2>4
    <3>2. PICK j \in 1..Len(blocks[m]) : u = blocks[m][j]
      BY <3>1
    <3>3. m \in 1..N /\ m < k
      BY <2>5
    <3>4. blocks[m][j].id < blocks[k][i].id
      <4>1. i \in 1..Len(blocks[k])
        BY <2>1
      <4>2. InOrder(blocks)
        BY <1>1
      <4>3. m \in 1..Len(blocks) /\ k \in 1..Len(blocks) /\ m < k
        BY <3>3 DEF N
      <4> HIDE DEF N
      <4> QED BY <4>1, <4>2, <4>3 DEF InOrder
    <3> QED BY <2>1, <3>2, <3>4
  <2>7. Spending(txs) /\ Spending(ThoseOf(block))
    <3>1. txs \subseteq RangeTxs
      <4>1. \A m \in 1..N : \A j \in 1..Len(blocks[m]) : blocks[m][j] \in RangeTxs
        BY <1>1
      <4> QED BY <2>4, <2>5, <4>1
    <3>2. ThoseOf(block) \subseteq RangeTxs
      BY <2>2 DEF ThoseOf
    <3> QED BY <1>2, <3>1, <3>2 DEF Spending
  <2>8. WalletBlock(WalletAfter(txs, height), r)
          = WalletAfter(txs \cup HeldTo(block, Len(block)), height + 1)
    <3>1. \A i \in 1..Len(block) : Moved(block[i]) = {} /\ HeightOf(block[i]) = height
      BY <2>2
    <3>2. block \in Block /\ RecordOf(r, block)
      BY <2>1
    <3>3. \A i \in 1..Len(block) : \A u \in txs : u.id < block[i].id
      BY <2>6
    <3>4. Follows(block, txs, height)
      BY <2>3, <2>7, <3>1, <3>3 DEF Follows
    <3> QED BY <3>2, <3>4, WalletBlockIs
  <2>9. ReadTo(blocks, k) = txs \cup HeldTo(block, Len(block))
    <3>1. 1..k = (1..(k - 1)) \cup {k}
      BY <1>1, UpToLast
    <3> QED BY <2>1, <3>1 DEF ReadTo
  <2>10. height + 1 = range[1] + k
    BY <1>1, <2>1
  <2> QED BY <2>1, <2>8, <2>9, <2>10
<1>4. WalletAfter(ReadTo(blocks, 0), range[1] + 0) = NoWallet
  <2>1. ReadTo(blocks, 0) = {} /\ range[1] + 0 = range[1]
    BY DEF ReadTo
  <2>2. Created({}) \ SpentBy({}) = {} /\ Watched({}) = {}
    BY DEF Created, SpentBy, Watched
  <2>3. {<<t.id, HeightOf(t)>> : t \in {}} = {}
    OBVIOUS
  <2>4. WalletAfter({}, range[1]) = WalletOf({}, {}, range[1])
    BY <2>2, <2>3 DEF WalletAfter
  <2> QED BY <2>1, <2>2, <2>4 DEF WalletOf, NoWallet
<1> DEFINE after == CHOOSE f : f = body(f)
<1>5. Wallet = after[N]
  BY <1>1 DEF Wallet
<1> HIDE DEF N, v
<1>6. g = body(g)
  <2>1. ASSUME NEW k \in 0..N
        PROVE  g[k] = IF k = 0 THEN v ELSE WalletBlock(g[k - 1], OnDisk[k])
    <3>1. CASE k = 0
      BY <1>4, <3>1 DEF v
    <3>2. CASE k # 0
      <4>1. k \in 1..N /\ k - 1 \in 0..N
        BY <1>1, <3>2
      <4>2. g[k - 1] = WalletAfter(ReadTo(blocks, k - 1), range[1] + (k - 1))
        BY <4>1
      <4> QED BY <1>3, <3>2, <4>1, <4>2
    <3> QED BY <3>1, <3>2
  <2>2. g = [k \in 0..N |-> g[k]]
    OBVIOUS
  <2> HIDE DEF g
  <2> QED BY <2>1, <2>2
<1>7. after = body(after)
  <2> HIDE DEF g
  <2> QED BY <1>6
<1> HIDE DEF after
<1>8. ASSUME NEW k \in 1..N, after[k - 1] = g[k - 1] PROVE after[k] = g[k]
  <2>1. k \in 0..N /\ k # 0
    BY <1>1
  <2> HIDE DEF g
  <2>2. after[k] = WalletBlock(after[k - 1], OnDisk[k])
    BY <1>7, <2>1
  <2>3. g[k] = WalletBlock(g[k - 1], OnDisk[k])
    BY <1>6, <2>1
  <2> QED BY <1>8, <2>2, <2>3
<1>9. after[N] = g[N] /\ N \in 0..N
  <2>1. N \in 0..N /\ 0 \in 0..N
    BY <1>1
  <2> HIDE DEF g
  <2>2. after[0] = v /\ g[0] = v
    BY <1>6, <1>7, <2>1
  <2>3. after[N] = g[N]
    <3>1. after[0] = g[0]
      BY <2>2
    <3>2. \A q \in 1..N : after[q - 1] = g[q - 1] => after[q] = g[q]
      BY <1>8
    <3>3. N \in Nat
      BY <1>1
    <3> QED BY <3>1, <3>2, <3>3, LoopsAgree
  <2> QED BY <2>1, <2>3
<1>10. g[N] = WalletAfter(ReadTo(blocks, N), range[1] + N)
  BY <1>9
<1> HIDE DEF g
<1> QED BY <1>5, <1>9, <1>10 DEF N

\* A wallet that watches everything has the balance and the history that the
\* transactions the store holds give it, as long as no output has moved: the
\* outputs that were dropped count through the filter, nothing is spent before
\* it is watched, and what is missing is what stripped transactions created or
\* spent.
THEOREM WalletTheorem == Spec => []GapIsWhatWasStripped
<1>1. ASSUME IInv, LedgerInv PROVE GapIsWhatWasStripped
  <2> DEFINE history == {<<t.id, HeightOf(t)>> : t \in Held}
  <2> SUFFICES ASSUME Readied, NothingMoved
               PROVE  Wallet.balance = Created(Held) \ SpentBy(Held) /\ Wallet.history = history
    BY DEF GapIsWhatWasStripped
  <2>1. PICK blocks \in Seq(Block) : Stored(blocks)
    BY <1>1, ReadiedIs
  <2>2. range[1] \in Int
    BY <1>1 DEF IInv, ChainInv, RunInv, UnderWay, Readied
  <2>3. Wallet = WalletAfter(ReadTo(blocks, Len(blocks)), range[1] + Len(blocks))
    BY <2>1, <2>2, WalletLoop
  <2>4. /\ \A k \in 1..Len(blocks) : \A i \in 1..Len(blocks[k]) : blocks[k][i] \in RangeTxs
        /\ \A t \in RangeTxs : \E k \in 1..Len(blocks) : \E i \in 1..Len(blocks[k]) : t = blocks[k][i]
    BY <2>1, PlacesAre
  <2>5. ReadTo(blocks, Len(blocks)) = Held
    <3>1. ASSUME NEW t \in ReadTo(blocks, Len(blocks)) PROVE t \in Held
      <4>1. PICK k \in 1..Len(blocks) : t \in HeldTo(blocks[k], Len(blocks[k]))
        BY DEF ReadTo
      <4>2. PICK i \in 1..Len(blocks[k]) : t = blocks[k][i] /\ Flag(blocks[k][i]) # "stripped"
        BY <4>1 DEF HeldTo
      <4> QED BY <2>4, <4>2 DEF Held
    <3>2. ASSUME NEW t \in Held PROVE t \in ReadTo(blocks, Len(blocks))
      <4>1. t \in RangeTxs /\ Flag(t) # "stripped"
        BY DEF Held
      <4>2. PICK k \in 1..Len(blocks) : \E i \in 1..Len(blocks[k]) : t = blocks[k][i]
        BY <2>4, <4>1
      <4>3. PICK i \in 1..Len(blocks[k]) : t = blocks[k][i]
        BY <4>2
      <4>4. t \in HeldTo(blocks[k], Len(blocks[k]))
        BY <4>1, <4>3 DEF HeldTo
      <4> QED BY <4>4 DEF ReadTo
    <3> QED BY <3>1, <3>2
  <2>6. PICK height, balance, told : /\ height = range[1] + Len(blocks)
                                     /\ balance = Created(Held) \ SpentBy(Held) /\ told = history
    OBVIOUS
  <2>7. WalletAfter(Held, height)
          = [watched |-> Watched(balance), balance |-> balance, history |-> told, height |-> height]
    BY <2>6 DEF WalletAfter, WalletOf
  <2>8. WalletAfter(Held, height).balance = balance /\ WalletAfter(Held, height).history = told
    BY <2>7
  <2> QED BY <2>3, <2>5, <2>6, <2>8
<1> QED BY <1>1, StoreInv, LedgerTheorem, PTL
=============================================================================
