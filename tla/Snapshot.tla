------------------------------ MODULE Snapshot ------------------------------
(***************************************************************************)
(* chainstate_filter.py and utxo_scan.py: two readers of the file that     *)
(* dumptxoutset writes.  It holds the coins of one transaction after the   *)
(* other, in two encodings of integers.  Both readers count the coins by   *)
(* what they are; the first one splits them into two files and tells their *)
(* ages.                                                                   *)
(*                                                                         *)
(* The file is a sequence of bytes, in which bytes that are read in one    *)
(* piece are one element [raw, size].                                      *)
(***************************************************************************)
EXTENDS Integers, Sequences, FiniteSets, SequencesExt, FiniteSetsExt

CONSTANTS
  InscriptionStart,  \* INSCRIPTION_START
  Year,              \* BLOCKS_PER_YEAR, an even number
  HistSize           \* HIST_SIZE

Dust == 1000         \* DUST_THRESHOLD

-----------------------------------------------------------------------------
(* Integers *)

\* Core's WriteVarInt (external): base 128, every byte but the last marked,
\* and one is taken off at each carry, so that no number has two encodings.
WriteVarint(n) ==
  LET w[m \in Nat] ==
        IF m < 128 THEN <<m>>
        ELSE LET high == w[(m \div 128) - 1]
             IN  [i \in DOMAIN high |-> 128 + (high[i] % 128)] \o << m % 128 >>
  IN  w[n]

\* Faulty: no one is added at a carry.
VarintNoCarry(s, p) ==
  LET from[q \in Nat, n \in Nat] ==
        IF s[q] < 128 THEN [value |-> 128 * n + s[q], next |-> q + 1]
        ELSE from[q + 1, 128 * n + (s[q] % 128)]
  IN  from[p, 0]

\* Stream.varint: the number that begins at p, and where it ends.
Varint(s, p) ==
  LET from[q \in Nat, n \in Nat] ==
        IF s[q] < 128 THEN [value |-> 128 * n + s[q], next |-> q + 1]
        ELSE from[q + 1, 128 * n + (s[q] % 128) + 1]
  IN  from[p, 0]

WriteCompactSize(n) ==
  IF n < 253 THEN <<n>> ELSE <<253, n % 256, n \div 256>>

\* Stream.compact_size, of numbers below 2^16.
CompactSize(s, p) ==
  IF s[p] < 253 THEN [value |-> s[p], next |-> p + 1]
  ELSE [value |-> s[p + 1] + 256 * s[p + 2], next |-> p + 3]

\* compress_amount, which is Core's: a digit, the number of zeros, up to 9, and
\* the rest.
CompressAmount(a) ==
  LET zeros == Max({e \in 0 .. 9 : a % (10 ^ e) = 0})
      n == a \div (10 ^ zeros)
  IN  IF a = 0 THEN 0
      ELSE IF zeros < 9 THEN 1 + ((n \div 10) * 9 + (n % 10) - 1) * 10 + zeros
      ELSE 1 + (n - 1) * 10 + 9

DecompressAmount(x) ==
  LET e == (x - 1) % 10
      y == (x - 1) \div 10
      n == IF e < 9 THEN (y \div 9) * 10 + (y % 9) + 1 ELSE y + 1
  IN  IF x = 0 THEN 0 ELSE n * (10 ^ e)

-----------------------------------------------------------------------------
(* Coins.  A script is told by its kind: those Core compresses to 20 or 32  *)
(* bytes, and others by what classify looks at.                             *)

Packed == {"p2pkh", "p2sh", "p2pk", "p2pk long"}
Other == {"p2tr", "p2wpkh", "multisig", "stamp", "op_return"}
RawSize == [p2tr |-> 34, p2wpkh |-> 22, multisig |-> 71, stamp |-> 105, op_return |-> 40]

\* Core's ScriptCompression (external).
WriteScript(kind) ==
  CASE kind = "p2pkh"     -> WriteVarint(0) \o << [raw |-> kind, size |-> 20] >>
    [] kind = "p2sh"      -> WriteVarint(1) \o << [raw |-> kind, size |-> 20] >>
    [] kind = "p2pk"      -> WriteVarint(3) \o << [raw |-> kind, size |-> 32] >>
    [] kind = "p2pk long" -> WriteVarint(4) \o << [raw |-> kind, size |-> 32] >>
    [] kind \in Other     -> WriteVarint(RawSize[kind] + 6) \o << [raw |-> kind, size |-> RawSize[kind]] >>

\* read_script of either reader: the script, and its length.  utxo_scan knows
\* that an uncompressed key is longer; no read that does not fit is made.
ReadScript(s, p, long) ==
  LET n == Varint(s, p)
      piece == s[n.next]
      size == IF n.value \in 0 .. 1 THEN 20 ELSE IF n.value \in 2 .. 5 THEN 32 ELSE n.value - 6
      len == CASE n.value = 0 -> 25 [] n.value = 1 -> 23 [] n.value \in 2 .. 3 -> 35
               [] n.value \in 4 .. 5 -> (IF long THEN 67 ELSE 35) [] OTHER -> n.value - 6
  IN  [kind |-> IF piece.size = size THEN piece.raw ELSE "desync", len |-> len, next |-> n.next + 1]

WriteCoin(coin) ==
  WriteCompactSize(coin.vout) \o WriteVarint(2 * coin.height + coin.coinbase)
    \o WriteVarint(CompressAmount(coin.amount)) \o WriteScript(coin.script)

\* dumptxoutset (external): the coins of each transaction.
Dump(groups) ==
  FlattenSeq([g \in DOMAIN groups |->
    << [raw |-> "txid", size |-> 32] >> \o WriteCompactSize(Len(groups[g]))
      \o FlattenSeq([i \in DOMAIN groups[g] |-> WriteCoin(groups[g][i])])])

ReadCoin(s, p, long) ==
  LET vout == CompactSize(s, p)
      code == Varint(s, vout.next)
      amount == Varint(s, code.next)
      script == ReadScript(s, amount.next, long)
  IN  [vout |-> vout.value, height |-> code.value \div 2, amount |-> DecompressAmount(amount.value),
       script |-> script.kind, len |-> script.len, next |-> script.next]

\* The loops of scan: outputs of a transaction, until count were seen.
Coins(s, count, long) ==
  LET outputs[k \in Nat, p \in Nat] ==
        IF k = 0 THEN [coins |-> <<>>, next |-> p]
        ELSE LET coin == ReadCoin(s, p, long)
                 rest == outputs[k - 1, coin.next]
             IN  [coins |-> <<coin>> \o rest.coins, next |-> rest.next]
      from[seen \in Nat, p \in Nat] ==
        IF seen >= count THEN <<>>
        ELSE LET n == CompactSize(s, p + 1)
                 group == outputs[n.value, n.next]
             IN  group.coins \o from[seen + n.value, group.next]
  IN  from[0, 1]

-----------------------------------------------------------------------------
(* What the readers make of them. *)

\* classify.
Classify(coin) ==
  CASE coin.script = "op_return" -> "op_return"
    [] coin.script = "stamp" -> "multisig_data"
    [] /\ coin.script = "p2tr"
       /\ coin.amount < Dust /\ coin.height >= InscriptionStart -> "dust"
    [] OTHER -> "monetary"

\* The files --write makes.
Hot(coins) == SelectSeq(coins, LAMBDA c : Classify(c) = "monetary")
Cold(coins) == SelectSeq(coins, LAMBDA c : Classify(c) # "monetary")

\* hist, of the coins of a kind at a height, and max_height.
Hist(coins, kind, height) ==
  Cardinality({i \in DOMAIN coins : Classify(coins[i]) = kind /\ coins[i].height = height})
MaxHeight(coins) ==
  Max({0} \cup {coins[i].height : i \in {j \in DOMAIN coins :
        Classify(coins[j]) \in {"monetary", "dust"} /\ coins[j].height < HistSize}})

\* AGE_BANDS: the least age of each, the oldest first.
AgeBands == <<2 * Year, Year, Year \div 2, 0>>

\* The coins that old, by a loop over heights.
AtLeast(coins, kind, tip, age) ==
  MapThenSumSet(LAMBDA h : Hist(coins, kind, h), {h \in 0 .. HistSize - 1 : h < tip - age + 1})

\* age_bands: each, less the one before.
Band(coins, kind, tip, i) ==
  AtLeast(coins, kind, tip, AgeBands[i]) - (IF i = 1 THEN 0 ELSE AtLeast(coins, kind, tip, AgeBands[i - 1]))

\* scan of utxo_scan.py: the P2TR outputs below dust of the inscription era.
InscriptionAssociated(coins) ==
  {i \in DOMAIN coins : /\ coins[i].script = "p2tr" /\ coins[i].amount < Dust
                        /\ coins[i].height >= InscriptionStart}

-----------------------------------------------------------------------------
\* "Mixing them desyncs the parser immediately with no error": a reader found
\* every coin that was written, in order, with its amount, height and script,
\* and no other.
ReadsEveryCoin(written, read) ==
  /\ Len(read) = Len(written)
  /\ \A i \in DOMAIN read :
       \A field \in {"vout", "height", "amount", "script"} : read[i][field] = written[i][field]

\* Of coins as chainstate_filter reads them: the number in each age band is that
\* of the coins of that age that were written, none in two and none left out;
\* and the two files hold the value of all coins.
SplitsExactly(written, coins) ==
  LET tip == MaxHeight(coins)
      age(c) == tip - c.height
      inBand(c, i) == age(c) >= AgeBands[i] /\ (i = 1 \/ age(c) < AgeBands[i - 1])
      value(cs) == MapThenSumSet(LAMBDA j : cs[j].amount, DOMAIN cs)
  IN  /\ \A kind \in {"monetary", "dust"} : \A i \in DOMAIN AgeBands :
           Band(coins, kind, tip, i) =
             Cardinality({j \in DOMAIN written : /\ Classify(written[j]) = kind
                                                 /\ written[j].height < HistSize
                                                 /\ inBand(written[j], i)})
      /\ value(Hot(coins)) + value(Cold(coins)) = value(written)

\* utxo_scan counts as many inscription outputs as there is dust in the cold
\* file of the other tool.
CountsAgree(coins, others) ==
  Cardinality(InscriptionAssociated(others)) =
    Cardinality({i \in DOMAIN Cold(coins) : Classify(Cold(coins)[i]) = "dust"})

\* All of it, of what the two tools read from the same bytes.
ReadersAreExact(groups) ==
  LET written == FlattenSeq(groups)
      s == Dump(groups)
  IN  \A coins \in {Coins(s, Len(written), FALSE)}, others \in {Coins(s, Len(written), TRUE)} :
        /\ ReadsEveryCoin(written, coins) /\ ReadsEveryCoin(written, others)
        /\ SplitsExactly(written, coins) /\ CountsAgree(coins, others)
=============================================================================
