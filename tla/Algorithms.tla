----------------------------- MODULE Algorithms -----------------------------
(***************************************************************************)
(* The pure parts of the tools over bounded inputs: a behaviour takes one  *)
(* input, and an invariant says of it what the modules say.                *)
(***************************************************************************)
EXTENDS Decisions, FiniteSets

CONSTANTS InscriptionStart, Year, HistSize, P, N, Base, Digit, Timespan, MaxTarget,
  MaxScript  \* opcodes of a script

Generator == <<2, 12>>

E == INSTANCE Envelopes
U == INSTANCE Snapshot
W == INSTANCE WitnessSplit
S == INSTANCE Signatures WITH G <- Generator
T == INSTANCE CompactTarget
A == INSTANCE Addresses WITH Byte <- Base

-----------------------------------------------------------------------------
\* Long scripts of the opcodes that nest, and short ones of all.
Scripts ==
  BoundedSeq({"zero", "num", "data", "if", "notif", "endif"}, MaxScript)
  \cup {Append(ops, last) : ops \in BoundedSeq(E!Opcode, 3), last \in E!Opcode \cup E!Cut}
Script ==
  /\ input = Nothing
  /\ \E script \in Scripts : input' = [of |-> "script", is |-> script]

\* Heights on both sides of the first inscription, at an edge of each band of
\* age, and one too high for the histogram; amounts on both sides of dust.
Coin == [vout : {0, 300}, height : {1, 3, 4, 8, 9}, coinbase : {0, 1},
         amount : {999, 1000}, script : U!Packed \cup U!Other]
Groups(a, b) == {<< <<a, b>> >>, << <<a>>, <<b>> >>, << <<b>> >>}
Dumped ==
  /\ input = Nothing
  /\ \E a \in {c \in Coin : c.vout = 0 /\ c.coinbase = 1 /\ c.script \notin U!Packed},
        b \in {c \in Coin : c.coinbase = 0} :
       \E groups \in Groups(a, b) : input' = [of |-> "snapshot", is |-> groups]

Number ==
  /\ input = Nothing
  /\ \E n \in 0 .. 2000 \cup {m * 10 ^ e + d : m \in {1, 9, 21}, e \in 3 .. 6, d \in {0, 1}}
         \cup {127 + 128 * k : k \in 1 .. 200} \cup {16511, 16512, 2113663, 2113664} :
       input' = [of |-> "number", is |-> n]

Item == {<<>>, <<4>>, <<0, 1>>}
Transactions ==
  {[ins |-> <<s>>, outs |-> o, wits |-> <<w>>] :
     s \in Item, o \in {<< <<>> >>, << <<3>>, <<0, 1>> >>}, w \in BoundedSeq(Item, 2)}
  \cup {[ins |-> << <<>>, <<1>> >>, outs |-> << <<0>> >>, wits |-> <<v, w>>] :
     v, w \in {<<>>, << <<>> >>, << <<4>>, <<0, 1>> >>}}
Block ==
  /\ input = Nothing
  /\ \E txs \in {<<a, b>> : a, b \in Transactions} : input' = [of |-> "block", is |-> txs]

Spend ==
  /\ input = Nothing
  /\ \E keys \in BoundedSeq(1 .. 3, 3), required \in 0 .. 3 :
     LET script == [keys |-> keys, required |-> required]
         tx(sigs) == [ins |-> <<[prev |-> 1, script |-> sigs], [prev |-> 2, script |-> None]>>,
                      outs |-> 1, hashtype |-> None]
         signed(k, type, over) ==
           [by |-> k, hashtype |-> type, over |-> S!LegacySighash(tx(<<>>), 1, over, type)]
     IN \E sigs \in BoundedSeq({signed(k, "all", script) : k \in 1 .. 3}
              \cup {signed(1, "none", script), signed(1, "all", [script EXCEPT !.required = @ + 1])}, 3) :
          input' = [of |-> "spend", is |-> [tx |-> tx(sigs), script |-> script]]

Points == {pt \in (0 .. P - 1) \X (0 .. P - 1) : S!OnCurve(pt[1], pt[2])} \cup {None}
Point ==
  /\ input = Nothing
  /\ \E a, b \in Points, c \in {None, Generator, S!PointMul(2, Generator)} :
       input' = [of |-> "points", is |-> <<a, b, c>>]

Signature ==
  /\ input = Nothing
  /\ \E secret \in {1, 2, N - 1}, z \in {0, 5, N + 4}, r \in 0 .. N, s \in 0 .. N :
       input' = [of |-> "signature", is |-> <<secret, z, r, s>>]

Target ==
  /\ input = Nothing
  /\ \E target \in 1 .. MaxTarget : input' = [of |-> "target", is |-> target]

\* Programs of a few bytes, and of the lengths version 0 has.
Programs ==
  {[i \in 1 .. n |-> (i * k) % 256] : n \in {2, 3, 5}, k \in {0, 1, 255}}
  \cup {[i \in 1 .. n |-> 255 - 7 * i] : n \in {20, 32}}
Segwit ==
  /\ input = Nothing
  /\ \E hrp \in {<<98, 99>>, <<116, 98>>}, version \in {0, 1, 16}, program \in Programs,
        extra \in {<<>>, <<0>>, <<1>>, <<16>>}, const \in {"bech32", "bech32m"} :
       input' = [of |-> "segwit", is |-> <<hrp, version, program, extra, const>>]

Typo ==
  /\ input = Nothing
  /\ \E version \in {0, 1}, n \in {2, 20}, at \in 0 .. 38, as \in {-1, 0, 31} :
       input' = [of |-> "typo", is |-> <<version, [i \in 1 .. n |-> i], at, as>>]

Legacy ==
  /\ input = Nothing
  /\ \E kind \in {"p2pkh", "p2sh"}, program \in BoundedSeq(0 .. Base - 1, 2) :
       input' = [of |-> "legacy", is |-> <<kind, program>>]

Init == input = Nothing
Next ==
  \/ Script \/ Output \/ Dumped \/ Number \/ Block \/ Spend \/ Point \/ Signature
  \/ Target \/ Segwit \/ Typo \/ Legacy \/ Race
Spec == Init /\ [][Next]_input

-----------------------------------------------------------------------------
\* Of every script that Script would run, a walk counts the pushes that are
\* never executed because of a literal in front of their branch, and no other;
\* of any script, the measuring tools count no more than the store strips.
\* (envelope_payload of three tools and find_envelopes)
EnvelopesAreDead ==
  Is("script") => E!TakesWhatIsDead(input.is) /\ E!NoneTakesMoreThanStore(input.is)

\* Both snapshot readers find every coin that was written, in two encodings of
\* integers that differ in what they accept; of what was read, each coin is in
\* one band of age, the two files hold the value of all coins, and the readers
\* count the same dust.  (varint, compact_size, read_script,
\* decompress_amount, scan, age_bands of chainstate_filter.py and utxo_scan.py)
SnapshotIsExact ==
  /\ Is("snapshot") => U!ReadersAreExact(input.is)
  /\ Is("number") =>
       /\ U!Varint(U!WriteVarint(input.is), 1).value = input.is
       /\ U!DecompressAmount(U!CompressAmount(input.is)) = input.is

\* Splitting a block off its witnesses and putting it together again changes
\* no byte, and what is left is what txids are computed of.  (split_block,
\* recombine)
BlocksRoundTrip == Is("block") => W!RoundTrips(input.is)

\* A spend of a bare multisig output is called verified if and only if Script
\* accepts it, a signature if and only if the point it commits to is the one it
\* names, and adding points is a group, doubling, opposites and the point at
\* infinity included.  (verify_bare_multisig, ecdsa_verify, point_add, point_mul,
\* decompress)
SignaturesAreExact ==
  /\ Is("spend") => S!JudgesLikeScript(input.is.tx, input.is.script)
  /\ Is("points") => S!IsGroup(input.is[1], input.is[2], input.is[3])
  /\ Is("signature") =>
       S!VerifiesExactly(input.is[1], input.is[2], input.is[3], input.is[4])

\* A target survives its compact form, less what does not fit the mantissa, and
\* the compact form of a target is its own compact form; an address gives the
\* script it was made for, has no second spelling, and is refused with any one
\* character changed.  (bits_to_target, target_to_bits, address_to_script)
EncodingsAreExact ==
  /\ Is("target") => T!CompactIsExact(input.is)
  /\ Is("segwit") =>
       A!OnlyAddressOf(input.is[1], input.is[2], input.is[3], input.is[4], input.is[5])
  /\ Is("typo") => A!TypoIsRefused(input.is[1], input.is[2], input.is[3], input.is[4])
  /\ Is("legacy") => A!LegacyIsExact(input.is[1], input.is[2])

=============================================================================
