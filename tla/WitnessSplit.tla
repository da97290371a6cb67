---------------------------- MODULE WitnessSplit ----------------------------
(***************************************************************************)
(* witness_split.py: a block is split into its transactions without their *)
(* witnesses, which are what txids are computed of, and the witnesses, and *)
(* put together again.                                                     *)
(*                                                                         *)
(* A block is a sequence of bytes, but a field of fixed width is one       *)
(* element, and so is a byte of a script or of a witness item.             *)
(***************************************************************************)
EXTENDS Integers, Sequences, SequencesExt

\* A varint is one element: what is written again is what was read, because
\* Core writes the shortest encoding and so does write_varint.

\* Cursor.take of one field, and of a varint and so many bytes.
AfterBytes(s, p) == p + 1 + s[p]

\* After n inputs: previous output (hash and number), script, sequence.
AfterInputs(s, p, n) ==
  FoldLeft(LAMBDA q, i : AfterBytes(s, q + 2) + 1, p, [i \in 1 .. n |-> i])

\* After n outputs: value, script.
AfterOutputs(s, p, n) ==
  FoldLeft(LAMBDA q, i : AfterBytes(s, q + 1), p, [i \in 1 .. n |-> i])

\* After the witnesses of n inputs: the items of each.
AfterItems(s, p, n) == FoldLeft(LAMBDA q, i : AfterBytes(s, q), p, [i \in 1 .. n |-> i])
AfterWitnesses(s, p, n) ==
  FoldLeft(LAMBDA q, i : AfterItems(s, q + 1, s[q]), p, [i \in 1 .. n |-> i])

\* From the count of inputs to the end of the outputs.
AfterInOut(s, p) == LET q == AfterInputs(s, p + 1, s[p]) IN AfterOutputs(s, q + 1, s[q])

\* Marker and flag.
SegwitAt(s, p) == p + 1 <= Len(s) /\ s[p] = 0 /\ s[p + 1] = 1

\* Faulty: the witness of the first input only.
SplitTxFirst(raw, at) ==
  LET io == IF SegwitAt(raw, at + 1) THEN at + 3 ELSE at + 1
      end == AfterInOut(raw, io)
      lock == IF SegwitAt(raw, at + 1) THEN AfterWitnesses(raw, end, 1) ELSE end
  IN  [body |-> <<raw[at]>> \o SubSeq(raw, io, end - 1) \o <<raw[lock]>>,
       witness |-> SubSeq(raw, end, lock - 1), next |-> lock + 1]

\* The body and the witness of the transaction at a position.
SplitTx(raw, at) ==
  LET io == IF SegwitAt(raw, at + 1) THEN at + 3 ELSE at + 1
      end == AfterInOut(raw, io)
      lock == IF SegwitAt(raw, at + 1) THEN AfterWitnesses(raw, end, raw[io]) ELSE end
  IN  [body |-> <<raw[at]>> \o SubSeq(raw, io, end - 1) \o <<raw[lock]>>,
       witness |-> SubSeq(raw, end, lock - 1), next |-> lock + 1]

\* split_block: header and count of transactions come first.
SplitBlock(raw) ==
  FoldLeft(LAMBDA s, i :
      LET tx == SplitTx(raw, s.next)
      IN  [next |-> tx.next, body |-> s.body \o tx.body,
           witness |-> s.witness \o <<Len(tx.witness)>> \o tx.witness],
    [next |-> 3, body |-> <<raw[1], raw[2]>>, witness |-> <<raw[2]>>],
    [i \in 1 .. raw[2] |-> i])

\* recombine: marker and flag again where there is a witness; the ValueError if
\* the two parts are not of equally many transactions.
Recombine(body, witness) ==
  IF witness[1] # body[2] THEN "mismatch"
  ELSE FoldLeft(LAMBDA s, i :
      LET end == AfterInOut(body, s.b + 1)
          len == witness[s.w]
          io == SubSeq(body, s.b + 1, end - 1)
      IN  [b |-> end + 1, w |-> s.w + 1 + len,
           out |-> s.out \o <<body[s.b]>>
                     \o (IF len = 0 THEN io
                         ELSE <<0, 1>> \o io \o SubSeq(witness, s.w + 1, s.w + len))
                     \o <<body[end]>>],
    [b |-> 3, w |-> 2, out |-> <<body[1], body[2]>>],
    [i \in 1 .. body[2] |-> i]).out

-----------------------------------------------------------------------------
(* Blocks of the network (external).  A transaction has an input, and an   *)
(* extended one a witness of some input; any item may be empty.             *)

Bytes(s) == <<Len(s)>> \o s
Legacy(tx) ==
  <<Len(tx.ins)>> \o FlattenSeq([i \in DOMAIN tx.ins |-> <<7, 8>> \o Bytes(tx.ins[i]) \o <<9>>])
    \o <<Len(tx.outs)>> \o FlattenSeq([i \in DOMAIN tx.outs |-> <<5>> \o Bytes(tx.outs[i])])
Extended(tx) == \E i \in DOMAIN tx.wits : tx.wits[i] # <<>>
Serialised(tx) ==
  <<2>> \o (IF Extended(tx) THEN <<0, 1>> ELSE <<>>) \o Legacy(tx)
    \o (IF Extended(tx)
        THEN FlattenSeq([i \in DOMAIN tx.wits |->
               <<Len(tx.wits[i])>> \o FlattenSeq([j \in DOMAIN tx.wits[i] |-> Bytes(tx.wits[i][j])])])
        ELSE <<>>) \o <<6>>
RawBlock(txs) == <<80, Len(txs)>> \o FlattenSeq([i \in DOMAIN txs |-> Serialised(txs[i])])

-----------------------------------------------------------------------------
\* "Recombination is byte-perfect across every block tested", and the body is
\* header, count and the legacy serialisation of every transaction, which
\* their txids are computed of.  A body is not put together with the witnesses
\* of a block that lacks its last transaction.
RoundTrips(txs) ==
  LET raw == RawBlock(txs)
      split == SplitBlock(raw)
  IN  /\ Recombine(split.body, split.witness) = raw
      /\ Recombine(split.body, SplitBlock(RawBlock(Front(txs))).witness) = "mismatch"
      /\ split.body = <<80, Len(txs)>> \o
           FlattenSeq([i \in DOMAIN txs |-> <<2>> \o Legacy(txs[i]) \o <<6>>])
=============================================================================
