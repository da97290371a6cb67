---------------------------- MODULE CarrierPolicy ---------------------------
(***************************************************************************)
(* carrier_policy.py: which OP_RETURN outputs are kept.  An entry of the   *)
(* registry parses the payload as an envelope and keeps it only if its     *)
(* length is the one its declared counts imply; anything else is kept if   *)
(* it is small.                                                            *)
(*                                                                         *)
(* A script is [opens, items, end]: whether it begins with OP_RETURN, its  *)
(* pushes, and how it ends ("whole"; "cut", in a push; "opcode", with one  *)
(* that is no push).  What the pushes hold together is told as far as      *)
(* match looks: magic, version, type and the two counts.                   *)
(***************************************************************************)
EXTENDS Integers, Sequences

CONSTANT None

Limit == 83          \* OP_RETURN_LIMIT
MaxArity == 16       \* MAX_ARITY

Form == {"direct", "pushdata1", "pushdata2", "pushdata4"}

\* The forms that can push n bytes.
FormsFor(n) ==
  {form \in Form : \/ (form = "direct" /\ n < 76)
                   \/ (form = "pushdata1" /\ n < 256)
                   \/ (form = "pushdata2" /\ n < 65536)
                   \/ form = "pushdata4"}

\* A count as it is encoded: its value, in so many bytes.
CompactSizeLen(n) == IF n < 253 THEN 1 ELSE IF n <= 65535 THEN 3 ELSE 5

\* Faulty: a longer encoding is read as well.
ReadAnyCompactSize(count, off, length) ==
  IF off + count.width > length THEN None ELSE count.value

\* read_compactsize, with the offset and the length of the payload.
ReadCompactSize(count, off, length) ==
  IF off + count.width > length \/ count.width # CompactSizeLen(count.value) THEN None
  ELSE count.value

-----------------------------------------------------------------------------
(* ShieldedBitcoinV1 *)

Header == 6 + 4   \* HEADER and HANCHOR

ExpectedLen(in, out) ==
  Header + CompactSizeLen(in) + CompactSizeLen(out) + in * 32 + out * (32 + 67) + 16 + out * 64 + 192

\* match: nothing if the payload is not of this protocol, else a verdict.
Match(content, length, strict) ==
  LET in  == ReadCompactSize(content.in, Header, length)
      out == ReadCompactSize(content.out, Header + content.in.width, length)
  IN  IF ~content.magic \/ length < 4 THEN None
      ELSE /\ strict
           /\ length >= Header + 2
           /\ content.version = 1 /\ content.type = 1
           /\ in # None /\ out # None
           /\ in \in 1 .. MaxArity /\ out \in 1 .. MaxArity
           /\ length = ExpectedLen(in, out)
           /\ length <= 100000

-----------------------------------------------------------------------------
(* Scripts *)

Minimal(item) ==
  /\ item.form = "pushdata1" => item.len >= 76
  /\ item.form = "pushdata2" => item.len > 255
  /\ item.form = "pushdata4" => item.len > 65535

\* op_return_pushes, and op_return_payload, which give nothing for the same
\* scripts.
Readable(script) == script.opens /\ script.end = "whole"

Total(sizes) ==
  LET sum[n \in 0 .. Len(sizes)] == IF n = 0 THEN 0 ELSE sum[n - 1] + sizes[n]
  IN  sum[Len(sizes)]
PayloadLen(script) == Total([i \in DOMAIN script.items |-> script.items[i].len])

\* The bytes of the whole script; what is left of a cut push is not counted.
ItemLen(item) ==
  item.len + (CASE item.form = "direct" -> 1 [] item.form = "pushdata1" -> 2
                [] item.form = "pushdata2" -> 3 [] item.form = "pushdata4" -> 5)
ScriptLen(script) ==
  1 + Total([i \in DOMAIN script.items |-> ItemLen(script.items[i])])
    + (IF script.end = "whole" THEN 0 ELSE 1)

\* classify: the first entry that knows the payload, or its size.
Classify(entries, content, length, strict) ==
  LET verdict == IF entries = {} THEN None ELSE Match(content, length, strict)
  IN  IF verdict # None
      THEN [retain |-> verdict, by |-> "entry"]
      ELSE [retain |-> length <= Limit, by |-> "size"]

\* should_retain.
ShouldRetain(entries, script) ==
  IF ~Readable(script) THEN [retain |-> TRUE, by |-> "not read"]
  ELSE Classify(entries, script.content, PayloadLen(script),
                Len(script.items) = 1 /\ Minimal(script.items[1]))

\* encode_op_return, of n bytes.
EncodeOpReturn(n, content) ==
  [opens |-> TRUE, end |-> "whole", content |-> content,
   items |-> << [len |-> n, form |-> IF n < 76 THEN "direct"
                                     ELSE IF n <= 255 THEN "pushdata1" ELSE "pushdata2"] >>]

\* The rule before: classify_output of the stripper, for a script that begins
\* with OP_RETURN.
StripperKeeps(script) == ~script.opens \/ ScriptLen(script) <= Limit

Entries == {"shielded-bitcoin-v1"}

-----------------------------------------------------------------------------
\* "A rigid format leaves nowhere to hide a payload": what an entry keeps over
\* the limit is, to the byte, the one script that encode_op_return makes of the
\* one envelope of those counts, each in its one encoding.
KeepsCanonicalOnly(script) ==
  LET verdict == ShouldRetain(Entries, script)
  IN  verdict.by = "entry" /\ verdict.retain =>
        \E in, out \in 1 .. MaxArity :
           script = EncodeOpReturn(220 + 32 * in + 163 * out,
                      [magic |-> TRUE, version |-> 1, type |-> 1,
                       in |-> [value |-> in, width |-> 1], out |-> [value |-> out, width |-> 1]])

\* With no entries, nothing is dropped that the stripper keeps.  (More is kept:
\* a policy measures the data, the stripper the script that pushes them.)
DropsNoMore(script) == StripperKeeps(script) => ShouldRetain({}, script).retain
=============================================================================
