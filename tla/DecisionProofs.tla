--------------------------- MODULE DecisionProofs ----------------------------
(***************************************************************************)
(* The two decisions: what an entry of the carrier registry keeps, for     *)
(* every script, and which tips a patched node has, for every race of two  *)
(* branches of any length, with any scores and any restarts among them.    *)
(***************************************************************************)
EXTENDS Decisions, DataLemmas

-----------------------------------------------------------------------------
(* The carrier registry. *)

AnyCounts == [value : Nat, width : Nat]
AnyContents == [magic : BOOLEAN, version : Nat, type : Nat, in : AnyCounts, out : AnyCounts]
AnyItems == {item \in [len : Nat, form : C!Form] : item.form \in C!FormsFor(item.len)}
AnyScripts == [opens : BOOLEAN, items : Seq(AnyItems), end : {"whole", "cut", "opcode"},
            content : AnyContents]

\* The envelope of so many inputs and outputs, each count in its one encoding.
Envelope(in, out) ==
  [magic |-> TRUE, version |-> 1, type |-> 1,
   in |-> [value |-> in, width |-> 1], out |-> [value |-> out, width |-> 1]]

\* Sizes are added from the first to the last.
LEMMA TotalIs ==
  ASSUME NEW sizes \in Seq(Nat)
  PROVE  \E sum \in [0..Len(sizes) -> Nat] :
           /\ sum[0] = 0 /\ \A n \in 1..Len(sizes) : sum[n] = sum[n - 1] + sizes[n]
           /\ C!Total(sizes) = sum[Len(sizes)]
<1> DEFINE N == Len(sizes)
           step == [x \in (1..N) \X Nat |-> x[2] + sizes[x[1]]]
           body(u) == [n \in 0..N |-> IF n = 0 THEN 0 ELSE u[n - 1] + sizes[n]]
           sum == CHOOSE u : u = body(u)
<1>1. C!Total(sizes) = sum[N]
  BY DEF C!Total
<1>2. N \in Nat /\ \A n \in 1..N : sizes[n] \in Nat
  OBVIOUS
<1> HIDE DEF N
<1>3. step \in [(1..N) \X Nat -> Nat] /\ \A n \in 1..N, y \in Nat : step[<<n, y>>] = y + sizes[n]
  <2>1. \A x \in (1..N) \X Nat : x[2] + sizes[x[1]] \in Nat
    BY <1>2
  <2>2. step \in [(1..N) \X Nat -> Nat]
    BY <2>1
  <2>3. \A n \in 1..N, y \in Nat : step[<<n, y>>] = y + sizes[n]
    OBVIOUS
  <2> QED BY <2>2, <2>3
<1> HIDE DEF step
<1>4. PICK f \in [0..N -> Nat] : Repeats(f, 0, step, N)
  BY <1>2, <1>3, LoopExists
<1>5. f[0] = 0 /\ \A n \in 1..N : f[n] = f[n - 1] + sizes[n]
  <2>1. \A n \in 1..N : n - 1 \in 0..N
    BY <1>2
  <2> QED BY <1>3, <1>4, <2>1 DEF Repeats
<1>6. f = body(f)
  <2>1. \A n \in 0..N : n = 0 \/ n \in 1..N
    BY <1>2
  <2>2. \A n \in 0..N : f[n] = IF n = 0 THEN 0 ELSE f[n - 1] + sizes[n]
    BY <1>5, <2>1
  <2> QED BY <2>2
<1>7. sum = body(sum)
  <2> HIDE DEF body
  <2> QED BY <1>6
<1> HIDE DEF sum
<1>8. sum[0] = 0 /\ \A n \in 1..N : sum[n] = sum[n - 1] + sizes[n]
  <2>1. 0 \in 0..N /\ \A n \in 1..N : n \in 0..N /\ n # 0
    BY <1>2
  <2> QED BY <1>7, <2>1
<1>9. sum[N] = f[N]
  <2>1. \A k \in 1..N : sum[k - 1] = f[k - 1] => sum[k] = f[k]
    BY <1>5, <1>8
  <2>2. sum[0] = f[0] /\ N \in Nat
    BY <1>2, <1>5, <1>8
  <2> HIDE DEF body
  <2> QED BY <2>1, <2>2, LoopsAgree
<1> QED BY <1>1, <1>5, <1>9 DEF N

\* The total of sizes none of which is greater is not greater.
LEMMA TotalGrows ==
  ASSUME NEW a \in Seq(Nat), NEW b \in Seq(Nat), Len(a) = Len(b),
         \A n \in 1..Len(a) : a[n] <= b[n]
  PROVE  C!Total(a) \in Nat /\ C!Total(b) \in Nat /\ C!Total(a) <= C!Total(b)
<1> DEFINE N == Len(a)
<1>1. PICK f \in [0..N -> Nat] : /\ f[0] = 0 /\ \A n \in 1..N : f[n] = f[n - 1] + a[n]
                                 /\ C!Total(a) = f[N]
  BY TotalIs
<1>2. PICK g \in [0..N -> Nat] : /\ g[0] = 0 /\ \A n \in 1..N : g[n] = g[n - 1] + b[n]
                                 /\ C!Total(b) = g[N]
  BY TotalIs
<1>3. N \in Nat /\ \A n \in 1..N : a[n] \in Nat /\ b[n] \in Nat /\ a[n] <= b[n]
  OBVIOUS
<1> HIDE DEF N
<1> DEFINE S == {n \in Nat : n <= N => f[n] <= g[n]}
<1>4. 0 \in S
  BY <1>1, <1>2
<1>5. ASSUME NEW n \in S PROVE n + 1 \in S
  <2> SUFFICES ASSUME n + 1 <= N PROVE f[n + 1] <= g[n + 1]
    OBVIOUS
  <2>1. n + 1 \in 1..N /\ (n + 1) - 1 = n /\ n \in 0..N /\ n <= N
    BY <1>3
  <2>2. f[n + 1] = f[n] + a[n + 1] /\ g[n + 1] = g[n] + b[n + 1] /\ f[n] <= g[n]
    BY <1>1, <1>2, <2>1
  <2>3. f[n] \in Nat /\ g[n] \in Nat /\ a[n + 1] \in Nat /\ b[n + 1] \in Nat /\ a[n + 1] <= b[n + 1]
    BY <1>3, <2>1
  <2> QED BY <2>2, <2>3
<1>6. \A n \in Nat : n \in S
  <2>1. S \subseteq Nat
    OBVIOUS
  <2> HIDE DEF S
  <2> QED BY <1>4, <1>5, <2>1, SetInduction
<1>7. f[N] <= g[N] /\ f[N] \in Nat /\ g[N] \in Nat
  BY <1>3, <1>6
<1> QED BY <1>1, <1>2, <1>7

\* The payload of a script of one push is that push.
LEMMA PayloadOfOnePush ==
  ASSUME NEW script \in AnyScripts, Len(script.items) = 1
  PROVE  C!PayloadLen(script) = script.items[1].len
<1> DEFINE items == script.items
           sizes == [i \in DOMAIN items |-> items[i].len]
<1>1. items \in Seq(AnyItems) /\ DOMAIN items = 1..1 /\ items[1].len \in Nat
  BY DEF AnyScripts, AnyItems
<1>2. sizes \in [1..1 -> Nat] /\ sizes[1] = items[1].len
  BY <1>1
<1>3. sizes \in Seq(Nat) /\ Len(sizes) = 1
  <2> HIDE DEF sizes
  <2> QED BY <1>2
<1>4. C!PayloadLen(script) = C!Total(sizes)
  BY DEF C!PayloadLen
<1> HIDE DEF sizes
<1>5. PICK sum \in [0..Len(sizes) -> Nat] :
        /\ sum[0] = 0 /\ \A n \in 1..Len(sizes) : sum[n] = sum[n - 1] + sizes[n]
        /\ C!Total(sizes) = sum[Len(sizes)]
  BY <1>3, TotalIs
<1>6. sum[1] = sum[1 - 1] + sizes[1]
  BY <1>3, <1>5
<1> QED BY <1>1, <1>2, <1>3, <1>4, <1>5, <1>6

\* A policy without entries keeps what the stripper keeps: the data pushed are
\* shorter than the script that pushes them.
LEMMA NothingMoreIsDropped ==
  ASSUME NEW script \in AnyScripts
  PROVE  C!DropsNoMore(script)
<1> SUFFICES ASSUME C!StripperKeeps(script), C!Readable(script)
             PROVE  C!ShouldRetain({}, script).retain
  BY DEF C!DropsNoMore, C!ShouldRetain
<1> DEFINE items == script.items
           lens == [i \in DOMAIN items |-> items[i].len]
           all == [i \in DOMAIN items |-> C!ItemLen(items[i])]
           N == Len(items)
<1>1. items \in Seq(AnyItems) /\ DOMAIN items = 1..N /\ N \in Nat /\ \A i \in 1..N : items[i] \in AnyItems
  BY DEF AnyScripts
<1>2. \A item \in AnyItems : item.len \in Nat /\ C!ItemLen(item) \in Nat /\ item.len <= C!ItemLen(item)
  BY DEF AnyItems, C!ItemLen, C!Form
<1> HIDE DEF N, items
<1>3. /\ lens \in [1..N -> Nat] /\ all \in [1..N -> Nat]
      /\ \A i \in 1..N : lens[i] <= all[i]
  BY <1>1, <1>2
<1> HIDE DEF lens, all
<1>4. lens \in Seq(Nat) /\ all \in Seq(Nat) /\ Len(lens) = N /\ Len(all) = N
  BY <1>1, <1>3
<1>5. C!Total(lens) \in Nat /\ C!Total(all) \in Nat /\ C!Total(lens) <= C!Total(all)
  BY <1>3, <1>4, TotalGrows
<1>6. C!PayloadLen(script) = C!Total(lens) /\ 1 + C!Total(all) <= C!Limit
  <2>1. C!ScriptLen(script) = 1 + C!Total(all) + (IF script.end = "whole" THEN 0 ELSE 1)
    BY DEF C!ScriptLen, all, items
  <2>2. script.opens /\ script.end = "whole"
    BY DEF C!Readable
  <2>3. C!ScriptLen(script) <= C!Limit
    BY <2>2 DEF C!StripperKeeps
  <2>4. 1 + C!Total(all) <= C!Limit
    BY <1>5, <2>1, <2>2, <2>3
  <2> QED BY <2>4 DEF C!PayloadLen, lens, items
<1>7. C!PayloadLen(script) <= C!Limit
  BY <1>5, <1>6 DEF C!Limit
<1> DEFINE strict == Len(script.items) = 1 /\ C!Minimal(script.items[1])
<1>8. C!ShouldRetain({}, script) = C!Classify({}, script.content, C!PayloadLen(script), strict)
  BY DEF C!ShouldRetain
<1> HIDE DEF strict
<1>9. \A content, n : C!Classify({}, content, n, strict) = [retain |-> n <= C!Limit, by |-> "size"]
  BY DEF C!Classify
<1>10. C!PayloadLen(script) <= C!Limit <=> TRUE
  BY <1>7
<1>11. C!Classify({}, script.content, C!PayloadLen(script), strict) = [retain |-> TRUE, by |-> "size"]
  <2> DEFINE small == C!PayloadLen(script) <= C!Limit
  <2>1. small = TRUE
    BY <1>10
  <2>2. C!Classify({}, script.content, C!PayloadLen(script), strict) = [retain |-> small, by |-> "size"]
    BY <1>9
  <2> HIDE DEF small
  <2> QED BY <2>1, <2>2
<1> QED BY <1>8, <1>11

\* A verdict is "not of this protocol", no, or yes, and yes only to one push in
\* its shortest form.
LEMMA Verdicts ==
  ASSUME NEW content, NEW length, NEW strict \in BOOLEAN,
         C!Match(content, length, strict) # None
  PROVE  /\ C!Match(content, length, strict) \in BOOLEAN
         /\ C!Match(content, length, strict) =>
              /\ content.magic /\ strict
              /\ content.version = 1 /\ content.type = 1
              /\ C!ReadCompactSize(content.in, C!Header, length) \in (1 .. C!MaxArity) \ {None}
              /\ C!ReadCompactSize(content.out, C!Header + content.in.width, length)
                   \in (1 .. C!MaxArity) \ {None}
              /\ length = C!ExpectedLen(C!ReadCompactSize(content.in, C!Header, length),
                    C!ReadCompactSize(content.out, C!Header + content.in.width, length))
<1> DEFINE in  == C!ReadCompactSize(content.in, C!Header, length)
           out == C!ReadCompactSize(content.out, C!Header + content.in.width, length)
           other == ~content.magic \/ length < 4
           body == /\ strict
                   /\ length >= C!Header + 2
                   /\ content.version = 1 /\ content.type = 1
                   /\ in # None /\ out # None
                   /\ in \in 1 .. C!MaxArity /\ out \in 1 .. C!MaxArity
                   /\ length = C!ExpectedLen(in, out)
                   /\ length <= 100000
<1>1. C!Match(content, length, strict) = IF other THEN None ELSE body
  BY DEF C!Match
<1>2. body \in BOOLEAN
  OBVIOUS
<1>3. ~other /\ C!Match(content, length, strict) = body
  <2> HIDE DEF other, body
  <2> QED BY <1>1
<1>4. content.magic
  BY <1>3
<1>5. C!Match(content, length, strict) \in BOOLEAN
  <2> HIDE DEF other, body
  <2> QED BY <1>2, <1>3
<1>6. ASSUME C!Match(content, length, strict)
      PROVE  body
  <2> HIDE DEF other, body
  <2> QED BY <1>2, <1>3, <1>6
<1>7. C!Match(content, length, strict) => content.magic /\ body
  BY <1>4, <1>6
<1> QED BY <1>5, <1>7

\* A count that is read has the value and the width that it is written with.
LEMMA CountsAreCanonical ==
  ASSUME NEW count \in AnyCounts, NEW off \in Nat, NEW length \in Nat,
         C!ReadCompactSize(count, off, length) # None
  PROVE  /\ C!ReadCompactSize(count, off, length) = count.value
         /\ count.width = C!CompactSizeLen(count.value)
BY DEF C!ReadCompactSize

\* The payload an entry keeps has one length and one encoding for its counts.
\* (ShieldedBitcoinV1.match)
LEMMA MatchIsExact ==
  ASSUME NEW content \in AnyContents, NEW length \in Nat, NEW strict \in BOOLEAN,
         C!Match(content, length, strict) # None, C!Match(content, length, strict)
  PROVE  \E in, out \in 1 .. C!MaxArity :
           length = 220 + 32 * in + 163 * out /\ content = Envelope(in, out)
<1> DEFINE in == content.in.value
           out == content.out.value
<1>1. content.in \in AnyCounts /\ content.out \in AnyCounts /\ C!Header + content.in.width \in Nat
      /\ C!Header \in Nat
  BY DEF AnyContents, AnyCounts, C!Header
<1>2. /\ in \in 1 .. C!MaxArity /\ out \in 1 .. C!MaxArity
      /\ content.in.width = C!CompactSizeLen(in) /\ content.out.width = C!CompactSizeLen(out)
      /\ length = C!ExpectedLen(in, out)
      /\ content.magic = TRUE /\ content.version = 1 /\ content.type = 1
  <2>1. content.magic \in BOOLEAN
    BY DEF AnyContents
  <2>2. /\ content.magic /\ content.version = 1 /\ content.type = 1
        /\ C!ReadCompactSize(content.in, C!Header, length) \in (1 .. C!MaxArity) \ {None}
        /\ C!ReadCompactSize(content.out, C!Header + content.in.width, length)
             \in (1 .. C!MaxArity) \ {None}
        /\ length = C!ExpectedLen(C!ReadCompactSize(content.in, C!Header, length),
              C!ReadCompactSize(content.out, C!Header + content.in.width, length))
    BY Verdicts
  <2>3. /\ C!ReadCompactSize(content.in, C!Header, length) = in
        /\ content.in.width = C!CompactSizeLen(in)
    BY <1>1, <2>2, CountsAreCanonical
  <2>4. /\ C!ReadCompactSize(content.out, C!Header + content.in.width, length) = out
        /\ content.out.width = C!CompactSizeLen(out)
    BY <1>1, <2>2, CountsAreCanonical
  <2> HIDE DEF in, out
  <2> QED BY <2>1, <2>2, <2>3, <2>4
<1>3. C!CompactSizeLen(in) = 1 /\ C!CompactSizeLen(out) = 1
  BY <1>2 DEF C!CompactSizeLen, C!MaxArity
<1>4. length = 220 + 32 * in + 163 * out
  BY <1>2, <1>3 DEF C!ExpectedLen, C!Header, C!MaxArity
<1>5. content = Envelope(in, out)
  BY <1>2, <1>3 DEF AnyContents, AnyCounts, Envelope
<1> QED BY <1>2, <1>4, <1>5

\* The one form that pushes so many bytes minimally.
LEMMA FormOfALongPush ==
  ASSUME NEW item \in AnyItems, C!Minimal(item), item.len > 255, item.len < 65536
  PROVE  item = [len |-> item.len, form |-> "pushdata2"]
<1>1. item.form = "pushdata2"
  BY DEF AnyItems, C!FormsFor, C!Form, C!Minimal
<1> QED BY <1>1 DEF AnyItems

\* An entry of the registry keeps, of all scripts whatever their pushes, only
\* those that encode_op_return makes of an envelope of 1 to 16 inputs and
\* outputs: 256 scripts for the bytes that the commitments and proofs
\* themselves are.  No push is added, split or encoded at greater length, and
\* no count, to carry anything else.  (Policy.should_retain)
THEOREM OnlyCanonicalEnvelopes ==
  ASSUME NEW script \in AnyScripts
  PROVE  C!KeepsCanonicalOnly(script)
<1> DEFINE length == C!PayloadLen(script)
           strict == Len(script.items) = 1 /\ C!Minimal(script.items[1])
           verdict == C!ShouldRetain(C!Entries, script)
<1> SUFFICES ASSUME verdict.by = "entry", verdict.retain
             PROVE  \E in, out \in 1 .. C!MaxArity :
                      script = C!EncodeOpReturn(220 + 32 * in + 163 * out, Envelope(in, out))
  BY DEF C!KeepsCanonicalOnly, Envelope
<1>1. script.opens /\ script.end = "whole"
  BY DEF C!ShouldRetain, C!Readable
<1>2. /\ verdict = C!Classify(C!Entries, script.content, length, strict)
      /\ C!Entries # {}
  BY <1>1 DEF C!ShouldRetain, C!Readable, C!Entries
<1>3. C!Match(script.content, length, strict) # None
      /\ verdict.retain = C!Match(script.content, length, strict)
  <2> HIDE DEF verdict, length, strict
  <2> QED BY <1>2 DEF C!Classify
<1>4. strict \in BOOLEAN
  BY DEF C!Minimal
<1>5. strict /\ C!Match(script.content, length, strict)
  <2> HIDE DEF verdict, length, strict
  <2> QED BY <1>3, <1>4, Verdicts
<1>6. /\ script.items \in Seq(AnyItems) /\ script.items[1] \in AnyItems
      /\ script.content \in AnyContents
  BY <1>5 DEF AnyScripts
<1>7. length = script.items[1].len /\ length \in Nat
  BY <1>5, <1>6, PayloadOfOnePush DEF AnyItems
<1>8. PICK in, out \in 1 .. C!MaxArity :
        length = 220 + 32 * in + 163 * out /\ script.content = Envelope(in, out)
  <2> HIDE DEF verdict, length, strict
  <2> QED BY <1>3, <1>4, <1>5, <1>6, <1>7, MatchIsExact
<1>9. length > 255 /\ length < 65536
  <2> HIDE DEF length
  <2> QED BY <1>7, <1>8 DEF C!MaxArity
<1>10. script.items[1] = [len |-> length, form |-> "pushdata2"]
  <2> HIDE DEF length, verdict
  <2> QED BY <1>5, <1>6, <1>7, <1>9, FormOfALongPush
<1>11. script.items = << [len |-> length, form |-> "pushdata2"] >>
  <2> HIDE DEF length, verdict
  <2> QED BY <1>5, <1>6, <1>10
<1>12. script = C!EncodeOpReturn(length, script.content)
  <2> HIDE DEF length, verdict
  <2>1. script = [opens |-> TRUE, end |-> "whole", content |-> script.content,
                  items |-> script.items]
    BY <1>1 DEF AnyScripts
  <2>2. ~(length < 76) /\ ~(length <= 255)
    BY <1>7, <1>9
  <2> QED BY <1>11, <2>1, <2>2 DEF C!EncodeOpReturn
<1> QED BY <1>8, <1>12

\* Of any output, whatever its pushes and counts: an entry keeps no other than
\* the canonical envelopes, and without entries no output is dropped that the
\* stripper keeps.  (should_retain)
THEOREM EnvelopesTheorem ==
  ASSUME Is("output") => input.is \in AnyScripts
  PROVE  EnvelopesAreCanonical
BY OnlyCanonicalEnvelopes, NothingMoreIsDropped DEF EnvelopesAreCanonical

-----------------------------------------------------------------------------
(* The comparator of the tie-break. *)

\* Equally good: neither is worse.
Same(index, on, a, b) == ~R!Worse(index, on, a, b) /\ ~R!Worse(index, on, b, a)

\* setBlockIndexCandidates is a std::set, whose behaviour is undefined unless
\* its comparator is a strict weak order.  CBlockIndexWorkComparator is one,
\* with the option and without, for whatever scores blocks were given, late or
\* not; and among blocks that became candidates one after another, of two
\* different ones always one is worse, so addresses never decide.
THEOREM ComparatorIsStrictWeakOrder ==
  ASSUME NEW S, NEW index, NEW on \in BOOLEAN,
         \A b \in S : b[2] \in Int /\ index[b].score \in Int /\ index[b].sequence \in Int
  PROVE  /\ \A a \in S : ~R!Worse(index, on, a, a)
         /\ \A a, b, c \in S :
              /\ R!Worse(index, on, a, b) /\ R!Worse(index, on, b, c) => R!Worse(index, on, a, c)
              /\ Same(index, on, a, b) /\ Same(index, on, b, c) => Same(index, on, a, c)
         /\ \A a, b \in S :
              index[a].sequence # index[b].sequence =>
                R!Worse(index, on, a, b) \/ R!Worse(index, on, b, a)
<1>1. \A a \in S : ~R!Worse(index, on, a, a)
  BY DEF R!Worse
<1>2. ASSUME NEW a \in S, NEW b \in S, NEW c \in S,
             R!Worse(index, on, a, b), R!Worse(index, on, b, c)
      PROVE  R!Worse(index, on, a, c)
  <2>1. CASE on
    BY <1>2, <2>1 DEF R!Worse
  <2>2. CASE ~on
    BY <1>2, <2>2 DEF R!Worse
  <2> QED BY <2>1, <2>2
<1>3. \A a, b \in S :
        Same(index, on, a, b) <=> /\ a[2] = b[2]
                                  /\ on => index[a].score = index[b].score
                                  /\ index[a].sequence = index[b].sequence
  <2>1. CASE on
    BY <2>1 DEF Same, R!Worse
  <2>2. CASE ~on
    BY <2>2 DEF Same, R!Worse
  <2> QED BY <2>1, <2>2
<1>4. ASSUME NEW a \in S, NEW b \in S, NEW c \in S,
             Same(index, on, a, b), Same(index, on, b, c)
      PROVE  Same(index, on, a, c)
  BY <1>3, <1>4
<1>5. ASSUME NEW a \in S, NEW b \in S, index[a].sequence # index[b].sequence
      PROVE  R!Worse(index, on, a, b) \/ R!Worse(index, on, b, a)
  BY <1>3, <1>5 DEF Same
<1> QED BY <1>1, <1>2, <1>4, <1>5

\* A block that arrives after the window of the block active at its height is
\* worse than it, if it has no more work and no score is as high as Late: a
\* straggler never displaces an incumbent.  (ReceivedBlockTransactions,
\* SPAM_SCORE_LATE)
THEOREM LateIsWorse ==
  ASSUME NEW node, NEW b, NEW score, NEW now \in Int, NEW index,
         R!Active(node, b[2]) \notin {None, b},
         LET i == R!Active(node, b[2])
         IN  /\ now - node.index[i].received > Window
             /\ i[2] = b[2]
             /\ index[i].score \in Int /\ index[i].score < Late
             /\ node.index[i].received \in Int,
         Window \in Nat, Late \in Int,
         index[b].score = R!ScoreOf(node, b, score, now)
  PROVE  R!Worse(index, TRUE, b, R!Active(node, b[2]))
<1> DEFINE i == R!Active(node, b[2])
<1>1. ~(now - node.index[i].received \in 0 .. Window)
  OBVIOUS
<1>2. index[b].score = Late
  BY <1>1 DEF R!ScoreOf
<1> HIDE DEF i
<1>3. i[2] = b[2] /\ index[i].score < Late /\ index[i].score \in Int
  BY DEF i
<1>4. R!Worse(index, TRUE, b, i)
  BY <1>2, <1>3 DEF R!Worse
<1> QED BY <1>4 DEF i

-----------------------------------------------------------------------------
(* Races of two branches, each of any number of blocks.                    *)

Cand(index) == R!Candidates(index)

BlocksTo(K) == {"left", "right"} \X (1..K)
Entry == [received : Int, score : 0..Late, sequence : Nat \cup {None}]

\* What a node keeps of its blocks.
TreeInv(node, K) ==
  /\ R!Fork \in Cand(node.index)
  /\ \A b \in DOMAIN node.index :
       (b \in BlocksTo(K) \/ b = R!Fork) /\ node.index[b] \in Entry
  /\ node.next \in Nat \ {0}
  /\ \A b \in Cand(node.index) :
       /\ node.index[b].sequence < node.next
       /\ b # R!Fork => node.next > 1
       /\ \A h \in 1..b[2] : <<b[1], h>> \in Cand(node.index)
  /\ \A a, b \in Cand(node.index) :
       a # b /\ a[2] = b[2] => node.index[a].sequence # node.index[b].sequence

\* No candidate is better than b.
IsBest(index, on, b) ==
  b \in Cand(index) /\ \A c \in Cand(index) \ {b} : ~R!Worse(index, on, b, c)

NodeInv(node, on, K) == TreeInv(node, K) /\ IsBest(node.index, on, node.tip)

LEMMA BlocksAre ==
  ASSUME NEW K \in Nat, NEW b \in BlocksTo(K)
  PROVE  /\ b = <<b[1], b[2]>> /\ b[1] \in {"left", "right"} /\ b[2] \in 1..K
         /\ b # R!Fork /\ b # None
<1>1. b = <<b[1], b[2]>> /\ b[1] \in {"left", "right"} /\ b[2] \in 1..K
  BY DEF BlocksTo
<1>2. R!Fork = <<"both", 0>>
  BY DEF R!Fork
<1>3. b \in {"left", "right"} \X Nat
  BY <1>1
<1> QED BY <1>1, <1>2, <1>3, NoneAssumption

LEMMA CandidatesAre ==
  ASSUME NEW K \in Nat, NEW node, TreeInv(node, K), NEW b \in Cand(node.index)
  PROVE  /\ b \in DOMAIN node.index /\ b \in BlocksTo(K) \cup {R!Fork}
         /\ b[2] \in Nat /\ node.index[b].score \in 0..Late /\ node.index[b].sequence \in Nat
         /\ node.index[b].received \in Int
         /\ b # R!Fork => b \in BlocksTo(K)
<1>1. b \in DOMAIN node.index /\ node.index[b].sequence # None
  BY DEF Cand, R!Candidates
<1>2. /\ b \in BlocksTo(K) \/ b = R!Fork
      /\ node.index[b].received \in Int
      /\ node.index[b].score \in 0..Late
      /\ node.index[b].sequence \in Nat \cup {None}
  BY <1>1 DEF TreeInv, Entry
<1>3. R!Fork[2] = 0
  BY DEF R!Fork
<1>4. b[2] \in Nat
  BY <1>2, <1>3, BlocksAre
<1> QED BY <1>1, <1>2, <1>4

\* Of two candidates one is worse, and what is worse than the worse is worse.
LEMMA CandidatesAreOrdered ==
  ASSUME NEW K \in Nat, NEW node, TreeInv(node, K), NEW on \in BOOLEAN
  PROVE  /\ \A a, b \in Cand(node.index) :
              a # b => (R!Worse(node.index, on, a, b) <=> ~R!Worse(node.index, on, b, a))
         /\ \A a, b, c \in Cand(node.index) :
              R!Worse(node.index, on, a, b) /\ R!Worse(node.index, on, b, c)
                => R!Worse(node.index, on, a, c)
<1> DEFINE index == node.index
           S == Cand(index)
<1>1. \A b \in S : /\ b[2] \in Int /\ index[b].score \in Int /\ index[b].sequence \in Int
                   /\ index[b].score \in Nat
  <2>1. \A b \in S : b[2] \in Nat /\ index[b].score \in 0..Late /\ index[b].sequence \in Nat
    BY CandidatesAre
  <2> QED BY <2>1, WindowAssumption
<1>2. \A a, b \in S : a # b /\ a[2] = b[2] => index[a].sequence # index[b].sequence
  BY DEF TreeInv
<1> HIDE DEF index, S
<1>3. \A a, b, c \in S : R!Worse(index, on, a, b) /\ R!Worse(index, on, b, c) => R!Worse(index, on, a, c)
  BY <1>1, ComparatorIsStrictWeakOrder
<1>4. ASSUME NEW a \in S, NEW b \in S, a # b
      PROVE  R!Worse(index, on, a, b) <=> ~R!Worse(index, on, b, a)
  <2>1. a[2] = b[2] => index[a].sequence # index[b].sequence
    BY <1>2, <1>4
  <2>2. CASE on
    BY <1>1, <2>1, <2>2 DEF R!Worse
  <2>3. CASE ~on
    BY <1>1, <2>1, <2>3 DEF R!Worse
  <2> QED BY <2>2, <2>3
<1> QED BY <1>3, <1>4 DEF index, S

\* There is one best candidate at most, and it is found.
LEMMA BestIsTip ==
  ASSUME NEW K \in Nat, NEW node, TreeInv(node, K), NEW on \in BOOLEAN,
         NEW b, IsBest(node.index, on, b)
  PROVE  R!Activate(node.index, on) = b
<1> DEFINE index == node.index
           x == R!Activate(index, on)
<1>1. x = CHOOSE y \in Cand(index) : \A c \in Cand(index) \ {y} : ~R!Worse(index, on, y, c)
  BY DEF R!Activate, Cand
<1>2. b \in Cand(index) /\ \A c \in Cand(index) \ {b} : ~R!Worse(index, on, b, c)
  BY DEF IsBest
<1> HIDE DEF x
<1>3. x \in Cand(index) /\ \A c \in Cand(index) \ {x} : ~R!Worse(index, on, x, c)
  <2> HIDE DEF index
  <2> QED BY <1>1, <1>2
<1>4. x = b
  <2> SUFFICES ASSUME x # b PROVE FALSE
    OBVIOUS
  <2>1. ~R!Worse(index, on, x, b) /\ ~R!Worse(index, on, b, x)
    BY <1>2, <1>3
  <2> QED BY <1>2, <1>3, <2>1, CandidatesAreOrdered
<1> QED BY <1>4 DEF x

\* Nothing is as high as the best.
LEMMA BestIsHighest ==
  ASSUME NEW K \in Nat, NEW node, TreeInv(node, K), NEW on \in BOOLEAN,
         NEW b, IsBest(node.index, on, b), NEW c \in Cand(node.index)
  PROVE  c[2] <= b[2]
<1>1. b \in Cand(node.index) /\ (c # b => ~R!Worse(node.index, on, b, c))
  BY DEF IsBest
<1>2. c[2] \in Nat /\ b[2] \in Nat
  BY <1>1, CandidatesAre
<1>3. b[2] < c[2] => R!Worse(node.index, on, b, c)
  BY DEF R!Worse
<1> QED BY <1>1, <1>2, <1>3

\* The block that is active at a candidate's height is a candidate.
LEMMA ActiveIs ==
  ASSUME NEW K \in Nat, NEW node, TreeInv(node, K), NEW on \in BOOLEAN,
         IsBest(node.index, on, node.tip), NEW h \in Nat
  PROVE  IF h > node.tip[2] THEN R!Active(node, h) = None
         ELSE R!Active(node, h) \in Cand(node.index) /\ R!Active(node, h)[2] = h
<1>1. node.tip \in Cand(node.index) /\ node.tip[2] \in Nat
  BY CandidatesAre DEF IsBest
<1>2. CASE h > node.tip[2]
  BY <1>1, <1>2 DEF R!Active
<1>3. CASE h <= node.tip[2] /\ h = 0
  <2>1. R!Active(node, h) = R!Fork /\ R!Fork[2] = 0
    BY <1>3 DEF R!Active, R!Fork
  <2>2. R!Fork \in Cand(node.index)
    BY DEF TreeInv
  <2> QED BY <1>1, <1>3, <2>1, <2>2
<1>4. CASE h <= node.tip[2] /\ h # 0
  <2>1. R!Active(node, h) = <<node.tip[1], h>>
    BY <1>1, <1>4 DEF R!Active
  <2>2. h \in 1..node.tip[2]
    BY <1>1, <1>4
  <2>3. <<node.tip[1], h>> \in Cand(node.index)
    BY <1>1, <2>2 DEF TreeInv
  <2> QED BY <1>1, <1>4, <2>1, <2>3
<1> QED BY <1>1, <1>2, <1>3, <1>4

\* As many blocks wait above b as get their sequence before c.
LEMMA CountOfReady ==
  ASSUME NEW K \in Nat, NEW ready, NEW b \in BlocksTo(K),
         \A c \in ready : c \in BlocksTo(K) /\ c[1] = b[1]
  PROVE  /\ Cardinality(ready) \in Nat
         /\ \A c \in ready :
              c[2] >= b[2] /\ (\A h \in b[2]..c[2] : <<b[1], h>> \in ready)
                => c[2] - b[2] < Cardinality(ready)
<1> DEFINE f == [c \in ready |-> c[2]]
<1>1. f \in Injection(ready, 1..K)
  <2>1. \A c \in ready : c[2] \in 1..K /\ c = <<c[1], c[2]>> /\ c[1] = b[1]
    BY BlocksAre
  <2>2. f \in [ready -> 1..K]
    BY <2>1
  <2>3. \A c, d \in ready : f[c] = f[d] => c = d
    <3> SUFFICES ASSUME NEW c \in ready, NEW d \in ready, f[c] = f[d] PROVE c = d
      OBVIOUS
    <3>1. c[2] = d[2] /\ c[1] = d[1]
      BY <2>1
    <3>2. c = <<c[1], c[2]>> /\ d = <<d[1], d[2]>>
      BY <2>1
    <3> QED BY <3>1, <3>2
  <2> HIDE DEF f
  <2> QED BY <2>2, <2>3 DEF Injection, IsInjective
<1>2. IsFiniteSet(ready)
  <2>1. IsFiniteSet(1..K)
    BY OneTo
  <2> HIDE DEF f
  <2> QED BY <1>1, <2>1, FS_Injection
<1>3. Cardinality(ready) \in Nat
  BY <1>2, FS_CardinalityType
<1>4. ASSUME NEW c \in ready, c[2] >= b[2], \A h \in b[2]..c[2] : <<b[1], h>> \in ready
      PROVE  c[2] - b[2] < Cardinality(ready)
  <2> DEFINE lo == b[2]
             hi == c[2]
             S == lo..hi
             g == [h \in S |-> <<b[1], h>>]
  <2>1. lo \in Int /\ hi \in Int /\ lo <= hi
    BY <1>4, BlocksAre
  <2> HIDE DEF lo, hi
  <2>2. IsFiniteSet(S) /\ Cardinality(S) = hi - lo + 1
    BY <2>1, FS_Interval
  <2>3. g \in [S -> ready]
    BY <1>4 DEF lo, hi
  <2>4. \A h, i \in S : g[h] = g[i] => h = i
    OBVIOUS
  <2>5. g \in Injection(S, ready)
    <3> HIDE DEF g, S
    <3> QED BY <2>3, <2>4 DEF Injection, IsInjective
  <2>6. Cardinality(S) <= Cardinality(ready)
    <3> HIDE DEF g, S
    <3> QED BY <1>2, <2>5, FS_Injection
  <2>7. hi - lo < Cardinality(ready)
    BY <1>3, <2>1, <2>2, <2>6
  <2> QED BY <2>7 DEF lo, hi
<1> QED BY <1>3, <1>4

\* What Receive makes of a node: the blocks that are ready get a sequence.
Linked(node, next, b, ready) ==
  /\ DOMAIN next.index = DOMAIN node.index \cup {b}
  /\ ready \cap Cand(node.index) = {}
  /\ Cand(next.index) = Cand(node.index) \cup ready
  /\ \A c \in DOMAIN node.index :
       /\ c \notin ready => next.index[c] = node.index[c]
       /\ next.index[c].score = node.index[c].score
       /\ next.index[c] \in Entry
  /\ b \notin ready => next.index[b].sequence = None
  /\ \A c \in ready :
       /\ c \in DOMAIN next.index /\ c # R!Fork
       /\ c[1] = b[1] /\ c[2] >= b[2]
       /\ next.index[c].sequence = node.next + c[2] - b[2]
       /\ next.index[c].sequence < next.next
       /\ \A h \in b[2]..c[2] : <<b[1], h>> \in ready
  /\ ready # {} => b \in ready /\ R!Parent(b) \in Cand(node.index)
  /\ next.next \in Nat /\ next.next >= node.next

LEMMA ReceiveIs ==
  ASSUME NEW K \in Nat, NEW node, TreeInv(node, K), NEW on \in BOOLEAN, NEW b \in BlocksTo(K),
         b \notin DOMAIN node.index, NEW score \in 0..Late, NEW now \in Int
  PROVE  LET next == R!Receive(node, on, b, score, now)
         IN  /\ next.tip = R!Activate(next.index, on)
             /\ next.index[b].score = R!ScoreOf(node, b, score, now)
             /\ next.index[b] \in Entry
             /\ \E ready : Linked(node, next, b, ready)
<1> DEFINE entry == [received |-> now, score |-> R!ScoreOf(node, b, score, now), sequence |-> None]
           known == R!With(node, b, score, now)
           ready == R!Ready(known, b)
           index == R!Sequenced(known, ready, b, node.next)
           next == R!Receive(node, on, b, score, now)
<1>1. next = [index |-> index, tip |-> R!Activate(index, on),
              next |-> node.next + Cardinality(ready)]
  <2>1. R!Cardinality(ready) = Cardinality(ready)
    BY DEF R!Cardinality, Cardinality
  <2>2. next = [index |-> index, tip |-> R!Activate(index, on),
                next |-> node.next + R!Cardinality(ready)]
    BY DEF R!Receive
  <2> HIDE DEF ready, next
  <2> QED BY <2>1, <2>2
<1>2. entry \in Entry /\ entry.score = R!ScoreOf(node, b, score, now) /\ entry.sequence = None
  BY WindowAssumption DEF Entry, R!ScoreOf
<1>3. DOMAIN known = DOMAIN node.index \cup {b} /\ known[b] = entry
      /\ \A c \in DOMAIN node.index : c # b /\ known[c] = node.index[c]
  BY DEF R!With
<1> HIDE DEF entry, next
<1> SUFFICES /\ next.tip = R!Activate(next.index, on)
             /\ next.index[b].score = R!ScoreOf(node, b, score, now)
             /\ next.index[b] \in Entry
             /\ Linked(node, next, b, ready)
  BY DEF next
<1>4. Cand(known) = Cand(node.index)
  BY <1>2, <1>3 DEF Cand, R!Candidates
<1> HIDE DEF known
<1>5. \A c \in DOMAIN node.index : (c \in BlocksTo(K) \/ c = R!Fork) /\ node.index[c] \in Entry
  BY DEF TreeInv
<1>6. ready # {} =>
        /\ R!Parent(b) \in Cand(node.index)
        /\ ready = {c \in DOMAIN known : /\ c[1] = b[1] /\ c[2] >= b[2]
                                         /\ \A h \in b[2]..c[2] : <<b[1], h>> \in DOMAIN known}
  <2>1. R!Candidates(known) = Cand(node.index)
    BY <1>4 DEF Cand
  <2> QED BY <2>1 DEF R!Ready
<1>7. b = <<b[1], b[2]>> /\ b[1] \in {"left", "right"} /\ b[2] \in 1..K
  BY BlocksAre
<1>8. ASSUME NEW c \in ready
      PROVE  /\ c \in DOMAIN known /\ c[1] = b[1] /\ c[2] >= b[2]
             /\ \A h \in b[2]..c[2] : <<b[1], h>> \in DOMAIN known
  BY <1>6
<1>9. \A c \in ready : c # R!Fork /\ c \in BlocksTo(K)
  <2>1. R!Fork[1] = "both"
    BY DEF R!Fork
  <2> QED BY <1>3, <1>5, <1>7, <1>8, <2>1
<1>10. ready # {} => b \in ready
  <2>1. \A h \in b[2]..b[2] : <<b[1], h>> \in DOMAIN known
    BY <1>3, <1>7
  <2> QED BY <1>3, <1>6, <1>7, <2>1
<1>11. ASSUME NEW c \in ready, NEW h \in b[2]..c[2] PROVE <<b[1], h>> \in ready
  <2>1. c[2] \in Nat /\ b[2] \in Nat
    BY <1>9, BlocksAre
  <2>2. \A i \in b[2]..h : i \in b[2]..c[2]
    BY <2>1
  <2> DEFINE d == <<b[1], h>>
  <2>3. d[1] = b[1] /\ d[2] = h /\ h >= b[2] /\ d \in DOMAIN known
    BY <1>8, <2>1
  <2> HIDE DEF d
  <2>4. \A i \in b[2]..d[2] : <<b[1], i>> \in DOMAIN known
    BY <1>8, <2>2, <2>3
  <2>5. d \in ready
    BY <1>6, <2>3, <2>4
  <2> QED BY <2>5 DEF d
<1>12. ready \cap Cand(node.index) = {}
  <2> SUFFICES ASSUME NEW c \in ready, c \in Cand(node.index) PROVE FALSE
    OBVIOUS
  <2>1. c \in BlocksTo(K) /\ c[1] = b[1] /\ b[2] <= c[2]
    BY <1>8, <1>9
  <2>2. b[2] \in 1..c[2]
    BY <1>7, <2>1, BlocksAre
  <2>3. <<c[1], b[2]>> \in Cand(node.index)
    BY <2>2 DEF TreeInv
  <2> QED BY <1>7, <2>1, <2>3 DEF Cand, R!Candidates
<1>13. /\ Cardinality(ready) \in Nat
       /\ \A c \in ready : c[2] - b[2] < Cardinality(ready)
  <2>1. \A c \in ready : c \in BlocksTo(K) /\ c[1] = b[1]
    BY <1>8, <1>9
  <2>2. \A c \in ready : c[2] >= b[2] /\ \A h \in b[2]..c[2] : <<b[1], h>> \in ready
    BY <1>8, <1>11
  <2> HIDE DEF ready
  <2> QED BY <2>1, <2>2, CountOfReady
<1>14. node.next \in Nat
  BY DEF TreeInv
<1>15. /\ next.index = index /\ next.tip = R!Activate(index, on)
       /\ next.next = node.next + Cardinality(ready)
  BY <1>1
<1>16. DOMAIN index = DOMAIN known
       /\ \A c \in DOMAIN known :
            index[c] = IF c \in ready THEN [known[c] EXCEPT !.sequence = node.next + c[2] - b[2]]
                       ELSE known[c]
  BY DEF R!Sequenced
<1> HIDE DEF index, ready
<1>17. \A e \in Entry, v \in Nat : LET w == [e EXCEPT !.sequence = v]
                                  IN  w \in Entry /\ w.sequence = v /\ w.score = e.score
  BY DEF Entry
<1>18. \A c \in DOMAIN known : known[c] \in Entry
  BY <1>2, <1>3, <1>5
<1>19. ASSUME NEW c \in ready
       PROVE  /\ index[c].sequence = node.next + c[2] - b[2] /\ index[c].sequence \in Nat
              /\ index[c] \in Entry /\ index[c].score = known[c].score
              /\ index[c].sequence < next.next
  <2> DEFINE v == node.next + c[2] - b[2]
  <2>1. c \in DOMAIN known /\ index[c] = [known[c] EXCEPT !.sequence = v]
    BY <1>8, <1>16
  <2>2. c[2] \in Nat /\ b[2] \in Nat /\ c[2] >= b[2] /\ v \in Nat
    BY <1>7, <1>8, <1>9, <1>14, BlocksAre
  <2>3. v < next.next
    BY <1>13, <1>14, <1>15, <2>2
  <2> HIDE DEF v
  <2>4. index[c].sequence = v /\ index[c] \in Entry /\ index[c].score = known[c].score
    BY <1>17, <1>18, <2>1, <2>2
  <2> QED BY <2>2, <2>3, <2>4 DEF v
<1>20. \A c \in DOMAIN known : c \notin ready => index[c] = known[c]
  BY <1>16
<1>21. ready \subseteq DOMAIN known
  BY <1>8
<1>22. Cand(index) = Cand(node.index) \cup ready
  <2>1. \A c \in ready : index[c].sequence # None
    BY <1>19, NoneAssumption
  <2>2. \A c \in DOMAIN known : c \notin ready => (c \in Cand(index) <=> c \in Cand(known))
    BY <1>16, <1>20 DEF Cand, R!Candidates
  <2>3. \A c \in ready : c \in Cand(index)
    BY <1>16, <1>21, <2>1 DEF Cand, R!Candidates
  <2>4. Cand(index) \subseteq DOMAIN known /\ Cand(known) \subseteq DOMAIN known
    BY <1>16 DEF Cand, R!Candidates
  <2> QED BY <1>4, <1>21, <2>2, <2>3, <2>4
<1>23. \A c \in DOMAIN known : index[c] \in Entry /\ index[c].score = known[c].score
  BY <1>18, <1>19, <1>20
<1>24. Linked(node, next, b, ready)
  <2>1. /\ DOMAIN next.index = DOMAIN node.index \cup {b}
        /\ Cand(next.index) = Cand(node.index) \cup ready
    BY <1>3, <1>15, <1>16, <1>22
  <2>2. \A c \in DOMAIN node.index :
          /\ c \notin ready => next.index[c] = node.index[c]
          /\ next.index[c].score = node.index[c].score
          /\ next.index[c] \in Entry
    BY <1>3, <1>15, <1>20, <1>23
  <2>3. b \notin ready => next.index[b].sequence = None
    BY <1>2, <1>3, <1>15, <1>20
  <2>4. \A c \in ready :
          /\ c \in DOMAIN next.index /\ c # R!Fork
          /\ c[1] = b[1] /\ c[2] >= b[2]
          /\ next.index[c].sequence = node.next + c[2] - b[2]
          /\ next.index[c].sequence < next.next
          /\ \A h \in b[2]..c[2] : <<b[1], h>> \in ready
    BY <1>8, <1>9, <1>11, <1>15, <1>16, <1>19
  <2>5. ready # {} => b \in ready /\ R!Parent(b) \in Cand(node.index)
    BY <1>6, <1>10
  <2>6. next.next \in Nat /\ next.next >= node.next
    BY <1>13, <1>14, <1>15
  <2> QED BY <1>12, <2>1, <2>2, <2>3, <2>4, <2>5, <2>6 DEF Linked
<1>25. next.index[b].score = R!ScoreOf(node, b, score, now) /\ next.index[b] \in Entry
  BY <1>2, <1>3, <1>15, <1>23
<1> QED BY <1>15, <1>24, <1>25

\* A block's parent and its place.
LEMMA ParentIs ==
  ASSUME NEW K \in Nat, NEW b \in BlocksTo(K)
  PROVE  IF b[2] = 1 THEN R!Parent(b) = R!Fork ELSE R!Parent(b) = <<b[1], b[2] - 1>>
BY DEF R!Parent

LEMMA LinkedInv ==
  ASSUME NEW K \in Nat, NEW node, TreeInv(node, K), NEW b \in BlocksTo(K),
         b \notin DOMAIN node.index,
         NEW next, NEW ready, Linked(node, next, b, ready), next.index[b] \in Entry
  PROVE  TreeInv(next, K)
<1> DEFINE old == Cand(node.index)
           new == Cand(next.index)
<1>1. /\ DOMAIN next.index = DOMAIN node.index \cup {b}
      /\ ready \cap old = {} /\ new = old \cup ready
      /\ \A c \in DOMAIN node.index : c \notin ready => next.index[c] = node.index[c]
      /\ ready # {} => b \in ready /\ R!Parent(b) \in old
      /\ next.next \in Nat /\ next.next >= node.next
      /\ \A c \in DOMAIN node.index : next.index[c] \in Entry
  BY DEF Linked
<1>2. \A c \in ready :
        /\ c \in DOMAIN next.index /\ c # R!Fork
        /\ c[1] = b[1] /\ c[2] >= b[2]
        /\ next.index[c].sequence = node.next + c[2] - b[2]
        /\ next.index[c].sequence < next.next
        /\ \A h \in b[2]..c[2] : <<b[1], h>> \in ready
  BY DEF Linked
<1>3. /\ R!Fork \in old /\ node.next \in Nat \ {0}
      /\ \A c \in old : /\ node.index[c].sequence < node.next
                        /\ c # R!Fork => node.next > 1
                        /\ \A h \in 1..c[2] : <<c[1], h>> \in old
      /\ \A a, c \in old : a # c /\ a[2] = c[2] => node.index[a].sequence # node.index[c].sequence
      /\ \A c \in DOMAIN node.index : c \in BlocksTo(K) \/ c = R!Fork
  BY DEF TreeInv
<1>4. \A c \in old : c \in DOMAIN node.index /\ node.index[c].sequence \in Nat /\ c[2] \in Nat
  BY CandidatesAre
<1>5. b = <<b[1], b[2]>> /\ b[2] \in Nat /\ b[2] >= 1
  BY BlocksAre
<1> HIDE DEF old, new
<1>6. \A c \in ready : c \in BlocksTo(K) /\ c = <<c[1], c[2]>> /\ c[2] \in Nat
  <2>1. \A c \in ready : c \in BlocksTo(K)
    BY <1>1, <1>2, <1>3
  <2> QED BY <2>1, BlocksAre
<1>7. \A c \in old : next.index[c] = node.index[c] /\ c \notin ready
  BY <1>1, <1>4
<1>8. \A c \in DOMAIN next.index : (c \in BlocksTo(K) \/ c = R!Fork) /\ next.index[c] \in Entry
  BY <1>1, <1>3
<1>9. next.next \in Nat \ {0} /\ R!Fork \in new
  BY <1>1, <1>3
<1>10. ASSUME NEW c \in new
       PROVE  /\ next.index[c].sequence < next.next
              /\ c # R!Fork => next.next > 1
              /\ \A h \in 1..c[2] : <<c[1], h>> \in new
  <2>1. CASE c \in old
    <3>1. next.index[c].sequence < next.next
      BY <1>1, <1>3, <1>4, <1>7, <2>1
    <3>2. c # R!Fork => next.next > 1
      BY <1>1, <1>3, <2>1
    <3>3. \A h \in 1..c[2] : <<c[1], h>> \in new
      BY <1>1, <1>3, <2>1
    <3> QED BY <3>1, <3>2, <3>3
  <2>2. CASE c \in ready
    <3>1. next.index[c].sequence < next.next
      BY <1>2, <2>2
    <3>2. next.next > 1
      BY <1>1, <1>2, <1>3, <1>5, <1>6, <2>2
    <3>3. ASSUME NEW h \in 1..c[2] PROVE <<c[1], h>> \in new
      <4>1. c[1] = b[1] /\ c[2] \in Nat /\ h \in Nat /\ h >= 1 /\ h <= c[2]
        BY <1>2, <1>6, <2>2
      <4>2. CASE h >= b[2]
        <5>1. h \in b[2]..c[2]
          BY <1>5, <4>1, <4>2
        <5> QED BY <1>1, <1>2, <2>2, <4>1, <5>1
      <4>3. CASE h < b[2]
        <5>1. b[2] # 1 /\ R!Parent(b) \in old
          BY <1>1, <1>5, <2>2, <4>1, <4>3
        <5>2. R!Parent(b) = <<b[1], b[2] - 1>>
          BY <5>1, ParentIs
        <5> DEFINE up == <<b[1], b[2] - 1>>
        <5>3. up[1] = b[1] /\ up[2] = b[2] - 1 /\ up \in old
          BY <5>1, <5>2
        <5> HIDE DEF up
        <5>4. h \in 1..up[2]
          BY <1>5, <4>1, <4>3, <5>3
        <5>5. <<up[1], h>> \in old
          BY <1>3, <5>3, <5>4
        <5> QED BY <1>1, <4>1, <5>3, <5>5
      <4> QED BY <1>5, <4>1, <4>2, <4>3
    <3> QED BY <3>1, <3>2, <3>3
  <2> QED BY <1>1, <2>1, <2>2
<1>11. ASSUME NEW a \in new, NEW c \in new, a # c, a[2] = c[2]
       PROVE  next.index[a].sequence # next.index[c].sequence
  <2>1. CASE a \in old /\ c \in old
    BY <1>3, <1>7, <1>11, <2>1
  <2>2. \A d \in old, e \in ready : next.index[d].sequence # next.index[e].sequence
    <3> SUFFICES ASSUME NEW d \in old, NEW e \in ready
                 PROVE  next.index[d].sequence # next.index[e].sequence
      OBVIOUS
    <3>1. next.index[d].sequence < node.next /\ next.index[d].sequence \in Nat
      BY <1>3, <1>4, <1>7
    <3>2. next.index[e].sequence >= node.next /\ next.index[e].sequence \in Nat
      BY <1>2, <1>3, <1>5, <1>6
    <3> QED BY <1>3, <3>1, <3>2
  <2>3. ~(a \in ready /\ c \in ready)
    <3> SUFFICES ASSUME a \in ready, c \in ready PROVE FALSE
      OBVIOUS
    <3>1. a[1] = c[1] /\ a = <<a[1], a[2]>> /\ c = <<c[1], c[2]>>
      BY <1>2, <1>6
    <3> QED BY <1>11, <3>1
  <2> QED BY <1>1, <2>1, <2>2, <2>3
<1> QED BY <1>8, <1>9, <1>10, <1>11 DEF TreeInv, new

\* After a block arrived, there is a best candidate: that before, or the
\* highest of the new ones.
LEMMA BestAfter ==
  ASSUME NEW K \in Nat, NEW on \in BOOLEAN, NEW node, NodeInv(node, on, K),
         NEW b \in BlocksTo(K), b \notin DOMAIN node.index,
         NEW next, NEW ready, Linked(node, next, b, ready), TreeInv(next, K)
  PROVE  \E t : IsBest(next.index, on, t)
<1> DEFINE old == Cand(node.index)
           new == Cand(next.index)
           t == node.tip
           Worse(x, y) == R!Worse(next.index, on, x, y)
<1>1. /\ ready \cap old = {} /\ new = old \cup ready
      /\ \A c \in DOMAIN node.index : c \notin ready => next.index[c] = node.index[c]
      /\ old \subseteq DOMAIN node.index
  BY DEF Linked, Cand, R!Candidates
<1>2. t \in old /\ \A c \in old \ {t} : ~R!Worse(node.index, on, t, c)
  BY DEF NodeInv, IsBest
<1>3. \A c \in ready : c[1] = b[1]
  BY DEF Linked
<1>4. /\ \A x, y \in new : x # y => (Worse(x, y) <=> ~Worse(y, x))
      /\ \A x, y, z \in new : Worse(x, y) /\ Worse(y, z) => Worse(x, z)
  BY CandidatesAreOrdered
<1>5. \A c \in new : c[2] \in Nat /\ (c # R!Fork => c \in BlocksTo(K))
  BY CandidatesAre
<1>6. \A c \in ready : c # R!Fork
  BY DEF Linked
<1>7. \A x, y \in new : x[2] < y[2] => Worse(x, y)
  BY DEF R!Worse
<1>8. \A x, y \in new : Worse(x, y) => x[2] <= y[2]
  <2>1. \A x, y \in new : Worse(x, y) => x[2] < y[2] \/ x[2] = y[2]
    BY DEF R!Worse
  <2> HIDE DEF new, Worse
  <2> QED BY <1>5, <2>1
<1>9. \A x, y \in old : Worse(x, y) <=> R!Worse(node.index, on, x, y)
  <2>1. \A x \in old : next.index[x] = node.index[x]
    BY <1>1
  <2> QED BY <2>1 DEF R!Worse
<1> HIDE DEF old, new, Worse, t
<1> SUFFICES \E x \in new : \A c \in new \ {x} : ~Worse(x, c)
  BY DEF IsBest, new, Worse
<1>10. \A c \in old \ {t} : ~Worse(t, c)
  BY <1>2, <1>9
<1>11. CASE ready = {}
  BY <1>1, <1>2, <1>10, <1>11
<1>12. CASE ready # {}
  <2> DEFINE H == {h \in Nat : \A c \in ready : c[2] <= h}
  <2>1. PICK h \in H : \A i \in H : h <= i
    <3>1. \A c \in ready : c[2] \in 1..K
      BY <1>1, <1>5, <1>6, BlocksAre
    <3>2. K \in H
      BY <3>1
    <3>3. H \subseteq Nat /\ H # {}
      BY <3>2
    <3> HIDE DEF H
    <3> QED BY <3>3, LeastElement
  <2>2. h \in Nat /\ \A c \in ready : c[2] <= h /\ c[2] \in Nat
    BY <1>1, <1>5
  <2>3. PICK m \in ready : m[2] = h
    <3> SUFFICES ASSUME \A c \in ready : c[2] # h PROVE FALSE
      OBVIOUS
    <3>1. \A c \in ready : c[2] <= h - 1
      BY <2>2
    <3>2. h - 1 \in Nat
      BY <1>12, <2>2, <3>1
    <3>3. h - 1 \in H
      BY <3>1, <3>2
    <3> QED BY <2>1, <2>2, <3>3
  <2>4. \A c \in ready : c # m => c[2] < m[2]
    <3> SUFFICES ASSUME NEW c \in ready, c[2] = m[2] PROVE c = m
      BY <2>2, <2>3
    <3>1. c \in BlocksTo(K) /\ m \in BlocksTo(K)
      BY <1>1, <1>5, <1>6
    <3>2. c = <<c[1], c[2]>> /\ m = <<m[1], m[2]>>
      BY <3>1, BlocksAre
    <3> QED BY <1>3, <3>2
  <2>5. m \in new /\ t \in new /\ m # t
    BY <1>1, <1>2
  <2>6. CASE Worse(t, m)
    <3>1. ASSUME NEW c \in new, c # m PROVE ~Worse(m, c)
      <4>1. CASE c \in ready
        <5>1. ~(m[2] <= c[2])
          BY <1>5, <2>4, <2>5, <3>1, <4>1
        <5> QED BY <1>8, <2>5, <5>1
      <4>2. CASE c \in old
        <5>1. CASE c = t
          BY <1>4, <2>5, <2>6, <5>1
        <5>2. CASE c # t
          BY <1>4, <1>10, <2>5, <2>6, <4>2, <5>2
        <5> QED BY <5>1, <5>2
      <4> QED BY <1>1, <4>1, <4>2
    <3> QED BY <2>5, <3>1
  <2>7. CASE ~Worse(t, m)
    <3>1. ASSUME NEW c \in new, c # t PROVE ~Worse(t, c)
      <4>1. CASE c \in old
        BY <1>10, <3>1, <4>1
      <4>2. CASE c \in ready
        <5> SUFFICES ASSUME Worse(t, c), c # m PROVE FALSE
          BY <2>7
        <5>1. t[2] <= c[2] /\ c[2] < m[2]
          BY <1>8, <2>4, <2>5, <4>2
        <5>2. t[2] < m[2]
          BY <1>5, <2>5, <3>1, <5>1
        <5> QED BY <1>7, <2>5, <2>7, <5>2
      <4> QED BY <1>1, <4>1, <4>2
    <3> QED BY <2>5, <3>1
  <2> QED BY <2>6, <2>7
<1> QED BY <1>11, <1>12

LEMMA ReceiveInv ==
  ASSUME NEW K \in Nat, NEW on \in BOOLEAN, NEW node, NodeInv(node, on, K),
         NEW b \in BlocksTo(K), b \notin DOMAIN node.index, NEW score \in 0..Late, NEW now \in Int
  PROVE  NodeInv(R!Receive(node, on, b, score, now), on, K)
<1> DEFINE next == R!Receive(node, on, b, score, now)
<1>1. TreeInv(node, K)
  BY DEF NodeInv
<1>2. /\ next.tip = R!Activate(next.index, on) /\ next.index[b] \in Entry
      /\ \E ready : Linked(node, next, b, ready)
  BY <1>1, ReceiveIs
<1> HIDE DEF next
<1>3. PICK ready : Linked(node, next, b, ready)
  BY <1>2
<1>4. TreeInv(next, K)
  BY <1>1, <1>2, <1>3, LinkedInv
<1>5. PICK t : IsBest(next.index, on, t)
  BY <1>3, <1>4, BestAfter
<1>6. next.tip = t
  BY <1>2, <1>4, <1>5, BestIsTip
<1> QED BY <1>4, <1>5, <1>6 DEF NodeInv, next

\* After a restart the chain that was active has the lowest sequence.
LEMMA RestartInv ==
  ASSUME NEW K \in Nat, NEW on \in BOOLEAN, NEW node, NodeInv(node, on, K)
  PROVE  NodeInv(R!Restart(node), on, K)
<1> DEFINE next == R!Restart(node)
           S == Cand(node.index)
           t == node.tip
           Active(h) == R!Active(node, h)
           mark == [b \in DOMAIN node.index |->
                      IF b \notin S THEN None ELSE IF Active(b[2]) = b THEN 0 ELSE 1]
<1>1. TreeInv(node, K) /\ IsBest(node.index, on, t) /\ t \in S
  BY DEF NodeInv, IsBest
<1>2. /\ next.tip = t /\ next.next = node.next
      /\ DOMAIN next.index = DOMAIN node.index
      /\ \A b \in DOMAIN node.index :
           next.index[b] = [received |-> 0, score |-> 0, sequence |-> mark[b]]
  BY DEF R!Restart, Cand
<1>3. S \subseteq DOMAIN node.index
  BY DEF Cand, R!Candidates
<1>4. \A b \in S : b[2] \in Nat /\ (b # R!Fork => b \in BlocksTo(K)) /\ b[2] <= t[2]
  BY <1>1, CandidatesAre, BestIsHighest
<1>5. /\ R!Fork \in S /\ node.next \in Nat \ {0}
      /\ \A b \in S : /\ b # R!Fork => node.next > 1
                      /\ \A h \in 1..b[2] : <<b[1], h>> \in S
      /\ \A b \in DOMAIN node.index : b \in BlocksTo(K) \/ b = R!Fork
  BY <1>1 DEF TreeInv
<1>6. \A b \in S : Active(b[2]) \in S /\ Active(b[2])[2] = b[2]
  <2> SUFFICES ASSUME NEW b \in S PROVE Active(b[2]) \in S /\ Active(b[2])[2] = b[2]
    OBVIOUS
  <2>1. b[2] \in Nat /\ t[2] \in Nat /\ ~(b[2] > t[2])
    BY <1>1, <1>4
  <2> QED BY <1>1, <2>1, ActiveIs
<1>7. Active(R!Fork[2]) = R!Fork
  BY DEF R!Active, R!Fork
<1>8. Active(t[2]) = t
  <2>1. CASE t = R!Fork
    BY <1>7, <2>1
  <2>2. CASE t # R!Fork
    <3>1. t = <<t[1], t[2]>> /\ t[2] # 0 /\ t[2] <= t[2]
      BY <1>1, <1>4, <2>2, BlocksAre
    <3> QED BY <3>1 DEF R!Active
  <2> QED BY <2>1, <2>2
<1> HIDE DEF next, S, t, Active
<1>9. \A b \in DOMAIN node.index :
              /\ mark[b] \in Nat \cup {None} /\ (mark[b] # None <=> b \in S)
              /\ b \in S => mark[b] = IF Active(b[2]) = b THEN 0 ELSE 1
  BY <1>3, NoneAssumption
<1> HIDE DEF mark
<1>10. \A b \in DOMAIN node.index :
         next.index[b].sequence = mark[b] /\ next.index[b].score = 0 /\ next.index[b] \in Entry
  <2>1. 0 \in Int /\ 0 \in 0..Late
    BY WindowAssumption
  <2> SUFFICES ASSUME NEW b \in DOMAIN node.index
               PROVE  next.index[b].sequence = mark[b] /\ next.index[b].score = 0 /\ next.index[b] \in Entry
    OBVIOUS
  <2>2. next.index[b] = [received |-> 0, score |-> 0, sequence |-> mark[b]] /\ mark[b] \in Nat \cup {None}
    BY <1>2, <1>9
  <2> QED BY <2>1, <2>2 DEF Entry
<1>11. \A b \in S : next.index[b].sequence = IF Active(b[2]) = b THEN 0 ELSE 1
  BY <1>3, <1>9, <1>10
<1>12. Cand(next.index) = S
  <2>1. \A b \in DOMAIN node.index : next.index[b].sequence # None <=> b \in S
    BY <1>9, <1>10
  <2> QED BY <1>2, <1>3, <2>1 DEF Cand, R!Candidates
<1>13. \A b \in DOMAIN next.index : next.index[b] \in Entry
  BY <1>2, <1>10
<1>14. ASSUME NEW a \in S, NEW b \in S, a # b, a[2] = b[2]
       PROVE  next.index[a].sequence # next.index[b].sequence
  <2>1. a # R!Fork /\ b # R!Fork
    <3>1. R!Fork[2] = 0 /\ \A c \in BlocksTo(K) : c[2] # 0
      BY BlocksAre DEF R!Fork
    <3> QED BY <1>4, <1>14, <3>1
  <2> DEFINE x == Active(a[2])
  <2>2. x \in S /\ x[2] = a[2] /\ Active(b[2]) = x
    BY <1>6, <1>14
  <2> HIDE DEF x
  <2>3. x # R!Fork
    <3>1. R!Fork[2] = 0 /\ a[2] # 0
      BY <1>4, <2>1, BlocksAre DEF R!Fork
    <3> QED BY <2>2, <3>1
  <2>4. /\ a = <<a[1], a[2]>> /\ b = <<b[1], b[2]>> /\ x = <<x[1], x[2]>>
        /\ a[1] \in {"left", "right"} /\ b[1] \in {"left", "right"} /\ x[1] \in {"left", "right"}
    BY <1>4, <2>1, <2>2, <2>3, BlocksAre
  <2>5. a[1] # b[1]
    BY <1>14, <2>4
  <2>6. (x = a /\ x # b) \/ (x = b /\ x # a)
    BY <1>14, <2>2, <2>4, <2>5
  <2>7. Active(a[2]) = x
    BY DEF x
  <2> QED BY <1>11, <2>2, <2>6, <2>7
<1>15. ASSUME NEW b \in S PROVE next.index[b].sequence < next.next
  <2>1. CASE b = R!Fork
    BY <1>2, <1>5, <1>7, <1>11, <2>1
  <2>2. CASE b # R!Fork
    BY <1>2, <1>5, <1>11, <2>2
  <2> QED BY <2>1, <2>2
<1>16. TreeInv(next, K)
  BY <1>2, <1>5, <1>12, <1>13, <1>14, <1>15 DEF TreeInv
<1>17. ASSUME NEW c \in S, c # t PROVE ~R!Worse(next.index, on, t, c)
  <2>1. next.index[t].sequence = 0 /\ next.index[c].sequence \in {0, 1}
    BY <1>1, <1>8, <1>11
  <2>2. next.index[t].score = 0 /\ next.index[c].score = 0
    BY <1>1, <1>3, <1>10
  <2>3. c[2] \in Nat /\ t[2] \in Nat /\ c[2] <= t[2]
    BY <1>1, <1>4
  <2> QED BY <2>1, <2>2, <2>3 DEF R!Worse
<1>18. IsBest(next.index, on, next.tip)
  BY <1>1, <1>2, <1>12, <1>17 DEF IsBest
<1> QED BY <1>16, <1>18 DEF NodeInv, next

\* A block that arrives, or a restart.
Event(K) == [block : BlocksTo(K) \cup {None}, now : Int]

\* scores gives each block that arrives a score.
Scored(events, scores) ==
  \A n \in 1..Len(events) : events[n].block # None => scores[events[n].block] \in 0..Late

LEMMA StartInv ==
  ASSUME NEW K \in Nat, NEW on \in BOOLEAN
  PROVE  NodeInv(R!Start, on, K)
<1> DEFINE node == R!Start
<1>1. /\ DOMAIN node.index = {R!Fork}
      /\ node.index[R!Fork] = [received |-> 0, score |-> 0, sequence |-> 0]
      /\ node.next = 1 /\ node.tip = R!Fork
  BY DEF R!Start
<1> HIDE DEF node
<1>2. node.index[R!Fork] \in Entry /\ node.index[R!Fork].sequence = 0
  <2>1. 0 \in Int /\ 0 \in 0..Late /\ 0 \in Nat \cup {None}
    BY WindowAssumption
  <2> QED BY <1>1, <2>1 DEF Entry
<1>3. Cand(node.index) = {R!Fork}
  BY <1>1, <1>2, NoneAssumption DEF Cand, R!Candidates
<1>4. 1..R!Fork[2] = {}
  BY DEF R!Fork
<1>5. TreeInv(node, K)
  BY <1>1, <1>2, <1>3, <1>4 DEF TreeInv
<1>6. IsBest(node.index, on, node.tip)
  BY <1>1, <1>3 DEF IsBest
<1> QED BY <1>5, <1>6 DEF NodeInv, node

LEMMA AfterInv ==
  ASSUME NEW K \in Nat, NEW on \in BOOLEAN, NEW node, NodeInv(node, on, K),
         NEW e \in Event(K), NEW scores, e.block # None => scores[e.block] \in 0..Late
  PROVE  NodeInv(R!After(node, on, e, scores), on, K)
<1>1. e.block \in BlocksTo(K) \cup {None} /\ e.now \in Int
  BY DEF Event
<1>2. CASE e.block = None
  BY <1>2, RestartInv DEF R!After
<1>3. CASE e.block # None /\ e.block \in DOMAIN node.index
  BY <1>3 DEF R!After
<1>4. CASE e.block # None /\ e.block \notin DOMAIN node.index
  <2>1. R!After(node, on, e, scores) = R!Receive(node, on, e.block, scores[e.block], e.now)
    BY <1>4 DEF R!After
  <2> QED BY <1>1, <1>4, <2>1, ReceiveInv
<1> QED BY <1>2, <1>3, <1>4

\* Each event acts on what the one before it left.
LEMMA RunIs ==
  ASSUME NEW events, Len(events) \in Nat, NEW on, NEW scores
  PROVE  LET run == R!Run(events, on, scores)
         IN  /\ run[0] = R!Start
             /\ \A n \in 1..Len(events) : run[n] = R!After(run[n - 1], on, events[n], scores)
<1> DEFINE N == Len(events)
           Next1(node, n) == R!After(node, on, events[n], scores)
           Goes(f, m) == /\ f = [n \in 0..m |-> f[n]] /\ f[0] = R!Start
                         /\ \A n \in 1..m : f[n] = Next1(f[n - 1], n)
           body(f) == [n \in 0..N |-> IF n = 0 THEN R!Start ELSE Next1(f[n - 1], n)]
           run == CHOOSE f : f = body(f)
           S == {m \in Nat : \E f : Goes(f, m)}
<1>1. R!Run(events, on, scores) = run
  BY DEF R!Run
<1> HIDE DEF Next1, N
<1>2. 0 \in S
  <2>1. Goes([n \in 0..0 |-> R!Start], 0)
    OBVIOUS
  <2> QED BY <2>1
<1>3. ASSUME NEW m \in S PROVE m + 1 \in S
  <2>1. PICK f : Goes(f, m)
    OBVIOUS
  <2> DEFINE g == [n \in 0..(m + 1) |-> IF n = m + 1 THEN Next1(f[m], m + 1) ELSE f[n]]
  <2>2. m \in Nat /\ g[m + 1] = Next1(f[m], m + 1) /\ \A n \in 0..m : g[n] = f[n]
    OBVIOUS
  <2>3. g = [n \in 0..(m + 1) |-> g[n]]
    OBVIOUS
  <2> HIDE DEF g
  <2>4. g[0] = R!Start
    BY <2>1, <2>2
  <2>5. ASSUME NEW n \in 1..(m + 1) PROVE g[n] = Next1(g[n - 1], n)
    <3>1. CASE n = m + 1
      <4>1. n - 1 = m /\ m \in 0..m
        BY <2>2, <3>1
      <4> QED BY <2>2, <3>1, <4>1
    <3>2. CASE n # m + 1
      <4>1. n \in 1..m /\ n \in 0..m /\ n - 1 \in 0..m
        BY <2>2, <3>2
      <4>2. f[n] = Next1(f[n - 1], n)
        BY <2>1, <4>1
      <4> QED BY <2>2, <4>1, <4>2
    <3> QED BY <3>1, <3>2
  <2>6. Goes(g, m + 1)
    BY <2>3, <2>4, <2>5
  <2>7. m + 1 \in Nat
    BY <2>2
  <2> HIDE DEF Goes
  <2>8. \E h : Goes(h, m + 1)
    BY <2>6
  <2> QED BY <2>7, <2>8
<1>4. N \in S
  <2>1. S \subseteq Nat
    OBVIOUS
  <2>2. N \in Nat
    BY DEF N
  <2> HIDE DEF S
  <2> QED BY <1>2, <1>3, <2>1, <2>2, SetInduction
<1>5. N \in Nat
  BY DEF N
<1>6. PICK f : Goes(f, N)
  BY <1>4
<1>7. f = body(f)
  <2>1. \A n \in 0..N : n = 0 \/ n \in 1..N
    BY <1>5
  <2>2. \A n \in 0..N : f[n] = IF n = 0 THEN R!Start ELSE Next1(f[n - 1], n)
    BY <1>6, <2>1
  <2> QED BY <1>6, <2>2
<1>8. run = body(run)
  <2> HIDE DEF body
  <2> QED BY <1>7
<1> HIDE DEF run
<1>9. run[0] = R!Start /\ \A n \in 1..N : run[n] = Next1(run[n - 1], n)
  <2>1. 0 \in 0..N /\ \A n \in 1..N : n \in 0..N /\ n # 0
    BY <1>5
  <2> QED BY <1>8, <2>1
<1> QED BY <1>1, <1>9 DEF N, Next1

\* Every node of a run.
LEMMA RunInv ==
  ASSUME NEW K \in Nat, NEW on \in BOOLEAN, NEW events \in Seq(Event(K)), NEW scores,
         Scored(events, scores)
  PROVE  \A n \in 0..Len(events) : NodeInv(R!Run(events, on, scores)[n], on, K)
<1> DEFINE run == R!Run(events, on, scores)
           N == Len(events)
           S == {n \in Nat : n <= N => NodeInv(run[n], on, K)}
<1>1. N \in Nat /\ \A n \in 1..N : events[n] \in Event(K)
  OBVIOUS
<1>2. run[0] = R!Start /\ \A n \in 1..N : run[n] = R!After(run[n - 1], on, events[n], scores)
  BY <1>1, RunIs
<1>3. \A n \in 1..N : events[n].block # None => scores[events[n].block] \in 0..Late
  BY DEF Scored
<1> HIDE DEF run, N
<1>4. 0 \in S
  BY <1>2, StartInv
<1>5. ASSUME NEW n \in S PROVE n + 1 \in S
  <2> SUFFICES ASSUME n + 1 <= N PROVE NodeInv(run[n + 1], on, K)
    OBVIOUS
  <2>1. n + 1 \in 1..N /\ (n + 1) - 1 = n /\ n <= N /\ n \in Nat
    BY <1>1
  <2>2. run[n + 1] = R!After(run[n], on, events[n + 1], scores) /\ NodeInv(run[n], on, K)
    BY <1>2, <2>1
  <2> QED BY <1>1, <1>3, <2>1, <2>2, AfterInv
<1>6. \A n \in Nat : n \in S
  <2>1. S \subseteq Nat
    OBVIOUS
  <2> HIDE DEF S
  <2> QED BY <1>4, <1>5, <2>1, SetInduction
<1>7. \A n \in 0..N : NodeInv(run[n], on, K)
  BY <1>1, <1>6
<1> QED BY <1>7 DEF run, N

-----------------------------------------------------------------------------
(* A race whose blocks come after their parents.                           *)

\* What is in the index is there with all that it is built on.
Rooted(node) ==
  \A c \in DOMAIN node.index : \A h \in 1..c[2] : <<c[1], h>> \in DOMAIN node.index

\* Then nothing waits for a block that arrives.
LEMMA NothingWaits ==
  ASSUME NEW K \in Nat, NEW node, TreeInv(node, K), Rooted(node), NEW b \in BlocksTo(K),
         b \notin DOMAIN node.index, NEW next, NEW ready, Linked(node, next, b, ready)
  PROVE  ready \subseteq {b}
<1> SUFFICES ASSUME NEW c \in ready, c # b PROVE FALSE
  OBVIOUS
<1>1. c \in DOMAIN node.index /\ c # R!Fork /\ c[1] = b[1] /\ c[2] >= b[2]
  BY DEF Linked
<1>2. c \in BlocksTo(K)
  BY <1>1 DEF TreeInv
<1>3. b = <<b[1], b[2]>> /\ b[2] \in 1..K /\ c[2] \in 1..K
  BY <1>2, BlocksAre
<1>4. b[2] \in 1..c[2]
  BY <1>1, <1>3
<1>5. <<c[1], b[2]>> \in DOMAIN node.index
  BY <1>1, <1>4 DEF Rooted
<1> QED BY <1>1, <1>3, <1>5

\* The tip is left for as much work only while the race is on, and for a
\* lower score.
LEMMA TipChanges ==
  ASSUME NEW K \in Nat, NEW node, NodeInv(node, TRUE, K), Rooted(node), NEW b \in BlocksTo(K),
         b \notin DOMAIN node.index, NEW score \in 0..Late, NEW now \in Int
  PROVE  LET next == R!Receive(node, TRUE, b, score, now)
             before == node.tip
             after == next.tip
         IN  /\ after[2] >= before[2]
             /\ after # before /\ after[2] = before[2] =>
                  /\ now - node.index[before].received \in 0..Window
                  /\ next.index[after].score < node.index[before].score
<1> DEFINE next == R!Receive(node, TRUE, b, score, now)
           before == node.tip
           after == next.tip
           old == Cand(node.index)
           new == Cand(next.index)
<1>1. TreeInv(node, K) /\ IsBest(node.index, TRUE, before) /\ before \in old
  BY DEF NodeInv, IsBest
<1>2. TreeInv(next, K) /\ IsBest(next.index, TRUE, after) /\ after \in new
  BY ReceiveInv DEF NodeInv, IsBest
<1>3. /\ next.index[b].score = R!ScoreOf(node, b, score, now)
      /\ \E ready : Linked(node, next, b, ready)
  <2> DEFINE on == TRUE
             at == R!Receive(node, on, b, score, now)
  <2>1. on \in BOOLEAN
    OBVIOUS
  <2> HIDE DEF on
  <2>2. /\ at.index[b].score = R!ScoreOf(node, b, score, now)
        /\ \E ready : Linked(node, at, b, ready)
    BY <1>1, <2>1, ReceiveIs
  <2> QED BY <2>2 DEF on
<1> HIDE DEF next, before, after
<1>4. PICK ready : Linked(node, next, b, ready)
  BY <1>3
<1>5. ready \subseteq {b}
  BY <1>1, <1>4, NothingWaits
<1>6. /\ ready \cap old = {} /\ new = old \cup ready
      /\ \A c \in DOMAIN node.index : c \notin ready => next.index[c] = node.index[c]
      /\ \A c \in ready : next.index[c].sequence = node.next + c[2] - b[2]
  BY <1>4 DEF Linked
<1>7. \A c \in old : c \in DOMAIN node.index /\ next.index[c] = node.index[c]
  BY <1>6 DEF Cand, R!Candidates
<1>8. after[2] >= before[2]
  <2>1. before \in new /\ after[2] \in Nat /\ before[2] \in Nat
    BY <1>1, <1>2, <1>6, CandidatesAre
  <2> QED BY <1>2, <2>1, BestIsHighest
<1>9. ASSUME after # before, after[2] = before[2]
      PROVE  /\ now - node.index[before].received \in 0..Window
             /\ next.index[after].score < node.index[before].score
  <2>1. ~R!Worse(next.index, TRUE, after, before)
    BY <1>1, <1>2, <1>6, <1>9 DEF IsBest
  <2>2. after = b
    <3> SUFFICES ASSUME after \in old PROVE FALSE
      BY <1>2, <1>5, <1>6
    <3>1. ~R!Worse(node.index, TRUE, before, after)
      BY <1>1, <1>9 DEF IsBest
    <3>2. R!Worse(node.index, TRUE, after, before)
      BY <1>1, <1>9, <3>1, CandidatesAreOrdered
    <3>3. R!Worse(next.index, TRUE, after, before)
      BY <1>1, <1>7, <3>2 DEF R!Worse
    <3> QED BY <2>1, <3>3
  <2>3. b \in ready /\ b[2] \in 1..K /\ b \notin old
    BY <1>2, <1>5, <1>6, <1>7, <2>2, BlocksAre
  <2>4. before # R!Fork /\ before = <<before[1], before[2]>>
    <3>1. before # R!Fork
      BY <1>9, <2>2, <2>3 DEF R!Fork
    <3> QED BY <1>1, <3>1, CandidatesAre, BlocksAre
  <2>5. R!Active(node, b[2]) = before
    BY <1>9, <2>2, <2>3, <2>4 DEF R!Active, before
  <2>6. before \notin {None, b}
    BY <1>1, <1>9, <2>2, <2>4, CandidatesAre, BlocksAre
  <2>7. node.index[before].sequence < node.next /\ node.next \in Nat
        /\ node.index[before].sequence \in Nat /\ node.index[before].score \in 0..Late
    BY <1>1, CandidatesAre DEF TreeInv
  <2>8. next.index[b].sequence = node.next /\ next.index[before] = node.index[before]
    BY <1>1, <1>6, <1>7, <2>3, <2>7
  <2>9. next.index[b].score \in 0..Late
    BY <1>2, <2>2, CandidatesAre
  <2>10. next.index[b].score < node.index[before].score
    BY <1>9, <2>1, <2>2, <2>7, <2>8, <2>9, WindowAssumption DEF R!Worse
  <2>11. next.index[b].score # Late
    BY <2>7, <2>9, <2>10, WindowAssumption
  <2>12. now - node.index[before].received \in 0..Window
    BY <1>3, <2>5, <2>6, <2>11 DEF R!ScoreOf
  <2> QED BY <2>2, <2>10, <2>12
<1> QED BY <1>8, <1>9 DEF next, before, after

\* The blocks of the first n events.
Arrived(events, n, node) ==
  \A i \in 1..n : events[i].block # None => events[i].block \in DOMAIN node.index

LEMMA AfterRooted ==
  ASSUME NEW K \in Nat, NEW node, NodeInv(node, TRUE, K), Rooted(node),
         NEW e \in Event(K), NEW scores, e.block # None => scores[e.block] \in 0..Late,
         e.block # None /\ e.block[2] > 1 => R!Parent(e.block) \in DOMAIN node.index
  PROVE  LET next == R!After(node, TRUE, e, scores)
         IN  /\ Rooted(next)
             /\ DOMAIN node.index \subseteq DOMAIN next.index
             /\ e.block # None => e.block \in DOMAIN next.index
<1> DEFINE next == R!After(node, TRUE, e, scores)
           b == e.block
<1>1. b \in BlocksTo(K) \cup {None} /\ e.now \in Int
  BY DEF Event
<1>2. CASE b = None
  <2>1. next = R!Restart(node)
    BY <1>2 DEF R!After
  <2> HIDE DEF next
  <2>2. DOMAIN next.index = DOMAIN node.index
    BY <2>1 DEF R!Restart
  <2> QED BY <1>2, <2>2 DEF Rooted, next
<1>3. CASE b # None /\ b \in DOMAIN node.index
  <2>1. next = node
    BY <1>3 DEF R!After
  <2> QED BY <1>3, <2>1
<1>4. CASE b # None /\ b \notin DOMAIN node.index
  <2>1. next = R!Receive(node, TRUE, b, scores[b], e.now)
    BY <1>4 DEF R!After
  <2> HIDE DEF next
  <2>2. TreeInv(node, K) /\ b \in BlocksTo(K) /\ scores[b] \in 0..Late
    BY <1>1, <1>4 DEF NodeInv
  <2>3. \E ready : Linked(node, next, b, ready)
    <3> DEFINE score == scores[b]
    <3> HIDE DEF score, b
    <3> QED BY <1>1, <1>4, <2>1, <2>2, ReceiveIs DEF score
  <2>4. DOMAIN next.index = DOMAIN node.index \cup {b}
    BY <2>3 DEF Linked
  <2>5. b = <<b[1], b[2]>> /\ b[2] \in 1..K
    BY <2>2, BlocksAre
  <2>6. ASSUME NEW h \in 1..b[2] PROVE <<b[1], h>> \in DOMAIN next.index
    <3>1. CASE h = b[2]
      BY <2>4, <2>5, <3>1
    <3>2. CASE h # b[2]
      <4> DEFINE up == <<b[1], b[2] - 1>>
      <4>1. b[2] > 1 /\ b[2] # 1
        BY <2>5, <3>2
      <4>2. R!Parent(b) = up
        BY <2>2, <4>1, ParentIs
      <4>3. up \in DOMAIN node.index
        BY <1>4, <4>1, <4>2
      <4>4. up[1] = b[1] /\ up[2] = b[2] - 1
        OBVIOUS
      <4> HIDE DEF up
      <4>5. h \in 1..up[2]
        BY <2>5, <3>2, <4>4
      <4>6. <<up[1], h>> \in DOMAIN node.index
        BY <4>3, <4>5 DEF Rooted
      <4> QED BY <2>4, <4>4, <4>6
    <3> QED BY <3>1, <3>2
  <2>7. Rooted(next)
    <3> HIDE DEF b
    <3> QED BY <2>4, <2>6 DEF Rooted
  <2> QED BY <2>4, <2>7 DEF next
<1> QED BY <1>2, <1>3, <1>4

\* If every block comes after its parent, every index is rooted.
LEMMA RunRooted ==
  ASSUME NEW K \in Nat, NEW events \in Seq(Event(K)), NEW scores,
         Scored(events, scores), R!ParentsFirst(events)
  PROVE  \A n \in 0..Len(events) : Rooted(R!Run(events, TRUE, scores)[n])
<1> DEFINE run == R!Run(events, TRUE, scores)
           N == Len(events)
           Good(n) == Rooted(run[n]) /\ Arrived(events, n, run[n])
           S == {n \in Nat : n <= N => Good(n)}
<1>1. N \in Nat /\ \A n \in 1..N : events[n] \in Event(K)
  OBVIOUS
<1>2. run[0] = R!Start /\ \A n \in 1..N : run[n] = R!After(run[n - 1], TRUE, events[n], scores)
  BY <1>1, RunIs
<1>3. \A n \in 1..N : events[n].block # None => scores[events[n].block] \in 0..Late
  BY DEF Scored
<1>4. \A n \in 0..N : NodeInv(run[n], TRUE, K)
  BY RunInv
<1>5. \A n \in 1..N : events[n].block # None /\ events[n].block[2] > 1 =>
        \E j \in 1..n - 1 : events[j].block = R!Parent(events[n].block)
  BY <1>1 DEF R!ParentsFirst
<1> HIDE DEF run, N
<1>6. 0 \in S
  <2>1. DOMAIN R!Start.index = {R!Fork} /\ 1..R!Fork[2] = {}
    BY DEF R!Start, R!Fork
  <2>2. Rooted(R!Start)
    BY <2>1 DEF Rooted
  <2>3. Arrived(events, 0, R!Start)
    BY DEF Arrived
  <2> QED BY <1>2, <2>2, <2>3
<1>7. ASSUME NEW n \in S PROVE n + 1 \in S
  <2> SUFFICES ASSUME n + 1 <= N PROVE Good(n + 1)
    OBVIOUS
  <2> DEFINE e == events[n + 1]
             node == run[n]
             next == run[n + 1]
  <2>1. n \in Nat /\ n + 1 \in 1..N /\ (n + 1) - 1 = n /\ n <= N /\ n \in 0..N
    BY <1>1
  <2>2. /\ next = R!After(node, TRUE, e, scores) /\ Rooted(node) /\ Arrived(events, n, node)
        /\ NodeInv(node, TRUE, K) /\ e \in Event(K)
        /\ e.block # None => scores[e.block] \in 0..Late
    BY <1>1, <1>2, <1>3, <1>4, <2>1
  <2>3. e.block # None /\ e.block[2] > 1 => R!Parent(e.block) \in DOMAIN node.index
    <3> SUFFICES ASSUME e.block # None, e.block[2] > 1 PROVE R!Parent(e.block) \in DOMAIN node.index
      OBVIOUS
    <3>1. PICK j \in 1..n : events[j].block = R!Parent(e.block)
      BY <1>5, <2>1
    <3>2. R!Parent(e.block) # None
      <4>1. e.block \in BlocksTo(K)
        BY <2>2 DEF Event
      <4>2. e.block = <<e.block[1], e.block[2]>> /\ e.block[1] \in {"left", "right"} /\ e.block[2] \in 1..K
        BY <4>1, BlocksAre
      <4>3. R!Parent(e.block) = <<e.block[1], e.block[2] - 1>> /\ e.block[2] - 1 \in Nat
        BY <4>1, <4>2, ParentIs
      <4>4. R!Parent(e.block) \in {"left", "right"} \X Nat
        BY <4>2, <4>3
      <4> QED BY <4>4, NoneAssumption
    <3> QED BY <2>2, <3>1, <3>2 DEF Arrived
  <2> HIDE DEF e, node, next
  <2>4. /\ Rooted(next) /\ DOMAIN node.index \subseteq DOMAIN next.index
        /\ e.block # None => e.block \in DOMAIN next.index
    BY <2>2, <2>3, AfterRooted
  <2>5. Arrived(events, n + 1, next)
    <3>1. \A i \in 1..n + 1 : i \in 1..n \/ i = n + 1
      BY <2>1
    <3> QED BY <2>2, <2>4, <3>1 DEF Arrived, e
  <2> QED BY <2>4, <2>5 DEF next
<1>8. \A n \in Nat : n \in S
  <2>1. S \subseteq Nat
    OBVIOUS
  <2> HIDE DEF S
  <2> QED BY <1>6, <1>7, <2>1, SetInduction
<1>9. \A n \in 0..N : Rooted(run[n])
  BY <1>1, <1>8
<1> QED BY <1>9 DEF run, N

\* Work always decides, and at equal work the tip is left only while the race
\* is on and for a lower score.
LEMMA RacesEnd ==
  ASSUME NEW K \in Nat, NEW events \in Seq(Event(K)), NEW scores,
         Scored(events, scores), R!ParentsFirst(events)
  PROVE  R!RacesEndInWindow(events, scores)
<1> DEFINE run == R!Run(events, TRUE, scores)
           N == Len(events)
<1>1. N \in Nat /\ DOMAIN events = 1..N /\ \A n \in 1..N : events[n] \in Event(K)
  OBVIOUS
<1>2. run[0] = R!Start /\ \A n \in 1..N : run[n] = R!After(run[n - 1], TRUE, events[n], scores)
  BY <1>1, RunIs
<1>3. \A n \in 1..N : events[n].block # None => scores[events[n].block] \in 0..Late
  BY DEF Scored
<1>4. \A n \in 0..N : NodeInv(run[n], TRUE, K) /\ Rooted(run[n])
  BY RunInv, RunRooted
<1> HIDE DEF run, N
<1>5. ASSUME NEW i \in 1..N
      PROVE  /\ run[i].tip[2] >= run[i - 1].tip[2]
             /\ run[i].tip # run[i - 1].tip /\ run[i].tip[2] = run[i - 1].tip[2] =>
                  /\ events[i].now - run[i - 1].index[run[i - 1].tip].received \in 0..Window
                  /\ run[i].index[run[i].tip].score < run[i - 1].index[run[i - 1].tip].score
  <2> DEFINE node == run[i - 1]
             next == run[i]
             e == events[i]
             b == e.block
             score == scores[b]
  <2>1. i - 1 \in 0..N
    BY <1>1
  <2>2. /\ next = R!After(node, TRUE, e, scores)
        /\ NodeInv(node, TRUE, K) /\ Rooted(node) /\ e \in Event(K)
        /\ b # None => score \in 0..Late
    BY <1>1, <1>2, <1>3, <1>4, <2>1
  <2>3. b \in BlocksTo(K) \cup {None} /\ e.now \in Int
    BY <2>2 DEF Event
  <2>4. node.tip[2] \in Nat
    BY <2>2, CandidatesAre DEF NodeInv, IsBest
  <2> HIDE DEF node, next, e
  <2>5. CASE b = None \/ b \in DOMAIN node.index
    <3>1. next.tip = node.tip
      BY <2>2, <2>5 DEF R!After, R!Restart
    <3> QED BY <2>4, <3>1 DEF node, next, e
  <2>6. CASE b # None /\ b \notin DOMAIN node.index
    <3>1. next = R!Receive(node, TRUE, b, score, e.now)
      BY <2>2, <2>6 DEF R!After
    <3>2. b \in BlocksTo(K) /\ score \in 0..Late
      BY <2>2, <2>3, <2>6
    <3> HIDE DEF b, score
    <3>3. /\ next.tip[2] >= node.tip[2]
          /\ next.tip # node.tip /\ next.tip[2] = node.tip[2] =>
               /\ e.now - node.index[node.tip].received \in 0..Window
               /\ next.index[next.tip].score < node.index[node.tip].score
      BY <2>2, <2>3, <2>6, <3>1, <3>2, TipChanges
    <3> QED BY <3>3 DEF node, next, e
  <2> QED BY <2>5, <2>6
<1>6. \A i \in DOMAIN events :
        /\ run[i].tip[2] >= run[i - 1].tip[2]
        /\ run[i].tip # run[i - 1].tip /\ run[i].tip[2] = run[i - 1].tip[2] =>
             /\ events[i].now - run[i - 1].index[run[i - 1].tip].received \in 0..Window
             /\ run[i].index[run[i].tip].score < run[i - 1].index[run[i - 1].tip].score
  BY <1>1, <1>5
<1> QED BY <1>6 DEF R!RacesEndInWindow, run

-----------------------------------------------------------------------------
(* A race in which the score of every block is 0, as SpamScore stands.     *)

\* A score is not 0 only if the block was late: a candidate of its height
\* came before it.
ZeroInv(node) ==
  \A c \in DOMAIN node.index : node.index[c].score # 0 =>
    \E d \in Cand(node.index) :
      d # c /\ d[2] = c[2]
      /\ (c \in Cand(node.index) => node.index[c].sequence > node.index[d].sequence)

\* Then scores say what sequences say.
LEMMA ScoresAgree ==
  ASSUME NEW K \in Nat, NEW node, TreeInv(node, K), ZeroInv(node),
         NEW a \in Cand(node.index), NEW b \in Cand(node.index)
  PROVE  R!Worse(node.index, TRUE, a, b) <=> R!Worse(node.index, FALSE, a, b)
<1> DEFINE index == node.index
           S == Cand(index)
<1>1. \A c \in S : /\ c \in DOMAIN index /\ c[2] \in Nat
                   /\ index[c].score \in Nat /\ index[c].sequence \in Nat
  <2>1. \A c \in S : index[c].score \in 0..Late
    BY CandidatesAre
  <2> QED BY <2>1, CandidatesAre, WindowAssumption
<1>2. \A c \in S : index[c].score # 0 =>
        \E d \in S : d # c /\ d[2] = c[2] /\ index[c].sequence > index[d].sequence
  BY <1>1 DEF ZeroInv
<1>3. ASSUME a # b, a[2] = b[2], NEW d \in S, d[2] = a[2] PROVE d = a \/ d = b
  <2>1. R!Fork[2] = 0 /\ \A c \in BlocksTo(K) : c[2] # 0
    BY BlocksAre DEF R!Fork
  <2>2. a \in BlocksTo(K) /\ b \in BlocksTo(K) /\ d \in BlocksTo(K)
    BY <1>3, <2>1, CandidatesAre
  <2>3. /\ a = <<a[1], a[2]>> /\ b = <<b[1], b[2]>> /\ d = <<d[1], d[2]>>
        /\ a[1] \in {"left", "right"} /\ b[1] \in {"left", "right"} /\ d[1] \in {"left", "right"}
    BY <2>2, BlocksAre
  <2> QED BY <1>3, <2>3
<1> HIDE DEF index, S
<1>4. CASE a[2] # b[2]
  BY <1>1, <1>4 DEF R!Worse, index, S
<1>5. CASE a = b
  <2>1. ~R!Worse(index, TRUE, a, a) /\ ~R!Worse(index, FALSE, a, a)
    BY <1>1 DEF R!Worse, S, index
  <2> QED BY <1>5, <2>1 DEF index
<1>6. CASE a # b /\ a[2] = b[2]
  <2> DEFINE p == index[a].score  q == index[b].score
             v == index[a].sequence  w == index[b].sequence
  <2>1. a \in S /\ b \in S /\ p \in Nat /\ q \in Nat /\ v \in Nat /\ w \in Nat
    BY <1>1 DEF S, index
  <2>2. p # 0 => v > w
    BY <1>2, <1>3, <1>6, <2>1
  <2>3. q # 0 => w > v
    BY <1>2, <1>3, <1>6, <2>1
  <2>4. R!Worse(index, TRUE, a, b) <=> p > q \/ (p = q /\ v > w)
    BY <1>1, <1>6, <2>1 DEF R!Worse
  <2>5. R!Worse(index, FALSE, a, b) <=> v > w
    BY <1>1, <1>6, <2>1 DEF R!Worse
  <2> HIDE DEF p, q, v, w
  <2>6. p > q \/ (p = q /\ v > w) <=> v > w
    BY <2>1, <2>2, <2>3
  <2> QED BY <2>4, <2>5, <2>6 DEF index
<1> QED BY <1>4, <1>5, <1>6

\* A block that arrives is as good with the option as without it.
LEMMA ReceiveAgrees ==
  ASSUME NEW K \in Nat, NEW node, NodeInv(node, TRUE, K), ZeroInv(node), NEW b \in BlocksTo(K),
         b \notin DOMAIN node.index, NEW now \in Int
  PROVE  /\ ZeroInv(R!Receive(node, TRUE, b, 0, now))
         /\ R!Receive(node, FALSE, b, 0, now) = R!Receive(node, TRUE, b, 0, now)
<1> DEFINE next == R!Receive(node, TRUE, b, 0, now)
           off == R!Receive(node, FALSE, b, 0, now)
           old == Cand(node.index)
           new == Cand(next.index)
<1>1. TreeInv(node, K) /\ IsBest(node.index, TRUE, node.tip) /\ 0 \in 0..Late
  <2>1. 0 \in 0..Late
    BY WindowAssumption
  <2> QED BY <2>1 DEF NodeInv
<1>2. TreeInv(next, K) /\ IsBest(next.index, TRUE, next.tip)
  BY <1>1, ReceiveInv DEF NodeInv
<1>3. /\ next.tip = R!Activate(next.index, TRUE)
      /\ next.index[b].score = R!ScoreOf(node, b, 0, now)
      /\ \E ready : Linked(node, next, b, ready)
  <2> DEFINE on == TRUE
             at == R!Receive(node, on, b, 0, now)
  <2>1. on \in BOOLEAN
    OBVIOUS
  <2> HIDE DEF on
  <2>2. /\ at.tip = R!Activate(at.index, on)
        /\ at.index[b].score = R!ScoreOf(node, b, 0, now)
        /\ \E ready : Linked(node, at, b, ready)
    BY <1>1, <2>1, ReceiveIs
  <2> QED BY <2>2 DEF on
<1>4. /\ next = [index |-> next.index, tip |-> R!Activate(next.index, TRUE), next |-> next.next]
      /\ off = [index |-> next.index, tip |-> R!Activate(next.index, FALSE), next |-> next.next]
  BY DEF R!Receive
<1> HIDE DEF next, off
<1>5. PICK ready : Linked(node, next, b, ready)
  BY <1>3
<1>6. /\ DOMAIN next.index = DOMAIN node.index \cup {b}
      /\ ready \cap old = {} /\ new = old \cup ready
      /\ \A c \in DOMAIN node.index :
           (c \notin ready => next.index[c] = node.index[c]) /\ next.index[c].score = node.index[c].score
      /\ \A c \in ready : c[2] >= b[2] /\ c # R!Fork /\ c \in DOMAIN next.index
                          /\ next.index[c].sequence = node.next + c[2] - b[2]
  BY <1>5 DEF Linked
<1>7. \A c \in old : c \in DOMAIN node.index /\ next.index[c] = node.index[c]
                     /\ next.index[c].sequence < node.next /\ next.index[c].sequence \in Nat
  <2>1. \A c \in old : c \in DOMAIN node.index /\ node.index[c].sequence \in Nat
    BY <1>1, CandidatesAre
  <2>2. \A c \in old : node.index[c].sequence < node.next
    BY <1>1 DEF TreeInv
  <2> QED BY <1>6, <2>1, <2>2
<1>8. ASSUME NEW c \in ready, NEW d \in old
      PROVE  next.index[c].sequence > next.index[d].sequence
  <2>1. c[2] \in Nat /\ b[2] \in Nat /\ node.next \in Nat
    <3>1. c \in BlocksTo(K)
      BY <1>2, <1>6 DEF TreeInv
    <3> QED BY <1>1, <3>1, BlocksAre DEF TreeInv
  <2> QED BY <1>6, <1>7, <2>1
<1>9. ASSUME NEW c \in DOMAIN next.index, next.index[c].score # 0
      PROVE  \E d \in old : d # c /\ d[2] = c[2]
                            /\ (c \in old => node.index[c].sequence > node.index[d].sequence)
  <2>1. CASE c = b
    <3> DEFINE i == R!Active(node, b[2])
    <3>1. i \notin {None, b}
      BY <1>3, <1>9, <2>1 DEF R!ScoreOf
    <3>2. b[2] \in Nat /\ node.tip[2] \in Nat
      <4>1. node.tip \in old
        BY <1>1 DEF IsBest
      <4> QED BY <1>1, <4>1, CandidatesAre, BlocksAre
    <3>3. IF b[2] > node.tip[2] THEN i = None ELSE i \in old /\ i[2] = b[2]
      BY <1>1, <3>2, ActiveIs
    <3> HIDE DEF i
    <3>4. b \notin old
      BY <1>7
    <3> QED BY <2>1, <3>1, <3>3, <3>4
  <2>2. CASE c # b
    <3>1. c \in DOMAIN node.index /\ node.index[c].score # 0
      BY <1>6, <1>9, <2>2
    <3> QED BY <3>1 DEF ZeroInv
  <2> QED BY <2>1, <2>2
<1>10. ZeroInv(next)
  <2> SUFFICES ASSUME NEW c \in DOMAIN next.index, next.index[c].score # 0
               PROVE  \E d \in new : d # c /\ d[2] = c[2]
                        /\ (c \in new => next.index[c].sequence > next.index[d].sequence)
    BY DEF ZeroInv
  <2>1. PICK d \in old : d # c /\ d[2] = c[2]
                         /\ (c \in old => node.index[c].sequence > node.index[d].sequence)
    BY <1>9
  <2>2. c \in new => next.index[c].sequence > next.index[d].sequence
    BY <1>6, <1>7, <1>8, <2>1
  <2> QED BY <1>6, <2>1, <2>2
<1>11. \A x, y \in new : R!Worse(next.index, TRUE, x, y) <=> R!Worse(next.index, FALSE, x, y)
  BY <1>2, <1>10, ScoresAgree
<1>12. IsBest(next.index, FALSE, next.tip)
  BY <1>2, <1>11 DEF IsBest
<1>13. R!Activate(next.index, FALSE) = next.tip
  BY <1>2, <1>12, BestIsTip
<1>14. off = next
  BY <1>3, <1>4, <1>13
<1> QED BY <1>10, <1>14 DEF next, off

LEMMA AfterAgrees ==
  ASSUME NEW K \in Nat, NEW node, NodeInv(node, TRUE, K), ZeroInv(node),
         NEW e \in Event(K), NEW scores, e.block # None => scores[e.block] = 0
  PROVE  /\ ZeroInv(R!After(node, TRUE, e, scores))
         /\ R!After(node, FALSE, e, scores) = R!After(node, TRUE, e, scores)
<1>1. e.block \in BlocksTo(K) \cup {None} /\ e.now \in Int
  BY DEF Event
<1>2. CASE e.block = None
  <2>1. R!After(node, TRUE, e, scores) = R!Restart(node) /\ R!After(node, FALSE, e, scores) = R!Restart(node)
    BY <1>2 DEF R!After
  <2>2. \A c \in DOMAIN R!Restart(node).index : R!Restart(node).index[c].score = 0
    BY DEF R!Restart
  <2>3. ZeroInv(R!Restart(node))
    <3> DEFINE next == R!Restart(node)
    <3> HIDE DEF next
    <3> QED BY <2>2 DEF ZeroInv, next
  <2> QED BY <2>1, <2>3
<1>3. CASE e.block # None /\ e.block \in DOMAIN node.index
  BY <1>3 DEF R!After
<1>4. CASE e.block # None /\ e.block \notin DOMAIN node.index
  <2>1. /\ R!After(node, TRUE, e, scores) = R!Receive(node, TRUE, e.block, 0, e.now)
        /\ R!After(node, FALSE, e, scores) = R!Receive(node, FALSE, e.block, 0, e.now)
    BY <1>4 DEF R!After
  <2> QED BY <1>1, <1>4, <2>1, ReceiveAgrees
<1> QED BY <1>2, <1>3, <1>4

\* With scores of 0 the option changes no tip.
LEMMA RunsAgree ==
  ASSUME NEW K \in Nat, NEW events \in Seq(Event(K))
  PROVE  R!ShippedIsNoOp(events)
<1> DEFINE zero == [b \in {events[i].block : i \in DOMAIN events} |-> 0]
           on == R!Run(events, TRUE, zero)
           off == R!Run(events, FALSE, zero)
           N == Len(events)
           S == {n \in Nat : n <= N => off[n] = on[n] /\ ZeroInv(on[n])}
<1>1. N \in Nat /\ DOMAIN events = 1..N /\ \A n \in 1..N : events[n] \in Event(K)
  OBVIOUS
<1>2. \A n \in 1..N : zero[events[n].block] = 0
  BY <1>1
<1> HIDE DEF zero
<1>3. /\ on[0] = R!Start /\ \A n \in 1..N : on[n] = R!After(on[n - 1], TRUE, events[n], zero)
      /\ off[0] = R!Start /\ \A n \in 1..N : off[n] = R!After(off[n - 1], FALSE, events[n], zero)
  <2> DEFINE run(x) == R!Run(events, x, zero)
  <2>1. \A x \in BOOLEAN :
          run(x)[0] = R!Start /\ \A n \in 1..N : run(x)[n] = R!After(run(x)[n - 1], x, events[n], zero)
    BY <1>1, RunIs
  <2>2. run(TRUE)[0] = R!Start /\ \A n \in 1..N : run(TRUE)[n] = R!After(run(TRUE)[n - 1], TRUE, events[n], zero)
    BY <2>1, Zenon
  <2>3. run(FALSE)[0] = R!Start /\ \A n \in 1..N : run(FALSE)[n] = R!After(run(FALSE)[n - 1], FALSE, events[n], zero)
    BY <2>1, Zenon
  <2> QED BY <2>2, <2>3
<1>4. Scored(events, zero)
  <2>1. 0 \in 0..Late
    BY WindowAssumption
  <2> QED BY <1>2, <2>1 DEF Scored
<1>5. \A n \in 0..N : NodeInv(on[n], TRUE, K)
  BY <1>4, RunInv
<1> HIDE DEF on, off, N
<1>6. 0 \in S
  <2>1. \A c \in DOMAIN R!Start.index : R!Start.index[c].score = 0
    BY DEF R!Start
  <2>2. ZeroInv(R!Start)
    <3> DEFINE node == R!Start
    <3> HIDE DEF node
    <3> QED BY <2>1 DEF ZeroInv, node
  <2> QED BY <1>3, <2>2
<1>7. ASSUME NEW n \in S PROVE n + 1 \in S
  <2> SUFFICES ASSUME n + 1 <= N PROVE off[n + 1] = on[n + 1] /\ ZeroInv(on[n + 1])
    OBVIOUS
  <2>1. n \in Nat /\ n + 1 \in 1..N /\ (n + 1) - 1 = n /\ n <= N /\ n \in 0..N
    BY <1>1
  <2>2. /\ on[n + 1] = R!After(on[n], TRUE, events[n + 1], zero)
        /\ off[n + 1] = R!After(off[n], FALSE, events[n + 1], zero)
    BY <1>3, <2>1
  <2>3. off[n] = on[n] /\ ZeroInv(on[n]) /\ NodeInv(on[n], TRUE, K)
    BY <1>5, <2>1
  <2>4. events[n + 1] \in Event(K) /\ zero[events[n + 1].block] = 0
    BY <1>1, <1>2, <2>1
  <2> DEFINE node == on[n]
             e == events[n + 1]
  <2> HIDE DEF node, e
  <2>5. /\ ZeroInv(R!After(node, TRUE, e, zero))
        /\ R!After(node, FALSE, e, zero) = R!After(node, TRUE, e, zero)
    <3>1. ZeroInv(node) /\ NodeInv(node, TRUE, K) /\ e \in Event(K) /\ zero[e.block] = 0
      BY <2>3, <2>4 DEF node, e
    <3> QED BY <3>1, AfterAgrees
  <2> QED BY <2>2, <2>3, <2>5 DEF node, e
<1>8. \A n \in Nat : n \in S
  <2>1. S \subseteq Nat
    OBVIOUS
  <2> HIDE DEF S
  <2> QED BY <1>6, <1>7, <2>1, SetInduction
<1>9. \A n \in 0..N : on[n].tip = off[n].tip
  BY <1>1, <1>8
<1> QED BY <1>9 DEF R!ShippedIsNoOp, on, off, zero, N

\* TipsAreStable for two branches of any number of blocks each, any number of
\* events and any scores: the tip has the most work, the option changes it
\* only within the window, and as shipped it never does.
\* (CBlockIndexWorkComparator, ReceivedBlockTransactions)
THEOREM TipsTheorem ==
  ASSUME NEW K \in Nat,
         Is("race") => /\ input.is[1] \in Seq(Event(K))
                       /\ Scored(input.is[1], input.is[2])
  PROVE  TipsAreStable
BY RacesEnd, RunsAgree DEF TipsAreStable

-----------------------------------------------------------------------------
(* What is decided of every input that a behaviour takes.                  *)

Deciding == input = Nothing /\ [][Output \/ Race]_input

Decidable ==
  /\ Is("output") => input.is \in AnyScripts
  /\ Is("race") => input.is[1] \in Seq(Event(2)) /\ Scored(input.is[1], input.is[2])

LEMMA LensAre == Lens \subseteq Nat
<1>1. \A i, o \in {1, 16} : C!ExpectedLen(i, o) \in Nat /\ C!ExpectedLen(i, o) > 1
  BY DEF C!ExpectedLen, C!CompactSizeLen, C!Header
<1>2. \A i, o \in {1, 16}, d \in {-1, 0, 2} : C!ExpectedLen(i, o) + d \in Nat
  <2>1. \A n \in Nat, d \in {-1, 0, 2} : n > 1 => n + d \in Nat
    OBVIOUS
  <2> QED BY <1>1, <2>1
<1> QED BY <1>2 DEF Lens

LEMMA OutputIs ==
  ASSUME Output
  PROVE  input'.of = "output" /\ input'.is \in AnyScripts
<1>1. PICK a \in {i \in Items : i.form \in C!FormsFor(i.len)}, content \in Contents,
           end \in {"whole", "cut", "opcode"}, opens \in BOOLEAN,
           b \in {None, [len |-> 1, form |-> "direct"], [len |-> 305, form |-> "pushdata2"]} :
             input' = [of |-> "output",
                       is |-> [opens |-> opens, end |-> end, content |-> content,
                               items |-> IF b = None THEN <<a>> ELSE <<a, b>>]]
  BY Zenon DEF Output
<1>2. a \in AnyItems
  <2>1. a.len \in Nat /\ a.form \in C!Form /\ a = [len |-> a.len, form |-> a.form]
    BY LensAre DEF Items
  <2>2. a \in [len : Nat, form : C!Form]
    BY <2>1
  <2> QED BY <2>2 DEF AnyItems
<1>3. b = None \/ b \in AnyItems
  BY DEF AnyItems, C!Form, C!FormsFor
<1>4. content \in AnyContents
  <2>1. Counts \subseteq AnyCounts
    BY DEF Counts, AnyCounts
  <2>2. /\ \A m \in BOOLEAN, i, o \in Counts :
             [magic |-> m, version |-> 1, type |-> 1, in |-> i, out |-> o] \in AnyContents
        /\ \A v \in {1, 9}, c \in Counts :
             [magic |-> TRUE, version |-> v, type |-> 10 - v, in |-> c, out |-> c] \in AnyContents
    BY <2>1 DEF AnyContents
  <2> QED BY <2>2 DEF Contents
<1> DEFINE items == IF b = None THEN <<a>> ELSE <<a, b>>
<1>5. items \in Seq(AnyItems)
  BY <1>2, <1>3
<1> HIDE DEF items
<1>6. [opens |-> opens, end |-> end, content |-> content, items |-> items] \in AnyScripts
  BY <1>4, <1>5 DEF AnyScripts
<1>7. input'.of = "output"
      /\ input'.is = [opens |-> opens, end |-> end, content |-> content, items |-> items]
  BY <1>1 DEF items
<1> QED BY <1>6, <1>7

LEMMA PairCounts ==
  ASSUME NEW x, NEW y, x # y
  PROVE  IsFiniteSet({x, y}) /\ Cardinality({x, y}) = 2
<1> DEFINE S == {x}
<1>1. IsFiniteSet(S) /\ Cardinality(S) = 1
  BY FS_Singleton
<1>2. y \notin S
  OBVIOUS
<1>3. S \cup {y} = {x, y}
  OBVIOUS
<1> HIDE DEF S
<1>4. IsFiniteSet(S \cup {y}) /\ Cardinality(S \cup {y}) = 1 + 1
  BY <1>1, <1>2, FS_AddElement
<1> QED BY <1>3, <1>4

LEMMA RaceIs ==
  ASSUME Race
  PROVE  /\ input'.of = "race"
         /\ input'.is[1] \in Seq(Event(2)) /\ Scored(input'.is[1], input'.is[2])
<1>1. PICK order \in SetToSeqs(Blocks), scores \in [Blocks -> {0, 1}],
           pauses \in [1..3 -> {-1, 1, Window + 1}], restart \in {0, 2, 3} :
             LET now(i) == 10 + (IF i > 1 THEN pauses[1] ELSE 0) + (IF i > 2 THEN pauses[2] ELSE 0)
                              + (IF i > 3 THEN pauses[3] ELSE 0)
                 arrivals == [i \in 1..4 |-> [block |-> order[i], now |-> now(i)]]
             IN input' = [of |-> "race",
                          is |-> <<IF restart = 0 THEN arrivals
                                   ELSE InsertAt(arrivals, restart + 1, [block |-> None, now |-> now(restart)]),
                                   scores>>]
  BY Zenon DEF Race
<1> DEFINE now(i) == 10 + (IF i > 1 THEN pauses[1] ELSE 0) + (IF i > 2 THEN pauses[2] ELSE 0)
                        + (IF i > 3 THEN pauses[3] ELSE 0)
           arrivals == [i \in 1..4 |-> [block |-> order[i], now |-> now(i)]]
           pause == [block |-> None, now |-> now(restart)]
           events == IF restart = 0 THEN arrivals ELSE InsertAt(arrivals, restart + 1, pause)
<1>2. Blocks = BlocksTo(2)
  BY DEF Blocks, BlocksTo
<1>3. order \in [1..4 -> Blocks]
  <2>1. IsFiniteSet(Blocks) /\ Cardinality(Blocks) = 4
    <3>1. IsFiniteSet({"left", "right"}) /\ Cardinality({"left", "right"}) = 2
      BY PairCounts
    <3>2. IsFiniteSet({1, 2}) /\ Cardinality({1, 2}) = 2
      <4>1. 1 # 2
        OBVIOUS
      <4> QED BY <4>1, PairCounts, Zenon
    <3>3. IsFiniteSet(Blocks) /\ Cardinality(Blocks) = 2 * 2
      BY <3>1, <3>2, FS_Product DEF Blocks
    <3> QED BY <3>3
  <2> QED BY <2>1 DEF SetToSeqs
<1>4. \A i \in Int : now(i) \in Int
  BY WindowAssumption
<1> HIDE DEF now
<1>5. \A i \in 1..4 : arrivals[i] \in Event(2)
  BY <1>2, <1>3, <1>4 DEF Event
<1>6. arrivals \in Seq(Event(2)) /\ Len(arrivals) = 4
  BY <1>5
<1>7. pause \in Event(2)
  BY <1>4 DEF Event
<1> HIDE DEF arrivals, pause
<1>8. events \in Seq(Event(2))
  <2>1. ASSUME NEW m \in 1..4 PROVE InsertAt(arrivals, m, pause) \in Seq(Event(2))
    <3>1. /\ SubSeq(arrivals, 1, m - 1) \in Seq(Event(2))
          /\ SubSeq(arrivals, m, 4) \in Seq(Event(2))
          /\ <<pause>> \in Seq(Event(2))
      <4>1. SubSeq(arrivals, 1, m - 1) \in Seq(Event(2))
        <5>1. m - 1 \in Int /\ 1 \in Int /\ \A i \in 1..m - 1 : arrivals[i] \in Event(2)
          BY <1>5
        <5> QED BY <5>1, SubSeqProperties
      <4>2. SubSeq(arrivals, m, 4) \in Seq(Event(2))
        <5>1. m \in Int /\ 4 \in Int /\ \A i \in m..4 : arrivals[i] \in Event(2)
          BY <1>5
        <5> QED BY <5>1, SubSeqProperties
      <4> QED BY <1>7, <4>1, <4>2
    <3> QED BY <1>6, <3>1 DEF InsertAt
  <2>2. restart # 0 => restart + 1 \in 1..4
    OBVIOUS
  <2> QED BY <1>6, <2>1, <2>2
<1>9. input'.of = "race" /\ input'.is[1] = events /\ input'.is[2] = scores
  BY <1>1 DEF events, arrivals, pause, now
<1> HIDE DEF events
<1>10. Scored(events, scores)
  <2>1. \A n \in 1..Len(events) : events[n].block \in Blocks \cup {None}
    <3>1. \A n \in 1..Len(events) : events[n] \in Event(2)
      BY <1>8
    <3> QED BY <1>2, <3>1 DEF Event
  <2>2. \A b \in Blocks : scores[b] \in 0..Late
    BY WindowAssumption
  <2> QED BY <2>1, <2>2 DEF Scored
<1> QED BY <1>8, <1>9, <1>10

\* No input leads to a wrong decision, of those that the runs enumerate and
\* for every window and lateness.  (should_retain, ReceivedBlockTransactions)
THEOREM DecisionsTheorem == Deciding => [](EnvelopesAreCanonical /\ TipsAreStable)
<1>1. input = Nothing => Decidable
  BY DEF Decidable, Is
<1>2. Decidable /\ [Output \/ Race]_input => Decidable'
  <2> SUFFICES ASSUME Decidable, [Output \/ Race]_input PROVE Decidable'
    OBVIOUS
  <2>1. CASE Output
    BY <2>1, OutputIs DEF Decidable, Is
  <2>2. CASE Race
    BY <2>2, RaceIs DEF Decidable, Is
  <2>3. CASE input' = input
    BY <2>3 DEF Decidable, Is
  <2> QED BY <2>1, <2>2, <2>3
<1>3. Decidable => EnvelopesAreCanonical /\ TipsAreStable
  <2> SUFFICES ASSUME Decidable PROVE EnvelopesAreCanonical /\ TipsAreStable
    OBVIOUS
  <2>1. Is("output") => input.is \in AnyScripts
    BY DEF Decidable
  <2>2. Is("race") => input.is[1] \in Seq(Event(2)) /\ Scored(input.is[1], input.is[2])
    BY DEF Decidable
  <2> QED BY <2>1, <2>2, EnvelopesTheorem, TipsTheorem
<1> QED BY <1>1, <1>2, <1>3, PTL DEF Deciding
=============================================================================
