----------------------------- MODULE Envelopes ------------------------------
(***************************************************************************)
(* How the tools find a data envelope in a script: bytes pushed in a       *)
(* branch that is not taken because of the literal pushed right before it. *)
(* monetary_store.py strips by it, spam_strip.py and commit_scan.py        *)
(* measure by it, inscription_scan.py counts by it, each with a walk of    *)
(* its own.                                                                *)
(*                                                                         *)
(* A script is the sequence of its opcodes, told apart as far as the walks *)
(* tell them apart; the last one may be a push whose data, or whose length *)
(* field, is cut off.                                                      *)
(***************************************************************************)
EXTENDS Integers, Sequences, FiniteSets, FiniteSetsExt

FalsePush == {"zero", "empty", "null"}   \* OP_0, a push of nothing, of one byte 0
TruePush == {"num", "data"}              \* OP_1 to OP_16, a push of anything else
Branch == {"if", "notif"}
Opcode == FalsePush \cup TruePush \cup Branch \cup {"endif", "other"}
Cut == {"cutdata", "cutlength"}          \* only at the end

\* The bytes an opcode pushes; data are two.
Pushed(op) == CASE op = "data" -> 2 [] op = "null" -> 1 [] OTHER -> 0

\* iter_script, to the end: it stops with an error the walks catch, or one
\* they do not, or gives the opcodes.  Only spam_strip's does not look whether
\* a length field is there.
IterScript(script, looks) ==
  LET last == IF script = <<>> THEN "other" ELSE script[Len(script)]
  IN  CASE last \in Cut /\ (looks \/ last = "cutdata") -> [error |-> "ValueError", ops |-> <<>>]
        [] last \in Cut /\ ~looks /\ last = "cutlength" -> [error |-> "other", ops |-> <<>>]
        [] OTHER -> [error |-> "none", ops |-> script]

-----------------------------------------------------------------------------
(* The walk. *)

\* Faulty: OP_NOTIF does not nest.
DepthOfIfs(ops, i, j) ==
  1 + Cardinality({k \in i + 2 .. j : ops[k] = "if"})
    - Cardinality({k \in i + 2 .. j : ops[k] = "endif"})

\* depth, at ops[j], in a branch opened by ops[i] and ops[i + 1].
Depth(ops, i, j) ==
  1 + Cardinality({k \in i + 2 .. j : ops[k] \in Branch})
    - Cardinality({k \in i + 2 .. j : ops[k] = "endif"})

\* Where that branch ends; beyond the script if nothing ends it.
Close(ops, i) ==
  Min({j \in i + 2 .. Len(ops) : ops[j] = "endif" /\ Depth(ops, i, j) = 0} \cup {Len(ops) + 1})

\* The positions in the branches the outer loop comes to.  A branch is opened
\* by a pair of opens, and given up if closes and nothing ends it.
Taken(ops, opens, closes) ==
  LET from[i \in 1 .. Len(ops) + 2] ==
        IF i >= Len(ops) THEN {}
        ELSE IF <<ops[i], ops[i + 1]>> \notin opens THEN from[i + 1]
        ELSE (IF closes /\ Close(ops, i) > Len(ops) THEN {} ELSE i + 2 .. Close(ops, i) - 1)
               \cup from[Close(ops, i) + 1]
  IN  from[1]

OpenedByIf == FalsePush \X {"if"}
OpenedEither == OpenedByIf \cup (TruePush \X {"notif"})

\* envelope_payload of spam_strip.py and of commit_scan.py, find_envelopes of
\* inscription_scan.py, and envelope_payload of monetary_store.py.
EnvelopePayload(script) == Taken(IterScript(script, FALSE).ops, OpenedByIf, FALSE)
FindEnvelopes(script) == Taken(IterScript(script, TRUE).ops, OpenedByIf, TRUE)
StoreEnvelopePayload(script) == Taken(IterScript(script, TRUE).ops, OpenedEither, FALSE)

Bytes(ops, taken) == MapThenSumSet(LAMBDA k : Pushed(ops[k]), taken)

-----------------------------------------------------------------------------
(* What Script does (external): it keeps a stack of the branches it is in.  *)
(* Here an entry says whether the branch is left out for certain, and by    *)
(* which opcode.                                                            *)
Enter(ops, k) ==
  IF <<ops[k - 1], ops[k]>> \in OpenedByIf THEN "not if"
  ELSE IF <<ops[k - 1], ops[k]>> \in OpenedEither THEN "not notif" ELSE "maybe"

\* The branches the opcode at k is in.
BranchesAt(ops, k) ==
  LET stack[i \in 0 .. Len(ops)] ==
        IF i = 0 THEN <<>>
        ELSE IF ops[i] \in Branch THEN Append(stack[i - 1], IF i = 1 THEN "maybe" ELSE Enter(ops, i))
        ELSE IF ops[i] = "endif" /\ stack[i - 1] # <<>>
             THEN SubSeq(stack[i - 1], 1, Len(stack[i - 1]) - 1)
        ELSE stack[i - 1]
  IN  stack[k]

Dead(ops, why) == {k \in DOMAIN ops : \E i \in DOMAIN BranchesAt(ops, k) : BranchesAt(ops, k)[i] \in why}

\* Every branch ends and every OP_ENDIF ends one: another script is invalid.
Balanced(ops) ==
  LET level(k) == Cardinality({i \in 1 .. k : ops[i] \in Branch})
                    - Cardinality({i \in 1 .. k : ops[i] = "endif"})
  IN  level(Len(ops)) = 0 /\ \A k \in DOMAIN ops : level(k) >= 0

\* The pushes of a valid script that a walk counts are those that Script never
\* executes because of a literal right before the branch, or before a branch
\* around it: one walk skips nothing by jumping over what it took.  The store's
\* takes those behind OP_NOTIF as well, and the two others agree.
TakesWhatIsDead(ops) ==
  Balanced(ops) =>
    /\ Bytes(ops, EnvelopePayload(ops)) = Bytes(ops, Dead(ops, {"not if"}))
    /\ Bytes(ops, FindEnvelopes(ops)) = Bytes(ops, EnvelopePayload(ops))
    /\ Bytes(ops, StoreEnvelopePayload(ops)) = Bytes(ops, Dead(ops, {"not if", "not notif"}))

\* Of any script: none counts more than the store strips, and none counts a
\* part of a script that is cut off.
NoneTakesMoreThanStore(ops) ==
  /\ EnvelopePayload(ops) \subseteq StoreEnvelopePayload(ops)
  /\ FindEnvelopes(ops) \subseteq EnvelopePayload(ops)
  /\ ops # <<>> /\ ops[Len(ops)] \in Cut => StoreEnvelopePayload(ops) = {}
=============================================================================
