----------------------------- MODULE Decisions ------------------------------
(***************************************************************************)
(* The two decisions a node takes of what it is sent: which outputs are    *)
(* kept, and which of two branches is followed.  A behaviour takes one     *)
(* input, and an invariant says of it what the modules say.                *)
(***************************************************************************)
EXTENDS Integers, Sequences, SequencesExt

CONSTANTS
  None,
  Nothing,  \* no input yet
  Window,   \* SPAM_TIEBREAK_WINDOW_SECONDS
  Late      \* SPAM_SCORE_LATE

ASSUME NoneAssumption == None \notin Int /\ None \notin {"left", "right"} \X Nat
ASSUME WindowAssumption == Window \in Nat /\ Late \in Nat \ {0}

C == INSTANCE CarrierPolicy
R == INSTANCE TieBreak

VARIABLE input

Is(kind) == input # Nothing /\ input.of = kind

-----------------------------------------------------------------------------
\* Counts as they may be encoded, pushes, and payloads that are or nearly are
\* envelopes of one or two inputs and outputs.
Counts == {[value |-> v, width |-> 1] : v \in {0, 1, 16, 17}} \cup {[value |-> 1, width |-> 3]}
Contents ==
  {[magic |-> m, version |-> 1, type |-> 1, in |-> i, out |-> o] :
     m \in BOOLEAN, i, o \in Counts}
  \cup {[magic |-> TRUE, version |-> v, type |-> 10 - v, in |-> c, out |-> c] :
          v \in {1, 9}, c \in Counts}
Lens == {3, 75, 76, 81, 82, 84, 255, 256}
          \cup {C!ExpectedLen(i, o) + d : i, o \in {1, 16}, d \in {-1, 0, 2}}
Items == {[len |-> n, form |-> f] : n \in Lens, f \in C!Form}
Output ==
  /\ input = Nothing
  /\ \E a \in {i \in Items : i.form \in C!FormsFor(i.len)}, content \in Contents, end \in {"whole", "cut", "opcode"},
       opens \in BOOLEAN,
       b \in {None, [len |-> 1, form |-> "direct"], [len |-> 305, form |-> "pushdata2"]} :
       input' = [of |-> "output",
                 is |-> [opens |-> opens, end |-> end, content |-> content,
                         items |-> IF b = None THEN <<a>> ELSE <<a, b>>]]

\* Two branches of two blocks, in any order of arrival, with pauses within the
\* window and beyond it, a clock that was set back, and perhaps a restart.
Blocks == {"left", "right"} \X {1, 2}
Race ==
  /\ input = Nothing
  /\ \E order \in SetToSeqs(Blocks), scores \in [Blocks -> {0, 1}],
        pauses \in [1 .. 3 -> {-1, 1, Window + 1}], restart \in {0, 2, 3} :
       LET now(i) == 10 + (IF i > 1 THEN pauses[1] ELSE 0) + (IF i > 2 THEN pauses[2] ELSE 0)
                        + (IF i > 3 THEN pauses[3] ELSE 0)
           arrivals == [i \in 1 .. 4 |-> [block |-> order[i], now |-> now(i)]]
       IN input' = [of |-> "race",
                    is |-> <<IF restart = 0 THEN arrivals
                             ELSE InsertAt(arrivals, restart + 1, [block |-> None, now |-> now(restart)]),
                             scores>>]

-----------------------------------------------------------------------------
\* "A rigid format leaves nowhere to hide a payload": what an entry keeps over
\* the limit is, to the byte, the one script there is for its counts; and
\* without entries a policy drops no output that the stripper keeps.
\* (should_retain, match, read_compactsize, op_return_pushes)
EnvelopesAreCanonical == Is("output") => C!KeepsCanonicalOnly(input.is) /\ C!DropsNoMore(input.is)

\* However blocks arrive, and whether or not the node is restarted among them,
\* the tip has the most work; if none arrives before its parent, a block that
\* came after the window of the tip never takes the tip's place, and one that
\* does has the lower score; and as SpamScore stands the option changes no
\* tip.  (CBlockIndexWorkComparator, ReceivedBlockTransactions)
TipsAreStable ==
  Is("race") => /\ R!ParentsFirst(input.is[1]) => R!RacesEndInWindow(input.is[1], input.is[2])
                /\ R!ShippedIsNoOp(input.is[1])
=============================================================================
