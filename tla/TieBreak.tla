------------------------------ MODULE TieBreak ------------------------------
(***************************************************************************)
(* The tie-break of core-spam-tiebreak.patch: which of two blocks of equal *)
(* work a patched node takes for its tip.  A block is scored when its data *)
(* arrive, by what is then in the active chain at its height, and compared *)
(* by that score ever after.                                               *)
(*                                                                         *)
(* The node around it is Bitcoin Core's: a block is a candidate once its   *)
(* ancestors have their data, the best candidate is the tip, and a restart *)
(* forgets what is in memory only.  Two branches leave a common block;     *)
(* a block is <<branch, height>>, its work its height.                     *)
(***************************************************************************)
EXTENDS Integers, Sequences, FiniteSets

CONSTANTS
  None,
  Window,  \* SPAM_TIEBREAK_WINDOW_SECONDS
  Late     \* SPAM_SCORE_LATE, above every score

Fork == <<"both", 0>>
Parent(b) == IF b[2] = 1 THEN Fork ELSE <<b[1], b[2] - 1>>

\* A node's index, its tip, and the next nSequenceId; sequence is None while
\* a block waits for an ancestor.
Start == [index |-> [b \in {Fork} |-> [received |-> 0, score |-> 0, sequence |-> 0]],
          tip |-> Fork, next |-> 1]

\* m_chain[height].
Active(node, height) ==
  IF height = 0 THEN Fork
  ELSE IF height <= node.tip[2] THEN <<node.tip[1], height>> ELSE None

\* CBlockIndexWorkComparator: a is worse than b.  No two blocks that became
\* candidates in one run have the same sequence; addresses decide among
\* those read from disk.
Worse(index, on, a, b) ==
  \/ a[2] < b[2]
  \/ /\ a[2] = b[2] /\ on /\ index[a].score > index[b].score
  \/ /\ a[2] = b[2] /\ (on => index[a].score = index[b].score)
     /\ index[a].sequence > index[b].sequence

\* Faulty: what arrives late is scored like any other.
ScoreAlways(node, b, score, now) == score

\* ReceivedBlockTransactions: the score a block is given.
ScoreOf(node, b, score, now) ==
  LET incumbent == Active(node, b[2])
      inWindow == \/ incumbent \in {None, b}
                  \/ now - node.index[incumbent].received \in 0 .. Window
  IN  IF inWindow THEN score ELSE Late

\* ActivateBestChain: of the candidates, the one that is worse than none.
Candidates(index) == {b \in DOMAIN index : index[b].sequence # None}
Activate(index, on) ==
  CHOOSE b \in Candidates(index) : \A c \in Candidates(index) \ {b} : ~Worse(index, on, b, c)

\* The blocks that b links to the tree: it, and those on it that waited.
Ready(index, b) ==
  IF Parent(b) \notin Candidates(index) THEN {}
  ELSE {c \in DOMAIN index : /\ c[1] = b[1] /\ c[2] >= b[2]
                             /\ \A h \in b[2] .. c[2] : <<b[1], h>> \in DOMAIN index}

\* They get their sequence in order.
Sequenced(index, ready, b, first) ==
  [c \in DOMAIN index |-> IF c \in ready THEN [index[c] EXCEPT !.sequence = first + c[2] - b[2]]
                          ELSE index[c]]

\* ReceivedBlockTransactions.
With(node, b, score, now) ==
  [c \in DOMAIN node.index \cup {b} |->
     IF c = b THEN [received |-> now, score |-> ScoreOf(node, b, score, now), sequence |-> None]
     ELSE node.index[c]]
Receive(node, on, b, score, now) ==
  LET known == With(node, b, score, now)
      ready == Ready(known, b)
      index == Sequenced(known, ready, b, node.next)
  IN  [index |-> index, tip |-> Activate(index, on), next |-> node.next + Cardinality(ready)]

\* Read from disk again: the defaults of chain.h, and 0 for the best chain.
Restart(node) ==
  [index |-> [b \in DOMAIN node.index |->
     [received |-> 0, score |-> 0,
      sequence |-> IF b \notin Candidates(node.index) THEN None
                   ELSE IF Active(node, b[2]) = b THEN 0 ELSE 1]],
   tip |-> node.tip, next |-> node.next]

-----------------------------------------------------------------------------
\* What happens: a block arrives, which is ignored if it did before, or the
\* node is restarted.
After(node, on, e, scores) ==
  IF e.block = None THEN Restart(node)
  ELSE IF e.block \in DOMAIN node.index THEN node
  ELSE Receive(node, on, e.block, scores[e.block], e.now)

\* The node after so many events.
Run(events, on, scores) ==
  LET run[n \in 0 .. Len(events)] ==
        IF n = 0 THEN Start ELSE After(run[n - 1], on, events[n], scores)
  IN  run

ParentsFirst(events) ==
  \A i \in DOMAIN events : events[i].block # None /\ events[i].block[2] > 1 =>
    \E j \in 1 .. i - 1 : events[j].block = Parent(events[i].block)

\* Work always decides; at equal work the tip is left only while the race is
\* on, and only for a lower score.
RacesEndInWindow(events, scores) ==
  LET nodes == Run(events, TRUE, scores)
  IN  \A i \in DOMAIN events :
        LET before == nodes[i - 1].tip  after == nodes[i].tip
        IN  /\ after[2] >= before[2]
            /\ after # before /\ after[2] = before[2] =>
                 /\ events[i].now - nodes[i - 1].index[before].received \in 0 .. Window
                 /\ nodes[i].index[after].score < nodes[i - 1].index[before].score

\* With SpamScore as it is, the option changes nothing.
ShippedIsNoOp(events) ==
  LET zero == [b \in {events[i].block : i \in DOMAIN events} |-> 0]
      on == Run(events, TRUE, zero)
      off == Run(events, FALSE, zero)
  IN  \A i \in 0 .. Len(events) : on[i].tip = off[i].tip
=============================================================================
