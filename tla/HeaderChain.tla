----------------------------- MODULE HeaderChain -----------------------------
(***************************************************************************)
(* The header checks of a client of tools/monetary_ibd.py: class           *)
(* HeaderChain, which decides header by header whether what a peer sends   *)
(* extends the chain, carries proof of work and obeys the difficulty rule. *)
(*                                                                         *)
(* The network's chain is built beside it from genesis, by the rule; the   *)
(* client starts at an anchor in the middle of it and is offered its       *)
(* headers, or others, one by one.                                         *)
(***************************************************************************)
EXTENDS CompactTarget, Sequences

CONSTANTS
  Interval,         \* RETARGET_INTERVAL
  Anchor,           \* anchor_height: height of the first block asked for
  CheckDifficulty,  \* FALSE with --no-difficulty-check
  GenesisTarget,    \* the network's target in its first window
  OtherTargets,     \* targets that a header off the network's chain may claim
  Delays,           \* seconds between two blocks
  None,             \* Python's None
  MaxHeight         \* bound: height of the longest chain

ASSUME IntervalAssumption == Interval \in Nat \ {0}
ASSUME AnchorAssumption == Anchor \in Nat \ {0}
ASSUME HeightAssumption == MaxHeight \in Nat /\ MaxHeight >= Anchor
ASSUME CheckAssumption == CheckDifficulty \in BOOLEAN
ASSUME TargetsAssumption ==
  /\ GenesisTarget \in 1..MaxTarget
  /\ OtherTargets \subseteq Nat
ASSUME DelayAssumption == Delays \subseteq Nat

VARIABLES
  network,   \* the network's headers: network[i] has height i - 1
  client,    \* the fields of the client's HeaderChain, or None before it
  accepted,  \* the headers it has accepted, from height Anchor up
  offered,   \* the header it was offered last
  verdict    \* what it made of it

vars == <<network, client, accepted, offered, verdict>>

\* A header: its hash, the hash of its parent, nTime, nBits, and whether its
\* hash meets the target its nBits encode.  A hash is a number: heights for
\* the headers of the network, numbers above MaxHeight for others.
Header == [hash : Nat, prev : Nat, time : Nat, bits : Bits, meets : BOOLEAN]

\* The fields of class HeaderChain.
Client == [height : Nat, tip : Nat, windowFirst : Nat \cup {None}, lastTime : Nat \cup {None},
           bits : Bits \cup {None}, checked : Nat, skipped : Nat]
ASSUME NoneAssumption == None \notin Nat \cup Bits \cup Header \cup Client

Boundary(height) == height % Interval = 0

-----------------------------------------------------------------------------
(* The network (external).                                                 *)

\* The consensus rule for the bits of the header after a chain of headers.
RuleBits(chain) ==
  LET height == Len(chain)
      last == chain[height]
  IN IF Boundary(height)
     THEN NextTarget(chain[height - Interval + 1].time, last.time, last.bits)
     ELSE last.bits

Genesis == [hash |-> 0, prev |-> 0, time |-> 0, bits |-> TargetToBits(GenesisTarget),
            meets |-> TRUE]

\* A target of zero cannot be met.
Mine(delay) ==
  /\ Len(network) <= MaxHeight
  /\ BitsToTarget(RuleBits(network)) # 0
  /\ network' = Append(network,
       [hash |-> Len(network), prev |-> Len(network) - 1,
        time |-> network[Len(network)].time + delay,
        bits |-> RuleBits(network), meets |-> TRUE])
  /\ UNCHANGED <<client, accepted, offered, verdict>>

-----------------------------------------------------------------------------
(* The client.                                                             *)

Init ==
  /\ network = <<Genesis>>
  /\ client = None
  /\ accepted = <<>>
  /\ offered = None
  /\ verdict = "none"

\* HeaderChain.__init__, with the hash of the block before the first.  A peer
\* serves the records it has when it starts.
Begin ==
  /\ client = None
  /\ Len(network) > MaxHeight
  /\ client' = [height |-> Anchor - 1, tip |-> network[Anchor].hash,
                windowFirst |-> None, lastTime |-> None, bits |-> None,
                checked |-> 0, skipped |-> 0]
  /\ UNCHANGED <<network, accepted, offered, verdict>>

\* check_pow.
MeetsPow(hd) ==
  LET target == BitsToTarget(hd.bits)
  IN target # 0 /\ target <= MaxTarget /\ hd.meets

\* Faulty: only the boundaries are checked.
MeetsRuleAtBoundary(hd) ==
  CheckDifficulty /\ client.bits # None /\ Boundary(client.height + 1) =>
    hd.bits = NextTarget(client.windowFirst, client.lastTime, client.bits)

\* accept, 194-209: the bits change at the boundary of a window, by the rule,
\* and nowhere else.
MeetsRule(hd) ==
  CheckDifficulty /\ client.bits # None =>
    IF Boundary(client.height + 1)
    THEN client.windowFirst # None =>
           hd.bits = NextTarget(client.windowFirst, client.lastTime, client.bits)
    ELSE hd.bits = client.bits

Judge(hd) ==
  IF hd.prev # client.tip THEN "link"
  ELSE IF hd.bits.negative THEN "raised"
  ELSE IF ~MeetsPow(hd) THEN "pow"
  ELSE IF ~MeetsRule(hd) THEN "difficulty"
  ELSE "ok"

\* Faulty: the window is taken to start where the last one ended.
AfterLateWindow(hd) ==
  LET height == client.height + 1
      retarget == CheckDifficulty /\ client.bits # None /\ Boundary(height)
  IN [height |-> height, tip |-> hd.hash,
      windowFirst |-> IF Boundary(client.height) \/ client.windowFirst = None
                      THEN hd.time ELSE client.windowFirst,
      lastTime |-> hd.time, bits |-> hd.bits,
      checked |-> IF retarget /\ client.windowFirst # None
                  THEN client.checked + 1 ELSE client.checked,
      skipped |-> IF retarget /\ client.windowFirst = None
                  THEN client.skipped + 1 ELSE client.skipped]

\* accept, 195-217: what it remembers once the header is accepted.
After(hd) ==
  LET height == client.height + 1
      retarget == CheckDifficulty /\ client.bits # None /\ Boundary(height)
  IN [height |-> height, tip |-> hd.hash,
      windowFirst |-> IF Boundary(height) \/ client.windowFirst = None
                      THEN hd.time ELSE client.windowFirst,
      lastTime |-> hd.time, bits |-> hd.bits,
      checked |-> IF retarget /\ client.windowFirst # None
                  THEN client.checked + 1 ELSE client.checked,
      skipped |-> IF retarget /\ client.windowFirst = None
                  THEN client.skipped + 1 ELSE client.skipped]

\* HeaderChain.accept; feed stops for good at the first header refused.
Accept(hd) ==
  /\ client # None
  /\ verdict \in {"none", "ok"}
  /\ offered' = hd
  /\ verdict' = Judge(hd)
  /\ IF Judge(hd) = "ok"
     THEN client' = After(hd) /\ accepted' = Append(accepted, hd)
     ELSE UNCHANGED <<client, accepted>>
  /\ UNCHANGED network

\* The peer sends the network's next header ...
FromNetwork ==
  {network[i] : i \in {j \in DOMAIN network : client # None /\ j = client.height + 2}}

\* ... or one of its own, which links or not and has work or not.
ClaimedBits ==
  {TargetToBits(t) : t \in OtherTargets}
    \cup {[CompactBits(Digits, 1) EXCEPT !.negative = TRUE]}
    \cup IF client.bits = None THEN {}
         ELSE {client.bits, NextTarget(client.windowFirst, client.lastTime, client.bits)}

FromElsewhere ==
  IF client = None \/ client.height >= MaxHeight THEN {}
  ELSE {[hash |-> MaxHeight + 2 + client.height, prev |-> p, bits |-> b, meets |-> w,
         time |-> d + IF client.lastTime = None THEN 0 ELSE client.lastTime] :
          p \in {client.tip, client.tip + 1}, d \in Delays, b \in ClaimedBits, w \in BOOLEAN}

Next ==
  \/ \E delay \in Delays : Mine(delay)
  \/ Begin
  \/ \E hd \in FromNetwork : Accept(hd)
  \/ \E hd \in FromElsewhere : Accept(hd)

Spec == Init /\ [][Next]_vars

-----------------------------------------------------------------------------
(* Properties.                                                             *)

HeightOf(i) == Anchor + i - 1

\* "nBits is unchanged within a window, and follows the retarget formula
\* across one": of all the client accepted, whoever sent it, each header has
\* the bits that the rule computes from the headers before it, wherever these
\* reach back to the start of the window.
DifficultyRuleEnforced ==
  CheckDifficulty =>
    \A i \in 2..Len(accepted) :
      IF Boundary(HeightOf(i))
      THEN i > Interval =>
             accepted[i].bits = NextTarget(accepted[i - Interval].time,
                                           accepted[i - 1].time, accepted[i - 1].bits)
      ELSE accepted[i].bits = accepted[i - 1].bits

\* The client never refuses a header of the network as long as every header
\* it took came from there.
AcceptsTheNetwork ==
  /\ offered # None /\ offered.hash <= MaxHeight
  /\ \A i \in DOMAIN accepted : accepted[i].hash <= MaxHeight
  => verdict = "ok"
=============================================================================
