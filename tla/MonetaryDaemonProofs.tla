------------------------ MODULE MonetaryDaemonProofs ------------------------
(***************************************************************************)
(* Proofs about MonetaryDaemon for every value of its constants.           *)
(***************************************************************************)
EXTENDS MonetaryDaemon, FiniteSetTheorems, SequenceTheorems, WellFoundedInduction,
        NaturalsInduction, TLAPS

(***************************************************************************)
(* What store_tail returns.                                                *)
(***************************************************************************)

\* Any set of fragments of the store has a last one.
LEMMA LastOfSet ==
  ASSUME NEW n \in Nat, NEW S, S \subseteq 1..n, S # {}
  PROVE  \E i \in S : \A j \in S : j <= i
<1> DEFINE T == {n - i : i \in S}
<1>1. S \subseteq Int /\ \A i \in S : i >= 1 /\ i <= n
  OBVIOUS
<1>2. T \subseteq Nat
  BY <1>1
<1>3. T # {}
  OBVIOUS
<1>4. \E x \in T : \A y \in T : ~ (<<y, x>> \in OpToRel(<, Nat))
  <2> HIDE DEF T
  <2> QED BY <1>2, <1>3, NatLessThanWellFounded, WFMin
<1>5. PICK x \in T : \A y \in T : ~ (y < x)
  <2> HIDE DEF T
  <2> QED BY <1>2, <1>4 DEF OpToRel
<1>6. PICK i \in S : x = n - i
  OBVIOUS
<1>7. ASSUME NEW j \in S PROVE j <= i
  <2>1. n - j \in T
    OBVIOUS
  <2>2. ~ (n - j < n - i)
    BY <1>5, <1>6, <2>1
  <2> HIDE DEF T
  <2> QED BY <1>1, <2>2
<1> QED BY <1>7

\* The count is a number, and the hash is that of a fragment of the store.
LEMMA TailType ==
  ASSUME store \in Seq(Fragment)
  PROVE  /\ TailCount \in Nat
         /\ TailCount # 0 <=> CountedSet # {}
         /\ CountedSet # {} =>
              \E i \in DOMAIN store :
                /\ TailHash.block = store[i].block
                /\ TailHash.order \in {"internal", "mixed"}
                /\ TailHash = [block |-> TailHash.block, order |-> TailHash.order]
<1>1. DOMAIN store = 1..Len(store) /\ Len(store) \in Nat
  OBVIOUS
<1>2. IsFiniteSet(1..Len(store))
  BY <1>1, FS_Interval
<1>3. CountedSet \subseteq 1..Len(store)
  BY <1>1 DEF CountedSet
<1>4. IsFiniteSet(CountedSet)
  BY <1>2, <1>3, FS_Subset
<1>5. TailCount \in Nat /\ (TailCount # 0 <=> CountedSet # {})
  BY <1>4, FS_CardinalityType, FS_EmptySet DEF TailCount
<1>6. ASSUME CountedSet # {}
      PROVE  \E i \in DOMAIN store :
                /\ TailHash.block = store[i].block
                /\ TailHash.order \in {"internal", "mixed"}
                /\ TailHash = [block |-> TailHash.block, order |-> TailHash.order]
  <2> DEFINE last == CHOOSE i \in CountedSet : \A j \in CountedSet : j <= i
  <2>1. last \in CountedSet
    BY <1>1, <1>3, <1>6, LastOfSet
  <2>2. last \in DOMAIN store
    BY <1>1, <1>3, <2>1
  <2>3. TailHash = IF store[last].kind = "short"
                   THEN [block |-> store[last].block, order |-> "mixed"]
                   ELSE Internal(store[last].block)
    BY <1>6 DEF TailHash
  <2> HIDE DEF last
  <2> QED BY <2>2, <2>3 DEF Internal
<1> QED BY <1>5, <1>6

\* In a store of whole records every record is counted, and the hash is the
\* last record's.
LEMMA TailOfWholeStore ==
  ASSUME store \in Seq(Fragment),
         \A i \in DOMAIN store : store[i].kind = "whole"
  PROVE  /\ TailCount = Len(store)
         /\ store # <<>> => TailHash = Internal(store[Len(store)].block)
<1>1. DOMAIN store = 1..Len(store) /\ Len(store) \in Nat
  OBVIOUS
<1>2. CountedSet = 1..Len(store)
  BY <1>1 DEF CountedSet, Counted, OnWalk
<1>3. TailCount = Len(store)
  BY <1>1, <1>2, FS_Interval DEF TailCount
<1>4. ASSUME store # <<>>
      PROVE  TailHash = Internal(store[Len(store)].block)
  <2>1. Len(store) \in 1..Len(store)
    BY <1>1, <1>4
  <2> DEFINE last == CHOOSE i \in CountedSet : \A j \in CountedSet : j <= i
  <2>2. last = Len(store)
    BY <1>1, <1>2, <2>1
  <2>3. TailHash = IF store[last].kind = "short"
                   THEN [block |-> store[last].block, order |-> "mixed"]
                   ELSE Internal(store[last].block)
    BY <1>2, <2>1 DEF TailHash
  <2> HIDE DEF last
  <2> QED BY <1>1, <2>1, <2>2, <2>3
<1> QED BY <1>3, <1>4

-----------------------------------------------------------------------------
(***************************************************************************)
(* Type correctness.                                                       *)
(***************************************************************************)

\* Where a process starts from is well formed.
LEMMA FreshStateType == FreshState \in State /\ NoBlock \in Block
BY BoundsAssumption DEF FreshState, State, NoHash, NoBlock, Hash, Block

\* A reorganisation leaves a chain of blocks, one longer.
LEMMA ReorganiseType ==
  ASSUME TypeOK, NEW k \in 0..MaxReorg, Reorganise(k)
  PROVE  /\ chain' \in Seq(Block)
         /\ Len(chain') = Len(chain) + 1
         /\ minted' \in 0..MaxBlocks
         /\ Len(chain') <= minted'
<1> USE BoundsAssumption
<1> DEFINE fork == Len(chain) - k
           n == Len(chain) + 1
           b(i) == [id |-> minted + i - fork,
                    prev |-> IF i = 1 THEN 0
                             ELSE IF i = fork + 1 THEN chain[fork].id
                             ELSE minted + (i - 1) - fork,
                    height |-> i]
<1>1. chain' = [i \in 1..n |-> IF i <= fork THEN chain[i] ELSE b(i)]
  BY DEF Reorganise
<1>2. /\ k \in Nat /\ Len(chain) \in Nat /\ fork \in Nat /\ n \in Nat
      /\ minted \in Nat /\ minted' = minted + k + 1 /\ minted' <= MaxBlocks
      /\ Len(chain) <= minted
  BY DEF TypeOK, Reorganise
<1>3. ASSUME NEW i \in 1..n, i > fork PROVE b(i) \in Block
  <2>1. minted + i - fork \in 0..MaxBlocks /\ i \in 0..MaxBlocks
    BY <1>2, <1>3
  <2>2. b(i).prev \in 0..MaxBlocks
    <3>1. CASE i = 1
      BY <3>1
    <3>2. CASE i # 1 /\ i = fork + 1
      <4>1. fork \in 1..Len(chain)
        BY <1>2, <3>2
      <4>2. chain[fork] \in Block
        BY <4>1 DEF TypeOK
      <4> QED BY <3>2, <4>2 DEF Block
    <3>3. CASE i # 1 /\ i # fork + 1
      BY <1>2, <1>3, <3>3
    <3> QED BY <3>1, <3>2, <3>3
  <2> QED BY <2>1, <2>2 DEF Block
<1>4. ASSUME NEW i \in 1..n PROVE (IF i <= fork THEN chain[i] ELSE b(i)) \in Block
  <2>1. CASE i <= fork
    BY <1>2, <2>1 DEF TypeOK
  <2>2. CASE ~ (i <= fork)
    <3>1. i > fork
      BY <1>2, <2>2
    <3> HIDE DEF b
    <3> QED BY <1>3, <2>2, <3>1
  <2> QED BY <2>1, <2>2
<1>5. chain' \in Seq(Block) /\ Len(chain') = n
  <2> HIDE DEF b, fork
  <2> QED BY <1>1, <1>2, <1>4
<1> QED BY <1>2, <1>5

\* An append leaves a sequence of fragments.
LEMMA WrittenType ==
  ASSUME TypeOK, NEW kind \in TornKind \cup {"whole"}
  PROVE  Written(kind) \in Seq(Fragment)
<1>1. OpenTarget \in Nat
  <2>1. CASE store = <<>>
    BY <2>1 DEF OpenTarget
  <2>2. CASE store # <<>>
    <3>1. store \in Seq(Fragment) /\ Len(store) \in 1..Len(store)
      BY <2>2 DEF TypeOK
    <3>2. store[Len(store)] \in Fragment
      BY <3>1, ElementOfSeq
    <3>3. store[Len(store)].file \in Nat
      BY <3>2 DEF Fragment
    <3> QED BY <2>2, <3>3 DEF OpenTarget
  <2> QED BY <2>1, <2>2
<1>2. [kind |-> kind, block |-> got, file |-> OpenTarget] \in Fragment
  BY <1>1 DEF Fragment, TypeOK
<1> QED BY <1>2 DEF Written, TypeOK

\* What --adopt writes is a well-formed state.json.
LEMMA AdoptType ==
  ASSUME TypeOK, Adopt
  PROVE  stateFile' \in State
<1> USE StartAssumption
<1>1. store \in Seq(Fragment)
  BY DEF TypeOK
<1>2. TailCount \in Nat /\ CountedSet # {}
  BY <1>1, TailType DEF Adopt
<1>3. PICK i \in DOMAIN store :
            /\ TailHash.block = store[i].block
            /\ TailHash.order \in {"internal", "mixed"}
            /\ TailHash = [block |-> TailHash.block, order |-> TailHash.order]
  BY <1>1, <1>2, TailType
<1>4. store[i].block \in Block
  <2>1. i \in 1..Len(store)
    BY <1>1
  <2>2. store[i] \in Fragment
    BY <1>1, <2>1, ElementOfSeq
  <2> QED BY <2>2 DEF Fragment
<1>5. TailHash \in Hash
  BY <1>3, <1>4 DEF Hash
<1>6. TailCount # 0
  BY DEF Adopt
<1> QED BY <1>2, <1>5, <1>6 DEF Adopt, State

\* Every step keeps the types.
LEMMA TypeStep == TypeOK /\ [Next]_vars => TypeOK'
<1> USE BoundsAssumption, StartAssumption, DepthAssumption
<1> SUFFICES ASSUME TypeOK, [Next]_vars PROVE TypeOK'
  OBVIOUS
<1>1. ASSUME NEW k \in 0..MaxReorg, Reorganise(k) PROVE TypeOK'
  <2>1. deepest' \in Nat
    BY <1>1 DEF Reorganise, TypeOK
  <2> QED
    BY <1>1, <2>1, ReorganiseType
    DEF TypeOK, Reorganise, diskVars, procVars, loopVars, auxVars
<1>2. CASE Start
  BY <1>2, FreshStateType
  DEF Start, GoDown, InitialState, TypeOK, nodeVars, diskVars, loopVars, auxVars
<1>3. CASE Adopt
  <2>1. stateFile' \in State
    BY <1>3, AdoptType
  <2> QED BY <1>3, <2>1 DEF Adopt, TypeOK, nodeVars, loopVars
<1>4. CASE BlockCount
  <2>1. NextHeight \in Nat \ {0}
    BY DEF NextHeight, TypeOK, State
  <2>2. Buried \in Int
    BY DEF Buried, TypeOK
  <2>3. h' \in Nat /\ target' \in Nat /\ h' \in 1..target'
    BY <1>4, <2>1, <2>2 DEF BlockCount
  <2> QED BY <1>4, <2>3 DEF BlockCount, TypeOK, nodeVars, diskVars, auxVars
<1>5. CASE BlockHash
  BY <1>5 DEF BlockHash, TypeOK, nodeVars, diskVars, auxVars
<1>6. CASE RawBlock
  BY <1>6, FreshStateType
  DEF RawBlock, GoDown, TypeOK, nodeVars, diskVars, auxVars, loopVars
<1>7. CASE AppendRecord
  <2>1. Advance(mem, got) \in State
    BY DEF Advance, State, Hash, Display, TypeOK
  <2> QED BY <1>7, <2>1, WrittenType
          DEF AppendRecord, TypeOK, nodeVars, auxVars, loopVars
<1>8. CASE SaveState
  BY <1>8, FreshStateType
  DEF SaveState, BackToPoll, TypeOK, nodeVars, auxVars
<1>9. CASE IOFails
  BY <1>9, FreshStateType
  DEF IOFails, BackToPoll, TypeOK, nodeVars, diskVars, auxVars
<1>10. ASSUME NEW kind \in TornKind \cup {"whole"}, AppendFails(kind)
       PROVE  TypeOK'
  BY <1>10, WrittenType, FreshStateType
  DEF AppendFails, BackToPoll, TypeOK, nodeVars
<1>11. CASE Kill
  BY <1>11, FreshStateType DEF Kill, GoDown, TypeOK, nodeVars, diskVars, auxVars
<1>12. ASSUME NEW kind \in TornKind, KillInAppend(kind) PROVE TypeOK'
  BY <1>12, WrittenType, FreshStateType
  DEF KillInAppend, GoDown, TypeOK, nodeVars
<1>13. CASE UNCHANGED vars
  BY <1>13
  DEF vars, TypeOK, nodeVars, diskVars, procVars, loopVars, auxVars
<1> QED
  BY <1>1, <1>2, <1>3, <1>4, <1>5, <1>6, <1>7, <1>8, <1>9, <1>10, <1>11,
     <1>12, <1>13 DEF Next

\* The daemon's variables keep their types: in particular the bytes that
\* store_tail takes for a hash always come from a fragment of the store.
THEOREM TypeCorrect == Spec => []TypeOK
<1>1. ASSUME Init PROVE TypeOK
  <2>1. /\ chain \in Seq(Block) /\ Len(chain) = 0
        /\ store \in Seq(Fragment)
    BY <1>1 DEF Init
  <2>2. mem \in State /\ got \in Block
    BY <1>1, FreshStateType DEF Init
  <2>3. adopted \in BOOLEAN
    BY <1>1 DEF Init
  <2> QED BY <1>1, <2>1, <2>2, <2>3, BoundsAssumption DEF Init, TypeOK
<1> QED BY <1>1, TypeStep, PTL DEF Spec

-----------------------------------------------------------------------------
(***************************************************************************)
(* The inductive invariant.  Every action changes the node, or the disk,   *)
(* or only the process: the frame lemmas carry over what the other parts   *)
(* hold.                                                                   *)
(***************************************************************************)

\* What stands at a place of the store is a fragment.
LEMMA FragmentType ==
  ASSUME TypeOK, NEW i \in DOMAIN store
  PROVE  store[i] \in Fragment /\ store[i].block \in Block /\ i \in 1..Len(store)
<1>1. store \in Seq(Fragment) /\ i \in 1..Len(store)
  BY DEF TypeOK
<1>2. store[i] \in Fragment
  BY <1>1, ElementOfSeq
<1> QED BY <1>1, <1>2 DEF Fragment

\* Steps of the process that leave the disk alone.
LEMMA ProcessFrame ==
  ASSUME TypeOK, IInv, UNCHANGED <<nodeVars, diskVars, auxVars>>,
         mem' = mem \/ mem' = FreshState \/ (mem' = stateFile /\ stateFile # NoState)
  PROVE  /\ ChainLinked' /\ StoreHeights' /\ StoreOnChain' /\ StoreLinked'
         /\ StateFileBehindStore' /\ PositionInv'
<1> USE DEF nodeVars, diskVars, auxVars
<1>1. ChainLinked' /\ StoreHeights' /\ StoreOnChain' /\ StoreLinked'
  BY DEF IInv, ChainLinked, StoreHeights, StoreOnChain, StoreLinked, Buried
<1>2. StateFileBehindStore'
  BY DEF IInv, StateFileBehindStore, Stored
<1>3. Position(FreshState)'
  BY DEF Position, FreshState
<1>4. PositionInv'
  <2>1. CASE mem' = mem
    BY <2>1 DEF IInv, PositionInv, Position
  <2>2. CASE mem' = FreshState
    BY <1>3, <2>2 DEF IInv, PositionInv, Position
  <2>3. CASE mem' = stateFile /\ stateFile # NoState
    BY <2>3 DEF IInv, PositionInv, Position
  <2> QED BY <2>1, <2>2, <2>3
<1> QED BY <1>1, <1>2, <1>4

\* A process that is down satisfies what is said of a running one.
LEMMA DownFrame ==
  ASSUME TypeOK, IInv, NEW why, GoDown(why), UNCHANGED <<nodeVars, auxVars, stateFile>>
  PROVE  LoopInv' /\ AdoptedInv' /\ MemoryInv'
<1>1. LoopInv' /\ MemoryInv'
  BY DEF GoDown, LoopInv, MemoryInv, Up
<1>2. AdoptedInv'
  BY DEF GoDown, AdoptedInv, IInv, Up, auxVars
<1> QED BY <1>1, <1>2

\* A reorganisation of at most Depth blocks moves nothing the daemon has taken.
LEMMA ReorganiseStep ==
  ASSUME TypeOK, IInv, NEW k \in 0..MaxReorg, Reorganise(k)
  PROVE  IInv'
<1> USE BoundsAssumption, DepthAssumption
<1> DEFINE fork == Len(chain) - k
<1>0. /\ k \in Nat /\ Len(chain) \in Nat /\ fork \in Nat /\ minted \in Nat
      /\ deepest \in Nat /\ DOMAIN chain = 1..Len(chain)
  BY DEF TypeOK, Reorganise
<1>1. /\ Len(chain') = Len(chain) + 1
      /\ DOMAIN chain' = 1..(Len(chain) + 1)
      /\ \A i \in 1..fork : chain'[i] = chain[i]
  <2>1. Len(chain') = Len(chain) + 1 /\ chain' \in Seq(Block)
    BY ReorganiseType
  <2>2. ASSUME NEW i \in 1..fork PROVE chain'[i] = chain[i]
    BY <1>0 DEF Reorganise
  <2> QED BY <1>0, <2>1, <2>2
<1>2. /\ deepest' >= deepest /\ deepest' >= k /\ deepest' \in Nat
      /\ deepest' <= Depth => fork >= Buried /\ deepest <= Depth
  BY <1>0 DEF Reorganise, Buried
<1>3. ChainLinked'
  <2> SUFFICES ASSUME NEW i \in 1..(Len(chain) + 1)
               PROVE  /\ chain'[i].height = i
                      /\ i > 1 => chain'[i].prev = chain'[i-1].id
    BY <1>1 DEF ChainLinked
  <2>1. CASE i <= fork
    BY <1>0, <1>1, <2>1 DEF IInv, ChainLinked
  <2>2. CASE i > fork
    <3>1. chain'[i] = [id |-> minted + i - fork,
                       prev |-> IF i = 1 THEN 0
                                ELSE IF i = fork + 1 THEN chain[fork].id
                                ELSE minted + (i - 1) - fork,
                       height |-> i]
      BY <1>0, <2>2 DEF Reorganise
    <3>2. CASE i = fork + 1
      BY <1>0, <1>1, <3>1, <3>2
    <3>3. CASE i > fork + 1
      <4>1. chain'[i-1].id = minted + (i - 1) - fork
        <5> DEFINE m == i - 1
        <5>1. m \in 1..(Len(chain) + 1) /\ ~ (m <= fork)
          BY <1>0, <3>3
        <5>2. chain'[m].id = minted + m - fork
          BY <1>0, <5>1 DEF Reorganise
        <5> QED BY <5>2
      <4>2. i # 1 /\ i # fork + 1
        BY <1>0, <3>3
      <4>3. chain'[i].height = i /\ chain'[i].prev = minted + (i - 1) - fork
        BY <3>1, <4>2
      <4> QED BY <4>1, <4>3
    <3> QED BY <1>0, <2>2, <3>2, <3>3
  <2> QED BY <1>0, <2>1, <2>2
<1>4. UNCHANGED <<diskVars, procVars, auxVars>>
  BY DEF Reorganise
<1>5. StoreOnChain'
  <2> SUFFICES ASSUME deepest' <= Depth, NEW i \in DOMAIN store
               PROVE  /\ store[i].block.height <= Len(chain') - Depth
                      /\ chain'[store[i].block.height] = store[i].block
    BY <1>4 DEF StoreOnChain, diskVars
  <2> DEFINE n == store[i].block.height
  <2>1. n \in Int
    BY FragmentType DEF Block
  <2>2. n >= 1 /\ n <= Len(chain) - Depth /\ chain[n] = store[i].block
    BY <1>2 DEF IInv, StoreHeights, StoreOnChain
  <2>3. n \in 1..fork
    BY <1>0, <1>2, <2>1, <2>2 DEF Buried
  <2> QED BY <1>0, <1>1, <2>2, <2>3
<1>6. LoopInv'
  <2> USE <1>4 DEF procVars, loopVars, LoopInv
  <2>1. target \in Int /\ h \in Int
    BY DEF TypeOK
  <2>2. pc \in {"hash", "block", "append", "save"} => target <= Buried'
    BY <1>0, <1>1, <2>1 DEF IInv, Buried
  <2>3. ASSUME pc \in {"block", "append", "save"}, deepest' <= Depth
        PROVE  chain'[h] = got
    <3>1. h \in 1..fork
      BY <1>0, <1>2, <2>1, <2>3 DEF IInv, TypeOK, Buried
    <3> QED BY <1>1, <1>2, <2>3, <3>1 DEF IInv
  <2> QED BY <2>2, <2>3 DEF IInv, NextHeight, Extends
<1>7. PositionInv' /\ AdoptedInv' /\ StoreHeights' /\ MemoryInv' /\ StoreLinked'
  BY <1>4
  DEF IInv, diskVars, procVars, loopVars, auxVars, PositionInv, Position,
      AdoptedInv, StoreHeights, MemoryInv, StoreLinked, Up, Stored
<1>8. NoFalseAlarm'
  BY <1>2, <1>4, DepthAssumption, <1>0
  DEF IInv, NoFalseAlarm, procVars, auxVars
<1>9. StateFileBehindStore'
  BY <1>4 DEF IInv, StateFileBehindStore, diskVars, auxVars, Stored
<1> QED
  BY <1>3, <1>5, <1>6, <1>7, <1>8, <1>9 DEF IInv

\* Appending a fragment keeps what is said of the others.
LEMMA WrittenFrame ==
  ASSUME TypeOK, NEW kind \in TornKind \cup {"whole"}, store' = Written(kind)
  PROVE  /\ DOMAIN store = 1..Len(store) /\ Len(store) \in Nat
         /\ DOMAIN store' = 1..(Len(store) + 1) /\ Len(store') = Len(store) + 1
         /\ \A i \in 1..Len(store) : store'[i] = store[i]
         /\ store'[Len(store) + 1].kind = kind
         /\ store'[Len(store) + 1].block = got
<1> DEFINE f == [kind |-> kind, block |-> got, file |-> OpenTarget]
<1>1. store' = Append(store, f) /\ store \in Seq(Fragment)
  BY DEF Written, TypeOK
<1>2. f.kind = kind /\ f.block = got
  OBVIOUS
<1>3. store' \in Seq(Fragment)
  BY WrittenType
<1> HIDE DEF f
<1> QED BY <1>1, <1>2, <1>3

\* What an append, whole or not, does to the parts that hold whatever
\* faults there are.
LEMMA WrittenStep ==
  ASSUME TypeOK, IInv, NEW kind \in TornKind \cup {"whole"}, pc = "append",
         store' = Written(kind), UNCHANGED <<nodeVars, stateFile, adopted>>
  PROVE  /\ ~adopted
         /\ ChainLinked' /\ StoreHeights' /\ StoreOnChain'
         /\ ~adopted => /\ Position(mem) /\ mem' = mem => Position(mem)'
                        /\ stateFile # NoState =>
                             stateFile.hash # NoHash /\ Position(stateFile)'
<1>1. ~adopted
  BY DEF IInv, AdoptedInv
<1>2. ChainLinked'
  BY DEF IInv, ChainLinked, nodeVars
<1>3. StoreHeights'
  <2>1. got.height = h /\ h >= 1
    BY DEF IInv, LoopInv, TypeOK
  <2> SUFFICES ASSUME NEW i \in 1..(Len(store) + 1)
               PROVE  store'[i].block.height >= 1
    BY WrittenFrame DEF StoreHeights
  <2>2. CASE i <= Len(store)
    BY <2>2, WrittenFrame DEF IInv, StoreHeights
  <2>3. CASE i = Len(store) + 1
    BY <2>1, <2>3, WrittenFrame
  <2> QED BY <2>2, <2>3, WrittenFrame
<1>4. StoreOnChain'
  <2> SUFFICES ASSUME deepest <= Depth, NEW i \in 1..(Len(store) + 1)
               PROVE  /\ store'[i].block.height <= Len(chain) - Depth
                      /\ chain[store'[i].block.height] = store'[i].block
    BY WrittenFrame DEF StoreOnChain, nodeVars
  <2>1. CASE i <= Len(store)
    BY <2>1, WrittenFrame DEF IInv, StoreOnChain
  <2>2. CASE i = Len(store) + 1
    <3>1. got.height = h /\ chain[h] = got /\ h <= target /\ target <= Buried
      BY DEF IInv, LoopInv, TypeOK
    <3>2. h \in Int /\ target \in Int /\ Buried \in Int
      BY DepthAssumption DEF TypeOK, Buried
    <3> QED BY <2>2, <3>1, <3>2, WrittenFrame DEF Buried
  <2> QED BY <2>1, <2>2, WrittenFrame
<1>5. DOMAIN store \subseteq DOMAIN store' /\ \A i \in DOMAIN store : store'[i] = store[i]
  BY WrittenFrame
<1>6. ASSUME Position(mem), mem' = mem PROVE Position(mem)'
  BY <1>5, <1>6 DEF Position
<1>7. ASSUME stateFile # NoState
      PROVE  stateFile.hash # NoHash /\ Position(stateFile)'
  <2>1. stateFile.hash # NoHash /\ Position(stateFile) /\ stateFile' = stateFile
    BY <1>1, <1>7 DEF IInv, PositionInv
  <2> QED BY <1>5, <2>1 DEF Position
<1> QED BY <1>1, <1>2, <1>3, <1>4, <1>6, <1>7

\* A daemon that does not refuse starts from the end of the store.
LEMMA StartStep ==
  ASSUME TypeOK, IInv, Start
  PROVE  IInv'
<1>1. UNCHANGED <<nodeVars, diskVars, auxVars>>
  BY DEF Start
<1>2. CASE Refuses
  <2>1. GoDown("refused")
    BY <1>2 DEF Start
  <2>2. NoFalseAlarm'
    BY <2>1 DEF GoDown, NoFalseAlarm
  <2> QED
    BY <1>1, <2>1, <2>2, ProcessFrame, DownFrame DEF IInv, GoDown, diskVars
<1>3. CASE ~ Refuses
  <2>1. pc' = "poll" /\ exit' = "none" /\ mem' = InitialState /\ Up'
    BY <1>3 DEF Start, Up
  <2>2. mem' = FreshState \/ (mem' = stateFile /\ stateFile # NoState)
    BY <2>1 DEF InitialState
  <2>3. LoopInv' /\ NoFalseAlarm'
    BY <2>1 DEF LoopInv, NoFalseAlarm
  <2>4. AdoptedInv'
    BY <1>1, <2>1 DEF IInv, AdoptedInv, InitialState, diskVars, auxVars
  <2>5. MemoryInv'
    <3> SUFFICES ASSUME appendFaults = 0, ~adopted
                 PROVE  /\ mem'.commitment = Stored
                        /\ mem'.records = Len(store)
                        /\ IF store = <<>>
                           THEN mem'.hash = NoHash
                           ELSE /\ mem'.hash = Display(store[Len(store)].block)
                                /\ mem'.height = StartHeight + Len(store) - 1
      BY <1>1 DEF MemoryInv, Stored, diskVars, auxVars
    <3>1. store \in Seq(Fragment) /\ Len(store) \in Nat /\ DOMAIN store = 1..Len(store)
      BY DEF TypeOK
    <3>2. TailCount = Len(store)
      BY <3>1, TailOfWholeStore DEF IInv, StoreLinked
    <3>3. CASE stateFile = NoState
      <4>1. Len(store) = 0 /\ store = <<>>
        BY <1>3, <3>1, <3>2, <3>3 DEF Refuses
      <4>2. mem' = FreshState /\ Stored = <<>>
        BY <2>1, <3>3, <4>1 DEF InitialState, Stored
      <4> QED BY <4>1, <4>2 DEF FreshState
    <3>4. CASE stateFile # NoState
      <4>1. mem' = stateFile /\ stateFile.records = Len(store)
        BY <1>3, <2>1, <3>2, <3>4 DEF Refuses, InitialState
      <4>2. /\ Len(store) \in DOMAIN store
            /\ stateFile.height = StartHeight + Len(store) - 1
            /\ stateFile.hash = Display(store[Len(store)].block)
            /\ stateFile.commitment = SubSeq(Stored, 1, Len(store))
        BY <3>4, <4>1 DEF IInv, StateFileBehindStore
      <4>3. Stored \in Seq(Block) /\ Len(Stored) = Len(store)
        <5>1. \A i \in 1..Len(store) : store[i].block \in Block
          BY <3>1, FragmentType
        <5> QED BY <3>1, <5>1 DEF Stored
      <4>4. SubSeq(Stored, 1, Len(store)) = Stored
        BY <4>3, SubSeqFull
      <4>5. store # <<>>
        BY <3>1, <4>2
      <4> QED BY <4>1, <4>2, <4>4, <4>5
    <3> QED BY <3>3, <3>4
  <2> QED BY <1>1, <2>2, <2>3, <2>4, <2>5, ProcessFrame DEF IInv
<1> QED BY <1>2, <1>3

\* An adopted store is never appended to: its hash is in the other order.
LEMMA AdoptStep ==
  ASSUME TypeOK, IInv, Adopt
  PROVE  IInv'
<1>1. /\ pc = "down" /\ pc' = "down" /\ adopted' = TRUE /\ exit' = "none"
      /\ stateFile' = [height |-> StartHeight + TailCount - 1, hash |-> TailHash,
                       records |-> TailCount, commitment |-> <<>>]
      /\ UNCHANGED <<nodeVars, store, mem, loopVars, appendFaults>>
  BY DEF Adopt
<1>2. TailHash.order \in {"internal", "mixed"}
  BY TailType DEF TypeOK, Adopt
<1>3. stateFile' # NoState
  BY AdoptType, NoStateAssumption
<1>4. ChainLinked' /\ StoreHeights' /\ StoreOnChain' /\ StoreLinked'
  BY <1>1
  DEF IInv, ChainLinked, StoreHeights, StoreOnChain, StoreLinked, nodeVars, Buried
<1>5. LoopInv' /\ PositionInv' /\ AdoptedInv' /\ MemoryInv' /\ NoFalseAlarm'
        /\ StateFileBehindStore'
  BY <1>1, <1>2, <1>3
  DEF LoopInv, PositionInv, AdoptedInv, MemoryInv, NoFalseAlarm,
      StateFileBehindStore, Up
<1> QED BY <1>4, <1>5 DEF IInv

\* The loop of catch_up begins at the next height.
LEMMA BlockCountStep ==
  ASSUME TypeOK, IInv, BlockCount
  PROVE  IInv'
<1>1. /\ UNCHANGED <<nodeVars, diskVars, auxVars, exit, mem, got>>
      /\ pc = "poll" /\ pc' = "hash" /\ h' = NextHeight /\ target' = Buried
  BY DEF BlockCount
<1>2. Buried \in Int
  BY DepthAssumption DEF Buried, TypeOK
<1>3. LoopInv' /\ AdoptedInv' /\ MemoryInv' /\ NoFalseAlarm'
  BY <1>1, <1>2
  DEF IInv, LoopInv, AdoptedInv, MemoryInv, NoFalseAlarm, NextHeight, Buried,
      Up, Stored, nodeVars, diskVars, auxVars
<1> QED BY <1>1, <1>3, ProcessFrame DEF IInv

\* The hash the node gives is that of a block buried Depth deep.
LEMMA BlockHashStep ==
  ASSUME TypeOK, IInv, BlockHash
  PROVE  IInv'
<1>1. /\ UNCHANGED <<nodeVars, diskVars, auxVars, exit, mem, h, target>>
      /\ pc = "hash" /\ pc' = "block" /\ got' = chain[h] /\ h <= Len(chain)
  BY DEF BlockHash
<1>2. h \in 1..Len(chain) /\ DOMAIN chain = 1..Len(chain)
  BY <1>1 DEF TypeOK
<1>3. got'.height = h'
  BY <1>1, <1>2 DEF IInv, ChainLinked
<1>4. LoopInv' /\ AdoptedInv' /\ MemoryInv' /\ NoFalseAlarm'
  BY <1>1, <1>3
  DEF IInv, LoopInv, AdoptedInv, MemoryInv, NoFalseAlarm, NextHeight, Buried,
      Up, Stored, nodeVars, diskVars, auxVars
<1> QED BY <1>1, <1>4, ProcessFrame DEF IInv

\* With no reorganisation deeper than Depth, the next block extends the last
\* one stored.
LEMMA RawBlockStep ==
  ASSUME TypeOK, IInv, RawBlock
  PROVE  IInv'
<1>1. pc = "block" /\ UNCHANGED <<nodeVars, diskVars, auxVars>>
  BY DEF RawBlock
<1>2. CASE Extends(got)
  <2>1. pc' = "append" /\ UNCHANGED <<exit, mem, loopVars>>
    BY <1>2 DEF RawBlock
  <2>2. ~adopted
    BY <1>2 DEF IInv, AdoptedInv, Extends, NoHash, Up, RawBlock
  <2>3. LoopInv' /\ AdoptedInv' /\ MemoryInv' /\ NoFalseAlarm'
    BY <1>1, <1>2, <2>1, <2>2
    DEF IInv, LoopInv, AdoptedInv, MemoryInv, NoFalseAlarm, NextHeight, Buried,
        Extends, Up, Stored, nodeVars, diskVars, auxVars, loopVars
  <2> QED BY <1>1, <2>1, <2>3, ProcessFrame DEF IInv
<1>3. CASE ~ Extends(got)
  <2>1. GoDown("reorg")
    BY <1>3 DEF RawBlock
  <2>2. ASSUME ~adopted, deepest <= Depth PROVE FALSE
    <3>1. /\ mem.hash # NoHash /\ mem.hash.order = "display"
          /\ mem.hash.block.height = mem.height /\ mem.height >= StartHeight
          /\ h = mem.height + 1
      BY <1>1, <1>3, <2>2
      DEF IInv, PositionInv, Position, Extends, LoopInv, NextHeight
    <3>2. PICK i \in DOMAIN store : store[i].block = mem.hash.block
      BY <2>2, <3>1 DEF IInv, PositionInv, Position
    <3>3. chain[mem.height] = mem.hash.block
      BY <2>2, <3>1, <3>2 DEF IInv, StoreOnChain
    <3>4. chain[h] = got /\ h <= Buried
      <4>1. chain[h] = got /\ target <= Buried
        BY <1>1, <2>2 DEF IInv, LoopInv
      <4>2. h <= target /\ h \in Int /\ target \in Int /\ Buried \in Int
        BY <1>1, DepthAssumption DEF TypeOK, Buried
      <4> QED BY <4>1, <4>2
    <3>5. mem.height \in Nat /\ h > 1 /\ h \in DOMAIN chain
      BY <1>1, <3>1, <3>4, StartAssumption, DepthAssumption
      DEF TypeOK, State, Buried
    <3>6. got.prev = chain[mem.height].id
      <4>1. h - 1 = mem.height
        BY <3>1, <3>5
      <4> QED BY <3>4, <3>5, <4>1 DEF IInv, ChainLinked
    <3> QED BY <1>3, <3>1, <3>3, <3>6 DEF Extends
  <2>3. NoFalseAlarm'
    BY <1>1, <2>2, DepthAssumption DEF NoFalseAlarm, nodeVars, auxVars, TypeOK
  <2> QED
    BY <1>1, <2>1, <2>3, ProcessFrame, DownFrame DEF IInv, GoDown, diskVars
<1> QED BY <1>2, <1>3

\* A call that fails cleanly changes nothing.
LEMMA IOFailsStep ==
  ASSUME TypeOK, IInv, IOFails
  PROVE  IInv'
<1>1. /\ UNCHANGED <<nodeVars, diskVars, auxVars, exit, mem>>
      /\ pc # "down" /\ pc' = "poll"
  BY DEF IOFails, BackToPoll
<1>2. LoopInv' /\ AdoptedInv' /\ MemoryInv' /\ NoFalseAlarm'
  BY <1>1
  DEF IInv, LoopInv, AdoptedInv, MemoryInv, NoFalseAlarm, Up, Stored,
      nodeVars, diskVars, auxVars
<1> QED BY <1>1, <1>2, ProcessFrame DEF IInv

\* A process that is gone satisfies what is said of one.
LEMMA KillStep ==
  ASSUME TypeOK, IInv, Kill
  PROVE  IInv'
<1>1. GoDown("killed") /\ UNCHANGED <<nodeVars, diskVars, auxVars>>
  BY DEF Kill
<1>2. NoFalseAlarm'
  BY <1>1 DEF GoDown, NoFalseAlarm
<1> QED BY <1>1, <1>2, ProcessFrame, DownFrame DEF IInv, GoDown, diskVars

\* The sequence of the store's blocks, and its prefixes.
LEMMA StoredType ==
  ASSUME TypeOK
  PROVE  /\ Stored \in Seq(Block) /\ Len(Stored) = Len(store)
         /\ SubSeq(Stored, 1, Len(store)) = Stored
<1>1. store \in Seq(Fragment) /\ Len(store) \in Nat /\ DOMAIN store = 1..Len(store)
  BY DEF TypeOK
<1>2. \A i \in 1..Len(store) : store[i].block \in Block
  BY <1>1, FragmentType
<1>3. Stored \in Seq(Block) /\ Len(Stored) = Len(store)
  BY <1>1, <1>2 DEF Stored
<1> QED BY <1>3, SubSeqFull

\* Appending a record appends its block, and keeps the prefixes.
LEMMA StoredWritten ==
  ASSUME TypeOK, NEW kind \in TornKind \cup {"whole"}, store' = Written(kind)
  PROVE  /\ Stored' = Append(Stored, got)
         /\ \A n \in 1..Len(store) : SubSeq(Stored', 1, n) = SubSeq(Stored, 1, n)
<1>1. Stored \in Seq(Block) /\ Len(Stored) = Len(store) /\ got \in Block
  BY StoredType DEF TypeOK
<1>2. /\ \A i \in 1..(Len(store) + 1) : Stored'[i] = store'[i].block
      /\ \A i \in 1..Len(store) : Stored[i] = store[i].block
  BY WrittenFrame DEF Stored
<1>3. Stored' \in Seq(Block) /\ Len(Stored') = Len(store) + 1
  <2>1. \A i \in 1..(Len(store) + 1) : store'[i].block \in Block
    BY WrittenFrame, FragmentType, <1>1
  <2> QED BY <2>1, WrittenFrame DEF Stored
<1>4. Stored' = Append(Stored, got)
  <2> DEFINE t == Append(Stored, got)
  <2>1. /\ t \in Seq(Block) /\ Len(t) = Len(store) + 1
        /\ \A i \in 1..Len(store) : t[i] = Stored[i]
        /\ t[Len(store) + 1] = got
    <3> HIDE DEF Stored
    <3> QED BY <1>1, AppendProperties
  <2>2. Len(store) \in Nat /\ store'[Len(store) + 1].block = got
        /\ \A i \in 1..Len(store) : store'[i] = store[i]
    BY WrittenFrame
  <2> HIDE DEF t
  <2>3. \A i \in 1..(Len(store) + 1) : Stored'[i] = t[i]
    BY <1>2, <2>1, <2>2
  <2>4. Stored' = t
    BY <1>3, <2>1, <2>3, SeqEqual
  <2> QED BY <2>4 DEF t
<1>5. ASSUME NEW n \in 1..Len(store)
      PROVE  SubSeq(Stored', 1, n) = SubSeq(Stored, 1, n)
  <2> HIDE DEF Stored
  <2> QED BY <1>1, <1>4
<1> QED BY <1>4, <1>5

\* A record is appended, and self.state moves on to it.
LEMMA AppendRecordStep ==
  ASSUME TypeOK, IInv, AppendRecord
  PROVE  IInv'
<1>1. /\ pc = "append" /\ pc' = "save" /\ store' = Written("whole")
      /\ mem' = Advance(mem, got)
      /\ UNCHANGED <<nodeVars, stateFile, auxVars, exit, loopVars>>
  BY DEF AppendRecord
<1>2. /\ ~adopted /\ got.height = h /\ h = NextHeight /\ Extends(got)
      /\ target <= Buried /\ (deepest <= Depth => chain[h] = got)
  BY <1>1 DEF IInv, LoopInv, AdoptedInv
<1>3. /\ mem'.hash = Display(got) /\ mem'.height = h /\ mem'.hash # NoHash
      /\ mem'.records = mem.records + 1
      /\ mem'.commitment = Append(mem.commitment, got)
  BY <1>1 DEF Advance, Display, NoHash
<1>4. /\ ChainLinked' /\ StoreHeights' /\ StoreOnChain'
      /\ stateFile # NoState => stateFile.hash # NoHash /\ Position(stateFile)'
  BY <1>1, <1>2, WrittenStep DEF auxVars
<1>5. Position(mem)'
  <2>1. h \in Nat /\ mem.height \in Nat /\ StartHeight \in Nat
    BY StartAssumption DEF TypeOK, State
  <2>2. /\ mem.hash = NoHash => h = StartHeight
        /\ mem.hash # NoHash => h = mem.height + 1 /\ Position(mem) /\ mem.height >= StartHeight
    BY <1>2 DEF NextHeight, IInv, PositionInv, Position
  <2>3. h >= StartHeight
    BY <2>1, <2>2
  <2>4. ASSUME NEW n \in StartHeight..h
        PROVE  \E i \in DOMAIN store' :
                 store'[i].kind = "whole" /\ store'[i].block.height = n
    <3>1. CASE n = h
      <4>1. Len(store) + 1 \in DOMAIN store'
        BY <1>1, WrittenFrame
      <4> QED BY <1>1, <1>2, <3>1, <4>1, WrittenFrame
    <3>2. CASE n # h
      <4>1. mem.hash # NoHash /\ n \in StartHeight..mem.height
        BY <2>1, <2>2, <3>2
      <4>2. PICK i \in DOMAIN store :
                   store[i].kind = "whole" /\ store[i].block.height = n
        BY <2>2, <4>1 DEF Position
      <4>3. i \in DOMAIN store' /\ store'[i] = store[i]
        BY <1>1, WrittenFrame
      <4> QED BY <4>2, <4>3
    <3> QED BY <3>1, <3>2
  <2>5. \E i \in DOMAIN store' : store'[i].block = got
    <3>1. Len(store) + 1 \in DOMAIN store'
      BY <1>1, WrittenFrame
    <3> QED BY <1>1, <3>1, WrittenFrame
  <2>6. Display(got).order = "display" /\ Display(got).block = got
    BY DEF Display
  <2> QED BY <1>2, <1>3, <2>3, <2>4, <2>5, <2>6 DEF Position
<1>6. PositionInv' /\ AdoptedInv' /\ NoFalseAlarm'
  BY <1>1, <1>2, <1>4, <1>5
  DEF IInv, PositionInv, AdoptedInv, NoFalseAlarm, auxVars, nodeVars
<1>7. LoopInv'
  BY <1>1, <1>2, <1>3 DEF LoopInv, Buried, nodeVars, loopVars
<1>8. ASSUME appendFaults = 0
      PROVE  /\ mem.commitment = Stored /\ mem.records = Len(store)
             /\ h = StartHeight + Len(store)
             /\ store # <<>> => got.prev = store[Len(store)].block.id
  <2>1. /\ mem.commitment = Stored /\ mem.records = Len(store)
        /\ IF store = <<>>
           THEN mem.hash = NoHash
           ELSE /\ mem.hash = Display(store[Len(store)].block)
                /\ mem.height = StartHeight + Len(store) - 1
    BY <1>1, <1>2, <1>8 DEF IInv, MemoryInv, Up
  <2>2. CASE store = <<>>
    BY <1>2, <2>1, <2>2, StartAssumption DEF NextHeight
  <2>3. CASE store # <<>>
    <3>1. mem.hash # NoHash /\ mem.hash.block = store[Len(store)].block
      BY <2>1, <2>3 DEF Display, NoHash
    <3>2. h = StartHeight + Len(store)
      BY <1>2, <2>1, <2>3, <3>1, StartAssumption DEF NextHeight, TypeOK
    <3> QED BY <1>2, <2>1, <3>1, <3>2 DEF Extends
  <2> QED BY <2>2, <2>3
<1>9. StoreLinked'
  <2> SUFFICES ASSUME appendFaults = 0, NEW i \in 1..(Len(store) + 1)
               PROVE  /\ store'[i].kind = "whole"
                      /\ store'[i].block.height = StartHeight + i - 1
                      /\ i > 1 => store'[i].block.prev = store'[i-1].block.id
    BY <1>1, WrittenFrame DEF StoreLinked, auxVars
  <2>1. CASE i <= Len(store)
    <3>1. i \in DOMAIN store /\ store'[i] = store[i]
      BY <1>1, <2>1, WrittenFrame
    <3>2. i > 1 => store'[i-1] = store[i-1]
      BY <1>1, <2>1, WrittenFrame
    <3> QED BY <3>1, <3>2 DEF IInv, StoreLinked
  <2>2. CASE i = Len(store) + 1
    <3>1. store'[i].kind = "whole" /\ store'[i].block = got /\ Len(store) \in Nat
      BY <1>1, <2>2, WrittenFrame
    <3>2. got.height = StartHeight + i - 1
      BY <1>2, <1>8, <2>2, <3>1, StartAssumption
    <3>3. i > 1 => store # <<>> /\ store'[i-1] = store[Len(store)]
      BY <1>1, <2>2, <3>1, WrittenFrame
    <3> QED BY <1>8, <3>1, <3>2, <3>3
  <2> QED BY <1>1, <2>1, <2>2, WrittenFrame
<1>10. MemoryInv'
  <2> SUFFICES ASSUME appendFaults = 0
               PROVE  /\ mem'.commitment = Stored'
                      /\ mem'.records = Len(store')
                      /\ store' # <<>>
                      /\ mem'.hash = Display(store'[Len(store')].block)
                      /\ mem'.height = StartHeight + Len(store') - 1
    BY <1>1 DEF MemoryInv, auxVars
  <2>1. mem'.commitment = Stored'
    BY <1>1, <1>3, <1>8, StoredWritten
  <2>2. Len(store') = Len(store) + 1 /\ Len(store) \in Nat
        /\ store'[Len(store')].block = got
    BY <1>1, WrittenFrame
  <2>3. store' # <<>>
    BY <2>2
  <2> QED BY <1>3, <1>8, <2>1, <2>2, <2>3, StartAssumption
<1>11. StateFileBehindStore'
  <2> SUFFICES ASSUME appendFaults = 0, stateFile # NoState
               PROVE  LET n == stateFile.records
                      IN /\ n \in DOMAIN store'
                         /\ stateFile.height = StartHeight + n - 1
                         /\ stateFile.hash = Display(store'[n].block)
                         /\ stateFile.commitment = SubSeq(Stored', 1, n)
    BY <1>1 DEF StateFileBehindStore, auxVars
  <2> DEFINE n == stateFile.records
  <2>1. /\ n \in 1..Len(store)
        /\ stateFile.height = StartHeight + n - 1
        /\ stateFile.hash = Display(store[n].block)
        /\ stateFile.commitment = SubSeq(Stored, 1, n)
    BY <1>1, <1>2, WrittenFrame DEF IInv, StateFileBehindStore
  <2>2. n \in DOMAIN store' /\ store'[n] = store[n]
    BY <1>1, <2>1, WrittenFrame
  <2>3. SubSeq(Stored', 1, n) = SubSeq(Stored, 1, n)
    BY <1>1, <2>1, StoredWritten
  <2> QED BY <2>1, <2>2, <2>3
<1> QED BY <1>4, <1>6, <1>7, <1>9, <1>10, <1>11 DEF IInv

\* state.json catches up with the store.
LEMMA SaveStateStep ==
  ASSUME TypeOK, IInv, SaveState
  PROVE  IInv'
<1>1. /\ pc = "save" /\ stateFile' = mem
      /\ UNCHANGED <<nodeVars, store, auxVars, exit, mem>>
  BY DEF SaveState
<1>2. /\ ~adopted /\ mem.hash = Display(got) /\ mem.height = h /\ mem.hash # NoHash
      /\ target <= Buried /\ Position(mem)
  BY <1>1 DEF IInv, LoopInv, AdoptedInv, PositionInv, Display, NoHash
<1>3. \/ pc' = "poll"
      \/ pc' = "hash" /\ h' = h + 1 /\ UNCHANGED target
  BY DEF SaveState, BackToPoll
<1>4. ChainLinked' /\ StoreHeights' /\ StoreOnChain' /\ StoreLinked'
  BY <1>1
  DEF IInv, ChainLinked, StoreHeights, StoreOnChain, StoreLinked, nodeVars,
      auxVars, Buried
<1>5. LoopInv'
  BY <1>1, <1>2, <1>3 DEF LoopInv, NextHeight, Buried, nodeVars
<1>6. PositionInv' /\ AdoptedInv' /\ NoFalseAlarm'
  BY <1>1, <1>2
  DEF IInv, PositionInv, Position, AdoptedInv, NoFalseAlarm, auxVars, nodeVars
<1>7. ASSUME appendFaults = 0
      PROVE  /\ mem.commitment = Stored
             /\ mem.records = Len(store) /\ Len(store) \in DOMAIN store
             /\ mem.hash = Display(store[Len(store)].block)
             /\ mem.height = StartHeight + Len(store) - 1
  <2>1. Up
    BY <1>1 DEF Up
  <2>2. store # <<>> /\ store \in Seq(Fragment)
    BY <1>2, <1>7, <2>1 DEF IInv, MemoryInv, TypeOK
  <2> QED BY <1>2, <1>7, <2>1, <2>2 DEF IInv, MemoryInv
<1>8. MemoryInv'
  BY <1>1, <1>3 DEF IInv, MemoryInv, Up, Stored, auxVars
<1>9. StateFileBehindStore'
  <2> SUFFICES ASSUME appendFaults = 0
               PROVE  LET n == mem.records
                      IN /\ n \in DOMAIN store
                         /\ mem.height = StartHeight + n - 1
                         /\ mem.hash = Display(store[n].block)
                         /\ mem.commitment = SubSeq(Stored, 1, n)
    BY <1>1 DEF StateFileBehindStore, Stored, auxVars
  <2> QED BY <1>7, StoredType
<1> QED BY <1>4, <1>5, <1>6, <1>8, <1>9 DEF IInv

\* An append that fails leaves its fragment, and memory as it was.
LEMMA FaultStep ==
  ASSUME TypeOK, IInv, NEW kind \in TornKind \cup {"whole"}, pc = "append",
         store' = Written(kind), appendFaults' = appendFaults + 1,
         UNCHANGED <<nodeVars, stateFile, adopted>>,
         \/ pc' = "poll" /\ UNCHANGED <<mem, exit>>
         \/ GoDown("killed")
  PROVE  IInv'
<1>1. /\ ~adopted /\ ChainLinked' /\ StoreHeights' /\ StoreOnChain'
      /\ Position(mem) /\ mem' = mem => Position(mem)'
      /\ stateFile # NoState => stateFile.hash # NoHash /\ Position(stateFile)'
  BY WrittenStep
<1>2. appendFaults' # 0
  BY DEF TypeOK
<1>3. Position(mem)'
  <2>1. CASE mem' = mem
    BY <1>1, <2>1 DEF IInv, PositionInv
  <2>2. CASE mem' = FreshState
    BY <2>2 DEF Position, FreshState
  <2> QED BY <2>1, <2>2 DEF GoDown
<1>4. PositionInv' /\ AdoptedInv'
  BY <1>1, <1>3 DEF PositionInv, AdoptedInv
<1>5. MemoryInv' /\ StoreLinked' /\ StateFileBehindStore'
  BY <1>2 DEF MemoryInv, StoreLinked, StateFileBehindStore
<1>6. LoopInv' /\ NoFalseAlarm'
  BY DEF IInv, LoopInv, NoFalseAlarm, GoDown, nodeVars
<1> QED BY <1>1, <1>4, <1>5, <1>6 DEF IInv

\* Every step of the specification keeps the inductive invariant.
LEMMA IInvStep == TypeOK /\ IInv /\ [Next]_vars => IInv'
<1> SUFFICES ASSUME TypeOK, IInv, [Next]_vars PROVE IInv'
  OBVIOUS
<1>1. ASSUME NEW k \in 0..MaxReorg, Reorganise(k) PROVE IInv'
  BY <1>1, ReorganiseStep
<1>2. CASE Start
  BY <1>2, StartStep
<1>3. CASE Adopt
  BY <1>3, AdoptStep
<1>4. CASE BlockCount
  BY <1>4, BlockCountStep
<1>5. CASE BlockHash
  BY <1>5, BlockHashStep
<1>6. CASE RawBlock
  BY <1>6, RawBlockStep
<1>7. CASE AppendRecord
  BY <1>7, AppendRecordStep
<1>8. CASE SaveState
  BY <1>8, SaveStateStep
<1>9. CASE IOFails
  BY <1>9, IOFailsStep
<1>10. ASSUME NEW kind \in TornKind \cup {"whole"}, AppendFails(kind)
       PROVE  IInv'
  BY <1>10, FaultStep DEF AppendFails, BackToPoll
<1>11. CASE Kill
  BY <1>11, KillStep
<1>12. ASSUME NEW kind \in TornKind, KillInAppend(kind) PROVE IInv'
  BY <1>12, FaultStep DEF KillInAppend
<1>13. CASE UNCHANGED vars
  <2>1. /\ UNCHANGED <<nodeVars, diskVars, auxVars>>
        /\ UNCHANGED <<pc, exit, mem, h, target, got>>
    BY <1>13 DEF vars, procVars, loopVars
  <2>2. LoopInv' /\ AdoptedInv' /\ MemoryInv' /\ NoFalseAlarm'
    BY <2>1
    DEF IInv, LoopInv, AdoptedInv, MemoryInv, NoFalseAlarm, NextHeight, Buried,
        Extends, Up, Stored, nodeVars, diskVars, auxVars
  <2> QED BY <2>1, <2>2, ProcessFrame DEF IInv
<1> QED
  BY <1>1, <1>2, <1>3, <1>4, <1>5, <1>6, <1>7, <1>8, <1>9, <1>10, <1>11,
     <1>12, <1>13 DEF Next

\* The inductive invariant holds of an empty store and no process.
LEMMA IInvInit == Init => IInv
<1> SUFFICES ASSUME Init PROVE IInv
  OBVIOUS
<1>1. chain = <<>> /\ store = <<>> /\ DOMAIN chain = {} /\ DOMAIN store = {}
  BY DEF Init
<1>2. pc = "down" /\ exit = "none" /\ ~adopted /\ stateFile = NoState /\ mem.hash = NoHash
  BY DEF Init, FreshState
<1> QED
  BY <1>1, <1>2
  DEF IInv, ChainLinked, LoopInv, PositionInv, Position, AdoptedInv,
      StoreHeights, MemoryInv, StoreOnChain, NoFalseAlarm, StoreLinked,
      StateFileBehindStore, Up

\* The inductive invariant holds in every state the program can reach.
THEOREM Invariance == Spec => []IInv
<1>1. Init => IInv
  BY IInvInit
<1>2. TypeOK /\ IInv /\ [Next]_vars => IInv'
  BY IInvStep
<1> QED BY <1>1, <1>2, TypeCorrect, PTL DEF Spec

-----------------------------------------------------------------------------
(***************************************************************************)
(* What a user of the daemon relies on.                                    *)
(***************************************************************************)

\* A reorganisation no deeper than --depth never touches the store.
THEOREM ShallowReorgsAreInvisible == Spec => []StoreOnChain
<1>1. IInv => StoreOnChain
  BY DEF IInv
<1> QED BY <1>1, Invariance, PTL

\* The daemon never stops with "Reorg deeper than --depth detected" over a
\* store of its own unless there was such a reorganisation.
THEOREM NoFalseAlarms == Spec => []NoFalseAlarm
<1>1. IInv => NoFalseAlarm
  BY DEF IInv
<1> QED BY <1>1, Invariance, PTL

\* The records of the store form one chain without gaps or repetitions.
THEOREM StoreIsOneChain == Spec => []StoreLinked
<1>1. IInv => StoreLinked
  BY DEF IInv
<1> QED BY <1>1, Invariance, PTL

\* The commitment in memory is the commitment of the records on disk.
THEOREM CommitmentIsOfStore == Spec => []CommitmentDescribesStore
<1>1. IInv => CommitmentDescribesStore
  BY DEF IInv, MemoryInv, CommitmentDescribesStore
<1> QED BY <1>1, Invariance, PTL

\* At every instant state.json describes a prefix of the store.
THEOREM StateFileNeverAhead == Spec => []StateFileBehindStore
<1>1. IInv => StateFileBehindStore
  BY DEF IInv
<1> QED BY <1>1, Invariance, PTL

\* No failed, torn or repeated append makes the daemon pass over a height.
THEOREM EveryHeightIsStored == Spec => []NoBlockSkipped
<1>1. IInv => NoBlockSkipped
  BY DEF IInv, PositionInv, Position, NoBlockSkipped
<1> QED BY <1>1, Invariance, PTL

-----------------------------------------------------------------------------
(***************************************************************************)
(* The daemon implements the abstract log.                                 *)
(***************************************************************************)

\* The commitment that state.json shows to the outside.
Published == IF stateFile = NoState THEN <<>> ELSE stateFile.commitment

\* An append that goes as written extends the log by a child of its last
\* block.
LEMMA AppendRecordExtends ==
  ASSUME TypeOK, IInv, AppendRecord, appendFaults = 0
  PROVE  /\ got \in Block
         /\ Stored # <<>> => got.prev = Stored[Len(Stored)].id
         /\ Stored' = Append(Stored, got)
         /\ Published' = Published /\ adopted' = adopted
<1>1. pc = "append" /\ Extends(got) /\ ~adopted /\ Up
  BY DEF AppendRecord, IInv, LoopInv, AdoptedInv, Up
<1>2. /\ Stored' = Append(Stored, got) /\ Published' = Published /\ got \in Block
      /\ adopted' = adopted
  BY StoredWritten DEF AppendRecord, Published, TypeOK, auxVars
<1>3. ASSUME Stored # <<>> PROVE got.prev = Stored[Len(Stored)].id
  <2>1. Len(Stored) = Len(store) /\ store # <<>>
    BY <1>3, StoredType DEF Stored
  <2>2. Len(store) \in DOMAIN store
    BY <2>1 DEF TypeOK
  <2>3. mem.hash = Display(store[Len(store)].block)
    BY <1>1, <2>1 DEF IInv, MemoryInv
  <2> QED BY <1>1, <2>1, <2>2, <2>3 DEF Extends, Display, NoHash, Stored
<1> QED BY <1>2, <1>3

\* A step of the daemon extends the log, publishes its commitment, disowns
\* it, or leaves both alone.
LEMMA RefinementStep ==
  ASSUME MaxAppendFaults = 0
  PROVE  TypeOK /\ IInv /\ appendFaults = 0 /\ [Next]_vars
           => [Log!Next]_(Log!vars)
<1> SUFFICES ASSUME TypeOK, IInv, appendFaults = 0, [Next]_vars
             PROVE  [Log!Next]_(Log!vars)
  OBVIOUS
<1>1. CASE AppendRecord
  <2>1. Log!Extend(got)
    BY <1>1, AppendRecordExtends DEF Log!Extend, Published
  <2> QED BY <1>1, <2>1, AppendRecordExtends DEF Log!Next
<1>2. CASE SaveState
  <2>1. pc = "save" /\ stateFile' = mem /\ store' = store /\ adopted' = adopted
    BY <1>2 DEF SaveState, auxVars
  <2>2. mem.commitment = Stored /\ ~adopted
    BY <2>1 DEF IInv, MemoryInv, AdoptedInv, Up
  <2>3. stateFile' # NoState
    BY <2>1, NoStateAssumption DEF TypeOK
  <2>4. Log!Publish
    BY <2>1, <2>2, <2>3 DEF Log!Publish, Stored
  <2> QED BY <2>4 DEF Log!Next
<1>3. CASE Adopt
  <2>1. stateFile' # NoState
    BY <1>3, AdoptType, NoStateAssumption
  <2>2. Log!Disown
    BY <1>3, <2>1 DEF Adopt, Log!Disown, Stored
  <2> QED BY <2>2 DEF Log!Next
<1>4. CASE UNCHANGED <<diskVars, adopted>>
  BY <1>4 DEF diskVars, Log!vars, Stored
<1> QED
  BY <1>1, <1>2, <1>3, <1>4
  DEF Next, Reorganise, Start, BlockCount, BlockHash, RawBlock, IOFails, Kill,
      AppendFails, KillInAppend, vars, auxVars

\* When appends fail cleanly or not at all, the store and the commitment in
\* state.json behave as the abstract log, whatever the node, restarts, kills
\* and --adopt do.
THEOREM Refinement ==
  ASSUME MaxAppendFaults = 0
  PROVE  Spec => ImplementsLog
<1>1. Init => Log!Init
  BY DEF Init, Log!Init, Stored
<1>2. Init => appendFaults = 0
  BY DEF Init
<1>3. TypeOK /\ appendFaults = 0 /\ [Next]_vars => (appendFaults = 0)'
  BY DEF Next, Reorganise, Start, Adopt, BlockCount, BlockHash, RawBlock,
         AppendRecord, SaveState, IOFails, Kill, AppendFails, KillInAppend,
         vars, auxVars
<1>4. TypeOK /\ IInv /\ appendFaults = 0 /\ [Next]_vars => [Log!Next]_(Log!vars)
  BY RefinementStep
<1> QED
  BY <1>1, <1>2, <1>3, <1>4, TypeCorrect, Invariance, PTL
  DEF Spec, ImplementsLog, Log!Spec
=============================================================================
