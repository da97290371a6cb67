----------------------------- MODULE BlockIndex -----------------------------
(***************************************************************************)
(* The index of a node's blk*.dat files, as tools/mindex.py and the writer *)
(* of tools/monetary_store.py build it, cache it and use it.               *)
(*                                                                         *)
(* The node goes on writing while an indexer runs: it stores blocks in the *)
(* order they arrive, whatever their place in the chain, into files that   *)
(* it allocates in chunks ahead of what they hold and cuts to what they    *)
(* hold once they are full.  An indexer takes the sizes of all files, and  *)
(* then reads, one after the other, those whose size is not the cached     *)
(* one.  It can be killed at any time; the cache stays.                    *)
(***************************************************************************)
EXTENDS Integers, Sequences, Lists

CONSTANTS
  Blocks,      \* number of blocks there are beside genesis
  FileCap,     \* blocks that a file holds
  Chunk,       \* the node allocates file space for so many blocks at once
  Checkpoint,  \* --checkpoint: files between two saves of mindex
  DepthLimit,  \* depth's limit: it counts at most so many blocks
  End,         \* --end: the height up to which the chain is followed
  None,        \* Python's None
  MaxRuns      \* bound: indexers ever started

ASSUME CountAssumption == Blocks \in Nat /\ MaxRuns \in Nat
ASSUME ChainAssumption == DepthLimit \in Nat \ {0} /\ End \in Nat
ASSUME FileAssumption == FileCap \in Nat \ {0} /\ Checkpoint \in Nat \ {0}
\* A full file does not happen to end where a chunk does.
ASSUME ChunkAssumption == Chunk \in Nat \ {0} /\ FileCap % Chunk # 0

VARIABLES
  parent,  \* parent[b]: the block that b builds on
  blk,     \* the node's files: [held: its blocks, in order; size: its length]
  cache,   \* the cache file: [files, recs], or None
  pc,      \* what the latest indexer does: "none", "scan", "done", "killed"
  tool,    \* which one it is: "mindex" or "store"
  current, \* the files it found when it started, as in blk
  blob,    \* the records it has: [block, file, place], file a number in that list of files
  todo,    \* the files it has yet to read, in order
  count,   \* how many it has read
  runs     \* auxiliary: indexers started

nodeVars == <<parent, blk>>
runVars == <<pc, tool, current, blob, todo, count>>
vars == <<nodeVars, cache, runVars, runs>>

Genesis == 0
Block == 0..Blocks

File == [held : Seq(Block), size : Nat]
Record == [block : Block, file : Nat, place : Nat]
Cache == [files : Seq([no : Nat, size : Nat]), recs : Seq(Record)]

-----------------------------------------------------------------------------
(* The node (external).                                                    *)

Stored == UNION {{blk[i].held[j] : j \in DOMAIN blk[i].held} : i \in DOMAIN blk}

Store(b) ==
  /\ b \notin Stored
  /\ LET last == blk[Len(blk)]
         room == Len(last.held) < FileCap
         held == IF room THEN Append(last.held, b) ELSE <<b>>
         size == IF room /\ Len(held) <= last.size THEN last.size
                 ELSE IF room THEN last.size + Chunk ELSE Chunk
     IN blk' = IF room
               THEN [blk EXCEPT ![Len(blk)] = [held |-> held, size |-> size]]
               ELSE Append([blk EXCEPT ![Len(blk)].size = FileCap], [held |-> held, size |-> size])
  /\ UNCHANGED <<parent, cache, runVars, runs>>

-----------------------------------------------------------------------------
(* The indexers.                                                           *)

Init ==
  /\ parent \in {p \in [1..Blocks -> Block] : \A b \in 1..Blocks : p[b] < b}
  /\ blk = <<[held |-> <<Genesis>>, size |-> Chunk]>>
  /\ cache = None
  /\ pc = "none"
  /\ tool = "mindex"
  /\ current = <<>>
  /\ blob = <<>>
  /\ todo = <<>>
  /\ count = 0
  /\ runs = 0

\* What load_cache finds.
Cached == IF cache = None THEN [files |-> <<>>, recs |-> <<>>] ELSE cache

\* A cached file can be reused if it has the size it had.
SameFile(f) == f.no \in DOMAIN blk /\ blk[f.no].size = f.size

\* Faulty: no record is left behind.
KeptAll(reusable) == Cached.recs

\* The cached records of the files that can be reused.
Kept(reusable) ==
  Only(Cached.recs, {k \in DOMAIN Cached.recs : Cached.recs[k].file \in reusable})

\* main of mindex, build_index of the store: the files and their sizes; the
\* records that are kept, with the files' present numbers; what is left to do.
Start(which) ==
  /\ pc # "scan"
  /\ runs < MaxRuns
  /\ runs' = runs + 1
  /\ tool' = which
  /\ current' = blk
  /\ LET reusable == {i \in DOMAIN Cached.files : SameFile(Cached.files[i])}
         reused == {Cached.files[i].no : i \in reusable}
         kept == Kept(reusable)
     IN /\ blob' = [k \in DOMAIN kept |-> [kept[k] EXCEPT !.file = Cached.files[@].no]]
        /\ todo' = Only([i \in DOMAIN blk |-> i], DOMAIN blk \ reused)
  /\ count' = 0
  /\ pc' = IF todo' = <<>> THEN "done" ELSE "scan"
  /\ UNCHANGED <<nodeVars, cache>>

\* save_cache: the records with the files given.
Saved(numbers, records) ==
  [files |-> [i \in DOMAIN numbers |-> [no |-> numbers[i], size |-> current[numbers[i]].size]],
   recs |-> records]

All == [i \in DOMAIN current |-> i]

\* Faulty: the files that are saved with a checkpoint are all there are.
CheckpointOfAll(left, records) == Saved(All, records)

\* The files read so far; the others are absent.
CheckpointOf(left, records) ==
  Saved(Only(All, {i \in DOMAIN All : \A k \in DOMAIN left : left[k] # i}), records)

\* scan_file: what the file holds now.
Found(i) ==
  [j \in DOMAIN blk[i].held |-> [block |-> blk[i].held[j], file |-> i, place |-> j]]

\* The loop over the files.  mindex saves what it has every so many files,
\* both when they are through.
ScanFile ==
  /\ pc = "scan"
  /\ LET left == Tail(todo)
     IN /\ blob' = blob \o Found(Head(todo))
        /\ todo' = left
        /\ count' = count + 1
        /\ cache' = IF left = <<>> THEN Saved(All, blob')
                    ELSE IF tool = "mindex" /\ count' % Checkpoint = 0
                    THEN CheckpointOf(left, blob')
                    ELSE cache
        /\ pc' = IF left = <<>> THEN "done" ELSE "scan"
  /\ UNCHANGED <<nodeVars, tool, current, runs>>

Kill ==
  /\ pc = "scan"
  /\ pc' = "killed"
  /\ UNCHANGED <<nodeVars, cache, tool, current, blob, todo, count, runs>>

Next ==
  \/ \E b \in Block : Store(b)
  \/ \E which \in {"mindex", "store"} : Start(which)
  \/ ScanFile
  \/ Kill

Spec == Init /\ [][Next]_vars

-----------------------------------------------------------------------------
(* height_map: from genesis up, of several children the one with the most  *)
(* blocks above it.                                                        *)

\* The children of b, in the order of their records.
Children(b) ==
  LET above == Only(blob, {k \in DOMAIN blob :
                             blob[k].block # Genesis /\ parent[blob[k].block] = b})
  IN [k \in DOMAIN above |-> above[k].block]

\* Faulty: the child that was stored first.
FirstChild(b) == Children(b)[1]

\* depth: how far the first children lead, up to the limit.
Depth(b) ==
  LET up[n \in Nat] ==
        IF n = 0 THEN [c \in Block |-> 0]
        ELSE LET less == up[n - 1]
             IN [c \in Block |-> IF Children(c) = <<>> THEN 0 ELSE 1 + less[Children(c)[1]]]
  IN up[DepthLimit][b]

\* max(kids, key=depth): the first of the deepest.
DeepestChild(b) ==
  LET kids == Children(b)
  IN kids[CHOOSE k \in DOMAIN kids :
            /\ \A j \in DOMAIN kids : Depth(kids[j]) <= Depth(kids[k])
            /\ \A j \in 1..(k - 1) : Depth(kids[j]) < Depth(kids[k])]

\* heights, from 0 up, as long as there are children.
Heights ==
  LET chain[h \in 0..End] ==
        IF h = 0 THEN <<Genesis>>
        ELSE LET below == chain[h - 1]
                 cur == below[Len(below)]
             IN IF Children(cur) = <<>> THEN below ELSE Append(below, DeepestChild(cur))
  IN chain[End]

-----------------------------------------------------------------------------
(* Properties.                                                             *)

Indexed == {blob[k].block : k \in DOMAIN blob}

\* "A partial cache is valid": whenever an indexer was killed, and whatever
\* the node wrote meanwhile, each record in the cache leads to the block it
\* names, and no block has two.
CacheTruthful ==
  cache # None =>
    /\ \A k \in DOMAIN cache.recs :
         LET r == cache.recs[k]
         IN /\ r.file \in DOMAIN cache.files
            /\ r.place \in DOMAIN blk[cache.files[r.file].no].held
            /\ blk[cache.files[r.file].no].held[r.place] = r.block
    /\ \A j, k \in DOMAIN cache.recs : cache.recs[j].block = cache.recs[k].block => j = k

\* A finished index has every block of the files that were full when it
\* started, however many runs, checkpoints and kills it was made of.
FullFilesComplete ==
  pc = "done" =>
    \A i \in 1..(Len(current) - 1) :
      \A j \in DOMAIN current[i].held : current[i].held[j] \in Indexed

\* The chain that is followed through a complete index is the longest one, if
\* no branch off it has more than one block: it has a block of each height up
\* to the last, and of several blocks the one that others build on.
Above(b) == {c \in 1..Blocks : parent[c] = b}
AtHeight[h \in Nat] == IF h = 0 THEN {Genesis} ELSE UNION {Above(b) : b \in AtHeight[h - 1]}
LongForks ==
  \E a, b \in 1..Blocks :
    a # b /\ parent[a] = parent[b] /\ Above(a) # {} /\ Above(b) # {}
ShortForksResolved ==
  pc = "done" /\ Indexed = Block /\ ~LongForks =>
    /\ \A h \in 1..Len(Heights) :
         /\ Heights[h] \in AtHeight[h - 1]
         /\ \A b \in AtHeight[h - 1] : Above(b) # {} => Heights[h] = b
    /\ Len(Heights) = End + 1 \/ AtHeight[Len(Heights)] = {}
=============================================================================
