-------------------------- MODULE BlockIndexProofs ---------------------------
(***************************************************************************)
(* The block index for any number of blocks, files and runs, any size of   *)
(* files, chunks and checkpoints.                                          *)
(***************************************************************************)
EXTENDS BlockIndex, DataLemmas

-----------------------------------------------------------------------------
(* The inductive invariant.                                                *)

\* All files but the last are full and cut to what they hold; the last ends
\* where a chunk does.  No block is stored twice.
FilesInv ==
  /\ blk \in Seq(File) /\ Len(blk) >= 1
  /\ \A i \in 1..Len(blk) :
       IF i < Len(blk) THEN blk[i].size = FileCap ELSE blk[i].size % Chunk = 0
  /\ \A i, j \in 1..Len(blk) : \A p \in 1..Len(blk[i].held), q \in 1..Len(blk[j].held) :
       blk[i].held[p] = blk[j].held[q] => i = j /\ p = q

\* What an indexer found are the node's files; only the last may have changed.
CurrentInv ==
  /\ current \in Seq(File) /\ Len(current) <= Len(blk)
  /\ \A i \in 1..Len(current) :
       IF i < Len(current) THEN current[i] = blk[i] ELSE current[i].size % Chunk = 0

\* Each record leads to its block in one of the first n files, and no two to
\* the same.
Leads(files, recs, n) ==
  /\ recs \in Seq(Record)
  /\ \A k \in 1..Len(recs) :
       /\ recs[k].file \in 1..n
       /\ recs[k].place \in 1..Len(files[recs[k].file].held)
       /\ files[recs[k].file].held[recs[k].place] = recs[k].block
  /\ \A j, k \in 1..Len(recs) :
       recs[j].file = recs[k].file /\ recs[j].place = recs[k].place => j = k

\* File i has a record of each of its blocks.
Complete(files, recs, i) ==
  \A p \in 1..Len(files[i].held) :
    \E k \in 1..Len(recs) : recs[k] = [block |-> files[i].held[p], file |-> i, place |-> p]

\* An indexer reads the files from one of them on to the last, and has all
\* blocks of those before.
Read == Len(current) - Len(todo)
RecordsInv ==
  /\ todo = [k \in 1..Len(todo) |-> Read + k] /\ Len(todo) \in 0..Len(current)
  /\ Leads(blk, blob, Read)
  /\ \A i \in 1..Read : i < Len(current) => Complete(blk, blob, i)
  /\ pc = "done" => todo = <<>>
  /\ pc = "scan" => todo # <<>>

\* What load_cache finds are the node's first files, whole except perhaps the
\* last, which then has the length of a file that the node still writes to.
Sound(files, c) ==
  /\ c \in Cache
  /\ Len(c.files) <= Len(files)
  /\ \A i \in 1..Len(c.files) :
       /\ c.files[i].no = i
       /\ i < Len(c.files) => c.files[i].size = FileCap
       /\ IF c.files[i].size = FileCap THEN i < Len(files) /\ Complete(files, c.recs, i)
          ELSE c.files[i].size % Chunk = 0
  /\ Leads(files, c.recs, Len(c.files))
CacheInv == Sound(blk, Cached)

IInv == FilesInv /\ CurrentInv /\ RecordsInv /\ CacheInv

-----------------------------------------------------------------------------
(* The node writes on.                                                     *)

\* The old files are still there, those that were full are as they were, and
\* the one that was not still begins with the same blocks.
Grown(old, new) ==
  /\ Len(old) <= Len(new)
  /\ \A i \in 1..Len(old) :
       /\ i < Len(old) => new[i] = old[i]
       /\ Len(old[i].held) <= Len(new[i].held)
       /\ \A p \in 1..Len(old[i].held) : new[i].held[p] = old[i].held[p]

\* Every place in the files of new is one in old, but one, where b is.
OneMore(old, new, b) ==
  \E n \in 1..Len(new), q \in Nat :
    /\ new[n].held[q] = b
    /\ \A i \in 1..Len(new) : \A p \in 1..Len(new[i].held) :
         \/ i = n /\ p = q
         \/ i \in 1..Len(old) /\ p \in 1..Len(old[i].held) /\ new[i].held[p] = old[i].held[p]

LEMMA ChunksEnd ==
  ASSUME NEW size \in Nat, size % Chunk = 0
  PROVE  (size + Chunk) % Chunk = 0 /\ Chunk % Chunk = 0 /\ size + Chunk \in Nat /\ Chunk \in Nat
<1>1. Chunk \in Nat \ {0} /\ size + Chunk \in Nat
  BY ChunkAssumption
<1>2. PICK q \in Nat : size = Chunk * q
  BY <1>1, MultipleIff
<1>3. size + Chunk = Chunk * (q + 1) /\ q + 1 \in Nat
  BY <1>1, <1>2, SMT
<1>4. Chunk = Chunk * 1
  BY <1>1, SMT
<1> QED BY <1>1, <1>3, <1>4, MultipleIff

\* A block goes into the last file, or the last is cut and a new one begun.
LEMMA StoreIs ==
  ASSUME FilesInv, NEW b \in Block, Store(b)
  PROVE  /\ blk' \in Seq(File) /\ Len(blk') >= 1
         /\ \A i \in 1..Len(blk') :
              IF i < Len(blk') THEN blk'[i].size = FileCap ELSE blk'[i].size % Chunk = 0
         /\ Grown(blk, blk')
         /\ OneMore(blk, blk', b)
<1> DEFINE last == blk[Len(blk)]
           room == Len(last.held) < FileCap
           held == IF room THEN Append(last.held, b) ELSE <<b>>
           size == IF room /\ Len(held) <= last.size THEN last.size
                   ELSE IF room THEN last.size + Chunk ELSE Chunk
<1>1. PICK L : L = Len(blk) /\ L \in Nat /\ L >= 1
  BY DEF FilesInv
<1>2. blk \in Seq(File) /\ \A i \in 1..L : blk[i] \in File
  BY <1>1 DEF FilesInv
<1>3. last = blk[L] /\ L \in 1..L
  BY <1>1
<1>4. last \in File /\ last = [held |-> last.held, size |-> last.size]
  BY <1>2, <1>3 DEF File
<1>5. last.held \in Seq(Block) /\ last.size \in Nat /\ last.size % Chunk = 0
  <2>1. last.size % Chunk = 0
    BY <1>1, <1>3 DEF FilesInv
  <2> QED BY <1>4, <2>1 DEF File
<1>6. \A i \in 1..L : i < L => blk[i].size = FileCap
  BY <1>1 DEF FilesInv
<1>7. size \in Nat /\ size % Chunk = 0
  <2> HIDE DEF last, held, room
  <2> QED BY <1>5, ChunksEnd
<1>8. FileCap \in Nat
  BY FileAssumption
<1>9. blk' = IF room THEN [blk EXCEPT ![L] = [held |-> held, size |-> size]]
             ELSE Append([blk EXCEPT ![L].size = FileCap], [held |-> held, size |-> size])
  BY <1>1 DEF Store
<1>10. held \in Seq(Block) /\ <<b>> \in Seq(Block)
  <2> HIDE DEF last
  <2> QED BY <1>5
<1>11. held = IF room THEN Append(last.held, b) ELSE <<b>>
  OBVIOUS
<1> DEFINE new == [held |-> held, size |-> size]
<1>12. new \in File /\ new.held = held /\ new.size = size
  <2> HIDE DEF held, size
  <2> QED BY <1>7, <1>10 DEF File
<1> HIDE DEF size
<1>13. CASE room
  <2>1. blk' = [blk EXCEPT ![L] = new]
    BY <1>9, <1>13
  <2>2. held = Append(last.held, b)
    BY <1>11, <1>13
  <2>3. PICK K : K = Len(last.held) /\ K \in Nat
    BY <1>5
  <2>4. Len(held) = K + 1 /\ held[K + 1] = b /\ \A p \in 1..K : held[p] = last.held[p]
    BY <1>5, <2>2, <2>3
  <2> HIDE DEF new, held, room
  <2>5. Len(blk') = L /\ blk'[L] = new /\ \A i \in 1..L : i < L => blk'[i] = blk[i]
    BY <1>1, <1>2, <2>1
  <2>6. blk' \in Seq(File)
    BY <1>1, <1>2, <1>12, <2>1
  <2>7. \A i \in 1..L : i = L \/ i < L
    BY <1>1
  <2> HIDE DEF last
  <2>8. \A i \in 1..Len(blk') :
          IF i < Len(blk') THEN blk'[i].size = FileCap ELSE blk'[i].size % Chunk = 0
    BY <1>6, <1>7, <1>12, <2>5, <2>7
  <2>9. Grown(blk, blk')
    <3> SUFFICES ASSUME NEW i \in 1..L
                 PROVE  /\ i < L => blk'[i] = blk[i]
                        /\ Len(blk[i].held) <= Len(blk'[i].held)
                        /\ \A p \in 1..Len(blk[i].held) : blk'[i].held[p] = blk[i].held[p]
      BY <1>1, <2>5 DEF Grown
    <3>1. CASE i = L
      BY <1>1, <1>3, <1>12, <2>3, <2>4, <2>5, <3>1
    <3>2. CASE i < L
      <4>1. Len(blk[i].held) \in Nat
        BY <1>2 DEF File
      <4> QED BY <2>5, <3>2, <4>1
    <3> QED BY <2>7, <3>1, <3>2
  <2>10. OneMore(blk, blk', b)
    <3>1. L \in 1..Len(blk') /\ K + 1 \in Nat /\ blk'[L].held[K + 1] = b
      BY <1>1, <1>12, <2>3, <2>4, <2>5
    <3>2. ASSUME NEW i \in 1..Len(blk'), NEW p \in 1..Len(blk'[i].held)
          PROVE  \/ i = L /\ p = K + 1
                 \/ /\ i \in 1..Len(blk) /\ p \in 1..Len(blk[i].held)
                    /\ blk'[i].held[p] = blk[i].held[p]
      <4>1. CASE i = L
        <5>1. p \in 1..(K + 1)
          BY <1>12, <2>4, <2>5, <4>1
        <5>2. p = K + 1 \/ p \in 1..K
          BY <2>3, <5>1
        <5> QED BY <1>1, <1>3, <1>12, <2>3, <2>4, <2>5, <4>1, <5>2
      <4>2. CASE i < L
        BY <1>1, <2>5, <4>2
      <4> QED BY <2>5, <2>7, <4>1, <4>2
    <3> QED BY <3>1, <3>2 DEF OneMore
  <2> QED BY <1>1, <2>5, <2>6, <2>8, <2>9, <2>10
<1>14. CASE ~room
  <2> DEFINE cut == [held |-> last.held, size |-> FileCap]
             closed == [blk EXCEPT ![L] = cut]
  <2>1. blk' = Append(closed, new)
    <3>1. [blk EXCEPT ![L].size = FileCap] = closed
      <4>1. [blk[L] EXCEPT !.size = FileCap] = cut
        BY <1>3, <1>4
      <4> QED BY <4>1
    <3> QED BY <1>9, <1>14, <3>1
  <2>2. held = <<b>>
    BY <1>11, <1>14
  <2>3. cut \in File /\ cut.held = last.held /\ cut.size = FileCap
    BY <1>5, <1>8 DEF File
  <2> HIDE DEF new, held, room, cut
  <2>4. closed \in Seq(File) /\ Len(closed) = L /\ closed[L] = cut
        /\ \A i \in 1..L : i < L => closed[i] = blk[i]
    BY <1>1, <1>2, <2>3
  <2> HIDE DEF closed
  <2>5. /\ blk' \in Seq(File) /\ Len(blk') = L + 1 /\ blk'[L + 1] = new /\ blk'[L] = cut
        /\ \A i \in 1..L : i < L => blk'[i] = blk[i]
    BY <1>1, <1>12, <2>1, <2>4
  <2>6. \A i \in 1..(L + 1) : i = L + 1 \/ i = L \/ (i < L /\ i \in 1..L)
    BY <1>1
  <2>7. Len(held) = 1 /\ held[1] = b
    BY <2>2
  <2> HIDE DEF last
  <2>8. \A i \in 1..Len(blk') :
          IF i < Len(blk') THEN blk'[i].size = FileCap ELSE blk'[i].size % Chunk = 0
    <3> SUFFICES ASSUME NEW i \in 1..(L + 1)
                 PROVE  IF i < L + 1 THEN blk'[i].size = FileCap ELSE blk'[i].size % Chunk = 0
      BY <2>5
    <3>1. CASE i = L + 1
      BY <1>1, <1>7, <1>12, <2>5, <3>1
    <3>2. CASE i = L
      BY <1>1, <2>3, <2>5, <3>2
    <3>3. CASE i < L /\ i \in 1..L
      BY <1>1, <1>6, <2>5, <3>3
    <3> QED BY <2>6, <3>1, <3>2, <3>3
  <2>9. Grown(blk, blk')
    <3> SUFFICES ASSUME NEW i \in 1..L
                 PROVE  /\ i < L => blk'[i] = blk[i]
                        /\ Len(blk[i].held) <= Len(blk'[i].held)
                        /\ \A p \in 1..Len(blk[i].held) : blk'[i].held[p] = blk[i].held[p]
      BY <1>1, <2>5 DEF Grown
    <3>1. Len(blk[i].held) \in Nat
      BY <1>2 DEF File
    <3>2. CASE i = L
      BY <1>1, <1>3, <2>3, <2>5, <3>1, <3>2
    <3>3. CASE i < L
      BY <2>5, <3>1, <3>3
    <3> QED BY <1>1, <3>2, <3>3
  <2>10. OneMore(blk, blk', b)
    <3>1. L + 1 \in 1..Len(blk') /\ 1 \in Nat /\ blk'[L + 1].held[1] = b
      BY <1>1, <1>12, <2>5, <2>7
    <3>2. ASSUME NEW i \in 1..Len(blk'), NEW p \in 1..Len(blk'[i].held)
          PROVE  \/ i = L + 1 /\ p = 1
                 \/ /\ i \in 1..Len(blk) /\ p \in 1..Len(blk[i].held)
                    /\ blk'[i].held[p] = blk[i].held[p]
      <4>1. CASE i = L + 1
        <5>1. p \in 1..1
          BY <1>12, <2>5, <2>7, <4>1
        <5> QED BY <4>1, <5>1
      <4>2. CASE i = L
        BY <1>1, <1>3, <2>3, <2>5, <4>2
      <4>3. CASE i < L /\ i \in 1..L
        BY <1>1, <2>5, <4>3
      <4> QED BY <2>5, <2>6, <4>1, <4>2, <4>3
    <3> QED BY <3>1, <3>2 DEF OneMore
  <2> QED BY <1>1, <2>5, <2>8, <2>9, <2>10
<1> QED BY <1>13, <1>14

\* What led to a block still does, and what was whole still is.
LEMMA GrownKeeps ==
  ASSUME NEW old \in Seq(File), NEW new \in Seq(File), Grown(old, new),
         NEW recs, NEW n \in 0..Len(old), Leads(old, recs, n)
  PROVE  /\ Leads(new, recs, n)
         /\ \A i \in 1..Len(old) : i < Len(old) /\ Complete(old, recs, i) => Complete(new, recs, i)
<1>1. recs \in Seq(Record)
  BY DEF Leads
<1>2. Len(old) \in Nat /\ Len(new) \in Nat /\ Len(old) <= Len(new)
  BY DEF Grown
<1>3. \A i \in 1..Len(old) : Len(old[i].held) \in Nat /\ Len(new[i].held) \in Nat
  <2> SUFFICES ASSUME NEW i \in 1..Len(old)
               PROVE  Len(old[i].held) \in Nat /\ Len(new[i].held) \in Nat
    OBVIOUS
  <2>1. old[i] \in File /\ new[i] \in File
    BY <1>2
  <2>2. \A f \in File : Len(f.held) \in Nat
    BY DEF File
  <2> QED BY <2>1, <2>2
<1>4. ASSUME NEW k \in 1..Len(recs)
      PROVE  /\ recs[k].file \in 1..n
             /\ recs[k].place \in 1..Len(new[recs[k].file].held)
             /\ new[recs[k].file].held[recs[k].place] = recs[k].block
  <2> DEFINE i == recs[k].file
             p == recs[k].place
  <2>1. i \in 1..n /\ p \in 1..Len(old[i].held) /\ old[i].held[p] = recs[k].block
    BY DEF Leads
  <2> HIDE DEF i, p
  <2>2. i \in 1..Len(old)
    BY <1>2, <2>1
  <2>3. Len(old[i].held) <= Len(new[i].held) /\ new[i].held[p] = old[i].held[p]
    BY <2>1, <2>2 DEF Grown
  <2>4. p \in 1..Len(new[i].held)
    BY <1>3, <2>1, <2>2, <2>3
  <2> QED BY <2>1, <2>3, <2>4 DEF i, p
<1>5. ASSUME NEW i \in 1..Len(old), i < Len(old), Complete(old, recs, i)
      PROVE  Complete(new, recs, i)
  BY <1>5 DEF Grown, Complete
<1> QED BY <1>1, <1>4, <1>5 DEF Leads

\* A cache stays sound.
LEMMA GrownSound ==
  ASSUME NEW old \in Seq(File), NEW new \in Seq(File), Grown(old, new), NEW c, Sound(old, c)
  PROVE  Sound(new, c)
<1>1. c \in Cache /\ Len(c.files) \in 0..Len(old) /\ Leads(old, c.recs, Len(c.files))
  <2>1. c \in Cache /\ Len(c.files) <= Len(old) /\ Leads(old, c.recs, Len(c.files))
    BY DEF Sound
  <2>2. Len(c.files) \in Nat /\ Len(old) \in Nat
    BY <2>1 DEF Cache
  <2> QED BY <2>1, <2>2
<1>2. Len(old) \in Nat /\ Len(new) \in Nat /\ Len(old) <= Len(new)
  BY DEF Grown
<1>3. /\ Leads(new, c.recs, Len(c.files))
      /\ \A i \in 1..Len(old) : i < Len(old) /\ Complete(old, c.recs, i) => Complete(new, c.recs, i)
  BY <1>1, GrownKeeps
<1>4. ASSUME NEW i \in 1..Len(c.files)
      PROVE  /\ c.files[i].no = i
             /\ i < Len(c.files) => c.files[i].size = FileCap
             /\ IF c.files[i].size = FileCap THEN i < Len(new) /\ Complete(new, c.recs, i)
                ELSE c.files[i].size % Chunk = 0
  <2>1. /\ c.files[i].no = i
        /\ i < Len(c.files) => c.files[i].size = FileCap
        /\ IF c.files[i].size = FileCap THEN i < Len(old) /\ Complete(old, c.recs, i)
           ELSE c.files[i].size % Chunk = 0
    BY DEF Sound
  <2>2. i \in 1..Len(old)
    BY <1>1
  <2>3. i < Len(old) => i < Len(new)
    BY <1>2, <2>2
  <2> QED BY <1>3, <2>1, <2>2, <2>3
<1>5. Len(c.files) <= Len(new)
  BY <1>1, <1>2
<1> QED BY <1>1, <1>3, <1>4, <1>5 DEF Sound

LEMMA CachedSame ==
  ASSUME cache' = cache
  PROVE  Cached' = Cached
BY DEF Cached

LEMMA StoreInv ==
  ASSUME IInv, NEW b \in Block, Store(b)
  PROVE  IInv'
<1>0. b \notin Stored
  BY DEF Store
<1>1. FilesInv /\ CurrentInv /\ RecordsInv /\ CacheInv
  BY DEF IInv
<1>2. /\ blk' \in Seq(File) /\ Len(blk') >= 1
      /\ \A i \in 1..Len(blk') :
           IF i < Len(blk') THEN blk'[i].size = FileCap ELSE blk'[i].size % Chunk = 0
      /\ Grown(blk, blk')
      /\ OneMore(blk, blk', b)
  BY <1>1, StoreIs
<1>3. blk \in Seq(File)
  BY <1>1 DEF FilesInv
<1>4. UNCHANGED <<cache, pc, current, blob, todo>>
  BY DEF Store, runVars
<1>5. FilesInv'
  <2>1. PICK n \in 1..Len(blk'), q \in Nat :
          /\ blk'[n].held[q] = b
          /\ \A i \in 1..Len(blk') : \A p \in 1..Len(blk'[i].held) :
               \/ i = n /\ p = q
               \/ /\ i \in 1..Len(blk) /\ p \in 1..Len(blk[i].held)
                  /\ blk'[i].held[p] = blk[i].held[p]
    BY <1>2 DEF OneMore
  <2>2. \A i \in 1..Len(blk) : \A p \in 1..Len(blk[i].held) : blk[i].held[p] # b
    <3> SUFFICES ASSUME NEW i \in 1..Len(blk), NEW p \in 1..Len(blk[i].held)
                 PROVE  blk[i].held[p] \in Stored
      BY <1>0
    <3>1. blk[i] \in File
      BY <1>3
    <3>2. i \in DOMAIN blk /\ p \in DOMAIN blk[i].held
      BY <1>3, <3>1 DEF File
    <3> QED BY <3>2 DEF Stored
  <2>3. \A i, j \in 1..Len(blk) : \A p \in 1..Len(blk[i].held), s \in 1..Len(blk[j].held) :
          blk[i].held[p] = blk[j].held[s] => i = j /\ p = s
    BY <1>1 DEF FilesInv
  <2>4. \A i, j \in 1..Len(blk') : \A p \in 1..Len(blk'[i].held), s \in 1..Len(blk'[j].held) :
          blk'[i].held[p] = blk'[j].held[s] => i = j /\ p = s
    <3> SUFFICES ASSUME NEW i \in 1..Len(blk'), NEW j \in 1..Len(blk'),
                        NEW p \in 1..Len(blk'[i].held), NEW s \in 1..Len(blk'[j].held),
                        blk'[i].held[p] = blk'[j].held[s]
                 PROVE  i = j /\ p = s
      OBVIOUS
    <3>1. \/ i = n /\ p = q
          \/ i \in 1..Len(blk) /\ p \in 1..Len(blk[i].held) /\ blk'[i].held[p] = blk[i].held[p]
      BY <2>1
    <3>2. \/ j = n /\ s = q
          \/ j \in 1..Len(blk) /\ s \in 1..Len(blk[j].held) /\ blk'[j].held[s] = blk[j].held[s]
      BY <2>1
    <3>3. CASE i = n /\ p = q /\ j = n /\ s = q
      BY <3>3
    <3>4. CASE i = n /\ p = q /\ ~(j = n /\ s = q)
      BY <2>1, <2>2, <3>2, <3>4
    <3>5. CASE ~(i = n /\ p = q) /\ j = n /\ s = q
      BY <2>1, <2>2, <3>1, <3>5
    <3>6. CASE ~(i = n /\ p = q) /\ ~(j = n /\ s = q)
      BY <2>3, <3>1, <3>2, <3>6
    <3> QED BY <3>3, <3>4, <3>5, <3>6
  <2> QED BY <1>2, <2>4 DEF FilesInv
<1>6. CurrentInv'
  <2>1. current \in Seq(File) /\ Len(current) <= Len(blk) /\ Len(blk) <= Len(blk')
    BY <1>1, <1>2 DEF CurrentInv, Grown
  <2>2. Len(current) \in Nat /\ Len(blk) \in Nat /\ Len(blk') \in Nat
    BY <1>2, <1>3, <2>1
  <2>3. ASSUME NEW i \in 1..Len(current)
        PROVE  IF i < Len(current) THEN current[i] = blk'[i] ELSE current[i].size % Chunk = 0
    <3>1. IF i < Len(current) THEN current[i] = blk[i] ELSE current[i].size % Chunk = 0
      BY <1>1 DEF CurrentInv
    <3>2. i < Len(current) => blk'[i] = blk[i]
      BY <1>2, <2>1, <2>2 DEF Grown
    <3> QED BY <3>1, <3>2
  <2>4. Len(current) <= Len(blk')
    BY <2>1, <2>2
  <2> QED BY <1>4, <2>1, <2>3, <2>4 DEF CurrentInv
<1>7. RecordsInv'
  <2>1. Read' = Read
    BY <1>4 DEF Read
  <2>2. /\ todo = [k \in 1..Len(todo) |-> Read + k] /\ Len(todo) \in 0..Len(current)
        /\ Leads(blk, blob, Read)
        /\ \A i \in 1..Read : i < Len(current) => Complete(blk, blob, i)
        /\ pc = "done" => todo = <<>>
        /\ pc = "scan" => todo # <<>>
    BY <1>1 DEF RecordsInv
  <2>3. Len(current) \in Nat /\ Len(blk) \in Nat /\ Len(current) <= Len(blk)
    BY <1>1, <1>3 DEF CurrentInv
  <2>4. Read \in 0..Len(blk)
    BY <2>2, <2>3 DEF Read
  <2>5. /\ Leads(blk', blob, Read)
        /\ \A i \in 1..Len(blk) : i < Len(blk) /\ Complete(blk, blob, i) => Complete(blk', blob, i)
    BY <1>2, <1>3, <2>2, <2>4, GrownKeeps
  <2>6. \A i \in 1..Read : i < Len(current) => Complete(blk', blob, i)
    BY <2>2, <2>3, <2>4, <2>5
  <2> QED BY <1>4, <2>1, <2>2, <2>5, <2>6 DEF RecordsInv
<1>8. CacheInv'
  BY <1>1, <1>2, <1>3, <1>4, CachedSame, GrownSound DEF CacheInv
<1> QED BY <1>5, <1>6, <1>7, <1>8 DEF IInv

-----------------------------------------------------------------------------
(* An indexer begins.                                                      *)

LEMMA FilesAre ==
  ASSUME FilesInv
  PROVE  /\ blk \in Seq(File) /\ Len(blk) \in Nat \ {0}
         /\ \A i \in 1..Len(blk) : /\ blk[i] \in File /\ Len(blk[i].held) \in Nat
                                   /\ blk[i].held \in Seq(Block) /\ blk[i].size \in Nat
<1>1. blk \in Seq(File) /\ Len(blk) >= 1
  BY DEF FilesInv
<1>2. \A f \in File : Len(f.held) \in Nat /\ f.held \in Seq(Block) /\ f.size \in Nat
  BY DEF File
<1>3. Len(blk) \in Nat \ {0}
  BY <1>1
<1>4. ASSUME NEW i \in 1..Len(blk) PROVE blk[i] \in File
  BY <1>1
<1> QED BY <1>1, <1>2, <1>3, <1>4

\* The files that can be reused are the first ones, and all of these but
\* perhaps the node's last were whole.
Prefix(m) ==
  /\ m \in 0..Len(blk) /\ m <= Len(Cached.files)
  /\ \A i \in 1..Len(Cached.files) : SameFile(Cached.files[i]) <=> i <= m
  /\ \A i \in 1..m : i < Len(blk) => Complete(blk, Cached.recs, i)

LEMMA ReusedIsPrefix ==
  ASSUME FilesInv, CacheInv
  PROVE  \E m \in Nat : Prefix(m)
<1> DEFINE files == Cached.files
           n == IF Len(files) # 0 /\ ~SameFile(files[Len(files)]) THEN Len(files) - 1
                ELSE Len(files)
<1>1. /\ Cached \in Cache /\ Len(files) <= Len(blk)
      /\ \A i \in 1..Len(files) :
           /\ files[i].no = i
           /\ i < Len(files) => files[i].size = FileCap
           /\ IF files[i].size = FileCap THEN i < Len(blk) /\ Complete(blk, Cached.recs, i)
              ELSE files[i].size % Chunk = 0
  BY DEF CacheInv, Sound
<1>2. blk \in Seq(File) /\ Len(blk) \in Nat \ {0} /\ DOMAIN blk = 1..Len(blk)
  BY FilesAre
<1>3. Len(files) \in Nat
  BY <1>1 DEF Cache
<1>4. \A i \in 1..Len(blk) :
        IF i < Len(blk) THEN blk[i].size = FileCap ELSE blk[i].size % Chunk = 0
  BY DEF FilesInv
<1>5. \A i \in 1..Len(files) : SameFile(files[i]) <=> blk[i].size = files[i].size
  BY <1>1, <1>2, <1>3 DEF SameFile
<1> DEFINE L == Len(files)
<1> HIDE DEF files
<1>6. ASSUME NEW i \in 1..L, i < L PROVE SameFile(files[i])
  <2>1. files[i].size = FileCap /\ i < Len(blk) /\ i \in 1..Len(blk)
    BY <1>1, <1>2, <1>3, <1>6
  <2> QED BY <1>4, <1>5, <2>1
<1>7. n \in 0..L
  BY <1>3
<1>8. ASSUME NEW i \in 1..L PROVE SameFile(files[i]) <=> i <= n
  <2>1. i < L \/ i = L
    BY <1>3
  <2> QED BY <1>3, <1>6, <2>1
<1>9. ASSUME NEW i \in 1..n, i < Len(blk) PROVE Complete(blk, Cached.recs, i)
  <2>1. i \in 1..L /\ i \in 1..Len(blk) /\ i <= n
    BY <1>1, <1>2, <1>3, <1>7
  <2> HIDE DEF n
  <2>2. blk[i].size = files[i].size
    BY <1>5, <1>8, <2>1
  <2>3. files[i].size = FileCap
    BY <1>4, <1>9, <2>1, <2>2
  <2> QED BY <1>1, <2>1, <2>3
<1> HIDE DEF n
<1>10. n \in Nat /\ n \in 0..Len(blk) /\ n <= L
  BY <1>1, <1>2, <1>3, <1>7
<1>11. Prefix(n)
  BY <1>8, <1>9, <1>10 DEF Prefix, files
<1> QED BY <1>10, <1>11

\* The records that are kept lead into these files, and to all that is in
\* those of them that are whole.
LEMMA KeptIs ==
  ASSUME FilesInv, CacheInv, NEW m \in Nat, Prefix(m)
  PROVE  /\ Leads(blk, Kept(1..m), m)
         /\ \A i \in 1..m : i < Len(blk) => Complete(blk, Kept(1..m), i)
<1> DEFINE recs == Cached.recs
           P == {k \in DOMAIN recs : recs[k].file \in 1..m}
           kept == Only(recs, P)
<1>1. /\ recs \in Seq(Record)
      /\ \A k \in 1..Len(recs) :
           /\ recs[k].file \in 1..Len(Cached.files)
           /\ recs[k].place \in 1..Len(blk[recs[k].file].held)
           /\ blk[recs[k].file].held[recs[k].place] = recs[k].block
      /\ \A j, k \in 1..Len(recs) :
           recs[j].file = recs[k].file /\ recs[j].place = recs[k].place => j = k
  BY DEF CacheInv, Sound, Leads
<1>2. Kept(1..m) = kept
  BY DEF Kept
<1>3. \A k \in 1..Len(recs) : k \in P <=> recs[k].file \in 1..m
  BY <1>1
<1>4. \A i \in 1..m : i < Len(blk) => Complete(blk, recs, i)
  BY DEF Prefix
<1> HIDE DEF recs, P
<1>5. /\ Only(recs, P) \in Seq(Record)
      /\ \E idx \in [1..Len(Only(recs, P)) -> Nat] :
           IndexOf(idx, Only(recs, P), recs, Len(recs), P)
  BY <1>1, OnlyIs
<1> HIDE DEF kept
<1>6. kept \in Seq(Record)
  BY <1>5 DEF kept
<1>7. PICK idx \in [1..Len(kept) -> Nat] : IndexOf(idx, kept, recs, Len(recs), P)
  BY <1>5 DEF kept
<1>8. \A k \in 1..Len(kept) : idx[k] \in P /\ idx[k] \in 1..Len(recs) /\ kept[k] = recs[idx[k]]
  BY <1>7 DEF IndexOf
<1>9. \A j, k \in 1..Len(kept) : idx[j] = idx[k] => j = k
  BY <1>7 DEF IndexOf
<1>10. \A i \in 1..Len(recs) : i \in P => \E k \in 1..Len(kept) : idx[k] = i
  BY <1>7 DEF IndexOf
<1>11. Leads(blk, kept, m)
  <2>1. ASSUME NEW k \in 1..Len(kept)
        PROVE  /\ kept[k].file \in 1..m
               /\ kept[k].place \in 1..Len(blk[kept[k].file].held)
               /\ blk[kept[k].file].held[kept[k].place] = kept[k].block
    <3>1. PICK l \in 1..Len(recs) : l \in P /\ kept[k] = recs[l]
      BY <1>8
    <3>2. recs[l].file \in 1..m
      BY <1>3, <3>1
    <3>3. /\ recs[l].place \in 1..Len(blk[recs[l].file].held)
          /\ blk[recs[l].file].held[recs[l].place] = recs[l].block
      BY <1>1
    <3> QED BY <3>1, <3>2, <3>3
  <2>2. ASSUME NEW j \in 1..Len(kept), NEW k \in 1..Len(kept),
               kept[j].file = kept[k].file, kept[j].place = kept[k].place
        PROVE  j = k
    <3>1. idx[j] = idx[k]
      <4>1. /\ idx[j] \in 1..Len(recs) /\ kept[j] = recs[idx[j]]
            /\ idx[k] \in 1..Len(recs) /\ kept[k] = recs[idx[k]]
        BY <1>8
      <4> QED BY <1>1, <2>2, <4>1, Zenon
    <3> QED BY <1>9, <3>1
  <2> QED BY <1>6, <2>1, <2>2 DEF Leads
<1>12. ASSUME NEW i \in 1..m, i < Len(blk) PROVE Complete(blk, kept, i)
  <2> SUFFICES ASSUME NEW p \in 1..Len(blk[i].held)
               PROVE  \E k \in 1..Len(kept) :
                        kept[k] = [block |-> blk[i].held[p], file |-> i, place |-> p]
    BY DEF Complete
  <2>1. PICK l \in 1..Len(recs) : recs[l] = [block |-> blk[i].held[p], file |-> i, place |-> p]
    BY <1>4, <1>12 DEF Complete
  <2>2. recs[l].file = i
    BY <2>1
  <2>3. PICK k \in 1..Len(kept) : idx[k] = l
    BY <1>3, <1>10, <2>2
  <2> QED BY <1>8, <2>1, <2>3
<1> QED BY <1>2, <1>11, <1>12

LEMMA StartInv ==
  ASSUME IInv, NEW which, Start(which)
  PROVE  IInv'
<1>1. FilesInv /\ CurrentInv /\ RecordsInv /\ CacheInv
  BY DEF IInv
<1>2. UNCHANGED <<blk, cache>> /\ current' = blk
  BY DEF Start, nodeVars
<1>3. PICK m \in Nat : Prefix(m)
  BY <1>1, ReusedIsPrefix
<1>4. PICK L : L = Len(blk) /\ L \in Nat \ {0}
  BY <1>1, FilesAre
<1>5. m \in 0..L /\ m <= Len(Cached.files)
  BY <1>3, <1>4 DEF Prefix
<1>6. /\ Cached \in Cache /\ Len(Cached.files) \in Nat /\ DOMAIN Cached.files = 1..Len(Cached.files)
      /\ \A i \in 1..Len(Cached.files) : Cached.files[i].no = i
      /\ Len(Cached.files) <= L
  <2>1. /\ Cached \in Cache /\ Len(Cached.files) <= Len(blk)
        /\ \A i \in 1..Len(Cached.files) : Cached.files[i].no = i
    BY <1>1 DEF CacheInv, Sound
  <2>2. Cached.files \in Seq([no : Nat, size : Nat])
    BY <2>1 DEF Cache
  <2> QED BY <1>4, <2>1, <2>2
<1>7. {i \in DOMAIN Cached.files : SameFile(Cached.files[i])} = 1..m
  <2>1. \A i \in 1..Len(Cached.files) : SameFile(Cached.files[i]) <=> i <= m
    BY <1>3 DEF Prefix
  <2>2. \A i : i \in 1..m <=> i \in 1..Len(Cached.files) /\ i <= m
    BY <1>5, <1>6
  <2> QED BY <1>6, <2>1, <2>2
<1>8. {Cached.files[i].no : i \in 1..m} = 1..m
  <2>1. \A i \in 1..m : Cached.files[i].no = i
    BY <1>5, <1>6
  <2> QED BY <2>1
<1> DEFINE kept == Kept(1..m)
<1>9. /\ blob' = [k \in DOMAIN kept |-> [kept[k] EXCEPT !.file = Cached.files[@].no]]
      /\ todo' = Only([i \in DOMAIN blk |-> i], DOMAIN blk \ (1..m))
      /\ pc' = IF todo' = <<>> THEN "done" ELSE "scan"
  BY <1>7, <1>8 DEF Start
<1>10. /\ Leads(blk, kept, m)
       /\ \A i \in 1..m : i < Len(blk) => Complete(blk, kept, i)
  BY <1>1, <1>3, KeptIs
<1> HIDE DEF kept
<1>11. blob' = kept
  <2>1. kept \in Seq(Record) /\ \A k \in 1..Len(kept) : kept[k].file \in 1..m
    BY <1>10 DEF Leads
  <2>2. DOMAIN kept = 1..Len(kept) /\ \A k \in 1..Len(kept) : kept[k] \in Record
    BY <2>1
  <2>3. ASSUME NEW k \in 1..Len(kept)
        PROVE  [kept[k] EXCEPT !.file = Cached.files[@].no] = kept[k]
    <3>1. Cached.files[kept[k].file].no = kept[k].file
      BY <1>5, <1>6, <2>1
    <3>2. kept[k] = [block |-> kept[k].block, file |-> kept[k].file, place |-> kept[k].place]
      BY <2>2 DEF Record
    <3> QED BY <3>1, <3>2
  <2>4. kept = [k \in 1..Len(kept) |-> kept[k]]
    BY <2>1
  <2> QED BY <1>9, <2>2, <2>3, <2>4
<1>12. todo' = [k \in 1..(L - m) |-> m + k]
  <2> DEFINE s == [i \in 1..L |-> i]
             P == (1..L) \ (1..m)
  <2>1. s \in Seq(Nat) /\ Len(s) = L
    BY <1>4
  <2>2. \A i \in 1..L : i \in P <=> i > m
    BY <1>4, <1>5
  <2>3. todo' = Only(s, P)
    <3>1. DOMAIN blk = 1..L
      BY <1>1, <1>4, FilesAre
    <3> QED BY <1>9, <3>1
  <2> HIDE DEF P, s
  <2>4. Only(s, P) = [k \in 1..(Len(s) - m) |-> s[m + k]]
    BY <1>5, <2>1, <2>2, OnlySuffix
  <2>5. \A k \in 1..(L - m) : s[m + k] = m + k
    BY <1>4, <1>5 DEF s
  <2> QED BY <2>1, <2>3, <2>4, <2>5
<1>13. Len(todo') = L - m /\ L - m \in 0..L
  BY <1>4, <1>5, <1>12
<1>14. Read' = m
  BY <1>2, <1>4, <1>5, <1>13 DEF Read
<1>15. FilesInv'
  BY <1>1, <1>2 DEF FilesInv
<1>16. CurrentInv'
  <2>1. \A i \in 1..Len(blk) :
          IF i < Len(blk) THEN blk[i].size = FileCap ELSE blk[i].size % Chunk = 0
    BY <1>1 DEF FilesInv
  <2>2. blk \in Seq(File) /\ Len(blk) <= Len(blk)
    BY <1>1, FilesAre
  <2> QED BY <1>2, <2>1, <2>2 DEF CurrentInv
<1>17. RecordsInv'
  <2>1. todo' = [k \in 1..Len(todo') |-> m + k] /\ Len(todo') \in 0..Len(current')
    BY <1>2, <1>4, <1>12, <1>13
  <2>2. Leads(blk', blob', Read')
    BY <1>2, <1>10, <1>11, <1>14
  <2>3. \A i \in 1..Read' : i < Len(current') => Complete(blk', blob', i)
    BY <1>2, <1>10, <1>11, <1>14
  <2>4. (pc' = "done" => todo' = <<>>) /\ (pc' = "scan" => todo' # <<>>)
    BY <1>9
  <2> QED BY <1>14, <2>1, <2>2, <2>3, <2>4 DEF RecordsInv
<1>18. CacheInv'
  BY <1>1, <1>2, CachedSame DEF CacheInv
<1> QED BY <1>15, <1>16, <1>17, <1>18 DEF IInv

-----------------------------------------------------------------------------
(* An indexer reads a file.                                                *)

\* The records of a file lead to all it holds.
LEMMA FoundIs ==
  ASSUME FilesInv, NEW i \in 1..Len(blk)
  PROVE  /\ Found(i) \in Seq(Record) /\ Len(Found(i)) = Len(blk[i].held)
         /\ \A p \in 1..Len(blk[i].held) :
              Found(i)[p] = [block |-> blk[i].held[p], file |-> i, place |-> p]
<1>1. blk[i].held \in Seq(Block) /\ Len(blk[i].held) \in Nat /\ i \in Nat
  BY FilesAre
<1>2. DOMAIN blk[i].held = 1..Len(blk[i].held)
  BY <1>1
<1>3. \A p \in 1..Len(blk[i].held) :
        [block |-> blk[i].held[p], file |-> i, place |-> p] \in Record
  BY <1>1 DEF Record
<1> QED BY <1>1, <1>2, <1>3 DEF Found

\* With the records of the file after those read, one more file is read.
LEMMA OneMoreFile ==
  ASSUME FilesInv, NEW n \in Nat, n + 1 \in 1..Len(blk), NEW recs, Leads(blk, recs, n)
  PROVE  /\ Leads(blk, recs \o Found(n + 1), n + 1)
         /\ Complete(blk, recs \o Found(n + 1), n + 1)
         /\ \A i \in 1..n : Complete(blk, recs, i) => Complete(blk, recs \o Found(n + 1), i)
<1> DEFINE i == n + 1
           found == Found(i)
           all == recs \o found
<1>1. /\ recs \in Seq(Record)
      /\ \A k \in 1..Len(recs) :
           /\ recs[k].file \in 1..n
           /\ recs[k].place \in 1..Len(blk[recs[k].file].held)
           /\ blk[recs[k].file].held[recs[k].place] = recs[k].block
      /\ \A j, k \in 1..Len(recs) :
           recs[j].file = recs[k].file /\ recs[j].place = recs[k].place => j = k
  BY DEF Leads
<1>2. PICK H : H = Len(blk[i].held) /\ H \in Nat
  BY FilesAre
<1>3. /\ found \in Seq(Record) /\ Len(found) = H
      /\ \A p \in 1..H : found[p] = [block |-> blk[i].held[p], file |-> i, place |-> p]
  BY <1>2, FoundIs
<1>4. PICK L : L = Len(recs) /\ L \in Nat
  BY <1>1
<1> HIDE DEF found
<1>5. /\ all \in Seq(Record) /\ Len(all) = L + H
      /\ \A k \in 1..L : all[k] = recs[k]
      /\ \A p \in 1..H : all[L + p] = found[p]
  <2>1. /\ all \in Seq(Record) /\ Len(all) = L + H
        /\ \A k \in 1..(L + H) : all[k] = IF k <= L THEN recs[k] ELSE found[k - L]
    <3>1. /\ recs \o found \in Seq(Record)
          /\ Len(recs \o found) = Len(recs) + Len(found)
          /\ \A k \in 1..(Len(recs) + Len(found)) :
               (recs \o found)[k] = IF k <= Len(recs) THEN recs[k] ELSE found[k - Len(recs)]
      <4>1. recs \in Seq(Record) /\ found \in Seq(Record)
        BY <1>1, <1>3
      <4> QED BY <4>1, ConcatProperties, Zenon
    <3>2. all = recs \o found
      OBVIOUS
    <3> HIDE DEF all
    <3>3. Len(found) = H
      BY <1>3
    <3> QED BY <1>4, <3>1, <3>2, <3>3, Zenon
  <2> HIDE DEF all
  <2>2. \A k \in 1..L : k \in 1..(L + H) /\ k <= L
    BY <1>2, <1>4
  <2>3. \A p \in 1..H : L + p \in 1..(L + H) /\ ~(L + p <= L) /\ (L + p) - L = p
    BY <1>2, <1>4
  <2> QED BY <2>1, <2>2, <2>3
<1> HIDE DEF all
<1>6. \A k \in 1..(L + H) : k \in 1..L \/ \E p \in 1..H : k = L + p
  <2> SUFFICES ASSUME NEW k \in 1..(L + H), k > L PROVE \E p \in 1..H : k = L + p
    BY <1>2, <1>4
  <2>1. k - L \in 1..H /\ k = L + (k - L)
    BY <1>2, <1>4
  <2> QED BY <2>1
<1>7. \A p \in 1..H : /\ all[L + p].file = i /\ all[L + p].place = p
                      /\ all[L + p].block = blk[i].held[p]
  BY <1>3, <1>5
<1>8. ASSUME NEW k \in 1..(L + H)
      PROVE  /\ all[k].file \in 1..i
             /\ all[k].place \in 1..Len(blk[all[k].file].held)
             /\ blk[all[k].file].held[all[k].place] = all[k].block
  <2>1. CASE k \in 1..L
    <3>1. /\ recs[k].file \in 1..n
          /\ recs[k].place \in 1..Len(blk[recs[k].file].held)
          /\ blk[recs[k].file].held[recs[k].place] = recs[k].block
      BY <1>1, <1>4, <2>1
    <3>2. 1..n \subseteq 1..i
      OBVIOUS
    <3> QED BY <1>5, <2>1, <3>1, <3>2
  <2>2. CASE \E p \in 1..H : k = L + p
    <3>1. PICK p \in 1..H : k = L + p
      BY <2>2
    <3>2. all[k].file = i /\ all[k].place = p /\ all[k].block = blk[i].held[p]
      BY <1>7, <3>1
    <3>3. i \in 1..i
      OBVIOUS
    <3> QED BY <1>2, <3>1, <3>2, <3>3
  <2> QED BY <1>6, <2>1, <2>2
<1>9. ASSUME NEW j \in 1..(L + H), NEW k \in 1..(L + H),
             all[j].file = all[k].file, all[j].place = all[k].place
      PROVE  j = k
  <2>1. ASSUME NEW l \in 1..L PROVE all[l].file # i
    <3>1. recs[l].file \in 1..n
      BY <1>1, <1>4
    <3> QED BY <1>5, <3>1
  <2>2. CASE j \in 1..L /\ k \in 1..L
    BY <1>1, <1>4, <1>5, <1>9, <2>2
  <2>3. CASE j \notin 1..L /\ k \notin 1..L
    <3>1. PICK p \in 1..H : j = L + p
      BY <1>6, <2>3
    <3>2. PICK q \in 1..H : k = L + q
      BY <1>6, <2>3
    <3> QED BY <1>7, <1>9, <3>1, <3>2
  <2>4. CASE j \in 1..L /\ k \notin 1..L
    BY <1>6, <1>7, <1>9, <2>1, <2>4
  <2>5. CASE j \notin 1..L /\ k \in 1..L
    BY <1>6, <1>7, <1>9, <2>1, <2>5
  <2> QED BY <2>2, <2>3, <2>4, <2>5
<1>10. Leads(blk, all, i)
  BY <1>5, <1>8, <1>9 DEF Leads
<1>11. Complete(blk, all, i)
  <2> SUFFICES ASSUME NEW p \in 1..H
               PROVE  \E k \in 1..Len(all) :
                        all[k] = [block |-> blk[i].held[p], file |-> i, place |-> p]
    BY <1>2 DEF Complete
  <2>1. L + p \in 1..Len(all)
    BY <1>2, <1>4, <1>5
  <2> QED BY <1>3, <1>5, <2>1
<1>12. ASSUME NEW j \in 1..n, Complete(blk, recs, j) PROVE Complete(blk, all, j)
  <2> SUFFICES ASSUME NEW p \in 1..Len(blk[j].held)
               PROVE  \E k \in 1..Len(all) :
                        all[k] = [block |-> blk[j].held[p], file |-> j, place |-> p]
    BY DEF Complete
  <2>1. PICK k \in 1..L : recs[k] = [block |-> blk[j].held[p], file |-> j, place |-> p]
    BY <1>4, <1>12 DEF Complete
  <2>2. k \in 1..Len(all)
    BY <1>2, <1>4, <1>5
  <2> QED BY <1>5, <2>1, <2>2
<1> QED BY <1>10, <1>11, <1>12 DEF all, found

\* What is saved with the first n files is sound, if there is a record of
\* each block of those that are full.
LEMMA SavedIsSound ==
  ASSUME FilesInv, CurrentInv, NEW n \in 1..Len(current), NEW recs, Leads(blk, recs, n),
         \A i \in 1..n : i < Len(current) => Complete(blk, recs, i)
  PROVE  Sound(blk, Saved([i \in 1..n |-> i], recs))
<1> DEFINE c == Saved([i \in 1..n |-> i], recs)
<1>1. /\ current \in Seq(File) /\ Len(current) <= Len(blk)
      /\ \A i \in 1..Len(current) :
           IF i < Len(current) THEN current[i] = blk[i] ELSE current[i].size % Chunk = 0
  BY DEF CurrentInv
<1>2. Len(current) \in Nat /\ Len(blk) \in Nat /\ n \in Nat
  BY <1>1, FilesAre
<1>3. c = [files |-> [i \in 1..n |-> [no |-> i, size |-> current[i].size]], recs |-> recs]
  BY DEF Saved
<1> HIDE DEF c
<1>4. \A f \in File : f.size \in Nat
  BY DEF File
<1>5. \A i \in 1..n : i \in 1..Len(current) /\ current[i] \in File /\ i \in Nat
  BY <1>1, <1>2
<1>6. \A i \in 1..n : [no |-> i, size |-> current[i].size] \in [no : Nat, size : Nat]
  BY <1>4, <1>5
<1>7. c.files \in Seq([no : Nat, size : Nat]) /\ Len(c.files) = n
  BY <1>2, <1>3, <1>6
<1>8. c.recs = recs /\ recs \in Seq(Record)
  BY <1>3 DEF Leads
<1>9. c \in Cache
  BY <1>3, <1>7, <1>8 DEF Cache
<1>10. ASSUME NEW i \in 1..n
       PROVE  /\ c.files[i].no = i
              /\ i < n => c.files[i].size = FileCap
              /\ IF c.files[i].size = FileCap THEN i < Len(blk) /\ Complete(blk, recs, i)
                 ELSE c.files[i].size % Chunk = 0
  <2>1. c.files[i].no = i /\ c.files[i].size = current[i].size /\ i \in 1..Len(current)
    BY <1>3, <1>5
  <2>2. CASE i < Len(current)
    <3>1. current[i] = blk[i] /\ i < Len(blk) /\ i \in 1..Len(blk)
      BY <1>1, <1>2, <2>1, <2>2
    <3>2. blk[i].size = FileCap
      BY <3>1 DEF FilesInv
    <3> QED BY <2>1, <2>2, <3>1, <3>2
  <2>3. CASE ~(i < Len(current))
    <3>1. current[i].size % Chunk = 0 /\ ~(i < n)
      BY <1>1, <1>2, <2>1, <2>3
    <3>2. current[i].size # FileCap
      BY <3>1, ChunkAssumption
    <3> QED BY <2>1, <3>1, <3>2
  <2> QED BY <2>2, <2>3
<1>11. Len(c.files) <= Len(blk)
  BY <1>1, <1>2, <1>7
<1> QED BY <1>7, <1>8, <1>9, <1>10, <1>11 DEF Sound, c

LEMMA NothingIsSound ==
  ASSUME NEW files, Len(files) \in Nat
  PROVE  Sound(files, [files |-> <<>>, recs |-> <<>>])
<1>1. [files |-> <<>>, recs |-> <<>>] \in Cache
  BY DEF Cache
<1>2. Leads(files, <<>>, 0)
  BY DEF Leads
<1> QED BY <1>1, <1>2 DEF Sound

LEMMA ScanInv ==
  ASSUME IInv, ScanFile
  PROVE  IInv'
<1>1. FilesInv /\ CurrentInv /\ RecordsInv /\ CacheInv
  BY DEF IInv
<1>2. UNCHANGED <<blk, current>>
  BY DEF ScanFile, nodeVars
<1>3. PICK T : T = Len(todo) /\ T \in Nat
  BY <1>1 DEF RecordsInv
<1>4. PICK C : C = Len(current) /\ C \in Nat
  BY <1>1 DEF CurrentInv
<1>5. PICK r : r = C - T /\ r \in Nat /\ Read = r
  BY <1>1, <1>3, <1>4 DEF Read, RecordsInv
<1>6. /\ todo = [k \in 1..T |-> r + k] /\ T \in 0..C
      /\ Leads(blk, blob, r)
      /\ \A i \in 1..r : i < C => Complete(blk, blob, i)
      /\ todo # <<>>
  BY <1>1, <1>3, <1>4, <1>5 DEF RecordsInv, ScanFile
<1>7. T >= 1
  <2>1. T = 0 => todo = <<>>
    BY <1>6
  <2> QED BY <1>3, <1>6, <2>1
<1>8. C = r + T /\ r + 1 \in 1..C
  BY <1>3, <1>4, <1>5, <1>7
<1>9. todo \in Seq(Nat)
  BY <1>3, <1>5, <1>6
<1>10. Head(todo) = r + 1
  BY <1>3, <1>6, <1>7, <1>9
<1>11. Tail(todo) = [k \in 1..(T - 1) |-> (r + 1) + k] /\ Len(Tail(todo)) = T - 1
  <2>1. \A k \in 1..(T - 1) : todo[k + 1] = (r + 1) + k
    BY <1>3, <1>5, <1>6
  <2>2. /\ Tail(todo) \in Seq(Nat) /\ Len(Tail(todo)) = T - 1
        /\ \A k \in 1..Len(Tail(todo)) : Tail(todo)[k] = todo[k + 1]
    BY <1>3, <1>6, <1>9, HeadTailProperties
  <2>3. \A t \in Seq(Nat) : t = [k \in 1..Len(t) |-> t[k]]
    OBVIOUS
  <2>4. Tail(todo) = [k \in 1..(T - 1) |-> Tail(todo)[k]]
    BY <2>2, <2>3
  <2>5. \A k \in 1..(T - 1) : Tail(todo)[k] = (r + 1) + k
    BY <2>1, <2>2
  <2> QED BY <2>2, <2>4, <2>5
<1> DEFINE left == Tail(todo)
<1>12. left = <<>> <=> T = 1
  <2>1. left = [k \in 1..(T - 1) |-> (r + 1) + k] /\ Len(left) = T - 1
    BY <1>11
  <2> HIDE DEF left
  <2>2. T = 1 => left = <<>>
    <3>1. 1..(1 - 1) = {}
      OBVIOUS
    <3> QED BY <2>1, <3>1
  <2>3. T # 1 => Len(left) # 0
    BY <1>3, <1>7, <2>1
  <2>4. Len(<<>>) = 0
    OBVIOUS
  <2> QED BY <2>2, <2>3, <2>4
<1> DEFINE recs == blob \o Found(r + 1)
<1>13. /\ blob' = recs
       /\ todo' = left
       /\ cache' = IF left = <<>> THEN Saved(All, recs)
                   ELSE IF tool = "mindex" /\ count' % Checkpoint = 0
                   THEN CheckpointOf(left, recs)
                   ELSE cache
       /\ pc' = IF left = <<>> THEN "done" ELSE "scan"
  BY <1>10 DEF ScanFile
<1> HIDE DEF left, recs
<1>14. Len(blk) \in Nat /\ C <= Len(blk) /\ current \in Seq(File)
  BY <1>1, <1>4, FilesAre DEF CurrentInv
<1>15. /\ Leads(blk, recs, r + 1)
       /\ Complete(blk, recs, r + 1)
       /\ \A i \in 1..r : Complete(blk, blob, i) => Complete(blk, recs, i)
  <2>1. r + 1 \in 1..Len(blk)
    BY <1>4, <1>8, <1>14
  <2> QED BY <1>1, <1>5, <1>6, <2>1, OneMoreFile DEF recs
<1>16. \A i \in 1..(r + 1) : i < C => Complete(blk, recs, i)
  <2>1. \A i \in 1..(r + 1) : i = r + 1 \/ i \in 1..r
    BY <1>5
  <2> QED BY <1>6, <1>15, <2>1
<1>17. FilesInv'
  BY <1>1, <1>2 DEF FilesInv
<1>18. CurrentInv'
  BY <1>1, <1>2 DEF CurrentInv
<1>19. Read' = r + 1
  <2>1. Len(current') = C /\ Len(todo') = T - 1
    BY <1>2, <1>4, <1>11, <1>13 DEF left
  <2>2. Read' = Len(current') - Len(todo')
    BY DEF Read
  <2> QED BY <1>3, <1>4, <1>5, <2>1, <2>2
<1>20. RecordsInv'
  <2>1. /\ todo' = [k \in 1..Len(todo') |-> (r + 1) + k]
        /\ Len(todo') \in 0..Len(current')
    BY <1>2, <1>3, <1>4, <1>5, <1>7, <1>8, <1>11, <1>13 DEF left
  <2>2. Leads(blk', blob', Read')
    BY <1>2, <1>13, <1>15, <1>19
  <2>3. \A i \in 1..Read' : i < Len(current') => Complete(blk', blob', i)
    BY <1>2, <1>4, <1>13, <1>16, <1>19
  <2>4. (pc' = "done" => todo' = <<>>) /\ (pc' = "scan" => todo' # <<>>)
    BY <1>13
  <2> QED BY <1>19, <2>1, <2>2, <2>3, <2>4 DEF RecordsInv
<1>21. CacheInv'
  <2>1. All = [i \in 1..C |-> i]
    BY <1>4, <1>14 DEF All
  <2>5. Sound(blk, cache') => CacheInv'
    <3>1. Sound(blk, [files |-> <<>>, recs |-> <<>>])
      BY <1>14, NothingIsSound
    <3>2. Cached' = IF cache' = None THEN [files |-> <<>>, recs |-> <<>>] ELSE cache'
      BY DEF Cached
    <3> QED BY <1>2, <3>1, <3>2 DEF CacheInv
  <2>2. CASE left = <<>>
    <3>1. r + 1 = C
      BY <1>8, <1>12, <2>2
    <3>2. cache' = Saved([i \in 1..(r + 1) |-> i], recs)
      BY <1>13, <2>1, <2>2, <3>1
    <3>3. Sound(blk, cache')
      <4>1. r + 1 \in 1..Len(current)
        BY <1>4, <1>8
      <4> QED BY <1>1, <1>4, <1>15, <1>16, <3>2, <4>1, SavedIsSound
    <3> QED BY <3>3, <2>5
  <2>3. CASE left # <<>> /\ tool = "mindex" /\ count' % Checkpoint = 0
    <3>1. T > 1
      BY <1>3, <1>7, <1>12, <2>3
    <3> DEFINE P == {i \in DOMAIN All : \A k \in DOMAIN left : left[k] # i}
    <3>2. DOMAIN All = 1..C /\ All \in Seq(Nat) /\ Len(All) = C
      BY <1>4, <2>1
    <3>3. DOMAIN left = 1..(T - 1) /\ \A k \in 1..(T - 1) : left[k] = (r + 1) + k
      BY <1>11 DEF left
    <3>4. ASSUME NEW i \in 1..C PROVE i \in P <=> i <= r + 1
      <4>1. i \in P <=> \A k \in 1..(T - 1) : (r + 1) + k # i
        BY <3>2, <3>3
      <4>2. i <= r + 1 => \A k \in 1..(T - 1) : (r + 1) + k # i
        BY <1>5
      <4>3. i > r + 1 => i - (r + 1) \in 1..(T - 1) /\ (r + 1) + (i - (r + 1)) = i
        BY <1>3, <1>5, <1>8
      <4>4. i > r + 1 \/ i <= r + 1
        BY <1>5
      <4> HIDE DEF P
      <4> QED BY <4>1, <4>2, <4>3, <4>4
    <3> HIDE DEF P
    <3>5. r + 1 \in 0..C /\ r + 1 \in 1..Len(current)
      BY <1>4, <1>5, <1>8
    <3>6. Only(All, P) = [k \in 1..(r + 1) |-> All[k]]
      BY <3>2, <3>4, <3>5, OnlyPrefix
    <3>7. \A k \in 1..(r + 1) : All[k] = k
      BY <1>4, <1>5, <2>1, <3>5
    <3>8. Only(All, P) = [k \in 1..(r + 1) |-> k]
      BY <3>6, <3>7
    <3>9. cache' = Saved([k \in 1..(r + 1) |-> k], recs)
      BY <1>13, <2>3, <3>8 DEF CheckpointOf, P
    <3>10. Sound(blk, cache')
      BY <1>1, <1>4, <1>15, <1>16, <3>5, <3>9, SavedIsSound
    <3> QED BY <2>5, <3>10
  <2>4. CASE left # <<>> /\ ~(tool = "mindex" /\ count' % Checkpoint = 0)
    BY <1>1, <1>2, <1>13, <2>4, CachedSame DEF CacheInv
  <2> QED BY <2>2, <2>3, <2>4
<1> QED BY <1>17, <1>18, <1>20, <1>21 DEF IInv

-----------------------------------------------------------------------------
(* The theorems.                                                           *)

LEMMA InitInv ==
  ASSUME Init
  PROVE  IInv
<1>1. /\ blk = <<[held |-> <<Genesis>>, size |-> Chunk]>>
      /\ cache = None /\ pc = "none" /\ current = <<>> /\ blob = <<>> /\ todo = <<>>
  BY DEF Init
<1>2. Chunk \in Nat /\ Chunk % Chunk = 0
  <2>1. Chunk \in Nat \ {0} /\ Chunk = Chunk * 1
    BY ChunkAssumption, SMT
  <2> QED BY <2>1, MultipleIff
<1>3. blk[1] \in File /\ blk[1] = [held |-> <<Genesis>>, size |-> Chunk]
  <2>1. Genesis \in Block
    BY CountAssumption DEF Genesis, Block
  <2> QED BY <1>1, <1>2, <2>1 DEF File
<1>4. blk \in Seq(File) /\ Len(blk) = 1
  BY <1>1, <1>3
<1>5. Len(blk[1].held) = 1
  BY <1>3
<1>6. FilesInv
  BY <1>2, <1>3, <1>4, <1>5 DEF FilesInv
<1>7. CurrentInv
  BY <1>1, <1>4 DEF CurrentInv
<1>8. Leads(blk, <<>>, 0)
  BY DEF Leads
<1>9. RecordsInv
  <2>1. Len(todo) = 0 /\ Len(current) = 0 /\ Read = 0
    BY <1>1 DEF Read
  <2>2. todo = [k \in 1..Len(todo) |-> Read + k]
    <3>1. 1..Len(todo) = {}
      BY <2>1
    <3> QED BY <1>1, <3>1
  <2>3. Leads(blk, blob, Read)
    BY <1>1, <1>8, <2>1
  <2>4. \A i \in 1..Read : FALSE
    BY <2>1
  <2> QED BY <1>1, <2>1, <2>2, <2>3, <2>4 DEF RecordsInv
<1>10. CacheInv
  <2>1. Cached = [files |-> <<>>, recs |-> <<>>]
    BY <1>1 DEF Cached
  <2> QED BY <1>4, <2>1, NothingIsSound DEF CacheInv
<1> QED BY <1>6, <1>7, <1>9, <1>10 DEF IInv

LEMMA QuietInv ==
  ASSUME IInv, UNCHANGED <<blk, cache, current, blob, todo>>, pc' \in {pc, "killed"}
  PROVE  IInv'
<1>1. FilesInv /\ CurrentInv /\ RecordsInv /\ CacheInv
  BY DEF IInv
<1>2. FilesInv' /\ CurrentInv'
  <2>1. blk' = blk /\ current' = current
    OBVIOUS
  <2>2. FilesInv'
    BY <1>1, <2>1 DEF FilesInv
  <2>3. CurrentInv'
    BY <1>1, <2>1 DEF CurrentInv
  <2> QED BY <2>2, <2>3
<1>3. Read' = Read
  BY DEF Read
<1>4. RecordsInv'
  BY <1>1, <1>3 DEF RecordsInv
<1>5. CacheInv'
  BY <1>1, CachedSame DEF CacheInv
<1> QED BY <1>2, <1>4, <1>5 DEF IInv

LEMMA NextInv ==
  ASSUME IInv, [Next]_vars
  PROVE  IInv'
<1>1. CASE \E b \in Block : Store(b)
  BY <1>1, StoreInv
<1>2. CASE \E which \in {"mindex", "store"} : Start(which)
  BY <1>2, StartInv
<1>3. CASE ScanFile
  BY <1>3, ScanInv
<1>4. CASE Kill
  BY <1>4, QuietInv DEF Kill, nodeVars
<1>5. CASE UNCHANGED vars
  BY <1>5, QuietInv DEF vars, nodeVars, runVars
<1> QED BY <1>1, <1>2, <1>3, <1>4, <1>5 DEF Next

\* In every reachable state an indexer has read a first part of the files, and
\* what load_cache finds is the node's first files, with records that are true
\* and, for the full ones, complete.
THEOREM IndexInv == Spec => []IInv
<1>1. Init => IInv
  BY InitInv
<1>2. IInv /\ [Next]_vars => IInv'
  BY NextInv
<1> QED BY <1>1, <1>2, PTL DEF Spec

\* Whenever an indexer is killed and whatever the node writes meanwhile, each
\* record that load_cache finds leads to the block it names, and no block has
\* two.
THEOREM CacheTheorem == Spec => []CacheTruthful
<1>1. ASSUME IInv PROVE CacheTruthful
  <2> SUFFICES ASSUME cache # None
               PROVE  /\ \A k \in DOMAIN cache.recs :
                           /\ cache.recs[k].file \in DOMAIN cache.files
                           /\ cache.recs[k].place \in
                                DOMAIN blk[cache.files[cache.recs[k].file].no].held
                           /\ blk[cache.files[cache.recs[k].file].no].held[cache.recs[k].place]
                                = cache.recs[k].block
                      /\ \A j, k \in DOMAIN cache.recs :
                           cache.recs[j].block = cache.recs[k].block => j = k
    BY DEF CacheTruthful
  <2>1. FilesInv /\ Sound(blk, cache)
    BY <1>1 DEF IInv, CacheInv, Cached
  <2> DEFINE recs == cache.recs
             n == Len(cache.files)
  <2>2. /\ cache \in Cache /\ n <= Len(blk)
        /\ \A i \in 1..n : cache.files[i].no = i
        /\ Leads(blk, recs, n)
    BY <2>1 DEF Sound
  <2>3. /\ recs \in Seq(Record) /\ DOMAIN recs = 1..Len(recs)
        /\ DOMAIN cache.files = 1..n /\ n \in Nat
    BY <2>2 DEF Cache
  <2>4. ASSUME NEW k \in 1..Len(recs)
        PROVE  /\ recs[k].file \in 1..n
               /\ recs[k].place \in 1..Len(blk[recs[k].file].held)
               /\ blk[recs[k].file].held[recs[k].place] = recs[k].block
    BY <2>2 DEF Leads
  <2> HIDE DEF recs, n
  <2>5. \A i \in 1..n : i \in 1..Len(blk) /\ DOMAIN blk[i].held = 1..Len(blk[i].held)
    <3> SUFFICES ASSUME NEW i \in 1..n
                 PROVE  i \in 1..Len(blk) /\ DOMAIN blk[i].held = 1..Len(blk[i].held)
      OBVIOUS
    <3>1. i \in 1..Len(blk)
      BY <2>1, <2>2, <2>3, FilesAre
    <3>2. blk[i].held \in Seq(Block)
      BY <2>1, <3>1, FilesAre
    <3> QED BY <3>1, <3>2
  <2>6. ASSUME NEW k \in DOMAIN recs
        PROVE  /\ recs[k].file \in DOMAIN cache.files
               /\ recs[k].place \in DOMAIN blk[cache.files[recs[k].file].no].held
               /\ blk[cache.files[recs[k].file].no].held[recs[k].place] = recs[k].block
    <3>1. k \in 1..Len(recs)
      BY <2>3
    <3>2. recs[k].file \in 1..n
      BY <2>4, <3>1
    <3>3. cache.files[recs[k].file].no = recs[k].file
      BY <2>2, <3>2
    <3> QED BY <2>3, <2>4, <2>5, <3>1, <3>2, <3>3
  <2>7. ASSUME NEW j \in DOMAIN recs, NEW k \in DOMAIN recs, recs[j].block = recs[k].block
        PROVE  j = k
    <3>1. j \in 1..Len(recs) /\ k \in 1..Len(recs)
      BY <2>3
    <3>2. \A f, g \in 1..Len(blk) : \A p \in 1..Len(blk[f].held), q \in 1..Len(blk[g].held) :
            blk[f].held[p] = blk[g].held[q] => f = g /\ p = q
      BY <2>1 DEF FilesInv
    <3>3. recs[j].file = recs[k].file /\ recs[j].place = recs[k].place
      <4>1. recs[j].file \in 1..Len(blk) /\ recs[k].file \in 1..Len(blk)
        BY <2>4, <2>5, <3>1
      <4> DEFINE f == recs[j].file
                 g == recs[k].file
                 p == recs[j].place
                 q == recs[k].place
      <4>2. p \in 1..Len(blk[f].held) /\ q \in 1..Len(blk[g].held)
        BY <2>4, <3>1
      <4>3. blk[f].held[p] = blk[g].held[q]
        <5>1. blk[f].held[p] = recs[j].block /\ blk[g].held[q] = recs[k].block
          BY <2>4, <3>1
        <5> HIDE DEF f, g, p, q
        <5> QED BY <2>7, <5>1
      <4> HIDE DEF f, g, p, q
      <4>4. f \in 1..Len(blk) /\ g \in 1..Len(blk)
        BY <4>1 DEF f, g
      <4>5. f = g /\ p = q
        BY <3>2, <4>2, <4>3, <4>4
      <4> QED BY <4>5 DEF f, g, p, q
    <3>4. \A a, b \in 1..Len(recs) :
            recs[a].file = recs[b].file /\ recs[a].place = recs[b].place => a = b
      BY <2>2 DEF Leads, recs
    <3> QED BY <3>1, <3>3, <3>4
  <2> QED BY <2>6, <2>7 DEF recs
<1> QED BY <1>1, IndexInv, PTL

\* A finished index has every block of the files that were full when it
\* started, of however many runs, checkpoints and kills it was made.
THEOREM FullFilesTheorem == Spec => []FullFilesComplete
<1>1. ASSUME IInv PROVE FullFilesComplete
  <2> SUFFICES ASSUME pc = "done", NEW i \in 1..(Len(current) - 1),
                      NEW j \in DOMAIN current[i].held
               PROVE  current[i].held[j] \in Indexed
    BY DEF FullFilesComplete
  <2>1. FilesInv /\ CurrentInv /\ RecordsInv
    BY <1>1 DEF IInv
  <2>2. Len(current) \in Nat /\ current \in Seq(File)
    BY <2>1 DEF CurrentInv
  <2>3. i \in 1..Len(current) /\ i < Len(current)
    BY <2>2
  <2>4. current[i] = blk[i] /\ current[i] \in File
    BY <2>1, <2>2, <2>3 DEF CurrentInv
  <2>5. DOMAIN current[i].held = 1..Len(blk[i].held)
    BY <2>4 DEF File
  <2>6. Read = Len(current)
    <3>1. Len(todo) = 0
      BY <2>1 DEF RecordsInv
    <3> QED BY <2>2, <3>1 DEF Read
  <2>7. Complete(blk, blob, i) /\ blob \in Seq(Record)
    BY <2>1, <2>3, <2>6 DEF RecordsInv, Leads
  <2>8. PICK k \in 1..Len(blob) : blob[k] = [block |-> blk[i].held[j], file |-> i, place |-> j]
    BY <2>5, <2>7 DEF Complete
  <2>9. k \in DOMAIN blob /\ blob[k].block = current[i].held[j]
    BY <2>4, <2>7, <2>8
  <2> QED BY <2>9 DEF Indexed
<1> QED BY <1>1, IndexInv, PTL

-----------------------------------------------------------------------------
(* The chain through a complete index.                                     *)

\* Every block has a record.
CompleteIndex == blob \in Seq(Record) /\ Indexed = Block

\* The children that are found are those that there are.
LEMMA ChildrenAre ==
  ASSUME CompleteIndex, NEW b \in Block
  PROVE  /\ Children(b) \in Seq(Block)
         /\ \A k \in 1..Len(Children(b)) : Children(b)[k] \in Above(b)
         /\ \A c \in Above(b) : \E k \in 1..Len(Children(b)) : Children(b)[k] = c
<1> DEFINE P == {k \in DOMAIN blob : blob[k].block # Genesis /\ parent[blob[k].block] = b}
           kids == Only(blob, P)
           N == Len(blob)
<1>1. blob \in Seq(Record) /\ Indexed = Block /\ DOMAIN blob = 1..N /\ N \in Nat
  BY DEF CompleteIndex
<1>0. \A r \in Record : r.block \in Block
  BY DEF Record
<1>2. \A k \in P : k \in 1..N /\ blob[k].block \in Above(b)
  <2> SUFFICES ASSUME NEW k \in P PROVE k \in 1..N /\ blob[k].block \in Above(b)
    OBVIOUS
  <2>1. k \in 1..N /\ blob[k].block # Genesis /\ parent[blob[k].block] = b
    BY <1>1
  <2>2. blob[k].block \in Block
    <3>1. blob[k] \in Record
      BY <1>1, <2>1
    <3> QED BY <1>0, <3>1
  <2>3. blob[k].block \in 1..Blocks
    BY <2>1, <2>2, CountAssumption DEF Block, Genesis
  <2> QED BY <2>1, <2>3 DEF Above
<1>3. \A c \in Above(b) : \E k \in P : blob[k].block = c
  <2> SUFFICES ASSUME NEW c \in Above(b) PROVE \E k \in P : blob[k].block = c
    OBVIOUS
  <2>1. c \in 1..Blocks /\ parent[c] = b
    BY DEF Above
  <2>2. c \in Block /\ c # Genesis
    BY <2>1, CountAssumption DEF Block, Genesis
  <2>3. PICK k \in DOMAIN blob : blob[k].block = c
    BY <1>1, <2>2 DEF Indexed
  <2> QED BY <2>1, <2>2, <2>3
<1>4. kids \in Seq(Record) /\ \E idx \in [1..Len(kids) -> Nat] : IndexOf(idx, kids, blob, N, P)
  <2> HIDE DEF P
  <2> QED BY <1>1, OnlyIs
<1>5. Children(b) = [k \in DOMAIN kids |-> kids[k].block]
  BY DEF Children
<1> HIDE DEF P, kids, N
<1>6. PICK idx \in [1..Len(kids) -> Nat] : IndexOf(idx, kids, blob, N, P)
  BY <1>4
<1>7. DOMAIN kids = 1..Len(kids) /\ Len(kids) \in Nat /\ \A k \in 1..Len(kids) : kids[k].block \in Block
  <2>1. DOMAIN kids = 1..Len(kids) /\ Len(kids) \in Nat /\ \A k \in 1..Len(kids) : kids[k] \in Record
    BY <1>4
  <2> QED BY <1>0, <2>1
<1>8. Children(b) \in [1..Len(kids) -> Block]
  BY <1>5, <1>7
<1>9. Children(b) \in Seq(Block) /\ Len(Children(b)) = Len(kids)
  BY <1>7, <1>8
<1>10. ASSUME NEW k \in 1..Len(kids) PROVE Children(b)[k] \in Above(b)
  <2>1. idx[k] \in P /\ kids[k] = blob[idx[k]]
    BY <1>6 DEF IndexOf
  <2> QED BY <1>2, <1>5, <1>7, <2>1
<1>11. ASSUME NEW c \in Above(b) PROVE \E k \in 1..Len(kids) : Children(b)[k] = c
  <2>1. PICK i \in P : blob[i].block = c
    BY <1>3
  <2>2. i \in 1..N
    BY <1>2
  <2>3. PICK k \in 1..Len(kids) : idx[k] = i
    BY <1>6, <2>2 DEF IndexOf
  <2>4. kids[k] = blob[i]
    BY <1>6, <2>3 DEF IndexOf
  <2> QED BY <1>5, <1>7, <2>1, <2>4
<1> QED BY <1>9, <1>10, <1>11

\* A block without children is a leaf; the others have a first child.
LEMMA LeafOrNot ==
  ASSUME CompleteIndex, NEW b \in Block
  PROVE  /\ Children(b) = <<>> <=> Above(b) = {}
         /\ Children(b) # <<>> => 1 \in 1..Len(Children(b)) /\ Children(b)[1] \in Block
<1>1. /\ Children(b) \in Seq(Block)
      /\ \A k \in 1..Len(Children(b)) : Children(b)[k] \in Above(b)
      /\ \A c \in Above(b) : \E k \in 1..Len(Children(b)) : Children(b)[k] = c
  BY ChildrenAre
<1>2. Children(b) = <<>> => 1..Len(Children(b)) = {}
  OBVIOUS
<1>3. Children(b) # <<>> => 1 \in 1..Len(Children(b))
  BY <1>1
<1> QED BY <1>1, <1>2, <1>3

\* depth counts nothing above a leaf, and above another block something, but
\* no more than its limit.
LEMMA DepthIs ==
  ASSUME CompleteIndex, NEW b \in Block
  PROVE  Depth(b) \in 0..DepthLimit /\ (Depth(b) = 0 <=> Above(b) = {})
<1> DEFINE V == [Block -> Nat]
           v == [c \in Block |-> 0]
           More(less) == [c \in Block |-> IF Children(c) = <<>> THEN 0 ELSE 1 + less[Children(c)[1]]]
           step == [x \in Nat \X V |-> More(x[2])]
           body(u) == [n \in Nat |-> IF n = 0 THEN v ELSE More(u[n - 1])]
           up == CHOOSE u : u = body(u)
<1>1. Depth(b) = up[DepthLimit][b]
  BY DEF Depth
<1>2. ASSUME NEW less \in V PROVE More(less) \in V
  <2>1. \A c \in Block : Children(c) # <<>> => Children(c)[1] \in Block
    BY LeafOrNot
  <2> QED BY <2>1
<1>3. v \in V /\ step \in [Nat \X V -> V] /\ \A n \in Nat, less \in V : step[<<n, less>>] = More(less)
  <2> HIDE DEF V, More
  <2>1. step \in [Nat \X V -> V]
    BY <1>2
  <2>2. v \in V
    BY DEF V
  <2> QED BY <2>1, <2>2
<1> HIDE DEF step, V
<1>4. PICK f \in [Nat -> V] : Iterates(f, v, step)
  BY <1>3, NatRecursion
<1>5. f = body(f)
  <2> HIDE DEF More, v
  <2>1. f[0] = v
    BY <1>4 DEF Iterates
  <2>2. ASSUME NEW n \in Nat, n # 0 PROVE f[n] = More(f[n - 1])
    <3>1. n - 1 \in Nat /\ (n - 1) + 1 = n
      BY <2>2
    <3>2. f[(n - 1) + 1] = step[<<n - 1, f[n - 1]>>] /\ f[n - 1] \in V
      BY <1>4, <3>1 DEF Iterates
    <3> QED BY <1>3, <3>1, <3>2
  <2>3. \A n \in Nat : f[n] = IF n = 0 THEN v ELSE More(f[n - 1])
    BY <2>1, <2>2
  <2> QED BY <2>3
<1>6. up = body(up)
  <2> HIDE DEF body
  <2> QED BY <1>5
<1> DEFINE S == {n \in Nat : /\ up[n] \in V
                             /\ \A c \in Block : up[n][c] <= n
                             /\ n > 0 => \A c \in Block : up[n][c] = 0 <=> Children(c) = <<>>}
<1> HIDE DEF up
<1>7. up[0] = v /\ \A n \in Nat : up[n + 1] = More(up[n])
  <2> HIDE DEF More, v
  <2> QED BY <1>6
<1>8. 0 \in S
  BY <1>3, <1>7
<1>9. ASSUME NEW n \in S PROVE n + 1 \in S
  <2>1. n \in Nat /\ up[n] \in V /\ (\A c \in Block : up[n][c] <= n) /\ up[n + 1] = More(up[n])
    BY <1>7
  <2>2. up[n + 1] \in V
    BY <1>2, <2>1
  <2>3. ASSUME NEW c \in Block
        PROVE  up[n + 1][c] <= n + 1 /\ (up[n + 1][c] = 0 <=> Children(c) = <<>>)
    <3>1. up[n + 1][c] = IF Children(c) = <<>> THEN 0 ELSE 1 + up[n][Children(c)[1]]
      BY <2>1
    <3>2. Children(c) # <<>> => Children(c)[1] \in Block
      BY LeafOrNot
    <3>3. Children(c) # <<>> => up[n][Children(c)[1]] \in 0..n
      <4>1. \A e \in Block : up[n][e] \in Nat /\ up[n][e] <= n
        BY <2>1 DEF V
      <4> HIDE DEF S
      <4>2. \A e \in Block : up[n][e] \in 0..n
        BY <2>1, <4>1
      <4> QED BY <3>2, <4>2
    <3> QED BY <2>1, <3>1, <3>3
  <2> QED BY <2>1, <2>2, <2>3
<1>10. \A n \in Nat : n \in S
  <2>1. S \subseteq Nat
    OBVIOUS
  <2> HIDE DEF S
  <2> QED BY <1>8, <1>9, <2>1, SetInduction
<1>11. DepthLimit \in S /\ DepthLimit > 0 /\ DepthLimit \in Nat
  BY <1>10, ChainAssumption
<1>12. Depth(b) \in Nat /\ Depth(b) <= DepthLimit /\ (Depth(b) = 0 <=> Children(b) = <<>>)
  BY <1>1, <1>11 DEF V
<1> QED BY <1>11, <1>12, LeafOrNot

\* The child that is followed is one of those there are, and none is deeper.
LEMMA DeepestIs ==
  ASSUME CompleteIndex, NEW b \in Block, Above(b) # {}
  PROVE  /\ DeepestChild(b) \in Above(b)
         /\ \A c \in Above(b) : Depth(c) <= Depth(DeepestChild(b))
<1> DEFINE kids == Children(b)
           L == Len(kids)
           d == [k \in 1..L |-> Depth(kids[k])]
<1>1. /\ kids \in Seq(Block) /\ L \in Nat /\ DOMAIN kids = 1..L
      /\ \A k \in 1..L : kids[k] \in Above(b) /\ kids[k] \in Block
      /\ \A c \in Above(b) : \E k \in 1..L : kids[k] = c
  BY ChildrenAre
<1>2. DeepestChild(b) = kids[CHOOSE k \in DOMAIN kids :
                               /\ \A j \in DOMAIN kids : Depth(kids[j]) <= Depth(kids[k])
                               /\ \A j \in 1..(k - 1) : Depth(kids[j]) < Depth(kids[k])]
  BY DEF DeepestChild
<1> HIDE DEF kids, L
<1>3. \A k \in 1..L : d[k] \in 0..DepthLimit /\ d[k] = Depth(kids[k])
  BY <1>1, DepthIs
<1> HIDE DEF d
<1>4. DepthLimit \in Nat
  BY ChainAssumption
<1> DEFINE Bounds == {m \in Nat : \A k \in 1..L : d[k] <= m}
<1>5. PICK m \in Bounds : \A n \in Bounds : m <= n
  <2>1. DepthLimit \in Bounds
    BY <1>3, <1>4
  <2>2. Bounds \subseteq Nat /\ Bounds # {}
    BY <2>1
  <2> HIDE DEF Bounds
  <2> QED BY <2>2, LeastElement
<1>6. m \in Nat /\ \A k \in 1..L : d[k] <= m
  OBVIOUS
<1>7. 1 \in 1..L
  BY <1>1
<1>8. \E k \in 1..L : d[k] = m
  <2> SUFFICES ASSUME \A k \in 1..L : d[k] # m PROVE FALSE
    OBVIOUS
  <2>1. \A k \in 1..L : d[k] <= m - 1
    BY <1>3, <1>4, <1>6
  <2>2. m - 1 \in Nat
    BY <1>3, <1>4, <1>6, <1>7, <2>1
  <2> QED BY <1>5, <2>1, <2>2
<1> DEFINE First == {k \in 1..L : d[k] = m}
<1>9. PICK k \in First : \A j \in First : k <= j
  <2>1. First # {} /\ First \subseteq Nat
    BY <1>8
  <2> HIDE DEF First
  <2> QED BY <2>1, LeastElement
<1>10. k \in 1..L /\ d[k] = m
  OBVIOUS
<1>11. ASSUME NEW j \in 1..(k - 1) PROVE d[j] < d[k]
  <2>1. j \in 1..L /\ j < k
    BY <1>1, <1>10
  <2>2. d[j] # m
    BY <1>9, <1>10, <2>1
  <2> QED BY <1>3, <1>4, <1>6, <1>10, <2>1, <2>2
<1>12. /\ k \in DOMAIN kids
       /\ \A j \in DOMAIN kids : Depth(kids[j]) <= Depth(kids[k])
       /\ \A j \in 1..(k - 1) : Depth(kids[j]) < Depth(kids[k])
  <2>1. \A j \in 1..(k - 1) : j \in 1..L
    BY <1>1, <1>10
  <2> QED BY <1>1, <1>3, <1>6, <1>10, <1>11, <2>1
<1>13. PICK i \in DOMAIN kids :
         /\ DeepestChild(b) = kids[i]
         /\ \A j \in DOMAIN kids : Depth(kids[j]) <= Depth(kids[i])
  BY <1>2, <1>12
<1> QED BY <1>1, <1>13

\* If no branch off the chain has more than one block, then of the blocks on
\* b others build on the one that is followed, or on none.
LEMMA OnlyOneGoesOn ==
  ASSUME CompleteIndex, ~LongForks, NEW b \in Block, NEW c \in Above(b), Above(c) # {}
  PROVE  c = DeepestChild(b)
<1> DEFINE d == DeepestChild(b)
<1>1. d \in Above(b) /\ Depth(c) <= Depth(d)
  BY DeepestIs
<1> HIDE DEF d
<1>2. /\ c \in 1..Blocks /\ d \in 1..Blocks /\ parent[c] = parent[d]
      /\ c \in Block /\ d \in Block
  BY <1>1, CountAssumption DEF Above, Block
<1>3. Depth(c) \in 0..DepthLimit /\ Depth(c) # 0
  BY <1>2, DepthIs
<1>4. Depth(d) \in 0..DepthLimit /\ Depth(d) # 0
  BY <1>1, <1>2, <1>3, ChainAssumption, DepthIs
<1>5. Above(d) # {}
  BY <1>2, <1>4, DepthIs
<1>6. c = d
  BY <1>2, <1>5 DEF LongForks
<1> QED BY <1>6 DEF d

\* The blocks at each height are the children of those at the height below.
LEMMA HeightsRise ==
  /\ AtHeight[0] = {Genesis}
  /\ \A h \in Nat : /\ AtHeight[h] \subseteq Block
                    /\ AtHeight[h + 1] = UNION {Above(b) : b \in AtHeight[h]}
<1> DEFINE V == SUBSET Block
           Next1(A) == UNION {Above(b) : b \in A}
           step == [x \in Nat \X V |-> Next1(x[2])]
           body(u) == [h \in Nat |-> IF h = 0 THEN {Genesis} ELSE Next1(u[h - 1])]
<1>1. \A A : Next1(A) \in V
  BY CountAssumption DEF Above, Block
<1>2. {Genesis} \in V
  BY CountAssumption DEF Block, Genesis
<1>3. step \in [Nat \X V -> V] /\ \A n \in Nat, A \in V : step[<<n, A>>] = Next1(A)
  <2> HIDE DEF V, Next1
  <2> QED BY <1>1
<1>4. AtHeight = CHOOSE u : u = body(u)
  BY DEF AtHeight
<1> HIDE DEF step, V, Next1
<1>5. PICK f \in [Nat -> V] : Iterates(f, {Genesis}, step)
  BY <1>2, <1>3, NatRecursion
<1>6. f = body(f)
  <2>1. f[0] = {Genesis}
    BY <1>5 DEF Iterates
  <2>2. ASSUME NEW n \in Nat, n # 0 PROVE f[n] = Next1(f[n - 1])
    <3>1. n - 1 \in Nat /\ (n - 1) + 1 = n
      BY <2>2
    <3>2. f[(n - 1) + 1] = step[<<n - 1, f[n - 1]>>] /\ f[n - 1] \in V
      BY <1>5, <3>1 DEF Iterates
    <3> QED BY <1>3, <3>1, <3>2
  <2>3. \A n \in Nat : f[n] = IF n = 0 THEN {Genesis} ELSE Next1(f[n - 1])
    BY <2>1, <2>2
  <2> QED BY <2>3
<1>7. AtHeight = body(AtHeight)
  <2> HIDE DEF body
  <2> QED BY <1>4, <1>6
<1>8. AtHeight[0] = {Genesis} /\ \A h \in Nat : AtHeight[h + 1] = Next1(AtHeight[h])
  BY <1>7
<1>9. \A h \in Nat : AtHeight[h] \in V
  BY <1>1, <1>2, <1>7
<1> QED BY <1>8, <1>9 DEF V, Next1

\* The chain so far: it has a block of each height; of those at a height others
\* build on no other; and it ends where nothing follows or is h + 1 long.
ChainInv(chain, h) ==
  /\ chain \in Seq(Block) /\ Len(chain) >= 1 /\ Len(chain) <= h + 1
  /\ \A k \in 1..Len(chain) :
       chain[k] \in AtHeight[k - 1] /\ \A b \in AtHeight[k - 1] : Above(b) # {} => chain[k] = b
  /\ Len(chain) = h + 1 \/ Above(chain[Len(chain)]) = {}

Longer(below) ==
  IF Children(below[Len(below)]) = <<>> THEN below
  ELSE Append(below, DeepestChild(below[Len(below)]))

LEMMA LongerKeeps ==
  ASSUME CompleteIndex, ~LongForks, NEW chain, NEW h \in Nat, ChainInv(chain, h)
  PROVE  ChainInv(Longer(chain), h + 1)
<1> DEFINE L == Len(chain)
           top == chain[L]
<1>1. chain \in Seq(Block) /\ L \in Nat /\ L >= 1 /\ L <= h + 1 /\ L \in 1..L
  BY DEF ChainInv
<1>2. top \in Block /\ top \in AtHeight[L - 1] /\ \A b \in AtHeight[L - 1] : Above(b) # {} => top = b
  BY <1>1 DEF ChainInv
<1>3. CASE Above(top) = {}
  <2>1. Longer(chain) = chain
    BY <1>2, <1>3, LeafOrNot DEF Longer
  <2> QED BY <1>1, <1>3, <2>1 DEF ChainInv
<1>4. CASE Above(top) # {}
  <2> DEFINE d == DeepestChild(top)
             new == Append(chain, d)
  <2>1. Longer(chain) = new
    BY <1>2, <1>4, LeafOrNot DEF Longer
  <2>2. d \in Above(top) /\ d \in Block /\ \A c \in Above(top) : Above(c) # {} => c = d
    <3>1. d \in Above(top)
      BY <1>2, <1>4, DeepestIs
    <3>2. \A c \in Above(top) : Above(c) # {} => c = d
      BY <1>2, OnlyOneGoesOn
    <3>3. d \in Block
      <4> HIDE DEF d
      <4> QED BY <3>1, CountAssumption DEF Above, Block
    <3> QED BY <3>1, <3>2, <3>3
  <2> HIDE DEF d
  <2>3. /\ new \in Seq(Block) /\ Len(new) = L + 1 /\ new[L + 1] = d
        /\ \A k \in 1..L : new[k] = chain[k]
    BY <1>1, <2>2
  <2>4. L = h + 1
    BY <1>1, <1>4 DEF ChainInv
  <2>5. AtHeight[L] = UNION {Above(b) : b \in AtHeight[L - 1]}
    <3>1. L - 1 \in Nat /\ (L - 1) + 1 = L
      BY <1>1
    <3> QED BY <3>1, HeightsRise
  <2>6. d \in AtHeight[L]
    BY <1>2, <2>2, <2>5
  <2>7. ASSUME NEW b \in AtHeight[L], Above(b) # {} PROVE d = b
    <3>1. PICK a \in AtHeight[L - 1] : b \in Above(a)
      BY <2>5
    <3>2. a = top
      BY <1>2, <3>1
    <3> QED BY <2>2, <2>7, <3>1, <3>2
  <2> HIDE DEF new, top
  <2>8. ASSUME NEW k \in 1..(L + 1)
        PROVE  new[k] \in AtHeight[k - 1] /\ \A b \in AtHeight[k - 1] : Above(b) # {} => new[k] = b
    <3>1. CASE k \in 1..L
      <4>1. chain[k] \in AtHeight[k - 1] /\ \A b \in AtHeight[k - 1] : Above(b) # {} => chain[k] = b
        BY <3>1 DEF ChainInv
      <4> QED BY <2>3, <3>1, <4>1
    <3>2. CASE k = L + 1
      <4>1. k - 1 = L
        BY <1>1, <3>2
      <4> QED BY <2>3, <2>6, <2>7, <3>2, <4>1
    <3> QED BY <1>1, <3>1, <3>2
  <2> HIDE DEF L
  <2>9. Len(new) >= 1 /\ Len(new) = (h + 1) + 1 /\ Len(new) <= (h + 1) + 1
    BY <1>1, <2>3, <2>4
  <2>10. ChainInv(new, h + 1)
    BY <2>3, <2>8, <2>9 DEF ChainInv
  <2> QED BY <2>1, <2>10
<1> QED BY <1>3, <1>4

LEMMA HeightsAre ==
  ASSUME CompleteIndex, ~LongForks
  PROVE  ChainInv(Heights, End)
<1> DEFINE V == Seq(Block) \ {<<>>}
           step == [x \in (1..End) \X V |-> Longer(x[2])]
           body(u) == [h \in 0..End |-> IF h = 0 THEN <<Genesis>> ELSE Longer(u[h - 1])]
           chain == CHOOSE u : u = body(u)
<1>0. End \in Nat /\ Genesis \in Block
  BY ChainAssumption, CountAssumption DEF Block, Genesis
<1>1. Heights = chain[End]
  BY DEF Heights, Longer
<1>2. <<Genesis>> \in V
  BY <1>0
<1>3. ASSUME NEW below \in V PROVE Longer(below) \in V
  <2>1. below \in Seq(Block) /\ below[Len(below)] \in Block
    OBVIOUS
  <2>2. CASE Children(below[Len(below)]) = <<>>
    BY <2>2 DEF Longer
  <2>3. CASE Children(below[Len(below)]) # <<>>
    <3>1. Above(below[Len(below)]) # {}
      BY <2>1, <2>3, LeafOrNot
    <3>2. DeepestChild(below[Len(below)]) \in 1..Blocks
      BY <2>1, <3>1, DeepestIs DEF Above
    <3>3. DeepestChild(below[Len(below)]) \in Block
      BY <3>2, CountAssumption DEF Block
    <3>4. Append(below, DeepestChild(below[Len(below)])) \in V
      BY <2>1, <3>3
    <3> QED BY <2>3, <3>4 DEF Longer
  <2> QED BY <2>2, <2>3
<1>4. step \in [(1..End) \X V -> V] /\ \A n \in 1..End, c \in V : step[<<n, c>>] = Longer(c)
  <2> HIDE DEF V
  <2> QED BY <1>3
<1> HIDE DEF step, V
<1>5. PICK f \in [0..End -> V] : Repeats(f, <<Genesis>>, step, End)
  BY <1>0, <1>2, <1>4, LoopExists
<1>6. f = body(f)
  <2>1. f[0] = <<Genesis>>
    BY <1>5 DEF Repeats
  <2>2. ASSUME NEW n \in 1..End PROVE f[n] = Longer(f[n - 1])
    <3>1. n - 1 \in 0..End
      BY <1>0
    <3> QED BY <1>4, <1>5, <3>1 DEF Repeats
  <2>3. \A n \in 0..End : f[n] = IF n = 0 THEN <<Genesis>> ELSE Longer(f[n - 1])
    <3>1. \A n \in 0..End : n = 0 \/ n \in 1..End
      BY <1>0
    <3> QED BY <2>1, <2>2, <3>1
  <2> QED BY <2>3
<1>7. chain = body(chain)
  <2> HIDE DEF body
  <2> QED BY <1>6
<1> HIDE DEF chain
<1>8. chain[0] = <<Genesis>> /\ \A h \in Nat : h + 1 <= End => chain[h + 1] = Longer(chain[h])
  <2>1. 0 \in 0..End /\ \A h \in Nat : h + 1 <= End => h + 1 \in 0..End /\ h + 1 # 0 /\ (h + 1) - 1 = h
    BY <1>0
  <2> QED BY <1>7, <2>1
<1> DEFINE S == {h \in Nat : h <= End => ChainInv(chain[h], h)}
<1>9. 0 \in S
  <2> DEFINE w == <<Genesis>>
  <2>1. w \in Seq(Block) /\ Len(w) = 1 /\ w[1] = Genesis /\ 1..1 = {1} /\ 0 + 1 = 1 /\ 1 - 1 = 0
    BY <1>0
  <2>2. chain[0] = w
    BY <1>8
  <2>3. AtHeight[0] = {Genesis}
    BY HeightsRise
  <2> HIDE DEF w
  <2>4. Len(w) >= 1 /\ Len(w) <= 0 + 1 /\ Len(w) = 0 + 1
    BY <2>1
  <2>5. \A k \in 1..Len(w) :
          w[k] \in AtHeight[k - 1] /\ \A b \in AtHeight[k - 1] : Above(b) # {} => w[k] = b
    BY <2>1, <2>3
  <2>6. ChainInv(w, 0)
    BY <2>1, <2>4, <2>5 DEF ChainInv
  <2> QED BY <2>2, <2>6
<1>10. ASSUME NEW h \in S PROVE h + 1 \in S
  <2> SUFFICES ASSUME h + 1 <= End PROVE ChainInv(chain[h + 1], h + 1)
    OBVIOUS
  <2>1. h \in Nat /\ ChainInv(chain[h], h)
    BY <1>0
  <2> QED BY <1>8, <2>1, LongerKeeps
<1>11. \A h \in Nat : h \in S
  <2>1. S \subseteq Nat
    OBVIOUS
  <2> HIDE DEF S
  <2> QED BY <1>9, <1>10, <2>1, SetInduction
<1> QED BY <1>0, <1>1, <1>11

\* In a complete index the chain that is followed is the longest one if no
\* branch off it has more than one block, whatever the limits of depth and of
\* the heights.
THEOREM ForksTheorem == Spec => []ShortForksResolved
<1>1. ASSUME IInv PROVE ShortForksResolved
  <2> SUFFICES ASSUME pc = "done", Indexed = Block, ~LongForks
               PROVE  /\ \A h \in 1..Len(Heights) :
                           /\ Heights[h] \in AtHeight[h - 1]
                           /\ \A b \in AtHeight[h - 1] : Above(b) # {} => Heights[h] = b
                      /\ Len(Heights) = End + 1 \/ AtHeight[Len(Heights)] = {}
    BY DEF ShortForksResolved
  <2>1. CompleteIndex
    BY <1>1 DEF IInv, RecordsInv, Leads, CompleteIndex
  <2>2. ChainInv(Heights, End)
    BY <2>1, HeightsAre
  <2> DEFINE L == Len(Heights)
             top == Heights[L]
  <2>3. Above(top) = {} => AtHeight[L] = {}
    <3>1. L \in Nat /\ L >= 1 /\ L \in 1..L /\ L - 1 \in Nat /\ (L - 1) + 1 = L
      BY <2>2 DEF ChainInv
    <3>2. \A b \in AtHeight[L - 1] : Above(b) # {} => top = b
      BY <2>2, <3>1 DEF ChainInv
    <3>3. AtHeight[L] = UNION {Above(b) : b \in AtHeight[L - 1]}
      BY <3>1, HeightsRise
    <3> HIDE DEF top, L
    <3> QED BY <3>2, <3>3
  <2> QED BY <2>2, <2>3 DEF ChainInv
<1> QED BY <1>1, IndexInv, PTL
=============================================================================
