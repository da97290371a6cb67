-------------------------- MODULE MonetaryIBDProofs --------------------------
(***************************************************************************)
(* Proofs about MonetaryIBD for every number of nodes, every store that a  *)
(* source may have, every batch and every limit.                           *)
(***************************************************************************)
EXTENDS MonetaryIBD, SequenceTheorems, WellFoundedInduction, NaturalsInduction, TLAPS

(***************************************************************************)
(* What feed accepts.                                                      *)
(***************************************************************************)

\* Any set of numbers up to n has a greatest.
LEMMA GreatestOf ==
  ASSUME NEW n \in Nat, NEW S, S \subseteq 0..n, S # {}
  PROVE  \E i \in S : \A j \in S : j <= i
<1> DEFINE T == {n - i : i \in S}
<1>1. S \subseteq Int /\ \A i \in S : i >= 0 /\ i <= n
  OBVIOUS
<1>2. T \subseteq Nat
  BY <1>1
<1>3. T # {}
  OBVIOUS
<1>4. \E x \in T : \A y \in T : ~ (<<y, x>> \in OpToRel(<, Nat))
  <2> HIDE DEF T
  <2> QED BY <1>2, <1>3, NatLessThanWellFounded, WFMin
<1>5. PICK x \in T : \A y \in T : ~ (y < x)
  <2> HIDE DEF T
  <2> QED BY <1>2, <1>4 DEF OpToRel
<1>6. PICK i \in S : x = n - i
  OBVIOUS
<1>7. ASSUME NEW j \in S PROVE j <= i
  <2>1. n - j \in T
    OBVIOUS
  <2>2. ~ (n - j < n - i)
    BY <1>5, <1>6, <2>1
  <2> HIDE DEF T
  <2> QED BY <1>1, <2>2
<1> QED BY <1>7

\* The records of a payload that feed takes are its longest prefix of
\* acceptable ones.
Prefix(records, payload, k) ==
  \A i \in 1..k : Acceptable(records \o SubSeq(payload, 1, i - 1), payload[i])

\* feed takes just that prefix.
LEMMA FedTakesLongest ==
  ASSUME NEW records \in Seq(Fragment), NEW payload \in Seq(Fragment)
  PROVE  \E k \in 0..Len(payload) :
           /\ Fed(records, payload) = records \o SubSeq(payload, 1, k)
           /\ Prefix(records, payload, k)
           /\ k < Len(payload) =>
                ~Acceptable(records \o SubSeq(payload, 1, k), payload[k + 1])
<1> DEFINE S == {k \in 0..Len(payload) : Prefix(records, payload, k)}
           Longest(k) == /\ \A i \in 1..k :
                              Acceptable(records \o SubSeq(payload, 1, i - 1), payload[i])
                         /\ k < Len(payload) =>
                              ~Acceptable(records \o SubSeq(payload, 1, k), payload[k + 1])
<1>1. Len(payload) \in Nat
  OBVIOUS
<1>2. Prefix(records, payload, 0)
  BY DEF Prefix
<1>3. S # {} /\ S \subseteq 0..Len(payload)
  BY <1>1, <1>2
<1>4. PICK k \in S : \A j \in S : j <= k
  <2> HIDE DEF S
  <2> QED BY <1>1, <1>3, GreatestOf
<1>5. k \in 0..Len(payload) /\ Prefix(records, payload, k)
  OBVIOUS
<1>6. ASSUME k < Len(payload), Acceptable(records \o SubSeq(payload, 1, k), payload[k + 1])
      PROVE  FALSE
  <2>1. (k + 1) - 1 = k
    BY <1>5
  <2>2. ASSUME NEW i \in 1..(k + 1)
        PROVE  Acceptable(records \o SubSeq(payload, 1, i - 1), payload[i])
    <3>1. i \in 1..k \/ i = k + 1
      BY <1>5, <2>2
    <3>2. CASE i \in 1..k
      BY <1>5, <3>2 DEF Prefix
    <3>3. CASE i = k + 1
      BY <1>6, <2>1, <3>3
    <3> QED BY <3>1, <3>2, <3>3
  <2>3. Prefix(records, payload, k + 1)
    BY <2>2 DEF Prefix
  <2>4. k + 1 \in S
    BY <1>1, <1>5, <1>6, <2>3
  <2>5. k + 1 <= k
    <3> HIDE DEF S
    <3> QED BY <1>4, <2>4
  <2> QED BY <1>5, <2>5
<1>7. Longest(k)
  BY <1>5, <1>6 DEF Prefix
<1>8. \E j \in 0..Len(payload) : Longest(j)
  BY <1>5, <1>7
<1> DEFINE taken == CHOOSE j \in 0..Len(payload) : Longest(j)
<1>9. taken \in 0..Len(payload) /\ Longest(taken)
  <2> HIDE DEF Longest
  <2> QED BY <1>8
<1>10. Fed(records, payload) = records \o SubSeq(payload, 1, taken)
  BY DEF Fed
<1> HIDE DEF taken
<1> QED BY <1>9, <1>10 DEF Prefix

(***************************************************************************)
(* The inductive invariant.                                                *)
(***************************************************************************)

\* The chain's records from the anchor up.
Proven(s) == \A i \in 1..Len(s) : s[i].place = i /\ s[i].kind = "sound"

Answered(n) == reply[n] \notin {None, Reset}

TypeInv ==
  /\ store \in [Node -> Seq(Fragment)]
  /\ accepted \in [Node -> Seq(Fragment)]
  /\ pc \in [Node -> {"connect"} \cup Waiting \cup Ended]
  /\ index \in [Node -> Nat \cup {None}]
  /\ got \in [Node -> Nat]
  /\ total \in [Node -> Nat]
  /\ DOMAIN serving = Node /\ DOMAIN peer = Node /\ DOMAIN reply = Node
  /\ \A n \in Node : Answered(n) =>
       /\ pc[n] \in Waiting
       /\ pc[n] = "info" => reply[n].count \in Nat
       /\ pc[n] = "get" => reply[n].n \in Nat /\ reply[n].payload \in Seq(Fragment)

\* What a sync has verified is the chain's, and the file is not ahead of it.
RecordsInv ==
  \A n \in Node :
    /\ Proven(accepted[n])
    /\ n \notin Source /\ pc[n] \notin Ended =>
         Proven(store[n]) /\ Len(store[n]) <= Len(accepted[n])

\* A source never syncs, and its records are in order, sound or not.
SourceInv ==
  \A n \in Source :
    /\ pc[n] = "none"
    /\ \A i \in 1..Len(store[n]) : store[n][i].place = i

\* Where a sync is in its loop.
LoopInv ==
  \A n \in Node :
    /\ pc[n] \in {"connect", "info"} => accepted[n] = <<>> /\ got[n] = 0
    /\ pc[n] = "get" => got[n] < total[n]

\* A server whose store was never seen with a hole, nor written anew, has
\* what its index says.
ServerInv ==
  \A m \in Node :
    /\ serving[m] # None => index[m] # None
    /\ index[m] # None /\ m \notin suspect =>
         /\ index[m] <= Len(store[m])
         /\ \A i \in 1..index[m] : store[m][i].place = i /\ store[m][i].kind = "sound"

\* A client of such a server is sent the next records, all of those counted.
ClientInv ==
  \A n \in Node : pc[n] = "get" /\ peer[n] \notin suspect =>
    /\ Len(accepted[n]) = got[n]
    /\ Answered(n) =>
         /\ Len(reply[n].payload) = reply[n].n
         /\ \A i \in 1..Len(reply[n].payload) :
              /\ reply[n].payload[i].place = got[n] + i
              /\ reply[n].payload[i].kind = "sound"

IInv ==
  /\ TypeInv /\ RecordsInv /\ SourceInv /\ LoopInv /\ ServerInv /\ ClientInv
  /\ StoreProven /\ HonestNotRejected

\* At the start no sync has begun and no server runs.
LEMMA Init0 == Init => IInv
<1> SUFFICES ASSUME Init PROVE IInv
  OBVIOUS
<1> USE DEF Init
<1>1. ASSUME NEW n \in Node
      PROVE  /\ store[n] \in Seq(Fragment)
             /\ \A i \in 1..Len(store[n]) : store[n][i].place = i
             /\ n \notin Source => store[n] = <<>>
  <2>1. CASE store[n] = <<>>
    BY <2>1
  <2>2. CASE store[n] \in SourceStores
    <3>1. PICK bad : store[n] = [i \in 1..Length |-> IF i \in bad THEN [place |-> i, kind |-> "damaged"] ELSE Sound(i)]
      BY <2>2 DEF SourceStores
    <3> DEFINE f == [i \in 1..Length |-> IF i \in bad THEN [place |-> i, kind |-> "damaged"] ELSE Sound(i)]
    <3>2. Length \in Nat
      BY LengthAssumption
    <3>3. \A i \in 1..Length : f[i] \in Fragment /\ f[i].place = i
      BY <3>2 DEF Fragment, Kind, Sound
    <3>4. f \in Seq(Fragment) /\ Len(f) = Length
      BY <3>2, <3>3, IsASeq
    <3>5. n \notin Source => store[n] = <<>>
      OBVIOUS
    <3> HIDE DEF f
    <3> QED BY <3>1, <3>3, <3>4, <3>5 DEF f
  <2> QED BY <2>1, <2>2
<1>2. TypeInv
  BY <1>1, ConcatEmptySeq DEF TypeInv, Ended, Answered, Waiting
<1>3. RecordsInv /\ LoopInv
  BY DEF RecordsInv, LoopInv, Proven, Ended
<1>4. SourceInv
  BY <1>1, NodeAssumption DEF SourceInv
<1>5. ServerInv /\ ClientInv /\ HonestNotRejected
  BY DEF ServerInv, ClientInv, HonestNotRejected
<1>6. StoreProven
  BY <1>1 DEF StoreProven
<1> QED BY <1>2, <1>3, <1>4, <1>5, <1>6 DEF IInv

\* A server that starts counts what is in its file.
LEMMA ServeStep ==
  ASSUME IInv, NEW m \in Node, Serve(m)
  PROVE  IInv'
<1> USE DEF Serve, serverVars, clientVars, auxVars, IInv
<1>1. Len(store[m]) \in Nat /\ DOMAIN store[m] = 1..Len(store[m])
  BY DEF TypeInv
<1>2. TypeInv'
  BY <1>1 DEF TypeInv, Answered
<1>3. RecordsInv' /\ SourceInv' /\ LoopInv' /\ StoreProven'
  BY DEF RecordsInv, SourceInv, LoopInv, StoreProven
<1>4. ServerInv'
  <2> SUFFICES ASSUME NEW k \in Node, index'[k] # None, k \notin suspect'
               PROVE  /\ index'[k] <= Len(store[k])
                      /\ \A i \in 1..index'[k] : store[k][i].place = i /\ store[k][i].kind = "sound"
    BY DEF ServerInv, TypeInv
  <2>1. CASE k = m
    <3>1. index'[m] = Len(store[m]) /\ ~HasHole(store[m])
      BY <2>1 DEF TypeInv
    <3>2. \A i \in 1..Len(store[m]) : store[m][i].kind = "sound" /\ store[m][i].place = i
      BY <1>1, <3>1, NodeAssumption DEF HasHole, SourceInv, StoreProven
    <3> QED BY <1>1, <2>1, <3>1, <3>2
  <2>2. CASE k # m
    BY <2>2 DEF ServerInv, TypeInv
  <2> QED BY <2>1, <2>2
<1>5. ClientInv' /\ HonestNotRejected'
  BY DEF ClientInv, HonestNotRejected, Answered
<1> QED BY <1>2, <1>3, <1>4, <1>5

\* A server that ends resets the connections it has.
LEMMA StopServingStep ==
  ASSUME IInv, NEW m \in Node, StopServing(m)
  PROVE  IInv'
<1> USE DEF StopServing, serverVars, clientVars, auxVars, IInv
<1>1. \A n \in Node : Answered(n)' => Answered(n) /\ reply'[n] = reply[n]
  BY DEF Answered
<1>2. TypeInv'
  BY <1>1 DEF TypeInv
<1>3. RecordsInv' /\ SourceInv' /\ LoopInv' /\ StoreProven' /\ HonestNotRejected'
  BY DEF RecordsInv, SourceInv, LoopInv, StoreProven, HonestNotRejected
<1>4. ServerInv'
  BY DEF ServerInv, TypeInv
<1>5. ClientInv'
  BY <1>1 DEF ClientInv
<1> QED BY <1>2, <1>3, <1>4, <1>5

\* A server takes the next connection.
LEMMA TakeConnectionStep ==
  ASSUME IInv, NEW m \in Node, NEW n \in Node, TakeConnection(m, n)
  PROVE  IInv'
<1> USE DEF TakeConnection, serverVars, clientVars, auxVars, IInv
<1>1. TypeInv'
  BY DEF TypeInv, Answered
<1>2. RecordsInv' /\ SourceInv' /\ LoopInv' /\ StoreProven' /\ HonestNotRejected'
  BY DEF RecordsInv, SourceInv, LoopInv, StoreProven, HonestNotRejected
<1>3. ServerInv'
  BY DEF ServerInv, TypeInv
<1>4. ClientInv'
  BY DEF ClientInv, Answered
<1> QED BY <1>1, <1>2, <1>3, <1>4

\* A server answers with the count of its index.
LEMMA AnswerInfoStep ==
  ASSUME IInv, NEW m \in Node, NEW n \in Node, AnswerInfo(m, n)
  PROVE  IInv'
<1> USE DEF AnswerInfo, serverVars, clientVars, auxVars, IInv
<1>1. index[m] \in Nat
  BY NodeAssumption DEF ServerInv, TypeInv
<1>2. \A k \in Node : k # n => reply'[k] = reply[k]
  BY DEF TypeInv
<1>3. reply'[n] = [count |-> index[m]] /\ pc[n] = "info" /\ DOMAIN reply' = Node
  BY DEF TypeInv
<1>4. TypeInv'
  BY <1>1, <1>2, <1>3 DEF TypeInv, Answered, Waiting
<1>5. RecordsInv' /\ SourceInv' /\ LoopInv' /\ StoreProven' /\ HonestNotRejected' /\ ServerInv'
  BY DEF RecordsInv, SourceInv, LoopInv, StoreProven, HonestNotRejected, ServerInv
<1>6. ClientInv'
  BY <1>2, <1>3 DEF ClientInv, Answered
<1> QED BY <1>4, <1>5, <1>6

\* A server answers with the records its index has there.
LEMMA AnswerGetStep ==
  ASSUME IInv, NEW m \in Node, NEW n \in Node, AnswerGet(m, n)
  PROVE  IInv'
<1> USE DEF serverVars, clientVars, auxVars, IInv
<1>1. /\ serving[m] = n /\ pc[n] = "get" /\ peer[n] = m
      /\ UNCHANGED <<store, serverVars, pc, peer, total, got, accepted, auxVars>>
  BY DEF AnswerGet
<1>2. index[m] \in Nat /\ index[m] # None
  BY <1>1, NodeAssumption DEF ServerInv, TypeInv
<1> DEFINE c == Indexed(m, got[n], Wanted(n))
           r == Read(m, got[n], c)
<1>3. Wanted(n) \in Nat /\ got[n] \in Nat
  BY <1>1, BatchAssumption DEF Wanted, TypeInv, LoopInv
<1>4. c \in Nat /\ (c = 0 \/ got[n] + c <= index[m])
  BY <1>2, <1>3 DEF Indexed
<1>5. reply' = [reply EXCEPT ![n] = [n |-> c, payload |-> r]]
  BY DEF AnswerGet
<1>6. store[m] \in Seq(Fragment) /\ Len(store[m]) \in Nat
  BY DEF TypeInv
<1> HIDE DEF c
<1>7. /\ r \in Seq(Fragment)
      /\ got[n] + c <= Len(store[m]) =>
           Len(r) = c /\ \A i \in 1..c : r[i] = store[m][got[n] + i]
      /\ c = 0 => Len(r) = 0
  <2> DEFINE from == got[n] + 1
             to == IF got[n] + c <= Len(store[m]) THEN got[n] + c ELSE Len(store[m])
  <2>1. r = SubSeq(store[m], from, to)
    BY DEF Read
  <2>2. from \in Int /\ to \in Int /\ from >= 1 /\ to <= Len(store[m])
    BY <1>3, <1>4, <1>6
  <2>3. got[n] + c <= Len(store[m]) => from = got[n] + 1 /\ to = got[n] + c
    OBVIOUS
  <2>4. c = 0 => to < from
    BY <1>3, <1>6
  <2>5. \A i \in from..to : store[m][i] \in Fragment
    <3> HIDE DEF from, to
    <3> QED BY <1>6, <2>2
  <2>6. /\ r \in Seq(Fragment)
        /\ Len(r) = IF from <= to THEN to - from + 1 ELSE 0
        /\ \A i \in 1 .. to - from + 1 : r[i] = store[m][from + i - 1]
    <3> HIDE DEF from, to, r
    <3> QED BY <2>1, <2>2, <2>5, SubSeqProperties
  <2> HIDE DEF from, to, r
  <2>7. ASSUME got[n] + c <= Len(store[m])
        PROVE  Len(r) = c /\ \A i \in 1..c : r[i] = store[m][got[n] + i]
    <3>1. from = got[n] + 1 /\ to = got[n] + c
      BY <2>3, <2>7
    <3>2. Len(r) = c
      BY <1>3, <1>4, <2>6, <3>1
    <3>3. ASSUME NEW i \in 1..c PROVE r[i] = store[m][got[n] + i]
      <4>1. i \in 1 .. to - from + 1 /\ from + i - 1 = got[n] + i
        BY <1>3, <1>4, <3>1
      <4> QED BY <2>6, <4>1
    <3> QED BY <3>2, <3>3
  <2> QED BY <2>2, <2>4, <2>6, <2>7
<1> HIDE DEF r
<1>8. reply'[n].n = c /\ reply'[n].payload = r /\ DOMAIN reply' = Node
  BY <1>5 DEF TypeInv
<1>9. \A k \in Node : k # n => reply'[k] = reply[k]
  BY <1>5 DEF TypeInv
<1>10. TypeInv'
  BY <1>1, <1>4, <1>7, <1>8, <1>9 DEF TypeInv, Answered, Waiting
<1>11. RecordsInv' /\ SourceInv' /\ LoopInv' /\ StoreProven' /\ HonestNotRejected' /\ ServerInv'
  BY <1>1 DEF RecordsInv, SourceInv, LoopInv, StoreProven, HonestNotRejected, ServerInv
<1>12. ClientInv'
  <2> SUFFICES ASSUME NEW k \in Node, pc[k] = "get", peer[k] \notin suspect
               PROVE  /\ Len(accepted[k]) = got[k]
                      /\ Answered(k)' =>
                           /\ Len(reply'[k].payload) = reply'[k].n
                           /\ \A i \in 1..Len(reply'[k].payload) :
                                /\ reply'[k].payload[i].place = got[k] + i
                                /\ reply'[k].payload[i].kind = "sound"
    BY <1>1 DEF ClientInv
  <2>1. Len(accepted[k]) = got[k]
    BY DEF ClientInv
  <2>2. CASE k # n
    BY <1>9, <2>1, <2>2 DEF ClientInv, Answered
  <2>3. CASE k = n
    <3>1. /\ index[m] <= Len(store[m])
          /\ \A i \in 1..index[m] : store[m][i].place = i /\ store[m][i].kind = "sound"
      BY <1>1, <1>2, <2>3 DEF ServerInv
    <3>2. CASE c = 0
      BY <1>7, <1>8, <2>1, <2>3, <3>2
    <3>3. CASE c # 0
      <4>1. got[n] + c <= Len(store[m])
        BY <1>2, <1>3, <1>4, <1>6, <3>1, <3>3
      <4>2. Len(r) = c /\ \A i \in 1..c : r[i] = store[m][got[n] + i]
        BY <1>7, <4>1
      <4>3. ASSUME NEW i \in 1..c
            PROVE  r[i].place = got[n] + i /\ r[i].kind = "sound"
        <5>1. got[n] + i \in 1..index[m]
          BY <1>2, <1>3, <1>4, <3>3
        <5> QED BY <3>1, <4>2, <5>1
      <4> QED BY <1>8, <2>1, <2>3, <4>2, <4>3
    <3> QED BY <3>2, <3>3
  <2> QED BY <2>2, <2>3
<1> QED BY <1>10, <1>11, <1>12

(***************************************************************************)
(* The client's actions.                                                   *)
(***************************************************************************)

\* What feed accepts goes on where it was, and all of the next records is
\* accepted.
LEMMA FedIsProven ==
  ASSUME NEW records \in Seq(Fragment), NEW payload \in Seq(Fragment), Proven(records)
  PROVE  /\ Fed(records, payload) \in Seq(Fragment)
         /\ Proven(Fed(records, payload))
         /\ Len(Fed(records, payload)) >= Len(records)
         /\ (\A i \in 1..Len(payload) :
                payload[i].place = Len(records) + i /\ payload[i].kind = "sound")
              => Len(Fed(records, payload)) = Len(records) + Len(payload)
<1>1. PICK k \in 0..Len(payload) :
        /\ Fed(records, payload) = records \o SubSeq(payload, 1, k)
        /\ Prefix(records, payload, k)
        /\ k < Len(payload) =>
             ~Acceptable(records \o SubSeq(payload, 1, k), payload[k + 1])
  BY FedTakesLongest
<1>2. Len(payload) \in Nat /\ Len(records) \in Nat /\ k \in Nat
  OBVIOUS
<1>3. ASSUME NEW j \in 0..Len(payload)
      PROVE  /\ SubSeq(payload, 1, j) \in Seq(Fragment)
             /\ Len(SubSeq(payload, 1, j)) = j
             /\ \A i \in 1..j : SubSeq(payload, 1, j)[i] = payload[i]
             /\ records \o SubSeq(payload, 1, j) \in Seq(Fragment)
             /\ Len(records \o SubSeq(payload, 1, j)) = Len(records) + j
  <2>1. \A i \in 1..j : payload[i] \in Fragment
    BY <1>2
  <2>2. /\ SubSeq(payload, 1, j) \in Seq(Fragment)
        /\ Len(SubSeq(payload, 1, j)) = IF 1 <= j THEN j - 1 + 1 ELSE 0
        /\ \A i \in 1 .. j - 1 + 1 : SubSeq(payload, 1, j)[i] = payload[1 + i - 1]
    BY <2>1, SubSeqProperties
  <2>3. Len(SubSeq(payload, 1, j)) = j /\ \A i \in 1..j : SubSeq(payload, 1, j)[i] = payload[i]
    BY <2>2
  <2> QED BY <2>2, <2>3, ConcatProperties
<1> DEFINE part == SubSeq(payload, 1, k)
           fed == records \o part
<1>4. /\ fed \in Seq(Fragment) /\ Len(fed) = Len(records) + k
      /\ part \in Seq(Fragment) /\ Len(part) = k /\ \A i \in 1..k : part[i] = payload[i]
  BY <1>3
<1> HIDE DEF part
<1>5. ASSUME NEW j \in 1..Len(fed)
      PROVE  fed[j].place = j /\ fed[j].kind = "sound"
  <2>1. CASE j <= Len(records)
    <3>1. fed[j] = records[j]
      BY <1>4, <2>1, ConcatProperties
    <3> QED BY <2>1, <3>1 DEF Proven
  <2>2. CASE j > Len(records)
    <3> DEFINE i == j - Len(records)
    <3>1. i \in 1..k /\ j = Len(records) + i /\ i - 1 \in 0..Len(payload)
      BY <1>2, <1>4, <2>2
    <3>2. fed[j] = payload[i]
      BY <1>2, <1>4, <2>2, <3>1, ConcatProperties
    <3>3. Acceptable(records \o SubSeq(payload, 1, i - 1), payload[i])
      BY <1>1, <3>1 DEF Prefix
    <3>4. Len(records \o SubSeq(payload, 1, i - 1)) = Len(records) + (i - 1)
      BY <1>3, <3>1
    <3> HIDE DEF i
    <3>5. payload[i].kind = "sound" /\ payload[i].place = Len(records) + (i - 1) + 1
      BY <3>3, <3>4 DEF Acceptable
    <3> QED BY <1>2, <3>1, <3>2, <3>5
  <2> QED BY <1>2, <1>4, <2>1, <2>2
<1>6. ASSUME \A i \in 1..Len(payload) :
               payload[i].place = Len(records) + i /\ payload[i].kind = "sound",
             k # Len(payload)
      PROVE  FALSE
  <2>1. k < Len(payload) /\ k + 1 \in 1..Len(payload)
    BY <1>2, <1>6
  <2>2. payload[k + 1].kind = "sound" /\ payload[k + 1].place = Len(fed) + 1
    BY <1>2, <1>4, <1>6, <2>1
  <2> QED BY <1>1, <2>1, <2>2 DEF Acceptable, part
<1> HIDE DEF fed
<1>7. Fed(records, payload) = fed
  BY <1>1 DEF fed, part
<1>8. Proven(fed)
  BY <1>5 DEF Proven
<1>9. Len(fed) >= Len(records)
  BY <1>2, <1>4
<1>10. (\A i \in 1..Len(payload) : payload[i].place = Len(records) + i /\ payload[i].kind = "sound")
          => Len(fed) = Len(records) + Len(payload)
  BY <1>2, <1>4, <1>6
<1> QED BY <1>4, <1>7, <1>8, <1>9, <1>10

\* A sync that is left by its return or by an exception.
LEMMA EndStep ==
  ASSUME IInv, NEW n \in Node, pc[n] \notin Ended,
         NEW how \in {"ok", "rejected", "error"},
         NEW records \in Seq(Fragment), Proven(records), Len(records) >= Len(accepted[n]),
         End(n, how, records),
         got' \in [Node -> Nat], \A k \in Node : k # n => got'[k] = got[k],
         how = "rejected" => peer[n] \in suspect
  PROVE  IInv'
<1> USE DEF serverVars, clientVars, auxVars, IInv
<1>1. /\ pc' = [pc EXCEPT ![n] = how]
      /\ accepted' = [accepted EXCEPT ![n] = records]
      /\ store' = [store EXCEPT ![n] = records]
      /\ serving' = [m \in Node |-> IF serving[m] = n THEN None ELSE serving[m]]
      /\ reply' = [reply EXCEPT ![n] = None]
      /\ UNCHANGED <<index, peer, total, suspect>>
  BY DEF End
<1>2. n \notin Source
  BY DEF SourceInv, Ended
<1>3. /\ pc'[n] = how /\ accepted'[n] = records /\ store'[n] = records /\ reply'[n] = None
      /\ DOMAIN reply' = Node
      /\ \A k \in Node : k # n =>
           /\ pc'[k] = pc[k] /\ accepted'[k] = accepted[k] /\ store'[k] = store[k]
           /\ reply'[k] = reply[k]
  BY <1>1 DEF TypeInv
<1>4. TypeInv'
  BY <1>1, <1>3 DEF TypeInv, Answered, Ended
<1>5. RecordsInv'
  <2> SUFFICES ASSUME NEW k \in Node
               PROVE  /\ Proven(accepted'[k])
                      /\ k \notin Source /\ pc'[k] \notin Ended =>
                           Proven(store'[k]) /\ Len(store'[k]) <= Len(accepted'[k])
    BY DEF RecordsInv, Proven
  <2> QED BY <1>3 DEF RecordsInv, Ended
<1>6. SourceInv' /\ LoopInv'
  <2>1. SourceInv'
    BY <1>2, <1>3, NodeAssumption DEF SourceInv
  <2>2. LoopInv'
    <3> SUFFICES ASSUME NEW k \in Node
                 PROVE  /\ pc'[k] \in {"connect", "info"} => accepted'[k] = <<>> /\ got'[k] = 0
                        /\ pc'[k] = "get" => got'[k] < total'[k]
      BY DEF LoopInv
    <3>1. CASE k = n
      BY <1>3, <3>1
    <3>2. CASE k # n
      BY <1>1, <1>3, <3>2 DEF LoopInv
    <3> QED BY <3>1, <3>2
  <2> QED BY <2>1, <2>2
<1>9. ClientInv'
  <2> SUFFICES ASSUME NEW k \in Node, pc'[k] = "get", peer[k] \notin suspect
               PROVE  /\ Len(accepted'[k]) = got'[k]
                      /\ Answered(k)' =>
                           /\ Len(reply'[k].payload) = reply'[k].n
                           /\ \A i \in 1..Len(reply'[k].payload) :
                                /\ reply'[k].payload[i].place = got'[k] + i
                                /\ reply'[k].payload[i].kind = "sound"
    BY <1>1 DEF ClientInv
  <2>1. k # n
    BY <1>3
  <2>2. pc[k] = "get" /\ reply'[k] = reply[k] /\ accepted'[k] = accepted[k] /\ got'[k] = got[k]
    BY <1>3, <2>1
  <2> QED BY <2>2 DEF ClientInv, Answered
<1>10. HonestNotRejected'
  <2> SUFFICES ASSUME NEW k \in Node, pc'[k] = "rejected" PROVE peer[k] \in suspect
    BY <1>1 DEF HonestNotRejected
  <2> QED BY <1>3 DEF HonestNotRejected
<1>7. StoreProven'
  <2>1. DOMAIN records = 1..Len(records)
    OBVIOUS
  <2> QED BY <1>3, <2>1 DEF StoreProven, Proven
<1>8. ServerInv'
  <2>1. Len(records) \in Nat /\ Len(store[n]) \in Nat /\ Len(accepted[n]) \in Nat
        /\ Len(store[n]) <= Len(records)
    <3>1. Len(store[n]) <= Len(accepted[n])
      BY <1>2 DEF RecordsInv
    <3> QED BY <3>1 DEF TypeInv
  <2> SUFFICES ASSUME NEW k \in Node
               PROVE  /\ serving'[k] # None => index[k] # None
                      /\ index[k] # None /\ k \notin suspect =>
                           /\ index[k] <= Len(store'[k])
                           /\ \A i \in 1..index[k] : store'[k][i].place = i /\ store'[k][i].kind = "sound"
    BY <1>1 DEF ServerInv
  <2>2. serving'[k] # None => index[k] # None
    BY <1>1 DEF ServerInv
  <2>3. CASE k # n
    BY <1>3, <2>2, <2>3 DEF ServerInv
  <2>4. CASE k = n
    <3>1. ASSUME index[n] # None, n \notin suspect
          PROVE  index[n] \in Nat /\ index[n] <= Len(records)
      BY <2>1, <3>1 DEF ServerInv, TypeInv
    <3> QED BY <1>3, <2>1, <2>2, <2>4, <3>1 DEF Proven
  <2> QED BY <2>3, <2>4
<1> QED BY <1>4, <1>5, <1>6, <1>7, <1>8, <1>9, <1>10

\* A client that gives up keeps what it has verified.
LEMMA ConnectionFailsStep ==
  ASSUME IInv, NEW n \in Node, ConnectionFails(n)
  PROVE  IInv'
<1>1. pc[n] \notin Ended
  BY DEF ConnectionFails, Ended, Waiting
<1>2. /\ accepted[n] \in Seq(Fragment) /\ Proven(accepted[n])
      /\ got \in [Node -> Nat] /\ Len(accepted[n]) >= Len(accepted[n])
  BY DEF IInv, TypeInv, RecordsInv
<1>3. End(n, "error", accepted[n]) /\ got' = got
  BY DEF ConnectionFails
<1> QED BY <1>1, <1>2, <1>3, EndStep

\* A client is connected.
LEMMA ConnectStep ==
  ASSUME IInv, NEW n \in Node, Connect(n)
  PROVE  IInv'
<1> USE DEF Connect, serverVars, clientVars, auxVars, IInv
<1>1. /\ pc[n] = "connect" /\ pc'[n] = "info"
      /\ \A k \in Node : k # n => pc'[k] = pc[k]
      /\ pc' \in [Node -> {"connect"} \cup Waiting \cup Ended]
  BY DEF TypeInv, Waiting
<1>2. ~Answered(n)
  BY <1>1 DEF TypeInv, Waiting
<1>3. TypeInv'
  BY <1>1, <1>2 DEF TypeInv, Answered
<1>4. RecordsInv' /\ SourceInv' /\ LoopInv'
  <2>1. pc[n] \notin Ended /\ n \notin Source
    BY <1>1 DEF Ended, SourceInv
  <2>2. RecordsInv' /\ SourceInv'
    BY <1>1, <2>1, NodeAssumption DEF RecordsInv, SourceInv
  <2>3. LoopInv'
    BY <1>1 DEF LoopInv
  <2> QED BY <2>2, <2>3
<1>5. ServerInv' /\ StoreProven'
  BY DEF ServerInv, StoreProven
<1>6. ClientInv' /\ HonestNotRejected'
  BY <1>1 DEF ClientInv, HonestNotRejected, Answered
<1> QED BY <1>3, <1>4, <1>5, <1>6

\* A client learns what there is, and goes on or returns.
LEMMA ReceiveInfoStep ==
  ASSUME IInv, NEW n \in Node, ReceiveInfo(n)
  PROVE  IInv'
<1> USE DEF serverVars, clientVars, auxVars
<1> DEFINE count == WithinLimit(reply[n].count)
<1>1. pc[n] = "info" /\ Answered(n) /\ pc[n] \notin Ended
  BY DEF ReceiveInfo, Answered, Ended
<1>2. /\ count \in Nat
      /\ accepted[n] = <<>> /\ got[n] = 0 /\ got \in [Node -> Nat]
  BY <1>1, BoundsAssumption DEF IInv, TypeInv, LoopInv, WithinLimit
<1>3. CASE count = 0
  <2>1. End(n, "ok", <<>>) /\ got' = got
    BY <1>3 DEF ReceiveInfo
  <2>2. <<>> \in Seq(Fragment) /\ Proven(<<>>) /\ Len(<<>>) >= Len(accepted[n])
    BY <1>2 DEF Proven
  <2> QED BY <1>1, <1>2, <2>1, <2>2, EndStep
<1>4. CASE count # 0
  <2> HIDE DEF count
  <2>1. /\ pc' = [pc EXCEPT ![n] = "get"]
        /\ total' = [total EXCEPT ![n] = count]
        /\ reply' = [reply EXCEPT ![n] = None]
        /\ UNCHANGED <<store, serverVars, peer, got, accepted, auxVars>>
    BY <1>4 DEF ReceiveInfo, count
  <2> USE DEF IInv
  <2>2. /\ pc'[n] = "get" /\ total'[n] = count /\ reply'[n] = None
        /\ DOMAIN reply' = Node
        /\ \A k \in Node : k # n => pc'[k] = pc[k] /\ total'[k] = total[k] /\ reply'[k] = reply[k]
    BY <2>1 DEF TypeInv
  <2>3. n \notin Source
    BY <1>1 DEF SourceInv
  <2>4. TypeInv'
    BY <1>2, <2>1, <2>2 DEF TypeInv, Answered, Waiting
  <2>5. RecordsInv' /\ SourceInv'
    BY <1>1, <2>1, <2>2, <2>3, NodeAssumption DEF RecordsInv, SourceInv, Ended
  <2>6. LoopInv'
    <3> SUFFICES ASSUME NEW k \in Node
                 PROVE  /\ pc'[k] \in {"connect", "info"} => accepted'[k] = <<>> /\ got'[k] = 0
                        /\ pc'[k] = "get" => got'[k] < total'[k]
      BY DEF LoopInv
    <3>1. CASE k = n
      BY <1>2, <1>4, <2>1, <2>2, <3>1
    <3>2. CASE k # n
      BY <2>1, <2>2, <3>2 DEF LoopInv
    <3> QED BY <3>1, <3>2
  <2>7. ServerInv' /\ StoreProven'
    BY <2>1 DEF ServerInv, StoreProven
  <2>8. ClientInv' /\ HonestNotRejected'
    BY <1>2, <2>1, <2>2 DEF ClientInv, HonestNotRejected, Answered
  <2> QED BY <2>4, <2>5, <2>6, <2>7, <2>8
<1> QED BY <1>3, <1>4

\* A client takes what it is sent.
LEMMA ReceiveRecordsStep ==
  ASSUME IInv, NEW n \in Node, ReceiveRecords(n)
  PROVE  IInv'
<1> USE DEF serverVars, clientVars, auxVars
<1> DEFINE payload == reply[n].payload
           records == Fed(accepted[n], payload)
           all == Len(records) = Len(accepted[n]) + Len(payload)
<1>1. pc[n] = "get" /\ Answered(n) /\ pc[n] \notin Ended
  BY DEF ReceiveRecords, Answered, Ended
<1>2. /\ payload \in Seq(Fragment) /\ reply[n].n \in Nat
      /\ accepted[n] \in Seq(Fragment) /\ Proven(accepted[n])
      /\ got \in [Node -> Nat]
  BY <1>1 DEF IInv, TypeInv, RecordsInv
<1>3. /\ records \in Seq(Fragment) /\ Proven(records) /\ Len(records) >= Len(accepted[n])
      /\ peer[n] \notin suspect => all
  <2>1. /\ records \in Seq(Fragment) /\ Proven(records) /\ Len(records) >= Len(accepted[n])
        /\ (\A i \in 1..Len(payload) :
               payload[i].place = Len(accepted[n]) + i /\ payload[i].kind = "sound") => all
    <3> HIDE DEF payload
    <3> QED BY <1>2, FedIsProven
  <2>2. peer[n] \notin suspect =>
          \A i \in 1..Len(payload) :
             payload[i].place = Len(accepted[n]) + i /\ payload[i].kind = "sound"
    BY <1>1 DEF IInv, ClientInv
  <2> QED BY <2>1, <2>2
<1>4. /\ got' = [got EXCEPT ![n] = IF all THEN @ + reply[n].n ELSE @]
      /\ IF ~all THEN End(n, "rejected", records)
         ELSE IF reply[n].n = 0 \/ Fetched(n, got'[n]) THEN End(n, "ok", records)
         ELSE /\ accepted' = [accepted EXCEPT ![n] = records]
              /\ \E disk \in Prefixes(records) :
                   /\ Len(disk) >= Len(store[n])
                   /\ store' = [store EXCEPT ![n] = disk]
              /\ reply' = [reply EXCEPT ![n] = None]
              /\ UNCHANGED <<serverVars, pc, peer, total, auxVars>>
  BY DEF ReceiveRecords
<1> HIDE DEF payload, records, all
<1>5. got' \in [Node -> Nat] /\ (\A k \in Node : k # n => got'[k] = got[k])
  BY <1>2, <1>4
<1>6. CASE ~all
  BY <1>1, <1>3, <1>4, <1>5, <1>6, EndStep
<1>7. CASE all /\ (reply[n].n = 0 \/ Fetched(n, got'[n]))
  <2>1. End(n, "ok", records)
    BY <1>4, <1>7
  <2> QED BY <1>1, <1>3, <1>5, <2>1, EndStep
<1>8. CASE all /\ ~(reply[n].n = 0 \/ Fetched(n, got'[n]))
  <2>1. /\ accepted' = [accepted EXCEPT ![n] = records]
        /\ reply' = [reply EXCEPT ![n] = None]
        /\ got' = [got EXCEPT ![n] = @ + reply[n].n]
        /\ UNCHANGED <<serverVars, pc, peer, total, auxVars>>
    BY <1>4, <1>8
  <2>2. PICK disk \in Prefixes(records) :
          Len(disk) >= Len(store[n]) /\ store' = [store EXCEPT ![n] = disk]
    BY <1>4, <1>8
  <2>3. disk \in Seq(Fragment) /\ Proven(disk) /\ Len(disk) <= Len(records)
    <3>1. PICK j \in 0..Len(records) : disk = [i \in 1..j |-> records[i]]
      BY <1>3 DEF Prefixes
    <3>2. Len(records) \in Nat /\ \A i \in 1..Len(records) : records[i] \in Fragment
      BY <1>3
    <3>3. disk \in Seq(Fragment) /\ Len(disk) = j
      BY <3>1, <3>2, IsASeq
    <3> QED BY <1>3, <3>1, <3>2, <3>3 DEF Proven
  <2>4. Len(disk) \in Nat /\ Len(store[n]) \in Nat /\ Len(records) \in Nat
    BY <1>3, <2>3 DEF IInv, TypeInv
  <2> USE DEF IInv
  <2>5. n \notin Source
    BY <1>1 DEF SourceInv
  <2>6. /\ accepted'[n] = records /\ store'[n] = disk /\ reply'[n] = None
        /\ got'[n] = got[n] + reply[n].n /\ DOMAIN reply' = Node
        /\ \A k \in Node : k # n => /\ accepted'[k] = accepted[k] /\ store'[k] = store[k]
                                    /\ got'[k] = got[k] /\ reply'[k] = reply[k]
    BY <2>1, <2>2 DEF TypeInv
  <2>7. TypeInv'
    BY <1>3, <1>5, <2>1, <2>2, <2>3, <2>6 DEF TypeInv, Answered
  <2>8. RecordsInv'
    <3> SUFFICES ASSUME NEW k \in Node
                 PROVE  /\ Proven(accepted'[k])
                        /\ k \notin Source /\ pc'[k] \notin Ended =>
                             Proven(store'[k]) /\ Len(store'[k]) <= Len(accepted'[k])
      BY DEF RecordsInv, Proven
    <3> QED BY <1>3, <2>1, <2>3, <2>6 DEF RecordsInv
  <2>9. SourceInv'
    BY <2>1, <2>5, <2>6, NodeAssumption DEF SourceInv
  <2>10. LoopInv'
    <3> SUFFICES ASSUME NEW k \in Node
                 PROVE  /\ pc[k] \in {"connect", "info"} => accepted'[k] = <<>> /\ got'[k] = 0
                        /\ pc[k] = "get" => got'[k] < total[k]
      BY <2>1 DEF LoopInv
    <3>1. CASE k = n
      <4>1. ~(got'[n] >= total[n]) /\ got'[n] \in Nat /\ total[n] \in Nat
        BY <1>5, <1>8 DEF Fetched, TypeInv
      <4> QED BY <1>1, <3>1, <4>1
    <3>2. CASE k # n
      BY <2>6, <3>2 DEF LoopInv
    <3> QED BY <3>1, <3>2
  <2>11. ServerInv'
    <3> SUFFICES ASSUME NEW k \in Node
                 PROVE  /\ serving[k] # None => index[k] # None
                        /\ index[k] # None /\ k \notin suspect =>
                             /\ index[k] <= Len(store'[k])
                             /\ \A i \in 1..index[k] : store'[k][i].place = i /\ store'[k][i].kind = "sound"
      BY <2>1 DEF ServerInv
    <3>1. CASE k # n
      BY <2>6, <3>1 DEF ServerInv
    <3>2. CASE k = n
      <4>1. ASSUME index[n] # None, n \notin suspect
            PROVE  index[n] \in Nat /\ index[n] <= Len(disk)
        BY <2>2, <2>4, <4>1 DEF ServerInv, TypeInv
      <4>2. serving[n] # None => index[n] # None
        BY DEF ServerInv
      <4> QED BY <2>3, <2>4, <2>6, <3>2, <4>1, <4>2 DEF Proven
    <3> QED BY <3>1, <3>2
  <2>12. ClientInv'
    <3> SUFFICES ASSUME NEW k \in Node, pc[k] = "get", peer[k] \notin suspect
                 PROVE  /\ Len(accepted'[k]) = got'[k]
                        /\ Answered(k)' =>
                             /\ Len(reply'[k].payload) = reply'[k].n
                             /\ \A i \in 1..Len(reply'[k].payload) :
                                  /\ reply'[k].payload[i].place = got'[k] + i
                                  /\ reply'[k].payload[i].kind = "sound"
      BY <2>1 DEF ClientInv
    <3>1. CASE k = n
      <4>1. Len(accepted[n]) = got[n] /\ Len(payload) = reply[n].n
        BY <1>1, <3>1 DEF ClientInv, payload
      <4> QED BY <1>8, <2>6, <3>1, <4>1 DEF all, Answered
    <3>2. CASE k # n
      BY <2>6, <3>2 DEF ClientInv, Answered
    <3> QED BY <3>1, <3>2
  <2>13. HonestNotRejected'
    BY <2>1 DEF HonestNotRejected
  <2>14. StoreProven'
    <3>1. DOMAIN disk = 1..Len(disk)
      BY <2>3
    <3> QED BY <2>3, <2>6, <3>1 DEF StoreProven, Proven
  <2> QED BY <2>7, <2>8, <2>9, <2>10, <2>11, <2>12, <2>13, <2>14
<1> QED BY <1>6, <1>7, <1>8

\* A client starts, with an empty file.
LEMMA SyncStep ==
  ASSUME IInv, NEW n \in Node, NEW m \in Node, Sync(n, m)
  PROVE  IInv'
<1> USE DEF serverVars, clientVars, auxVars, IInv
<1>1. /\ pc[n] \in Ended /\ n \notin Source
      /\ store' = [store EXCEPT ![n] = <<>>]
      /\ suspect' = IF index[n] # None THEN suspect \cup {n} ELSE suspect
      /\ pc' = [pc EXCEPT ![n] = "connect"]
      /\ peer' = [peer EXCEPT ![n] = m]
      /\ total' = [total EXCEPT ![n] = 0]
      /\ got' = [got EXCEPT ![n] = 0]
      /\ accepted' = [accepted EXCEPT ![n] = <<>>]
      /\ UNCHANGED <<serverVars, reply>>
  BY DEF Sync
<1>2. /\ pc'[n] = "connect" /\ peer'[n] = m /\ store'[n] = <<>> /\ got'[n] = 0
      /\ accepted'[n] = <<>>
      /\ \A k \in Node : k # n =>
           /\ pc'[k] = pc[k] /\ peer'[k] = peer[k] /\ store'[k] = store[k]
           /\ got'[k] = got[k] /\ accepted'[k] = accepted[k] /\ total'[k] = total[k]
  BY <1>1 DEF TypeInv
<1>3. TypeInv'
  BY <1>1, <1>2 DEF TypeInv, Answered, Waiting, Ended
<1>4. RecordsInv'
  <2> SUFFICES ASSUME NEW k \in Node
               PROVE  /\ Proven(accepted'[k])
                      /\ k \notin Source /\ pc'[k] \notin Ended =>
                           Proven(store'[k]) /\ Len(store'[k]) <= Len(accepted'[k])
    BY DEF RecordsInv, Proven
  <2> QED BY <1>2 DEF RecordsInv, Proven
<1>5. SourceInv'
  BY <1>1, <1>2, NodeAssumption DEF SourceInv
<1>6. LoopInv'
  <2> SUFFICES ASSUME NEW k \in Node
               PROVE  /\ pc'[k] \in {"connect", "info"} => accepted'[k] = <<>> /\ got'[k] = 0
                      /\ pc'[k] = "get" => got'[k] < total'[k]
    BY DEF LoopInv
  <2> QED BY <1>2 DEF LoopInv
<1>7. ServerInv'
  <2> SUFFICES ASSUME NEW k \in Node
               PROVE  /\ serving[k] # None => index[k] # None
                      /\ index[k] # None /\ k \notin suspect' =>
                           /\ index[k] <= Len(store'[k])
                           /\ \A i \in 1..index[k] : store'[k][i].place = i /\ store'[k][i].kind = "sound"
    BY <1>1 DEF ServerInv
  <2> QED BY <1>1, <1>2 DEF ServerInv
<1>8. ClientInv'
  <2> SUFFICES ASSUME NEW k \in Node, pc'[k] = "get", peer'[k] \notin suspect'
               PROVE  /\ Len(accepted'[k]) = got'[k]
                      /\ Answered(k) =>
                           /\ Len(reply[k].payload) = reply[k].n
                           /\ \A i \in 1..Len(reply[k].payload) :
                                /\ reply[k].payload[i].place = got'[k] + i
                                /\ reply[k].payload[i].kind = "sound"
    BY <1>1 DEF ClientInv, Answered
  <2>1. k # n /\ pc[k] = "get" /\ peer[k] \notin suspect
    BY <1>1, <1>2
  <2> QED BY <1>2, <2>1 DEF ClientInv
<1>9. HonestNotRejected' /\ StoreProven'
  BY <1>1, <1>2 DEF HonestNotRejected, StoreProven
<1> QED BY <1>3, <1>4, <1>5, <1>6, <1>7, <1>8, <1>9

\* A client is killed, perhaps in the middle of a record.
LEMMA DieStep ==
  ASSUME IInv, NEW n \in Node, Die(n)
  PROVE  IInv'
<1> USE DEF serverVars, clientVars, auxVars, IInv
<1>1. /\ pc[n] \notin Ended
      /\ pc' = [pc EXCEPT ![n] = "none"]
      /\ accepted' = [accepted EXCEPT ![n] = <<>>]
      /\ reply' = [reply EXCEPT ![n] = None]
      /\ UNCHANGED <<index, peer, total, got, suspect>>
  BY DEF Die
<1>2. PICK left \in {None, Lost} :
        serving' = [m \in Node |-> IF serving[m] = n THEN left ELSE serving[m]]
  BY DEF Die
<1>3. /\ pc'[n] = "none" /\ accepted'[n] = <<>> /\ reply'[n] = None /\ DOMAIN reply' = Node
      /\ \A k \in Node : k # n =>
           pc'[k] = pc[k] /\ accepted'[k] = accepted[k] /\ reply'[k] = reply[k]
  BY <1>1 DEF TypeInv
<1>4. n \notin Source /\ Proven(store[n])
  BY <1>1 DEF SourceInv, RecordsInv, Ended
<1>5. PICK disk \in Seq(Fragment) :
        /\ store' = [store EXCEPT ![n] = disk]
        /\ Len(disk) >= Len(store[n])
        /\ \A i \in 1..Len(store[n]) : disk[i] = store[n][i]
        /\ \A i \in 1..Len(disk) :
             /\ disk[i].place = i
             /\ disk[i].kind = "sound" \/ (i = Len(disk) /\ disk[i].kind \in {"cut", "stub"})
  <2>1. store[n] \in Seq(Fragment) /\ Len(store[n]) \in Nat /\ store = [store EXCEPT ![n] = store[n]]
    BY DEF TypeInv
  <2>2. CASE UNCHANGED store
    BY <1>4, <2>1, <2>2 DEF Proven
  <2>3. CASE ~UNCHANGED store
    <3>1. PICK kind \in {"cut", "stub"} :
            store' = [store EXCEPT ![n] = Append(@, [place |-> Len(@) + 1, kind |-> kind])]
      BY <2>3 DEF Die
    <3> DEFINE piece == [place |-> Len(store[n]) + 1, kind |-> kind]
               disk == Append(store[n], piece)
    <3>2. store' = [store EXCEPT ![n] = disk]
      BY <2>1, <3>1
    <3>3. piece \in Fragment /\ piece.place = Len(store[n]) + 1 /\ piece.kind \in {"cut", "stub"}
      BY <2>1 DEF Fragment, Kind
    <3> HIDE DEF piece
    <3>4. /\ disk \in Seq(Fragment) /\ Len(disk) = Len(store[n]) + 1
          /\ disk[Len(store[n]) + 1] = piece
          /\ \A i \in 1..Len(store[n]) : disk[i] = store[n][i]
      BY <2>1, <3>3, AppendProperties
    <3> HIDE DEF disk
    <3>5. ASSUME NEW i \in 1..Len(disk)
          PROVE  /\ disk[i].place = i
                 /\ disk[i].kind = "sound" \/ (i = Len(disk) /\ disk[i].kind \in {"cut", "stub"})
      <4>1. i \in 1..Len(store[n]) \/ i = Len(store[n]) + 1
        BY <2>1, <3>4
      <4>2. CASE i \in 1..Len(store[n])
        BY <1>4, <3>4, <4>2 DEF Proven
      <4>3. CASE i = Len(store[n]) + 1
        BY <3>3, <3>4, <4>3
      <4> QED BY <4>1, <4>2, <4>3
    <3>6. disk \in Seq(Fragment) /\ Len(disk) >= Len(store[n])
      BY <2>1, <3>4
    <3>7. \A i \in 1..Len(store[n]) : disk[i] = store[n][i]
      BY <3>4
    <3> USE <3>6
    <3> WITNESS disk \in Seq(Fragment)
    <3> QED BY <3>2, <3>5, <3>6, <3>7
  <2> QED BY <2>2, <2>3
<1>6. store'[n] = disk /\ \A k \in Node : k # n => store'[k] = store[k]
  BY <1>5 DEF TypeInv
<1>7. TypeInv'
  BY <1>1, <1>2, <1>3, <1>5 DEF TypeInv, Answered, Ended
<1>8. RecordsInv'
  <2> SUFFICES ASSUME NEW k \in Node
               PROVE  /\ Proven(accepted'[k])
                      /\ k \notin Source /\ pc'[k] \notin Ended =>
                           Proven(store'[k]) /\ Len(store'[k]) <= Len(accepted'[k])
    BY DEF RecordsInv, Proven
  <2> QED BY <1>3, <1>6 DEF RecordsInv, Proven, Ended
<1>9. SourceInv'
  BY <1>3, <1>4, <1>6, NodeAssumption DEF SourceInv
<1>10. LoopInv'
  <2> SUFFICES ASSUME NEW k \in Node
               PROVE  /\ pc'[k] \in {"connect", "info"} => accepted'[k] = <<>> /\ got[k] = 0
                      /\ pc'[k] = "get" => got[k] < total[k]
    BY <1>1 DEF LoopInv
  <2> QED BY <1>3 DEF LoopInv
<1>11. ServerInv'
  <2> SUFFICES ASSUME NEW k \in Node
               PROVE  /\ serving'[k] # None => index[k] # None
                      /\ index[k] # None /\ k \notin suspect =>
                           /\ index[k] <= Len(store'[k])
                           /\ \A i \in 1..index[k] : store'[k][i].place = i /\ store'[k][i].kind = "sound"
    BY <1>1 DEF ServerInv
  <2>1. serving'[k] # None => index[k] # None
    BY <1>2, NodeAssumption DEF ServerInv
  <2>2. CASE k # n
    BY <1>6, <2>1, <2>2 DEF ServerInv
  <2>3. CASE k = n
    <3>1. Len(store[n]) \in Nat /\ Len(disk) \in Nat
      BY DEF TypeInv
    <3>2. ASSUME index[n] # None, n \notin suspect
          PROVE  /\ index[n] <= Len(disk)
                 /\ \A i \in 1..index[n] : disk[i].place = i /\ disk[i].kind = "sound"
      <4>1. /\ index[n] \in Nat /\ index[n] <= Len(store[n])
            /\ \A i \in 1..index[n] : store[n][i].place = i /\ store[n][i].kind = "sound"
        BY <3>2 DEF ServerInv, TypeInv
      <4>2. \A i \in 1..index[n] : i \in 1..Len(store[n])
        BY <3>1, <4>1
      <4>3. \A i \in 1..index[n] : disk[i].place = i /\ disk[i].kind = "sound"
        BY <1>5, <4>1, <4>2
      <4>4. index[n] <= Len(disk)
        BY <1>5, <3>1, <4>1
      <4> QED BY <4>3, <4>4
    <3> QED BY <1>6, <2>1, <2>3, <3>2
  <2> QED BY <2>2, <2>3
<1>12. ClientInv'
  <2> SUFFICES ASSUME NEW k \in Node, pc'[k] = "get", peer[k] \notin suspect
               PROVE  /\ Len(accepted'[k]) = got[k]
                      /\ Answered(k)' =>
                           /\ Len(reply'[k].payload) = reply'[k].n
                           /\ \A i \in 1..Len(reply'[k].payload) :
                                /\ reply'[k].payload[i].place = got[k] + i
                                /\ reply'[k].payload[i].kind = "sound"
    BY <1>1 DEF ClientInv
  <2> QED BY <1>3 DEF ClientInv, Answered
<1>13. HonestNotRejected'
  BY <1>1, <1>3 DEF HonestNotRejected
<1>14. StoreProven'
  <2>1. DOMAIN disk = 1..Len(disk)
    OBVIOUS
  <2> SUFFICES ASSUME NEW k \in Node \ Source, NEW i \in DOMAIN store'[k]
               PROVE  /\ store'[k][i].place = i
                      /\ \/ store'[k][i].kind = "sound"
                         \/ i = Len(store'[k]) /\ store'[k][i].kind \in {"cut", "stub"}
    BY DEF StoreProven
  <2>2. CASE k = n
    <3>1. store'[k] = disk /\ i \in 1..Len(disk)
      BY <1>6, <2>1, <2>2
    <3> QED BY <1>5, <3>1
  <2>3. CASE k # n
    <3>1. store'[k] = store[k]
      BY <1>6, <2>3
    <3> QED BY <3>1 DEF StoreProven
  <2> QED BY <2>2, <2>3
<1> QED BY <1>7, <1>8, <1>9, <1>10, <1>11, <1>12, <1>13, <1>14

\* No step of a node takes the invariant away.
LEMMA NextStep == IInv /\ [Next]_vars => IInv'
<1> SUFFICES ASSUME IInv, [Next]_vars PROVE IInv'
  OBVIOUS
<1>1. CASE UNCHANGED vars
  <2> USE <1>1 DEF vars, serverVars, clientVars, auxVars, IInv
  <2>1. TypeInv'
    BY DEF TypeInv, Answered
  <2>2. RecordsInv' /\ SourceInv' /\ LoopInv'
    BY DEF RecordsInv, SourceInv, LoopInv
  <2>3. ServerInv'
    BY DEF ServerInv
  <2>4. ClientInv'
    BY DEF ClientInv, Answered
  <2>5. StoreProven' /\ HonestNotRejected'
    BY DEF StoreProven, HonestNotRejected
  <2> QED BY <2>1, <2>2, <2>3, <2>4, <2>5
<1>2. CASE \E m \in Node : Serve(m) \/ StopServing(m)
  BY <1>2, ServeStep, StopServingStep
<1>3. CASE \E m, n \in Node : TakeConnection(m, n) \/ AnswerInfo(m, n) \/ AnswerGet(m, n)
  BY <1>3, TakeConnectionStep, AnswerInfoStep, AnswerGetStep
<1>4. CASE \E n, m \in Node : Sync(n, m)
  BY <1>4, SyncStep
<1>5. CASE \E n \in Node :
             Connect(n) \/ ConnectionFails(n) \/ ReceiveInfo(n) \/ ReceiveRecords(n) \/ Die(n)
  BY <1>5, ConnectStep, ConnectionFailsStep, ReceiveInfoStep, ReceiveRecordsStep, DieStep
<1> QED BY <1>1, <1>2, <1>3, <1>4, <1>5 DEF Next

(***************************************************************************)
(* The theorems.                                                           *)
(***************************************************************************)

\* The invariant holds in every state of the nodes.
THEOREM Inductive == Spec => []IInv
<1> QED BY Init0, NextStep, PTL DEF Spec

\* A store that was synced, from any peers and through any number of lost
\* connections, kills and restarts, is the chain from its anchor up, with at
\* most a piece of a record at its end: what Client.accept_record verified
\* and Client.sync wrote.
THEOREM StoresAreProven == Spec => []StoreProven
<1>1. IInv => StoreProven
  BY DEF IInv
<1> QED BY Inductive, <1>1, PTL

\* A client that stops at a bad record had a peer whose store was damaged, or
\* was being written anew, while it was served: no store that was synced is
\* refused by the next node.
THEOREM HonestStoresAreServed == Spec => []HonestNotRejected
<1>1. IInv => HonestNotRejected
  BY DEF IInv
<1> QED BY Inductive, <1>1, PTL

(***************************************************************************)
(* A sync that returns True.                                               *)
(***************************************************************************)

\* While its connection stands, the server of a sync has the same index, and
\* has all the sync wants of it.
FetchOf(n) ==
  /\ pc[n] \in {"connect", "info"} => total[n] = 0
  /\ pc[n] \notin Ended => peer[n] \in Node
  /\ pc[n] = "info" /\ Answered(n) /\ peer[n] \notin suspect =>
       index[peer[n]] # None /\ index[peer[n]] = reply[n].count
  /\ pc[n] = "get" /\ reply[n] # Reset /\ peer[n] \notin suspect =>
       index[peer[n]] # None /\ total[n] <= index[peer[n]]
  /\ pc[n] = "get" /\ Answered(n) /\ peer[n] \notin suspect => reply[n].n = Wanted(n)
  /\ pc[n] = "ok" /\ peer[n] \notin suspect =>
       Len(accepted[n]) = total[n] /\ store[n] = accepted[n]

FetchInv == \A n \in Node : FetchOf(n)

\* A step that leaves a sync and its server's index alone.
LEMMA FetchUntouched ==
  ASSUME NEW k \in Node, FetchOf(k),
         UNCHANGED <<pc[k], total[k], got[k], peer[k], reply[k], accepted[k], store[k], index>>,
         suspect \subseteq suspect'
  PROVE  FetchOf(k)'
BY DEF FetchOf, Answered, Wanted

\* A server that starts or ends.
LEMMA FetchServers ==
  ASSUME IInv, FetchInv, NEW m \in Node, Serve(m) \/ StopServing(m)
  PROVE  FetchInv'
<1> SUFFICES ASSUME NEW k \in Node PROVE FetchOf(k)'
  BY DEF FetchInv
<1>1. FetchOf(k) /\ index \in [Node -> Nat \cup {None}]
  BY DEF FetchInv, IInv, TypeInv
<1>2. CASE Serve(m)
  <2>1. /\ index[m] = None /\ suspect \subseteq suspect'
        /\ UNCHANGED <<store, pc, peer, total, got, accepted, reply>>
        /\ \A j \in Node : j # m => index'[j] = index[j]
    BY <1>1, <1>2 DEF Serve, clientVars
  <2>2. pc[k] \in Waiting /\ index[peer[k]] # None => index'[peer[k]] = index[peer[k]]
    BY <1>1, <2>1 DEF FetchOf, Waiting, Ended
  <2> QED BY <1>1, <2>1, <2>2 DEF FetchOf, Answered, Wanted, Waiting, Ended
<1>3. CASE StopServing(m)
  <2>1. /\ UNCHANGED <<store, pc, peer, total, got, accepted, suspect>>
        /\ reply'[k] = IF pc[k] \in Waiting /\ peer[k] = m THEN Reset ELSE reply[k]
        /\ \A j \in Node : j # m => index'[j] = index[j]
    BY <1>1, <1>3 DEF StopServing
  <2>2. CASE pc[k] \in Waiting /\ peer[k] = m
    BY <1>1, <2>1, <2>2 DEF FetchOf, Answered, Waiting, Ended
  <2>3. CASE ~(pc[k] \in Waiting /\ peer[k] = m)
    <3>1. pc[k] \in Waiting => index'[peer[k]] = index[peer[k]]
      BY <1>1, <2>1, <2>3 DEF FetchOf, Waiting, Ended
    <3> QED BY <1>1, <2>1, <2>3, <3>1 DEF FetchOf, Answered, Wanted, Waiting, Ended
  <2> QED BY <2>2, <2>3
<1> QED BY <1>2, <1>3

\* A server that takes a connection or answers.
LEMMA FetchAnswers ==
  ASSUME IInv, FetchInv, NEW m \in Node, NEW n \in Node,
         TakeConnection(m, n) \/ AnswerInfo(m, n) \/ AnswerGet(m, n)
  PROVE  FetchInv'
<1> USE DEF serverVars, clientVars, auxVars
<1> SUFFICES ASSUME NEW k \in Node PROVE FetchOf(k)'
  BY DEF FetchInv
<1>1. FetchOf(k) /\ FetchOf(n) /\ DOMAIN reply = Node
  BY DEF FetchInv, IInv, TypeInv
<1>2. UNCHANGED <<store, index, pc, peer, total, got, accepted, suspect>>
  BY DEF TakeConnection, AnswerInfo, AnswerGet
<1>3. k # n => reply'[k] = reply[k]
  BY <1>1 DEF TakeConnection, AnswerInfo, AnswerGet
<1>4. CASE k # n \/ TakeConnection(m, n)
  <2>1. reply'[k] = reply[k]
    BY <1>3, <1>4 DEF TakeConnection
  <2> QED BY <1>1, <1>2, <2>1, FetchUntouched
<1>5. CASE k = n /\ AnswerInfo(m, n)
  <2>1. /\ pc[n] = "info" /\ peer[n] = m /\ reply'[n].count = index[m] /\ serving[m] = n
    BY <1>1, <1>5 DEF AnswerInfo
  <2>2. index[m] # None
    BY <2>1, NodeAssumption DEF IInv, ServerInv
  <2> QED BY <1>1, <1>2, <1>5, <2>1, <2>2 DEF FetchOf
<1>6. CASE k = n /\ AnswerGet(m, n)
  <2>1. /\ pc[n] = "get" /\ peer[n] = m /\ reply[n] = None /\ serving[m] = n
        /\ reply'[n].n = Indexed(m, got[n], Wanted(n))
    BY <1>1, <1>6 DEF AnswerGet
  <2>2. index[m] \in Nat /\ total[n] \in Nat /\ got[n] \in Nat /\ got[n] < total[n]
    BY <2>1, NodeAssumption DEF IInv, ServerInv, TypeInv, LoopInv
  <2>3. Wanted(n) \in Nat /\ got[n] + Wanted(n) <= total[n]
    BY <2>2, BatchAssumption DEF Wanted
  <2>4. m \notin suspect => index[m] # None /\ total[n] <= index[m]
    BY <1>1, <2>1, NodeAssumption DEF FetchOf
  <2>5. m \notin suspect => reply'[n].n = Wanted(n)
    BY <2>1, <2>2, <2>3, <2>4 DEF Indexed
  <2>6. Wanted(n)' = Wanted(n)
    BY <1>2 DEF Wanted
  <2> QED BY <1>1, <1>2, <1>6, <2>1, <2>4, <2>5, <2>6 DEF FetchOf
<1> QED BY <1>4, <1>5, <1>6

\* A sync that is left is complete if it returns True.
LEMMA FetchEnd ==
  ASSUME IInv, FetchInv, NEW n \in Node, NEW how \in {"ok", "rejected", "error"}, NEW records,
         End(n, how, records), \A k \in Node : k # n => got'[k] = got[k],
         how = "ok" /\ peer[n] \notin suspect => Len(records) = total[n]
  PROVE  FetchInv'
<1> SUFFICES ASSUME NEW k \in Node PROVE FetchOf(k)'
  BY DEF FetchInv
<1>1. /\ pc' = [pc EXCEPT ![n] = how]
      /\ accepted' = [accepted EXCEPT ![n] = records]
      /\ store' = [store EXCEPT ![n] = records]
      /\ reply' = [reply EXCEPT ![n] = None]
      /\ UNCHANGED <<index, peer, total, suspect>>
  BY DEF End, auxVars
<1>2. CASE k = n
  <2>1. pc'[n] = how /\ accepted'[n] = records /\ store'[n] = records
    BY <1>1 DEF IInv, TypeInv
  <2> QED BY <1>1, <1>2, <2>1 DEF FetchOf, Ended
<1>3. CASE k # n
  <2>1. UNCHANGED <<pc[k], total[k], got[k], peer[k], reply[k], accepted[k], store[k], index>>
    BY <1>1, <1>3 DEF IInv, TypeInv
  <2> QED BY <1>1, <2>1, FetchUntouched DEF FetchInv
<1> QED BY <1>2, <1>3

\* A client that learns what there is wants no more than that.
LEMMA FetchInfo ==
  ASSUME IInv, FetchInv, NEW n \in Node, ReceiveInfo(n)
  PROVE  FetchInv'
<1> DEFINE count == WithinLimit(reply[n].count)
<1>1. pc[n] = "info" /\ Answered(n) /\ FetchOf(n)
  BY DEF ReceiveInfo, Answered, FetchInv
<1>2. /\ reply[n].count \in Nat /\ count \in Nat /\ count <= reply[n].count
      /\ accepted[n] = <<>> /\ got[n] = 0 /\ total[n] = 0
  BY <1>1, BoundsAssumption DEF IInv, TypeInv, LoopInv, WithinLimit, FetchOf
<1>3. CASE count = 0
  <2>1. End(n, "ok", <<>>) /\ got' = got
    BY <1>3 DEF ReceiveInfo
  <2>2. Len(<<>>) = total[n]
    BY <1>2
  <2> QED BY <2>1, <2>2, FetchEnd
<1>4. CASE count # 0
  <2> HIDE DEF count
  <2>1. /\ pc' = [pc EXCEPT ![n] = "get"]
        /\ total' = [total EXCEPT ![n] = count]
        /\ reply' = [reply EXCEPT ![n] = None]
        /\ UNCHANGED <<store, index, peer, got, accepted, suspect>>
    BY <1>4 DEF ReceiveInfo, count, serverVars, auxVars
  <2> SUFFICES ASSUME NEW k \in Node PROVE FetchOf(k)'
    BY DEF FetchInv
  <2>2. CASE k = n
    <3>1. pc'[n] = "get" /\ total'[n] = count /\ reply'[n] = None
      BY <2>1 DEF IInv, TypeInv
    <3>2. peer[n] \notin suspect => index[peer[n]] # None /\ count <= index[peer[n]]
      BY <1>1, <1>2 DEF FetchOf
    <3>3. peer[n] \in Node
      BY <1>1 DEF FetchOf, Ended
    <3> QED BY <2>1, <2>2, <3>1, <3>2, <3>3 DEF FetchOf, Answered
  <2>3. CASE k # n
    <3>1. UNCHANGED <<pc[k], total[k], got[k], peer[k], reply[k], accepted[k], store[k], index>>
      BY <2>1, <2>3 DEF IInv, TypeInv
    <3> QED BY <2>1, <3>1, FetchUntouched DEF FetchInv
  <2> QED BY <2>2, <2>3
<1> QED BY <1>3, <1>4

\* A client that takes what it is sent.
LEMMA FetchRecords ==
  ASSUME IInv, FetchInv, NEW n \in Node, ReceiveRecords(n)
  PROVE  FetchInv'
<1> DEFINE payload == reply[n].payload
           records == Fed(accepted[n], payload)
           all == Len(records) = Len(accepted[n]) + Len(payload)
<1>1. pc[n] = "get" /\ Answered(n) /\ FetchOf(n)
  BY DEF ReceiveRecords, Answered, FetchInv
<1>2. /\ got \in [Node -> Nat] /\ total[n] \in Nat /\ got[n] < total[n] /\ reply[n].n \in Nat
      /\ peer[n] \notin suspect => Len(accepted[n]) = got[n] /\ Len(payload) = reply[n].n
      /\ peer[n] \notin suspect => reply[n].n = Wanted(n)
  BY <1>1 DEF IInv, TypeInv, LoopInv, ClientInv, FetchOf
<1>3. /\ got' = [got EXCEPT ![n] = IF all THEN @ + reply[n].n ELSE @]
      /\ \/ ~all /\ End(n, "rejected", records)
         \/ all /\ (reply[n].n = 0 \/ Fetched(n, got'[n])) /\ End(n, "ok", records)
         \/ /\ all
            /\ accepted' = [accepted EXCEPT ![n] = records]
            /\ \E disk : store' = [store EXCEPT ![n] = disk]
            /\ reply' = [reply EXCEPT ![n] = None]
            /\ UNCHANGED <<index, pc, peer, total, suspect>>
  BY DEF ReceiveRecords, serverVars, auxVars
<1> HIDE DEF payload, records, all
<1>4. \A k \in Node : k # n => got'[k] = got[k]
  BY <1>2, <1>3
<1>5. CASE ~all /\ End(n, "rejected", records)
  BY <1>4, <1>5, FetchEnd
<1>6. CASE all /\ (reply[n].n = 0 \/ Fetched(n, got'[n])) /\ End(n, "ok", records)
  <2>1. peer[n] \notin suspect => Len(records) = total[n]
    <3> SUFFICES ASSUME peer[n] \notin suspect PROVE Len(records) = total[n]
      OBVIOUS
    <3>1. got'[n] = got[n] + reply[n].n /\ Len(records) = got[n] + reply[n].n
      BY <1>2, <1>3, <1>6 DEF all
    <3>2. reply[n].n > 0 /\ got[n] + reply[n].n <= total[n]
      BY <1>2, BatchAssumption DEF Wanted
    <3>3. got'[n] >= total[n]
      BY <1>6, <3>2 DEF Fetched
    <3> QED BY <1>2, <3>1, <3>2, <3>3
  <2> QED BY <1>4, <1>6, <2>1, FetchEnd
<1>7. CASE /\ accepted' = [accepted EXCEPT ![n] = records]
           /\ \E disk : store' = [store EXCEPT ![n] = disk]
           /\ reply' = [reply EXCEPT ![n] = None]
           /\ UNCHANGED <<index, pc, peer, total, suspect>>
  <2>0. PICK disk : store' = [store EXCEPT ![n] = disk]
    BY <1>7
  <2> SUFFICES ASSUME NEW k \in Node PROVE FetchOf(k)'
    BY DEF FetchInv
  <2>1. CASE k = n
    <3>1. reply'[n] = None /\ pc'[n] = "get"
      BY <1>1, <1>7 DEF IInv, TypeInv
    <3>2. reply[n] # Reset
      BY <1>1 DEF Answered
    <3> QED BY <1>1, <1>7, <2>1, <3>1, <3>2 DEF FetchOf, Answered
  <2>2. CASE k # n
    <3>1. UNCHANGED <<pc[k], total[k], got[k], peer[k], reply[k], accepted[k], store[k], index>>
      BY <1>4, <1>7, <2>0, <2>2 DEF IInv, TypeInv
    <3> QED BY <1>7, <3>1, FetchUntouched DEF FetchInv
  <2> QED BY <2>1, <2>2
<1> QED BY <1>3, <1>5, <1>6, <1>7

\* A client that starts, is connected or is killed.
LEMMA FetchOthers ==
  ASSUME IInv, FetchInv, NEW n \in Node, NEW m \in Node,
         Sync(n, m) \/ Connect(n) \/ Die(n)
  PROVE  FetchInv'
<1> USE DEF serverVars, clientVars, auxVars
<1> SUFFICES ASSUME NEW k \in Node PROVE FetchOf(k)'
  BY DEF FetchInv
<1>1. CASE k = n
  <2>1. FetchOf(n) /\ TypeInv
    BY DEF FetchInv, IInv
  <2>2. CASE Sync(n, m)
    <3>1. pc'[n] = "connect" /\ total'[n] = 0 /\ peer'[n] = m
      BY <2>1, <2>2 DEF Sync, TypeInv
    <3> QED BY <1>1, <3>1 DEF FetchOf
  <2>3. CASE Connect(n)
    <3>1. /\ pc[n] = "connect" /\ pc'[n] = "info"
          /\ UNCHANGED <<store, index, peer, total, got, accepted, reply, suspect>>
      BY <2>1, <2>3 DEF Connect, TypeInv
    <3>2. ~Answered(n)'
      BY <2>1, <3>1 DEF TypeInv, Waiting, Answered
    <3>3. peer[n] \in Node
      BY <2>1, <3>1 DEF FetchOf, Ended
    <3> QED BY <1>1, <2>1, <3>1, <3>2, <3>3 DEF FetchOf
  <2>4. CASE Die(n)
    <3>1. pc'[n] = "none"
      BY <2>1, <2>4 DEF Die, TypeInv
    <3> QED BY <1>1, <3>1 DEF FetchOf, Ended
  <2> QED BY <2>2, <2>3, <2>4
<1>2. CASE k # n
  <2>1. /\ UNCHANGED <<pc[k], total[k], got[k], peer[k], reply[k], accepted[k], index>>
        /\ suspect \subseteq suspect'
    BY <1>2 DEF IInv, TypeInv, Sync, Connect, Die
  <2>2. store'[k] = store[k]
    BY <1>2 DEF IInv, TypeInv, Sync, Connect, Die
  <2> QED BY <2>1, <2>2, FetchUntouched DEF FetchInv
<1> QED BY <1>1, <1>2

\* No sync has begun.
LEMMA FetchInit == Init => FetchInv
BY ConcatEmptySeq DEF Init, FetchInv, FetchOf, Ended

\* No step of a node takes it away.
LEMMA FetchStep == IInv /\ FetchInv /\ [Next]_vars => FetchInv'
<1> SUFFICES ASSUME IInv, FetchInv, [Next]_vars PROVE FetchInv'
  OBVIOUS
<1>1. CASE UNCHANGED vars
  BY <1>1, FetchUntouched DEF vars, serverVars, clientVars, auxVars, FetchInv
<1>2. CASE \E m \in Node : Serve(m) \/ StopServing(m)
  BY <1>2, FetchServers
<1>3. CASE \E m, n \in Node : TakeConnection(m, n) \/ AnswerInfo(m, n) \/ AnswerGet(m, n)
  BY <1>3, FetchAnswers
<1>4. CASE \E n, m \in Node : Sync(n, m)
  BY <1>4, FetchOthers
<1>5. CASE \E n \in Node :
             Connect(n) \/ ConnectionFails(n) \/ ReceiveInfo(n) \/ ReceiveRecords(n) \/ Die(n)
  <2>1. PICK n \in Node :
          Connect(n) \/ ConnectionFails(n) \/ ReceiveInfo(n) \/ ReceiveRecords(n) \/ Die(n)
    BY <1>5
  <2>2. CASE ConnectionFails(n)
    BY <2>2, FetchEnd DEF ConnectionFails
  <2> QED BY <2>1, <2>2, FetchOthers, FetchInfo, FetchRecords
<1> QED BY <1>1, <1>2, <1>3, <1>4, <1>5 DEF Next

\* What Client.sync returns True for is there: every record it set out to
\* fetch was verified and is in its file, if the peer's store had no hole and
\* was not written anew while it was served.
THEOREM SyncsAreComplete == Spec => []OkIsComplete
<1>1. Init => IInv /\ FetchInv
  BY Init0, FetchInit
<1>2. (IInv /\ FetchInv) /\ [Next]_vars => (IInv /\ FetchInv)'
  BY NextStep, FetchStep
<1>3. FetchInv => OkIsComplete
  BY DEF FetchInv, FetchOf, OkIsComplete
<1> QED BY <1>1, <1>2, <1>3, PTL DEF Spec
=============================================================================
