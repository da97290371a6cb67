----------------------------- MODULE Signatures -----------------------------
(***************************************************************************)
(* spend_check.py verifies the spend of a bare multisig output whose       *)
(* script was recovered from a filter entry: the legacy signature hash,    *)
(* ECDSA on the curve y^2 = x^3 + 7, and the matching of signatures with   *)
(* keys.  The field and the group are parameters.                          *)
(***************************************************************************)
EXTENDS Integers, Sequences, FiniteSets, SequencesExt, FiniteSetsExt

CONSTANTS
  P, N,     \* orders of the field, 3 modulo 4, and of the group, both prime
  G,        \* the generator
  None      \* Python's None: the point at infinity, too

-----------------------------------------------------------------------------
(* The field and the curve *)

\* pow(a, n, m).
Pow(a, n, m) ==
  LET pow[i \in Nat] == IF i = 0 THEN 1 % m ELSE (pow[i - 1] * a) % m
  IN  pow[n]

Inv(a, m) == Pow(a, m - 2, m)

PointAdd(a, b) ==
  IF a = None THEN b ELSE IF b = None THEN a
  ELSE IF a[1] = b[1] /\ (a[2] + b[2]) % P = 0 THEN None
  ELSE LET lam == (IF a[1] = b[1] THEN 3 * a[1] * a[1] * Inv(2 * a[2] % P, P)
                   ELSE (b[2] - a[2]) * Inv((b[1] - a[1]) % P, P)) % P
           x == (lam * lam - a[1] - b[1]) % P
       IN  <<x, (lam * (a[1] - x) - a[2]) % P>>

\* point_mul: over the bits of k, from the lowest; pt is doubled at each.
PointMul(k, point) ==
  LET bits == Cardinality({i \in 0 .. 15 : 2 ^ i <= k})
      step(s, i) == [r  |-> IF (k \div 2 ^ (i - 1)) % 2 = 1 THEN PointAdd(s.r, s.pt) ELSE s.r,
                     pt |-> PointAdd(s.pt, s.pt)]
  IN  FoldLeft(step, [r |-> None, pt |-> point], [i \in 1 .. bits |-> i]).r

OnCurve(x, y) == (y * y - x * x * x - 7) % P = 0

\* A public key is its first byte, x, and y if that byte is 4.
Decompress(pub) ==
  IF pub.form = 4 THEN IF OnCurve(pub.x, pub.y) THEN <<pub.x, pub.y>> ELSE None
  ELSE LET y2 == (pub.x * pub.x * pub.x + 7) % P
           y == Pow(y2, (P + 1) \div 4, P)
       IN  IF pub.x >= P \/ (y * y) % P # y2 THEN None
           ELSE <<pub.x, IF y % 2 = pub.form % 2 THEN y ELSE P - y>>

EcdsaVerify(pub, z, r, s) ==
  LET point == Decompress(pub)
      sinv == Pow(s, N - 2, N)
      sum == PointAdd(PointMul(z * sinv % N, G), PointMul(r * sinv % N, point))
  IN  /\ point # None
      /\ r \in 1 .. N - 1 /\ s \in 1 .. N - 1
      /\ sum # None
      /\ sum[1] % N = r

-----------------------------------------------------------------------------
(* Spending a bare multisig output *)

\* legacy_sighash of an input: the transaction with the scripts of its inputs
\* left out but for this one's, which is that of the output it spends.
LegacySighash(tx, index, script, hashtype) ==
  [tx EXCEPT !.ins = [i \in DOMAIN tx.ins |->
                        [tx.ins[i] EXCEPT !.script = IF i = index THEN script ELSE None]],
             !.hashtype = hashtype]

\* A signature says for which key, and over what, it was made.
Verifies(key, message, sig) == sig.by = key /\ sig.over = message

\* Faulty: each signature is looked for among all keys.
MatchAnywhere(tx, index, script) ==
  FoldLeft(LAMBDA m, sig :
      IF \E k \in DOMAIN script.keys :
           Verifies(script.keys[k], LegacySighash(tx, index, script, sig.hashtype), sig)
      THEN [m EXCEPT !.verified = @ + 1] ELSE m,
    [verified |-> 0, next |-> 1], tx.ins[index].script)

\* The loop over the signatures: one of another type than ALL is passed over,
\* and keys that did not match are not tried again.
Match(tx, index, script) ==
  FoldLeft(LAMBDA m, sig :
      LET message == LegacySighash(tx, index, script, sig.hashtype)
          hits == {k \in m.next .. Len(script.keys) : Verifies(script.keys[k], message, sig)}
      IN  IF sig.hashtype # "all" THEN m
          ELSE IF hits = {} THEN [m EXCEPT !.next = Len(script.keys) + 1]
          ELSE [verified |-> m.verified + 1, next |-> Min(hits) + 1],
    [verified |-> 0, next |-> 1], tx.ins[index].script)

\* The number of signatures a script asks for: of OP_1 to OP_16, or none.
VerifyBareMultisig(tx, index, script) ==
  /\ script.keys # <<>> /\ tx.ins[index].script # <<>>
  /\ script.required > 0
  /\ Match(tx, index, script).verified >= script.required

-----------------------------------------------------------------------------
(* What Script does (external): OP_CHECKMULTISIG takes as many signatures   *)
(* as are required, each for a key behind that of the one before.           *)
CheckMultisig(keys, sigs, message) ==
  \E f \in [DOMAIN sigs -> DOMAIN keys] :
    /\ \A i, j \in DOMAIN sigs : i < j => f[i] < f[j]
    /\ \A i \in DOMAIN sigs : Verifies(keys[f[i]], message, sigs[i])

\* A spend counts as verified only if so many signatures over this transaction
\* and the recovered script are there, in the order of the keys; and every
\* spend that Script accepts, with signatures of type ALL, does.
JudgesLikeScript(tx, script) ==
  LET sigs == tx.ins[1].script
      message == LegacySighash(tx, 1, script, "all")
      accepted == VerifyBareMultisig(tx, 1, script)
  IN  /\ accepted => \E chosen \in SUBSET (DOMAIN sigs) :
                       /\ Cardinality(chosen) = script.required
                       /\ CheckMultisig(script.keys, [i \in 1 .. script.required |->
                            sigs[SetToSortSeq(chosen, <)[i]]], message)
      /\ Len(sigs) = script.required /\ sigs # <<>>
           /\ CheckMultisig(script.keys, sigs, message) => accepted

\* Adding is a group on the points of the curve.
IsGroup(a, b, c) ==
  /\ PointAdd(a, b) = PointAdd(b, a)
  /\ PointAdd(a, b) # None => OnCurve(PointAdd(a, b)[1], PointAdd(a, b)[2])
  /\ PointAdd(PointAdd(a, b), c) = PointAdd(a, PointAdd(b, c))

\* The signature <<r, s>> of z is accepted for the key of a secret exactly if
\* the point it commits to, s^-1 (z + r secret) times the generator, has r.
VerifiesExactly(secret, z, r, s) ==
  LET point == PointMul(secret, G)
      pub == [form |-> 2 + (point[2] % 2), x |-> point[1], y |-> point[2]]
      multiple[k \in Nat] == IF k = 0 THEN None ELSE PointAdd(multiple[k - 1], G)
      nonce == multiple[((z + r * secret) * Inv(s, N)) % N]
  IN  EcdsaVerify(pub, z, r, s) <=>
        r \in 1 .. N - 1 /\ s \in 1 .. N - 1 /\ nonce # None /\ nonce[1] % N = r
=============================================================================
