-------------------------------- MODULE Lists --------------------------------
(***************************************************************************)
(* What several of the tools do to a list.  Written with a recursive       *)
(* function, so that it can be proved about.                               *)
(***************************************************************************)
EXTENDS Integers, Sequences

\* A loop that keeps some members of s: those at the places P, in order.
Only(s, P) ==
  LET only[n \in 0..Len(s)] == IF n = 0 THEN <<>>
                               ELSE IF n \in P THEN Append(only[n - 1], s[n])
                               ELSE only[n - 1]
  IN only[Len(s)]
=============================================================================
