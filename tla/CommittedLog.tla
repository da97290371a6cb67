---------------------------- MODULE CommittedLog ----------------------------
(***************************************************************************)
(* What the daemon promises of its store, whatever the interleaving of     *)
(* node, calls, failures of calls and restarts: a log that grows by one    *)
(* block at a time, each the child of the one before, beside a published   *)
(* commitment that is always the commitment of the whole log as it stood   *)
(* when it was published, until the log is given to another owner.         *)
(*                                                                         *)
(* A commitment chains over the records of the log in turn, so it stands   *)
(* for the sequence of blocks it was computed over.                        *)
(***************************************************************************)
EXTENDS Naturals, Sequences

CONSTANT Block  \* blocks, with the identity of each and of its parent

VARIABLES
  log,       \* the blocks in the store
  published, \* the commitment in state.json
  owned      \* the whole log was written by its owner

vars == <<log, published, owned>>

Init ==
  /\ log = <<>>
  /\ published = <<>>
  /\ owned = TRUE

\* The store gains a block, which extends the last one.
Extend(b) ==
  /\ log # <<>> => b.prev = log[Len(log)].id
  /\ log' = Append(log, b)
  /\ UNCHANGED <<published, owned>>

\* The commitment of the log as it stands is published.
Publish ==
  /\ owned
  /\ published' = log
  /\ UNCHANGED <<log, owned>>

\* The log changes hands: the new owner knows no commitment for it.
Disown ==
  /\ published' = <<>>
  /\ owned' = FALSE
  /\ UNCHANGED log

Next == (\E b \in Block : Extend(b)) \/ Publish \/ Disown

Spec == Init /\ [][Next]_vars
=============================================================================
