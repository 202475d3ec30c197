------------------------------- MODULE Answers -------------------------------
(***************************************************************************)
(* What a session promises of the answers it gives (src/jb.h): a decide    *)
(* call answers all its rows or none, and answers each row as it would be  *)
(* answered alone, whatever the session was asked before and whichever     *)
(* rows the row is asked with.                                             *)
(*                                                                         *)
(* An answer is the list of reads it averages, each with the tokens it was *)
(* made over.                                                              *)
(***************************************************************************)
EXTENDS Naturals, Sequences

CONSTANTS
  Batches,      \* what a call may ask: sequences of requests
  Reads(_)      \* how many reads answer a request

VARIABLES
  rows,         \* the rows of the call in progress
  output        \* the answers of the last call; none if it failed

vars == <<rows, output>>

Alone(q) == [r \in 1..Reads(q) |-> [read |-> r - 1, over |-> q.prompt]]

Init == rows = <<>> /\ output = <<>>

Ask(batch) ==
  /\ rows = <<>>
  /\ rows' = batch
  /\ output' = <<>>

Answer ==
  /\ rows # <<>>
  /\ output' = [i \in DOMAIN rows |-> Alone(rows[i])]
  /\ rows' = <<>>

Fail ==
  /\ rows # <<>>
  /\ rows' = <<>>
  /\ UNCHANGED output

Next == (\E batch \in Batches : Ask(batch)) \/ Answer \/ Fail

Spec == Init /\ [][Next]_vars

=============================================================================
