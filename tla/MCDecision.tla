----------------------------- MODULE MCDecision -----------------------------
(* Two schemas.  Of schema A, prompts that leave the system turn at its end  *)
(* and one token earlier, with automatic reads that stop and that go on, and *)
(* a fixed number.  Of schema B, one whose canvases fill the context.  In a  *)
(* context of six tokens two rows of A run together unless their suffixes or *)
(* their K/V are too long; three never fit; four reads take two decodes.     *)
EXTENDS Decision

CONSTANT none

MCTokens == 1..8

SystemA == <<1, 2, 3>>
SystemB == <<1, 5>>

MCRequests ==
  { [schema |-> "A", system |-> SystemA, prompt |-> <<1, 2, 3, 7, 8>>,
     canvas |-> 2, samples |-> 0, decided |-> FALSE],
    [schema |-> "A", system |-> SystemA, prompt |-> <<1, 2, 3, 8>>,
     canvas |-> 2, samples |-> 0, decided |-> TRUE],
    [schema |-> "A", system |-> SystemA, prompt |-> <<1, 2, 4, 8>>,
     canvas |-> 2, samples |-> 2, decided |-> TRUE],
    [schema |-> "B", system |-> SystemB, prompt |-> <<1, 5, 7, 8>>,
     canvas |-> 6, samples |-> 0, decided |-> FALSE] }
=============================================================================
