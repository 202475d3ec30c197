----------------------------- MODULE MCWorkspace -----------------------------
(* The model's real widths, its layers cut to one period of five local and   *)
(* one full.  A short and a long prompt, alone and together; canvases of 16  *)
(* tokens in one and two groups; automatic reads and three asked for, which  *)
(* the context lets run two at a time; more answers than a pass has room for *)
(* when its layers are small.                                                *)
EXTENDS Workspace

CONSTANT none

(* Accelerated models are quantized. *)
MCModels == {[accel |-> FALSE, nvfp4 |-> FALSE], [accel |-> FALSE, nvfp4 |-> TRUE],
             [accel |-> TRUE, nvfp4 |-> TRUE]}

MCCalls ==
  { [lens |-> <<3>>, common |-> 1, schema |-> 5, width |-> 16, groups |-> 1,
     questions |-> 1, choices |-> 3, reads |-> 2, automatic |-> TRUE, context |-> 32],
    [lens |-> <<5>>, common |-> 2, schema |-> 70, width |-> 16, groups |-> 1,
     questions |-> 9, choices |-> 2, reads |-> 3, automatic |-> FALSE, context |-> 32],
    [lens |-> <<3, 5>>, common |-> 1, schema |-> 5, width |-> 16, groups |-> 2,
     questions |-> 9, choices |-> 2, reads |-> 2, automatic |-> TRUE, context |-> 64] }
=============================================================================
