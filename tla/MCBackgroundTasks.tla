------------------------- MODULE MCBackgroundTasks -------------------------
(***************************************************************************)
(* Small instances of BackgroundTasks: host h1 runs the workers w1 and w2, *)
(* which contend for its process-wide lock, and h2 runs w3, which only the *)
(* row locks keep apart from them.                                         *)
(***************************************************************************)
EXTENDS BackgroundTasks

CONSTANTS h1, h2, w1, w2, w3

MCHostOf == [w \in Worker |-> IF w = w3 THEN h2 ELSE h1]
=============================================================================
