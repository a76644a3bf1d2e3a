------------------------------ MODULE MCProcess ------------------------------
(* A small machine for Process: enough frames for two whole processes but not  *)
(* for three, so that spawn and sbrk run out at every point they can.          *)
EXTENDS Process

MCImages == {[pages |-> <<<<"image", 0>>>>, ok |-> TRUE],
             [pages |-> <<<<"image", 0>>>>, ok |-> FALSE]}
MCIncrements == {-2, 3}
=============================================================================
