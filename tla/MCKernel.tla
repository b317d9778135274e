------------------------------ MODULE MCKernel ------------------------------
(***************************************************************************)
(* Instances of the composed kernel for TLC.                               *)
(***************************************************************************)
EXTENDS Kernel

CONSTANTS t1, t2, t3

\* Without the cells of the ring that hold no key, and without the results of
\* the last call on the ring, which no later step looks at.
View == <<schedVars, start, end, is_full, Contents, taskVars>>
=============================================================================
