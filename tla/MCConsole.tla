----------------------------- MODULE MCConsole -----------------------------
(***************************************************************************)
(* MCConsole.cfg: 3 rows of 4 columns in a video memory of 27 cells, so    *)
(* that the screen scrolls, lines wrap and the memory ends inside a row    *)
(* (25 rows of 80 columns in a little over 204 rows).  UChar = 14: a       *)
(* column of -1 lands three rows below (255 columns: three rows and more), *)
(* and a fault with the cursor in rows 2 and 3 is too early.               *)
(*                                                                         *)
(* No step reads the video memory, and the properties look only at the     *)
(* line that whole names, so TLC takes states that differ elsewhere in the *)
(* video memory for one.                                                   *)
(***************************************************************************)
EXTENDS Console

MCHexSizes == {2}

Watched == IF whole = 0 THEN {} ELSE lineAt .. lineAt + Len(line[whole]) - 1

MCView == <<[con EXCEPT !.vram = [pos \in Watched \cap (0 .. Cells - 1) |-> @[pos]]],
            shell, line, uptime, uy, kpc, kreg, kleft, whole, lineAt>>
=============================================================================
