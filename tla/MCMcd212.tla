------------------------------ MODULE MCMcd212 ------------------------------
(***************************************************************************)
(* A raster of 4 (NTSC) and 6 (PAL) lines with 1 and 2 lines of vertical   *)
(* blanking.  The memory of the DCA holds a list of plain blocks with one  *)
(* that points to a second picture, and a block that returns to the list.  *)
(***************************************************************************)
EXTENDS Mcd212

Lines == [standard \in BOOLEAN |-> IF standard THEN 4 ELSE 6]
BlankLines == [standard \in BOOLEAN |-> IF standard THEN 1 ELSE 2]

Plain == [vsr |-> None, dcp |-> None]
Memory == [b \in 0 .. 5 |->
    CASE b = 2 -> [Plain EXCEPT !.vsr = 20]
      [] b = 4 -> [Plain EXCEPT !.dcp = 1]
      [] OTHER -> Plain]
=============================================================================
