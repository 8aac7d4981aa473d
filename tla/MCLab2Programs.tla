------------------------------ MODULE MCLab2Programs ------------------------------
(***************************************************************************)
(* Lab2Programs on a memory of five rows of eight words, with masses one   *)
(* pixel to either side that reach both walls, a picture of 4 x 3 for the  *)
(* drivers, a heap of four words, twelve microseconds to the second, and   *)
(* caches of two lines of two words.                                       *)
(***************************************************************************)
EXTENDS Lab2Programs

MCParams == << "k1", "x1", "v2" >>
MCXs == -1 .. 4
MCYs == -1 .. 3
MCScene ==
  << [x1 |-> 0, y1 |-> 0, x2 |-> 11, y2 |-> 4, color |-> "black"],
     [x1 |-> 2, y1 |-> 0, x2 |-> 10, y2 |-> 4, color |-> "blue"],
     [x1 |-> 2, y1 |-> 1, x2 |-> 3, y2 |-> 3, color |-> "green"],
     [x1 |-> 9, y1 |-> 1, x2 |-> 10, y2 |-> 3, color |-> "green"] >>
MCIncrements == {-4, 0, 2, 4, 6}
MCTimesSet == {Time(0, 0), Time(0, 5), Time(2, 11)}
MCRanges == {[start |-> 1, len |-> 2], [start |-> 0, len |-> 3], [start |-> 1, len |-> 6]}
MCSections == {[from |-> 0, to |-> 0, size |-> 2], [from |-> 0, to |-> 3, size |-> 3]}
=============================================================================
