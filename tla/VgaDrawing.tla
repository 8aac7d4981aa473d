------------------------------- MODULE VgaDrawing -------------------------------
(***************************************************************************)
(* The drawing routines of the lab 2 NIOS program (count_binary.c): which  *)
(* pixels each of them draws, and which words of the frame memory it       *)
(* writes for them.  A word holds two neighbouring pixels of a row, and    *)
(* both get the colour.                                                    *)
(***************************************************************************)
EXTENDS Integers, FiniteSetsExt, Functions

CONSTANT RowWords     \* words from one row of the memory to the next  (512)

Abs(n) == IF n < 0 THEN -n ELSE n
Toward(a, b) == IF a < b THEN 1 ELSE -1

\* C's division: toward zero.
Div(a, b) == IF a < 0 THEN -((-a) \div b) ELSE a \div b

\* A pixel left of the screen is in the row above.
Offset(p) == p[2] * RowWords + p[1] \div 2
Offsets(points) == {Offset(p) : p \in points}

VGA_point(x, y) == { << x, y >> }

VGA_box(x1, y1, x2, y2) == (x1 .. x2) \X (y1 .. y2)

\* Bresenham's algorithm, with the rows in the part of the columns: a step moves
\* on one axis or on both, until the other end is reached.
VGA_line(x0, y0, x1, y1) ==
  LET dy == Abs(y1 - y0)
      dx == -Abs(x1 - x0)
      path[k \in 0 .. Max({dy, -dx})] ==
        IF k = 0 THEN [x |-> x0, y |-> y0, err |-> dy + dx]
        ELSE LET p      == path[k - 1]
                 ended  == p.x = x1 /\ p.y = y1
                 down   == ~ended /\ 2 * p.err >= dx
                 across == ~ended /\ 2 * p.err <= dy
             IN [x   |-> IF across THEN p.x + Toward(x0, x1) ELSE p.x,
                 y   |-> IF down THEN p.y + Toward(y0, y1) ELSE p.y,
                 err |-> p.err + (IF down THEN dx ELSE 0) + (IF across THEN dy ELSE 0)]
  IN  {<< p.x, p.y >> : p \in Range(path)}

\* A circle grows from its leftmost and rightmost points, a quarter at a time.
VGA_circle(xm, ym, r) ==
  LET path[k \in 0 .. 2 * r] ==
        IF k = 0 THEN [x |-> -r, y |-> 0, err |-> 2 - 2 * r]
        ELSE LET p  == path[k - 1]
                 x  == IF p.err > p.x THEN p.x + 1 ELSE p.x
                 y  == IF p.err <= p.y THEN p.y + 1 ELSE p.y
             IN IF k > 1 /\ p.x >= 0 THEN p
                ELSE [x |-> x, y |-> y,
                      err |-> p.err + (IF p.err > p.x THEN 2 * x + 1 ELSE 0)
                                    + (IF p.err <= p.y THEN 2 * y + 1 ELSE 0)]
      drawn == {path[k] : k \in {j \in DOMAIN path : j = 0 \/ path[j].x < 0}}
  IN  UNION {{ << xm - p.x, ym + p.y >>, << xm - p.y, ym - p.x >>,
               << xm + p.x, ym - p.y >>, << xm + p.y, ym + p.x >> } : p \in drawn}

\* A spring is three lines: down, up, and back to the middle.
draw_springs(x1, x2, y_mean, height) ==
  LET delta == Div(x2 - x1, 3)
      a == x1 + delta
      b == x1 + 2 * delta
      h == height \div 2
  IN  VGA_line(x1, y_mean, a, y_mean + h)
      \union VGA_line(a, y_mean + h, b, y_mean - h)
      \union VGA_line(b, y_mean - h, x2, y_mean)
=============================================================================
