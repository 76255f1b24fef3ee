-------------------------------- MODULE Vec2D --------------------------------
(***************************************************************************)
(* util::vec2d::Vec2D: a grid of rows by cols elements, in one array that  *)
(* holds a row after the other.  Rows, columns and positions are counted   *)
(* from 0, as in the code.                                                 *)
(***************************************************************************)
EXTENDS Naturals

\* start_row
StartRow(row, cols) == row * cols

\* Where index and index_mut find the element col of a row.
At(row, col, cols) == StartRow(row, cols) + col

\* Vec2D::init
Grid(x, rows, cols) == [data |-> [i \in 0..(rows * cols - 1) |-> x], cols |-> cols]

\* Vec2D::fill
Fill(grid, x) == [grid EXCEPT !.data = [i \in DOMAIN @ |-> x]]

Get(grid, row, col) == grid.data[At(row, col, grid.cols)]

Set(grid, row, col, x) == [grid EXCEPT !.data[At(row, col, grid.cols)] = x]

=============================================================================
