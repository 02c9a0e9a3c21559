--------------------------- MODULE MCFastFrontend ---------------------------
(***************************************************************************)
(* Configurations for checking FastFrontend.                               *)
(***************************************************************************)
EXTENDS FastFrontend

\* What is unpredictable: nothing, or some elements and the coefficients of a block.
Misses == {<<{}, {}>>, <<{0, 4, 5, 11}, {3}>>}

Grid(shapes, size, dim, methods) ==
  {[dims |-> s, block_size |-> size, pred_dim |-> dim, methods |-> m, hard |-> u[1], odd |-> u[2]] :
     s \in shapes, m \in methods, u \in Misses}

\* Every border, in blocks of 2 and 3: layers, rows and columns of blocks with and
\* without elements left over, and one block alone.  Nothing is compared in blocks
\* this small.
Borders ==
  UNION {Grid({<<3, 3, 3>>, <<4, 3, 2>>, <<5, 1, 3>>, <<1, 5, 4>>, <<2, 2, 5>>}, 2, d, SUBSET Enablers)
           : d \in 1 .. 3}
    \cup Grid({<<5, 4, 4>>, <<4, 2, 5>>}, 3, 3, SUBSET Enablers)
    \cup Grid({<<5, 5, 5>>}, 2, 3, {Enablers, {"regression"}})

\* Blocks of 4, where the predictors are compared: two of them in a column, in a row
\* and in two layers, four, and elements left over; and one of the default size.
Compared ==
  Grid({<<4, 4, 8>>, <<4, 8, 4>>, <<8, 4, 4>>, <<4, 5, 4>>}, 4, 3,
       {Enablers, {"lorenzo", "regression"}})
    \cup Grid({<<8, 4, 8>>}, 4, 3, {Enablers}) \cup Grid({<<6, 6, 7>>}, 6, 3, {Enablers})

FastConfigs == Borders \cup Compared
=============================================================================
