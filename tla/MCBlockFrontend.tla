--------------------------- MODULE MCBlockFrontend ---------------------------
(***************************************************************************)
(* Configurations for checking BlockFrontend.                              *)
(***************************************************************************)
EXTENDS BlockFrontend

Enabled == {<<"lorenzo">>, <<"lorenzo2">>, <<"regression">>, <<"regression2">>,
            <<"lorenzo", "regression">>, <<"lorenzo2", "regression2">>,
            <<"lorenzo", "lorenzo2">>, <<"regression", "regression2">>,
            <<"lorenzo", "regression", "regression2">>}

Shapes == {<<n>> : n \in 1 .. 9} \cup {<<n, m>> : n \in 1 .. 5, m \in 2 .. 7}
            \cup {<<8, 3>>, <<3, 2, 5>>, <<3, 3, 5>>, <<2, 4, 3>>, <<5, 5, 1>>, <<2, 3, 2, 3>>}

\* Every border, with one predictor, two or three, in blocks of 1, 2 and 3; a block is not
\* smaller than the layers of its predictors.
FrontendConfigs ==
  {c \in {[dims |-> d, block_size |-> b, methods |-> m] : d \in Shapes, b \in 1 .. 3, m \in Enabled} :
     IsConfig(c) /\ \A k \in 1 .. Len(c.methods) : Layers(c, c.methods[k]) <= c.block_size}

\* The default predictors of 1 dimension, an element left over.
LineConfigs == {[dims |-> <<5>>, block_size |-> 2, methods |-> <<"lorenzo", "regression">>]}

\* Lorenzo predicts every block best.
PickedConfigs == {[dims |-> <<6, 6>>, block_size |-> 3, methods |-> <<"lorenzo", "regression2">>]}
=============================================================================
