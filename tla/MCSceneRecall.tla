---------------------------- MODULE MCSceneRecall -----------------------------
(* Instances of SceneRecall for TLC.                                       *)
EXTENDS SceneRecall

CONSTANTS plain, small, away

MCSetups == {plain, small, away}
MCUnavailable == {away}
MCGraphs == [generation : 0..MaxGeneration, routes : Setups]
MCInitialGraph == [generation |-> 0, routes |-> Initial]
=============================================================================
