---------------------------- MODULE MCScenePack ----------------------------
(* Instances of ScenePack: an empty model, and one whose elements the curve *)
(* visits in another order than the model lists them in.                    *)
EXTENDS ScenePack

MCSpatialOrders == {<<>>, <<2, 4, 1, 3>>}
=============================================================================
