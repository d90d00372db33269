---------------------------- MODULE MCLayerFetch ----------------------------
(* Small instances of LayerFetch: two models share a layer, and a signature *)
(* check fetches it into a layout of its own.                               *)
EXTENDS LayerFetch

CONSTANTS model1, model2, signed, shared, own, store, temp

MCLayersOf == [p \in Pulls |-> IF p = model1 THEN {shared, own} ELSE {shared}]

MCSize == [l \in Layers |-> IF l = shared THEN 1 ELSE 2]

MCLayoutOf == [p \in Pulls |-> IF p = signed THEN temp ELSE store]
=============================================================================
