----------------------------- MODULE MCBlobStore -----------------------------
(* Small instances of BlobStore. *)
EXTENDS BlobStore, TLC

CONSTANTS a, b, m, weights, config

\* A model of one file.
LayersOf   == [x \in Manifests |-> {weights}]
ConfigOf   == [x \in Manifests |-> config]
UpstreamOf == [r \in Refs |-> Manifests]

\* The references differ in nothing but their names.
Symmetry == Permutations(Refs)
=============================================================================
