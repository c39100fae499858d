-------------------------- MODULE MCWorkspaceStore --------------------------
(* Instances of WorkspaceStore for TLC.                                    *)
EXTENDS WorkspaceStore, TLC

CONSTANTS a, b, kNormal, kFingerprint

\* Identifiers and types are interchangeable.
StoreSymmetry == Permutations(Ids) \cup Permutations(Types)
=============================================================================
