------------------------ MODULE MCWorkspaceLauncher ------------------------
(* Instances of WorkspaceLauncher for TLC.                                 *)
EXTENDS WorkspaceLauncher, TLC

CONSTANTS w1, w2

\* Workspace ids are interchangeable; used in runs without liveness only.
WorkspaceSymmetry == Permutations(Workspaces)
=============================================================================
