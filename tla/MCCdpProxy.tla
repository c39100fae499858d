----------------------------- MODULE MCCdpProxy -----------------------------
(***************************************************************************)
(* CdpProxy for TLC: ids are strings, which the look-up task may carry.    *)
(***************************************************************************)
EXTENDS CdpProxy

MCWorkspaces == {"w1"}
=============================================================================
