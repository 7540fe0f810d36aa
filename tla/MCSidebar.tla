----------------------------- MODULE MCSidebar -----------------------------
(***************************************************************************)
(* Instances of Sidebar for TLC.                                           *)
(***************************************************************************)
EXTENDS Sidebar, TLC
=============================================================================
