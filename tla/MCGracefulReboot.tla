-------------------------- MODULE MCGracefulReboot --------------------------
(* Three commits: the one the machine starts with and two to upgrade to. *)
EXTENDS GracefulReboot

CONSTANTS unknown, noOs, empty
=============================================================================
