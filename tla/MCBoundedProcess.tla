-------------------------- MODULE MCBoundedProcess --------------------------
(* A small instance of BoundedProcess for TLC.                             *)
EXTENDS BoundedProcess

CONSTANTS stdout, stderr
=============================================================================
