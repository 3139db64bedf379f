----------------------------- MODULE MCSandbox -----------------------------
(* One owner's controller and compute, for TLC.                              *)
EXTENDS SandboxBrowser
=============================================================================
