--------------------------- MODULE MCRunLifecycle ---------------------------
(***************************************************************************)
(* Two endpoints, and runs that follow each other in one directory.        *)
(***************************************************************************)
EXTENDS RunLifecycle

=============================================================================
