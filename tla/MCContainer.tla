---------------------------- MODULE MCContainer ----------------------------
(* The container with docker-entrypoint.sh's five failures, two restarts   *)
(* and two deploys.                                                        *)
EXTENDS Container
=============================================================================
