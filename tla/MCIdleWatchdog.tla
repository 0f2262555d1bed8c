--------------------------- MODULE MCIdleWatchdog ---------------------------
(***************************************************************************)
(* Small instances of IdleWatchdog for TLC: the configurations a run       *)
(* starts the watchdog with.                                               *)
(***************************************************************************)
EXTENDS IdleWatchdog

EveryConfig == {c \in Config : HasWork(c)}
=============================================================================
