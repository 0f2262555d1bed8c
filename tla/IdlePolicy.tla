----------------------------- MODULE IdlePolicy -----------------------------
(***************************************************************************)
(* What the idle watchdog promises its users, without a word about how:    *)
(* while a service is up there is activity, time passes and backups run,   *)
(* and the service may be told to stop only in `stop` mode, when nothing   *)
(* has happened for the idle timeout, with no backup under way, and (if    *)
(* automatic backups are on) after a backup that began later than the last *)
(* activity.  IdleWatchdog.tla, the code, is shown to implement it.        *)
(***************************************************************************)
EXTENDS Integers

CONSTANT IdleTimeout     \* Config.idle_seconds

VARIABLES
  may_stop,      \* the service is in stop mode
  must_back_up,  \* automatic backups are on
  service,       \* "up", "told to stop" or "down"
  quiet,         \* time since the last activity, capped at IdleTimeout
  unbacked,      \* activity since the last attempt at a backup began
  backing_up     \* a backup is running

vars == <<may_stop, must_back_up, service, quiet, unbacked, backing_up>>

Init ==
  /\ may_stop \in BOOLEAN
  /\ must_back_up \in BOOLEAN
  /\ service = "up"
  /\ quiet = 0
  /\ unbacked = TRUE
  /\ backing_up = FALSE

(* Someone uses the service. *)
Activity ==
  /\ quiet' = 0
  /\ unbacked' = TRUE
  /\ UNCHANGED <<may_stop, must_back_up, service, backing_up>>

TimePasses ==
  /\ quiet' = IF quiet < IdleTimeout THEN quiet + 1 ELSE quiet
  /\ UNCHANGED <<may_stop, must_back_up, service, unbacked, backing_up>>

(* A backup starts (one that cannot be started ends at once), or the one   *)
(* under way ends, or both.                                                *)
StartOrEndBackup ==
  /\ must_back_up
  /\ \/ unbacked' = FALSE /\ backing_up' \in BOOLEAN
     \/ unbacked' = unbacked /\ backing_up' = FALSE

BackUp ==
  /\ StartOrEndBackup
  /\ UNCHANGED <<may_stop, must_back_up, service, quiet>>

TellToStop ==
  /\ service = "up"
  /\ may_stop
  /\ quiet >= IdleTimeout
  /\ StartOrEndBackup \/ UNCHANGED <<unbacked, backing_up>>
  /\ ~backing_up'
  /\ must_back_up => ~unbacked'
  /\ service' = "told to stop"
  /\ UNCHANGED <<may_stop, must_back_up, quiet>>

(* The service ends, as told, or for another reason (a deploy, a crash). *)
GoDown ==
  /\ service # "down"
  /\ service' = "down"
  /\ UNCHANGED <<may_stop, must_back_up, quiet, unbacked, backing_up>>

(* A start counts as activity: nothing is known of what went before. *)
StartUp ==
  /\ service = "down"
  /\ service' = "up"
  /\ quiet' = 0
  /\ unbacked' = TRUE
  /\ backing_up' = FALSE
  /\ UNCHANGED <<may_stop, must_back_up>>

Next == Activity \/ TimePasses \/ BackUp \/ TellToStop \/ GoDown \/ StartUp

Spec == Init /\ [][Next]_vars
=============================================================================
