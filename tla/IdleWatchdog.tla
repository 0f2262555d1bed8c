---------------------------- MODULE IdleWatchdog ----------------------------
(***************************************************************************)
(* The idle watchdog process (core/idle_watchdog.py, with auto_backup.py), *)
(* the gunicorn master it watches and may stop, and the connections and    *)
(* requests that keep it from doing so.                                    *)
(*                                                                         *)
(* Time is counted in whole units.  The program's timestamps are kept      *)
(* relative to the present, so that a behaviour may go on for ever over    *)
(* finitely many states: idle_for is now - idle_since, request_age is now  *)
(* less the request file's modification time, until_check is next_check -  *)
(* now, until_wake is what remains of the loop's sleep.  Each is capped at *)
(* the value past which the code cannot tell it apart, so the caps lose    *)
(* nothing; a missing request file counts as one touched long ago.         *)
(*                                                                         *)
(* The loop runs step() on waking.  A check is split where the outside     *)
(* world can act between two of its reads: the connection tables are read, *)
(* then the request file, then the decision is taken and, in a step of its *)
(* own, SIGTERM sent.  Steps take no time of their own: oversleeping, by   *)
(* at most MaxLate, stands for every delay.                                *)
(*                                                                         *)
(* Left out: the uptime log (step() writes it first and ignores its        *)
(* errors), the JSON status file and the log, none of which the loop reads *)
(* back.                                                                   *)
(***************************************************************************)
EXTENDS AutoBackup, FiniteSetsExt

CONSTANTS
  Ports,          \* Config.ports
  IdleTimeout,    \* Config.idle_seconds
  CheckInterval,  \* Config.interval_seconds
  MaxLate,        \* the most the loop oversleeps
  Configs         \* the configurations the watchdog may be started with

Modes == {"off", "monitor", "stop"}

(* Config: auto_backup is auto_backup_interval_seconds is not None, uptime *)
(* is uptime_dir is not None.                                              *)
Config == [mode : Modes, auto_backup : BOOLEAN, uptime : BOOLEAN]

(* Config.has_work: without any, spawn() starts no watchdog.               *)
HasWork(c) == c.mode # "off" \/ c.auto_backup \/ c.uptime

ASSUME WatchdogAssumption ==
  /\ IdleTimeout \in Nat \ {0}
  /\ CheckInterval \in Nat \ {0}
  /\ MaxLate \in Nat
  /\ Configs \subseteq {c \in Config : HasWork(c)}

(* The checks come often enough, even late, to see activity before it is   *)
(* as old as the idle timeout.  The defaults, 30 seconds and 10 minutes,   *)
(* give this while the loop is never 9.5 minutes late; nothing in the code *)
(* demands it of the settings.                                             *)
ChecksOftenEnough == CheckInterval + MaxLate < IdleTimeout

VARIABLES
  config,          \* this process's Config (never changes)
  master,          \* gunicorn's master: "up", "terminating", "gone"
  connections,     \* ports with an established connection
  request_age,     \* time since record_request last touched the file
  pc,              \* where the loop is
  until_wake,      \* time left to sleep (negative: oversleeping)
  until_check,     \* next_check - now
  idle_for,        \* now - idle_since
  counted,         \* this check counted a connection
  pre_stop_backup, \* the backup before stopping has started
  backup,          \* the AutoBackup object
  quiet,           \* history: time since the last activity (see below)
  unbacked         \* history: activity since a backup last began

watchdogVars == <<pc, until_wake, until_check, idle_for, counted, pre_stop_backup>>
history == <<quiet, unbacked>>
vars == <<config, master, connections, request_age, watchdogVars, backup, history>>

Checking == config.mode # "off"

MinOf(x, y) == IF x < y THEN x ELSE y
MaxOf(x, y) == IF x > y THEN x ELSE y

TypeOK ==
  /\ config \in Configs
  /\ master \in {"up", "terminating", "gone"}
  /\ connections \subseteq Ports
  /\ request_age \in 0 .. IdleTimeout
  /\ pc \in {"asleep", "counting", "reading", "killing", "exited"}
  /\ until_wake \in Int
  /\ until_check \in -MaxLate .. CheckInterval
  /\ idle_for \in 0 .. IdleTimeout
  /\ counted \in BOOLEAN
  /\ pre_stop_backup \in BOOLEAN
  /\ backup \in Backup
  /\ quiet \in 0 .. IdleTimeout
  /\ unbacked \in BOOLEAN

-----------------------------------------------------------------------------
(* A new watchdog (_Loop.__init__, Watchdog.__init__): it has been idle    *)
(* since it started, and its first check and first backup are due at once. *)
Init ==
  /\ config \in Configs
  /\ master = "up"
  /\ connections \in SUBSET Ports
  /\ request_age \in 0 .. IdleTimeout   \* /tmp may hold an earlier run's file
  /\ pc = "asleep"
  /\ until_wake = 0
  /\ until_check = 0
  /\ idle_for = 0
  /\ counted = FALSE
  /\ pre_stop_backup = FALSE
  /\ backup = NewBackup
  /\ quiet = 0
  /\ unbacked = TRUE

(* Mutant: the loop sleeps until the backup has work, whatever check is due. *)
WakeTimeOfBackupOnly(next, b) ==
  Min((IF config.uptime THEN {1} ELSE {})
        \cup (IF config.auto_backup THEN {WakeIn(b)} ELSE {next}))

(* wake_time() - now: the next whole second, if uptime is recorded, the    *)
(* next check (due in `next`), or what the backup waits for.               *)
WakeTime(next, b) ==
  Min((IF config.uptime THEN {1} ELSE {})
        \cup (IF Checking THEN {next} ELSE {})
        \cup (IF config.auto_backup THEN {WakeIn(b)} ELSE {}))

(* run() and step(): leave with the master; otherwise let the backup tick  *)
(* and go on to a check if one is due.                                     *)
Wake ==
  /\ pc = "asleep"
  /\ until_wake <= 0
  /\ master # "gone"
  /\ \E exited, spawned \in BOOLEAN :
       IF config.auto_backup
       THEN /\ backup' = TickBackup(backup, exited, spawned)
            /\ unbacked' = (unbacked /\ ~StartsScheduled(backup, exited))
       ELSE UNCHANGED <<backup, unbacked>>
  /\ IF Checking /\ until_check <= 0
     THEN pc' = "counting" /\ UNCHANGED until_wake
     ELSE until_wake' = WakeTime(until_check, backup') /\ UNCHANGED pc
  /\ UNCHANGED <<config, master, connections, request_age, until_check,
                 idle_for, counted, pre_stop_backup, quiet>>

LeaveWithMaster ==
  /\ pc = "asleep"
  /\ until_wake <= 0
  /\ master = "gone"
  /\ pc' = "exited"
  /\ UNCHANGED <<config, master, connections, request_age, until_wake,
                 until_check, idle_for, counted, pre_stop_backup, backup, history>>

(* count_connections(): the established connections at this instant.       *)
CountConnections ==
  /\ pc = "counting"
  /\ counted' = (connections # {})
  /\ quiet' = IF counted' THEN 0 ELSE quiet
  /\ unbacked' = (unbacked \/ counted')
  /\ pc' = "reading"
  /\ UNCHANGED <<config, master, connections, request_age, until_wake,
                 until_check, idle_for, pre_stop_backup, backup>>

(* Watchdog.check(): a counted connection restarts the idle time, and so   *)
(* does a request newer than its start, from when the request ended.       *)
IdleFor == MinOf(request_age, IF counted THEN 0 ELSE idle_for)

(* check()'s result, for the idle time it leaves: no connection, and idle_due(). *)
Due(idle) == ~counted /\ idle >= IdleTimeout

(* Mutant: activity does not call off a backup before stopping.            *)
KeptWithoutReset(due) == pre_stop_backup

(* _ready_to_stop(): the flag as it stands once a check that is not due    *)
(* has reset it.                                                           *)
PreStopBackupKept(due) == pre_stop_backup /\ due

Stopping(due) == due /\ config.mode = "stop"

(* Mutant: every due check starts another backup before stopping.          *)
RestartsPreStopBackup(due) ==
  Stopping(due) /\ config.auto_backup /\ ~backup.running

(* _ready_to_stop() starts the backup before stopping. *)
StartsPreStopBackup(due) ==
  Stopping(due) /\ config.auto_backup /\ ~PreStopBackupKept(due) /\ ~backup.running

(* Mutant: the stop waits for no backup, only for one to have been started. *)
ReadyWithoutWaiting(due, pre_stop, b) ==
  Stopping(due) /\ (config.auto_backup => pre_stop)

(* _ready_to_stop()'s result: due, in stop mode, and with automatic backups *)
(* the backup before stopping has been started and none is running.         *)
ReadyToStop(due, pre_stop, b) ==
  Stopping(due) /\ (config.auto_backup => pre_stop /\ ~b.running)

(* The rest of _check(): read the request file, decide, and either go on   *)
(* to send SIGTERM or sleep until the next check, which keeps to the       *)
(* schedule without falling into the past.                                 *)
DecideCheck ==
  LET due      == Due(IdleFor)
      starts   == StartsPreStopBackup(due)
      pre_stop == PreStopBackupKept(due) \/ starts
  IN  /\ pc = "reading"
      /\ idle_for' = IdleFor
      /\ pre_stop_backup' = pre_stop
      /\ \E spawned \in BOOLEAN :
           backup' = IF starts THEN Start(backup, spawned) ELSE backup
      /\ unbacked' = (unbacked /\ ~starts)
      /\ IF ReadyToStop(due, pre_stop, backup')
         THEN /\ pc' = "killing"
              /\ UNCHANGED <<until_check, until_wake>>
         ELSE /\ pc' = "asleep"
              /\ until_check' = MaxOf(until_check + CheckInterval, 0)
              /\ until_wake' = WakeTime(until_check', backup')
      /\ UNCHANGED <<config, master, connections, request_age, counted, quiet>>

(* os.kill(master, SIGTERM); the watchdog then returns, and exits.  The    *)
(* master may be gone by now, which ends the watchdog just the same.       *)
Kill ==
  /\ pc = "killing"
  /\ master' = IF master = "up" THEN "terminating" ELSE master
  /\ pc' = "exited"
  /\ UNCHANGED <<config, connections, request_age, until_wake, until_check,
                 idle_for, counted, pre_stop_backup, backup, history>>

-----------------------------------------------------------------------------
(* Time passes while the loop sleeps, or oversleeps.                       *)
PassTime ==
  /\ pc = "asleep"
  /\ until_wake > -MaxLate
  /\ until_wake' = until_wake - 1
  /\ until_check' = IF Checking THEN until_check - 1 ELSE until_check
  /\ idle_for' = MinOf(idle_for + 1, IdleTimeout)
  /\ request_age' = MinOf(request_age + 1, IdleTimeout)
  /\ quiet' = MinOf(quiet + 1, IdleTimeout)
  /\ backup' = Aged(backup)
  /\ UNCHANGED <<config, master, connections, pc, counted, pre_stop_backup, unbacked>>

Connect(p) ==
  /\ master = "up"
  /\ connections' = connections \cup {p}
  /\ UNCHANGED <<config, master, request_age, watchdogVars, backup, history>>

Disconnect(p) ==
  /\ connections' = connections \ {p}
  /\ UNCHANGED <<config, master, request_age, watchdogVars, backup, history>>

(* post_request: a worker ends a request and touches the request file      *)
(* (request_file_from_env gives no file when the mode is off).  Its client *)
(* may have hung up long before.                                           *)
RequestEnds ==
  /\ master # "gone"
  /\ Checking
  /\ request_age' = 0
  /\ quiet' = 0
  /\ unbacked' = TRUE
  /\ UNCHANGED <<config, master, connections, watchdogVars, backup>>

(* Gunicorn's master exits: after SIGTERM, or in a deploy or a crash.      *)
MasterExits ==
  /\ master # "gone"
  /\ master' = "gone"
  /\ UNCHANGED <<config, connections, request_age, watchdogVars, backup, history>>

(* Fly Proxy starts the Machine again: a new container, whose gunicorn's   *)
(* when_ready hook spawns a new watchdog.                                  *)
Boot ==
  /\ master = "gone"
  /\ master' = "up"
  /\ connections' = {}
  /\ pc' = "asleep"
  /\ until_wake' = 0
  /\ until_check' = 0
  /\ idle_for' = 0
  /\ counted' = FALSE
  /\ pre_stop_backup' = FALSE
  /\ backup' = NewBackup
  /\ quiet' = 0
  /\ unbacked' = TRUE
  /\ request_age' \in request_age .. IdleTimeout
  /\ UNCHANGED config

-----------------------------------------------------------------------------
Watchdog == Wake \/ LeaveWithMaster \/ CountConnections \/ DecideCheck \/ Kill

Environment ==
  \/ PassTime
  \/ \E p \in Ports : Connect(p) \/ Disconnect(p)
  \/ RequestEnds
  \/ MasterExits
  \/ Boot

Next == Watchdog \/ Environment

Spec == Init /\ [][Next]_vars

(* The loop always goes on (no step of it can block: a backup's exit is    *)
(* polled, not awaited), time always passes, and gunicorn's graceful       *)
(* timeout ends a master that was told to stop.                            *)
Fairness ==
  /\ WF_vars(PassTime)
  /\ WF_vars(Watchdog)
  /\ WF_vars(master = "terminating" /\ MasterExits)

FairSpec == Spec /\ Fairness

-----------------------------------------------------------------------------
(* The watchdog implements the policy: the service is told to stop from    *)
(* the moment the decision is taken.                                       *)
Policy == INSTANCE IdlePolicy WITH
  may_stop     <- config.mode = "stop",
  must_back_up <- config.auto_backup,
  service      <- IF master = "gone" THEN "down"
                  ELSE IF pc \in {"killing", "exited"} THEN "told to stop"
                  ELSE "up",
  backing_up   <- backup.running

(* PROPERTY.  The code keeps the idle policy: nothing is told to stop      *)
(* outside stop mode, within the idle timeout of a request's end or of a   *)
(* connection a check saw, while a backup runs, or before a backup begun   *)
(* since that activity (_check and _ready_to_stop, lines 469 to 509), even *)
(* though requests end between the reads one check makes.                  *)
ImplementsPolicy == Policy!Spec

(* The idle time the next check will find, if it comes at once. *)
EffectiveIdle ==
  IF pc = "reading" /\ counted THEN 0 ELSE MinOf(request_age, idle_for)

(* INVARIANT.  Why the policy is kept.  The loop never sleeps past a check *)
(* (wake_time); it never takes the service to be idle for longer than it   *)
(* has been; and whatever happened since the backup before stopping began  *)
(* is still recent enough, counted from the schedule of checks (line 489), *)
(* for the next check to see it and call the stop off.                     *)
NextCheckNotices ==
  /\ Checking => until_wake <= until_check
  /\ EffectiveIdle <= quiet
  /\ pre_stop_backup => config.mode = "stop"
  /\ pre_stop_backup /\ unbacked => EffectiveIdle + until_check <= CheckInterval

(* PROPERTY.  In stop mode a Machine nobody uses does not stay up: unless  *)
(* requests or connections keep coming, or the master goes for another     *)
(* reason, the watchdog tells it to stop, even if backups hang or fail.    *)
StopsWhenIdle ==
  config.mode = "stop" =>
    []<>(request_age = 0 \/ connections # {} \/ master # "up")

(* PROPERTY.  With automatic backups on, every activity is followed by a   *)
(* backup that begins later, before stopping if not by schedule, unless    *)
(* the master goes first (the next start then backs up).                   *)
ActivityIsBackedUp ==
  config.auto_backup => (unbacked ~> ~unbacked \/ master = "gone")
=============================================================================
