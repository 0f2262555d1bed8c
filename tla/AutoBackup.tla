----------------------------- MODULE AutoBackup -----------------------------
(***************************************************************************)
(* The bookkeeping of automatic cloud backups (core/auto_backup.py): which *)
(* `cloud_backup --if-changed` subprocess is running, for how long, and    *)
(* when the next scheduled one is due.  The class keeps no thread of its   *)
(* own: the idle watchdog's loop calls it on every wake.                   *)
(*                                                                         *)
(* An AutoBackup object is the record Backup.  Its timestamps are kept     *)
(* relative to the present: `age` is now - last_started_at while a process *)
(* is running (capped at Timeout, the only value it is compared with) and  *)
(* `until_run` is next_run - now (floored at 0, when the run is due).  The *)
(* fields that only feed the log and the status page (runs, reason, exit   *)
(* status, finish time) are left out.                                      *)
(***************************************************************************)
EXTENDS Integers

CONSTANTS
  Timeout,         \* TIMEOUT_SECONDS, after which a backup is killed
  PollTime,        \* POLL_SECONDS, between looks at a running backup
  BackupInterval   \* interval_seconds, between scheduled backups

ASSUME BackupTimesAssumption ==
  /\ Timeout \in Nat \ {0}
  /\ PollTime \in Nat \ {0}
  /\ BackupInterval \in Nat \ {0}

Backup == [running   : BOOLEAN,
           age       : 0 .. Timeout,
           until_run : 0 .. BackupInterval]

(* The first backup is due at once, at startup. *)
NewBackup == [running |-> FALSE, age |-> 0, until_run |-> 0]

(* start(): nothing if one is running; `spawned` is FALSE when popen raises *)
(* OSError, which leaves no process and is not retried before the interval. *)
Start(b, spawned) ==
  IF b.running THEN b
  ELSE [running |-> spawned, age |-> 0, until_run |-> BackupInterval]

Ended(b) == [running |-> FALSE, age |-> 0, until_run |-> b.until_run]

(* Mutant: a running backup is polled but never killed.                     *)
PollWithoutTimeout(b, exited) ==
  IF b.running /\ exited THEN Ended(b) ELSE b

(* poll(): note that the process has exited, or kill it once it has run for *)
(* Timeout.                                                                 *)
Poll(b, exited) ==
  IF b.running /\ (exited \/ b.age >= Timeout)
  THEN Ended(b)
  ELSE b

(* Whether tick() starts the scheduled (or startup) backup.                 *)
StartsScheduled(b, exited) ==
  LET p == Poll(b, exited) IN ~p.running /\ p.until_run <= 0

(* tick(): poll, then start the next backup when it is due.                 *)
TickBackup(b, exited, spawned) ==
  IF StartsScheduled(b, exited)
  THEN Start(Poll(b, exited), spawned)
  ELSE Poll(b, exited)

(* wake_time() - now: when tick() next has something to do.                 *)
WakeIn(b) == IF b.running THEN PollTime ELSE b.until_run

(* One unit of time passes.                                                 *)
Aged(b) ==
  [running   |-> b.running,
   age       |-> IF b.running /\ b.age < Timeout THEN b.age + 1 ELSE b.age,
   until_run |-> IF b.until_run > 0 THEN b.until_run - 1 ELSE 0]
=============================================================================
