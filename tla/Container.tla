------------------------------ MODULE Container ------------------------------
(***************************************************************************)
(* The container on its Fly Machine: docker-entrypoint.sh prepares the     *)
(* database and Envoy's configuration, then keeps Envoy running in the     *)
(* background and becomes gunicorn.  Fly stops the Machine when the        *)
(* container exits with 0, restarts it, some times, when it exits with     *)
(* another status, and starts it when someone visits (fly.toml).  CI       *)
(* deploys a commit's image and has check_deploy.py poll the health check  *)
(* until it reports that commit.                                           *)
(*                                                                         *)
(* Commits are numbered, each with a migration of its own.  Of the time    *)
(* Envoy runs only whether it is a minute is modelled.                     *)
(***************************************************************************)
EXTENDS Integers

CONSTANTS
  MaxFailures,  \* runs of Envoy counted as failures before it is given up
  MaxRestarts,  \* fly.toml's retries
  MaxPolls,     \* polls until check_deploy's deadline
  MaxCommits    \* bound on deploys

ASSUME ContainerAssumption ==
  /\ MaxFailures \in Nat \ {0} /\ MaxRestarts \in Nat
  /\ MaxPolls \in Nat \ {0} /\ MaxCommits \in Nat \ {0}

VARIABLES
  machine,     \* stopped, started, or being updated by a deploy
  restarts,    \* failed restarts in a row
  deployed,    \* the commit deployed last
  image,       \* the commit whose image the container runs, or last ran
  step,        \* what the container's main process is at
  exited,      \* the status it last exited with
  owner,       \* who owns the data directory
  migrated,    \* the commit whose migrations are applied
  superuser,   \* the admin account
  badConfig,   \* Envoy can't run with the configuration written
  envoy, failures,  \* Envoy, and the count of its failures
  short,       \* its runs of less than a minute since the last longer one
  failedFile,  \* $LIFETRACKER_ENVOY_FAILED_FILE exists
  check, polls \* check_deploy.py

fly == <<machine, restarts, deployed, image>>
stored == <<owner, migrated, superuser>>
proxy == <<badConfig, envoy, failures, short, failedFile>>
ci == <<check, polls>>
containerVars == <<machine, restarts, deployed, image, step, exited, owner, migrated, superuser,
          badConfig, envoy, failures, short, failedFile, check, polls>>

ContainerInit ==
  /\ machine = "stopped" /\ restarts = 0 /\ deployed = 1 /\ image = 1
  /\ step = "none" /\ exited = 0
  /\ owner \in {"root", "lifetracker"} /\ migrated = 0
  /\ superuser \in {"none", "demoted"}
  /\ badConfig = FALSE /\ envoy = "off" /\ failures = 0 /\ short = 0 /\ failedFile = FALSE
  /\ check = "none" /\ polls = 0

------------------------------------------------------------------------------
(* docker-entrypoint.sh, up to Envoy and gunicorn *)
Own ==  \* as root
  /\ step = "own" /\ step' = "migrate"
  /\ owner' = "lifetracker"
  /\ UNCHANGED <<fly, exited, migrated, superuser, proxy, ci>>

\* An image older than the database has nothing to apply.
Migrate ==
  /\ step = "migrate" /\ step' = "superuser"
  /\ migrated' = IF migrated < image THEN image ELSE migrated
  /\ UNCHANGED <<fly, exited, owner, superuser, proxy, ci>>

\* ensure_superuser creates the account, or repairs it.
EnsureSuperuser ==
  /\ step = "superuser" /\ step' = "envoy config"
  /\ superuser' = "ok"
  /\ UNCHANGED <<fly, exited, owner, migrated, proxy, ci>>

\* Mutant of FailedBefore: a file of the last start is left there.
FailedBeforeKept == failedFile
FailedBefore == FALSE  \* rm -f
\* The configuration is written, its settings having been checked; Envoy may
\* find it bad all the same.  Then Envoy starts, and after it gunicorn.
StartServers ==
  /\ step = "envoy config" /\ step' = "gunicorn starting"
  /\ badConfig' \in BOOLEAN
  /\ failedFile' = FailedBefore
  /\ envoy' = "young" /\ failures' = 0 /\ short' = 0
  /\ UNCHANGED <<fly, exited, stored, ci>>

GunicornReady ==
  /\ step = "gunicorn starting" /\ step' = "gunicorn"
  /\ UNCHANGED <<fly, exited, stored, proxy, ci>>

\* The container ends, with a status.  After an update Fly starts the new
\* image whatever the status.
Ends(status) ==
  /\ step' = "none" /\ exited' = status /\ envoy' = "off" /\ badConfig' = FALSE
  /\ failures' = 0 /\ short' = 0
  /\ IF machine = "updating" THEN machine' = "restarting" /\ restarts' = 0
     ELSE IF status = 0 THEN machine' = "stopped" /\ restarts' = 0
     ELSE IF restarts < MaxRestarts THEN machine' = "restarting" /\ restarts' = restarts + 1
     ELSE machine' = "stopped" /\ restarts' = 0
  /\ UNCHANGED <<deployed, image, stored, ci>>

\* set -e: a command fails, as a migration may, or the settings are wrong.
CommandFails ==
  /\ step \in {"own", "migrate", "superuser", "envoy config"} /\ Ends(1)
  /\ UNCHANGED failedFile
OutOfMemory == step # "none" /\ Ends(137) /\ UNCHANGED failedFile

------------------------------------------------------------------------------
(* The loop that runs Envoy *)
EnvoyAges ==  \* Envoy has run for a minute.
  /\ envoy = "young" /\ ~badConfig /\ envoy' = "old"
  /\ UNCHANGED <<fly, step, exited, stored, badConfig, failures, short, failedFile, ci>>

\* Mutant of Counted: every failure is the first.
CountedAfresh == 1
\* A long run's end is a failure too, the first.
Counted == IF envoy = "young" THEN failures + 1 ELSE 1
ShortRuns ==
  IF envoy # "young" THEN 0 ELSE IF short < MaxFailures THEN short + 1 ELSE short

EnvoyExits ==
  /\ envoy \in {"young", "old"}
  /\ Counted < MaxFailures
  /\ envoy' = "pause" /\ failures' = Counted /\ short' = ShortRuns
  /\ UNCHANGED <<fly, step, exited, stored, badConfig, failedFile, ci>>

\* One failure too many: the file, and SIGTERM to the main process, which
\* gunicorn may not have become yet.
EnvoyGivesUp ==
  /\ envoy \in {"young", "old"}
  /\ Counted >= MaxFailures
  /\ envoy' = "given up" /\ failures' = Counted /\ short' = ShortRuns
  /\ failedFile' = TRUE
  /\ step' = IF step \in {"gunicorn", "stopping"} THEN "stopping" ELSE "killed"
  /\ UNCHANGED <<fly, exited, stored, badConfig, ci>>

EnvoyAgain ==
  /\ envoy = "pause" /\ envoy' = "young"
  /\ UNCHANGED <<fly, step, exited, stored, badConfig, failures, short, failedFile, ci>>

------------------------------------------------------------------------------
(* gunicorn's end *)
IdleStop ==  \* SIGTERM from the idle watchdog
  /\ step = "gunicorn" /\ step' = "stopping"
  /\ UNCHANGED <<fly, exited, stored, proxy, ci>>

\* gunicorn_conf's on_exit()
ExitStatus == IF failedFile THEN 1 ELSE 0
GunicornExits ==
  /\ step = "stopping" /\ Ends(ExitStatus)
  /\ UNCHANGED failedFile

Killed ==  \* by a SIGTERM it had no handler for
  /\ step = "killed" /\ Ends(143)
  /\ UNCHANGED failedFile

------------------------------------------------------------------------------
(* Fly, and CI's deploy job *)
\* A container started anew has an empty /tmp; one restarted keeps it.
Starts ==
  /\ machine' = "started" /\ step' = "own" /\ image' = deployed
  /\ failedFile' \in {failedFile, FALSE}
  /\ UNCHANGED <<restarts, deployed, exited, stored, badConfig, envoy, failures, short>>

Restart == machine = "restarting" /\ Starts /\ UNCHANGED ci
Visit == machine = "stopped" /\ Starts /\ UNCHANGED ci

\* flyctl deploy replaces a Machine that runs, and leaves a stopped one so.
Deploy ==
  /\ deployed < MaxCommits /\ deployed' = deployed + 1
  /\ check # "polling" /\ check' = "polling" /\ polls' = 0
  /\ IF machine = "started"
     THEN /\ machine' = "updating"
          /\ step' = CASE step = "gunicorn" -> "stopping"
                       [] step \in {"stopping", "killed"} -> step
                       [] OTHER -> "killed"
     ELSE UNCHANGED <<machine, step>>
  /\ UNCHANGED <<restarts, image, exited, stored, proxy>>

\* Envoy and gunicorn answer; the old ones do until they are stopped.
Serving == envoy \in {"young", "old"} /\ ~badConfig /\ step \in {"gunicorn", "stopping"}
Answer == [status |-> IF migrated >= image THEN "ok" ELSE "error", commit |-> image]
\* Mutant of Healthy: an answer will do.
HealthyAnyhow == Serving /\ Answer.status = "ok"
\* check_once()
Healthy == Serving /\ Answer.status = "ok" /\ Answer.commit = deployed

\* The first request starts a stopped Machine.  A poll may fail anyway.
PollSucceeds ==
  /\ check = "polling" /\ Healthy
  /\ check' = "healthy"
  /\ UNCHANGED <<fly, step, exited, stored, proxy, polls>>
PollAgain ==
  /\ check = "polling" /\ polls < MaxPolls
  /\ polls' = polls + 1 /\ check' = check
  /\ IF machine = "stopped" THEN Starts ELSE UNCHANGED <<fly, step, exited, stored, proxy>>
PollsEnd ==
  /\ check = "polling" /\ polls = MaxPolls
  /\ check' = "unhealthy"
  /\ UNCHANGED <<fly, step, exited, stored, proxy, polls>>

\* Someone takes the admin account's rights away.
Demote ==
  /\ superuser = "ok" /\ step = "gunicorn" /\ superuser' = "demoted"
  /\ UNCHANGED <<fly, step, exited, owner, migrated, proxy, ci>>

Entrypoint == Own \/ Migrate \/ EnsureSuperuser \/ StartServers \/ GunicornReady
EnvoyLoop == EnvoyExits \/ EnvoyGivesUp \/ EnvoyAgain
Ending == GunicornExits \/ Killed
Polling == PollSucceeds \/ PollAgain \/ PollsEnd
ContainerNext ==
  \/ Entrypoint \/ CommandFails \/ OutOfMemory \/ EnvoyAges \/ EnvoyLoop \/ IdleStop \/ Ending
  \/ Restart \/ Visit \/ Deploy \/ Polling \/ Demote
ContainerSpec == ContainerInit /\ [][ContainerNext]_containerVars

\* The container's commands and gunicorn's end take their time and no more,
\* Fly starts what it is to start, CI polls, and Envoy, with a configuration
\* it can't run with, exits.
ContainerFairness ==
  /\ WF_containerVars(Entrypoint) /\ WF_containerVars(Ending) /\ WF_containerVars(Restart)
  /\ WF_containerVars(Polling) /\ WF_containerVars(badConfig /\ EnvoyLoop)
ContainerFairSpec == ContainerSpec /\ ContainerFairness

------------------------------------------------------------------------------
\* gunicorn exits with 1, for which Fly restarts the Machine, only for what
\* has happened in this run of the container: when the idle watchdog stops it
\* it exits with 0, unless Envoy has been given up meanwhile, after runs that
\* were all short, but perhaps the first.
IdleStopStays ==
  [][step = "stopping" /\ exited' = 1 /\ step' = "none"
     => envoy = "given up" /\ short >= MaxFailures - 1]_containerVars

\* What migrate, ensure_superuser and the health check promise of a deploy
\* that is reported healthy, however its restarts, a visitor's and the old
\* container's last answers fall: the commit's image runs, its migrations are
\* applied, and there is an admin account.
DeployCheckHonest ==
  [][check' = "healthy" /\ check # "healthy" =>
       image = deployed /\ migrated >= image /\ superuser # "none" /\ step # "none"]_containerVars

\* A gunicorn nobody can reach, as Envoy doesn't run, is not left there.
NotLeftUnreachable == []<>~(badConfig /\ step = "gunicorn")
=============================================================================
