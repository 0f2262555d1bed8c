------------------------- MODULE IdleWatchdogProofs -------------------------
(***************************************************************************)
(* Proofs about IdleWatchdog, for every set of ports, every timeout and    *)
(* every configuration: its invariants, and that it implements IdlePolicy  *)
(* as long as a check interval and the loop's lateness together stay under *)
(* the idle timeout.  Before them, proofs about the container it stops     *)
(* (Container), for any number of failures, restarts, polls and deploys.   *)
(***************************************************************************)
EXTENDS IdleWatchdog, Container, TLAPS

-----------------------------------------------------------------------------
(* The container.                                                          *)

FlyTypes ==
  /\ machine \in {"stopped", "started", "updating", "restarting"} /\ restarts \in 0 .. MaxRestarts
  /\ deployed \in Nat /\ image \in Nat
ProcessTypes ==
  /\ step \in {"none", "own", "migrate", "superuser", "envoy config", "gunicorn starting",
               "gunicorn", "stopping", "killed"}
  /\ exited \in {0, 1, 137, 143}
StoredTypes ==
  /\ owner \in {"root", "lifetracker"} /\ migrated \in Nat
  /\ superuser \in {"none", "demoted", "ok"}
ProxyTypes ==
  /\ badConfig \in BOOLEAN /\ failedFile \in BOOLEAN
  /\ envoy \in {"off", "young", "old", "pause", "given up"}
  /\ failures \in 0 .. MaxFailures /\ short \in 0 .. MaxFailures
CheckTypes ==
  /\ check \in {"none", "polling", "healthy", "unhealthy"} /\ polls \in 0 .. MaxPolls
ContainerTypes == FlyTypes /\ ProcessTypes /\ StoredTypes /\ ProxyTypes /\ CheckTypes

NothingRunsWhileDown == machine \in {"stopped", "restarting"} => step = "none"
ServersBegun == step \in {"gunicorn starting", "gunicorn", "stopping"}
EnvoyWithServers == envoy # "off" => ServersBegun \/ step = "killed"
HasAdmin == ServersBegun \/ step = "envoy config" => superuser # "none"
\* The file is of this run of the container, whatever an earlier one left.
FileOfThisRun == ServersBegun /\ failedFile => envoy = "given up"
\* A count of failures is one of short runs, but perhaps for the first.
ShortRunsCounted ==
  /\ envoy \in {"young", "old", "pause"} => failures < MaxFailures /\ failures <= short + 1
  /\ envoy = "given up" => short >= MaxFailures - 1
ServersInv ==
  NothingRunsWhileDown /\ EnvoyWithServers /\ HasAdmin /\ FileOfThisRun /\ ShortRunsCounted
ContainerInv == ContainerTypes /\ ServersInv

(* A group of variables that a step leaves alone keeps its types.          *)
LEMMA GroupsKept ==
  ASSUME ContainerTypes
  PROVE  /\ UNCHANGED fly => FlyTypes'
         /\ UNCHANGED <<step, exited>> => ProcessTypes'
         /\ UNCHANGED stored => StoredTypes'
         /\ UNCHANGED proxy => ProxyTypes'
         /\ UNCHANGED ci => CheckTypes'
<1>1. UNCHANGED fly => FlyTypes'
  BY DEF ContainerTypes, FlyTypes, fly
<1>2. UNCHANGED <<step, exited>> => ProcessTypes'
  BY DEF ContainerTypes, ProcessTypes
<1>3. UNCHANGED stored => StoredTypes'
  BY DEF ContainerTypes, StoredTypes, stored
<1>4. UNCHANGED proxy => ProxyTypes'
  BY DEF ContainerTypes, ProxyTypes, proxy
<1>5. UNCHANGED ci => CheckTypes'
  BY DEF ContainerTypes, CheckTypes, ci
<1> QED BY <1>1, <1>2, <1>3, <1>4, <1>5

LEMMA EntrypointKeeps == ASSUME ContainerInv, Entrypoint PROVE ContainerInv'
<1>1. ContainerTypes /\ ServersInv
  BY DEF ContainerInv
<1>2. UNCHANGED <<fly, ci, exited>>
  BY DEF Entrypoint, Own, Migrate, EnsureSuperuser, StartServers, GunicornReady
<1>3. FlyTypes' /\ CheckTypes'
  BY <1>1, <1>2, GroupsKept
<1>4. image \in Nat /\ migrated \in Nat
  BY <1>1 DEF ContainerTypes, FlyTypes, StoredTypes
<1>5. CASE Own
  <2>1. step = "own" /\ step' = "migrate" /\ owner' = "lifetracker" /\ UNCHANGED <<migrated, superuser, proxy>>
    BY <1>5 DEF Own
  <2>2. ProcessTypes' /\ StoredTypes' /\ ProxyTypes'
    BY <1>1, <1>2, <2>1, GroupsKept DEF ContainerTypes, ProcessTypes, StoredTypes
  <2>3. ServersInv'
    BY <1>1, <1>2, <2>1 DEF fly, proxy, ServersInv, NothingRunsWhileDown, ServersBegun,
       EnvoyWithServers, HasAdmin, FileOfThisRun, ShortRunsCounted
  <2> QED BY <1>3, <2>2, <2>3 DEF ContainerInv, ContainerTypes
<1>6. CASE Migrate
  <2>1. /\ step = "migrate" /\ step' = "superuser" /\ migrated' \in {image, migrated}
        /\ UNCHANGED <<owner, superuser, proxy>>
    BY <1>6 DEF Migrate
  <2>2. ProcessTypes' /\ StoredTypes' /\ ProxyTypes'
    BY <1>1, <1>2, <1>4, <2>1, GroupsKept DEF ContainerTypes, ProcessTypes, StoredTypes
  <2>3. ServersInv'
    BY <1>1, <1>2, <2>1 DEF fly, proxy, ServersInv, NothingRunsWhileDown, ServersBegun,
       EnvoyWithServers, HasAdmin, FileOfThisRun, ShortRunsCounted
  <2> QED BY <1>3, <2>2, <2>3 DEF ContainerInv, ContainerTypes
<1>7. CASE EnsureSuperuser
  <2>1. /\ step = "superuser" /\ step' = "envoy config" /\ superuser' = "ok"
        /\ UNCHANGED <<owner, migrated, proxy>>
    BY <1>7 DEF EnsureSuperuser
  <2>2. ProcessTypes' /\ StoredTypes' /\ ProxyTypes'
    BY <1>1, <1>2, <2>1, GroupsKept DEF ContainerTypes, ProcessTypes, StoredTypes
  <2>3. ServersInv'
    BY <1>1, <1>2, <2>1 DEF fly, proxy, ServersInv, NothingRunsWhileDown, ServersBegun,
       EnvoyWithServers, HasAdmin, FileOfThisRun, ShortRunsCounted
  <2> QED BY <1>3, <2>2, <2>3 DEF ContainerInv, ContainerTypes
<1>8. CASE StartServers
  <2>1. /\ step = "envoy config" /\ step' = "gunicorn starting" /\ badConfig' \in BOOLEAN
        /\ failedFile' = FALSE /\ envoy' = "young" /\ failures' = 0 /\ short' = 0
        /\ UNCHANGED stored
    BY <1>8 DEF StartServers, FailedBefore
  <2>2. 0 \in 0 .. MaxFailures /\ 0 < MaxFailures /\ 0 <= 0 + 1
    BY ContainerAssumption
  <2>3. ProcessTypes' /\ StoredTypes' /\ ProxyTypes'
    BY <1>1, <1>2, <2>1, <2>2, GroupsKept DEF ContainerTypes, ProcessTypes, ProxyTypes
  <2>4. ServersInv'
    BY <1>1, <1>2, <2>1, <2>2 DEF fly, stored, ServersInv, NothingRunsWhileDown, ServersBegun,
       EnvoyWithServers, HasAdmin, FileOfThisRun, ShortRunsCounted
  <2> QED BY <1>3, <2>3, <2>4 DEF ContainerInv, ContainerTypes
<1>9. CASE GunicornReady
  <2>1. step = "gunicorn starting" /\ step' = "gunicorn" /\ UNCHANGED <<stored, proxy>>
    BY <1>9 DEF GunicornReady
  <2>2. ProcessTypes' /\ StoredTypes' /\ ProxyTypes'
    BY <1>1, <1>2, <2>1, GroupsKept DEF ContainerTypes, ProcessTypes
  <2>3. ServersInv'
    BY <1>1, <1>2, <2>1 DEF fly, stored, proxy, ServersInv, NothingRunsWhileDown, ServersBegun,
       EnvoyWithServers, HasAdmin, FileOfThisRun, ShortRunsCounted
  <2> QED BY <1>3, <2>2, <2>3 DEF ContainerInv, ContainerTypes
<1> QED BY <1>5, <1>6, <1>7, <1>8, <1>9 DEF Entrypoint

LEMMA EndsKeeps ==
  ASSUME ContainerInv, NEW status \in {0, 1, 137, 143}, Ends(status), failedFile' = failedFile
  PROVE  ContainerInv'
<1>1. ContainerTypes
  BY DEF ContainerInv
<1>2. /\ step' = "none" /\ exited' = status /\ envoy' = "off" /\ badConfig' = FALSE
      /\ failures' = 0 /\ short' = 0 /\ UNCHANGED <<deployed, image, stored, ci>>
  BY DEF Ends
<1>3. /\ machine' \in {"stopped", "restarting"}
      /\ restarts' = 0 \/ (restarts < MaxRestarts /\ restarts' = restarts + 1)
  BY DEF Ends
<1>4. 0 \in 0 .. MaxFailures /\ MaxRestarts \in Nat
  BY ContainerAssumption
<1>5. restarts' \in 0 .. MaxRestarts
  BY <1>1, <1>3, <1>4 DEF ContainerTypes, FlyTypes
<1>6. FlyTypes' /\ ProcessTypes'
  BY <1>1, <1>2, <1>3, <1>5 DEF ContainerTypes, FlyTypes, ProcessTypes
<1>7. StoredTypes' /\ ProxyTypes' /\ CheckTypes'
  BY <1>1, <1>2, <1>4, GroupsKept DEF ContainerTypes, ProxyTypes
<1>8. ServersInv'
  BY <1>2 DEF ServersInv, NothingRunsWhileDown, ServersBegun, EnvoyWithServers, HasAdmin,
     FileOfThisRun, ShortRunsCounted
<1> QED BY <1>6, <1>7, <1>8 DEF ContainerInv, ContainerTypes

LEMMA EnvoyLoopKeeps == ASSUME ContainerInv, EnvoyAges \/ EnvoyLoop PROVE ContainerInv'
<1>1. ContainerTypes /\ ServersInv
  BY DEF ContainerInv
<1>2. UNCHANGED <<fly, exited, stored, ci, badConfig>>
  BY DEF EnvoyAges, EnvoyLoop, EnvoyExits, EnvoyGivesUp, EnvoyAgain
<1>3. FlyTypes' /\ StoredTypes' /\ CheckTypes'
  BY <1>1, <1>2, GroupsKept
<1>4. CASE EnvoyAges \/ EnvoyAgain
  <2>1. /\ envoy \in {"young", "pause"} /\ envoy' \in {"young", "old"}
        /\ UNCHANGED <<step, failures, short, failedFile>>
    BY <1>4 DEF EnvoyAges, EnvoyAgain
  <2>2. ProcessTypes' /\ ProxyTypes'
    BY <1>1, <1>2, <2>1, GroupsKept DEF ContainerTypes, ProxyTypes
  <2>3. ServersInv'
    BY <1>1, <1>2, <2>1 DEF fly, stored, ServersInv, NothingRunsWhileDown, ServersBegun,
       EnvoyWithServers, HasAdmin, FileOfThisRun, ShortRunsCounted
  <2> QED BY <1>3, <2>2, <2>3 DEF ContainerInv, ContainerTypes
<1>5. failures \in Nat /\ short \in Nat /\ short <= MaxFailures /\ MaxFailures \in Nat \ {0}
  <2>1. MaxFailures \in Nat \ {0}
    BY ContainerAssumption
  <2>2. failures \in 0 .. MaxFailures /\ short \in 0 .. MaxFailures
    BY <1>1 DEF ContainerTypes, ProxyTypes
  <2> QED BY <2>1, <2>2
<1>6. ASSUME envoy \in {"young", "old"}
      PROVE  /\ Counted \in 0 .. MaxFailures /\ ShortRuns \in 0 .. MaxFailures
             /\ Counted <= ShortRuns + 1 \/ ShortRuns = MaxFailures
  <2>1. failures < MaxFailures /\ failures <= short + 1
    BY <1>1, <1>6 DEF ServersInv, ShortRunsCounted
  <2>2. CASE envoy = "young" /\ short < MaxFailures
    BY <1>5, <2>1, <2>2 DEF Counted, ShortRuns
  <2>3. CASE envoy = "young" /\ ~(short < MaxFailures)
    BY <1>5, <2>1, <2>3 DEF Counted, ShortRuns
  <2>4. CASE envoy = "old"
    BY <1>5, <2>4 DEF Counted, ShortRuns
  <2> QED BY <1>6, <2>2, <2>3, <2>4
<1>7. CASE EnvoyExits
  <2>1. /\ envoy \in {"young", "old"} /\ Counted < MaxFailures
        /\ envoy' = "pause" /\ failures' = Counted /\ short' = ShortRuns
        /\ UNCHANGED <<step, failedFile>>
    BY <1>7 DEF EnvoyExits
  <2>2. ProcessTypes' /\ ProxyTypes'
    BY <1>1, <1>2, <1>6, <2>1, GroupsKept DEF ContainerTypes, ProxyTypes
  <2>3. failures' < MaxFailures /\ failures' <= short' + 1
    <3>1. /\ Counted \in 0 .. MaxFailures /\ ShortRuns \in 0 .. MaxFailures
          /\ Counted <= ShortRuns + 1 \/ ShortRuns = MaxFailures
      BY <1>6, <2>1
    <3> QED BY <1>5, <2>1, <3>1
  <2>4. ServersInv'
    BY <1>1, <1>2, <2>1, <2>3 DEF fly, stored, ServersInv, NothingRunsWhileDown, ServersBegun,
       EnvoyWithServers, HasAdmin, FileOfThisRun, ShortRunsCounted
  <2> QED BY <1>3, <2>2, <2>4 DEF ContainerInv, ContainerTypes
<1>8. CASE EnvoyGivesUp
  <2>1. /\ envoy \in {"young", "old"} /\ Counted >= MaxFailures
        /\ envoy' = "given up" /\ failures' = Counted /\ short' = ShortRuns
        /\ failedFile' = TRUE
        /\ step' = IF step \in {"gunicorn", "stopping"} THEN "stopping" ELSE "killed"
    BY <1>8 DEF EnvoyGivesUp
  <2>2. ProcessTypes' /\ ProxyTypes'
    BY <1>1, <1>2, <1>6, <2>1, GroupsKept DEF ContainerTypes, ProcessTypes, ProxyTypes
  <2>3. short' >= MaxFailures - 1
    <3>1. /\ Counted \in 0 .. MaxFailures /\ ShortRuns \in 0 .. MaxFailures
          /\ Counted <= ShortRuns + 1 \/ ShortRuns = MaxFailures
      BY <1>6, <2>1
    <3>2. Counted >= MaxFailures => ShortRuns >= MaxFailures - 1
      BY <1>5, <3>1
    <3> QED BY <2>1, <3>2
  <2>4. ServersBegun \/ step = "killed"
    BY <1>1, <2>1 DEF ServersInv, EnvoyWithServers
  <2>5. machine \notin {"stopped", "restarting"}
    BY <1>1, <2>4 DEF ServersInv, NothingRunsWhileDown, ServersBegun
  <2>6. NothingRunsWhileDown' /\ EnvoyWithServers'
    BY <1>2, <2>1, <2>5 DEF fly, NothingRunsWhileDown, EnvoyWithServers, ServersBegun
  <2>7. HasAdmin'
    BY <1>1, <1>2, <2>1 DEF stored, ServersInv, HasAdmin, ServersBegun
  <2>8. FileOfThisRun' /\ ShortRunsCounted'
    BY <2>1, <2>3 DEF FileOfThisRun, ShortRunsCounted
  <2> QED BY <1>3, <2>2, <2>6, <2>7, <2>8 DEF ContainerInv, ContainerTypes, ServersInv
<1> QED BY <1>4, <1>7, <1>8 DEF EnvoyLoop

LEMMA StartsKeeps ==
  ASSUME ContainerInv, Starts, machine \in {"restarting", "stopped"}, CheckTypes'
  PROVE  ContainerInv'
<1>1. ContainerTypes /\ ServersInv
  BY DEF ContainerInv
<1>2. /\ machine' = "started" /\ step' = "own" /\ image' = deployed /\ failedFile' \in {failedFile, FALSE}
      /\ UNCHANGED <<restarts, deployed, exited, stored, badConfig, envoy, failures, short>>
  BY DEF Starts
<1>3. FlyTypes' /\ ProcessTypes'
  BY <1>1, <1>2 DEF ContainerTypes, FlyTypes, ProcessTypes
<1>4. StoredTypes' /\ ProxyTypes'
  BY <1>1, <1>2, GroupsKept DEF ContainerTypes, ProxyTypes
<1>5. envoy = "off"
  BY <1>1 DEF ServersInv, NothingRunsWhileDown, EnvoyWithServers, ServersBegun
<1>6. ServersInv'
  BY <1>2, <1>5 DEF ServersInv, NothingRunsWhileDown, ServersBegun, EnvoyWithServers, HasAdmin,
     FileOfThisRun, ShortRunsCounted
<1> QED BY <1>3, <1>4, <1>6 DEF ContainerInv, ContainerTypes

LEMMA DeployKeeps == ASSUME ContainerInv, Deploy PROVE ContainerInv'
<1>1. ContainerTypes /\ ServersInv
  BY DEF ContainerInv
<1>2. /\ deployed' = deployed + 1 /\ check' = "polling" /\ polls' = 0
      /\ UNCHANGED <<restarts, image, exited, stored, proxy>>
  BY DEF Deploy
<1>3. \/ UNCHANGED <<machine, step>>
      \/ /\ machine' = "updating"
         /\ \/ step \in {"gunicorn", "stopping"} /\ step' = "stopping"
            \/ step' = "killed"
  BY DEF Deploy
<1>4. deployed + 1 \in Nat /\ 0 \in 0 .. MaxPolls
  BY <1>1, ContainerAssumption DEF ContainerTypes, FlyTypes
<1>5. FlyTypes' /\ ProcessTypes' /\ CheckTypes'
  BY <1>1, <1>2, <1>3, <1>4 DEF ContainerTypes, FlyTypes, ProcessTypes, CheckTypes
<1>6. StoredTypes' /\ ProxyTypes'
  BY <1>1, <1>2, GroupsKept
<1>7. ServersInv'
  BY <1>1, <1>2, <1>3 DEF stored, proxy, ServersInv, NothingRunsWhileDown, ServersBegun,
     EnvoyWithServers, HasAdmin, FileOfThisRun, ShortRunsCounted
<1> QED BY <1>5, <1>6, <1>7 DEF ContainerInv, ContainerTypes

LEMMA PollingKeeps == ASSUME ContainerInv, Polling PROVE ContainerInv'
<1>1. ContainerTypes /\ ServersInv
  BY DEF ContainerInv
<1>2. CheckTypes'
  <2>1. polls \in 0 .. MaxPolls /\ (polls < MaxPolls => polls + 1 \in 0 .. MaxPolls)
    BY <1>1, ContainerAssumption DEF ContainerTypes, CheckTypes
  <2>2. /\ check' \in {check, "healthy", "unhealthy"}
        /\ polls' = polls \/ (polls < MaxPolls /\ polls' = polls + 1)
    BY DEF Polling, PollSucceeds, PollAgain, PollsEnd
  <2> QED BY <1>1, <2>1, <2>2 DEF ContainerTypes, CheckTypes
<1>3. CASE machine = "stopped" /\ Starts
  BY <1>2, <1>3, StartsKeeps
<1>4. CASE UNCHANGED <<fly, step, exited, stored, proxy>>
  <2>1. FlyTypes' /\ ProcessTypes' /\ StoredTypes' /\ ProxyTypes'
    BY <1>1, <1>4, GroupsKept
  <2>2. ServersInv'
    BY <1>1, <1>4 DEF fly, stored, proxy, ServersInv, NothingRunsWhileDown, ServersBegun,
       EnvoyWithServers, HasAdmin, FileOfThisRun, ShortRunsCounted
  <2> QED BY <1>2, <2>1, <2>2 DEF ContainerInv, ContainerTypes
<1> QED BY <1>3, <1>4 DEF Polling, PollSucceeds, PollAgain, PollsEnd

LEMMA SmallStepsKeep ==
  ASSUME ContainerInv, IdleStop \/ Demote \/ UNCHANGED containerVars
  PROVE  ContainerInv'
<1>1. ContainerTypes /\ ServersInv
  BY DEF ContainerInv
<1>2. UNCHANGED <<fly, exited, proxy, ci>>
  BY DEF IdleStop, Demote, containerVars, fly, proxy, ci
<1>3. \/ step = "gunicorn" /\ step' = "stopping" /\ UNCHANGED stored
      \/ step = "gunicorn" /\ UNCHANGED step /\ superuser' = "demoted" /\ UNCHANGED <<owner, migrated>>
      \/ UNCHANGED step /\ UNCHANGED stored
  BY DEF IdleStop, Demote, containerVars, stored
<1>4. FlyTypes' /\ ProxyTypes' /\ CheckTypes'
  BY <1>1, <1>2, GroupsKept
<1>5. ProcessTypes' /\ StoredTypes'
  BY <1>1, <1>2, <1>3, GroupsKept DEF ContainerTypes, ProcessTypes, StoredTypes
<1>6. ServersInv'
  BY <1>1, <1>2, <1>3 DEF fly, stored, proxy, ServersInv, NothingRunsWhileDown, ServersBegun,
     EnvoyWithServers, HasAdmin, FileOfThisRun, ShortRunsCounted
<1> QED BY <1>4, <1>5, <1>6 DEF ContainerInv, ContainerTypes

LEMMA ContainerBegins == ContainerInit => ContainerInv
<1> SUFFICES ASSUME ContainerInit PROVE ContainerInv
  OBVIOUS
<1>1. 0 \in 0 .. MaxFailures /\ 0 \in 0 .. MaxRestarts /\ 0 \in 0 .. MaxPolls /\ 0 \in Nat /\ 1 \in Nat
  BY ContainerAssumption
<1>2. ContainerTypes
  BY <1>1 DEF ContainerInit, ContainerTypes, FlyTypes, ProcessTypes, StoredTypes, ProxyTypes, CheckTypes
<1>3. ServersInv
  BY DEF ContainerInit, ServersInv, NothingRunsWhileDown, ServersBegun, EnvoyWithServers, HasAdmin,
     FileOfThisRun, ShortRunsCounted
<1> QED BY <1>2, <1>3 DEF ContainerInv

LEMMA ContainerStep == ASSUME ContainerInv, [ContainerNext]_containerVars PROVE ContainerInv'
<1>1. CASE CommandFails \/ OutOfMemory \/ Ending
  <2>1. PICK status \in {0, 1, 137, 143} : Ends(status) /\ failedFile' = failedFile
    BY <1>1 DEF CommandFails, OutOfMemory, Ending, GunicornExits, Killed, ExitStatus
  <2> QED BY <2>1, EndsKeeps
<1>2. CASE Restart \/ Visit
  <2>1. Starts /\ machine \in {"restarting", "stopped"} /\ UNCHANGED ci
    BY <1>2 DEF Restart, Visit
  <2>2. CheckTypes'
    BY <2>1, GroupsKept DEF ContainerInv
  <2> QED BY <2>1, <2>2, StartsKeeps
<1> QED BY <1>1, <1>2, EntrypointKeeps, EnvoyLoopKeeps, SmallStepsKeep, DeployKeeps, PollingKeeps
        DEF ContainerNext

(* gunicorn only exits with 1, on which Fly restarts the Machine, if Envoy *)
(* has been given up in this run of the container, after as many short    *)
(* runs in a row as it takes, but perhaps the first: an idle Machine that *)
(* is stopped stays so.                                                    *)
THEOREM IdleMachinesStay == ContainerSpec => IdleStopStays
<1>1. ASSUME ContainerInv, [ContainerNext]_containerVars
      PROVE  [step = "stopping" /\ exited' = 1 /\ step' = "none"
              => envoy = "given up" /\ short >= MaxFailures - 1]_containerVars
  <2> SUFFICES ASSUME step = "stopping", exited' = 1, step' = "none", ContainerNext
               PROVE  envoy = "given up" /\ short >= MaxFailures - 1
    BY <1>1 DEF containerVars
  <2>1. GunicornExits
    <3>1. ~Entrypoint /\ ~CommandFails /\ ~Killed
      BY DEF Entrypoint, Own, Migrate, EnsureSuperuser, StartServers, GunicornReady, CommandFails, Killed
    <3>2. ~OutOfMemory
      BY DEF OutOfMemory, Ends
    <3>3. ~EnvoyAges /\ ~EnvoyLoop /\ ~IdleStop /\ ~Demote /\ ~Restart /\ ~Visit /\ ~Deploy
      BY DEF EnvoyAges, EnvoyLoop, EnvoyExits, EnvoyGivesUp, EnvoyAgain, IdleStop, Demote, Restart,
         Visit, Starts, Deploy
    <3>4. ~Polling
      BY DEF Polling, PollSucceeds, PollAgain, PollsEnd, Starts
    <3> QED BY <3>1, <3>2, <3>3, <3>4 DEF ContainerNext, Ending
  <2>2. failedFile
    BY <2>1 DEF GunicornExits, Ends, ExitStatus
  <2>3. envoy = "given up"
    BY <1>1, <2>2 DEF ContainerInv, ServersInv, FileOfThisRun, ServersBegun
  <2> QED BY <1>1, <2>3 DEF ContainerInv, ServersInv, ShortRunsCounted
<1> QED BY <1>1, ContainerBegins, ContainerStep, PTL DEF ContainerSpec, IdleStopStays

(* A deploy that is reported healthy runs the commit's image, on a        *)
(* database with its migrations applied and an admin account, however many *)
(* restarts, visits and answers of the old container came between.         *)
THEOREM DeployChecksAreHonest == ContainerSpec => DeployCheckHonest
<1>1. ASSUME ContainerInv, [ContainerNext]_containerVars
      PROVE  [check' = "healthy" /\ check # "healthy" =>
                image = deployed /\ migrated >= image /\ superuser # "none" /\ step # "none"]_containerVars
  <2> SUFFICES ASSUME check' = "healthy", check # "healthy", ContainerNext
               PROVE  image = deployed /\ migrated >= image /\ superuser # "none" /\ step # "none"
    BY <1>1 DEF containerVars
  <2>1. Healthy
    <3>1. check' # check /\ ~UNCHANGED ci
      BY DEF ci
    <3>2. ~Entrypoint /\ ~CommandFails /\ ~OutOfMemory /\ ~Ending
      BY <3>1 DEF Entrypoint, Own, Migrate, EnsureSuperuser, StartServers, GunicornReady,
         CommandFails, OutOfMemory, Ending, GunicornExits, Killed, Ends
    <3>3. ~EnvoyAges /\ ~EnvoyLoop /\ ~IdleStop /\ ~Demote /\ ~Restart /\ ~Visit /\ ~Deploy
      BY <3>1 DEF EnvoyAges, EnvoyLoop, EnvoyExits, EnvoyGivesUp, EnvoyAgain, IdleStop, Demote, Restart,
         Visit, Deploy
    <3>4. Polling
      BY <3>2, <3>3 DEF ContainerNext
    <3> QED BY <3>4 DEF Polling, PollSucceeds, PollAgain, PollsEnd
  <2>2. image = deployed /\ migrated >= image /\ step \in {"gunicorn", "stopping"}
    BY <2>1 DEF Healthy, Serving, Answer
  <2>3. superuser # "none"
    BY <1>1, <2>2 DEF ContainerInv, ServersInv, HasAdmin, ServersBegun
  <2> QED BY <2>2, <2>3
<1> QED BY <1>1, ContainerBegins, ContainerStep, PTL DEF ContainerSpec, DeployCheckHonest

-----------------------------------------------------------------------------
USE WatchdogAssumption, BackupTimesAssumption

-----------------------------------------------------------------------------
(* The operators of AutoBackup keep their argument's type.                 *)
LEMMA BackupTypes ==
  ASSUME NEW b \in Backup, NEW ended \in BOOLEAN, NEW spawned \in BOOLEAN
  PROVE  /\ Start(b, spawned) \in Backup
         /\ Poll(b, ended) \in Backup
         /\ TickBackup(b, ended, spawned) \in Backup
         /\ Aged(b) \in Backup
         /\ WakeIn(b) \in Nat
<1>1. Poll(b, ended) \in Backup
  BY DEF Backup, Poll, Ended
<1>2. ASSUME NEW c \in Backup PROVE Start(c, spawned) \in Backup
  BY <1>2 DEF Backup, Start
<1>3. TickBackup(b, ended, spawned) \in Backup
  BY <1>1, <1>2 DEF TickBackup
<1>4. Aged(b) \in Backup
  BY DEF Backup, Aged
<1>5. WakeIn(b) \in Nat
  BY DEF Backup, WakeIn
<1>6. QED
  BY <1>1, <1>2, <1>3, <1>4, <1>5

(* wake_time() never passes a check that is due later, and is never in the *)
(* past: Config.has_work gives the loop something to wake for.             *)
LEMMA WakeTimeBounds ==
  ASSUME config \in Configs, NEW next \in Int, NEW b \in Backup,
         Checking => next \in Nat
  PROVE  /\ WakeTime(next, b) \in Nat
         /\ Checking => WakeTime(next, b) <= next
<1> DEFINE S == (IF config.uptime THEN {1} ELSE {})
                  \cup (IF Checking THEN {next} ELSE {})
                  \cup (IF config.auto_backup THEN {WakeIn(b)} ELSE {})
<1>1. WakeIn(b) \in Nat
  BY DEF Backup, WakeIn
<1>2. config \in Config /\ HasWork(config)
  OBVIOUS
<1>3. S \subseteq Nat /\ S # {}
  BY <1>1, <1>2 DEF Config, HasWork, Checking
<1>4. \E x \in S : \A y \in S : x <= y
  BY <1>1, <1>3 DEF Checking
<1>5. Min(S) \in S /\ \A y \in S : Min(S) <= y
  BY <1>4 DEF Min
<1>6. WakeTime(next, b) = Min(S)
  BY DEF WakeTime
<1>7. Checking => next \in S
  OBVIOUS
<1> HIDE DEF S
<1>8. QED
  BY <1>3, <1>5, <1>6, <1>7

-----------------------------------------------------------------------------
(* The two invariants together are inductive: the next check notices what  *)
(* happened because it is never late by more than MaxLate, and it is never *)
(* late because the loop never sleeps past it.                             *)
CheckIsDue == pc \in {"counting", "reading"} => until_check <= 0

OffMeansNone == ~config.auto_backup => ~backup.running

WatchdogInv ==
  TypeOK /\ NextCheckNotices /\ CheckIsDue /\ OffMeansNone /\ -MaxLate <= until_wake

LEMMA FreshBackup == NewBackup \in Backup
  BY DEF NewBackup, Backup

LEMMA InitInv == Init => WatchdogInv
<1> SUFFICES ASSUME Init PROVE WatchdogInv
  OBVIOUS
<1>1. /\ config \in Configs /\ master \in {"up", "terminating", "gone"}
      /\ connections \subseteq Ports
      /\ pc \in {"asleep", "counting", "reading", "killing", "exited"}
  BY DEF Init
<1>2. /\ request_age \in 0 .. IdleTimeout /\ idle_for \in 0 .. IdleTimeout
      /\ quiet \in 0 .. IdleTimeout
      /\ until_wake \in Int /\ until_check \in -MaxLate .. CheckInterval
  BY DEF Init
<1>3. counted \in BOOLEAN /\ pre_stop_backup \in BOOLEAN /\ unbacked \in BOOLEAN
  BY DEF Init
<1>4. TypeOK
  BY <1>1, <1>2, <1>3, FreshBackup DEF Init, TypeOK
<1>5. QED
  BY <1>4 DEF Init, TypeOK, WatchdogInv, NextCheckNotices, CheckIsDue, OffMeansNone, NewBackup,
              EffectiveIdle, MinOf

LEMMA WakeInv == WatchdogInv /\ Wake => WatchdogInv'
<1> SUFFICES ASSUME WatchdogInv, Wake PROVE WatchdogInv'
  OBVIOUS
<1> USE DEF WatchdogInv
<1>1. PICK ended \in BOOLEAN, spawned \in BOOLEAN :
        IF config.auto_backup
        THEN /\ backup' = TickBackup(backup, ended, spawned)
             /\ unbacked' = (unbacked /\ ~StartsScheduled(backup, ended))
        ELSE UNCHANGED <<backup, unbacked>>
  BY DEF Wake
<1>2. backup' \in Backup
  BY <1>1, BackupTypes DEF TypeOK
<1>3. unbacked' \in BOOLEAN /\ (unbacked' => unbacked)
  BY <1>1 DEF TypeOK
<1>3a. OffMeansNone'
  BY <1>1 DEF Wake, OffMeansNone
<1>4. CASE Checking /\ until_check <= 0
  <2>1. pc' = "counting" /\ until_wake' = until_wake
    BY <1>4 DEF Wake
  <2>2. TypeOK'
    BY <1>2, <1>3, <2>1 DEF TypeOK, Wake
  <2>3. QED
    BY <1>3, <1>3a, <2>1, <2>2 DEF Wake, TypeOK, NextCheckNotices, CheckIsDue, OffMeansNone,
                                EffectiveIdle, Checking
<1>5. CASE ~(Checking /\ until_check <= 0)
  <2>1. pc' = pc /\ until_wake' = WakeTime(until_check, backup') /\ pc = "asleep"
    BY <1>5 DEF Wake
  <2>2. until_wake' \in Nat /\ (Checking => until_wake' <= until_check)
    <3>1. config \in Configs /\ until_check \in Int /\ (Checking => until_check \in Nat)
      BY <1>5 DEF TypeOK
    <3>2. QED
      BY <1>2, <2>1, <3>1, WakeTimeBounds
  <2>3. TypeOK'
    BY <1>2, <1>3, <2>1, <2>2 DEF TypeOK, Wake
  <2>4. QED
    BY <1>3, <1>3a, <2>1, <2>2, <2>3 DEF Wake, TypeOK, NextCheckNotices, CheckIsDue, OffMeansNone,
                                EffectiveIdle, Checking
<1>6. QED
  BY <1>4, <1>5

LEMMA CountConnectionsInv == WatchdogInv /\ CountConnections => WatchdogInv'
<1> SUFFICES ASSUME WatchdogInv, CountConnections PROVE WatchdogInv'
  OBVIOUS
<1> USE DEF WatchdogInv, CountConnections
<1>1. quiet' \in 0 .. IdleTimeout /\ (counted' => quiet' = 0) /\ (~counted' => quiet' = quiet)
  BY DEF TypeOK
<1>2. counted' \in BOOLEAN /\ unbacked' \in BOOLEAN /\ (~counted' => unbacked' = unbacked)
  BY DEF TypeOK
<1>3. TypeOK'
  BY <1>1, <1>2 DEF TypeOK
<1>4. QED
  BY <1>1, <1>2, <1>3 DEF TypeOK, NextCheckNotices, CheckIsDue,
                               OffMeansNone, EffectiveIdle, Checking, MinOf

(* What a check finds: the effective idle time, and due only if nothing    *)
(* was counted and the whole timeout has passed.                           *)
LEMMA CheckFinds ==
  ASSUME TypeOK, pc = "reading"
  PROVE  /\ IdleFor = EffectiveIdle
         /\ IdleFor \in 0 .. IdleTimeout
         /\ MinOf(request_age, IdleFor) = IdleFor
         /\ Due(IdleFor) => EffectiveIdle = IdleTimeout
  BY DEF TypeOK, IdleFor, EffectiveIdle, MinOf, Due

(* The decision: with the checks close enough together, a backup before    *)
(* stopping that is kept has seen every activity.                          *)
LEMMA KeptBackupIsFresh ==
  ASSUME WatchdogInv, pc = "reading", ChecksOftenEnough,
         PreStopBackupKept(Due(IdleFor))
  PROVE  ~unbacked
<1>1. EffectiveIdle = IdleTimeout /\ pre_stop_backup
  BY CheckFinds DEF WatchdogInv, PreStopBackupKept
<1>2. -MaxLate <= until_check /\ until_check \in Int
  BY DEF WatchdogInv, TypeOK
<1>3. ~(EffectiveIdle + until_check <= CheckInterval)
  BY <1>1, <1>2 DEF ChecksOftenEnough
<1>4. QED
  BY <1>1, <1>3 DEF WatchdogInv, NextCheckNotices

LEMMA DecideCheckInv ==
  ASSUME WatchdogInv, DecideCheck, ChecksOftenEnough
  PROVE  WatchdogInv'
<1> DEFINE due      == Due(IdleFor)
           backs_up == StartsPreStopBackup(due)
           pre_stop == PreStopBackupKept(due) \/ backs_up
<1>1. /\ pc = "reading" /\ idle_for' = IdleFor /\ pre_stop_backup' = pre_stop
      /\ unbacked' = (unbacked /\ ~backs_up)
      /\ UNCHANGED <<config, master, connections, request_age, counted, quiet>>
  BY DEF DecideCheck
<1>2. backup' \in Backup
  <2>1. PICK spawned \in BOOLEAN :
          backup' = IF backs_up THEN Start(backup, spawned) ELSE backup
    BY DEF DecideCheck
  <2>2. backup \in Backup
    BY DEF WatchdogInv, TypeOK
  <2>3. QED
    BY <2>1, <2>2, BackupTypes
<1>3. backs_up => config.mode = "stop"
  BY DEF StartsPreStopBackup, Stopping
<1>4. pre_stop \in BOOLEAN /\ (pre_stop => config.mode = "stop")
  BY <1>3 DEF PreStopBackupKept, WatchdogInv, NextCheckNotices
<1>5. ~(pre_stop /\ unbacked')
  BY <1>1, KeptBackupIsFresh
<1>6. pc' \in {"asleep", "killing"} /\ EffectiveIdle' = EffectiveIdle
  <2>1. pc' \in {"asleep", "killing"}
    BY DEF DecideCheck
  <2>2. EffectiveIdle' = MinOf(request_age, IdleFor)
    BY <1>1, <2>1 DEF EffectiveIdle
  <2>3. QED
    BY <1>1, <2>1, <2>2, CheckFinds DEF WatchdogInv
<1>7. /\ until_check' \in -MaxLate .. CheckInterval
      /\ until_wake' \in Int /\ -MaxLate <= until_wake'
      /\ Checking => until_wake' <= until_check'
  <2>1. CASE ReadyToStop(due, pre_stop, backup')
    BY <2>1 DEF DecideCheck, WatchdogInv, TypeOK, NextCheckNotices
  <2>2. CASE ~ReadyToStop(due, pre_stop, backup')
    <3>1. /\ until_check' = MaxOf(until_check + CheckInterval, 0)
          /\ until_wake' = WakeTime(until_check', backup')
      BY <2>2 DEF DecideCheck
    <3>2. until_check' \in 0 .. CheckInterval
      <4>1. until_check \in -MaxLate .. 0
        BY <1>1 DEF WatchdogInv, TypeOK, CheckIsDue
      <4>2. QED
        BY <3>1, <4>1 DEF MaxOf
    <3>3. config \in Configs
      BY DEF WatchdogInv, TypeOK
    <3>4. until_wake' \in Nat /\ (Checking => until_wake' <= until_check')
      BY <1>2, <3>1, <3>2, <3>3, WakeTimeBounds
    <3>5. QED
      BY <3>2, <3>4
  <2>3. QED
    BY <2>1, <2>2
<1>8. unbacked' \in BOOLEAN /\ idle_for' \in 0 .. IdleTimeout
  BY <1>1, CheckFinds DEF WatchdogInv, TypeOK
<1>9. TypeOK'
  BY <1>1, <1>2, <1>4, <1>6, <1>7, <1>8 DEF WatchdogInv, TypeOK
<1>10. OffMeansNone'
  <2>1. ~config.auto_backup => backup' = backup
    BY DEF DecideCheck, StartsPreStopBackup
  <2>2. QED
    BY <1>1, <2>1 DEF WatchdogInv, OffMeansNone
<1> QED
  BY <1>1, <1>4, <1>5, <1>6, <1>7, <1>9, <1>10
  DEF WatchdogInv, NextCheckNotices, CheckIsDue, Checking

(* Leaving, killing, and what the outside world does to what the loop has  *)
(* not read yet, disturb none of it.                                       *)
LEMMA OutsideInv ==
  ASSUME WatchdogInv,
         \/ LeaveWithMaster \/ Kill \/ MasterExits
         \/ \E p \in Ports : Connect(p) \/ Disconnect(p)
  PROVE  WatchdogInv'
<1>1. /\ UNCHANGED <<config, request_age, until_wake, until_check, idle_for,
                     counted, pre_stop_backup, backup, quiet, unbacked>>
      /\ pc' = pc \/ pc' = "exited"
  BY DEF LeaveWithMaster, Kill, MasterExits, Connect, Disconnect, watchdogVars, history
<1>2. /\ master' \in {"up", "terminating", "gone"}
      /\ connections' \subseteq Ports
  BY DEF LeaveWithMaster, Kill, MasterExits, Connect, Disconnect, WatchdogInv, TypeOK
<1>3. TypeOK'
  BY <1>1, <1>2 DEF WatchdogInv, TypeOK
<1>4. EffectiveIdle' = EffectiveIdle \/ EffectiveIdle' <= EffectiveIdle
  <2>1. CASE pc' = pc
    BY <1>1, <2>1 DEF EffectiveIdle
  <2>2. CASE pc # "reading"
    BY <1>1, <2>2 DEF EffectiveIdle
  <2>3. pc # "reading" \/ pc' = pc
    BY DEF LeaveWithMaster, Kill, MasterExits, Connect, Disconnect, watchdogVars
  <2>4. QED
    BY <2>1, <2>2, <2>3
<1>5. QED
  BY <1>1, <1>3, <1>4
  DEF WatchdogInv, NextCheckNotices, CheckIsDue, OffMeansNone, Checking, TypeOK,
      EffectiveIdle, MinOf

LEMMA PassTimeInv == WatchdogInv /\ PassTime => WatchdogInv'
<1> SUFFICES ASSUME WatchdogInv, PassTime PROVE WatchdogInv'
  OBVIOUS
<1> USE DEF WatchdogInv
<1>1. Aged(backup) \in Backup
  BY BackupTypes DEF TypeOK
<1>2. /\ until_wake' \in Int /\ -MaxLate <= until_wake'
      /\ Checking => until_wake' <= until_check'
      /\ until_check' \in -MaxLate .. CheckInterval
  BY DEF PassTime, TypeOK, NextCheckNotices
<1>3. /\ idle_for' \in 0 .. IdleTimeout /\ request_age' \in 0 .. IdleTimeout
      /\ quiet' \in 0 .. IdleTimeout
  BY DEF PassTime, TypeOK, MinOf
<1>4. TypeOK'
  BY <1>1, <1>2, <1>3 DEF PassTime, TypeOK
<1>5. /\ EffectiveIdle' <= EffectiveIdle + 1
      /\ EffectiveIdle' <= quiet'
  BY DEF PassTime, TypeOK, NextCheckNotices, EffectiveIdle, MinOf
<1>6. pre_stop_backup /\ unbacked => EffectiveIdle' + until_check' <= CheckInterval
  <2>1. pre_stop_backup => until_check' = until_check - 1
    BY DEF PassTime, NextCheckNotices, Checking
  <2>2. EffectiveIdle \in Int /\ EffectiveIdle' \in Int /\ until_check \in Int
    BY <1>4 DEF TypeOK, EffectiveIdle, MinOf
  <2>3. SUFFICES ASSUME pre_stop_backup, unbacked
                PROVE  EffectiveIdle' + until_check' <= CheckInterval
    OBVIOUS
  <2>4. EffectiveIdle + until_check <= CheckInterval
    BY <2>3 DEF NextCheckNotices
  <2>5. \A a, b, c, d \in Int : a + c <= d /\ b <= a + 1 => b + (c - 1) <= d
    OBVIOUS
  <2>6. until_check' = until_check - 1 /\ CheckInterval \in Int
    BY <2>1, <2>3
  <2>7. QED
    BY <1>5, <2>2, <2>4, <2>5, <2>6
<1>7. OffMeansNone'
  BY DEF PassTime, OffMeansNone, Aged
<1>8. QED
  BY <1>2, <1>4, <1>5, <1>6, <1>7
  DEF PassTime, NextCheckNotices, CheckIsDue, Checking

LEMMA RequestEndsInv == WatchdogInv /\ RequestEnds => WatchdogInv'
<1> SUFFICES ASSUME WatchdogInv, RequestEnds PROVE WatchdogInv'
  OBVIOUS
<1> USE DEF WatchdogInv, RequestEnds, watchdogVars
<1>1. TypeOK'
  <2>1. request_age' \in 0 .. IdleTimeout /\ quiet' \in 0 .. IdleTimeout
    OBVIOUS
  <2>2. unbacked' \in BOOLEAN
    OBVIOUS
  <2>3. QED
    BY <2>1, <2>2 DEF TypeOK
<1>2. EffectiveIdle' = 0
  BY DEF TypeOK, EffectiveIdle, MinOf
<1>3. QED
  BY <1>1, <1>2 DEF TypeOK, NextCheckNotices, CheckIsDue, OffMeansNone, Checking

LEMMA BootInv == WatchdogInv /\ Boot => WatchdogInv'
<1> SUFFICES ASSUME WatchdogInv, Boot PROVE WatchdogInv'
  OBVIOUS
<1> USE DEF WatchdogInv, Boot
<1>1. request_age' \in 0 .. IdleTimeout
  BY DEF TypeOK
<1>2. TypeOK'
  <2>1. until_check' \in -MaxLate .. CheckInterval /\ until_wake' \in Int
    OBVIOUS
  <2>2. idle_for' \in 0 .. IdleTimeout /\ quiet' \in 0 .. IdleTimeout
    OBVIOUS
  <2>3. /\ counted' \in BOOLEAN /\ pre_stop_backup' \in BOOLEAN
        /\ unbacked' \in BOOLEAN
    OBVIOUS
  <2>4. QED
    BY <1>1, <2>1, <2>2, <2>3, FreshBackup DEF TypeOK
<1>3. EffectiveIdle' = 0
  BY <1>1 DEF EffectiveIdle, MinOf
<1>4. QED
  BY <1>2, <1>3 DEF NextCheckNotices, CheckIsDue, OffMeansNone, NewBackup, Checking

(* A step keeps the invariant. *)
LEMMA StepInv ==
  ASSUME ChecksOftenEnough, WatchdogInv, [Next]_vars
  PROVE  WatchdogInv'
<1>1. CASE Wake
  BY <1>1, WakeInv
<1>2. CASE CountConnections
  BY <1>2, CountConnectionsInv
<1>3. CASE DecideCheck
  BY <1>3, DecideCheckInv
<1>4. CASE PassTime
  BY <1>4, PassTimeInv
<1>5. CASE RequestEnds
  BY <1>5, RequestEndsInv
<1>6. CASE Boot
  BY <1>6, BootInv
<1>7. CASE LeaveWithMaster \/ Kill \/ MasterExits
           \/ \E p \in Ports : Connect(p) \/ Disconnect(p)
  BY <1>7, OutsideInv
<1>8. CASE UNCHANGED vars
  BY <1>8 DEF vars, watchdogVars, history, WatchdogInv, TypeOK, NextCheckNotices,
              CheckIsDue, OffMeansNone, Checking, EffectiveIdle, MinOf
<1>9. QED
  BY <1>1, <1>2, <1>3, <1>4, <1>5, <1>6, <1>7, <1>8 DEF Next, Watchdog, Environment

LEMMA InvariantHolds ==
  ASSUME ChecksOftenEnough PROVE Spec => []WatchdogInv
<1>1. Init => WatchdogInv
  BY InitInv
<1>2. WatchdogInv /\ [Next]_vars => WatchdogInv'
  BY StepInv
<1>3. QED
  BY <1>1, <1>2, PTL DEF Spec

(* Type correctness of the watchdog, the master and the history variables. *)
THEOREM TypeCorrect ==
  ASSUME ChecksOftenEnough PROVE Spec => []TypeOK
<1>1. WatchdogInv => TypeOK
  BY DEF WatchdogInv
<1>2. QED
  BY <1>1, InvariantHolds, PTL

(* Activity since the backup before stopping is always still recent enough *)
(* for the next check (_ready_to_stop) to call the stop off.               *)
THEOREM ChecksNoticeActivity ==
  ASSUME ChecksOftenEnough PROVE Spec => []NextCheckNotices
<1>1. WatchdogInv => NextCheckNotices
  BY DEF WatchdogInv
<1>2. QED
  BY <1>1, InvariantHolds, PTL

-----------------------------------------------------------------------------
(* Refinement: every step of the watchdog and its surroundings is a step   *)
(* of IdlePolicy, or changes nothing the policy speaks of.                 *)
LEMMA InitImplementsPolicy == Init => Policy!Init
<1> SUFFICES ASSUME Init PROVE Policy!Init
  OBVIOUS
<1>1. config \in Config
  BY DEF Init
<1>2. (config.mode = "stop") \in BOOLEAN /\ config.auto_backup \in BOOLEAN
  BY <1>1 DEF Config
<1>3. backup.running = FALSE
  BY DEF Init, NewBackup
<1>4. QED
  BY <1>2, <1>3 DEF Init, Policy!Init

LEMMA WakeImplementsPolicy ==
  ASSUME TypeOK, Wake PROVE [Policy!Next]_Policy!vars
<1>1. /\ pc' \in {"asleep", "counting"} /\ pc = "asleep"
      /\ UNCHANGED <<config, master, quiet>>
  BY DEF Wake
<1>2. PICK ended \in BOOLEAN, spawned \in BOOLEAN :
        IF config.auto_backup
        THEN /\ backup' = TickBackup(backup, ended, spawned)
             /\ unbacked' = (unbacked /\ ~StartsScheduled(backup, ended))
        ELSE UNCHANGED <<backup, unbacked>>
  BY DEF Wake
<1>3. CASE ~config.auto_backup
  BY <1>1, <1>2, <1>3 DEF Policy!vars
<1>4. CASE config.auto_backup /\ StartsScheduled(backup, ended)
  <2>1. backup' \in Backup /\ unbacked' = FALSE
    BY <1>2, <1>4, BackupTypes DEF TypeOK
  <2>2. backup'.running \in BOOLEAN
    BY <2>1 DEF Backup
  <2>3. Policy!BackUp
    BY <1>1, <1>4, <2>1, <2>2 DEF Policy!BackUp, Policy!StartOrEndBackup
  <2>4. QED
    BY <2>3 DEF Policy!Next
<1>5. CASE config.auto_backup /\ ~StartsScheduled(backup, ended)
  <2>1. unbacked' = unbacked
    BY <1>2, <1>5 DEF TypeOK
  <2>2. backup' = Poll(backup, ended)
    BY <1>2, <1>5 DEF TickBackup
  <2>3. backup' = backup \/ backup'.running = FALSE
    BY <2>2 DEF Poll, Ended
  <2>4. CASE backup' = backup
    BY <1>1, <2>1, <2>4 DEF Policy!vars
  <2>5. CASE backup'.running = FALSE
    <3>1. Policy!BackUp
      BY <1>1, <1>5, <2>1, <2>5 DEF Policy!BackUp, Policy!StartOrEndBackup
    <3>2. QED
      BY <3>1 DEF Policy!Next
  <2>6. QED
    BY <2>3, <2>4, <2>5
<1>6. QED
  BY <1>3, <1>4, <1>5

LEMMA DecideCheckImplementsPolicy ==
  ASSUME WatchdogInv, DecideCheck, ChecksOftenEnough
  PROVE  [Policy!Next]_Policy!vars
<1> DEFINE due      == Due(IdleFor)
           backs_up == StartsPreStopBackup(due)
           pre_stop == PreStopBackupKept(due) \/ backs_up
           ready    == ReadyToStop(due, pre_stop, backup')
<1>1. /\ pc = "reading" /\ UNCHANGED <<config, master, quiet>>
      /\ unbacked' = (unbacked /\ ~backs_up)
      /\ pc' = IF ready THEN "killing" ELSE "asleep"
  BY DEF DecideCheck
<1>2. /\ backs_up => config.auto_backup /\ unbacked' = FALSE /\ backup'.running \in BOOLEAN
      /\ ~backs_up => backup' = backup /\ unbacked' = unbacked
  <2>1. PICK spawned \in BOOLEAN :
          backup' = IF backs_up THEN Start(backup, spawned) ELSE backup
    BY DEF DecideCheck
  <2>2. backs_up => backup' \in Backup
    BY <2>1, BackupTypes DEF WatchdogInv, TypeOK
  <2>3. backs_up => backup'.running \in BOOLEAN
    BY <2>2 DEF Backup
  <2>4. backs_up => config.auto_backup
    BY DEF StartsPreStopBackup
  <2>5. QED
    BY <1>1, <2>1, <2>3, <2>4 DEF WatchdogInv, TypeOK
<1>3. \/ backs_up /\ Policy!StartOrEndBackup
      \/ ~backs_up /\ UNCHANGED <<unbacked, backup>>
  BY <1>1, <1>2 DEF Policy!StartOrEndBackup
<1>4. CASE ready /\ master # "gone"
  <2>1. config.mode = "stop" /\ due
    BY <1>4 DEF ReadyToStop, Stopping
  <2>2. quiet >= IdleTimeout
    BY <1>1, <2>1, CheckFinds DEF WatchdogInv, TypeOK, NextCheckNotices
  <2>3. config.auto_backup => ~unbacked' /\ ~backup'.running
    <3>1. PreStopBackupKept(due) => ~unbacked
      BY <1>1, KeptBackupIsFresh
    <3>2. config.auto_backup => pre_stop /\ ~backup'.running
      BY <1>4 DEF ReadyToStop
    <3>3. QED
      BY <1>1, <3>1, <3>2
  <2>4. ~config.auto_backup => ~backup'.running
    BY <1>2 DEF WatchdogInv, OffMeansNone
  <2>5. Policy!TellToStop
    BY <1>1, <1>3, <1>4, <2>1, <2>2, <2>3, <2>4 DEF Policy!TellToStop
  <2>6. QED
    BY <2>5 DEF Policy!Next
<1>5. CASE ~(ready /\ master # "gone")
  <2>1. CASE backs_up
    <3>1. Policy!BackUp
      BY <1>1, <1>3, <1>5, <2>1 DEF Policy!BackUp
    <3>2. QED
      BY <3>1 DEF Policy!Next
  <2>2. CASE ~backs_up
    BY <1>1, <1>2, <1>5, <2>2 DEF Policy!vars
  <2>3. QED
    BY <2>1, <2>2
<1>6. QED
  BY <1>4, <1>5

LEMMA WorldImplementsPolicy ==
  ASSUME TypeOK,
         \/ LeaveWithMaster \/ CountConnections \/ Kill
         \/ Environment \/ UNCHANGED vars
  PROVE  [Policy!Next]_Policy!vars
<1>1. CASE LeaveWithMaster
  BY <1>1 DEF LeaveWithMaster, Policy!vars, history
<1>2. CASE CountConnections
  <2>1. counted' \in BOOLEAN
    BY <1>2 DEF CountConnections
  <2>2. CASE counted'
    BY <1>2, <2>2 DEF CountConnections, Policy!Next, Policy!Activity
  <2>3. CASE ~counted'
    BY <1>2, <2>3 DEF CountConnections, Policy!vars, TypeOK
  <2>4. QED
    BY <2>1, <2>2, <2>3
<1>3. CASE Kill
  BY <1>3 DEF Kill, Policy!vars, history, TypeOK
<1>4. CASE PassTime
  <2>1. backup'.running = backup.running
    BY <1>4 DEF PassTime, Aged
  <2>2. quiet' = IF quiet < IdleTimeout THEN quiet + 1 ELSE quiet
    BY <1>4 DEF PassTime, MinOf, TypeOK
  <2>3. QED
    BY <1>4, <2>1, <2>2 DEF PassTime, Policy!Next, Policy!TimePasses
<1>5. CASE \E p \in Ports : Connect(p) \/ Disconnect(p)
  BY <1>5 DEF Connect, Disconnect, watchdogVars, history, Policy!vars
<1>6. CASE RequestEnds
  BY <1>6 DEF RequestEnds, watchdogVars, Policy!Next, Policy!Activity
<1>7. CASE MasterExits
  BY <1>7 DEF MasterExits, watchdogVars, history, Policy!Next, Policy!GoDown
<1>8. CASE Boot
  <2>1. backup'.running = FALSE
    BY <1>8 DEF Boot, NewBackup
  <2>2. QED
    BY <1>8, <2>1 DEF Boot, Policy!Next, Policy!StartUp
<1>9. CASE UNCHANGED vars
  BY <1>9 DEF vars, watchdogVars, history, Policy!vars
<1>10. QED
  BY <1>1, <1>2, <1>3, <1>4, <1>5, <1>6, <1>7, <1>8, <1>9 DEF Environment

(* The watchdog implements the policy: SIGTERM is decided on only in stop  *)
(* mode, after the whole idle timeout without activity, with no backup     *)
(* running, and after a backup begun since the last activity.              *)
THEOREM WatchdogImplementsPolicy ==
  ASSUME ChecksOftenEnough PROVE Spec => ImplementsPolicy
<1>1. Init => Policy!Init
  BY InitImplementsPolicy
<1>2. WatchdogInv /\ [Next]_vars => [Policy!Next]_Policy!vars
  <2>1. SUFFICES ASSUME WatchdogInv, [Next]_vars PROVE [Policy!Next]_Policy!vars
    OBVIOUS
  <2>2. CASE Wake
    BY <2>1, <2>2, WakeImplementsPolicy DEF WatchdogInv
  <2>3. CASE DecideCheck
    BY <2>1, <2>3, DecideCheckImplementsPolicy
  <2>4. CASE LeaveWithMaster \/ CountConnections \/ Kill \/ Environment \/ UNCHANGED vars
    BY <2>1, <2>4, WorldImplementsPolicy DEF WatchdogInv
  <2>5. QED
    BY <2>1, <2>2, <2>3, <2>4 DEF Next, Watchdog
<1>3. QED
  BY <1>1, <1>2, InvariantHolds, PTL DEF Spec, ImplementsPolicy, Policy!Spec
===============================================================================
