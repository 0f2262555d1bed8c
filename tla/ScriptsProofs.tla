--------------------------- MODULE ScriptsProofs ---------------------------
(***************************************************************************)
(* That recreate_pr leaves one pull request open, that fly-setup.sh only   *)
(* adds, that wait_for_base_coverage.py gives up for cause, and that the   *)
(* reports on a pull request stand, for any number of kinds of comments,   *)
(* of jobs and of commits, of apps and secrets, and for any times.         *)
(***************************************************************************)
EXTENDS Scripts, FiniteSetTheorems, WellFoundedInduction, TLAPS

------------------------------------------------------------------------------
(* Each of the scripts does in Scripts what it does on its own.            *)
THEOREM EachOnItsOwn == AnySpec => Spec /\ SetupSpec /\ WaitSpec
<1>1. AnyInit => Init /\ SetupInit /\ WaitInit
  BY DEF AnyInit
<1>2. [AnyNext]_<<vars, setupVars, waitVars, script>> =>
        [Next]_vars /\ [SetupNext]_setupVars /\ [WaitNext]_waitVars
  BY DEF AnyNext, PullRequest, Setup, Coverage
<1> QED BY <1>1, <1>2, PTL DEF AnySpec, Spec, SetupSpec, WaitSpec

------------------------------------------------------------------------------
(* recreate_pr.                                                            *)

(* Where it is, and what is then open.                                     *)
PullsInv ==
  /\ original \in {"open", "closed", "closed by hand"} /\ replacement \in {None, "open"}
  /\ recreate \in {"view", "close", "create", "comment", "look up", "reopen", "refused", "failed",
                   "done", "made anyway", "by hand", "reopened", "still closed"}
  /\ recreate \in {"view", "close", "refused", "reopened"} => original # "closed"
  /\ recreate \in {"view", "close", "refused", "failed", "reopened"} => replacement = None
  /\ recreate \notin {"view", "close", "refused", "failed", "reopened", "still closed"} =>
       original # "open"
  /\ recreate \in {"create", "reopen", "still closed"} => replacement = None
  /\ recreate \in {"comment", "done", "made anyway"} => replacement = "open"

LEMMA RecreatingKeepsPulls == PullsInv /\ Recreating => PullsInv'
<1> SUFFICES ASSUME PullsInv, Recreating PROVE PullsInv'
  OBVIOUS
<1>1. CASE CloseByHand
  BY <1>1 DEF CloseByHand, PullsInv
<1>2. CASE ViewPr
  BY <1>2 DEF ViewPr, Goes, PullsInv
<1>3. CASE ClosePr
  BY <1>3 DEF ClosePr, Closed, Goes, PullsInv
<1>4. CASE CannotClose
  BY <1>4 DEF CannotClose, Closed, Goes, PullsInv
<1>5. CASE CreatePr
  BY <1>5 DEF CreatePr, PullsInv
<1>6. CASE CannotCreate
  BY <1>6 DEF CannotCreate, Goes, PullsInv
<1>7. CASE LookUp
  BY <1>7 DEF LookUp, Goes, AfterLookup, PullsInv
<1>8. CASE CannotLookUp
  BY <1>8 DEF CannotLookUp, Goes, PullsInv
<1>9. CASE ReopenPr
  BY <1>9 DEF ReopenPr, Goes, PullsInv
<1>10. CASE CannotReopen
  BY <1>10 DEF CannotReopen, Goes, PullsInv
<1>11. CASE CommentOnPr
  BY <1>11 DEF CommentOnPr, PullsInv
<1> QED BY <1>1, <1>2, <1>3, <1>4, <1>5, <1>6, <1>7, <1>8, <1>9, <1>10, <1>11 DEF Recreating

LEMMA PostingKeepsPulls ==
  Push \/ (\E kind \in Kinds : Posting(kind)) \/ UNCHANGED vars => UNCHANGED pulls
BY DEF Push, Posting, Begin, CheckHead, List, Edit, Delete, Post, Look, Hide, Finish, FailJob,
       vars, pulls

(* However its requests fail, before or after their effect, and whoever    *)
(* closes the pull request meanwhile, the branch never has two open, and   *)
(* has none only if that was said, or done by someone else, or by a        *)
(* request to close the old one that was answered by an error.             *)
THEOREM OnePullRequestOpen == Spec => []OnePrOpen
<1>1. Init => PullsInv
  BY DEF Init, PullsInv
<1>2. PullsInv /\ [Next]_vars => PullsInv'
  <2>1. PullsInv /\ UNCHANGED pulls => PullsInv'
    BY DEF PullsInv, pulls
  <2> QED BY <2>1, RecreatingKeepsPulls, PostingKeepsPulls DEF Next
<1>3. PullsInv => OnePrOpen
  BY PrScriptsAssumption DEF PullsInv, OnePrOpen
<1> QED BY <1>1, <1>2, <1>3, PTL DEF Spec

------------------------------------------------------------------------------
(* fly-setup.sh.                                                           *)

SetupSteps ==
  {"ended", "done", "check", "app", "volume", "create volume", "secrets", "github app", "token",
   "store"}
SetupTypeOK ==
  /\ dotenv \in [app : Apps, values : [FlySecrets -> {Blank, Plain, Odd}]]
  /\ apps \in SUBSET Apps /\ volumes \in [Apps -> Nat]
  /\ secrets \in [Apps -> [FlySecrets -> {NotSet, Blank, Plain, Odd, ByHand}]]
  /\ github \in [app : Apps \cup {NotSet}, token : Apps \cup {NotSet}]
  /\ at \in SetupSteps /\ replace \in BOOLEAN /\ token \in Apps \cup {NotSet}

(* What a run has done when it is past each step.                          *)
AllImported ==
  \A name \in FlySecrets : dotenv.values[name] # Blank => secrets[dotenv.app][name] # NotSet
SetupProgress ==
  /\ at \notin {"ended", "done", "check"} => Complete
  /\ at \in {"volume", "create volume", "secrets", "github app", "token", "store"} =>
       dotenv.app \in apps
  /\ at \in {"secrets", "github app", "token", "store"} => volumes[dotenv.app] > 0
  /\ at \in {"github app", "token", "store"} => AllImported
  /\ at \in {"token", "store"} => github.app # NotSet
  /\ at = "store" => token \in {dotenv.app, NotSet} /\ WantsToken
SetupInv == SetupTypeOK /\ SetupProgress

LEMMA Importing ==
  ASSUME SetupTypeOK, ImportSecrets, at' = "github app"
  PROVE  /\ secrets' \in [Apps -> [FlySecrets -> {NotSet, Blank, Plain, Odd, ByHand}]]
         /\ AllImported'
         /\ \A app \in Apps, name \in FlySecrets :
              secrets[app][name] # NotSet => secrets'[app][name] = secrets[app][name]
<1> DEFINE row == [name \in FlySecrets |->
                     IF name \in ToImport THEN dotenv.values[name] ELSE secrets[dotenv.app][name]]
<1>1. dotenv.app \in Apps /\ dotenv.values \in [FlySecrets -> {Blank, Plain, Odd}]
  BY DEF SetupTypeOK
<1>2. secrets' = [secrets EXCEPT ![dotenv.app] = row] /\ dotenv' = dotenv
  BY <1>1 DEF ImportSecrets, To, SetupTypeOK
<1>3. row \in [FlySecrets -> {NotSet, Blank, Plain, Odd, ByHand}]
  <2>1. secrets[dotenv.app] \in [FlySecrets -> {NotSet, Blank, Plain, Odd, ByHand}]
    BY <1>1 DEF SetupTypeOK
  <2> QED BY <1>1, <2>1
<1>4. \A name \in FlySecrets : dotenv.values[name] # Blank => row[name] # NotSet
  BY <1>1, FlySetupAssumption DEF ToImport
<1>5. \A name \in FlySecrets :
        secrets[dotenv.app][name] # NotSet => row[name] = secrets[dotenv.app][name]
  BY DEF ToImport
<1> HIDE DEF row
<1>6. secrets'[dotenv.app] = row /\ \A app \in Apps \ {dotenv.app} : secrets'[app] = secrets[app]
  BY <1>1, <1>2 DEF SetupTypeOK
<1>7. AllImported'
  BY <1>2, <1>4, <1>6 DEF AllImported
<1>8. secrets' \in [Apps -> [FlySecrets -> {NotSet, Blank, Plain, Odd, ByHand}]]
  BY <1>2, <1>3 DEF SetupTypeOK
<1> QED BY <1>5, <1>6, <1>7, <1>8

(* Creating a volume.                                                      *)
NoneFewer == \A app \in Apps : volumes'[app] >= volumes[app]
LEMMA OneVolumeMore ==
  ASSUME SetupTypeOK, CreateVolume
  PROVE  volumes' \in [Apps -> Nat] /\ volumes'[dotenv.app] > 0 /\ NoneFewer
<1>1. dotenv.app \in Apps /\ volumes \in [Apps -> Nat]
  BY DEF SetupTypeOK
<1>2. volumes' = [volumes EXCEPT ![dotenv.app] = @ + 1]
  BY DEF CreateVolume
<1>3. volumes[dotenv.app] \in Nat
  BY <1>1
<1> QED BY <1>1, <1>2, <1>3 DEF NoneFewer

LEMMA SetupRunKeeps == SetupInv /\ SetupRun => SetupInv'
<1> SUFFICES ASSUME SetupTypeOK, SetupProgress, SetupRun PROVE SetupTypeOK' /\ SetupProgress'
  BY DEF SetupInv
<1>1. CASE BeginSetup
  BY <1>1 DEF BeginSetup, cloud, SetupTypeOK, SetupSteps, SetupProgress
<1>2. CASE CheckDotenv
  BY <1>2 DEF CheckDotenv, To, cloud, SetupTypeOK, SetupSteps, SetupProgress, Complete
<1>3. CASE EnsureApp
  BY <1>3 DEF EnsureApp, To, SetupTypeOK, SetupSteps, SetupProgress, Complete
<1>4. CASE ListVolumes \/ CreateVolume
  <2>1. CASE ListVolumes
    BY <2>1 DEF ListVolumes, To, cloud, SetupTypeOK, SetupSteps, SetupProgress, Complete
  <2>2. CASE CreateVolume
    <3>1. /\ at = "create volume" /\ at' = "secrets"
          /\ UNCHANGED <<dotenv, apps, secrets, github, replace, token, changes>>
      BY <2>2 DEF CreateVolume, To
    <3>2. volumes' \in [Apps -> Nat] /\ volumes'[dotenv.app] > 0
      BY <2>2, OneVolumeMore
    <3> QED BY <3>1, <3>2 DEF SetupTypeOK, SetupSteps, SetupProgress, Complete
  <2> QED BY <1>4, <2>1, <2>2
<1>5. CASE ImportSecrets
  <2>1. CASE at' = "github app"
    <3>1. /\ at = "secrets" /\ UNCHANGED <<dotenv, apps, volumes, github, replace, token, changes>>
      BY <1>5, <2>1 DEF ImportSecrets, To
    <3> QED BY <1>5, <2>1, <3>1, Importing DEF SetupTypeOK, SetupSteps, SetupProgress, Complete
  <2>2. CASE at' = "ended" /\ UNCHANGED secrets
    BY <1>5, <2>2 DEF ImportSecrets, To, SetupTypeOK, SetupSteps, SetupProgress
  <2> QED BY <1>5, <2>1, <2>2 DEF ImportSecrets, To
<1>6. CASE EnsureGithubApp
  <2>1. /\ at = "github app" /\ at' = "token"
        /\ UNCHANGED <<dotenv, apps, volumes, secrets, replace, token, changes>>
    BY <1>6 DEF EnsureGithubApp, To
  <2>2. /\ github' \in [app : Apps \cup {NotSet}, token : Apps \cup {NotSet}]
        /\ github'.app # NotSet
    BY <1>6, FlySetupAssumption DEF EnsureGithubApp, SetupTypeOK
  <2>3. SetupTypeOK'
    BY <2>1, <2>2 DEF SetupTypeOK, SetupSteps
  <2>4. Complete /\ AllImported /\ dotenv.app \in apps /\ volumes[dotenv.app] > 0
    BY <2>1 DEF SetupProgress
  <2>5. Complete' /\ AllImported'
    BY <2>1, <2>4 DEF Complete, AllImported
  <2> QED BY <2>1, <2>2, <2>3, <2>4, <2>5 DEF SetupProgress
<1>7. CASE CreateToken
  <2>1. at = "token" /\ UNCHANGED <<dotenv, cloud, replace, changes>>
    BY <1>7 DEF CreateToken
  <2>2. \/ WantsToken /\ at' = "store" /\ token' \in {dotenv.app, NotSet}
        \/ at' = "done" /\ UNCHANGED token
    BY <1>7 DEF CreateToken
  <2>3. SetupTypeOK'
    BY <2>1, <2>2 DEF cloud, SetupTypeOK, SetupSteps
  <2>4. Complete' /\ AllImported' /\ (WantsToken => WantsToken')
    BY <2>1 DEF SetupProgress, cloud, Complete, AllImported, WantsToken
  <2> QED BY <2>1, <2>2, <2>3, <2>4 DEF SetupProgress, cloud
<1>8. CASE StoreToken
  BY <1>8 DEF StoreToken, To, SetupTypeOK, SetupSteps, SetupProgress
<1>9. CASE SetupFails
  BY <1>9 DEF SetupFails, cloud, SetupTypeOK, SetupSteps, SetupProgress
<1> QED BY <1>1, <1>2, <1>3, <1>4, <1>5, <1>6, <1>7, <1>8, <1>9 DEF SetupRun

(* Between runs there is nothing a run has done to be kept.                *)
LEMMA OperatorKeeps == SetupInv /\ (FillIn \/ SetByHand \/ SetOnGithub) => SetupInv'
<1> SUFFICES ASSUME SetupTypeOK, SetupProgress, FillIn \/ SetByHand \/ SetOnGithub
             PROVE  SetupTypeOK' /\ SetupProgress'
  BY DEF SetupInv
<1>1. at \in {"ended", "done"} /\ UNCHANGED <<at, replace, token, apps, volumes>>
  BY DEF FillIn, SetByHand, SetOnGithub, ByOperator, cloud
<1>2. SetupProgress'
  BY <1>1 DEF SetupProgress
<1>3. CASE FillIn
  BY <1>1, <1>2, <1>3 DEF FillIn, cloud, SetupTypeOK
<1>4. CASE SetByHand
  <2>1. secrets' \in [Apps -> [FlySecrets -> {NotSet, Blank, Plain, Odd, ByHand}]]
    BY <1>4 DEF SetByHand, SetupTypeOK
  <2> QED BY <1>1, <1>2, <1>4, <2>1 DEF SetByHand, SetupTypeOK
<1>5. CASE SetOnGithub
  <2>1. github' \in [app : Apps \cup {NotSet}, token : Apps \cup {NotSet}]
    BY <1>5 DEF SetOnGithub, SetupTypeOK
  <2> QED BY <1>1, <1>2, <1>5, <2>1 DEF SetOnGithub, SetupTypeOK
<1> QED BY <1>3, <1>4, <1>5

(* What SetupOnlyAdds says of a step.                                      *)
OnlyAdds ==
  /\ apps \subseteq apps' /\ NoneFewer
  /\ \A app \in Apps, name \in FlySecrets :
       secrets[app][name] # NotSet => secrets'[app][name] = secrets[app][name]
  /\ github.app # NotSet => github'.app = github.app
  /\ github'.token # github.token => github'.token = dotenv.app /\ (replace \/ github.token = NotSet)
LeavesNothingMissing ==
  /\ dotenv.app \in apps /\ volumes[dotenv.app] > 0
  /\ \A name \in Passwords : secrets[dotenv.app][name] # NotSet
  /\ \A name \in FlySecrets : dotenv.values[name] # Blank => secrets[dotenv.app][name] # NotSet
  /\ github'.app # NotSet /\ github'.token # NotSet

LEMMA SetupRunOnlyAdds ==
  ASSUME SetupInv, SetupRun PROVE OnlyAdds /\ (at' = "done" => LeavesNothingMissing)
<1>1. SetupTypeOK /\ SetupProgress /\ (UNCHANGED volumes => NoneFewer)
  BY DEF SetupInv, SetupTypeOK, NoneFewer
<1>2. CASE BeginSetup \/ CheckDotenv \/ SetupFails
  <2>1. UNCHANGED cloud /\ at' # "done"
    BY <1>2 DEF BeginSetup, CheckDotenv, SetupFails, To
  <2> QED BY <1>1, <2>1 DEF cloud, OnlyAdds
<1>3. CASE EnsureApp \/ ListVolumes \/ CreateVolume
  <2>1. UNCHANGED <<secrets, github>> /\ apps \subseteq apps' /\ at' # "done"
    BY <1>3 DEF EnsureApp, ListVolumes, CreateVolume, To, cloud
  <2>2. NoneFewer
    BY <1>1, <1>3, OneVolumeMore DEF EnsureApp, ListVolumes, cloud
  <2> QED BY <2>1, <2>2 DEF OnlyAdds
<1>4. CASE ImportSecrets
  <2>1. UNCHANGED <<apps, volumes, github>> /\ at' \in {"ended", "github app"}
        /\ (at' = "ended" => UNCHANGED secrets)
    BY <1>4 DEF ImportSecrets, To
  <2>2. at' = "github app" =>
          \A app \in Apps, name \in FlySecrets :
            secrets[app][name] # NotSet => secrets'[app][name] = secrets[app][name]
    BY <1>1, <1>4, Importing
  <2> QED BY <1>1, <2>1, <2>2 DEF OnlyAdds
<1>5. CASE EnsureGithubApp
  <2>1. UNCHANGED <<apps, volumes, secrets>> /\ at' # "done"
    BY <1>5 DEF EnsureGithubApp, To
  <2>2. github'.token = github.token /\ (github.app # NotSet => github'.app = github.app)
    BY <1>1, <1>5 DEF EnsureGithubApp, SetupTypeOK
  <2> QED BY <1>1, <2>1, <2>2 DEF OnlyAdds
<1>6. ASSUME at \in {"token", "store"}, github'.app = github.app, github'.token # NotSet
      PROVE  LeavesNothingMissing
  <2>1. Complete /\ AllImported /\ dotenv.app \in apps /\ volumes[dotenv.app] > 0
        /\ github.app # NotSet
    BY <1>1, <1>6 DEF SetupProgress
  <2> QED BY <1>6, <2>1 DEF Complete, AllImported, LeavesNothingMissing, FlySecrets
<1>7. CASE CreateToken
  <2>1. at = "token" /\ UNCHANGED cloud /\ (at' = "done" => github.token # NotSet)
    BY <1>7 DEF CreateToken, WantsToken
  <2> QED BY <1>1, <1>6, <2>1 DEF cloud, OnlyAdds
<1>8. CASE StoreToken
  <2>1. at = "store" /\ UNCHANGED <<apps, volumes, secrets>> /\ token # NotSet
    BY <1>8 DEF StoreToken, To
  <2>2. github'.app = github.app /\ github'.token = token
    BY <1>1, <1>8 DEF StoreToken, SetupTypeOK
  <2>3. token = dotenv.app /\ WantsToken
    BY <1>1, <2>1 DEF SetupProgress
  <2> QED BY <1>1, <1>6, <2>1, <2>2, <2>3 DEF OnlyAdds, WantsToken
<1> QED BY <1>2, <1>3, <1>4, <1>5, <1>7, <1>8 DEF SetupRun

LEMMA SetupInvariant == SetupSpec => []SetupInv
<1>1. SetupInit => SetupInv
  <2> SUFFICES ASSUME SetupInit PROVE SetupInv
    OBVIOUS
  <2>1. (CHOOSE app \in Apps : TRUE) \in Apps
    BY FlySetupAssumption
  <2> QED BY <2>1 DEF SetupInit, SetupInv, SetupTypeOK, SetupProgress, SetupSteps
<1>2. SetupInv /\ [SetupNext]_setupVars => SetupInv'
  <2>1. SetupInv /\ UNCHANGED setupVars => SetupInv'
    <3> SUFFICES ASSUME SetupInv, UNCHANGED setupVars PROVE SetupInv'
      OBVIOUS
    <3>1. /\ Complete <=> Complete'
          /\ AllImported <=> AllImported'
          /\ WantsToken <=> WantsToken'
      BY DEF setupVars, cloud, Complete, AllImported, WantsToken
    <3>2. SetupTypeOK'
      BY DEF setupVars, cloud, SetupInv, SetupTypeOK
    <3> QED BY <3>1, <3>2 DEF setupVars, cloud, SetupInv, SetupProgress
  <2> QED BY <2>1, SetupRunKeeps, OperatorKeeps DEF SetupNext
<1> QED BY <1>1, <1>2, PTL DEF SetupSpec

(* "Safe to re-run": wherever the runs before it ended, and whatever an    *)
(* operator has done between them, a run never changes what exists but the *)
(* token it is told to replace, never stores a token that isn't for the    *)
(* app, and if it gets to its end leaves nothing missing that .env has.    *)
(* (It may make a second volume.)                                          *)
THEOREM SetupIsSafeToRerun == SetupSpec => SetupOnlyAdds
<1>1. SetupInv /\ [SetupNext]_setupVars =>
        [ByRun => OnlyAdds /\ (at' = "done" => LeavesNothingMissing)]_setupVars
  <2>1. FillIn \/ SetByHand \/ SetOnGithub => ~ByRun
    BY DEF FillIn, SetByHand, SetOnGithub, ByOperator, ByRun
  <2> QED BY <2>1, SetupRunOnlyAdds DEF SetupNext
<1>2. [ByRun => OnlyAdds /\ (at' = "done" => LeavesNothingMissing)]_setupVars =>
        [ByRun =>
          /\ apps \subseteq apps' /\ \A app \in Apps : volumes'[app] >= volumes[app]
          /\ \A app \in Apps, name \in FlySecrets :
               secrets[app][name] # NotSet => secrets'[app][name] = secrets[app][name]
          /\ github.app # NotSet => github'.app = github.app
          /\ github'.token # github.token =>
               github'.token = dotenv.app /\ (replace \/ github.token = NotSet)
          /\ at' = "done" =>
               /\ dotenv.app \in apps /\ volumes[dotenv.app] > 0
               /\ \A name \in Passwords : secrets[dotenv.app][name] # NotSet
               /\ \A name \in FlySecrets :
                    dotenv.values[name] # Blank => secrets[dotenv.app][name] # NotSet
               /\ github'.app # NotSet /\ github'.token # NotSet]_setupVars
  BY DEF OnlyAdds, NoneFewer, LeavesNothingMissing
<1> QED BY <1>1, <1>2, SetupInvariant, PTL DEF SetupSpec, SetupOnlyAdds

------------------------------------------------------------------------------
(* wait_for_base_coverage.py.                                              *)

WaitSteps == {"begin", "codecov", "github", "sleep", "over"}
WaitTypeOK ==
  /\ now \in Nat /\ doingSince \in 0 .. now /\ ciSince \in 0 .. now
  /\ ci \in {"none", "running", "succeeded", "failed"} /\ report \in BOOLEAN
  /\ doing \in WaitSteps /\ finishedAt \in (0 .. now) \cup {Never}
  /\ told \in {"nothing", "report", "failed", "finished", "timeout"}

(* How long each step may last, from when it may begin.                    *)
InTime ==
  /\ doing = "begin" => now = 0
  /\ doing = "sleep" => doingSince + Interval <= Timeout /\ now - doingSince <= Interval
  /\ doing = "codecov" => /\ doingSince <= Timeout /\ now - doingSince <= RequestTimeout
                          /\ now <= Timeout + 1
  /\ doing = "github" => /\ doingSince <= Timeout + 1 /\ now - doingSince <= RequestTimeout
                         /\ now <= Timeout + 2
  /\ now <= Timeout + 2

(* When the base's CI was last looked at, if the script is past that.      *)
LastLook ==
  IF doing = "sleep" THEN doingSince
  ELSE IF doing = "codecov" THEN doingSince - Interval
  ELSE doingSince - Interval - RequestTimeout

(* The CI that was found finished hasn't run since, or runs again since    *)
(* that look at it.                                                        *)
FinishedThen ==
  finishedAt # Never /\ Waiting =>
    IF ci = "running" THEN ciSince >= LastLook ELSE ciSince <= finishedAt

(* What the script has told is why.                                        *)
ToldForCause ==
  /\ told = "nothing" <=> doing # "over"
  /\ doing = "begin" => finishedAt = Never
  /\ told = "failed" => ci = "failed"
  /\ told = "finished" => ci \in {"none", "succeeded"} /\ now - ciSince >= Grace
  /\ told = "timeout" => now + Interval > Timeout
WaitInv == WaitTypeOK /\ InTime /\ FinishedThen /\ ToldForCause

LEMMA LimitIs ==
  ASSUME WaitTypeOK, doing \in {"codecov", "github"}
  PROVE  Limit \in Nat /\ Limit <= RequestTimeout /\ (Limit <= Timeout - doingSince \/ Limit <= 1)
<1> DEFINE left == Max({Timeout - doingSince, 1})
<1>1. Timeout - doingSince \in Int /\ RequestTimeout \in Nat \ {0}
  BY BaseCoverageAssumption DEF WaitTypeOK
<1>2. /\ left \in {Timeout - doingSince, 1}
      /\ left >= 1
  <2>1. \E x \in {Timeout - doingSince, 1} : \A y \in {Timeout - doingSince, 1} : x >= y
    BY <1>1
  <2> QED BY <1>1, <2>1 DEF Max
<1> HIDE DEF left
<1>3. Min({RequestTimeout, left}) \in {RequestTimeout, left}
      /\ Min({RequestTimeout, left}) <= RequestTimeout /\ Min({RequestTimeout, left}) <= left
  <2>1. left \in Int
    BY <1>1, <1>2
  <2>2. \E x \in {RequestTimeout, left} : \A y \in {RequestTimeout, left} : x =< y
    BY <1>1, <2>1
  <2> QED BY <1>1, <2>1, <2>2 DEF Min
<1>4. Limit = Min({RequestTimeout, left})
  BY DEF Limit, left
<1> QED BY <1>1, <1>2, <1>3, <1>4

LEMMA ScriptWaits ==
  ASSUME WaitInv, BeginWait \/ AskCodecov \/ AskGithub \/ Wake PROVE WaitInv'
<1>1. WaitTypeOK /\ InTime /\ FinishedThen /\ ToldForCause
  BY DEF WaitInv
<1>2. CASE BeginWait
  BY <1>1, <1>2, BaseCoverageAssumption
     DEF BeginWait, Turn, WaitInv, WaitTypeOK, WaitSteps, InTime, FinishedThen, ToldForCause
<1>3. CASE AskCodecov
  <2>1. /\ doing = "codecov" /\ doing' \in {"over", "github"} /\ doingSince' = now
        /\ told' = IF doing' = "over" THEN "report" ELSE "nothing"
        /\ UNCHANGED <<now, ci, ciSince, report, finishedAt>>
    BY <1>1, <1>3 DEF AskCodecov, Turn, base, ToldForCause
  <2>2. FinishedThen'
    BY <1>1, <2>1, BaseCoverageAssumption DEF FinishedThen, Waiting, LastLook, InTime, WaitTypeOK
  <2> QED BY <1>1, <2>1, <2>2, BaseCoverageAssumption
          DEF WaitInv, WaitTypeOK, WaitSteps, InTime, ToldForCause
<1>4. CASE Wake
  <2>1. /\ doing = "sleep" /\ doing' = "codecov" /\ doingSince' = now
        /\ now - doingSince = Interval
        /\ UNCHANGED <<now, ci, ciSince, report, finishedAt, told>>
    BY <1>4 DEF Wake, Turn, base
  <2>2. FinishedThen'
    BY <1>1, <2>1, BaseCoverageAssumption DEF FinishedThen, Waiting, LastLook, WaitTypeOK
  <2> QED BY <1>1, <2>1, <2>2, BaseCoverageAssumption
          DEF WaitInv, WaitTypeOK, WaitSteps, InTime, ToldForCause
<1>5. CASE AskGithub
  <2>1. PICK state \in Found :
          IF state = "failed" THEN GiveUpOn("failed") /\ UNCHANGED finishedAt
          ELSE /\ finishedAt' = FinishedSince(state)
               /\ IF finishedAt' # Never /\ now - finishedAt' >= Grace THEN GiveUpOn("finished")
                  ELSE IF now + Interval > Timeout THEN GiveUpOn("timeout")
                  ELSE Turn("sleep") /\ UNCHANGED told
    BY <1>5 DEF AskGithub
  <2>2. doing = "github" /\ UNCHANGED <<now, ci, ciSince, report>> /\ doingSince' = now
    BY <1>5, <2>1 DEF AskGithub, base, GiveUpOn, Turn
  <2>3. state \in {ci, "running"} /\ Waiting /\ told = "nothing"
    BY <1>1, <2>2 DEF Found, Waiting, ToldForCause
  <2>4. CASE state = "failed"
    <3>1. ci = "failed" /\ doing' = "over" /\ told' = "failed" /\ finishedAt' = finishedAt
      BY <2>1, <2>3, <2>4 DEF GiveUpOn, Turn
    <3> QED BY <1>1, <2>2, <3>1 DEF WaitInv, WaitTypeOK, WaitSteps, InTime, FinishedThen, Waiting,
                                    ToldForCause
  <2>5. CASE state # "failed"
    <3>1. finishedAt' \in (0 .. now) \cup {Never}
      BY <1>1, <2>1, <2>5 DEF FinishedSince, WaitTypeOK
    <3>2. finishedAt' # Never => /\ ci \in {"none", "succeeded"} /\ ciSince <= finishedAt'
      BY <1>1, <2>1, <2>3, <2>5 DEF FinishedSince, FinishedThen, WaitTypeOK
    <3>3. CASE finishedAt' # Never /\ now - finishedAt' >= Grace
      <4>1. doing' = "over" /\ told' = "finished"
        BY <2>1, <2>5, <3>3 DEF GiveUpOn, Turn
      <4>2. now - ciSince >= Grace
        BY <1>1, <3>1, <3>2, <3>3, BaseCoverageAssumption DEF WaitTypeOK
      <4>3. WaitTypeOK'
        BY <1>1, <2>2, <3>1, <4>1 DEF WaitTypeOK, WaitSteps
      <4>4. ToldForCause'
        BY <2>2, <3>2, <3>3, <4>1, <4>2 DEF ToldForCause
      <4> QED BY <1>1, <2>2, <4>1, <4>3, <4>4 DEF WaitInv, InTime, FinishedThen, Waiting
    <3>4. CASE ~(finishedAt' # Never /\ now - finishedAt' >= Grace) /\ now + Interval > Timeout
      <4>1. doing' = "over" /\ told' = "timeout"
        BY <2>1, <2>5, <3>4 DEF GiveUpOn, Turn
      <4>2. WaitTypeOK'
        BY <1>1, <2>2, <3>1, <4>1 DEF WaitTypeOK, WaitSteps
      <4> QED BY <1>1, <2>2, <3>4, <4>1, <4>2 DEF WaitInv, InTime, FinishedThen, Waiting, ToldForCause
    <3>5. CASE ~(finishedAt' # Never /\ now - finishedAt' >= Grace) /\ ~(now + Interval > Timeout)
      <4>1. doing' = "sleep" /\ told' = "nothing"
        BY <2>1, <2>3, <2>5, <3>5 DEF Turn
      <4>2. now + Interval <= Timeout /\ now - now <= Interval
        BY <1>1, <3>5, BaseCoverageAssumption DEF WaitTypeOK
      <4>3. WaitTypeOK'
        BY <1>1, <2>2, <3>1, <4>1 DEF WaitTypeOK, WaitSteps
      <4>4. InTime'
        BY <1>1, <2>2, <4>1, <4>2 DEF InTime
      <4>5. FinishedThen'
        BY <2>2, <3>2, <4>1 DEF FinishedThen
      <4> QED BY <2>2, <4>1, <4>3, <4>4, <4>5 DEF WaitInv, ToldForCause
    <3> QED BY <3>3, <3>4, <3>5
  <2> QED BY <2>4, <2>5
<1> QED BY <1>2, <1>3, <1>4, <1>5

(* A second passes only while a request or a sleep may still last.         *)
LEMMA SecondPasses == ASSUME WaitInv, Second PROVE WaitInv'
<1>1. WaitTypeOK /\ InTime /\ FinishedThen /\ ToldForCause
  BY DEF WaitInv
<1>2. /\ doing \in {"codecov", "github", "sleep"} /\ now - doingSince < Limit /\ now' = now + 1
      /\ UNCHANGED <<ci, ciSince, report, doing, doingSince, finishedAt, told>>
  BY DEF Second, base
<1>3. InTime'
  <2>1. CASE doing = "sleep"
    BY <1>1, <1>2, <2>1, BaseCoverageAssumption DEF Limit, InTime, WaitTypeOK
  <2>2. CASE doing \in {"codecov", "github"}
    <3>1. Limit \in Nat /\ Limit <= RequestTimeout /\ (Limit <= Timeout - doingSince \/ Limit <= 1)
      BY <1>1, <2>2, LimitIs
    <3> QED BY <1>1, <1>2, <2>2, <3>1, BaseCoverageAssumption DEF InTime, WaitTypeOK
  <2> QED BY <1>2, <2>1, <2>2
<1>4. WaitTypeOK'
  BY <1>1, <1>2 DEF WaitTypeOK
<1>5. FinishedThen'
  BY <1>1, <1>2 DEF FinishedThen, Waiting, LastLook
<1>6. ToldForCause'
  BY <1>1, <1>2 DEF ToldForCause
<1> QED BY <1>3, <1>4, <1>5, <1>6 DEF WaitInv

(* A run of the base's CI is too long to be missed between two looks.      *)
LEMMA CiMoves == ASSUME WaitInv, CiRuns \/ CiEnds \/ Processed PROVE WaitInv'
<1>1. WaitTypeOK /\ InTime /\ FinishedThen /\ ToldForCause
  BY DEF WaitInv
<1>2. Waiting /\ UNCHANGED <<now, doing, doingSince, finishedAt, told>>
  BY DEF CiRuns, CiEnds, Processed
<1>3. InTime'
  BY <1>1, <1>2 DEF InTime
<1>4. ToldForCause'
  BY <1>1, <1>2 DEF ToldForCause, Waiting
<1>5. WaitTypeOK'
  <2>1. ci' \in {"none", "running", "succeeded", "failed"} /\ ciSince' \in {ciSince, now}
        /\ report' \in BOOLEAN
    BY <1>1 DEF CiRuns, CiEnds, Processed, WaitTypeOK
  <2> QED BY <1>1, <1>2, <2>1 DEF WaitTypeOK
<1>6. CASE CiRuns
  <2>1. ci' = "running" /\ ciSince' = now
    BY <1>6 DEF CiRuns
  <2>2. FinishedThen'
    BY <1>1, <1>2, <2>1, BaseCoverageAssumption DEF FinishedThen, Waiting, LastLook, WaitTypeOK
  <2> QED BY <1>3, <1>4, <1>5, <2>2 DEF WaitInv
<1>7. CASE CiEnds
  <2>1. ci = "running" /\ now - ciSince > Interval + 2 * RequestTimeout
    BY <1>7 DEF CiEnds
  <2>2. doing \in {"codecov", "github", "sleep"}
    BY <1>1, <1>2 DEF Waiting, WaitTypeOK, WaitSteps
  <2>3. LastLook >= now - Interval - 2 * RequestTimeout
    BY <1>1, <2>2, BaseCoverageAssumption DEF LastLook, InTime, WaitTypeOK
  <2>4. LastLook \in Int
    BY <1>1, BaseCoverageAssumption DEF LastLook, WaitTypeOK
  <2>5. finishedAt = Never
    <3>1. ciSince < LastLook
      BY <1>1, <2>1, <2>3, <2>4, BaseCoverageAssumption DEF WaitTypeOK
    <3>2. ciSince \in Int
      BY <1>1 DEF WaitTypeOK
    <3> QED BY <1>1, <1>2, <2>1, <2>4, <3>1, <3>2 DEF FinishedThen
  <2>6. FinishedThen'
    BY <1>2, <2>5 DEF FinishedThen
  <2> QED BY <1>3, <1>4, <1>5, <2>6 DEF WaitInv
<1>8. CASE Processed
  <2>1. FinishedThen'
    BY <1>1, <1>2, <1>8 DEF Processed, FinishedThen, Waiting, LastLook
  <2> QED BY <1>3, <1>4, <1>5, <2>1 DEF WaitInv
<1> QED BY <1>6, <1>7, <1>8

(* However the base's CI is run again and requests fail or drag on, the    *)
(* script gives up only because that CI has failed, or has been finished   *)
(* for the grace period without a run since, or the time is all but up;    *)
(* and it is never more than two seconds over its time.                    *)
THEOREM GivesUpOnlyForCause == WaitSpec => []GivesUpForCause
<1>1. WaitInit => WaitInv
  <2> SUFFICES ASSUME WaitInit PROVE WaitInv
    OBVIOUS
  <2>1. WaitTypeOK
    <3>1. report \in BOOLEAN
      BY DEF WaitInit
    <3>2. now = 0 /\ doingSince = 0 /\ ciSince = 0
      BY DEF WaitInit
    <3>3. now \in Nat /\ doingSince \in 0 .. now /\ ciSince \in 0 .. now
      BY <3>2
    <3> QED BY <3>1, <3>3 DEF WaitInit, WaitTypeOK, WaitSteps
  <2>2. InTime
    BY BaseCoverageAssumption DEF WaitInit, InTime
  <2>3. FinishedThen /\ ToldForCause
    BY DEF WaitInit, FinishedThen, ToldForCause
  <2> QED BY <2>1, <2>2, <2>3 DEF WaitInv
<1>2. WaitInv /\ [WaitNext]_waitVars => WaitInv'
  <2>1. WaitInv /\ UNCHANGED waitVars => WaitInv'
    BY DEF waitVars, WaitInv, WaitTypeOK, InTime, FinishedThen, Waiting, LastLook, ToldForCause
  <2> QED BY <2>1, ScriptWaits, SecondPasses, CiMoves DEF WaitNext
<1>3. WaitInv => GivesUpForCause
  BY DEF WaitInv, ToldForCause, InTime, GivesUpForCause
<1> QED BY <1>1, <1>2, <1>3, PTL DEF WaitSpec


------------------------------------------------------------------------------
(* The reports on a pull request.                                          *)

CommentRecords ==
  [author : {"other", Us}, kind : Kinds, commit : Nat, hidden : BOOLEAN, deleted : BOOLEAN]
JobSteps == {"check", "post", "list", "edit", "delete", "look", "hide"}
JobRecords == [step : JobSteps, commit : Nat, todo : SUBSET Nat, own : Nat \cup {None}]
ReportTypeOK ==
  /\ head \in Nat /\ comments \in Seq(CommentRecords)
  /\ job \in [Kinds -> JobRecords \cup {None}]
  /\ Len(comments) >= 1 /\ comments[1].author = "other"

Newest(indices) == CHOOSE i \in indices : \A j \in indices : j <= i

(* A job that has looked at the head posts on no older commit than any     *)
(* report there is of its kind; and what there is for it to see to is what *)
(* it found, since no other job of the kind runs.                          *)
NothingNewer(kind) == \A i \in Marked(kind) : comments[i].commit <= job[kind].commit
EditingInv(kind) ==
  /\ job[kind].step \in {"list", "edit", "delete"} => kind \notin HidingKinds
  /\ job[kind].step = "post" /\ kind \notin HidingKinds => Marked(kind) = {}
  /\ job[kind].step = "edit" => job[kind].todo = Marked(kind) /\ Marked(kind) # {}
  /\ job[kind].step = "delete" =>
       \E m \in Marked(kind) :
         /\ m \notin job[kind].todo /\ Marked(kind) = job[kind].todo \cup {m}
         /\ \A j \in Marked(kind) : m <= j
         /\ comments[m].commit = job[kind].commit
HidingInv(kind) ==
  /\ job[kind].step \in {"look", "hide"} =>
       /\ kind \in HidingKinds /\ job[kind].own \in Visible(kind)
       /\ \A j \in Visible(kind) : j <= job[kind].own
       /\ comments[job[kind].own].commit = job[kind].commit
  /\ job[kind].step = "hide" =>
       job[kind].own \notin job[kind].todo /\ Visible(kind) = job[kind].todo \cup {job[kind].own}
KindInv(kind) ==
  /\ \A i \in Marked(kind) : comments[i].commit <= head
  /\ kind \notin HidingKinds => Visible(kind) = Marked(kind)
  /\ job[kind] # None =>
       /\ job[kind].commit <= head
       /\ job[kind].step # "check" => NothingNewer(kind)
       /\ EditingInv(kind) /\ HidingInv(kind)
ReportInv == ReportTypeOK /\ \A kind \in Kinds : KindInv(kind)

------------------------------------------------------------------------------
(* The first and the last of a set of numbers.                             *)

LEMMA OldestIs ==
  ASSUME NEW V \in SUBSET Nat, NEW m \in V, \A j \in V : m <= j PROVE Oldest(V) = m
<1>1. /\ Oldest(V) \in V
      /\ \A j \in V : Oldest(V) <= j
  BY DEF Oldest
<1>2. m \in Nat /\ Oldest(V) \in Nat
  BY <1>1
<1>3. m <= Oldest(V) /\ Oldest(V) <= m
  BY <1>1
<1> HIDE DEF Oldest
<1> QED BY <1>2, <1>3

LEMMA NewestIs ==
  ASSUME NEW V \in SUBSET Nat, NEW m \in V, \A j \in V : j <= m PROVE Newest(V) = m
<1>1. /\ Newest(V) \in V
      /\ \A j \in V : j <= Newest(V)
  BY DEF Newest
<1>2. m \in Nat /\ Newest(V) \in Nat
  BY <1>1
<1>3. m <= Newest(V) /\ Newest(V) <= m
  BY <1>1
<1> QED BY <1>2, <1>3

Below == {pair \in Nat \X Nat : pair[1] < pair[2]}
LEMMA BelowIsWellFounded == IsWellFoundedOn(Below, Nat)
BY NatLessThanWellFounded DEF OpToRel, Below

LEMMA OldestExists ==
  ASSUME NEW V \in SUBSET Nat, V # {}
  PROVE  Oldest(V) \in V /\ \A j \in V : Oldest(V) <= j
<1>1. PICK m \in V : \A j \in V : ~ (<<j, m>> \in Below)
  BY BelowIsWellFounded, WFMin
<1>2. \A j \in V : m <= j
  <2> SUFFICES ASSUME NEW j \in V PROVE ~(j < m)
    OBVIOUS
  <2>1. j \in Nat /\ m \in Nat
    OBVIOUS
  <2> QED BY <1>1, <2>1 DEF Below
<1> QED BY <1>2 DEF Oldest

LEMMA NewestExists ==
  ASSUME NEW n \in Nat, NEW V \in SUBSET (1 .. n), V # {}
  PROVE  Newest(V) \in V /\ \A j \in V : j <= Newest(V)
<1> DEFINE W == {w \in Nat : \E j \in V : w = n - j}
<1>1. \A j \in V : n - j \in W
  OBVIOUS
<1>2. W \in SUBSET Nat /\ W # {}
  BY <1>1
<1>3. Oldest(W) \in W /\ \A w \in W : Oldest(W) <= w
  <2> HIDE DEF W
  <2> QED BY <1>2, OldestExists
<1>4. PICK m \in V : Oldest(W) = n - m
  BY <1>3
<1>5. \A j \in V : j <= m
  BY <1>1, <1>3, <1>4
<1> QED BY <1>5 DEF Newest

------------------------------------------------------------------------------
(* What a step does to the comments.                                       *)

KindSame(kind) ==
  /\ Marked(kind)' = Marked(kind) /\ Visible(kind)' = Visible(kind)
  /\ \A i \in Marked(kind) : comments'[i].commit = comments[i].commit

LEMMA IndicesAre ==
  ASSUME ReportTypeOK, NEW kind
  PROVE  /\ Marked(kind) \subseteq 1 .. Len(comments) /\ Visible(kind) \subseteq Marked(kind)
         /\ 1 \notin Marked(kind) /\ Len(comments) \in Nat
         /\ \A i \in 1 .. Len(comments) : comments[i] \in CommentRecords
BY DEF ReportTypeOK, Marked, Visible, Ours, Us

LEMMA OneChanges ==
  ASSUME ReportTypeOK, NEW kind \in Kinds, NEW i \in Marked(kind), NEW x \in CommentRecords,
         x.author = Us, x.kind = kind, comments' = [comments EXCEPT ![i] = x]
  PROVE  /\ comments' \in Seq(CommentRecords) /\ Len(comments') = Len(comments)
         /\ comments'[1] = comments[1]
         /\ comments'[i] = x /\ \A j \in Marked(kind) \ {i} : comments'[j] = comments[j]
         /\ \A k \in Kinds \ {kind} : KindSame(k)
         /\ Marked(kind)' = IF x.deleted THEN Marked(kind) \ {i} ELSE Marked(kind)
         /\ Visible(kind)' = IF x.deleted \/ x.hidden THEN Visible(kind) \ {i}
                             ELSE Visible(kind) \cup {i}
<1>1. /\ i \in 1 .. Len(comments) /\ i # 1 /\ Len(comments) \in Nat
      /\ comments[i].kind = kind
  BY IndicesAre DEF Marked, Ours
<1>2. comments' \in Seq(CommentRecords) /\ Len(comments') = Len(comments)
  BY <1>1 DEF ReportTypeOK
<1>3. comments'[i] = x /\ \A j \in 1 .. Len(comments) : j # i => comments'[j] = comments[j]
  BY <1>1 DEF ReportTypeOK
<1>4. DOMAIN comments = 1 .. Len(comments) /\ DOMAIN comments' = 1 .. Len(comments)
  BY <1>2 DEF ReportTypeOK
<1>5. comments'[1] = comments[1] /\ \A j \in Marked(kind) \ {i} : comments'[j] = comments[j]
  BY <1>1, <1>3, <1>4 DEF ReportTypeOK, Marked
<1>6. ASSUME NEW k \in Kinds \ {kind} PROVE KindSame(k)
  BY <1>1, <1>3, <1>4 DEF KindSame, Marked, Visible, Ours
<1>7. Marked(kind)' = IF x.deleted THEN Marked(kind) \ {i} ELSE Marked(kind)
  BY <1>1, <1>3, <1>4 DEF Marked, Ours
<1>8. Visible(kind)' = IF x.deleted \/ x.hidden THEN Visible(kind) \ {i} ELSE Visible(kind) \cup {i}
  BY <1>1, <1>3, <1>5, <1>7 DEF Visible
<1> QED BY <1>2, <1>3, <1>5, <1>6, <1>7, <1>8

LEMMA OneIsPosted ==
  ASSUME ReportTypeOK, NEW kind \in Kinds, NEW c \in Nat,
         comments' = Append(comments, Comment(Us, kind, c))
  PROVE  /\ comments' \in Seq(CommentRecords) /\ Len(comments') = Len(comments) + 1
         /\ comments'[1] = comments[1]
         /\ comments'[Len(comments) + 1].commit = c
         /\ \A j \in Marked(kind) : comments'[j] = comments[j]
         /\ \A k \in Kinds \ {kind} : KindSame(k)
         /\ Marked(kind)' = Marked(kind) \cup {Len(comments) + 1}
         /\ Visible(kind)' = Visible(kind) \cup {Len(comments) + 1}
<1> DEFINE x == Comment(Us, kind, c)
           n == Len(comments) + 1
<1>1. x \in CommentRecords
  BY DEF Comment, CommentRecords
<1>2. Len(comments) \in Nat /\ Len(comments) >= 1 /\ comments \in Seq(CommentRecords)
  BY DEF ReportTypeOK
<1>3. comments' \in Seq(CommentRecords) /\ Len(comments') = n
  BY <1>1, <1>2
<1>4. comments'[n] = x /\ \A j \in 1 .. Len(comments) : comments'[j] = comments[j]
  BY <1>1, <1>2
<1>5. /\ DOMAIN comments = 1 .. Len(comments) /\ DOMAIN comments' = 1 .. n
      /\ 1 .. n = (1 .. Len(comments)) \cup {n} /\ n \notin 1 .. Len(comments)
  BY <1>2, <1>3
<1>6. x.author = Us /\ x.kind = kind /\ x.commit = c /\ ~x.hidden /\ ~x.deleted
  BY DEF Comment
<1> HIDE DEF x, n
<1>7. comments'[1] = comments[1] /\ \A j \in Marked(kind) : comments'[j] = comments[j]
  BY <1>2, <1>4, <1>5 DEF Marked
<1>8. ASSUME NEW k \in Kinds \ {kind} PROVE KindSame(k)
  BY <1>4, <1>5, <1>6 DEF KindSame, Marked, Visible, Ours
<1>9. Marked(kind)' = Marked(kind) \cup {n}
  BY <1>4, <1>5, <1>6 DEF Marked, Ours
<1>10. Visible(kind)' = Visible(kind) \cup {n}
  BY <1>4, <1>5, <1>6, <1>7, <1>9 DEF Visible, Marked
<1> QED BY <1>3, <1>4, <1>6, <1>7, <1>8, <1>9, <1>10 DEF n


------------------------------------------------------------------------------
(* What is shown.                                                          *)

LEMMA NewestShown ==
  ASSUME NEW kind \in HidingKinds
  PROVE  Shown(kind) = IF Visible(kind) = {} THEN 0 ELSE comments[Newest(Visible(kind))].commit
BY DEF Shown, Newest

LEMMA OldestShown ==
  ASSUME NEW kind \in Kinds \ HidingKinds
  PROVE  Shown(kind) = IF Visible(kind) = {} THEN 0 ELSE comments[Oldest(Visible(kind))].commit
BY DEF Shown

(* Nothing that is shown is newer than all that there is.                  *)
LEMMA ShownIsOneOf ==
  ASSUME ReportTypeOK, NEW kind \in Kinds
  PROVE  Shown(kind) = 0 \/ \E i \in Visible(kind) : Shown(kind) = comments[i].commit
<1>1. Visible(kind) \in SUBSET (1 .. Len(comments)) /\ Len(comments) \in Nat
      /\ Visible(kind) \in SUBSET Nat
  BY IndicesAre
<1>2. CASE kind \in HidingKinds
  BY <1>1, <1>2, NewestShown, NewestExists
<1>3. CASE kind \notin HidingKinds
  BY <1>1, <1>3, OldestShown, OldestExists
<1> QED BY <1>2, <1>3

LEMMA ShownAtMost ==
  ASSUME ReportTypeOK, NEW kind \in Kinds, NEW c \in Nat,
         \A i \in Marked(kind) : comments[i].commit <= c
  PROVE  Shown(kind) <= c /\ Shown(kind) \in Nat
<1>1. Visible(kind) \subseteq Marked(kind) /\ Marked(kind) \subseteq 1 .. Len(comments)
      /\ \A i \in 1 .. Len(comments) : comments[i].commit \in Nat
  BY IndicesAre DEF CommentRecords
<1> QED BY <1>1, ShownIsOneOf

(* What another kind's job, or none, does.                                 *)
LEMMA SameIsShown ==
  ASSUME ReportTypeOK, NEW kind \in Kinds, KindSame(kind)
  PROVE  Shown(kind)' = Shown(kind) /\ Shown(kind) \in Nat
<1>1. Visible(kind) \in SUBSET (1 .. Len(comments)) /\ Len(comments) \in Nat
      /\ Visible(kind) \in SUBSET Nat /\ Visible(kind) \subseteq Marked(kind)
      /\ \A i \in Visible(kind) : comments[i].commit \in Nat
  BY IndicesAre DEF CommentRecords
<1>2. CASE kind \in HidingKinds
  <2>1. Visible(kind) # {} => comments'[Newest(Visible(kind))].commit
                                = comments[Newest(Visible(kind))].commit
    BY <1>1, NewestExists DEF KindSame
  <2>2. Visible(kind)' = Visible(kind)
    BY DEF KindSame
  <2>3. Shown(kind)' = IF Visible(kind)' = {} THEN 0
                       ELSE comments'[Newest(Visible(kind)')].commit
    BY <1>2 DEF Shown, Newest
  <2>4. Visible(kind) # {} => comments[Newest(Visible(kind))].commit \in Nat
    BY <1>1, NewestExists
  <2>5. Shown(kind) = IF Visible(kind) = {} THEN 0 ELSE comments[Newest(Visible(kind))].commit
    BY <1>2, NewestShown
  <2> HIDE DEF Newest
  <2> QED BY <2>1, <2>2, <2>3, <2>4, <2>5
<1>3. CASE kind \notin HidingKinds
  <2>1. Visible(kind) # {} => comments'[Oldest(Visible(kind))].commit
                                = comments[Oldest(Visible(kind))].commit
    BY <1>1, OldestExists DEF KindSame
  <2>2. Visible(kind)' = Visible(kind)
    BY DEF KindSame
  <2>3. Shown(kind)' = IF Visible(kind)' = {} THEN 0
                       ELSE comments'[Oldest(Visible(kind)')].commit
    BY <1>3 DEF Shown
  <2>4. Visible(kind) # {} => comments[Oldest(Visible(kind))].commit \in Nat
    BY <1>1, OldestExists
  <2>5. Shown(kind) = IF Visible(kind) = {} THEN 0 ELSE comments[Oldest(Visible(kind))].commit
    BY <1>3, OldestShown
  <2> HIDE DEF Oldest
  <2> QED BY <2>1, <2>2, <2>3, <2>4, <2>5
<1> QED BY <1>2, <1>3

LEMMA SameKeepsKind ==
  ASSUME ReportTypeOK, NEW kind \in Kinds, KindSame(kind), KindInv(kind),
         job'[kind] = job[kind], head' \in Nat, head' >= head
  PROVE  KindInv(kind)'
<1>1. /\ \A i \in Marked(kind) : comments[i].commit \in Nat
      /\ job[kind] # None => job[kind].commit \in Nat
      /\ Visible(kind) \subseteq Marked(kind)
  BY IndicesAre DEF CommentRecords, ReportTypeOK, JobRecords
<1>2. \A i \in Marked(kind)' : comments'[i].commit <= head'
  BY <1>1 DEF KindInv, KindSame, ReportTypeOK
<1>3. kind \notin HidingKinds => Visible(kind)' = Marked(kind)'
  BY DEF KindInv, KindSame
<1>4. ASSUME job[kind] # None
      PROVE  /\ job'[kind].commit <= head'
             /\ job'[kind].step # "check" => NothingNewer(kind)'
             /\ EditingInv(kind)' /\ HidingInv(kind)'
  <2>1. job'[kind].commit <= head'
    BY <1>1, <1>4 DEF KindInv, ReportTypeOK
  <2>2. job'[kind].step # "check" => NothingNewer(kind)'
    BY <1>4 DEF KindInv, KindSame, NothingNewer
  <2>3. EditingInv(kind)'
    BY <1>4 DEF KindInv, KindSame, EditingInv
  <2>4. HidingInv(kind)'
    BY <1>1, <1>4 DEF KindInv, KindSame, HidingInv
  <2> QED BY <2>1, <2>2, <2>3, <2>4
<1> QED BY <1>2, <1>3, <1>4 DEF KindInv

(* What a step of one kind's job has to show for the invariant and for     *)
(* what is shown of each kind.                                             *)
Stands ==
  /\ ReportInv'
  /\ \A kind \in Kinds : Shown(kind)' >= Shown(kind)
  /\ comments'[1] = comments[1]
LEMMA OneKindMoves ==
  ASSUME ReportInv, NEW kind \in Kinds, \A k \in Kinds \ {kind} : KindSame(k) /\ job'[k] = job[k],
         head' = head, comments' \in Seq(CommentRecords), Len(comments') >= Len(comments),
         comments'[1] = comments[1], job' \in [Kinds -> JobRecords \cup {None}],
         KindInv(kind)', Shown(kind)' >= Shown(kind)
  PROVE  Stands
<1>1. ReportTypeOK /\ head' \in Nat /\ head' >= head
  BY DEF ReportInv, ReportTypeOK
<1>2. Len(comments) \in Nat /\ Len(comments') \in Nat /\ Len(comments') >= 1
  BY <1>1 DEF ReportTypeOK
<1>3. ReportTypeOK'
  BY <1>1, <1>2 DEF ReportTypeOK
<1>4. ASSUME NEW k \in Kinds \ {kind}
      PROVE  KindInv(k)' /\ Shown(k)' = Shown(k) /\ Shown(k) \in Nat
  BY <1>1, <1>4, SameKeepsKind, SameIsShown DEF ReportInv
<1>5. \A k \in Kinds : KindInv(k)' /\ Shown(k)' >= Shown(k)
  BY <1>4
<1> QED BY <1>3, <1>5 DEF Stands, ReportInv

------------------------------------------------------------------------------
(* The steps of a job.                                                     *)

LEMMA KindsComments ==
  ASSUME ReportInv, NEW kind \in Kinds
  PROVE  /\ ReportTypeOK /\ KindInv(kind)
         /\ Marked(kind) \in SUBSET Nat /\ Visible(kind) \subseteq Marked(kind)
         /\ \A i \in Marked(kind) : /\ comments[i] \in CommentRecords
                                   /\ comments[i].author = Us /\ comments[i].kind = kind
                                   /\ ~comments[i].deleted
         /\ job[kind] # None => job[kind] \in JobRecords
<1>1. ReportTypeOK /\ KindInv(kind)
  BY DEF ReportInv
<1> QED BY <1>1, IndicesAre DEF ReportTypeOK, Marked, Ours

(* A step that leaves the comments, and takes a job to another step.       *)
LEMMA CommentsStay ==
  ASSUME ReportInv, NEW kind \in Kinds, UNCHANGED <<head, comments>>,
         job' \in [Kinds -> JobRecords \cup {None}],
         \A k \in Kinds \ {kind} : job'[k] = job[k],
         job'[kind] # None =>
           /\ job'[kind].commit <= head
           /\ job'[kind].step # "check" =>
                \A i \in Marked(kind) : comments[i].commit <= job'[kind].commit
           /\ EditingInv(kind)' /\ HidingInv(kind)'
  PROVE  Stands
<1>1. \A k \in Kinds : KindSame(k)
  BY DEF KindSame, Marked, Visible, Ours
<1>2. KindInv(kind)'
  BY <1>1, KindsComments DEF KindInv, KindSame, NothingNewer
<1>3. Shown(kind)' = Shown(kind) /\ Shown(kind) \in Nat
  BY <1>1, SameIsShown DEF ReportInv
<1>4. comments' \in Seq(CommentRecords) /\ Len(comments) \in Nat /\ Len(comments') = Len(comments)
  BY DEF ReportInv, ReportTypeOK
<1> QED BY <1>1, <1>2, <1>3, <1>4, OneKindMoves

LEMMA MovesIs ==
  ASSUME ReportInv, NEW kind \in Kinds, job[kind] # None, NEW step \in JobSteps,
         NEW todo \in SUBSET Nat, Moves(kind, step, todo)
  PROVE  /\ job' \in [Kinds -> JobRecords \cup {None}]
         /\ \A k \in Kinds \ {kind} : job'[k] = job[k]
         /\ job'[kind].step = step /\ job'[kind].commit = job[kind].commit
         /\ job'[kind].todo = todo /\ job'[kind].own = job[kind].own
<1> DEFINE x == At(step, job[kind].commit, todo, job[kind].own)
<1>1. x \in JobRecords
  BY KindsComments DEF At, JobRecords
<1>2. job' = [job EXCEPT ![kind] = x] /\ job \in [Kinds -> JobRecords \cup {None}]
  BY DEF Moves, ReportInv, ReportTypeOK
<1>3. x.step = step /\ x.commit = job[kind].commit /\ x.todo = todo /\ x.own = job[kind].own
  BY DEF At
<1> HIDE DEF x
<1> QED BY <1>1, <1>2, <1>3

LEMMA LeavesIs ==
  ASSUME ReportInv, NEW kind \in Kinds, Leaves(kind)
  PROVE  /\ job' \in [Kinds -> JobRecords \cup {None}]
         /\ \A k \in Kinds \ {kind} : job'[k] = job[k]
         /\ job'[kind] = None
BY DEF Leaves, ReportInv, ReportTypeOK

LEMMA QuietSteps ==
  ASSUME ReportInv, NEW kind \in Kinds,
         \/ Begin(kind) \/ CheckHead(kind) \/ List(kind) \/ Look(kind) \/ Finish(kind) \/ FailJob(kind)
  PROVE  Stands
<1>1. CASE Finish(kind) \/ FailJob(kind)
  BY <1>1, LeavesIs, CommentsStay DEF Finish, FailJob
<1>2. CASE Begin(kind)
  <2>1. PICK commit \in 1 .. head : job' = [job EXCEPT ![kind] = At("check", commit, {}, None)]
    BY <1>2 DEF Begin
  <2>2. commit \in Nat /\ commit <= head
    BY <2>1 DEF ReportInv, ReportTypeOK
  <2> DEFINE x == At("check", commit, {}, None)
  <2>3. x \in JobRecords /\ x.step = "check" /\ x.commit = commit
    BY <2>2 DEF At, JobRecords, JobSteps
  <2>4. /\ job' \in [Kinds -> JobRecords \cup {None}] /\ job'[kind] = x
        /\ \A k \in Kinds \ {kind} : job'[k] = job[k]
    <3> HIDE DEF x
    <3>1. job' = [job EXCEPT ![kind] = x]
      BY <2>1 DEF x
    <3> QED BY <2>3, <3>1 DEF ReportInv, ReportTypeOK
  <2> HIDE DEF x
  <2>5. EditingInv(kind)' /\ HidingInv(kind)'
    BY <2>3, <2>4 DEF EditingInv, HidingInv
  <2>6. UNCHANGED <<head, comments>>
    BY <1>2 DEF Begin
  <2> QED BY <2>2, <2>3, <2>4, <2>5, <2>6, CommentsStay
<1>3. CASE CheckHead(kind)
  <2>1. job[kind] # None /\ job[kind].step = "check" /\ UNCHANGED <<head, comments>>
    BY <1>3 DEF CheckHead, Is
  <2>2. CASE ~Current(kind)
    BY <1>3, <2>1, <2>2, LeavesIs, CommentsStay DEF CheckHead
  <2>3. CASE Current(kind)
    <3> DEFINE step == IF kind \in HidingKinds THEN "post" ELSE "list"
    <3>1. Moves(kind, step, {}) /\ step \in JobSteps
      BY <1>3, <2>3 DEF CheckHead, JobSteps
    <3>2. step \in {"post", "list"} /\ (step = "post" <=> kind \in HidingKinds)
      OBVIOUS
    <3> HIDE DEF step
    <3>3. /\ job' \in [Kinds -> JobRecords \cup {None}]
          /\ \A k \in Kinds \ {kind} : job'[k] = job[k]
          /\ job'[kind].step = step /\ job'[kind].commit = job[kind].commit
      BY <2>1, <3>1, MovesIs
    <3>4. EditingInv(kind)' /\ HidingInv(kind)'
      BY <3>2, <3>3 DEF EditingInv, HidingInv
    <3>5. job[kind].commit = head /\ head <= head
      BY <2>3 DEF Current, ReportInv, ReportTypeOK
    <3> QED BY <2>1, <3>3, <3>4, <3>5, CommentsStay, KindsComments DEF KindInv
  <2> QED BY <2>2, <2>3
<1>4. CASE List(kind)
  <2>1. job[kind] # None /\ job[kind].step = "list" /\ UNCHANGED <<head, comments>>
    BY <1>4 DEF List, Is
  <2>2. PICK step \in {"post", "edit"}, todo \in {Marked(kind)} :
          /\ Moves(kind, step, todo) /\ (step = "post" <=> Marked(kind) = {})
    BY <1>4 DEF List
  <2>3. todo = Marked(kind) /\ todo \in SUBSET Nat /\ step \in JobSteps
    BY <2>2, KindsComments DEF JobSteps
  <2>4. /\ job' \in [Kinds -> JobRecords \cup {None}]
        /\ \A k \in Kinds \ {kind} : job'[k] = job[k]
        /\ job'[kind].step = step /\ job'[kind].commit = job[kind].commit
        /\ job'[kind].todo = todo
    BY <2>1, <2>2, <2>3, MovesIs
  <2>5. kind \notin HidingKinds /\ NothingNewer(kind) /\ job[kind].commit <= head
    BY <2>1, KindsComments DEF KindInv, EditingInv
  <2>6. Marked(kind)' = Marked(kind)
    BY <2>1 DEF Marked, Ours
  <2>7. EditingInv(kind)' /\ HidingInv(kind)'
    BY <2>2, <2>3, <2>4, <2>5, <2>6 DEF EditingInv, HidingInv
  <2> QED BY <2>1, <2>4, <2>5, <2>7, CommentsStay DEF NothingNewer
<1>5. CASE Look(kind)
  <2> DEFINE todo == Visible(kind) \ {job[kind].own}
  <2>1. /\ job[kind] # None /\ job[kind].step = "look" /\ UNCHANGED <<head, comments>>
        /\ Moves(kind, "hide", todo)
    BY <1>5 DEF Look, Is
  <2>2. todo \in SUBSET Nat /\ "hide" \in JobSteps
    BY KindsComments DEF JobSteps
  <2>3. /\ job' \in [Kinds -> JobRecords \cup {None}]
        /\ \A k \in Kinds \ {kind} : job'[k] = job[k]
        /\ job'[kind].step = "hide" /\ job'[kind].commit = job[kind].commit
        /\ job'[kind].todo = todo /\ job'[kind].own = job[kind].own
    <3> HIDE DEF todo
    <3> QED BY <2>1, <2>2, MovesIs
  <2>4. HidingInv(kind) /\ NothingNewer(kind) /\ job[kind].commit <= head
    BY <2>1, KindsComments DEF KindInv
  <2>5. Visible(kind)' = Visible(kind)
    BY <2>1 DEF Visible, Marked, Ours
  <2>6. HidingInv(kind)'
    BY <2>1, <2>3, <2>4, <2>5 DEF HidingInv
  <2>7. EditingInv(kind)'
    BY <2>3 DEF EditingInv
  <2> QED BY <2>1, <2>3, <2>4, <2>6, <2>7, CommentsStay DEF NothingNewer
<1> QED BY <1>1, <1>2, <1>3, <1>4, <1>5

LEMMA ShownThen ==
  ASSUME NEW kind \in Kinds, Visible(kind)' \in SUBSET Nat, NEW m, m \in Visible(kind)',
         kind \in HidingKinds => \A j \in Visible(kind)' : j <= m,
         kind \notin HidingKinds => \A j \in Visible(kind)' : m <= j
  PROVE  Shown(kind)' = comments'[m].commit
<1>1. CASE kind \in HidingKinds
  <2>1. Newest(Visible(kind)') = m
    BY <1>1, NewestIs
  <2>2. Shown(kind)' = IF Visible(kind)' = {} THEN 0 ELSE comments'[Newest(Visible(kind)')].commit
    BY <1>1 DEF Shown, Newest
  <2> QED BY <2>1, <2>2
<1>2. CASE kind \notin HidingKinds
  <2>1. Oldest(Visible(kind)') = m
    BY <1>2, OldestIs
  <2>2. Shown(kind)' = IF Visible(kind)' = {} THEN 0 ELSE comments'[Oldest(Visible(kind)')].commit
    BY <1>2 DEF Shown
  <2> QED BY <2>1, <2>2
<1> QED BY <1>1, <1>2

(* The first comment of the kind gets the report, and so its commit.       *)
LEMMA EditStands == ASSUME ReportInv, NEW kind \in Kinds, Edit(kind) PROVE Stands
<1> DEFINE c == job[kind].commit
           first == Oldest(job[kind].todo)
           x == [comments[first] EXCEPT !.commit = c]
<1>1. /\ job[kind] # None /\ job[kind].step = "edit" /\ head' = head
      /\ comments' = [comments EXCEPT ![first].commit = c]
      /\ Moves(kind, "delete", job[kind].todo \ {first})
  BY DEF Edit, Is
<1>2. /\ KindInv(kind) /\ job[kind] \in JobRecords /\ ReportTypeOK
      /\ Marked(kind) \in SUBSET Nat /\ Visible(kind) \subseteq Marked(kind)
  BY <1>1, KindsComments
<1>3. /\ kind \notin HidingKinds /\ Visible(kind) = Marked(kind) /\ c \in Nat /\ c <= head
      /\ \A i \in Marked(kind) : comments[i].commit <= c
      /\ job[kind].todo = Marked(kind) /\ Marked(kind) # {}
  BY <1>1, <1>2 DEF KindInv, EditingInv, NothingNewer, JobRecords
<1>4. first \in Marked(kind) /\ \A j \in Marked(kind) : first <= j
  BY <1>2, <1>3, OldestExists
<1> HIDE DEF first
<1>5. /\ comments[first] \in CommentRecords /\ comments[first].author = Us
      /\ comments[first].kind = kind /\ ~comments[first].deleted /\ ~comments[first].hidden
  BY <1>3, <1>4, KindsComments DEF Visible
<1>6. /\ x \in CommentRecords /\ x.author = Us /\ x.kind = kind /\ x.commit = c
      /\ ~x.deleted /\ ~x.hidden
  BY <1>3, <1>5 DEF CommentRecords
<1>7. comments' = [comments EXCEPT ![first] = x]
  BY <1>1
<1> HIDE DEF x
<1>8. /\ comments' \in Seq(CommentRecords) /\ Len(comments') = Len(comments)
      /\ comments'[1] = comments[1] /\ comments'[first] = x
      /\ \A j \in Marked(kind) \ {first} : comments'[j] = comments[j]
      /\ \A k \in Kinds \ {kind} : KindSame(k)
      /\ Marked(kind)' = Marked(kind) /\ Visible(kind)' = Marked(kind)
  <2>1. /\ comments' \in Seq(CommentRecords) /\ Len(comments') = Len(comments)
        /\ comments'[1] = comments[1]
        /\ comments'[first] = x /\ \A j \in Marked(kind) \ {first} : comments'[j] = comments[j]
        /\ \A k \in Kinds \ {kind} : KindSame(k)
        /\ Marked(kind)' = IF x.deleted THEN Marked(kind) \ {first} ELSE Marked(kind)
        /\ Visible(kind)' = IF x.deleted \/ x.hidden THEN Visible(kind) \ {first}
                            ELSE Visible(kind) \cup {first}
    BY <1>2, <1>4, <1>6, <1>7, OneChanges
  <2> QED BY <1>3, <1>4, <1>6, <2>1
<1>9. job[kind].todo \ {first} \in SUBSET Nat /\ "delete" \in JobSteps
  BY <1>2, <1>3 DEF JobSteps
<1>10. /\ job' \in [Kinds -> JobRecords \cup {None}]
       /\ \A k \in Kinds \ {kind} : job'[k] = job[k]
       /\ job'[kind].step = "delete" /\ job'[kind].commit = c
       /\ job'[kind].todo = job[kind].todo \ {first}
  BY <1>1, <1>9, MovesIs
<1>11. Shown(kind)' = c
  BY <1>2, <1>3, <1>4, <1>6, <1>8, ShownThen
<1>12. Shown(kind) <= c
  BY <1>2, <1>3, ShownAtMost
<1>13. \A i \in Marked(kind)' : comments'[i].commit <= c
  BY <1>3, <1>6, <1>8
<1>14. EditingInv(kind)' /\ HidingInv(kind)'
  BY <1>3, <1>4, <1>6, <1>8, <1>10 DEF EditingInv, HidingInv
<1>15. KindInv(kind)'
  <2>1. \A i \in Marked(kind)' : comments'[i].commit <= head'
    BY <1>1, <1>3, <1>6, <1>8, <1>2 DEF KindInv
  <2> QED BY <1>1, <1>3, <1>8, <1>10, <1>13, <1>14, <2>1 DEF KindInv, NothingNewer
<1>16. Len(comments') >= Len(comments) /\ Shown(kind)' >= Shown(kind)
  <2>1. Len(comments) \in Nat /\ Shown(kind) \in Nat
    BY <1>2, <1>3, ShownAtMost, IndicesAre
  <2> QED BY <1>3, <1>8, <1>11, <1>12, <2>1
<1> QED BY <1>1, <1>8, <1>10, <1>15, <1>16, OneKindMoves

(* The others of its kind go; the first, with the report, stays.           *)
LEMMA DeleteStands == ASSUME ReportInv, NEW kind \in Kinds, Delete(kind) PROVE Stands
<1> DEFINE c == job[kind].commit
           todo == job[kind].todo
           next == Oldest(todo)
           x == [comments[next] EXCEPT !.deleted = TRUE]
<1>1. /\ job[kind] # None /\ job[kind].step = "delete" /\ head' = head /\ todo # {}
      /\ comments' = [comments EXCEPT ![next].deleted = TRUE]
      /\ Moves(kind, "delete", todo \ {next})
  BY DEF Delete, Is
<1>2. /\ KindInv(kind) /\ job[kind] \in JobRecords /\ ReportTypeOK
      /\ Marked(kind) \in SUBSET Nat /\ Visible(kind) \subseteq Marked(kind)
  BY <1>1, KindsComments
<1>3. /\ kind \notin HidingKinds /\ Visible(kind) = Marked(kind) /\ c \in Nat /\ c <= head
      /\ \A i \in Marked(kind) : comments[i].commit <= c
      /\ \A i \in Marked(kind) : comments[i].commit <= head
  BY <1>1, <1>2 DEF KindInv, EditingInv, NothingNewer, JobRecords
<1>4. PICK m \in Marked(kind) :
        /\ m \notin todo /\ Marked(kind) = todo \cup {m}
        /\ \A j \in Marked(kind) : m <= j
        /\ comments[m].commit = c
  BY <1>1, <1>2 DEF KindInv, EditingInv
<1>5. next \in todo
  BY <1>1, <1>2, <1>4, OldestExists
<1> HIDE DEF todo, next
<1>6. /\ next \in Marked(kind) /\ next # m
      /\ comments[next] \in CommentRecords /\ comments[next].author = Us
      /\ comments[next].kind = kind
  BY <1>4, <1>5, KindsComments
<1>7. x \in CommentRecords /\ x.author = Us /\ x.kind = kind /\ x.deleted
  BY <1>6 DEF CommentRecords
<1>8. comments' = [comments EXCEPT ![next] = x]
  BY <1>1
<1> HIDE DEF x
<1>9. /\ comments' \in Seq(CommentRecords) /\ Len(comments') = Len(comments)
      /\ comments'[1] = comments[1]
      /\ \A j \in Marked(kind) \ {next} : comments'[j] = comments[j]
      /\ \A k \in Kinds \ {kind} : KindSame(k)
      /\ Marked(kind)' = Marked(kind) \ {next} /\ Visible(kind)' = Marked(kind) \ {next}
  <2>1. /\ comments' \in Seq(CommentRecords) /\ Len(comments') = Len(comments)
        /\ comments'[1] = comments[1]
        /\ comments'[next] = x /\ \A j \in Marked(kind) \ {next} : comments'[j] = comments[j]
        /\ \A k \in Kinds \ {kind} : KindSame(k)
        /\ Marked(kind)' = IF x.deleted THEN Marked(kind) \ {next} ELSE Marked(kind)
        /\ Visible(kind)' = IF x.deleted \/ x.hidden THEN Visible(kind) \ {next}
                            ELSE Visible(kind) \cup {next}
    BY <1>2, <1>6, <1>7, <1>8, OneChanges
  <2> QED BY <1>3, <1>7, <2>1
<1>10. todo \ {next} \in SUBSET Nat /\ "delete" \in JobSteps
  BY <1>2, <1>4 DEF JobSteps
<1>11. /\ job' \in [Kinds -> JobRecords \cup {None}]
       /\ \A k \in Kinds \ {kind} : job'[k] = job[k]
       /\ job'[kind].step = "delete" /\ job'[kind].commit = c
       /\ job'[kind].todo = todo \ {next}
  BY <1>1, <1>10, MovesIs
<1>12. m \in Marked(kind)' /\ comments'[m].commit = c
  BY <1>4, <1>6, <1>9
<1>13. Shown(kind)' = c
  BY <1>2, <1>3, <1>4, <1>9, <1>12, ShownThen
<1>14. \A i \in Marked(kind)' : comments'[i].commit <= c /\ comments'[i].commit <= head
  BY <1>3, <1>9
<1>15. EditingInv(kind)' /\ HidingInv(kind)'
  BY <1>3, <1>4, <1>9, <1>11, <1>12 DEF EditingInv, HidingInv
<1>16. KindInv(kind)'
  BY <1>1, <1>3, <1>9, <1>11, <1>14, <1>15 DEF KindInv, NothingNewer
<1>17. Len(comments') >= Len(comments) /\ Shown(kind)' >= Shown(kind)
  <2>1. Len(comments) \in Nat /\ Shown(kind) \in Nat /\ Shown(kind) <= c
    BY <1>2, <1>3, ShownAtMost, IndicesAre
  <2> QED BY <1>3, <1>9, <1>13, <2>1
<1> QED BY <1>1, <1>9, <1>11, <1>16, <1>17, OneKindMoves

(* Those before the one just posted are hidden; it stays the last.         *)
LEMMA HideStands == ASSUME ReportInv, NEW kind \in Kinds, Hide(kind) PROVE Stands
<1> DEFINE c == job[kind].commit
           todo == job[kind].todo
           own == job[kind].own
           next == Oldest(todo)
           x == [comments[next] EXCEPT !.hidden = TRUE]
<1>1. /\ job[kind] # None /\ job[kind].step = "hide" /\ head' = head /\ todo # {}
      /\ comments' = [comments EXCEPT ![next].hidden = TRUE]
      /\ Moves(kind, "hide", todo \ {next})
  BY DEF Hide, Is
<1>2. /\ KindInv(kind) /\ job[kind] \in JobRecords /\ ReportTypeOK
      /\ Marked(kind) \in SUBSET Nat /\ Visible(kind) \subseteq Marked(kind)
  BY <1>1, KindsComments
<1>3. /\ kind \in HidingKinds /\ c \in Nat /\ c <= head
      /\ \A i \in Marked(kind) : comments[i].commit <= c
      /\ \A i \in Marked(kind) : comments[i].commit <= head
  BY <1>1, <1>2 DEF KindInv, HidingInv, NothingNewer, JobRecords
<1>4. /\ own \in Visible(kind) /\ own \notin todo /\ Visible(kind) = todo \cup {own}
      /\ \A j \in Visible(kind) : j <= own
      /\ comments[own].commit = c
  BY <1>1, <1>2 DEF KindInv, HidingInv
<1>5. next \in todo
  BY <1>1, <1>2, <1>4, OldestExists
<1> HIDE DEF todo, own, next
<1>6. /\ next \in Marked(kind) /\ next # own
      /\ comments[next] \in CommentRecords /\ comments[next].author = Us
      /\ comments[next].kind = kind /\ ~comments[next].deleted
  BY <1>2, <1>4, <1>5, KindsComments
<1>7. /\ x \in CommentRecords /\ x.author = Us /\ x.kind = kind /\ x.hidden /\ ~x.deleted
      /\ x.commit = comments[next].commit
  BY <1>6 DEF CommentRecords
<1>8. comments' = [comments EXCEPT ![next] = x]
  BY <1>1
<1> HIDE DEF x
<1>9. /\ comments' \in Seq(CommentRecords) /\ Len(comments') = Len(comments)
      /\ comments'[1] = comments[1] /\ comments'[next] = x
      /\ \A j \in Marked(kind) \ {next} : comments'[j] = comments[j]
      /\ \A k \in Kinds \ {kind} : KindSame(k)
      /\ Marked(kind)' = Marked(kind) /\ Visible(kind)' = Visible(kind) \ {next}
  <2>1. /\ comments' \in Seq(CommentRecords) /\ Len(comments') = Len(comments)
        /\ comments'[1] = comments[1]
        /\ comments'[next] = x /\ \A j \in Marked(kind) \ {next} : comments'[j] = comments[j]
        /\ \A k \in Kinds \ {kind} : KindSame(k)
        /\ Marked(kind)' = IF x.deleted THEN Marked(kind) \ {next} ELSE Marked(kind)
        /\ Visible(kind)' = IF x.deleted \/ x.hidden THEN Visible(kind) \ {next}
                            ELSE Visible(kind) \cup {next}
    BY <1>2, <1>6, <1>7, <1>8, OneChanges
  <2> QED BY <1>7, <2>1
<1>10. todo \ {next} \in SUBSET Nat /\ "hide" \in JobSteps
  BY <1>2, <1>4 DEF JobSteps
<1>11. /\ job' \in [Kinds -> JobRecords \cup {None}]
       /\ \A k \in Kinds \ {kind} : job'[k] = job[k]
       /\ job'[kind].step = "hide" /\ job'[kind].commit = c
       /\ job'[kind].todo = todo \ {next} /\ job'[kind].own = own
  BY <1>1, <1>10, MovesIs DEF own
<1>12. own \in Visible(kind)' /\ comments'[own].commit = c
  BY <1>2, <1>4, <1>6, <1>9
<1>13. Shown(kind)' = c
  BY <1>2, <1>3, <1>4, <1>9, <1>12, ShownThen
<1>14. \A i \in Marked(kind)' : comments'[i].commit <= c /\ comments'[i].commit <= head
  BY <1>3, <1>6, <1>7, <1>9
<1>15. EditingInv(kind)' /\ HidingInv(kind)'
  BY <1>3, <1>4, <1>9, <1>11, <1>12 DEF EditingInv, HidingInv
<1>16. KindInv(kind)'
  BY <1>1, <1>3, <1>9, <1>11, <1>14, <1>15 DEF KindInv, NothingNewer
<1>17. Len(comments') >= Len(comments) /\ Shown(kind)' >= Shown(kind)
  <2>1. Len(comments) \in Nat /\ Shown(kind) \in Nat /\ Shown(kind) <= c
    BY <1>2, <1>3, ShownAtMost, IndicesAre
  <2> QED BY <1>3, <1>9, <1>13, <2>1
<1> QED BY <1>1, <1>9, <1>11, <1>16, <1>17, OneKindMoves

(* The one that is posted is the last, and of those edited the only one.   *)
LEMMA PostStands == ASSUME ReportInv, NEW kind \in Kinds, Post(kind) PROVE Stands
<1> DEFINE c == job[kind].commit
           n == Len(comments) + 1
           step == IF kind \in HidingKinds THEN "look" ELSE "delete"
           x == At(step, c, {}, n)
<1>1. /\ job[kind] # None /\ job[kind].step = "post" /\ head' = head
      /\ comments' = Append(comments, Comment(Us, kind, c))
      /\ job' = [job EXCEPT ![kind] = x] \/ Leaves(kind)
  BY DEF Post, Is
<1>2. /\ KindInv(kind) /\ job[kind] \in JobRecords /\ ReportTypeOK
      /\ Marked(kind) \in SUBSET Nat /\ Visible(kind) \subseteq Marked(kind)
      /\ Marked(kind) \subseteq 1 .. Len(comments) /\ Len(comments) \in Nat
  BY <1>1, KindsComments, IndicesAre
<1>3. /\ c \in Nat /\ c <= head
      /\ \A i \in Marked(kind) : comments[i].commit <= c
      /\ \A i \in Marked(kind) : comments[i].commit <= head
      /\ kind \notin HidingKinds => Marked(kind) = {}
  BY <1>1, <1>2 DEF KindInv, EditingInv, NothingNewer, JobRecords
<1>4. /\ comments' \in Seq(CommentRecords) /\ Len(comments') = n
      /\ comments'[1] = comments[1] /\ comments'[n].commit = c
      /\ \A j \in Marked(kind) : comments'[j] = comments[j]
      /\ \A k \in Kinds \ {kind} : KindSame(k)
      /\ Marked(kind)' = Marked(kind) \cup {n} /\ Visible(kind)' = Visible(kind) \cup {n}
  BY <1>1, <1>2, <1>3, OneIsPosted
<1>5. n \in Nat /\ n > Len(comments)
  BY <1>2
<1>6. /\ step \in JobSteps /\ step \in {"look", "delete"} /\ (step = "look" <=> kind \in HidingKinds)
  BY DEF JobSteps
<1> HIDE DEF n, step
<1>7. x \in JobRecords /\ x.step = step /\ x.commit = c /\ x.todo = {} /\ x.own = n
  BY <1>3, <1>5, <1>6 DEF At, JobRecords
<1> HIDE DEF x
<1>8. /\ job' \in [Kinds -> JobRecords \cup {None}]
      /\ \A k \in Kinds \ {kind} : job'[k] = job[k]
      /\ job'[kind] \in {x, None}
  <2>1. CASE job' = [job EXCEPT ![kind] = x]
    BY <1>2, <1>7, <2>1 DEF ReportTypeOK
  <2> QED BY <1>1, <2>1, LeavesIs
<1>9. /\ n \in Visible(kind)' /\ Visible(kind)' \in SUBSET Nat
      /\ \A j \in Visible(kind)' : j <= n
      /\ kind \notin HidingKinds => Marked(kind)' = {n} /\ Visible(kind)' = {n}
  BY <1>2, <1>3, <1>4, <1>5
<1>10. Shown(kind)' = c
  BY <1>4, <1>5, <1>9, ShownThen
<1>11. \A i \in Marked(kind)' : comments'[i].commit <= c /\ comments'[i].commit <= head
  BY <1>3, <1>4, <1>2 DEF ReportTypeOK
<1>12. ASSUME job'[kind] # None PROVE EditingInv(kind)' /\ HidingInv(kind)'
  <2>1. job'[kind].step = step /\ job'[kind].commit = c /\ job'[kind].todo = {} /\ job'[kind].own = n
    BY <1>7, <1>8, <1>12
  <2>2. HidingInv(kind)'
    BY <1>4, <1>6, <1>9, <2>1 DEF HidingInv
  <2>3. EditingInv(kind)'
    BY <1>4, <1>5, <1>6, <1>9, <2>1 DEF EditingInv
  <2> QED BY <2>2, <2>3
<1>13. KindInv(kind)'
  <2>1. job'[kind] # None => job'[kind].commit = c
    BY <1>7, <1>8
  <2> QED BY <1>1, <1>3, <1>9, <1>11, <1>12, <2>1 DEF KindInv, NothingNewer
<1>14. Len(comments') >= Len(comments) /\ Shown(kind)' >= Shown(kind)
  <2>1. Shown(kind) \in Nat /\ Shown(kind) <= c
    BY <1>2, <1>3, ShownAtMost
  <2> QED BY <1>2, <1>3, <1>4, <1>5, <1>10, <2>1
<1> QED BY <1>1, <1>4, <1>8, <1>13, <1>14, OneKindMoves

LEMMA PushStands == ASSUME ReportInv, Push \/ UNCHANGED discussion PROVE Stands
<1>1. head \in Nat /\ head' \in Nat /\ head' >= head /\ comments' = comments /\ job' = job
  BY DEF Push, discussion, ReportInv, ReportTypeOK
<1>2. ReportTypeOK /\ ReportTypeOK'
  BY <1>1 DEF ReportInv, ReportTypeOK
<1>3. ASSUME NEW kind \in Kinds PROVE KindInv(kind)' /\ Shown(kind)' >= Shown(kind)
  <2>1. KindSame(kind)
    BY <1>1 DEF KindSame, Marked, Visible, Ours
  <2>2. KindInv(kind)'
    BY <1>1, <1>2, <2>1, SameKeepsKind DEF ReportInv
  <2>3. Shown(kind)' = Shown(kind) /\ Shown(kind) \in Nat
    BY <1>2, <2>1, SameIsShown
  <2> QED BY <2>2, <2>3
<1> QED BY <1>1, <1>2, <1>3 DEF Stands, ReportInv

LEMMA StepStands == ASSUME ReportInv, [Next]_vars PROVE Stands
<1>1. CASE Push \/ UNCHANGED discussion
  BY <1>1, PushStands
<1>2. ASSUME NEW kind \in Kinds, Posting(kind) PROVE Stands
  BY <1>2, QuietSteps, EditStands, DeleteStands, HideStands, PostStands DEF Posting
<1>3. CASE Recreating
  <2>1. UNCHANGED discussion
    BY <1>3 DEF Recreating, CloseByHand, ViewPr, ClosePr, CannotClose, CreatePr, CannotCreate,
      LookUp, CannotLookUp, ReopenPr, CannotReopen, CommentOnPr
  <2> QED BY <2>1, PushStands
<1>4. CASE UNCHANGED vars
  <2>1. UNCHANGED discussion
    BY <1>4 DEF vars, discussion
  <2> QED BY <2>1, PushStands
<1> QED BY <1>1, <1>2, <1>3, <1>4 DEF Next

(* A job with nothing left to see to has its own report alone there.       *)
LEMMA FinishedIsShown ==
  ASSUME ReportInv, NEW kind \in Kinds, Finish(kind)
  PROVE  Cardinality(Visible(kind)) = 1 /\ Shown(kind) = job[kind].commit
<1>1. /\ KindInv(kind) /\ Visible(kind) \in SUBSET Nat
      /\ job[kind] # None /\ job[kind].step \in {"delete", "hide"} /\ job[kind].todo = {}
  BY KindsComments DEF Finish, Done
<1>2. CASE job[kind].step = "delete"
  <2>1. PICK m \in Marked(kind) : Marked(kind) = job[kind].todo \cup {m} /\ comments[m].commit = job[kind].commit
    BY <1>1, <1>2 DEF KindInv, EditingInv
  <2>2. kind \in Kinds \ HidingKinds /\ Visible(kind) = {m} /\ m \in Nat
    BY <1>1, <1>2, <2>1 DEF KindInv, EditingInv
  <2>3. Oldest({m}) = m
    BY <2>2, OldestIs
  <2>4. Cardinality({m}) = 1
    BY FS_Singleton
  <2> QED BY <2>1, <2>2, <2>3, <2>4, OldestShown
<1>3. CASE job[kind].step = "hide"
  <2> DEFINE m == job[kind].own
  <2>1. kind \in HidingKinds /\ Visible(kind) = {m} /\ m \in Nat /\ comments[m].commit = job[kind].commit
    BY <1>1, <1>3 DEF KindInv, HidingInv
  <2>2. Newest({m}) = m
    BY <2>1, NewestIs
  <2>3. Cardinality({m}) = 1
    BY FS_Singleton
  <2> QED BY <2>1, <2>2, <2>3, NewestShown
<1> QED BY <1>1, <1>2, <1>3

LEMMA InitReports == ASSUME Init PROVE ReportInv
<1>1. PICK theirs \in Kinds, own \in {0, 2} :
        comments = <<Comment("other", theirs, 0)>> \o [i \in 1 .. own |-> Comment(Us, theirs, 0)]
  BY DEF Init
<1> DEFINE first == Comment("other", theirs, 0)
           left == [i \in 1 .. own |-> Comment(Us, theirs, 0)]
<1>2. first \in CommentRecords /\ first.author = "other" /\ first.commit = 0 /\ ~first.hidden
  BY DEF Comment, CommentRecords
<1>3. \A i \in 1 .. own : left[i] \in CommentRecords /\ left[i].commit = 0 /\ ~left[i].hidden
  BY DEF Comment, CommentRecords
<1>4. left \in Seq(CommentRecords) /\ Len(left) = own
  BY <1>3
<1> HIDE DEF first, left
<1>5. /\ comments \in Seq(CommentRecords) /\ Len(comments) = 1 + own /\ comments[1] = first
      /\ \A i \in 2 .. 1 + own : comments[i] = left[i - 1]
  BY <1>1, <1>2, <1>4 DEF first, left
<1>6. \A i \in 1 .. Len(comments) : comments[i].commit = 0 /\ ~comments[i].hidden
  <2> SUFFICES ASSUME NEW i \in 1 .. 1 + own PROVE comments[i].commit = 0 /\ ~comments[i].hidden
    BY <1>5
  <2>1. CASE i = 1
    BY <1>2, <1>5, <2>1
  <2>2. CASE i # 1
    <3>1. i \in 2 .. 1 + own /\ i - 1 \in 1 .. own
      BY <2>2
    <3> QED BY <1>3, <1>5, <3>1
  <2> QED BY <2>1, <2>2
<1>7. ReportTypeOK
  BY <1>2, <1>5 DEF Init, ReportTypeOK
<1>8. ASSUME NEW kind \in Kinds PROVE KindInv(kind)
  <2>1. job[kind] = None /\ head = 1
    BY DEF Init
  <2>2. Marked(kind) \subseteq 1 .. Len(comments)
    BY <1>7, IndicesAre
  <2> QED BY <1>6, <2>1, <2>2 DEF KindInv, Visible
<1> QED BY <1>7, <1>8 DEF ReportInv

(* However jobs that come late, fail or are cancelled fall among pushes,   *)
(* the report shown never gives way to an older commit's, a job that       *)
(* finishes leaves its own as the only one, and nobody else's comment is   *)
(* touched.                                                                *)
THEOREM ReportsAlwaysStand == Spec => ReportsStand
<1>1. Init => ReportInv
  BY InitReports
<1>2. ReportInv /\ [Next]_vars => ReportInv'
  BY StepStands DEF Stands
<1>3. ReportInv /\ [Next]_vars =>
        [\A kind \in Kinds :
           /\ Shown(kind)' >= Shown(kind)
           /\ Finish(kind) => Cardinality(Visible(kind)) = 1 /\ Shown(kind) = job[kind].commit
           /\ comments'[1] = comments[1]]_vars
  BY StepStands, FinishedIsShown DEF Stands
<1> QED BY <1>1, <1>2, <1>3, PTL DEF Spec, ReportsStand

=============================================================================
