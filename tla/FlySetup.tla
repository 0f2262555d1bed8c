------------------------------- MODULE FlySetup -------------------------------
(***************************************************************************)
(* fly-setup.sh, which sets the production app up on Fly: it creates what  *)
(* is missing of the app, its volume, its secrets (from .env), and the two *)
(* secrets CI deploys with on GitHub.  Any command may fail, before or     *)
(* after it has taken effect.  That ends the script (set -e), unless the   *)
(* command is an if's condition; it is then run again.  Between runs .env  *)
(* may be edited, for another app perhaps, and secrets set and unset by    *)
(* hand.                                                                   *)
(***************************************************************************)
EXTENDS Naturals

CONSTANTS
  Apps,               \* names of apps
  Passwords,          \* the secrets that are required
  SsoPair,            \* the two that turn on Google sign-in, both or neither
  NotSet, Blank,      \* no secret; nothing in .env
  Plain, Odd, ByHand, \* a value from .env, one with a quote or the like, and
                      \* one an operator has set
  MaxChanges,         \* bound on changes between runs
  MaxVolumes          \* bound on an app's volumes

ASSUME FlySetupAssumption ==
  /\ Apps # {} /\ Passwords \cap SsoPair = {}
  /\ NotSet \notin Apps \cup {Blank, Plain, Odd, ByHand}
  /\ MaxChanges \in Nat /\ MaxVolumes \in Nat \ {0}

FlySecrets == Passwords \cup SsoPair

VARIABLES
  dotenv,         \* .env: the app, and the values of its secrets
  apps, volumes,  \* the apps there are, and how many volumes each has
  secrets,        \* each app's
  github,         \* FLY_APP, and FLY_API_TOKEN, as the app it works for
  at, replace,    \* where the script is, and whether it is to replace the token
  token,          \* the token it has created, as the app it works for, if any
  changes

cloud == <<apps, volumes, secrets, github>>
setupVars == <<dotenv, apps, volumes, secrets, github, at, replace, token, changes>>

\* The operator has an app in mind and has still to fill .env in.
SetupInit ==
  /\ dotenv = [app |-> CHOOSE app \in Apps : TRUE, values |-> [name \in FlySecrets |-> Blank]]
  /\ apps = {} /\ volumes = [app \in Apps |-> 0]
  /\ secrets = [app \in Apps |-> [name \in FlySecrets |-> NotSet]]
  /\ github = [app |-> NotSet, token |-> NotSet]
  /\ at = "ended" /\ replace = FALSE /\ token = NotSet /\ changes = 0

------------------------------------------------------------------------------
To(here, next) == at = here /\ at' = next

BeginSetup ==
  /\ at \in {"ended", "done"} /\ at' = "check"
  /\ replace' \in BOOLEAN /\ token' = NotSet
  /\ UNCHANGED <<dotenv, cloud, changes>>

\* A required value missing, or half of sign-in's, and it ends.
Complete ==
  /\ \A name \in Passwords : dotenv.values[name] # Blank
  /\ \A one, other \in SsoPair : dotenv.values[one] = Blank => dotenv.values[other] = Blank
CheckDotenv ==
  /\ To("check", IF Complete THEN "app" ELSE "ended")
  /\ UNCHANGED <<dotenv, cloud, replace, token, changes>>

\* Creating one there is already, as the list of them failed, fails.
EnsureApp ==
  /\ To("app", "volume") /\ apps' = apps \cup {dotenv.app}
  /\ UNCHANGED <<dotenv, volumes, secrets, github, replace, token, changes>>

\* Without an answer, fly volumes list | jq is false, as if there were none.
ListVolumes ==
  /\ \/ volumes[dotenv.app] > 0 /\ To("volume", "secrets")
     \/ To("volume", "create volume")
  /\ UNCHANGED <<dotenv, cloud, replace, token, changes>>
CreateVolume ==
  /\ To("create volume", "secrets") /\ volumes[dotenv.app] < MaxVolumes
  /\ volumes' = [volumes EXCEPT ![dotenv.app] = @ + 1]
  /\ UNCHANGED <<dotenv, apps, secrets, github, replace, token, changes>>

\* Mutant of ToImport: all that .env has.
ToImportAll == {name \in FlySecrets : dotenv.values[name] # Blank}
ToImport ==
  {name \in FlySecrets :
     secrets[dotenv.app][name] = NotSet /\ dotenv.values[name] # Blank}
\* All at once, none if one of them has a character that may be misread.
ImportSecrets ==
  /\ IF \E name \in ToImport : dotenv.values[name] = Odd
     THEN To("secrets", "ended") /\ UNCHANGED secrets
     ELSE /\ To("secrets", "github app")
          /\ secrets' = [secrets EXCEPT ![dotenv.app] =
               [name \in FlySecrets |-> IF name \in ToImport THEN dotenv.values[name] ELSE @[name]]]
  /\ UNCHANGED <<dotenv, apps, volumes, github, replace, token, changes>>

EnsureGithubApp ==
  /\ To("github app", "token")
  /\ github' = [github EXCEPT !.app = IF @ = NotSet THEN dotenv.app ELSE @]
  /\ UNCHANGED <<dotenv, apps, volumes, secrets, replace, token, changes>>

WantsToken == replace \/ github.token = NotSet
\* The token may not work.
CreateToken ==
  /\ at = "token"
  /\ IF WantsToken
     THEN at' = "store" /\ token' \in {dotenv.app, NotSet}
     ELSE at' = "done" /\ UNCHANGED token
  /\ UNCHANGED <<dotenv, cloud, replace, changes>>

\* It is tried with fly status first.
StoreToken ==
  /\ token # NotSet /\ at = "store" /\ at' \in {"done", "ended"}
  /\ github' = [github EXCEPT !.token = token]
  /\ UNCHANGED <<dotenv, apps, volumes, secrets, replace, token, changes>>

SetupFails ==
  /\ at \notin {"ended", "done"} /\ at' = "ended"
  /\ UNCHANGED <<dotenv, cloud, replace, token, changes>>

------------------------------------------------------------------------------
(* Between runs *)
ByOperator == at \in {"ended", "done"} /\ changes < MaxChanges /\ changes' = changes + 1
FillIn ==  \* .env
  /\ ByOperator
  /\ dotenv' \in [app : Apps, values : [FlySecrets -> {Blank, Plain, Odd}]]
  /\ UNCHANGED <<cloud, at, replace, token>>
SetByHand ==
  /\ ByOperator
  /\ \E app \in apps, name \in FlySecrets, value \in {ByHand, NotSet} :
       secrets' = [secrets EXCEPT ![app][name] = value]
  /\ UNCHANGED <<dotenv, apps, volumes, github, at, replace, token>>
SetOnGithub ==
  /\ ByOperator
  /\ github' \in [app : Apps \cup {NotSet}, token : apps \cup {NotSet}]
  /\ UNCHANGED <<dotenv, apps, volumes, secrets, at, replace, token>>

SetupRun ==
  \/ BeginSetup \/ CheckDotenv \/ EnsureApp \/ ListVolumes \/ CreateVolume \/ ImportSecrets
  \/ EnsureGithubApp \/ CreateToken \/ StoreToken \/ SetupFails
SetupNext == SetupRun \/ FillIn \/ SetByHand \/ SetOnGithub
SetupSpec == SetupInit /\ [][SetupNext]_setupVars

------------------------------------------------------------------------------
\* A step of the script, and not of an operator.
ByRun == at \notin {"ended", "done"} \/ at' \notin {"ended", "done"}

\* "Safe to re-run: it never changes anything that already exists" but the
\* token it is told to replace, wherever the run before it ended; a token is
\* only stored if it works for the app in .env; and a run that gets to its
\* end leaves nothing missing that .env has.  It may add a second volume (see
\* CreatesWhatIsMissing).
SetupOnlyAdds ==
  [][ByRun =>
       /\ apps \subseteq apps' /\ \A app \in Apps : volumes'[app] >= volumes[app]
       /\ \A app \in Apps, name \in FlySecrets :
            secrets[app][name] # NotSet => secrets'[app][name] = secrets[app][name]
       /\ github.app # NotSet => github'.app = github.app
       /\ github'.token # github.token =>
            github'.token = dotenv.app /\ (replace \/ github.token = NotSet)
       /\ at' = "done" =>
            /\ dotenv.app \in apps /\ volumes[dotenv.app] > 0
            /\ \A name \in Passwords : secrets[dotenv.app][name] # NotSet
            /\ \A name \in FlySecrets :
                 dotenv.values[name] # Blank => secrets[dotenv.app][name] # NotSet
            /\ github'.app # NotSet /\ github'.token # NotSet]_setupVars

\* Does not hold (README, section 5).  It "creates whatever is missing" (fly-setup.sh, lines 7 to
\* 8): a volume only for an app that has none.
CreatesWhatIsMissing == \A app \in Apps : volumes[app] <= 1
=============================================================================
