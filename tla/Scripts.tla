------------------------------- MODULE Scripts -------------------------------
(***************************************************************************)
(* The scripts around the app, of which one or the other is looked at:     *)
(* those that act on a pull request, the one that waits for its base, and  *)
(* the one that sets the app up.  They have nothing in common but GitHub.  *)
(***************************************************************************)
EXTENDS PrScripts, FlySetup, BaseCoverage

VARIABLE script

AnyInit ==
  /\ script \in {"pull request", "setup", "base coverage"}
  /\ Init /\ SetupInit /\ WaitInit
  /\ script # "pull request" => comments = <<Comment("other", CHOOSE kind \in Kinds : TRUE, 0)>>
PullRequest == script = "pull request" /\ Next /\ UNCHANGED <<setupVars, waitVars, script>>
Setup == script = "setup" /\ SetupNext /\ UNCHANGED <<vars, waitVars, script>>
Coverage == script = "base coverage" /\ WaitNext /\ UNCHANGED <<vars, setupVars, script>>
AnyNext == PullRequest \/ Setup \/ Coverage
AnySpec == AnyInit /\ [][AnyNext]_<<vars, setupVars, waitVars, script>>
=============================================================================
