----------------------------- MODULE BaseCoverage -----------------------------
(***************************************************************************)
(* wait_for_base_coverage.py, with which a pull request's CI waits until   *)
(* Codecov has the report of the base commit, which the base's own CI      *)
(* uploads.  It asks Codecov, then GitHub for the base's CI, and sleeps,   *)
(* until there is a report, or none is to come, or its time is up.  The    *)
(* base's CI may be run again meanwhile; no run of it is as short as the   *)
(* time between two looks at it.                                           *)
(***************************************************************************)
EXTENDS Integers, FiniteSetsExt

CONSTANTS
  Timeout, Grace, Interval, RequestTimeout,  \* in seconds
  Never

ASSUME BaseCoverageAssumption ==
  /\ {Timeout, Grace, Interval, RequestTimeout} \subseteq Nat \ {0}
  /\ Never \notin Nat

VARIABLES
  now,         \* seconds since the script began
  ci, ciSince, \* the base's CI, and since when it is so
  report,      \* Codecov has processed the base's report
  doing,       \* what the script is at
  doingSince,  \* and since when
  finishedAt,  \* since when it has found the base's CI finished
  told         \* how it ended

base == <<ci, ciSince, report>>
waitVars == <<now, ci, ciSince, report, doing, doingSince, finishedAt, told>>

WaitInit ==
  /\ now = 0 /\ ci = "none" /\ ciSince = 0 /\ report = FALSE
  /\ doing = "begin" /\ doingSince = 0 /\ finishedAt = Never /\ told = "nothing"

------------------------------------------------------------------------------
Turn(what) == doing' = what /\ doingSince' = now

\* The base's CI may have run before.
BeginWait ==
  /\ doing = "begin" /\ Turn("codecov")
  /\ ci' \in {"none", "running", "succeeded", "failed"} /\ report' \in BOOLEAN
  /\ UNCHANGED <<now, ciSince, finishedAt, told>>

\* codecov_coverage(); a request may fail.
AskCodecov ==
  /\ doing = "codecov"
  /\ \/ report /\ Turn("over") /\ told' = "report"
     \/ Turn("github") /\ UNCHANGED told
  /\ UNCHANGED <<now, base, finishedAt>>

\* base_ci_state(), which is "running" if it isn't known.
Found == {ci, "running"}
\* Mutant of FinishedSince: not forgotten when the CI is found running again.
StillFinishedSince(state) == IF finishedAt = Never /\ state # "running" THEN now ELSE finishedAt
FinishedSince(state) ==
  IF state = "running" THEN Never ELSE IF finishedAt = Never THEN now ELSE finishedAt

GiveUpOn(what) == Turn("over") /\ told' = what
AskGithub ==
  /\ doing = "github"
  /\ \E state \in Found :
       IF state = "failed" THEN GiveUpOn("failed") /\ UNCHANGED finishedAt
       ELSE /\ finishedAt' = FinishedSince(state)
            /\ IF finishedAt' # Never /\ now - finishedAt' >= Grace THEN GiveUpOn("finished")
               ELSE IF now + Interval > Timeout THEN GiveUpOn("timeout")
               ELSE Turn("sleep") /\ UNCHANGED told
  /\ UNCHANGED <<now, base>>

Wake ==
  /\ doing = "sleep" /\ now - doingSince = Interval
  /\ Turn("codecov")
  /\ UNCHANGED <<now, base, finishedAt, told>>

------------------------------------------------------------------------------
\* A request near the deadline is given less time, but a second.
Limit ==
  IF doing = "sleep" THEN Interval ELSE Min({RequestTimeout, Max({Timeout - doingSince, 1})})
Second ==
  /\ doing \in {"codecov", "github", "sleep"} /\ now - doingSince < Limit
  /\ now' = now + 1
  /\ UNCHANGED <<base, doing, doingSince, finishedAt, told>>

Waiting == doing \notin {"begin", "over"}
CiRuns ==  \* again, or at last
  /\ Waiting /\ ci # "running" /\ ci' = "running" /\ ciSince' = now
  /\ UNCHANGED <<now, report, doing, doingSince, finishedAt, told>>
CiEnds ==
  /\ Waiting /\ ci = "running" /\ now - ciSince > Interval + 2 * RequestTimeout
  /\ ci' \in {"succeeded", "failed"} /\ ciSince' = now
  /\ UNCHANGED <<now, report, doing, doingSince, finishedAt, told>>
Processed ==
  /\ Waiting /\ ~report /\ ci \in {"running", "succeeded"} /\ report' = TRUE
  /\ UNCHANGED <<now, ci, ciSince, doing, doingSince, finishedAt, told>>

WaitNext ==
  \/ BeginWait \/ AskCodecov \/ AskGithub \/ Wake \/ Second
  \/ CiRuns \/ CiEnds \/ Processed
WaitSpec == WaitInit /\ [][WaitNext]_waitVars

------------------------------------------------------------------------------
\* However the base's CI is run again between looks at it, and requests fail
\* or drag on, the script gives up only if the base's CI has just failed, if
\* it has been finished for the grace period, for that long without another
\* run, or if the time is all but up; and it is over two seconds after the
\* deadline at the latest.
GivesUpForCause ==
  /\ told = "failed" => ci = "failed"
  /\ told = "finished" => ci \in {"none", "succeeded"} /\ now - ciSince >= Grace
  /\ told = "timeout" => now + Interval > Timeout
  /\ now <= Timeout + 2
=============================================================================
