------------------------------ MODULE PrScripts ------------------------------
(***************************************************************************)
(* The scripts that act on a pull request (scripts/).  CI's jobs post a    *)
(* report on a commit as a comment: post_patch_coverage and                *)
(* post_screenshots edit the comment of the last run, post_exolot_findings *)
(* posts a new one and then hides those before.  Jobs of one kind run one  *)
(* after another, but not in their commits' order (.github/workflows).     *)
(* recreate_pr replaces a pull request by a draft of the same branch.      *)
(*                                                                         *)
(* Every request to GitHub is a step, and may fail, before or after it has *)
(* taken effect; a job may be cancelled between any two.                   *)
(***************************************************************************)
EXTENDS Integers, Sequences, FiniteSets, SequencesExt

CONSTANTS
  Kinds,       \* the markers of the comments
  HidingKinds, \* those posted anew
  None,
  MaxCommits, MaxJobs  \* bounds on pushes and on jobs

ASSUME PrScriptsAssumption ==
  /\ HidingKinds \subseteq Kinds /\ MaxCommits \in Nat \ {0} /\ MaxJobs \in Nat
  /\ None # "open"

VARIABLES
  head,      \* the pull request's newest commit
  comments,  \* its comments, oldest first
  job,       \* the job of each kind that runs, or None
  jobs,      \* jobs begun
  original, replacement,  \* the pull request, and the one made for it
  recreate   \* what recreate_pr is at

discussion == <<head, comments, job, jobs>>
pulls == <<original, replacement, recreate>>
vars == <<head, comments, job, jobs, original, replacement, recreate>>

Comment(author, kind, commit) ==
  [author |-> author, kind |-> kind, commit |-> commit, hidden |-> FALSE, deleted |-> FALSE]
Us == "github-actions[bot]"

\* There may be one of someone else with our marker, and, left by runs that
\* raced, two of ours.
Init ==
  /\ head = 1
  /\ \E kind \in Kinds, own \in {0, 2} :
       comments = <<Comment("other", kind, 0)>> \o [i \in 1 .. own |-> Comment(Us, kind, 0)]
  /\ job = [kind \in Kinds |-> None] /\ jobs = 0
  /\ original = "open" /\ replacement = None /\ recreate = "view"

------------------------------------------------------------------------------
Ours(i, kind) ==
  comments[i].author = Us /\ comments[i].kind = kind /\ ~comments[i].deleted
\* marked_comments()
Marked(kind) == {i \in DOMAIN comments : Ours(i, kind)}
Visible(kind) == {i \in Marked(kind) : ~comments[i].hidden}
Oldest(indices) == CHOOSE i \in indices : \A j \in indices : i <= j

\* A job at a step, its commit, the comments it is to see to, and its own.
At(step, commit, todo, own) == [step |-> step, commit |-> commit, todo |-> todo, own |-> own]
Moves(kind, step, todo) ==
  job' = [job EXCEPT ![kind] = At(step, job[kind].commit, todo, job[kind].own)]
Leaves(kind) == job' = [job EXCEPT ![kind] = None]
Is(kind, step) == job[kind] # None /\ job[kind].step = step

Push ==
  /\ head < MaxCommits /\ head' = head + 1
  /\ UNCHANGED <<comments, job, jobs, pulls>>

\* A job may come late.
Begin(kind) ==
  /\ job[kind] = None /\ jobs < MaxJobs /\ jobs' = jobs + 1
  /\ \E commit \in 1 .. head : job' = [job EXCEPT ![kind] = At("check", commit, {}, None)]
  /\ UNCHANGED <<head, comments, pulls>>

\* Mutant of Current: the head isn't looked at.
CurrentAnyhow(kind) == TRUE
Current(kind) == job[kind].commit = head
CheckHead(kind) ==
  /\ Is(kind, "check")
  /\ IF ~Current(kind) THEN Leaves(kind)
     ELSE Moves(kind, IF kind \in HidingKinds THEN "post" ELSE "list", {})
  /\ UNCHANGED <<head, comments, jobs, pulls>>

\* upsert_comment()
List(kind) ==
  /\ Is(kind, "list")
  /\ IF Marked(kind) = {} THEN Moves(kind, "post", {}) ELSE Moves(kind, "edit", Marked(kind))
  /\ UNCHANGED <<head, comments, jobs, pulls>>

Edit(kind) ==
  /\ Is(kind, "edit")
  /\ LET first == Oldest(job[kind].todo)
     IN /\ comments' = [comments EXCEPT ![first].commit = job[kind].commit]
        /\ Moves(kind, "delete", job[kind].todo \ {first})
  /\ UNCHANGED <<head, jobs, pulls>>

Delete(kind) ==
  /\ Is(kind, "delete") /\ job[kind].todo # {}
  /\ LET next == Oldest(job[kind].todo)
     IN /\ comments' = [comments EXCEPT ![next].deleted = TRUE]
        /\ Moves(kind, "delete", job[kind].todo \ {next})
  /\ UNCHANGED <<head, jobs, pulls>>

Post(kind) ==
  /\ Is(kind, "post")
  /\ comments' = Append(comments, Comment(Us, kind, job[kind].commit))
  /\ \/ job' = [job EXCEPT ![kind] =
            At(IF kind \in HidingKinds THEN "look" ELSE "delete", job[kind].commit, {},
               Len(comments) + 1)]
     \/ Leaves(kind)  \* It is posted, but the answer doesn't come.
  /\ UNCHANGED <<head, jobs, pulls>>

\* hide_comments(), whose keep is the one just posted
Look(kind) ==
  /\ Is(kind, "look")
  /\ Moves(kind, "hide", Visible(kind) \ {job[kind].own})
  /\ UNCHANGED <<head, comments, jobs, pulls>>

Hide(kind) ==
  /\ Is(kind, "hide") /\ job[kind].todo # {}
  /\ LET next == Oldest(job[kind].todo)
     IN /\ comments' = [comments EXCEPT ![next].hidden = TRUE]
        /\ Moves(kind, "hide", job[kind].todo \ {next})
  /\ UNCHANGED <<head, jobs, pulls>>

Done(kind) == job[kind] # None /\ job[kind].step \in {"delete", "hide"} /\ job[kind].todo = {}
Finish(kind) ==
  /\ Done(kind) /\ Leaves(kind)
  /\ UNCHANGED <<head, comments, jobs, pulls>>

FailJob(kind) ==  \* a request fails, or the job is cancelled
  /\ job[kind] # None /\ ~Done(kind) /\ Leaves(kind)
  /\ UNCHANGED <<head, comments, jobs, pulls>>

------------------------------------------------------------------------------
(* recreate_pr.main() *)
Goes(step, next) == recreate = step /\ recreate' = next

\* Someone else may close it, before or after it is looked at.
CloseByHand ==
  /\ original = "open" /\ recreate \in {"view", "close"} /\ original' = "closed by hand"
  /\ UNCHANGED <<discussion, replacement, recreate>>
\* It refuses one that isn't open, or comes from a fork.
ViewPr ==
  /\ \/ original = "open" /\ Goes("view", "close")
     \/ Goes("view", "refused")
  /\ UNCHANGED <<discussion, original, replacement>>
Closed == IF original = "open" THEN "closed" ELSE original
ClosePr ==
  /\ Goes("close", "create") /\ original' = Closed
  /\ UNCHANGED <<discussion, replacement>>
\* run_gh() ends the script, also if it is closed and the answer was lost.
CannotClose ==
  /\ Goes("close", "failed") /\ original' \in {original, Closed}
  /\ UNCHANGED <<discussion, replacement>>

\* gh creates it, and may fail all the same, adding the labels.
CreatePr ==
  /\ recreate = "create" /\ recreate' \in {"comment", "look up"}
  /\ replacement' = "open"
  /\ UNCHANGED <<discussion, original>>
CannotCreate ==
  /\ Goes("create", "look up")
  /\ UNCHANGED <<discussion, original, replacement>>

\* Mutant of AfterLookup: the lookup isn't made.
ReopenAnyhow == "reopen"
\* find_open_pr()
AfterLookup == IF replacement = "open" THEN "made anyway" ELSE "reopen"
LookUp ==
  /\ Goes("look up", AfterLookup)
  /\ UNCHANGED <<discussion, original, replacement>>
CannotLookUp ==
  /\ Goes("look up", "by hand")
  /\ UNCHANGED <<discussion, original, replacement>>

ReopenPr ==
  /\ Goes("reopen", "reopened") /\ original' = "open"
  /\ UNCHANGED <<discussion, replacement>>
CannotReopen ==
  /\ Goes("reopen", "still closed") /\ original' \in {original, "open"}
  /\ UNCHANGED <<discussion, replacement>>

\* Failing to, it says so, having made the new one.
CommentOnPr ==
  /\ recreate = "comment" /\ recreate' \in {"done", "made anyway"}
  /\ UNCHANGED <<discussion, original, replacement>>

Posting(kind) ==
  \/ Begin(kind) \/ CheckHead(kind) \/ List(kind) \/ Edit(kind) \/ Delete(kind)
  \/ Post(kind) \/ Look(kind) \/ Hide(kind) \/ Finish(kind) \/ FailJob(kind)
Recreating ==
  \/ CloseByHand \/ ViewPr \/ ClosePr \/ CannotClose \/ CreatePr \/ CannotCreate
  \/ LookUp \/ CannotLookUp \/ ReopenPr \/ CannotReopen \/ CommentOnPr
Next == Push \/ (\E kind \in Kinds : Posting(kind)) \/ Recreating
Spec == Init /\ [][Next]_vars

------------------------------------------------------------------------------
\* The report a reader takes for the latest: of those edited the first, of
\* those posted anew the last that is shown; 0 if there is none.
Shown(kind) ==
  IF Visible(kind) = {} THEN 0
  ELSE IF kind \in HidingKinds
  THEN comments[CHOOSE i \in Visible(kind) : \A j \in Visible(kind) : j <= i].commit
  ELSE comments[Oldest(Visible(kind))].commit

\* However jobs that come late, fail or are cancelled fall among pushes, the
\* report shown never gives way to an older commit's, a job that finishes
\* leaves its own as the only one, and nobody else's comment is touched.
ReportsStand ==
  [][\A kind \in Kinds :
       /\ Shown(kind)' >= Shown(kind)
       /\ Finish(kind) => Cardinality(Visible(kind)) = 1 /\ Shown(kind) = job[kind].commit
       /\ comments'[1] = comments[1]]_vars

\* The branch never has two open pull requests; and recreate_pr leaves it with
\* none only after telling whoever runs it to see to that by hand, or if
\* someone else had closed the old one, or if gh pr close failed although it
\* had closed it ("failed"; README, section 5): however creating the new one,
\* looking for it and reopening the old one fail, before or after their effect.
OnePrOpen ==
  /\ ~(original = "open" /\ replacement = "open")
  /\ recreate \in {"done", "made anyway"} => replacement = "open"
  /\ recreate \in {"refused", "reopened"} => original \in {"open", "closed by hand"}
=============================================================================
