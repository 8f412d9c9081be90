------------------------------- MODULE Updates -------------------------------
(*****************************************************************************)
(* How a commit reaches the machine and how it is taken back: the updater    *)
(* that a timer starts every five minutes, the rollback from the control     *)
(* room with its hold, and the release of the hold.  The updater and the     *)
(* release run the same script under one lock; the rollback takes no lock,   *)
(* and leaves its install running in the background.                         *)
(*                                                                           *)
(* Commits are numbered along main.  A git command is one step, an install   *)
(* has a beginning and an end; any of them may fail.  What is rescored is    *)
(* left out.                                                                 *)
(*****************************************************************************)
EXTENDS Nothing, Naturals

CONSTANTS
    Commits,                  \* bound: main grows to this commit
    Runs,                     \* who runs update-from-main.sh: the timer, and a release
    Timer, Release,
    MaxRollbacks, MaxFailures, MaxScans  \* bounds

ASSUME UpdatesAssumption ==
    /\ {Timer, Release} \subseteq Runs /\ None \notin Runs
    /\ Commits \in Nat \ {0, 1} /\ None \notin Nat
    /\ None \notin [at : {"held", "moved"}, to : Nat]

VARIABLES
    main,       \* origin/main
    branch,     \* the local branch main
    head,       \* the commit checked out
    hold,       \* the commit named in rollback-hold, or None
    installed,  \* the commit install.sh last ran through for; None: a mixture
    scan,       \* is the morning scan running?
    lock,       \* who holds the updater's lock
    updateRun,  \* the two runs of the script
    back,       \* the rollback under way
    background, \* how many installs of rollbacks run in the background
    rollbacks, failures, scansStarted,
    mixed,      \* history: an install is running under which the checkout has
                \* moved, or beside which another has run
    missed,     \* history: the last install to end failed or was a mixture, or a
                \* merge failed half way
    undisturbed \* history: the last rollback checked its commit out while no run
                \* of the script was past the guard, and has not been released

updatesVars == <<main, branch, head, hold, installed, scan, lock, updateRun,
                 back, background, rollbacks, failures, scansStarted, mixed, missed,
                 undisturbed>>

\* What git, install.sh and the rollback change.
checkoutVars == <<branch, head>>
installVars == <<installed, mixed, missed>>
rollbackVars == <<hold, back, background, rollbacks, undisturbed>>

Out == [at |-> "out"]
To(r, at) == updateRun' = [updateRun EXCEPT ![r] = at]
Leave(r) == To(r, Out) /\ lock' = None

------------------------------------------------------------------------------
(* The updater.                                                             *)

\* Compared with main instead of HEAD.
HeldAtMain == hold # None /\ hold = main

\* rollback-guard.sh: a hold on the very commit that is checked out ends the
\* cycle, any other hold does not.
Guarded == hold # None /\ hold = head

TimerFires ==
    /\ updateRun[Timer] = Out
    /\ ~Guarded
    /\ To(Timer, [at |-> "start"])
    /\ UNCHANGED <<main, checkoutVars, installVars, rollbackVars, scan, lock,
                   failures, scansStarted>>

\* rollback.sh release: the hold goes first, then the script runs unguarded.
ReleaseHold ==
    /\ updateRun[Release] = Out /\ hold # None
    /\ hold' = None /\ undisturbed' = FALSE
    /\ To(Release, [at |-> "start"])
    /\ UNCHANGED <<main, checkoutVars, installVars, scan, lock, back, background,
                   rollbacks, failures, scansStarted>>

\* flock -n: whoever comes second leaves, and calls that success.
TakeLock(r) ==
    /\ updateRun[r].at = "start"
    /\ \/ /\ lock # None /\ To(r, Out) /\ UNCHANGED lock
       \/ /\ lock = None
          /\ lock' = r
          /\ To(r, [at |-> "locked"])
    /\ UNCHANGED <<main, checkoutVars, installVars, rollbackVars, scan,
                   failures, scansStarted>>

\* Not over a live scan; otherwise HEAD is noted.
ReadHead(r) ==
    /\ updateRun[r].at = "locked"
    /\ \/ scan /\ Leave(r)
       \/ ~scan /\ To(r, [at |-> "read", before |-> head]) /\ UNCHANGED lock
    /\ UNCHANGED <<main, checkoutVars, installVars, rollbackVars, scan,
                   failures, scansStarted>>

\* set -e: what fails ends the script.
Aborts == failures < MaxFailures /\ failures' = failures + 1

\* Nothing to do when HEAD is what main is; a fetch sees main as it is by then.
Fetch(r) ==
    /\ updateRun[r].at = "read"
    /\ \/ Aborts /\ Leave(r)
       \/ updateRun[r].before = main /\ Leave(r) /\ UNCHANGED failures
       \/ /\ updateRun[r].before # main
          /\ To(r, [at |-> "fetched", before |-> updateRun[r].before])
          /\ UNCHANGED <<lock, failures>>
    /\ UNCHANGED <<main, checkoutVars, installVars, rollbackVars, scan,
                   scansStarted>>

\* Is an install running?
Installing == background > 0 \/ \E r \in Runs : updateRun[r].at = "installing"

\* git checkout main, git merge --ff-only: the first may succeed alone.
Merge(r) ==
    /\ updateRun[r].at = "fetched"
    /\ \/ /\ Aborts /\ Leave(r)
          /\ head' \in {head, branch}
          /\ missed' = (missed \/ head' # head)
          /\ UNCHANGED branch
       \/ /\ head' = main /\ branch' = main
          /\ To(r, [updateRun[r] EXCEPT !.at = "merged"])
          /\ UNCHANGED <<lock, failures, missed>>
    /\ mixed' = (mixed \/ Installing)
    /\ UNCHANGED <<main, rollbackVars, installed, scan, scansStarted>>

BeginInstall(r) ==
    /\ updateRun[r].at = "merged"
    /\ To(r, [updateRun[r] EXCEPT !.at = "installing"])
    /\ mixed' = Installing
    /\ UNCHANGED <<main, checkoutVars, rollbackVars, installed, missed, scan,
                   lock, failures, scansStarted>>

\* An install that ran through has installed what is checked out, unless that
\* has moved, or another install has run beside it.
Installed ==
    /\ installed' = IF mixed THEN None ELSE head
    /\ missed' = mixed
    /\ UNCHANGED <<mixed, failures>>

FailedInstall == Aborts /\ missed' = TRUE /\ UNCHANGED <<installed, mixed>>

\* A failed install ends the run, the commit stays checked out.
InstallCommit(r) ==
    /\ updateRun[r].at = "installing"
    /\ \/ FailedInstall /\ Leave(r)
       \/ /\ Installed
          /\ To(r, [updateRun[r] EXCEPT !.at = "installed"]) /\ UNCHANGED lock
    /\ UNCHANGED <<main, checkoutVars, rollbackVars, scan, scansStarted>>

\* doctor, repair-fund-criteria, and a rescore when HEAD has moved: the run ends
\* with it, whether it fails or not.
RescoreCommit(r) ==
    /\ updateRun[r].at = "installed"
    /\ Leave(r)
    /\ UNCHANGED <<main, checkoutVars, installVars, rollbackVars, scan, failures,
                   scansStarted>>

UpdateStep(r) ==
    \/ TakeLock(r) \/ ReadHead(r) \/ Fetch(r) \/ Merge(r)
    \/ BeginInstall(r) \/ InstallCommit(r) \/ RescoreCommit(r)

------------------------------------------------------------------------------
(* The rollback.                                                            *)

\* Is a run of the script past the guard?
Underway == \E r \in Runs : updateRun[r] # Out

\* rollback_code: the commit and its confirmation resolve to one ancestor of
\* main; rollback.sh names it in the hold.  The install of an earlier rollback
\* may still be running.
RollbackCode(c) ==
    /\ back = None /\ rollbacks < MaxRollbacks
    /\ c <= main
    /\ hold' = c /\ back' = [at |-> "held", to |-> c]
    /\ rollbacks' = rollbacks + 1
    /\ undisturbed' = FALSE
    /\ UNCHANGED <<main, checkoutVars, installVars, background, scan, lock,
                   updateRun, failures, scansStarted>>

\* git checkout --detach, with the hold already written: it may fail, and set -e
\* ends the script there.
CheckOut ==
    /\ back # None /\ back.at = "held"
    /\ \/ /\ back' = None /\ Aborts
          /\ UNCHANGED <<head, mixed, undisturbed>>
       \/ /\ head' = back.to
          /\ back' = [back EXCEPT !.at = "moved"]
          /\ mixed' = (mixed \/ Installing)
          /\ undisturbed' = (hold # None /\ ~Underway)
          /\ UNCHANGED failures
    /\ UNCHANGED <<main, branch, hold, installed, missed, background, scan, lock,
                   updateRun, rollbacks, scansStarted>>

\* nohup bash install.sh &, from whatever is checked out by then, and the script
\* ends; there may be none at that commit.
StartInstall ==
    /\ back # None /\ back.at = "moved"
    /\ back' = None
    /\ \/ /\ background' = background + 1 /\ mixed' = Installing
          /\ UNCHANGED <<installed, missed, failures>>
       \/ FailedInstall /\ UNCHANGED background
    /\ UNCHANGED <<main, checkoutVars, hold, scan, lock, updateRun, rollbacks,
                   scansStarted, undisturbed>>

InstallBack ==
    /\ background > 0 /\ background' = background - 1
    /\ Installed \/ FailedInstall
    /\ UNCHANGED <<main, checkoutVars, hold, back, scan, lock, updateRun,
                   rollbacks, scansStarted, undisturbed>>

------------------------------------------------------------------------------

Push ==
    /\ main < Commits /\ main' = main + 1
    /\ UNCHANGED <<checkoutVars, installVars, rollbackVars, scan, lock,
                   updateRun, failures, scansStarted>>

StartScan ==
    /\ ~scan /\ scansStarted < MaxScans
    /\ scan' = TRUE /\ scansStarted' = scansStarted + 1
    /\ UNCHANGED <<main, checkoutVars, installVars, rollbackVars, lock,
                   updateRun, failures>>

EndScan ==
    /\ scan /\ scan' = FALSE
    /\ UNCHANGED <<main, checkoutVars, installVars, rollbackVars, lock,
                   updateRun, failures, scansStarted>>

UpdatesInit ==
    /\ main \in 1..2 /\ branch = 1 /\ head = 1 /\ installed = 1
    /\ hold = None /\ scan = FALSE /\ lock = None
    /\ updateRun = [r \in Runs |-> Out] /\ back = None
    /\ background = 0 /\ rollbacks = 0 /\ failures = 0 /\ scansStarted = 0
    /\ mixed = FALSE /\ missed = FALSE /\ undisturbed = FALSE

UpdatesNext ==
    \/ TimerFires \/ ReleaseHold \/ (\E r \in Runs : UpdateStep(r))
    \/ (\E c \in 1..Commits : RollbackCode(c)) \/ CheckOut \/ StartInstall \/ InstallBack
    \/ Push \/ StartScan \/ EndScan

\* The timer fires, a run goes on, a scan ends, again and again: a oneshot unit
\* has a timeout, and the timer starts the next cycle five minutes after it.
UpdatesFairness ==
    /\ WF_updatesVars(EndScan)
    /\ SF_updatesVars(TimerFires) /\ WF_updatesVars(CheckOut \/ StartInstall \/ InstallBack)
    /\ \A r \in Runs : SF_updatesVars(UpdateStep(r))

UpdatesSpec == UpdatesInit /\ [][UpdatesNext]_updatesVars
FairUpdates == UpdatesSpec /\ UpdatesFairness

------------------------------------------------------------------------------
(* Properties.                                                              *)

UpdatesTypeOK ==
    /\ {main, branch, head} \subseteq 1..Commits
    /\ {installed, hold} \subseteq (1..Commits) \cup {None}
    /\ lock \in Runs \cup {None} /\ background \in Nat
    /\ back = None \/ back.at \in {"held", "moved"}

\* Two runs of update-from-main.sh never merge and install over one another.
OneRunAtATime ==
    \A r, q \in Runs :
        {updateRun[r].at, updateRun[q].at} \cap {"out", "start"} = {} => r = q

\* When no run, rollback or install is under way, what is installed is what is
\* checked out, unless the last install failed, or ran beside another or over a
\* checkout that moved (a run and the unlocked rollback may do that to each
\* other), or a merge failed half way.
InstalledIsCheckedOut ==
    lock = None /\ back = None /\ background = 0 /\ ~missed => installed = head

\* A rollback is not fast-forwarded away: once its commit was checked out with
\* no run past the guard, it is what stays checked out until the hold is
\* released or replaced, through timers, pushes, scans and installs that fail.
HoldStands == undisturbed => hold # None /\ head = hold

UpdatesStand == OneRunAtATime /\ InstalledIsCheckedOut /\ HoldStands

\* Without a hold the commit on main gets installed, unless the last install
\* failed or was a mixture: HEAD has moved then, and the next run finds nothing
\* to do.
MergeWaits == hold = None /\ installed # main
MergeArrives == []<>(~MergeWaits \/ missed)

==============================================================================
