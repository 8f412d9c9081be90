------------------------------ MODULE Searches ------------------------------
(***************************************************************************)
(* Scans that somebody asked for.  A Telegram message starts `search` in   *)
(* the background: the kickoff looks at a lock file, spawns the scan and   *)
(* writes the scan's pid to the file, each a step of its own, and may be   *)
(* killed between them by the plugin's time limit.  The ChatGPT service    *)
(* accepts a search as a job: a thread runs the same command and keeps a   *)
(* file about it, which polls read; the service may die and be restarted.  *)
(* Every scan removes the lock file when it ends by itself, whoever wrote  *)
(* it; a killed scan leaves it.                                            *)
(***************************************************************************)
EXTENDS Integers, FiniteSets

CONSTANTS
    Kickoffs,  \* calls of `search --background`
    Jobs,      \* searches posted to the service
    NoPid,     \* no process, no lock file
    MaxKills   \* bound on processes killed and services that die

ASSUME SearchesAssumption ==
    /\ IsFiniteSet(Kickoffs) /\ IsFiniteSet(Jobs)
    /\ NoPid \notin 1 .. Cardinality(Kickoffs) + Cardinality(Jobs)

Pids == 1 .. Cardinality(Kickoffs) + Cardinality(Jobs)

VARIABLES
    scans,     \* pid -> [of, state, code]: a process that runs `search`
    lockFile,  \* search.lock: a pid or NoPid
    kicks,     \* kickoff -> [state, pid, found]
    jobs,      \* job -> [file, thread, pid]: the file's status, what its thread does
    service,   \* the ChatGPT service: [up, kills]
    excused    \* history: why two background scans may be under way at once

searchesVars == <<scans, lockFile, kicks, jobs, service, excused>>

NoScan == [of |-> "nobody", state |-> "unborn", code |-> 0]

SearchesInit ==
    /\ scans = [p \in Pids |-> NoScan]
    /\ lockFile = NoPid
    /\ kicks = [k \in Kickoffs |-> [state |-> "waiting", pid |-> NoPid]]
    /\ jobs = [j \in Jobs |-> [file |-> "absent", thread |-> "none", pid |-> NoPid]]
    /\ service = [up |-> TRUE, kills |-> 0]
    /\ excused = FALSE

\* _pid_alive.
Alive(p) == scans[p].state = "running"

Unborn == {p \in Pids : scans[p].state = "unborn"}

\* The next process: a pid that names no other, as long as the machine is up.
NextPid == CHOOSE p \in Unborn : \A q \in Unborn : p <= q

Background == {p \in Pids : Alive(p) /\ scans[p].of = "telegram"}

StartSearch(p, of) == scans' = [scans EXCEPT ![p] = [of |-> of, state |-> "running", code |-> 0]]

Exited(p, code) == [of |-> scans[p].of, state |-> "exited", code |-> code]

Exits(p, code) == scans' = [scans EXCEPT ![p] = Exited(p, code)]

-----------------------------------------------------------------------------
(* The kickoff of a background scan.                                       *)

\* Without asking whether the process is there.
LockExists == lockFile # NoPid

\* A process of another user counts as none.
OursInProgress == lockFile # NoPid /\ Alive(lockFile) /\ scans[lockFile].of = "chatgpt"

\* search_in_progress: of a live process, else the file is stale and goes.
InProgress == lockFile # NoPid /\ Alive(lockFile)

LookAtLock(k) ==
    /\ kicks[k].state = "waiting"
    /\ kicks' = [kicks EXCEPT ![k].state = IF InProgress THEN "already" ELSE "clear"]
    /\ lockFile' = IF InProgress THEN lockFile ELSE NoPid
    /\ excused' = (excused \/ \E o \in Kickoffs \ {k} : kicks[o].state \in {"clear", "spawned"})
    /\ UNCHANGED <<scans, jobs, service>>

\* kickoff_search, the rest: Popen in a session of its own.
Spawn(k) ==
    /\ kicks[k].state = "clear"
    /\ kicks' = [kicks EXCEPT ![k] = [state |-> "spawned", pid |-> NextPid]]
    /\ StartSearch(NextPid, "telegram")
    /\ UNCHANGED <<lockFile, jobs, service, excused>>

SpawnFails(k) ==
    /\ kicks[k].state = "clear"
    /\ kicks' = [kicks EXCEPT ![k].state = "failed"]
    /\ UNCHANGED <<scans, lockFile, jobs, service, excused>>

WriteLock(k) ==
    /\ kicks[k].state = "spawned"
    /\ lockFile' = kicks[k].pid
    /\ kicks' = [kicks EXCEPT ![k].state = "started"]
    /\ UNCHANGED <<scans, jobs, service, excused>>

\* An OSError is logged and no more: the scan goes on and nothing names it.
WriteLockFails(k) ==
    /\ kicks[k].state = "spawned"
    /\ lockFile' \in {lockFile, NoPid}
    /\ kicks' = [kicks EXCEPT ![k].state = "started"]
    /\ excused' = TRUE
    /\ UNCHANGED <<scans, jobs, service>>

\* The plugin waits 25 seconds for it; the scan it spawned lives on.
KickoffKilled(k) ==
    /\ kicks[k].state \in {"clear", "spawned"}
    /\ service.kills < MaxKills
    /\ service' = [service EXCEPT !.kills = @ + 1]
    /\ excused' = (excused \/ kicks[k].state = "spawned")
    /\ kicks' = [kicks EXCEPT ![k].state = "killed"]
    /\ UNCHANGED <<scans, lockFile, jobs>>

-----------------------------------------------------------------------------
(* A scan.                                                                 *)

\* `search`, its end: mark_search_done whatever came of it, then the exit.
FinishScan(p, code) ==
    /\ Alive(p)
    /\ Exits(p, code)
    /\ lockFile' = NoPid
    /\ excused' = (excused \/ lockFile # p)
    /\ UNCHANGED <<kicks, jobs, service>>

ScanKilled(p) ==
    /\ Alive(p)
    /\ service.kills < MaxKills
    /\ service' = [service EXCEPT !.kills = @ + 1]
    /\ Exits(p, -9)
    /\ UNCHANGED <<lockFile, kicks, jobs, excused>>

-----------------------------------------------------------------------------
(* Jobs of the ChatGPT service.                                            *)

\* create_job.
Created == [file |-> "queued", thread |-> "ready", pid |-> NoPid]

\* The file of a job, and what its thread is at.
JobIs(j, file, thread, pid) ==
    jobs' = [jobs EXCEPT ![j] = [file |-> file, thread |-> thread, pid |-> pid]]

\* What a poll reads of the file, which is replaced whole with every save.
Poll(j) == jobs[j].file

\* POST /v1/jobs/search: create_job saves the file, spawn_job starts the thread.
PostSearch(j) ==
    /\ service.up
    /\ jobs[j].file = "absent"
    /\ jobs' = [jobs EXCEPT ![j] = Created]
    /\ UNCHANGED <<scans, lockFile, kicks, service, excused>>

\* run_job_sync: the file says running before the command is run.
RunJob(j) ==
    /\ jobs[j].thread = "ready"
    /\ JobIs(j, "running", "about to run", jobs[j].pid)
    /\ UNCHANGED <<scans, lockFile, kicks, service, excused>>

\* run_argv: a command that cannot be executed is exit code 127.
ExecJob(j) ==
    /\ jobs[j].thread = "about to run"
    /\ \/ /\ JobIs(j, jobs[j].file, "waiting", NextPid)
          /\ StartSearch(NextPid, "chatgpt")
       \/ /\ JobIs(j, "failed", "ended", jobs[j].pid)
          /\ UNCHANGED scans
    /\ UNCHANGED <<lockFile, kicks, service, excused>>

\* A scan that is partly done exits with 1: that is a failure here.
Status(code) == IF code = 0 THEN "done" ELSE "failed"

\* _apply_result.
ApplyResult(j) ==
    /\ jobs[j].thread = "waiting"
    /\ ~Alive(jobs[j].pid)
    /\ JobIs(j, Status(scans[jobs[j].pid].code), "ended", jobs[j].pid)
    /\ UNCHANGED <<scans, lockFile, kicks, service, excused>>

\* After an hour the process is killed, which leaves a lock file alone, and the
\* job is exit code 124.
JobTimesOut(j) ==
    /\ jobs[j].thread = "waiting"
    /\ Alive(jobs[j].pid)
    /\ Exits(jobs[j].pid, 124)
    /\ JobIs(j, Status(124), "ended", jobs[j].pid)
    /\ UNCHANGED <<lockFile, kicks, service, excused>>

\* Its threads go with it, and the scans they wait for; the files stay.
ServiceDies ==
    /\ service.up
    /\ service.kills < MaxKills
    /\ service' = [up |-> FALSE, kills |-> service.kills + 1]
    /\ jobs' = [j \in Jobs |->
           IF jobs[j].thread \in {"none", "ended"} THEN jobs[j]
           ELSE [file |-> jobs[j].file, thread |-> "lost", pid |-> jobs[j].pid]]
    /\ scans' = [p \in Pids |->
           IF Alive(p) /\ scans[p].of = "chatgpt"
           THEN Exited(p, -9)
           ELSE scans[p]]
    /\ UNCHANGED <<lockFile, kicks, excused>>

\* Restart=on-failure; nothing reads the files of old jobs again.
ServiceRestarts ==
    /\ ~service.up
    /\ service' = [service EXCEPT !.up = TRUE]
    /\ UNCHANGED <<scans, lockFile, kicks, jobs, excused>>

Codes == {0, 1}

Progress ==
    \/ \E k \in Kickoffs : LookAtLock(k)
    \/ \E k \in Kickoffs : Spawn(k)
    \/ \E k \in Kickoffs : WriteLock(k)
    \/ \E p \in Pids, code \in Codes : FinishScan(p, code)
    \/ \E j \in Jobs : PostSearch(j)
    \/ \E j \in Jobs : RunJob(j)
    \/ \E j \in Jobs : ExecJob(j)
    \/ \E j \in Jobs : ApplyResult(j)

SearchesNext ==
    \/ Progress
    \/ \E k \in Kickoffs : SpawnFails(k)
    \/ \E k \in Kickoffs : WriteLockFails(k)
    \/ \E k \in Kickoffs : KickoffKilled(k)
    \/ \E p \in Pids : ScanKilled(p)
    \/ \E j \in Jobs : JobTimesOut(j)
    \/ ServiceDies
    \/ ServiceRestarts

\* Threads and processes go on; nobody has to ask, and the service may stay down.
SearchesSpec == SearchesInit /\ [][SearchesNext]_searchesVars /\ WF_searchesVars(Progress)

-----------------------------------------------------------------------------
(* Properties.                                                             *)

\* "If idle": a second background scan is started while one is under way only
\* when two kickoffs overlapped, one was killed or failed before the pid was
\* written, or another search has ended and taken the lock file with it.
OneScanAtATime == Cardinality(Background) > 1 => excused

\* What a poll is told: "done" of a scan that ended well, "failed" of one that
\* did not, and of neither while it is running; a job whose service died under
\* it is what it was.
PollIsTrue ==
    \A j \in Jobs :
        LET pid == jobs[j].pid
        IN  /\ Poll(j) = "done" => pid # NoPid /\ scans[pid].code = 0
            /\ Poll(j) \in {"done", "failed"} => pid = NoPid \/ ~Alive(pid)
            /\ Poll(j) = "failed" /\ pid # NoPid => scans[pid].code # 0

\* A posted job settles unless the service died, and a lock file that a killed
\* scan left behind does not refuse every later scan.
SearchWaits ==
    InProgress \/ \E j \in Jobs : jobs[j].file = "queued" /\ jobs[j].thread \notin {"ended", "lost"}
NobodyWaitsForNothing == []<>~SearchWaits

=============================================================================
