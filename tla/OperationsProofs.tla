--------------------------- MODULE OperationsProofs ---------------------------
(***************************************************************************)
(* Proofs about the machines around the pipeline: the searches asked for by  *)
(* chat, the HTTP client, the updater of the server and the restore of its   *)
(* database, for any number of jobs, requests, commits and snapshots; and    *)
(* about reading articles, the rows of scores, the table of thresholds, the  *)
(* order of Today and the tabs of weights.                                   *)
(***************************************************************************)
EXTENDS Searches, Fetch, Updates, Restore, Extract, Scoring, Selection,
        Tuning, Weights, FiniteSetTheorems, SequenceTheorems, WellFoundedInduction, TLAPS

------------------------------------------------------------------------------
(* Searches: the invariant                                                  *)

ScansTypeOK ==
    scans \in [Pids -> [of : {"nobody", "telegram", "chatgpt"},
                       state : {"unborn", "running", "exited"}, code : Int]]

KicksTypeOK ==
    kicks \in [Kickoffs ->
        [state : {"waiting", "already", "clear", "spawned", "failed", "started", "killed"},
         pid : Pids \cup {NoPid}]]

JobsTypeOK ==
    jobs \in [Jobs ->
        [file : {"absent", "queued", "running", "done", "failed"},
         thread : {"none", "ready", "about to run", "waiting", "ended", "lost"},
         pid : Pids \cup {NoPid}]]

SearchesTypeOK ==
    ScansTypeOK /\ KicksTypeOK /\ JobsTypeOK /\ lockFile \in Pids \cup {NoPid}

\* A process is there because of a kickoff or a job, each of which starts one.
Owned ==
    /\ \A p \in Pids : p \notin Unborn =>
          (\E k \in Kickoffs : kicks[k].pid = p) \/ (\E j \in Jobs : jobs[j].pid = p)
    /\ \A k \in Kickoffs : kicks[k].state \in {"waiting", "clear"} => kicks[k].pid = NoPid
    /\ \A j \in Jobs : jobs[j].thread \in {"none", "ready", "about to run"} => jobs[j].pid = NoPid
    /\ \A k \in Kickoffs : kicks[k].state = "spawned" => kicks[k].pid # NoPid

\* The file of a job says no more than its thread has seen.
FilesFollow ==
    \A j \in Jobs :
       /\ jobs[j].file \in {"done", "failed"} => jobs[j].thread = "ended"
       /\ jobs[j].pid # NoPid => jobs[j].pid \notin Unborn
       /\ jobs[j].thread = "waiting" => jobs[j].pid # NoPid
       /\ jobs[j].file = "absent" => jobs[j].thread = "none"

\* Until something excuses it: at most one background scan, whose pid is in the lock
\* file or about to be written by the only kickoff that is under way.
InLine ==
    ~ excused =>
       /\ \A k, o \in Kickoffs :
             {kicks[k].state, kicks[o].state} \subseteq {"clear", "spawned"} => k = o
       /\ \A k \in Kickoffs : kicks[k].state = "clear" => Background = {}
       /\ \A k \in Kickoffs : kicks[k].state = "spawned" => Background \subseteq {kicks[k].pid}
       /\ \A p \in Background :
             lockFile = p \/ \E k \in Kickoffs : kicks[k].state = "spawned"

SearchesInv == SearchesTypeOK /\ Owned /\ FilesFollow /\ PollIsTrue /\ InLine

------------------------------------------------------------------------------
(* Searches: a pid for every process                                        *)

\* A nonempty set of natural numbers has a least one.
LEMMA HasLeast ==
    ASSUME NEW S \in SUBSET Nat, S # {}
    PROVE  \E n \in S : \A m \in S : n <= m
  <1> DEFINE Less == {ss \in Nat \X Nat : ss[1] < ss[2]}
  <1>1. IsWellFoundedOn(Less, Nat)
    BY NatLessThanWellFounded, Zenon DEF OpToRel
  <1> HIDE DEF Less
  <1>2. PICK n \in S : \A m \in S : ~(<<m, n>> \in Less)
    BY <1>1, WFMin, Zenon
  <1>3. ASSUME NEW m \in S, m < n PROVE FALSE
    <2>1. <<m, n>> \in Nat \X Nat /\ <<m, n>>[1] < <<m, n>>[2]
      BY <1>3
    <2>2. <<m, n>> \in Less
      BY <2>1 DEF Less
    <2> QED BY <1>2, <1>3, <2>2
  <1> QED BY <1>3

PidType == Pids \subseteq Nat /\ IsFiniteSet(Pids) /\ NoPid \notin Pids

LEMMA PidsAreFinite ==
    PidType /\ Cardinality(Pids) = Cardinality(Kickoffs) + Cardinality(Jobs)
  <1>1. Cardinality(Kickoffs) \in Nat /\ Cardinality(Jobs) \in Nat
    BY SearchesAssumption, FS_CardinalityType
  <1> DEFINE n == Cardinality(Kickoffs) + Cardinality(Jobs)
  <1>2. n \in Nat
    BY <1>1
  <1>3. Pids = 1 .. n
    BY DEF Pids
  <1> HIDE DEF n
  <1>4. IsFiniteSet(1 .. n) /\ Cardinality(1 .. n) = n
    BY <1>2, FS_Interval
  <1>5. NoPid \notin 1 .. n
    BY SearchesAssumption DEF n
  <1> QED BY <1>2, <1>3, <1>4, <1>5 DEF PidType, n

\* The values of a function are no more than its arguments.
LEMMA ImageCount ==
    ASSUME NEW S, IsFiniteSet(S), NEW f, f = [x \in S |-> f[x]]
    PROVE  LET T == {f[x] : x \in S} IN IsFiniteSet(T) /\ Cardinality(T) <= Cardinality(S)
  <1> DEFINE T == {f[x] : x \in S}
  <1>1. f \in Surjection(S, T)
    BY DEF Surjection
  <1> HIDE DEF T
  <1>2. IsFiniteSet(T) /\ Cardinality(T) <= Cardinality(S)
    BY <1>1, FS_Surjection
  <1> QED BY <1>2 DEF T

\* While some kickoff or job has started no process, there is a pid to be given.
LEMMA PidLeft ==
    ASSUME SearchesTypeOK, Owned,
           (\E k \in Kickoffs : kicks[k].pid = NoPid) \/ (\E j \in Jobs : jobs[j].pid = NoPid)
    PROVE  NextPid \in Unborn
  <1> DEFINE KU == {k \in Kickoffs : kicks[k].pid # NoPid}
             JU == {j \in Jobs : jobs[j].pid # NoPid}
             f == [k \in KU |-> kicks[k].pid]
             g == [j \in JU |-> jobs[j].pid]
             A == {f[k] : k \in KU}
             B == {g[j] : j \in JU}
  <1>k. /\ IsFiniteSet(Kickoffs) /\ IsFiniteSet(Jobs)
        /\ Cardinality(Kickoffs) \in Nat /\ Cardinality(Jobs) \in Nat
    BY SearchesAssumption, FS_CardinalityType
  <1>1. /\ IsFiniteSet(KU) /\ Cardinality(KU) \in Nat /\ Cardinality(KU) <= Cardinality(Kickoffs)
        /\ Cardinality(KU) = Cardinality(Kickoffs) => KU = Kickoffs
    BY <1>k, FS_Subset, FS_CardinalityType
  <1>2. /\ IsFiniteSet(JU) /\ Cardinality(JU) \in Nat /\ Cardinality(JU) <= Cardinality(Jobs)
        /\ Cardinality(JU) = Cardinality(Jobs) => JU = Jobs
    BY <1>k, FS_Subset, FS_CardinalityType
  <1>3. IsFiniteSet(A) /\ Cardinality(A) <= Cardinality(KU)
    <2> HIDE DEF KU
    <2>1. f = [x \in KU |-> f[x]]
      OBVIOUS
    <2> HIDE DEF f
    <2> QED BY <1>1, <2>1, ImageCount
  <1>4. IsFiniteSet(B) /\ Cardinality(B) <= Cardinality(JU)
    <2> HIDE DEF JU
    <2>1. g = [x \in JU |-> g[x]]
      OBVIOUS
    <2> HIDE DEF g
    <2> QED BY <1>2, <2>1, ImageCount
  <1>5. Cardinality(KU) + Cardinality(JU) < Cardinality(Kickoffs) + Cardinality(Jobs)
    <2>1. KU # Kickoffs \/ JU # Jobs
      OBVIOUS
    <2> HIDE DEF KU, JU
    <2> QED BY <1>k, <1>1, <1>2, <2>1
  <1>6. Pids \ Unborn \subseteq A \cup B
    <2> SUFFICES ASSUME NEW p \in Pids, p \notin Unborn
                 PROVE  p \in A \cup B
      OBVIOUS
    <2>1. p # NoPid
      BY PidsAreFinite DEF PidType
    <2>2. CASE \E k \in Kickoffs : kicks[k].pid = p
      <3>1. PICK k \in KU : kicks[k].pid = p
        BY <2>1, <2>2
      <3> QED BY <3>1
    <2>3. CASE \E j \in Jobs : jobs[j].pid = p
      <3>1. PICK j \in JU : jobs[j].pid = p
        BY <2>1, <2>3
      <3> QED BY <3>1
    <2> QED BY <2>2, <2>3 DEF Owned
  <1> HIDE DEF KU, JU, A, B, f, g
  <1>7. /\ IsFiniteSet(A \cup B) /\ Cardinality(A \cup B) \in Nat
        /\ Cardinality(A \cup B) <= Cardinality(KU) + Cardinality(JU)
    <2>1. Cardinality(A \cup B) = Cardinality(A) + Cardinality(B) - Cardinality(A \cap B)
      BY <1>3, <1>4, FS_Union
    <2>2. IsFiniteSet(A \cap B) /\ IsFiniteSet(A \cup B)
      BY <1>3, <1>4, FS_Intersection, FS_Union
    <2>3. Cardinality(A) \in Nat /\ Cardinality(B) \in Nat /\ Cardinality(A \cap B) \in Nat
          /\ Cardinality(A \cup B) \in Nat
      BY <1>3, <1>4, <2>2, FS_CardinalityType
    <2> QED BY <1>1, <1>2, <1>3, <1>4, <2>1, <2>2, <2>3
  <1>8. Unborn # {}
    <2> SUFFICES ASSUME Unborn = {} PROVE FALSE
      OBVIOUS
    <2>1. Pids \subseteq A \cup B
      BY <1>6
    <2>2. Cardinality(Pids) <= Cardinality(A \cup B)
      BY <1>7, <2>1, FS_Subset
    <2> QED BY <1>k, <1>1, <1>2, <1>5, <1>7, <2>2, PidsAreFinite
  <1>9. Unborn \subseteq Nat
    BY PidsAreFinite DEF PidType, Unborn
  <1>10. \E p \in Unborn : \A q \in Unborn : p <= q
    BY <1>8, <1>9, HasLeast
  <1> QED BY <1>10 DEF NextPid

\* What is alive has been started.
LEMMA UnbornIsNotAlive ==
    \A p \in Unborn : p \in Pids /\ ~ Alive(p) /\ p \notin Background
  BY DEF Unborn, Alive, Background

LEMMA SearchesStart == SearchesInit => SearchesInv
  <1> SUFFICES ASSUME SearchesInit PROVE SearchesInv
    OBVIOUS
  <1>1. SearchesTypeOK
    BY DEF SearchesInit, SearchesTypeOK, ScansTypeOK, KicksTypeOK, JobsTypeOK, NoScan
  <1>2. Owned
    BY DEF SearchesInit, Owned, Unborn, NoScan
  <1>3. FilesFollow
    BY DEF SearchesInit, FilesFollow
  <1>4. PollIsTrue
    BY DEF SearchesInit, PollIsTrue, Poll
  <1>5. InLine
    BY DEF SearchesInit, InLine, Background, Alive, NoScan
  <1> QED BY <1>1, <1>2, <1>3, <1>4, <1>5 DEF SearchesInv

\* No scan and no job is touched, and a pid that a kickoff has it keeps.
LEMMA KickoffAlone ==
    ASSUME SearchesInv, NEW k \in Kickoffs, UNCHANGED <<scans, jobs>>,
           NEW s \in {"already", "clear", "failed", "started", "killed"},
           kicks' = [kicks EXCEPT ![k].state = s],
           kicks[k].state = "waiting" \/ s # "clear",
           lockFile' \in Pids \cup {NoPid}
    PROVE  /\ SearchesTypeOK' /\ Owned' /\ FilesFollow' /\ PollIsTrue'
           /\ Background' = Background
           /\ kicks'[k] = [state |-> s, pid |-> kicks[k].pid]
           /\ \A o \in Kickoffs \ {k} : kicks'[o] = kicks[o]
  <1>1. SearchesTypeOK /\ Owned /\ FilesFollow /\ PollIsTrue
    BY DEF SearchesInv
  <1>2. SearchesTypeOK'
    BY <1>1, ZenonT(60) DEF SearchesTypeOK, ScansTypeOK, KicksTypeOK, JobsTypeOK
  <1>3. Unborn' = Unborn /\ Background' = Background
    BY DEF Unborn, Background, Alive
  <1>4. /\ kicks'[k] = [state |-> s, pid |-> kicks[k].pid]
        /\ \A o \in Kickoffs \ {k} : kicks'[o] = kicks[o]
    BY <1>1, ZenonT(60) DEF SearchesTypeOK, ScansTypeOK, KicksTypeOK, JobsTypeOK
  <1>p. \A o \in Kickoffs : kicks'[o].pid = kicks[o].pid
    BY <1>4
  <1>5. Owned'
    <2>1. ASSUME NEW o \in Kickoffs
          PROVE  /\ kicks'[o].state \in {"waiting", "clear"} => kicks[o].state \in {"waiting", "clear"}
                 /\ kicks'[o].state = "spawned" => kicks[o].state = "spawned"
      <3>1. CASE o = k
        BY <1>4, <3>1
      <3>2. CASE o # k
        BY <1>4, <3>2
      <3> QED BY <3>1, <3>2
    <2>2. \A o \in Kickoffs : kicks'[o].state \in {"waiting", "clear"} => kicks'[o].pid = NoPid
      BY <1>1, <1>p, <2>1 DEF Owned
    <2>3. \A o \in Kickoffs : kicks'[o].state = "spawned" => kicks'[o].pid # NoPid
      BY <1>1, <1>p, <2>1 DEF Owned
    <2>4. \A p \in Pids : p \notin Unborn' =>
             (\E o \in Kickoffs : kicks'[o].pid = p) \/ (\E j \in Jobs : jobs'[j].pid = p)
      BY <1>1, <1>3, <1>p, ZenonT(60) DEF Owned
    <2> QED BY <1>1, <2>2, <2>3, <2>4 DEF Owned
  <1>6. FilesFollow' /\ PollIsTrue'
    BY <1>1, <1>3 DEF FilesFollow, PollIsTrue, Poll, Alive
  <1> QED BY <1>2, <1>3, <1>4, <1>5, <1>6

\* The steps of the kickoffs.
LEMMA KickoffsKeep ==
    ASSUME SearchesInv, NEW k \in Kickoffs,
           \/ LookAtLock(k) \/ Spawn(k) \/ SpawnFails(k)
           \/ WriteLock(k) \/ WriteLockFails(k) \/ KickoffKilled(k)
    PROVE  SearchesInv'
  <1>0. SearchesTypeOK /\ Owned /\ FilesFollow /\ PollIsTrue /\ InLine
    BY DEF SearchesInv
  <1>1. CASE LookAtLock(k)
    <2>1. PICK s \in {"already", "clear"} :
             /\ kicks' = [kicks EXCEPT ![k].state = s]
             /\ s = "already" => InProgress /\ lockFile' = lockFile
             /\ s = "clear" => ~ InProgress /\ lockFile' = NoPid
      <3>1. CASE InProgress
        BY <1>1, <3>1 DEF LookAtLock
      <3>2. CASE ~ InProgress
        BY <1>1, <3>2 DEF LookAtLock
      <3> QED BY <3>1, <3>2
    <2>2. kicks[k].state = "waiting" /\ UNCHANGED <<scans, jobs>>
      BY <1>1 DEF LookAtLock
    <2>3. lockFile' \in Pids \cup {NoPid}
      BY <1>0, <2>1 DEF SearchesTypeOK, ScansTypeOK, KicksTypeOK, JobsTypeOK
    <2>4. /\ SearchesTypeOK' /\ Owned' /\ FilesFollow' /\ PollIsTrue'
          /\ Background' = Background
          /\ kicks'[k] = [state |-> s, pid |-> kicks[k].pid]
          /\ \A o \in Kickoffs \ {k} : kicks'[o] = kicks[o]
      BY <2>1, <2>2, <2>3, KickoffAlone
    <2>5. ~ excused' =>
             ~ excused /\ \A o \in Kickoffs \ {k} : kicks[o].state \notin {"clear", "spawned"}
      BY <1>1, Zenon DEF LookAtLock
    <2>6. ~ excused' /\ s = "clear" => Background = {}
      BY <1>0, <2>1, <2>2, <2>5, PidsAreFinite DEF InLine, Background, InProgress, PidType
    <2>7. InLine'
      BY <1>0, <2>1, <2>2, <2>4, <2>5, <2>6 DEF InLine
    <2> QED BY <2>4, <2>7 DEF SearchesInv
  <1>2. CASE Spawn(k)
    <2> DEFINE n == NextPid
    <2>0. n \in Unborn /\ n \in Pids /\ n # NoPid
      <3>1. kicks[k].pid = NoPid
        BY <1>0, <1>2 DEF Spawn, Owned
      <3> QED BY <1>0, <3>1, PidLeft, PidsAreFinite DEF Unborn, PidType
    <2>1. /\ scans' = [scans EXCEPT ![n] = [of |-> "telegram", state |-> "running", code |-> 0]]
          /\ kicks' = [kicks EXCEPT ![k] = [state |-> "spawned", pid |-> n]]
          /\ kicks[k].state = "clear"
          /\ UNCHANGED <<lockFile, jobs, excused>>
      BY <1>2 DEF Spawn, StartSearch
    <2> HIDE DEF n
    <2>2. SearchesTypeOK'
      <3>1. [of |-> "telegram", state |-> "running", code |-> 0] \in
               [of : {"nobody", "telegram", "chatgpt"},
                state : {"unborn", "running", "exited"}, code : Int]
        OBVIOUS
      <3>2. ScansTypeOK'
        BY <1>0, <2>0, <2>1, <3>1 DEF SearchesTypeOK, ScansTypeOK, KicksTypeOK, JobsTypeOK
      <3>3. KicksTypeOK'
        BY <1>0, <2>0, <2>1 DEF SearchesTypeOK, ScansTypeOK, KicksTypeOK, JobsTypeOK
      <3> QED BY <1>0, <2>1, <3>2, <3>3 DEF SearchesTypeOK, ScansTypeOK, KicksTypeOK, JobsTypeOK
    <2>3. Unborn' = Unborn \ {n}
      BY <1>0, <2>0, <2>1 DEF SearchesTypeOK, ScansTypeOK, KicksTypeOK, JobsTypeOK, Unborn
    <2>4. Background' = Background \cup {n}
      BY <1>0, <2>0, <2>1
        DEF SearchesTypeOK, ScansTypeOK, KicksTypeOK, JobsTypeOK, Background, Alive
    <2>5. /\ kicks'[k] = [state |-> "spawned", pid |-> n]
          /\ \A o \in Kickoffs \ {k} : kicks'[o] = kicks[o]
          /\ \A p \in Pids \ {n} : scans'[p] = scans[p]
      BY <1>0, <2>1 DEF SearchesTypeOK, ScansTypeOK, KicksTypeOK, JobsTypeOK
    <2>6. kicks[k].pid = NoPid
      BY <1>0, <2>1 DEF Owned
    <2>7. Owned'
      <3>1. \A p \in Pids : p \notin Unborn' =>
               (\E o \in Kickoffs : kicks'[o].pid = p) \/ (\E j \in Jobs : jobs'[j].pid = p)
        <4> SUFFICES ASSUME NEW p \in Pids, p \notin Unborn'
                     PROVE  (\E o \in Kickoffs : kicks'[o].pid = p) \/ (\E j \in Jobs : jobs'[j].pid = p)
          OBVIOUS
        <4>1. CASE p = n
          BY <2>5, <4>1
        <4>2. CASE p # n
          <5>1. p \notin Unborn /\ p # NoPid
            BY <2>3, <4>2, PidsAreFinite DEF PidType
          <5>2. CASE \E o \in Kickoffs : kicks[o].pid = p
            BY <2>5, <2>6, <5>1, <5>2
          <5>3. CASE \E j \in Jobs : jobs[j].pid = p
            BY <2>1, <5>3
          <5> QED BY <1>0, <5>1, <5>2, <5>3 DEF Owned
        <4> QED BY <4>1, <4>2
      <3>2. ASSUME NEW o \in Kickoffs
            PROVE  /\ kicks'[o].state \in {"waiting", "clear"} => kicks'[o].pid = NoPid
                   /\ kicks'[o].state = "spawned" => kicks'[o].pid # NoPid
        <4>1. CASE o = k
          BY <2>0, <2>5, <4>1
        <4>2. CASE o # k
          BY <1>0, <2>5, <4>2 DEF Owned
        <4> QED BY <4>1, <4>2
      <3> QED BY <1>0, <2>1, <3>1, <3>2 DEF Owned
    <2>8. FilesFollow'
      BY <1>0, <2>1, <2>3 DEF FilesFollow
    <2>9. PollIsTrue'
      BY <1>0, <2>0, <2>1, <2>5, ZenonT(60)
        DEF SearchesTypeOK, ScansTypeOK, KicksTypeOK, JobsTypeOK, FilesFollow,
            PollIsTrue, Poll, Alive
    <2>10. InLine'
      BY <1>0, <2>1, <2>4, <2>5 DEF InLine
    <2> QED BY <2>2, <2>7, <2>8, <2>9, <2>10 DEF SearchesInv
  <1>3. CASE SpawnFails(k)
    <2>1. /\ SearchesTypeOK' /\ Owned' /\ FilesFollow' /\ PollIsTrue'
          /\ Background' = Background
          /\ kicks'[k] = [state |-> "failed", pid |-> kicks[k].pid]
          /\ \A o \in Kickoffs \ {k} : kicks'[o] = kicks[o]
      BY <1>0, <1>3, KickoffAlone
        DEF SpawnFails, SearchesTypeOK, ScansTypeOK, KicksTypeOK, JobsTypeOK
    <2>2. InLine'
      BY <1>0, <1>3, <2>1 DEF SpawnFails, InLine
    <2> QED BY <2>1, <2>2 DEF SearchesInv
  <1>4. CASE WriteLock(k)
    <2>1. /\ SearchesTypeOK' /\ Owned' /\ FilesFollow' /\ PollIsTrue'
          /\ Background' = Background
          /\ kicks'[k] = [state |-> "started", pid |-> kicks[k].pid]
          /\ \A o \in Kickoffs \ {k} : kicks'[o] = kicks[o]
      BY <1>0, <1>4, KickoffAlone
        DEF WriteLock, SearchesTypeOK, ScansTypeOK, KicksTypeOK, JobsTypeOK
    <2>2. InLine'
      BY <1>0, <1>4, <2>1 DEF WriteLock, InLine
    <2> QED BY <2>1, <2>2 DEF SearchesInv
  <1>5. CASE KickoffKilled(k)
    <2>1. /\ SearchesTypeOK' /\ Owned' /\ FilesFollow' /\ PollIsTrue'
          /\ Background' = Background
          /\ kicks'[k] = [state |-> "killed", pid |-> kicks[k].pid]
          /\ \A o \in Kickoffs \ {k} : kicks'[o] = kicks[o]
      BY <1>0, <1>5, KickoffAlone
        DEF KickoffKilled, SearchesTypeOK, ScansTypeOK, KicksTypeOK, JobsTypeOK
    <2>2. ~ excused' => ~ excused /\ kicks[k].state # "spawned"
      BY <1>5, Zenon DEF KickoffKilled
    <2>3. lockFile' = lockFile /\ kicks[k].state \in {"clear", "spawned"}
      BY <1>5 DEF KickoffKilled
    <2>4. InLine'
      BY <1>0, <2>1, <2>2, <2>3 DEF InLine
    <2> QED BY <2>1, <2>4 DEF SearchesInv
  <1>6. CASE WriteLockFails(k)
    <2>1. /\ kicks[k].state = "spawned" /\ UNCHANGED <<scans, jobs, service>>
          /\ lockFile' \in Pids \cup {NoPid} /\ excused' = TRUE
          /\ kicks' = [kicks EXCEPT ![k].state = "started"]
      BY <1>0, <1>6 DEF WriteLockFails, SearchesTypeOK, ScansTypeOK
    <2>2. /\ SearchesTypeOK' /\ Owned' /\ FilesFollow' /\ PollIsTrue'
      BY <1>0, <2>1, KickoffAlone
        DEF SearchesTypeOK, ScansTypeOK, KicksTypeOK, JobsTypeOK
    <2>3. InLine'
      BY <2>1 DEF InLine
    <2> QED BY <2>2, <2>3 DEF SearchesInv
  <1> QED BY <1>1, <1>2, <1>3, <1>4, <1>5, <1>6

\* The ends of scans: no job has been told of a scan that is still under way.
LEMMA ScansKeep ==
    ASSUME SearchesInv, NEW p \in Pids,
           (\E code \in Codes : FinishScan(p, code)) \/ ScanKilled(p)
    PROVE  SearchesInv'
  <1>0. SearchesTypeOK /\ Owned /\ FilesFollow /\ PollIsTrue /\ InLine
    BY DEF SearchesInv
  <1>1. PICK code \in Int :
           /\ Alive(p)
           /\ Exits(p, code)
           /\ UNCHANGED <<kicks, jobs>>
           /\ lockFile' \in {NoPid, lockFile}
    <2>1. ASSUME NEW c \in Codes, FinishScan(p, c)
          PROVE  /\ Alive(p) /\ c \in Int
                 /\ Exits(p, c)
                 /\ UNCHANGED <<kicks, jobs>>
                 /\ lockFile' = NoPid
      BY <2>1 DEF FinishScan, Codes
    <2>2. ASSUME ScanKilled(p)
          PROVE  /\ Alive(p)
                 /\ Exits(p, -9)
                 /\ UNCHANGED <<kicks, jobs>>
                 /\ lockFile' = lockFile
      BY <2>2 DEF ScanKilled
    <2>3. -9 \in Int
      OBVIOUS
    <2> QED BY <2>1, <2>2, <2>3
  <1>2. ~ excused' => ~ excused /\ (lockFile' = lockFile \/ lockFile = p)
    <2>1. CASE \E code2 \in Codes : FinishScan(p, code2)
      BY <2>1, Zenon DEF FinishScan
    <2>2. CASE ScanKilled(p)
      BY <2>2, Zenon DEF ScanKilled
    <2> QED BY <2>1, <2>2
  <1>4. SearchesTypeOK'
    <2>1. ScansTypeOK'
      BY <1>0, <1>1 DEF SearchesTypeOK, ScansTypeOK, KicksTypeOK, JobsTypeOK, Exits, Exited
    <2>2. lockFile' \in Pids \cup {NoPid}
      BY <1>0, <1>1 DEF SearchesTypeOK, ScansTypeOK, KicksTypeOK, JobsTypeOK
    <2> QED BY <1>0, <1>1, <2>1, <2>2 DEF SearchesTypeOK, ScansTypeOK, KicksTypeOK, JobsTypeOK
  <1>5. /\ scans'[p].state = "exited"
        /\ \A q \in Pids \ {p} : scans'[q] = scans[q]
    BY <1>0, <1>1 DEF SearchesTypeOK, ScansTypeOK, KicksTypeOK, JobsTypeOK, Exits, Exited
  <1>6. Unborn' = Unborn /\ Background' \subseteq Background \ {p}
    BY <1>1, <1>5 DEF Unborn, Background, Alive
  <1>7. Owned' /\ FilesFollow'
    BY <1>0, <1>1, <1>6 DEF Owned, FilesFollow
  <1>8. PollIsTrue'
    <2> SUFFICES ASSUME NEW i \in Jobs
                 PROVE  /\ jobs[i].file = "done" => jobs[i].pid # NoPid /\ scans'[jobs[i].pid].code = 0
                        /\ jobs[i].file \in {"done", "failed"} =>
                             jobs[i].pid = NoPid \/ scans'[jobs[i].pid].state # "running"
                        /\ jobs[i].file = "failed" /\ jobs[i].pid # NoPid => scans'[jobs[i].pid].code # 0
      BY <1>1 DEF PollIsTrue, Poll, Alive
    <2>1. CASE jobs[i].pid \in Pids \ {p}
      BY <1>0, <1>5, <2>1 DEF PollIsTrue, Poll, Alive
    <2>2. CASE jobs[i].pid = p
      BY <1>0, <1>1, <2>2, PidsAreFinite DEF PollIsTrue, Poll, Alive, PidType
    <2>3. CASE jobs[i].pid = NoPid
      BY <1>0, <2>3 DEF PollIsTrue, Poll
    <2> QED BY <1>0, <2>1, <2>2, <2>3 DEF SearchesTypeOK, ScansTypeOK, KicksTypeOK, JobsTypeOK
  <1>9. InLine'
    BY <1>0, <1>1, <1>2, <1>6 DEF InLine
  <1> QED BY <1>4, <1>7, <1>8, <1>9 DEF SearchesInv

\* Of jobs whose pids are kept.
LEMMA SamePids ==
    ASSUME Owned, FilesFollow, InLine,
           UNCHANGED <<kicks, lockFile, excused>>, Unborn' = Unborn,
           Background' \subseteq Background,
           NEW j \in Jobs,
           \A i \in Jobs : jobs'[i].pid = jobs[i].pid,
           \A i \in Jobs \ {j} : jobs'[i] = jobs[i],
           jobs'[j].thread # "ended" => jobs'[j].pid = NoPid,
           jobs'[j].thread # "waiting", jobs'[j].file # "absent",
           jobs'[j].file \in {"done", "failed"} => jobs'[j].thread = "ended"
    PROVE  Owned' /\ FilesFollow' /\ InLine'
  <1>1. \A i \in Jobs : jobs'[i].thread \in {"none", "ready", "about to run"} => jobs'[i].pid = NoPid
    <2> SUFFICES ASSUME NEW i \in Jobs, jobs'[i].thread \in {"none", "ready", "about to run"}
                 PROVE  jobs'[i].pid = NoPid
      OBVIOUS
    <2>1. CASE i = j
      BY <2>1
    <2>2. CASE i # j
      BY <2>2 DEF Owned
    <2> QED BY <2>1, <2>2
  <1>2. Owned'
    <2>1. ASSUME NEW p \in Pids, p \notin Unborn'
          PROVE  (\E k \in Kickoffs : kicks'[k].pid = p) \/ (\E i \in Jobs : jobs'[i].pid = p)
      <3>1. (\E k \in Kickoffs : kicks[k].pid = p) \/ (\E i \in Jobs : jobs[i].pid = p)
        BY <2>1 DEF Owned
      <3> QED BY <3>1
    <2>2. /\ \A k \in Kickoffs : kicks'[k].state \in {"waiting", "clear"} => kicks'[k].pid = NoPid
          /\ \A k \in Kickoffs : kicks'[k].state = "spawned" => kicks'[k].pid # NoPid
      BY DEF Owned
    <2> QED BY <1>1, <2>1, <2>2 DEF Owned
  <1>3. FilesFollow'
    <2> SUFFICES ASSUME NEW i \in Jobs
                 PROVE  /\ jobs'[i].file \in {"done", "failed"} => jobs'[i].thread = "ended"
                        /\ jobs'[i].pid # NoPid => jobs'[i].pid \notin Unborn'
                        /\ jobs'[i].thread = "waiting" => jobs'[i].pid # NoPid
                        /\ jobs'[i].file = "absent" => jobs'[i].thread = "none"
      BY DEF FilesFollow
    <2>1. CASE i = j
      BY <2>1 DEF FilesFollow
    <2>2. CASE i # j
      BY <2>2 DEF FilesFollow
    <2> QED BY <2>1, <2>2
  <1>4. InLine'
    BY DEF InLine
  <1> QED BY <1>2, <1>3, <1>4

\* What a poll is told stays true of the other jobs, if their scans do.
LEMMA OtherPolls ==
    ASSUME PollIsTrue, NEW j \in Jobs,
           \A i \in Jobs \ {j} : jobs'[i] = jobs[i],
           \A i \in Jobs \ {j} : jobs[i].file \in {"done", "failed"} /\ jobs[i].pid # NoPid =>
               scans'[jobs[i].pid] = scans[jobs[i].pid],
           jobs'[j].file = "done" => jobs'[j].pid # NoPid /\ scans'[jobs'[j].pid].code = 0,
           jobs'[j].file \in {"done", "failed"} =>
               jobs'[j].pid = NoPid \/ scans'[jobs'[j].pid].state # "running",
           jobs'[j].file = "failed" /\ jobs'[j].pid # NoPid => scans'[jobs'[j].pid].code # 0
    PROVE  PollIsTrue'
  <1> SUFFICES ASSUME NEW i \in Jobs
               PROVE  /\ jobs'[i].file = "done" => jobs'[i].pid # NoPid /\ scans'[jobs'[i].pid].code = 0
                      /\ jobs'[i].file \in {"done", "failed"} =>
                           jobs'[i].pid = NoPid \/ scans'[jobs'[i].pid].state # "running"
                      /\ jobs'[i].file = "failed" /\ jobs'[i].pid # NoPid => scans'[jobs'[i].pid].code # 0
    BY DEF PollIsTrue, Poll, Alive
  <1>1. CASE i = j
    BY <1>1
  <1>2. CASE i # j
    BY <1>2 DEF PollIsTrue, Poll, Alive
  <1> QED BY <1>1, <1>2

\* The steps of the jobs: "done" and "failed" are said of the scan the thread waited for.
LEMMA JobsKeep ==
    ASSUME SearchesInv, NEW j \in Jobs,
           PostSearch(j) \/ RunJob(j) \/ ExecJob(j) \/ ApplyResult(j) \/ JobTimesOut(j)
    PROVE  SearchesInv'
  <1>0. SearchesTypeOK /\ Owned /\ FilesFollow /\ PollIsTrue /\ InLine
    BY DEF SearchesInv
  <1>n. jobs[j].pid \in Pids \cup {NoPid}
    BY <1>0 DEF SearchesTypeOK, ScansTypeOK, KicksTypeOK, JobsTypeOK
  <1>u. UNCHANGED scans => Unborn' = Unborn /\ Background' = Background
    BY DEF Unborn, Background, Alive
  <1>1. CASE PostSearch(j)
    <2>1. /\ jobs[j].file = "absent" /\ jobs' = [jobs EXCEPT ![j] = Created]
          /\ UNCHANGED <<scans, lockFile, kicks, excused>>
      BY <1>1 DEF PostSearch
    <2>2. jobs[j].pid = NoPid
      BY <1>0, <2>1 DEF Owned, FilesFollow
    <2>3. /\ JobsTypeOK'
          /\ jobs'[j].file = "queued" /\ jobs'[j].thread = "ready" /\ jobs'[j].pid = jobs[j].pid
          /\ \A i \in Jobs \ {j} : jobs'[i] = jobs[i]
      <3>1. Created \in
               [file : {"absent", "queued", "running", "done", "failed"},
                thread : {"none", "ready", "about to run", "waiting", "ended", "lost"},
                pid : Pids \cup {NoPid}]
        BY DEF Created
      <3>2. Created.file = "queued" /\ Created.thread = "ready" /\ Created.pid = NoPid
        BY DEF Created
      <3>3. jobs'[j] = Created /\ \A i \in Jobs \ {j} : jobs'[i] = jobs[i]
        BY <1>0, <2>1 DEF SearchesTypeOK, ScansTypeOK, KicksTypeOK, JobsTypeOK
      <3>4. JobsTypeOK'
        BY <1>0, <2>1, <3>1 DEF SearchesTypeOK, ScansTypeOK, KicksTypeOK, JobsTypeOK
      <3>5. jobs'[j].file = "queued" /\ jobs'[j].thread = "ready" /\ jobs'[j].pid = jobs[j].pid
        BY <2>2, <3>2, <3>3, Zenon
      <3> QED BY <3>3, <3>4, <3>5
    <2>4. SearchesTypeOK'
      BY <1>0, <2>1, <2>3 DEF SearchesTypeOK, ScansTypeOK, KicksTypeOK, JobsTypeOK
    <2>5. \A i \in Jobs : jobs'[i].pid = jobs[i].pid
      BY <2>3
    <2>6. Owned' /\ FilesFollow' /\ InLine'
      BY <1>0, <1>u, <2>1, <2>2, <2>3, <2>5, SamePids
    <2>7. PollIsTrue'
      BY <1>0, <2>1, <2>3, OtherPolls
    <2> QED BY <2>4, <2>6, <2>7 DEF SearchesInv
  <1>2. CASE RunJob(j)
    <2>1. /\ jobs[j].thread = "ready" /\ JobIs(j, "running", "about to run", jobs[j].pid)
          /\ UNCHANGED <<scans, lockFile, kicks, excused>>
      BY <1>2 DEF RunJob
    <2>2. jobs[j].pid = NoPid
      BY <1>0, <2>1 DEF Owned
    <2>3. /\ JobsTypeOK'
          /\ jobs'[j].file = "running" /\ jobs'[j].thread = "about to run" /\ jobs'[j].pid = jobs[j].pid
          /\ \A i \in Jobs \ {j} : jobs'[i] = jobs[i]
      BY <1>0, <1>n, <2>1 DEF JobIs, SearchesTypeOK, ScansTypeOK, KicksTypeOK, JobsTypeOK
    <2>4. SearchesTypeOK'
      BY <1>0, <2>1, <2>3 DEF SearchesTypeOK, ScansTypeOK, KicksTypeOK, JobsTypeOK
    <2>5. \A i \in Jobs : jobs'[i].pid = jobs[i].pid
      BY <2>3
    <2>6. Owned' /\ FilesFollow' /\ InLine'
      BY <1>0, <1>u, <2>1, <2>2, <2>3, <2>5, SamePids
    <2>7. PollIsTrue'
      BY <1>0, <2>1, <2>3, OtherPolls
    <2> QED BY <2>4, <2>6, <2>7 DEF SearchesInv
  <1>3. CASE ExecJob(j)
    <2>0. jobs[j].thread = "about to run" /\ jobs[j].pid = NoPid /\ UNCHANGED <<lockFile, kicks, excused>>
      BY <1>0, <1>3 DEF ExecJob, Owned
    <2>1. CASE JobIs(j, jobs[j].file, "waiting", NextPid) /\ StartSearch(NextPid, "chatgpt")
      <3> DEFINE n == NextPid
      <3>1. n \in Unborn /\ n \in Pids /\ n # NoPid
        BY <1>0, <2>0, PidLeft, PidsAreFinite DEF Unborn, PidType
      <3>2. /\ scans' = [scans EXCEPT ![n] = [of |-> "chatgpt", state |-> "running", code |-> 0]]
            /\ JobIs(j, jobs[j].file, "waiting", n)
        BY <2>1 DEF StartSearch
      <3> HIDE DEF n
      <3>3. /\ JobsTypeOK'
            /\ jobs'[j].file = jobs[j].file /\ jobs'[j].thread = "waiting" /\ jobs'[j].pid = n
            /\ \A i \in Jobs \ {j} : jobs'[i] = jobs[i]
        BY <1>0, <3>1, <3>2 DEF JobIs, SearchesTypeOK, ScansTypeOK, KicksTypeOK, JobsTypeOK
      <3>4. ScansTypeOK'
        <4>1. [of |-> "chatgpt", state |-> "running", code |-> 0] \in
                 [of : {"nobody", "telegram", "chatgpt"},
                  state : {"unborn", "running", "exited"}, code : Int]
          OBVIOUS
        <4> QED BY <1>0, <3>1, <3>2, <4>1 DEF SearchesTypeOK, ScansTypeOK, KicksTypeOK, JobsTypeOK
      <3>5. SearchesTypeOK'
        BY <1>0, <2>0, <3>3, <3>4 DEF SearchesTypeOK, ScansTypeOK, KicksTypeOK, JobsTypeOK
      <3>6. /\ Unborn' = Unborn \ {n} /\ Background' = Background
            /\ \A p \in Pids \ {n} : scans'[p] = scans[p]
        BY <1>0, <3>1, <3>2
          DEF SearchesTypeOK, ScansTypeOK, KicksTypeOK, JobsTypeOK, Unborn, Background, Alive
      <3>7. Owned'
        <4>1. ASSUME NEW p \in Pids, p \notin Unborn'
              PROVE  (\E k \in Kickoffs : kicks'[k].pid = p) \/ (\E i \in Jobs : jobs'[i].pid = p)
          <5>1. CASE p = n
            BY <3>3, <5>1
          <5>2. CASE p # n
            <6>1. p \notin Unborn /\ p # NoPid
              BY <3>6, <4>1, <5>2, PidsAreFinite DEF PidType
            <6>2. CASE \E k \in Kickoffs : kicks[k].pid = p
              BY <2>0, <6>2
            <6>3. CASE \E i \in Jobs : jobs[i].pid = p
              BY <2>0, <3>3, <6>1, <6>3
            <6> QED BY <1>0, <6>1, <6>2, <6>3 DEF Owned
          <5> QED BY <5>1, <5>2
        <4>2. ASSUME NEW i \in Jobs, jobs'[i].thread \in {"none", "ready", "about to run"}
              PROVE  jobs'[i].pid = NoPid
          <5>1. i # j
            BY <3>3, <4>2
          <5> QED BY <1>0, <3>3, <4>2, <5>1 DEF Owned
        <4>3. /\ \A k \in Kickoffs : kicks'[k].state \in {"waiting", "clear"} => kicks'[k].pid = NoPid
              /\ \A k \in Kickoffs : kicks'[k].state = "spawned" => kicks'[k].pid # NoPid
          BY <1>0, <2>0 DEF Owned
        <4> QED BY <4>1, <4>2, <4>3 DEF Owned
      <3>8. FilesFollow'
        <4> SUFFICES ASSUME NEW i \in Jobs
                     PROVE  /\ jobs'[i].file \in {"done", "failed"} => jobs'[i].thread = "ended"
                            /\ jobs'[i].pid # NoPid => jobs'[i].pid \notin Unborn'
                            /\ jobs'[i].thread = "waiting" => jobs'[i].pid # NoPid
                            /\ jobs'[i].file = "absent" => jobs'[i].thread = "none"
          BY DEF FilesFollow
        <4>1. CASE i = j
          BY <1>0, <2>0, <3>1, <3>3, <3>6, <4>1 DEF FilesFollow
        <4>2. CASE i # j
          BY <1>0, <3>3, <3>6, <4>2 DEF FilesFollow
        <4> QED BY <4>1, <4>2
      <3>9. PollIsTrue'
        <4>1. jobs'[j].file \notin {"done", "failed"}
          BY <1>0, <2>0, <3>3 DEF FilesFollow
        <4>2. ASSUME NEW i \in Jobs, jobs[i].pid # NoPid
              PROVE  scans'[jobs[i].pid] = scans[jobs[i].pid]
          BY <1>0, <3>1, <3>6, <4>2
            DEF SearchesTypeOK, ScansTypeOK, KicksTypeOK, JobsTypeOK, FilesFollow
        <4> QED BY <1>0, <3>3, <4>1, <4>2, OtherPolls
      <3>10. InLine'
        BY <1>0, <2>0, <3>6 DEF InLine
      <3> QED BY <3>5, <3>7, <3>8, <3>9, <3>10 DEF SearchesInv
    <2>2. CASE JobIs(j, "failed", "ended", jobs[j].pid) /\ UNCHANGED scans
      <3>1. /\ JobsTypeOK'
            /\ jobs'[j].file = "failed" /\ jobs'[j].thread = "ended" /\ jobs'[j].pid = jobs[j].pid
            /\ \A i \in Jobs \ {j} : jobs'[i] = jobs[i]
        BY <1>0, <1>n, <2>2 DEF JobIs, SearchesTypeOK, ScansTypeOK, KicksTypeOK, JobsTypeOK
      <3>2. SearchesTypeOK'
        BY <1>0, <2>0, <2>2, <3>1 DEF SearchesTypeOK, ScansTypeOK, KicksTypeOK, JobsTypeOK
      <3>3. \A i \in Jobs : jobs'[i].pid = jobs[i].pid
        BY <3>1
      <3>4. Owned' /\ FilesFollow' /\ InLine'
        BY <1>0, <1>u, <2>0, <2>2, <3>1, <3>3, SamePids
      <3>5. PollIsTrue'
        BY <1>0, <2>0, <2>2, <3>1, OtherPolls
      <3> QED BY <3>2, <3>4, <3>5 DEF SearchesInv
    <2> QED BY <1>3, <2>1, <2>2 DEF ExecJob
  <1>4. CASE ApplyResult(j)
    <2>1. /\ jobs[j].thread = "waiting" /\ ~ Alive(jobs[j].pid)
          /\ JobIs(j, Status(scans[jobs[j].pid].code), "ended", jobs[j].pid)
          /\ UNCHANGED <<scans, lockFile, kicks, excused>>
      BY <1>4 DEF ApplyResult
    <2> DEFINE f == Status(scans[jobs[j].pid].code)
    <2>2. f \in {"done", "failed"} /\ (f = "done" <=> scans[jobs[j].pid].code = 0)
      BY DEF Status
    <2>3. JobIs(j, f, "ended", jobs[j].pid)
      BY <2>1
    <2>4. jobs[j].pid # NoPid
      BY <1>0, <2>1 DEF FilesFollow
    <2> HIDE DEF f
    <2>5. /\ JobsTypeOK'
          /\ jobs'[j].file = f /\ jobs'[j].thread = "ended" /\ jobs'[j].pid = jobs[j].pid
          /\ \A i \in Jobs \ {j} : jobs'[i] = jobs[i]
      BY <1>0, <1>n, <2>2, <2>3 DEF JobIs, SearchesTypeOK, ScansTypeOK, KicksTypeOK, JobsTypeOK
    <2>6. SearchesTypeOK'
      BY <1>0, <2>1, <2>5 DEF SearchesTypeOK, ScansTypeOK, KicksTypeOK, JobsTypeOK
    <2>7. \A i \in Jobs : jobs'[i].pid = jobs[i].pid
      BY <2>5
    <2>8. Owned' /\ FilesFollow' /\ InLine'
      BY <1>0, <1>u, <2>1, <2>2, <2>5, <2>7, SamePids
    <2>9. PollIsTrue'
      BY <1>0, <2>1, <2>2, <2>4, <2>5, OtherPolls DEF Alive
    <2> QED BY <2>6, <2>8, <2>9 DEF SearchesInv
  <1>5. CASE JobTimesOut(j)
    <2> DEFINE n == jobs[j].pid
    <2>1. /\ jobs[j].thread = "waiting" /\ Alive(n)
          /\ JobIs(j, "failed", "ended", n)
          /\ scans' = [scans EXCEPT ![n] = Exited(n, 124)]
          /\ UNCHANGED <<lockFile, kicks, excused>>
      BY <1>5 DEF JobTimesOut, Status, Exits
    <2>2. n \in Pids /\ n # NoPid
      BY <1>0, <2>1 DEF SearchesTypeOK, ScansTypeOK, KicksTypeOK, JobsTypeOK, FilesFollow
    <2>3. /\ JobsTypeOK'
          /\ jobs'[j].file = "failed" /\ jobs'[j].thread = "ended" /\ jobs'[j].pid = n
          /\ \A i \in Jobs \ {j} : jobs'[i] = jobs[i]
      BY <1>0, <1>n, <2>1 DEF JobIs, SearchesTypeOK, ScansTypeOK, KicksTypeOK, JobsTypeOK
    <2>4. \A i \in Jobs : jobs'[i].pid = jobs[i].pid
      BY <2>3
    <2> HIDE DEF n
    <2>5. ScansTypeOK'
      <3>1. ScansTypeOK
        BY <1>0 DEF SearchesTypeOK, ScansTypeOK, KicksTypeOK, JobsTypeOK
      <3>2. Exited(n, 124) \in [of : {"nobody", "telegram", "chatgpt"},
                                state : {"unborn", "running", "exited"}, code : Int]
        BY <2>2, <3>1 DEF Exited, ScansTypeOK
      <3> QED BY <2>1, <2>2, <3>1, <3>2 DEF ScansTypeOK
    <2>6. SearchesTypeOK'
      BY <1>0, <2>1, <2>3, <2>5 DEF SearchesTypeOK, ScansTypeOK, KicksTypeOK, JobsTypeOK
    <2>7. /\ scans'[n].state = "exited" /\ scans'[n].code = 124
          /\ \A p \in Pids \ {n} : scans'[p] = scans[p]
      BY <1>0, <2>1, <2>2 DEF SearchesTypeOK, ScansTypeOK, KicksTypeOK, JobsTypeOK, Exited
    <2>8. Unborn' = Unborn /\ Background' \subseteq Background
      BY <2>1, <2>7 DEF Unborn, Background, Alive
    <2>9. Owned' /\ FilesFollow' /\ InLine'
      BY <1>0, <2>1, <2>3, <2>4, <2>8, SamePids
    <2>10. ASSUME NEW i \in Jobs, jobs[i].file \in {"done", "failed"}, jobs[i].pid # NoPid
           PROVE  scans'[jobs[i].pid] = scans[jobs[i].pid]
      <3>1. jobs[i].pid # n
        BY <1>0, <2>1, <2>10 DEF PollIsTrue, Poll
      <3> QED BY <1>0, <2>7, <2>10, <3>1, ZenonT(60) DEF SearchesTypeOK, ScansTypeOK, KicksTypeOK, JobsTypeOK
    <2>11. /\ jobs'[j].file = "failed" /\ jobs'[j].pid # NoPid
           /\ scans'[jobs'[j].pid].state # "running" /\ scans'[jobs'[j].pid].code # 0
      <3>1. scans'[n].state # "running" /\ scans'[n].code # 0
        BY <2>7
      <3> QED BY <2>2, <2>3, <3>1, Zenon
    <2>12. PollIsTrue'
      BY <1>0, <2>3, <2>10, <2>11, OtherPolls
    <2> QED BY <2>6, <2>9, <2>12 DEF SearchesInv
  <1> QED BY <1>1, <1>2, <1>3, <1>4, <1>5

\* A step that moves only the service.
LEMMA SearchesSame ==
    ASSUME SearchesInv, UNCHANGED <<scans, lockFile, kicks, jobs, excused>>
    PROVE  SearchesInv'
  <1>1. SearchesTypeOK'
    BY DEF SearchesInv, SearchesTypeOK, ScansTypeOK, KicksTypeOK, JobsTypeOK
  <1>2. Unborn' = Unborn /\ Background' = Background
    BY DEF Unborn, Background, Alive
  <1>3. Owned'
    BY <1>2 DEF SearchesInv, Owned
  <1>4. FilesFollow'
    BY <1>2 DEF SearchesInv, FilesFollow
  <1>5. PollIsTrue'
    BY DEF SearchesInv, PollIsTrue, Poll, Alive
  <1>6. InLine'
    BY <1>2 DEF SearchesInv, InLine
  <1> QED BY <1>1, <1>3, <1>4, <1>5, <1>6 DEF SearchesInv

\* The service: a job whose thread is lost keeps its file, which said "running".
LEMMA ServiceKeeps ==
    ASSUME SearchesInv, ServiceDies \/ ServiceRestarts
    PROVE  SearchesInv'
  <1>0. SearchesTypeOK /\ Owned /\ FilesFollow /\ PollIsTrue /\ InLine
    BY DEF SearchesInv
  <1>1. CASE ServiceRestarts
    <2>1. UNCHANGED <<scans, lockFile, kicks, jobs, excused>>
      BY <1>1 DEF ServiceRestarts
    <2> QED BY <2>1, SearchesSame
  <1>2. CASE ServiceDies
    <2>1. /\ UNCHANGED <<lockFile, kicks, excused>>
          /\ jobs' = [j \in Jobs |->
                 IF jobs[j].thread \in {"none", "ended"} THEN jobs[j]
                 ELSE [file |-> jobs[j].file, thread |-> "lost", pid |-> jobs[j].pid]]
          /\ scans' = [p \in Pids |->
                 IF Alive(p) /\ scans[p].of = "chatgpt" THEN Exited(p, -9) ELSE scans[p]]
      BY <1>2 DEF ServiceDies
    <2>2. \A j \in Jobs : /\ jobs'[j].file = jobs[j].file /\ jobs'[j].pid = jobs[j].pid
                          /\ jobs'[j].thread \in {jobs[j].thread, "lost"}
                          /\ jobs[j].thread \in {"none", "ended"} => jobs'[j] = jobs[j]
      BY <1>0, <2>1 DEF SearchesTypeOK, ScansTypeOK, KicksTypeOK, JobsTypeOK
    <2>3. \A p \in Pids : /\ scans'[p].of = scans[p].of
                          /\ ~ Alive(p) \/ scans[p].of # "chatgpt" => scans'[p] = scans[p]
                          /\ Alive(p) /\ scans[p].of = "chatgpt" => scans'[p].state = "exited"
      <3> SUFFICES ASSUME NEW p \in Pids
                   PROVE  /\ scans'[p].of = scans[p].of
                          /\ ~ Alive(p) \/ scans[p].of # "chatgpt" => scans'[p] = scans[p]
                          /\ Alive(p) /\ scans[p].of = "chatgpt" => scans'[p].state = "exited"
        OBVIOUS
      <3>1. CASE Alive(p) /\ scans[p].of = "chatgpt"
        BY <2>1, <3>1 DEF Exited
      <3>2. CASE ~ (Alive(p) /\ scans[p].of = "chatgpt")
        BY <2>1, <3>2
      <3> QED BY <3>1, <3>2
    <2>4. JobsTypeOK'
      BY <1>0, <2>1 DEF SearchesTypeOK, ScansTypeOK, KicksTypeOK, JobsTypeOK
    <2>5. ScansTypeOK'
      <3>1. ScansTypeOK
        BY <1>0 DEF SearchesTypeOK, ScansTypeOK, KicksTypeOK, JobsTypeOK
      <3>2. \A p \in Pids : Exited(p, -9) \in [of : {"nobody", "telegram", "chatgpt"},
                                             state : {"unborn", "running", "exited"}, code : Int]
        BY <3>1 DEF Exited, ScansTypeOK
      <3> QED BY <2>1, <3>1, <3>2 DEF ScansTypeOK
    <2>6. SearchesTypeOK'
      BY <1>0, <2>1, <2>4, <2>5 DEF SearchesTypeOK, ScansTypeOK, KicksTypeOK, JobsTypeOK
    <2>7. Unborn' = Unborn /\ Background' = Background
      BY <2>3 DEF Unborn, Background, Alive
    <2>8. Owned'
      BY <1>0, <2>1, <2>2, <2>7 DEF Owned
    <2>9. FilesFollow'
      BY <1>0, <2>1, <2>2, <2>7 DEF FilesFollow
    <2>10. PollIsTrue'
      <3> SUFFICES ASSUME NEW i \in Jobs
                   PROVE  /\ jobs'[i].file = "done" => jobs'[i].pid # NoPid /\ scans'[jobs'[i].pid].code = 0
                          /\ jobs'[i].file \in {"done", "failed"} =>
                               jobs'[i].pid = NoPid \/ scans'[jobs'[i].pid].state # "running"
                          /\ jobs'[i].file = "failed" /\ jobs'[i].pid # NoPid =>
                               scans'[jobs'[i].pid].code # 0
        BY DEF PollIsTrue, Poll, Alive
      <3>1. jobs'[i].file = jobs[i].file /\ jobs'[i].pid = jobs[i].pid
        BY <2>2
      <3>2. CASE jobs[i].file \in {"done", "failed"} /\ jobs[i].pid # NoPid
        <4>1. jobs[i].pid \in Pids /\ ~ Alive(jobs[i].pid)
          BY <1>0, <3>2 DEF SearchesTypeOK, ScansTypeOK, KicksTypeOK, JobsTypeOK, PollIsTrue, Poll
        <4>2. scans'[jobs[i].pid] = scans[jobs[i].pid]
          BY <2>3, <4>1
        <4> QED BY <1>0, <3>1, <4>1, <4>2 DEF PollIsTrue, Poll, Alive
      <3>3. CASE ~ (jobs[i].file \in {"done", "failed"} /\ jobs[i].pid # NoPid)
        BY <1>0, <3>1, <3>3 DEF PollIsTrue, Poll
      <3> QED BY <3>2, <3>3
    <2>11. InLine'
      BY <1>0, <2>1, <2>7 DEF InLine
    <2> QED BY <2>6, <2>8, <2>9, <2>10, <2>11 DEF SearchesInv
  <1> QED BY <1>1, <1>2

------------------------------------------------------------------------------
(* Searches: every step and every state                                     *)

LEMMA SearchesKeep == SearchesInv /\ [SearchesNext]_searchesVars => SearchesInv'
  <1> SUFFICES ASSUME SearchesInv, [SearchesNext]_searchesVars PROVE SearchesInv'
    OBVIOUS
  <1>1. ASSUME NEW k \in Kickoffs,
               \/ LookAtLock(k) \/ Spawn(k) \/ SpawnFails(k)
               \/ WriteLock(k) \/ WriteLockFails(k) \/ KickoffKilled(k)
        PROVE  SearchesInv'
    BY <1>1, KickoffsKeep
  <1>2. ASSUME NEW p \in Pids, (\E code \in Codes : FinishScan(p, code)) \/ ScanKilled(p)
        PROVE  SearchesInv'
    BY <1>2, ScansKeep
  <1>3. ASSUME NEW j \in Jobs,
               PostSearch(j) \/ RunJob(j) \/ ExecJob(j) \/ ApplyResult(j) \/ JobTimesOut(j)
        PROVE  SearchesInv'
    BY <1>3, JobsKeep
  <1>4. CASE ServiceDies \/ ServiceRestarts
    BY <1>4, ServiceKeeps
  <1>5. CASE UNCHANGED searchesVars
    BY <1>5, SearchesSame DEF searchesVars
  <1> QED BY <1>1, <1>2, <1>3, <1>4, <1>5 DEF SearchesNext, Progress

\* "If idle": in a state of the invariant two background scans are excused.
LEMMA OneInLine == SearchesInv => OneScanAtATime
  <1> SUFFICES ASSUME SearchesInv, ~ excused PROVE ~ (Cardinality(Background) > 1)
    BY DEF OneScanAtATime
  <1>1. InLine
    BY DEF SearchesInv
  <1>2. \A p, q \in Background : p = q
    BY <1>1 DEF InLine
  <1>3. CASE Background = {}
    BY <1>3, FS_EmptySet
  <1>4. ASSUME NEW p \in Background PROVE Background = {p}
    BY <1>2, <1>4
  <1>5. ASSUME NEW p \in Background PROVE Cardinality(Background) = 1
    BY <1>4, <1>5, FS_Singleton
  <1> QED BY <1>3, <1>5

\* What a poll tells is what became of the scan, however threads, kills, time limits and
\* restarts fall, and a second background scan is excused (PollIsTrue, OneScanAtATime).
THEOREM SearchesTold == SearchesSpec => [](PollIsTrue /\ OneScanAtATime)
  <1>1. SearchesSpec => []SearchesInv
    BY SearchesStart, SearchesKeep, PTL DEF SearchesSpec
  <1>2. SearchesInv => PollIsTrue /\ OneScanAtATime
    BY OneInLine DEF SearchesInv
  <1> QED BY <1>1, <1>2, PTL

------------------------------------------------------------------------------
(* Fetch: the limiter and what was sent                                     *)

Ordered(times) == \A i, j \in 1 .. Len(times) : i <= j => times[i] <= times[j]

\* `late` is the end of `times`, and what comes before it has left the window.
EndsWith(times, late) ==
    /\ Len(late) <= Len(times)
    /\ \A i \in 1 .. Len(late) : late[i] = times[Len(times) - Len(late) + i]
    /\ \A i \in 1 .. Len(times) - Len(late) : clock - times[i] >= Window

\* The limiter counts every request it may have to refuse another one for.
Counted ==
    LET sent == seen.sent
    IN  /\ sent \in Seq(Nat) /\ limiter.events \in Seq(Nat)
        /\ \A i \in 1 .. Len(sent) : sent[i] <= clock
        /\ Ordered(sent)
        /\ EndsWith(sent, limiter.events)
        /\ Len(limiter.events) <= WindowLimit
        /\ Len(sent) <= WindowLimit + 1
        /\ Len(sent) = WindowLimit + 1 => sent[WindowLimit + 1] - sent[1] >= Window

\* An entry that allows says what the file said when it was read last.
Remembered ==
    /\ \A s \in Sites : robots[s].rule = "allow" => seen.said[s] = "allow"
    /\ RobotsAreObeyed

FetchTypeOK ==
    /\ clock \in Nat
    /\ limiter = [buckets |-> limiter.buckets, events |-> limiter.events]
    /\ seen = [sent |-> seen.sent, said |-> [s \in Sites |-> seen.said[s]]]
    /\ robots = [s \in Sites |-> robots[s]]
    /\ request = [host |-> request.host, at |-> request.at, retries |-> request.retries]

FetchInv == FetchTypeOK /\ Counted /\ Remembered

\* The events that are left are the end of the events, and those popped have expired.
LEMMA PrunedEnds ==
    ASSUME NEW events \in Seq(Nat), clock \in Nat, NEW age \in Nat,
           NEW left, left = Since(events, age)
    PROVE  /\ left \in Seq(Nat) /\ Len(left) <= Len(events)
           /\ \A i \in 1 .. Len(left) : left[i] = events[Len(events) - Len(left) + i]
           /\ \A i \in 1 .. Len(events) - Len(left) : clock - events[i] >= age
  <1> DEFINE stops == {n \in 0 .. Len(events) : n < Len(events) => clock - events[n + 1] < age}
             gone == CHOOSE n \in stops : \A m \in stops : n <= m
  <1>1. Len(events) \in Nat /\ \A i \in 1 .. Len(events) : events[i] \in Nat
    OBVIOUS
  <1>2. Len(events) \in stops /\ stops \in SUBSET Nat
    BY <1>1
  <1>3. \A n \in stops : n \in 0 .. Len(events)
    OBVIOUS
  <1>4. \A n \in 0 .. Len(events) : n \notin stops => n < Len(events) /\ clock - events[n + 1] >= age
    BY <1>1
  <1> HIDE DEF stops
  <1>5. \E n \in stops : \A m \in stops : n <= m
    BY <1>2, HasLeast
  <1>6. gone \in stops /\ \A m \in stops : gone <= m
    BY <1>5
  <1> HIDE DEF gone
  <1>7. gone \in 0 .. Len(events) /\ gone \in Nat
    BY <1>1, <1>3, <1>6
  <1>11. left = SubSeq(events, gone + 1, Len(events))
    BY DEF Since, stops, gone
  <1>8. left \in Seq(Nat) /\ Len(left) = Len(events) - gone
    BY <1>1, <1>7, <1>11
  <1>9. \A i \in 1 .. Len(left) : left[i] = events[gone + i]
    BY <1>1, <1>7, <1>8, <1>11
  <1>10. ASSUME NEW i \in 1 .. gone PROVE clock - events[i] >= age
    <2>1. i - 1 \in 0 .. Len(events) /\ i - 1 < gone
      BY <1>1, <1>7
    <2>2. i - 1 \notin stops
      BY <1>6, <1>7, <2>1
    <2>3. clock - events[(i - 1) + 1] >= age
      BY <1>4, <2>1, <2>2
    <2>4. (i - 1) + 1 = i
      BY <1>7
    <2> QED BY <2>3, <2>4
  <1>12. Len(events) - Len(left) = gone
    BY <1>1, <1>7, <1>8
  <1>13. \A i \in 1 .. Len(left) : left[i] = events[Len(events) - Len(left) + i]
    BY <1>9, <1>12
  <1>14. \A i \in 1 .. Len(events) - Len(left) : clock - events[i] >= age
    BY <1>10, <1>12
  <1>15. left \in Seq(Nat) /\ Len(left) <= Len(events)
    BY <1>1, <1>7, <1>8
  <1> QED BY <1>13, <1>14, <1>15

\* What is sent now ends the list of what was sent, and the first of one too many is
\* a request that has left the window.
LEMMA SendCounts ==
    ASSUME FetchTypeOK, Counted, UNCHANGED clock,
           NEW left, left = Pruned(limiter.events), Len(left) < WindowLimit,
           limiter'.events = Append(left, clock),
           seen'.sent = Latest(Append(seen.sent, clock))
    PROVE  Counted'
  <1> DEFINE sent == seen.sent
             events == limiter.events
             all == Append(sent, clock)
             now == Latest(all)
             kept == Append(left, clock)
             W == WindowLimit + 1
  <1>1. /\ sent \in Seq(Nat) /\ events \in Seq(Nat)
        /\ \A i \in 1 .. Len(sent) : sent[i] <= clock
        /\ \A i, j \in 1 .. Len(sent) : i <= j => sent[i] <= sent[j]
        /\ Len(events) <= Len(sent) /\ Len(sent) <= W
        /\ \A i \in 1 .. Len(events) : events[i] = sent[Len(sent) - Len(events) + i]
        /\ \A i \in 1 .. Len(sent) - Len(events) : clock - sent[i] >= Window
    BY DEF Counted, EndsWith, Ordered
  <1>n. /\ clock \in Nat /\ WindowLimit \in Nat /\ Window \in Nat /\ W = WindowLimit + 1
        /\ Len(sent) \in Nat /\ Len(events) \in Nat
        /\ Len(events) <= Len(sent) /\ Len(sent) <= W
    BY <1>1, FetchAssumption DEF FetchTypeOK
  <1>s. \A i \in 1 .. Len(sent) : sent[i] \in Nat
    BY <1>1
  <1> HIDE DEF sent, events
  <1>2. /\ left \in Seq(Nat) /\ Len(left) <= Len(events)
        /\ \A i \in 1 .. Len(left) : left[i] = events[Len(events) - Len(left) + i]
        /\ \A i \in 1 .. Len(events) - Len(left) : clock - events[i] >= Window
    <2>1. left = Since(events, Window)
      BY DEF Pruned, events
    <2> QED BY <1>1, <1>n, <2>1, PrunedEnds
  <1>l. Len(left) \in Nat /\ Len(left) <= Len(events) /\ Len(left) < WindowLimit
    BY <1>2
  <1> HIDE DEF W
  <1>3. /\ all \in Seq(Nat) /\ Len(all) = Len(sent) + 1 /\ all[Len(sent) + 1] = clock
        /\ \A i \in 1 .. Len(sent) : all[i] = sent[i]
    BY <1>1, <1>n
  <1>4. /\ kept \in Seq(Nat) /\ Len(kept) = Len(left) + 1 /\ kept[Len(left) + 1] = clock
        /\ \A i \in 1 .. Len(left) : kept[i] = left[i]
    BY <1>n, <1>2
  <1>5. \A i \in 1 .. Len(left) : left[i] = sent[Len(sent) - Len(left) + i]
    <2> SUFFICES ASSUME NEW i \in 1 .. Len(left) PROVE left[i] = sent[Len(sent) - Len(left) + i]
      OBVIOUS
    <2>1. Len(events) - Len(left) + i \in 1 .. Len(events)
      BY <1>n, <1>l
    <2>2. events[Len(events) - Len(left) + i] =
            sent[Len(sent) - Len(events) + (Len(events) - Len(left) + i)]
      BY <1>1, <2>1
    <2>3. Len(sent) - Len(events) + (Len(events) - Len(left) + i) = Len(sent) - Len(left) + i
      BY <1>n, <1>l
    <2> QED BY <1>2, <2>2, <2>3
  <1>6. \A i \in 1 .. Len(sent) - Len(left) : clock - sent[i] >= Window
    <2> SUFFICES ASSUME NEW i \in 1 .. Len(sent) - Len(left) PROVE clock - sent[i] >= Window
      OBVIOUS
    <2>1. CASE i <= Len(sent) - Len(events)
      BY <1>1, <1>2, <2>1
    <2>2. CASE i > Len(sent) - Len(events)
      <3> DEFINE j == i - (Len(sent) - Len(events))
      <3>1. j \in 1 .. Len(events) - Len(left) /\ j \in 1 .. Len(events)
        BY <1>n, <1>l, <2>2
      <3>2. events[j] = sent[Len(sent) - Len(events) + j] /\ clock - events[j] >= Window
        BY <1>1, <1>2, <3>1
      <3>3. Len(sent) - Len(events) + j = i
        BY <1>n
      <3> QED BY <3>2, <3>3
    <2> QED BY <1>1, <1>2, <2>1, <2>2
  <1> HIDE DEF all, kept
  <1>7. \A i \in 1 .. Len(all) : all[i] \in Nat /\ all[i] <= clock
    <2> SUFFICES ASSUME NEW i \in 1 .. Len(all) PROVE all[i] \in Nat /\ all[i] <= clock
      OBVIOUS
    <2>1. CASE i = Len(sent) + 1
      BY <1>n, <1>3, <2>1
    <2>2. CASE i # Len(sent) + 1
      <3>1. i \in 1 .. Len(sent)
        BY <1>n, <1>3, <2>2
      <3> QED BY <1>1, <1>s, <1>3, <3>1
    <2> QED BY <2>1, <2>2
  <1>8. \A i, j \in 1 .. Len(all) : i <= j => all[i] <= all[j]
    <2> SUFFICES ASSUME NEW i \in 1 .. Len(all), NEW j \in 1 .. Len(all), i <= j
                 PROVE  all[i] <= all[j]
      OBVIOUS
    <2>1. CASE j = Len(sent) + 1
      BY <1>3, <1>7, <2>1
    <2>2. CASE j # Len(sent) + 1
      <3>1. i \in 1 .. Len(sent) /\ j \in 1 .. Len(sent)
        BY <1>n, <1>3, <2>2, SMTT(30)
      <3> QED BY <1>1, <1>3, <3>1
    <2> QED BY <2>1, <2>2
  <1>9. \A i \in 1 .. Len(kept) : kept[i] = all[Len(all) - Len(kept) + i]
    <2> SUFFICES ASSUME NEW i \in 1 .. Len(kept) PROVE kept[i] = all[Len(all) - Len(kept) + i]
      OBVIOUS
    <2>1. CASE i = Len(left) + 1
      <3>1. Len(all) - Len(kept) + i = Len(sent) + 1
        BY <1>n, <1>l, <1>3, <1>4, <2>1
      <3> QED BY <1>3, <1>4, <2>1, <3>1
    <2>2. CASE i # Len(left) + 1
      <3>1. i \in 1 .. Len(left) /\ Len(all) - Len(kept) + i = Len(sent) - Len(left) + i
        BY <1>n, <1>l, <1>3, <1>4, <2>2
      <3>2. Len(sent) - Len(left) + i \in 1 .. Len(sent)
        BY <1>n, <1>l, <3>1
      <3> QED BY <1>3, <1>4, <1>5, <3>1, <3>2, ZenonT(60)
    <2> QED BY <2>1, <2>2
  <1>10. \A i \in 1 .. Len(all) - Len(kept) : clock - all[i] >= Window
    <2>1. Len(all) - Len(kept) = Len(sent) - Len(left)
      BY <1>n, <1>l, <1>3, <1>4
    <2>2. \A i \in 1 .. Len(sent) - Len(left) : i \in 1 .. Len(sent)
      BY <1>n, <1>l
    <2> QED BY <1>3, <1>6, <2>1, <2>2
  <1>11. Len(kept) <= WindowLimit /\ Len(kept) <= Len(all) /\ Len(kept) \in Nat /\ Len(all) \in Nat
    BY <1>n, <1>l, <1>3, <1>4
  <1> DEFINE Good(times) ==
               /\ times \in Seq(Nat) /\ kept \in Seq(Nat)
               /\ \A i \in 1 .. Len(times) : times[i] <= clock
               /\ Ordered(times)
               /\ EndsWith(times, kept)
               /\ Len(kept) <= WindowLimit
               /\ Len(times) <= WindowLimit + 1
               /\ Len(times) = WindowLimit + 1 => times[WindowLimit + 1] - times[1] >= Window
  <1>k. limiter'.events = kept /\ clock' = clock
    BY DEF kept
  <1>12. CASE Len(all) > W
    <2>1. now = Tail(all)
      BY <1>12 DEF Latest, W
    <2> DEFINE rest == Tail(all)
    <2>2. /\ rest \in Seq(Nat) /\ Len(rest) = Len(all) - 1
          /\ \A i \in 1 .. Len(rest) : rest[i] = all[i + 1] /\ i + 1 \in 1 .. Len(all)
      BY <1>n, <1>11, <1>3, <1>12
    <2> HIDE DEF rest
    <2>3. Len(rest) = W
      BY <1>n, <1>11, <1>3, <1>12, <2>2
    <2>4. \A i \in 1 .. Len(rest) : rest[i] <= clock
      BY <1>7, <2>2
    <2>5. Ordered(rest)
      <3> SUFFICES ASSUME NEW i \in 1 .. Len(rest), NEW j \in 1 .. Len(rest), i <= j
                   PROVE  rest[i] <= rest[j]
        BY DEF Ordered
      <3>1. i + 1 \in 1 .. Len(all) /\ j + 1 \in 1 .. Len(all) /\ i + 1 <= j + 1
        BY <1>n, <2>2, <2>3
      <3> QED BY <1>8, <2>2, <3>1
    <2>6. EndsWith(rest, kept)
      <3>1. ASSUME NEW i \in 1 .. Len(kept) PROVE kept[i] = rest[Len(rest) - Len(kept) + i]
        <4>1. /\ Len(rest) - Len(kept) + i \in 1 .. Len(rest)
              /\ (Len(rest) - Len(kept) + i) + 1 = Len(all) - Len(kept) + i
          BY <1>n, <1>11, <2>2, <2>3
        <4> QED BY <1>9, <2>2, <4>1
      <3>2. ASSUME NEW i \in 1 .. Len(rest) - Len(kept) PROVE clock - rest[i] >= Window
        <4>1. i \in 1 .. Len(rest) /\ i + 1 \in 1 .. Len(all) - Len(kept)
          BY <1>n, <1>11, <2>2, <2>3
        <4> QED BY <1>10, <2>2, <4>1
      <3>3. Len(kept) <= Len(rest)
        BY <1>n, <1>11, <2>3
      <3> QED BY <3>1, <3>2, <3>3 DEF EndsWith
    <2>7. rest[W] - rest[1] >= Window
      <3>1. 1 \in 1 .. Len(rest) - Len(kept)
        BY <1>n, <1>11, <2>3
      <3>2. clock - rest[1] >= Window
        BY <2>6, <3>1 DEF EndsWith
      <3>3. W \in 1 .. Len(rest) /\ Len(rest) + 1 = Len(sent) + 1
        <4>1. Len(rest) = Len(sent)
          BY <1>n, <1>3, <2>2
        <4> QED BY <1>n, <2>3, <4>1
      <3>4. rest[Len(rest)] = all[Len(rest) + 1]
        BY <2>2, <2>3, <3>3
      <3>5. rest[W] = clock
        BY <1>3, <2>3, <3>3, <3>4
      <3> QED BY <3>2, <3>5
    <2>8. Good(rest)
      <3>1. Len(rest) <= WindowLimit + 1 /\ rest[WindowLimit + 1] - rest[1] >= Window
        BY <1>n, <2>3, <2>7
      <3> QED BY <1>4, <1>11, <2>2, <2>3, <2>4, <2>5, <2>6, <3>1
    <2>9. seen'.sent = rest
      BY <2>1 DEF now, all, sent, rest
    <2> QED BY <1>k, <2>8, <2>9 DEF Counted, EndsWith, Ordered
  <1>13. CASE ~ (Len(all) > W)
    <2>1. now = all
      BY <1>13 DEF Latest, W
    <2>2. EndsWith(all, kept)
      BY <1>9, <1>10, <1>11 DEF EndsWith
    <2>3. Len(all) = W => all[W] - all[1] >= Window
      <3> SUFFICES ASSUME Len(all) = W PROVE all[W] - all[1] >= Window
        OBVIOUS
      <3>1. 1 \in 1 .. Len(all) - Len(kept)
        BY <1>n, <1>11
      <3>2. all[W] = clock
        BY <1>3
      <3> QED BY <1>10, <3>1, <3>2
    <2>4. Ordered(all) /\ Len(all) <= WindowLimit + 1
      BY <1>n, <1>8, <1>11, <1>13 DEF Ordered
    <2>5. Len(all) = WindowLimit + 1 => all[WindowLimit + 1] - all[1] >= Window
      BY <1>n, <2>3
    <2>6. Good(all)
      BY <1>3, <1>4, <1>7, <1>11, <2>2, <2>4, <2>5
    <2>7. seen'.sent = all
      BY <2>1 DEF now, all, sent
    <2> QED BY <1>k, <2>6, <2>7 DEF Counted, EndsWith, Ordered
  <1> QED BY <1>12, <1>13

LEMMA FetchStart == FetchInit => FetchInv
  <1> SUFFICES ASSUME FetchInit PROVE FetchInv
    OBVIOUS
  <1>1. FetchTypeOK
    BY DEF FetchInit, FetchTypeOK, NoRequest
  <1>2. /\ clock = 0 /\ limiter.events = <<>> /\ seen.sent = <<>>
    BY DEF FetchInit, Hosts
  <1>3. Counted
    BY <1>2, FetchAssumption DEF Counted, Ordered, EndsWith
  <1>4. Remembered
    BY DEF FetchInit, Remembered, RobotsAreObeyed, NotYet, NoRequest
  <1> QED BY <1>1, <1>3, <1>4 DEF FetchInv

\* Time passes, and requests expire.
LEMMA TickCounts ==
    ASSUME FetchTypeOK, Counted, clock' = clock + 1,
           limiter'.events = limiter.events,
           seen'.sent = seen.sent
    PROVE  Counted'
  <1> DEFINE sent == seen.sent
             events == limiter.events
  <1>1. /\ sent \in Seq(Nat) /\ events \in Seq(Nat)
        /\ \A i \in 1 .. Len(sent) : sent[i] <= clock
        /\ \A i \in 1 .. Len(sent) - Len(events) : clock - sent[i] >= Window
    BY DEF Counted, EndsWith
  <1>2. clock \in Nat /\ Window \in Nat /\ Len(sent) \in Nat /\ Len(events) \in Nat
        /\ Len(events) <= Len(sent) /\ \A i \in 1 .. Len(sent) : sent[i] \in Nat
    <2>1. Len(events) <= Len(sent)
      BY DEF Counted, EndsWith
    <2> HIDE DEF sent, events
    <2> QED BY <1>1, <2>1, FetchAssumption DEF FetchTypeOK
  <1> HIDE DEF sent, events
  <1>3. \A i \in 1 .. Len(sent) : sent[i] <= clock'
    BY <1>1, <1>2
  <1>4. \A i \in 1 .. Len(sent) - Len(events) : clock' - sent[i] >= Window
    <2> SUFFICES ASSUME NEW i \in 1 .. Len(sent) - Len(events) PROVE clock' - sent[i] >= Window
      OBVIOUS
    <2>1. i \in 1 .. Len(sent)
      BY <1>2
    <2> QED BY <1>1, <1>2, <2>1
  <1>5. EndsWith(sent, events)'
    BY <1>4 DEF Counted, EndsWith, sent, events
  <1> QED BY <1>3, <1>5 DEF Counted, Ordered, sent, events

\* The same of what leaves the counts alone.
LEMMA CountsStay ==
    ASSUME Counted, UNCHANGED clock, limiter'.events = limiter.events,
           seen'.sent = seen.sent
    PROVE  Counted'
  BY DEF Counted, Ordered, EndsWith

LEMMA FetchKeep == FetchInv /\ [FetchNext]_fetchVars => FetchInv'
  <1> SUFFICES ASSUME FetchInv, [FetchNext]_fetchVars PROVE FetchInv'
    OBVIOUS
  <1>0. FetchTypeOK /\ Counted /\ Remembered
    BY DEF FetchInv
  <1>1. CASE ClockTicks
    <2>1. FetchTypeOK'
      BY <1>0, <1>1 DEF ClockTicks, FetchTypeOK
    <2>2. Counted'
      BY <1>0, <1>1, TickCounts DEF ClockTicks
    <2>3. Remembered'
      BY <1>0, <1>1 DEF ClockTicks, Remembered, RobotsAreObeyed
    <2> QED BY <2>1, <2>2, <2>3 DEF FetchInv
  <1>2. ASSUME NEW s \in Sites, GetKnown(s) PROVE FetchInv'
    <2>1. FetchTypeOK'
      BY <1>0, <1>2 DEF GetKnown, Ready, FetchTypeOK
    <2>2. Counted'
      BY <1>0, <1>2, CountsStay DEF GetKnown
    <2>3. Remembered'
      BY <1>0, <1>2 DEF GetKnown, Ready, FetchTypeOK, Remembered, RobotsAreObeyed
    <2> QED BY <2>1, <2>2, <2>3 DEF FetchInv
  <1>3. ASSUME NEW s \in Sites, GetRead(s) PROVE FetchInv'
    <2>1. PICK p \in RobotsPolicies :
             /\ Ready(s, Entry(p.rule, p.delay))
             /\ seen' = [seen EXCEPT !.said[s] = p.rule]
      BY <1>3 DEF GetRead
    <2>2. /\ request = NoRequest /\ UNCHANGED <<clock, limiter>>
          /\ robots' = [robots EXCEPT ![s] = Entry(p.rule, p.delay)]
          /\ request' # NoRequest => request'.host = s /\ p.rule = "allow"
          /\ request' = [host |-> request'.host, at |-> request'.at, retries |-> request'.retries]
      BY <1>3, <2>1 DEF GetRead, Ready, Entry, NoRequest
    <2>3. FetchTypeOK'
      BY <1>0, <2>1, <2>2, SMTT(30) DEF FetchTypeOK
    <2>4. seen'.sent = seen.sent /\ seen'.said = [seen.said EXCEPT ![s] = p.rule]
      BY <1>0, <2>1 DEF FetchTypeOK
    <2>5. Counted'
      BY <1>0, <2>2, <2>4, CountsStay
    <2>6. Remembered'
      BY <1>0, <2>2, <2>4 DEF Entry, FetchTypeOK, Remembered, RobotsAreObeyed
    <2> QED BY <2>3, <2>5, <2>6 DEF FetchInv
  <1>4. ASSUME NEW s \in Sites, GetUnread(s) PROVE FetchInv'
    <2>1. /\ UNCHANGED <<clock, limiter, seen>>
          /\ robots' = [robots EXCEPT ![s] = Blip(s)]
          /\ request' # NoRequest => request'.host = s /\ Blip(s).rule = "allow"
          /\ request' = [host |-> request'.host, at |-> request'.at, retries |-> request'.retries]
      BY <1>4 DEF GetUnread, Ready, NoRequest
    <2>2. Blip(s).rule = "allow" => robots[s].rule = "allow"
      BY DEF Blip, Entry
    <2>3. FetchTypeOK'
      BY <1>0, <2>1 DEF FetchTypeOK
    <2>4. Counted'
      BY <1>0, <2>1, CountsStay
    <2>5. Remembered'
      BY <1>0, <2>1, <2>2 DEF FetchTypeOK, Remembered, RobotsAreObeyed
    <2> QED BY <2>3, <2>4, <2>5 DEF FetchInv
  <1>5. CASE SetDelay
    <2>1. /\ UNCHANGED <<clock, robots, seen>>
          /\ limiter'.events = limiter.events
          /\ limiter' = [buckets |-> limiter'.buckets, events |-> limiter'.events]
          /\ request # NoRequest /\ request'.host = request.host
          /\ request' = [host |-> request'.host, at |-> request'.at, retries |-> request'.retries]
      BY <1>0, <1>5 DEF SetDelay, FetchTypeOK, NoRequest
    <2>2. FetchTypeOK'
      BY <1>0, <2>1 DEF FetchTypeOK
    <2>3. Counted'
      BY <1>0, <2>1, CountsStay
    <2>4. Remembered'
      BY <1>0, <2>1 DEF Remembered, RobotsAreObeyed
    <2> QED BY <2>2, <2>3, <2>4 DEF FetchInv
  <1>6. CASE GetUnchecked
    <2>1. FetchTypeOK'
      BY <1>0, <1>6 DEF GetUnchecked, FetchTypeOK
    <2>2. Counted'
      BY <1>0, <1>6, CountsStay DEF GetUnchecked
    <2>3. Remembered'
      BY <1>0, <1>6, FetchAssumption DEF GetUnchecked, Remembered, RobotsAreObeyed
    <2> QED BY <2>1, <2>2, <2>3 DEF FetchInv
  <1>7. CASE TakeToken
    <2>1. /\ UNCHANGED <<clock, robots, seen>> /\ request.at = "bucket"
          /\ limiter'.events = limiter.events
          /\ limiter' = [buckets |-> limiter'.buckets, events |-> limiter'.events]
          /\ request'.host = request.host
          /\ request' = [host |-> request'.host, at |-> request'.at, retries |-> request'.retries]
      <3> DEFINE b == limiter.buckets[request.host]
                 taken == [delay |-> b.delay, level |-> Saved(b) - b.delay, at |-> clock]
                 next == IF request.host = CompaniesHouse THEN "window" ELSE "sent"
      <3>1. /\ UNCHANGED <<clock, robots, seen>> /\ request.at = "bucket"
            /\ limiter' = [limiter EXCEPT !.buckets[request.host] = taken]
            /\ request' = [request EXCEPT !.at = next]
        BY <1>7, Zenon DEF TakeToken
      <3> HIDE DEF taken, next
      <3> QED BY <1>0, <3>1 DEF FetchTypeOK
    <2>2. request # NoRequest
      BY <2>1 DEF NoRequest
    <2>3. FetchTypeOK'
      BY <1>0, <2>1 DEF FetchTypeOK
    <2>4. Counted'
      BY <1>0, <2>1, CountsStay
    <2>5. Remembered'
      BY <1>0, <2>1, <2>2 DEF Remembered, RobotsAreObeyed
    <2> QED BY <2>3, <2>4, <2>5 DEF FetchInv
  <1>8. CASE TakeWindow
    <2> DEFINE left == Pruned(limiter.events)
    <2>1. /\ UNCHANGED <<clock, robots>> /\ request.at = "window" /\ Len(left) < WindowLimit
          /\ limiter'.events = Append(left, clock)
          /\ limiter' = [buckets |-> limiter'.buckets, events |-> limiter'.events]
          /\ request'.host = request.host
          /\ request' = [host |-> request'.host, at |-> request'.at, retries |-> request'.retries]
          /\ seen' = [seen EXCEPT !.sent = Latest(Append(@, clock))]
      <3>1. /\ UNCHANGED <<clock, robots>> /\ request.at = "window" /\ Len(left) < WindowLimit
            /\ limiter' = [limiter EXCEPT !.events = Append(left, clock)]
            /\ request' = [request EXCEPT !.at = "sent"]
            /\ seen' = [seen EXCEPT !.sent = Latest(Append(@, clock))]
        BY <1>8 DEF TakeWindow
      <3> HIDE DEF left
      <3> QED BY <1>0, <3>1 DEF FetchTypeOK
    <2>2. request # NoRequest
      BY <2>1 DEF NoRequest
    <2>3. /\ seen' = [sent |-> seen'.sent, said |-> [s \in Sites |-> seen'.said[s]]]
          /\ seen'.said = seen.said
          /\ seen'.sent = Latest(Append(seen.sent, clock))
      <3> DEFINE more == Latest(Append(seen.sent, clock))
      <3>1. seen' = [seen EXCEPT !.sent = more]
        BY <2>1
      <3> HIDE DEF more
      <3>2. /\ seen' = [sent |-> seen'.sent, said |-> [s \in Sites |-> seen'.said[s]]]
            /\ seen'.said = seen.said
            /\ seen'.sent = more
        BY <1>0, <3>1 DEF FetchTypeOK
      <3> QED BY <3>2 DEF more
    <2>4. FetchTypeOK'
      BY <1>0, <2>1, <2>3 DEF FetchTypeOK
    <2>5. Counted'
      BY <1>0, <2>1, <2>3, SendCounts
    <2>6. Remembered'
      BY <1>0, <2>1, <2>2, <2>3 DEF Remembered, RobotsAreObeyed
    <2> QED BY <2>4, <2>5, <2>6 DEF FetchInv
  <1>9. CASE Answered
    <2>1. FetchTypeOK'
      BY <1>0, <1>9 DEF Answered, FetchTypeOK, NoRequest
    <2>2. Counted'
      BY <1>0, <1>9, CountsStay DEF Answered
    <2>3. Remembered'
      BY <1>0, <1>9 DEF Answered, Remembered, RobotsAreObeyed
    <2> QED BY <2>1, <2>2, <2>3 DEF FetchInv
  <1>10. CASE Retry
    <2>1. /\ UNCHANGED <<clock, limiter, robots, seen>> /\ request # NoRequest
          /\ request'.host = request.host
          /\ request' = [host |-> request'.host, at |-> request'.at, retries |-> request'.retries]
      <3>1. request # NoRequest
        BY <1>10 DEF Retry, HasAnswer, NoRequest
      <3> QED BY <1>0, <1>10, <3>1 DEF Retry, FetchTypeOK
    <2>2. FetchTypeOK'
      BY <1>0, <2>1 DEF FetchTypeOK
    <2>3. Counted'
      BY <1>0, <2>1, CountsStay
    <2>4. Remembered'
      BY <1>0, <2>1 DEF Remembered, RobotsAreObeyed
    <2> QED BY <2>2, <2>3, <2>4 DEF FetchInv
  <1>12. CASE Follow
    <2>1. /\ UNCHANGED <<clock, limiter, robots, seen>> /\ request # NoRequest
          /\ request'.host = request.host
          /\ request' = [host |-> request'.host, at |-> request'.at, retries |-> request'.retries]
      <3>1. request # NoRequest
        BY <1>12 DEF Follow, NoRequest
      <3> QED BY <1>0, <1>12, <3>1 DEF Follow, FetchTypeOK
    <2>2. FetchTypeOK'
      BY <1>0, <2>1 DEF FetchTypeOK
    <2>3. Counted'
      BY <1>0, <2>1, CountsStay
    <2>4. Remembered'
      BY <1>0, <2>1 DEF Remembered, RobotsAreObeyed
    <2> QED BY <2>2, <2>3, <2>4 DEF FetchInv
  <1>11. CASE UNCHANGED fetchVars
    <2>1. FetchTypeOK'
      BY <1>0, <1>11 DEF fetchVars, FetchTypeOK
    <2>2. Counted'
      BY <1>0, <1>11, CountsStay DEF fetchVars
    <2>3. Remembered'
      BY <1>0, <1>11 DEF fetchVars, Remembered, RobotsAreObeyed
    <2> QED BY <2>1, <2>2, <2>3 DEF FetchInv
  <1> QED BY <1>1, <1>2, <1>3, <1>4, <1>5, <1>6, <1>7, <1>8, <1>9, <1>10, <1>11, <1>12 DEF FetchNext

\* Of one request too many the first and the last are not in one window.
LEMMA CountedIsKept == FetchInv => WindowIsKept
  <1> SUFFICES ASSUME FetchInv, NEW t \in 0 .. clock
               PROVE  Cardinality({i \in DOMAIN seen.sent :
                          seen.sent[i] \in t .. t + Window - 1}) <= WindowLimit
    BY DEF WindowIsKept
  <1> DEFINE sent == seen.sent
             within == {i \in DOMAIN sent : sent[i] \in t .. t + Window - 1}
             L == WindowLimit
  <1>1. /\ sent \in Seq(Nat) /\ Len(sent) <= L + 1
        /\ Len(sent) = L + 1 => sent[L + 1] - sent[1] >= Window
        /\ clock \in Nat /\ t \in Nat /\ L \in Nat /\ Window \in Nat
    BY FetchAssumption DEF FetchInv, FetchTypeOK, Counted
  <1>2. Len(sent) \in Nat /\ DOMAIN sent = 1 .. Len(sent) /\ \A i \in 1 .. Len(sent) : sent[i] \in Nat
    BY <1>1, SMTT(30)
  <1>3. ASSUME NEW low \in Nat, NEW high \in Nat, within \subseteq low .. high, high <= low + L - 1
        PROVE  Cardinality(within) <= L
    <2>1. IsFiniteSet(low .. high) /\ Cardinality(low .. high) = IF low > high THEN 0 ELSE high - low + 1
      <3> HIDE DEF within, L
      <3>1. low \in Int /\ high \in Int
        BY <1>3
      <3> QED BY <3>1, FS_Interval
    <2>2. IsFiniteSet(within) /\ Cardinality(within) <= Cardinality(low .. high)
      BY <1>3, <2>1, FS_Subset
    <2>3. Cardinality(within) \in Nat
      BY <2>2, FS_CardinalityType
    <2> HIDE DEF within, L
    <2> QED BY <1>1, <1>3, <2>1, <2>2, <2>3
  <1>4. CASE Len(sent) <= L
    <2>1. within \subseteq 1 .. L
      BY <1>1, <1>2, <1>4
    <2>2. 1 \in Nat /\ L \in Nat /\ L <= 1 + L - 1
      BY <1>1
    <2> QED BY <1>3, <2>1, <2>2
  <1>5. CASE Len(sent) = L + 1
    <2>1. ~ (1 \in within /\ L + 1 \in within)
      <3> SUFFICES ASSUME sent[1] \in t .. t + Window - 1, sent[L + 1] \in t .. t + Window - 1
                   PROVE  FALSE
        OBVIOUS
      <3> DEFINE one == sent[1]  last == sent[L + 1]
      <3>1. one \in Nat /\ last \in Nat /\ last - one >= Window
        BY <1>1, <1>2, <1>5
      <3>2. one >= t /\ last <= t + Window - 1
        BY <1>1, <3>1
      <3> HIDE DEF one, last
      <3> QED BY <1>1, <3>1, <3>2
    <2>2. CASE 1 \notin within
      <3>1. within \subseteq 2 .. L + 1
        BY <1>1, <1>2, <1>5, <2>2, SMTT(30)
      <3>2. 2 \in Nat /\ L + 1 \in Nat /\ L + 1 <= 2 + L - 1
        BY <1>1
      <3> QED BY <1>3, <3>1, <3>2
    <2>3. CASE L + 1 \notin within
      <3>1. within \subseteq 1 .. L
        BY <1>1, <1>2, <1>5, <2>3
      <3>2. 1 \in Nat /\ L \in Nat /\ L <= 1 + L - 1
        BY <1>1
      <3> QED BY <1>3, <3>1, <3>2
    <2> QED BY <2>1, <2>2, <2>3
  <1> QED BY <1>1, <1>2, <1>4, <1>5

\* Companies House is never asked more than its window allows, retries counted, and no
\* page of a site whose robots.txt, as read last, says no (WindowIsKept, RobotsAreObeyed).
THEOREM FetchPolite == FetchSpec => [](WindowIsKept /\ RobotsAreObeyed)
  <1>1. FetchSpec => []FetchInv
    BY FetchStart, FetchKeep, PTL DEF FetchSpec
  <1>2. FetchInv => WindowIsKept /\ RobotsAreObeyed
    BY CountedIsKept DEF FetchInv, Remembered
  <1> QED BY <1>1, <1>2, PTL

------------------------------------------------------------------------------
(* Updates                                                                  *)

\* A run notes HEAD as it was before it looked for anything new.
UpdateStates ==
    [at : {"out", "start", "locked"}]
        \cup [at : {"read", "fetched", "merged", "installing", "installed"},
              before : 1..Commits]

BackStates == [at : {"held", "moved"}, to : 1..Commits]

UpdatesTyped ==
    /\ main \in 1..Commits /\ branch \in 1..Commits /\ head \in 1..Commits
    /\ installed \in (1..Commits) \cup {None}
    /\ hold \in (1..Commits) \cup {None}
    /\ lock \in Runs \cup {None}
    /\ updateRun \in [Runs -> UpdateStates]
    /\ back \in BackStates \cup {None}
    /\ background \in Nat

\* A run past the lock is the one that holds it.
LockIsHeld == \A r \in Runs : updateRun[r].at \notin {"out", "start"} => lock = r

\* An install is still to begin or to end.
InstallDue ==
    \/ background > 0
    \/ back # None /\ back.at = "moved"
    \/ \E r \in Runs : updateRun[r].at \in {"merged", "installing"}

\* Unless the last install failed or was a mixture, what is checked out is
\* installed when no install is due.
InstallFollows == ~missed /\ ~InstallDue => installed = head

\* After an undisturbed rollback the hold is the commit checked out, no run is
\* past the guard and no other checkout is to come; a checkout that is to come
\* is of the commit in the hold.
HoldFollows ==
    /\ undisturbed => /\ hold # None /\ head = hold /\ ~Underway
                      /\ back = None \/ back.at # "held"
    /\ back # None /\ back.at = "held" /\ hold # None => hold = back.to

UpdatesInv == UpdatesTyped /\ LockIsHeld /\ InstallFollows /\ HoldFollows

LEMMA UpdatesStart == UpdatesInit => UpdatesInv
  <1> SUFFICES ASSUME UpdatesInit PROVE UpdatesInv
    OBVIOUS
  <1>1. UpdatesTyped
    BY UpdatesAssumption DEF UpdatesInit, UpdatesTyped, UpdateStates, Out
  <1>2. LockIsHeld /\ InstallFollows /\ HoldFollows
    BY DEF UpdatesInit, LockIsHeld, InstallFollows, HoldFollows, Out, Underway
  <1> QED BY <1>1, <1>2 DEF UpdatesInv

\* A step of a run changes that run alone.
LEMMA OnlyThatRun ==
    ASSUME UpdatesTyped, NEW r \in Runs, NEW next \in UpdateStates, To(r, next)
    PROVE  /\ updateRun' \in [Runs -> UpdateStates]
           /\ updateRun'[r] = next
           /\ \A q \in Runs \ {r} : updateRun'[q] = updateRun[q]
  BY DEF UpdatesTyped, To

\* A run that begins leaves what is installed and held alone, as long as no
\* rollback stands undisturbed.
LEMMA RunBeginKeeps ==
    ASSUME UpdatesInv, NEW r \in Runs, updateRun[r] = Out, To(r, [at |-> "start"]),
           UNCHANGED <<main, checkoutVars, installVars, lock, back, background>>,
           hold' \in {hold, None}, undisturbed' = FALSE
    PROVE  UpdatesInv'
  <1>0. [at |-> "start"] \in UpdateStates /\ UpdatesTyped
    BY DEF UpdateStates, UpdatesInv
  <1>1. /\ updateRun' \in [Runs -> UpdateStates]
        /\ updateRun'[r] = [at |-> "start"]
        /\ \A q \in Runs \ {r} : updateRun'[q] = updateRun[q]
    BY <1>0, OnlyThatRun
  <1>2. UNCHANGED <<main, branch, head, installed, lock, back, background, missed>>
    BY DEF checkoutVars, installVars
  <1>3. UpdatesTyped'
    BY <1>1, <1>2 DEF UpdatesInv, UpdatesTyped
  <1>4. LockIsHeld'
    BY <1>0, <1>1, <1>2 DEF UpdatesInv, LockIsHeld
  <1>5. InstallFollows'
    <2>1. InstallDue' <=> InstallDue
      BY <1>1, <1>2 DEF InstallDue, Out
    <2> QED BY <1>2, <2>1 DEF UpdatesInv, InstallFollows
  <1>6. HoldFollows'
    BY <1>2 DEF UpdatesInv, HoldFollows
  <1> QED BY <1>3, <1>4, <1>5, <1>6 DEF UpdatesInv

LEMMA TimerKeeps == ASSUME UpdatesInv, TimerFires PROVE UpdatesInv'
  <1>1. undisturbed # TRUE /\ UNCHANGED <<hold, undisturbed>>
    BY DEF TimerFires, Guarded, UpdatesInv, HoldFollows, rollbackVars
  <1>2. UNCHANGED <<main, branch, head, installed, missed, lock, back, background>>
    BY DEF TimerFires, checkoutVars, installVars, rollbackVars
  <1>3. Timer \in Runs /\ [at |-> "start"] \in UpdateStates /\ To(Timer, [at |-> "start"])
    BY UpdatesAssumption DEF TimerFires, UpdateStates
  <1>4. /\ updateRun' \in [Runs -> UpdateStates]
        /\ updateRun'[Timer] = [at |-> "start"]
        /\ \A q \in Runs \ {Timer} : updateRun'[q] = updateRun[q]
    BY <1>3, OnlyThatRun DEF UpdatesInv
  <1>5. UpdatesTyped' /\ LockIsHeld'
    BY <1>2, <1>1, <1>4 DEF UpdatesInv, UpdatesTyped, LockIsHeld
  <1>6. InstallFollows'
    <2>1. InstallDue' <=> InstallDue
      BY <1>2, <1>4 DEF InstallDue, TimerFires, Out
    <2> QED BY <1>2, <2>1 DEF UpdatesInv, InstallFollows
  <1>7. HoldFollows'
    BY <1>1, <1>2 DEF UpdatesInv, HoldFollows
  <1> QED BY <1>5, <1>6, <1>7 DEF UpdatesInv

LEMMA ReleaseKeeps == ASSUME UpdatesInv, ReleaseHold PROVE UpdatesInv'
  BY RunBeginKeeps, UpdatesAssumption DEF ReleaseHold

\* A step of a run past the guard, which by then disturbs any rollback: it is
\* enough that its own state, the lock and what is installed are in order.
LEMMA RunStepKeeps ==
    ASSUME UpdatesInv, NEW r \in Runs, updateRun[r] # Out,
           NEW next \in UpdateStates, To(r, next),
           UNCHANGED <<main, rollbackVars>>,
           branch' \in 1..Commits, head' \in 1..Commits,
           installed' \in (1..Commits) \cup {None},
           lock' \in Runs \cup {None},
           \A q \in Runs \ {r} : updateRun[q].at \notin {"out", "start"} => lock' = q,
           next.at \notin {"out", "start"} => lock' = r,
           InstallFollows'
    PROVE  UpdatesInv'
  <1>1. /\ updateRun' \in [Runs -> UpdateStates]
        /\ updateRun'[r] = next
        /\ \A q \in Runs \ {r} : updateRun'[q] = updateRun[q]
    BY OnlyThatRun DEF UpdatesInv
  <1>2. UNCHANGED <<main, hold, back, background, undisturbed>>
    BY DEF rollbackVars
  <1>3. UpdatesTyped' /\ LockIsHeld'
    BY <1>1, <1>2 DEF UpdatesInv, UpdatesTyped, LockIsHeld
  <1>4. undisturbed # TRUE
    BY DEF UpdatesInv, HoldFollows, Underway
  <1>5. HoldFollows'
    BY <1>2, <1>4 DEF UpdatesInv, HoldFollows
  <1> QED BY <1>3, <1>5 DEF UpdatesInv

\* While the run stays out of its install, nothing changes for what is installed.
LEMMA NothingDue ==
    ASSUME UpdatesInv, NEW r \in Runs, NEW next \in UpdateStates, To(r, next),
           updateRun[r].at \notin {"merged", "installing"},
           UNCHANGED <<head, installed, missed, rollbackVars>>
    PROVE  InstallFollows'
  <1>1. /\ updateRun'[r] = next
        /\ \A q \in Runs \ {r} : updateRun'[q] = updateRun[q]
    BY OnlyThatRun DEF UpdatesInv
  <1>2. UNCHANGED <<back, background>>
    BY DEF rollbackVars
  <1>3. InstallDue => InstallDue'
    BY <1>1, <1>2 DEF InstallDue
  <1> QED BY <1>3 DEF UpdatesInv, InstallFollows

LEMMA RunKeeps == ASSUME UpdatesInv, NEW r \in Runs, UpdateStep(r) PROVE UpdatesInv'
  <1>t. UpdatesTyped /\ LockIsHeld /\ Out \in UpdateStates
    BY DEF UpdatesInv, Out, UpdateStates
  <1>u. updateRun[r] \in UpdateStates /\ main \in 1..Commits /\ branch \in 1..Commits
        /\ head \in 1..Commits /\ installed \in (1..Commits) \cup {None}
        /\ lock \in Runs \cup {None}
    BY <1>t DEF UpdatesTyped
  <1>n. updateRun[r] # Out /\ Out.at = "out"
    BY DEF UpdateStep, TakeLock, ReadHead, Fetch, Merge, BeginInstall, InstallCommit,
           RescoreCommit, Out
  <1>l. updateRun[r].at # "start" => lock = r
    BY <1>t, <1>u, <1>n DEF LockIsHeld, UpdateStep, TakeLock, ReadHead, Fetch, Merge,
           BeginInstall, InstallCommit, RescoreCommit
  <1>a. updateRun[r].at # "start" =>
            \A q \in Runs \ {r} : updateRun[q].at \in {"out", "start"}
    BY <1>t, <1>l DEF LockIsHeld
  <1>1. CASE TakeLock(r)
    <2>0. /\ UNCHANGED <<main, branch, head, installed, missed, rollbackVars>>
          /\ updateRun[r].at = "start"
      BY <1>1 DEF TakeLock, checkoutVars, installVars
    <2>1. CASE lock # None /\ To(r, Out) /\ UNCHANGED lock
      <3>1. InstallFollows'
        BY <2>0, <2>1, <1>t, NothingDue
      <3>2. \A q \in Runs \ {r} : updateRun[q].at \notin {"out", "start"} => lock' = q
        BY <2>1, <1>t DEF LockIsHeld
      <3> QED BY <2>0, <2>1, <3>1, <3>2, <1>t, <1>u, <1>n, RunStepKeeps
    <2>2. CASE lock = None /\ lock' = r /\ To(r, [at |-> "locked"])
      <3>0. [at |-> "locked"] \in UpdateStates
        BY DEF UpdateStates
      <3>1. InstallFollows'
        BY <2>0, <2>2, <3>0, NothingDue
      <3>2. \A q \in Runs \ {r} : updateRun[q].at \in {"out", "start"}
        BY <2>2, <1>t, UpdatesAssumption DEF LockIsHeld
      <3> QED BY <2>0, <2>2, <3>0, <3>1, <3>2, <1>u, <1>n, RunStepKeeps
    <2> QED BY <1>1, <2>1, <2>2 DEF TakeLock
  <1>2. CASE ReadHead(r) \/ Fetch(r)
    <2>0. /\ UNCHANGED <<main, branch, head, installed, missed, rollbackVars>>
          /\ updateRun[r].at \in {"locked", "read"}
      BY <1>2 DEF ReadHead, Fetch, checkoutVars, installVars
    <2>1. CASE Leave(r)
      <3>1. To(r, Out) /\ lock' = None
        BY <2>1 DEF Leave
      <3>2. InstallFollows'
        BY <2>0, <3>1, <1>t, NothingDue
      <3> QED BY <2>0, <3>1, <3>2, <1>t, <1>u, <1>n, <1>a, RunStepKeeps
    <2>2. ASSUME NEW next \in UpdateStates, next.at \in {"read", "fetched"}, To(r, next),
                 UNCHANGED lock
          PROVE  UpdatesInv'
      <3>1. InstallFollows'
        BY <2>0, <2>2, NothingDue
      <3> QED BY <2>0, <2>2, <3>1, <1>u, <1>n, <1>a, <1>l, RunStepKeeps
    <2>3. CASE ReadHead(r)
      <3>1. [at |-> "read", before |-> head] \in UpdateStates
        BY <1>u DEF UpdateStates
      <3> QED BY <2>1, <2>2, <2>3, <3>1 DEF ReadHead
    <2>4. CASE Fetch(r)
      <3>1. updateRun[r].before \in 1..Commits
        BY <2>4, <1>u DEF Fetch, UpdateStates
      <3>2. [at |-> "fetched", before |-> updateRun[r].before] \in UpdateStates
        BY <3>1 DEF UpdateStates
      <3> QED BY <2>1, <2>2, <2>4, <3>2 DEF Fetch
    <2> QED BY <1>2, <2>3, <2>4
  <1>3. CASE Merge(r)
    <2>0. updateRun[r].at = "fetched" /\ UNCHANGED <<main, rollbackVars, installed>>
      BY <1>3 DEF Merge
    <2>1. CASE Leave(r) /\ head' \in {head, branch} /\ missed' = (missed \/ head' # head)
               /\ UNCHANGED branch
      <3>1. To(r, Out) /\ lock' = None
        BY <2>1 DEF Leave
      <3>2. InstallFollows'
        <4>1. CASE head' # head
          BY <2>1, <4>1 DEF InstallFollows
        <4>2. CASE head' = head
          <5>1. InstallDue => InstallDue'
            <6>1. /\ updateRun'[r] = Out
                  /\ \A q \in Runs \ {r} : updateRun'[q] = updateRun[q]
              BY <3>1, <1>t, OnlyThatRun
            <6> QED BY <2>0, <6>1 DEF InstallDue, rollbackVars
          <5> QED BY <2>0, <2>1, <4>2, <5>1 DEF InstallFollows, UpdatesInv
        <4> QED BY <4>1, <4>2
      <3> QED BY <2>0, <2>1, <3>1, <3>2, <1>t, <1>u, <1>n, <1>a, RunStepKeeps
    <2>2. CASE head' = main /\ branch' = main
               /\ To(r, [updateRun[r] EXCEPT !.at = "merged"]) /\ UNCHANGED <<lock, missed>>
      <3> DEFINE next == [updateRun[r] EXCEPT !.at = "merged"]
      <3>0. next \in UpdateStates /\ next.at = "merged"
        BY <2>0, <1>u DEF UpdateStates
      <3>1. To(r, next)
        BY <2>2
      <3> HIDE DEF next
      <3>2. InstallFollows'
        BY <3>0, <3>1, <1>t, OnlyThatRun DEF InstallFollows, InstallDue
      <3> QED BY <2>0, <2>2, <3>0, <3>1, <3>2, <1>u, <1>n, <1>a, <1>l, RunStepKeeps
    <2> QED BY <1>3, <2>1, <2>2 DEF Merge
  <1>4. CASE BeginInstall(r)
    <2>0. /\ updateRun[r].at = "merged"
          /\ UNCHANGED <<main, branch, head, rollbackVars, installed, missed, lock>>
      BY <1>4 DEF BeginInstall, checkoutVars
    <2> DEFINE next == [updateRun[r] EXCEPT !.at = "installing"]
    <2>1. next \in UpdateStates /\ next.at = "installing" /\ To(r, next)
      BY <2>0, <1>4, <1>u DEF UpdateStates, BeginInstall
    <2> HIDE DEF next
    <2>2. InstallFollows'
      BY <2>1, <1>t, OnlyThatRun DEF InstallFollows, InstallDue
    <2> QED BY <2>0, <2>1, <2>2, <1>u, <1>n, <1>a, <1>l, RunStepKeeps
  <1>5. CASE InstallCommit(r)
    <2>0. /\ updateRun[r].at = "installing"
          /\ UNCHANGED <<main, branch, head, rollbackVars>>
      BY <1>5 DEF InstallCommit, checkoutVars
    <2>1. CASE FailedInstall /\ Leave(r)
      <3>1. To(r, Out) /\ lock' = None /\ missed' = TRUE /\ UNCHANGED installed
        BY <2>1 DEF Leave, FailedInstall
      <3>2. InstallFollows'
        BY <3>1 DEF InstallFollows
      <3> QED BY <2>0, <3>1, <3>2, <1>t, <1>u, <1>n, <1>a, RunStepKeeps
    <2>2. CASE Installed /\ To(r, [updateRun[r] EXCEPT !.at = "installed"]) /\ UNCHANGED lock
      <3> DEFINE next == [updateRun[r] EXCEPT !.at = "installed"]
      <3>0. next \in UpdateStates /\ next.at = "installed" /\ To(r, next)
        BY <2>0, <2>2, <1>u DEF UpdateStates
      <3> HIDE DEF next
      <3>1. installed' \in {None, head} /\ (missed' \/ installed' = head)
        BY <2>2 DEF Installed
      <3>2. InstallFollows'
        BY <2>0, <3>1 DEF InstallFollows
      <3> QED BY <2>0, <2>2, <3>0, <3>1, <3>2, <1>u, <1>n, <1>a, <1>l, RunStepKeeps
    <2> QED BY <1>5, <2>1, <2>2 DEF InstallCommit
  <1>6. CASE RescoreCommit(r)
    <2>0. /\ updateRun[r].at = "installed" /\ To(r, Out) /\ lock' = None
          /\ UNCHANGED <<main, branch, head, rollbackVars, installed, missed>>
      BY <1>6 DEF RescoreCommit, Leave, checkoutVars, installVars
    <2>1. InstallFollows'
      BY <2>0, <1>t, NothingDue
    <2> QED BY <2>0, <2>1, <1>t, <1>u, <1>n, <1>a, RunStepKeeps
  <1> QED BY <1>1, <1>2, <1>3, <1>4, <1>5, <1>6 DEF UpdateStep

LEMMA RollbackKeeps ==
    ASSUME UpdatesInv,
           (\E c \in 1..Commits : RollbackCode(c)) \/ CheckOut \/ StartInstall \/ InstallBack
    PROVE  UpdatesInv'
  <1>t. UpdatesTyped /\ LockIsHeld /\ InstallFollows /\ HoldFollows
    BY DEF UpdatesInv
  <1>1. ASSUME NEW c \in 1..Commits, RollbackCode(c) PROVE UpdatesInv'
    <2>0. /\ back = None
          /\ back' = [at |-> "held", to |-> c] /\ back' \in BackStates /\ back' # None
          /\ hold' = c /\ undisturbed' = FALSE
          /\ UNCHANGED <<main, branch, head, installed, missed, lock, updateRun,
                         background>>
      BY <1>1, UpdatesAssumption, <1>t DEF RollbackCode, BackStates, checkoutVars, installVars
    <2>1. UpdatesTyped' /\ LockIsHeld'
      BY <2>0, <1>t DEF UpdatesTyped, LockIsHeld
    <2>2. InstallFollows'
      BY <2>0, <1>t DEF InstallFollows, InstallDue
    <2>3. HoldFollows'
      BY <2>0 DEF HoldFollows
    <2> QED BY <2>1, <2>2, <2>3 DEF UpdatesInv
  <1>2. CASE CheckOut
    <2>0. /\ back \in BackStates /\ back.at = "held" /\ back # None
          /\ UNCHANGED <<main, branch, hold, installed, missed, background, lock,
                         updateRun>>
      BY <1>2, <1>t DEF CheckOut, UpdatesTyped
    <2>1. CASE back' = None /\ UNCHANGED <<head, undisturbed>>
      <3>1. UpdatesTyped' /\ LockIsHeld'
        BY <2>0, <2>1, <1>t DEF UpdatesTyped, LockIsHeld
      <3>2. InstallFollows'
        BY <2>0, <2>1, <1>t DEF InstallFollows, InstallDue
      <3>3. HoldFollows'
        BY <2>0, <2>1, <1>t DEF HoldFollows, Underway
      <3> QED BY <3>1, <3>2, <3>3 DEF UpdatesInv
    <2>2. CASE /\ head' = back.to /\ back' = [back EXCEPT !.at = "moved"]
               /\ undisturbed' = (hold # None /\ ~Underway)
      <3>1. back' \in BackStates /\ back'.at = "moved" /\ back' # None
        BY <2>0, <2>2, UpdatesAssumption DEF BackStates
      <3>2. UpdatesTyped' /\ LockIsHeld'
        BY <2>0, <2>2, <3>1, <1>t DEF UpdatesTyped, LockIsHeld, BackStates
      <3>3. InstallFollows'
        BY <3>1 DEF InstallFollows, InstallDue
      <3>4. HoldFollows'
        BY <2>0, <2>2, <3>1, <1>t DEF HoldFollows, Underway
      <3> QED BY <3>2, <3>3, <3>4 DEF UpdatesInv
    <2> QED BY <1>2, <2>1, <2>2 DEF CheckOut
  <1>3. CASE StartInstall
    <2>0. /\ back' = None /\ background' \in Nat
          /\ (missed' \/ background' > 0)
          /\ installed' = installed
          /\ UNCHANGED <<main, branch, head, hold, lock, updateRun, undisturbed>>
      BY <1>3, <1>t DEF StartInstall, FailedInstall, checkoutVars, UpdatesTyped
    <2>1. UpdatesTyped' /\ LockIsHeld'
      BY <2>0, <1>t DEF UpdatesTyped, LockIsHeld
    <2>2. InstallFollows'
      BY <2>0 DEF InstallFollows, InstallDue
    <2>3. HoldFollows'
      BY <2>0, <1>t DEF HoldFollows, Underway
    <2> QED BY <2>1, <2>2, <2>3 DEF UpdatesInv
  <1>4. CASE InstallBack
    <2>0. /\ background' \in Nat
          /\ UNCHANGED <<main, branch, head, hold, back, lock, updateRun,
                         undisturbed>>
      BY <1>4, <1>t DEF InstallBack, checkoutVars, UpdatesTyped
    <2>1. /\ installed' \in {None, head, installed}
          /\ missed' \/ installed' = head
      BY <1>4 DEF InstallBack, Installed, FailedInstall
    <2>2. UpdatesTyped' /\ LockIsHeld'
      BY <2>0, <2>1, <1>t DEF UpdatesTyped, LockIsHeld
    <2>3. InstallFollows'
      BY <2>0, <2>1 DEF InstallFollows
    <2>4. HoldFollows'
      BY <2>0, <1>t DEF HoldFollows, Underway
    <2> QED BY <2>2, <2>3, <2>4 DEF UpdatesInv
  <1> QED BY <1>1, <1>2, <1>3, <1>4

LEMMA UpdatesKeep == ASSUME UpdatesInv, [UpdatesNext]_updatesVars PROVE UpdatesInv'
  <1>1. CASE Push
    <2>1. main' \in 1..Commits
      BY <1>1, UpdatesAssumption DEF Push, UpdatesInv, UpdatesTyped
    <2> QED BY <1>1, <2>1 DEF Push, checkoutVars, installVars, rollbackVars, UpdatesInv,
               UpdatesTyped, LockIsHeld, InstallFollows, InstallDue, HoldFollows, Underway
  <1>2. CASE StartScan \/ EndScan \/ UNCHANGED updatesVars
    BY <1>2 DEF StartScan, EndScan, updatesVars, checkoutVars, installVars, rollbackVars,
       UpdatesInv, UpdatesTyped, LockIsHeld, InstallFollows, InstallDue, HoldFollows, Underway
  <1> QED BY <1>1, <1>2, TimerKeeps, ReleaseKeeps, RunKeeps, RollbackKeeps DEF UpdatesNext

LEMMA UpdatesHold == UpdatesInv => UpdatesTypeOK /\ UpdatesStand
  <1> SUFFICES ASSUME UpdatesInv PROVE UpdatesTypeOK /\ UpdatesStand
    OBVIOUS
  <1>1. UpdatesTypeOK
    BY DEF UpdatesInv, UpdatesTyped, UpdatesTypeOK, BackStates
  <1>2. OneRunAtATime
    BY DEF UpdatesInv, LockIsHeld, OneRunAtATime
  <1>3. InstalledIsCheckedOut
    BY UpdatesAssumption DEF UpdatesInv, LockIsHeld, InstallFollows, InstallDue,
       InstalledIsCheckedOut
  <1>4. HoldStands
    BY DEF UpdatesInv, HoldFollows, HoldStands
  <1> QED BY <1>1, <1>2, <1>3, <1>4 DEF UpdatesStand

\* Whatever is pushed, rolled back, released, and fails: two runs never merge and
\* install over one another; at rest what is installed is what is checked out,
\* unless the last install failed, was a mixture or a merge stopped half way; and
\* a commit rolled back to undisturbed stays checked out while it is held
\* (OneRunAtATime, InstalledIsCheckedOut, HoldStands).
THEOREM ServerFollows == UpdatesSpec => [](UpdatesTypeOK /\ UpdatesStand)
  BY UpdatesStart, UpdatesKeep, UpdatesHold, PTL DEF UpdatesSpec

------------------------------------------------------------------------------
(* Restore                                                                  *)

RestoreStates ==
    [at : {"idle"}] \cup [at : {"confirmed", "copied"}, date : 1..Days]
        \cup [at : {"verified", "unlocked", "installing", "replacing", "replaced"},
              copy : Databases]

Installs == {"verified", "unlocked", "installing", "replacing", "replaced"}

RestoreTyped ==
    /\ live \in Databases \cup {Absent, Corrupt, Mixed}
    /\ putBack \in Databases /\ since \subseteq Writes
    /\ nightlyCopies \in [1..Days -> Databases \cup {Corrupt, None}]
    /\ safety \subseteq [day : 1..Days, of : Databases]
    /\ night \in 1..Days
    /\ restoring \in RestoreStates

\* A transaction is open only over a whole database, the one it began on, and
\* not while the pages of another arrive; a file takes the place of none but a
\* database that is not whole.
WritersWait ==
    /\ tx # None => /\ WholeDatabase(live) /\ tx.saw = live /\ tx.adds \in Writes
                    /\ restoring.at # "installing"
    /\ restoring.at = "replacing" => ~WholeDatabase(live)
    /\ restoring.at = "replaced" /\ live = Mixed => putBack = restoring.copy /\ since = {}

Ran(d) == \A m \in d.marked : d.run[m] = Statements

\* As MarkedIsRun, and of the copy that is about to be installed.
CopiesRan ==
    /\ WholeDatabase(live) => Ran(live)
    /\ Ran(putBack)
    /\ \A c \in safety : Ran(c.of)
    /\ \A d \in 1..Days : WholeDatabase(nightlyCopies[d]) => Ran(nightlyCopies[d])
    /\ restoring.at \in Installs => Ran(restoring.copy)

\* What was committed when a restore was confirmed is in the live database until
\* the safety copy is made, and in that copy from then on.
Confirmed ==
    before # None =>
        /\ before.day \in 1..Days /\ before.day <= night
        /\ restoring.at = "confirmed" /\ WholeDatabase(live) => before.writes \subseteq live.writes
        /\ restoring.at # "confirmed" /\ before.day + RetainDays >= night =>
              \E c \in safety : c.day >= before.day /\ before.writes \subseteq c.of.writes

RestoreInv == RestoreTyped /\ WritersWait /\ LiveIsWhole /\ CopiesRan /\ Confirmed

LEMMA WholeIsDatabase ==
    ASSUME NEW d, d \in Databases \cup {Absent, Corrupt, Mixed, None}
    PROVE  WholeDatabase(d) <=> d \in Databases
  BY RestoreAssumption DEF WholeDatabase

\* Of a database, as the operators change it.
LEMMA Written ==
    ASSUME NEW d \in Databases, NEW W \in SUBSET Writes
    PROVE  LET e == [d EXCEPT !.writes = @ \cup W]
           IN  /\ e \in Databases
               /\ e.writes = d.writes \cup W /\ e.run = d.run /\ e.marked = d.marked
  BY DEF Databases

LEMMA AppliedIs ==
    ASSUME NEW d \in Databases, NEW m \in Migrations
    PROVE  /\ Applied(d, m) \in Databases
           /\ Applied(d, m).writes = d.writes
           /\ Applied(d, m).run = [d.run EXCEPT ![m] = Statements]
           /\ Applied(d, m).marked = d.marked \cup {m}
  <1> DEFINE run == [d.run EXCEPT ![m] = Statements]
  <1>1. run \in [Migrations -> 0..Statements] /\ d.marked \cup {m} \in SUBSET Migrations
    BY RestoreAssumption DEF Databases
  <1>2. Applied(d, m) = [d EXCEPT !.run = run, !.marked = d.marked \cup {m}]
    BY DEF Applied
  <1> HIDE DEF run
  <1>3. /\ Applied(d, m) \in Databases /\ Applied(d, m).writes = d.writes
        /\ Applied(d, m).run = run /\ Applied(d, m).marked = d.marked \cup {m}
    BY <1>1, <1>2 DEF Databases
  <1> QED BY <1>3 DEF run

LEMMA SameDatabase ==
    ASSUME NEW d \in Databases, NEW e \in Databases,
           d.writes = e.writes, d.run = e.run, d.marked = e.marked
    PROVE  d = e
  BY DEF Databases

LEMMA AppliedRan ==
    ASSUME NEW d \in Databases, NEW m \in Migrations, Ran(d)
    PROVE  Ran(Applied(d, m))
  <1>1. /\ Applied(d, m).run = [d.run EXCEPT ![m] = Statements]
        /\ Applied(d, m).marked = d.marked \cup {m}
    BY AppliedIs
  <1>2. d.run \in [Migrations -> 0..Statements] /\ d.marked \subseteq Migrations
    BY DEF Databases
  <1>3. ASSUME NEW k \in d.marked \cup {m}
        PROVE  [d.run EXCEPT ![m] = Statements][k] = Statements
    BY <1>2 DEF Ran
  <1> QED BY <1>1, <1>3 DEF Ran

LEMMA RestoreBegins == RestoreInit => RestoreInv
  <1> SUFFICES ASSUME RestoreInit PROVE RestoreInv
    OBVIOUS
  <1>1. PICK k \in LeftRun : live = Old(k)
    BY DEF RestoreInit
  <1>2. live \in Databases /\ live.marked = {} /\ live.writes = {}
    BY <1>1, RestoreAssumption DEF Old, Databases
  <1>3. RestoreTyped
    <2>1. night \in 1..Days /\ since \subseteq Writes
      BY RestoreAssumption DEF RestoreInit
    <2>2. nightlyCopies \in [1..Days -> Databases \cup {Corrupt, None}]
      BY DEF RestoreInit
    <2>3. restoring \in RestoreStates
      BY DEF RestoreInit, RestoreStates, NoRestore
    <2>4. putBack \in Databases /\ safety = {}
      BY <1>2 DEF RestoreInit
    <2> QED BY <1>2, <2>1, <2>2, <2>3, <2>4 DEF RestoreTyped
  <1>4. WritersWait /\ Confirmed
    BY DEF RestoreInit, WritersWait, Confirmed, NoRestore
  <1>5. LiveIsWhole
    <2>1. [live EXCEPT !.writes = @ \cup {}] = live
      BY <1>2 DEF Databases
    <2> QED BY <2>1 DEF RestoreInit, LiveIsWhole
  <1>6. CopiesRan
    <2>1. ~WholeDatabase(None)
      BY DEF WholeDatabase
    <2> QED BY <1>2, <2>1 DEF RestoreInit, CopiesRan, Ran, NoRestore, Installs
  <1> QED BY <1>3, <1>4, <1>5, <1>6 DEF RestoreInv

\* A write transaction begins, commits or is rolled back.
LEMMA WritesKeep ==
    ASSUME RestoreInv, (\E w \in Writes : BeginWrite(w)) \/ CommitWrite \/ Rollback
    PROVE  RestoreInv'
  <1>t. RestoreTyped /\ WritersWait /\ LiveIsWhole /\ CopiesRan /\ Confirmed
    BY DEF RestoreInv
  <1>1. ASSUME NEW w \in Writes, BeginWrite(w) PROVE RestoreInv'
    <2>1. /\ WholeDatabase(live) /\ restoring.at # "installing"
          /\ tx' = [saw |-> live, adds |-> w]
          /\ UNCHANGED <<live, wal, nightlyCopies, safety, night, restoring, putBack, since, before>>
      BY <1>1 DEF BeginWrite
    <2>2. WritersWait'
      BY <2>1, <1>t DEF WritersWait, WholeDatabase
    <2> QED BY <2>1, <2>2, <1>t DEF RestoreInv, RestoreTyped, LiveIsWhole, CopiesRan, Confirmed,
               WholeDatabase, Ran
  <1>2. CASE CommitWrite
    <2>1. /\ WholeDatabase(live) /\ tx.saw = live /\ tx.adds \in Writes
          /\ live \in Databases /\ live = [putBack EXCEPT !.writes = @ \cup since]
          /\ restoring.at # "installing" /\ restoring.at # "replacing"
      BY <1>2, <1>t, WholeIsDatabase DEF CommitWrite, WritersWait, LiveIsWhole, RestoreTyped
    <2>2. /\ live' = [live EXCEPT !.writes = @ \cup {tx.adds}]
          /\ since' = since \cup {tx.adds} /\ tx' = None
          /\ UNCHANGED <<wal, nightlyCopies, safety, night, restoring, putBack, before>>
      BY <1>2, <2>1 DEF CommitWrite
    <2>3. /\ live' \in Databases /\ live'.writes = live.writes \cup {tx.adds}
          /\ live'.run = live.run /\ live'.marked = live.marked
      BY <2>1, <2>2, Written
    <2>4. WholeDatabase(live') /\ live' # Mixed
      BY <2>3, WholeIsDatabase DEF WholeDatabase
    <2>5. RestoreTyped'
      BY <2>1, <2>2, <2>3, <1>t DEF RestoreTyped
    <2>6. WritersWait'
      BY <2>1, <2>2, <2>4 DEF WritersWait
    <2>7. LiveIsWhole'
      <3>1. since \in SUBSET Writes /\ since' \in SUBSET Writes /\ putBack \in Databases
        BY <2>1, <2>2, <1>t DEF RestoreTyped
      <3>2. /\ live.writes = putBack.writes \cup since
            /\ live.run = putBack.run /\ live.marked = putBack.marked
        BY <2>1, <3>1, Written
      <3> DEFINE whole == [putBack EXCEPT !.writes = @ \cup since']
      <3>3. /\ whole \in Databases /\ whole.writes = putBack.writes \cup since'
            /\ whole.run = putBack.run /\ whole.marked = putBack.marked
        BY <3>1, Written
      <3>4. live' = whole
        <4>1. whole.writes = live'.writes /\ whole.run = live'.run /\ whole.marked = live'.marked
          BY <2>2, <2>3, <3>2, <3>3
        <4> HIDE DEF whole
        <4> QED BY <2>3, <3>3, <4>1, SameDatabase
      <3> QED BY <2>2, <3>4 DEF LiveIsWhole
    <2>8. CopiesRan'
      BY <2>1, <2>2, <2>3, <1>t DEF CopiesRan, Ran, WholeDatabase
    <2>9. Confirmed'
      BY <2>1, <2>2, <2>3, <1>t DEF Confirmed
    <2> QED BY <2>5, <2>6, <2>7, <2>8, <2>9 DEF RestoreInv
  <1>3. CASE Rollback
    BY <1>3, <1>t DEF Rollback, RestoreInv, RestoreTyped, WritersWait, LiveIsWhole, CopiesRan,
       Confirmed, WholeDatabase, Ran
  <1> QED BY <1>1, <1>2, <1>3

LEMMA MigrateKeeps ==
    ASSUME RestoreInv, NEW m \in Migrations, Migrate(m)
    PROVE  RestoreInv'
  <1>t. RestoreTyped /\ WritersWait /\ LiveIsWhole /\ CopiesRan /\ Confirmed
    BY DEF RestoreInv
  <1>1. /\ WholeDatabase(live) /\ live \in Databases /\ putBack \in Databases
        /\ restoring.at # "installing" /\ restoring.at # "replacing" /\ tx = None
        /\ live' = Applied(live, m) /\ putBack' = Applied(putBack, m)
        /\ UNCHANGED <<wal, nightlyCopies, safety, night, tx, restoring, since, before>>
    BY <1>t, WholeIsDatabase DEF Migrate, RestoreTyped, WritersWait
  <1>2. /\ live' \in Databases /\ live'.writes = live.writes
        /\ live'.run = [live.run EXCEPT ![m] = Statements]
        /\ live'.marked = live.marked \cup {m}
    BY <1>1, AppliedIs
  <1>3. /\ putBack' \in Databases /\ putBack'.writes = putBack.writes
        /\ putBack'.run = [putBack.run EXCEPT ![m] = Statements]
        /\ putBack'.marked = putBack.marked \cup {m}
    BY <1>1, AppliedIs
  <1>4. WholeDatabase(live') /\ live' # Mixed
    BY <1>2, WholeIsDatabase DEF WholeDatabase
  <1>5. RestoreTyped'
    BY <1>1, <1>2, <1>3, <1>t DEF RestoreTyped
  <1>6. WritersWait'
    BY <1>1, <1>4 DEF WritersWait
  <1>7. LiveIsWhole'
    <2>1. since \in SUBSET Writes /\ live = [putBack EXCEPT !.writes = @ \cup since]
      BY <1>1, <1>t DEF RestoreTyped, LiveIsWhole
    <2>2. /\ live.writes = putBack.writes \cup since
          /\ live.run = putBack.run /\ live.marked = putBack.marked
      BY <1>1, <2>1, Written
    <2> DEFINE whole == [putBack' EXCEPT !.writes = @ \cup since]
    <2>3. /\ whole \in Databases /\ whole.writes = putBack'.writes \cup since
          /\ whole.run = putBack'.run /\ whole.marked = putBack'.marked
      BY <1>3, <2>1, Written
    <2>4. live' = whole
      <3>1. whole.writes = live'.writes /\ whole.run = live'.run /\ whole.marked = live'.marked
        BY <1>2, <1>3, <2>2, <2>3
      <3> HIDE DEF whole
      <3> QED BY <1>2, <2>3, <3>1, SameDatabase
    <2> QED BY <1>1, <2>4 DEF LiveIsWhole
  <1>8. CopiesRan'
    <2>1. Ran(live') /\ Ran(putBack')
      BY <1>1, <1>t, AppliedRan DEF CopiesRan
    <2> QED BY <1>1, <2>1, <1>t DEF CopiesRan, WholeDatabase, Ran
  <1>9. Confirmed'
    BY <1>1, <1>2, <1>t DEF Confirmed
  <1> QED BY <1>5, <1>6, <1>7, <1>8, <1>9 DEF RestoreInv

\* The disk, the scan and the nights.
LEMMA SurroundingsKeep ==
    ASSUME RestoreInv, ScanStarts \/ ScanEnds \/ Damage \/ NextNight \/ BackupStopped
    PROVE  RestoreInv'
  <1>t. RestoreTyped /\ WritersWait /\ LiveIsWhole /\ CopiesRan /\ Confirmed
    BY DEF RestoreInv
  <1>1. CASE ScanStarts \/ ScanEnds
    BY <1>1, <1>t, ZenonT(60) DEF ScanStarts, ScanEnds, RestoreInv, RestoreTyped, WritersWait, LiveIsWhole,
       CopiesRan, Confirmed, WholeDatabase, Ran
  <1>2. CASE Damage
    <2>1. /\ live' \in {Absent, Corrupt} /\ tx = None
          /\ UNCHANGED <<nightlyCopies, safety, night, tx, restoring, putBack, since, before>>
      BY <1>2 DEF Damage
    <2>2. ~WholeDatabase(live') /\ live' # Mixed
      BY <2>1, RestoreAssumption DEF WholeDatabase
    <2>3. CopiesRan'
      BY <2>1, <2>2, <1>t DEF CopiesRan, WholeDatabase, Ran
    <2> QED BY <2>1, <2>2, <2>3, <1>t DEF RestoreInv, RestoreTyped, WritersWait, LiveIsWhole, Confirmed
  <1>3. CASE NextNight
    <2>1. /\ night' = night + 1 /\ night' \in 1..Days
          /\ UNCHANGED <<live, wal, nightlyCopies, safety, tx, restoring, putBack, since, before>>
      BY <1>3, <1>t, RestoreAssumption DEF NextNight, RestoreTyped
    <2>2. night \in Nat /\ RetainDays \in Nat
      BY <1>t, RestoreAssumption DEF RestoreTyped
    <2>3. Confirmed'
      BY <2>1, <2>2, <1>t DEF Confirmed, WholeDatabase
    <2> QED BY <2>1, <2>3, <1>t DEF RestoreInv, RestoreTyped, WritersWait, LiveIsWhole, CopiesRan,
               WholeDatabase, Ran
  <1>4. CASE BackupStopped
    <2>1. /\ nightlyCopies' = [nightlyCopies EXCEPT ![night] = Corrupt]
          /\ UNCHANGED <<live, wal, safety, night, tx, restoring, putBack, since, before>>
      BY <1>4 DEF BackupStopped
    <2>2. ~WholeDatabase(Corrupt)
      BY DEF WholeDatabase
    <2>3. nightlyCopies' \in [1..Days -> Databases \cup {Corrupt, None}]
      BY <2>1, <1>t DEF RestoreTyped
    <2>4. \A d \in 1..Days : nightlyCopies'[d] = Corrupt \/ nightlyCopies'[d] = nightlyCopies[d]
      BY <2>1, <1>t DEF RestoreTyped
    <2>5. CopiesRan'
      BY <2>1, <2>2, <2>4, <1>t DEF CopiesRan, WholeDatabase, Ran
    <2> QED BY <2>1, <2>3, <2>5, <1>t DEF RestoreInv, RestoreTyped, WritersWait, LiveIsWhole,
               Confirmed, WholeDatabase
  <1> QED BY <1>1, <1>2, <1>3, <1>4

LEMMA BackupKeeps == ASSUME RestoreInv, NightlyBackup PROVE RestoreInv'
  <1>t. RestoreTyped /\ WritersWait /\ LiveIsWhole /\ CopiesRan /\ Confirmed
    BY DEF RestoreInv
  <1>1. /\ WholeDatabase(live) /\ live \in Databases
        /\ UNCHANGED <<live, wal, night, tx, restoring, putBack, since, before>>
    BY <1>t, WholeIsDatabase DEF NightlyBackup, RestoreTyped
  <1>2. /\ DOMAIN nightlyCopies' = 1..Days
        /\ \A d \in 1..Days : nightlyCopies'[d] \in {live, nightlyCopies[d], None}
        /\ nightlyCopies' = [d \in 1..Days |-> nightlyCopies'[d]]
    BY DEF NightlyBackup
  <1>3. safety' = {c \in safety : KeptSnapshots(c.day)}
    BY DEF NightlyBackup
  <1>4. \A d \in 1..Days : nightlyCopies'[d] \in Databases \cup {Corrupt, None}
    BY <1>1, <1>2, <1>t DEF RestoreTyped
  <1>5. nightlyCopies' \in [1..Days -> Databases \cup {Corrupt, None}]
    BY <1>2, <1>4
  <1>6. RestoreTyped'
    BY <1>1, <1>3, <1>5, <1>t DEF RestoreTyped
  <1>7. CopiesRan'
    <2>1. ~WholeDatabase(None)
      BY DEF WholeDatabase
    <2>2. \A d \in 1..Days : WholeDatabase(nightlyCopies'[d]) => Ran(nightlyCopies'[d])
      BY <1>1, <1>2, <2>1, <1>t DEF CopiesRan
    <2> QED BY <1>1, <1>3, <2>2, <1>t DEF CopiesRan, WholeDatabase, Ran
  <1>8. Confirmed'
    <2> SUFFICES ASSUME before # None PROVE
            /\ before.day \in 1..Days /\ before.day <= night
            /\ restoring.at = "confirmed" /\ WholeDatabase(live) => before.writes \subseteq live.writes
            /\ restoring.at # "confirmed" /\ before.day + RetainDays >= night =>
                  \E c \in safety' : c.day >= before.day /\ before.writes \subseteq c.of.writes
      BY <1>1 DEF Confirmed, WholeDatabase
    <2>1. ASSUME restoring.at # "confirmed", before.day + RetainDays >= night
          PROVE  \E c \in safety' : c.day >= before.day /\ before.writes \subseteq c.of.writes
      <3>1. PICK c \in safety : c.day >= before.day /\ before.writes \subseteq c.of.writes
        BY <2>1, <1>t DEF Confirmed
      <3>2. c.day \in Nat /\ before.day \in Nat /\ night \in Nat /\ RetainDays \in Nat
        BY <1>t, RestoreAssumption DEF RestoreTyped, Confirmed
      <3>3. c \in safety'
        BY <1>3, <2>1, <3>1, <3>2 DEF KeptSnapshots
      <3> QED BY <3>1, <3>3
    <2> QED BY <2>1, <1>t DEF Confirmed
  <1>9. WritersWait' /\ LiveIsWhole'
    BY <1>1, <1>t DEF WritersWait, LiveIsWhole, WholeDatabase
  <1> QED BY <1>6, <1>7, <1>8, <1>9 DEF RestoreInv

\* A restore is asked for, its safety copy made, its snapshot verified.
LEMMA AskedKeeps ==
    ASSUME RestoreInv, (\E d \in 1..Days : Request(d) \/ RequestByHand(d)) \/ SafetyCopy \/ Verify
    PROVE  RestoreInv'
  <1>t. RestoreTyped /\ WritersWait /\ LiveIsWhole /\ CopiesRan /\ Confirmed
    BY DEF RestoreInv
  <1>r. ASSUME Refused PROVE RestoreInv'
    BY <1>r, <1>t DEF Refused, NoRestore, RestoreStates, Installs, RestoreInv, RestoreTyped,
       WritersWait, LiveIsWhole, CopiesRan, Confirmed, WholeDatabase, Ran
  <1>1. ASSUME NEW d \in 1..Days, Request(d) PROVE RestoreInv'
    <2>1. /\ restoring' = [at |-> "confirmed", date |-> d]
          /\ before' = IF WholeDatabase(live) THEN [day |-> night, writes |-> live.writes] ELSE None
          /\ UNCHANGED <<live, wal, nightlyCopies, safety, night, tx, putBack, since>>
      BY <1>1 DEF Request
    <2>2. RestoreTyped'
      BY <2>1, <1>t DEF RestoreTyped, RestoreStates
    <2>3. WritersWait' /\ LiveIsWhole' /\ CopiesRan'
      BY <2>1, <1>t DEF WritersWait, LiveIsWhole, CopiesRan, WholeDatabase, Ran, Installs
    <2>4. Confirmed'
      <3>1. night \in 1..Days
        BY <1>t DEF RestoreTyped
      <3>2. before' # None => before'.day = night /\ before'.writes = live.writes
        BY <2>1
      <3> QED BY <2>1, <3>1, <3>2 DEF Confirmed
    <2> QED BY <2>2, <2>3, <2>4 DEF RestoreInv
  <1>2. ASSUME NEW d \in 1..Days, RequestByHand(d) PROVE RestoreInv'
    BY <1>2, <1>t DEF RequestByHand, RestoreStates, Installs, RestoreInv, RestoreTyped,
       WritersWait, LiveIsWhole, CopiesRan, Confirmed, WholeDatabase, Ran
  <1>3. ASSUME SafetyCopy PROVE RestoreInv'
    <2>1. CASE WholeDatabase(live) /\ ~Refused
      <3> DEFINE copy == [day |-> night, of |-> live]
      <3>1. /\ restoring \in RestoreStates /\ restoring.at = "confirmed"
            /\ safety' = safety \cup {copy}
            /\ restoring' = [restoring EXCEPT !.at = "copied"]
            /\ UNCHANGED <<live, wal, nightlyCopies, night, tx, putBack, since, before>>
        BY <1>3, <2>1, <1>t DEF SafetyCopy, RestoreTyped
      <3>2. live \in Databases /\ night \in 1..Days
        BY <2>1, <1>t, WholeIsDatabase DEF RestoreTyped
      <3>3. copy \in [day : 1..Days, of : Databases]
        BY <3>2
      <3>4. restoring' \in RestoreStates /\ restoring'.at = "copied"
        BY <3>1 DEF RestoreStates
      <3>5. RestoreTyped'
        BY <3>1, <3>3, <3>4, <1>t DEF RestoreTyped
      <3>6. WritersWait' /\ LiveIsWhole'
        BY <3>1, <3>4, <1>t DEF WritersWait, LiveIsWhole, WholeDatabase
      <3>7. CopiesRan'
        BY <2>1, <3>1, <3>4, <1>t DEF CopiesRan, WholeDatabase, Ran, Installs
      <3>8. Confirmed'
        <4>1. copy \in safety' /\ copy.day = night /\ copy.of.writes = live.writes
          BY <3>1
        <4> HIDE DEF copy
        <4> QED BY <2>1, <3>1, <3>4, <4>1, <1>t DEF Confirmed, WholeDatabase
      <3> QED BY <3>5, <3>6, <3>7, <3>8 DEF RestoreInv
    <2> QED BY <1>3, <1>r, <2>1 DEF SafetyCopy
  <1>4. ASSUME Verify PROVE RestoreInv'
    <2>1. CASE ~Refused
      <3>1. restoring \in RestoreStates /\ restoring.at = "copied" /\ restoring.date \in 1..Days
        BY <1>4, <1>t DEF Verify, RestoreTyped, RestoreStates
      <3> DEFINE copy == nightlyCopies[restoring.date]
      <3>2. /\ WholeDatabase(copy) /\ restoring' = [at |-> "verified", copy |-> copy]
            /\ UNCHANGED <<live, wal, nightlyCopies, safety, night, tx, putBack, since, before>>
        BY <1>4, <2>1 DEF Verify
      <3>3. copy \in Databases
        BY <3>1, <3>2, <1>t, WholeIsDatabase DEF RestoreTyped
      <3>4. RestoreTyped'
        BY <3>2, <3>3, <1>t DEF RestoreTyped, RestoreStates
      <3>5. WritersWait' /\ LiveIsWhole'
        BY <3>1, <3>2, <1>t DEF WritersWait, LiveIsWhole, WholeDatabase
      <3>6. CopiesRan'
        BY <3>1, <3>2, <1>t DEF CopiesRan, WholeDatabase, Ran
      <3>7. Confirmed'
        BY <3>1, <3>2, <1>t DEF Confirmed, WholeDatabase
      <3> QED BY <3>4, <3>5, <3>6, <3>7 DEF RestoreInv
    <2> QED BY <1>4, <1>r, <2>1 DEF Verify
  <1> QED BY <1>1, <1>2, <1>3, <1>4

\* From one stage of an installation to another.
LEMMA StageKeeps ==
    ASSUME RestoreInv, NEW at \in Installs \ {"replaced"}, restoring.at \in Installs,
           restoring' = [restoring EXCEPT !.at = at],
           at = "installing" => tx = None,
           at = "replacing" => ~WholeDatabase(live),
           UNCHANGED <<live, wal, nightlyCopies, safety, night, tx, putBack, since, before>>
    PROVE  RestoreInv'
  <1>t. RestoreTyped /\ WritersWait /\ LiveIsWhole /\ CopiesRan /\ Confirmed
    BY DEF RestoreInv
  <1>1. /\ restoring' \in RestoreStates /\ restoring'.at = at
        /\ restoring'.copy = restoring.copy /\ restoring.at # "confirmed" /\ at # "confirmed"
    BY <1>t DEF RestoreTyped, RestoreStates, Installs
  <1>2. RestoreTyped' /\ LiveIsWhole'
    BY <1>1, <1>t DEF RestoreTyped, LiveIsWhole, WholeDatabase
  <1>3. WritersWait'
    BY <1>1, <1>t DEF WritersWait, WholeDatabase, Installs
  <1>4. CopiesRan' /\ Confirmed'
    BY <1>1, <1>t DEF CopiesRan, Confirmed, WholeDatabase, Ran
  <1> QED BY <1>2, <1>3, <1>4 DEF RestoreInv

\* The copy is installed, as pages or as a file.
LEMMA InstallKeeps ==
    ASSUME RestoreInv, BackUpInto \/ Replace
    PROVE  RestoreInv'
  <1>t. RestoreTyped /\ WritersWait /\ LiveIsWhole /\ CopiesRan /\ Confirmed
    BY DEF RestoreInv
  <1>1. restoring.at \in {"installing", "replacing"} /\ tx = None
    BY <1>t DEF BackUpInto, Replace, WritersWait
  <1>2. restoring \in RestoreStates /\ restoring.copy \in Databases /\ Ran(restoring.copy)
    BY <1>1, <1>t DEF RestoreTyped, RestoreStates, CopiesRan, Installs
  <1>3. [restoring.copy EXCEPT !.writes = @ \cup {}] = restoring.copy
    BY <1>2 DEF Databases
  <1>4. /\ live' = restoring.copy \/ (live' = Mixed /\ Replace)
        /\ putBack' = restoring.copy /\ since' = {}
        /\ restoring' = NoRestore \/ restoring' = [restoring EXCEPT !.at = "replaced"]
        /\ live' = Mixed => restoring' = [restoring EXCEPT !.at = "replaced"]
        /\ UNCHANGED <<wal, nightlyCopies, safety, night, tx, before>>
    BY <1>2, RestoreAssumption DEF BackUpInto, Replace, InstallCopy
  <1>5. /\ restoring' \in RestoreStates /\ restoring'.at \in {"idle", "replaced"}
        /\ restoring'.at = "replaced" => restoring'.copy = restoring.copy
    BY <1>1, <1>2, <1>4 DEF RestoreStates, NoRestore
  <1>6. ~WholeDatabase(Mixed)
    BY DEF WholeDatabase
  <1>7. RestoreTyped'
    BY <1>2, <1>4, <1>5, <1>t DEF RestoreTyped
  <1>8. WritersWait'
    BY <1>1, <1>4, <1>5 DEF WritersWait
  <1>9. LiveIsWhole'
    BY <1>3, <1>4, <1>6 DEF LiveIsWhole
  <1>10. CopiesRan'
    <2>1. WholeDatabase(live') => live' = restoring.copy
      BY <1>4, <1>6
    <2>2. /\ WholeDatabase(live') => Ran(live')
          /\ Ran(putBack')
          /\ restoring'.at \in Installs => Ran(restoring'.copy)
      BY <1>2, <1>4, <1>5, <2>1 DEF Installs
    <2> QED BY <1>4, <2>2, <1>t DEF CopiesRan, WholeDatabase, Ran
  <1>11. Confirmed'
    BY <1>1, <1>4, <1>5, <1>t DEF Confirmed
  <1> QED BY <1>7, <1>8, <1>9, <1>10, <1>11 DEF RestoreInv

LEMMA DropWalKeeps == ASSUME RestoreInv, DropWal PROVE RestoreInv'
  <1>t. RestoreTyped /\ WritersWait /\ LiveIsWhole /\ CopiesRan /\ Confirmed
    BY DEF RestoreInv
  <1>1. /\ restoring.at = "replaced" /\ wal' = FALSE /\ restoring' = NoRestore
        /\ restoring \in RestoreStates /\ restoring.copy \in Databases /\ Ran(restoring.copy)
        /\ UNCHANGED <<nightlyCopies, safety, night, tx, putBack, since, before>>
    BY <1>t DEF DropWal, RestoreTyped, RestoreStates, CopiesRan, Installs
  <1>2. restoring' \in RestoreStates /\ restoring'.at = "idle"
    BY <1>1 DEF RestoreStates, NoRestore
  <1>3. CASE live # Mixed
    <2>1. live' = live
      BY <1>3 DEF DropWal
    <2>2. RestoreTyped' /\ WritersWait' /\ LiveIsWhole'
      BY <1>1, <1>2, <2>1, <1>t DEF RestoreTyped, WritersWait, LiveIsWhole, WholeDatabase
    <2>3. CopiesRan' /\ Confirmed'
      BY <1>1, <1>2, <2>1, <1>t DEF CopiesRan, Confirmed, WholeDatabase, Ran, Installs
    <2> QED BY <2>2, <2>3 DEF RestoreInv
  <1>4. CASE live = Mixed
    <2>1. live' = restoring.copy /\ putBack = restoring.copy /\ since = {} /\ tx = None
      BY <1>1, <1>4, <1>t DEF DropWal, WritersWait, WholeDatabase
    <2>2. RestoreTyped'
      BY <1>1, <1>2, <2>1, <1>t DEF RestoreTyped
    <2>3. WritersWait'
      BY <1>1, <1>2, <2>1 DEF WritersWait
    <2>4. LiveIsWhole'
      <3>1. [restoring.copy EXCEPT !.writes = @ \cup {}] = restoring.copy
        BY <1>1 DEF Databases
      <3> QED BY <1>1, <2>1, <3>1 DEF LiveIsWhole
    <2>5. CopiesRan'
      BY <1>1, <1>2, <2>1, <1>t DEF CopiesRan, WholeDatabase, Ran, Installs
    <2>6. Confirmed'
      BY <1>1, <1>2, <1>t DEF Confirmed
    <2> QED BY <2>2, <2>3, <2>4, <2>5, <2>6 DEF RestoreInv
  <1> QED BY <1>3, <1>4

LEMMA RestoreKeeps == ASSUME RestoreInv, [RestoreNext]_restoreVars PROVE RestoreInv'
  <1>t. RestoreTyped /\ WritersWait /\ LiveIsWhole /\ CopiesRan /\ Confirmed
    BY DEF RestoreInv
  <1>r. ASSUME Refused \/ Crash PROVE RestoreInv'
    <2>1. /\ restoring' = [at |-> "idle"] /\ before' = None
          /\ UNCHANGED <<live, wal, nightlyCopies, safety, night, tx, putBack, since>>
      BY <1>r DEF Refused, Crash, NoRestore
    <2>2. RestoreTyped' /\ LiveIsWhole'
      BY <2>1, <1>t DEF RestoreTyped, RestoreStates, LiveIsWhole, WholeDatabase
    <2>3. WritersWait' /\ CopiesRan' /\ Confirmed'
      BY <2>1, <1>t DEF WritersWait, CopiesRan, Confirmed, WholeDatabase, Ran, Installs
    <2> QED BY <2>2, <2>3 DEF RestoreInv
  <1>1. CASE Lock
    <2>1. CASE ~Refused
      <3>1. /\ restoring.at = "verified"
            /\ restoring' = [restoring EXCEPT
                                !.at = IF WholeDatabase(live) THEN "unlocked" ELSE "replacing"]
            /\ UNCHANGED <<live, wal, nightlyCopies, safety, night, tx, putBack, since, before>>
        BY <1>1, <2>1 DEF Lock
      <3>2. CASE WholeDatabase(live)
        <4>1. restoring' = [restoring EXCEPT !.at = "unlocked"]
          BY <3>1, <3>2
        <4> QED BY <3>1, <4>1, StageKeeps DEF Installs
      <3>3. CASE ~WholeDatabase(live)
        <4>1. restoring' = [restoring EXCEPT !.at = "replacing"]
          BY <3>1, <3>3
        <4> QED BY <3>1, <3>3, <4>1, StageKeeps DEF Installs
      <3> QED BY <3>2, <3>3
    <2> QED BY <1>r, <2>1
  <1>2. CASE TakeWriteLock
    <2>1. CASE ~Refused
      BY <1>2, <2>1, StageKeeps DEF TakeWriteLock, WriterHolds, Installs
    <2> QED BY <1>r, <2>1
  <1>3. CASE UNCHANGED restoreVars
    BY <1>3, <1>t DEF restoreVars, RestoreInv, RestoreTyped, WritersWait, LiveIsWhole, CopiesRan,
       Confirmed, WholeDatabase, Ran
  <1> QED BY <1>r, <1>1, <1>2, <1>3, WritesKeep, MigrateKeeps, SurroundingsKeep, BackupKeeps,
             AskedKeeps, InstallKeeps, DropWalKeeps DEF RestoreNext

LEMMA RestoreHolds == RestoreInv => RestoreTypeOK /\ RestoreStands
  <1> SUFFICES ASSUME RestoreInv PROVE RestoreTypeOK /\ RestoreStands
    OBVIOUS
  <1>1. RestoreTypeOK
    BY DEF RestoreInv, RestoreTyped, RestoreTypeOK
  <1>2. MarkedIsRun
    BY DEF RestoreInv, CopiesRan, MarkedIsRun, Ran
  <1>3. OldWritesAreCopied
    BY DEF RestoreInv, Confirmed, OldWritesAreCopied
  <1> QED BY <1>1, <1>2, <1>3 DEF RestoreInv, RestoreStands

\* Whatever is written, migrated, damaged, backed up, restored, refused and stopped,
\* the database is one that was installed whole and the writes since, no migration
\* is marked that has not run, and what a restore replaced is in a safety copy
\* (LiveIsWhole, MarkedIsRun, OldWritesAreCopied).
THEOREM DatabaseStands == RestoreSpec => [](RestoreTypeOK /\ RestoreStands)
  BY RestoreBegins, RestoreKeeps, RestoreHolds, PTL DEF RestoreSpec

------------------------------------------------------------------------------
(* Extract: grounding.  What grounding leaves of a reading that it does not   *)
(* flag is what the reply said, and every amount, round and university in it  *)
(* stands in a sentence with the company.                                     *)

QuoteKinds == {"company", "amount", "round", "spinout"}
Shaped(p) == DOMAIN p = DOMAIN NoClaim /\ DOMAIN p.quotes = QuoteKinds

\* A field is bound to a kind of quote, and neither the quotes nor the flag is.
LEMMA BoundFields ==
    /\ DOMAIN NoQuotes = QuoteKinds
    /\ \A f \in QuoteKinds : Bound[f] \subseteq DOMAIN NoClaim
    /\ \A f \in QuoteKinds : {"quotes", "review", "method", "founders", "sure", "single"} \cap Bound[f] = {}
    /\ {"quotes", "review", "single", "sure", "founders"} \subseteq DOMAIN NoClaim
  BY DEF QuoteKinds, Bound, NoClaim, NoQuotes

\* Each field of a reading whose quotes were checked.
FieldLeft(fs, p, text, x) == IF \E f \in Lost(fs, p, text) : x \in Bound[f] THEN NoFact ELSE p[x]

LEMMA CheckedFields ==
    ASSUME NEW p, NEW text, NEW fs \in SUBSET QuoteKinds, Shaped(p)
    PROVE  /\ DOMAIN CheckedReading(fs, p, text) = DOMAIN NoClaim
           /\ CheckedReading(fs, p, text).review =
                 (p.review \/ \E f \in Lost(fs, p, text) \cup Unquoted(fs, p) : Claims(f, p))
           /\ CheckedReading(fs, p, text).quotes =
                 [f \in QuoteKinds |-> IF f \in Lost(fs, p, text) THEN NoQuote ELSE p.quotes[f]]
  <1>1. DOMAIN p = DOMAIN NoClaim /\ DOMAIN p.quotes = QuoteKinds
    BY DEF Shaped
  <1>2. \A f \in Lost(fs, p, text) : f \in QuoteKinds
    BY DEF Lost
  <1>3. /\ ~\E f \in Lost(fs, p, text) : "quotes" \in Bound[f]
        /\ ~\E f \in Lost(fs, p, text) : "review" \in Bound[f]
    BY <1>2, BoundFields
  <1>4. DOMAIN CheckedReading(fs, p, text) = DOMAIN NoClaim
    BY <1>1 DEF CheckedReading
  <1>5. "review" \in DOMAIN p /\ "quotes" \in DOMAIN p
    BY <1>1, BoundFields
  <1>6. CheckedReading(fs, p, text).review =
            (p.review \/ \E f \in Lost(fs, p, text) \cup Unquoted(fs, p) : Claims(f, p))
    BY <1>3, <1>5 DEF CheckedReading
  <1>7. CheckedReading(fs, p, text).quotes =
            [f \in QuoteKinds |-> IF f \in Lost(fs, p, text) THEN NoQuote ELSE p.quotes[f]]
    BY <1>1, <1>3, <1>5 DEF CheckedReading
  <1> QED BY <1>4, <1>6, <1>7

LEMMA CheckedField ==
    ASSUME NEW p, NEW text, NEW fs \in SUBSET QuoteKinds, Shaped(p),
           NEW x \in DOMAIN NoClaim \ {"quotes", "review"}
    PROVE  CheckedReading(fs, p, text)[x] = FieldLeft(fs, p, text, x)
  BY DEF Shaped, CheckedReading, FieldLeft

\* It keeps its shape.
LEMMA CheckedShape ==
    ASSUME NEW p, NEW text, NEW fs \in SUBSET QuoteKinds, Shaped(p)
    PROVE  /\ Shaped(CheckedReading(fs, p, text))
           /\ \A f \in QuoteKinds \ fs : CheckedReading(fs, p, text).quotes[f] = p.quotes[f]
  <1>1. \A f \in QuoteKinds \ fs : f \notin Lost(fs, p, text)
    BY DEF Lost
  <1>2. CheckedReading(fs, p, text).quotes =
            [f \in QuoteKinds |-> IF f \in Lost(fs, p, text) THEN NoQuote ELSE p.quotes[f]]
    BY CheckedFields
  <1>3. DOMAIN CheckedReading(fs, p, text) = DOMAIN NoClaim
    BY CheckedFields
  <1> QED BY <1>1, <1>2, <1>3 DEF Shaped

\* A reading that is not flagged lost nothing, and its claims stand.
LEMMA UnflaggedKeeps ==
    ASSUME NEW p, NEW text, NEW fs \in SUBSET QuoteKinds, Shaped(p),
           ~CheckedReading(fs, p, text).review
    PROVE  /\ ~p.review
           /\ \A f \in fs : Claims(f, p) => Stands(f, p, text)
           /\ \A x \in DOMAIN NoClaim \ {"quotes", "review"} : CheckedReading(fs, p, text)[x] = p[x]
  <1>1. ~(p.review \/ \E f \in Lost(fs, p, text) \cup Unquoted(fs, p) : Claims(f, p))
    BY CheckedFields
  <1>2. \A f \in fs : Claims(f, p) => Stands(f, p, text)
    BY <1>1 DEF Lost, Unquoted
  <1>3. \A x \in DOMAIN NoClaim \ {"quotes", "review"} :
            CheckedReading(fs, p, text)[x] = FieldLeft(fs, p, text, x)
    BY CheckedField
  <1>4. ASSUME NEW x \in DOMAIN NoClaim \ {"quotes", "review"}
        PROVE  CheckedReading(fs, p, text)[x] = p[x]
    <2>1. CheckedReading(fs, p, text)[x] =
            IF \E f \in Lost(fs, p, text) : x \in Bound[f] THEN NoFact ELSE p[x]
      BY <1>3 DEF FieldLeft
    <2>2. CASE \E f \in Lost(fs, p, text) : x \in Bound[f]
      <3>1. PICK f \in Lost(fs, p, text) : x \in Bound[f]
        BY <2>2
      <3>2. ~Claims(f, p)
        BY <1>1
      <3>3. p[x] = NoFact
        BY <3>1, <3>2 DEF Claims
      <3> QED BY <2>1, <2>2, <3>3
    <2> QED BY <2>1, <2>2
  <1> QED BY <1>1, <1>2, <1>4

\* A sentence of the text says this of the company.
SaidWith(text, firm, x) == \E k \in DOMAIN Texts[text] : firm \in Texts[text][k] /\ x \in Texts[text][k]

\* An amount, a round or a university of a reading as it was filed: what grounding must have
\* found in the text.
Said(p, text) ==
    /\ p.grant # NoFact => SaidWith(text, p.company, p.grant)
    /\ p.raised # NoFact => SaidWith(text, p.company, p.raised)
    /\ p.round # NoFact => SaidWith(text, p.company, p.round)
    /\ p.university # NoFact => SaidWith(text, p.company, p.university)

\* A claim that stands is in the sentence of its quote, which names the company.
LEMMA StandsIsSaid ==
    ASSUME NEW p, NEW text, NEW f \in QuoteKinds \ {"company"}, Stands(f, p, text),
           p.quotes[f].at \in {0} \cup DOMAIN Texts[text]
    PROVE  /\ f = "amount" /\ p.grant # NoFact => SaidWith(text, p.company, p.grant)
           /\ f = "amount" /\ p.raised # NoFact => SaidWith(text, p.company, p.raised)
           /\ f = "round" => SaidWith(text, p.company, p.round)
           /\ f = "spinout" /\ p.university # NoFact => SaidWith(text, p.company, p.university)
  <1> DEFINE k == p.quotes[f].at
  <1>1. k \in DOMAIN Texts[text] /\ p.quotes[f].says \subseteq Texts[text][k]
    BY DEF Stands, Verbatim
  <1>2. p.company \in Texts[text][k]
    BY DEF Stands, Supports
  <1>3. f = "amount" /\ p.grant # NoFact => p.grant \in p.quotes[f].says
    BY DEF Stands, Supports
  <1>4. f = "amount" /\ p.raised # NoFact => p.raised \in p.quotes[f].says
    BY DEF Stands, Supports
  <1>5. f = "round" => p.round \in p.quotes[f].says
    BY DEF Stands, Supports
  <1>6. f = "spinout" /\ p.university # NoFact => p.university \in p.quotes[f].says
    BY DEF Stands, Supports
  <1> HIDE DEF k
  <1> QED BY <1>1, <1>2, <1>3, <1>4, <1>5, <1>6 DEF SaidWith

\* The claims of a reading, kind by kind.
LEMMA ClaimsOf ==
    ASSUME NEW p
    PROVE  /\ p.grant # NoFact => Claims("amount", p)
           /\ p.raised # NoFact => Claims("amount", p)
           /\ p.round # NoFact => Claims("round", p)
           /\ p.university # NoFact => Claims("spinout", p)
  BY DEF Claims, Bound

\* Two readings of the same facts.
Kept(new, p) ==
    /\ new.company = p.company /\ new.single = p.single /\ new.sure = p.sure
    /\ new.grant = p.grant /\ new.raised = p.raised /\ new.original = p.original
    /\ new.round = p.round /\ new.university = p.university

LEMMA SaidKept ==
    ASSUME NEW p, NEW new, NEW text, Kept(new, p), Said(p, text)
    PROVE  Said(new, text)
  BY DEF Kept, Said

\* The founders are checked last, and touch nothing else but the flag.
LEMMA FoundersKeep ==
    ASSUME NEW p, NEW text, DOMAIN p = DOMAIN NoClaim
    PROVE  /\ Kept(FoundersChecked(p, text), p)
           /\ p.review => FoundersChecked(p, text).review
  <1> DEFINE left == {m \in p.founders : ~Invented(m, p, text)}
             some == \E m \in p.founders : m.quote = NoQuote \/ Invented(m, p, text)
             first == [p EXCEPT !.founders = left]
  <1>1. FoundersChecked(p, text) = [first EXCEPT !.review = @ \/ some]
    BY DEF FoundersChecked
  <1> HIDE DEF left, some
  <1>2. {"review", "company", "single", "sure", "grant", "raised", "original", "round", "university"}
            \subseteq DOMAIN p
    BY DEF NoClaim
  <1>3. DOMAIN first = DOMAIN p /\ \A x \in DOMAIN p \ {"founders"} : first[x] = p[x]
    OBVIOUS
  <1> HIDE DEF first
  <1>4. \A x \in DOMAIN p \ {"founders", "review"} : FoundersChecked(p, text)[x] = p[x]
    BY <1>1, <1>3
  <1>5. FoundersChecked(p, text).review = (first.review \/ some)
    BY <1>1, <1>2, <1>3
  <1> QED BY <1>2, <1>3, <1>4, <1>5 DEF Kept

\* What grounding leaves unflagged is said.
LEMMA GroundedIsSaid ==
    ASSUME NEW p, NEW text, Shaped(p), ~Ground(p, text).review,
           \A f \in QuoteKinds : p.quotes[f].at \in {0} \cup DOMAIN Texts[text]
    PROVE  Kept(Ground(p, text), p) /\ Said(Ground(p, text), text)
  <1> DEFINE named == CheckedReading({"company"}, p, text)
             checked == CheckedReading({"amount", "round", "spinout"}, named, text)
  <1>1. {"company"} \in SUBSET QuoteKinds /\ {"amount", "round", "spinout"} \in SUBSET QuoteKinds
    BY DEF QuoteKinds
  <1>2. Shaped(named) /\ \A f \in QuoteKinds \ {"company"} : named.quotes[f] = p.quotes[f]
    BY <1>1, CheckedShape
  <1>3. Shaped(checked)
    BY <1>1, <1>2, CheckedShape
  <1>4. Ground(p, text) = FoundersChecked(checked, text)
    BY DEF Ground
  <1> HIDE DEF checked
  <1>5. /\ ~checked.review
        /\ Kept(Ground(p, text), checked)
    <2>1. DOMAIN checked = DOMAIN NoClaim
      BY <1>3 DEF Shaped
    <2> QED BY <1>4, <2>1, FoundersKeep
  <1> USE DEF checked
  <1> HIDE DEF named
  <1>6. /\ ~named.review
        /\ \A f \in {"amount", "round", "spinout"} : Claims(f, named) => Stands(f, named, text)
        /\ \A x \in DOMAIN NoClaim \ {"quotes", "review"} : checked[x] = named[x]
    BY <1>1, <1>2, <1>5, UnflaggedKeeps
  <1> USE DEF named
  <1> HIDE DEF checked
  <1>7. \A x \in DOMAIN NoClaim \ {"quotes", "review"} : named[x] = p[x]
    BY <1>1, <1>6, UnflaggedKeeps
  <1> HIDE DEF named
  <1>8. {"company", "single", "sure", "grant", "raised", "original", "round", "university"}
            \subseteq DOMAIN NoClaim \ {"quotes", "review"}
    BY DEF NoClaim
  <1>9. Kept(checked, named) /\ Kept(named, p)
    BY <1>6, <1>7, <1>8 DEF Kept
  <1>10. Kept(Ground(p, text), p) /\ Kept(Ground(p, text), named)
    BY <1>5, <1>9 DEF Kept
  <1>11. Said(named, text)
    <2>1. ASSUME NEW f \in {"amount", "round", "spinout"}, Claims(f, named)
          PROVE  Stands(f, named, text) /\ named.quotes[f].at \in {0} \cup DOMAIN Texts[text]
      <3>1. f \in QuoteKinds \ {"company"}
        BY DEF QuoteKinds
      <3> QED BY <3>1, <2>1, <1>2, <1>6
    <2>2. {"amount", "round", "spinout"} \subseteq QuoteKinds \ {"company"}
      BY DEF QuoteKinds
    <2>3. named.grant # NoFact => SaidWith(text, named.company, named.grant)
      BY <2>1, <2>2, ClaimsOf, StandsIsSaid
    <2>4. named.raised # NoFact => SaidWith(text, named.company, named.raised)
      BY <2>1, <2>2, ClaimsOf, StandsIsSaid
    <2>5. named.round # NoFact => SaidWith(text, named.company, named.round)
      BY <2>1, <2>2, ClaimsOf, StandsIsSaid
    <2>6. named.university # NoFact => SaidWith(text, named.company, named.university)
      BY <2>1, <2>2, ClaimsOf, StandsIsSaid
    <2> QED BY <2>3, <2>4, <2>5, <2>6 DEF Said
  <1> QED BY <1>10, <1>11, SaidKept

------------------------------------------------------------------------------
(* Extract: records                                                           *)

\* The validators touch neither a fact nor a quote.
LEMMA ValidatedKeeps ==
    ASSUME NEW p, Shaped(p)
    PROVE  /\ Shaped(Validated(p))
           /\ Validated(p).quotes = p.quotes
           /\ \A x \in {"grant", "raised"} : Validated(p)[x] = p[x]
  <1> DEFINE why == IF p.role # "startup" THEN "not_a_startup" ELSE p.reason
             one == p.single /\ ~(p.role # "startup") /\ p.reason = NoFact
             first == [p EXCEPT !.reason = why]
  <1>1. DOMAIN p = DOMAIN NoClaim /\ DOMAIN p.quotes = QuoteKinds
    BY DEF Shaped
  <1>2. {"quotes", "reason", "single", "grant", "raised"} \subseteq DOMAIN p
    BY <1>1 DEF NoClaim
  <1>3. DOMAIN first = DOMAIN p /\ \A x \in DOMAIN p \ {"reason"} : first[x] = p[x]
    OBVIOUS
  <1>4. Validated(p) = [first EXCEPT !.single = one]
    BY <1>2, <1>3 DEF Validated
  <1> HIDE DEF first, one
  <1>5. DOMAIN Validated(p) = DOMAIN p /\ \A x \in DOMAIN p \ {"reason", "single"} : Validated(p)[x] = p[x]
    BY <1>3, <1>4
  <1> QED BY <1>1, <1>2, <1>5 DEF Shaped

LEMMA GroundShape ==
    ASSUME NEW p, NEW text, Shaped(p)
    PROVE  DOMAIN Ground(p, text) = DOMAIN NoClaim
  <1> DEFINE named == CheckedReading({"company"}, p, text)
             checked == CheckedReading({"amount", "round", "spinout"}, named, text)
  <1>1. {"company"} \in SUBSET QuoteKinds /\ {"amount", "round", "spinout"} \in SUBSET QuoteKinds
    BY DEF QuoteKinds
  <1>2. Shaped(checked)
    BY <1>1, CheckedShape
  <1>3. DOMAIN checked = DOMAIN NoClaim
    BY <1>2 DEF Shaped
  <1> HIDE DEF checked
  <1>4. DOMAIN FoundersChecked(checked, text) = DOMAIN NoClaim
    BY <1>3 DEF FoundersChecked
  <1> QED BY <1>4 DEF Ground, checked

\* Only what it fills is changed, and what it fills is flagged.
LEMMA FinishKeeps ==
    ASSUME NEW reply, NEW item, DOMAIN Ground(Validated(reply), Page[item].text) = DOMAIN NoClaim
    PROVE  /\ Kept(FinishLlm(reply, item), Ground(Validated(reply), Page[item].text))
           /\ ~FinishLlm(reply, item).review =>
                 /\ ~Ground(Validated(reply), Page[item].text).review
                 /\ FinishLlm(reply, item).original = NoFact
  <1> DEFINE record  == Ground(Validated(reply), Page[item].text)
             country == IF record.country = NoFact THEN HqCountry(item) ELSE record.country
             about   == IF record.about = NoFact /\ record.company # NoFact
                        THEN OneLine(Page[item].text, record.company) ELSE record.about
             filled  == country # record.country \/ about # record.about
             look    == record.review \/ filled \/ ~record.sure \/ record.original # NoFact
             first   == [record EXCEPT !.country = country]
             second  == [first EXCEPT !.about = about]
  <1> HIDE DEF record, country, about, filled, look
  <1>1. DOMAIN record = DOMAIN NoClaim
    BY DEF record
  <1>2. DOMAIN first = DOMAIN record /\ \A x \in DOMAIN record \ {"country"} : first[x] = record[x]
    OBVIOUS
  <1> HIDE DEF first
  <1>3. DOMAIN second = DOMAIN record /\ \A x \in DOMAIN record \ {"country", "about"} : second[x] = record[x]
    BY <1>2
  <1> HIDE DEF second
  <1>4. "review" \in DOMAIN record
    BY <1>1 DEF NoClaim
  <1>5. FinishLlm(reply, item) = [second EXCEPT !.review = look]
    BY <1>3, <1>4 DEF FinishLlm, record, country, about, filled, look, first, second
  <1>6. /\ \A x \in DOMAIN record \ {"country", "about", "review"} : FinishLlm(reply, item)[x] = record[x]
        /\ FinishLlm(reply, item).review = look
    BY <1>3, <1>4, <1>5
  <1>7. {"company", "single", "sure", "grant", "raised", "original", "round", "university"}
            \subseteq DOMAIN record \ {"country", "about", "review"}
    BY <1>1 DEF NoClaim
  <1>8. Kept(FinishLlm(reply, item), record)
    BY <1>6, <1>7 DEF Kept
  <1> QED BY <1>6, <1>8 DEF record, look, Kept

\* A record of the model that nobody has to look at says what the text says.
LEMMA RecordIsSaid ==
    ASSUME NEW i \in Items, NEW r \in MayReply[Page[i].text], Reply[r].fits,
           ~FinishLlm(Reply[r], i).review
    PROVE  /\ FinishLlm(Reply[r], i).original = NoFact
           /\ Said(FinishLlm(Reply[r], i), Page[i].text)
           /\ {FinishLlm(Reply[r], i).grant, FinishLlm(Reply[r], i).raised}
                 \subseteq DOMAIN Worth \cup {NoFact}
  <1> DEFINE p == Reply[r]
             text == Page[i].text
             record == Ground(Validated(p), text)
  <1>1. OfTheSchema(p, text)
    BY ExtractAssumption
  <1>2. Shaped(p) /\ \A f \in QuoteKinds : p.quotes[f].at \in {0} \cup DOMAIN Texts[text]
    BY <1>1, BoundFields DEF OfTheSchema, Shaped
  <1>3. p.grant \in DOMAIN Worth \cup {NoFact} /\ p.raised \in DOMAIN Worth \cup {NoFact}
    BY <1>1 DEF OfTheSchema
  <1> HIDE DEF p, text
  <1>4. Shaped(Validated(p)) /\ Validated(p).quotes = p.quotes
        /\ Validated(p).grant = p.grant /\ Validated(p).raised = p.raised
    BY <1>2, ValidatedKeeps
  <1>5. DOMAIN record = DOMAIN NoClaim
    BY <1>4, GroundShape
  <1>6. Kept(FinishLlm(p, i), record) /\ ~record.review /\ FinishLlm(p, i).original = NoFact
    BY <1>5, FinishKeeps DEF p, text
  <1>7. Kept(record, Validated(p)) /\ Said(record, text)
    BY <1>2, <1>4, <1>6, GroundedIsSaid
  <1>8. FinishLlm(p, i).grant = p.grant /\ FinishLlm(p, i).raised = p.raised
    BY <1>4, <1>6, <1>7 DEF Kept
  <1>9. Said(FinishLlm(p, i), text)
    BY <1>6, <1>7, SaidKept
  <1> QED BY <1>3, <1>6, <1>8, <1>9 DEF p, text

\* The patterns always ask a human to look.
LEMMA PatternsAreFlagged ==
    ASSUME NEW i \in Items, DOMAIN Ground(Heuristic(i), Page[i].text) = DOMAIN NoClaim
    PROVE  FinishHeuristic(i).review = TRUE
  BY DEF FinishHeuristic, NoClaim

LEMMA HeuristicShape ==
    ASSUME NEW i \in Items
    PROVE  Shaped(Heuristic(i))
  BY DEF Heuristic, Shaped, NoClaim, NoQuotes, QuoteKinds

------------------------------------------------------------------------------
(* Extract: the invariant                                                     *)

Prompts == Bodies \cup {ShippedPrompt}
Replies == UNION {MayReply[t] : t \in TextIds}

ReadEntries == [item : Items, from : {NoFact, "pattern"} \cup Replies, prompt : {NoFact} \cup Prompts]

\* What a run read under its prompt: a reply is one to the text of the item, and fits.
OfRun(prompt) ==
    {e \in ReadEntries :
        /\ e.prompt \in {NoFact, prompt}
        /\ Structured(e.item) => e.from = NoFact
        /\ e.from \notin {NoFact, "pattern"} =>
              e.from \in MayReply[Page[e.item].text] /\ Reply[e.from].fits}

Readings == [at : {"idle", "reading", "hermes", "gateway", "posted", "flagging"}, number : Nat,
         todo : Seq(Items), read : Seq(ReadEntries), prompt : Prompts, client : ModelClients,
         failures : Nat, json : BOOLEAN, attempt : {0, 1}, again : BOOLEAN, unanswered : Nat]

\* The breaker: failures are counted up to Trip, and Hermes is asked below it.
Breaker(r) ==
    r.client = "both" =>
        /\ r.unanswered <= r.failures
        /\ r.failures <= Trip
        /\ r.at = "hermes" => r.failures < Trip

RunOK(r) ==
    /\ r \in Readings
    /\ r.read \in Seq(OfRun(r.prompt))
    /\ r.at \in {"hermes", "gateway", "posted"} => r.todo # <<>> /\ ~Structured(Head(r.todo))
    /\ r.at = "flagging" => r.read # <<>>
    /\ Breaker(r)

CacheKeys == {<<Version(p), t>> : p \in Prompts, t \in TextIds}

\* A reply is kept under the version of the prompt it was given to.
CacheInv ==
    /\ cache \in [CacheKeys -> [reply : {NoFact} \cup Replies, prompt : {NoFact} \cup Prompts]]
    /\ \A p \in Prompts, t \in TextIds :
          cache[<<Version(p), t>>].reply # NoFact =>
              /\ cache[<<Version(p), t>>].prompt = p
              /\ cache[<<Version(p), t>>].reply \in MayReply[t]

PromptsTypeOK == prompts.active \in Prompts

CompaniesTypeOK ==
    /\ DOMAIN companies = Ventures
    /\ \A c \in Ventures : DOMAIN companies[c] = DOMAIN NoCompany

ExtractInv ==
    /\ PromptsTypeOK /\ RunOK(readingRun) /\ CacheInv /\ CompaniesTypeOK
    /\ GroundedOrFlagged /\ PressIsCounted

------------------------------------------------------------------------------
(* Extract: the run                                                           *)

LEMMA VersionsDiffer ==
    ASSUME NEW p, NEW q, NEW t, NEW u, <<Version(p), t>> = <<Version(q), u>>
    PROVE  p = q /\ t = u
  <1>1. t = u /\ Version(p) = Version(q)
    OBVIOUS
  <1>2. Len(<<"base">>) = 1 /\ Len(<<"base", p>>) = 2 /\ Len(<<"base", q>>) = 2
    OBVIOUS
  <1>3. <<"base">> # <<"base", p>> /\ <<"base">> # <<"base", q>>
    BY <1>2
  <1>4. <<"base", p>> = <<"base", q>> => p = q
    OBVIOUS
  <1> QED BY <1>1, <1>3, <1>4 DEF Version

LEMMA TextOf ==
    ASSUME NEW i \in Items
    PROVE  Page[i].text \in TextIds /\ MayReply[Page[i].text] \subseteq Replies
  BY DEF TextIds, Replies

LEMMA ItemAtHand ==
    ASSUME RunOK(readingRun), readingRun.todo # <<>>
    PROVE  Item \in Items /\ Tail(readingRun.todo) \in Seq(Items)
  <1>1. readingRun.todo \in Seq(Items)
    BY DEF RunOK, Readings
  <1> QED BY <1>1 DEF Item

\* An entry is written, and the run goes on to the next item.
LEMMA ReadPageOK ==
    ASSUME RunOK(readingRun), readingRun.todo # <<>>,
           NEW r \in Readings, r.read = readingRun.read, r.prompt = readingRun.prompt,
           r.todo = readingRun.todo, Breaker([r EXCEPT !.at = "reading"]),
           NEW from, NEW prompt, [item |-> Item, from |-> from, prompt |-> prompt] \in OfRun(r.prompt)
    PROVE  RunOK(ReadPage(r, from, prompt))
  <1> DEFINE entry == [item |-> Item, from |-> from, prompt |-> prompt]
             new == ReadPage(r, from, prompt)
  <1>1. r.read \in Seq(OfRun(r.prompt)) /\ r.read \in Seq(ReadEntries)
    BY DEF RunOK, Readings
  <1>2. entry \in ReadEntries
    BY DEF OfRun
  <1> HIDE DEF entry
  <1>3. Append(r.read, entry) \in Seq(OfRun(r.prompt)) /\ Append(r.read, entry) \in Seq(ReadEntries)
    BY <1>1, <1>2 DEF entry
  <1>4. Tail(r.todo) \in Seq(Items)
    BY ItemAtHand
  <1>5. new = [r EXCEPT !.at = "reading", !.todo = Tail(r.todo), !.again = FALSE, !.attempt = 0,
                        !.read = Append(r.read, entry)]
    BY DEF ReadPage, entry
  <1> HIDE DEF new
  <1>6. /\ new \in Readings
        /\ new.at = "reading" /\ new.read = Append(r.read, entry) /\ new.prompt = r.prompt
        /\ new.client = r.client /\ new.failures = r.failures /\ new.unanswered = r.unanswered
    BY <1>3, <1>4, <1>5 DEF Readings
  <1>7. Breaker(new)
    <2>1. [r EXCEPT !.at = "reading"] \in Readings
      BY DEF Readings
    <2> QED BY <1>6 DEF Breaker, Readings
  <1> QED BY <1>3, <1>6, <1>7 DEF RunOK, new

\* The run's own statement on how often Hermes was asked.
LEMMA HermesRestsNow ==
    ASSUME RunOK(readingRun)
    PROVE  HermesRests
  <1>1. Trip \in Nat
    BY ExtractAssumption
  <1> QED BY <1>1 DEF RunOK, Readings, Breaker, HermesRests

LEMMA OfThisPromptNow ==
    ASSUME RunOK(readingRun)
    PROVE  OfThisPrompt
  <1>1. readingRun.read \in Seq(OfRun(readingRun.prompt))
    BY DEF RunOK
  <1>2. \A k \in DOMAIN readingRun.read : readingRun.read[k] \in OfRun(readingRun.prompt)
    BY <1>1
  <1> QED BY <1>2 DEF OfThisPrompt, OfRun

------------------------------------------------------------------------------
(* Extract: the steps of a run                                                *)

LEMMA Passed ==
    ASSUME RunOK(readingRun), readingRun.todo # <<>>
    PROVE  [item |-> Item, from |-> NoFact, prompt |-> NoFact] \in OfRun(readingRun.prompt)
  BY ItemAtHand DEF OfRun, ReadEntries

LEMMA ByPatterns ==
    ASSUME RunOK(readingRun), readingRun.todo # <<>>, ~Structured(Item)
    PROVE  [item |-> Item, from |-> "pattern", prompt |-> NoFact] \in OfRun(readingRun.prompt)
  BY ItemAtHand DEF OfRun, ReadEntries

LEMMA ByReply ==
    ASSUME RunOK(readingRun), readingRun.todo # <<>>, ~Structured(Item),
           NEW reply \in MayReply[Page[Item].text], Reply[reply].fits
    PROVE  [item |-> Item, from |-> reply, prompt |-> readingRun.prompt] \in OfRun(readingRun.prompt)
  <1>1. Item \in Items
    BY ItemAtHand
  <1>2. reply \in Replies /\ readingRun.prompt \in Prompts
    BY <1>1, TextOf DEF RunOK, Readings
  <1> QED BY <1>1, <1>2 DEF OfRun, ReadEntries

\* No entry is flagged while a model is asked.
LEMMA AtModel ==
    ASSUME RunOK(readingRun), readingRun.at \in {"hermes", "gateway", "posted"}
    PROVE  readingRun.todo # <<>> /\ ~Structured(Item)
  BY DEF RunOK, Item

\* What a run may go on with: it read what it read, and its breaker counted right.
SameRun(r) ==
    /\ r \in Readings
    /\ r.read = readingRun.read /\ r.prompt = readingRun.prompt /\ r.todo = readingRun.todo
    /\ r.client = "both" => r.unanswered <= r.failures /\ r.failures <= Trip

\* It reads the item some way, or asks again.
LEMMA ReadsNext ==
    ASSUME RunOK(readingRun), readingRun.todo # <<>>, NEW r, SameRun(r), NEW from, NEW prompt,
           [item |-> Item, from |-> from, prompt |-> prompt] \in OfRun(readingRun.prompt)
    PROVE  RunOK(ReadPage(r, from, prompt))
  <1>1. r \in Readings /\ Breaker([r EXCEPT !.at = "reading"])
    BY DEF SameRun, Breaker, Readings
  <1>2. /\ r.read = readingRun.read /\ r.prompt = readingRun.prompt /\ r.todo = readingRun.todo
    BY DEF SameRun
  <1> QED BY <1>1, <1>2, ReadPageOK

LEMMA AsksAgain ==
    ASSUME RunOK(readingRun), readingRun.todo # <<>>, ~Structured(Item), NEW r, SameRun(r),
           NEW again \in BOOLEAN, NEW attempt \in {0, 1}, NEW json \in BOOLEAN,
           NEW at \in {"hermes", "gateway", "posted"},
           r.client = "both" /\ at = "hermes" => r.failures < Trip
    PROVE  RunOK([r EXCEPT !.at = at, !.again = again, !.attempt = attempt, !.json = json])
  <1> DEFINE new == [r EXCEPT !.at = at, !.again = again, !.attempt = attempt, !.json = json]
  <1>1. r \in Readings
    BY DEF SameRun
  <1>2. /\ new \in Readings
        /\ new.at = at /\ new.read = r.read /\ new.prompt = r.prompt /\ new.todo = r.todo
        /\ new.client = r.client /\ new.failures = r.failures /\ new.unanswered = r.unanswered
    BY <1>1 DEF Readings
  <1> HIDE DEF new
  <1>3. Breaker(new)
    BY <1>2 DEF Breaker, SameRun
  <1> QED BY <1>2, <1>3 DEF RunOK, SameRun, Item, new

\* Hermes is asked first only below Trip.
LEMMA FirstIsHermes ==
    ASSUME NEW r \in Readings
    PROVE  /\ FirstAsked(r) \in {"hermes", "gateway", "posted"}
           /\ r.client = "both" /\ FirstAsked(r) = "hermes" => r.failures < Trip
  BY ExtractAssumption DEF FirstAsked, Readings

LEMMA IsSameRun ==
    ASSUME RunOK(readingRun)
    PROVE  SameRun(readingRun)
  BY DEF RunOK, Breaker, SameRun

\* A reply is cached under the prompt of the run, and read when it fits.
LEMMA RepliedKeeps ==
    ASSUME RunOK(readingRun), CacheInv, readingRun.at \in {"hermes", "posted"},
           NEW r, SameRun(r), NEW reply \in MayReply[Page[Item].text], Replied(r, reply)
    PROVE  RunOK(readingRun)' /\ CacheInv'
  <1>1. readingRun.todo # <<>> /\ ~Structured(Item) /\ Item \in Items
    BY AtModel, ItemAtHand
  <1>2. r \in Readings /\ r.prompt = readingRun.prompt
    BY DEF SameRun
  <1>3. RunOK(readingRun')
    <2>1. CASE Reply[reply].fits /\ readingRun' = ReadPage(r, reply, r.prompt)
      BY <1>1, <1>2, <2>1, ByReply, ReadsNext
    <2>2. CASE readingRun' = [r EXCEPT !.at = FirstAsked(r), !.again = TRUE, !.attempt = 0]
      <3>1. readingRun' = [r EXCEPT !.at = FirstAsked(r), !.again = TRUE, !.attempt = 0, !.json = r.json]
        BY <1>2, <2>2 DEF Readings
      <3>2. r.json \in BOOLEAN /\ TRUE \in BOOLEAN /\ 0 \in {0, 1}
        BY <1>2 DEF Readings
      <3> QED BY <1>1, <1>2, <3>1, <3>2, FirstIsHermes, AsksAgain
    <2>3. CASE readingRun' = ReadPage(r, "pattern", NoFact)
      BY <1>1, <2>3, ByPatterns, ReadsNext
    <2> QED BY <2>1, <2>2, <2>3 DEF Replied
  <1>4. CacheInv'
    <2> DEFINE key == <<Version(r.prompt), Page[Item].text>>
               entry == [reply |-> reply, prompt |-> r.prompt]
    <2>1. r.prompt \in Prompts /\ Page[Item].text \in TextIds /\ reply \in Replies
      BY <1>1, <1>2, TextOf DEF Readings
    <2>2. key \in CacheKeys
      BY <2>1 DEF CacheKeys
    <2>3. cache' = [cache EXCEPT ![key] = entry]
      BY DEF Replied, Key
    <2>4. entry \in [reply : {NoFact} \cup Replies, prompt : {NoFact} \cup Prompts]
      BY <2>1
    <2>5. ASSUME NEW p \in Prompts, NEW t \in TextIds
          PROVE  /\ <<Version(p), t>> \in CacheKeys
                 /\ <<Version(p), t>> = key => p = r.prompt /\ t = Page[Item].text
      BY VersionsDiffer DEF CacheKeys
    <2> HIDE DEF key, entry
    <2>6. cache' \in [CacheKeys -> [reply : {NoFact} \cup Replies, prompt : {NoFact} \cup Prompts]]
      BY <2>2, <2>3, <2>4 DEF CacheInv
    <2>7. ASSUME NEW p \in Prompts, NEW t \in TextIds, cache'[<<Version(p), t>>].reply # NoFact
          PROVE  /\ cache'[<<Version(p), t>>].prompt = p
                 /\ cache'[<<Version(p), t>>].reply \in MayReply[t]
      <3> DEFINE k == <<Version(p), t>>
      <3>1. k \in CacheKeys /\ (k = key => p = r.prompt /\ t = Page[Item].text)
        BY <2>5
      <3>2. entry.reply = reply /\ entry.prompt = r.prompt
        BY DEF entry
      <3>3. CASE k = key
        <4>1. cache'[k] = entry
          BY <2>2, <2>3, <3>3 DEF CacheInv
        <4> QED BY <3>1, <3>2, <3>3, <4>1
      <3>4. CASE k # key
        <4>1. cache'[k] = cache[k]
          BY <2>3, <3>1, <3>4 DEF CacheInv
        <4> QED BY <2>7, <4>1 DEF CacheInv
      <3> QED BY <3>3, <3>4
    <2> QED BY <2>6, <2>7 DEF CacheInv
  <1> QED BY <1>3, <1>4

\* Every step of a run that reads keeps the run and the cache.
ReadsOn ==
    \/ PassOver \/ ReadPlainly \/ ReadFromCache \/ AskModel \/ HermesReplies \/ HermesTalks
    \/ HermesDown \/ GatewayIsAsked \/ GatewayRefusesJson \/ GatewayIsEmpty \/ GatewayFails
    \/ GatewayReplies

LEMMA ReadsOnKeeps ==
    ASSUME RunOK(readingRun), CacheInv, ReadsOn
    PROVE  RunOK(readingRun)' /\ CacheInv'
  <1>1. SameRun(readingRun) /\ readingRun \in Readings
    BY IsSameRun DEF RunOK
  <1>2. Trip \in Nat
    BY ExtractAssumption
  <1>3. CASE PassOver
    <2>1. CacheInv'
      BY <1>3 DEF PassOver, CacheInv
    <2>2. readingRun.todo # <<>> /\ readingRun' = ReadPage(readingRun, NoFact, NoFact)
      BY <1>3 DEF PassOver, Reading
    <2> QED BY <1>1, <2>1, <2>2, Passed, ReadsNext
  <1>4. CASE ReadPlainly
    <2>1. CacheInv'
      BY <1>4 DEF ReadPlainly, CacheInv
    <2>2. /\ readingRun.todo # <<>> /\ ~Structured(Item)
          /\ readingRun' = ReadPage(readingRun, "pattern", NoFact)
      BY <1>4 DEF ReadPlainly, ToRead, Reading
    <2> QED BY <1>1, <2>1, <2>2, ByPatterns, ReadsNext
  <1>5. CASE ReadFromCache
    <2>1. CacheInv'
      BY <1>5 DEF ReadFromCache, CacheInv
    <2>2. /\ readingRun.todo # <<>> /\ ~Structured(Item)
          /\ readingRun' = ReadPage(readingRun, Hit.reply, Hit.prompt)
          /\ Hit.reply # NoFact /\ Reply[Hit.reply].fits
      BY <1>5 DEF ReadFromCache, ToRead, Reading, UsableReply
    <2>3. Item \in Items /\ readingRun.prompt \in Prompts
      BY <1>1, <2>2, ItemAtHand DEF Readings
    <2>4. Hit.prompt = readingRun.prompt /\ Hit.reply \in MayReply[Page[Item].text]
      BY <2>2, <2>3, TextOf DEF Hit, Key, CacheInv
    <2> QED BY <1>1, <2>1, <2>2, <2>4, ByReply, ReadsNext
  <1>6. CASE AskModel
    <2>1. CacheInv'
      BY <1>6 DEF AskModel, CacheInv
    <2>2. readingRun.todo # <<>> /\ ~Structured(Item)
      BY <1>6 DEF AskModel, ToRead, Reading
    <2>3. readingRun' = [readingRun EXCEPT !.at = FirstAsked(readingRun)]
      BY <1>6 DEF AskModel
    <2>4. readingRun' = [readingRun EXCEPT !.at = FirstAsked(readingRun), !.again = readingRun.again,
                                           !.attempt = readingRun.attempt, !.json = readingRun.json]
      BY <1>1, <2>3 DEF Readings
    <2>5. /\ readingRun.again \in BOOLEAN /\ readingRun.attempt \in {0, 1}
          /\ readingRun.json \in BOOLEAN
      BY <1>1 DEF Readings
    <2> QED BY <1>1, <2>1, <2>2, <2>4, <2>5, FirstIsHermes, AsksAgain
  <1>7. CASE HermesReplies
    <2> DEFINE r == [readingRun EXCEPT !.failures = 0, !.unanswered = 0]
    <2>1. SameRun(r)
      <3>1. /\ r \in Readings
            /\ r.read = readingRun.read /\ r.prompt = readingRun.prompt /\ r.todo = readingRun.todo
            /\ r.failures = 0 /\ r.unanswered = 0
        BY <1>1 DEF Readings
      <3> HIDE DEF r
      <3> QED BY <1>2, <3>1 DEF SameRun
    <2>2. readingRun.at = "hermes" /\ \E reply \in MayReply[Page[Item].text] : Replied(r, reply)
      BY <1>7 DEF HermesReplies
    <2> HIDE DEF r
    <2> QED BY <2>1, <2>2, RepliedKeeps
  <1>8. CASE HermesTalks
    <2> DEFINE r == [readingRun EXCEPT !.unanswered = 0]
    <2>1. SameRun(r)
      BY <1>1, <1>2 DEF RunOK, Breaker, SameRun, Readings
    <2>2. CacheInv'
      BY <1>8 DEF HermesTalks, Unavailable, CacheInv
    <2>3. readingRun.at = "hermes" /\ readingRun' = ReadPage(r, "pattern", NoFact)
      BY <1>8 DEF HermesTalks, Unavailable
    <2> HIDE DEF r
    <2> QED BY <2>1, <2>2, <2>3, AtModel, ByPatterns, ReadsNext
  <1>9. CASE HermesDown
    <2>1. CacheInv'
      BY <1>9 DEF HermesDown, Unavailable, CacheInv
    <2>2. readingRun.at = "hermes" /\ readingRun.todo # <<>> /\ ~Structured(Item)
      BY <1>9, AtModel DEF HermesDown
    <2>3. /\ readingRun.client = "both" =>
                readingRun.failures < Trip /\ readingRun.unanswered <= readingRun.failures
      BY <2>2 DEF RunOK, Breaker
    <2> DEFINE r == Failed(readingRun)
    <2>4. SameRun(r)
      <3>1. readingRun.failures \in Nat /\ readingRun.unanswered \in Nat
        BY <1>1 DEF Readings
      <3>2. r = [readingRun EXCEPT !.failures = readingRun.failures + 1,
                                   !.unanswered = readingRun.unanswered + 1]
        BY DEF Failed
      <3> HIDE DEF r
      <3>3. readingRun.failures + 1 \in Nat /\ readingRun.unanswered + 1 \in Nat
        BY <3>1
      <3>4. r \in Readings
        BY <1>1, <3>2, <3>3 DEF Readings
      <3>5. /\ r.read = readingRun.read /\ r.prompt = readingRun.prompt /\ r.todo = readingRun.todo
            /\ r.client = readingRun.client
            /\ r.failures = readingRun.failures + 1 /\ r.unanswered = readingRun.unanswered + 1
        BY <1>1, <3>2 DEF Readings
      <3> QED BY <1>2, <2>3, <3>1, <3>4, <3>5 DEF SameRun
    <2>5. CASE readingRun' = [r EXCEPT !.at = "gateway"]
      <3> HIDE DEF r
      <3>1. r \in Readings
        BY <2>4 DEF SameRun
      <3>2. readingRun' = [r EXCEPT !.at = "gateway", !.again = r.again, !.attempt = r.attempt,
                                    !.json = r.json]
        BY <2>5, <3>1 DEF Readings
      <3>3. r.again \in BOOLEAN /\ r.attempt \in {0, 1} /\ r.json \in BOOLEAN
        BY <3>1 DEF Readings
      <3> QED BY <2>1, <2>2, <2>4, <3>2, <3>3, AsksAgain
    <2>6. CASE readingRun' = ReadPage(r, "pattern", NoFact)
      <3> HIDE DEF r
      <3> QED BY <2>1, <2>2, <2>4, <2>6, ByPatterns, ReadsNext
    <2> QED BY <1>9, <2>5, <2>6 DEF HermesDown, Unavailable
  <1>10. CASE GatewayIsAsked \/ GatewayRefusesJson \/ GatewayIsEmpty
    <2>1. CacheInv'
      BY <1>10 DEF GatewayIsAsked, GatewayRefusesJson, GatewayIsEmpty, CacheInv
    <2>2. readingRun.todo # <<>> /\ ~Structured(Item)
      BY <1>10, AtModel DEF GatewayIsAsked, GatewayRefusesJson, GatewayIsEmpty
    <2>3. PICK at \in {"gateway", "posted"}, attempt \in {0, 1}, json \in BOOLEAN :
            readingRun' = [readingRun EXCEPT !.at = at, !.again = readingRun.again,
                                             !.attempt = attempt, !.json = json]
      <3>1. CASE GatewayIsAsked
        <4>1. readingRun' = [readingRun EXCEPT !.at = "posted", !.again = readingRun.again,
                                !.attempt = readingRun.attempt, !.json = readingRun.json]
          BY <3>1, <1>1 DEF GatewayIsAsked, Readings
        <4> QED BY <4>1, <1>1 DEF Readings
      <3>2. CASE GatewayRefusesJson
        <4>1. readingRun' = [readingRun EXCEPT !.at = "gateway", !.again = readingRun.again,
                                !.attempt = readingRun.attempt, !.json = FALSE]
          BY <3>2, <1>1 DEF GatewayRefusesJson, WithoutJson, Readings
        <4> QED BY <4>1, <1>1 DEF Readings
      <3>3. CASE GatewayIsEmpty
        <4>1. readingRun' = [readingRun EXCEPT !.at = "gateway", !.again = readingRun.again,
                                !.attempt = 1, !.json = readingRun.json]
          BY <3>3, <1>1 DEF GatewayIsEmpty, Readings
        <4> QED BY <4>1, <1>1 DEF Readings
      <3> QED BY <1>10, <3>1, <3>2, <3>3
    <2>4. readingRun.again \in BOOLEAN
      BY <1>1 DEF Readings
    <2> QED BY <1>1, <2>1, <2>2, <2>3, <2>4, AsksAgain
  <1>11. CASE GatewayFails
    <2>1. CacheInv'
      BY <1>11 DEF GatewayFails, Unavailable, CacheInv
    <2>2. readingRun.at = "posted" /\ readingRun' = ReadPage(readingRun, "pattern", NoFact)
      BY <1>11 DEF GatewayFails, Unavailable
    <2> QED BY <1>1, <2>1, <2>2, AtModel, ByPatterns, ReadsNext
  <1>12. CASE GatewayReplies
    <2>1. readingRun.at = "posted" /\ \E reply \in MayReply[Page[Item].text] : Replied(readingRun, reply)
      BY <1>12 DEF GatewayReplies
    <2> QED BY <1>1, <2>1, RepliedKeeps
  <1> QED BY <1>3, <1>4, <1>5, <1>6, <1>7, <1>8, <1>9, <1>10, <1>11, <1>12 DEF ReadsOn

\* Nothing is resolved meanwhile.
LEMMA ReadsOnly ==
    ASSUME RunOK(readingRun), ReadsOn
    PROVE  /\ readingRun.at # "flagging"
           /\ UNCHANGED <<prompts, companies, unflagged>>
  BY DEF ReadsOn, PassOver, ReadPlainly, ReadFromCache, AskModel, HermesReplies, HermesTalks,
         HermesDown, GatewayIsAsked, GatewayRefusesJson, GatewayIsEmpty, GatewayFails,
         GatewayReplies, Replied, Unavailable, ToRead, Reading

------------------------------------------------------------------------------
(* Extract: the companies                                                     *)

\* What a row says is said by an article of the company.
RowIsSaid(c, row) ==
    /\ row.total # 0 => StatedTogether(c, {m \in DOMAIN Worth : Worth[m] = row.total})
    /\ row.round # NoFact => StatedTogether(c, {row.round})
    /\ row.university # NoFact => StatedTogether(c, {row.university})

LEMMA GroundedRows ==
    GroundedOrFlagged <=>
        \A c \in Ventures : ~companies[c].flagged /\ ~Flagging(c) /\ c \notin unflagged =>
            RowIsSaid(c, companies[c])
  BY DEF GroundedOrFlagged, RowIsSaid

\* Nothing of it is lost as long as rows stay and none is being flagged.
LEMMA GroundedStays ==
    ASSUME GroundedOrFlagged, UNCHANGED companies, unflagged \subseteq unflagged',
           readingRun.at # "flagging"
    PROVE  GroundedOrFlagged'
  BY DEF GroundedOrFlagged, Flagging

LEMMA PressStays ==
    ASSUME PressIsCounted, UNCHANGED companies
    PROVE  PressIsCounted'
  BY DEF PressIsCounted

\* What one sentence of an item's text says.
LEMMA SaidIsStated ==
    ASSUME NEW i \in Items, NEW c, NEW x, NEW things, SaidWith(Page[i].text, c, x), x \in things
    PROVE  StatedTogether(c, things)
  <1>1. Page[i].text \in TextIds
    BY TextOf
  <1> QED BY <1>1 DEF SaidWith, StatedTogether

\* A record of an entry that nobody has to look at.
LEMMA EntryIsSaid ==
    ASSUME NEW prompt, NEW entry \in OfRun(prompt), ~RecordOf(entry).review,
           NameOf(entry) # NoFact
    PROVE  /\ RecordOf(entry).round # NoFact => StatedTogether(NameOf(entry), {RecordOf(entry).round})
           /\ RecordOf(entry).university # NoFact =>
                 StatedTogether(NameOf(entry), {RecordOf(entry).university})
           /\ TotalOf(RecordOf(entry)) # 0 =>
                 StatedTogether(NameOf(entry), {m \in DOMAIN Worth : Worth[m] = TotalOf(RecordOf(entry))})
  <1> DEFINE record == RecordOf(entry)
  <1>1. entry.item \in Items
    BY DEF OfRun, ReadEntries
  <1>2. CASE entry.from = NoFact
    <2>1. record = NoClaim
      BY <1>2 DEF RecordOf
    <2>2. record.round = NoFact /\ record.university = NoFact /\ TotalOf(record) = 0
      BY <2>1 DEF NoClaim, TotalOf
    <2> QED BY <2>2
  <1>3. CASE entry.from # NoFact /\ entry.from = "pattern"
    <2>1. record = FinishHeuristic(entry.item)
      BY <1>1, <1>3 DEF RecordOf, ByPattern
    <2>2. Shaped(Heuristic(entry.item))
      BY <1>1, HeuristicShape
    <2>3. DOMAIN Ground(Heuristic(entry.item), Page[entry.item].text) = DOMAIN NoClaim
      BY <2>2, GroundShape
    <2>4. FinishHeuristic(entry.item).review = TRUE
      BY <1>1, <2>3, PatternsAreFlagged
    <2> QED BY <2>1, <2>4
  <1>4. CASE entry.from \notin {NoFact, "pattern"}
    <2>1. /\ entry.from \in MayReply[Page[entry.item].text] /\ Reply[entry.from].fits
          /\ ~Structured(entry.item)
      BY <1>4 DEF OfRun
    <2>2. record = FinishLlm(Reply[entry.from], entry.item)
      BY <1>1, <1>4, <2>1 DEF RecordOf, ByModel
    <2>3. /\ record.original = NoFact
          /\ Said(record, Page[entry.item].text)
          /\ record.grant \in DOMAIN Worth \cup {NoFact} /\ record.raised \in DOMAIN Worth \cup {NoFact}
      BY <1>1, <2>1, <2>2, RecordIsSaid
    <2> HIDE DEF record
    <2>4. NameOf(entry) = record.company
      BY <2>1 DEF NameOf, NameIn, record
    <2>5. record.round # NoFact => StatedTogether(record.company, {record.round})
      BY <1>1, <2>3, SaidIsStated DEF Said
    <2>6. record.university # NoFact => StatedTogether(record.company, {record.university})
      BY <1>1, <2>3, SaidIsStated DEF Said
    <2> DEFINE worth == {m \in DOMAIN Worth : Worth[m] = TotalOf(record)}
    <2>7. TotalOf(record) # 0 => StatedTogether(record.company, worth)
      <3>1. CASE record.grant # NoFact
        <4>1. record.grant \in worth
          BY <2>3, <3>1 DEF TotalOf
        <4>2. SaidWith(Page[entry.item].text, record.company, record.grant)
          BY <2>3, <3>1 DEF Said
        <4> QED BY <1>1, <4>1, <4>2, SaidIsStated
      <3>2. CASE record.grant = NoFact /\ record.raised # NoFact
        <4>1. record.raised \in worth
          BY <2>3, <3>2 DEF TotalOf
        <4>2. SaidWith(Page[entry.item].text, record.company, record.raised)
          BY <2>3, <3>2 DEF Said
        <4> QED BY <1>1, <4>1, <4>2, SaidIsStated
      <3>3. CASE record.grant = NoFact /\ record.raised = NoFact
        <4>1. TotalOf(record) = 0
          BY <2>3, <3>3 DEF TotalOf
        <4> QED BY <4>1
      <3> QED BY <3>1, <3>2, <3>3
    <2> QED BY <2>4, <2>5, <2>6, <2>7 DEF record
  <1> QED BY <1>2, <1>3, <1>4

\* What is filled into a row.
LEMMA FoldedFields ==
    ASSUME NEW row, DOMAIN row = DOMAIN NoCompany, NEW entry, NEW record
    PROVE  /\ DOMAIN Folded(row, entry, record) = DOMAIN NoCompany
           /\ Folded(row, entry, record).total = IF row.total = 0 THEN TotalOf(record) ELSE row.total
           /\ Folded(row, entry, record).round = FilledIn(row.round, record.round)
           /\ Folded(row, entry, record).university = FilledIn(row.university, record.university)
           /\ Folded(row, entry, record).flagged = row.flagged
           /\ Folded(row, entry, record).signals = row.signals
           /\ Folded(row, entry, record).press = row.press
  BY DEF Folded, NoCompany

LEMMA WithSignalFields ==
    ASSUME NEW row, DOMAIN row = DOMAIN NoCompany, NEW item
    PROVE  /\ DOMAIN WithSignal(row, item) = DOMAIN NoCompany
           /\ WithSignal(row, item).total = row.total
           /\ WithSignal(row, item).round = row.round
           /\ WithSignal(row, item).university = row.university
           /\ WithSignal(row, item).flagged = row.flagged
           /\ WithSignal(row, item).signals = row.signals \cup {[kind |-> Page[item].kind, url |-> item]}
           /\ WithSignal(row, item).press =
                 IF Page[item].kind \in PressKinds THEN Press(WithSignal(row, item).signals) ELSE row.press
  BY DEF WithSignal, NoCompany

\* A mention that is not one of the press does not count as one.
LEMMA PressOfRow ==
    ASSUME NEW row, DOMAIN row = DOMAIN NoCompany, NEW item, row.press = Press(row.signals)
    PROVE  WithSignal(row, item).press = Press(WithSignal(row, item).signals)
  <1> DEFINE signal == [kind |-> Page[item].kind, url |-> item]
             signals == row.signals \cup {signal}
  <1>1. CASE Page[item].kind \in PressKinds
    BY <1>1, WithSignalFields
  <1>2. CASE Page[item].kind \notin PressKinds
    <2>1. signal.kind \notin PressKinds
      BY <1>2
    <2> HIDE DEF signal
    <2>2. {s \in signals : s.kind \in PressKinds} = {s \in row.signals : s.kind \in PressKinds}
      BY <2>1
    <2>3. Press(signals) = Press(row.signals)
      BY <2>2 DEF Press
    <2>4. WithSignal(row, item).signals = signals /\ WithSignal(row, item).press = row.press
      BY <1>2, WithSignalFields DEF signal
    <2> QED BY <2>3, <2>4
  <1> QED BY <1>1, <1>2

\* The row of a company after a mention of it.
Mentioned(row, entry) == WithSignal(Folded(row, entry, RecordOf(entry)), entry.item)

LEMMA MentionedRow ==
    ASSUME NEW row, DOMAIN row = DOMAIN NoCompany, NEW prompt, NEW entry \in OfRun(prompt),
           NameOf(entry) # NoFact
    PROVE  /\ DOMAIN Mentioned(row, entry) = DOMAIN NoCompany
           /\ Mentioned(row, entry).flagged = row.flagged
           /\ row.press = Press(row.signals) =>
                 Mentioned(row, entry).press = Press(Mentioned(row, entry).signals)
           /\ ~RecordOf(entry).review /\ RowIsSaid(NameOf(entry), row) =>
                 RowIsSaid(NameOf(entry), Mentioned(row, entry))
  <1> DEFINE record == RecordOf(entry)
             folded == Folded(row, entry, record)
             new == WithSignal(folded, entry.item)
  <1>1. /\ DOMAIN folded = DOMAIN NoCompany
        /\ folded.total = IF row.total = 0 THEN TotalOf(record) ELSE row.total
        /\ folded.round = FilledIn(row.round, record.round)
        /\ folded.university = FilledIn(row.university, record.university)
        /\ folded.flagged = row.flagged /\ folded.signals = row.signals /\ folded.press = row.press
    BY FoldedFields
  <1> HIDE DEF folded
  <1>2. /\ DOMAIN new = DOMAIN NoCompany
        /\ new.total = folded.total /\ new.round = folded.round
        /\ new.university = folded.university /\ new.flagged = folded.flagged
    BY <1>1, WithSignalFields
  <1>3. folded.press = Press(folded.signals) => new.press = Press(new.signals)
    BY <1>1, PressOfRow
  <1>4. ASSUME ~record.review, RowIsSaid(NameOf(entry), row)
        PROVE  RowIsSaid(NameOf(entry), new)
    <2>1. /\ record.round # NoFact => StatedTogether(NameOf(entry), {record.round})
          /\ record.university # NoFact => StatedTogether(NameOf(entry), {record.university})
          /\ TotalOf(record) # 0 =>
                StatedTogether(NameOf(entry), {m \in DOMAIN Worth : Worth[m] = TotalOf(record)})
      BY <1>4, EntryIsSaid
    <2> HIDE DEF record, new
    <2>2. new.total # 0 =>
            StatedTogether(NameOf(entry), {m \in DOMAIN Worth : Worth[m] = new.total})
      <3>1. new.total = TotalOf(record) \/ (row.total # 0 /\ new.total = row.total)
        BY <1>1, <1>2
      <3>2. CASE new.total = TotalOf(record)
        BY <2>1, <3>2
      <3>3. CASE row.total # 0 /\ new.total = row.total
        BY <1>4, <3>3 DEF RowIsSaid
      <3> QED BY <3>1, <3>2, <3>3
    <2>3. new.round # NoFact => StatedTogether(NameOf(entry), {new.round})
      BY <1>1, <1>2, <1>4, <2>1 DEF RowIsSaid, FilledIn
    <2>4. new.university # NoFact => StatedTogether(NameOf(entry), {new.university})
      BY <1>1, <1>2, <1>4, <2>1 DEF RowIsSaid, FilledIn
    <2> QED BY <2>2, <2>3, <2>4 DEF RowIsSaid
  <1> QED BY <1>1, <1>2, <1>3, <1>4 DEF record, folded, Mentioned

LEMMA HeadAndTail ==
    ASSUME NEW S, NEW s \in Seq(S), s # <<>>
    PROVE  Head(s) \in S /\ Tail(s) \in Seq(S)
  OBVIOUS

\* The next item is resolved: the row of a record to be looked at is being flagged.
LEMMA ResolveKeeps ==
    ASSUME ExtractInv, Resolve
    PROVE  ExtractInv'
  <1> DEFINE entry == Head(readingRun.read)
             name == NameOf(entry)
             record == RecordOf(entry)
  <1>1. /\ RunOK(readingRun) /\ readingRun \in Readings /\ readingRun.read \in Seq(OfRun(readingRun.prompt))
        /\ readingRun.at = "reading" /\ readingRun.read # <<>>
        /\ UNCHANGED <<prompts, cache, quarantined, unflagged>>
    BY DEF ExtractInv, RunOK, Resolve, ToResolve
  <1>2. /\ entry \in OfRun(readingRun.prompt)
        /\ Tail(readingRun.read) \in Seq(OfRun(readingRun.prompt))
        /\ Tail(readingRun.read) \in Seq(ReadEntries)
    <2>1. readingRun.read \in Seq(ReadEntries) /\ readingRun.read # <<>>
      BY <1>1 DEF Readings
    <2>2. Tail(readingRun.read) \in Seq(ReadEntries)
      BY <2>1, HeadAndTail
    <2>3. Tail(readingRun.read) \in Seq(OfRun(readingRun.prompt))
      BY <1>1, HeadAndTail
    <2>4. Head(readingRun.read) \in OfRun(readingRun.prompt)
      BY <1>1, HeadAndTail
    <2> QED BY <2>2, <2>3, <2>4
  <1>3. \/ /\ name = NoFact
           /\ readingRun' = [readingRun EXCEPT !.read = Tail(@)] /\ UNCHANGED companies
        \/ /\ name # NoFact
           /\ companies' = [companies EXCEPT ![name] = Mentioned(companies[name], entry)]
           /\ readingRun' = IF record.review THEN [readingRun EXCEPT !.at = "flagging"]
                            ELSE [readingRun EXCEPT !.read = Tail(@)]
    BY DEF Resolve, Mentioned
  <1>4. PromptsTypeOK' /\ CacheInv'
    BY <1>1 DEF ExtractInv, PromptsTypeOK, CacheInv
  <1> HIDE DEF entry, name, record
  <1>5. RunOK(readingRun')
    <2>1. CASE readingRun' = [readingRun EXCEPT !.read = Tail(readingRun.read)]
      <3>1. /\ readingRun' \in Readings /\ readingRun'.at = "reading"
            /\ readingRun'.read = Tail(readingRun.read) /\ readingRun'.prompt = readingRun.prompt
            /\ readingRun'.client = readingRun.client /\ readingRun'.failures = readingRun.failures
            /\ readingRun'.unanswered = readingRun.unanswered
        BY <1>1, <1>2, <2>1 DEF Readings
      <3> QED BY <1>1, <1>2, <3>1 DEF RunOK, Breaker
    <2>2. CASE readingRun' = [readingRun EXCEPT !.at = "flagging"]
      <3>1. /\ readingRun' \in Readings /\ readingRun'.at = "flagging"
            /\ readingRun'.read = readingRun.read /\ readingRun'.prompt = readingRun.prompt
            /\ readingRun'.client = readingRun.client /\ readingRun'.failures = readingRun.failures
            /\ readingRun'.unanswered = readingRun.unanswered
        BY <1>1, <2>2 DEF Readings
      <3> QED BY <1>1, <3>1 DEF RunOK, Breaker
    <2> QED BY <1>3, <2>1, <2>2
  <1>6. CASE name = NoFact
    <2>1. UNCHANGED companies /\ unflagged \subseteq unflagged'
      BY <1>1, <1>3, <1>6
    <2>2. GroundedOrFlagged' /\ PressIsCounted'
      BY <1>1, <2>1, GroundedStays, PressStays DEF ExtractInv
    <2>3. CompaniesTypeOK'
      BY <2>1 DEF ExtractInv, CompaniesTypeOK
    <2> QED BY <1>4, <1>5, <2>2, <2>3 DEF ExtractInv
  <1>7. CASE name # NoFact
    <2>1. /\ companies' = [companies EXCEPT ![name] = Mentioned(companies[name], entry)]
          /\ record.review => readingRun' = [readingRun EXCEPT !.at = "flagging"]
      BY <1>3, <1>7
    <2>2. DOMAIN companies' = Ventures
      BY <2>1 DEF ExtractInv, CompaniesTypeOK
    <2>3. ASSUME NEW c \in Ventures
          PROVE  companies'[c] = IF c = name THEN Mentioned(companies[c], entry) ELSE companies[c]
      BY <2>1 DEF ExtractInv, CompaniesTypeOK
    <2>4. ASSUME name \in Ventures
          PROVE  /\ DOMAIN Mentioned(companies[name], entry) = DOMAIN NoCompany
                 /\ Mentioned(companies[name], entry).flagged = companies[name].flagged
                 /\ Mentioned(companies[name], entry).press = Press(Mentioned(companies[name], entry).signals)
                 /\ ~record.review /\ RowIsSaid(name, companies[name]) =>
                       RowIsSaid(name, Mentioned(companies[name], entry))
      <3>1. DOMAIN companies[name] = DOMAIN NoCompany
        BY <2>4 DEF ExtractInv, CompaniesTypeOK
      <3>2. companies[name].press = Press(companies[name].signals)
        BY <2>4 DEF ExtractInv, PressIsCounted
      <3> QED BY <1>2, <1>7, <3>1, <3>2, MentionedRow DEF name, record
    <2>5. CompaniesTypeOK'
      BY <2>2, <2>3, <2>4 DEF ExtractInv, CompaniesTypeOK
    <2>6. PressIsCounted'
      BY <2>3, <2>4 DEF ExtractInv, PressIsCounted
    <2>7. ASSUME NEW c \in Ventures, ~companies'[c].flagged, ~Flagging(c)', c \notin unflagged'
          PROVE  RowIsSaid(c, companies'[c])
      <3>1. ~companies[c].flagged
        <4>1. CASE c = name
          BY <2>3, <2>4, <2>7, <4>1
        <4>2. CASE c # name
          BY <2>3, <2>7, <4>2
        <4> QED BY <4>1, <4>2
      <3>2. RowIsSaid(c, companies[c])
        BY <1>1, <2>7, <3>1, GroundedRows DEF ExtractInv, Flagging
      <3>3. CASE c = name
        <4>1. ~record.review
          <5>1. SUFFICES ASSUME record.review PROVE FALSE
            OBVIOUS
          <5>2. readingRun'.at = "flagging" /\ readingRun'.read = readingRun.read
            BY <1>1, <2>1, <5>1 DEF Readings
          <5>3. Flagging(c)'
            BY <3>3, <5>2 DEF Flagging, name, entry
          <5> QED BY <2>7, <5>3
        <4> QED BY <2>3, <2>4, <3>2, <3>3, <4>1
      <3>4. CASE c # name
        BY <2>3, <3>2, <3>4
      <3> QED BY <3>3, <3>4
    <2>8. GroundedOrFlagged'
      BY <2>7 DEF GroundedOrFlagged, RowIsSaid
    <2> QED BY <1>4, <1>5, <2>5, <2>6, <2>8 DEF ExtractInv
  <1> QED BY <1>6, <1>7

\* The flag is set, and the run goes on.
LEMMA FlagKeeps ==
    ASSUME ExtractInv, Flag
    PROVE  ExtractInv'
  <1> DEFINE name == NameOf(Head(readingRun.read))
  <1>1. /\ RunOK(readingRun) /\ readingRun \in Readings /\ readingRun.read \in Seq(OfRun(readingRun.prompt))
        /\ readingRun.at = "flagging" /\ readingRun.read # <<>>
        /\ UNCHANGED <<prompts, cache, quarantined, unflagged>>
    BY DEF ExtractInv, RunOK, Flag
  <1>2. /\ Tail(readingRun.read) \in Seq(OfRun(readingRun.prompt))
        /\ Tail(readingRun.read) \in Seq(ReadEntries)
    <2>1. readingRun.read \in Seq(ReadEntries) /\ readingRun.read # <<>>
      BY <1>1 DEF Readings
    <2>2. Tail(readingRun.read) \in Seq(ReadEntries)
      BY <2>1, HeadAndTail
    <2>3. Tail(readingRun.read) \in Seq(OfRun(readingRun.prompt))
      BY <1>1, HeadAndTail
    <2>4. Head(readingRun.read) \in OfRun(readingRun.prompt)
      BY <1>1, HeadAndTail
    <2> QED BY <2>2, <2>3, <2>4
  <1>3. PromptsTypeOK' /\ CacheInv'
    BY <1>1 DEF ExtractInv, PromptsTypeOK, CacheInv
  <1>4. companies' = [companies EXCEPT ![name] = [companies[name] EXCEPT !.flagged = TRUE]]
    BY DEF Flag
  <1>5. /\ RunOK(readingRun')
        /\ readingRun'.at = "reading"
    <2>1. readingRun' = [readingRun EXCEPT !.at = "reading", !.read = Tail(readingRun.read)]
      BY DEF Flag
    <2>2. /\ readingRun' \in Readings /\ readingRun'.at = "reading"
          /\ readingRun'.read = Tail(readingRun.read) /\ readingRun'.prompt = readingRun.prompt
          /\ readingRun'.client = readingRun.client /\ readingRun'.failures = readingRun.failures
          /\ readingRun'.unanswered = readingRun.unanswered
      BY <1>1, <1>2, <2>1 DEF Readings
    <2> QED BY <1>1, <1>2, <2>2 DEF RunOK, Breaker
  <1> HIDE DEF name
  <1>6. ASSUME NEW c \in Ventures
        PROVE  /\ DOMAIN companies'[c] = DOMAIN NoCompany
               /\ companies'[c].signals = companies[c].signals /\ companies'[c].press = companies[c].press
               /\ c = name => companies'[c].flagged
               /\ c # name => companies'[c] = companies[c]
    <2>1. DOMAIN companies = Ventures /\ DOMAIN companies[c] = DOMAIN NoCompany
      BY DEF ExtractInv, CompaniesTypeOK
    <2>2. companies'[c] = IF c = name THEN [companies[c] EXCEPT !.flagged = TRUE] ELSE companies[c]
      BY <1>4, <2>1
    <2>3. {"flagged", "signals", "press"} \subseteq DOMAIN companies[c]
      BY <2>1 DEF NoCompany
    <2> QED BY <2>1, <2>2, <2>3
  <1>7. CompaniesTypeOK' /\ PressIsCounted'
    <2>1. DOMAIN companies' = Ventures
      BY <1>4 DEF ExtractInv, CompaniesTypeOK
    <2> QED BY <1>6, <2>1 DEF ExtractInv, CompaniesTypeOK, PressIsCounted
  <1>8. GroundedOrFlagged'
    <2>1. ASSUME NEW c \in Ventures, ~companies'[c].flagged, c \notin unflagged'
          PROVE  RowIsSaid(c, companies'[c])
      <3>1. c # name /\ companies'[c] = companies[c]
        BY <1>6, <2>1
      <3>2. ~Flagging(c)
        BY <3>1 DEF Flagging, name
      <3> QED BY <1>1, <2>1, <3>1, <3>2, GroundedRows DEF ExtractInv
    <2> QED BY <2>1 DEF GroundedOrFlagged, RowIsSaid
  <1> QED BY <1>3, <1>5, <1>7, <1>8 DEF ExtractInv

\* A run that has read nothing.
NewRun(at, n, todo, prompt, model) ==
    [at |-> at, number |-> n, todo |-> todo, read |-> <<>>, prompt |-> prompt,
     client |-> model, failures |-> 0, json |-> TRUE, attempt |-> 0, again |-> FALSE,
     unanswered |-> 0]

LEMMA NewRunOK ==
    ASSUME NEW at \in {"idle", "reading"}, NEW n \in Nat, NEW todo \in Seq(Items),
           NEW prompt \in Prompts, NEW model \in ModelClients
    PROVE  RunOK(NewRun(at, n, todo, prompt, model))
  <1> DEFINE r == NewRun(at, n, todo, prompt, model)
  <1>1. <<>> \in Seq(ReadEntries) /\ <<>> \in Seq(OfRun(prompt))
    OBVIOUS
  <1>2. r \in Readings
    BY <1>1 DEF Readings, NewRun
  <1>3. r.read = <<>> /\ r.prompt = prompt /\ r.at = at /\ r.failures = 0 /\ r.unanswered = 0
    BY DEF NewRun
  <1> HIDE DEF r
  <1>4. Breaker(r)
    BY <1>3, ExtractAssumption DEF Breaker
  <1> QED BY <1>1, <1>2, <1>3, <1>4 DEF RunOK, r

LEMMA NoRunOK ==
    ASSUME NEW n \in Nat
    PROVE  RunOK([NoRun EXCEPT !.number = n])
  <1> DEFINE new == [NoRun EXCEPT !.number = n]
  <1>1. NoFact \in ModelClients /\ ShippedPrompt \in Prompts /\ <<>> \in Seq(Items) /\ 0 \in Nat
    BY DEF ModelClients, Prompts
  <1>2. NoRun = NewRun("idle", 0, <<>>, ShippedPrompt, NoFact)
    BY DEF NoRun, NewRun
  <1>3. RunOK(NoRun)
    BY <1>1, <1>2, NewRunOK
  <1>4. NoRun \in Readings /\ NoRun.at = "idle"
    BY <1>2, <1>3 DEF RunOK, NewRun
  <1>5. /\ new \in Readings /\ new.at = NoRun.at /\ new.read = NoRun.read
        /\ new.prompt = NoRun.prompt /\ new.client = NoRun.client
        /\ new.failures = NoRun.failures /\ new.unanswered = NoRun.unanswered
    BY <1>4 DEF Readings
  <1> HIDE DEF new
  <1>6. RunOK(new)
    BY <1>3, <1>4, <1>5 DEF RunOK, Breaker
  <1> QED BY <1>6 DEF new

\* The run is over, or dies with a flag on its hands.
LEMMA ReadingEndKeeps ==
    ASSUME ExtractInv, Finish \/ ReaderDies
    PROVE  ExtractInv'
  <1>1. /\ readingRun' = [NoRun EXCEPT !.number = readingRun.number]
        /\ UNCHANGED <<prompts, cache, companies>>
        /\ unflagged \subseteq unflagged'
    BY DEF Finish, ReaderDies, Ended
  <1>2. PromptsTypeOK' /\ CacheInv' /\ CompaniesTypeOK' /\ PressIsCounted'
    BY <1>1, PressStays DEF ExtractInv, PromptsTypeOK, CacheInv, CompaniesTypeOK
  <1>3. readingRun.number \in Nat
    BY DEF ExtractInv, RunOK, Readings
  <1>4. RunOK(readingRun')
    BY <1>1, <1>3, NoRunOK
  <1>5. GroundedOrFlagged'
    <2>1. CASE readingRun.at # "flagging"
      BY <1>1, <2>1, GroundedStays DEF ExtractInv
    <2>2. CASE readingRun.at = "flagging"
      <3>1. \A c : Flagging(c) => c \in unflagged'
        BY <2>2 DEF Flagging, Finish, ReaderDies, ToResolve
      <3> QED BY <1>1, <3>1 DEF ExtractInv, GroundedOrFlagged
    <2> QED BY <2>1, <2>2
  <1> QED BY <1>2, <1>4, <1>5 DEF ExtractInv

\* A run takes the prompt in force, or the shipped one.
LEMMA ReadingStartKeeps ==
    ASSUME ExtractInv, NEW items \in Batches, NEW model \in ModelClients, NEW prompt \in Prompts,
           StartReading(items, model, prompt)
    PROVE  ExtractInv'
  <1>1. items \in Seq(Items) /\ Trip \in Nat
    BY ExtractAssumption
  <1>2. readingRun.number \in Nat
    BY DEF ExtractInv, RunOK, Readings
  <1>3. /\ readingRun.at = "idle"
        /\ readingRun' = [NoRun EXCEPT !.at = "reading", !.number = readingRun.number + 1,
                                       !.todo = items, !.prompt = prompt, !.client = model]
        /\ UNCHANGED <<prompts, cache, companies, unflagged>>
    BY DEF StartReading
  <1>4. RunOK(readingRun')
    <2>1. readingRun' = NewRun("reading", readingRun.number + 1, items, prompt, model)
      BY <1>3 DEF NoRun, NewRun
    <2>2. readingRun.number + 1 \in Nat
      BY <1>2
    <2> QED BY <1>1, <2>1, <2>2, NewRunOK
  <1>5. PromptsTypeOK' /\ CacheInv' /\ CompaniesTypeOK' /\ PressIsCounted'
    BY <1>3, PressStays DEF ExtractInv, PromptsTypeOK, CacheInv, CompaniesTypeOK
  <1>6. GroundedOrFlagged'
    BY <1>3, GroundedStays DEF ExtractInv
  <1> QED BY <1>4, <1>5, <1>6 DEF ExtractInv

LEMMA PromptEditKeeps ==
    ASSUME ExtractInv, NEW prompt \in Prompts, EditPrompt(prompt)
    PROVE  ExtractInv'
  <1>1. prompts'.active = prompt /\ UNCHANGED <<cache, companies, readingRun, unflagged>>
    BY DEF EditPrompt
  <1>2. PromptsTypeOK' /\ CacheInv' /\ CompaniesTypeOK' /\ PressIsCounted' /\ RunOK(readingRun)'
    BY <1>1, PressStays DEF ExtractInv, PromptsTypeOK, CacheInv, CompaniesTypeOK
  <1>3. GroundedOrFlagged'
    BY <1>1 DEF ExtractInv, GroundedOrFlagged, Flagging
  <1> QED BY <1>2, <1>3 DEF ExtractInv

LEMMA ExtractStart ==
    ASSUME ExtractInit
    PROVE  ExtractInv
  <1>1. PromptsTypeOK
    BY DEF ExtractInit, PromptsTypeOK, Prompts
  <1>2. RunOK(readingRun)
    <2>1. NoRun.number = 0 /\ NoRun = [NoRun EXCEPT !.number = NoRun.number]
      BY DEF NoRun
    <2> QED BY <2>1, NoRunOK DEF ExtractInit
  <1>3. CacheInv
    <2>1. cache = [k \in CacheKeys |-> NoReply]
      BY DEF ExtractInit, CacheKeys, Prompts
    <2>2. \A p \in Prompts, t \in TextIds : <<Version(p), t>> \in CacheKeys
      BY DEF CacheKeys
    <2> QED BY <2>1, <2>2 DEF CacheInv, NoReply
  <1>4. CompaniesTypeOK
    BY DEF ExtractInit, CompaniesTypeOK
  <1>5. GroundedOrFlagged
    BY DEF ExtractInit, GroundedOrFlagged, NoCompany
  <1>6. PressIsCounted
    <2>1. {s \in {} : s.kind \in PressKinds} = {}
      OBVIOUS
    <2>2. Press({}) = 0
      BY <2>1, FS_EmptySet DEF Press
    <2> QED BY <2>2 DEF ExtractInit, PressIsCounted, NoCompany
  <1> QED BY <1>1, <1>2, <1>3, <1>4, <1>5, <1>6 DEF ExtractInv

\* Every step keeps the invariant.
LEMMA ExtractKeeps ==
    ASSUME ExtractInv, [ExtractNext]_extractVars
    PROVE  ExtractInv'
  <1>1. CASE UNCHANGED extractVars
    BY <1>1 DEF extractVars, ExtractInv, PromptsTypeOK, CacheInv, CompaniesTypeOK, GroundedOrFlagged,
                Flagging, PressIsCounted
  <1>2. CASE \E body \in Bodies : SaveOverride(body)
    BY <1>2, PromptEditKeeps DEF SaveOverride, Prompts
  <1>3. CASE ResetPrompt
    BY <1>3, PromptEditKeeps DEF ResetPrompt, Prompts
  <1>4. CASE \E items \in Batches, model \in ModelClients, prompt \in Bodies \cup {ShippedPrompt} :
                StartReading(items, model, prompt)
    BY <1>4, ReadingStartKeeps DEF Prompts
  <1>5. CASE ReadsOn
    <2>1. RunOK(readingRun)' /\ CacheInv'
      BY <1>5, ReadsOnKeeps DEF ExtractInv
    <2>2. readingRun.at # "flagging" /\ UNCHANGED <<prompts, companies, unflagged>>
      BY <1>5, ReadsOnly DEF ExtractInv
    <2>3. GroundedOrFlagged' /\ PressIsCounted'
      BY <2>2, GroundedStays, PressStays DEF ExtractInv
    <2>4. PromptsTypeOK' /\ CompaniesTypeOK'
      BY <2>2 DEF ExtractInv, PromptsTypeOK, CompaniesTypeOK
    <2> QED BY <2>1, <2>3, <2>4 DEF ExtractInv
  <1>6. CASE Resolve
    BY <1>6, ResolveKeeps
  <1>7. CASE Flag
    BY <1>7, FlagKeeps
  <1>8. CASE Finish \/ ReaderDies
    BY <1>8, ReadingEndKeeps
  <1> QED BY <1>1, <1>2, <1>3, <1>4, <1>5, <1>6, <1>7, <1>8
          DEF ExtractNext, ReaderStep, ReadingStep, ReadsOn

\* The invariant says what the run checks.
LEMMA ExtractHolds ==
    ASSUME ExtractInv
    PROVE  ReadingIsHonest
  BY HermesRestsNow, OfThisPromptNow DEF ExtractInv, ReadingIsHonest

\* What a row says stands in a sentence with the company's name or a human is asked to look, a
\* run uses no reply given to another prompt, Hermes rests after Trip failures in a row, and
\* mentions of the press are counted once: for any articles, replies, prompts and companies, and
\* any number of runs, edits and crashes (ReadingIsHonest).
THEOREM ReadingStaysHonest == ExtractSpec => []ReadingIsHonest
  <1>1. ExtractInit => ExtractInv
    BY ExtractStart
  <1>2. ExtractInv /\ [ExtractNext]_extractVars => ExtractInv'
    BY ExtractKeeps
  <1>3. ExtractInv => ReadingIsHonest
    BY ExtractHolds
  <1> QED BY <1>1, <1>2, <1>3, PTL DEF ExtractSpec
------------------------------------------------------------------------------
(* Scoring: the rows                                                          *)

\* Rows and snapshots are of days that have come.
ScoresOK(s) ==
    /\ s = [rows |-> s.rows, snapshots |-> s.snapshots, day |-> s.day]
    /\ s.day \in {1, 2}
    /\ \A q \in s.snapshots : q.day \in 1 .. s.day

ScoringInv ==
    /\ DOMAIN company = Facts
    /\ ScoresOK(scores)
    /\ RowsAreCurrent

\* An evaluation has one row of a fund, of today.
OneRowEach(new, funds) ==
    /\ \A r, q \in new : r.fund = q.fund => r = q
    /\ \A r \in new : r.fund \in funds /\ r.day = scores.day

LEMMA RowOfFund ==
    ASSUME NEW c, NEW f
    PROVE  /\ FundRow(c, f).fund = f /\ FundRow(c, f).day = scores.day
           /\ ScoreRow(f, Unknown, NoFit, 0, "reject", FreshnessReason(c)).fund = f
           /\ ScoreRow(f, Unknown, NoFit, 0, "reject", FreshnessReason(c)).day = scores.day
  BY DEF FundRow, ScoreRow

LEMMA EvaluatedOnce ==
    ASSUME NEW facts, NEW funds
    PROVE  OneRowEach(Evaluate(facts, funds), funds)
  <1> DEFINE c == Derived(facts)
             out(f) == ScoreRow(f, Unknown, NoFit, 0, "reject", FreshnessReason(c))
  <1>1. CASE FreshnessReason(c) # "none"
    <2>1. Evaluate(facts, funds) = {out(f) : f \in funds}
      BY <1>1 DEF Evaluate, RowsOf
    <2>2. \A f \in funds : out(f).fund = f /\ out(f).day = scores.day
      BY RowOfFund
    <2> HIDE DEF out, c
    <2> QED BY <2>1, <2>2 DEF OneRowEach
  <1>2. CASE FreshnessReason(c) = "none" /\ Unqualified(c)
    BY <1>2 DEF Evaluate, RowsOf, OneRowEach
  <1>3. CASE FreshnessReason(c) = "none" /\ ~Unqualified(c)
    <2>1. Evaluate(facts, funds) = {FundRow(c, f) : f \in funds}
      BY <1>3 DEF Evaluate, RowsOf
    <2>2. \A f \in funds : FundRow(c, f).fund = f /\ FundRow(c, f).day = scores.day
      BY RowOfFund
    <2> HIDE DEF c
    <2> QED BY <2>1, <2>2 DEF OneRowEach
  <1> QED BY <1>1, <1>2, <1>3

LEMMA ScoringStart == ScoringInit => ScoringInv
  BY ScoringAssumption DEF ScoringInit, ScoringInv, ScoresOK, RowsAreCurrent

LEMMA RowsReplaced ==
    ASSUME ScoringInv, NEW funds, NEW new, OneRowEach(new, funds),
           scores' = [scores EXCEPT !.rows = Replaced(@, new), !.snapshots = Recorded(new)]
    PROVE  ScoresOK(scores') /\ RowsAreCurrent'
  <1>1. scores' = [rows |-> Replaced(scores.rows, new), snapshots |-> Recorded(new), day |-> scores.day]
    BY DEF ScoringInv, ScoresOK
  <1>2. /\ scores'.rows = Replaced(scores.rows, new)
        /\ scores'.snapshots = Recorded(new)
        /\ scores'.day = scores.day
    BY <1>1
  <1>3. ScoresOK(scores')
    <2>1. \A q \in Recorded(new) : q.day \in 1 .. scores.day
      BY DEF ScoringInv, ScoresOK, Recorded, OneRowEach
    <2> QED BY <1>1, <1>2, <2>1 DEF ScoringInv, ScoresOK
  <1>4. \A r \in scores'.rows : r \in new \/ (r \in scores.rows /\ r.fund \notin FundsAsked(new))
    BY <1>2 DEF Replaced, Upserted
  <1>5. \A r \in scores.rows : r.fund \notin FundsAsked(new) => r \in scores'.rows
    BY <1>2 DEF Replaced, Upserted, FundsAsked
  <1>6. new \subseteq scores'.rows
    BY <1>2 DEF Replaced, Upserted
  <1>7. \A r \in new : r.fund \in FundsAsked(new)
    BY DEF FundsAsked
  <1>8. \A r, q \in scores'.rows : r.fund = q.fund => r = q
    BY <1>4, <1>7 DEF OneRowEach, ScoringInv, RowsAreCurrent
  <1>9. \A s \in scores'.snapshots : s.day = scores'.day => s \in scores'.rows
    BY <1>2, <1>5, <1>6 DEF Recorded, ScoringInv, RowsAreCurrent
  <1>10. \A r \in scores'.rows : r.tier = "shortlist" => r \in scores'.snapshots
    BY <1>2, <1>4 DEF Recorded, ScoringInv, RowsAreCurrent
  <1> QED BY <1>3, <1>8, <1>9, <1>10 DEF RowsAreCurrent

LEMMA ScoreOneKeeps ==
    ASSUME ScoringInv, NEW funds, ScoreOne(funds)
    PROVE  ScoringInv'
  <1>1. DOMAIN company' = Facts
    BY DEF ScoreOne, ScoringInv
  <1>2. CASE Unqualified(company)
    <2>1. scores' = [rows |-> {}, snapshots |-> {s \in scores.snapshots : s.day # scores.day},
                     day |-> scores.day]
      BY <1>2 DEF ScoreOne, ScoringInv, ScoresOK
    <2>2. ScoresOK(scores') /\ RowsAreCurrent'
      BY <2>1 DEF ScoringInv, ScoresOK, RowsAreCurrent
    <2> QED BY <1>1, <2>2 DEF ScoringInv
  <1>3. CASE ~Unqualified(company)
    <2>1. scores' = [scores EXCEPT !.rows = Replaced(@, Evaluate(company, funds)),
                                   !.snapshots = Recorded(Evaluate(company, funds))]
      BY <1>3 DEF ScoreOne
    <2>2. ScoresOK(scores') /\ RowsAreCurrent'
      BY <2>1, EvaluatedOnce, RowsReplaced
    <2> QED BY <1>1, <2>2 DEF ScoringInv
  <1> QED BY <1>2, <1>3

LEMMA RescoreAllKeeps ==
    ASSUME ScoringInv, RescoreAll
    PROVE  ScoringInv'
  <1> DEFINE new == Evaluate(company, ScoredFunds)
  <1>1. OneRowEach(new, ScoredFunds)
    BY EvaluatedOnce
  <1>2. scores' = [rows |-> new, snapshots |-> {s \in scores.snapshots : s.day # scores.day}
                                                    \cup {r \in new : r.tier = "shortlist"},
                   day |-> scores.day]
    BY DEF RescoreAll, ScoringInv, ScoresOK
  <1>3. DOMAIN company' = Facts
    BY DEF RescoreAll, ScoringInv
  <1> HIDE DEF new
  <1>4. ScoresOK(scores')
    <2>1. \A q \in scores'.snapshots : q.day \in 1 .. scores.day
      BY <1>1, <1>2 DEF ScoringInv, ScoresOK, OneRowEach
    <2> QED BY <1>2, <2>1 DEF ScoringInv, ScoresOK
  <1>5. RowsAreCurrent'
    BY <1>1, <1>2 DEF RowsAreCurrent, OneRowEach
  <1> QED BY <1>3, <1>4, <1>5 DEF ScoringInv

LEMMA ScoringKeeps == ScoringInv /\ [ScoringNext]_scoringVars => ScoringInv'
  <1> SUFFICES ASSUME ScoringInv, [ScoringNext]_scoringVars
               PROVE  ScoringInv'
    OBVIOUS
  <1>1. ASSUME NEW field \in DOMAIN News, Learn(field)
        PROVE  ScoringInv'
    BY <1>1 DEF Learn, ScoringInv, ScoresOK, RowsAreCurrent
  <1>2. CASE NextScoringDay
    <2>1. scores' = [rows |-> scores.rows, snapshots |-> scores.snapshots, day |-> 2]
      BY <1>2 DEF NextScoringDay, ScoringInv, ScoresOK
    <2>2. \A s \in scores.snapshots : s.day = 1
      BY <1>2 DEF NextScoringDay, ScoringInv, ScoresOK
    <2> QED BY <1>2, <2>1, <2>2 DEF NextScoringDay, ScoringInv, ScoresOK, RowsAreCurrent
  <1>3. CASE UNCHANGED scoringVars
    BY <1>3 DEF scoringVars, ScoringInv, ScoresOK, RowsAreCurrent
  <1> QED BY <1>1, <1>2, <1>3, ScoreOneKeeps, RescoreAllKeeps DEF ScoringNext

------------------------------------------------------------------------------
(* Scoring: what is learned for a hard rule                                   *)

\* The company d is c with hard facts learned that were unknown of c; the
\* founders' signal may follow from one of them.
MoreIsKnown(c, d) ==
    /\ d.incorporated = c.incorporated /\ d.funding = c.funding /\ d.stage = c.stage
    /\ d.share = c.share /\ d.portfolio = c.portfolio /\ d.country = c.country
    /\ d.region = c.region /\ d.city = c.city /\ d.outcode = c.outcode
    /\ d.registered = c.registered /\ d.sector = c.sector /\ d.sic = c.sic
    /\ d.founders = c.founders /\ d.traction = c.traction /\ d.signals = c.signals
    /\ d.press = c.press /\ d.website = c.website /\ d.route = c.route
    /\ d.valuation = c.valuation /\ d.ukExec = c.ukExec
    /\ Known(c.round) => d.round = c.round
    /\ Known(c.priorTotal) => d.priorTotal = c.priorTotal
    /\ Known(c.university) => d.university = c.university
    /\ Known(c.seis) => d.seis = c.seis
    /\ Known(c.spinout) => d.spinout = c.spinout

LEMMA LearnedIsMore ==
    ASSUME NEW c, DOMAIN c = Facts, NEW field \in HardFacts, ~Known(c[field]), NEW fact
    PROVE  /\ DOMAIN [c EXCEPT ![field] = fact] = Facts
           /\ MoreIsKnown(c, [c EXCEPT ![field] = fact])
  <1> DEFINE d == [c EXCEPT ![field] = fact]
  <1>1. DOMAIN d = Facts
    OBVIOUS
  <1>2. \A x \in Facts : x # field => d[x] = c[x]
    OBVIOUS
  <1>3. field \in {"round", "priorTotal", "university", "seis", "spinout"}
    BY DEF HardFacts
  <1>4. \A x \in Facts : Known(c[x]) => d[x] = c[x]
    BY <1>2
  <1> HIDE DEF d
  <1>5. MoreIsKnown(c, d)
    BY <1>2, <1>3, <1>4 DEF Facts, MoreIsKnown
  <1> QED BY <1>1, <1>5 DEF d

LEMMA DerivedFacts ==
    ASSUME NEW c, DOMAIN c = Facts
    PROVE  /\ \A x \in Facts \ {"region", "sector", "stage", "founderSignal", "traction"} :
                  Derived(c)[x] = c[x]
           /\ Derived(c).region = Geography(c)
           /\ Derived(c).sector = IsStated(c.sector, AtStage(Tables.sics, c.sic))
           /\ Derived(c).stage = IsStated(c.stage, DeriveStage(c))
           /\ Derived(c).traction = IsStated(c.traction, DeriveTraction(c, Derived(c).stage))
  BY DEF Derived, Facts

LEMMA MoreIsDerived ==
    ASSUME NEW c, NEW d, DOMAIN c = Facts, DOMAIN d = Facts, MoreIsKnown(c, d)
    PROVE  MoreIsKnown(Derived(c), Derived(d))
  <1> DEFINE e == Derived(c)
             g == Derived(d)
  <1>1. /\ \A x \in Facts \ {"region", "sector", "stage", "founderSignal", "traction"} :
              e[x] = c[x] /\ g[x] = d[x]
        /\ e.region = Geography(c) /\ g.region = Geography(d)
        /\ e.sector = IsStated(c.sector, AtStage(Tables.sics, c.sic))
        /\ g.sector = IsStated(d.sector, AtStage(Tables.sics, d.sic))
        /\ e.stage = IsStated(c.stage, DeriveStage(c)) /\ g.stage = IsStated(d.stage, DeriveStage(d))
        /\ e.traction = IsStated(c.traction, DeriveTraction(c, e.stage))
        /\ g.traction = IsStated(d.traction, DeriveTraction(d, g.stage))
    BY DerivedFacts
  <1>2. Geography(d) = Geography(c)
    BY DEF MoreIsKnown, Geography, ByOutcode, ByCity
  <1>3. DeriveStage(d) = DeriveStage(c)
    BY DEF MoreIsKnown, DeriveStage, YoungEnough, Age
  <1>4. DeriveTraction(d, e.stage) = DeriveTraction(c, e.stage)
    BY DEF MoreIsKnown, DeriveTraction
  <1> HIDE DEF e, g
  <1>5. g.region = e.region /\ g.sector = e.sector /\ g.stage = e.stage
    BY <1>1, <1>2, <1>3 DEF MoreIsKnown
  <1>6. g.traction = e.traction
    <2>1. g.traction = IsStated(d.traction, DeriveTraction(d, e.stage))
      BY <1>1, <1>5
    <2> QED BY <1>1, <1>4, <2>1 DEF MoreIsKnown
  <1>7. /\ e.incorporated = c.incorporated /\ e.funding = c.funding /\ e.share = c.share
        /\ e.portfolio = c.portfolio /\ e.country = c.country /\ e.city = c.city
        /\ e.outcode = c.outcode /\ e.registered = c.registered /\ e.sic = c.sic
        /\ e.founders = c.founders /\ e.signals = c.signals /\ e.press = c.press
        /\ e.website = c.website /\ e.route = c.route /\ e.valuation = c.valuation
        /\ e.ukExec = c.ukExec /\ e.round = c.round /\ e.priorTotal = c.priorTotal
        /\ e.university = c.university /\ e.seis = c.seis /\ e.spinout = c.spinout
    BY <1>1 DEF Facts
  <1>8. /\ g.incorporated = d.incorporated /\ g.funding = d.funding /\ g.share = d.share
        /\ g.portfolio = d.portfolio /\ g.country = d.country /\ g.city = d.city
        /\ g.outcode = d.outcode /\ g.registered = d.registered /\ g.sic = d.sic
        /\ g.founders = d.founders /\ g.signals = d.signals /\ g.press = d.press
        /\ g.website = d.website /\ g.route = d.route /\ g.valuation = d.valuation
        /\ g.ukExec = d.ukExec /\ g.round = d.round /\ g.priorTotal = d.priorTotal
        /\ g.university = d.university /\ g.seis = d.seis /\ g.spinout = d.spinout
    BY <1>1 DEF Facts
  <1>9. MoreIsKnown(e, g)
    BY <1>5, <1>6, <1>7, <1>8 DEF MoreIsKnown
  <1> QED BY <1>9 DEF e, g

\* No gate of the thresholds reads a hard fact.
LEMMA SameGates ==
    ASSUME NEW c, NEW d, MoreIsKnown(c, d)
    PROVE  FreshnessReason(d) = FreshnessReason(c)
  BY DEF MoreIsKnown, FreshnessReason, HasUkPresence, Exceeds, Age

LEMMA SameRange ==
    ASSUME NEW c, NEW d, MoreIsKnown(c, d), NEW v
    PROVE  StageRangeGate(d, v) = StageRangeGate(c, v) /\ AgeCapGate(d, v) = AgeCapGate(c, v)
  BY DEF MoreIsKnown, StageRangeGate, AgeCapGate, Age

LEMMA SamePlace ==
    ASSUME NEW c, NEW d, MoreIsKnown(c, d), NEW v
    PROVE  GeographyGate(d, v) = GeographyGate(c, v)
  <1>1. ASSUME NEW rule PROVE GeoRuleVerdict(d, rule) = GeoRuleVerdict(c, rule)
    <2>1. InTriangle(d) = InTriangle(c) /\ ByCity(d) = ByCity(c) /\ HasUkPresence(d) = HasUkPresence(c)
      BY DEF MoreIsKnown, InTriangle, ByCity, HasUkPresence
    <2> QED BY <2>1 DEF MoreIsKnown, GeoRuleVerdict
  <1>2. {GeoRuleVerdict(d, rule) : rule \in v.geoValues} = {GeoRuleVerdict(c, rule) : rule \in v.geoValues}
    BY <1>1
  <1> QED BY <1>2 DEF GeographyGate

\* A hard rule that was met or broken stays so.
LEMMA HardRuleStays ==
    ASSUME NEW c, NEW d, MoreIsKnown(c, d), NEW rule, HardReject(c, rule) # "unverified"
    PROVE  HardReject(d, rule) = HardReject(c, rule)
  <1>1. SpinoutRule(c, rule.value) # "unverified" => SpinoutRule(d, rule.value) = SpinoutRule(c, rule.value)
    BY DEF MoreIsKnown, SpinoutRule
  <1>2. SeisEisRule(c) # "unverified" => SeisEisRule(d) = SeisEisRule(c)
    BY DEF MoreIsKnown, SeisEisRule
  <1> QED BY <1>1, <1>2 DEF MoreIsKnown, HardReject, Rule

LEMMA VerdictStays ==
    ASSUME NEW c, NEW d, MoreIsKnown(c, d), NEW v, VehicleVerdict(c, v) # "unverified"
    PROVE  VehicleVerdict(d, v) = VehicleVerdict(c, v)
  <1> DEFINE same == {StageRangeGate(c, v), AgeCapGate(c, v), GeographyGate(c, v)}
             was == {HardReject(c, rule) : rule \in v.hardRejects}
             now == {HardReject(d, rule) : rule \in v.hardRejects}
  <1>1. {StageRangeGate(d, v), AgeCapGate(d, v), GeographyGate(d, v)} = same
    BY SameRange, SamePlace
  <1>2. /\ VehicleVerdict(c, v) = IF "broken" \in same \cup was THEN "fails"
                                  ELSE IF "unverified" \in same \cup was THEN "unverified" ELSE "passes"
        /\ VehicleVerdict(d, v) = IF "broken" \in same \cup now THEN "fails"
                                  ELSE IF "unverified" \in same \cup now THEN "unverified" ELSE "passes"
    BY <1>1 DEF VehicleVerdict
  <1>3. \A rule \in v.hardRejects :
            HardReject(c, rule) # "unverified" => HardReject(d, rule) = HardReject(c, rule)
    BY HardRuleStays
  <1>4. "broken" \in was => "broken" \in now
    BY <1>3
  <1>5. "unverified" \notin was => now = was
    <2> SUFFICES ASSUME "unverified" \notin was PROVE now = was
      OBVIOUS
    <2>1. \A rule \in v.hardRejects : HardReject(d, rule) = HardReject(c, rule)
      BY <1>3
    <2> QED BY <2>1
  <1> HIDE DEF same, was, now
  <1> QED BY <1>2, <1>4, <1>5

LEMMA StillQualified ==
    ASSUME NEW c, NEW d, MoreIsKnown(c, d), ~Unqualified(c)
    PROVE  ~Unqualified(d)
  <1> DEFINE all == {"share_issue", "grant", "spinout", "press", "repeat_founder", "website"}
             had == DeriveQualifiers(c) \cap AdmittingQualifiers
             has == DeriveQualifiers(d) \cap AdmittingQualifiers
  <1>1. had \subseteq has
    <2>1. c.spinout = TRUE => d.spinout = TRUE
      BY ScoringAssumption DEF MoreIsKnown, Known
    <2> QED BY <2>1 DEF MoreIsKnown, DeriveQualifiers, Exceeds
  <1>2. IsFiniteSet(all)
    <2>1. all = {"share_issue"} \cup ({"grant"} \cup ({"spinout"} \cup ({"press"} \cup
                    ({"repeat_founder"} \cup {"website"}))))
      OBVIOUS
    <2>2. IsFiniteSet({"website"})
      BY FS_Singleton
    <2>3. IsFiniteSet({"repeat_founder"} \cup {"website"})
      BY <2>2, FS_Singleton, FS_Union
    <2>4. IsFiniteSet({"press"} \cup ({"repeat_founder"} \cup {"website"}))
      BY <2>3, FS_Singleton, FS_Union
    <2>5. IsFiniteSet({"spinout"} \cup ({"press"} \cup ({"repeat_founder"} \cup {"website"})))
      BY <2>4, FS_Singleton, FS_Union
    <2>6. IsFiniteSet({"grant"} \cup ({"spinout"} \cup ({"press"} \cup
                          ({"repeat_founder"} \cup {"website"}))))
      BY <2>5, FS_Singleton, FS_Union
    <2>7. IsFiniteSet({"share_issue"} \cup ({"grant"} \cup ({"spinout"} \cup ({"press"} \cup
                          ({"repeat_founder"} \cup {"website"})))))
      BY <2>6, FS_Singleton, FS_Union
    <2> QED BY <2>1, <2>7
  <1>3. has \subseteq all
    BY DEF DeriveQualifiers, QualifierKinds, AdmittingByDefault
  <1>4. IsFiniteSet(has)
    BY <1>2, <1>3, FS_Subset
  <1> HIDE DEF all, had, has
  <1>5. Cardinality(had) <= Cardinality(has) /\ Cardinality(had) \in Nat /\ Cardinality(has) \in Nat
    BY <1>1, <1>4, FS_Subset, FS_CardinalityType
  <1>6. Cardinality(had) >= Thresholds.minQualifiers => Cardinality(has) >= Thresholds.minQualifiers
    BY <1>5, ScoringAssumption
  <1>7. IsQualified(c) => IsQualified(d)
    BY <1>6 DEF IsQualified, MoreIsKnown, had, has
  <1> QED BY <1>7 DEF Unqualified, MoreIsKnown

\* A fund whose row is on the shortlist has the same eligible vehicles.
LEMMA SameVehicles ==
    ASSUME NEW c, NEW d, MoreIsKnown(c, d), NEW f, FundRow(c, f).tier = "shortlist"
    PROVE  Eligible(d, f) = Eligible(c, f) /\ Eligible(c, f) # {}
  <1>1. Eligible(c, f) # {}
    BY DEF FundRow, ScoreRow
  <1>2. FlagsOf(c, f) = {}
    BY <1>1 DEF FundRow, ScoreRow, TierOf
  <1>3. \A i \in Eligible(c, f) : VehicleVerdict(c, VehiclesOf[f][i]) # "unverified"
    BY <1>2 DEF FlagsOf
  <1>4. \A i \in DOMAIN VehiclesOf[f] : VehiclesOf[f][i].active =>
            VehicleVerdict(c, VehiclesOf[f][i]) # "unverified"
    BY <1>3 DEF Eligible
  <1>5. \A i \in DOMAIN VehiclesOf[f] : VehiclesOf[f][i].active =>
            VehicleVerdict(d, VehiclesOf[f][i]) = VehicleVerdict(c, VehiclesOf[f][i])
    BY <1>4, VerdictStays
  <1>6. Eligible(d, f) = Eligible(c, f)
    BY <1>5 DEF Eligible
  <1> QED BY <1>1, <1>6

LEMMA SameMatch ==
    ASSUME NEW c, NEW d, MoreIsKnown(c, d), NEW f, FundRow(c, f).tier = "shortlist"
    PROVE  FundRow(d, f).vehicle = FundRow(c, f).vehicle
  <1>1. Eligible(d, f) = Eligible(c, f) /\ Eligible(c, f) # {}
    BY SameVehicles
  <1> QED BY <1>1 DEF FundRow, ScoreRow

LEMMA ScoringHolds == ScoringInv => ShortlistIsDefended /\ RowsAreCurrent
  <1> SUFFICES ASSUME ScoringInv,
                      NEW r \in Evaluate(company, ScoredFunds), r.tier = "shortlist",
                      NEW field \in HardFacts, ~Known(company[field]),
                      NEW fact \in News[field]
               PROVE  \E n \in Evaluate([company EXCEPT ![field] = fact], {r.fund}) :
                          n.vehicle = r.vehicle
    BY DEF ShortlistIsDefended, ScoringInv
  <1> DEFINE learnt == [company EXCEPT ![field] = fact]
             c == Derived(company)
             d == Derived(learnt)
  <1>1. DOMAIN company = Facts /\ DOMAIN learnt = Facts /\ MoreIsKnown(company, learnt)
    BY LearnedIsMore DEF ScoringInv
  <1>2. MoreIsKnown(c, d)
    BY <1>1, MoreIsDerived
  <1>3. r \in RowsOf(c, ScoredFunds)
    BY DEF Evaluate
  <1>4. Evaluate(learnt, {r.fund}) = RowsOf(d, {r.fund})
    BY DEF Evaluate
  <1> HIDE DEF c, d, learnt
  <1>5. FreshnessReason(c) = "none" /\ ~Unqualified(c) /\ \E f \in ScoredFunds : r = FundRow(c, f)
    BY <1>3 DEF RowsOf, ScoreRow
  <1>6. FreshnessReason(d) = "none" /\ ~Unqualified(d)
    BY <1>2, <1>5, SameGates, StillQualified
  <1>7. r = FundRow(c, r.fund)
    BY <1>5, RowOfFund
  <1>8. FundRow(d, r.fund).vehicle = r.vehicle
    BY <1>2, <1>7, SameMatch
  <1>9. FundRow(d, r.fund) \in RowsOf(d, {r.fund})
    BY <1>6 DEF RowsOf
  <1> QED BY <1>4, <1>8, <1>9 DEF learnt

\* Of Scoring by itself, for any company, facts, funds, rules and thresholds: nothing that is
\* still to be learned for a hard rule takes a shortlisted company's route away, and whatever
\* was learned between the passes a fund has one row and a day's snapshots are of it.
THEOREM ShortlistStands == ScoringSpec => [](ShortlistIsDefended /\ RowsAreCurrent)
  <1> QED BY ScoringStart, ScoringKeeps, ScoringHolds, PTL DEF ScoringSpec

------------------------------------------------------------------------------
(* Tuning: floors                                                             *)

TuningInv == rows \in [Rated \X TunedFunds -> [fit : FitsOf, eligible : BOOLEAN]]

LEMMA TuningStart == TuningInit => TuningInv
  BY DEF TuningInit, TuningInv

LEMMA TuningKeeps == TuningInv /\ [TuningNext]_tuningVars => TuningInv'
  <1> SUFFICES ASSUME TuningInv, [TuningNext]_tuningVars PROVE TuningInv'
    OBVIOUS
  <1>1. ASSUME NEW c \in Rated, NEW label, Judge(c, label) PROVE TuningInv'
    BY <1>1 DEF TuningInv, Judge
  <1>2. ASSUME NEW p \in Rated \X TunedFunds, NEW fit \in FitsOf, NEW eligible \in BOOLEAN,
               RescorePair(p, fit, eligible)
        PROVE  TuningInv'
    <2>1. [fit |-> fit, eligible |-> eligible] \in [fit : FitsOf, eligible : BOOLEAN]
      OBVIOUS
    <2> QED BY <1>2, <2>1 DEF TuningInv, RescorePair
  <1>3. CASE UNCHANGED tuningVars
    BY <1>3 DEF tuningVars, TuningInv
  <1> QED BY <1>1, <1>2, <1>3 DEF TuningNext

LEMMA MinIs ==
    ASSUME NEW S \in SUBSET Nat, S # {}
    PROVE  Min(S) \in S /\ \A y \in S : Min(S) <= y
  BY HasLeast DEF Min

\* A threshold that can be set keeps a fit exactly if it is not above its floor.
LEMMA FloorKeeps ==
    ASSUME NEW fit \in Nat
    PROVE  /\ Floor(fit) \in 0 .. Highest
           /\ \A t \in 0 .. Highest : Floor(fit) >= t <=> fit >= 10 * t
  <1> DEFINE n == fit \div 10
             m == Min({Highest, n})
  <1>1. n \in Nat /\ Highest \in Nat
    BY TuningAssumption
  <1>2. \A t \in Nat : n >= t <=> fit >= 10 * t
    OBVIOUS
  <1> HIDE DEF n
  <1>3. m \in {Highest, n} /\ m <= Highest /\ m <= n
    BY <1>1, MinIs
  <1> HIDE DEF m
  <1>4. Max({0, m}) = m
    <2>1. \A x \in {0, m} : (\A y \in {0, m} : x >= y) <=> x = m
      BY <1>1, <1>3
    <2> QED BY <2>1 DEF Max
  <1>5. Floor(fit) = m
    BY <1>4 DEF Floor, ClampedThreshold, m, n
  <1> QED BY <1>1, <1>2, <1>3, <1>5

LEMMA FloorsFinite ==
    ASSUME TuningInv
    PROVE  /\ Floors \subseteq 0 .. Highest /\ Floors \subseteq Nat
           /\ IsFiniteSet(Floors) /\ Cardinality(Floors) \in Nat
  <1>1. \A p \in DOMAIN rows : rows[p].fit \in Nat
    BY TuningAssumption DEF TuningInv
  <1>2. Floors \subseteq 0 .. Highest
    BY <1>1, FloorKeeps DEF Floors
  <1>3. IsFiniteSet(0 .. Highest) /\ 0 .. Highest \subseteq Nat
    BY TuningAssumption, FS_Interval
  <1>4. IsFiniteSet(Floors)
    BY <1>2, <1>3, FS_Subset
  <1> QED BY <1>2, <1>3, <1>4, FS_CardinalityType

LEMMA MaxIs ==
    ASSUME NEW S \in SUBSET Nat, NEW n \in Nat, \A x \in S : x <= n, S # {}
    PROVE  Max(S) \in S /\ \A y \in S : y <= Max(S)
  <1> DEFINE gaps == {n - x : x \in S}
  <1>1. gaps \in SUBSET Nat /\ gaps # {}
    <2>1. \A x \in S : n - x \in Nat
      OBVIOUS
    <2> QED BY <2>1
  <1>2. PICK g \in gaps : \A h \in gaps : g <= h
    BY <1>1, HasLeast
  <1>3. PICK x \in S : g = n - x
    OBVIOUS
  <1>4. ASSUME NEW y \in S PROVE x >= y
    <2>1. n - y \in gaps /\ n - x <= n - y
      BY <1>2, <1>3, <1>4
    <2>2. x \in Nat /\ y \in Nat
      BY <1>4
    <2> QED BY <2>1, <2>2
  <1>5. Max(S) \in S /\ \A y \in S : Max(S) >= y
    BY <1>4 DEF Max
  <1> QED BY <1>5

\* A multiple is rounded to itself.
LEMMA RoundExact ==
    ASSUME NEW q \in Nat, NEW d \in Nat, d > 0
    PROVE  Round(q * d, d) = q
  <1>1. (q * d) \div d = q /\ (q * d) % d = 0
    OBVIOUS
  <1> QED BY <1>1 DEF Round

LEMMA BothEnds ==
    ASSUME TuningInv, Floors # {}
    PROVE  {Min(Floors), Max(Floors)} \subseteq ChangePoints
  <1> DEFINE n == Cardinality(Floors)
             d == TableLimit - 1
  <1>1. Floors \subseteq Nat /\ IsFiniteSet(Floors) /\ n \in Nat /\ n # 0
    BY FloorsFinite, FS_EmptySet
  <1>2. Min(Floors) \in Floors /\ \A y \in Floors : Min(Floors) <= y
    BY <1>1, MinIs
  <1>3. Max(Floors) \in Floors /\ \A y \in Floors : y <= Max(Floors)
    <2>1. Highest \in Nat /\ \A x \in Floors : x <= Highest
      BY FloorsFinite, TuningAssumption
    <2> QED BY <1>1, <2>1, MaxIs
  <1>4. CASE n <= TableLimit
    BY <1>2, <1>3, <1>4 DEF ChangePoints
  <1>5. CASE ~(n <= TableLimit)
    <2>1. d \in Nat /\ d > 0
      BY TuningAssumption
    <2>2. PlaceInTable(Min(Floors)) = 0
      <3>1. {g \in Floors : g < Min(Floors)} = {}
        <4>1. \A g \in Floors : ~(g < Min(Floors))
          <5> SUFFICES ASSUME NEW g \in Floors PROVE ~(g < Min(Floors))
            OBVIOUS
          <5>1. g \in Nat /\ Min(Floors) \in Nat /\ Min(Floors) <= g
            BY <1>1, <1>2
          <5> QED BY <5>1
        <4> QED BY <4>1
      <3> QED BY <3>1, FS_EmptySet DEF PlaceInTable
    <2>3. PlaceInTable(Max(Floors)) = n - 1
      <3>1. {g \in Floors : g < Max(Floors)} = Floors \ {Max(Floors)}
        <4>1. \A g \in Floors : g < Max(Floors) <=> g # Max(Floors)
          <5> SUFFICES ASSUME NEW g \in Floors PROVE g < Max(Floors) <=> g # Max(Floors)
            OBVIOUS
          <5>1. g \in Nat /\ Max(Floors) \in Nat /\ g <= Max(Floors)
            BY <1>1, <1>3
          <5> QED BY <5>1
        <4> QED BY <4>1
      <3> QED BY <1>1, <1>3, <3>1, FS_RemoveElement DEF PlaceInTable
    <2>4. Round(0 * (n - 1), d) = 0
      <3>1. 0 * (n - 1) = 0 * d
        BY <1>1, <2>1
      <3> QED BY <2>1, <3>1, RoundExact
    <2>5. Round(d * (n - 1), d) = n - 1
      <3>1. d * (n - 1) = (n - 1) * d /\ n - 1 \in Nat
        BY <1>1, <2>1
      <3> QED BY <2>1, <3>1, RoundExact
    <2>6. ChangePoints = {floor \in Floors : \E i \in 0 .. d : PlaceInTable(floor) = Round(i * (n - 1), d)}
      BY <1>5 DEF ChangePoints
    <2>7. 0 \in 0 .. d /\ d \in 0 .. d
      BY <2>1
    <2> HIDE DEF n, d
    <2> QED BY <1>2, <1>3, <2>2, <2>3, <2>4, <2>5, <2>6, <2>7
  <1> QED BY <1>4, <1>5

LEMMA NothingOmitted ==
    ASSUME TuningInv, Omitted = 0
    PROVE  ChangePoints = Floors
  <1>1. IsFiniteSet(Floors) /\ ChangePoints \subseteq Floors
    BY FloorsFinite DEF ChangePoints
  <1>2. Cardinality(ChangePoints) \in Nat /\ Cardinality(Floors) \in Nat
    BY <1>1, FS_Subset, FS_CardinalityType
  <1>3. Cardinality(Floors) = Cardinality(ChangePoints)
    BY <1>2 DEF Omitted
  <1> QED BY <1>1, <1>3, FS_Subset

LEMMA ShortlistByFloor ==
    ASSUME TuningInv, NEW t \in 0 .. Highest
    PROVE  WouldShortlist(t) =
              {p[1] : p \in {q \in DOMAIN rows : rows[q].eligible /\ Floor(rows[q].fit) >= t}}
  <1>1. \A q \in DOMAIN rows : Floor(rows[q].fit) >= t <=> rows[q].fit >= 10 * t
    BY FloorKeeps, TuningAssumption DEF TuningInv
  <1> QED BY <1>1 DEF WouldShortlist

\* Between two change points the shortlist stays; above the last it is empty.
LEMMA SameUpToNext ==
    ASSUME TuningInv, NEW t \in 0 .. Highest, NEW next, next = {u \in Floors : u >= t}
    PROVE  /\ next = {} => WouldShortlist(t) = {}
           /\ next # {} => Min(next) \in Floors /\ WouldShortlist(t) = WouldShortlist(Min(next))
  <1>1. \A q \in DOMAIN rows : rows[q].eligible => Floor(rows[q].fit) \in Floors
    BY DEF Floors
  <1>2. Floors \subseteq 0 .. Highest /\ Floors \subseteq Nat
    BY FloorsFinite
  <1>3. CASE next = {}
    <2>1. \A q \in DOMAIN rows : ~(rows[q].eligible /\ Floor(rows[q].fit) >= t)
      BY <1>1, <1>3
    <2> QED BY <1>3, <2>1, ShortlistByFloor
  <1>4. CASE next # {}
    <2> DEFINE m == Min(next)
    <2>1. m \in next /\ \A y \in next : m <= y
      BY <1>2, <1>4, MinIs
    <2> HIDE DEF m
    <2>2. m \in Floors /\ m \in 0 .. Highest /\ m >= t
      BY <1>2, <2>1
    <2>3. \A x \in Floors : x >= t <=> x >= m
      BY <1>2, <2>1, <2>2
    <2>4. \A q \in DOMAIN rows : rows[q].eligible =>
              (Floor(rows[q].fit) >= t <=> Floor(rows[q].fit) >= m)
      BY <1>1, <2>3
    <2>5. WouldShortlist(t) = WouldShortlist(m)
      BY <2>2, <2>4, ShortlistByFloor
    <2> QED BY <1>4, <2>2, <2>5 DEF m
  <1> QED BY <1>3, <1>4

------------------------------------------------------------------------------
(* Tuning: the best threshold                                                 *)

Row == [tp : Nat, fp : Nat, fn : Nat]

LEMMA SweepType ==
    ASSUME NEW t
    PROVE  Sweep(t) \in Row
  <1>1. IsFiniteSet(Labels) /\ IsFiniteSet(Positives)
    BY TuningAssumption, FS_Subset DEF Labels, Positives
  <1>2. /\ IsFiniteSet((WouldShortlist(t) \cap Labels) \cap Positives)
        /\ IsFiniteSet((WouldShortlist(t) \cap Labels) \ Positives)
        /\ IsFiniteSet(Positives \ WouldShortlist(t))
    BY <1>1, FS_Subset
  <1> QED BY <1>2, FS_CardinalityType DEF Sweep, Row

LEMMA Scaled ==
    ASSUME NEW x \in Int, NEW y \in Int, NEW z \in Int, z > 0
    PROVE  x > y <=> x * z > y * z
  OBVIOUS

\* Fractions with denominators above 0 are transitively ordered.
LEMMA FractionsOrdered ==
    ASSUME NEW a \in Int, NEW b \in Int, NEW c \in Int, NEW d \in Int, NEW e \in Int, NEW f \in Int,
           b > 0, d > 0, f > 0, a * d > c * b, c * f > e * d
    PROVE  a * f > e * b
  <1>1. (a * d) * f > (c * b) * f
    BY Scaled
  <1>2. (c * f) * b > (e * d) * b
    BY Scaled
  <1>3. (a * f) * d > (e * b) * d
    BY <1>1, <1>2
  <1> QED BY <1>3, Scaled

LEMMA BetterIsTransitive ==
    ASSUME NEW r \in Row, NEW q \in Row, NEW s \in Row, HasF1(r), HasF1(q), HasF1(s),
           ~NotBelow(q, r), ~NotBelow(s, q)
    PROVE  ~NotBelow(s, r)
  <1> DEFINE all(x) == 2 * x.tp + x.fp + x.fn
  <1>1. \A x \in Row : x.tp \in Int /\ all(x) \in Int /\ (HasF1(x) => all(x) > 0)
    BY DEF Row, HasF1
  <1>2. NotBelow(q, r) <=> q.tp * all(r) >= r.tp * all(q)
    BY DEF NotBelow
  <1>3. NotBelow(s, q) <=> s.tp * all(q) >= q.tp * all(s)
    BY DEF NotBelow
  <1>4. NotBelow(s, r) <=> s.tp * all(r) >= r.tp * all(s)
    BY DEF NotBelow
  <1> HIDE DEF all
  <1>5. r.tp * all(q) > q.tp * all(r) /\ q.tp * all(s) > s.tp * all(q)
    BY <1>1, <1>2, <1>3
  <1>6. r.tp * all(s) > s.tp * all(r)
    BY <1>1, <1>5, FractionsOrdered
  <1> QED BY <1>1, <1>4, <1>6

LEMMA NotBelowItself ==
    ASSUME NEW r \in Row
    PROVE  NotBelow(r, r)
  BY DEF Row, NotBelow

Better(t) == {u \in Candidates : ~NotBelow(Sweep(t), Sweep(u))}

\* Of finitely many candidates one is not below any.
LEMMA BestExists ==
    ASSUME TuningInv, Candidates # {}
    PROVE  \E t \in Candidates : \A u \in Candidates : NotBelow(Sweep(t), Sweep(u))
  <1>1. IsFiniteSet(Candidates)
    <2>1. Candidates \subseteq Floors
      BY DEF Candidates, ChangePoints
    <2> QED BY <2>1, FloorsFinite, FS_Subset
  <1>2. \A t : IsFiniteSet(Better(t)) /\ Cardinality(Better(t)) \in Nat
    BY <1>1, FS_Subset, FS_CardinalityType DEF Better
  <1> DEFINE counts == {Cardinality(Better(t)) : t \in Candidates}
  <1>3. counts \in SUBSET Nat /\ counts # {}
    BY <1>2
  <1>4. PICK n \in counts : \A m \in counts : n <= m
    BY <1>3, HasLeast
  <1>5. PICK t \in Candidates : n = Cardinality(Better(t))
    OBVIOUS
  <1>6. ASSUME NEW u \in Candidates, ~NotBelow(Sweep(t), Sweep(u))
        PROVE  FALSE
    <2>1. Better(u) \subseteq Better(t)
      <3> SUFFICES ASSUME NEW v \in Better(u) PROVE v \in Better(t)
        OBVIOUS
      <3>1. v \in Candidates /\ ~NotBelow(Sweep(u), Sweep(v))
        BY DEF Better
      <3>2. HasF1(Sweep(v)) /\ HasF1(Sweep(u)) /\ HasF1(Sweep(t))
        BY <3>1 DEF Candidates
      <3>3. Sweep(v) \in Row /\ Sweep(u) \in Row /\ Sweep(t) \in Row
        BY SweepType
      <3>4. ~NotBelow(Sweep(t), Sweep(v))
        BY <1>6, <3>1, <3>2, <3>3, BetterIsTransitive
      <3> QED BY <3>1, <3>4 DEF Better
    <2>2. u \in Better(t) /\ u \notin Better(u)
      BY <1>6, SweepType, NotBelowItself DEF Better
    <2>3. Better(u) # Better(t)
      BY <2>2
    <2>4. Cardinality(Better(u)) <= Cardinality(Better(t)) /\ Cardinality(Better(u)) # Cardinality(Better(t))
      BY <1>2, <2>1, <2>3, FS_Subset
    <2>5. Cardinality(Better(u)) \in counts
      OBVIOUS
    <2>6. Cardinality(Better(t)) <= Cardinality(Better(u))
      BY <1>4, <1>5, <2>5
    <2> HIDE DEF counts
    <2> QED BY <1>2, <2>4, <2>6
  <1> QED BY <1>6

LEMMA RecommendedIsBest ==
    ASSUME TuningInv, Candidates # {}
    PROVE  Recommended \in Candidates /\ \A u \in Candidates : NotBelow(Sweep(Recommended), Sweep(u))
  <1> DEFINE best == {t \in Candidates : \A u \in Candidates : NotBelow(Sweep(t), Sweep(u))}
  <1>1. Candidates \subseteq Nat
    BY FloorsFinite DEF Candidates, ChangePoints
  <1>2. best \in SUBSET Nat /\ best # {}
    BY <1>1, BestExists
  <1>3. Recommended = Min(best)
    BY DEF Recommended
  <1>4. Recommended \in best
    BY <1>2, <1>3, MinIs
  <1> QED BY <1>4

LEMMA TuningHolds == TuningInv => TableIsComplete
  <1> SUFFICES ASSUME TuningInv PROVE TableIsComplete
    OBVIOUS
  <1>1. ASSUME Omitted = 0, NEW t \in 0 .. Highest, NEW next, next = {u \in ChangePoints : u >= t}
        PROVE  /\ WouldShortlist(t) = IF next = {} THEN {} ELSE WouldShortlist(Min(next))
               /\ HasF1(Sweep(t)) => Candidates # {} /\ NotBelow(Sweep(Recommended), Sweep(t))
    <2>1. ChangePoints = Floors
      BY <1>1, NothingOmitted
    <2>2. next = {u \in Floors : u >= t}
      BY <1>1, <2>1
    <2>3. /\ next = {} => WouldShortlist(t) = {}
          /\ next # {} => Min(next) \in Floors /\ WouldShortlist(t) = WouldShortlist(Min(next))
      BY <2>2, SameUpToNext
    <2>4. ASSUME HasF1(Sweep(t))
          PROVE  Candidates # {} /\ NotBelow(Sweep(Recommended), Sweep(t))
      <3>1. next # {}
        <4> SUFFICES ASSUME WouldShortlist(t) = {} PROVE FALSE
          BY <2>3
        <4>1. Sweep(t).tp = Cardinality({})
          BY DEF Sweep
        <4> QED BY <2>4, <4>1, FS_EmptySet DEF HasF1
      <3>2. Min(next) \in Floors /\ Sweep(t) = Sweep(Min(next))
        BY <2>3, <3>1 DEF Sweep
      <3>3. Min(next) \in Candidates
        BY <2>1, <2>4, <3>2 DEF Candidates
      <3> QED BY <3>2, <3>3, RecommendedIsBest
    <2> QED BY <2>3, <2>4
  <1>2. Omitted = 0 => \A t \in 0 .. Highest :
            LET next == {u \in ChangePoints : u >= t}
            IN  /\ WouldShortlist(t) = IF next = {} THEN {} ELSE WouldShortlist(Min(next))
                /\ HasF1(Sweep(t)) => Candidates # {} /\ NotBelow(Sweep(Recommended), Sweep(t))
    BY <1>1
  <1> QED BY <1>2, BothEnds DEF TableIsComplete

\* Of Tuning by itself, for any companies, fits, verdicts and limit: a table that leaves
\* nothing out has every change of the shortlist in it and recommends a threshold that none
\* beats, and a sampled one keeps both ends.
THEOREM TableStands == TuningSpec => []TableIsComplete
  <1> QED BY TuningStart, TuningKeeps, TuningHolds, PTL DEF TuningSpec


------------------------------------------------------------------------------
(* Selection: lists                                                           *)

\* What holds at 0 and is handed on holds up to N.
LEMMA HandedOn ==
    ASSUME NEW N \in Nat, NEW P \in [0 .. N -> BOOLEAN], P[0],
           \A n \in 1 .. N : P[n - 1] => P[n]
    PROVE  \A n \in 0 .. N : P[n]
  <1> DEFINE bad == {n \in 0 .. N : ~P[n]}
  <1> SUFFICES ASSUME bad # {} PROVE FALSE
    OBVIOUS
  <1>1. bad \in SUBSET Nat
    OBVIOUS
  <1>2. PICK n \in bad : \A m \in bad : n <= m
    BY <1>1, HasLeast
  <1>3. n \in 1 .. N /\ n - 1 \in 0 .. N /\ n - 1 \in Nat
    BY <1>2
  <1>4. n - 1 \notin bad
    <2> SUFFICES ASSUME n - 1 \in bad PROVE FALSE
      OBVIOUS
    <2>1. n <= n - 1
      BY <1>2
    <2> QED BY <1>3, <2>1
  <1>5. P[n - 1]
    BY <1>3, <1>4
  <1> QED BY <1>2, <1>3, <1>5

\* A step on the elements of S can be repeated N times.
IsStep(step, S, N) == step \in [(1 .. N) \X S -> S]

IsRun(f, step, S, N, a) ==
    f \in [0 .. N -> S] /\ f[0] = a /\ \A n \in 1 .. N : f[n] = step[<<n, f[n - 1]>>]

LEMMA Repeated ==
    ASSUME NEW S, NEW N \in Nat, NEW a \in S, NEW step, IsStep(step, S, N)
    PROVE  \E f : IsRun(f, step, S, N, a)
  <1>s. step \in [(1 .. N) \X S -> S]
    BY DEF IsStep
  <1> DEFINE good(m) == \E f \in [0 .. m -> S] :
                            f[0] = a /\ \A n \in 1 .. m : f[n] = step[<<n, f[n - 1]>>]
             P == [m \in 0 .. N |-> good(m)]
  <1>1. good(0)
    <2> DEFINE g == [x \in 0 .. 0 |-> a]
    <2>1. g \in [0 .. 0 -> S] /\ g[0] = a
      OBVIOUS
    <2>2. \A n \in 1 .. 0 : g[n] = step[<<n, g[n - 1]>>]
      OBVIOUS
    <2> HIDE DEF g
    <2> QED BY <2>1, <2>2
  <1>2. ASSUME NEW m \in 1 .. N, good(m - 1) PROVE good(m)
    <2>1. PICK f \in [0 .. m - 1 -> S] :
              f[0] = a /\ \A n \in 1 .. m - 1 : f[n] = step[<<n, f[n - 1]>>]
      BY <1>2
    <2>2. m - 1 \in 0 .. m - 1 /\ f[m - 1] \in S
      OBVIOUS
    <2> DEFINE g == [n \in 0 .. m |-> IF n = m THEN step[<<m, f[m - 1]>>] ELSE f[n]]
    <2>3. step[<<m, f[m - 1]>>] \in S
      BY <1>s, <2>2
    <2>4. g \in [0 .. m -> S]
      BY <2>3
    <2>5. g[0] = a
      BY <2>1
    <2>6. ASSUME NEW n \in 1 .. m PROVE g[n] = step[<<n, g[n - 1]>>]
      <3>1. CASE n = m
        <4>1. g[n - 1] = f[m - 1] /\ g[n] = step[<<m, f[m - 1]>>]
          BY <3>1
        <4> HIDE DEF g
        <4> QED BY <3>1, <4>1
      <3>2. CASE n # m
        <4>1. n \in 1 .. m - 1 /\ n - 1 \in 0 .. m /\ n - 1 # m
          BY <3>2
        <4>2. g[n] = f[n] /\ g[n - 1] = f[n - 1]
          BY <4>1
        <4> HIDE DEF g
        <4> QED BY <2>1, <4>1, <4>2
      <3> QED BY <3>1, <3>2
    <2> HIDE DEF g
    <2> QED BY <2>4, <2>5, <2>6
  <1> HIDE DEF good
  <1>3. P \in [0 .. N -> BOOLEAN] /\ P[0] /\ \A n \in 1 .. N : P[n - 1] => P[n]
    <2>1. \A m \in 0 .. N : good(m) \in BOOLEAN
      BY DEF good
    <2>2. P \in [0 .. N -> BOOLEAN]
      BY <2>1
    <2>3. \A n \in 1 .. N : n - 1 \in 0 .. N /\ n \in 0 .. N
      OBVIOUS
    <2> QED BY <1>1, <1>2, <2>2, <2>3
  <1> HIDE DEF P
  <1>4. P[N]
    BY <1>3, HandedOn
  <1>5. good(N)
    BY <1>4 DEF P
  <1> QED BY <1>5 DEF good, IsRun

\* A function by recursion that starts and goes on like another is that function.
RunsAlong(made, f, N) ==
    made[0] = f[0] /\ \A n \in 1 .. N : made[n - 1] = f[n - 1] => made[n] = f[n]

LEMMA SameFunction ==
    ASSUME NEW N \in Nat, NEW f, NEW made, RunsAlong(made, f, N)
    PROVE  \A n \in 0 .. N : made[n] = f[n]
  <1> DEFINE P == [n \in 0 .. N |-> made[n] = f[n]]
  <1>1. P \in [0 .. N -> BOOLEAN]
    OBVIOUS
  <1>2. P[0]
    <2>1. 0 \in 0 .. N /\ made[0] = f[0]
      BY DEF RunsAlong
    <2> QED BY <2>1
  <1>3. ASSUME NEW n \in 1 .. N, P[n - 1] PROVE P[n]
    <2>1. n - 1 \in 0 .. N /\ n \in 0 .. N
      OBVIOUS
    <2>2. made[n - 1] = f[n - 1]
      BY <1>3, <2>1
    <2>3. made[n] = f[n]
      BY <2>2 DEF RunsAlong
    <2> QED BY <2>1, <2>3
  <1> HIDE DEF P
  <1>4. \A n \in 0 .. N : P[n]
    BY <1>1, <1>2, <1>3, HandedOn
  <1> QED BY <1>4 DEF P

\* No card twice.
Once(list) == \A i, j \in DOMAIN list : list[i] = list[j] => i = j

LEMMA Appended ==
    ASSUME NEW S, NEW list \in Seq(S), NEW e \in S
    PROVE  /\ Append(list, e) \in Seq(S)
           /\ CardsOf(Append(list, e)) = CardsOf(list) \cup {e}
           /\ Once(list) /\ e \notin CardsOf(list) => Once(Append(list, e))
  <1> DEFINE new == Append(list, e)
  <1>1. /\ new \in Seq(S) /\ Len(new) = Len(list) + 1
        /\ \A i \in 1 .. Len(list) : new[i] = list[i]
        /\ new[Len(list) + 1] = e
    BY AppendProperties
  <1>2. Len(list) \in Nat /\ DOMAIN list = 1 .. Len(list) /\ DOMAIN new = 1 .. Len(list) + 1
    BY <1>1, LenProperties
  <1> HIDE DEF new
  <1>3. CardsOf(new) = CardsOf(list) \cup {e}
    <2>1. ASSUME NEW x \in CardsOf(new) PROVE x \in CardsOf(list) \cup {e}
      <3>1. PICK i \in DOMAIN new : x = new[i]
        BY DEF CardsOf
      <3>2. i = Len(list) + 1 \/ i \in 1 .. Len(list)
        BY <1>2
      <3> QED BY <1>1, <1>2, <3>1, <3>2 DEF CardsOf
    <2>2. ASSUME NEW x \in CardsOf(list) PROVE x \in CardsOf(new)
      <3>1. PICK i \in DOMAIN list : x = list[i]
        BY DEF CardsOf
      <3>2. i \in DOMAIN new /\ new[i] = x
        BY <1>1, <1>2, <3>1
      <3> QED BY <3>2 DEF CardsOf
    <2>3. e \in CardsOf(new)
      BY <1>1, <1>2 DEF CardsOf
    <2> QED BY <2>1, <2>2, <2>3
  <1>4. ASSUME Once(list), e \notin CardsOf(list) PROVE Once(new)
    <2> SUFFICES ASSUME NEW i \in DOMAIN new, NEW j \in DOMAIN new, new[i] = new[j] PROVE i = j
      BY DEF Once
    <2>1. \A k \in 1 .. Len(list) : new[k] # e
      BY <1>1, <1>2, <1>4 DEF CardsOf
    <2> QED BY <1>1, <1>2, <1>4, <2>1 DEF Once
  <1> QED BY <1>1, <1>3, <1>4 DEF new

LEMMA JoinedLists ==
    ASSUME NEW S, NEW list \in Seq(S), NEW more \in Seq(S)
    PROVE  /\ list \o more \in Seq(S)
           /\ CardsOf(list \o more) = CardsOf(list) \cup CardsOf(more)
           /\ Once(list) /\ Once(more) /\ (\A x \in CardsOf(list) : x \notin CardsOf(more))
                => Once(list \o more)
  <1> DEFINE new == list \o more
  <1>1. /\ new \in Seq(S) /\ Len(new) = Len(list) + Len(more)
        /\ \A i \in 1 .. Len(new) : new[i] = IF i <= Len(list) THEN list[i] ELSE more[i - Len(list)]
    BY ConcatProperties
  <1>2. /\ Len(list) \in Nat /\ DOMAIN list = 1 .. Len(list)
        /\ Len(more) \in Nat /\ DOMAIN more = 1 .. Len(more)
        /\ DOMAIN new = 1 .. Len(list) + Len(more)
    BY <1>1, LenProperties
  <1> HIDE DEF new
  <1>3. CardsOf(new) = CardsOf(list) \cup CardsOf(more)
    <2>1. ASSUME NEW x \in CardsOf(new) PROVE x \in CardsOf(list) \cup CardsOf(more)
      <3>1. PICK i \in DOMAIN new : x = new[i]
        BY DEF CardsOf
      <3>2. CASE i <= Len(list)
        BY <1>1, <1>2, <3>1, <3>2 DEF CardsOf
      <3>3. CASE ~(i <= Len(list))
        <4>1. i - Len(list) \in DOMAIN more /\ x = more[i - Len(list)]
          BY <1>1, <1>2, <3>1, <3>3
        <4> QED BY <4>1 DEF CardsOf
      <3> QED BY <3>2, <3>3
    <2>2. ASSUME NEW x \in CardsOf(list) PROVE x \in CardsOf(new)
      <3>1. PICK i \in DOMAIN list : x = list[i]
        BY DEF CardsOf
      <3>2. i \in DOMAIN new /\ new[i] = x
        BY <1>1, <1>2, <3>1
      <3> QED BY <3>2 DEF CardsOf
    <2>3. ASSUME NEW x \in CardsOf(more) PROVE x \in CardsOf(new)
      <3>1. PICK i \in DOMAIN more : x = more[i]
        BY DEF CardsOf
      <3>2. i + Len(list) \in DOMAIN new /\ new[i + Len(list)] = x
        BY <1>1, <1>2, <3>1
      <3> QED BY <3>2 DEF CardsOf
    <2> QED BY <2>1, <2>2, <2>3
  <1>4. ASSUME Once(list), Once(more), \A x \in CardsOf(list) : x \notin CardsOf(more)
        PROVE  Once(new)
    <2> SUFFICES ASSUME NEW i \in DOMAIN new, NEW j \in DOMAIN new, new[i] = new[j] PROVE i = j
      BY DEF Once
    <2>1. ASSUME NEW k \in DOMAIN new, k <= Len(list) PROVE k \in DOMAIN list /\ new[k] = list[k] /\ new[k] \in CardsOf(list)
      BY <1>1, <1>2, <2>1 DEF CardsOf
    <2>2. ASSUME NEW k \in DOMAIN new, ~(k <= Len(list))
          PROVE  k - Len(list) \in DOMAIN more /\ new[k] = more[k - Len(list)] /\ new[k] \in CardsOf(more)
      BY <1>1, <1>2, <2>2 DEF CardsOf
    <2>3. CASE i <= Len(list) /\ j <= Len(list)
      BY <2>1, <2>3, <1>4 DEF Once
    <2>4. CASE ~(i <= Len(list)) /\ ~(j <= Len(list))
      <3>1. i - Len(list) = j - Len(list)
        BY <2>2, <2>4, <1>4 DEF Once
      <3> QED BY <1>2, <3>1
    <2> QED BY <2>1, <2>2, <2>3, <2>4, <1>4
  <1> QED BY <1>1, <1>3, <1>4 DEF new

\* A list without repetition is as long as the set of what is on it.
LEMMA LengthIsCardinality ==
    ASSUME NEW S, NEW list \in Seq(S), Once(list)
    PROVE  IsFiniteSet(CardsOf(list)) /\ Cardinality(CardsOf(list)) = Len(list)
  <1>1. Len(list) \in Nat /\ DOMAIN list = 1 .. Len(list) /\ list \in [1 .. Len(list) -> S]
    BY LenProperties
  <1>2. list \in Bijection(1 .. Len(list), CardsOf(list))
    BY <1>1 DEF Bijection, Injection, Surjection, IsInjective, CardsOf, Once
  <1>3. IsFiniteSet(1 .. Len(list)) /\ Cardinality(1 .. Len(list)) = Len(list)
    BY <1>1, FS_Interval
  <1> QED BY <1>2, <1>3, FS_Bijection DEF ExistsBijection

LEMMA NothingListed ==
    ASSUME NEW S
    PROVE  <<>> \in Seq(S) /\ CardsOf(<<>>) = {} /\ Once(<<>>) /\ Len(<<>>) = 0
  BY EmptySeq DEF CardsOf, Once

\* Keep's recursion, as a function that exists.
KeepRun(kept, list, T, S) ==
    /\ kept \in [0 .. Len(list) -> Seq(S)]
    /\ kept[0] = <<>>
    /\ \A n \in 1 .. Len(list) :
          kept[n] = IF list[n] \in T THEN Append(kept[n - 1], list[n]) ELSE kept[n - 1]
    /\ Keep(list, T) = kept[Len(list)]

LEMMA KeepSteps ==
    ASSUME NEW S, NEW list \in Seq(S), NEW T
    PROVE  \E kept : KeepRun(kept, list, T, S)
  <1> DEFINE N == Len(list)
             step == [x \in (1 .. N) \X Seq(S) |->
                        IF list[x[1]] \in T THEN Append(x[2], list[x[1]]) ELSE x[2]]
             Good(k) == k = [n \in 0 .. N |->
                                IF n = 0 THEN <<>>
                                ELSE IF list[n] \in T THEN Append(k[n - 1], list[n]) ELSE k[n - 1]]
             made == CHOOSE k : Good(k)
  <1>1. N \in Nat /\ \A n \in 1 .. N : list[n] \in S
    BY LenProperties, ElementOfSeq
  <1>2. step \in [(1 .. N) \X Seq(S) -> Seq(S)]
    <2>1. ASSUME NEW x \in (1 .. N) \X Seq(S)
          PROVE  (IF list[x[1]] \in T THEN Append(x[2], list[x[1]]) ELSE x[2]) \in Seq(S)
      <3>1. x[1] \in 1 .. N /\ x[2] \in Seq(S) /\ list[x[1]] \in S
        BY <1>1
      <3> QED BY <3>1, AppendProperties
    <2> QED BY <2>1
  <1>3. <<>> \in Seq(S)
    BY EmptySeq
  <1>4. ASSUME NEW n \in 1 .. N, NEW s \in Seq(S)
        PROVE  step[<<n, s>>] = IF list[n] \in T THEN Append(s, list[n]) ELSE s
    OBVIOUS
  <1>a. N = Len(list)
    OBVIOUS
  <1> HIDE DEF step, N
  <1>b. IsStep(step, Seq(S), N)
    BY <1>2 DEF IsStep
  <1>c. \E f : IsRun(f, step, Seq(S), N, <<>>)
    BY <1>1, <1>3, <1>b, Repeated
  <1>5. PICK f \in [0 .. N -> Seq(S)] : f[0] = <<>> /\ \A n \in 1 .. N : f[n] = step[<<n, f[n - 1]>>]
    BY <1>c DEF IsRun
  <1>6. ASSUME NEW n \in 1 .. N
        PROVE  f[n] = IF list[n] \in T THEN Append(f[n - 1], list[n]) ELSE f[n - 1]
    <2>1. n - 1 \in 0 .. N
      BY <1>1
    <2>2. f[n - 1] \in Seq(S)
      BY <2>1
    <2> QED BY <1>4, <1>5, <2>2
  <1>7. Good(f)
    <2>1. \A n \in 0 .. N : n = 0 \/ n \in 1 .. N
      BY <1>1
    <2>2. \A n \in 0 .. N : f[n] = IF n = 0 THEN <<>>
                ELSE IF list[n] \in T THEN Append(f[n - 1], list[n]) ELSE f[n - 1]
      BY <1>5, <1>6, <2>1
    <2> QED BY <2>2
  <1>8. Good(made)
    <2> HIDE DEF Good
    <2> QED BY <1>7
  <1>9. Keep(list, T) = made[N]
    BY DEF Keep, N
  <1>10. made[0] = <<>> /\ \A n \in 1 .. N :
            made[n] = IF list[n] \in T THEN Append(made[n - 1], list[n]) ELSE made[n - 1]
    <2>1. 0 \in 0 .. N /\ \A n \in 1 .. N : n \in 0 .. N /\ n # 0
      BY <1>1
    <2> HIDE DEF made
    <2> QED BY <1>8, <2>1
  <1> HIDE DEF made, Good
  <1>11. RunsAlong(made, f, N)
    BY <1>5, <1>6, <1>10 DEF RunsAlong
  <1>12. Keep(list, T) = f[N]
    <2>1. \A n \in 0 .. N : made[n] = f[n]
      BY <1>1, <1>11, SameFunction
    <2> QED BY <1>1, <1>9, <2>1
  <1> QED BY <1>5, <1>6, <1>12 DEF N, KeepRun

LEMMA KeptOfList ==
    ASSUME NEW S, NEW list \in Seq(S), NEW T
    PROVE  /\ Keep(list, T) \in Seq(S)
           /\ CardsOf(Keep(list, T)) = CardsOf(list) \cap T
           /\ Once(list) => Once(Keep(list, T))
  <1> DEFINE N == Len(list)
             upTo(n) == {list[i] : i \in 1 .. n}
  <1>1. N \in Nat /\ DOMAIN list = 1 .. N /\ \A n \in 1 .. N : list[n] \in S
    BY LenProperties, ElementOfSeq
  <1>a. \E kept : KeepRun(kept, list, T, S)
    BY KeepSteps
  <1>2. PICK kept \in [0 .. N -> Seq(S)] :
              /\ kept[0] = <<>>
              /\ \A n \in 1 .. N :
                    kept[n] = IF list[n] \in T THEN Append(kept[n - 1], list[n]) ELSE kept[n - 1]
              /\ Keep(list, T) = kept[N]
    BY <1>a DEF KeepRun
  <1> HIDE DEF N
  <1> DEFINE P == [n \in 0 .. N |-> /\ CardsOf(kept[n]) = upTo(n) \cap T
                                    /\ Once(list) => Once(kept[n])]
  <1>3. P \in [0 .. N -> BOOLEAN]
    OBVIOUS
  <1>4. P[0]
    <2>1. upTo(0) = {}
      OBVIOUS
    <2>2. 0 \in 0 .. N
      BY <1>1
    <2> HIDE DEF upTo
    <2> QED BY <1>2, <2>1, <2>2, NothingListed
  <1>5. ASSUME NEW n \in 1 .. N, P[n - 1] PROVE P[n]
    <2>1. n - 1 \in 0 .. N /\ n \in 0 .. N /\ kept[n - 1] \in Seq(S) /\ list[n] \in S
      BY <1>1
    <2>2. CardsOf(kept[n - 1]) = upTo(n - 1) \cap T /\ (Once(list) => Once(kept[n - 1]))
      BY <1>5, <2>1
    <2>3. upTo(n) = upTo(n - 1) \cup {list[n]}
      <3>1. 1 .. n = (1 .. n - 1) \cup {n}
        BY <1>1
      <3> QED BY <3>1
    <2>4. Once(list) => list[n] \notin upTo(n - 1)
      <3> SUFFICES ASSUME Once(list), NEW i \in 1 .. n - 1, list[i] = list[n] PROVE FALSE
        OBVIOUS
      <3>1. i \in 1 .. N /\ i # n
        BY <1>1
      <3> QED BY <1>1, <3>1 DEF Once
    <2> HIDE DEF upTo
    <2>5. CASE list[n] \in T
      <3>1. kept[n] = Append(kept[n - 1], list[n])
        BY <1>2, <2>5
      <3>2. CardsOf(kept[n]) = CardsOf(kept[n - 1]) \cup {list[n]}
        BY <2>1, <3>1, Appended
      <3>3. CardsOf(kept[n]) = upTo(n) \cap T
        BY <2>2, <2>3, <2>5, <3>2
      <3>4. Once(list) => Once(kept[n])
        BY <2>1, <2>2, <2>4, <3>1, Appended
      <3> QED BY <2>1, <3>3, <3>4
    <2>6. CASE list[n] \notin T
      <3>1. kept[n] = kept[n - 1]
        BY <1>2, <2>6
      <3>2. CardsOf(kept[n]) = upTo(n) \cap T
        BY <2>2, <2>3, <2>6, <3>1
      <3> QED BY <2>1, <2>2, <3>1, <3>2
    <2> QED BY <2>5, <2>6
  <1>6. \A n \in 0 .. N : P[n]
    <2> HIDE DEF P
    <2> QED BY <1>1, <1>3, <1>4, <1>5, HandedOn
  <1>7. CardsOf(kept[N]) = upTo(N) \cap T /\ (Once(list) => Once(kept[N])) /\ kept[N] \in Seq(S)
    <2>1. N \in 0 .. N /\ P[N]
      BY <1>1, <1>6
    <2> QED BY <2>1
  <1>8. upTo(N) = CardsOf(list)
    BY <1>1 DEF CardsOf
  <1> HIDE DEF upTo, P
  <1> QED BY <1>2, <1>7, <1>8

(* Selection: the pressure                                                    *)

\* Of finitely many things one has the highest value.
LEMMA HasHighest ==
    ASSUME NEW D, IsFiniteSet(D), D # {}, NEW v, \A i \in D : v[i] \in Int
    PROVE  \E i \in D : \A j \in D : v[i] >= v[j]
  <1> DEFINE above(i) == {j \in D : v[j] > v[i]}
             counts == {Cardinality(above(i)) : i \in D}
  <1>1. ASSUME NEW i \in D PROVE IsFiniteSet(above(i)) /\ Cardinality(above(i)) \in Nat
    <2>1. above(i) \subseteq D
      OBVIOUS
    <2> HIDE DEF above
    <2> QED BY <2>1, FS_Subset, FS_CardinalityType
  <1>2. counts \in SUBSET Nat /\ counts # {}
    <2> HIDE DEF above
    <2> QED BY <1>1
  <1>3. PICK n \in counts : \A m \in counts : n <= m
    <2> HIDE DEF counts
    <2> QED BY <1>2, HasLeast
  <1>4. PICK i \in D : n = Cardinality(above(i))
    BY <1>3
  <1>5. ASSUME NEW j \in D, v[j] > v[i] PROVE FALSE
    <2>1. ASSUME NEW k \in above(j) PROVE k \in above(i)
      BY <1>5
    <2>2. j \in above(i) /\ j \notin above(j)
      BY <1>5
    <2>3. Cardinality(above(j)) \in counts
      OBVIOUS
    <2> HIDE DEF above, counts
    <2>4. Cardinality(above(j)) <= Cardinality(above(i))
          /\ (Cardinality(above(j)) = Cardinality(above(i)) => above(i) = above(j))
      BY <1>1, <2>1, FS_Subset
    <2>5. Cardinality(above(i)) <= Cardinality(above(j))
      BY <1>3, <1>4, <2>3
    <2> QED BY <1>1, <2>2, <2>4, <2>5
  <1>6. ASSUME NEW j \in D PROVE v[i] >= v[j]
    BY <1>5
  <1> QED BY <1>6

LEMMA LeastIs ==
    ASSUME NEW S \in SUBSET Nat, S # {}
    PROVE  Min(S) \in S
  <1>1. PICK n \in S : \A m \in S : n <= m
    BY HasLeast
  <1> QED BY <1>1 DEF Min

\* What a repeat costs is between nothing and the whole pressure.
LEMMA PenaltyIsBounded ==
    ASSUME NEW S, NEW picked \in Seq(S), NEW card
    PROVE  Penalty(card, picked) \in 0 .. 24
  <1>1. ASSUME NEW key PROVE Repeats(card, picked, key) \in 0 .. 3
    <2> DEFINE same == {i \in DOMAIN picked : picked[i][key] = card[key]}
    <2>1. Len(picked) \in Nat /\ DOMAIN picked = 1 .. Len(picked)
      BY LenProperties
    <2>2. same \subseteq DOMAIN picked /\ IsFiniteSet(DOMAIN picked)
      BY <2>1, FS_Interval
    <2>3. Cardinality(same) \in Nat
      <3> HIDE DEF same
      <3> QED BY <2>2, FS_Subset, FS_CardinalityType
    <2>4. Repeats(card, picked, key) = IF card[key] = "unknown" THEN 3 ELSE MinOf(3, Cardinality(same))
      BY DEF Repeats
    <2> HIDE DEF same
    <2> QED BY <2>3, <2>4 DEF MinOf
  <1>2. FullPenalty(card, picked) \in Nat
    BY <1>1 DEF FullPenalty
  <1>3. ASSUME NEW n \in Nat PROVE MinOf(24, n) \in 0 .. 24
    BY DEF MinOf
  <1>4. Penalty(card, picked) = MinOf(24, FullPenalty(card, picked))
    BY DEF Penalty
  <1> QED BY <1>2, <1>3, <1>4

\* A pick is a card that was left, and none that was left is worth more.
LEMMA BestIsPicked ==
    ASSUME NEW S, \A c \in S : c.priority \in Nat,
           NEW pool \in Seq(S), NEW picked \in Seq(S),
           CardsOf(pool) \ CardsOf(picked) # {}
    PROVE  /\ Picked(pool, picked) \in CardsOf(pool) \ CardsOf(picked)
           /\ Picked(pool, picked) \in S
           /\ \A c \in CardsOf(pool) \ CardsOf(picked) :
                 c.priority - Picked(pool, picked).priority <= 24
  <1> DEFINE left == {i \in DOMAIN pool : pool[i] \notin CardsOf(picked)}
             v == [i \in left |-> Value(pool[i], picked)]
             tops == {i \in left : \A j \in left : Value(pool[i], picked) >= Value(pool[j], picked)}
  <1>1. Len(pool) \in Nat /\ DOMAIN pool = 1 .. Len(pool) /\ \A i \in DOMAIN pool : pool[i] \in S
    BY LenProperties, ElementOfSeq
  <1>2. IsFiniteSet(left) /\ left # {} /\ left \in SUBSET Nat
    <2>1. left \subseteq DOMAIN pool /\ left \in SUBSET Nat
      BY <1>1
    <2>2. left # {}
      BY DEF CardsOf
    <2>3. IsFiniteSet(DOMAIN pool)
      BY <1>1, FS_Interval
    <2> HIDE DEF left
    <2> QED BY <2>1, <2>2, <2>3, FS_Subset
  <1>3. ASSUME NEW i \in left
        PROVE  /\ pool[i].priority \in Nat /\ Penalty(pool[i], picked) \in 0 .. 24
               /\ Value(pool[i], picked) = pool[i].priority - Penalty(pool[i], picked)
    BY <1>1, PenaltyIsBounded DEF Value
  <1>4. PICK i \in left : \A j \in left : v[i] >= v[j]
    <2>1. ASSUME NEW k \in left PROVE v[k] \in Int
      <3>1. v[k] = Value(pool[k], picked)
        OBVIOUS
      <3>2. /\ pool[k].priority \in Nat /\ Penalty(pool[k], picked) \in 0 .. 24
            /\ Value(pool[k], picked) = pool[k].priority - Penalty(pool[k], picked)
        BY <1>3
      <3>3. ASSUME NEW p \in Nat, NEW q \in 0 .. 24 PROVE p - q \in Int
        OBVIOUS
      <3>4. Value(pool[k], picked) \in Int
        BY <3>2, <3>3
      <3> QED BY <3>1, <3>4
    <2> HIDE DEF v, left
    <2> QED BY <1>2, <2>1, HasHighest
  <1>5. i \in tops
    BY <1>4
  <1>6. Picked(pool, picked) = pool[Min(tops)]
    BY DEF Picked
  <1>7. Min(tops) \in tops
    <2>1. tops \in SUBSET Nat /\ tops # {}
      BY <1>2, <1>5
    <2> HIDE DEF tops
    <2> QED BY <2>1, LeastIs
  <1>8. PICK k \in left : /\ Picked(pool, picked) = pool[k]
                          /\ \A j \in left : Value(pool[k], picked) >= Value(pool[j], picked)
    BY <1>6, <1>7
  <1>9. ASSUME NEW c \in CardsOf(pool) \ CardsOf(picked) PROVE c.priority - pool[k].priority <= 24
    <2>1. PICK j \in left : c = pool[j]
      BY DEF CardsOf
    <2> HIDE DEF left
    <2>2. Value(pool[k], picked) >= Value(pool[j], picked)
      BY <1>8
    <2>3. /\ pool[j].priority \in Nat /\ Penalty(pool[j], picked) \in 0 .. 24
          /\ Value(pool[j], picked) = pool[j].priority - Penalty(pool[j], picked)
      BY <1>3
    <2>4. /\ pool[k].priority \in Nat /\ Penalty(pool[k], picked) \in 0 .. 24
          /\ Value(pool[k], picked) = pool[k].priority - Penalty(pool[k], picked)
      BY <1>3
    <2>5. ASSUME NEW p \in Nat, NEW q \in Nat, NEW a \in 0 .. 24, NEW b \in 0 .. 24, q - b >= p - a
          PROVE  p - q <= 24
      BY <2>5
    <2>6. pool[j].priority - pool[k].priority <= 24
      BY <2>2, <2>3, <2>4, <2>5
    <2> QED BY <2>1, <2>6
  <1>10. pool[k] \in CardsOf(pool) \ CardsOf(picked) /\ pool[k] \in S
    BY <1>1 DEF CardsOf
  <1> QED BY <1>8, <1>9, <1>10

\* The picks so far, each with none of what was left far above it.
PicksSound(picks, n, pool, S) ==
    /\ picks \in Seq(S) /\ Len(picks) = n /\ Once(picks)
    /\ CardsOf(picks) \subseteq CardsOf(pool)
    /\ \A i \in 1 .. n : \A c \in CardsOf(pool) :
          (\A k \in 1 .. i - 1 : picks[k] # c) => c.priority - picks[i].priority <= 24

LEMMA PickAdded ==
    ASSUME NEW S, \A c \in S : c.priority \in Nat,
           NEW pool \in Seq(S), Once(pool),
           NEW n \in 1 .. Len(pool), NEW picks, PicksSound(picks, n - 1, pool, S)
    PROVE  /\ PicksSound(Append(picks, Picked(pool, picks)), n, pool, S)
           /\ Picked(pool, picks) \in S
  <1> DEFINE pick == Picked(pool, picks)
             new == Append(picks, pick)
  <1>1. /\ picks \in Seq(S) /\ Len(picks) = n - 1 /\ Once(picks) /\ CardsOf(picks) \subseteq CardsOf(pool)
        /\ Len(pool) \in Nat /\ n \in Nat
    BY LenProperties DEF PicksSound
  <1>2. CardsOf(pool) \ CardsOf(picks) # {}
    <2>1. /\ Cardinality(CardsOf(pool)) = Len(pool) /\ Cardinality(CardsOf(picks)) = n - 1
      BY <1>1, LengthIsCardinality
    <2>2. CardsOf(pool) # CardsOf(picks)
      BY <1>1, <2>1
    <2> QED BY <1>1, <2>2
  <1>3. /\ pick \in CardsOf(pool) \ CardsOf(picks) /\ pick \in S
        /\ \A c \in CardsOf(pool) \ CardsOf(picks) : c.priority - pick.priority <= 24
    BY <1>1, <1>2, BestIsPicked
  <1> HIDE DEF pick
  <1>4. /\ new \in Seq(S) /\ Len(new) = n
        /\ \A i \in 1 .. n - 1 : new[i] = picks[i]
        /\ new[n] = pick
    BY <1>1, <1>3, AppendProperties
  <1>5. Once(new) /\ CardsOf(new) \subseteq CardsOf(pool)
    BY <1>1, <1>3, Appended
  <1>6. ASSUME NEW i \in 1 .. n, NEW c \in CardsOf(pool), \A k \in 1 .. i - 1 : new[k] # c
        PROVE  c.priority - new[i].priority <= 24
    <2>1. CASE i = n
      <3>1. c \notin CardsOf(picks)
        <4>1. DOMAIN picks = 1 .. n - 1
          BY <1>1, LenProperties
        <4> QED BY <1>4, <1>6, <2>1, <4>1 DEF CardsOf
      <3> QED BY <1>3, <1>4, <2>1, <3>1
    <2>2. CASE i # n
      <3>1. i \in 1 .. n - 1 /\ new[i] = picks[i]
        BY <1>1, <1>4, <2>2
      <3>2. \A k \in 1 .. i - 1 : picks[k] # c
        BY <1>1, <1>4, <1>6, <3>1
      <3> HIDE DEF new
      <3> QED BY <3>1, <3>2 DEF PicksSound
    <2> QED BY <2>1, <2>2
  <1> HIDE DEF new
  <1>7. PicksSound(new, n, pool, S)
    BY <1>4, <1>5, <1>6 DEF PicksSound
  <1> QED BY <1>3, <1>7 DEF new, pick

\* What is picked of a track: all of it, and no card far behind a lower one.
LEMMA TrackIsPicked ==
    ASSUME NEW S, \A c \in S : c.priority \in Nat, NEW pool \in Seq(S), Once(pool)
    PROVE  PicksSound(Picks(pool), Len(pool), pool, S)
  <1> DEFINE N == Len(pool)
             good(s) == Picked(pool, s) \in S
             step == [x \in (1 .. N) \X Seq(S) |->
                        IF good(x[2]) THEN Append(x[2], Picked(pool, x[2])) ELSE x[2]]
             Good(k) == k = [n \in 0 .. N |->
                                IF n = 0 THEN <<>> ELSE Append(k[n - 1], Picked(pool, k[n - 1]))]
             made == CHOOSE k : Good(k)
  <1>1. N \in Nat /\ N = Len(pool)
    BY LenProperties
  <1>2. step \in [(1 .. N) \X Seq(S) -> Seq(S)]
    <2>1. ASSUME NEW x \in (1 .. N) \X Seq(S)
          PROVE  (IF good(x[2]) THEN Append(x[2], Picked(pool, x[2])) ELSE x[2]) \in Seq(S)
      <3>1. x[2] \in Seq(S)
        OBVIOUS
      <3> QED BY <3>1, AppendProperties
    <2> HIDE DEF good
    <2> QED BY <2>1
  <1>3. <<>> \in Seq(S)
    BY EmptySeq
  <1>4. ASSUME NEW n \in 1 .. N, NEW s \in Seq(S), good(s)
        PROVE  step[<<n, s>>] = Append(s, Picked(pool, s))
    <2> HIDE DEF good
    <2> QED BY <1>4
  <1> HIDE DEF step, N
  <1>b. IsStep(step, Seq(S), N)
    BY <1>2 DEF IsStep
  <1>c. \E f : IsRun(f, step, Seq(S), N, <<>>)
    BY <1>1, <1>3, <1>b, Repeated
  <1>5. PICK f : IsRun(f, step, Seq(S), N, <<>>)
    BY <1>c
  <1>5a. f \in [0 .. N -> Seq(S)] /\ f[0] = <<>> /\ \A n \in 1 .. N : f[n] = step[<<n, f[n - 1]>>]
    BY <1>5 DEF IsRun
  <1>6. ASSUME NEW n \in 1 .. N, PicksSound(f[n - 1], n - 1, pool, S)
        PROVE  PicksSound(f[n], n, pool, S) /\ f[n] = Append(f[n - 1], Picked(pool, f[n - 1]))
    <2>0. n - 1 \in 0 .. N
      BY <1>1
    <2>1. f[n - 1] \in Seq(S)
      BY <1>5a, <2>0
    <2>2. /\ PicksSound(Append(f[n - 1], Picked(pool, f[n - 1])), n, pool, S)
          /\ Picked(pool, f[n - 1]) \in S
      BY <1>1, <1>6, PickAdded
    <2>3. f[n] = Append(f[n - 1], Picked(pool, f[n - 1]))
      BY <1>4, <1>5a, <2>1, <2>2
    <2> QED BY <2>2, <2>3
  <1>7. \A n \in 0 .. N : PicksSound(f[n], n, pool, S)
    <2> DEFINE P == [n \in 0 .. N |-> PicksSound(f[n], n, pool, S)]
    <2>1. P \in [0 .. N -> BOOLEAN]
      BY DEF PicksSound
    <2>2. P[0]
      <3>1. PicksSound(<<>>, 0, pool, S)
        BY NothingListed DEF PicksSound
      <3> QED BY <1>1, <1>5a, <3>1
    <2>3. ASSUME NEW n \in 1 .. N, P[n - 1] PROVE P[n]
      <3>1. n - 1 \in 0 .. N /\ n \in 0 .. N
        BY <1>1
      <3> QED BY <1>6, <2>3, <3>1
    <2> HIDE DEF P
    <2>4. \A n \in 0 .. N : P[n]
      BY <1>1, <2>1, <2>2, <2>3, HandedOn
    <2> QED BY <2>4 DEF P
  <1>8. \A n \in 1 .. N : f[n] = Append(f[n - 1], Picked(pool, f[n - 1]))
    <2>1. \A n \in 1 .. N : n - 1 \in 0 .. N
      BY <1>1
    <2> QED BY <1>6, <1>7, <2>1
  <1>9. Good(made)
    <2>1. Good(f)
      <3>1. \A n \in 0 .. N : n = 0 \/ n \in 1 .. N
        BY <1>1
      <3>2. \A n \in 0 .. N : f[n] = IF n = 0 THEN <<>> ELSE Append(f[n - 1], Picked(pool, f[n - 1]))
        BY <1>5a, <1>8, <3>1
      <3> QED BY <1>5a, <3>2
    <2> HIDE DEF Good
    <2> QED BY <2>1
  <1>10. Picks(pool) = made[N]
    BY DEF Picks, N
  <1>11. made[0] = <<>> /\ \A n \in 1 .. N : made[n] = Append(made[n - 1], Picked(pool, made[n - 1]))
    <2>1. 0 \in 0 .. N /\ \A n \in 1 .. N : n \in 0 .. N /\ n # 0
      BY <1>1
    <2> HIDE DEF made
    <2> QED BY <1>9, <2>1
  <1> HIDE DEF made, Good
  <1>12. RunsAlong(made, f, N)
    BY <1>5a, <1>8, <1>11 DEF RunsAlong
  <1>13. \A n \in 0 .. N : made[n] = f[n]
    BY <1>1, <1>12, SameFunction
  <1> QED BY <1>1, <1>7, <1>10, <1>13
(* Selection: the shares                                                      *)

LEMMA GreaterOfTwo ==
    ASSUME NEW a \in Nat, NEW b \in Nat
    PROVE  Max({a, b}) = IF a < b THEN b ELSE a
  <1>1. \E x \in {a, b} : \A y \in {a, b} : x >= y
    <2>1. CASE a < b
      BY <2>1
    <2>2. CASE ~(a < b)
      BY <2>2
    <2> QED BY <2>1, <2>2
  <1>2. Max({a, b}) \in {a, b} /\ \A y \in {a, b} : Max({a, b}) >= y
    BY <1>1 DEF Max
  <1>3. (Max({a, b}) = a \/ Max({a, b}) = b) /\ Max({a, b}) >= a /\ Max({a, b}) >= b
    BY <1>2
  <1> QED BY <1>3

\* More of a fund's cards never allow a family fewer.
LEMMA AllowedGrow ==
    ASSUME NEW family, NEW n \in Nat, NEW m \in Nat, n <= m
    PROVE  /\ AllowedCards(family, n) \in Nat
           /\ AllowedCards(family, n) <= AllowedCards(family, m)
  <1> DEFINE s == Share(family)
             a == FreeCards(family)
  <1>1. s \in Nat /\ a \in Nat
    BY SelectionAssumption DEF Share, FreeCards
  <1>2. ASSUME NEW k \in Nat
        PROVE  /\ (s * k) \div 100 \in Nat
               /\ AllowedCards(family, k) = IF a < (s * k) \div 100 THEN (s * k) \div 100 ELSE a
    <2>1. s * k \in Nat
      BY <1>1
    <2> HIDE DEF s, a
    <2>2. (s * k) \div 100 \in Nat
      BY <2>1
    <2>3. AllowedCards(family, k) = Max({a, (s * k) \div 100})
      BY DEF AllowedCards, s, a
    <2> QED BY <1>1, <2>2, <2>3, GreaterOfTwo
  <1> HIDE DEF s, a
  <1>3. s * n <= s * m /\ s * n \in Nat /\ s * m \in Nat
    <2>1. \E d \in Nat : m = n + d
      BY m - n \in Nat
    <2>2. PICK d \in Nat : m = n + d
      BY <2>1
    <2>3. s * m = s * n + s * d /\ s * d \in Nat /\ s * n \in Nat
      BY <1>1, <2>2
    <2> QED BY <2>3
  <1>4. ASSUME NEW x \in Nat, NEW y \in Nat, x <= y PROVE x \div 100 <= y \div 100
    BY <1>4
  <1>5. (s * n) \div 100 <= (s * m) \div 100
    BY <1>3, <1>4
  <1>6. ASSUME NEW x \in Nat, NEW y \in Nat, x <= y
        PROVE  /\ (IF a < x THEN x ELSE a) \in Nat
               /\ (IF a < x THEN x ELSE a) <= (IF a < y THEN y ELSE a)
    BY <1>1, <1>6
  <1>7. /\ (s * n) \div 100 \in Nat /\ (s * m) \div 100 \in Nat
        /\ AllowedCards(family, n) = IF a < (s * n) \div 100 THEN (s * n) \div 100 ELSE a
        /\ AllowedCards(family, m) = IF a < (s * m) \div 100 THEN (s * m) \div 100 ELSE a
    BY <1>2
  <1> DEFINE x == (s * n) \div 100
             y == (s * m) \div 100
  <1>8. /\ (IF a < x THEN x ELSE a) \in Nat
        /\ (IF a < x THEN x ELSE a) <= (IF a < y THEN y ELSE a)
    <2>1. x \in Nat /\ y \in Nat /\ x <= y
      BY <1>5, <1>7
    <2> HIDE DEF x, y
    <2> QED BY <1>6, <2>1
  <1>9. AllowedCards(family, n) = (IF a < x THEN x ELSE a) /\ AllowedCards(family, m) = (IF a < y THEN y ELSE a)
    BY <1>7
  <1> HIDE DEF x, y
  <1> QED BY <1>8, <1>9

\* No family has more of a fund's first cards than it may.
Shared(fits) ==
    \A n \in 0 .. Len(fits) : \A f, g :
        Cardinality(OfFamily(fits, n, f, g)) <= AllowedCards(g, Cardinality(OfFund(fits, n, f)))

LEMMA CountsAreFinite ==
    ASSUME NEW fits, NEW n \in Nat, NEW f, NEW g
    PROVE  /\ IsFiniteSet(OfFund(fits, n, f)) /\ Cardinality(OfFund(fits, n, f)) \in Nat
           /\ IsFiniteSet(OfFamily(fits, n, f, g)) /\ Cardinality(OfFamily(fits, n, f, g)) \in Nat
  <1>1. OfFund(fits, n, f) \subseteq 1 .. n /\ OfFamily(fits, n, f, g) \subseteq 1 .. n
    BY DEF OfFund, OfFamily
  <1>2. IsFiniteSet(1 .. n)
    BY FS_Interval
  <1> QED BY <1>1, <1>2, FS_Subset, FS_CardinalityType

LEMMA AdmittedStaysShared ==
    ASSUME NEW S, NEW fits \in Seq(S), Shared(fits), NEW card \in S
    PROVE  Shared(Admitted(fits, card))
  <1>1. CASE ~Fitting(fits, card)
    BY <1>1 DEF Admitted
  <1>2. CASE Fitting(fits, card)
    <2> DEFINE N == Len(fits)
               new == Append(fits, card)
    <2>1. N \in Nat /\ new \in Seq(S) /\ Len(new) = N + 1 /\ new[N + 1] = card
          /\ \A i \in 1 .. N : new[i] = fits[i]
      BY LenProperties, AppendProperties
    <2>2. Admitted(fits, card) = new
      BY <1>2 DEF Admitted
    <2>3. /\ Cardinality(OfFamily(fits, N, card.fund, card.family)) + 1
                <= AllowedCards(card.family, Cardinality(OfFund(fits, N, card.fund)) + 1)
      BY <1>2 DEF Fitting
    <2> HIDE DEF new, N
    <2>4. ASSUME NEW n \in 0 .. N, NEW f, NEW g
          PROVE  OfFund(new, n, f) = OfFund(fits, n, f) /\ OfFamily(new, n, f, g) = OfFamily(fits, n, f, g)
      <3>1. \A i \in 1 .. n : i \in 1 .. N
        BY <2>1
      <3>2. \A i \in 1 .. n : new[i] = fits[i]
        BY <2>1, <3>1
      <3> QED BY <3>2 DEF OfFund, OfFamily
    <2>5. ASSUME NEW f, NEW g
          PROVE  /\ OfFund(new, N + 1, f) = IF f = card.fund THEN OfFund(fits, N, f) \cup {N + 1}
                                            ELSE OfFund(fits, N, f)
                 /\ OfFamily(new, N + 1, f, g) =
                        IF f = card.fund /\ g = card.family THEN OfFamily(fits, N, f, g) \cup {N + 1}
                        ELSE OfFamily(fits, N, f, g)
                 /\ N + 1 \notin OfFund(fits, N, f) /\ N + 1 \notin OfFamily(fits, N, f, g)
      <3>1. 1 .. N + 1 = (1 .. N) \cup {N + 1} /\ N + 1 \notin 1 .. N
        BY <2>1
      <3>2. OfFund(new, N + 1, f) = IF f = card.fund THEN OfFund(fits, N, f) \cup {N + 1}
                                            ELSE OfFund(fits, N, f)
        BY <2>1, <3>1 DEF OfFund
      <3>3. N + 1 \notin OfFund(fits, N, f)
        BY <3>1 DEF OfFund
      <3>4. \A i \in OfFund(fits, N, f) : new[i] = fits[i]
        BY <2>1 DEF OfFund
      <3>5. OfFamily(new, N + 1, f, g) =
                        IF f = card.fund /\ g = card.family THEN OfFamily(fits, N, f, g) \cup {N + 1}
                        ELSE OfFamily(fits, N, f, g)
        BY <2>1, <3>2, <3>4 DEF OfFamily
      <3>6. N + 1 \notin OfFamily(fits, N, f, g)
        BY <3>3 DEF OfFamily
      <3> QED BY <3>2, <3>3, <3>5, <3>6
    <2>6. ASSUME NEW n \in 0 .. N + 1, NEW f, NEW g
          PROVE  Cardinality(OfFamily(new, n, f, g)) <= AllowedCards(g, Cardinality(OfFund(new, n, f)))
      <3>0. N \in 0 .. N /\ N \in Nat
        BY <2>1
      <3>1. ASSUME NEW m \in 0 .. N
            PROVE  Cardinality(OfFamily(fits, m, f, g)) <= AllowedCards(g, Cardinality(OfFund(fits, m, f)))
        BY DEF Shared, N
      <3>2. CASE n \in 0 .. N
        <4>1. OfFund(new, n, f) = OfFund(fits, n, f) /\ OfFamily(new, n, f, g) = OfFamily(fits, n, f, g)
          BY <2>4, <3>2
        <4> QED BY <3>1, <3>2, <4>1
      <3>3. CASE n = N + 1
        <4> DEFINE total == Cardinality(OfFund(fits, N, f))
                   mine == Cardinality(OfFamily(fits, N, f, g))
        <4>1. /\ IsFiniteSet(OfFund(fits, N, f)) /\ total \in Nat
              /\ IsFiniteSet(OfFamily(fits, N, f, g)) /\ mine \in Nat
          BY <3>0, CountsAreFinite
        <4>2. mine <= AllowedCards(g, total)
          BY <3>0, <3>1
        <4>3. CASE f # card.fund
          BY <2>5, <3>3, <4>2, <4>3
        <4>4. CASE f = card.fund
          <5>1. Cardinality(OfFund(new, n, f)) = total + 1
            <6>1. OfFund(new, n, f) = OfFund(fits, N, f) \cup {N + 1} /\ N + 1 \notin OfFund(fits, N, f)
              BY <2>5, <3>3, <4>4
            <6> QED BY <4>1, <6>1, FS_AddElement
          <5>2. CASE g = card.family
            <6>1. Cardinality(OfFamily(new, n, f, g)) = mine + 1
              <7>1. /\ OfFamily(new, n, f, g) = OfFamily(fits, N, f, g) \cup {N + 1}
                    /\ N + 1 \notin OfFamily(fits, N, f, g)
                BY <2>5, <3>3, <4>4, <5>2
              <7> QED BY <4>1, <7>1, FS_AddElement
            <6> QED BY <2>3, <4>4, <5>1, <5>2, <6>1
          <5>3. CASE g # card.family
            <6>1. OfFamily(new, n, f, g) = OfFamily(fits, N, f, g)
              BY <2>5, <3>3, <4>4, <5>3
            <6> HIDE DEF total, mine
            <6>2. total + 1 \in Nat /\ total <= total + 1
              BY <4>1
            <6>3. AllowedCards(g, total) \in Nat /\ AllowedCards(g, total) <= AllowedCards(g, total + 1)
                  /\ AllowedCards(g, total + 1) \in Nat
              BY <4>1, <6>2, AllowedGrow
            <6>4. Cardinality(OfFamily(new, n, f, g)) = mine
              BY <6>1 DEF mine
            <6> QED BY <4>1, <4>2, <5>1, <6>3, <6>4
          <5> QED BY <5>2, <5>3
        <4> QED BY <4>3, <4>4
      <3> QED BY <2>1, <3>2, <3>3
    <2> QED BY <2>1, <2>2, <2>6 DEF Shared
  <1> QED BY <1>1, <1>2

\* What fits is some of the cards, each as often as it was, and is shared.
LEMMA WhatFits ==
    ASSUME NEW S, NEW cards \in Seq(S), Once(cards)
    PROVE  /\ Fits(cards) \in Seq(S) /\ CardsOf(Fits(cards)) \subseteq CardsOf(cards)
           /\ Once(Fits(cards)) /\ Shared(Fits(cards))
  <1> DEFINE N == Len(cards)
             step == [x \in (1 .. N) \X Seq(S) |-> Admitted(x[2], cards[x[1]])]
             Good(k) == k = [n \in 0 .. N |-> IF n = 0 THEN <<>> ELSE Admitted(k[n - 1], cards[n])]
             made == CHOOSE k : Good(k)
             upTo(n) == {cards[i] : i \in 1 .. n}
             Sound(s, n) == s \in Seq(S) /\ CardsOf(s) \subseteq upTo(n) /\ Once(s) /\ Shared(s)
  <1>1. N \in Nat /\ N = Len(cards) /\ DOMAIN cards = 1 .. N /\ \A n \in 1 .. N : cards[n] \in S
    BY LenProperties, ElementOfSeq
  <1>2. step \in [(1 .. N) \X Seq(S) -> Seq(S)]
    <2>1. ASSUME NEW x \in (1 .. N) \X Seq(S) PROVE Admitted(x[2], cards[x[1]]) \in Seq(S)
      <3>1. x[1] \in 1 .. N /\ x[2] \in Seq(S) /\ cards[x[1]] \in S
        BY <1>1
      <3> QED BY <3>1, AppendProperties DEF Admitted
    <2> QED BY <2>1
  <1>3. <<>> \in Seq(S)
    BY EmptySeq
  <1>4. ASSUME NEW n \in 1 .. N, NEW s \in Seq(S) PROVE step[<<n, s>>] = Admitted(s, cards[n])
    OBVIOUS
  <1> HIDE DEF step, N
  <1>b. IsStep(step, Seq(S), N)
    BY <1>2 DEF IsStep
  <1>c. \E f : IsRun(f, step, Seq(S), N, <<>>)
    BY <1>1, <1>3, <1>b, Repeated
  <1>5. PICK f : IsRun(f, step, Seq(S), N, <<>>)
    BY <1>c
  <1>5a. f \in [0 .. N -> Seq(S)] /\ f[0] = <<>> /\ \A n \in 1 .. N : f[n] = step[<<n, f[n - 1]>>]
    BY <1>5 DEF IsRun
  <1>6. ASSUME NEW n \in 1 .. N PROVE f[n] = Admitted(f[n - 1], cards[n])
    <2>1. n - 1 \in 0 .. N
      BY <1>1
    <2>2. f[n - 1] \in Seq(S)
      BY <1>5a, <2>1
    <2> QED BY <1>4, <1>5a, <2>2
  <1>7. Good(made)
    <2>1. Good(f)
      <3>1. \A n \in 0 .. N : n = 0 \/ n \in 1 .. N
        BY <1>1
      <3>2. \A n \in 0 .. N : f[n] = IF n = 0 THEN <<>> ELSE Admitted(f[n - 1], cards[n])
        BY <1>5a, <1>6, <3>1
      <3> QED BY <1>5a, <3>2
    <2> HIDE DEF Good
    <2> QED BY <2>1
  <1>8. Fits(cards) = made[N]
    BY DEF Fits, N
  <1>9. made[0] = <<>> /\ \A n \in 1 .. N : made[n] = Admitted(made[n - 1], cards[n])
    <2>1. 0 \in 0 .. N /\ \A n \in 1 .. N : n \in 0 .. N /\ n # 0
      BY <1>1
    <2> HIDE DEF made
    <2> QED BY <1>7, <2>1
  <1> HIDE DEF made, Good
  <1>10. RunsAlong(made, f, N)
    BY <1>5a, <1>6, <1>9 DEF RunsAlong
  <1>11. Fits(cards) = f[N]
    <2>1. \A n \in 0 .. N : made[n] = f[n]
      BY <1>1, <1>10, SameFunction
    <2> QED BY <1>1, <1>8, <2>1
  <1>12. Sound(<<>>, 0)
    <2>1. <<>> \in Seq(S) /\ CardsOf(<<>>) = {} /\ Once(<<>>) /\ Len(<<>>) = 0
      BY NothingListed
    <2>2. Shared(<<>>)
      <3> SUFFICES ASSUME NEW n \in 0 .. 0, NEW f0, NEW g
                   PROVE  Cardinality(OfFamily(<<>>, n, f0, g))
                              <= AllowedCards(g, Cardinality(OfFund(<<>>, n, f0)))
        BY <2>1 DEF Shared
      <3>1. n = 0
        OBVIOUS
      <3>2. OfFund(<<>>, 0, f0) = {}
        BY DEF OfFund
      <3>3. OfFamily(<<>>, 0, f0, g) = {}
        BY <3>2 DEF OfFamily
      <3>4. Cardinality({}) = 0
        BY FS_EmptySet
      <3>5. AllowedCards(g, 0) \in Nat
        BY AllowedGrow
      <3>6. \A k \in Nat : 0 <= k
        OBVIOUS
      <3>7. 0 <= AllowedCards(g, 0)
        BY <3>5, <3>6
      <3> QED BY <3>1, <3>2, <3>3, <3>4, <3>7
    <2> QED BY <2>1, <2>2
  <1>13. ASSUME NEW n \in 1 .. N, NEW s, Sound(s, n - 1) PROVE Sound(Admitted(s, cards[n]), n)
    <2>1. cards[n] \in S /\ s \in Seq(S) /\ Shared(s) /\ Once(s) /\ CardsOf(s) \subseteq upTo(n - 1)
      BY <1>1, <1>13
    <2>2. upTo(n) = upTo(n - 1) \cup {cards[n]}
      <3>1. 1 .. n = (1 .. n - 1) \cup {n}
        BY <1>1
      <3> QED BY <3>1
    <2>3. cards[n] \notin upTo(n - 1)
      <3> SUFFICES ASSUME NEW i \in 1 .. n - 1, cards[i] = cards[n] PROVE FALSE
        OBVIOUS
      <3>1. i \in 1 .. N /\ i # n
        BY <1>1
      <3> QED BY <1>1, <3>1 DEF Once
    <2>4. Shared(Admitted(s, cards[n]))
      BY <2>1, AdmittedStaysShared
    <2> HIDE DEF upTo
    <2>5. CASE Fitting(s, cards[n])
      <3>1. Admitted(s, cards[n]) = Append(s, cards[n])
        BY <2>5 DEF Admitted
      <3>2. cards[n] \notin CardsOf(s)
        BY <2>1, <2>3
      <3>3. /\ Append(s, cards[n]) \in Seq(S)
            /\ CardsOf(Append(s, cards[n])) = CardsOf(s) \cup {cards[n]}
            /\ Once(Append(s, cards[n]))
        BY <2>1, <3>2, Appended
      <3> QED BY <2>1, <2>2, <2>4, <3>1, <3>3
    <2>6. CASE ~Fitting(s, cards[n])
      <3>1. Admitted(s, cards[n]) = s
        BY <2>6 DEF Admitted
      <3> QED BY <2>1, <2>2, <3>1
    <2> QED BY <2>5, <2>6
  <1> HIDE DEF Sound
  <1>14. \A n \in 0 .. N : Sound(f[n], n)
    <2> DEFINE P == [n \in 0 .. N |-> Sound(f[n], n)]
    <2>1. P \in [0 .. N -> BOOLEAN]
      BY DEF Sound
    <2>2. P[0]
      BY <1>1, <1>5a, <1>12
    <2>3. ASSUME NEW n \in 1 .. N, P[n - 1] PROVE P[n]
      <3>1. n - 1 \in 0 .. N /\ n \in 0 .. N
        BY <1>1
      <3> QED BY <1>6, <1>13, <2>3, <3>1
    <2> HIDE DEF P
    <2>4. \A n \in 0 .. N : P[n]
      BY <1>1, <2>1, <2>2, <2>3, HandedOn
    <2> QED BY <2>4 DEF P
  <1>15. Sound(f[N], N)
    BY <1>1, <1>14
  <1>16. upTo(N) = CardsOf(cards)
    BY <1>1 DEF CardsOf
  <1> HIDE DEF upTo
  <1> QED BY <1>11, <1>15, <1>16 DEF Sound
(* Selection: the rows of the queue                                           *)

\* A company's live matches are among the funds it has a score for.
MatchesHeld == matches \in [FirmKeys -> SUBSET AllFunds] /\ \A c \in FirmKeys : matches[c] \subseteq FundsOf(c)

LEMMA FundsAreFinite == ASSUME NEW c PROVE IsFiniteSet(FundsOf(c))
  <1> DEFINE second == [p \in DOMAIN Match |-> p[2]]
             funds == {p[2] : p \in DOMAIN Match}
  <1>1. second \in Surjection(DOMAIN Match, funds)
    BY DEF Surjection
  <1>2. IsFiniteSet(DOMAIN Match)
    BY SelectionAssumption
  <1>3. IsFiniteSet(funds)
    BY <1>1, <1>2, FS_Surjection
  <1>4. FundsOf(c) \subseteq funds
    BY DEF FundsOf
  <1> QED BY <1>3, <1>4, FS_Subset

LEMMA PriorityIsNatural ==
    ASSUME NEW c, NEW f \in FundsOf(c) PROVE Priority(c, f) \in Nat
  BY SelectionAssumption DEF FundsOf, Priority

\* The best of some funds is one of them.
LEMMA BestIsOne ==
    ASSUME NEW c, NEW funds \in SUBSET FundsOf(c), funds # {}
    PROVE  Best(c, funds) \in funds /\ Priority(c, Best(c, funds)) \in Nat
  <1> DEFINE v == [f \in funds |-> Priority(c, f)]
  <1>1. IsFiniteSet(funds)
    BY FundsAreFinite, FS_Subset
  <1>2. \A f \in funds : v[f] \in Int /\ v[f] = Priority(c, f)
    BY PriorityIsNatural
  <1> HIDE DEF v
  <1>3. PICK f \in funds : \A g \in funds : v[f] >= v[g]
    BY <1>1, <1>2, HasHighest
  <1>4. \A g \in funds : Priority(c, f) >= Priority(c, g)
    BY <1>2, <1>3
  <1>5. Best(c, funds) \in funds
    BY <1>4 DEF Best
  <1> QED BY <1>5, PriorityIsNatural

\* The cards there can be.
AllCards == {Card(c) : c \in Queued(FirmKeys)}

LEMMA CardHolds ==
    ASSUME MatchesHeld, NEW c \in Queued(FirmKeys)
    PROVE  /\ Card(c).company = c /\ Card(c).priority \in Nat
           /\ Card(c).track \in {0, 1} /\ Card(c).family = Family(c)
           /\ BestPriority(c) \in Nat /\ Track(c) \in {0, 1}
  <1>1. /\ c \in FirmKeys /\ Offered(c) # {} /\ Offered(c) \subseteq matches[c]
        /\ matches[c] \subseteq FundsOf(c) /\ matches[c] # {}
    BY DEF Queued, Offered, MatchesHeld
  <1>2. Offered(c) \in SUBSET FundsOf(c)
    BY <1>1
  <1>3. Alternatives(c) \in SUBSET FundsOf(c)
    BY <1>2 DEF Alternatives
  <1>4. Best(c, Offered(c)) \in FundsOf(c)
    BY <1>1, <1>2, BestIsOne
  <1>5. Alternatives(c) # {} => Best(c, Alternatives(c)) \in FundsOf(c)
    BY <1>3, BestIsOne
  <1>6. Suggested(c) \in FundsOf(c)
    BY <1>4, <1>5 DEF Suggested
  <1>7. Priority(c, Suggested(c)) \in Nat
    BY <1>6, PriorityIsNatural
  <1>8. BestPriority(c) \in Nat
    BY <1>1, BestIsOne DEF BestPriority
  <1>9. Track(c) \in {0, 1}
    BY DEF Track
  <1> QED BY <1>7, <1>8, <1>9 DEF Card

LEMMA CardsAreCards ==
    ASSUME MatchesHeld, NEW card \in AllCards
    PROVE  /\ card.priority \in Nat /\ card.track \in {0, 1}
           /\ card.company \in Queued(FirmKeys) /\ card = Card(card.company)
           /\ card.family = Family(card.company)
  <1>1. PICK c \in Queued(FirmKeys) : card = Card(c)
    BY DEF AllCards
  <1> QED BY <1>1, CardHolds

LEMMA NamesTellApart ==
    ASSUME NEW c \in FirmKeys
    PROVE  ByName(c) \in Nat /\ FirmOrder[ByName(c)] = c
  <1>1. FirmOrder \in Seq(FirmKeys) /\ \E i \in DOMAIN FirmOrder : FirmOrder[i] = c
    BY SelectionAssumption
  <1>2. DOMAIN FirmOrder = 1 .. Len(FirmOrder) /\ Len(FirmOrder) \in Nat
    BY <1>1, LenProperties
  <1>3. ByName(c) \in DOMAIN FirmOrder /\ FirmOrder[ByName(c)] = c
    BY <1>1 DEF ByName
  <1> QED BY <1>2, <1>3

\* The query's order is a strict one between any two rows.
LEMMA RowsAreOrdered ==
    ASSUME MatchesHeld
    PROVE  /\ \A c \in Queued(FirmKeys) : ~Before(c, c)
           /\ \A c, d \in Queued(FirmKeys) : c # d => Before(c, d) \/ Before(d, c)
           /\ \A c, d, e \in Queued(FirmKeys) : Before(c, d) /\ Before(d, e) => Before(c, e)
  <1>1. ASSUME NEW c \in Queued(FirmKeys)
        PROVE  /\ c \in FirmKeys /\ Track(c) \in Nat /\ BestPriority(c) \in Nat
               /\ ByName(c) \in Nat /\ FirmOrder[ByName(c)] = c
    <2>1. c \in FirmKeys
      BY DEF Queued
    <2> QED BY <2>1, CardHolds, NamesTellApart
  <1>2. ASSUME NEW c \in Queued(FirmKeys) PROVE ~Before(c, c)
    BY <1>1 DEF Before
  <1>3. ASSUME NEW c \in Queued(FirmKeys), NEW d \in Queued(FirmKeys), c # d
        PROVE  Before(c, d) \/ Before(d, c)
    <2>1. ByName(c) # ByName(d)
      BY <1>1, <1>3
    <2> QED BY <1>1, <2>1 DEF Before
  <1>4. ASSUME NEW c \in Queued(FirmKeys), NEW d \in Queued(FirmKeys), NEW e \in Queued(FirmKeys),
               Before(c, d), Before(d, e)
        PROVE  Before(c, e)
    BY <1>1, <1>4 DEF Before
  <1> QED BY <1>2, <1>3, <1>4

\* Of the rows that are left one comes first.
LEMMA ForemostIsOne ==
    ASSUME MatchesHeld, NEW left \in SUBSET Queued(FirmKeys), left # {}
    PROVE  Foremost(left) \in left
  <1> DEFINE behind(c) == {d \in left : Before(c, d)}
             v == [c \in left |-> Cardinality(behind(c))]
  <1>1. IsFiniteSet(left)
    <2>1. left \subseteq FirmKeys /\ IsFiniteSet(FirmKeys)
      BY SelectionAssumption DEF Queued
    <2> QED BY <2>1, FS_Subset
  <1>2. ASSUME NEW c \in left
        PROVE  IsFiniteSet(behind(c)) /\ Cardinality(behind(c)) \in Nat /\ v[c] = Cardinality(behind(c))
    <2>1. behind(c) \subseteq left
      OBVIOUS
    <2>2. v[c] = Cardinality(behind(c))
      OBVIOUS
    <2> HIDE DEF behind, v
    <2> QED BY <1>1, <2>1, <2>2, FS_Subset, FS_CardinalityType
  <1> HIDE DEF v
  <1>3. PICK c \in left : \A d \in left : v[c] >= v[d]
    <2>1. \A d \in left : v[d] \in Int
      <3> HIDE DEF behind
      <3> QED BY <1>2
    <2> QED BY <1>1, <2>1, HasHighest
  <1>4. ASSUME NEW d \in left \ {c} PROVE Before(c, d)
    <2> SUFFICES ASSUME ~Before(c, d) PROVE FALSE
      OBVIOUS
    <2>1. Before(d, c)
      BY RowsAreOrdered
    <2>2. \A e \in behind(c) : e \in behind(d)
      <3> SUFFICES ASSUME NEW e \in left, Before(c, e) PROVE Before(d, e)
        OBVIOUS
      <3> QED BY <2>1, RowsAreOrdered
    <2>3. c \in behind(d) /\ c \notin behind(c)
      BY <2>1, RowsAreOrdered
    <2> HIDE DEF behind
    <2>4. behind(c) \in SUBSET behind(d)
      BY <2>2
    <2>5. /\ Cardinality(behind(c)) <= Cardinality(behind(d))
          /\ Cardinality(behind(d)) = Cardinality(behind(c)) => behind(d) = behind(c)
      BY <1>2, <2>4, FS_Subset
    <2>6. v[c] >= v[d] /\ v[c] \in Nat /\ v[d] \in Nat
      BY <1>2, <1>3
    <2>7. Cardinality(behind(d)) = Cardinality(behind(c))
      BY <1>2, <2>5, <2>6
    <2> QED BY <2>3, <2>5, <2>7
  <1>5. \E e \in left : \A d \in left \ {e} : Before(e, d)
    BY <1>4
  <1> QED BY <1>5 DEF Foremost

\* The first n rows of a queue.
RowsSound(entries, n, S) ==
    /\ entries \in Seq(AllCards) /\ Len(entries) = n /\ Once(entries)
    /\ CardsOf(entries) \subseteq {Card(c) : c \in Queued(S)}

LEMMA RowAdded ==
    ASSUME MatchesHeld, NEW S \in SUBSET FirmKeys, NEW n \in 1 .. Cardinality(Queued(S)),
           Cardinality(Queued(S)) \in Nat, NEW entries, RowsSound(entries, n - 1, S)
    PROVE  /\ Card(Foremost(Queued(S) \ {card.company : card \in CardsOf(entries)})) \in AllCards
           /\ RowsSound(Append(entries, Card(Foremost(Queued(S) \ {card.company : card \in CardsOf(entries)}))), n, S)
  <1> DEFINE Q == Queued(S)
             T == {card.company : card \in CardsOf(entries)}
             c == Foremost(Q \ T)
             f == [card \in CardsOf(entries) |-> card.company]
  <1>1. /\ entries \in Seq(AllCards) /\ Len(entries) = n - 1 /\ Once(entries)
        /\ CardsOf(entries) \subseteq {Card(d) : d \in Q}
    BY DEF RowsSound
  <1>2. Q \subseteq Queued(FirmKeys)
    BY DEF Queued
  <1> HIDE DEF Q
  <1>3. IsFiniteSet(CardsOf(entries)) /\ Cardinality(CardsOf(entries)) = n - 1
    BY <1>1, LengthIsCardinality
  <1>4. IsFiniteSet(T) /\ Cardinality(T) <= n - 1
    <2>1. f \in Surjection(CardsOf(entries), T)
      BY DEF Surjection
    <2> HIDE DEF f, T
    <2> QED BY <1>3, <2>1, FS_Surjection
  <1>5. Q \ T # {}
    <2> SUFFICES ASSUME Q \subseteq T PROVE FALSE
      BY DEF T
    <2> HIDE DEF T
    <2>1. Cardinality(Q) <= Cardinality(T) /\ Cardinality(T) \in Nat
      BY <1>4, FS_Subset, FS_CardinalityType
    <2>2. n \in 1 .. Cardinality(Q) /\ Cardinality(Q) \in Nat
      BY DEF Q
    <2> QED BY <1>4, <2>1, <2>2
  <1>6. c \in Q \ T
    <2>1. Q \ T \in SUBSET Queued(FirmKeys)
      BY <1>2
    <2> HIDE DEF T
    <2> QED BY <1>5, <2>1, ForemostIsOne
  <1> HIDE DEF c
  <1>7. Card(c) \in AllCards /\ Card(c).company = c
    BY <1>2, <1>6, CardHolds DEF AllCards
  <1>8. Card(c) \notin CardsOf(entries)
    BY <1>6, <1>7
  <1>9. /\ Append(entries, Card(c)) \in Seq(AllCards) /\ Len(Append(entries, Card(c))) = n
    <2>1. Len(Append(entries, Card(c))) = (n - 1) + 1 /\ Append(entries, Card(c)) \in Seq(AllCards)
      BY <1>1, <1>7, AppendProperties
    <2> QED BY <2>1
  <1>10. /\ CardsOf(Append(entries, Card(c))) = CardsOf(entries) \cup {Card(c)}
         /\ Once(Append(entries, Card(c)))
    BY <1>1, <1>7, <1>8, Appended
  <1>11. RowsSound(Append(entries, Card(c)), n, S)
    BY <1>1, <1>6, <1>9, <1>10 DEF RowsSound, Q
  <1> QED BY <1>7, <1>11 DEF c, Q

\* The queue is a list of its cards, each once.
LEMMA QueueListsAll ==
    ASSUME MatchesHeld, NEW S \in SUBSET FirmKeys
    PROVE  /\ QueueRows(S) \in Seq(AllCards) /\ Once(QueueRows(S))
           /\ CardsOf(QueueRows(S)) = {Card(c) : c \in Queued(S)}
  <1> DEFINE Q == Queued(S)
             N == Cardinality(Q)
             next(s) == Card(Foremost(Q \ {card.company : card \in CardsOf(s)}))
             step == [x \in (1 .. N) \X Seq(AllCards) |->
                        IF next(x[2]) \in AllCards THEN Append(x[2], next(x[2])) ELSE x[2]]
             Good(k) == k = [n \in 0 .. N |->
                                IF n = 0 THEN <<>> ELSE Append(k[n - 1], next(k[n - 1]))]
             made == CHOOSE k : Good(k)
             X == {Card(c) : c \in Q}
  <1>1. IsFiniteSet(Q) /\ N \in Nat
    <2>1. IsFiniteSet(FirmKeys) /\ Q \subseteq FirmKeys
      BY SelectionAssumption DEF Queued
    <2> HIDE DEF Q
    <2> QED BY <2>1, FS_Subset, FS_CardinalityType
  <1>10. QueueRows(S) = made[N]
    BY DEF QueueRows
  <1>r. ASSUME NEW n \in 1 .. N, NEW s, RowsSound(s, n - 1, S)
        PROVE  next(s) \in AllCards /\ RowsSound(Append(s, next(s)), n, S)
    BY <1>1, <1>r, RowAdded
  <1> HIDE DEF next
  <1>2. step \in [(1 .. N) \X Seq(AllCards) -> Seq(AllCards)]
    <2>1. ASSUME NEW x \in (1 .. N) \X Seq(AllCards)
          PROVE  (IF next(x[2]) \in AllCards THEN Append(x[2], next(x[2])) ELSE x[2]) \in Seq(AllCards)
      <3>1. x[2] \in Seq(AllCards)
        OBVIOUS
      <3> QED BY <3>1, AppendProperties
    <2> QED BY <2>1
  <1>4. ASSUME NEW n \in 1 .. N, NEW s \in Seq(AllCards), next(s) \in AllCards
        PROVE  step[<<n, s>>] = Append(s, next(s))
    BY <1>4
  <1> HIDE DEF step, N
  <1>b. IsStep(step, Seq(AllCards), N)
    BY <1>2 DEF IsStep
  <1>c. \E f : IsRun(f, step, Seq(AllCards), N, <<>>)
    BY <1>1, <1>b, NothingListed, Repeated
  <1>5. PICK f : IsRun(f, step, Seq(AllCards), N, <<>>)
    BY <1>c
  <1>5a. f \in [0 .. N -> Seq(AllCards)] /\ f[0] = <<>> /\ \A n \in 1 .. N : f[n] = step[<<n, f[n - 1]>>]
    BY <1>5 DEF IsRun
  <1>6. ASSUME NEW n \in 1 .. N, RowsSound(f[n - 1], n - 1, S)
        PROVE  RowsSound(f[n], n, S) /\ f[n] = Append(f[n - 1], next(f[n - 1]))
    <2>1. next(f[n - 1]) \in AllCards /\ RowsSound(Append(f[n - 1], next(f[n - 1])), n, S)
      BY <1>6, <1>r
    <2>2. f[n - 1] \in Seq(AllCards)
      BY <1>6 DEF RowsSound
    <2>3. f[n] = Append(f[n - 1], next(f[n - 1]))
      BY <1>4, <1>5a, <2>1, <2>2
    <2> QED BY <2>1, <2>3
  <1>7. \A n \in 0 .. N : RowsSound(f[n], n, S)
    <2> DEFINE P == [n \in 0 .. N |-> RowsSound(f[n], n, S)]
    <2>1. P \in [0 .. N -> BOOLEAN]
      BY DEF RowsSound
    <2>2. P[0]
      <3>1. RowsSound(<<>>, 0, S)
        BY NothingListed DEF RowsSound
      <3> QED BY <1>1, <1>5a, <3>1
    <2>3. ASSUME NEW n \in 1 .. N, P[n - 1] PROVE P[n]
      <3>1. n - 1 \in 0 .. N /\ n \in 0 .. N
        BY <1>1
      <3> QED BY <1>6, <2>3, <3>1
    <2> HIDE DEF P
    <2>4. \A n \in 0 .. N : P[n]
      BY <1>1, <2>1, <2>2, <2>3, HandedOn
    <2> QED BY <2>4 DEF P
  <1>8. \A n \in 1 .. N : f[n] = Append(f[n - 1], next(f[n - 1]))
    <2>1. \A n \in 1 .. N : n - 1 \in 0 .. N
      BY <1>1
    <2> QED BY <1>6, <1>7, <2>1
  <1>9. Good(made)
    <2>1. Good(f)
      <3>1. \A n \in 0 .. N : n = 0 \/ n \in 1 .. N
        BY <1>1
      <3>2. \A n \in 0 .. N : f[n] = IF n = 0 THEN <<>> ELSE Append(f[n - 1], next(f[n - 1]))
        BY <1>5a, <1>8, <3>1
      <3> QED BY <1>5a, <3>2
    <2> HIDE DEF Good
    <2> QED BY <2>1
  <1>11. made[0] = <<>> /\ \A n \in 1 .. N : made[n] = Append(made[n - 1], next(made[n - 1]))
    <2>1. 0 \in 0 .. N /\ \A n \in 1 .. N : n \in 0 .. N /\ n # 0
      BY <1>1
    <2> HIDE DEF made
    <2> QED BY <1>9, <2>1
  <1> HIDE DEF made, Good
  <1>12. RunsAlong(made, f, N)
    BY <1>5a, <1>8, <1>11 DEF RunsAlong
  <1>13. \A n \in 0 .. N : made[n] = f[n]
    BY <1>1, <1>12, SameFunction
  <1> DEFINE entries == QueueRows(S)
  <1>14. RowsSound(entries, N, S)
    BY <1>1, <1>7, <1>10, <1>13
  <1> HIDE DEF entries
  <1>15. entries \in Seq(AllCards) /\ Len(entries) = N /\ Once(entries) /\ CardsOf(entries) \subseteq X
    BY <1>14 DEF RowsSound
  <1>16. IsFiniteSet(X) /\ Cardinality(X) <= N /\ Cardinality(X) \in Nat
    <2> DEFINE g == [c \in Q |-> Card(c)]
    <2>1. g \in Surjection(Q, X)
      BY DEF Surjection
    <2> HIDE DEF g, X, Q
    <2>2. IsFiniteSet(X) /\ Cardinality(X) <= Cardinality(Q)
      BY <1>1, <2>1, FS_Surjection
    <2> QED BY <2>2, FS_CardinalityType DEF N
  <1>17. Cardinality(CardsOf(entries)) = N
    BY <1>15, LengthIsCardinality
  <1>18. CardsOf(entries) = X
    <2> HIDE DEF X
    <2>1. CardsOf(entries) \in SUBSET X
      BY <1>15
    <2>2. Cardinality(CardsOf(entries)) <= Cardinality(X)
          /\ (Cardinality(X) = Cardinality(CardsOf(entries)) => X = CardsOf(entries))
      BY <1>16, <2>1, FS_Subset
    <2> QED BY <1>1, <1>16, <1>17, <2>2
  <1> QED BY <1>15, <1>18 DEF entries
(* Selection: what the ranking does to the queue                              *)

\* A track's rows are all picked, and the pressure is soft.
LEMMA TrackKeepsItsCards ==
    ASSUME MatchesHeld, NEW entries \in Seq(AllCards), Once(entries), NEW t
    PROVE  /\ DiversifyTrack(entries, t) \in Seq(AllCards) /\ Once(DiversifyTrack(entries, t))
           /\ CardsOf(DiversifyTrack(entries, t)) = {card \in CardsOf(entries) : card.track = t}
           /\ \A i, j \in DOMAIN DiversifyTrack(entries, t) :
                 i < j => DiversifyTrack(entries, t)[j].priority - DiversifyTrack(entries, t)[i].priority <= 24
  <1> DEFINE T == {card \in CardsOf(entries) : card.track = t}
             pool == Keep(entries, T)
             list == DiversifyTrack(entries, t)
  <1>1. pool \in Seq(AllCards) /\ CardsOf(pool) = CardsOf(entries) \cap T /\ Once(pool)
    <2> HIDE DEF T
    <2> QED BY KeptOfList
  <1>2. CardsOf(pool) = T
    BY <1>1
  <1>3. list = Picks(pool)
    BY DEF DiversifyTrack
  <1> HIDE DEF T, pool, list
  <1>4. \A c \in AllCards : c.priority \in Nat
    BY CardsAreCards
  <1>5. PicksSound(list, Len(pool), pool, AllCards)
    BY <1>1, <1>3, <1>4, TrackIsPicked
  <1>6. /\ list \in Seq(AllCards) /\ Len(list) = Len(pool) /\ Once(list)
        /\ CardsOf(list) \subseteq CardsOf(pool)
    BY <1>5 DEF PicksSound
  <1>7. CardsOf(list) = CardsOf(pool)
    <2>1. /\ IsFiniteSet(CardsOf(pool)) /\ Cardinality(CardsOf(pool)) = Len(pool)
          /\ Cardinality(CardsOf(list)) = Len(pool)
      BY <1>1, <1>6, LengthIsCardinality
    <2>2. CardsOf(list) \in SUBSET CardsOf(pool)
      BY <1>6
    <2> QED BY <2>1, <2>2, FS_Subset
  <1>8. ASSUME NEW i \in DOMAIN list, NEW j \in DOMAIN list, i < j
        PROVE  list[j].priority - list[i].priority <= 24
    <2>1. DOMAIN list = 1 .. Len(pool) /\ Len(pool) \in Nat
      BY <1>6, LenProperties
    <2>2. list[j] \in CardsOf(pool)
      BY <1>7 DEF CardsOf
    <2>3. \A k \in 1 .. i - 1 : list[k] # list[j]
      <3> SUFFICES ASSUME NEW k \in 1 .. i - 1, list[k] = list[j] PROVE FALSE
        OBVIOUS
      <3>1. k \in DOMAIN list /\ k # j
        BY <1>8, <2>1
      <3> QED BY <1>6, <3>1 DEF Once
    <2>4. i \in 1 .. Len(pool)
      BY <2>1
    <2> QED BY <1>5, <2>2, <2>3, <2>4 DEF PicksSound
  <1> QED BY <1>2, <1>6, <1>7, <1>8 DEF list, T

LEMMA DiversifyKeepsAll ==
    ASSUME MatchesHeld, NEW entries \in Seq(AllCards), Once(entries)
    PROVE  /\ Diversify(entries) \in Seq(AllCards) /\ Once(Diversify(entries))
           /\ CardsOf(Diversify(entries)) = CardsOf(entries)
  <1> DEFINE a == DiversifyTrack(entries, 0)
             b == DiversifyTrack(entries, 1)
  <1>1. /\ a \in Seq(AllCards) /\ Once(a) /\ CardsOf(a) = {card \in CardsOf(entries) : card.track = 0}
        /\ b \in Seq(AllCards) /\ Once(b) /\ CardsOf(b) = {card \in CardsOf(entries) : card.track = 1}
    BY TrackKeepsItsCards
  <1>2. Diversify(entries) = a \o b
    BY DEF Diversify
  <1> HIDE DEF a, b
  <1>3. \A x \in CardsOf(a) : x \notin CardsOf(b)
    BY <1>1
  <1>4. a \o b \in Seq(AllCards) /\ CardsOf(a \o b) = CardsOf(a) \cup CardsOf(b) /\ Once(a \o b)
    BY <1>1, <1>3, JoinedLists
  <1>5. ASSUME NEW card \in CardsOf(entries) PROVE card.track \in {0, 1}
    <2>1. card \in AllCards
      <3>1. PICK i \in DOMAIN entries : card = entries[i]
        BY DEF CardsOf
      <3> QED BY <3>1, LenProperties, ElementOfSeq
    <2> QED BY <2>1, CardsAreCards
  <1>6. CardsOf(a) \cup CardsOf(b) = CardsOf(entries)
    <2>1. \A card \in CardsOf(entries) : card.track = 0 \/ card.track = 1
      BY <1>5
    <2> QED BY <1>1, <2>1
  <1> QED BY <1>2, <1>4, <1>6

\* A list and what of a larger one is not on it.
LEMMA RestBehind ==
    ASSUME NEW S, NEW list \in Seq(S), Once(list), NEW ranked \in Seq(S), Once(ranked),
           CardsOf(list) \subseteq CardsOf(ranked)
    PROVE  LET all == list \o Keep(ranked, CardsOf(ranked) \ CardsOf(list))
           IN  all \in Seq(S) /\ Once(all) /\ CardsOf(all) = CardsOf(ranked)
  <1> DEFINE T == CardsOf(ranked) \ CardsOf(list)
             rest == Keep(ranked, T)
  <1>1. rest \in Seq(S) /\ CardsOf(rest) = CardsOf(ranked) \cap T /\ Once(rest)
    <2> HIDE DEF T
    <2> QED BY KeptOfList
  <1>2. CardsOf(rest) = T
    BY <1>1
  <1>3. (\A x \in CardsOf(list) : x \notin CardsOf(rest))
    BY <1>2
  <1> HIDE DEF rest
  <1>4. list \o rest \in Seq(S) /\ CardsOf(list \o rest) = CardsOf(list) \cup CardsOf(rest)
        /\ Once(list \o rest)
    BY <1>1, <1>3, JoinedLists
  <1>5. CardsOf(list) \cup CardsOf(rest) = CardsOf(ranked)
    BY <1>2
  <1> QED BY <1>4, <1>5 DEF rest

LEMMA CappedKeepsAll ==
    ASSUME MatchesHeld, NEW entries \in Seq(AllCards), Once(entries)
    PROVE  /\ Capped(entries) \in Seq(AllCards) /\ Once(Capped(entries))
           /\ CardsOf(Capped(entries)) = CardsOf(entries)
  <1> DEFINE fits == Fits(entries)
  <1>1. fits \in Seq(AllCards) /\ CardsOf(fits) \subseteq CardsOf(entries) /\ Once(fits)
    BY WhatFits
  <1>2. Capped(entries) = fits \o Keep(entries, CardsOf(entries) \ CardsOf(fits))
    BY DEF Capped
  <1> HIDE DEF fits
  <1>3. LET all == fits \o Keep(entries, CardsOf(entries) \ CardsOf(fits))
        IN  all \in Seq(AllCards) /\ Once(all) /\ CardsOf(all) = CardsOf(entries)
    BY <1>1, RestBehind
  <1> QED BY <1>2, <1>3

\* The ranking only changes the order.
LEMMA RankedKeepsAll ==
    ASSUME MatchesHeld, NEW S \in SUBSET FirmKeys
    PROVE  /\ Ranked(S) \in Seq(AllCards) /\ Once(Ranked(S))
           /\ CardsOf(Ranked(S)) = {Card(c) : c \in Queued(S)}
  <1> DEFINE entries == QueueRows(S)
             ranked == Capped(Diversify(entries))
             T == LiveOf(ranked)
             alive == Keep(ranked, T)
  <1>1. entries \in Seq(AllCards) /\ Once(entries) /\ CardsOf(entries) = {Card(c) : c \in Queued(S)}
    BY QueueListsAll
  <1>2. ranked \in Seq(AllCards) /\ Once(ranked) /\ CardsOf(ranked) = CardsOf(entries)
    <2> HIDE DEF entries
    <2>1. Diversify(entries) \in Seq(AllCards) /\ Once(Diversify(entries)) /\ CardsOf(Diversify(entries)) = CardsOf(entries)
      BY <1>1, DiversifyKeepsAll
    <2> QED BY <2>1, CappedKeepsAll
  <1>3. Ranked(S) = alive \o Keep(ranked, CardsOf(ranked) \ T)
    BY DEF Ranked
  <1>4. T \subseteq CardsOf(ranked)
    BY DEF LiveOf
  <1> HIDE DEF ranked, T, entries
  <1>5. alive \in Seq(AllCards) /\ CardsOf(alive) = CardsOf(ranked) \cap T /\ Once(alive)
    BY <1>2, KeptOfList
  <1>6. CardsOf(alive) = T
    BY <1>4, <1>5
  <1> HIDE DEF alive
  <1>7. LET all == alive \o Keep(ranked, CardsOf(ranked) \ CardsOf(alive))
        IN  all \in Seq(AllCards) /\ Once(all) /\ CardsOf(all) = CardsOf(ranked)
    BY <1>2, <1>4, <1>5, <1>6, RestBehind
  <1> QED BY <1>1, <1>2, <1>3, <1>6, <1>7

------------------------------------------------------------------------------
(* Selection: Today is fair                                                   *)

LEMMA PressureHolds == MatchesHeld => PressureIsSoft
  <1> SUFFICES ASSUME MatchesHeld PROVE PressureIsSoft
    OBVIOUS
  <1> DEFINE entries == QueueRows(FirmKeys)
  <1>1. entries \in Seq(AllCards) /\ Once(entries)
    BY QueueListsAll
  <1> HIDE DEF entries
  <1>2. ASSUME NEW t \in {0, 1}
        PROVE  \A i, j \in DOMAIN DiversifyTrack(entries, t) :
                 i < j => DiversifyTrack(entries, t)[j].priority - DiversifyTrack(entries, t)[i].priority <= 24
    BY <1>1, TrackKeepsItsCards
  <1> QED BY <1>2 DEF PressureIsSoft, entries

LEMMA SharesHold == MatchesHeld => SharesAreKept
  <1> SUFFICES ASSUME MatchesHeld PROVE SharesAreKept
    OBVIOUS
  <1> DEFINE entries == QueueRows(FirmKeys)
             cards == Diversify(entries)
             fits == Fits(cards)
  <1>1. entries \in Seq(AllCards) /\ Once(entries)
    BY QueueListsAll
  <1>2. cards \in Seq(AllCards) /\ Once(cards)
    <2> HIDE DEF entries
    <2> QED BY <1>1, DiversifyKeepsAll
  <1>3. fits \in Seq(AllCards) /\ Shared(fits)
    <2> HIDE DEF cards
    <2> QED BY <1>2, WhatFits
  <1>4. fits = Fits(Diversify(QueueRows(FirmKeys)))
    OBVIOUS
  <1> HIDE DEF fits
  <1>5. DOMAIN fits = 1 .. Len(fits) /\ Len(fits) \in Nat /\ \A i \in 1 .. Len(fits) : fits[i] \in AllCards
    BY <1>3, LenProperties, ElementOfSeq
  <1>6. ASSUME NEW n \in DOMAIN fits, NEW i \in OfFund(fits, n, fits[n].fund)
        PROVE  LET share == (Share(fits[i].family) * Cardinality(OfFund(fits, n, fits[n].fund))) \div 100
               IN  Cardinality(OfFamily(fits, n, fits[n].fund, fits[i].family)) <=
                       IF SourceKey(fits[i].company) = "companies_house" THEN share ELSE Max({3, share})
    <2> DEFINE f == fits[n].fund
               g == fits[i].family
               total == Cardinality(OfFund(fits, n, f))
               mine == Cardinality(OfFamily(fits, n, f, g))
               share == (Share(g) * total) \div 100
    <2>1. n \in 0 .. Len(fits) /\ n \in Nat
      BY <1>5
    <2>2. mine <= AllowedCards(g, total)
      BY <1>3, <2>1 DEF Shared
    <2>3. total \in Nat /\ mine \in Nat
      BY <2>1, CountsAreFinite
    <2>4. i \in 1 .. Len(fits)
      BY <1>5, <2>1 DEF OfFund
    <2>5. fits[i] \in AllCards /\ g = Family(fits[i].company)
      BY <1>5, <2>4, CardsAreCards
    <2>6. AllowedCards(g, total) = Max({FreeCards(g), share})
      BY DEF AllowedCards
    <2>7. share \in Nat
      <3>1. Share(g) \in Nat
        BY SelectionAssumption DEF Share
      <3> HIDE DEF total
      <3>2. Share(g) * total \in Nat
        BY <2>3, <3>1
      <3> DEFINE x == Share(g) * total
      <3>3. x \div 100 \in Nat
        <4>1. x \in Nat
          BY <3>2
        <4> HIDE DEF x
        <4> QED BY <4>1
      <3> QED BY <3>3
    <2>8. FreeCards(g) = 0 \/ FreeCards(g) = 3
      BY DEF FreeCards
    <2>9. SourceKey(fits[i].company) = "companies_house" => FreeCards(g) = 0
      <3>1. SourceKey(fits[i].company) = "companies_house" => g = "registry"
        BY <2>5 DEF Family, Grants
      <3> QED BY <3>1 DEF FreeCards
    <2> HIDE DEF share, mine
    <2>10. /\ Max({0, share}) = share
           /\ Max({3, share}) = IF 3 < share THEN share ELSE 3
      <3>1. Max({0, share}) = IF 0 < share THEN share ELSE 0
        BY <2>7, GreaterOfTwo
      <3>2. Max({3, share}) = IF 3 < share THEN share ELSE 3
        BY <2>7, GreaterOfTwo
      <3> QED BY <2>7, <3>1, <3>2
    <2>11. share <= Max({3, share})
      BY <2>7, <2>10
    <2>12. mine <= IF SourceKey(fits[i].company) = "companies_house" THEN share ELSE Max({3, share})
      <3>1. CASE FreeCards(g) = 0
        <4>1. mine <= share
          BY <2>2, <2>6, <2>10, <3>1
        <4> QED BY <2>3, <2>7, <2>10, <2>11, <4>1
      <3>2. CASE FreeCards(g) = 3
        <4>1. mine <= Max({3, share})
          BY <2>2, <2>6, <3>2
        <4> QED BY <2>9, <3>2, <4>1
      <3> QED BY <2>8, <3>1, <3>2
    <2> QED BY <2>12 DEF share, mine
  <1>7. SharedOut(fits)
    BY <1>6 DEF SharedOut
  <1> QED BY <1>4, <1>7 DEF SharesAreKept

LEMMA SurfacesAgree ==
    ASSUME MatchesHeld, passed \subseteq FirmKeys
    PROVE  SurfacesShowTheSame
  <1> DEFINE queue == Ranked(FirmKeys)
             mine == Ranked(passed)
             C == {card \in CardsOf(queue) : card.company \in passed}
             checked == Keep(queue, C)
  <1>1. /\ queue \in Seq(AllCards) /\ Once(queue) /\ CardsOf(queue) = {Card(c) : c \in Queued(FirmKeys)}
    BY RankedKeepsAll
  <1>2. /\ mine \in Seq(AllCards) /\ Once(mine) /\ CardsOf(mine) = {Card(c) : c \in Queued(passed)}
    BY RankedKeepsAll
  <1>3. SheetCards = Focused(checked) /\ Dashboard = Focused(mine)
    BY DEF SheetCards, Dashboard
  <1>4. PingShown = {card \in C : Live(card)}
    BY DEF PingShown
  <1>5. C = {Card(c) : c \in Queued(passed)}
    <2> HIDE DEF queue
    <2>1. ASSUME NEW card \in C PROVE card \in {Card(c) : c \in Queued(passed)}
      <3>1. PICK c \in Queued(FirmKeys) : card = Card(c)
        BY <1>1
      <3>2. card.company = c
        BY <3>1, CardHolds
      <3>3. c \in Queued(passed)
        BY <3>2 DEF Queued
      <3> QED BY <3>1, <3>3
    <2>2. ASSUME NEW c \in Queued(passed) PROVE Card(c) \in C
      <3>1. c \in Queued(FirmKeys) /\ c \in passed
        BY DEF Queued
      <3>2. Card(c).company = c
        BY <3>1, CardHolds
      <3> QED BY <1>1, <3>1, <3>2
    <2> QED BY <2>1, <2>2
  <1> HIDE DEF queue, mine
  <1>6. checked \in Seq(AllCards) /\ Once(checked) /\ CardsOf(checked) = C
    <2>1. C \subseteq CardsOf(queue)
      OBVIOUS
    <2> HIDE DEF C
    <2>2. Keep(queue, C) \in Seq(AllCards) /\ CardsOf(Keep(queue, C)) = CardsOf(queue) \cap C
          /\ Once(Keep(queue, C))
      BY <1>1, KeptOfList
    <2> QED BY <2>1, <2>2
  <1> HIDE DEF checked, C
  <1>7. ASSUME NEW list \in Seq(AllCards), Once(list)
        PROVE  /\ Focused(list) \in Seq(AllCards) /\ Once(Focused(list))
               /\ CardsOf(Focused(list)) =
                      IF Focus = None THEN CardsOf(list) ELSE {card \in CardsOf(list) : Live(card)}
    <2>1. CASE Focus = None
      BY <1>7, <2>1 DEF Focused
    <2>2. CASE Focus # None
      <3>1. Focused(list) = Keep(list, LiveOf(list))
        BY <2>2 DEF Focused
      <3>2. /\ Keep(list, LiveOf(list)) \in Seq(AllCards)
            /\ CardsOf(Keep(list, LiveOf(list))) = CardsOf(list) \cap LiveOf(list)
            /\ Once(Keep(list, LiveOf(list)))
        BY <1>7, KeptOfList
      <3>3. CardsOf(list) \cap LiveOf(list) = {card \in CardsOf(list) : Live(card)}
        BY DEF LiveOf
      <3> QED BY <2>2, <3>1, <3>2, <3>3
    <2> QED BY <2>1, <2>2
  <1>8. CardsOf(mine) = C
    BY <1>2, <1>5
  <1>9. /\ Dashboard \in Seq(AllCards) /\ Once(Dashboard)
        /\ CardsOf(Dashboard) = IF Focus = None THEN C ELSE {card \in C : Live(card)}
    BY <1>2, <1>3, <1>7, <1>8
  <1>10. /\ SheetCards \in Seq(AllCards) /\ Once(SheetCards)
         /\ CardsOf(SheetCards) = IF Focus = None THEN C ELSE {card \in C : Live(card)}
    BY <1>3, <1>6, <1>7
  <1>11. CardsOf(Dashboard) = CardsOf(SheetCards)
    BY <1>9, <1>10
  <1>12. /\ Cardinality(CardsOf(Dashboard)) = Len(Dashboard)
         /\ Cardinality(CardsOf(SheetCards)) = Len(SheetCards)
    BY <1>9, <1>10, LengthIsCardinality
  <1>13. Focus # None => CardsOf(Dashboard) = PingShown
    BY <1>4, <1>9
  <1> QED BY <1>11, <1>12, <1>13 DEF SurfacesShowTheSame

LEMMA TodayHolds == MatchesHeld /\ passed \subseteq FirmKeys => TodayIsFair
  BY PressureHolds, SharesHold, SurfacesAgree DEF TodayIsFair
------------------------------------------------------------------------------
(* Selection: the steps                                                       *)

\* The matches are those of scores, what is checked is a company, and a fund
\* in focus was asked for, whichever half of whose request is still to come.
SelectionInv ==
    /\ MatchesHeld
    /\ passed \subseteq FirmKeys
    /\ focus = [fund |-> focus.fund, until |-> focus.until, plan |-> focus.plan]
    /\ focus.fund # None => \E a \in focusAsked : a.fund = focus.fund

LEMMA SelectionStart == SelectionInit => SelectionInv
  <1> SUFFICES ASSUME SelectionInit PROVE SelectionInv
    OBVIOUS
  <1>1. matches \in [FirmKeys -> SUBSET AllFunds] /\ \A c \in FirmKeys : matches[c] \subseteq FundsOf(c)
    BY DEF SelectionInit, AllFunds
  <1>2. focus.fund = None /\ focus = [fund |-> focus.fund, until |-> focus.until, plan |-> focus.plan]
    BY DEF SelectionInit
  <1>3. passed \subseteq FirmKeys
    BY DEF SelectionInit
  <1> QED BY <1>1, <1>2, <1>3 DEF SelectionInv, MatchesHeld

LEMMA SelectionKeeps == SelectionInv /\ [SelectionNext]_selectionVars => SelectionInv'
  <1> SUFFICES ASSUME SelectionInv, [SelectionNext]_selectionVars PROVE SelectionInv'
    OBVIOUS
  <1>0. /\ MatchesHeld /\ passed \subseteq FirmKeys
        /\ focus = [fund |-> focus.fund, until |-> focus.until, plan |-> focus.plan]
        /\ focus.fund # None => \E a \in focusAsked : a.fund = focus.fund
    BY DEF SelectionInv
  <1>f. ASSUME UNCHANGED focus
        PROVE  focus' = [fund |-> focus'.fund, until |-> focus'.until, plan |-> focus'.plan]
    BY <1>0, <1>f
  <1>m. ASSUME UNCHANGED matches PROVE MatchesHeld'
    BY <1>0, <1>m DEF MatchesHeld, FundsOf, AllFunds, FirmKeys
  <1>1. ASSUME NEW k \in FocusClients, NEW f \in AllFunds, NEW length \in 1 .. 2, SetFund(k, f, length)
        PROVE  SelectionInv'
    <2>1. /\ UNCHANGED <<matches, passed>>
          /\ focus' = [focus EXCEPT !.fund = f]
          /\ focusAsked' = focusAsked \cup {[fund |-> f, until |-> today + length - 1]}
      BY <1>1 DEF SetFund
    <2>2. focus' = [fund |-> f, until |-> focus.until, plan |-> focus.plan]
      BY <1>0, <2>1
    <2>3. [fund |-> f, until |-> today + length - 1] \in focusAsked'
          /\ [fund |-> f, until |-> today + length - 1].fund = f
      BY <2>1
    <2>4. focus'.fund = f /\ focus' = [fund |-> focus'.fund, until |-> focus'.until, plan |-> focus'.plan]
      BY <2>2
    <2>5. \E a \in focusAsked' : a.fund = focus'.fund
      BY <2>3, <2>4
    <2> QED BY <1>0, <1>m, <2>1, <2>4, <2>5 DEF SelectionInv
  <1>2. ASSUME NEW k \in FocusClients, ClearFund(k) PROVE SelectionInv'
    <2>1. UNCHANGED <<matches, passed>> /\ focus' = [focus EXCEPT !.fund = None]
      BY <1>2 DEF ClearFund
    <2>2. focus' = [fund |-> None, until |-> focus.until, plan |-> focus.plan]
      BY <1>0, <2>1
    <2>3. focus'.fund = None /\ focus' = [fund |-> focus'.fund, until |-> focus'.until, plan |-> focus'.plan]
      BY <2>2
    <2> QED BY <1>0, <1>m, <2>1, <2>3 DEF SelectionInv
  <1>3. ASSUME NEW k \in FocusClients, SetUntil(k) PROVE SelectionInv'
    <2>1. /\ UNCHANGED <<matches, passed, focusAsked>>
          /\ focus' = [focus EXCEPT !.until = client[k].until]
      BY <1>3 DEF SetUntil
    <2>2. focus' = [fund |-> focus.fund, until |-> client[k].until, plan |-> focus.plan]
      BY <1>0, <2>1
    <2>3. /\ focus'.fund = focus.fund
          /\ focus' = [fund |-> focus'.fund, until |-> focus'.until, plan |-> focus'.plan]
      BY <2>2
    <2> QED BY <1>0, <1>m, <2>1, <2>3 DEF SelectionInv
  <1>4. ASSUME NEW plan \in Plans, SetRotation(plan) PROVE SelectionInv'
    <2>1. /\ UNCHANGED <<matches, passed, focusAsked>>
          /\ focus' = [focus EXCEPT !.plan = plan]
      BY <1>4 DEF SetRotation
    <2>2. focus' = [fund |-> focus.fund, until |-> focus.until, plan |-> plan]
      BY <1>0, <2>1
    <2>3. /\ focus'.fund = focus.fund
          /\ focus' = [fund |-> focus'.fund, until |-> focus'.until, plan |-> focus'.plan]
      BY <2>2
    <2> QED BY <1>0, <1>m, <2>1, <2>3 DEF SelectionInv
  <1>5. ASSUME NEW c \in FirmKeys, NEW funds \in SUBSET FundsOf(c), Rescored(c, funds)
        PROVE  SelectionInv'
    <2>1. /\ UNCHANGED <<passed, focus, focusAsked>>
          /\ matches' = [matches EXCEPT ![c] = funds]
      BY <1>5 DEF Rescored
    <2>2. funds \in SUBSET AllFunds
      BY DEF AllFunds
    <2>3. matches' \in [FirmKeys -> SUBSET AllFunds]
      BY <1>0, <2>1, <2>2 DEF MatchesHeld
    <2>4. \A d \in FirmKeys : matches'[d] \subseteq FundsOf(d)
      BY <1>0, <2>1 DEF MatchesHeld
    <2>5. MatchesHeld'
      BY <2>3, <2>4 DEF MatchesHeld, FundsOf, AllFunds, FirmKeys
    <2> QED BY <1>0, <1>f, <2>1, <2>5 DEF SelectionInv
  <1>6. ASSUME NEW c \in FirmKeys, CheckPasses(c) PROVE SelectionInv'
    <2>1. UNCHANGED <<matches, focus, focusAsked>> /\ passed' = SymDiff(passed, {c})
      BY <1>6 DEF CheckPasses
    <2>2. passed' \subseteq FirmKeys
      BY <1>0, <2>1 DEF SymDiff
    <2> QED BY <1>0, <1>f, <1>m, <2>1, <2>2 DEF SelectionInv
  <1>7. ASSUME UNCHANGED <<matches, passed, focus, focusAsked>> PROVE SelectionInv'
    BY <1>0, <1>f, <1>m, <1>7 DEF SelectionInv
  <1>8. ASSUME NEW k \in FocusClients, Killed(k) PROVE SelectionInv'
    BY <1>7, <1>8 DEF Killed
  <1>9. ASSUME NextSelectionDay PROVE SelectionInv'
    BY <1>7, <1>9 DEF NextSelectionDay
  <1>10. CASE UNCHANGED selectionVars
    BY <1>7, <1>10 DEF selectionVars
  <1> QED BY <1>1, <1>2, <1>3, <1>4, <1>5, <1>6, <1>8, <1>9, <1>10 DEF SelectionNext

LEMMA SelectionHolds == SelectionInv => TodayIsFair /\ FocusWasAskedFor
  <1>1. SelectionInv => TodayIsFair
    BY TodayHolds DEF SelectionInv
  <1>2. SelectionInv => FocusWasAskedFor
    BY DEF SelectionInv, FocusWasAskedFor, Explicit
  <1> QED BY <1>1, <1>2

\* Today's queue is fair however matches, checks and the focus change: within a
\* track a card is never behind one more than twelve points below it, no family
\* has more of a fund's first cards than its share, and the dashboard, the Sheet
\* and the ping of a focus fund show the same cards, each once; and a focus is
\* on a fund asked for since the last clear, however two requests interleave.
THEOREM QueueStaysFair == SelectionSpec => [](TodayIsFair /\ FocusWasAskedFor)
  <1>1. SelectionInv => TodayIsFair /\ FocusWasAskedFor
    BY SelectionHolds
  <1> QED BY SelectionStart, SelectionKeeps, <1>1, PTL DEF SelectionSpec
------------------------------------------------------------------------------
(* Weights: the columns of the Lists tab                                      *)

\* Filled's recursion, as a function that exists.
FilledRun(filled, column, S) ==
    /\ filled \in [0 .. Len(column) -> Seq(S)]
    /\ filled[0] = <<>>
    /\ \A n \in 1 .. Len(column) :
          filled[n] = IF column[n] = Blank THEN filled[n - 1] ELSE Append(filled[n - 1], column[n])
    /\ Filled(column) = filled[Len(column)]

LEMMA FilledSteps ==
    ASSUME NEW S, NEW column \in Seq(S)
    PROVE  \E filled : FilledRun(filled, column, S)
  <1> DEFINE N == Len(column)
             step == [x \in (1 .. N) \X Seq(S) |->
                        IF column[x[1]] = Blank THEN x[2] ELSE Append(x[2], column[x[1]])]
             Good(k) == k = [n \in 0 .. N |->
                                IF n = 0 THEN <<>>
                                ELSE IF column[n] = Blank THEN k[n - 1]
                                     ELSE Append(k[n - 1], column[n])]
             made == CHOOSE k : Good(k)
  <1>1. N \in Nat /\ \A n \in 1 .. N : column[n] \in S
    BY LenProperties, ElementOfSeq
  <1>2. step \in [(1 .. N) \X Seq(S) -> Seq(S)]
    <2>1. ASSUME NEW x \in (1 .. N) \X Seq(S)
          PROVE  (IF column[x[1]] = Blank THEN x[2] ELSE Append(x[2], column[x[1]])) \in Seq(S)
      <3>1. x[1] \in 1 .. N /\ x[2] \in Seq(S) /\ column[x[1]] \in S
        BY <1>1
      <3> QED BY <3>1, AppendProperties
    <2> QED BY <2>1
  <1>3. <<>> \in Seq(S)
    BY EmptySeq
  <1>4. ASSUME NEW n \in 1 .. N, NEW s \in Seq(S)
        PROVE  step[<<n, s>>] = IF column[n] = Blank THEN s ELSE Append(s, column[n])
    OBVIOUS
  <1>a. N = Len(column)
    OBVIOUS
  <1> HIDE DEF step, N
  <1>b. IsStep(step, Seq(S), N)
    BY <1>2 DEF IsStep
  <1>c. \E f : IsRun(f, step, Seq(S), N, <<>>)
    BY <1>1, <1>3, <1>b, Repeated
  <1>5. PICK f \in [0 .. N -> Seq(S)] : f[0] = <<>> /\ \A n \in 1 .. N : f[n] = step[<<n, f[n - 1]>>]
    BY <1>c DEF IsRun
  <1>6. ASSUME NEW n \in 1 .. N
        PROVE  f[n] = IF column[n] = Blank THEN f[n - 1] ELSE Append(f[n - 1], column[n])
    <2>1. n - 1 \in 0 .. N
      BY <1>1
    <2>2. f[n - 1] \in Seq(S)
      BY <2>1
    <2> QED BY <1>4, <1>5, <2>2
  <1>7. Good(f)
    <2>1. \A n \in 0 .. N : n = 0 \/ n \in 1 .. N
      BY <1>1
    <2>2. \A n \in 0 .. N : f[n] = IF n = 0 THEN <<>>
                ELSE IF column[n] = Blank THEN f[n - 1] ELSE Append(f[n - 1], column[n])
      BY <1>5, <1>6, <2>1
    <2> QED BY <2>2
  <1>8. Good(made)
    <2> HIDE DEF Good
    <2> QED BY <1>7
  <1>9. Filled(column) = made[N]
    BY DEF Filled, N
  <1>10. made[0] = <<>> /\ \A n \in 1 .. N :
            made[n] = IF column[n] = Blank THEN made[n - 1] ELSE Append(made[n - 1], column[n])
    <2>1. 0 \in 0 .. N /\ \A n \in 1 .. N : n \in 0 .. N /\ n # 0
      BY <1>1
    <2> HIDE DEF made
    <2> QED BY <1>8, <2>1
  <1> HIDE DEF made, Good
  <1>11. RunsAlong(made, f, N)
    BY <1>5, <1>6, <1>10 DEF RunsAlong
  <1>12. Filled(column) = f[N]
    <2>1. \A n \in 0 .. N : made[n] = f[n]
      BY <1>1, <1>11, SameFunction
    <2> QED BY <1>1, <1>9, <2>1
  <1> QED BY <1>5, <1>6, <1>12 DEF N, FilledRun

\* Without a gap in its first i cells a column keeps them, and what follows comes from
\* further down; s is what is kept of its first n cells.
KeepsFirst(s, column, i, n) ==
    /\ n <= i => Len(s) = n /\ \A j \in 1 .. n : s[j] = column[j]
    /\ n >= i => /\ Len(s) >= i
                 /\ \A j \in 1 .. i : s[j] = column[j]
                 /\ \A k \in i + 1 .. Len(s) : \E j \in i + 1 .. n : s[k] = column[j]

LEMMA FilledKeepsFirst ==
    ASSUME NEW S, NEW column \in Seq(S), NEW i \in 0 .. Len(column),
           \A j \in 1 .. i : column[j] # Blank
    PROVE  Filled(column) \in Seq(S) /\ KeepsFirst(Filled(column), column, i, Len(column))
  <1> DEFINE N == Len(column)
  <1>1. N \in Nat /\ i \in Nat /\ i <= N /\ \A n \in 1 .. N : column[n] \in S
    BY LenProperties, ElementOfSeq
  <1>a. \E filled : FilledRun(filled, column, S)
    BY FilledSteps
  <1>2. PICK filled \in [0 .. N -> Seq(S)] :
              /\ filled[0] = <<>>
              /\ \A n \in 1 .. N :
                    filled[n] = IF column[n] = Blank THEN filled[n - 1]
                                ELSE Append(filled[n - 1], column[n])
              /\ Filled(column) = filled[N]
    BY <1>a DEF FilledRun
  <1> DEFINE P == [n \in 0 .. N |-> KeepsFirst(filled[n], column, i, n)]
  <1>b. N = Len(column)
    OBVIOUS
  <1> HIDE DEF N
  <1>3. P \in [0 .. N -> BOOLEAN]
    BY DEF KeepsFirst
  <1>4. P[0]
    <2>1. 0 \in 0 .. N /\ Len(filled[0]) = 0
      BY <1>1, <1>2, EmptySeq
    <2>2. KeepsFirst(filled[0], column, i, 0)
      BY <1>1, <2>1 DEF KeepsFirst
    <2> QED BY <2>1, <2>2
  <1>5. ASSUME NEW n \in 1 .. N, P[n - 1] PROVE P[n]
    <2>1. n - 1 \in 0 .. N /\ n \in 0 .. N /\ n \in Nat /\ filled[n - 1] \in Seq(S) /\ column[n] \in S
      BY <1>1
    <2> DEFINE s == filled[n - 1]
               t == filled[n]
    <2>2. KeepsFirst(s, column, i, n - 1)
      BY <1>5, <2>1
    <2>3. Len(s) \in Nat
      BY <2>1, LenProperties
    <2>4. t = IF column[n] = Blank THEN s ELSE Append(s, column[n])
      BY <1>2
    <2>5. CASE column[n] = Blank
      <3>1. ~(n \in 1 .. i)
        BY <2>5
      <3>2. n - 1 >= i /\ t = s
        BY <1>1, <2>1, <2>4, <2>5, <3>1
      <3> HIDE DEF s, t
      <3>3. KeepsFirst(t, column, i, n)
        BY <1>1, <2>1, <2>2, <2>3, <3>2 DEF KeepsFirst
      <3> QED BY <2>1, <3>3 DEF t
    <2>6. CASE column[n] # Blank
      <3>1. /\ Len(t) = Len(s) + 1 /\ t[Len(s) + 1] = column[n]
            /\ \A k \in 1 .. Len(s) : t[k] = s[k]
        BY <2>1, <2>4, <2>6, AppendProperties
      <3> HIDE DEF s, t
      <3>2. CASE n <= i
        <4>1. n - 1 <= i
          BY <1>1, <2>1, <3>2
        <4>2. Len(s) = n - 1 /\ \A j \in 1 .. n - 1 : s[j] = column[j]
          BY <2>2, <4>1 DEF KeepsFirst
        <4>3. Len(t) = n
          BY <2>1, <3>1, <4>2
        <4>4. \A j \in 1 .. n : t[j] = column[j]
          <5>1. ASSUME NEW j \in 1 .. n PROVE t[j] = column[j]
            <6>1. CASE j = n
              BY <2>1, <3>1, <4>2, <6>1
            <6>2. CASE j \in 1 .. n - 1
              BY <3>1, <4>2, <6>2
            <6> QED BY <2>1, <6>1, <6>2
          <5> QED BY <5>1
        <4>5. n >= i => n = i
          BY <1>1, <2>1, <3>2
        <4>6. \A k \in i + 1 .. Len(t) : n # i
          BY <1>1, <2>1, <4>3
        <4>7. KeepsFirst(t, column, i, n)
          BY <4>3, <4>4, <4>5, <4>6, <1>1, <2>1 DEF KeepsFirst
        <4> QED BY <2>1, <4>7 DEF t
      <3>3. CASE n > i
        <4>1. n - 1 >= i /\ ~(n <= i)
          BY <1>1, <2>1, <3>3
        <4>2. /\ Len(s) >= i /\ \A j \in 1 .. i : s[j] = column[j]
              /\ \A k \in i + 1 .. Len(s) : \E j \in i + 1 .. n - 1 : s[k] = column[j]
          BY <2>2, <4>1 DEF KeepsFirst
        <4>3. Len(t) >= i /\ \A j \in 1 .. i : t[j] = column[j]
          <5>1. \A j \in 1 .. i : j \in 1 .. Len(s)
            BY <1>1, <2>3, <4>2
          <5>2. Len(t) >= i
            BY <1>1, <2>3, <3>1, <4>2
          <5> QED BY <3>1, <4>2, <5>1, <5>2
        <4>4. ASSUME NEW k \in i + 1 .. Len(t) PROVE \E j \in i + 1 .. n : t[k] = column[j]
          <5>1. CASE k = Len(s) + 1
            <6>1. n \in i + 1 .. n
              BY <1>1, <2>1, <3>3
            <6> QED BY <3>1, <5>1, <6>1
          <5>2. CASE k \in i + 1 .. Len(s)
            <6>1. PICK j \in i + 1 .. n - 1 : s[k] = column[j]
              BY <4>2, <5>2
            <6>2. j \in i + 1 .. n
              BY <1>1, <2>1
            <6>3. t[k] = s[k]
              BY <1>1, <2>3, <3>1, <5>2
            <6> QED BY <6>1, <6>2, <6>3
          <5> QED BY <1>1, <2>3, <3>1, <5>1, <5>2
        <4>5. KeepsFirst(t, column, i, n)
          BY <4>1, <4>3, <4>4 DEF KeepsFirst
        <4> QED BY <2>1, <4>5 DEF t
      <3> QED BY <1>1, <2>1, <3>2, <3>3
    <2> QED BY <2>5, <2>6
  <1>6. \A n \in 0 .. N : P[n]
    <2> HIDE DEF P
    <2> QED BY <1>1, <1>3, <1>4, <1>5, HandedOn
  <1>7. N \in 0 .. N
    BY <1>1
  <1>8. KeepsFirst(filled[N], column, i, N) /\ filled[N] \in Seq(S)
    BY <1>6, <1>7
  <1> QED BY <1>2, <1>8, <1>b

\* The columns of the lines as they are edited.
LinesOf(lines) == {<<lines[i][1], lines[i][2]>> : i \in DOMAIN lines}

LEMMA ColumnsOfLines ==
    ASSUME NEW lines, lines \in Seq(LinesOf(lines)), NEW k \in 1 .. 2
    PROVE  \E S : /\ Column(lines, k) \in Seq(S)
                  /\ Len(Column(lines, k)) = Len(lines)
                  /\ Len(lines) \in Nat /\ DOMAIN lines = 1 .. Len(lines)
                  /\ \A i \in DOMAIN lines : Column(lines, k)[i] = lines[i][k]
  <1>1. Len(lines) \in Nat /\ DOMAIN lines = 1 .. Len(lines)
    BY LenProperties
  <1> DEFINE S == {lines[i][k] : i \in DOMAIN lines}
             c == Column(lines, k)
  <1>2. c \in [1 .. Len(lines) -> S]
    BY <1>1 DEF Column
  <1>3. c \in Seq(S)
    BY <1>1, <1>2, SeqDef
  <1>4. DOMAIN c = 1 .. Len(lines)
    BY <1>2
  <1>5. Len(c) = Len(lines)
    BY <1>1, <1>3, <1>4, LenProperties
  <1>6. \A i \in DOMAIN lines : c[i] = lines[i][k]
    BY DEF Column
  <1> QED BY <1>1, <1>3, <1>5, <1>6

\* As far down as there is no gap, a code has the sector beside it or one further down.
LEMMA PairsAreRead ==
    ASSUME NEW lines, lines \in Seq(LinesOf(lines)),
           \A i \in DOMAIN lines : lines[i][2] # Stray,
           NEW i \in DOMAIN lines, \A j \in 1 .. i : Complete(lines[j])
    PROVE  \/ lines[i] \in ReadSic(lines)
           \/ \E k \in DOMAIN lines : k > i /\ lines[k][1] = lines[i][1]
  <1> DEFINE N == Len(lines)
             c == Column(lines, 1)
             s == Column(lines, 2)
             codes == Filled(c)
             sectors == Filled(s)
             paired == {k \in DOMAIN codes : k \in DOMAIN sectors}
             standing == {j \in paired : \A k \in paired : codes[k] = codes[j] => k <= j}
             table == {<<codes[k], sectors[k]>> : k \in standing}
  <1> SUFFICES ASSUME ~\E k \in DOMAIN lines : k > i /\ lines[k][1] = lines[i][1]
               PROVE  lines[i] \in ReadSic(lines)
    OBVIOUS
  <1>1. PICK S : /\ c \in Seq(S) /\ Len(c) = N /\ N \in Nat /\ DOMAIN lines = 1 .. N
                 /\ \A k \in DOMAIN lines : c[k] = lines[k][1]
    BY ColumnsOfLines, 1 \in 1 .. 2
  <1>2. PICK T : /\ s \in Seq(T) /\ Len(s) = N
                 /\ \A k \in DOMAIN lines : s[k] = lines[k][2]
    BY ColumnsOfLines, 2 \in 1 .. 2
  <1>3. i \in Nat /\ i >= 1 /\ i <= N /\ i \in 0 .. Len(c) /\ i \in 0 .. Len(s) /\ 0 \in 0 .. Len(s)
    BY <1>1, <1>2
  <1>4. \A j \in 1 .. i : j \in DOMAIN lines /\ c[j] # Blank /\ s[j] # Blank
    BY <1>1, <1>2, <1>3 DEF Complete
  <1>a. Len(c) = N /\ Len(s) = N
    BY <1>1, <1>2
  <1> HIDE DEF c, s
  <1>5. codes \in Seq(S) /\ KeepsFirst(codes, c, i, N)
    BY <1>1, <1>3, <1>4, <1>a, FilledKeepsFirst
  <1>6. sectors \in Seq(T) /\ KeepsFirst(sectors, s, i, N)
    BY <1>2, <1>3, <1>4, <1>a, FilledKeepsFirst
  <1>7. KeepsFirst(sectors, s, 0, N)
    <2>1. \A j \in 1 .. 0 : s[j] # Blank
      OBVIOUS
    <2> QED BY <1>2, <1>3, <1>a, <2>1, FilledKeepsFirst
  <1> HIDE DEF codes, sectors
  <1>8. /\ Len(codes) \in Nat /\ DOMAIN codes = 1 .. Len(codes)
        /\ Len(sectors) \in Nat /\ DOMAIN sectors = 1 .. Len(sectors)
    BY <1>5, <1>6, LenProperties
  <1>9. ASSUME NEW k \in paired PROVE sectors[k] # Stray
    <2>1. \A m \in 0 + 1 .. Len(sectors) : \E j \in 0 + 1 .. N : sectors[m] = s[j]
      BY <1>1, <1>7 DEF KeepsFirst
    <2>2. PICK j \in 1 .. N : sectors[k] = s[j]
      BY <1>8, <2>1
    <2> QED BY <1>1, <1>2, <2>2
  <1>10. i \in paired /\ codes[i] = lines[i][1] /\ sectors[i] = lines[i][2]
    <2>1. Len(codes) >= i /\ Len(sectors) >= i /\ codes[i] = c[i] /\ sectors[i] = s[i]
      BY <1>1, <1>3, <1>5, <1>6 DEF KeepsFirst
    <2> QED BY <1>1, <1>2, <1>3, <1>8, <2>1
  <1>11. ASSUME NEW k \in paired, codes[k] = codes[i] PROVE k <= i
    <2> SUFFICES ASSUME ~(k <= i) PROVE FALSE
      OBVIOUS
    <2>1. k \in i + 1 .. Len(codes)
      BY <1>3, <1>8
    <2>2. PICK j \in i + 1 .. N : codes[k] = c[j]
      BY <1>1, <1>3, <1>5, <2>1 DEF KeepsFirst
    <2>3. j \in DOMAIN lines /\ j > i
      BY <1>1, <1>3
    <2> QED BY <1>1, <1>10, <1>11, <2>2, <2>3
  <1>12. i \in standing
    BY <1>10, <1>11
  <1>13. <<lines[i][1], lines[i][2]>> \in table
    BY <1>10, <1>12
  <1>14. lines[i] = <<lines[i][1], lines[i][2]>>
    <2>1. lines[i] \in LinesOf(lines)
      BY ElementOfSeq, <1>1
    <2> QED BY <2>1 DEF LinesOf
  <1>15. SicMap(codes, sectors) = table
    BY <1>9 DEF SicMap
  <1>16. ReadSic(lines) = IF table = {} THEN DefaultSic ELSE table
    BY <1>15 DEF ReadSic, codes, sectors, c, s
  <1> QED BY <1>13, <1>14, <1>16

------------------------------------------------------------------------------
(* Weights: what a configuration holds                                        *)

\* A weight of the matrix, and one of the importance block.
IsWeight(m) ==
    /\ m = <<m[1], m[2], m[3], m[4]>>
    /\ m[1] \in WeighedAttributes /\ m[3] # Label /\ m[4] \in 0 .. 4

IsImportance(m) ==
    /\ m = <<m[1], m[2], m[3]>>
    /\ m[1] \in WeighedAttributes /\ m[2] # Label /\ m[3] \in 0 .. 10

\* A configuration under the keys of the funds.
IsConfig(cfg) ==
    cfg = [matrix |-> cfg.matrix, importance |-> cfg.importance, policy |-> cfg.policy,
           values |-> cfg.values, sic |-> cfg.sic, funds |-> cfg.funds]

IsKeyed(cfg) ==
    /\ IsConfig(cfg)
    /\ \A m \in cfg.matrix : IsWeight(m)
    /\ \A m \in cfg.importance : IsImportance(m)

\* Its weights are weights that somebody gave.
WasAsked(cfg, asked) ==
    /\ cfg.matrix \subseteq asked
    /\ \A m \in cfg.importance : m \in asked \/ m[3] = 1

LEMMA KeysAreNoLabel ==
    /\ \A f : f # Label => Canonical(f) = f
    /\ \A f \in WeighedFunds : f # Label
    /\ \A f \in Headings : f # Label
  <1>1. \A f : f # Label => Canonical(f) = f
    BY DEF Canonical
  <1>2. \A f \in Headings : f # Label
    BY WeightsAssumption
  <1>3. \A f \in WeighedFunds : f \in Headings
    BY DEF Headings
  <1> QED BY <1>1, <1>2, <1>3

\* Three fields of a configuration are changed.
ConfigWith(c, F, M, I) == [c EXCEPT !.funds = F, !.matrix = M, !.importance = I]

LEMMA ThreeChanged ==
    ASSUME NEW c, NEW m, NEW i, NEW p, NEW v, NEW s, NEW f, NEW M, NEW I, NEW F,
           c = [matrix |-> m, importance |-> i, policy |-> p, values |-> v, sic |-> s,
                funds |-> f]
    PROVE  ConfigWith(c, F, M, I)
            = [matrix |-> M, importance |-> I, policy |-> p, values |-> v, sic |-> s, funds |-> F]
  <1> DEFINE d == [c EXCEPT !.funds = F]
             e == [d EXCEPT !.matrix = M]
             g == [e EXCEPT !.importance = I]
  <1>1. d = [matrix |-> m, importance |-> i, policy |-> p, values |-> v, sic |-> s, funds |-> F]
    OBVIOUS
  <1> HIDE DEF d
  <1>2. e = [matrix |-> M, importance |-> i, policy |-> p, values |-> v, sic |-> s, funds |-> F]
    BY <1>1
  <1> HIDE DEF e
  <1>3. g = [matrix |-> M, importance |-> I, policy |-> p, values |-> v, sic |-> s, funds |-> F]
    BY <1>2
  <1>4. g = ConfigWith(c, F, M, I)
    BY Zenon DEF d, e, ConfigWith
  <1> QED BY <1>3, <1>4

\* canonicalize_config, written out.
LEMMA Canonicalized ==
    ASSUME NEW cfg, IsConfig(cfg)
    PROVE  LET c == CanonicalizeConfig(cfg)
           IN  /\ IsConfig(c)
               /\ c.matrix = {<<m[1], m[2], Canonical(m[3]), m[4]>> : m \in cfg.matrix}
               /\ c.importance = {<<m[1], Canonical(m[2]), m[3]>> : m \in cfg.importance}
               /\ c.values = cfg.values /\ c.sic = cfg.sic
  <1> DEFINE made == [matrix |-> {<<m[1], m[2], Canonical(m[3]), m[4]>> : m \in cfg.matrix},
                      importance |-> {<<m[1], Canonical(m[2]), m[3]>> : m \in cfg.importance},
                      policy |-> cfg.policy, values |-> cfg.values, sic |-> cfg.sic,
                      funds |-> {Canonical(f) : f \in cfg.funds}]
  <1>1. CanonicalizeConfig(cfg) = made
    <2> DEFINE F == {Canonical(f) : f \in cfg.funds}
               M == {<<m[1], m[2], Canonical(m[3]), m[4]>> : m \in cfg.matrix}
               I == {<<m[1], Canonical(m[2]), m[3]>> : m \in cfg.importance}
    <2>1. CanonicalizeConfig(cfg) = ConfigWith(cfg, F, M, I)
      BY DEF CanonicalizeConfig, ConfigWith
    <2> HIDE DEF F, M, I
    <2>2. PICK m, i, p, v, s, f :
              cfg = [matrix |-> m, importance |-> i, policy |-> p, values |-> v, sic |-> s,
                     funds |-> f]
      BY Zenon DEF IsConfig
    <2>3. ConfigWith(cfg, F, M, I)
            = [matrix |-> M, importance |-> I, policy |-> cfg.policy, values |-> cfg.values,
               sic |-> cfg.sic, funds |-> F]
      <3>1. /\ cfg.policy = p /\ cfg.values = v /\ cfg.sic = s
        BY <2>2
      <3>2. ConfigWith(cfg, F, M, I)
              = [matrix |-> M, importance |-> I, policy |-> p, values |-> v, sic |-> s,
                 funds |-> F]
        BY <2>2, ThreeChanged
      <3> QED BY <3>1, <3>2
    <2> QED BY <2>1, <2>3 DEF F, M, I
  <1> QED BY <1>1 DEF IsConfig

\* Of a configuration under the keys of the funds it changes nothing that is proved about.
LEMMA KeyedIsCanonical ==
    ASSUME NEW cfg, IsKeyed(cfg)
    PROVE  LET c == CanonicalizeConfig(cfg)
           IN  /\ IsKeyed(c) /\ c.matrix = cfg.matrix /\ c.importance = cfg.importance
               /\ c.values = cfg.values /\ c.sic = cfg.sic
  <1> DEFINE c == CanonicalizeConfig(cfg)
  <1>1. /\ IsConfig(c)
        /\ c.matrix = {<<m[1], m[2], Canonical(m[3]), m[4]>> : m \in cfg.matrix}
        /\ c.importance = {<<m[1], Canonical(m[2]), m[3]>> : m \in cfg.importance}
        /\ c.values = cfg.values /\ c.sic = cfg.sic
    BY Canonicalized DEF IsKeyed
  <1> HIDE DEF c
  <1>2. \A m \in cfg.matrix : <<m[1], m[2], Canonical(m[3]), m[4]>> = m
    BY KeysAreNoLabel DEF IsKeyed, IsWeight
  <1>3. \A m \in cfg.importance : <<m[1], Canonical(m[2]), m[3]>> = m
    BY KeysAreNoLabel DEF IsKeyed, IsImportance
  <1>4. c.matrix = cfg.matrix
    BY <1>1, <1>2
  <1>5. c.importance = cfg.importance
    BY <1>1, <1>3
  <1> QED BY <1>1, <1>4, <1>5 DEF IsKeyed, c

LEMMA DefaultsAreKeyed ==
    /\ IsKeyed(DefaultWeights) /\ DefaultWeights.matrix = DefaultMatrix
    /\ DefaultWeights.importance = {}
  <1>1. \A m \in DefaultMatrix : IsWeight(m)
    <2> SUFFICES ASSUME NEW m \in DefaultMatrix PROVE IsWeight(m)
      OBVIOUS
    <2>1. PICK v \in Categories, f \in ShippedWeights, w \in 0 .. 4 : m = <<v[1], v[2], f, w>>
      BY WeightsAssumption
    <2>2. v[1] \in WeighedAttributes
      BY WeightsAssumption
    <2>3. f # Label
      BY KeysAreNoLabel DEF WeighedFunds
    <2> QED BY <2>1, <2>2, <2>3 DEF IsWeight
  <1> QED BY <1>1 DEF DefaultWeights, IsKeyed, IsConfig

\* An old snapshot is read under the keys.
LEMMA LabelIsRead ==
    ASSUME NEW good \in {DefaultWeights, Labelled}
    PROVE  LET c == CanonicalizeConfig(good)
           IN  /\ IsConfig(good) /\ IsKeyed(c)
               /\ c.matrix = DefaultMatrix /\ c.importance = {}
  <1>1. CASE good = DefaultWeights
    BY <1>1, DefaultsAreKeyed, KeyedIsCanonical DEF IsKeyed
  <1>2. CASE good = Labelled
    <2> DEFINE c == CanonicalizeConfig(good)
               labelled(m) == <<m[1], m[2], IF m[3] = FundOrder[1] THEN Label ELSE m[3], m[4]>>
               M == {labelled(m) : m \in DefaultMatrix}
    <2>1. Labelled = [DefaultWeights EXCEPT !.matrix = M]
      BY DEF Labelled
    <2> HIDE DEF M
    <2>2. IsConfig(Labelled) /\ Labelled.matrix = M /\ Labelled.importance = {}
      BY <2>1 DEF DefaultWeights, IsConfig
    <2>3. /\ IsConfig(c)
          /\ c.matrix = {<<m[1], m[2], Canonical(m[3]), m[4]>> : m \in M}
          /\ c.importance = {<<m[1], Canonical(m[2]), m[3]>> : m \in {}}
      BY <1>2, <2>2, Canonicalized
    <2> HIDE DEF c
    <2>4. \A m \in DefaultMatrix : IsWeight(m)
      BY DefaultsAreKeyed DEF IsKeyed
    <2>5. ASSUME NEW m \in DefaultMatrix
          PROVE  LET n == labelled(m) IN <<n[1], n[2], Canonical(n[3]), n[4]>> = m
      BY <2>4, KeysAreNoLabel DEF Canonical, IsWeight
    <2> HIDE DEF labelled
    <2>6. c.matrix = {LET n == labelled(m) IN <<n[1], n[2], Canonical(n[3]), n[4]>> :
                        m \in DefaultMatrix}
      BY <2>3 DEF M
    <2>7. c.matrix = DefaultMatrix
      BY <2>5, <2>6
    <2> QED BY <1>2, <2>2, <2>3, <2>4, <2>7 DEF c, IsKeyed
  <1> QED BY <1>1, <1>2


------------------------------------------------------------------------------
(* Weights: reading the tab                                                   *)

\* A tab as it was seeded and edited.
IsTab(tab) ==
    /\ tab = [header |-> tab.header, rows |-> tab.rows, weighed |-> tab.weighed,
              weighing |-> tab.weighing]
    /\ tab.header \in [1 .. Width -> Headings]
    /\ DOMAIN tab.rows = 1 .. Len(CategoryOrder)
    /\ tab.weighed \in Seq(WeighedFunds)

\* What a load falls back on.
IsLast(last) == last # None => IsKeyed(last)

LEMMA OrdersAreLists ==
    /\ Len(CategoryOrder) \in Nat /\ DOMAIN CategoryOrder = 1 .. Len(CategoryOrder)
    /\ Len(FundOrder) \in Nat /\ DOMAIN FundOrder = 1 .. Len(FundOrder)
    /\ Width \in Nat /\ PolicyColumn \in Nat
  BY WeightsAssumption, LenProperties DEF Width, PolicyColumn

LEMMA ValuesAreOfAttributes ==
    ASSUME NEW tab, NEW v \in ReadValues(tab)
    PROVE  v[1] \in WeighedAttributes
  BY DEF ReadValues

\* The weight that is found is one of the matrix.
LEMMA WeightIsFound ==
    ASSUME NEW matrix, \A m \in matrix : IsWeight(m), NEW a, NEW v, NEW f,
           WeightOf(matrix, a, v, f) # None
    PROVE  LET w == WeightOf(matrix, a, v, f)
           IN  w \in 0 .. 4 /\ <<a, v, f, w>> \in matrix
  <1> DEFINE found == {m \in matrix : m[1] = a /\ m[2] = v /\ m[3] = f}
             m == CHOOSE n \in found : TRUE
  <1>1. found # {} /\ WeightOf(matrix, a, v, f) = m[4]
    BY DEF WeightOf
  <1>2. m \in found
    BY <1>1
  <1> HIDE DEF m
  <1> QED BY <1>1, <1>2 DEF IsWeight

\* And what is in it is found, if there is one weight for each.
LEMMA WeightThatIsThere ==
    ASSUME NEW m \in DefaultMatrix
    PROVE  WeightOf(DefaultMatrix, m[1], m[2], m[3]) = m[4] /\ m[4] # None
  <1> DEFINE found == {n \in DefaultMatrix : n[1] = m[1] /\ n[2] = m[2] /\ n[3] = m[3]}
             n == CHOOSE o \in found : TRUE
  <1>1. m \in found
    OBVIOUS
  <1>2. n \in found
    BY <1>1
  <1> HIDE DEF n
  <1>3. n \in DefaultMatrix /\ <<m[1], m[2], m[3]>> = <<n[1], n[2], n[3]>>
    BY <1>2
  <1>4. n = m
    BY <1>3, WeightsAssumption
  <1>5. WeightOf(DefaultMatrix, m[1], m[2], m[3]) = n[4]
    BY <1>1 DEF WeightOf, n
  <1>6. m[4] \in 0 .. 4
    BY DefaultsAreKeyed DEF IsKeyed, IsWeight
  <1>7. m[4] # None
    BY <1>6, WeightsAssumption
  <1> QED BY <1>4, <1>5, <1>7

LEMMA ImportanceIsFound ==
    ASSUME NEW importance, \A m \in importance : IsImportance(m), NEW a, NEW f
    PROVE  LET w == ImportanceOf(importance, a, f)
           IN  w \in 0 .. 10 /\ (w = 1 \/ <<a, f, w>> \in importance)
  <1> DEFINE found == {m \in importance : m[1] = a /\ m[2] = f}
             m == CHOOSE n \in found : TRUE
  <1>1. CASE found = {}
    <2>1. ImportanceOf(importance, a, f) = 1
      BY <1>1 DEF ImportanceOf
    <2> QED BY <2>1
  <1>2. CASE found # {}
    <2>1. ImportanceOf(importance, a, f) = m[3]
      BY <1>2 DEF ImportanceOf
    <2>2. m \in found
      BY <1>2
    <2> HIDE DEF m
    <2> QED BY <2>1, <2>2 DEF IsImportance
  <1> QED BY <1>1, <1>2

\* An entry is a number, for a weighed attribute and under no label.
LEMMA EntriesAreOfTab ==
    ASSUME NEW tab, IsTab(tab), NEW lists, NEW e \in Entries(tab, ReadValues(lists))
    PROVE  /\ e[1] \in DOMAIN tab.rows /\ e[2] \in DOMAIN tab.header
           /\ LET t == Target(tab, e)
              IN  t = <<t[1], t[2], t[3]>> /\ t[1] \in WeighedAttributes /\ t[3] # Label
           /\ CellAt(tab, e) \in Nat
  <1> DEFINE t == Target(tab, e)
  <1>1. /\ e[1] \in DOMAIN tab.rows /\ e[2] \in FundColumns(tab.header)
        /\ <<AttributeAt(tab, e[1]), tab.rows[e[1]].category>> \in ReadValues(lists)
        /\ CellAt(tab, e) \in Nat
    BY DEF Entries, IsNumber
  <1>2. e[2] \in DOMAIN tab.header /\ tab.header[e[2]] \in Headings
    BY <1>1 DEF FundColumns, IsTab
  <1>3. tab.header[e[2]] # Label
    BY <1>2, KeysAreNoLabel
  <1>4. AttributeAt(tab, e[1]) \in WeighedAttributes
    <2> DEFINE v == <<AttributeAt(tab, e[1]), tab.rows[e[1]].category>>
    <2>1. v[1] \in WeighedAttributes
      BY <1>1, ValuesAreOfAttributes
    <2> QED BY <2>1
  <1> QED BY <1>1, <1>2, <1>3, <1>4 DEF Target

\* What the matrix reads is shown in the tab, said in a note or a last-good weight.
LEMMA MatrixIsRead ==
    ASSUME NEW tab, IsTab(tab), NEW lists, NEW last, IsLast(last),
           NEW m \in ReadMatrix(tab, ReadValues(lists), last)
    PROVE  /\ IsWeight(m)
           /\ \/ m \in ShownWeights(tab)
              \/ m \in NotedZeros(tab, ReadValues(lists), last)
              \/ last # None /\ m \in last.matrix
  <1> DEFINE values == ReadValues(lists)
  <1>1. PICK e \in Standing(tab, values) :
            LET t == Target(tab, e)
                fallback == IF LastWeight(last, t) = None THEN 0 ELSE LastWeight(last, t)
            IN  m = WeightEntry(t, Ranged(CellAt(tab, e), 4, fallback))
    BY DEF ReadMatrix
  <1> DEFINE t == Target(tab, e)
             cell == CellAt(tab, e)
             fallback == IF LastWeight(last, t) = None THEN 0 ELSE LastWeight(last, t)
  <1>2. m = WeightEntry(t, Ranged(cell, 4, fallback))
    BY <1>1
  <1>3. e \in Entries(tab, values)
    BY DEF Standing
  <1>4. /\ e[1] \in DOMAIN tab.rows /\ e[2] \in DOMAIN tab.header
        /\ t = <<t[1], t[2], t[3]>> /\ t[1] \in WeighedAttributes /\ t[3] # Label
        /\ cell \in Nat
    BY <1>3, EntriesAreOfTab
  <1>5. CASE cell <= 4
    <2>1. m = <<t[1], t[2], t[3], cell>> /\ cell \in 0 .. 4
      BY <1>2, <1>4, <1>5 DEF WeightEntry, Ranged
    <2>2. m = <<AttributeAt(tab, e[1]), tab.rows[e[1]].category, tab.header[e[2]],
                tab.rows[e[1]].cells[e[2]]>>
      BY <2>1 DEF Target, CellAt
    <2>3. m \in ShownWeights(tab)
      BY <1>4, <2>2 DEF ShownWeights
    <2> HIDE DEF t, cell
    <2> QED BY <1>4, <2>1, <2>3 DEF IsWeight
  <1>6. CASE cell > 4 /\ LastWeight(last, t) = None
    <2>1. m = WeightEntry(t, 0)
      BY <1>2, <1>4, <1>6 DEF Ranged
    <2>2. m \in NotedZeros(tab, values, last)
      BY <1>3, <1>6, <2>1 DEF NotedZeros
    <2>3. IsWeight(m)
      <3> HIDE DEF t
      <3> QED BY <1>4, <2>1 DEF IsWeight, WeightEntry
    <2> QED BY <2>2, <2>3
  <1>7. CASE cell > 4 /\ LastWeight(last, t) # None
    <2> DEFINE w == WeightOf(last.matrix, t[1], t[2], t[3])
    <2>1. last # None /\ LastWeight(last, t) = w /\ w # None
      BY <1>7 DEF LastWeight
    <2>2. \A n \in last.matrix : IsWeight(n)
      BY <2>1 DEF IsLast, IsKeyed
    <2>3. <<t[1], t[2], t[3], w>> \in last.matrix
      BY <2>1, <2>2, WeightIsFound
    <2>4. m = <<t[1], t[2], t[3], w>>
      BY <1>2, <1>4, <1>7, <2>1 DEF Ranged, WeightEntry
    <2> HIDE DEF t, w
    <2> QED BY <2>1, <2>2, <2>3, <2>4
  <1> QED BY <1>4, <1>5, <1>6, <1>7

\* The importance block likewise, where what is not said is 1.
LEMMA ImportanceIsRead ==
    ASSUME NEW tab, IsTab(tab), NEW last, IsLast(last),
           NEW m \in ReadImportance(tab, last)
    PROVE  /\ IsImportance(m)
           /\ \/ m \in ShownWeights(tab) \/ m[3] = 1
              \/ last # None /\ m \in last.importance
  <1> DEFINE given == {d \in (DOMAIN tab.weighing) \X FundColumns(tab.weighed) :
                        /\ tab.weighing[d[1]].attribute \in WeighedAttributes
                        /\ IsNumber(tab.weighing[d[1]].cells[d[2]])}
             fallback(a, f) == IF last = None THEN 1 ELSE ImportanceOf(last.importance, a, f)
  <1>1. PICK e \in given :
            m = <<tab.weighing[e[1]].attribute, tab.weighed[e[2]],
                  Ranged(tab.weighing[e[1]].cells[e[2]], 10,
                         fallback(tab.weighing[e[1]].attribute, tab.weighed[e[2]]))>>
    BY DEF ReadImportance
  <1> DEFINE a == tab.weighing[e[1]].attribute
             f == tab.weighed[e[2]]
             cell == tab.weighing[e[1]].cells[e[2]]
             w == fallback(a, f)
  <1>2. /\ e[1] \in DOMAIN tab.weighing /\ e[2] \in DOMAIN tab.weighed
        /\ a \in WeighedAttributes /\ cell \in Nat
    BY DEF FundColumns, IsNumber
  <1>3. f # Label
    <2>1. f \in WeighedFunds
      BY <1>2, ElementOfSeq, LenProperties DEF IsTab
    <2> QED BY <2>1, KeysAreNoLabel
  <1>4. m = <<a, f, Ranged(cell, 10, w)>>
    BY <1>1
  <1>5. CASE cell <= 10
    <2>1. m = <<a, f, cell>> /\ cell \in 0 .. 10
      BY <1>2, <1>4, <1>5 DEF Ranged
    <2>2. m \in ShownWeights(tab)
      BY <1>2, <2>1 DEF ShownWeights
    <2> HIDE DEF a, f, cell
    <2> QED BY <1>2, <1>3, <2>1, <2>2 DEF IsImportance
  <1>6. CASE cell > 10
    <2>1. m = <<a, f, w>>
      BY <1>2, <1>4, <1>6 DEF Ranged
    <2>2. w \in 0 .. 10 /\ (w = 1 \/ (last # None /\ <<a, f, w>> \in last.importance))
      <3>1. CASE last = None
        <4>1. w = 1
          BY <3>1
        <4> HIDE DEF w
        <4> QED BY <4>1
      <3>2. CASE last # None
        <4>1. \A n \in last.importance : IsImportance(n)
          BY <3>2 DEF IsLast, IsKeyed
        <4>2. w = ImportanceOf(last.importance, a, f)
          BY <3>2
        <4> HIDE DEF a, f
        <4>3. LET v == ImportanceOf(last.importance, a, f)
              IN  v \in 0 .. 10 /\ (v = 1 \/ <<a, f, v>> \in last.importance)
          BY <4>1, ImportanceIsFound
        <4> HIDE DEF w
        <4> QED BY <3>2, <4>2, <4>3
      <3> QED BY <3>1, <3>2
    <2> HIDE DEF a, f, w
    <2> QED BY <1>2, <1>3, <2>1, <2>2 DEF IsImportance
  <1> QED BY <1>2, <1>5, <1>6

\* A weight that is typed in a row without a note is read, unless a later cell is about
\* the same weight.
LEMMA PlainRowIsRead ==
    ASSUME NEW tab, IsTab(tab), NEW lists, NEW last,
           NEW e \in (DOMAIN tab.rows) \X FundColumns(tab.header),
           ~Odd(tab, ReadValues(lists), e[1]),
           Target(tab, e)[1] # None, CellAt(tab, e) # Blank
    PROVE  \/ WeightEntry(Target(tab, e), CellAt(tab, e)) \in ReadMatrix(tab, ReadValues(lists), last)
           \/ \E d \in (DOMAIN tab.rows) \X FundColumns(tab.header) :
                 Later(d, e) /\ Target(tab, d) = Target(tab, e) /\ IsNumber(CellAt(tab, d))
  <1> DEFINE values == ReadValues(lists)
             t == Target(tab, e)
             cell == CellAt(tab, e)
  <1> SUFFICES ASSUME ~\E d \in (DOMAIN tab.rows) \X FundColumns(tab.header) :
                 Later(d, e) /\ Target(tab, d) = Target(tab, e) /\ IsNumber(CellAt(tab, d))
               PROVE  WeightEntry(t, cell) \in ReadMatrix(tab, values, last)
    OBVIOUS
  <1>1. AttributeAt(tab, e[1]) # None
    BY DEF Target
  <1>2. /\ <<AttributeAt(tab, e[1]), tab.rows[e[1]].category>> \in values
        /\ IsNumber(cell) /\ cell <= 4
    BY <1>1 DEF Odd, CellAt
  <1>3. e \in Entries(tab, values)
    BY <1>2 DEF Entries
  <1>4. ASSUME NEW d \in Entries(tab, values), Target(tab, d) = Target(tab, e)
        PROVE  d[1] < e[1] \/ (d[1] = e[1] /\ d[2] <= e[2])
    <2>1. d \in (DOMAIN tab.rows) \X FundColumns(tab.header) /\ IsNumber(CellAt(tab, d))
      BY DEF Entries
    <2>2. ~Later(d, e)
      BY <1>4, <2>1
    <2>3. d[1] \in Nat /\ d[2] \in Nat /\ e[1] \in Nat /\ e[2] \in Nat
      <3>1. /\ d[1] \in DOMAIN tab.rows /\ d[2] \in DOMAIN tab.header
            /\ e[1] \in DOMAIN tab.rows /\ e[2] \in DOMAIN tab.header
        BY <2>1 DEF FundColumns
      <3> QED BY <3>1, OrdersAreLists DEF IsTab
    <2> QED BY <2>2, <2>3 DEF Later
  <1>5. e \in Standing(tab, values)
    BY <1>3, <1>4 DEF Standing
  <1> DEFINE fallback == IF LastWeight(last, t) = None THEN 0 ELSE LastWeight(last, t)
  <1>6. Ranged(cell, 4, fallback) = cell
    BY <1>2 DEF Ranged
  <1>7. WeightEntry(t, Ranged(cell, 4, fallback)) \in ReadMatrix(tab, values, last)
    BY <1>5 DEF ReadMatrix
  <1> QED BY <1>6, <1>7


------------------------------------------------------------------------------
(* Weights: the invariant                                                     *)

WeightsInv ==
    /\ IsKeyed(config) /\ WasAsked(config, weightsAsked)
    /\ goodWeights # None =>
          /\ IsConfig(goodWeights) /\ IsKeyed(CanonicalizeConfig(goodWeights))
          /\ WasAsked(CanonicalizeConfig(goodWeights), weightsAsked)
    /\ weightsTab # Blank => IsTab(weightsTab)
    /\ sicTab \in Seq(LinesOf(sicTab))
    /\ noted \subseteq 1 .. Len(CategoryOrder)
    /\ weightChanges \in 0 .. MaxWeightChanges
    /\ OddCellIsSaid /\ PairsAreRows

LEMMA SeedIsTab ==
    /\ IsTab(Seed)
    /\ \A i \in 1 .. Len(FundOrder) : Seed.header[i] = FundOrder[i]
    /\ FundColumns(Seed.header) \subseteq 1 .. Len(FundOrder)
  <1> DEFINE extra == <<"Unknown policy", "Notes", "Status">>
             header == FundOrder \o extra
  <1>1. FundOrder \in Seq(Headings) /\ FundOrder \in Seq(WeighedFunds)
    <2>1. Len(FundOrder) \in Nat /\ \A i \in 1 .. Len(FundOrder) : FundOrder[i] \in ShippedWeights
      BY WeightsAssumption, LenProperties, ElementOfSeq
    <2>2. ShippedWeights \subseteq WeighedFunds /\ ShippedWeights \subseteq Headings
      BY DEF WeighedFunds, Headings
    <2>3. FundOrder \in [1 .. Len(FundOrder) -> ShippedWeights]
      BY WeightsAssumption, LenProperties
    <2>4. FundOrder \in [1 .. Len(FundOrder) -> WeighedFunds] /\ FundOrder \in [1 .. Len(FundOrder) -> Headings]
      BY <2>2, <2>3
    <2> QED BY <2>1, <2>4, SeqDef
  <1>2. extra \in Seq(Headings) /\ Len(extra) = 3
    BY DEF Headings
  <1>3. /\ header \in Seq(Headings) /\ Len(header) = Width
        /\ \A i \in 1 .. Len(FundOrder) : header[i] = FundOrder[i]
        /\ \A i \in Len(FundOrder) + 1 .. Width : header[i] = extra[i - Len(FundOrder)]
    <2>1. Len(FundOrder) \in Nat /\ Width = Len(FundOrder) + Len(extra)
      BY <1>2, OrdersAreLists DEF Width
    <2> HIDE DEF extra
    <2>2. /\ header \in Seq(Headings) /\ Len(header) = Len(FundOrder) + Len(extra)
          /\ \A i \in 1 .. Len(FundOrder) + Len(extra) :
                header[i] = IF i <= Len(FundOrder) THEN FundOrder[i]
                            ELSE extra[i - Len(FundOrder)]
      BY <1>1, <1>2, ConcatProperties
    <2> HIDE DEF header
    <2>3. \A i \in 1 .. Len(FundOrder) : i \in 1 .. Len(FundOrder) + Len(extra) /\ i <= Len(FundOrder)
      BY <1>2, <2>1
    <2>4. \A i \in Len(FundOrder) + 1 .. Width :
             i \in 1 .. Len(FundOrder) + Len(extra) /\ ~(i <= Len(FundOrder))
      BY <1>2, <2>1
    <2> QED BY <2>1, <2>2, <2>3, <2>4
  <1>4. header \in [1 .. Width -> Headings]
    BY <1>3, LenProperties
  <1>5. /\ Seed.header = header /\ Seed.weighed = FundOrder
        /\ DOMAIN Seed.rows = 1 .. Len(CategoryOrder)
        /\ Seed = [header |-> Seed.header, rows |-> Seed.rows, weighed |-> Seed.weighed,
                   weighing |-> Seed.weighing]
    BY OrdersAreLists DEF Seed
  <1>6. ASSUME NEW i \in FundColumns(header) PROVE i \in 1 .. Len(FundOrder)
    <2>1. i \in 1 .. Width /\ header[i] \notin {"Unknown policy", "Notes", "Status"}
      BY <1>4 DEF FundColumns
    <2> HIDE DEF header
    <2> SUFFICES ASSUME i \notin 1 .. Len(FundOrder) PROVE FALSE
      OBVIOUS
    <2>2. i \in Len(FundOrder) + 1 .. Width /\ i - Len(FundOrder) \in 1 .. 3
      <3>1. i \in Nat /\ Len(FundOrder) \in Nat /\ i >= 1 /\ i <= Len(FundOrder) + 3
        <4>1. Len(FundOrder) \in Nat
          BY OrdersAreLists
        <4>2. i \in 1 .. Len(FundOrder) + 3
          BY <2>1 DEF Width
        <4> QED BY <4>1, <4>2
      <3>2. i > Len(FundOrder) /\ Width = Len(FundOrder) + 3
        BY <3>1 DEF Width
      <3> HIDE DEF header, extra
      <3> QED BY <3>1, <3>2
    <2>3. header[i] = extra[i - Len(FundOrder)]
      BY <1>3, <2>2
    <2>4. \A k \in 1 .. 3 : extra[k] \in {"Unknown policy", "Notes", "Status"}
      <3>1. \A k \in 1 .. 3 : k = 1 \/ k = 2 \/ k = 3
        OBVIOUS
      <3>2. extra[1] = "Unknown policy" /\ extra[2] = "Notes" /\ extra[3] = "Status"
        OBVIOUS
      <3> HIDE DEF extra
      <3> QED BY <3>1, <3>2
    <2> HIDE DEF header, extra
    <2> QED BY <2>1, <2>2, <2>3, <2>4
  <1> QED BY <1>1, <1>3, <1>4, <1>5, <1>6 DEF IsTab

\* The row of a category is in the group of its attribute.
LEMMA SeedNamesAttributes ==
    ASSUME NEW i \in DOMAIN CategoryOrder
    PROVE  /\ AttributeAt(Seed, i) = CategoryOrder[i][1]
           /\ Seed.rows[i].category = CategoryOrder[i][2]
           /\ CategoryOrder[i] \in Categories
           /\ CategoryOrder[i] = <<CategoryOrder[i][1], CategoryOrder[i][2]>>
  <1> DEFINE named == {j \in 1 .. i : Seed.rows[j].attribute # Blank}
             last  == CHOOSE j \in named : \A k \in named : k <= j
  <1>1. i \in Nat /\ i >= 1
    BY OrdersAreLists
  <1>2. CategoryOrder[i] \in Categories
    BY DEF Categories
  <1>3. /\ CategoryOrder[i] = <<CategoryOrder[i][1], CategoryOrder[i][2]>>
        /\ CategoryOrder[i][1] \in WeighedAttributes /\ CategoryOrder[i][1] # Blank
    BY <1>2, WeightsAssumption
  <1>4. /\ Seed.rows[i].attribute = CategoryOrder[i][1]
        /\ Seed.rows[i].category = CategoryOrder[i][2]
    BY DEF Seed, SeedWeightRow
  <1>5. i \in named /\ \A k \in named : k <= i
    BY <1>1, <1>3, <1>4
  <1>6. last \in named /\ \A k \in named : k <= last
    BY <1>5
  <1>7. last = i
    <2> HIDE DEF last
    <2> QED BY <1>1, <1>5, <1>6
  <1>8. AttributeAt(Seed, i) = IF named = {} \/ Seed.rows[last].attribute \notin WeighedAttributes
                               THEN None ELSE Seed.rows[last].attribute
    BY DEF AttributeAt
  <1> HIDE DEF last, named
  <1> QED BY <1>2, <1>3, <1>4, <1>5, <1>7, <1>8

\* A fund's cell of the seed holds its default weight.
LEMMA SeedShowsCell ==
    ASSUME NEW i \in DOMAIN CategoryOrder, NEW c \in 1 .. Len(FundOrder)
    PROVE  LET w == WeightOf(DefaultMatrix, CategoryOrder[i][1], CategoryOrder[i][2], FundOrder[c])
           IN  Seed.rows[i].cells[c] = IF w = None THEN Blank ELSE w
  <1>1. c \in 1 .. Width /\ c <= Len(FundOrder)
    BY OrdersAreLists DEF Width
  <1>2. Seed.rows[i] = SeedWeightRow(CategoryOrder[i])
    BY DEF Seed
  <1> QED BY <1>1, <1>2 DEF SeedWeightRow

LEMMA SeedShowsDefaults ==
    DefaultMatrix \subseteq ShownWeights(Seed)
  <1> SUFFICES ASSUME NEW m \in DefaultMatrix PROVE m \in ShownWeights(Seed)
    OBVIOUS
  <1>1. PICK v \in Categories, f \in ShippedWeights, w \in 0 .. 4 : m = <<v[1], v[2], f, w>>
    BY WeightsAssumption
  <1>2. PICK i \in DOMAIN CategoryOrder : CategoryOrder[i] = v
    BY DEF Categories
  <1>3. PICK c \in DOMAIN FundOrder : FundOrder[c] = f
    BY DEF ShippedWeights
  <1>4. WeightOf(DefaultMatrix, m[1], m[2], m[3]) = m[4] /\ m[4] # None
    BY WeightThatIsThere
  <1>5. c \in 1 .. Len(FundOrder)
    BY OrdersAreLists
  <1>6. Seed.rows[i].cells[c] = w
    BY <1>1, <1>2, <1>3, <1>4, <1>5, SeedShowsCell
  <1>7. AttributeAt(Seed, i) = v[1] /\ Seed.rows[i].category = v[2] /\ Seed.header[c] = f
    BY <1>2, <1>3, <1>5, SeedNamesAttributes, SeedIsTab
  <1>8. i \in DOMAIN Seed.rows /\ c \in DOMAIN Seed.header
    BY <1>5, SeedIsTab, OrdersAreLists DEF IsTab, Width
  <1>9. m = <<AttributeAt(Seed, i), Seed.rows[i].category, Seed.header[c], Seed.rows[i].cells[c]>>
    BY <1>1, <1>6, <1>7
  <1> QED BY <1>8, <1>9 DEF ShownWeights

LEMMA WeightsStart == WeightsInit => WeightsInv
  <1> SUFFICES ASSUME WeightsInit PROVE WeightsInv
    OBVIOUS
  <1>1. /\ weightsTab = Seed /\ sicTab \in {<<>>} \cup SicEdits
        /\ goodWeights \in {None, DefaultWeights, Labelled} /\ config = DefaultWeights
        /\ noted = {} /\ read = [weights |-> Seed, sic |-> <<>>]
        /\ weightsAsked = ShownWeights(Seed) /\ weightChanges = 0
    BY DEF WeightsInit
  <1>2. IsKeyed(config) /\ WasAsked(config, weightsAsked)
    BY <1>1, DefaultsAreKeyed, SeedShowsDefaults DEF WasAsked
  <1>3. ASSUME goodWeights # None
        PROVE  /\ IsConfig(goodWeights) /\ IsKeyed(CanonicalizeConfig(goodWeights))
               /\ WasAsked(CanonicalizeConfig(goodWeights), weightsAsked)
    <2>1. goodWeights \in {DefaultWeights, Labelled}
      BY <1>1, <1>3
    <2>2. LET c == CanonicalizeConfig(goodWeights)
          IN  /\ IsConfig(goodWeights) /\ IsKeyed(c)
              /\ c.matrix = DefaultMatrix /\ c.importance = {}
      BY <2>1, LabelIsRead
    <2> QED BY <1>1, <2>2, SeedShowsDefaults DEF WasAsked
  <1>4. weightsTab # Blank => IsTab(weightsTab)
    BY <1>1, SeedIsTab
  <1>5. sicTab \in Seq(LinesOf(sicTab))
    <2>1. CASE sicTab = <<>>
      BY <2>1, EmptySeq
    <2>2. CASE sicTab \in SicEdits
      BY <2>2, WeightsAssumption DEF LinesOf
    <2> QED BY <1>1, <2>1, <2>2
  <1>6. noted \subseteq 1 .. Len(CategoryOrder) /\ weightChanges \in 0 .. MaxWeightChanges
    BY <1>1, WeightsAssumption
  <1>7. PairsAreRows
    <2>1. read.sic = <<>>
      BY <1>1
    <2> QED BY <2>1 DEF PairsAreRows
  <1>8. OddCellIsSaid
    <2> SUFFICES ASSUME NEW e \in (DOMAIN Seed.rows) \X FundColumns(Seed.header),
                        Target(Seed, e)[1] # None, CellAt(Seed, e) # Blank
                 PROVE  WeightEntry(Target(Seed, e), CellAt(Seed, e)) \in config.matrix
      <3>1. read.weights = Seed /\ noted = {}
        BY <1>1
      <3> QED BY <3>1 DEF OddCellIsSaid
    <2> DEFINE v == CategoryOrder[e[1]]
               f == FundOrder[e[2]]
               w == WeightOf(DefaultMatrix, v[1], v[2], f)
    <2>1. e[1] \in DOMAIN CategoryOrder /\ e[2] \in 1 .. Len(FundOrder)
      BY SeedIsTab, OrdersAreLists DEF IsTab
    <2>2. Target(Seed, e) = <<v[1], v[2], f>>
      BY <2>1, SeedNamesAttributes, SeedIsTab DEF Target
    <2>3. CellAt(Seed, e) = IF w = None THEN Blank ELSE w
      BY <2>1, SeedShowsCell DEF CellAt
    <2> HIDE DEF w, v, f
    <2>4. w # None /\ CellAt(Seed, e) = w
      BY <2>3
    <2>5. <<v[1], v[2], f, w>> \in DefaultMatrix
      BY <2>4, WeightIsFound, DefaultsAreKeyed DEF IsKeyed, w
    <2>6. config.matrix = DefaultMatrix
      BY <1>1, DefaultsAreKeyed
    <2> QED BY <2>2, <2>4, <2>5, <2>6 DEF WeightEntry
  <1> QED BY <1>2, <1>3, <1>4, <1>5, <1>6, <1>7, <1>8 DEF WeightsInv

LEMMA WeightsHold == WeightsInv => WeightsTypeOK /\ WeightsStand
  BY DEF WeightsInv, WeightsTypeOK, WeightsStand, WeightsWereAsked, IsKeyed, IsWeight,
         IsImportance, WasAsked


------------------------------------------------------------------------------
(* Weights: the steps                                                         *)

\* What a load or an added fund leaves in force and as last good.
LEMMA LastIsKeyed ==
    ASSUME WeightsInv
    PROVE  /\ IsLast(LastGood)
           /\ LastGood # None => WasAsked(LastGood, weightsAsked)
  BY DEF WeightsInv, LastGood, IsLast

LEMMA TabIsRead ==
    ASSUME WeightsInv
    PROVE  IsTab(TabRead)
  BY SeedIsTab DEF WeightsInv, TabRead

\* A configuration that was asked for stays so.
LEMMA AskedMore ==
    ASSUME NEW cfg, NEW asked, NEW more, asked \subseteq more, WasAsked(cfg, asked)
    PROVE  WasAsked(cfg, more)
  BY DEF WasAsked

LEMMA LoadKeeps ==
    ASSUME WeightsInv, LoadWeights
    PROVE  WeightsInv'
  <1> DEFINE tab    == TabRead
             last   == LastGood
             values == ReadValues(valuesTab)
             matrix == ReadMatrix(tab, values, last)
             importance == ReadImportance(tab, last)
             unread == matrix = {} /\ importance = {} /\ last # None
             made   == [matrix |-> IF unread THEN last.matrix ELSE matrix,
                     importance |-> IF unread THEN last.importance ELSE importance,
                     policy |-> IF unread THEN last.policy ELSE ReadPolicy(tab, values),
                     values |-> values, sic |-> ReadSic(sicTab), funds |-> listed]
             cfg    == CanonicalizeConfig(made)
             asked  == weightsAsked \cup ShownWeights(tab) \cup NotedZeros(tab, values, last)
             odd    == {i \in DOMAIN tab.rows : Odd(tab, values, i)}
  <1>1. /\ config' = cfg
        /\ goodWeights' = IF faulty THEN goodWeights ELSE cfg
        /\ noted' = odd
        /\ read' = [weights |-> tab, sic |-> sicTab]
        /\ weightsAsked' = asked
        /\ weightsTab' \in {weightsTab, tab}
        /\ UNCHANGED <<valuesTab, sicTab, faulty, listed, weightChanges>>
    BY DEF LoadWeights
  <1>2. IsTab(tab) /\ IsLast(last) /\ (last # None => WasAsked(last, weightsAsked))
    BY TabIsRead, LastIsKeyed
  <1>3. \A m \in matrix :
           /\ IsWeight(m)
           /\ m \in ShownWeights(tab) \/ m \in NotedZeros(tab, values, last)
              \/ (last # None /\ m \in last.matrix)
    BY <1>2, MatrixIsRead
  <1>4. \A m \in importance :
           /\ IsImportance(m)
           /\ m \in ShownWeights(tab) \/ m[3] = 1 \/ (last # None /\ m \in last.importance)
    BY <1>2, ImportanceIsRead
  <1>5. ASSUME NEW e \in (DOMAIN tab.rows \ odd) \X FundColumns(tab.header),
               Target(tab, e)[1] # None, CellAt(tab, e) # Blank
        PROVE  \/ WeightEntry(Target(tab, e), CellAt(tab, e)) \in matrix
               \/ \E d \in (DOMAIN tab.rows) \X FundColumns(tab.header) :
                     Later(d, e) /\ Target(tab, d) = Target(tab, e) /\ IsNumber(CellAt(tab, d))
    <2>1. e \in (DOMAIN tab.rows) \X FundColumns(tab.header) /\ ~Odd(tab, values, e[1])
      OBVIOUS
    <2> QED BY <1>2, <1>5, <2>1, PlainRowIsRead
  <1>a. odd \subseteq DOMAIN tab.rows
    OBVIOUS
  <1> HIDE DEF tab, last, values, matrix, importance, odd
  <1>6. /\ IsConfig(made) /\ made.sic = ReadSic(sicTab)
        /\ unread => made.matrix = last.matrix /\ made.importance = last.importance
        /\ ~unread => made.matrix = matrix /\ made.importance = importance
    BY DEF IsConfig
  <1> HIDE DEF made
  <1>7. IsKeyed(made) /\ WasAsked(made, asked)
    <2>1. CASE unread
      BY <1>2, <1>6, <2>1 DEF IsLast, IsKeyed, WasAsked
    <2>2. CASE ~unread
      <3>1. IsKeyed(made)
        BY <1>3, <1>4, <1>6, <2>2 DEF IsKeyed
      <3>2. matrix \subseteq asked
        BY <1>2, <1>3 DEF WasAsked
      <3>3. \A m \in importance : m \in asked \/ m[3] = 1
        BY <1>2, <1>4 DEF WasAsked
      <3> HIDE DEF unread, asked
      <3> QED BY <1>6, <2>2, <3>1, <3>2, <3>3 DEF WasAsked
    <2> QED BY <2>1, <2>2
  <1> HIDE DEF asked, unread
  <1>8. /\ IsKeyed(cfg) /\ cfg.matrix = made.matrix /\ cfg.importance = made.importance
        /\ cfg.sic = ReadSic(sicTab)
    BY <1>6, <1>7, KeyedIsCanonical
  <1> HIDE DEF cfg
  <1>9. WasAsked(cfg, asked)
    BY <1>7, <1>8 DEF WasAsked
  <1>10. IsKeyed(config') /\ WasAsked(config', weightsAsked')
    BY <1>1, <1>8, <1>9
  <1>11. ASSUME goodWeights' # None
         PROVE  /\ IsConfig(goodWeights') /\ IsKeyed(CanonicalizeConfig(goodWeights'))
                /\ WasAsked(CanonicalizeConfig(goodWeights'), weightsAsked')
    <2>1. CASE faulty
      <3>1. goodWeights' = goodWeights /\ weightsAsked \subseteq weightsAsked'
        BY <1>1, <2>1 DEF asked
      <3> QED BY <1>11, <3>1, AskedMore DEF WeightsInv
    <2>2. CASE ~faulty
      <3>1. goodWeights' = cfg
        BY <1>1, <2>2
      <3>2. LET c == CanonicalizeConfig(cfg)
            IN  IsKeyed(c) /\ c.matrix = cfg.matrix /\ c.importance = cfg.importance
        BY <1>8, KeyedIsCanonical
      <3>3. WasAsked(CanonicalizeConfig(cfg), asked)
        BY <1>9, <3>2 DEF WasAsked
      <3>4. IsConfig(cfg)
        BY <1>8 DEF IsKeyed
      <3> QED BY <1>1, <3>1, <3>2, <3>3, <3>4
    <2> QED BY <2>1, <2>2
  <1>12. weightsTab' # Blank => IsTab(weightsTab')
    BY <1>1, <1>2 DEF WeightsInv
  <1>13. /\ sicTab' \in Seq(LinesOf(sicTab')) /\ weightChanges' \in 0 .. MaxWeightChanges
         /\ noted' \subseteq 1 .. Len(CategoryOrder)
    BY <1>1, <1>2, <1>a DEF WeightsInv, IsTab
  <1>14. OddCellIsSaid'
    <2> SUFFICES ASSUME NEW e \in (DOMAIN tab.rows \ odd) \X FundColumns(tab.header),
                        Target(tab, e)[1] # None, CellAt(tab, e) # Blank
                 PROVE  \/ WeightEntry(Target(tab, e), CellAt(tab, e)) \in config'.matrix
                        \/ \E d \in (DOMAIN tab.rows) \X FundColumns(tab.header) :
                              Later(d, e) /\ Target(tab, d) = Target(tab, e) /\ IsNumber(CellAt(tab, d))
      <3>1. read'.weights = tab /\ noted' = odd
        BY <1>1
      <3> QED BY <3>1 DEF OddCellIsSaid
    <2>1. matrix # {} => config'.matrix = matrix
      BY <1>1, <1>6, <1>8 DEF unread
    <2> QED BY <1>5, <2>1
  <1>15. PairsAreRows'
    <2> SUFFICES ASSUME \A i \in DOMAIN sicTab : sicTab[i][2] # Stray,
                        NEW i \in DOMAIN sicTab, \A j \in 1 .. i : Complete(sicTab[j])
                 PROVE  \/ sicTab[i] \in ReadSic(sicTab)
                        \/ \E k \in DOMAIN sicTab : k > i /\ sicTab[k][1] = sicTab[i][1]
      <3>1. read'.sic = sicTab /\ config'.sic = ReadSic(sicTab)
        BY <1>1, <1>8
      <3> QED BY <3>1 DEF PairsAreRows
    <2>1. sicTab \in Seq(LinesOf(sicTab))
      BY DEF WeightsInv
    <2> QED BY <2>1, PairsAreRead
  <1> QED BY <1>10, <1>11, <1>12, <1>13, <1>14, <1>15 DEF WeightsInv

\* A copied weight is one of the matrix, or 1.
LEMMA CopyIsWeight ==
    ASSUME NEW matrix, \A m \in matrix : IsWeight(m), NEW a, NEW v
    PROVE  Copied(matrix, a, v) \in 0 .. 4
  <1> DEFINE from(f) == WeightOf(matrix, a, v, f)
             weighing == {i \in DOMAIN FundOrder : from(FundOrder[i]) # None}
             first(i) == from(FundOrder[i]) # None
                         /\ \A j \in 1 .. (i - 1) : from(FundOrder[j]) = None
             i == CHOOSE k \in DOMAIN FundOrder : first(k)
  <1>1. \A f : from(f) # None => from(f) \in 0 .. 4
    BY WeightIsFound
  <1>2. Copied(matrix, a, v) = IF from(Template) # None THEN from(Template)
            ELSE IF \E k \in DOMAIN FundOrder : from(FundOrder[k]) # None
                 THEN from(FundOrder[i]) ELSE 1
    BY DEF Copied
  <1> HIDE DEF from
  <1>3. ASSUME weighing # {} PROVE from(FundOrder[i]) # None
    <2>1. weighing \in SUBSET Nat /\ \A k \in weighing : k >= 1
      BY OrdersAreLists
    <2>2. PICK k \in weighing : \A j \in weighing : k <= j
      BY <1>3, <2>1, HasLeast
    <2>3. ASSUME NEW j \in 1 .. (k - 1) PROVE from(FundOrder[j]) = None
      <3>1. j \in DOMAIN FundOrder /\ ~(k <= j)
        BY <2>1, OrdersAreLists
      <3> QED BY <2>2, <3>1
    <2>4. k \in DOMAIN FundOrder /\ first(k)
      BY <2>2, <2>3
    <2> HIDE DEF first
    <2>5. first(i)
      BY <2>4
    <2> QED BY <2>5 DEF first
  <1> HIDE DEF i
  <1> QED BY <1>1, <1>2, <1>3

LEMMA AddKeeps ==
    ASSUME WeightsInv, AddFund
    PROVE  WeightsInv'
  <1> DEFINE current == IF LastGood = None THEN DefaultWeights ELSE LastGood
             unweighed == {m \in current.matrix :
                             WeightOf(current.matrix, m[1], m[2], AddedFund) = None}
             plain == {m \in current.importance :
                         \A o \in current.importance : <<o[1], o[2]>> # <<m[1], AddedFund>>}
             F == current.funds \cup {AddedFund}
             M == current.matrix \cup
                    {<<m[1], m[2], AddedFund, Copied(current.matrix, m[1], m[2])>> : m \in unweighed}
             I == current.importance \cup
                    {<<m[1], AddedFund, ImportanceOf(current.importance, m[1], Template)>> : m \in plain}
             cfg == CopyWeights(current)
  <1>1. /\ weightChanges < MaxWeightChanges /\ weightChanges' = weightChanges + 1
        /\ config' = cfg /\ goodWeights' = cfg
        /\ weightsAsked' = weightsAsked \cup cfg.matrix \cup cfg.importance
        /\ noted' = {} /\ read' = [weights |-> Blank, sic |-> <<>>]
        /\ UNCHANGED <<weightsTab, valuesTab, sicTab, faulty>>
    BY DEF AddFund, WeightChange
  <1>2. IsKeyed(current)
    BY LastIsKeyed, DefaultsAreKeyed DEF IsLast
  <1> HIDE DEF current
  <1>3. cfg = ConfigWith(current, F, M, I)
    BY Zenon DEF CopyWeights, ConfigWith
  <1> HIDE DEF F, cfg
  <1>4. AddedFund # Label
    BY KeysAreNoLabel DEF WeighedFunds
  <1>5. \A m \in M : IsWeight(m)
    <2>1. \A m \in current.matrix : IsWeight(m)
      BY <1>2 DEF IsKeyed
    <2>2. ASSUME NEW m \in unweighed
          PROVE  IsWeight(<<m[1], m[2], AddedFund, Copied(current.matrix, m[1], m[2])>>)
      <3>1. Copied(current.matrix, m[1], m[2]) \in 0 .. 4
        BY <2>1, CopyIsWeight
      <3> QED BY <1>4, <2>1, <3>1 DEF IsWeight
    <2> HIDE DEF unweighed
    <2> QED BY <2>1, <2>2
  <1>6. \A m \in I : IsImportance(m)
    <2>1. \A m \in current.importance : IsImportance(m)
      BY <1>2 DEF IsKeyed
    <2>2. ASSUME NEW m \in plain
          PROVE  IsImportance(<<m[1], AddedFund, ImportanceOf(current.importance, m[1], Template)>>)
      <3>1. ImportanceOf(current.importance, m[1], Template) \in 0 .. 10
        BY <2>1, ImportanceIsFound
      <3> QED BY <1>4, <2>1, <3>1 DEF IsImportance
    <2> HIDE DEF plain
    <2> QED BY <2>1, <2>2
  <1> HIDE DEF M, I
  <1>7. IsKeyed(cfg)
    <2>1. PICK m, i, p, v, s, f :
              current = [matrix |-> m, importance |-> i, policy |-> p, values |-> v, sic |-> s,
                         funds |-> f]
      BY <1>2, Zenon DEF IsKeyed, IsConfig
    <2>2. ConfigWith(current, F, M, I)
            = [matrix |-> M, importance |-> I, policy |-> p, values |-> v, sic |-> s,
               funds |-> F]
      BY <2>1, ThreeChanged
    <2>3. cfg = [matrix |-> M, importance |-> I, policy |-> p, values |-> v, sic |-> s,
                 funds |-> F]
      BY <1>3, <2>2
    <2>4. IsConfig(cfg) /\ cfg.matrix = M /\ cfg.importance = I
      BY <2>3 DEF IsConfig
    <2> QED BY <1>5, <1>6, <2>4 DEF IsKeyed
  <1>8. WasAsked(cfg, weightsAsked')
    BY <1>1 DEF WasAsked
  <1>9. /\ IsConfig(cfg) /\ IsKeyed(CanonicalizeConfig(cfg))
        /\ WasAsked(CanonicalizeConfig(cfg), weightsAsked')
    <2>1. LET c == CanonicalizeConfig(cfg)
          IN  IsKeyed(c) /\ c.matrix = cfg.matrix /\ c.importance = cfg.importance
      BY <1>7, KeyedIsCanonical
    <2> QED BY <1>7, <1>8, <2>1 DEF WasAsked, IsKeyed
  <1>10. weightChanges' \in 0 .. MaxWeightChanges
    BY <1>1, WeightsAssumption DEF WeightsInv
  <1>11. OddCellIsSaid' /\ PairsAreRows'
    <2>1. read'.weights = Blank /\ read'.sic = <<>>
      BY <1>1
    <2> QED BY <2>1 DEF OddCellIsSaid, PairsAreRows
  <1>12. /\ weightsTab' # Blank => IsTab(weightsTab')
         /\ sicTab' \in Seq(LinesOf(sicTab')) /\ noted' \subseteq 1 .. Len(CategoryOrder)
    BY <1>1 DEF WeightsInv
  <1> QED BY <1>1, <1>7, <1>8, <1>9, <1>10, <1>11, <1>12 DEF WeightsInv


\* An edit leaves a tab one that was seeded and edited.
LEMMA CellIsTyped ==
    ASSUME NEW tab, IsTab(tab), NEW i, NEW c, NEW x
    PROVE  /\ IsTab([tab EXCEPT !.rows[i].cells[c] = x])
           /\ IsTab([tab EXCEPT !.weighing[i].cells[c] = x])
           /\ IsTab([tab EXCEPT !.rows[i].attribute = x])
  <1>1. PICK h, r, w, g : tab = [header |-> h, rows |-> r, weighed |-> w, weighing |-> g]
    BY Zenon DEF IsTab
  <1>2. /\ h \in [1 .. Width -> Headings] /\ DOMAIN r = 1 .. Len(CategoryOrder)
        /\ w \in Seq(WeighedFunds)
    BY <1>1 DEF IsTab
  <1>3. \A y : [tab EXCEPT !.rows = y] = [header |-> h, rows |-> y, weighed |-> w, weighing |-> g]
    BY <1>1
  <1>4. \A y : [tab EXCEPT !.weighing = y] = [header |-> h, rows |-> r, weighed |-> w, weighing |-> y]
    BY <1>1
  <1>5. \A y : DOMAIN y = 1 .. Len(CategoryOrder) => IsTab([tab EXCEPT !.rows = y])
    BY <1>2, <1>3 DEF IsTab
  <1>6. \A y : IsTab([tab EXCEPT !.weighing = y])
    BY <1>2, <1>4 DEF IsTab
  <1>7. tab.rows = r /\ tab.weighing = g
    BY <1>1
  <1> QED BY <1>2, <1>5, <1>6, <1>7

LEMMA HeadingIsTyped ==
    ASSUME NEW tab, IsTab(tab)
    PROVE  IsTab([tab EXCEPT !.header[1] = Mistyped])
  <1>1. PICK h, r, w, g : tab = [header |-> h, rows |-> r, weighed |-> w, weighing |-> g]
    BY Zenon DEF IsTab
  <1>2. /\ h \in [1 .. Width -> Headings] /\ DOMAIN r = 1 .. Len(CategoryOrder)
        /\ w \in Seq(WeighedFunds)
    BY <1>1 DEF IsTab
  <1>3. [h EXCEPT ![1] = Mistyped] \in [1 .. Width -> Headings]
    BY <1>2 DEF Headings
  <1>4. [tab EXCEPT !.header[1] = Mistyped]
          = [header |-> [h EXCEPT ![1] = Mistyped], rows |-> r, weighed |-> w, weighing |-> g]
    BY <1>1
  <1> QED BY <1>2, <1>3, <1>4 DEF IsTab

\* Whoever edits the tab, the invariant stays.
LEMMA WeightsEditKeeps ==
    ASSUME WeightsInv, NEW tab, EditWeights(tab), tab # Blank => IsTab(tab)
    PROVE  WeightsInv'
  <1>1. /\ weightsTab' = tab /\ weightChanges < MaxWeightChanges
        /\ weightChanges' = weightChanges + 1
        /\ UNCHANGED <<valuesTab, sicTab, goodWeights, config, noted, read, weightsAsked>>
    BY DEF EditWeights, WeightChange
  <1>2. weightChanges' \in 0 .. MaxWeightChanges
    BY <1>1, WeightsAssumption DEF WeightsInv
  <1>3. OddCellIsSaid' /\ PairsAreRows'
    BY <1>1 DEF WeightsInv, OddCellIsSaid, PairsAreRows
  <1> QED BY <1>1, <1>2, <1>3 DEF WeightsInv

\* All four parts of a tab are changed.
TabWith(c, H, R, W, G) ==
    [c EXCEPT !.header = H, !.rows = R, !.weighed = W, !.weighing = G]

LEMMA FourChanged ==
    ASSUME NEW c, NEW h, NEW r, NEW w, NEW g, NEW H, NEW R, NEW W, NEW G,
           c = [header |-> h, rows |-> r, weighed |-> w, weighing |-> g]
    PROVE  TabWith(c, H, R, W, G) = [header |-> H, rows |-> R, weighed |-> W, weighing |-> G]
  <1> DEFINE d == [c EXCEPT !.header = H]
             e == [d EXCEPT !.rows = R]
             f == [e EXCEPT !.weighed = W]
             k == [f EXCEPT !.weighing = G]
  <1>1. d = [header |-> H, rows |-> r, weighed |-> w, weighing |-> g]
    OBVIOUS
  <1> HIDE DEF d
  <1>2. e = [header |-> H, rows |-> R, weighed |-> w, weighing |-> g]
    BY <1>1
  <1> HIDE DEF e
  <1>3. f = [header |-> H, rows |-> R, weighed |-> W, weighing |-> g]
    BY <1>2
  <1> HIDE DEF f
  <1>4. k = [header |-> H, rows |-> R, weighed |-> W, weighing |-> G]
    BY <1>3
  <1>5. k = TabWith(c, H, R, W, G)
    BY Zenon DEF d, e, f, TabWith
  <1> QED BY <1>4, <1>5

LEMMA ColumnKeeps ==
    ASSUME WeightsInv, InsertFundColumn
    PROVE  WeightsInv'
  <1> DEFINE widened(cells, x) ==
                [i \in 1..Width |-> IF i < PolicyColumn THEN cells[i]
                                    ELSE IF i = PolicyColumn THEN x ELSE cells[i - 1]]
             old == weightsTab
             H == widened(old.header, AddedFund)
             R == [i \in DOMAIN old.rows |-> [old.rows[i] EXCEPT !.cells = widened(@, 3)]]
             W == Append(old.weighed, AddedFund)
             G == [k \in DOMAIN old.weighing |->
                        [old.weighing[k] EXCEPT !.cells = Append(@, Blank)]]
             tab == [old EXCEPT !.header = H, !.rows = R, !.weighed = W, !.weighing = G]
  <1>1. EditWeights(tab)
    BY DEF InsertFundColumn
  <1>2. IsTab(weightsTab)
    BY <1>1 DEF EditWeights, WeightsInv
  <1>3. PICK h, r, w, g : old = [header |-> h, rows |-> r, weighed |-> w, weighing |-> g]
    BY <1>2, Zenon DEF IsTab
  <1>4. /\ old.header \in [1 .. Width -> Headings] /\ DOMAIN old.rows = 1 .. Len(CategoryOrder)
        /\ old.weighed \in Seq(WeighedFunds)
    BY <1>2 DEF IsTab
  <1>5. widened(old.header, AddedFund) \in [1 .. Width -> Headings]
    <2>1. AddedFund \in Headings
      BY DEF WeighedFunds, Headings
    <2>2. ASSUME NEW i \in 1 .. Width
          PROVE  (IF i < PolicyColumn THEN old.header[i]
                  ELSE IF i = PolicyColumn THEN AddedFund ELSE old.header[i - 1]) \in Headings
      <3>1. ~(i < PolicyColumn) /\ i # PolicyColumn => i - 1 \in 1 .. Width
        BY OrdersAreLists DEF PolicyColumn
      <3> QED BY <1>4, <2>1, <3>1
    <2> QED BY <2>2
  <1>6. Append(old.weighed, AddedFund) \in Seq(WeighedFunds)
    <2>1. AddedFund \in WeighedFunds
      BY DEF WeighedFunds
    <2> QED BY <1>4, <2>1, AppendProperties
  <1>7. DOMAIN R = 1 .. Len(CategoryOrder)
    BY <1>4
  <1>8. tab = TabWith(old, H, R, W, G)
    BY Zenon DEF TabWith
  <1> HIDE DEF R, G, H, W, tab
  <1>9. tab = [header |-> H, rows |-> R, weighed |-> W, weighing |-> G]
    BY <1>3, <1>8, FourChanged
  <1>10. IsTab(tab)
    <2>1. H \in [1 .. Width -> Headings] /\ W \in Seq(WeighedFunds)
      BY <1>5, <1>6 DEF H, W
    <2> QED BY <1>7, <1>9, <2>1 DEF IsTab
  <1> QED BY <1>1, <1>10, WeightsEditKeeps

LEMMA TypingKeeps ==
    ASSUME WeightsInv,
           \/ TypeWeight \/ TypeImportance \/ TypePolicy \/ TypeAttribute
           \/ TypeHeading \/ ClearWeights
    PROVE  WeightsInv'
  <1>1. \A tab : EditWeights(tab) => IsTab(weightsTab)
    BY DEF EditWeights, WeightsInv
  <1>2. CASE TypeWeight
    <2>1. PICK at \in MatrixCells, x \in TypedCells :
              EditWeights([weightsTab EXCEPT !.rows[at[1]].cells[at[2]] = x])
      BY <1>2 DEF TypeWeight
    <2>2. IsTab([weightsTab EXCEPT !.rows[at[1]].cells[at[2]] = x])
      BY <1>1, <2>1, CellIsTyped
    <2> QED BY <2>1, <2>2, WeightsEditKeeps
  <1>3. CASE TypeImportance
    <2>1. PICK at \in WeighingCells, x \in TypedCells :
              EditWeights([weightsTab EXCEPT !.weighing[at[1]].cells[at[2]] = x])
      BY <1>3 DEF TypeImportance
    <2>2. IsTab([weightsTab EXCEPT !.weighing[at[1]].cells[at[2]] = x])
      BY <1>1, <2>1, CellIsTyped
    <2> QED BY <2>1, <2>2, WeightsEditKeeps
  <1>4. CASE TypePolicy
    <2>1. PICK i : EditWeights([weightsTab EXCEPT !.rows[i].cells[PolicyColumn] = Assume])
      BY <1>4 DEF TypePolicy
    <2>2. IsTab([weightsTab EXCEPT !.rows[i].cells[PolicyColumn] = Assume])
      BY <1>1, <2>1, CellIsTyped
    <2> QED BY <2>1, <2>2, WeightsEditKeeps
  <1>5. CASE TypeAttribute
    <2>1. PICK i, a : EditWeights([weightsTab EXCEPT !.rows[i].attribute = a])
      BY <1>5 DEF TypeAttribute
    <2>2. IsTab([weightsTab EXCEPT !.rows[i].attribute = a])
      BY <1>1, <2>1, CellIsTyped
    <2> QED BY <2>1, <2>2, WeightsEditKeeps
  <1>6. CASE TypeHeading
    <2>1. EditWeights([weightsTab EXCEPT !.header[1] = Mistyped])
      BY <1>6 DEF TypeHeading
    <2>2. IsTab([weightsTab EXCEPT !.header[1] = Mistyped])
      BY <1>1, <2>1, HeadingIsTyped
    <2> QED BY <2>1, <2>2, WeightsEditKeeps
  <1>7. CASE ClearWeights
    BY <1>7, WeightsEditKeeps DEF ClearWeights
  <1> QED BY <1>2, <1>3, <1>4, <1>5, <1>6, <1>7

LEMMA OtherTabsKeep ==
    ASSUME WeightsInv, TypeLists \/ TypeSetting
    PROVE  WeightsInv'
  <1>1. /\ weightChanges < MaxWeightChanges /\ weightChanges' = weightChanges + 1
        /\ UNCHANGED <<weightsTab, goodWeights, config, noted, read, weightsAsked>>
        /\ sicTab' = sicTab \/ sicTab' \in SicEdits
    BY DEF TypeLists, TypeSetting, WeightChange
  <1>2. weightChanges' \in 0 .. MaxWeightChanges
    BY <1>1, WeightsAssumption DEF WeightsInv
  <1>3. sicTab' \in Seq(LinesOf(sicTab'))
    <2>1. CASE sicTab' = sicTab
      BY <2>1 DEF WeightsInv
    <2>2. CASE sicTab' \in SicEdits
      BY <2>2, WeightsAssumption DEF LinesOf
    <2> QED BY <1>1, <2>1, <2>2
  <1>4. OddCellIsSaid' /\ PairsAreRows'
    BY <1>1 DEF WeightsInv, OddCellIsSaid, PairsAreRows
  <1> QED BY <1>1, <1>2, <1>3, <1>4 DEF WeightsInv

LEMMA WeightsKeep ==
    ASSUME WeightsInv, [WeightsNext]_weightsVars
    PROVE  WeightsInv'
  <1>1. CASE UNCHANGED weightsVars
    BY <1>1 DEF weightsVars, WeightsInv, OddCellIsSaid, PairsAreRows
  <1>2. CASE WeightsNext
    BY <1>2, LoadKeeps, AddKeeps, ColumnKeeps, TypingKeeps, OtherTabsKeep DEF WeightsNext
  <1> QED BY <1>1, <1>2

\* Weights are weights that somebody gave for that attribute, value and fund, an odd cell is
\* said, and a SIC code has the sector of its row: for any attributes, values, funds, cells
\* that are typed and edits (WeightsStand).
THEOREM WeightsAlwaysStand == WeightsSpec => []WeightsStand
  <1>1. WeightsInv => WeightsStand
    BY WeightsHold
  <1> QED BY <1>1, WeightsStart, WeightsKeep, PTL DEF WeightsSpec

==============================================================================
