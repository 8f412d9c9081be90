----------------------------- MODULE Generations ------------------------------
(***************************************************************************)
(* Every score row carries the hash of the configuration it was computed   *)
(* with, and Today shows only the rows of the active one: the newest        *)
(* last-good snapshot.  The configuration is typed in the Sheet and in the  *)
(* control room; scans, searches, rescores, Sheet syncs and the publish     *)
(* gate each load it, save it and score with it, in steps of their own and  *)
(* with nothing that keeps two of them apart.                               *)
(*                                                                         *)
(* A hash is the configuration itself: one value per field.  Data that does *)
(* not change a hash (facts about a company, the text of a card) is left to *)
(* TodayQA.  The one-off migrations of the loader are done.                 *)
(***************************************************************************)
EXTENDS Nothing, Integers, Sequences, SequencesExt

CONSTANTS
    Companies,
    Funds,       \* score_company writes one row per fund in its scope
    Fields,      \* the settings
    Values,
    Bad,         \* a cell that cannot be read as a value
    Procs,       \* operations that may be in progress at the same time
    Kinds,       \* the operations of a run, a subset of JobKinds
    Typos,       \* what a person may type by mistake, a subset of {Bad}
    MaxEdits,    \* bound: edits of the Sheet and changes in the control room
    MaxCrashes   \* bound: operations that die half way

JobKinds == {"scan", "search", "sync", "rescore", "rescore_now", "publish", "admin"}

ASSUME ConstantsAssumption ==
    /\ Bad \notin Values /\ None \notin Values
    /\ None \notin [Fields -> Values] /\ None # Bad
    /\ Fields # {} /\ Values # {}
    /\ Kinds \subseteq JobKinds /\ Typos \subseteq {Bad}
    /\ MaxEdits \in Nat /\ MaxCrashes \in Nat

VARIABLES
    sheet,       \* the configuration tabs of the Sheet
    created,     \* config_snapshot: its hashes in the order of created_at
    good,        \* config_snapshot: the hashes with is_last_good = 1
    score,       \* the config_hash of each score row
    job,         \* the operations in progress
    edits,       \* edits and changes so far
    crashes,     \* operations that died so far
    overlapped,  \* history: have two operations ever been in progress at once?
    saved        \* history: what the control room last answered for each field;
                 \* None while it has not, Bad once someone typed in the cell

vars == <<sheet, created, good, score, job, edits, crashes, overlapped, saved>>

snapshots == <<created, good>>
history == <<edits, crashes, overlapped, saved>>

------------------------------------------------------------------------------
Configs == [Fields -> Values]
Typed == [Fields -> Values \cup {Bad}]

\* load_config as the run uses it and as a Sheet sync uses it.
Load == <<"read", "parse", "insert", "demote">>
Sync == <<"reread", "parse", "insert", "demote">>

\* What each operation does, in order.
Plan(kind) ==
    CASE kind \in {"scan", "search"} -> Load \o <<"score">> \o Sync
      [] kind = "sync"        -> Sync
      [] kind = "rescore"     -> Load \o <<"bulk">>
      [] kind = "rescore_now" -> <<"current", "bulk">>
      [] kind = "publish"     -> <<"gate">> \o Load \o Sync \o <<"gate", "ping">>
      [] kind = "admin"       -> <<"current", "write", "insert", "demote", "bulk">>

Heal == Load \o <<"bulk", "regate">>
Stages == {"read", "reread", "parse", "insert", "demote", "score", "bulk",
           "current", "write", "gate", "regate", "ping"}
MaxStages == 16

\* An operation: what it has still to do, the tabs as it read them, the
\* configuration it holds, what it scores, and the change it is asked for.
Idle == [todo |-> <<>>]
Busy == [kind : Kinds, todo : {s \in Seq(Stages) : Len(s) \in 1..MaxStages},
         raw : Typed, cfg : Configs, left : SUBSET Companies, scope : SUBSET Funds,
         field : Fields, value : Values]

At(p, stage) == job[p].todo # <<>> /\ Head(job[p].todo) = stage

------------------------------------------------------------------------------
\* load_last_good: the newest row marked last-good.
ActiveOf(lines, marked) ==
    LET candidates == {i \in DOMAIN lines : lines[i] \in marked} IN
    IF candidates = {} THEN None ELSE lines[Max(candidates)]

Active == ActiveOf(created, good)

\* MUTANT of Shown: the rows of every configuration.
ShownAll(c, f) == score[c][f] # None

\* What Today shows: the rows under the active hash, all of them when there is none.
Shown(c, f) == score[c][f] # None /\ Active \in {None, score[c][f]}

Scored == {cf \in Companies \X Funds : score[cf[1]][cf[2]] # None}

Whole(cfg) == \A c \in Companies, f \in Funds : score[c][f] = cfg

\* The gate's config_hash_drift: no row is under the active hash, some are not.
Drift ==
    /\ Active # None
    /\ Scored # {}
    /\ \A cf \in Scored : score[cf[1]][cf[2]] # Active

\* parse_settings: a bad cell costs one value.
Effective(typed, fallback) ==
    [x \in Fields |-> IF typed[x] = Bad THEN fallback[x] ELSE typed[x]]

\* default_config, which is also what a Sheet starts from.
Default == CHOOSE cfg \in Configs : TRUE
Fallback == IF Active = None THEN Default ELSE Active

Init ==
    /\ sheet = Default
    /\ created = <<Default>> /\ good = {Default}
    /\ score = [c \in Companies |-> [f \in Funds |-> Default]]
    /\ job = [p \in Procs |-> Idle]
    /\ edits = 0 /\ crashes = 0
    /\ overlapped = FALSE
    /\ saved = [x \in Fields |-> None]

TypeOK ==
    /\ sheet \in Typed
    /\ created \in Seq(Configs) /\ good \subseteq Range(created)
    /\ score \in [Companies -> [Funds -> Configs \cup {None}]]
    /\ job \in [Procs -> Busy \cup {Idle}]
    /\ edits \in 0..MaxEdits /\ crashes \in 0..MaxCrashes
    /\ overlapped \in BOOLEAN
    /\ saved \in [Fields -> Values \cup {None, Bad}]

------------------------------------------------------------------------------
(* Operations start, step by step run to their end, and die.                *)

\* `search --fund` scores one fund, everything else all of them.
Scopes(kind) == IF kind = "search" THEN {{f} : f \in Funds} ELSE {Funds}

Start(p, kind) ==
    /\ job[p] = Idle
    /\ kind # "admin"
    /\ \E scope \in Scopes(kind) :
          job' = [job EXCEPT ![p] =
                    [kind |-> kind, todo |-> Plan(kind), raw |-> sheet, cfg |-> Default,
                     left |-> Companies, scope |-> scope,
                     field |-> CHOOSE x \in Fields : TRUE,
                     value |-> CHOOSE v \in Values : TRUE]]
    /\ overlapped' = (overlapped \/ \E q \in Procs \ {p} : job[q] # Idle)
    /\ UNCHANGED <<sheet, snapshots, score, edits, crashes, saved>>

\* apply_settings: the control room asks for one value.
Apply(p, x, v) ==
    /\ job[p] = Idle
    /\ edits < MaxEdits
    /\ edits' = edits + 1
    /\ job' = [job EXCEPT ![p] =
                 [kind |-> "admin", todo |-> Plan("admin"), raw |-> sheet, cfg |-> Default,
                  left |-> Companies, scope |-> Funds, field |-> x, value |-> v]]
    /\ overlapped' = (overlapped \/ \E q \in Procs \ {p} : job[q] # Idle)
    /\ UNCHANGED <<sheet, snapshots, score, crashes, saved>>

\* The next stage, after changing what the operation holds.
Goes(p, record) ==
    job' = [job EXCEPT ![p] = IF Len(job[p].todo) = 1 THEN Idle
                              ELSE [record EXCEPT !.todo = Tail(job[p].todo)]]
GoOn(p) == Goes(p, job[p])
GoTo(p, record, todo) ==
    job' = [job EXCEPT ![p] = IF todo = <<>> THEN Idle ELSE [record EXCEPT !.todo = todo]]

\* read_sheet_state: the tabs in one call.
ReadSheet(p) ==
    /\ At(p, "read") \/ At(p, "reread")
    /\ Goes(p, [job[p] EXCEPT !.raw = sheet])
    /\ UNCHANGED <<sheet, snapshots, score, history>>

\* The Sheet cannot be read: a run falls back to the last-good configuration and
\* does not save it; a Sheet sync is over.
SheetOut(p) ==
    /\ \/ /\ At(p, "read")
          /\ GoTo(p, [job[p] EXCEPT !.cfg = Fallback], SubSeq(job[p].todo, 5, Len(job[p].todo)))
       \/ /\ At(p, "reread")
          /\ GoTo(p, job[p], SubSeq(job[p].todo, 5, Len(job[p].todo)))
    /\ UNCHANGED <<sheet, snapshots, score, history>>

HasErrors(typed) == \E x \in Fields : typed[x] = Bad

\* load_config: used as it is, but saved only if every cell was good.
Parse(p) ==
    /\ At(p, "parse")
    /\ LET loaded == [job[p] EXCEPT !.cfg = Effective(job[p].raw, Fallback)] IN
       IF HasErrors(job[p].raw)
       THEN GoTo(p, loaded, SubSeq(job[p].todo, 4, Len(job[p].todo)))
       ELSE Goes(p, loaded)
    /\ UNCHANGED <<sheet, snapshots, score, history>>

\* save_snapshot, first statement: an INSERT that keeps created_at if the hash
\* is there already.
Insert(p) ==
    /\ At(p, "insert")
    /\ created' = IF job[p].cfg \in Range(created) THEN created
                  ELSE Append(created, job[p].cfg)
    /\ good' = good \cup {job[p].cfg}
    /\ GoOn(p)
    /\ UNCHANGED <<sheet, score, history>>

\* MUTANT of Demote: the newest row decides anyway.
DemoteNone(p) ==
    /\ At(p, "demote")
    /\ GoOn(p)
    /\ UNCHANGED <<sheet, snapshots, score, history>>

\* ... and the second: every other row is last-good no more.
Demote(p) ==
    /\ At(p, "demote")
    /\ good' = good \cap {job[p].cfg}
    /\ GoOn(p)
    /\ UNCHANGED <<sheet, created, score, history>>

\* MUTANT of ScoreCompany: a company that has scores already is not scored again.
ScoreOnce(p, c) ==
    /\ At(p, "score")
    /\ c \in job[p].left
    /\ score' = [score EXCEPT ![c] = [f \in Funds |->
                    IF f \in job[p].scope /\ @[f] = None THEN job[p].cfg ELSE @[f]]]
    /\ IF job[p].left = {c} THEN GoOn(p)
       ELSE job' = [job EXCEPT ![p] = [job[p] EXCEPT !.left = @ \ {c}]]
    /\ UNCHANGED <<sheet, snapshots, history>>

\* score_company: every row of the company in the funds of the scope.
ScoreCompany(p, c) ==
    /\ At(p, "score")
    /\ c \in job[p].left
    /\ score' = [score EXCEPT ![c] =
                    [f \in Funds |-> IF f \in job[p].scope THEN job[p].cfg ELSE @[f]]]
    /\ IF job[p].left = {c} THEN GoOn(p)
       ELSE job' = [job EXCEPT ![p] = [job[p] EXCEPT !.left = @ \ {c}]]
    /\ UNCHANGED <<sheet, snapshots, history>>

\* rescore_all; for a change from the control room the audit row and the answer
\* follow, which hold unless someone has typed in the cell by then.
Bulk(p) ==
    /\ At(p, "bulk")
    /\ score' = [c \in Companies |-> [f \in Funds |-> job[p].cfg]]
    /\ saved' = IF job[p].kind = "admin" /\ saved[job[p].field] # Bad
                THEN [saved EXCEPT ![job[p].field] = job[p].value] ELSE saved
    /\ GoOn(p)
    /\ UNCHANGED <<sheet, snapshots, edits, crashes, overlapped>>

\* current_config.  A change that changes nothing is skipped.
Current(p) ==
    /\ At(p, "current")
    /\ IF job[p].kind # "admin" THEN Goes(p, [job[p] EXCEPT !.cfg = Fallback])
       ELSE IF Fallback[job[p].field] = job[p].value THEN GoTo(p, job[p], <<>>)
       ELSE Goes(p, [job[p] EXCEPT !.cfg = [Fallback EXCEPT ![job[p].field] = job[p].value]])
    /\ UNCHANGED <<sheet, snapshots, score, history>>

\* MUTANT of WriteCell: the change is made in SQLite alone.
WriteNothing(p) ==
    /\ At(p, "write")
    /\ GoOn(p)
    /\ saved' = [saved EXCEPT ![job[p].field] = None]
    /\ UNCHANGED <<sheet, snapshots, score, edits, crashes, overlapped>>

\* The Sheet comes first; from here on the old value is being replaced.
WriteCell(p) ==
    /\ At(p, "write")
    /\ sheet' = [sheet EXCEPT ![job[p].field] = job[p].value]
    /\ saved' = [saved EXCEPT ![job[p].field] = None]
    /\ GoOn(p)
    /\ UNCHANGED <<snapshots, score, edits, crashes, overlapped>>

\* SheetUnavailable: nothing else is changed, but the call may have landed.
WriteFails(p) ==
    /\ At(p, "write")
    /\ \/ UNCHANGED <<sheet, saved>>
       \/ /\ sheet' = [sheet EXCEPT ![job[p].field] = job[p].value]
          /\ saved' = [saved EXCEPT ![job[p].field] = None]
    /\ GoTo(p, job[p], <<>>)
    /\ UNCHANGED <<snapshots, score, edits, crashes, overlapped>>

\* pre_publish_check: drift is healed once by a rescore of everything ...
Gate(p) ==
    /\ At(p, "gate")
    /\ IF Drift THEN GoTo(p, job[p], Heal \o Tail(job[p].todo)) ELSE GoOn(p)
    /\ UNCHANGED <<sheet, snapshots, score, history>>

\* ... and what is left blocks.
Regate(p) ==
    /\ At(p, "regate")
    /\ IF Drift THEN GoTo(p, job[p], <<>>) ELSE GoOn(p)
    /\ UNCHANGED <<sheet, snapshots, score, history>>

\* The gate refuses for another reason: no fresh scan, or Hermes says so.
Refuse(p) ==
    /\ At(p, "gate") \/ At(p, "regate")
    /\ GoTo(p, job[p], <<>>)
    /\ UNCHANGED <<sheet, snapshots, score, history>>

\* Today QA changed nothing: `publish` leaves the Sheet as it is.
NoSync(p) ==
    /\ At(p, "reread")
    /\ job[p].kind = "publish"
    /\ GoTo(p, job[p], SubSeq(job[p].todo, 5, Len(job[p].todo)))
    /\ UNCHANGED <<sheet, snapshots, score, history>>

Ping(p) ==
    /\ At(p, "ping")
    /\ GoOn(p)
    /\ UNCHANGED <<sheet, snapshots, score, history>>

Die(p) ==
    /\ crashes < MaxCrashes
    /\ job[p] # Idle
    /\ crashes' = crashes + 1
    /\ job' = [job EXCEPT ![p] = Idle]
    /\ UNCHANGED <<sheet, snapshots, score, edits, overlapped, saved>>

\* A person types in a cell.
Edit(x, v) ==
    /\ edits < MaxEdits
    /\ v # sheet[x]
    /\ edits' = edits + 1
    /\ sheet' = [sheet EXCEPT ![x] = v]
    /\ saved' = [saved EXCEPT ![x] = Bad]
    /\ UNCHANGED <<snapshots, score, job, crashes, overlapped>>

------------------------------------------------------------------------------
Step(p) ==
    \/ ReadSheet(p) \/ SheetOut(p) \/ Parse(p) \/ Insert(p) \/ Demote(p)
    \/ \E c \in Companies : ScoreCompany(p, c)
    \/ Bulk(p) \/ Current(p) \/ WriteCell(p) \/ WriteFails(p)
    \/ Gate(p) \/ Regate(p) \/ Refuse(p) \/ NoSync(p) \/ Ping(p)

Next ==
    \/ \E p \in Procs : Step(p) \/ Die(p)
    \/ \E p \in Procs, kind \in Kinds : Start(p, kind)
    \/ \E p \in Procs, x \in Fields, v \in Values : "admin" \in Kinds /\ Apply(p, x, v)
    \/ \E x \in Fields, v \in Values \cup Typos : Edit(x, v)

Spec == Init /\ [][Next]_vars

\* A started operation runs on, the Sheet is not out of reach for ever, and the
\* timer keeps starting the scan.
Fairness ==
    /\ \A p \in Procs : WF_vars(Step(p)) /\ SF_vars(ReadSheet(p))
    /\ SF_vars(\E p \in Procs : Start(p, "scan"))

FairSpec == Spec /\ Fairness

------------------------------------------------------------------------------
(* Properties                                                               *)

\* What a person saved in the control room is what Today reads until someone
\* changes that value: no run, sync or rescore puts an older one back.
SavedChangeStays ==
    ~ overlapped =>
        \A x \in Fields : saved[x] \in Values => Active # None /\ Active[x] = saved[x]

\* When the control room answers, everything is scored with what it saved.
AnswerScored ==
    \A x \in Fields :
        ~ overlapped /\ saved'[x] \in Values /\ saved'[x] # saved[x] => Whole(Active)'
AnswerIsScored == [][AnswerScored]_vars

\* Today never mixes companies scored with different configurations.
OneConfigurationShown ==
    ~ overlapped =>
        \A c, d \in Companies, f, g \in Funds :
            Shown(c, f) /\ Shown(d, g) => score[c][f] = score[d][g]

\* The morning message is sent only if Today has something of the active
\* configuration to show.
PingMatchesToday ==
    \A p \in Procs : ~ overlapped /\ At(p, "ping") => ~ Drift

\* However operations overlap, fail and die: once people leave the settings alone
\* and no cell is bad, everything is scored with what the Sheet says, and stays so.
SettlesOnTheSheet ==
    <>[](~ HasErrors(sheet) => Active = sheet /\ Whole(sheet))

==============================================================================
