------------------------------ MODULE Decisions ------------------------------
(***************************************************************************)
(* One company's verdict lives in three places: the user_field row and the *)
(* daily_review marker in SQLite, and cell Z of its row on the Sheet.  The  *)
(* web page, the command line (Telegram), a person typing in the Sheet and  *)
(* the full render (sync_sheet) all write it, each in several steps.        *)
(*                                                                          *)
(* A remote call is one step: mirror_verdict reads the row and then writes  *)
(* Z, and takes effect at one of the two moments (row order is the subject  *)
(* of SheetRender).  Stamps have the resolution of the code: one second.    *)
(***************************************************************************)
EXTENDS Integers, FiniteSets

CONSTANTS
    Companies,
    Verdicts,      \* "worth contacting", "not for me", "unsure"
    Blank,         \* an empty Sheet cell
    Absent,        \* the company has no row on the Sheet yet
    NoRow,         \* no row in SQLite
    MaxTime,       \* bound: seconds of the modelled period
    DayLength,     \* seconds in a day of the model
    MaxDecisions,  \* bound: decisions taken on the web page or command line
    MaxEdits,      \* bound: edits typed into the Sheet
    UndoLimit,     \* UndoLog.LIMIT (200 in the code)
    Faults,        \* what may go wrong, a subset of FaultKinds
    Overlap,       \* may two surfaces be in the middle of something at once?
    SheetEdits,    \* what a person may type into Z
    FirstCells     \* what the Sheet may show before the first decision

FaultKinds == {"lost",    \* a Sheet call raises and did nothing
               "ghost",   \* a Sheet call raises after Google applied it
               "crash"}   \* the process dies between two of its steps

ASSUME ConstantsAssumption ==
    /\ MaxTime \in Nat /\ DayLength \in Nat \ {0}
    /\ MaxDecisions \in Nat /\ MaxEdits \in Nat /\ UndoLimit \in Nat
    /\ Faults \subseteq FaultKinds
    /\ Overlap \in BOOLEAN
    /\ SheetEdits \subseteq Verdicts \cup {Blank}
    /\ FirstCells \subseteq {Blank, Absent}
    /\ Blank \notin Verdicts /\ Absent \notin Verdicts /\ Blank # Absent
    /\ NoRow \notin [value : Verdicts, at : 0..MaxTime]

VARIABLES
    now,        \* the clock, in whole seconds
    userField,  \* user_field(company, 'verdict')
    review,     \* daily_review(company, day)
    cell,       \* Companies!Z on the Sheet
    rendered,   \* sheet_row_state(company, Companies, Z)
    undoLog,    \* UndoLog._items
    decisions,  \* decisions taken so far; also numbers the undo tokens
    edits,      \* Sheet edits made so far
    web,        \* the request holding the web server's write_lock
    cli,        \* the `founder-radar decide` in progress
    sync,       \* the sync_sheet in progress
    latest,     \* history: what the last person to act asked for
    changedAt,  \* history: when SQLite's value last became what it is
    unseen      \* history: whose last order emptied a cell that no sync had
                \* remembered as filled

vars == <<now, userField, review, cell, rendered, undoLog, decisions, edits,
          web, cli, sync, latest, changedAt, unseen>>

database == <<userField, review>>
history == <<latest, changedAt, unseen>>

------------------------------------------------------------------------------
Times == 0..MaxTime
Day(t) == t \div DayLength
Days == {Day(t) : t \in Times}
Today == Day(now)

Rows == [value : Verdicts, at : Times]
MaybeRow == Rows \cup {NoRow}
Cells == Verdicts \cup {Blank, Absent}

\* VerdictReceipt: what a decision wrote and what it replaced.
Receipts == [company : Companies, day : Days, verdict : Verdicts, stamp : Times,
             prev : MaybeRow, prevReview : MaybeRow]
MirrorStatus == {"synced", "already_synced", "not_found", "failed"}
Entries == [token : 1..MaxDecisions, receipt : Receipts, sheet : MirrorStatus]

Idle == [pc |-> "idle"]
WebStates == {Idle}
             \cup [pc : {"mirror"}, receipt : Receipts, token : 1..MaxDecisions]
             \cup [pc : {"restore", "commit"}, entry : Entries]
CliStates == {Idle} \cup [pc : {"mirror"}, company : Companies, verdict : Verdicts]
SyncStates == {Idle}
              \cup [pc : {"fold"}, seen : [Companies -> Cells]]
              \cup [pc : {"plan"}]
              \cup [pc : {"write"}, target : [Companies -> Verdicts \cup {Blank}],
                    rows : SUBSET Companies]
              \cup [pc : {"save"}, target : [Companies -> Verdicts \cup {Blank}]]

TypeOK ==
    /\ now \in Times
    /\ userField \in [Companies -> MaybeRow]
    /\ review \in [Companies -> [Days -> MaybeRow]]
    /\ cell \in [Companies -> Cells]
    /\ rendered \in [Companies -> Cells]
    /\ undoLog \subseteq Entries
    /\ decisions \in 0..MaxDecisions
    /\ edits \in 0..MaxEdits
    /\ web \in WebStates
    /\ cli \in CliStates
    /\ sync \in SyncStates
    /\ latest \in [Companies -> Verdicts \cup {Blank}]
    /\ changedAt \in [Companies -> Times]
    /\ unseen \subseteq Companies

Init ==
    /\ now = 0
    /\ userField = [c \in Companies |-> NoRow]
    /\ review = [c \in Companies |-> [d \in Days |-> NoRow]]
    /\ cell \in [Companies -> FirstCells]
    /\ rendered = cell
    /\ undoLog = {}
    /\ decisions = 0 /\ edits = 0
    /\ web = Idle /\ cli = Idle /\ sync = Idle
    /\ latest = [c \in Companies |-> Blank]
    /\ changedAt = [c \in Companies |-> 0]
    /\ unseen = {}

\* Runs that study one surface at a time let no operation start inside another.
MayStart ==
    Overlap \/ (web = Idle /\ cli = Idle /\ sync = Idle)

Tick ==
    /\ now < MaxTime
    /\ now' = now + 1
    /\ UNCHANGED <<database, cell, rendered, undoLog, decisions, edits,
                   web, cli, sync, history>>

------------------------------------------------------------------------------
(* The Sheet calls both decision surfaces make.                             *)

\* mirror_verdict's answer when nothing fails.
MirrorAnswer(c, v) ==
    CASE cell[c] = Absent -> "not_found"
      [] cell[c] = v      -> "already_synced"
      [] OTHER            -> "synced"

\* MUTANT of Mirrored: leaves a cell that already holds something.
MirroredIfEmpty(c, v) == IF cell[c] = Blank THEN [cell EXCEPT ![c] = v] ELSE cell

\* Z of company c after mirror_verdict(c, v) reached Google.
Mirrored(c, v) == IF cell[c] = Absent THEN cell ELSE [cell EXCEPT ![c] = v]

\* One call: it works, or it raises without or after having its effect.
MirrorCall(c, v, status) ==
    \/ /\ status = MirrorAnswer(c, v)
       /\ cell' = Mirrored(c, v)
    \/ /\ "lost" \in Faults
       /\ status = "failed"
       /\ cell' = cell
    \/ /\ "ghost" \in Faults
       /\ status = "failed"
       /\ cell' = Mirrored(c, v)

\* record_verdict_receipt, from BEGIN IMMEDIATE to COMMIT.
Record(c, v) ==
    LET row == [value |-> v, at |-> now] IN
    /\ decisions < MaxDecisions
    /\ decisions' = decisions + 1
    /\ userField' = [userField EXCEPT ![c] = row]
    /\ review' = [review EXCEPT ![c][Today] = row]
    /\ latest' = [latest EXCEPT ![c] = v]
    /\ changedAt' = [changedAt EXCEPT ![c] = now]
    /\ unseen' = unseen \ {c}

Receipt(c, v) ==
    [company |-> c, day |-> Today, verdict |-> v, stamp |-> now,
     prev |-> userField[c], prevReview |-> review[c][Today]]

------------------------------------------------------------------------------
(* The web page.  Every request that writes holds write_lock to its end.    *)

\* POST /api/verdict, up to the commit.
WebDecide(c, v) ==
    /\ MayStart
    /\ web = Idle
    /\ Record(c, v)
    /\ web' = [pc |-> "mirror", receipt |-> Receipt(c, v), token |-> decisions + 1]
    /\ UNCHANGED <<now, cell, rendered, undoLog, edits, cli, sync>>

\* UndoLog.add: at most UndoLimit entries, the oldest go first.
Newest(entries) ==
    {e \in entries : Cardinality({f \in entries : f.token >= e.token}) <= UndoLimit}

\* The mirror after the commit, best effort, and the reply with its undo id.
WebMirror ==
    /\ web.pc = "mirror"
    /\ \E status \in MirrorStatus :
          /\ MirrorCall(web.receipt.company, web.receipt.verdict, status)
          /\ undoLog' = Newest(undoLog \cup {[token |-> web.token,
                                              receipt |-> web.receipt,
                                              sheet |-> status]})
    /\ web' = Idle
    /\ UNCHANGED <<now, database, rendered, decisions, edits, cli, sync, history>>

\* verdict_undo_applies: the store still holds exactly what the decision wrote.
UndoApplies(r) ==
    LET wrote == [value |-> r.verdict, at |-> r.stamp] IN
    /\ userField[r.company] = wrote
    /\ review[r.company][r.day] = wrote

\* MUTANT of ReachedSheet: a cell that already showed the verdict was not written.
WroteSheet(status) == status = "synced"

ReachedSheet(status) == status \in {"synced", "already_synced"}

\* POST /api/undo: refused at once unless it applies; the Sheet comes first if
\* the decision is thought to have reached it.
WebUndo(entry) ==
    /\ MayStart
    /\ web = Idle
    /\ entry \in undoLog
    /\ UndoApplies(entry.receipt)
    /\ web' = [pc |-> IF ReachedSheet(entry.sheet) THEN "restore" ELSE "commit",
               entry |-> entry]
    /\ UNCHANGED <<now, database, cell, rendered, undoLog, decisions, edits,
                   cli, sync, history>>

\* The verdict the Sheet is put back to: "" when there was none.
PrevVerdict(r) == IF r.prev = NoRow THEN Blank ELSE r.prev.value

\* mirror_verdict_restore_to_sheet: a failure is answered 502 and ends the undo.
UndoRestore ==
    /\ web.pc = "restore"
    /\ \E status \in MirrorStatus :
          /\ MirrorCall(web.entry.receipt.company, PrevVerdict(web.entry.receipt), status)
          /\ web' = IF status = "failed" THEN Idle
                    ELSE [pc |-> "commit", entry |-> web.entry]
    /\ UNCHANGED <<now, database, rendered, undoLog, decisions, edits,
                   cli, sync, history>>

\* MUTANT of UndoCommit: trusts the check made before the Sheet call.
UndoCommitUnchecked ==
    /\ web.pc = "commit"
    /\ LET r == web.entry.receipt IN
       /\ userField' = [userField EXCEPT ![r.company] = r.prev]
       /\ review' = [review EXCEPT ![r.company][r.day] = r.prevReview]
       /\ undoLog' = undoLog \ {web.entry}
       /\ latest' = [latest EXCEPT ![r.company] = PrevVerdict(r)]
       /\ unseen' = unseen \ {r.company}
       /\ changedAt' = [changedAt EXCEPT
                          ![r.company] = IF r.prev = NoRow THEN now ELSE r.prev.at]
    /\ web' = Idle
    /\ UNCHANGED <<now, cell, rendered, decisions, edits, cli, sync>>

\* MUTANT of UndoCommit: puts the old marker into the current day's queue.
UndoCommitToday ==
    /\ web.pc = "commit"
    /\ LET r == web.entry.receipt IN
       /\ UndoApplies(r)
       /\ userField' = [userField EXCEPT ![r.company] = r.prev]
       /\ review' = [review EXCEPT ![r.company][Today] = r.prevReview]
       /\ undoLog' = undoLog \ {web.entry}
       /\ latest' = [latest EXCEPT ![r.company] = PrevVerdict(r)]
       /\ unseen' = unseen \ {r.company}
       /\ changedAt' = [changedAt EXCEPT
                          ![r.company] = IF r.prev = NoRow THEN now ELSE r.prev.at]
    /\ web' = Idle
    /\ UNCHANGED <<now, cell, rendered, decisions, edits, cli, sync>>

\* undo_verdict when it still applies: both rows go back, stamps included.
UndoCommit ==
    /\ web.pc = "commit"
    /\ LET r == web.entry.receipt IN
       /\ UndoApplies(r)
       /\ userField' = [userField EXCEPT ![r.company] = r.prev]
       /\ review' = [review EXCEPT ![r.company][r.day] = r.prevReview]
       /\ undoLog' = undoLog \ {web.entry}
       /\ latest' = [latest EXCEPT ![r.company] = PrevVerdict(r)]
       /\ unseen' = unseen \ {r.company}
       /\ changedAt' = [changedAt EXCEPT
                          ![r.company] = IF r.prev = NoRow THEN now ELSE r.prev.at]
    /\ web' = Idle
    /\ UNCHANGED <<now, cell, rendered, decisions, edits, cli, sync>>

\* undo_verdict raises UndoConflict: 409, nothing changes and the entry stays.
UndoConflict ==
    /\ web.pc = "commit"
    /\ ~ UndoApplies(web.entry.receipt)
    /\ web' = Idle
    /\ UNCHANGED <<now, database, cell, rendered, undoLog, decisions, edits,
                   cli, sync, history>>

\* POST /api/review-again: today's markers go, the lasting verdicts stay.
ReviewAgain ==
    /\ MayStart
    /\ web = Idle
    /\ review' = [c \in Companies |-> [review[c] EXCEPT ![Today] = NoRow]]
    /\ UNCHANGED <<now, userField, cell, rendered, undoLog, decisions, edits,
                   web, cli, sync, history>>

\* The web process restarts: the request in progress and the undo log are gone.
WebRestart ==
    /\ "crash" \in Faults
    /\ web' = Idle
    /\ undoLog' = {}
    /\ UNCHANGED <<now, database, cell, rendered, decisions, edits,
                   cli, sync, history>>

------------------------------------------------------------------------------
(* The command line, which Telegram calls: no lock, no undo.                *)

CliDecide(c, v) ==
    /\ MayStart
    /\ cli = Idle
    /\ Record(c, v)
    /\ cli' = [pc |-> "mirror", company |-> c, verdict |-> v]
    /\ UNCHANGED <<now, cell, rendered, undoLog, edits, web, sync>>

CliMirror ==
    /\ cli.pc = "mirror"
    /\ \E status \in MirrorStatus : MirrorCall(cli.company, cli.verdict, status)
    /\ cli' = Idle
    /\ UNCHANGED <<now, database, rendered, undoLog, decisions, edits,
                   web, sync, history>>

CliCrash ==
    /\ "crash" \in Faults
    /\ cli # Idle
    /\ cli' = Idle
    /\ UNCHANGED <<now, database, cell, rendered, undoLog, decisions, edits,
                   web, sync, history>>

\* A person types in the Verdict column, or empties it.
EditSheet(c, v) ==
    /\ MayStart
    /\ edits < MaxEdits
    /\ cell[c] \notin {Absent, v}
    /\ edits' = edits + 1
    /\ cell' = [cell EXCEPT ![c] = v]
    /\ latest' = [latest EXCEPT ![c] = v]
    /\ unseen' = IF v = Blank /\ rendered[c] \notin Verdicts THEN unseen \cup {c}
                 ELSE unseen \ {c}
    /\ UNCHANGED <<now, database, rendered, undoLog, decisions,
                   web, cli, sync, changedAt>>

------------------------------------------------------------------------------
(* sync_sheet: read, fold the Sheet's verdicts in, render, remember.        *)

\* read_sheet_state: one batchGet.
SyncRead ==
    /\ MayStart
    /\ sync = Idle
    /\ sync' = [pc |-> "fold", seen |-> cell]
    /\ UNCHANGED <<now, database, cell, rendered, undoLog, decisions, edits,
                   web, cli, history>>

\* MUTANT of Folded: every morning's echo gets a fresh stamp.
FoldedRestamped(c, seen) ==
    IF seen \in Verdicts THEN [value |-> seen, at |-> now]
    ELSE IF seen = Blank /\ rendered[c] \in Verdicts THEN NoRow
    ELSE userField[c]

\* save_user_fields takes a verdict it does not hold yet for an edit...
IsEdit(c, seen) ==
    seen \in Verdicts /\ (userField[c] = NoRow \/ userField[c].value # seen)

\* MUTANT of Folded: an emptied cell is no edit.
FoldedKept(c, seen) ==
    IF IsEdit(c, seen) THEN [value |-> seen, at |-> now] ELSE userField[c]

\* ... leaves an echo alone, and lets a blank delete only where something had
\* been rendered.
Folded(c, seen) ==
    IF IsEdit(c, seen) THEN [value |-> seen, at |-> now]
    ELSE IF seen = Blank /\ rendered[c] \in Verdicts THEN NoRow
    ELSE userField[c]

SyncFold ==
    /\ sync.pc = "fold"
    /\ userField' = [c \in Companies |-> Folded(c, sync.seen[c])]
    /\ changedAt' = [c \in Companies |->
                        IF IsEdit(c, sync.seen[c]) THEN now ELSE changedAt[c]]
    /\ sync' = [pc |-> "plan"]
    /\ UNCHANGED <<now, review, cell, rendered, undoLog, decisions, edits,
                   web, cli, latest, unseen>>

\* The verdict column of a row in user_fields_from_db.
ValueIn(row) == IF row = NoRow THEN Blank ELSE row.value

\* user_fields_from_db and plan_tab: a row is written when a cell of it differs
\* from what is remembered, Z or any other (the choice of `others`).
SyncPlan ==
    /\ sync.pc = "plan"
    /\ LET target == [c \in Companies |-> ValueIn(userField[c])] IN
       \E others \in SUBSET Companies :
          sync' = [pc |-> "write", target |-> target,
                   rows |-> others \cup {c \in Companies : target[c] # rendered[c]}]
    /\ UNCHANGED <<now, database, cell, rendered, undoLog, decisions, edits,
                   web, cli, history>>

\* The verdict column after the planned rows were written.
Rendered(s) == [c \in Companies |-> IF c \in s.rows THEN s.target[c] ELSE cell[c]]

\* gw.batch_set: it works, or raises before or after the cells changed.
SyncWrite ==
    /\ sync.pc = "write"
    /\ \/ /\ cell' = Rendered(sync)
          /\ sync' = [pc |-> "save", target |-> sync.target]
       \/ /\ "lost" \in Faults
          /\ cell' = cell
          /\ sync' = Idle
       \/ /\ "ghost" \in Faults
          /\ cell' = Rendered(sync)
          /\ sync' = Idle
    /\ UNCHANGED <<now, database, rendered, undoLog, decisions, edits,
                   web, cli, history>>

\* save_state: sheet_row_state becomes the rendered grid.
SyncSave ==
    /\ sync.pc = "save"
    /\ rendered' = sync.target
    /\ sync' = Idle
    /\ UNCHANGED <<now, database, cell, undoLog, decisions, edits,
                   web, cli, history>>

SyncCrash ==
    /\ "crash" \in Faults
    /\ sync # Idle
    /\ sync' = Idle
    /\ UNCHANGED <<now, database, cell, rendered, undoLog, decisions, edits,
                   web, cli, history>>

------------------------------------------------------------------------------
Next ==
    \/ Tick
    \/ \E c \in Companies, v \in Verdicts : WebDecide(c, v) \/ CliDecide(c, v)
    \/ \E c \in Companies, v \in SheetEdits : EditSheet(c, v)
    \/ \E entry \in undoLog : WebUndo(entry)
    \/ WebMirror \/ UndoRestore \/ UndoCommit \/ UndoConflict
    \/ ReviewAgain \/ WebRestart
    \/ CliMirror \/ CliCrash
    \/ SyncRead \/ SyncFold \/ SyncPlan \/ SyncWrite \/ SyncSave \/ SyncCrash

Spec == Init /\ [][Next]_vars

\* The machine keeps running and the timer keeps starting the render; people
\* need not do anything.
Fairness ==
    /\ WF_vars(WebMirror) /\ WF_vars(UndoRestore)
    /\ WF_vars(UndoCommit \/ UndoConflict) /\ WF_vars(CliMirror)
    /\ SF_vars(SyncRead) /\ WF_vars(SyncFold) /\ WF_vars(SyncPlan)
    /\ WF_vars(SyncWrite) /\ WF_vars(SyncSave)

FairSpec == Spec /\ Fairness

------------------------------------------------------------------------------
(* Properties                                                               *)

\* Today's already_decided gate and same-day marker: either hides the company.
Hidden(c) ==
    \/ userField[c] # NoRow /\ Day(userField[c].at) < Today
    \/ review[c][Today] # NoRow

\* A company whose verdict was settled on an earlier day stays off Today: no
\* render, echo, undo or retry makes an old decision look like today's.
SettledStaysHidden ==
    \A c \in Companies :
        userField[c] # NoRow /\ Day(changedAt[c]) < Today => Hidden(c)

\* A same-day marker belongs to the day it was written on: an undo or a second
\* look that crosses midnight never plants yesterday's marker in today's queue.
MarkerOnItsDay ==
    \A c \in Companies, d \in Days :
        review[c][d] # NoRow => Day(review[c][d].at) = d

\* An undo only ever takes back the verdict it was issued for: whatever the
\* command line, the Sheet or a second look stored meanwhile is left alone.
UndoTakesBackOwn ==
    [][ \A c \in Companies :
          web.pc = "commit" /\ web' = Idle /\ userField'[c] # userField[c]
            => /\ c = web.entry.receipt.company
               /\ userField[c] = [value |-> web.entry.receipt.verdict,
                                  at |-> web.entry.receipt.stamp]
      ]_vars

\* Once the Sheet has been folded in, SQLite holds the last verdict anyone gave:
\* the render that follows cannot bring an older one back.
LatestVerdictWins ==
    sync.pc = "plan" =>
        \A c \in Companies : latest[c] \in Verdicts => ValueIn(userField[c]) = latest[c]

\* The last verdict given ends up, and stays, in SQLite and on the Sheet.
EverywhereInTheEnd ==
    \A c \in Companies :
        <>[](latest[c] \in Verdicts =>
                cell[c] = latest[c] /\ ValueIn(userField[c]) = latest[c])

\* A verdict taken back, by Undo or by emptying its cell, is gone from SQLite by
\* the next render, which cannot bring it back.  Except one that was emptied before
\* any sync had remembered it: for save_user_fields that cell was never filled.
GoneStaysGone ==
    sync.pc = "plan" =>
        \A c \in Companies \ unseen : latest[c] = Blank => userField[c] = NoRow

==============================================================================
