--------------------------- MODULE DecisionsProofs ---------------------------
(***************************************************************************)
(* What holds of Decisions for every number of companies, verdicts,        *)
(* decisions, edits and seconds, and every combination of faults.          *)
(***************************************************************************)
EXTENDS Decisions, TLAPS

USE DEF database, history

\* The day of a moment is one of the modelled days.
LEMMA DayInDays == \A t \in Times : Day(t) \in Days
BY DEF Days

\* A mirror call, whatever its answer, leaves the Sheet a column of cells.
LEMMA MirrorCallType ==
    ASSUME TypeOK, NEW c \in Companies, NEW v \in Verdicts \cup {Blank},
           NEW status \in MirrorStatus, MirrorCall(c, v, status)
    PROVE  cell' \in [Companies -> Cells]
BY DEF TypeOK, MirrorCall, Mirrored, Cells

\* A recorded decision has the type of a receipt.
LEMMA ReceiptType ==
    ASSUME TypeOK, NEW c \in Companies, NEW v \in Verdicts
    PROVE  Receipt(c, v) \in Receipts
BY DayInDays DEF TypeOK, Receipt, Receipts, Today

\* Recording a decision keeps the two tables and the counters well typed.
LEMMA RecordType ==
    ASSUME TypeOK, NEW c \in Companies, NEW v \in Verdicts, Record(c, v)
    PROVE  /\ userField' \in [Companies -> MaybeRow]
           /\ review' \in [Companies -> [Days -> MaybeRow]]
           /\ decisions' \in 0..MaxDecisions
           /\ decisions + 1 \in 1..MaxDecisions
           /\ latest' \in [Companies -> Verdicts \cup {Blank}]
           /\ unseen' \subseteq Companies
           /\ changedAt' \in [Companies -> Times]
<1> DEFINE row == [value |-> v, at |-> now]
<1>1. row \in MaybeRow
  BY DEF TypeOK, MaybeRow, Rows
<1>2. Today \in Days
  BY DayInDays DEF TypeOK, Today
<1>3. userField' = [userField EXCEPT ![c] = row]
      /\ review' = [review EXCEPT ![c] = [review[c] EXCEPT ![Today] = row]]
  BY DEF Record, TypeOK
<1> HIDE DEF row
<1>4. userField' \in [Companies -> MaybeRow]
  BY <1>1, <1>3 DEF TypeOK
<1>5. review' \in [Companies -> [Days -> MaybeRow]]
  <2>1. [review[c] EXCEPT ![Today] = row] \in [Days -> MaybeRow]
    BY <1>1, <1>2 DEF TypeOK
  <2> QED
    BY <2>1, <1>3 DEF TypeOK
<1>6. decisions' \in 0..MaxDecisions /\ decisions + 1 \in 1..MaxDecisions
  BY ConstantsAssumption DEF TypeOK, Record
<1> QED
  BY <1>4, <1>5, <1>6 DEF TypeOK, Record

\* The verdict an undo puts back is a verdict or nothing.
LEMMA PrevVerdictType ==
    ASSUME NEW r \in Receipts
    PROVE  PrevVerdict(r) \in Verdicts \cup {Blank}
BY DEF Receipts, PrevVerdict, MaybeRow, Rows


------------------------------------------------------------------------------
(* Type correctness, one lemma per surface.                                 *)

\* The page's requests keep every variable well typed.
LEMMA WebType ==
    ASSUME TypeOK,
           \/ \E c \in Companies, v \in Verdicts : WebDecide(c, v)
           \/ \E entry \in undoLog : WebUndo(entry)
           \/ WebMirror \/ UndoRestore \/ UndoCommit \/ UndoConflict
           \/ ReviewAgain \/ WebRestart
    PROVE  TypeOK'
<1>1. ASSUME NEW c \in Companies, NEW v \in Verdicts, WebDecide(c, v)
      PROVE  TypeOK'
  <2>1. Record(c, v)
    BY <1>1 DEF WebDecide
  <2>2. web' \in WebStates
    BY <1>1, <2>1, ReceiptType, RecordType DEF WebDecide, WebStates
  <2> QED
    BY <1>1, <2>1, <2>2, RecordType DEF TypeOK, WebDecide
<1>2. ASSUME NEW entry \in undoLog, WebUndo(entry)
      PROVE  TypeOK'
  <2>1. web' \in WebStates
    BY <1>2 DEF TypeOK, WebUndo, WebStates
  <2> QED
    BY <1>2, <2>1 DEF TypeOK, WebUndo
<1>3. CASE WebMirror
  <2>1. /\ web.receipt \in Receipts /\ web.token \in 1..MaxDecisions
        /\ web.receipt.company \in Companies /\ web.receipt.verdict \in Verdicts
    BY <1>3 DEF TypeOK, WebMirror, WebStates, Receipts, Idle
  <2>2. PICK status \in MirrorStatus :
           /\ MirrorCall(web.receipt.company, web.receipt.verdict, status)
           /\ undoLog' = Newest(undoLog \cup {[token |-> web.token,
                                               receipt |-> web.receipt,
                                               sheet |-> status]})
    BY <1>3 DEF WebMirror
  <2>3. undoLog' \subseteq Entries
    BY <2>1, <2>2 DEF TypeOK, Newest, Entries
  <2>4. cell' \in [Companies -> Cells]
    BY <2>1, <2>2, MirrorCallType
  <2> QED
    BY <1>3, <2>3, <2>4 DEF TypeOK, WebMirror, WebStates
<1>4. CASE UndoRestore
  <2>1. web.entry \in Entries /\ web.entry.receipt \in Receipts
        /\ web.entry.receipt.company \in Companies
    BY <1>4 DEF TypeOK, UndoRestore, WebStates, Entries, Receipts, Idle
  <2>2. PICK status \in MirrorStatus :
           /\ MirrorCall(web.entry.receipt.company, PrevVerdict(web.entry.receipt), status)
           /\ web' = IF status = "failed" THEN Idle
                     ELSE [pc |-> "commit", entry |-> web.entry]
    BY <1>4 DEF UndoRestore
  <2>3. cell' \in [Companies -> Cells]
    BY <2>1, <2>2, MirrorCallType, PrevVerdictType
  <2>4. web' \in WebStates
    BY <2>1, <2>2 DEF WebStates
  <2> QED
    BY <1>4, <2>3, <2>4 DEF TypeOK, UndoRestore
<1>5. CASE UndoCommit
  <2> DEFINE r == web.entry.receipt
  <2>1. /\ r.company \in Companies /\ r.day \in Days
        /\ r.prev \in MaybeRow /\ r.prevReview \in MaybeRow /\ r \in Receipts
    BY <1>5 DEF TypeOK, UndoCommit, WebStates, Entries, Receipts, Idle
  <2>2. userField' \in [Companies -> MaybeRow]
    BY <1>5, <2>1 DEF TypeOK, UndoCommit
  <2>3. review' = [review EXCEPT ![r.company] = [review[r.company] EXCEPT ![r.day] = r.prevReview]]
    BY <1>5, <2>1 DEF TypeOK, UndoCommit
  <2>4. [review[r.company] EXCEPT ![r.day] = r.prevReview] \in [Days -> MaybeRow]
    BY <2>1 DEF TypeOK
  <2>5. review' \in [Companies -> [Days -> MaybeRow]]
    BY <2>1, <2>3, <2>4 DEF TypeOK
  <2>6. latest' \in [Companies -> Verdicts \cup {Blank}]
    BY <1>5, <2>1, PrevVerdictType DEF TypeOK, UndoCommit
  <2>7. (IF r.prev = NoRow THEN now ELSE r.prev.at) \in Times
    BY <2>1 DEF TypeOK, MaybeRow, Rows
  <2>8. changedAt' \in [Companies -> Times]
    BY <1>5, <2>1, <2>7 DEF TypeOK, UndoCommit
  <2> QED
    BY <1>5, <2>2, <2>5, <2>6, <2>8 DEF TypeOK, UndoCommit, WebStates
<1>6. CASE UndoConflict
  BY <1>6 DEF TypeOK, UndoConflict, WebStates
<1>7. CASE ReviewAgain
  <2>1. \A c \in Companies : [review[c] EXCEPT ![Today] = NoRow] \in [Days -> MaybeRow]
    BY DEF TypeOK, MaybeRow
  <2> QED
    BY <1>7, <2>1 DEF TypeOK, ReviewAgain
<1>8. CASE WebRestart
  BY <1>8 DEF TypeOK, WebRestart, WebStates
<1> QED
  BY <1>1, <1>2, <1>3, <1>4, <1>5, <1>6, <1>7, <1>8

\* The command line and a person typing keep every variable well typed.
LEMMA CliAndSheetType ==
    ASSUME TypeOK,
           \/ \E c \in Companies, v \in Verdicts : CliDecide(c, v)
           \/ \E c \in Companies, v \in SheetEdits : EditSheet(c, v)
           \/ CliMirror \/ CliCrash
    PROVE  TypeOK'
<1>1. ASSUME NEW c \in Companies, NEW v \in Verdicts, CliDecide(c, v)
      PROVE  TypeOK'
  <2>1. Record(c, v)
    BY <1>1 DEF CliDecide
  <2> QED
    BY <1>1, <2>1, RecordType DEF TypeOK, CliDecide, CliStates
<1>2. ASSUME NEW c \in Companies, NEW v \in SheetEdits, EditSheet(c, v)
      PROVE  TypeOK'
  BY <1>2, ConstantsAssumption DEF TypeOK, EditSheet, Cells
<1>3. CASE CliMirror
  <2>1. cli.company \in Companies /\ cli.verdict \in Verdicts
    BY <1>3 DEF TypeOK, CliMirror, CliStates, Idle
  <2>2. cell' \in [Companies -> Cells]
    BY <1>3, <2>1, MirrorCallType DEF CliMirror
  <2> QED
    BY <1>3, <2>2 DEF TypeOK, CliMirror, CliStates
<1>4. CASE CliCrash
  BY <1>4 DEF TypeOK, CliCrash, CliStates
<1> QED
  BY <1>1, <1>2, <1>3, <1>4

\* The render keeps every variable well typed.
LEMMA SyncType ==
    ASSUME TypeOK,
           SyncRead \/ SyncFold \/ SyncPlan \/ SyncWrite \/ SyncSave \/ SyncCrash
    PROVE  TypeOK'
<1>1. CASE SyncRead
  BY <1>1 DEF TypeOK, SyncRead, SyncStates
<1>2. CASE SyncFold
  <2>1. \A c \in Companies, seen \in Cells : Folded(c, seen) \in MaybeRow
    BY DEF TypeOK, Folded, IsEdit, MaybeRow, Rows
  <2>2. sync.seen \in [Companies -> Cells]
    BY <1>2 DEF TypeOK, SyncFold, SyncStates, Idle
  <2>3. userField' \in [Companies -> MaybeRow]
    BY <1>2, <2>1, <2>2 DEF SyncFold
  <2>4. changedAt' \in [Companies -> Times]
    BY <1>2 DEF TypeOK, SyncFold
  <2> QED
    BY <1>2, <2>3, <2>4 DEF TypeOK, SyncFold, SyncStates
<1>3. CASE SyncPlan
  <2>1. [c \in Companies |-> ValueIn(userField[c])] \in [Companies -> Verdicts \cup {Blank}]
    BY DEF TypeOK, ValueIn, MaybeRow, Rows
  <2>2. sync' \in SyncStates
    BY <1>3, <2>1 DEF SyncPlan, SyncStates
  <2> QED
    BY <1>3, <2>2 DEF TypeOK, SyncPlan
<1>4. CASE SyncWrite
  <2>1. /\ sync.target \in [Companies -> Verdicts \cup {Blank}]
        /\ sync.rows \in SUBSET Companies
    BY <1>4 DEF TypeOK, SyncWrite, SyncStates, Idle
  <2>2. Rendered(sync) \in [Companies -> Cells]
    BY <2>1 DEF TypeOK, Rendered, Cells
  <2> QED
    BY <1>4, <2>1, <2>2 DEF TypeOK, SyncWrite, SyncStates
<1>5. CASE SyncSave
  <2>1. sync.target \in [Companies -> Cells]
    BY <1>5 DEF TypeOK, SyncSave, SyncStates, Idle, Cells
  <2> QED
    BY <1>5, <2>1 DEF TypeOK, SyncSave, SyncStates
<1>6. CASE SyncCrash
  BY <1>6 DEF TypeOK, SyncCrash, SyncStates
<1> QED
  BY <1>1, <1>2, <1>3, <1>4, <1>5, <1>6

\* The modelled period starts well typed.
LEMMA InitType == Init => TypeOK
<1> SUFFICES ASSUME Init
             PROVE  TypeOK
  OBVIOUS
<1>1. cell \in [Companies -> Cells]
  BY ConstantsAssumption DEF Init, Cells
<1> QED
  BY <1>1, ConstantsAssumption
     DEF Init, TypeOK, MaybeRow, WebStates, CliStates, SyncStates, Times

\* Every variable keeps its type, whatever fails and however the surfaces interleave.
THEOREM TypeCorrect == Spec => []TypeOK
<1>1. TypeOK /\ [Next]_vars => TypeOK'
  <2> SUFFICES ASSUME TypeOK, [Next]_vars
               PROVE  TypeOK'
    OBVIOUS
  <2>1. CASE Tick
    BY <2>1, ConstantsAssumption DEF TypeOK, Tick, Times
  <2>2. CASE UNCHANGED vars
    BY <2>2 DEF TypeOK, vars
  <2> QED
    BY <2>1, <2>2, WebType, CliAndSheetType, SyncType DEF Next
<1> QED
  BY <1>1, InitType, PTL DEF Spec

------------------------------------------------------------------------------
(* What an undo may touch.                                                  *)

\* An undo takes back only the verdict it was issued for (web.pc = "commit" is
\* the request after its Sheet call): the check repeated inside the transaction
\* is what makes it so, however much happened since the first one.
THEOREM UndoTakesBackOwnTheorem == Spec => UndoTakesBackOwn
<1> DEFINE Safe == \A c \in Companies :
          web.pc = "commit" /\ web' = Idle /\ userField'[c] # userField[c]
            => /\ c = web.entry.receipt.company
               /\ userField[c] = [value |-> web.entry.receipt.verdict,
                                  at |-> web.entry.receipt.stamp]
<1>1. TypeOK /\ [Next]_vars => Safe
  <2> SUFFICES ASSUME TypeOK, [Next]_vars, NEW c \in Companies,
                      web.pc = "commit", web' = Idle, userField'[c] # userField[c]
               PROVE  /\ c = web.entry.receipt.company
                      /\ userField[c] = [value |-> web.entry.receipt.verdict,
                                         at |-> web.entry.receipt.stamp]
    OBVIOUS
  <2>1. web # Idle
    BY DEF Idle
  <2>2. CASE UndoCommit
    BY <2>2 DEF TypeOK, UndoCommit, UndoApplies
  <2>3. CASE \/ \E d \in Companies, v \in Verdicts : WebDecide(d, v) \/ CliDecide(d, v)
             \/ \E d \in Companies, v \in SheetEdits : EditSheet(d, v)
             \/ \E entry \in undoLog : WebUndo(entry)
             \/ Tick \/ WebMirror \/ UndoRestore \/ UndoConflict
             \/ ReviewAgain \/ WebRestart \/ UNCHANGED vars
    BY <2>1, <2>3 DEF WebDecide, CliDecide, EditSheet, WebUndo, Tick, WebMirror,
       UndoRestore, UndoConflict, ReviewAgain, WebRestart, vars
  <2>4. CASE CliMirror \/ CliCrash \/ SyncRead \/ SyncFold \/ SyncPlan
             \/ SyncWrite \/ SyncSave \/ SyncCrash
    BY <2>1, <2>4 DEF CliMirror, CliCrash, SyncRead, SyncFold, SyncPlan,
       SyncWrite, SyncSave, SyncCrash
  <2> QED
    BY <2>2, <2>3, <2>4 DEF Next
<1>2. TypeOK /\ [Next]_vars => [Safe]_vars
  BY <1>1
<1> QED
  BY <1>2, TypeCorrect, PTL DEF Spec, UndoTakesBackOwn

------------------------------------------------------------------------------
(* Days: a marker belongs to its day, and a settled verdict stays hidden.   *)

\* What an undo will put back belongs to the day it will be put on.
HonestReceipt(r) == r.prevReview # NoRow => Day(r.prevReview.at) = r.day

\* MarkerOnItsDay and, for the receipts that outlive their decision, the same of
\* what they remember; a stored verdict carries the moment it became what it is.
DayInv ==
    /\ MarkerOnItsDay
    /\ \A e \in undoLog : HonestReceipt(e.receipt)
    /\ web.pc = "mirror" => HonestReceipt(web.receipt)
    /\ web.pc \in {"restore", "commit"} => HonestReceipt(web.entry.receipt)
    /\ \A c \in Companies : userField[c] # NoRow => userField[c].at = changedAt[c]

\* A decision writes today's marker today, and remembers the one it replaced.
LEMMA RecordDay ==
    ASSUME TypeOK, DayInv, NEW c \in Companies, NEW v \in Verdicts, Record(c, v)
    PROVE  /\ MarkerOnItsDay'
           /\ \A d \in Companies : userField'[d] # NoRow => userField'[d].at = changedAt'[d]
           /\ HonestReceipt(Receipt(c, v))
<1>1. Today \in Days /\ Day(now) = Today
  BY DayInDays DEF TypeOK, Today
<1>2. MarkerOnItsDay'
  <2> SUFFICES ASSUME NEW d \in Companies, NEW e \in Days, review'[d][e] # NoRow
               PROVE  Day(review'[d][e].at) = e
    BY DEF MarkerOnItsDay
  <2>1. CASE d = c /\ e = Today
    <3>1. review'[d][e] = [value |-> v, at |-> now]
      BY <1>1, <2>1 DEF TypeOK, Record
    <3> QED
      BY <1>1, <2>1, <3>1
  <2>2. CASE ~ (d = c /\ e = Today)
    <3>1. review'[d][e] = review[d][e]
      BY <1>1, <2>2 DEF TypeOK, Record
    <3> QED
      BY <3>1 DEF DayInv, MarkerOnItsDay
  <2> QED
    BY <2>1, <2>2
<1>3. \A d \in Companies : userField'[d] # NoRow => userField'[d].at = changedAt'[d]
  BY DEF TypeOK, Record, DayInv
<1>4. HonestReceipt(Receipt(c, v))
  BY <1>1 DEF HonestReceipt, Receipt, DayInv, MarkerOnItsDay
<1> QED
  BY <1>2, <1>3, <1>4

\* The modelled period starts with no marker and no receipt.
LEMMA DayInvInit == Init => DayInv
BY DEF Init, DayInv, MarkerOnItsDay, Idle

\* No step breaks it.
LEMMA DayInvStep ==
    ASSUME TypeOK, DayInv, [Next]_vars
    PROVE  DayInv'
<1>1. ASSUME NEW c \in Companies, NEW v \in Verdicts, WebDecide(c, v)
      PROVE  DayInv'
  <2>1. Record(c, v) /\ UNCHANGED undoLog
        /\ web' = [pc |-> "mirror", receipt |-> Receipt(c, v), token |-> decisions + 1]
    BY <1>1 DEF WebDecide
  <2> QED
    BY <2>1, RecordDay DEF DayInv
<1>2. ASSUME NEW c \in Companies, NEW v \in Verdicts, CliDecide(c, v)
      PROVE  DayInv'
  <2>1. Record(c, v) /\ UNCHANGED <<undoLog, web>>
    BY <1>2 DEF CliDecide
  <2> QED
    BY <2>1, RecordDay DEF DayInv
<1>3. ASSUME NEW entry \in undoLog, WebUndo(entry)
      PROVE  DayInv'
  BY <1>3 DEF WebUndo, DayInv, MarkerOnItsDay
<1>4. CASE WebMirror
  <2>1. \A e \in undoLog' : HonestReceipt(e.receipt)
    BY <1>4 DEF WebMirror, Newest, DayInv
  <2> QED
    BY <1>4, <2>1 DEF WebMirror, DayInv, MarkerOnItsDay, Idle
<1>5. CASE UndoRestore
  BY <1>5 DEF UndoRestore, DayInv, MarkerOnItsDay, Idle
<1>6. CASE UndoCommit
  <2> DEFINE r == web.entry.receipt
  <2>1. /\ r.company \in Companies /\ r.day \in Days
        /\ r.prev \in MaybeRow /\ HonestReceipt(r)
    BY <1>6 DEF TypeOK, UndoCommit, WebStates, Entries, Receipts, Idle, DayInv
  <2>2. MarkerOnItsDay'
    <3> SUFFICES ASSUME NEW c \in Companies, NEW d \in Days, review'[c][d] # NoRow
                 PROVE  Day(review'[c][d].at) = d
      BY DEF MarkerOnItsDay
    <3>1. CASE c = r.company /\ d = r.day
      <4>1. review'[c][d] = r.prevReview
        BY <1>6, <2>1, <3>1 DEF TypeOK, UndoCommit
      <4> QED
        BY <2>1, <3>1, <4>1 DEF HonestReceipt
    <3>2. CASE ~ (c = r.company /\ d = r.day)
      <4>1. review'[c][d] = review[c][d]
        BY <1>6, <2>1, <3>2 DEF TypeOK, UndoCommit
      <4> QED
        BY <4>1 DEF DayInv, MarkerOnItsDay
    <3> QED
      BY <3>1, <3>2
  <2>3. \A c \in Companies : userField'[c] # NoRow => userField'[c].at = changedAt'[c]
    BY <1>6, <2>1 DEF TypeOK, UndoCommit, DayInv
  <2> QED
    BY <1>6, <2>2, <2>3 DEF UndoCommit, DayInv, Idle
<1>7. CASE UndoConflict \/ WebRestart
  BY <1>7 DEF UndoConflict, WebRestart, DayInv, MarkerOnItsDay, Idle
<1>8. CASE ReviewAgain
  <2>1. \A c \in Companies, d \in Days : review'[c][d] \in {review[c][d], NoRow}
    BY <1>8 DEF TypeOK, ReviewAgain
  <2> QED
    BY <1>8, <2>1 DEF ReviewAgain, DayInv, MarkerOnItsDay
<1>9. CASE SyncFold
  <2>1. \A c \in Companies : userField'[c] # NoRow => userField'[c].at = changedAt'[c]
    BY <1>9 DEF SyncFold, Folded, IsEdit, TypeOK, DayInv
  <2> QED
    BY <1>9, <2>1 DEF SyncFold, DayInv, MarkerOnItsDay
<1>10. CASE \/ Tick \/ CliMirror \/ CliCrash \/ SyncRead \/ SyncPlan \/ SyncWrite
            \/ SyncSave \/ SyncCrash \/ UNCHANGED vars
            \/ \E c \in Companies, v \in SheetEdits : EditSheet(c, v)
  BY <1>10 DEF Tick, CliMirror, CliCrash, SyncRead, SyncPlan, SyncWrite, SyncSave,
     SyncCrash, EditSheet, vars, DayInv, MarkerOnItsDay
<1> QED
  BY <1>1, <1>2, <1>3, <1>4, <1>5, <1>6, <1>7, <1>8, <1>9, <1>10 DEF Next

\* So it always holds.
LEMMA DayInvariant == Spec => []DayInv
BY DayInvInit, DayInvStep, TypeCorrect, PTL DEF Spec

\* A same-day marker belongs to the day it was written on, across undo, restart,
\* a second look and midnight.
THEOREM MarkerOnItsDayTheorem == Spec => []MarkerOnItsDay
<1>1. DayInv => MarkerOnItsDay
  BY DEF DayInv
<1> QED
  BY <1>1, DayInvariant, PTL


\* A verdict settled on an earlier day hides its company today, whichever surface
\* wrote it and however often the render echoed it back.
THEOREM SettledStaysHiddenTheorem == Spec => []SettledStaysHidden
<1>1. TypeOK /\ DayInv => SettledStaysHidden
  <2> SUFFICES ASSUME TypeOK, DayInv, NEW c \in Companies,
                      userField[c] # NoRow, Day(changedAt[c]) < Today
               PROVE  Hidden(c)
    BY DEF SettledStaysHidden
  <2>1. userField[c].at = changedAt[c]
    BY DEF DayInv
  <2> QED
    BY <2>1 DEF Hidden
<1> QED
  BY <1>1, DayInvariant, TypeCorrect, PTL

------------------------------------------------------------------------------
(* Without faults, overlap or companies new to the Sheet, the last verdict   *)
(* wins, whatever people type or empty.                                      *)

Orderly ==
    /\ Faults = {} /\ Overlap = FALSE
    /\ FirstCells = {Blank}

\* The company whose Sheet cell somebody is about to settle.
Unsettled(c) ==
    \/ web.pc = "mirror" /\ web.receipt.company = c
    \/ web.pc = "commit" /\ web.entry.receipt.company = c
    \/ cli.pc = "mirror" /\ cli.company = c

\* What an emptied cell still has to delete when the next fold comes to it.
ToDelete(c) == rendered[c] \in Verdicts /\ sync.pc \in {"idle", "fold"}

\* The inductive invariant: outside the short time a surface needs, the Sheet
\* shows the last verdict given; SQLite has it from the fold to the save.  None of
\* this for a cell emptied before a sync remembered it.
SerialInv ==
    /\ \/ web = Idle /\ cli = Idle
       \/ web = Idle /\ sync = Idle
       \/ cli = Idle /\ sync = Idle
    /\ \A e \in undoLog : ReachedSheet(e.sheet)
    /\ \A c \in Companies : cell[c] # Absent
    /\ \A c \in unseen : latest[c] = Blank
    /\ \A c \in Companies \ unseen : ~ Unsettled(c) => cell[c] = latest[c]
    /\ \A c \in Companies \ unseen :
          latest[c] = Blank => userField[c] = NoRow \/ ToDelete(c)
    /\ web.pc = "mirror" => latest[web.receipt.company] = web.receipt.verdict
    /\ web.pc \in {"restore", "commit"} => UndoApplies(web.entry.receipt)
    /\ web.pc = "commit" =>
          cell[web.entry.receipt.company] = PrevVerdict(web.entry.receipt)
    /\ cli.pc = "mirror" => latest[cli.company] = cli.verdict
    /\ sync.pc = "fold" => sync.seen = cell
    /\ sync.pc = "plan" => \A c \in Companies \ unseen : ValueIn(userField[c]) = latest[c]
    /\ sync.pc = "write" => \A c \in Companies \ unseen : sync.target[c] = latest[c]

\* With no faults a mirror call settles its cell and says that it did.
LEMMA OrderlyMirror ==
    ASSUME Orderly, TypeOK, SerialInv, NEW c \in Companies, NEW v \in Verdicts \cup {Blank},
           NEW status \in MirrorStatus, MirrorCall(c, v, status)
    PROVE  /\ ReachedSheet(status) /\ status # "failed"
           /\ cell' = [cell EXCEPT ![c] = v]
           /\ \A d \in Companies : cell'[d] # Absent
<1>1. cell[c] # Absent
  BY DEF SerialInv
<1>2. status = MirrorAnswer(c, v) /\ cell' = Mirrored(c, v)
  BY DEF Orderly, MirrorCall
<1>3. cell' = [cell EXCEPT ![c] = v]
  BY <1>1, <1>2 DEF Mirrored
<1>4. status \in {"synced", "already_synced"}
  BY <1>1, <1>2 DEF MirrorAnswer
<1>5. v # Absent
  BY ConstantsAssumption
<1> QED
  BY <1>3, <1>4, <1>5 DEF ReachedSheet, TypeOK, SerialInv

\* Nothing starts while something else is in progress.
LEMMA OrderlyStart ==
    ASSUME Orderly, MayStart
    PROVE  web = Idle /\ cli = Idle /\ sync = Idle
BY DEF Orderly, MayStart

\* The orderly period starts with a blank Sheet and nothing decided.
LEMMA SerialInvInit ==
    ASSUME Orderly, Init
    PROVE  SerialInv
<1>1. \A c \in Companies : cell[c] = Blank
  BY DEF Orderly, Init
<1> QED
  BY <1>1, ConstantsAssumption DEF Init, SerialInv, Idle

\* No step breaks the order.
LEMMA SerialInvStep ==
    ASSUME Orderly, TypeOK, SerialInv, [Next]_vars
    PROVE  SerialInv'
<1> USE DEF Idle
<1>1. ASSUME NEW c \in Companies, NEW v \in Verdicts, WebDecide(c, v)
      PROVE  SerialInv'
  <2>1. /\ web = Idle /\ cli = Idle /\ sync = Idle
        /\ web' = [pc |-> "mirror", receipt |-> Receipt(c, v), token |-> decisions + 1]
        /\ Receipt(c, v).company = c /\ Receipt(c, v).verdict = v
        /\ UNCHANGED <<cell, rendered, undoLog, cli, sync>>
    BY <1>1, OrderlyStart DEF WebDecide, Receipt
  <2>2. latest' = [latest EXCEPT ![c] = v] /\ unseen' = unseen \ {c}
        /\ userField' = [userField EXCEPT ![c] = [value |-> v, at |-> now]]
    BY <1>1 DEF WebDecide, Record
  <2> QED
    BY <2>1, <2>2, ConstantsAssumption DEF TypeOK, SerialInv, Unsettled, ToDelete
<1>2. ASSUME NEW c \in Companies, NEW v \in Verdicts, CliDecide(c, v)
      PROVE  SerialInv'
  <2>1. /\ web = Idle /\ cli = Idle /\ sync = Idle
        /\ cli' = [pc |-> "mirror", company |-> c, verdict |-> v]
        /\ UNCHANGED <<cell, rendered, undoLog, web, sync>>
    BY <1>2, OrderlyStart DEF CliDecide
  <2>2. latest' = [latest EXCEPT ![c] = v] /\ unseen' = unseen \ {c}
        /\ userField' = [userField EXCEPT ![c] = [value |-> v, at |-> now]]
    BY <1>2 DEF CliDecide, Record
  <2> QED
    BY <2>1, <2>2, ConstantsAssumption DEF TypeOK, SerialInv, Unsettled, ToDelete
<1>3. ASSUME NEW c \in Companies, NEW v \in SheetEdits, EditSheet(c, v)
      PROVE  SerialInv'
  <2>1. /\ web = Idle /\ cli = Idle /\ sync = Idle /\ v \in Verdicts \cup {Blank}
        /\ cell' = [cell EXCEPT ![c] = v] /\ latest' = [latest EXCEPT ![c] = v]
        /\ unseen' = IF v = Blank /\ rendered[c] \notin Verdicts THEN unseen \cup {c}
                     ELSE unseen \ {c}
        /\ UNCHANGED <<userField, rendered, undoLog, web, cli, sync>>
    BY <1>3, OrderlyStart, ConstantsAssumption DEF EditSheet
  <2>2. \A d \in unseen' : latest'[d] = Blank
    BY <2>1, ConstantsAssumption DEF TypeOK, SerialInv
  <2>3. \A d \in Companies \ unseen' : cell'[d] = latest'[d]
    BY <2>1 DEF TypeOK, SerialInv, Unsettled
  <2>4. \A d \in Companies \ unseen' :
           latest'[d] = Blank => userField'[d] = NoRow \/ ToDelete(d)'
    BY <2>1, ConstantsAssumption DEF TypeOK, SerialInv, ToDelete
  <2> QED
    BY <2>1, <2>2, <2>3, <2>4, ConstantsAssumption DEF TypeOK, SerialInv, Unsettled, ToDelete
<1>4. ASSUME NEW entry \in undoLog, WebUndo(entry)
      PROVE  SerialInv'
  <2>1. /\ web = Idle /\ cli = Idle /\ sync = Idle
        /\ ReachedSheet(entry.sheet) /\ UndoApplies(entry.receipt)
        /\ web' = [pc |-> "restore", entry |-> entry]
        /\ UNCHANGED <<userField, review, cell, rendered, undoLog, cli, sync, latest, unseen>>
    BY <1>4, OrderlyStart DEF WebUndo, SerialInv
  <2>2. UndoApplies(entry.receipt)'
    BY <2>1 DEF UndoApplies
  <2> QED
    BY <2>1, <2>2 DEF SerialInv, Unsettled, ToDelete
<1>5. CASE WebMirror
  <2>1. /\ web.pc = "mirror" /\ web.receipt.company \in Companies
        /\ web.receipt.verdict \in Verdicts /\ cli = Idle /\ sync = Idle
    BY <1>5 DEF TypeOK, WebMirror, WebStates, Receipts, SerialInv
  <2>2. PICK status \in MirrorStatus :
           /\ MirrorCall(web.receipt.company, web.receipt.verdict, status)
           /\ undoLog' = Newest(undoLog \cup {[token |-> web.token,
                                               receipt |-> web.receipt,
                                               sheet |-> status]})
    BY <1>5 DEF WebMirror
  <2>3. /\ ReachedSheet(status)
        /\ cell' = [cell EXCEPT ![web.receipt.company] = web.receipt.verdict]
        /\ \A d \in Companies : cell'[d] # Absent
    BY <2>1, <2>2, OrderlyMirror
  <2>4. \A e \in undoLog' : ReachedSheet(e.sheet)
    BY <2>2, <2>3 DEF Newest, SerialInv
  <2>5. web' = Idle /\ UNCHANGED <<userField, rendered, cli, sync, latest, unseen>>
    BY <1>5 DEF WebMirror
  <2>6. \A c \in Companies \ unseen : cell'[c] = latest[c]
    BY <2>1, <2>3 DEF TypeOK, SerialInv, Unsettled
  <2> QED
    BY <2>1, <2>3, <2>4, <2>5, <2>6 DEF SerialInv, Unsettled, ToDelete
<1>6. CASE UndoRestore
  <2> DEFINE r == web.entry.receipt
  <2>1. /\ web.pc = "restore" /\ r \in Receipts /\ r.company \in Companies
        /\ cli = Idle /\ sync = Idle
    BY <1>6 DEF TypeOK, UndoRestore, WebStates, Entries, Receipts, SerialInv
  <2>2. PICK status \in MirrorStatus :
           /\ MirrorCall(r.company, PrevVerdict(r), status)
           /\ web' = IF status = "failed" THEN Idle
                     ELSE [pc |-> "commit", entry |-> web.entry]
    BY <1>6 DEF UndoRestore
  <2>3. /\ status # "failed"
        /\ cell' = [cell EXCEPT ![r.company] = PrevVerdict(r)]
        /\ \A d \in Companies : cell'[d] # Absent
    BY <2>1, <2>2, OrderlyMirror, PrevVerdictType
  <2>4. web' = [pc |-> "commit", entry |-> web.entry]
        /\ UNCHANGED <<userField, review, rendered, undoLog, cli, sync, latest, unseen>>
    BY <1>6, <2>2, <2>3 DEF UndoRestore
  <2>5. UndoApplies(r) /\ (UndoApplies(r))'
    BY <2>1, <2>4 DEF SerialInv, UndoApplies
  <2>6. \A c \in Companies \ unseen : c # r.company => cell'[c] = latest[c]
    BY <2>1, <2>3 DEF TypeOK, SerialInv, Unsettled
  <2>7. cell'[r.company] = PrevVerdict(r)
    BY <2>1, <2>3 DEF TypeOK
  <2> QED
    BY <2>1, <2>3, <2>4, <2>5, <2>6, <2>7, SMTT(30) DEF SerialInv, Unsettled, ToDelete, UndoApplies, PrevVerdict
<1>7. CASE UndoCommit
  <2> DEFINE r == web.entry.receipt
  <2>1. /\ web.pc = "commit" /\ r.company \in Companies /\ r.prev \in MaybeRow
        /\ cli = Idle /\ sync = Idle
    BY <1>7 DEF TypeOK, UndoCommit, WebStates, Entries, Receipts, SerialInv
  <2>2. /\ userField' = [userField EXCEPT ![r.company] = r.prev]
        /\ latest' = [latest EXCEPT ![r.company] = PrevVerdict(r)]
        /\ unseen' = unseen \ {r.company}
        /\ web' = Idle /\ undoLog' \subseteq undoLog
        /\ UNCHANGED <<cell, rendered, cli, sync>>
    BY <1>7 DEF UndoCommit
  <2>3. \A c \in Companies \ unseen' : cell[c] = latest'[c]
    BY <2>1, <2>2 DEF TypeOK, SerialInv, Unsettled
  <2>4. PrevVerdict(r) = Blank => r.prev = NoRow
    BY <2>1, ConstantsAssumption DEF PrevVerdict, MaybeRow, Rows
  <2>5. \A c \in Companies \ unseen' :
           latest'[c] = Blank => userField'[c] = NoRow \/ ToDelete(c)'
    BY <2>1, <2>2, <2>4 DEF TypeOK, SerialInv, ToDelete
  <2>6. \A c \in unseen' : latest'[c] = Blank
    BY <2>1, <2>2 DEF TypeOK, SerialInv
  <2> QED
    BY <2>1, <2>2, <2>3, <2>5, <2>6 DEF SerialInv, Unsettled, ToDelete
<1>8. CASE UndoConflict
  BY <1>8 DEF UndoConflict, SerialInv
<1>9. CASE ReviewAgain
  BY <1>9 DEF ReviewAgain, SerialInv, Unsettled, ToDelete
<1>10. CASE CliMirror
  <2>1. cli.pc = "mirror" /\ cli.company \in Companies /\ cli.verdict \in Verdicts
        /\ web = Idle /\ sync = Idle
    BY <1>10 DEF TypeOK, CliMirror, CliStates, SerialInv
  <2>2. /\ cell' = [cell EXCEPT ![cli.company] = cli.verdict]
        /\ \A d \in Companies : cell'[d] # Absent
    BY <1>10, <2>1, OrderlyMirror DEF CliMirror
  <2>3. cli' = Idle /\ UNCHANGED <<userField, rendered, undoLog, web, sync, latest, unseen>>
    BY <1>10 DEF CliMirror
  <2>4. \A c \in Companies \ unseen : cell'[c] = latest[c]
    BY <2>1, <2>2 DEF TypeOK, SerialInv, Unsettled
  <2> QED
    BY <2>1, <2>2, <2>3, <2>4 DEF SerialInv, Unsettled, ToDelete
<1>11. CASE SyncRead
  <2>1. web = Idle /\ cli = Idle /\ sync = Idle
        /\ sync' = [pc |-> "fold", seen |-> cell]
        /\ UNCHANGED <<userField, cell, rendered, undoLog, web, cli, latest, unseen>>
    BY <1>11, OrderlyStart DEF SyncRead
  <2> QED
    BY <2>1 DEF SerialInv, Unsettled, ToDelete
<1>12. CASE SyncFold
  <2>1. /\ sync.pc = "fold" /\ sync.seen = cell /\ web = Idle /\ cli = Idle
        /\ \A c \in Companies \ unseen : cell[c] = latest[c]
        /\ \A c \in Companies \ unseen :
              latest[c] = Blank => userField[c] = NoRow \/ rendered[c] \in Verdicts
    BY <1>12 DEF SyncFold, SerialInv, Unsettled, ToDelete
  <2>2. /\ userField' = [c \in Companies |-> Folded(c, cell[c])]
        /\ sync' = [pc |-> "plan"] /\ UNCHANGED <<cell, rendered, undoLog, web, cli, latest, unseen>>
    BY <1>12, <2>1 DEF SyncFold
  <2>3. ASSUME NEW c \in Companies \ unseen
        PROVE  /\ ValueIn(userField'[c]) = latest[c]
               /\ latest[c] = Blank => userField'[c] = NoRow
    <3>1. userField'[c] = Folded(c, latest[c])
      BY <2>1, <2>2
    <3>2. CASE latest[c] \in Verdicts
      <4>1. CASE userField[c] = NoRow \/ userField[c].value # latest[c]
        <5>1. Folded(c, latest[c]) = [value |-> latest[c], at |-> now]
          BY <3>2, <4>1 DEF Folded, IsEdit
        <5>2. [value |-> latest[c], at |-> now] # NoRow
          BY <3>2, ConstantsAssumption DEF TypeOK, Times
        <5> QED
          BY <3>1, <3>2, <5>1, <5>2, ConstantsAssumption DEF ValueIn
      <4>2. CASE userField[c] # NoRow /\ userField[c].value = latest[c]
        <5>1. latest[c] # Blank
          BY <3>2, ConstantsAssumption
        <5>2. Folded(c, latest[c]) = userField[c]
          BY <4>2, <5>1 DEF Folded, IsEdit
        <5> QED
          BY <3>1, <4>2, <5>1, <5>2 DEF ValueIn
      <4> QED
        BY <4>1, <4>2
    <3>3. CASE latest[c] = Blank
      <4>1. Folded(c, latest[c]) = NoRow
        BY <2>1, <3>3, ConstantsAssumption DEF Folded, IsEdit
      <4> QED
        BY <3>1, <3>3, <4>1 DEF ValueIn
    <3> QED
      BY <3>2, <3>3 DEF TypeOK
  <2> QED
    BY <2>1, <2>2, <2>3 DEF SerialInv, Unsettled, ToDelete
<1>13. CASE SyncPlan
  <2>1. /\ sync.pc = "plan" /\ sync'.pc = "write"
        /\ sync'.target = [c \in Companies |-> ValueIn(userField[c])]
        /\ UNCHANGED <<userField, cell, rendered, undoLog, web, cli, latest, unseen>>
    BY <1>13 DEF SyncPlan
  <2> QED
    BY <2>1 DEF SerialInv, Unsettled, ToDelete
<1>14. CASE SyncWrite
  <2>1. /\ sync.pc = "write" /\ web = Idle /\ cli = Idle
        /\ \A c \in Companies \ unseen : cell[c] = latest[c] /\ sync.target[c] = latest[c]
    BY <1>14 DEF SyncWrite, SerialInv, Unsettled
  <2>2. /\ cell' = Rendered(sync) /\ sync' = [pc |-> "save", target |-> sync.target]
        /\ UNCHANGED <<userField, rendered, undoLog, web, cli, latest, unseen>>
    BY <1>14 DEF SyncWrite, Orderly
  <2>3. \A c \in Companies \ unseen : cell'[c] = cell[c]
    BY <2>1, <2>2 DEF Rendered
  <2>4. \A c \in Companies : cell'[c] # Absent
    BY <1>14, <2>2, ConstantsAssumption DEF SerialInv, Rendered, TypeOK, SyncWrite, SyncStates, Idle
  <2> QED
    BY <2>1, <2>2, <2>3, <2>4 DEF SerialInv, Unsettled, ToDelete
<1>15. CASE SyncSave
  BY <1>15 DEF SyncSave, SerialInv, Unsettled, ToDelete
<1>16. CASE Tick \/ UNCHANGED vars
  <2>1. UNCHANGED <<userField, review, cell, rendered, undoLog, web, cli, sync, latest, unseen>>
    BY <1>16 DEF Tick, vars
  <2> QED
    BY <2>1 DEF SerialInv, Unsettled, ToDelete, UndoApplies
<1>17. CASE WebRestart \/ CliCrash \/ SyncCrash
  BY <1>17 DEF WebRestart, CliCrash, SyncCrash, Orderly
<1> QED
  BY <1>1, <1>2, <1>3, <1>4, <1>5, <1>6, <1>7, <1>8, <1>9, <1>10, <1>11, <1>12,
     <1>13, <1>14, <1>15, <1>16, <1>17 DEF Next

\* In an orderly period the render that follows any sequence of decisions, edits
\* and undos, on any number of companies, finds the last verdict in SQLite.
THEOREM LatestVerdictWinsTheorem ==
    ASSUME Orderly
    PROVE  Spec => []LatestVerdictWins
<1>1. Init => SerialInv
  BY SerialInvInit
<1>2. TypeOK /\ SerialInv /\ [Next]_vars => SerialInv'
  BY SerialInvStep
<1>3. SerialInv => LatestVerdictWins
  BY ConstantsAssumption DEF SerialInv, LatestVerdictWins
<1> QED
  BY <1>1, <1>2, <1>3, TypeCorrect, PTL DEF Spec

\* And a verdict that the last person undid, or emptied the cell of after a sync had
\* remembered it, is gone from SQLite by then, on any number of companies: the render
\* cannot bring it back.
THEOREM GoneStaysGoneTheorem ==
    ASSUME Orderly
    PROVE  Spec => []GoneStaysGone
<1>1. Init => SerialInv
  BY SerialInvInit
<1>2. TypeOK /\ SerialInv /\ [Next]_vars => SerialInv'
  BY SerialInvStep
<1>3. SerialInv => GoneStaysGone
  BY DEF SerialInv, GoneStaysGone, ToDelete
<1> QED
  BY <1>1, <1>2, <1>3, TypeCorrect, PTL DEF Spec

==============================================================================
