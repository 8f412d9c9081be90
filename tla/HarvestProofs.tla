---------------------------- MODULE HarvestProofs ----------------------------
(***************************************************************************)
(* Theorems about Harvest, for every set of sources and ventures, every    *)
(* choice of the diffed sources and every bound on the events.             *)
(***************************************************************************)
EXTENDS Harvest, TLAPS

-----------------------------------------------------------------------------
(* Types                                                                   *)

\* What an adapter hands on are entries, what it saves is a snapshot, what it
\* learns a structure.
LEMMA AdapterTypes ==
    ASSUME TypeOK, NEW s \in Sources
    PROVE  /\ NewIds(s) \in SUBSET Ventures
           /\ Denied(s) \in SUBSET Ventures
           /\ Handed(s) \in SUBSET Entries
           /\ SavedSnapshot(s) \in [Diffed -> SUBSET Ventures]
           /\ LearnedLayout(s) \in [Sources -> Layouts \union {NoLayout}]
           /\ LeftOut(s) \in SUBSET Entries
  BY DEF TypeOK, Items, NewIds, Denied, Handed, Entries, SavedSnapshot, LearnedLayout,
         LeftOut

\* Reading a page keeps the types of the two histories.
LEMMA ReadType ==
    ASSUME TypeOK, NEW s \in Sources, Read(s)
    PROVE  gone' \in SUBSET Entries /\ missed' \in SUBSET Entries
  BY AdapterTypes DEF TypeOK, Read

LEMMA InitType == Init => TypeOK
  BY ConstantsAssumption DEF Init, TypeOK

LEMMA NextType == TypeOK /\ [Next]_vars => TypeOK'
  <1> SUFFICES ASSUME TypeOK, [Next]_vars PROVE TypeOK'
    OBVIOUS
  <1> USE ConstantsAssumption
  <1>1. ASSUME NEW s \in Sources, NEW v \in Ventures, Publish(s, v)
        PROVE  TypeOK'
    BY <1>1 DEF Publish, pastVars, runVars, TypeOK
  <1>2. ASSUME NEW s \in Sources, NEW v \in Ventures, Withdraw(s, v)
        PROVE  TypeOK'
    BY <1>2 DEF Withdraw, Event, runVars, TypeOK, Entries
  <1>3. ASSUME NEW v \in Ventures, Fund(v)
        PROVE  TypeOK'
    BY <1>3 DEF Fund, pastVars, Event, runVars, TypeOK
  <1>4. ASSUME NEW s \in Sources, NEW d \in Layouts, Redesign(s, d)
        PROVE  TypeOK'
    BY <1>4 DEF Redesign, pastVars, Event, runVars, TypeOK
  <1>17. ASSUME NEW e \in Entries, GoBlank(e) \/ Reappear(e)
         PROVE  TypeOK'
    BY <1>17 DEF GoBlank, Reappear, Event, pastVars, runVars, TypeOK
  <1>5. ASSUME NEW scope \in SUBSET Sources, BeginRun(scope)
        PROVE  TypeOK'
    BY <1>5 DEF BeginRun, pastVars, worldVars, TypeOK
  <1>6. ASSUME NEW s \in Sources, NEW withheld, FetchSource(s, withheld)
        PROVE  TypeOK'
    <2>1. events' \in 0 .. MaxEvents
      BY <1>6 DEF FetchSource, Event, TypeOK
    <2>2. shown' \in SUBSET Ventures
      BY <1>6 DEF FetchSource, TypeOK
    <2> QED BY <1>6, <2>1, <2>2, AdapterTypes, ReadType DEF FetchSource, Fetching, worldVars, TypeOK
  <1>7. ASSUME NEW s \in Sources, HoldBack(s)
        PROVE  TypeOK'
    BY <1>7, AdapterTypes, ReadType DEF HoldBack, Fetching, Unrepeatable, worldVars, TypeOK
  <1>8. ASSUME NEW s \in Sources, FetchFails(s)
        PROVE  TypeOK'
    BY <1>8 DEF FetchFails, pastVars, Fetching, Event, worldVars, TypeOK
  <1>9. ASSUME NEW e \in leads, Resolve(e)
        PROVE  TypeOK'
    BY <1>9 DEF Resolve, pastVars, Resolving, worldVars, TypeOK, Entries
  <1>10. ASSUME NEW e \in leads, TurnDown(e)
         PROVE  TypeOK'
    BY <1>10 DEF TurnDown, pastVars, Resolving, worldVars, TypeOK
  <1>11. CASE ApplyDenylist
    BY <1>11 DEF ApplyDenylist, pastVars, worldVars, TypeOK
  <1>12. CASE FinishRun
    BY <1>12 DEF FinishRun, pastVars, worldVars, TypeOK
  <1>13. CASE RunDies
    BY <1>13 DEF RunDies, pastVars, Event, Unrepeatable, worldVars, TypeOK
  <1>14. ASSUME NEW s \in Sources, AcceptLayout(s)
         PROVE  TypeOK'
    BY <1>14 DEF AcceptLayout, pastVars, worldVars, runVars, TypeOK
  <1>15. ASSUME NEW s \in Sources, TestSource(s)
         PROVE  TypeOK'
    BY <1>15, AdapterTypes, ReadType DEF TestSource, Event, Unrepeatable, worldVars, runVars, TypeOK
  <1>16. CASE UNCHANGED vars
    BY <1>16 DEF vars, TypeOK
  <1> QED
    BY <1>1, <1>2, <1>3, <1>4, <1>5, <1>6, <1>7, <1>8, <1>9, <1>10, <1>11, <1>12,
       <1>13, <1>14, <1>15, <1>16, <1>17
    DEF Next, Sites, Fetch, RunSteps, Operator, Entries

\* Every variable keeps its type.
THEOREM TypeCorrect == Spec => []TypeOK
  BY InitType, NextType, PTL DEF Spec

-----------------------------------------------------------------------------
(* Nothing falls between the diff and the company row.                     *)

\* Only a busy run has entries in hand, and it has gathered the denylist
\* evidence of every page it has read.
InHand ==
    /\ stage # "busy" => leads = {}
    /\ shown \subseteq listings

Accounts == TypeOK /\ InHand /\ SnapshotAccounted /\ DemotedBeforeScored

\* A snapshot that has just been saved names what it named before and what
\* the adapter hands on, beside denylist evidence.
LEMMA SavedIsHanded ==
    ASSUME TypeOK, NEW s \in Sources, NEW t \in Diffed, NEW v \in SavedSnapshot(s)[t]
    PROVE  v \in snapshot[t] \/ v \in funded \/ (t = s /\ <<s, v>> \in Handed(s))
  BY DEF TypeOK, Items, SavedSnapshot, NewIds, Denied, Handed

LEMMA InitAccounts == Init => Accounts
  BY InitType DEF Init, Accounts, InHand, SnapshotAccounted, DemotedBeforeScored

LEMMA NextAccounts == Accounts /\ [Next]_vars => Accounts'
  <1> SUFFICES ASSUME Accounts, [Next]_vars
               PROVE  InHand' /\ SnapshotAccounted' /\ DemotedBeforeScored'
    BY NextType DEF Accounts
  <1> USE DEF Accounts
  <1> DEFINE Kept == InHand' /\ SnapshotAccounted' /\ DemotedBeforeScored'
  <1>1. ASSUME NEW s \in Sources, NEW v \in Ventures, Publish(s, v)
        PROVE  Kept
    BY <1>1 DEF Publish, pastVars, runVars, InHand, SnapshotAccounted, DemotedBeforeScored
  <1>2. ASSUME NEW s \in Sources, NEW v \in Ventures, Withdraw(s, v)
        PROVE  Kept
    BY <1>2 DEF Withdraw, runVars, InHand, SnapshotAccounted, DemotedBeforeScored
  <1>3. ASSUME NEW v \in Ventures, Fund(v)
        PROVE  Kept
    BY <1>3 DEF Fund, pastVars, runVars, InHand, SnapshotAccounted, DemotedBeforeScored
  <1>4. ASSUME NEW s \in Sources, NEW d \in Layouts, Redesign(s, d)
        PROVE  Kept
    BY <1>4 DEF Redesign, pastVars, runVars, InHand, SnapshotAccounted, DemotedBeforeScored
  <1>16. ASSUME NEW e \in Entries, GoBlank(e) \/ Reappear(e)
         PROVE  Kept
    BY <1>16 DEF GoBlank, Reappear, runVars, InHand, SnapshotAccounted,
                 DemotedBeforeScored
  <1>5. ASSUME NEW scope \in SUBSET Sources, BeginRun(scope)
        PROVE  Kept
    BY <1>5 DEF BeginRun, pastVars, worldVars, InHand, SnapshotAccounted, DemotedBeforeScored
  <1>6. ASSUME NEW s \in Sources, NEW withheld, FetchSource(s, withheld)
        PROVE  Kept
    <2>1. stage = "busy" /\ stage' = "busy"
      BY <1>6 DEF FetchSource, Fetching
    <2>2. InHand'
      BY <1>6, <2>1 DEF FetchSource, Denied, InHand
    <2>3. ASSUME NEW t \in Diffed, NEW v \in SavedSnapshot(s)[t]
          PROVE  v \in funded \/ <<t, v>> \in settled \union leads' \union lost
      <3>1. CASE t = s /\ <<s, v>> \in Handed(s)
        <4>1. withheld = {}
          BY <1>6, <2>3, <3>1 DEF FetchSource
        <4> QED BY <1>6, <3>1, <4>1 DEF FetchSource
      <3>2. CASE v \in snapshot[t]
        BY <1>6, <3>2 DEF FetchSource, SnapshotAccounted
      <3> QED BY <2>3, <3>1, <3>2, SavedIsHanded
    <2>4. SnapshotAccounted'
      BY <1>6, <2>3 DEF FetchSource, worldVars, SnapshotAccounted
    <2> QED BY <2>1, <2>2, <2>4 DEF DemotedBeforeScored
  <1>7. ASSUME NEW s \in Sources, HoldBack(s)
        PROVE  Kept
    <2>1. ASSUME NEW t \in Diffed, NEW v \in SavedSnapshot(s)[t]
          PROVE  v \in funded \/ <<t, v>> \in settled \union leads \union lost'
      <3>1. CASE t = s /\ <<s, v>> \in Handed(s)
        BY <1>7, <2>1, <3>1 DEF HoldBack, Unrepeatable
      <3>2. CASE v \in snapshot[t]
        BY <1>7, <3>2 DEF HoldBack, SnapshotAccounted
      <3> QED BY <2>1, <3>1, <3>2, SavedIsHanded
    <2>2. SnapshotAccounted'
      BY <1>7, <2>1 DEF HoldBack, worldVars, SnapshotAccounted
    <2> QED BY <1>7, <2>2 DEF HoldBack, Fetching, InHand, DemotedBeforeScored
  <1>8. ASSUME NEW s \in Sources, FetchFails(s)
        PROVE  Kept
    BY <1>8 DEF FetchFails, pastVars, Fetching, worldVars, InHand, SnapshotAccounted,
                DemotedBeforeScored
  <1>9. ASSUME NEW e \in leads, Resolve(e) \/ TurnDown(e)
        PROVE  Kept
    <2>1. /\ stage = "busy" /\ stage' = "busy"
          /\ leads' = leads \ {e} /\ settled' = settled \union {e}
          /\ UNCHANGED <<snapshot, funded, lost, listings, shown>>
      BY <1>9 DEF Resolve, TurnDown, Resolving, worldVars
    <2> QED BY <2>1 DEF InHand, SnapshotAccounted, DemotedBeforeScored
  <1>10. CASE ApplyDenylist
    BY <1>10 DEF ApplyDenylist, pastVars, worldVars, InHand, SnapshotAccounted, DemotedBeforeScored
  <1>11. CASE FinishRun
    BY <1>11 DEF FinishRun, pastVars, worldVars, InHand, SnapshotAccounted, DemotedBeforeScored
  <1>12. CASE RunDies
    BY <1>12 DEF RunDies, pastVars, Unrepeatable, worldVars, InHand, SnapshotAccounted,
                 DemotedBeforeScored
  <1>13. ASSUME NEW s \in Sources, AcceptLayout(s)
         PROVE  Kept
    BY <1>13 DEF AcceptLayout, pastVars, worldVars, runVars, InHand, SnapshotAccounted,
                 DemotedBeforeScored
  <1>14. ASSUME NEW s \in Sources, TestSource(s)
         PROVE  Kept
    <2>1. ASSUME NEW t \in Diffed, NEW v \in SavedSnapshot(s)[t]
          PROVE  v \in funded \/ <<t, v>> \in settled \union leads \union lost'
      <3>1. CASE t = s /\ <<s, v>> \in Handed(s)
        BY <1>14, <2>1, <3>1 DEF TestSource, Unrepeatable
      <3>2. CASE v \in snapshot[t]
        BY <1>14, <3>2 DEF TestSource, SnapshotAccounted
      <3> QED BY <2>1, <3>1, <3>2, SavedIsHanded
    <2>2. SnapshotAccounted'
      BY <1>14, <2>1 DEF TestSource, worldVars, runVars, SnapshotAccounted
    <2> QED BY <1>14, <2>2 DEF TestSource, runVars, InHand, DemotedBeforeScored
  <1>15. CASE UNCHANGED vars
    BY <1>15 DEF vars, InHand, SnapshotAccounted, DemotedBeforeScored
  <1> QED
    BY <1>1, <1>2, <1>3, <1>4, <1>5, <1>6, <1>7, <1>8, <1>9, <1>10, <1>11, <1>12,
       <1>13, <1>14, <1>15, <1>16
    DEF Next, Sites, Fetch, RunSteps, Operator, Entries

LEMMA AlwaysAccounts == Spec => []Accounts
  BY InitAccounts, NextAccounts, PTL DEF Spec

\* Whatever the stored snapshot suppresses has been dealt with, or was dropped
\* in one of the three known ways.
THEOREM SnapshotAccountedTheorem == Spec => []SnapshotAccounted
  BY AlwaysAccounts, PTL DEF Accounts

\* No company shown as funded by a page of the run is scored without its flag.
THEOREM DemotedBeforeScoredTheorem == Spec => []DemotedBeforeScored
  BY AlwaysAccounts, PTL DEF Accounts

-----------------------------------------------------------------------------
(* An undated entry is handed on once.                                     *)

\* An entry of a diffed source that has been in a run's hands, and has neither
\* left its page nor been missed by a read since, is on the page and in the
\* snapshot.
Known ==
    \A s \in Diffed, v \in Ventures :
        <<s, v>> \in ((settled \union leads \union lost) \ gone) \ missed =>
            v \in page[s] /\ v \in snapshot[s]

Remembered == TypeOK /\ Known

LEMMA InitRemembered == Init => Remembered
  BY InitType DEF Init, Remembered, Known

\* Saving the snapshot keeps what is on the page and can be read; what it
\* leaves out is noted as missed.
LEMMA SavingRemembers ==
    ASSUME Remembered, NEW s \in Sources, snapshot' = SavedSnapshot(s), Read(s),
           UNCHANGED page,
           settled' \union leads' \union lost'
               \subseteq settled \union leads \union lost \union Handed(s)
    PROVE  Known'
  <1> SUFFICES ASSUME NEW t \in Diffed, NEW v \in Ventures,
                      <<t, v>> \in ((settled' \union leads' \union lost') \ gone') \ missed'
               PROVE  v \in page'[t] /\ v \in snapshot'[t]
    BY DEF Known
  <1>1. CASE <<t, v>> \in Handed(s)
    <2>1. t = s /\ v \in Items(s) /\ v \in page[s]
      BY <1>1, ConstantsAssumption DEF Handed, NewIds, Items
    <2> QED BY <2>1 DEF Remembered, TypeOK, SavedSnapshot
  <1>2. CASE <<t, v>> \notin Handed(s)
    <2>1. <<t, v>> \in ((settled \union leads \union lost) \ gone) \ missed
      BY <1>2 DEF Read
    <2>2. v \in page[t] /\ v \in snapshot[t]
      BY <2>1 DEF Remembered, Known
    <2>3. t = s => v \in Items(s)
      BY <2>2 DEF Read, LeftOut
    <2> QED BY <2>2, <2>3 DEF Remembered, TypeOK, SavedSnapshot
  <1> QED BY <1>1, <1>2

LEMMA NextRemembered == Remembered /\ [Next]_vars => Remembered'
  <1> SUFFICES ASSUME Remembered, [Next]_vars PROVE Known'
    BY NextType DEF Remembered
  <1>1. ASSUME NEW s \in Sources, NEW v \in Ventures, Publish(s, v)
        PROVE  Known'
    BY <1>1, ConstantsAssumption DEF Publish, runVars, pastVars, Remembered, TypeOK, Known
  <1>2. ASSUME NEW s \in Sources, NEW v \in Ventures, Withdraw(s, v)
        PROVE  Known'
    BY <1>2, ConstantsAssumption DEF Withdraw, runVars, Remembered, TypeOK, Known
  <1>3. ASSUME NEW s \in Sources, NEW withheld, FetchSource(s, withheld)
        PROVE  Known'
    BY <1>3, SavingRemembers DEF FetchSource, worldVars
  <1>4. ASSUME NEW s \in Sources, HoldBack(s)
        PROVE  Known'
    BY <1>4, SavingRemembers DEF HoldBack, Unrepeatable, worldVars
  <1>5. ASSUME NEW s \in Sources, TestSource(s)
        PROVE  Known'
    BY <1>5, SavingRemembers DEF TestSource, Unrepeatable, worldVars, runVars
  <1>6. ASSUME NEW e \in leads, Resolve(e) \/ TurnDown(e)
        PROVE  Known'
    <2>1. /\ leads' = leads \ {e} /\ settled' = settled \union {e}
          /\ UNCHANGED <<snapshot, page, gone, missed, lost>>
      BY <1>6 DEF Resolve, TurnDown, Resolving, worldVars, pastVars
    <2> QED BY <2>1 DEF Remembered, Known
  <1>7. CASE RunDies
    BY <1>7 DEF RunDies, Unrepeatable, worldVars, pastVars, Remembered, Known
  <1>8. ASSUME NEW scope \in SUBSET Sources, BeginRun(scope)
        PROVE  Known'
    BY <1>8 DEF BeginRun, worldVars, pastVars, Remembered, Known
  <1>9. CASE \/ \E v \in Ventures : Fund(v)
             \/ \E s \in Sources, d \in Layouts : Redesign(s, d)
             \/ \E e \in Entries : GoBlank(e) \/ Reappear(e)
             \/ \E s \in Sources : FetchFails(s) \/ AcceptLayout(s)
             \/ ApplyDenylist \/ FinishRun \/ UNCHANGED vars
    <2>1. UNCHANGED <<page, snapshot, gone, missed, settled, leads, lost>>
      BY <1>9 DEF Fund, Redesign, GoBlank, Reappear, FetchFails, AcceptLayout,
                  ApplyDenylist, FinishRun, vars, worldVars, runVars, pastVars
    <2> QED BY <2>1 DEF Remembered, Known
  <1> QED
    BY <1>1, <1>2, <1>3, <1>4, <1>5, <1>6, <1>7, <1>8, <1>9
    DEF Next, Sites, Fetch, RunSteps, Operator, Entries

LEMMA AlwaysRemembered == Spec => []Remembered
  BY InitRemembered, NextRemembered, PTL DEF Spec

\* A fetch is the only step that hands entries on, and it hands on none the
\* snapshot names.
LEMMA HandsOnNews ==
    ASSUME Remembered, [Next]_vars, NEW e \in leads' \ leads,
           e[1] \in Diffed, e \in settled \union lost
    PROVE  e \in gone \union missed
  <1>1. ASSUME NEW s \in Sources, NEW withheld, FetchSource(s, withheld)
        PROVE  e \in gone \union missed
    <2>1. e \in Handed(s)
      BY <1>1 DEF FetchSource
    <2>2. PICK v \in Ventures : e = <<s, v>> /\ v \notin snapshot[s]
      BY <2>1 DEF Handed, NewIds, Items, Remembered, TypeOK
    <2> QED BY <2>2 DEF Remembered, Known
  <1>2. ASSUME leads' \subseteq leads PROVE FALSE
    BY <1>2
  <1>3. ASSUME NEW f \in leads, Resolve(f) \/ TurnDown(f)
        PROVE  leads' \subseteq leads
    BY <1>3 DEF Resolve, TurnDown, Resolving
  <1>4. CASE Sites \/ Operator \/ BeginRun(Sources) \/ ApplyDenylist \/ FinishRun
             \/ RunDies \/ UNCHANGED vars
             \/ \E s \in Sources : HoldBack(s) \/ FetchFails(s)
    <2>1. leads' \subseteq leads
      BY <1>4 DEF Sites, Operator, Publish, Withdraw, Fund, Redesign, BeginRun,
                  GoBlank, Reappear, AcceptLayout, TestSource, HoldBack, FetchFails, ApplyDenylist,
                  FinishRun, RunDies, vars, runVars
    <2> QED BY <1>2, <2>1
  <1> QED BY <1>1, <1>2, <1>3, <1>4 DEF Next, RunSteps, Fetch

\* An undated entry is handed on again only when, since it last was, its page
\* took it off or a read found no name in its card.
THEOREM OldEntryIsNotNewsTheorem == Spec => OldEntryIsNotNews
  <1>1. Remembered /\ [Next]_vars =>
            [\A e \in leads' \ leads :
                e[1] \in Diffed /\ e \in settled \union lost => e \in gone \union missed]_vars
    BY HandsOnNews
  <1> QED BY <1>1, AlwaysRemembered, PTL DEF Spec, OldEntryIsNotNews

=============================================================================
