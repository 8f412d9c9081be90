---------------------------- MODULE SettingsProofs ----------------------------
(***************************************************************************)
(* Proofs about the settings that are typed in the Sheet, edited from the    *)
(* control room and read by every run: the Sources tab and the Fund Criteria *)
(* tab, for any sources, addresses, funds, vehicles and places; and about    *)
(* the generations of scores they lead to, for any settings and companies.   *)
(***************************************************************************)
EXTENDS Sources, Criteria, Generations, FiniteSetTheorems, WellFoundedInduction,
        SequenceTheorems, TLAPS

------------------------------------------------------------------------------
(* Sources                                                                  *)

SourceConfigs == [Keys -> SourceRows \cup {NoSource}]
FullConfigs == {cfg \in SourceConfigs : \A k \in Builtin : cfg[k] # NoSource}

\* What a change leaves of a source: only the feed is ever added or removed.
FitsChange(k, field, entry) ==
    \/ field \in {"on", "funds", "robots"} /\ entry \in SourceRows
    \/ field = "added" /\ k = Feed /\ entry \in SourceRows
    \/ field = "removed" /\ k = Feed /\ entry = NoSource

SourceOps ==
    {op \in [key : Keys, base : FullConfigs, entry : SourceRows \cup {NoSource},
             field : {"on", "funds", "robots", "added", "removed"},
             wrote : BOOLEAN, found : BOOLEAN, alone : BOOLEAN] :
        FitsChange(op.key, op.field, op.entry)}

Confirmations ==
    [field : {"on", "funds", "robots", "added", "removed"}, entry : SourceRows \cup {NoSource}]

Syncs == [rows : FullConfigs, strip : BOOLEAN]

SourcesTyped ==
    /\ sourcesTab \in SourceConfigs
    /\ goodSources \in FullConfigs \cup {None}
    /\ sync \in Syncs \cup {None}
    /\ sourceOp \in SourceOps \cup {None}
    /\ sourceAnswered \in [Keys -> Confirmations \cup {None}]
    /\ \A k \in Keys : sourceAnswered[k] # None =>
          FitsChange(k, sourceAnswered[k].field, sourceAnswered[k].entry)

\* What was confirmed is said everywhere a later step takes a source from: the
\* last-good configuration, the tab, what a sync under way is to write, what a
\* change under way of another source is to save.
SaidOf(k) ==
    sourceAnswered[k] # None =>
        /\ goodSources # None /\ SourceSays(goodSources[k], sourceAnswered[k])
        /\ SourceSays(WithDefaults(sourcesTab)[k], sourceAnswered[k])
        /\ sync # None => SourceSays(sync.rows[k], sourceAnswered[k])
        /\ sourceOp # None /\ sourceOp.key # k => SourceSays(sourceOp.base[k], sourceAnswered[k])

AnswersStand == \A k \in Keys : SaidOf(k)

\* A change under way that nothing else came between is in the tab once written.
OpStands ==
    sourceOp # None /\ sourceOp.alone =>
        /\ sync = None
        /\ sourceOp.wrote /\ sourceOp.found =>
              SourceSays(WithDefaults(sourcesTab)[sourceOp.key],
                         [field |-> sourceOp.field, entry |-> sourceOp.entry])

\* The qualifier that stands in the tab or the last-good configuration once the
\* flag is set is excused, or a sync is about to strip it.
Barred ==
    /\ ~rewritten => token /\ sync = None
    /\ rewritten /\ admits => readded \/ tornFlag
    /\ rewritten /\ token => readded \/ tornFlag \/ Halfway
    /\ used => readded \/ tornFlag

FeedRead(entry) ==
    entry # NoSource => Web[entry.url].entries > 0 /\ Web[entry.url].status = 200

FeedsRead ==
    /\ FeedRead(sourcesTab[Feed])
    /\ goodSources # None => FeedRead(goodSources[Feed])
    /\ sync # None => FeedRead(sync.rows[Feed])
    /\ sourceOp # None => /\ FeedRead(sourceOp.base[Feed])
                          /\ sourceOp.key = Feed => FeedRead(sourceOp.entry)

SourcesInv == SourcesTyped /\ AnswersStand /\ OpStands /\ Barred /\ FeedsRead

LEMMA DefaultsAreFull == DefaultSources \in FullConfigs /\ DefaultSources[Feed] = NoSource
  <1> DEFINE entry == [on |-> TRUE, funds |-> {}, robots |-> FALSE, url |-> None]
  <1>1. entry \in SourceRows
    BY DEF SourceRows
  <1>2. entry # NoSource
    BY <1>1, SourcesAssumption
  <1>3. \A k \in Keys : DefaultSources[k] = IF k = Feed THEN NoSource ELSE entry
    BY DEF DefaultSources
  <1>4. DefaultSources = [k \in Keys |-> DefaultSources[k]]
    BY DEF DefaultSources
  <1> HIDE DEF entry
  <1>5. DefaultSources \in SourceConfigs
    BY <1>1, <1>3, <1>4 DEF SourceConfigs
  <1>6. \A k \in Builtin : DefaultSources[k] # NoSource
    BY <1>2, <1>3, SourcesAssumption DEF Keys
  <1> QED BY <1>3, <1>5, <1>6 DEF FullConfigs, Keys

\* What is loaded has every source of DEFAULT_SOURCES, and the feed as its row has it.
LEMMA LoadedIsFull ==
    ASSUME NEW lines \in SourceConfigs
    PROVE  /\ WithDefaults(lines) \in FullConfigs
           /\ WithDefaults(lines)[Feed] = lines[Feed]
           /\ \A k \in Keys : lines[k] # NoSource => WithDefaults(lines)[k] = lines[k]
  BY DefaultsAreFull DEF WithDefaults, SourceConfigs, FullConfigs, Keys

\* What a control-room change starts from.
LEMMA CurrentIsFull ==
    ASSUME goodSources \in FullConfigs \cup {None}
    PROVE  /\ CurrentSources \in FullConfigs
           /\ CurrentSources[Feed] = IF goodSources = None THEN NoSource ELSE goodSources[Feed]
  BY DefaultsAreFull DEF CurrentSources

\* Switching the register off leaves a configuration, and every other source as it was.
LEMMA OffIsOff ==
    ASSUME NEW cfg \in SourceConfigs, cfg[Register] # NoSource
    PROVE  /\ Off(cfg) \in SourceConfigs
           /\ \A k \in Keys \ {Register} : Off(cfg)[k] = cfg[k]
           /\ cfg \in FullConfigs => Off(cfg) \in FullConfigs
  <1>1. Register \in Keys /\ cfg[Register] \in SourceRows
    BY SourcesAssumption DEF SourceConfigs, Keys
  <1>2. [cfg[Register] EXCEPT !.on = FALSE] \in SourceRows
    BY <1>1 DEF SourceRows
  <1>3. Off(cfg) = [cfg EXCEPT ![Register] = [cfg[Register] EXCEPT !.on = FALSE]]
    BY <1>1 DEF Off, SourceConfigs
  <1> QED BY <1>1, <1>2, <1>3, SourcesAssumption DEF SourceConfigs, FullConfigs, Keys

LEMMA SourcesStart == SourcesInit => SourcesInv
  <1> SUFFICES ASSUME SourcesInit PROVE SourcesInv
    OBVIOUS
  <1>1. DefaultSources \in FullConfigs /\ DefaultSources[Feed] = NoSource
    BY DefaultsAreFull
  <1>2. /\ Register \in Keys /\ Feed \in Keys /\ Register # Feed
        /\ [DefaultSources EXCEPT ![Register] = NoSource] \in SourceConfigs
        /\ [DefaultSources EXCEPT ![Register] = NoSource][Feed] = NoSource
    BY <1>1, SourcesAssumption DEF Keys, SourceConfigs, FullConfigs
  <1>3. sourcesTab \in SourceConfigs /\ sourcesTab[Feed] = NoSource
    BY <1>1, <1>2 DEF SourcesInit, FullConfigs
  <1>4. /\ goodSources \in FullConfigs \cup {None}
        /\ goodSources # None => goodSources[Feed] = NoSource
    BY <1>1 DEF SourcesInit
  <1>5. SourcesTyped
    BY <1>3, <1>4 DEF SourcesTyped, SourcesInit
  <1>6. AnswersStand /\ OpStands
    BY DEF AnswersStand, SaidOf, OpStands, SourcesInit
  <1>7. Barred
    BY DEF Barred, SourcesInit
  <1>8. FeedsRead
    BY <1>3, <1>4 DEF FeedsRead, FeedRead, SourcesInit
  <1> QED BY <1>5, <1>6, <1>7, <1>8 DEF SourcesInv

LEMMA DisturbedIs ==
    ASSUME SourcesTyped, DisturbSource
    PROVE  /\ sourceOp' \in SourceOps \cup {None}
           /\ sourceOp' # None => /\ sourceOp # None /\ sourceOp'.alone = FALSE
                                  /\ sourceOp'.key = sourceOp.key /\ sourceOp'.base = sourceOp.base
                                  /\ sourceOp'.entry = sourceOp.entry
                                  /\ sourceOp'.field = sourceOp.field
  <1>1. CASE sourceOp = None
    BY <1>1 DEF DisturbSource
  <1>2. CASE sourceOp # None
    BY <1>2 DEF DisturbSource, SourcesTyped, SourceOps
  <1> QED BY <1>1, <1>2

\* Somebody types in a source's row.
LEMMA EditSourceKeeps ==
    ASSUME SourcesInv, NEW k \in Keys, EditSource(k) PROVE SourcesInv'
  <1>t. SourcesTyped /\ AnswersStand /\ OpStands /\ Barred /\ FeedsRead
    BY DEF SourcesInv
  <1>1. PICK row \in TypedSources(sourcesTab[k]) : sourcesTab' = [sourcesTab EXCEPT ![k] = row]
    BY DEF EditSource
  <1>2. sourcesTab[k] \in SourceRows
    BY <1>t DEF SourcesTyped, SourceConfigs, EditSource
  <1>3. row \in SourceRows \cup {NoSource}
    BY <1>2 DEF TypedSources, SourceRows
  <1>4. row # NoSource => row.url = sourcesTab[k].url
    BY <1>2 DEF TypedSources, SourceRows
  <1>5. /\ sourcesTab' \in SourceConfigs
        /\ \A j \in Keys \ {k} : sourcesTab'[j] = sourcesTab[j]
        /\ sourcesTab'[k] = row
    BY <1>1, <1>3, <1>t DEF SourcesTyped, SourceConfigs
  <1>6. /\ sourceAnswered' \in [Keys -> Confirmations \cup {None}]
        /\ \A j \in Keys \ {k} : sourceAnswered'[j] = sourceAnswered[j]
        /\ sourceAnswered'[k] = None
    BY <1>t DEF SourcesTyped, EditSource
  <1>7. UNCHANGED <<token, goodSources, admits, used, rewritten, sync, readded, tornFlag>>
        /\ DisturbSource
    BY DEF EditSource
  <1>d. /\ sourceOp' \in SourceOps \cup {None}
        /\ sourceOp' # None => /\ sourceOp # None /\ sourceOp'.alone = FALSE
                               /\ sourceOp'.key = sourceOp.key /\ sourceOp'.base = sourceOp.base
                               /\ sourceOp'.entry = sourceOp.entry
                               /\ sourceOp'.field = sourceOp.field
    BY <1>7, <1>t, DisturbedIs
  <1>8. SourcesTyped'
    BY <1>5, <1>6, <1>7, <1>d, <1>t DEF SourcesTyped
  <1>9. AnswersStand'
    <2> SUFFICES ASSUME NEW j \in Keys, sourceAnswered'[j] # None PROVE SaidOf(j)'
      BY DEF AnswersStand, SaidOf
    <2>1. j # k /\ sourceAnswered'[j] = sourceAnswered[j] /\ sourcesTab'[j] = sourcesTab[j]
      BY <1>5, <1>6
    <2>2. SaidOf(j)
      BY <1>t DEF AnswersStand
    <2>3. WithDefaults(sourcesTab')[j] = WithDefaults(sourcesTab)[j]
      BY <2>1 DEF WithDefaults
    <2> QED BY <2>1, <2>2, <2>3, <1>7, <1>d DEF SaidOf, SourceSays
  <1>10. OpStands'
    BY <1>d DEF OpStands
  <1>11. Barred'
    BY <1>7, <1>t DEF Barred, Halfway
  <1>12. FeedsRead'
    <2>1. FeedRead(sourcesTab'[Feed])
      <3>1. CASE k = Feed
        BY <3>1, <1>4, <1>5, <1>t DEF FeedsRead, FeedRead, EditSource
      <3>2. CASE k # Feed
        BY <3>2, <1>5, <1>t DEF FeedsRead, Keys
      <3> QED BY <3>1, <3>2
    <2> QED BY <2>1, <1>7, <1>d, <1>t DEF FeedsRead
  <1> QED BY <1>8, <1>9, <1>10, <1>11, <1>12 DEF SourcesInv

LEMMA EditElsewhereKeeps == ASSUME SourcesInv, EditElsewhere PROVE SourcesInv'
  <1>t. SourcesTyped /\ AnswersStand /\ OpStands /\ Barred /\ FeedsRead
    BY DEF SourcesInv
  <1>1. UNCHANGED <<sourcesTab, goodSources, admits, used, rewritten, sync, sourceOp,
                    sourceAnswered, tornFlag>>
    BY DEF EditElsewhere
  <1>2. SourcesTyped'
    BY <1>1, <1>t DEF SourcesTyped
  <1>3. AnswersStand' /\ OpStands'
    BY <1>1, <1>t DEF AnswersStand, SaidOf, OpStands
  <1>4. Barred'
    <2>1. CASE UNCHANGED <<token, readded>>
      BY <2>1, <1>1, <1>t DEF Barred, Halfway
    <2>2. CASE token' = TRUE /\ readded' = (readded \/ rewritten \/ sync # None)
      <3>1. (readded => readded') /\ (rewritten => readded')
        BY <2>2
      <3> QED BY <2>2, <3>1, <1>1, <1>t DEF Barred
    <2> QED BY <2>1, <2>2 DEF EditElsewhere
  <1>5. FeedsRead'
    BY <1>1, <1>t DEF FeedsRead
  <1> QED BY <1>2, <1>3, <1>4, <1>5 DEF SourcesInv

\* What a load leaves as last good says what was confirmed and reads its feed.
LEMMA PromotedSays ==
    ASSUME SourcesInv, NEW present
    PROVE  LET cfg == WithDefaults(sourcesTab)
               kept == Promoted(cfg, present) IN
           /\ kept \in FullConfigs \cup {None}
           /\ kept # None => FeedRead(kept[Feed])
           /\ \A k \in Keys : sourceAnswered[k] # None =>
                 kept # None /\ SourceSays(kept[k], sourceAnswered[k])
  <1> DEFINE cfg == WithDefaults(sourcesTab)
  <1>t. SourcesTyped /\ AnswersStand /\ FeedsRead
    BY DEF SourcesInv
  <1>1. cfg \in FullConfigs /\ cfg[Feed] = sourcesTab[Feed]
    BY <1>t, LoadedIsFull DEF SourcesTyped
  <1>2. cfg # None
    BY <1>1, SourcesAssumption DEF FullConfigs, SourceConfigs
  <1>3. \A k \in Keys : sourceAnswered[k] # None =>
           /\ goodSources # None /\ SourceSays(goodSources[k], sourceAnswered[k])
           /\ SourceSays(cfg[k], sourceAnswered[k])
    BY <1>t DEF AnswersStand, SaidOf
  <1> HIDE DEF cfg
  <1>4. CASE Promoted(cfg, present) = goodSources
    BY <1>4, <1>3, <1>t DEF cfg, SourcesTyped, FeedsRead
  <1>5. CASE Promoted(cfg, present) = cfg
    BY <1>5, <1>1, <1>2, <1>3, <1>t DEF cfg, FeedsRead
  <1>6. Promoted(cfg, present) = goodSources \/ Promoted(cfg, present) = cfg
    BY DEF Promoted
  <1> QED BY <1>4, <1>5, <1>6 DEF cfg

\* What is barred stays barred over a run, whatever it makes of the qualifier.
LEMMA RunBars ==
    ASSUME SourcesInv, UNCHANGED <<token, rewritten, sync, readded>>,
           tornFlag' = (tornFlag \/ Halfway), admits' = PromotedAdmits(token),
           used' = (token /\ ~Strips(token)) \/ used' = PromotedAdmits(token)
    PROVE  Barred'
  <1>t. Barred
    BY DEF SourcesInv
  <1>1. tornFlag \/ Halfway => tornFlag'
    OBVIOUS
  <1>2. Halfway' = Halfway
    BY DEF Halfway
  <1>3. CASE ~rewritten
    <2>1. token /\ Strips(token) /\ sync = None
      BY <1>3, <1>t DEF Barred, Strips
    <2>2. ~used'
      BY <2>1 DEF PromotedAdmits
    <2> QED BY <1>3, <2>1, <2>2 DEF Barred
  <1>4. CASE rewritten
    <2>1. ~Strips(token)
      BY <1>4 DEF Strips
    <2>2. PromotedAdmits(token) => readded \/ tornFlag'
      BY <2>1, <1>4, <1>1, <1>t DEF PromotedAdmits, Barred
    <2>3. token => readded \/ tornFlag'
      BY <1>4, <1>1, <1>t DEF Barred
    <2>4. used' => readded' \/ tornFlag'
      BY <2>2, <2>3
    <2>5. admits' => readded' \/ tornFlag'
      BY <2>2
    <2>6. token' => readded' \/ tornFlag'
      BY <2>3
    <2> QED BY <1>4, <2>4, <2>5, <2>6 DEF Barred
  <1> QED BY <1>3, <1>4

\* A run that leaves the tab alone, whether or not it was to retire the register.
LEMMA RunReads ==
    ASSUME SourcesInv, DisturbSource, UNCHANGED <<sourcesTab, sourceAnswered, sync>>,
           goodSources' = Promoted(WithDefaults(sourcesTab), token)
    PROVE  SourcesTyped' /\ AnswersStand' /\ OpStands' /\ FeedsRead'
  <1>t. SourcesTyped /\ AnswersStand /\ OpStands /\ FeedsRead
    BY DEF SourcesInv
  <1>1. /\ goodSources' \in FullConfigs \cup {None}
        /\ goodSources' # None => FeedRead(goodSources'[Feed])
        /\ \A k \in Keys : sourceAnswered[k] # None =>
              goodSources' # None /\ SourceSays(goodSources'[k], sourceAnswered[k])
    BY PromotedSays
  <1>d. /\ sourceOp' \in SourceOps \cup {None}
        /\ sourceOp' # None => /\ sourceOp # None /\ sourceOp'.alone = FALSE
                               /\ sourceOp'.key = sourceOp.key /\ sourceOp'.base = sourceOp.base
                               /\ sourceOp'.entry = sourceOp.entry
                               /\ sourceOp'.field = sourceOp.field
    BY <1>t, DisturbedIs
  <1>2. SourcesTyped'
    BY <1>1, <1>d, <1>t DEF SourcesTyped
  <1>3. AnswersStand'
    BY <1>1, <1>d, <1>t DEF AnswersStand, SaidOf
  <1>4. OpStands'
    BY <1>d DEF OpStands
  <1>5. FeedsRead'
    BY <1>1, <1>d, <1>t DEF FeedsRead
  <1> QED BY <1>2, <1>3, <1>4, <1>5

\* A run that retires the register switches it off, and no other source.
LEMMA RunSwitches ==
    ASSUME SourcesInv, DisturbSource, UNCHANGED sync, RunRetires(WithDefaults(sourcesTab))
    PROVE  SourcesTyped' /\ AnswersStand' /\ OpStands' /\ FeedsRead'
  <1> DEFINE kept == Promoted(WithDefaults(sourcesTab), token)
             from == IF kept = None THEN DefaultSources ELSE kept
  <1>t. SourcesTyped /\ AnswersStand /\ OpStands /\ FeedsRead
    BY DEF SourcesInv
  <1>0. Register \in Keys /\ Register \in Builtin /\ Feed \in Keys /\ Register # Feed
    BY SourcesAssumption DEF Keys
  <1>1. /\ kept \in FullConfigs \cup {None}
        /\ kept # None => FeedRead(kept[Feed])
        /\ \A k \in Keys : sourceAnswered[k] # None =>
              kept # None /\ SourceSays(kept[k], sourceAnswered[k])
    BY PromotedSays
  <1>d. /\ sourceOp' \in SourceOps \cup {None}
        /\ sourceOp' # None => /\ sourceOp # None /\ sourceOp'.alone = FALSE
                               /\ sourceOp'.key = sourceOp.key /\ sourceOp'.base = sourceOp.base
                               /\ sourceOp'.entry = sourceOp.entry
                               /\ sourceOp'.field = sourceOp.field
    BY <1>t, DisturbedIs
  <1>2. /\ goodSources' = Off(from)
        /\ \/ sourcesTab' = sourcesTab
           \/ sourcesTab[Register] # NoSource /\ sourcesTab' = Off(sourcesTab)
        /\ sourceAnswered' = [sourceAnswered EXCEPT ![Register] = None]
    <2>1. \/ sourcesTab' = sourcesTab
          \/ sourcesTab[Register] # NoSource /\ sourcesTab' = Off(sourcesTab)
      BY DEF RunRetires
    <2> QED BY <2>1 DEF RunRetires
  <1> HIDE DEF kept
  <1>3. from \in FullConfigs /\ FeedRead(from[Feed])
    BY <1>1, DefaultsAreFull DEF FeedRead
  <1>4. \A k \in Keys : sourceAnswered[k] # None => SourceSays(from[k], sourceAnswered[k])
    BY <1>1
  <1> HIDE DEF from
  <1>5. from \in SourceConfigs /\ from[Register] # NoSource
    BY <1>3, <1>0 DEF FullConfigs
  <1>6. /\ goodSources' \in FullConfigs
        /\ \A k \in Keys \ {Register} : goodSources'[k] = from[k]
    BY <1>2, <1>3, <1>5, OffIsOff
  <1>7. /\ sourcesTab' \in SourceConfigs
        /\ \A k \in Keys \ {Register} : sourcesTab'[k] = sourcesTab[k]
    BY <1>2, <1>t, OffIsOff DEF SourcesTyped
  <1>8. /\ sourceAnswered' \in [Keys -> Confirmations \cup {None}]
        /\ \A k \in Keys \ {Register} : sourceAnswered'[k] = sourceAnswered[k]
        /\ sourceAnswered'[Register] = None
    BY <1>2, <1>0, <1>t DEF SourcesTyped
  <1>9. goodSources' # None
    BY <1>6, SourcesAssumption DEF FullConfigs, SourceConfigs
  <1>10. SourcesTyped'
    BY <1>6, <1>7, <1>8, <1>d, <1>t DEF SourcesTyped
  <1>11. AnswersStand'
    <2> SUFFICES ASSUME NEW k \in Keys, sourceAnswered'[k] # None PROVE SaidOf(k)'
      BY DEF AnswersStand, SaidOf
    <2>1. /\ k # Register /\ sourceAnswered'[k] = sourceAnswered[k]
          /\ sourcesTab'[k] = sourcesTab[k] /\ goodSources'[k] = from[k]
      BY <1>6, <1>7, <1>8
    <2>2. SaidOf(k)
      BY <1>t DEF AnswersStand
    <2>3. WithDefaults(sourcesTab')[k] = WithDefaults(sourcesTab)[k]
      BY <2>1 DEF WithDefaults
    <2> QED BY <2>1, <2>2, <2>3, <1>4, <1>9, <1>d DEF SaidOf
  <1>12. OpStands'
    BY <1>d DEF OpStands
  <1>13. FeedsRead'
    BY <1>0, <1>3, <1>6, <1>7, <1>d, <1>t DEF FeedsRead
  <1> QED BY <1>10, <1>11, <1>12, <1>13

LEMMA SourcesRunKeeps == ASSUME SourcesInv, Run PROVE SourcesInv'
  <1> DEFINE cfg == WithDefaults(sourcesTab)
  <1>1. Barred'
    BY RunBars DEF Run, RunPlain, RunRetires, RunCannotRetire
  <1>2. SourcesTyped' /\ AnswersStand' /\ OpStands' /\ FeedsRead'
    <2>1. CASE RunRetires(cfg)
      BY <2>1, RunSwitches DEF Run
    <2>2. CASE RunPlain(cfg) \/ RunCannotRetire(cfg)
      BY <2>2, RunReads DEF Run, RunPlain, RunCannotRetire
    <2> QED BY <2>1, <2>2 DEF Run
  <1> QED BY <1>1, <1>2 DEF SourcesInv

\* A sync reads what a run would, sets the flag, and is about to strip what it read.
LEMMA SyncLoadKeeps == ASSUME SourcesInv, SyncLoad PROVE SourcesInv'
  <1> DEFINE cfg == WithDefaults(sourcesTab)
  <1>t. SourcesTyped /\ AnswersStand /\ OpStands /\ Barred /\ FeedsRead
    BY DEF SourcesInv
  <1>1. /\ goodSources' = Promoted(cfg, token)
        /\ sync' = [rows |-> cfg, strip |-> Strips(token)]
        /\ admits' = PromotedAdmits(token) /\ rewritten' = TRUE /\ sync = None
        /\ DisturbSource
        /\ UNCHANGED <<sourcesTab, token, used, sourceAnswered, readded, tornFlag>>
    BY DEF SyncLoad
  <1>2. /\ goodSources' \in FullConfigs \cup {None}
        /\ goodSources' # None => FeedRead(goodSources'[Feed])
        /\ \A k \in Keys : sourceAnswered[k] # None =>
              goodSources' # None /\ SourceSays(goodSources'[k], sourceAnswered[k])
    BY <1>1, PromotedSays
  <1>3. cfg \in FullConfigs /\ cfg[Feed] = sourcesTab[Feed]
    BY <1>t, LoadedIsFull DEF SourcesTyped
  <1>4. \A k \in Keys : sourceAnswered[k] # None => SourceSays(cfg[k], sourceAnswered[k])
    BY <1>t DEF AnswersStand, SaidOf
  <1>d. /\ sourceOp' \in SourceOps \cup {None}
        /\ sourceOp' # None => /\ sourceOp # None /\ sourceOp'.alone = FALSE
                               /\ sourceOp'.key = sourceOp.key /\ sourceOp'.base = sourceOp.base
                               /\ sourceOp'.entry = sourceOp.entry
                               /\ sourceOp'.field = sourceOp.field
    BY <1>1, <1>t, DisturbedIs
  <1>5. sync' \in Syncs
    BY <1>1, <1>3 DEF Syncs, Strips
  <1>6. SourcesTyped'
    BY <1>1, <1>2, <1>5, <1>d, <1>t DEF SourcesTyped
  <1>7. sync'.rows = cfg
    BY <1>1
  <1>8. AnswersStand'
    <2> SUFFICES ASSUME NEW k \in Keys, sourceAnswered'[k] # None PROVE SaidOf(k)'
      BY DEF AnswersStand, SaidOf
    <2>1. SaidOf(k) /\ sourceAnswered'[k] = sourceAnswered[k]
      BY <1>1, <1>t DEF AnswersStand
    <2> QED BY <2>1, <1>1, <1>2, <1>4, <1>7, <1>d DEF SaidOf
  <1>9. OpStands'
    BY <1>d DEF OpStands
  <1>10. Barred'
    <2>1. Halfway' <=> token /\ ~rewritten
      <3>1. sync' # None
        BY <1>5, SourcesAssumption DEF Syncs, FullConfigs, SourceConfigs
      <3> QED BY <3>1, <1>1 DEF Halfway, Strips
    <2>2. token' => readded' \/ tornFlag' \/ Halfway'
      BY <2>1, <1>1, <1>t DEF Barred, Halfway
    <2>3. admits' => readded' \/ tornFlag'
      BY <1>1, <1>t DEF Barred, Halfway, PromotedAdmits, Strips
    <2>4. used' => readded' \/ tornFlag'
      BY <1>1, <1>t DEF Barred
    <2> QED BY <2>2, <2>3, <2>4, <1>1 DEF Barred
  <1>11. FeedsRead'
    BY <1>1, <1>2, <1>3, <1>7, <1>d, <1>t DEF FeedsRead
  <1> QED BY <1>6, <1>8, <1>9, <1>10, <1>11 DEF SourcesInv

\* Rows that agree in every column are one row.
LEMMA SameRow ==
    ASSUME NEW one \in SourceRows, NEW other \in SourceRows,
           one.on = other.on, one.funds = other.funds,
           one.robots = other.robots, one.url = other.url
    PROVE  one = other
  <1>1. \A row \in SourceRows :
           row = [on |-> row.on, funds |-> row.funds, robots |-> row.robots, url |-> row.url]
    BY DEF SourceRows
  <1> QED BY <1>1

\* A rendered row is its source but for the override, which stays as the tab has it.
LEMMA RenderedRow ==
    ASSUME NEW cfg \in SourceConfigs, sourcesTab \in SourceConfigs,
           NEW k \in Keys, cfg[k] # NoSource
    PROVE  /\ SourceRow(k, cfg) \in SourceRows
           /\ SourceRow(k, cfg).on = cfg[k].on /\ SourceRow(k, cfg).funds = cfg[k].funds
           /\ SourceRow(k, cfg).url = cfg[k].url
           /\ SourceRow(k, cfg).robots
                 = IF sourcesTab[k] = NoSource THEN FALSE ELSE sourcesTab[k].robots
  <1> DEFINE robots == IF sourcesTab[k] = NoSource THEN FALSE ELSE sourcesTab[k].robots
  <1>1. robots \in BOOLEAN
    BY DEF SourceConfigs, SourceRows
  <1>2. cfg[k] \in SourceRows
    BY DEF SourceConfigs
  <1>3. SourceRow(k, cfg) = [cfg[k] EXCEPT !.robots = robots]
    BY DEF SourceRow
  <1> HIDE DEF robots
  <1>4. /\ SourceRow(k, cfg) \in SourceRows /\ SourceRow(k, cfg).robots = robots
        /\ SourceRow(k, cfg).on = cfg[k].on /\ SourceRow(k, cfg).funds = cfg[k].funds
        /\ SourceRow(k, cfg).url = cfg[k].url
    BY <1>1, <1>2, <1>3 DEF SourceRows
  <1> QED BY <1>4 DEF robots

\* What was confirmed of a source is said by the row rendered for it, when the sync and
\* the tab both say it.
LEMMA RenderedSays ==
    ASSUME NEW cfg \in SourceConfigs, sourcesTab \in SourceConfigs,
           NEW k \in Keys, cfg[k] # NoSource,
           NEW said \in Confirmations, FitsChange(k, said.field, said.entry),
           SourceSays(cfg[k], said), SourceSays(WithDefaults(sourcesTab)[k], said)
    PROVE  SourceSays(SourceRow(k, cfg), said)
  <1>r. /\ SourceRow(k, cfg) \in SourceRows
        /\ SourceRow(k, cfg).on = cfg[k].on /\ SourceRow(k, cfg).funds = cfg[k].funds
        /\ SourceRow(k, cfg).url = cfg[k].url
        /\ SourceRow(k, cfg).robots
              = IF sourcesTab[k] = NoSource THEN FALSE ELSE sourcesTab[k].robots
    BY RenderedRow
  <1>n. SourceRow(k, cfg) # NoSource
    BY <1>r, SourcesAssumption
  <1>1. CASE said.field = "on"
    BY <1>1, <1>r, <1>n DEF SourceSays
  <1>2. CASE said.field = "funds"
    BY <1>2, <1>r, <1>n DEF SourceSays
  <1>3. CASE said.field = "robots"
    <2>1. WithDefaults(sourcesTab)[k].robots = said.entry.robots
          /\ WithDefaults(sourcesTab)[k] # NoSource
      BY <1>3 DEF SourceSays
    <2>2. WithDefaults(sourcesTab)[k].robots = SourceRow(k, cfg).robots
      BY <2>1, <1>r DEF WithDefaults, DefaultSources
    <2> QED BY <2>1, <2>2, <1>3, <1>n DEF SourceSays
  <1>4. CASE said.field = "added"
    <2>1. k = Feed /\ said.entry \in SourceRows /\ cfg[k] = said.entry
      BY <1>4 DEF SourceSays, FitsChange
    <2>2. sourcesTab[k] = said.entry
      BY <1>4, <2>1, LoadedIsFull DEF SourceSays
    <2>3. said.entry # NoSource
      BY <2>1, SourcesAssumption
    <2>4. SourceRow(k, cfg).robots = said.entry.robots
      BY <2>2, <2>3, <1>r
    <2>5. SourceRow(k, cfg) = said.entry
      BY <2>1, <2>4, <1>r, SameRow
    <2> QED BY <2>5, <1>4 DEF SourceSays
  <1>5. CASE said.field = "removed"
    BY <1>5 DEF SourceSays, FitsChange
  <1> QED BY <1>1, <1>2, <1>3, <1>4, <1>5 DEF Confirmations

\* A sync writes what it rendered, over whatever the tab holds by now.
LEMMA SyncWriteKeeps == ASSUME SourcesInv, SyncWrite PROVE SourcesInv'
  <1>t. SourcesTyped /\ AnswersStand /\ OpStands /\ Barred /\ FeedsRead
    BY DEF SourcesInv
  <1>1. PICK written \in SUBSET PresentSources(sync.rows) :
           sourcesTab' = [k \in Keys |-> IF k \in written THEN SourceRow(k, sync.rows)
                                         ELSE sourcesTab[k]]
    BY DEF SyncWrite
  <1>2. /\ sync # None /\ sync' = None /\ token' = (token /\ ~sync.strip) /\ DisturbSource
        /\ UNCHANGED <<goodSources, admits, used, rewritten, sourceAnswered, readded, tornFlag>>
    BY DEF SyncWrite
  <1>3. /\ sync.rows \in FullConfigs /\ sync.rows \in SourceConfigs
        /\ sourcesTab \in SourceConfigs
    BY <1>2, <1>t DEF SourcesTyped, Syncs, FullConfigs
  <1>4. \A k \in written : k \in Keys /\ sync.rows[k] # NoSource
    BY <1>1 DEF PresentSources
  <1>5. \A k \in written : SourceRow(k, sync.rows) \in SourceRows
    BY <1>3, <1>4, RenderedRow
  <1>6. sourcesTab' \in SourceConfigs
    BY <1>1, <1>3, <1>5 DEF SourceConfigs
  <1>d. /\ sourceOp' \in SourceOps \cup {None}
        /\ sourceOp' # None => /\ sourceOp # None /\ sourceOp'.alone = FALSE
                               /\ sourceOp'.key = sourceOp.key /\ sourceOp'.base = sourceOp.base
                               /\ sourceOp'.entry = sourceOp.entry
                               /\ sourceOp'.field = sourceOp.field
    BY <1>2, <1>t, DisturbedIs
  <1>7. SourcesTyped'
    BY <1>2, <1>6, <1>d, <1>t DEF SourcesTyped
  <1>8. AnswersStand'
    <2> SUFFICES ASSUME NEW k \in Keys, sourceAnswered'[k] # None PROVE SaidOf(k)'
      BY DEF AnswersStand, SaidOf
    <2>1. SaidOf(k) /\ sourceAnswered'[k] = sourceAnswered[k]
      BY <1>2, <1>t DEF AnswersStand
    <2>2. SourceSays(WithDefaults(sourcesTab')[k], sourceAnswered[k])
      <3>1. CASE k \in written
        <4>1. /\ sourceAnswered[k] \in Confirmations
              /\ FitsChange(k, sourceAnswered[k].field, sourceAnswered[k].entry)
          BY <2>1, <1>t DEF SourcesTyped
        <4>2. /\ SourceSays(sync.rows[k], sourceAnswered[k])
              /\ SourceSays(WithDefaults(sourcesTab)[k], sourceAnswered[k])
          BY <2>1, <1>2 DEF SaidOf
        <4>3. SourceSays(SourceRow(k, sync.rows), sourceAnswered[k])
          BY <3>1, <4>1, <4>2, <1>3, <1>4, RenderedSays
        <4>4. sourcesTab'[k] = SourceRow(k, sync.rows)
          BY <3>1, <1>1, <1>4
        <4>5. sourcesTab'[k] # NoSource
          BY <4>4, <3>1, <1>5, SourcesAssumption
        <4> QED BY <4>3, <4>4, <4>5, <1>6, LoadedIsFull
      <3>2. CASE k \notin written
        <4>1. WithDefaults(sourcesTab')[k] = WithDefaults(sourcesTab)[k]
          BY <3>2, <1>1 DEF WithDefaults
        <4> QED BY <4>1, <2>1 DEF SaidOf
      <3> QED BY <3>1, <3>2
    <2> QED BY <2>1, <2>2, <1>2, <1>d DEF SaidOf
  <1>9. OpStands'
    BY <1>d DEF OpStands
  <1>10. Barred'
    <2>1. token' => token /\ ~Halfway
      BY <1>2 DEF Halfway
    <2>2. rewritten
      BY <1>2, <1>t DEF Barred
    <2>3. token' => readded \/ tornFlag
      BY <2>1, <2>2, <1>t DEF Barred
    <2> QED BY <2>2, <2>3, <1>2, <1>t DEF Barred
  <1>11. FeedsRead'
    <2>1. FeedRead(sourcesTab'[Feed])
      <3>1. CASE Feed \in written
        <4>1. SourceRow(Feed, sync.rows).url = sync.rows[Feed].url
          BY <3>1, <1>3, <1>4, RenderedRow
        <4>2. FeedRead(sync.rows[Feed]) /\ sync.rows[Feed] # NoSource
          BY <3>1, <1>2, <1>4, <1>t DEF FeedsRead
        <4>3. sourcesTab'[Feed] = SourceRow(Feed, sync.rows)
          BY <3>1, <1>1, <1>4
        <4> QED BY <4>1, <4>2, <4>3 DEF FeedRead
      <3>2. CASE Feed \notin written
        BY <3>2, <1>1, <1>t DEF FeedsRead, Keys
      <3> QED BY <3>1, <3>2
    <2> QED BY <2>1, <1>2, <1>d, <1>t DEF FeedsRead
  <1> QED BY <1>7, <1>8, <1>9, <1>10, <1>11 DEF SourcesInv

LEMMA SyncFailsKeeps == ASSUME SourcesInv, SyncFails PROVE SourcesInv'
  <1>t. SourcesTyped /\ AnswersStand /\ OpStands /\ Barred /\ FeedsRead
    BY DEF SourcesInv
  <1>1. /\ sync # None /\ sync' = None /\ tornFlag' = (tornFlag \/ sync.strip)
        /\ UNCHANGED <<sourcesTab, token, goodSources, admits, used, rewritten, sourceOp,
                       sourceAnswered, readded>>
    BY DEF SyncFails
  <1>2. SourcesTyped'
    BY <1>1, <1>t DEF SourcesTyped
  <1>3. AnswersStand' /\ OpStands'
    BY <1>1, <1>t DEF AnswersStand, SaidOf, OpStands
  <1>4. Barred'
    <2>1. tornFlag \/ Halfway => tornFlag'
      BY <1>1 DEF Halfway
    <2> QED BY <2>1, <1>1, <1>t DEF Barred
  <1>5. FeedsRead'
    BY <1>1, <1>t DEF FeedsRead
  <1> QED BY <1>2, <1>3, <1>4, <1>5 DEF SourcesInv

\* A change starts from what stands, and alone unless a sync is under way.
LEMMA BeginKeeps ==
    ASSUME SourcesInv, NEW k \in Keys, NEW entry, NEW field, BeginSource(k, entry, field),
           field \in {"on", "funds", "robots", "added", "removed"}, FitsChange(k, field, entry),
           k = Feed => FeedRead(entry)
    PROVE  SourcesInv'
  <1>t. SourcesTyped /\ AnswersStand /\ OpStands /\ Barred /\ FeedsRead
    BY DEF SourcesInv
  <1>1. /\ sourceOp' = [key |-> k, base |-> CurrentSources, entry |-> entry, field |-> field,
                        wrote |-> FALSE, found |-> TRUE, alone |-> sync = None]
        /\ UNCHANGED <<sourcesTab, token, goodSources, admits, used, rewritten, sync,
                       sourceAnswered, readded, tornFlag>>
    BY DEF BeginSource
  <1>2. /\ CurrentSources \in FullConfigs
        /\ CurrentSources[Feed] = IF goodSources = None THEN NoSource ELSE goodSources[Feed]
    BY <1>t, CurrentIsFull DEF SourcesTyped
  <1>3. sourceOp' \in SourceOps
    BY <1>1, <1>2 DEF SourceOps, FitsChange
  <1>4. SourcesTyped'
    BY <1>1, <1>3, <1>t DEF SourcesTyped
  <1>5. AnswersStand'
    <2> SUFFICES ASSUME NEW j \in Keys, sourceAnswered'[j] # None PROVE SaidOf(j)'
      BY DEF AnswersStand, SaidOf
    <2>1. SaidOf(j) /\ sourceAnswered[j] # None
      BY <1>1, <1>t DEF AnswersStand
    <2>2. SourceSays(CurrentSources[j], sourceAnswered[j])
      BY <2>1 DEF SaidOf, CurrentSources
    <2> QED BY <2>1, <2>2, <1>1 DEF SaidOf
  <1>6. OpStands'
    BY <1>1 DEF OpStands
  <1>7. Barred'
    BY <1>1, <1>t DEF Barred, Halfway
  <1>8. FeedsRead'
    BY <1>1, <1>2, <1>t DEF FeedsRead, FeedRead
  <1> QED BY <1>4, <1>5, <1>6, <1>7, <1>8 DEF SourcesInv

LEMMA ChangeKeeps ==
    ASSUME SourcesInv, NEW k \in Keys, ApplySource(k) \/ SetSourceFunds(k)
              \/ SetSourceIgnoreRobots(k) \/ RemoveSource(k)
    PROVE  SourcesInv'
  <1> DEFINE cfg == CurrentSources
  <1>1. cfg \in SourceConfigs /\ (k = Feed => FeedRead(cfg[k])) /\ cfg[k] # NoSource
    BY CurrentIsFull DEF SourcesInv, SourcesTyped, FullConfigs, FeedsRead, FeedRead, PresentSources,
       ApplySource, SetSourceFunds, SetSourceIgnoreRobots, RemoveSource
  <1>2. cfg[k] \in SourceRows
    BY <1>1 DEF SourceConfigs
  <1> HIDE DEF cfg
  <1>3. CASE ApplySource(k)
    <2> DEFINE entry == [cfg[k] EXCEPT !.on = ~@]
    <2>1. entry \in SourceRows /\ entry.url = cfg[k].url
      BY <1>2 DEF SourceRows
    <2>2. k = Feed => FeedRead(entry)
      BY <2>1, <1>1 DEF FeedRead
    <2>3. BeginSource(k, entry, "on")
      BY <1>3 DEF ApplySource, cfg
    <2> HIDE DEF entry
    <2> QED BY <2>1, <2>2, <2>3, BeginKeeps DEF FitsChange
  <1>4. CASE SetSourceFunds(k)
    <2>1. PICK funds \in SourceFunds : BeginSource(k, [cfg[k] EXCEPT !.funds = funds], "funds")
      BY <1>4 DEF SetSourceFunds, cfg
    <2> DEFINE entry == [cfg[k] EXCEPT !.funds = funds]
    <2>2. entry \in SourceRows /\ entry.url = cfg[k].url
      BY <1>2 DEF SourceRows
    <2>3. k = Feed => FeedRead(entry)
      BY <2>2, <1>1 DEF FeedRead
    <2> HIDE DEF entry
    <2> QED BY <2>1, <2>2, <2>3, BeginKeeps DEF FitsChange, entry
  <1>5. CASE SetSourceIgnoreRobots(k)
    <2> DEFINE entry == [cfg[k] EXCEPT !.robots = ~@]
    <2>1. entry \in SourceRows /\ entry.url = cfg[k].url
      BY <1>2 DEF SourceRows
    <2>2. k = Feed => FeedRead(entry)
      BY <2>1, <1>1 DEF FeedRead
    <2>3. BeginSource(k, entry, "robots")
      BY <1>5 DEF SetSourceIgnoreRobots, cfg
    <2> HIDE DEF entry
    <2> QED BY <2>1, <2>2, <2>3, BeginKeeps DEF FitsChange
  <1>6. CASE RemoveSource(k)
    BY <1>6, BeginKeeps DEF RemoveSource, FitsChange, FeedRead, Keys
  <1> QED BY <1>3, <1>4, <1>5, <1>6

\* An address is added only when it was read as a feed with entries.
LEMMA CheckedIsRead ==
    ASSUME NEW url \in Urls, NEW override \in BOOLEAN, CheckedFeed(url, override) # None
    PROVE  /\ CheckedFeed(url, override) \in Urls
           /\ Web[CheckedFeed(url, override)].entries > 0
           /\ Web[CheckedFeed(url, override)].status = 200
  BY SourcesAssumption DEF CheckedFeed

LEMMA AddFeedKeeps == ASSUME SourcesInv, AddFeedSource PROVE SourcesInv'
  <1>1. PICK url \in Urls : \E override \in BOOLEAN :
           /\ CheckedFeed(url, override) # None
           /\ BeginSource(Feed, [on |-> TRUE, funds |-> {}, robots |-> override,
                                 url |-> CheckedFeed(url, override)], "added")
    BY DEF AddFeedSource
  <1>2. PICK override \in BOOLEAN :
           /\ CheckedFeed(url, override) # None
           /\ BeginSource(Feed, [on |-> TRUE, funds |-> {}, robots |-> override,
                                 url |-> CheckedFeed(url, override)], "added")
    BY <1>1
  <1> DEFINE checked == CheckedFeed(url, override)
             entry == [on |-> TRUE, funds |-> {}, robots |-> override, url |-> checked]
  <1>3. checked \in Urls /\ Web[checked].entries > 0 /\ Web[checked].status = 200
    BY <1>2, CheckedIsRead
  <1> HIDE DEF checked
  <1>4. entry \in SourceRows /\ FeedRead(entry)
    BY <1>3 DEF SourceRows, FeedRead
  <1>5. BeginSource(Feed, entry, "added") /\ Feed \in Keys
    BY <1>2 DEF checked, Keys
  <1> HIDE DEF entry
  <1> QED BY <1>4, <1>5, BeginKeeps DEF FitsChange

\* The written cell says what the change is about.
LEMMA ChangedSays ==
    ASSUME SourcesTyped, sourceOp # None, NEW tab, tab = sourcesTab[sourceOp.key],
           tab # NoSource \/ sourceOp.field = "added"
    PROVE  /\ Changed(sourceOp.key) \in SourceRows \cup {NoSource}
           /\ sourceOp.key \in Builtin => Changed(sourceOp.key) # NoSource
           /\ SourceSays(Changed(sourceOp.key),
                         [field |-> sourceOp.field, entry |-> sourceOp.entry])
           /\ \/ Changed(sourceOp.key) = sourceOp.entry
              \/ /\ Changed(sourceOp.key) # NoSource /\ tab # NoSource
                 /\ Changed(sourceOp.key).url = tab.url
  <1> DEFINE k == sourceOp.key  field == sourceOp.field  entry == sourceOp.entry
             now == Changed(k)
  <1>1. /\ k \in Keys /\ FitsChange(k, field, entry) /\ entry \in SourceRows \cup {NoSource}
        /\ field \in {"on", "funds", "robots", "added", "removed"}
        /\ tab \in SourceRows \cup {NoSource}
    BY DEF SourcesTyped, SourceOps, SourceConfigs
  <1>2. CASE field \in {"added", "removed"}
    <2>1. now = entry
      BY <1>2 DEF Changed
    <2>2. k \notin Builtin
      BY <1>1, <1>2, SourcesAssumption DEF FitsChange
    <2> QED BY <2>1, <2>2, <1>1, <1>2 DEF SourceSays
  <1>3. CASE field \in {"on", "funds", "robots"}
    <2>1. entry \in SourceRows /\ tab \in SourceRows
      BY <1>1, <1>3 DEF FitsChange
    <2>2. now = [tab EXCEPT ![field] = entry[field]]
      BY <1>3 DEF Changed
    <2> HIDE DEF now, field, entry, k
    <2>3. now \in SourceRows /\ now.url = tab.url /\ now[field] = entry[field]
      <3>1. CASE field = "on"
        BY <3>1, <2>1, <2>2 DEF SourceRows
      <3>2. CASE field = "funds"
        BY <3>2, <2>1, <2>2 DEF SourceRows
      <3>3. CASE field = "robots"
        BY <3>3, <2>1, <2>2 DEF SourceRows
      <3> QED BY <3>1, <3>2, <3>3, <1>3
    <2>4. now # NoSource /\ tab # NoSource
      BY <2>1, <2>3, SourcesAssumption
    <2> QED BY <2>3, <2>4, <1>3 DEF SourceSays, now, field, entry, k
  <1> QED BY <1>1, <1>2, <1>3

\* A change writes its one cell, and what was confirmed of that source is open again.
LEMMA OpWriteKeeps == ASSUME SourcesInv, OpWrite PROVE SourcesInv'
  <1>t. SourcesTyped /\ AnswersStand /\ OpStands /\ Barred /\ FeedsRead
    BY DEF SourcesInv
  <1> DEFINE k == sourceOp.key
             finds == sourcesTab[k] # NoSource \/ sourceOp.field = "added"
             said == [field |-> sourceOp.field, entry |-> sourceOp.entry]
  <1>1. /\ sourceOp # None
        /\ sourcesTab' = IF finds THEN [sourcesTab EXCEPT ![k] = Changed(k)] ELSE sourcesTab
        /\ sourceOp' = [sourceOp EXCEPT !.wrote = TRUE, !.found = finds]
        /\ sourceAnswered' = [sourceAnswered EXCEPT ![k] = None]
        /\ UNCHANGED <<token, goodSources, admits, used, rewritten, sync, readded, tornFlag>>
    BY DEF OpWrite
  <1>2. sourceOp \in SourceOps /\ k \in Keys
    BY <1>1, <1>t DEF SourcesTyped, SourceOps
  <1>3. /\ sourceOp' \in SourceOps
        /\ sourceOp'.key = k /\ sourceOp'.base = sourceOp.base
        /\ sourceOp'.entry = sourceOp.entry /\ sourceOp'.field = sourceOp.field
        /\ sourceOp'.alone = sourceOp.alone /\ sourceOp'.found = finds
    <2>1. finds \in BOOLEAN
      OBVIOUS
    <2> HIDE DEF finds
    <2>2. /\ sourceOp'.key = k /\ sourceOp'.base = sourceOp.base
          /\ sourceOp'.entry = sourceOp.entry /\ sourceOp'.field = sourceOp.field
          /\ sourceOp'.alone = sourceOp.alone /\ sourceOp'.found = finds
          /\ sourceOp' \in [key : Keys, base : FullConfigs, entry : SourceRows \cup {NoSource},
                            field : {"on", "funds", "robots", "added", "removed"},
                            wrote : BOOLEAN, found : BOOLEAN, alone : BOOLEAN]
      BY <2>1, <1>1, <1>2 DEF SourceOps
    <2>3. FitsChange(sourceOp'.key, sourceOp'.field, sourceOp'.entry)
      BY <2>2, <1>2 DEF SourceOps
    <2> QED BY <2>2, <2>3 DEF SourceOps
  <1>4. finds => /\ Changed(k) \in SourceRows \cup {NoSource}
                 /\ SourceSays(Changed(k), said)
                 /\ \/ Changed(k) = sourceOp.entry
                    \/ /\ Changed(k) # NoSource /\ sourcesTab[k] # NoSource
                       /\ Changed(k).url = sourcesTab[k].url
    BY <1>1, <1>t, ChangedSays
  <1> HIDE DEF finds, said
  <1>5. /\ sourcesTab' \in SourceConfigs
        /\ \A j \in Keys \ {k} : sourcesTab'[j] = sourcesTab[j]
        /\ finds => sourcesTab'[k] = Changed(k)
        /\ ~finds => sourcesTab' = sourcesTab
    BY <1>1, <1>2, <1>4, <1>t DEF SourcesTyped, SourceConfigs
  <1>6. /\ sourceAnswered' \in [Keys -> Confirmations \cup {None}]
        /\ \A j \in Keys \ {k} : sourceAnswered'[j] = sourceAnswered[j]
        /\ sourceAnswered'[k] = None
    BY <1>1, <1>2, <1>t DEF SourcesTyped
  <1>7. SourcesTyped'
    BY <1>1, <1>3, <1>5, <1>6, <1>t DEF SourcesTyped
  <1>8. AnswersStand'
    <2> SUFFICES ASSUME NEW j \in Keys, sourceAnswered'[j] # None PROVE SaidOf(j)'
      BY DEF AnswersStand, SaidOf
    <2>1. j # k /\ sourceAnswered'[j] = sourceAnswered[j] /\ sourcesTab'[j] = sourcesTab[j]
      BY <1>5, <1>6
    <2>2. SaidOf(j)
      BY <1>t DEF AnswersStand
    <2>3. WithDefaults(sourcesTab')[j] = WithDefaults(sourcesTab)[j]
      BY <2>1 DEF WithDefaults
    <2> QED BY <2>1, <2>2, <2>3, <1>1, <1>3 DEF SaidOf
  <1>9. OpStands'
    <2>1. sourceOp'.found => SourceSays(WithDefaults(sourcesTab')[k], said)
      <3> SUFFICES ASSUME finds PROVE SourceSays(WithDefaults(sourcesTab')[k], said)
        BY <1>3
      <3>1. CASE Changed(k) # NoSource
        BY <3>1, <1>2, <1>4, <1>5, LoadedIsFull
      <3>2. CASE Changed(k) = NoSource
        <4>1. said.field \in {"added", "removed"} /\ k = Feed
          BY <3>2, <1>2, <1>4, SourcesAssumption DEF SourceSays, said, SourceOps, FitsChange
        <4> QED BY <3>2, <4>1, <1>4, <1>5, LoadedIsFull
      <3> QED BY <3>1, <3>2
    <2> QED BY <2>1, <1>1, <1>3, <1>t DEF OpStands, said
  <1>10. Barred'
    BY <1>1, <1>t DEF Barred, Halfway
  <1>11. FeedsRead'
    <2>1. FeedRead(sourcesTab'[Feed])
      <3>1. CASE k = Feed /\ finds
        BY <3>1, <1>1, <1>4, <1>5, <1>t DEF FeedsRead, FeedRead
      <3>2. CASE k # Feed \/ ~finds
        BY <3>2, <1>5, <1>t DEF FeedsRead, Keys
      <3> QED BY <3>1, <3>2
    <2> QED BY <2>1, <1>1, <1>3, <1>t DEF FeedsRead
  <1> QED BY <1>7, <1>8, <1>9, <1>10, <1>11 DEF SourcesInv

LEMMA SourceFailsKeeps == ASSUME SourcesInv, SourceFails PROVE SourcesInv'
  <1>t. SourcesTyped /\ AnswersStand /\ OpStands /\ Barred /\ FeedsRead
    BY DEF SourcesInv
  <1>1. /\ sourceOp' = None
        /\ UNCHANGED <<sourcesTab, token, goodSources, admits, used, rewritten, sync,
                       sourceAnswered, readded, tornFlag>>
    BY DEF SourceFails
  <1>2. SourcesTyped'
    BY <1>1, <1>t DEF SourcesTyped
  <1>3. AnswersStand' /\ OpStands'
    BY <1>1, <1>t DEF AnswersStand, SaidOf, OpStands
  <1>4. Barred'
    BY <1>1, <1>t DEF Barred, Halfway
  <1>5. FeedsRead'
    BY <1>1, <1>t DEF FeedsRead
  <1> QED BY <1>2, <1>3, <1>4, <1>5 DEF SourcesInv

\* Replacing one source of a full configuration, a default only by another entry.
LEMMA ReplacedIn ==
    ASSUME NEW cfg \in FullConfigs, NEW k \in Keys, NEW entry \in SourceRows \cup {NoSource},
           k \in Builtin => entry # NoSource
    PROVE  /\ [cfg EXCEPT ![k] = entry] \in FullConfigs
           /\ \A j \in Keys \ {k} : [cfg EXCEPT ![k] = entry][j] = cfg[j]
           /\ [cfg EXCEPT ![k] = entry][k] = entry
  BY DEF FullConfigs, SourceConfigs, Keys

\* _commit saves the configuration the change began from, with the one source changed:
\* whatever was confirmed meanwhile of another source was in it from the start.
LEMMA CommitKeeps == ASSUME SourcesInv, CommitSource PROVE SourcesInv'
  <1>t. SourcesTyped /\ AnswersStand /\ OpStands /\ Barred /\ FeedsRead
    BY DEF SourcesInv
  <1> DEFINE k == sourceOp.key
             said == [field |-> sourceOp.field, entry |-> sourceOp.entry]
             answer == IF sourceOp.found /\ sourceOp.alone /\ (k = Register => retired)
                       THEN said ELSE None
  <1>1. /\ sourceOp # None /\ sourceOp.wrote /\ sourceOp' = None
        /\ goodSources' = [sourceOp.base EXCEPT ![k] = sourceOp.entry]
        /\ sourceAnswered' = [sourceAnswered EXCEPT ![k] = answer]
        /\ UNCHANGED <<sourcesTab, token, admits, used, rewritten, sync, readded, tornFlag>>
    BY DEF CommitSource
  <1>2. /\ sourceOp \in SourceOps /\ k \in Keys /\ sourceOp.base \in FullConfigs
        /\ sourceOp.entry \in SourceRows \cup {NoSource} /\ FitsChange(k, sourceOp.field, sourceOp.entry)
        /\ sourceOp.field \in {"on", "funds", "robots", "added", "removed"}
    BY <1>1, <1>t DEF SourcesTyped, SourceOps
  <1>3. k \in Builtin => sourceOp.entry # NoSource
    BY <1>2, SourcesAssumption DEF FitsChange
  <1>4. /\ goodSources' \in FullConfigs
        /\ \A j \in Keys \ {k} : goodSources'[j] = sourceOp.base[j]
        /\ goodSources'[k] = sourceOp.entry
    BY <1>1, <1>2, <1>3, ReplacedIn
  <1>5. goodSources' # None
    BY <1>4, SourcesAssumption DEF FullConfigs, SourceConfigs
  <1>6. said \in Confirmations /\ said.field = sourceOp.field /\ said.entry = sourceOp.entry
    BY <1>2 DEF Confirmations
  <1> HIDE DEF said
  <1>7. /\ sourceAnswered' \in [Keys -> Confirmations \cup {None}]
        /\ \A j \in Keys \ {k} : sourceAnswered'[j] = sourceAnswered[j]
        /\ sourceAnswered'[k] = answer
    BY <1>1, <1>2, <1>6, <1>t DEF SourcesTyped
  <1>8. SourcesTyped'
    <2>1. \A j \in Keys : sourceAnswered'[j] # None =>
             FitsChange(j, sourceAnswered'[j].field, sourceAnswered'[j].entry)
      BY <1>2, <1>6, <1>7, <1>t DEF SourcesTyped
    <2> QED BY <2>1, <1>1, <1>4, <1>7, <1>t DEF SourcesTyped
  <1>9. AnswersStand'
    <2> SUFFICES ASSUME NEW j \in Keys, sourceAnswered'[j] # None PROVE SaidOf(j)'
      BY DEF AnswersStand, SaidOf
    <2>1. CASE j = k
      <3>1. sourceAnswered'[j] = said /\ sourceOp.found /\ sourceOp.alone
        BY <2>1, <1>7
      <3>2. sync = None /\ SourceSays(WithDefaults(sourcesTab)[k], said)
        BY <3>1, <1>1, <1>t DEF OpStands, said
      <3>3. SourceSays(goodSources'[k], said)
        BY <1>2, <1>4, <1>6, SourcesAssumption DEF SourceSays, FitsChange
      <3> QED BY <2>1, <3>1, <3>2, <3>3, <1>1, <1>5 DEF SaidOf
    <2>2. CASE j # k
      <3>1. SaidOf(j) /\ sourceAnswered'[j] = sourceAnswered[j]
        BY <2>2, <1>7, <1>t DEF AnswersStand
      <3>2. goodSources'[j] = sourceOp.base[j]
        BY <2>2, <1>4
      <3> QED BY <2>2, <3>1, <3>2, <1>1, <1>5 DEF SaidOf
    <2> QED BY <2>1, <2>2
  <1>10. OpStands'
    BY <1>1 DEF OpStands
  <1>11. Barred'
    BY <1>1, <1>t DEF Barred, Halfway
  <1>12. FeedsRead'
    BY <1>1, <1>2, <1>4, <1>t DEF FeedsRead, Keys
  <1> QED BY <1>8, <1>9, <1>10, <1>11, <1>12 DEF SourcesInv

LEMMA SourcesKeep == SourcesInv /\ [SourcesNext]_sourcesVars => SourcesInv'
  <1> SUFFICES ASSUME SourcesInv, [SourcesNext]_sourcesVars PROVE SourcesInv'
    OBVIOUS
  <1>1. CASE \E k \in Keys : EditSource(k)
    BY <1>1, EditSourceKeeps
  <1>2. CASE EditElsewhere
    BY <1>2, EditElsewhereKeeps
  <1>3. CASE Run
    BY <1>3, SourcesRunKeeps
  <1>4. CASE SyncLoad
    BY <1>4, SyncLoadKeeps
  <1>5. CASE SyncWrite
    BY <1>5, SyncWriteKeeps
  <1>6. CASE SyncFails
    BY <1>6, SyncFailsKeeps
  <1>7. CASE \E k \in Keys : ApplySource(k) \/ SetSourceFunds(k)
                \/ SetSourceIgnoreRobots(k) \/ RemoveSource(k)
    BY <1>7, ChangeKeeps
  <1>8. CASE AddFeedSource
    BY <1>8, AddFeedKeeps
  <1>9. CASE OpWrite
    BY <1>9, OpWriteKeeps
  <1>10. CASE SourceFails
    BY <1>10, SourceFailsKeeps
  <1>11. CASE CommitSource
    BY <1>11, CommitKeeps
  <1>12. CASE UNCHANGED sourcesVars
    BY <1>12 DEF sourcesVars, SourcesInv, SourcesTyped, AnswersStand, SaidOf, OpStands, Barred,
       Halfway, FeedsRead
  <1> QED BY <1>1, <1>2, <1>3, <1>4, <1>5, <1>6, <1>7, <1>8, <1>9, <1>10, <1>11, <1>12
      DEF SourcesNext

\* What the invariant says of the three properties.
LEMMA SourcesHold == SourcesInv => SwitchSticks /\ LegacyStaysBarred /\ FeedWasRead
  <1>1. SourcesInv => SwitchSticks
    BY DEF SourcesInv, AnswersStand, SaidOf, SwitchSticks
  <1>2. SourcesInv => LegacyStaysBarred
    BY DEF SourcesInv, Barred, LegacyStaysBarred
  <1>3. SourcesInv => FeedWasRead
    BY DEF SourcesInv, FeedsRead, FeedRead, FeedWasRead
  <1> QED BY <1>1, <1>2, <1>3

\* However runs, syncs, typing in the Sheet and changes from the control room
\* interleave, what was confirmed of a source stays said, the legacy qualifier stays
\* barred and every feed in the configuration was read: for any sources, any
\* addresses and any funds (runtime.py, settings.py, sheet sync).
THEOREM SourcesStand == SourcesSpec => [](SwitchSticks /\ LegacyStaysBarred /\ FeedWasRead)
  <1>1. SourcesInit => SourcesInv
    BY SourcesStart
  <1>2. SourcesInv /\ [SourcesNext]_sourcesVars => SourcesInv'
    BY SourcesKeep
  <1>3. SourcesInv => SwitchSticks /\ LegacyStaysBarred /\ FeedWasRead
    BY SourcesHold
  <1> QED BY <1>1, <1>2, <1>3, PTL DEF SourcesSpec
------------------------------------------------------------------------------
(* Criteria                                                                 *)

WorkLoads == {NoCriteriaWork, [kind |-> "reseed"]}
               \cup [kind : {"run", "sync", "repair"}, raw : CriteriaTabs \cup {None}]
CriteriaChanges ==
    [kind : {"write"}, base : GoodConfigs, next : VehicleConfigs, found : BOOLEAN,
     alone : BOOLEAN, todo : Seq(Vehicles)]

CriteriaTyped ==
    /\ configured \in BOOLEAN
    /\ criteriaTab \in CriteriaTabs
    /\ goodVehicles \in GoodConfigs \cup {None}
    /\ scored \in [cfg : VehicleConfigs, faults : SUBSET Vehicles]
    /\ load \in WorkLoads
    /\ criteriaOp \in CriteriaChanges \cup {NoCriteriaWork}
    /\ stated \in [Vehicles -> SUBSET (SUBSET Places)]
    /\ vehicleAnswered \in [Vehicles -> BOOLEAN \cup {None}]

\* A load that read the tab still has what it read.
RawInHand == load.kind \in {"run", "sync", "repair"} /\ load.raw # None
ChangeBegun == criteriaOp.kind = "write"

Given(v, s) == s # NoVehicle /\ s.rule = "HARD" => s.places \in stated[v]
RowGiven(v, row) == row # NoVehicle /\ row.places \subseteq Places => row.places \in stated[v]

\* Every HARD rule a step may score, and every cell it may be read from, was given whole.
GivenOf(v) ==
    /\ Places \in stated[v]
    /\ goodVehicles # None => Given(v, goodVehicles.vehicles[v])
    /\ scored.cfg[v] # NoVehicle /\ scored.cfg[v].active => Given(v, scored.cfg[v])
    /\ scored.cfg[v] # NoVehicle /\ scored.cfg[v].active /\ scored.cfg[v].rule = "HARD"
         /\ v \in scored.faults => scored.cfg[v].places # {}
    /\ RowGiven(v, criteriaTab.rows[v])
    /\ RawInHand => RowGiven(v, load.raw.rows[v])
    /\ ChangeBegun => Given(v, criteriaOp.base.vehicles[v])
    /\ ChangeBegun /\ criteriaOp.next[v] # criteriaOp.base.vehicles[v] =>
          criteriaOp.next[v] # NoVehicle /\ criteriaOp.next[v].places \in stated[v]

PlacesGiven == \A v \in Vehicles : GivenOf(v)

Says(s, answer) == s # NoVehicle /\ s.active = answer
RowSays(row, answer) == row # NoVehicle /\ (row.active # "FALSE") = answer

Waits(v) == \E i \in 1..Len(criteriaOp.todo) : criteriaOp.todo[i] = v

\* What was confirmed of a vehicle is said wherever a later step takes it from: the
\* last-good configuration, the tab, the tab as a load has it, what a change under way
\* began from; and a rule at fault in what was scored is at fault in the tab still.
ConfirmedStays(v) == vehicleAnswered[v] # None =>
    /\ goodVehicles # None /\ Says(goodVehicles.vehicles[v], vehicleAnswered[v])
    /\ scored.cfg[v] # NoVehicle
    /\ scored.cfg[v].active # vehicleAnswered[v] =>
         ~scored.cfg[v].active /\ v \in scored.faults /\ ~CanHold(Prior(v))
    /\ configured => RowSays(criteriaTab.rows[v], vehicleAnswered[v])
    /\ v \in scored.faults => configured /\ Faulted(criteriaTab.rows[v])
    /\ RawInHand => load.raw.rows[v] = criteriaTab.rows[v]
    /\ ChangeBegun => Says(criteriaOp.base.vehicles[v], vehicleAnswered[v])

ConfirmedStand == \A v \in Vehicles : ConfirmedStays(v)

\* A row a change has come past says what the change is about, if nothing else came
\* between and every row was found so far.
ChangeStands ==
    /\ RawInHand => configured
    /\ ChangeBegun => \A i \in 1..Len(criteriaOp.todo) :
                         criteriaOp.todo[i] \in Altered(criteriaOp.base, criteriaOp.next)
    /\ ChangeBegun /\ criteriaOp.alone => load = NoCriteriaWork
    /\ ChangeBegun /\ criteriaOp.alone /\ criteriaOp.found /\ configured =>
         \A v \in Altered(criteriaOp.base, criteriaOp.next) :
            Switched(v) /\ ~Waits(v) => RowSays(criteriaTab.rows[v], criteriaOp.next[v].active)

CriteriaInv == CriteriaTyped /\ PlacesGiven /\ ConfirmedStand /\ ChangeStands

\* SetToSeq lists every element of a finite set, and nothing else.
LEMMA InSomeOrder ==
    ASSUME NEW S, IsFiniteSet(S)
    PROVE  /\ SetToSeq(S) \in Seq(S)
           /\ \A x \in S : \E i \in 1..Len(SetToSeq(S)) : SetToSeq(S)[i] = x
  <1> DEFINE n == Cardinality(S)  order == SetToSeq(S)
  <1>1. n \in Nat /\ ExistsBijection(1..n, S)
    BY FS_CardinalityType
  <1>2. PICK f \in [1..n -> S] : IsInjective(f)
    BY <1>1 DEF ExistsBijection, Bijection, Injection, Surjection
  <1>3. order \in [1..n -> S] /\ IsInjective(order)
    BY <1>2 DEF SetToSeq
  <1>4. order \in Injection(1..n, S)
    BY <1>3 DEF Injection
  <1>5. IsFiniteSet(1..n) /\ Cardinality(1..n) = n
    BY <1>1, FS_Interval
  <1>6. order \in Surjection(1..n, S)
    BY <1>4, <1>5, FS_Injection
  <1>7. \A x \in S : \E i \in 1..n : order[i] = x
    BY <1>6 DEF Surjection
  <1> HIDE DEF n, order
  <1>8. order \in Seq(S) /\ Len(order) = n
    BY <1>1, <1>3
  <1> QED BY <1>7, <1>8 DEF order

LEMMA DefaultVehiclesAre ==
    /\ DefaultVehicles \in VehicleConfigs
    /\ \A v \in Vehicles : DefaultVehicles[v] # NoVehicle => DefaultVehicles[v].places = Places
  <1> DEFINE s == [active |-> TRUE, rule |-> "HARD", places |-> Places]
  <1>1. s \in Settings /\ s.places = Places
    BY DEF Settings, Rules
  <1>2. /\ DefaultVehicles = [v \in Vehicles |-> DefaultVehicles[v]]
        /\ \A v \in Vehicles : DefaultVehicles[v] = IF v = AddedVehicle THEN NoVehicle ELSE s
    BY DEF DefaultVehicles
  <1> HIDE DEF s
  <1> QED BY <1>1, <1>2 DEF VehicleConfigs

\* A row the program writes for a vehicle.
LEMMA SeedRowIs ==
    ASSUME NEW s \in Settings
    PROVE  /\ SeedCriteriaRow(s) \in CriteriaRows /\ SeedCriteriaRow(s) # NoVehicle
           /\ SeedCriteriaRow(s).places = s.places /\ SeedCriteriaRow(s).rule = s.rule
           /\ SeedCriteriaRow(s).name = "key"
           /\ (SeedCriteriaRow(s).active # "FALSE") = s.active
  <1>1. SeedCriteriaRow(s) \in CriteriaRows
    BY DEF SeedCriteriaRow, CriteriaRows, Settings, RowNames
  <1>2. SeedCriteriaRow(s) # NoVehicle
    BY <1>1, CriteriaAssumption
  <1> QED BY <1>1, <1>2 DEF SeedCriteriaRow, Settings

\* Seeding writes rows with every place, and leaves the others.
LEMMA SeedTabIs ==
    ASSUME NEW lines \in [Vehicles -> CriteriaRows \cup {NoVehicle}]
    PROVE  /\ SeedTab(DefaultVehicles, lines) \in [Vehicles -> CriteriaRows \cup {NoVehicle}]
           /\ \A v \in Vehicles :
                 \/ SeedTab(DefaultVehicles, lines)[v] = lines[v]
                 \/ SeedTab(DefaultVehicles, lines)[v].places = Places
  <1>1. \A v \in Vehicles : DefaultVehicles[v] # NoVehicle =>
           /\ SeedCriteriaRow(DefaultVehicles[v]) \in CriteriaRows
           /\ SeedCriteriaRow(DefaultVehicles[v]).places = Places
    BY DefaultVehiclesAre, SeedRowIs DEF VehicleConfigs
  <1> QED BY <1>1 DEF SeedTab

LEMMA EmptyIs == Empty \in [Vehicles -> CriteriaRows \cup {NoVehicle}]
              /\ \A v \in Vehicles : Empty[v] = NoVehicle
  BY DEF Empty

\* An empty tab is read as the defaults; any other as it stands.
LEMMA SeededIs ==
    ASSUME NEW t \in CriteriaTabs
    PROVE  /\ Seeded(t) \in CriteriaTabs
           /\ \A v \in Vehicles :
                 \/ Seeded(t).rows[v] = t.rows[v]
                 \/ t.rows[v] = NoVehicle /\ Seeded(t).rows[v].places = Places
  <1>1. CASE IsBlank(t)
    <2> DEFINE lines == SeedTab(DefaultVehicles, Empty)
    <2>1. /\ lines \in [Vehicles -> CriteriaRows \cup {NoVehicle}]
          /\ \A v \in Vehicles : lines[v] = NoVehicle \/ lines[v].places = Places
      BY EmptyIs, SeedTabIs
    <2>2. Seeded(t) = [t EXCEPT !.head = "good", !.rows = lines]
      BY <1>1 DEF Seeded
    <2>3. \A v \in Vehicles : t.rows[v] = NoVehicle
      BY <1>1, EmptyIs DEF IsBlank
    <2> HIDE DEF lines
    <2>4. Seeded(t) \in CriteriaTabs /\ Seeded(t).rows = lines
      BY <2>1, <2>2 DEF CriteriaTabs
    <2> QED BY <2>1, <2>3, <2>4
  <1>2. CASE ~IsBlank(t)
    BY <1>2 DEF Seeded
  <1> QED BY <1>1, <1>2

LEMMA CriteriaBegins == CriteriaInit => CriteriaInv
  <1> SUFFICES ASSUME CriteriaInit PROVE CriteriaInv
    OBVIOUS
  <1> DEFINE lines == SeedTab(DefaultVehicles, Empty)
  <1>1. /\ lines \in [Vehicles -> CriteriaRows \cup {NoVehicle}]
        /\ \A v \in Vehicles : lines[v] = NoVehicle \/ lines[v].places = Places
    BY EmptyIs, SeedTabIs
  <1>2. criteriaTab \in CriteriaTabs /\ criteriaTab.rows = lines
    BY <1>1 DEF CriteriaInit, CriteriaTabs
  <1> HIDE DEF lines
  <1>3. goodVehicles \in GoodConfigs \cup {None}
    <2>1. Empty \in VehicleConfigs /\ DefaultVehicles \in VehicleConfigs
      BY DefaultVehiclesAre DEF VehicleConfigs, Empty
    <2>2. goodVehicles \in {None, Of(DefaultVehicles), [vehicles |-> Empty, poisoned |-> TRUE]}
      BY DEF CriteriaInit
    <2>3. Of(DefaultVehicles) \in GoodConfigs
      BY <2>1 DEF GoodConfigs, Of
    <2>4. [vehicles |-> Empty, poisoned |-> TRUE] \in GoodConfigs
      BY <2>1 DEF GoodConfigs
    <2> QED BY <2>2, <2>3, <2>4
  <1>4. goodVehicles # None =>
           \A v \in Vehicles : goodVehicles.vehicles[v] = NoVehicle
                               \/ goodVehicles.vehicles[v].places = Places
    BY DefaultVehiclesAre DEF CriteriaInit, Of, Empty
  <1>5. /\ scored \in [cfg : VehicleConfigs, faults : SUBSET Vehicles]
        /\ scored.cfg = DefaultVehicles /\ scored.faults = {}
    BY DefaultVehiclesAre DEF CriteriaInit
  <1>6. /\ stated \in [Vehicles -> SUBSET (SUBSET Places)]
        /\ \A v \in Vehicles : Places \in stated[v]
    BY DEF CriteriaInit
  <1>7. CriteriaTyped
    BY <1>2, <1>3, <1>5, <1>6 DEF CriteriaTyped, CriteriaInit, WorkLoads
  <1>8. ~RawInHand /\ ~ChangeBegun
    BY DEF CriteriaInit, RawInHand, ChangeBegun, NoCriteriaWork
  <1>9. PlacesGiven
    BY <1>1, <1>2, <1>4, <1>5, <1>6, <1>8, DefaultVehiclesAre DEF PlacesGiven, GivenOf, Given, RowGiven
  <1>10. ConfirmedStand
    BY DEF ConfirmedStand, ConfirmedStays, CriteriaInit
  <1>11. ChangeStands
    BY <1>8 DEF ChangeStands
  <1> QED BY <1>7, <1>9, <1>10, <1>11 DEF CriteriaInv

\* What was given stays given: stated only grows.
LEMMA GivenStays ==
    ASSUME NEW v \in Vehicles, stated[v] \subseteq stated'[v]
    PROVE  /\ \A s : Given(v, s) => Given(v, s)'
           /\ \A row : RowGiven(v, row) => RowGiven(v, row)'
  BY DEF Given, RowGiven

\* What a load makes of a change under way.
LEMMA DisturbedChange ==
    ASSUME CriteriaTyped, DisturbCriteria
    PROVE  /\ criteriaOp' \in CriteriaChanges \cup {NoCriteriaWork}
           /\ ChangeBegun' => /\ ChangeBegun /\ criteriaOp'.alone = FALSE
                              /\ criteriaOp'.base = criteriaOp.base
                              /\ criteriaOp'.next = criteriaOp.next
                              /\ criteriaOp'.todo = criteriaOp.todo
  <1>1. CASE criteriaOp = NoCriteriaWork
    BY <1>1 DEF DisturbCriteria, ChangeBegun, NoCriteriaWork
  <1>2. CASE criteriaOp # NoCriteriaWork
    <2>1. criteriaOp \in CriteriaChanges /\ criteriaOp' = [criteriaOp EXCEPT !.alone = FALSE]
      BY <1>2 DEF DisturbCriteria, CriteriaTyped
    <2> QED BY <2>1 DEF CriteriaChanges, ChangeBegun
  <1> QED BY <1>1, <1>2

\* A step of somebody else leaves a change, now known not to be alone, in order.
LEMMA ChangeDisturbed ==
    ASSUME CriteriaInv, DisturbCriteria, RawInHand' => configured'
    PROVE  ChangeStands'
  <1>1. ChangeBegun' => /\ ChangeBegun /\ criteriaOp'.alone = FALSE
                        /\ criteriaOp'.base = criteriaOp.base
                        /\ criteriaOp'.next = criteriaOp.next
                        /\ criteriaOp'.todo = criteriaOp.todo
    BY DisturbedChange DEF CriteriaInv
  <1> QED BY <1>1 DEF ChangeStands, CriteriaInv

LEMMA EditRowKeeps ==
    ASSUME CriteriaInv, NEW v \in Vehicles, EditRow(v)
    PROVE  CriteriaInv'
  <1>t. CriteriaTyped /\ PlacesGiven /\ ConfirmedStand /\ ChangeStands
    BY DEF CriteriaInv
  <1> DEFINE was == criteriaTab.rows[v]
  <1>0. /\ was # NoVehicle /\ UNCHANGED <<configured, goodVehicles, scored, load>>
        /\ vehicleAnswered' = [vehicleAnswered EXCEPT ![v] = None] /\ DisturbCriteria
    BY DEF EditRow, EditCriteria
  <1>1. PICK row \in (Retyped(v, was) \cup {NoVehicle}) \ {was} :
           /\ criteriaTab' = [criteriaTab EXCEPT !.rows = [criteriaTab.rows EXCEPT ![v] = row]]
           /\ stated' = IF row # NoVehicle /\ row.places \subseteq Places
                        THEN [stated EXCEPT ![v] = stated[v] \cup {row.places}] ELSE stated
    BY DEF EditRow
  <1>2. was \in CriteriaRows
    BY <1>0, <1>t DEF CriteriaTyped, CriteriaTabs
  <1>3. row \in CriteriaRows \cup {NoVehicle}
    BY <1>2, CriteriaAssumption DEF Retyped, CriteriaRows, RowNames
  <1>4. /\ criteriaTab' \in CriteriaTabs
        /\ criteriaTab'.rows[v] = row
        /\ \A u \in Vehicles \ {v} : criteriaTab'.rows[u] = criteriaTab.rows[u]
    <2>1. [criteriaTab.rows EXCEPT ![v] = row] \in [Vehicles -> CriteriaRows \cup {NoVehicle}]
      BY <1>3, <1>t DEF CriteriaTyped, CriteriaTabs
    <2>2. criteriaTab.rows \in [Vehicles -> CriteriaRows \cup {NoVehicle}]
      BY <1>t DEF CriteriaTyped, CriteriaTabs
    <2>3. criteriaTab' \in CriteriaTabs /\ criteriaTab'.rows = [criteriaTab.rows EXCEPT ![v] = row]
      BY <1>1, <2>1, <1>t DEF CriteriaTyped, CriteriaTabs
    <2> QED BY <2>2, <2>3
  <1>5. /\ stated' \in [Vehicles -> SUBSET (SUBSET Places)]
        /\ \A u \in Vehicles : stated[u] \subseteq stated'[u]
        /\ row # NoVehicle /\ row.places \subseteq Places => row.places \in stated'[v]
    BY <1>1, <1>t DEF CriteriaTyped
  <1>6. /\ vehicleAnswered' \in [Vehicles -> BOOLEAN \cup {None}]
        /\ vehicleAnswered'[v] = None
        /\ \A u \in Vehicles \ {v} : vehicleAnswered'[u] = vehicleAnswered[u]
    BY <1>0, <1>t DEF CriteriaTyped
  <1>d. /\ criteriaOp' \in CriteriaChanges \cup {NoCriteriaWork}
        /\ ChangeBegun' => /\ ChangeBegun /\ criteriaOp'.alone = FALSE
                           /\ criteriaOp'.base = criteriaOp.base
                           /\ criteriaOp'.next = criteriaOp.next
                           /\ criteriaOp'.todo = criteriaOp.todo
    BY <1>0, <1>t, DisturbedChange
  <1>7. CriteriaTyped'
    BY <1>0, <1>4, <1>5, <1>6, <1>d, <1>t DEF CriteriaTyped
  <1>r. RawInHand' <=> RawInHand
    BY <1>0 DEF RawInHand
  <1>8. PlacesGiven'
    <2> SUFFICES ASSUME NEW u \in Vehicles PROVE GivenOf(u)'
      BY DEF PlacesGiven
    <2>0. GivenOf(u)
      BY <1>t DEF PlacesGiven
    <2>1. RowGiven(u, criteriaTab.rows[u])'
      BY <2>0, <1>4, <1>5 DEF RowGiven, GivenOf
    <2> QED BY <2>0, <2>1, <1>0, <1>5, <1>d, <1>r DEF GivenOf, Given, RowGiven
  <1>9. ConfirmedStand'
    <2> SUFFICES ASSUME NEW u \in Vehicles, vehicleAnswered'[u] # None PROVE ConfirmedStays(u)'
      BY DEF ConfirmedStand, ConfirmedStays
    <2>1. /\ u # v /\ vehicleAnswered'[u] = vehicleAnswered[u]
          /\ criteriaTab'.rows[u] = criteriaTab.rows[u]
      BY <1>4, <1>6
    <2>2. ConfirmedStays(u)
      BY <1>t DEF ConfirmedStand
    <2> QED BY <2>1, <2>2, <1>0, <1>d, <1>r DEF ConfirmedStays, Prior
  <1>10. ChangeStands'
    BY <1>0, <1>r, <1>t, ChangeDisturbed DEF ChangeStands
  <1> QED BY <1>7, <1>8, <1>9, <1>10 DEF CriteriaInv

LEMMA EditTabKeeps == ASSUME CriteriaInv, EditTab PROVE CriteriaInv'
  <1>t. CriteriaTyped /\ PlacesGiven /\ ConfirmedStand /\ ChangeStands
    BY DEF CriteriaInv
  <1>1. UNCHANGED <<configured, goodVehicles, scored, load, criteriaOp, stated, vehicleAnswered>>
    BY DEF EditTab, EditCriteria
  <1>2. criteriaTab' \in CriteriaTabs /\ criteriaTab'.rows = criteriaTab.rows
    BY <1>t DEF EditTab, CriteriaTyped, CriteriaTabs
  <1>3. CriteriaTyped'
    BY <1>1, <1>2, <1>t DEF CriteriaTyped
  <1>4. PlacesGiven'
    BY <1>1, <1>2, <1>t DEF PlacesGiven, GivenOf, Given, RowGiven, RawInHand, ChangeBegun
  <1>5. ConfirmedStand'
    BY <1>1, <1>2, <1>t DEF ConfirmedStand, ConfirmedStays, Prior, RawInHand, ChangeBegun
  <1>6. ChangeStands'
    BY <1>1, <1>2, <1>t DEF ChangeStands, RawInHand, ChangeBegun, Waits, Switched, IsNew
  <1> QED BY <1>3, <1>4, <1>5, <1>6 DEF CriteriaInv

LEMMA EraseTabKeeps == ASSUME CriteriaInv, EraseTab PROVE CriteriaInv'
  <1>t. CriteriaTyped /\ PlacesGiven /\ ConfirmedStand /\ ChangeStands
    BY DEF CriteriaInv
  <1>1. /\ UNCHANGED <<configured, goodVehicles, scored, load, stated>>
        /\ vehicleAnswered' = [v \in Vehicles |-> None] /\ DisturbCriteria
    BY DEF EraseTab, EditCriteria
  <1>2. criteriaTab' \in CriteriaTabs /\ criteriaTab'.rows = Empty
    BY <1>t, EmptyIs DEF EraseTab, CriteriaTyped, CriteriaTabs
  <1>d. /\ criteriaOp' \in CriteriaChanges \cup {NoCriteriaWork}
        /\ ChangeBegun' => /\ ChangeBegun /\ criteriaOp'.alone = FALSE
                           /\ criteriaOp'.base = criteriaOp.base
                           /\ criteriaOp'.next = criteriaOp.next
                           /\ criteriaOp'.todo = criteriaOp.todo
    BY <1>1, <1>t, DisturbedChange
  <1>3. CriteriaTyped'
    BY <1>1, <1>2, <1>d, <1>t DEF CriteriaTyped
  <1>r. RawInHand' <=> RawInHand
    BY <1>1 DEF RawInHand
  <1>4. PlacesGiven'
    <2> SUFFICES ASSUME NEW v \in Vehicles PROVE GivenOf(v)'
      BY DEF PlacesGiven
    <2>1. GivenOf(v)
      BY <1>t DEF PlacesGiven
    <2> QED BY <2>1, <1>1, <1>2, <1>d, <1>r, EmptyIs DEF GivenOf, Given, RowGiven
  <1>5. ConfirmedStand'
    BY <1>1 DEF ConfirmedStand, ConfirmedStays
  <1>6. ChangeStands'
    BY <1>1, <1>r, <1>t, ChangeDisturbed DEF ChangeStands
  <1> QED BY <1>3, <1>4, <1>5, <1>6 DEF CriteriaInv

\* A load reads the tab, empty ones as the defaults, or finds no Sheet.
LEMMA LoadReadKeeps ==
    ASSUME CriteriaInv, NEW kind \in {"run", "sync", "repair"}, LoadRead(kind)
    PROVE  CriteriaInv'
  <1>t. CriteriaTyped /\ PlacesGiven /\ ConfirmedStand /\ ChangeStands
    BY DEF CriteriaInv
  <1>1. /\ UNCHANGED <<configured, criteriaTab, goodVehicles, scored, stated, vehicleAnswered>>
        /\ load = NoCriteriaWork /\ DisturbCriteria
        /\ \/ configured /\ load' = [kind |-> kind, raw |-> Seeded(criteriaTab)]
           \/ load' = [kind |-> kind, raw |-> None]
    BY DEF LoadRead
  <1>2. /\ Seeded(criteriaTab) \in CriteriaTabs
        /\ \A v \in Vehicles :
              \/ Seeded(criteriaTab).rows[v] = criteriaTab.rows[v]
              \/ criteriaTab.rows[v] = NoVehicle /\ Seeded(criteriaTab).rows[v].places = Places
    BY <1>t, SeededIs DEF CriteriaTyped
  <1>3. load' \in WorkLoads
    BY <1>1, <1>2 DEF WorkLoads
  <1>4. RawInHand' => configured /\ load'.raw = Seeded(criteriaTab)
    BY <1>1 DEF RawInHand
  <1>d. /\ criteriaOp' \in CriteriaChanges \cup {NoCriteriaWork}
        /\ ChangeBegun' => /\ ChangeBegun /\ criteriaOp'.alone = FALSE
                           /\ criteriaOp'.base = criteriaOp.base
                           /\ criteriaOp'.next = criteriaOp.next
                           /\ criteriaOp'.todo = criteriaOp.todo
    BY <1>1, <1>t, DisturbedChange
  <1>5. CriteriaTyped'
    BY <1>1, <1>3, <1>d, <1>t DEF CriteriaTyped
  <1>6. PlacesGiven'
    <2> SUFFICES ASSUME NEW v \in Vehicles PROVE GivenOf(v)'
      BY DEF PlacesGiven
    <2>1. GivenOf(v)
      BY <1>t DEF PlacesGiven
    <2>2. RawInHand' => RowGiven(v, load.raw.rows[v])'
      BY <2>1, <1>1, <1>2, <1>4 DEF GivenOf, RowGiven
    <2> QED BY <2>1, <2>2, <1>1, <1>d DEF GivenOf, Given, RowGiven
  <1>7. ConfirmedStand'
    <2> SUFFICES ASSUME NEW v \in Vehicles, vehicleAnswered'[v] # None PROVE ConfirmedStays(v)'
      BY DEF ConfirmedStand, ConfirmedStays
    <2>1. ConfirmedStays(v) /\ vehicleAnswered'[v] = vehicleAnswered[v]
      BY <1>1, <1>t DEF ConfirmedStand
    <2>2. RawInHand' => load'.raw.rows[v] = criteriaTab'.rows[v]
      BY <2>1, <1>1, <1>2, <1>4 DEF ConfirmedStays, RowSays
    <2> QED BY <2>1, <2>2, <1>1, <1>d DEF ConfirmedStays, Prior
  <1>8. ChangeStands'
    BY <1>1, <1>4, <1>t, ChangeDisturbed
  <1> QED BY <1>5, <1>6, <1>7, <1>8 DEF CriteriaInv

\* What one row becomes.
LEMMA RowIsRead ==
    ASSUME NEW row \in CriteriaRows
    PROVE  /\ ReadRow(row) \in Settings /\ ReadRow(row) # NoVehicle
           /\ ReadRow(row).active = (row.active # "FALSE") /\ ReadRow(row).rule = row.rule
           /\ ReadRow(row).places = row.places \cap Places
           /\ [ReadRow(row) EXCEPT !.active = FALSE] \in Settings
           /\ [ReadRow(row) EXCEPT !.active = FALSE] # NoVehicle
           /\ [ReadRow(row) EXCEPT !.active = FALSE].active = FALSE
  <1>1. ReadRow(row) \in Settings /\ [ReadRow(row) EXCEPT !.active = FALSE] \in Settings
    BY DEF ReadRow, Settings, CriteriaRows
  <1>2. ReadRow(row) # NoVehicle /\ [ReadRow(row) EXCEPT !.active = FALSE] # NoVehicle
    BY <1>1, CriteriaAssumption
  <1>3. [ReadRow(row) EXCEPT !.active = FALSE].active = FALSE
    BY <1>1 DEF Settings
  <1> QED BY <1>1, <1>2, <1>3 DEF ReadRow

\* What a row, read, makes of a vehicle: what it says; or, at fault, the earlier vehicle
\* or one that is blocked; or no vehicle.
LEMMA ParsedIs ==
    ASSUME CriteriaTyped, PlacesGiven, NEW t \in CriteriaTabs, NEW v \in Vehicles
    PROVE  /\ Parsed(t)[v] \in Settings \cup {NoVehicle}
           /\ v \in Faults(t) => /\ Faulted(t.rows[v]) /\ Parsed(t)[v] # NoVehicle
                                 /\ \/ Parsed(t)[v] = Prior(v) /\ CanHold(Prior(v))
                                    \/ ~Parsed(t)[v].active /\ ~CanHold(Prior(v))
           /\ v \in KeptRows(t) /\ v \notin Faults(t) =>
                 ~Faulted(t.rows[v]) /\ t.rows[v] \in CriteriaRows /\ Parsed(t)[v] = ReadRow(t.rows[v])
           /\ v \notin KeptRows(t) => Parsed(t)[v] = NoVehicle
  <1>1. t.rows[v] \in CriteriaRows \cup {NoVehicle}
    BY DEF CriteriaTabs
  <1>2. v \in KeptRows(t) => t.rows[v] \in CriteriaRows
    BY <1>1 DEF KeptRows
  <1>3. Faults(t) \subseteq KeptRows(t)
    BY DEF Faults
  <1>4. Prior(v) \in Settings \cup {NoVehicle}
    BY DEF Prior, CriteriaTyped, GoodConfigs, VehicleConfigs
  <1>5. CASE v \in Faults(t)
    <2>1. Parsed(t)[v] = FailClosed(v, t.rows[v]) /\ Faulted(t.rows[v])
      BY <1>5 DEF Parsed, Faults
    <2>2. CASE CanHold(Prior(v))
      BY <2>1, <2>2, <1>3, <1>4, <1>5 DEF FailClosed, CanHold
    <2>3. CASE ~CanHold(Prior(v))
      <3>1. Parsed(t)[v] = [ReadRow(t.rows[v]) EXCEPT !.active = FALSE]
        BY <2>1, <2>3 DEF FailClosed
      <3> QED BY <2>1, <2>3, <3>1, <1>2, <1>3, <1>5, RowIsRead
    <2> QED BY <2>2, <2>3
  <1>6. CASE v \in KeptRows(t) /\ v \notin Faults(t)
    <2>1. Parsed(t)[v] = ReadRow(t.rows[v]) /\ ~Faulted(t.rows[v])
      BY <1>6 DEF Parsed, Faults
    <2> QED BY <2>1, <1>2, <1>6, RowIsRead
  <1>7. CASE v \notin KeptRows(t)
    <2>1. Parsed(t)[v] = NoVehicle
      BY <1>3, <1>7 DEF Parsed
    <2> QED BY <2>1, <1>3, <1>7
  <1> QED BY <1>5, <1>6, <1>7

\* What may be scored or saved of a vehicle.
Sound(v, s, blamed) ==
    /\ s # NoVehicle /\ s.active => Given(v, s)
    /\ s # NoVehicle /\ s.active /\ s.rule = "HARD" /\ v \in blamed => s.places # {}

\* What a load makes of a vehicle that was confirmed.
Honours(v, r, row) == vehicleAnswered[v] # None =>
    /\ r.cfg.vehicles[v] # NoVehicle
    /\ r.cfg.vehicles[v].active # vehicleAnswered[v] =>
          ~r.cfg.vehicles[v].active /\ v \in r.faults /\ ~CanHold(Prior(v))
    /\ v \in r.faults => Faulted(row)
    /\ Promotes(r) => /\ Says(r.cfg.vehicles[v], vehicleAnswered[v])
                      /\ r.cfg = goodVehicles \/ ~Faulted(row)

LEMMA DefaultsGiven ==
    ASSUME PlacesGiven, NEW v \in Vehicles
    PROVE  Given(v, DefaultVehicles[v])
  BY DefaultVehiclesAre DEF PlacesGiven, GivenOf, Given

LEMMA LoadedIs ==
    ASSUME CriteriaInv, RawInHand, NEW r, r = Loaded(load.raw)
    PROVE  /\ r.cfg \in GoodConfigs /\ r.faults \subseteq Vehicles
           /\ r.healed => r.cfg = Of(DefaultVehicles)
           /\ \A v \in Vehicles :
                 /\ Sound(v, r.cfg.vehicles[v], r.faults)
                 /\ Promotes(r) => Given(v, r.cfg.vehicles[v])
                 /\ ~r.healed => Honours(v, r, load.raw.rows[v])
  <1> DEFINE raw == load.raw
  <1>t. CriteriaTyped /\ PlacesGiven /\ ConfirmedStand
    BY DEF CriteriaInv
  <1>0. raw \in CriteriaTabs
    BY <1>t DEF RawInHand, CriteriaTyped, WorkLoads, NoCriteriaWork
  <1>a. \A v \in Vehicles : vehicleAnswered[v] # None =>
           /\ goodVehicles # None /\ Says(goodVehicles.vehicles[v], vehicleAnswered[v])
           /\ raw.rows[v] # NoVehicle /\ (raw.rows[v].active # "FALSE") = vehicleAnswered[v]
    BY DEF CriteriaInv, ConfirmedStand, ConfirmedStays, ChangeStands, RowSays
  <1> HIDE DEF raw
  <1>1. CASE Layout(raw) /\ UsableVehicles(goodVehicles)
    <2>1. r = [cfg |-> goodVehicles, errors |-> TRUE, faults |-> {}, healed |-> FALSE]
      BY <1>1 DEF Loaded, raw
    <2>2. goodVehicles # None /\ goodVehicles \in GoodConfigs
      BY <1>1, <1>t DEF UsableVehicles, CriteriaTyped
    <2>3. \A v \in Vehicles : Given(v, goodVehicles.vehicles[v])
      BY <2>2, <1>t DEF PlacesGiven, GivenOf
    <2>4. ~Promotes(r)
      BY <2>1 DEF Promotes
    <2> QED BY <2>1, <2>2, <2>3, <2>4, <1>a DEF Sound, Honours, Says
  <1>2. CASE Layout(raw) /\ ~UsableVehicles(goodVehicles)
    <2>1. r = [cfg |-> Of(DefaultVehicles), errors |-> raw.mistyped, faults |-> {}, healed |-> TRUE]
      BY <1>2 DEF Loaded, raw
    <2>2. Of(DefaultVehicles) \in GoodConfigs /\ Of(DefaultVehicles).vehicles = DefaultVehicles
      BY DefaultVehiclesAre DEF GoodConfigs, Of
    <2> QED BY <2>1, <2>2, <1>t, DefaultsGiven DEF Sound
  <1>3. CASE ~Layout(raw) /\ KeptRows(raw) = {} /\ goodVehicles # None
    <2>1. r.cfg = goodVehicles /\ r.faults = Faults(raw) /\ r.healed = FALSE
      BY <1>3 DEF Loaded, raw
    <2>2. r.faults = {}
      BY <2>1, <1>3 DEF Faults
    <2>3. goodVehicles \in GoodConfigs /\ \A v \in Vehicles : Given(v, goodVehicles.vehicles[v])
      BY <1>3, <1>t DEF CriteriaTyped, PlacesGiven, GivenOf
    <2> QED BY <2>1, <2>2, <2>3, <1>a DEF Sound, Honours, Says
  <1>4. CASE ~Layout(raw) /\ ~(KeptRows(raw) = {} /\ goodVehicles # None)
    <2>1. /\ r.cfg = Of(Parsed(raw)) /\ r.faults = Faults(raw) /\ r.healed = FALSE
          /\ r.errors = (raw.mistyped \/ Faults(raw) # {})
      BY <1>4 DEF Loaded, raw
    <2>2. r.cfg.vehicles = Parsed(raw) /\ r.cfg.poisoned = FALSE /\ r.cfg = Of(r.cfg.vehicles)
      BY <2>1 DEF Of
    <2>3. \A v \in Vehicles :
             /\ Parsed(raw)[v] \in Settings \cup {NoVehicle}
             /\ v \in Faults(raw) => /\ Faulted(raw.rows[v]) /\ Parsed(raw)[v] # NoVehicle
                                     /\ \/ Parsed(raw)[v] = Prior(v) /\ CanHold(Prior(v))
                                        \/ ~Parsed(raw)[v].active /\ ~CanHold(Prior(v))
             /\ v \in KeptRows(raw) /\ v \notin Faults(raw) =>
                   /\ ~Faulted(raw.rows[v]) /\ raw.rows[v] \in CriteriaRows
                   /\ Parsed(raw)[v] = ReadRow(raw.rows[v])
             /\ v \notin KeptRows(raw) => Parsed(raw)[v] = NoVehicle
      BY <1>0, <1>t, ParsedIs
    <2>4. Parsed(raw) \in VehicleConfigs
      BY <2>3 DEF Parsed, VehicleConfigs
    <2>5. r.cfg \in GoodConfigs
      BY <2>1, <2>4 DEF Of, GoodConfigs
    <2>6. r.faults \subseteq Vehicles
      BY <2>1 DEF Faults, KeptRows
    <2>7. \A v \in Vehicles : v \notin Faults(raw) => Given(v, Parsed(raw)[v])
      <3> SUFFICES ASSUME NEW v \in Vehicles, v \notin Faults(raw), Parsed(raw)[v] # NoVehicle,
                          Parsed(raw)[v].rule = "HARD"
                   PROVE  Parsed(raw)[v].places \in stated[v]
        BY DEF Given
      <3>1. /\ v \in KeptRows(raw) /\ ~Faulted(raw.rows[v]) /\ raw.rows[v] \in CriteriaRows
            /\ Parsed(raw)[v] = ReadRow(raw.rows[v])
        BY <2>3
      <3>2. /\ Parsed(raw)[v].places = raw.rows[v].places \cap Places
            /\ raw.rows[v].rule = "HARD" /\ raw.rows[v] # NoVehicle
        BY <3>1, RowIsRead, CriteriaAssumption
      <3>3. raw.rows[v].places \subseteq Places
        BY <3>1, <3>2 DEF Faulted
      <3>4. raw.rows[v].places \in stated[v]
        BY <3>2, <3>3, <1>t DEF PlacesGiven, GivenOf, RowGiven, raw
      <3>5. raw.rows[v].places \cap Places = raw.rows[v].places
        BY <3>3
      <3> QED BY <3>2, <3>4, <3>5
    <2>8. \A v \in Vehicles : v \in Faults(raw) => Sound(v, Parsed(raw)[v], Faults(raw))
      <3> SUFFICES ASSUME NEW v \in Vehicles, v \in Faults(raw), Parsed(raw)[v].active
                   PROVE  /\ Given(v, Parsed(raw)[v])
                          /\ Parsed(raw)[v].rule = "HARD" => Parsed(raw)[v].places # {}
        BY DEF Sound
      <3>1. Parsed(raw)[v] = Prior(v) /\ CanHold(Prior(v))
        BY <2>3
      <3>2. Given(v, Prior(v))
        BY <1>t DEF Prior, PlacesGiven, GivenOf, Given
      <3> QED BY <3>1, <3>2 DEF CanHold
    <2>9. \A v \in Vehicles : Sound(v, Parsed(raw)[v], Faults(raw))
      BY <2>7, <2>8 DEF Sound
    <2>10. Promotes(r) => Faults(raw) = {}
      BY <2>1 DEF Promotes
    <2>11. \A v \in Vehicles : Honours(v, r, raw.rows[v])
      <3> SUFFICES ASSUME NEW v \in Vehicles, vehicleAnswered[v] # None
                   PROVE  Honours(v, r, raw.rows[v])
        BY DEF Honours
      <3>1. v \in KeptRows(raw)
        BY <1>a, <1>4 DEF KeptRows, Layout
      <3>2. CASE v \notin Faults(raw)
        <4>1. Parsed(raw)[v] # NoVehicle /\ Parsed(raw)[v].active = vehicleAnswered[v]
          <5>1. raw.rows[v] \in CriteriaRows /\ Parsed(raw)[v] = ReadRow(raw.rows[v])
            BY <3>1, <3>2, <2>3
          <5>2. /\ ReadRow(raw.rows[v]) # NoVehicle
                /\ ReadRow(raw.rows[v]).active = (raw.rows[v].active # "FALSE")
            BY <5>1, RowIsRead
          <5>3. (raw.rows[v].active # "FALSE") = vehicleAnswered[v]
            BY <1>a
          <5> QED BY <5>1, <5>2, <5>3
        <4>2. ~Faulted(raw.rows[v])
          BY <3>1, <3>2, <2>3
        <4> QED BY <3>2, <4>1, <4>2, <2>1, <2>2 DEF Honours, Says
      <3>3. CASE v \in Faults(raw)
        <4>1. ~Promotes(r) /\ Faulted(raw.rows[v]) /\ Parsed(raw)[v] # NoVehicle
          BY <3>3, <2>3, <2>10
        <4>2. CanHold(Prior(v)) /\ Parsed(raw)[v] = Prior(v) =>
                 Parsed(raw)[v].active = vehicleAnswered[v]
          BY <1>a DEF Prior, Says
        <4>3. \/ Parsed(raw)[v] = Prior(v) /\ CanHold(Prior(v))
              \/ ~Parsed(raw)[v].active /\ ~CanHold(Prior(v))
          BY <3>3, <2>3
        <4> QED BY <3>3, <4>1, <4>2, <4>3, <2>1, <2>2 DEF Honours
      <3> QED BY <3>2, <3>3
    <2> QED BY <2>1, <2>2, <2>5, <2>6, <2>7, <2>9, <2>10, <2>11 DEF raw
  <1> QED BY <1>1, <1>2, <1>3, <1>4

\* The tab a load leaves: what a sync types in an empty one or over a poisoned one has
\* every place, and the rest stays.
LEMMA TabLeft ==
    ASSUME CriteriaTyped, LoadFinish, NEW r, r = Loaded(load.raw),
           r.healed => r.cfg = Of(DefaultVehicles)
    PROVE  /\ criteriaTab' \in CriteriaTabs
           /\ \A v \in Vehicles :
                 \/ criteriaTab'.rows[v] = criteriaTab.rows[v]
                 \/ /\ criteriaTab'.rows[v].places = Places
                    /\ r.healed \/ criteriaTab.rows[v] = NoVehicle
  <1>1. criteriaTab' = CASE load.kind = "sync" /\ r.healed ->
                              [criteriaTab EXCEPT !.head = "good",
                                                  !.rows = SeedTab(r.cfg.vehicles, criteriaTab.rows)]
                         [] load.kind = "sync" /\ IsBlank(criteriaTab) -> Seeded(criteriaTab)
                         [] OTHER -> criteriaTab
    BY DEF LoadFinish
  <1>0. criteriaTab.rows \in [Vehicles -> CriteriaRows \cup {NoVehicle}] /\ criteriaTab \in CriteriaTabs
    BY DEF CriteriaTyped, CriteriaTabs
  <1>2. CASE criteriaTab' = [criteriaTab EXCEPT !.head = "good",
                                 !.rows = SeedTab(r.cfg.vehicles, criteriaTab.rows)] /\ r.healed
    <2> DEFINE lines == SeedTab(DefaultVehicles, criteriaTab.rows)
    <2>1. /\ lines \in [Vehicles -> CriteriaRows \cup {NoVehicle}]
          /\ \A v \in Vehicles : lines[v] = criteriaTab.rows[v] \/ lines[v].places = Places
      BY <1>0, SeedTabIs
    <2>2. criteriaTab' = [criteriaTab EXCEPT !.head = "good", !.rows = lines]
      <3>1. r.cfg.vehicles = DefaultVehicles
        BY <1>2 DEF Of
      <3> QED BY <3>1, <1>2
    <2> HIDE DEF lines
    <2>3. criteriaTab' \in CriteriaTabs /\ criteriaTab'.rows = lines
      BY <2>1, <2>2, <1>0 DEF CriteriaTabs
    <2> QED BY <2>1, <2>3, <1>2
  <1>3. CASE criteriaTab' = Seeded(criteriaTab)
    BY <1>3, <1>0, SeededIs
  <1>4. CASE criteriaTab' = criteriaTab
    BY <1>4, <1>0
  <1>5. \/ criteriaTab' = [criteriaTab EXCEPT !.head = "good",
                                 !.rows = SeedTab(r.cfg.vehicles, criteriaTab.rows)] /\ r.healed
        \/ criteriaTab' = Seeded(criteriaTab)
        \/ criteriaTab' = criteriaTab
    BY <1>1
  <1> QED BY <1>2, <1>3, <1>4, <1>5

LEMMA LoadFinishKeeps == ASSUME CriteriaInv, LoadFinish PROVE CriteriaInv'
  <1>t. CriteriaTyped /\ PlacesGiven /\ ConfirmedStand /\ ChangeStands
    BY DEF CriteriaInv
  <1> DEFINE r == Loaded(load.raw)
  <1>0. RawInHand /\ UNCHANGED <<configured, criteriaOp, stated>>
    BY DEF LoadFinish, RawInHand
  <1>1. /\ goodVehicles' = IF Promotes(r) THEN r.cfg ELSE goodVehicles
        /\ scored' = IF load.kind # "run" THEN scored
                     ELSE [cfg |-> r.cfg.vehicles, faults |-> r.faults]
        /\ vehicleAnswered' = IF r.healed THEN [v \in Vehicles |-> None] ELSE vehicleAnswered
        /\ load' = Done(load.kind)
    BY DEF LoadFinish, Forget
  <1>2. /\ r.cfg \in GoodConfigs /\ r.faults \subseteq Vehicles
        /\ r.healed => r.cfg = Of(DefaultVehicles)
        /\ \A v \in Vehicles :
              /\ Sound(v, r.cfg.vehicles[v], r.faults)
              /\ Promotes(r) => Given(v, r.cfg.vehicles[v])
              /\ ~r.healed => Honours(v, r, load.raw.rows[v])
    BY <1>0, LoadedIs
  <1>3. /\ criteriaTab' \in CriteriaTabs
        /\ \A v \in Vehicles :
              \/ criteriaTab'.rows[v] = criteriaTab.rows[v]
              \/ /\ criteriaTab'.rows[v].places = Places
                 /\ r.healed \/ criteriaTab.rows[v] = NoVehicle
    BY <1>2, <1>t, TabLeft
  <1> HIDE DEF r
  <1>4. load' \in WorkLoads /\ ~RawInHand'
    BY <1>1 DEF Done, WorkLoads, RawInHand, NoCriteriaWork
  <1>5. ChangeBegun => ~criteriaOp.alone
    BY <1>0, <1>t DEF ChangeStands, RawInHand, NoCriteriaWork
  <1>6. /\ goodVehicles' \in GoodConfigs \cup {None}
        /\ scored' \in [cfg : VehicleConfigs, faults : SUBSET Vehicles]
        /\ \/ scored' = scored
           \/ scored'.cfg = r.cfg.vehicles /\ scored'.faults = r.faults
    <2>1. r.cfg.vehicles \in VehicleConfigs
      BY <1>2 DEF GoodConfigs
    <2> DEFINE made == [cfg |-> r.cfg.vehicles, faults |-> r.faults]
    <2>2. /\ made \in [cfg : VehicleConfigs, faults : SUBSET Vehicles]
          /\ made.cfg = r.cfg.vehicles /\ made.faults = r.faults
      BY <2>1, <1>2
    <2>3. scored' = scored \/ scored' = made
      BY <1>1
    <2> HIDE DEF made
    <2>4. goodVehicles' \in GoodConfigs \cup {None}
      BY <1>1, <1>2, <1>t DEF CriteriaTyped
    <2> QED BY <2>2, <2>3, <2>4, <1>t DEF CriteriaTyped
  <1>7. CriteriaTyped'
    BY <1>0, <1>1, <1>3, <1>4, <1>6, <1>t DEF CriteriaTyped
  <1>8. PlacesGiven'
    <2> SUFFICES ASSUME NEW v \in Vehicles PROVE GivenOf(v)'
      BY DEF PlacesGiven
    <2>1. GivenOf(v)
      BY <1>t DEF PlacesGiven
    <2>2. goodVehicles' # None => Given(v, goodVehicles.vehicles[v])'
      BY <2>1, <1>0, <1>1, <1>2 DEF GivenOf, Given
    <2>3. Sound(v, scored.cfg[v], scored.faults)'
      BY <2>1, <1>0, <1>2, <1>6 DEF GivenOf, Sound, Given
    <2>4. RowGiven(v, criteriaTab.rows[v])'
      BY <2>1, <1>0, <1>3 DEF GivenOf, RowGiven
    <2> QED BY <2>1, <2>2, <2>3, <2>4, <1>0, <1>4 DEF GivenOf, Sound, Given, ChangeBegun
  <1>9. ConfirmedStand'
    <2> SUFFICES ASSUME NEW v \in Vehicles, vehicleAnswered'[v] # None PROVE ConfirmedStays(v)'
      BY DEF ConfirmedStand, ConfirmedStays
    <2>1. ~r.healed /\ vehicleAnswered' = vehicleAnswered
      BY <1>1
    <2>2. ConfirmedStays(v) /\ vehicleAnswered[v] # None /\ configured
      BY <2>1, <1>0, <1>t DEF ConfirmedStand, ChangeStands
    <2>3. /\ criteriaTab'.rows[v] = criteriaTab.rows[v]
          /\ load.raw.rows[v] = criteriaTab.rows[v]
          /\ RowSays(criteriaTab.rows[v], vehicleAnswered[v])
      BY <2>1, <2>2, <1>0, <1>3 DEF ConfirmedStays, RowSays
    <2>4. Honours(v, r, criteriaTab.rows[v])
      BY <2>1, <2>3, <1>2
    <2>5. goodVehicles' # None /\ Says(goodVehicles'.vehicles[v], vehicleAnswered[v])
      <3>1. r.cfg # None
        BY <1>2, CriteriaAssumption
      <3> QED BY <3>1, <2>2, <2>4, <1>1 DEF ConfirmedStays, Honours
    <2>6. goodVehicles' = goodVehicles \/ ~Faulted(criteriaTab.rows[v])
      BY <2>2, <2>4, <1>1 DEF Honours
    <2>7. CASE scored' = scored
      <3>1. scored.cfg[v].active # vehicleAnswered[v] => goodVehicles' = goodVehicles
        BY <2>2, <2>6 DEF ConfirmedStays
      <3> QED BY <2>1, <2>2, <2>3, <2>5, <2>7, <3>1, <1>0, <1>4
            DEF ConfirmedStays, ChangeBegun, Prior
    <2>8. CASE scored'.cfg = r.cfg.vehicles /\ scored'.faults = r.faults
      <3>1. scored'.cfg[v].active # vehicleAnswered[v] => goodVehicles' = goodVehicles
        BY <2>2, <2>4, <2>6, <2>8 DEF Honours
      <3>2. Prior(v)' = IF goodVehicles' = None THEN NoVehicle ELSE goodVehicles'.vehicles[v]
        BY DEF Prior
      <3> QED BY <2>1, <2>2, <2>3, <2>4, <2>5, <2>8, <3>1, <3>2, <1>0, <1>4
            DEF ConfirmedStays, Honours, ChangeBegun, Prior
    <2> QED BY <2>7, <2>8, <1>6
  <1>10. ChangeStands'
    BY <1>0, <1>4, <1>5, <1>t DEF ChangeStands, ChangeBegun
  <1> QED BY <1>7, <1>8, <1>9, <1>10 DEF CriteriaInv

LEMMA OfflineIs ==
    ASSUME CriteriaTyped, PlacesGiven
    PROVE  /\ Offline \in VehicleConfigs
           /\ \A v \in Vehicles : Given(v, Offline[v])
           /\ goodVehicles # None /\ ~goodVehicles.poisoned => Offline = goodVehicles.vehicles
  <1>1. CASE goodVehicles = None \/ goodVehicles.poisoned
    BY <1>1, DefaultVehiclesAre, DefaultsGiven DEF Offline
  <1>2. CASE ~(goodVehicles = None \/ goodVehicles.poisoned)
    BY <1>2 DEF Offline, CriteriaTyped, GoodConfigs, PlacesGiven, GivenOf
  <1> QED BY <1>1, <1>2

LEMMA LoadOfflineKeeps == ASSUME CriteriaInv, LoadOffline PROVE CriteriaInv'
  <1>t. CriteriaTyped /\ PlacesGiven /\ ConfirmedStand /\ ChangeStands
    BY DEF CriteriaInv
  <1> DEFINE healed == goodVehicles # None /\ goodVehicles.poisoned
             made == [cfg |-> Offline, faults |-> {}]
  <1>1. /\ UNCHANGED <<configured, criteriaTab, criteriaOp, stated>>
        /\ goodVehicles' = IF healed THEN Of(DefaultVehicles) ELSE goodVehicles
        /\ vehicleAnswered' = IF healed THEN [v \in Vehicles |-> None] ELSE vehicleAnswered
        /\ scored' = scored \/ scored' = made
        /\ load' = Done(load.kind) /\ load.kind \in {"run", "repair"}
    BY DEF LoadOffline, Forget
  <1>2. load' \in WorkLoads /\ ~RawInHand'
    BY <1>1 DEF Done, WorkLoads, RawInHand, NoCriteriaWork
  <1>3. ChangeBegun => ~criteriaOp.alone
    BY <1>1, <1>t DEF ChangeStands, NoCriteriaWork
  <1>4. /\ Offline \in VehicleConfigs
        /\ \A v \in Vehicles : Given(v, Offline[v])
        /\ goodVehicles # None /\ ~healed => Offline = goodVehicles.vehicles
    BY <1>t, OfflineIs
  <1>5. /\ Of(DefaultVehicles) \in GoodConfigs /\ Of(DefaultVehicles).vehicles = DefaultVehicles
        /\ \A v \in Vehicles : Given(v, DefaultVehicles[v])
    BY <1>t, DefaultVehiclesAre, DefaultsGiven DEF GoodConfigs, Of
  <1>6. /\ made \in [cfg : VehicleConfigs, faults : SUBSET Vehicles]
        /\ made.cfg = Offline /\ made.faults = {}
    BY <1>4
  <1> HIDE DEF made, healed
  <1>7. CriteriaTyped'
    BY <1>1, <1>2, <1>5, <1>6, <1>t DEF CriteriaTyped
  <1>8. PlacesGiven'
    <2> SUFFICES ASSUME NEW v \in Vehicles PROVE GivenOf(v)'
      BY DEF PlacesGiven
    <2>1. GivenOf(v)
      BY <1>t DEF PlacesGiven
    <2>2. goodVehicles' # None => Given(v, goodVehicles.vehicles[v])'
      BY <2>1, <1>1, <1>5 DEF GivenOf, Given
    <2>3. Sound(v, scored.cfg[v], scored.faults)'
      BY <2>1, <1>1, <1>4, <1>6 DEF GivenOf, Sound, Given
    <2> QED BY <2>1, <2>2, <2>3, <1>1, <1>2 DEF GivenOf, RowGiven, Sound, Given, ChangeBegun
  <1>9. ConfirmedStand'
    <2> SUFFICES ASSUME NEW v \in Vehicles, vehicleAnswered'[v] # None PROVE ConfirmedStays(v)'
      BY DEF ConfirmedStand, ConfirmedStays
    <2>1. ~healed /\ vehicleAnswered' = vehicleAnswered /\ goodVehicles' = goodVehicles
      BY <1>1
    <2>2. ConfirmedStays(v) /\ vehicleAnswered[v] # None
      BY <2>1, <1>t DEF ConfirmedStand
    <2>3. CASE scored' = scored
      BY <2>1, <2>2, <2>3, <1>1, <1>2 DEF ConfirmedStays, ChangeBegun, Prior
    <2>4. CASE scored' = made
      <3>1. scored'.cfg[v] # NoVehicle /\ scored'.cfg[v].active = vehicleAnswered[v]
            /\ scored'.faults = {}
        BY <2>1, <2>2, <2>4, <1>4, <1>6 DEF ConfirmedStays, Says
      <3> QED BY <2>1, <2>2, <3>1, <1>1, <1>2 DEF ConfirmedStays, ChangeBegun, Prior
    <2> QED BY <2>3, <2>4, <1>1
  <1>10. ChangeStands'
    BY <1>1, <1>2, <1>3, <1>t DEF ChangeStands, ChangeBegun
  <1> QED BY <1>7, <1>8, <1>9, <1>10 DEF CriteriaInv

LEMMA ReseedKeeps == ASSUME CriteriaInv, Reseed PROVE CriteriaInv'
  <1>t. CriteriaTyped /\ PlacesGiven /\ ConfirmedStand /\ ChangeStands
    BY DEF CriteriaInv
  <1> DEFINE lines == SeedTab(DefaultVehicles, Empty)
  <1>1. /\ UNCHANGED <<configured, scored, criteriaOp, stated>>
        /\ load.kind = "reseed" /\ load' = NoCriteriaWork
    BY DEF Reseed
  <1>2. load' \in WorkLoads /\ ~RawInHand'
    BY <1>1 DEF WorkLoads, RawInHand, NoCriteriaWork
  <1>3. ChangeBegun => ~criteriaOp.alone
    BY <1>1, <1>t DEF ChangeStands, NoCriteriaWork
  <1>4. ChangeStands'
    BY <1>1, <1>2, <1>3, <1>t DEF ChangeStands, ChangeBegun
  <1>5. CASE UNCHANGED <<criteriaTab, goodVehicles, vehicleAnswered>>
    <2>1. CriteriaTyped'
      BY <1>1, <1>2, <1>5, <1>t DEF CriteriaTyped
    <2>2. PlacesGiven'
      BY <1>1, <1>2, <1>5, <1>t DEF PlacesGiven, GivenOf, Given, RowGiven, ChangeBegun
    <2>3. ConfirmedStand'
      BY <1>1, <1>2, <1>5, <1>t DEF ConfirmedStand, ConfirmedStays, Prior, ChangeBegun
    <2> QED BY <2>1, <2>2, <2>3, <1>4 DEF CriteriaInv
  <1>6. CASE /\ goodVehicles' = Of(DefaultVehicles)
             /\ vehicleAnswered' = [v \in Vehicles |-> None]
             /\ \/ criteriaTab' = [criteriaTab EXCEPT !.head = "good", !.rows = lines]
                \/ criteriaTab' = criteriaTab
    <2>1. /\ lines \in [Vehicles -> CriteriaRows \cup {NoVehicle}]
          /\ \A v \in Vehicles : lines[v] = NoVehicle \/ lines[v].places = Places
      BY EmptyIs, SeedTabIs
    <2> HIDE DEF lines
    <2>2. /\ criteriaTab' \in CriteriaTabs
          /\ criteriaTab'.rows = lines \/ criteriaTab'.rows = criteriaTab.rows
      <3>1. criteriaTab \in CriteriaTabs
        BY <1>t DEF CriteriaTyped
      <3>2. [criteriaTab EXCEPT !.head = "good", !.rows = lines] \in CriteriaTabs
            /\ [criteriaTab EXCEPT !.head = "good", !.rows = lines].rows = lines
        BY <2>1, <3>1 DEF CriteriaTabs
      <3> QED BY <1>6, <3>1, <3>2
    <2>3. /\ Of(DefaultVehicles) \in GoodConfigs /\ Of(DefaultVehicles).vehicles = DefaultVehicles
          /\ \A v \in Vehicles : Given(v, DefaultVehicles[v])
      BY <1>t, DefaultVehiclesAre, DefaultsGiven DEF GoodConfigs, Of
    <2>4. CriteriaTyped'
      BY <1>1, <1>2, <1>6, <2>2, <2>3, <1>t DEF CriteriaTyped
    <2>5. PlacesGiven'
      <3> SUFFICES ASSUME NEW v \in Vehicles PROVE GivenOf(v)'
        BY DEF PlacesGiven
      <3>1. GivenOf(v)
        BY <1>t DEF PlacesGiven
      <3>2. RowGiven(v, criteriaTab.rows[v])'
        BY <3>1, <2>1, <2>2, <1>1 DEF GivenOf, RowGiven
      <3>3. Given(v, goodVehicles.vehicles[v])'
        BY <2>3, <1>1, <1>6 DEF Given
      <3> QED BY <3>1, <3>2, <3>3, <1>1, <1>2 DEF GivenOf, Given, ChangeBegun
    <2>6. ConfirmedStand'
      BY <1>6 DEF ConfirmedStand, ConfirmedStays
    <2> QED BY <2>4, <2>5, <2>6, <1>4 DEF CriteriaInv
  <1> QED BY <1>5, <1>6 DEF Reseed, Forget

------------------------------------------------------------------------------
(* Criteria: a change from the control room                                 *)

LEMMA CurrentCriteriaIs ==
    ASSUME CriteriaInv
    PROVE  /\ CurrentCriteria \in GoodConfigs
           /\ \A v \in Vehicles :
                 /\ CurrentCriteria.vehicles[v] \in Settings \cup {NoVehicle}
                 /\ Given(v, CurrentCriteria.vehicles[v])
                 /\ vehicleAnswered[v] # None =>
                       Says(CurrentCriteria.vehicles[v], vehicleAnswered[v])
  <1>t. CriteriaTyped /\ PlacesGiven /\ ConfirmedStand
    BY DEF CriteriaInv
  <1>1. CASE goodVehicles = None
    <2>1. /\ Of(DefaultVehicles) \in GoodConfigs /\ Of(DefaultVehicles).vehicles = DefaultVehicles
          /\ \A v \in Vehicles : /\ Given(v, DefaultVehicles[v])
                                 /\ DefaultVehicles[v] \in Settings \cup {NoVehicle}
      BY <1>t, DefaultVehiclesAre, DefaultsGiven DEF GoodConfigs, VehicleConfigs, Of
    <2> QED BY <1>1, <2>1, <1>t DEF CurrentCriteria, ConfirmedStand, ConfirmedStays
  <1>2. CASE goodVehicles # None
    BY <1>2, <1>t DEF CurrentCriteria, CriteriaTyped, GoodConfigs, VehicleConfigs, PlacesGiven,
       GivenOf, ConfirmedStand, ConfirmedStays
  <1> QED BY <1>1, <1>2

\* A change starts from what stands, with a row to write for every vehicle it alters.
LEMMA BeginCriteriaKeeps ==
    ASSUME CriteriaInv, NEW next \in VehicleConfigs, BeginCriteria(next),
           \A v \in Altered(CurrentCriteria, next) : next[v] # NoVehicle
    PROVE  CriteriaInv'
  <1>t. CriteriaTyped /\ PlacesGiven /\ ConfirmedStand /\ ChangeStands
    BY DEF CriteriaInv
  <1> DEFINE base == CurrentCriteria
             altered == Altered(base, next)
             todo == IF configured THEN SetToSeq(altered) ELSE <<>>
  <1>1. /\ UNCHANGED <<configured, criteriaTab, goodVehicles, scored, load, vehicleAnswered>>
        /\ criteriaOp' = [kind |-> "write", base |-> base, next |-> next, found |-> TRUE,
                          alone |-> load = NoCriteriaWork, todo |-> todo]
        /\ stated' = [v \in Vehicles |-> stated[v] \cup {next[w].places : w \in altered \cap {v}}]
    BY DEF BeginCriteria
  <1>2. /\ base \in GoodConfigs
        /\ \A v \in Vehicles :
              /\ base.vehicles[v] \in Settings \cup {NoVehicle}
              /\ Given(v, base.vehicles[v])
              /\ vehicleAnswered[v] # None => Says(base.vehicles[v], vehicleAnswered[v])
    BY CurrentCriteriaIs
  <1>3. altered \subseteq Vehicles /\ IsFiniteSet(altered)
    BY FS_Subset, CriteriaAssumption DEF Altered
  <1>4. /\ SetToSeq(altered) \in Seq(altered)
        /\ \A x \in altered : \E i \in 1..Len(SetToSeq(altered)) : SetToSeq(altered)[i] = x
    BY <1>3, InSomeOrder
  <1>a. \A v \in Vehicles : v \in altered <=> next[v] # base.vehicles[v]
    BY DEF Altered
  <1> HIDE DEF base, altered
  <1>5. /\ todo \in Seq(Vehicles)
        /\ \A i \in 1..Len(todo) : todo[i] \in altered
        /\ configured => \A x \in altered : \E i \in 1..Len(todo) : todo[i] = x
    BY <1>3, <1>4
  <1> HIDE DEF todo
  <1>6. /\ criteriaOp' \in CriteriaChanges /\ criteriaOp'.kind = "write"
        /\ criteriaOp'.base = base /\ criteriaOp'.next = next /\ criteriaOp'.todo = todo
        /\ criteriaOp'.alone = (load = NoCriteriaWork)
    BY <1>1, <1>2, <1>5 DEF CriteriaChanges
  <1>7. \A v \in altered : next[v] \in Settings /\ next[v].places \in SUBSET Places
    BY <1>3, <1>a DEF base, altered, VehicleConfigs, Settings
  <1>8. /\ stated' \in [Vehicles -> SUBSET (SUBSET Places)]
        /\ \A v \in Vehicles : stated[v] \subseteq stated'[v]
        /\ \A v \in altered : next[v].places \in stated'[v]
    BY <1>1, <1>3, <1>7, <1>t DEF CriteriaTyped
  <1>9. CriteriaTyped'
    BY <1>1, <1>6, <1>8, <1>t DEF CriteriaTyped
  <1>10. PlacesGiven'
    <2> SUFFICES ASSUME NEW v \in Vehicles PROVE GivenOf(v)'
      BY DEF PlacesGiven
    <2>1. GivenOf(v)
      BY <1>t DEF PlacesGiven
    <2>2. Given(v, criteriaOp.base.vehicles[v])'
      BY <1>2, <1>6, <1>8 DEF Given
    <2>3. criteriaOp'.next[v] # criteriaOp'.base.vehicles[v] =>
             criteriaOp'.next[v] # NoVehicle /\ criteriaOp'.next[v].places \in stated'[v]
      BY <1>6, <1>8, <1>a DEF altered, base
    <2> QED BY <2>1, <2>2, <2>3, <1>1, <1>8 DEF GivenOf, Given, RowGiven, RawInHand
  <1>11. ConfirmedStand'
    <2> SUFFICES ASSUME NEW v \in Vehicles, vehicleAnswered'[v] # None PROVE ConfirmedStays(v)'
      BY DEF ConfirmedStand, ConfirmedStays
    <2>1. ConfirmedStays(v) /\ vehicleAnswered'[v] = vehicleAnswered[v]
      BY <1>1, <1>t DEF ConfirmedStand
    <2> QED BY <2>1, <1>1, <1>2, <1>6 DEF ConfirmedStays, Prior, RawInHand
  <1>12. ChangeStands'
    <2>1. configured => \A v \in altered : Waits(v)'
      BY <1>5, <1>6 DEF Waits
    <2>2. Altered(criteriaOp.base, criteriaOp.next)' = altered
      BY <1>6 DEF Altered, altered
    <2> QED BY <2>1, <2>2, <1>1, <1>5, <1>6, <1>t DEF ChangeStands, RawInHand
  <1> QED BY <1>9, <1>10, <1>11, <1>12 DEF CriteriaInv
LEMMA AddFundRowKeeps == ASSUME CriteriaInv, AddFundRow PROVE CriteriaInv'
  <1> DEFINE base == CurrentCriteria
             s == [active |-> TRUE, rule |-> "HARD", places |-> Places]
             next == [base.vehicles EXCEPT ![AddedVehicle] = s]
  <1>1. BeginCriteria(next)
    BY DEF AddFundRow
  <1>2. base \in GoodConfigs
    BY CurrentCriteriaIs
  <1>3. s \in Settings /\ s # NoVehicle
    <2>1. s \in Settings
      BY DEF Settings, Rules
    <2> QED BY <2>1, CriteriaAssumption
  <1> HIDE DEF s, base
  <1>4. next \in VehicleConfigs
    BY <1>2, <1>3 DEF GoodConfigs, VehicleConfigs
  <1>5. \A v \in Altered(base, next) : next[v] # NoVehicle
    BY <1>2, <1>3 DEF GoodConfigs, VehicleConfigs, Altered
  <1> HIDE DEF next
  <1> QED BY <1>1, <1>4, <1>5, BeginCriteriaKeeps DEF base

LEMMA SetFundPausedKeeps ==
    ASSUME CriteriaInv, NEW paused \in BOOLEAN, SetFundPaused(paused)
    PROVE  CriteriaInv'
  <1> DEFINE base == CurrentCriteria
             next == [v \in Vehicles |->
                         IF v \in ShippedVehicles \cap PresentVehicles(base)
                         THEN [base.vehicles[v] EXCEPT !.active = ~paused]
                         ELSE base.vehicles[v]]
  <1>1. BeginCriteria(next)
    BY DEF SetFundPaused
  <1>2. base \in GoodConfigs /\ \A v \in Vehicles : base.vehicles[v] \in Settings \cup {NoVehicle}
    BY CurrentCriteriaIs
  <1> HIDE DEF base
  <1>3. ASSUME NEW v \in Vehicles
        PROVE  /\ next[v] \in Settings \cup {NoVehicle}
               /\ next[v] # base.vehicles[v] => next[v] # NoVehicle
    <2>1. CASE v \in ShippedVehicles \cap PresentVehicles(base)
      <3>1. base.vehicles[v] \in Settings
        BY <2>1, <1>2 DEF PresentVehicles
      <3>2. [base.vehicles[v] EXCEPT !.active = ~paused] \in Settings
        BY <3>1 DEF Settings
      <3> QED BY <2>1, <3>2, CriteriaAssumption
    <2>2. CASE v \notin ShippedVehicles \cap PresentVehicles(base)
      BY <2>2, <1>2
    <2> QED BY <2>1, <2>2
  <1>4. next \in VehicleConfigs
    <2>1. next = [v \in Vehicles |-> next[v]]
      OBVIOUS
    <2> HIDE DEF next
    <2> QED BY <2>1, <1>3 DEF VehicleConfigs
  <1>5. \A v \in Altered(base, next) : next[v] # NoVehicle
    BY <1>3 DEF Altered
  <1> HIDE DEF next
  <1> QED BY <1>1, <1>4, <1>5, BeginCriteriaKeeps DEF base

LEMMA ApplyVehicleKeeps ==
    ASSUME CriteriaInv, NEW v \in Vehicles, ApplyVehicle(v)
    PROVE  CriteriaInv'
  <1> DEFINE base == CurrentCriteria
  <1>1. PICK s \in [active : BOOLEAN, rule : Rules, places : Cells \cup {base.vehicles[v].places}] :
           Accepted(s) /\ BeginCriteria([base.vehicles EXCEPT ![v] = s])
    BY DEF ApplyVehicle
  <1> DEFINE next == [base.vehicles EXCEPT ![v] = s]
  <1>2. base \in GoodConfigs
    BY CurrentCriteriaIs
  <1>3. s \in Settings /\ s # NoVehicle
    BY <1>1, CriteriaAssumption DEF Settings, Accepted
  <1> HIDE DEF base
  <1>4. next \in VehicleConfigs
    BY <1>2, <1>3 DEF GoodConfigs, VehicleConfigs
  <1>5. \A u \in Altered(base, next) : next[u] # NoVehicle
    BY <1>2, <1>3 DEF GoodConfigs, VehicleConfigs, Altered
  <1>6. BeginCriteria(next)
    BY <1>1
  <1> HIDE DEF next
  <1> QED BY <1>4, <1>5, <1>6, BeginCriteriaKeeps DEF base

\* The row a change leaves: places given whole, and the switch it is about.
LEMMA WrittenRowIs ==
    ASSUME CriteriaInv, ChangeBegun, NEW v \in Altered(criteriaOp.base, criteriaOp.next),
           NEW rows, rows = CASE IsNew(v) -> [criteriaTab.rows EXCEPT ![v] =
                                                 SeedCriteriaRow(criteriaOp.next[v])]
                              [] ~IsNew(v) /\ FoundRow(v) -> Rewritten(v, criteriaOp.next[v])
                              [] OTHER -> criteriaTab.rows
    PROVE  /\ rows \in [Vehicles -> CriteriaRows \cup {NoVehicle}]
           /\ RowGiven(v, rows[v])
           /\ \A u \in Vehicles \ {v} : rows[u] = criteriaTab.rows[u]
           /\ Switched(v) /\ (IsNew(v) \/ FoundRow(v)) => RowSays(rows[v], criteriaOp.next[v].active)
  <1> DEFINE s == criteriaOp.next[v]
             b == criteriaOp.base.vehicles[v]
             row == criteriaTab.rows[v]
  <1>1. /\ criteriaTab.rows \in [Vehicles -> CriteriaRows \cup {NoVehicle}]
        /\ criteriaOp \in CriteriaChanges /\ v \in Vehicles /\ s # b
        /\ b \in Settings \cup {NoVehicle}
    BY DEF CriteriaInv, CriteriaTyped, CriteriaTabs, CriteriaChanges, ChangeBegun, NoCriteriaWork,
           Altered, GoodConfigs, VehicleConfigs
  <1>2. s # NoVehicle /\ s.places \in stated[v] /\ RowGiven(v, row)
    BY <1>1 DEF CriteriaInv, PlacesGiven, GivenOf, ChangeBegun
  <1>3. s \in Settings
    BY <1>1, <1>2 DEF CriteriaChanges, VehicleConfigs
  <1>4. /\ SeedCriteriaRow(s) \in CriteriaRows /\ SeedCriteriaRow(s) # NoVehicle
        /\ SeedCriteriaRow(s).places = s.places
        /\ (SeedCriteriaRow(s).active # "FALSE") = s.active
    BY <1>3, SeedRowIs
  <1>5. CASE IsNew(v)
    <2>1. rows = [criteriaTab.rows EXCEPT ![v] = SeedCriteriaRow(s)]
      BY <1>5
    <2> HIDE DEF s
    <2> QED BY <2>1, <1>1, <1>2, <1>4 DEF RowGiven, RowSays, s
  <1>6. CASE ~IsNew(v) /\ FoundRow(v)
    <2> DEFINE new == [name |-> row.name,
                       active |-> IF s.active = b.active THEN row.active ELSE SeedCriteriaRow(s).active,
                       rule |-> IF s.rule = b.rule THEN row.rule ELSE s.rule,
                       places |-> IF s.places = b.places THEN row.places ELSE s.places]
    <2>1. rows = [criteriaTab.rows EXCEPT ![v] = new]
      BY <1>6 DEF Rewritten
    <2>2. row \in CriteriaRows
      BY <1>1, <1>6 DEF FoundRow
    <2>3. s.active \in BOOLEAN /\ s.rule \in Rules /\ s.places \in SUBSET (Places \cup {Typo})
          /\ SeedCriteriaRow(s).active \in {"TRUE", "FALSE", "?"}
      BY <1>3, <1>4 DEF Settings, CriteriaRows
    <2>4. /\ row.name \in RowNames /\ row.active \in {"TRUE", "FALSE", "?"} /\ row.rule \in Rules
          /\ row.places \in SUBSET (Places \cup {Typo})
      BY <2>2 DEF CriteriaRows
    <2>5. new \in CriteriaRows /\ new # NoVehicle
      <3>1. new \in CriteriaRows
        BY <2>3, <2>4 DEF CriteriaRows
      <3> QED BY <3>1, CriteriaAssumption
    <2>6. /\ new.active = IF s.active = b.active THEN row.active ELSE SeedCriteriaRow(s).active
          /\ new.places = IF s.places = b.places THEN row.places ELSE s.places
      OBVIOUS
    <2>7. Switched(v) => s.active # b.active
      BY <1>6 DEF Switched
    <2> HIDE DEF new
    <2>8. /\ rows \in [Vehicles -> CriteriaRows \cup {NoVehicle}] /\ rows[v] = new
          /\ \A u \in Vehicles \ {v} : rows[u] = criteriaTab.rows[u]
      BY <2>1, <2>5, <1>1
    <2>9. RowGiven(v, new)
      BY <2>2, <2>6, <1>2, CriteriaAssumption DEF RowGiven
    <2>10. Switched(v) => RowSays(new, s.active)
      BY <2>5, <2>6, <2>7, <1>4 DEF RowSays
    <2> QED BY <2>8, <2>9, <2>10
  <1>7. CASE ~IsNew(v) /\ ~FoundRow(v)
    BY <1>1, <1>2, <1>7
  <1> QED BY <1>5, <1>6, <1>7

LEMMA WriteRowKeeps == ASSUME CriteriaInv, WriteRow PROVE CriteriaInv'
  <1>t. CriteriaTyped /\ PlacesGiven /\ ConfirmedStand /\ ChangeStands
    BY DEF CriteriaInv
  <1> DEFINE op == criteriaOp  todo == op.todo  v == Head(todo)
             rows == CASE IsNew(v) -> [criteriaTab.rows EXCEPT ![v] = SeedCriteriaRow(op.next[v])]
                       [] ~IsNew(v) /\ FoundRow(v) -> Rewritten(v, op.next[v])
                       [] OTHER -> criteriaTab.rows
  <1>1. /\ ChangeBegun /\ todo # <<>>
        /\ criteriaTab' = [criteriaTab EXCEPT !.rows = rows]
        /\ criteriaOp' = [op EXCEPT !.todo = Tail(todo),
                                    !.found = op.found /\ (IsNew(v) \/ FoundRow(v))]
        /\ vehicleAnswered' = [vehicleAnswered EXCEPT ![v] = None]
        /\ UNCHANGED <<configured, goodVehicles, scored, load, stated>>
    BY DEF WriteRow, ChangeBegun
  <1>2. op \in CriteriaChanges /\ todo \in Seq(Vehicles) /\ op.found \in BOOLEAN
    BY <1>1, <1>t DEF CriteriaTyped, CriteriaChanges, ChangeBegun, NoCriteriaWork
  <1>3. /\ v = todo[1] /\ v \in Vehicles /\ Tail(todo) \in Seq(Vehicles)
        /\ Len(todo) \in Nat /\ Len(todo) >= 1 /\ Len(Tail(todo)) = Len(todo) - 1
        /\ \A i \in 1..Len(Tail(todo)) : Tail(todo)[i] = todo[i + 1]
    BY <1>1, <1>2
  <1>4. v \in Altered(op.base, op.next)
    BY <1>1, <1>3, <1>t DEF ChangeStands
  <1>5. /\ rows \in [Vehicles -> CriteriaRows \cup {NoVehicle}]
        /\ RowGiven(v, rows[v])
        /\ \A u \in Vehicles \ {v} : rows[u] = criteriaTab.rows[u]
        /\ Switched(v) /\ (IsNew(v) \/ FoundRow(v)) => RowSays(rows[v], op.next[v].active)
    <2>1. /\ rows = rows
      OBVIOUS
    <2> QED BY <2>1, <1>1, <1>4, WrittenRowIs
  <1> DEFINE tail == Tail(todo)  found == op.found /\ (IsNew(v) \/ FoundRow(v))
  <1>6. criteriaOp' = [op EXCEPT !.todo = tail, !.found = found]
    BY <1>1
  <1>7. /\ found => op.found /\ (IsNew(v) \/ FoundRow(v))
        /\ found \in BOOLEAN
    BY <1>2
  <1> HIDE DEF rows, found
  <1>8. /\ criteriaTab' \in CriteriaTabs /\ criteriaTab'.rows = rows
    BY <1>1, <1>5, <1>t DEF CriteriaTyped, CriteriaTabs
  <1>9. /\ criteriaOp' \in CriteriaChanges /\ criteriaOp'.kind = "write"
        /\ criteriaOp'.base = op.base /\ criteriaOp'.next = op.next
        /\ criteriaOp'.alone = op.alone /\ criteriaOp'.todo = tail /\ criteriaOp'.found = found
    BY <1>2, <1>3, <1>6, <1>7, <1>1 DEF CriteriaChanges, ChangeBegun
  <1>10. /\ vehicleAnswered' \in [Vehicles -> BOOLEAN \cup {None}]
         /\ vehicleAnswered'[v] = None
         /\ \A u \in Vehicles \ {v} : vehicleAnswered'[u] = vehicleAnswered[u]
    BY <1>1, <1>3, <1>t DEF CriteriaTyped
  <1>11. CriteriaTyped'
    BY <1>1, <1>8, <1>9, <1>10, <1>t DEF CriteriaTyped
  <1>12. PlacesGiven'
    <2> SUFFICES ASSUME NEW u \in Vehicles PROVE GivenOf(u)'
      BY DEF PlacesGiven
    <2>1. GivenOf(u)
      BY <1>t DEF PlacesGiven
    <2>2. RowGiven(u, criteriaTab.rows[u])'
      BY <2>1, <1>1, <1>5, <1>8 DEF GivenOf, RowGiven
    <2> QED BY <2>1, <2>2, <1>1, <1>9 DEF GivenOf, Given, RowGiven, RawInHand, ChangeBegun
  <1>13. ConfirmedStand'
    <2> SUFFICES ASSUME NEW u \in Vehicles, vehicleAnswered'[u] # None PROVE ConfirmedStays(u)'
      BY DEF ConfirmedStand, ConfirmedStays
    <2>1. u # v /\ vehicleAnswered'[u] = vehicleAnswered[u] /\ criteriaTab'.rows[u] = criteriaTab.rows[u]
      BY <1>5, <1>8, <1>10
    <2>2. ConfirmedStays(u)
      BY <1>t DEF ConfirmedStand
    <2> QED BY <2>1, <2>2, <1>1, <1>9 DEF ConfirmedStays, Prior, RawInHand, ChangeBegun
  <1>14. ChangeStands'
    <2>1. Altered(criteriaOp.base, criteriaOp.next)' = Altered(op.base, op.next)
      BY <1>9 DEF Altered
    <2>2. \A i \in 1..Len(tail) : i + 1 \in 1..Len(todo) /\ tail[i] = todo[i + 1]
      BY <1>3
    <2>3. \A u : Waits(u) => u = v \/ Waits(u)'
      <3> SUFFICES ASSUME NEW u, Waits(u), u # v PROVE Waits(u)'
        OBVIOUS
      <3>1. PICK i \in 1..Len(todo) : todo[i] = u
        BY DEF Waits
      <3>2. i # 1 /\ i - 1 \in 1..Len(tail) /\ tail[i - 1] = todo[(i - 1) + 1] /\ (i - 1) + 1 = i
        BY <3>1, <1>3
      <3> QED BY <3>1, <3>2, <1>9 DEF Waits
    <2>4. \A u : Switched(u)' <=> Switched(u)
      BY <1>9 DEF Switched, IsNew
    <2>5. \A i \in 1..Len(tail) : tail[i] \in Altered(op.base, op.next)
      BY <2>2, <1>1, <1>t DEF ChangeStands
    <2>6. ASSUME op.alone, found, configured, NEW u \in Altered(op.base, op.next),
                 Switched(u), ~Waits(u)'
          PROVE  RowSays(rows[u], op.next[u].active)
      <3>1. CASE u = v
        BY <3>1, <2>6, <1>5, <1>7
      <3>2. CASE u # v
        <4>1. RowSays(criteriaTab.rows[u], op.next[u].active)
          BY <3>2, <2>3, <2>6, <1>1, <1>7, <1>t DEF ChangeStands
        <4> QED BY <3>2, <4>1, <1>5 DEF Altered
      <3> QED BY <3>1, <3>2
    <2>7. (RawInHand => configured)'
      BY <1>1, <1>t DEF ChangeStands, RawInHand
    <2>8. op.alone => load = NoCriteriaWork
      BY <1>1, <1>t DEF ChangeStands
    <2> HIDE DEF tail
    <2> QED BY <2>1, <2>4, <2>5, <2>6, <2>7, <2>8, <1>1, <1>8, <1>9
          DEF ChangeStands, RowSays
  <1> QED BY <1>11, <1>12, <1>13, <1>14 DEF CriteriaInv

LEMMA CriteriaFailKeeps == ASSUME CriteriaInv, CriteriaFail PROVE CriteriaInv'
  <1>t. CriteriaTyped /\ PlacesGiven /\ ConfirmedStand /\ ChangeStands
    BY DEF CriteriaInv
  <1>1. /\ criteriaOp' = NoCriteriaWork
        /\ UNCHANGED <<configured, criteriaTab, goodVehicles, scored, load, stated, vehicleAnswered>>
    BY DEF CriteriaFail
  <1>2. ~ChangeBegun'
    BY <1>1 DEF ChangeBegun, NoCriteriaWork
  <1>3. CriteriaTyped'
    BY <1>1, <1>t DEF CriteriaTyped
  <1>4. PlacesGiven'
    BY <1>1, <1>2, <1>t DEF PlacesGiven, GivenOf, Given, RowGiven, RawInHand
  <1>5. ConfirmedStand'
    BY <1>1, <1>2, <1>t DEF ConfirmedStand, ConfirmedStays, Prior, RawInHand
  <1>6. ChangeStands'
    BY <1>1, <1>2, <1>t DEF ChangeStands, RawInHand
  <1> QED BY <1>3, <1>4, <1>5, <1>6 DEF CriteriaInv

\* What is saved, scored and confirmed is the change asked for.
LEMMA CommitCriteriaKeeps == ASSUME CriteriaInv, CommitCriteria PROVE CriteriaInv'
  <1>t. CriteriaTyped /\ PlacesGiven /\ ConfirmedStand /\ ChangeStands
    BY DEF CriteriaInv
  <1> DEFINE base == criteriaOp.base  next == criteriaOp.next
             altered == Altered(base, next)
             made == [cfg |-> next, faults |-> {}]
             whole == [base EXCEPT !.vehicles = next]
             kept(v) == criteriaOp.found /\ criteriaOp.alone /\ Switched(v)
  <1>1. /\ ChangeBegun /\ criteriaOp.todo = <<>>
        /\ goodVehicles' = whole
        /\ scored' = made
        /\ criteriaOp' = NoCriteriaWork
        /\ UNCHANGED <<configured, criteriaTab, load, stated>>
    BY DEF CommitCriteria, ChangeBegun
  <1>2. criteriaOp \in CriteriaChanges /\ base \in GoodConfigs /\ next \in VehicleConfigs
    BY <1>1, <1>t DEF CriteriaTyped, CriteriaChanges, ChangeBegun, NoCriteriaWork
  <1>3. \A v \in Vehicles : v \in altered <=> next[v] # base.vehicles[v]
    BY DEF Altered
  <1>4. \A v \in altered : v \in Vehicles /\ next[v] # NoVehicle /\ next[v].places \in stated[v]
                           /\ next[v].active \in BOOLEAN
    BY <1>1, <1>2, <1>t DEF PlacesGiven, GivenOf, Altered, VehicleConfigs, Settings
  <1>5. /\ whole \in GoodConfigs /\ whole # None /\ whole.vehicles = next
        /\ made \in [cfg : VehicleConfigs, faults : SUBSET Vehicles]
        /\ made.cfg = next /\ made.faults = {}
    BY <1>2, CriteriaAssumption DEF GoodConfigs
  <1>6. ~ChangeBegun'
    BY <1>1 DEF ChangeBegun, NoCriteriaWork
  <1>7. vehicleAnswered' = [v \in Vehicles |-> IF v \notin altered THEN vehicleAnswered[v]
                              ELSE IF kept(v) THEN next[v].active ELSE None]
    BY DEF CommitCriteria
  <1>8. \A v \in Vehicles :
           /\ v \notin altered => vehicleAnswered'[v] = vehicleAnswered[v]
           /\ v \in altered /\ kept(v) => vehicleAnswered'[v] = next[v].active
           /\ v \in altered /\ ~kept(v) => vehicleAnswered'[v] = None
    BY <1>7
  <1>9. vehicleAnswered' \in [Vehicles -> BOOLEAN \cup {None}]
    <2>1. \A v \in Vehicles : vehicleAnswered[v] \in BOOLEAN \cup {None}
      BY <1>t DEF CriteriaTyped
    <2> HIDE DEF kept, next, altered
    <2> QED BY <2>1, <1>4, <1>7
  <1>10. \A v \in altered : kept(v) /\ configured => RowSays(criteriaTab.rows[v], next[v].active)
    BY <1>1, <1>t DEF ChangeStands, Waits
  <1>11. \A v \in altered : kept(v) => load = NoCriteriaWork
    BY <1>1, <1>t DEF ChangeStands
  <1>12. /\ \A v \in Vehicles : Given(v, base.vehicles[v])
         /\ \A v \in Vehicles : vehicleAnswered[v] # None =>
               ConfirmedStays(v) /\ Says(base.vehicles[v], vehicleAnswered[v])
    BY <1>1, <1>t DEF PlacesGiven, GivenOf, ConfirmedStand, ConfirmedStays
  <1> HIDE DEF made, whole, kept, altered
  <1>13. CriteriaTyped'
    BY <1>1, <1>5, <1>9, <1>t DEF CriteriaTyped
  <1> HIDE DEF base, next
  <1>14. PlacesGiven'
    <2> SUFFICES ASSUME NEW v \in Vehicles PROVE GivenOf(v)'
      BY DEF PlacesGiven
    <2>1. GivenOf(v)
      BY <1>t DEF PlacesGiven
    <2>2. Given(v, next[v])
      BY <1>3, <1>4, <1>12 DEF Given
    <2> QED BY <2>1, <2>2, <1>1, <1>5, <1>6 DEF GivenOf, Given, RowGiven, RawInHand
  <1>15. ConfirmedStand'
    <2> SUFFICES ASSUME NEW v \in Vehicles, vehicleAnswered'[v] # None PROVE ConfirmedStays(v)'
      BY DEF ConfirmedStand, ConfirmedStays
    <2>1. CASE v \notin altered
      BY <2>1, <1>1, <1>3, <1>5, <1>6, <1>8, <1>12 DEF ConfirmedStays, Says, RawInHand
    <2>2. CASE v \in altered
      <3>1. kept(v) /\ vehicleAnswered'[v] = next[v].active /\ next[v] # NoVehicle
        BY <2>2, <1>4, <1>8
      <3>2. ~RawInHand'
        BY <2>2, <3>1, <1>1, <1>11 DEF RawInHand, NoCriteriaWork
      <3>3. configured => RowSays(criteriaTab.rows[v], next[v].active)
        BY <2>2, <3>1, <1>10
      <3> QED BY <3>1, <3>2, <3>3, <1>1, <1>5, <1>6 DEF ConfirmedStays, Says, RowSays
    <2> QED BY <2>1, <2>2
  <1>16. ChangeStands'
    BY <1>1, <1>6, <1>t DEF ChangeStands, RawInHand
  <1> QED BY <1>13, <1>14, <1>15, <1>16 DEF CriteriaInv

------------------------------------------------------------------------------
LEMMA CriteriaKeep == CriteriaInv /\ [CriteriaNext]_criteriaVars => CriteriaInv'
  <1> SUFFICES ASSUME CriteriaInv, [CriteriaNext]_criteriaVars PROVE CriteriaInv'
    OBVIOUS
  <1>1. CASE \E v \in Edited : EditRow(v)
    BY <1>1, EditRowKeeps, CriteriaAssumption
  <1>2. CASE EditTab
    BY <1>2, EditTabKeeps
  <1>3. CASE EraseTab
    BY <1>3, EraseTabKeeps
  <1>4. CASE \E kind \in {"run", "sync", "repair"} : LoadRead(kind)
    BY <1>4, LoadReadKeeps
  <1>5. CASE LoadFinish
    BY <1>5, LoadFinishKeeps
  <1>6. CASE LoadOffline
    BY <1>6, LoadOfflineKeeps
  <1>7. CASE Reseed
    BY <1>7, ReseedKeeps
  <1>8. CASE \E v \in Vehicles : ApplyVehicle(v)
    BY <1>8, ApplyVehicleKeeps
  <1>9. CASE \E paused \in BOOLEAN : SetFundPaused(paused)
    BY <1>9, SetFundPausedKeeps
  <1>10. CASE AddFundRow
    BY <1>10, AddFundRowKeeps
  <1>11. CASE WriteRow
    BY <1>11, WriteRowKeeps
  <1>12. CASE CriteriaFail
    BY <1>12, CriteriaFailKeeps
  <1>13. CASE CommitCriteria
    BY <1>13, CommitCriteriaKeeps
  <1>14. CASE UNCHANGED criteriaVars
    <2>1. UNCHANGED <<configured, criteriaTab, goodVehicles, scored, load, criteriaOp,
                      stated, vehicleAnswered>>
      BY <1>14 DEF criteriaVars
    <2>2. CriteriaTyped'
      BY <2>1 DEF CriteriaInv, CriteriaTyped
    <2>3. PlacesGiven'
      BY <2>1 DEF CriteriaInv, PlacesGiven, GivenOf, Given, RowGiven, RawInHand, ChangeBegun
    <2>4. ConfirmedStand'
      BY <2>1 DEF CriteriaInv, ConfirmedStand, ConfirmedStays, Prior, RawInHand, ChangeBegun
    <2>5. ChangeStands'
      BY <2>1 DEF CriteriaInv, ChangeStands, RawInHand, ChangeBegun, Waits, Switched, IsNew, Altered
    <2> QED BY <2>2, <2>3, <2>4, <2>5 DEF CriteriaInv
  <1> QED BY <1>1, <1>2, <1>3, <1>4, <1>5, <1>6, <1>7, <1>8, <1>9, <1>10, <1>11, <1>12, <1>13,
             <1>14 DEF CriteriaNext

LEMMA CriteriaHold == CriteriaInv => GeographyWasStated /\ AnsweredIsScored
  <1> SUFFICES ASSUME CriteriaInv PROVE GeographyWasStated /\ AnsweredIsScored
    OBVIOUS
  <1>1. GeographyWasStated
    BY DEF CriteriaInv, PlacesGiven, GivenOf, Given, GeographyWasStated
  <1>2. AnsweredIsScored
    BY DEF CriteriaInv, ConfirmedStand, ConfirmedStays, AnsweredIsScored
  <1> QED BY <1>1, <1>2

\* The geography of the Fund Criteria tab, for any number of edits and changes: no
\* vehicle is scored under a HARD rule with places nobody gave it whole, and what the
\* control room confirmed (settings.py:842, set_fund_paused) is what is scored.
THEOREM CriteriaStand == CriteriaSpec => [](GeographyWasStated /\ AnsweredIsScored)
  <1>1. CriteriaInit => CriteriaInv
    BY CriteriaBegins
  <1>2. CriteriaInv /\ [CriteriaNext]_criteriaVars => CriteriaInv'
    BY CriteriaKeep
  <1>3. CriteriaInv => GeographyWasStated /\ AnsweredIsScored
    BY CriteriaHold
  <1> QED BY <1>1, <1>2, <1>3, PTL DEF CriteriaSpec
------------------------------------------------------------------------------
(* Generations                                                              *)

\* Which stage may come after which.
Follows(a, b) ==
    /\ a \in {"read", "reread"} => b = "parse"
    /\ a = "parse" => b = "insert"
    /\ a = "insert" => b = "demote"
    /\ a = "demote" => b \in {"score", "bulk", "reread", "gate"}
    /\ a = "score" => b = "reread"
    /\ a = "bulk" => b = "regate"
    /\ a = "current" => b \in {"write", "bulk"}
    /\ a = "write" => b = "insert"
    /\ a \in {"gate", "regate"} => b \in {"read", "ping"}
    /\ a # "ping"

\* What is left of an operation: one stage after the other to a last one, with room for
\* the rescore that a gate may put in.
WellPlanned(todo) ==
    /\ todo \in Seq(Stages) /\ Len(todo) \in 1..MaxStages
    /\ \A i \in 1..Len(todo) : i # Len(todo) => Follows(todo[i], todo[i + 1])
    /\ todo[Len(todo)] \in {"demote", "bulk", "ping"}
    /\ \A i \in 1..Len(todo) : todo[i] = "gate" => Len(todo) - i <= 10

\* A change from the control room, from its last stage back.
ChangeStages == <<"bulk", "demote", "insert", "write", "current">>
OfChange(todo) ==
    Len(todo) <= 5 /\ \A i \in 1..Len(todo) : todo[i] = ChangeStages[1 + (Len(todo) - i)]
NotOfChange(todo) == \A i \in 1..Len(todo) : todo[i] # "write"

Planned(j) ==
    /\ WellPlanned(j.todo)
    /\ IF j.kind = "admin" THEN OfChange(j.todo) ELSE NotOfChange(j.todo)

Honoured(cfg) == \A x \in Fields : saved[x] \in Values => cfg[x] = saved[x]

\* What an operation holds at each of its stages, if it is the only one.
Holds(p) ==
    /\ At(p, "parse") => Honoured(job[p].raw)
    /\ At(p, "write") =>
          \A x \in Fields \ {job[p].field} : saved[x] \in Values => job[p].cfg[x] = saved[x]
    /\ At(p, "insert") \/ At(p, "demote") => Honoured(job[p].cfg)
    /\ At(p, "demote") => job[p].cfg \in good
    /\ At(p, "ping") => ~Drift
    /\ job[p] # Idle => (job[p].kind = "admin" =>
          /\ ~At(p, "current") => job[p].cfg[job[p].field] = job[p].value
          /\ ~At(p, "current") /\ ~At(p, "write") =>
                /\ saved[job[p].field] \in {None, Bad}
                /\ saved[job[p].field] # Bad => sheet[job[p].field] = job[p].value
          /\ At(p, "bulk") => good = {job[p].cfg})

AllPlanned == \A p \in Procs : job[p] # Idle => Planned(job[p])
OneAtATime ==
    ~overlapped => \A p, q \in Procs : job[p] # Idle /\ job[q] # Idle => p = q
SavedStands == ~overlapped => good # {} /\ Honoured(sheet) /\ \A g \in good : Honoured(g)
AllHold == ~overlapped => \A p \in Procs : Holds(p)

GenerationsInv == TypeOK /\ AllPlanned /\ OneAtATime /\ SavedStands /\ AllHold

\* What a step leaves of the plan of p.
Left(p, rest) ==
    \/ rest = <<>>
    \/ /\ WellPlanned(rest)
       /\ IF job[p].kind = "admin" THEN OfChange(rest) ELSE NotOfChange(rest)

\* A nonempty set of places in a sequence has a last one.
LEMMA HasLast ==
    ASSUME NEW n \in Nat, NEW S \in SUBSET (1..n), S # {}
    PROVE  Max(S) \in S
  <1> DEFINE Less == {ss \in Nat \X Nat : ss[1] < ss[2]}
             T == {n - i : i \in S}
  <1>1. IsWellFoundedOn(Less, Nat)
    BY NatLessThanWellFounded, Zenon DEF OpToRel
  <1>2. T \subseteq Nat /\ T # {}
    <2>1. \A i \in S : n - i \in Nat
      OBVIOUS
    <2> QED BY <2>1
  <1> HIDE DEF Less
  <1>3. PICK m \in T : \A k \in T : ~(<<k, m>> \in Less)
    <2> HIDE DEF T
    <2> QED BY <1>1, <1>2, WFMin, Zenon
  <1>4. PICK x \in S : m = n - x
    BY <1>3
  <1>5. \A y \in S : x >= y
    <2> SUFFICES ASSUME NEW y \in S, y > x PROVE FALSE
      OBVIOUS
    <2>1. n - y \in Nat /\ n - x \in Nat /\ n - y < n - x
      OBVIOUS
    <2>2. <<n - y, m>> \in Nat \X Nat /\ <<n - y, m>>[1] < <<n - y, m>>[2]
      BY <2>1, <1>4
    <2>3. <<n - y, m>> \in Less
      BY <2>2 DEF Less
    <2>4. n - y \in T
      OBVIOUS
    <2> QED BY <2>3, <2>4, <1>3
  <1> QED BY <1>5 DEF Max

\* The newest of the marked rows is one of them.
LEMMA NewestIs ==
    ASSUME NEW lines \in Seq(Configs), NEW marked \in SUBSET Range(lines)
    PROVE  /\ marked = {} => ActiveOf(lines, marked) = None
           /\ marked # {} => ActiveOf(lines, marked) \in marked
  <1> DEFINE candidates == {i \in DOMAIN lines : lines[i] \in marked}
  <1>1. candidates \in SUBSET (1..Len(lines)) /\ Len(lines) \in Nat
    OBVIOUS
  <1>2. candidates = {} <=> marked = {}
    BY DEF Range
  <1>3. candidates # {} => Max(candidates) \in candidates
    <2> HIDE DEF candidates
    <2> QED BY <1>1, HasLast
  <1>4. ActiveOf(lines, marked) = IF candidates = {} THEN None ELSE lines[Max(candidates)]
    BY DEF ActiveOf
  <1>5. candidates # {} => lines[Max(candidates)] \in marked
    BY <1>3
  <1> HIDE DEF candidates
  <1> QED BY <1>2, <1>4, <1>5

LEMMA DefaultIs == Default \in Configs
  <1>1. \E cfg : cfg \in Configs
    <2>1. PICK v : v \in Values
      BY ConstantsAssumption
    <2>2. [x \in Fields |-> v] \in Configs
      BY <2>1 DEF Configs
    <2> QED BY <2>2
  <1> QED BY <1>1 DEF Default

LEMMA ActiveIs ==
    ASSUME TypeOK
    PROVE  /\ good # {} => Active \in good /\ Active # None
           /\ Active \in Configs \cup {None} /\ Fallback \in Configs
  <1>1. created \in Seq(Configs) /\ good \in SUBSET Range(created)
    BY DEF TypeOK
  <1>2. good \subseteq Configs
    BY <1>1 DEF Range
  <1>3. None \notin Configs
    BY ConstantsAssumption DEF Configs
  <1>4. /\ good = {} => Active = None
        /\ good # {} => Active \in good
    BY <1>1, NewestIs DEF Active
  <1> QED BY <1>2, <1>3, <1>4, DefaultIs DEF Fallback

------------------------------------------------------------------------------
(* Generations: the plans                                                   *)

\* What is left after some stages is planned as the whole was.
LEMMA RestPlanned ==
    ASSUME NEW todo, WellPlanned(todo), NEW k \in Nat, k < Len(todo),
           NEW rest \in Seq(Stages), Len(rest) = Len(todo) - k,
           \A i \in 1..Len(rest) : rest[i] = todo[i + k]
    PROVE  /\ WellPlanned(rest)
           /\ OfChange(todo) => OfChange(rest)
           /\ NotOfChange(todo) => NotOfChange(rest)
  <1>1. Len(todo) \in 1..16 /\ Len(rest) \in 1..MaxStages
    <2>1. Len(todo) \in 1..MaxStages /\ todo \in Seq(Stages)
      BY DEF WellPlanned
    <2>2. Len(todo) \in 1..16
      BY <2>1 DEF MaxStages
    <2>3. \A n \in 1..16 : k < n => n - k \in 1..16
      OBVIOUS
    <2>4. Len(rest) \in 1..16
      BY <2>2, <2>3
    <2> QED BY <2>2, <2>4 DEF MaxStages
  <1>2. \A i \in 1..Len(rest) : /\ i + k \in 1..Len(todo) /\ rest[i] = todo[i + k]
                                /\ i # Len(rest) <=> i + k # Len(todo)
                                /\ Len(rest) - i = Len(todo) - (i + k)
    BY <1>1
  <1>3. ASSUME NEW i \in 1..Len(rest), i # Len(rest) PROVE Follows(rest[i], rest[i + 1])
    <2>1. i + 1 \in 1..Len(rest) /\ (i + 1) + k = (i + k) + 1
      BY <1>1, <1>3
    <2>2. rest[i] = todo[i + k] /\ rest[i + 1] = todo[(i + k) + 1]
      BY <1>2, <2>1
    <2>3. Follows(todo[i + k], todo[(i + k) + 1])
      BY <1>2, <1>3 DEF WellPlanned
    <2> QED BY <2>2, <2>3
  <1>4. rest[Len(rest)] = todo[Len(todo)]
    BY <1>1
  <1>5. WellPlanned(rest)
    BY <1>1, <1>2, <1>3, <1>4 DEF WellPlanned
  <1>6. OfChange(todo) => OfChange(rest)
    <2> SUFFICES ASSUME OfChange(todo) PROVE OfChange(rest)
      OBVIOUS
    <2>1. Len(rest) <= 5
      BY <1>1 DEF OfChange
    <2>2. ASSUME NEW i \in 1..Len(rest) PROVE rest[i] = ChangeStages[1 + (Len(rest) - i)]
      <3>1. todo[i + k] = ChangeStages[1 + (Len(todo) - (i + k))]
        BY <1>2 DEF OfChange
      <3> QED BY <1>2, <3>1
    <2> QED BY <2>1, <2>2 DEF OfChange
  <1>7. NotOfChange(todo) => NotOfChange(rest)
    BY <1>2 DEF NotOfChange
  <1> QED BY <1>5, <1>6, <1>7

\* Stages that follow one another.
Chain(front) ==
    /\ front \in Seq(Stages) /\ front # <<>> /\ NotOfChange(front)
    /\ \A i \in 1..Len(front) : i # Len(front) => Follows(front[i], front[i + 1])

\* What is planned may have such stages put in front of it.
LEMMA JoinPlanned ==
    ASSUME NEW front, Chain(front), NEW rest, WellPlanned(rest), NotOfChange(rest),
           Follows(front[Len(front)], rest[1]), Len(front) + Len(rest) <= 16,
           \A i \in 1..Len(front) : front[i] = "gate" => Len(front) + Len(rest) - i <= 10
    PROVE  /\ WellPlanned(front \o rest) /\ NotOfChange(front \o rest)
           /\ Len(front \o rest) = Len(front) + Len(rest)
           /\ (front \o rest)[1] = front[1]
  <1> DEFINE all == front \o rest  m == Len(front)  n == Len(rest)
  <1>1. front \in Seq(Stages) /\ rest \in Seq(Stages) /\ Len(rest) \in 1..MaxStages
    BY DEF Chain, WellPlanned
  <1>2. m \in Nat \ {0} /\ n \in Nat \ {0}
    BY <1>1 DEF Chain, MaxStages
  <1>3. /\ all \in Seq(Stages) /\ Len(all) = m + n
        /\ \A i \in 1..(m + n) : all[i] = IF i <= m THEN front[i] ELSE rest[i - m]
    BY <1>1, ConcatProperties, Zenon
  <1> HIDE DEF all
  <1>4. /\ \A i \in 1..m : i \in 1..(m + n) /\ all[i] = front[i]
        /\ \A i \in (m + 1)..(m + n) : i - m \in 1..n /\ all[i] = rest[i - m]
    BY <1>2, <1>3
  <1>5. ASSUME NEW i \in 1..(m + n), i # m + n PROVE Follows(all[i], all[i + 1])
    <2>1. CASE i < m
      <3>1. i \in 1..m /\ i # m /\ i + 1 \in 1..m
        BY <1>2, <2>1
      <3> QED BY <3>1, <1>4 DEF Chain
    <2>2. CASE i = m
      <3>1. i \in 1..m /\ i + 1 \in (m + 1)..(m + n) /\ (i + 1) - m = 1
        BY <1>2, <2>2
      <3>2. all[i] = front[m] /\ all[i + 1] = rest[1]
        BY <3>1, <2>2, <1>4
      <3> QED BY <3>2
    <2>3. CASE i > m
      <3>1. /\ i \in (m + 1)..(m + n) /\ i + 1 \in (m + 1)..(m + n)
            /\ (i + 1) - m = (i - m) + 1 /\ i - m # n
        BY <1>2, <1>5, <2>3
      <3>2. all[i] = rest[i - m] /\ all[i + 1] = rest[(i - m) + 1] /\ i - m \in 1..n
        BY <3>1, <1>4
      <3> QED BY <3>1, <3>2 DEF WellPlanned
    <2> QED BY <1>2, <2>1, <2>2, <2>3
  <1>6. ASSUME NEW i \in 1..(m + n)
        PROVE  all[i] # "write" /\ (all[i] = "gate" => (m + n) - i <= 10)
    <2>1. CASE i \in 1..m
      BY <2>1, <1>4 DEF Chain, NotOfChange
    <2>2. CASE i \in (m + 1)..(m + n)
      <3>1. /\ i - m \in 1..n /\ all[i] = rest[i - m] /\ (m + n) - i = n - (i - m)
        BY <1>2, <1>4, <2>2
      <3> QED BY <3>1 DEF NotOfChange, WellPlanned
    <2> QED BY <1>2, <2>1, <2>2
  <1>7. all[m + n] = rest[n] /\ all[1] = front[1]
    BY <1>2, <1>4
  <1>8. Len(all) \in 1..MaxStages
    <2>1. \A k, l \in Nat \ {0} : k + l <= 16 => k + l \in 1..16
      OBVIOUS
    <2> QED BY <2>1, <1>2, <1>3 DEF MaxStages
  <1>9. rest[n] \in {"demote", "bulk", "ping"}
    BY DEF WellPlanned
  <1>10. WellPlanned(all)
    BY <1>3, <1>5, <1>6, <1>7, <1>8, <1>9 DEF WellPlanned
  <1>11. NotOfChange(all)
    BY <1>3, <1>6 DEF NotOfChange
  <1> QED BY <1>3, <1>7, <1>10, <1>11 DEF all

\* The same for stages without a gate.
LEMMA PutInFront ==
    ASSUME NEW front, Chain(front), NEW rest, WellPlanned(rest), NotOfChange(rest),
           Follows(front[Len(front)], rest[1]),
           NEW m \in Nat, Len(front) = m, NEW n \in Nat, Len(rest) = n, m + n <= 16,
           \A i \in 1..m : front[i] # "gate"
    PROVE  /\ WellPlanned(front \o rest) /\ NotOfChange(front \o rest)
           /\ Len(front \o rest) = m + n
           /\ (front \o rest)[1] = front[1]
  <1>1. Len(front) + Len(rest) <= 16
    OBVIOUS
  <1>2. \A i \in 1..Len(front) : front[i] = "gate" => Len(front) + Len(rest) - i <= 10
    OBVIOUS
  <1>3. /\ WellPlanned(front \o rest) /\ NotOfChange(front \o rest)
        /\ Len(front \o rest) = Len(front) + Len(rest)
        /\ (front \o rest)[1] = front[1]
    BY <1>1, <1>2, JoinPlanned
  <1> QED BY <1>3

\* One plan after another.
Joined(front, rest) == front \o rest

LEMMA JoinedAssociates ==
    ASSUME NEW S, NEW a \in Seq(S), NEW b \in Seq(S), NEW c \in Seq(S)
    PROVE  Joined(a, b) \in Seq(S) /\ Joined(Joined(a, b), c) = Joined(a, Joined(b, c))
  <1>1. a \o b \in Seq(S)
    BY ConcatProperties
  <1>2. (a \o b) \o c = a \o (b \o c)
    BY ConcatAssociative, SMTT(30)
  <1> QED BY <1>1, <1>2 DEF Joined

LEMMA LoadIs == Chain(Load) /\ Len(Load) = 4 /\ Load[1] = "read" /\ Load[4] = "demote"
                /\ \A i \in 1..4 : Load[i] # "gate"
  <1>1. /\ Load \in Seq(Stages) /\ Len(Load) = 4 /\ Load # <<>>
        /\ Load[1] = "read" /\ Load[2] = "parse" /\ Load[3] = "insert" /\ Load[4] = "demote"
    BY DEF Load, Stages
  <1>2. \A i \in 1..4 : i = 1 \/ i = 2 \/ i = 3 \/ i = 4
    OBVIOUS
  <1>3. \A i \in 1..4 : i # 4 => Follows(Load[i], Load[i + 1])
    BY <1>1, <1>2 DEF Follows
  <1>4. \A i \in 1..4 : Load[i] # "gate" /\ Load[i] # "write"
    BY <1>1, <1>2
  <1> QED BY <1>1, <1>3, <1>4 DEF Chain, NotOfChange

LEMMA SyncIs == /\ Chain(Sync) /\ WellPlanned(Sync) /\ NotOfChange(Sync) /\ Len(Sync) = 4
                /\ Sync[1] = "reread" /\ Sync[4] = "demote"
                /\ \A i \in 1..4 : Sync[i] # "gate"
  <1>1. /\ Sync \in Seq(Stages) /\ Len(Sync) = 4 /\ Sync # <<>>
        /\ Sync[1] = "reread" /\ Sync[2] = "parse" /\ Sync[3] = "insert" /\ Sync[4] = "demote"
    BY DEF Sync, Stages
  <1>2. \A i \in 1..4 : i = 1 \/ i = 2 \/ i = 3 \/ i = 4
    OBVIOUS
  <1>3. \A i \in 1..4 : i # 4 => Follows(Sync[i], Sync[i + 1])
    BY <1>1, <1>2 DEF Follows
  <1>4. \A i \in 1..4 : Sync[i] # "gate" /\ Sync[i] # "write"
    BY <1>1, <1>2
  <1>5. Len(Sync) \in 1..MaxStages
    BY <1>1 DEF MaxStages
  <1> QED BY <1>1, <1>3, <1>4, <1>5 DEF Chain, NotOfChange, WellPlanned

\* One stage, and two.
LEMMA OneIs ==
    ASSUME NEW a \in Stages, a # "write"
    PROVE  /\ Chain(<<a>>) /\ Len(<<a>>) = 1 /\ <<a>>[1] = a
           /\ a \in {"demote", "bulk", "ping"} => WellPlanned(<<a>>) /\ NotOfChange(<<a>>)
  <1>1. <<a>> \in Seq(Stages) /\ Len(<<a>>) = 1 /\ <<a>>[1] = a /\ <<a>> # <<>>
    OBVIOUS
  <1>2. \A i \in 1..1 : i = 1
    OBVIOUS
  <1>3. Chain(<<a>>) /\ NotOfChange(<<a>>)
    BY <1>1, <1>2 DEF Chain, NotOfChange
  <1>4. Len(<<a>>) \in 1..MaxStages
    BY <1>1 DEF MaxStages
  <1>5. a \in {"demote", "bulk", "ping"} => WellPlanned(<<a>>)
    BY <1>1, <1>2, <1>4 DEF WellPlanned
  <1> QED BY <1>1, <1>3, <1>5

LEMMA TwoAre ==
    ASSUME NEW a \in Stages, NEW b \in Stages, a # "write", b # "write", Follows(a, b)
    PROVE  /\ Chain(<<a, b>>) /\ Len(<<a, b>>) = 2 /\ <<a, b>>[1] = a /\ <<a, b>>[2] = b
           /\ b \in {"demote", "bulk", "ping"} => WellPlanned(<<a, b>>) /\ NotOfChange(<<a, b>>)
  <1>1. /\ <<a, b>> \in Seq(Stages) /\ Len(<<a, b>>) = 2 /\ <<a, b>> # <<>>
        /\ <<a, b>>[1] = a /\ <<a, b>>[2] = b
    OBVIOUS
  <1>2. \A i \in 1..2 : i = 1 \/ i = 2
    OBVIOUS
  <1>3. Chain(<<a, b>>) /\ NotOfChange(<<a, b>>)
    BY <1>1, <1>2 DEF Chain, NotOfChange
  <1>4. Len(<<a, b>>) \in 1..MaxStages
    BY <1>1 DEF MaxStages
  <1>5. \A i \in 1..2 : 2 - i <= 10
    OBVIOUS
  <1>6. \A i \in 1..2 : i # 2 => Follows(<<a, b>>[i], <<a, b>>[i + 1])
    BY <1>1, <1>2
  <1>7. b \in {"demote", "bulk", "ping"} => WellPlanned(<<a, b>>)
    BY <1>1, <1>4, <1>5, <1>6 DEF WellPlanned
  <1> QED BY <1>1, <1>3, <1>7

\* A healing rescore in front of what a gate has after it.
LEMMA HealPlanned ==
    ASSUME NEW rest, WellPlanned(rest), NotOfChange(rest), Len(rest) <= 10,
           rest[1] \in {"read", "ping"}
    PROVE  WellPlanned(Heal \o rest) /\ NotOfChange(Heal \o rest) /\ (Heal \o rest)[1] = "read"
  <1> DEFINE back == <<"bulk", "regate">>  n == Len(rest)
  <1>1. Chain(back) /\ Len(back) = 2 /\ back[1] = "bulk" /\ back[2] = "regate"
    BY TwoAre DEF Stages, Follows
  <1>2. Heal = Load \o back
    BY DEF Heal
  <1> HIDE DEF back
  <1>3. rest \in Seq(Stages) /\ Len(rest) \in 1..10
    <2>1. rest \in Seq(Stages) /\ Len(rest) \in 1..MaxStages
      BY DEF WellPlanned
    <2>2. \A m \in 1..16 : m <= 10 => m \in 1..10
      OBVIOUS
    <2> QED BY <2>1, <2>2 DEF MaxStages
  <1>4. back \in Seq(Stages) /\ Load \in Seq(Stages)
    BY <1>1, LoadIs DEF Chain
  <1>5. Heal \o rest = Load \o (back \o rest)
    BY <1>2, <1>3, <1>4, ConcatAssociative, SMTT(30)
  <1>6. \A i \in 1..2 : i = 1 \/ i = 2
    OBVIOUS
  <1>7. /\ WellPlanned(back \o rest) /\ NotOfChange(back \o rest)
        /\ Len(back \o rest) = 2 + n /\ (back \o rest)[1] = back[1]
    <2>1. Follows(back[Len(back)], rest[1])
      BY <1>1 DEF Follows
    <2>2. 2 \in Nat /\ n \in Nat /\ Len(rest) = n /\ 2 + n <= 16
      BY <1>3
    <2>3. \A i \in 1..2 : back[i] # "gate"
      BY <1>1, <1>6
    <2> QED BY <1>1, <2>1, <2>2, <2>3, PutInFront, Zenon
  <1> DEFINE tail == back \o rest
  <1>8. Follows(Load[Len(Load)], tail[1])
    BY <1>1, <1>7, LoadIs DEF Follows
  <1>9. 4 \in Nat /\ 2 + n \in Nat /\ Len(tail) = 2 + n /\ 4 + (2 + n) <= 16
    BY <1>3, <1>7
  <1>10. WellPlanned(tail) /\ NotOfChange(tail)
    BY <1>7
  <1> HIDE DEF tail, n
  <1>11. /\ WellPlanned(Load \o tail) /\ NotOfChange(Load \o tail)
         /\ (Load \o tail)[1] = Load[1]
    BY <1>8, <1>9, <1>10, LoadIs, PutInFront, Zenon
  <1> QED BY <1>5, <1>11, LoadIs DEF tail

\* Every operation starts as planned.
LEMMA PlansArePlanned ==
    ASSUME NEW kind \in JobKinds
    PROVE  /\ WellPlanned(Plan(kind))
           /\ IF kind = "admin" THEN OfChange(Plan(kind)) ELSE NotOfChange(Plan(kind))
           /\ Plan(kind)[1] \in {"read", "reread", "gate", "current"}
           /\ kind = "admin" => Plan(kind)[1] = "current"
  <1>0. /\ "score" \in Stages /\ "bulk" \in Stages /\ "gate" \in Stages /\ "current" \in Stages
        /\ "ping" \in Stages
    BY DEF Stages
  <1>1. CASE kind \in {"scan", "search"}
    <2> DEFINE one == <<"score">>
    <2>1. Chain(one) /\ Len(one) = 1 /\ one[1] = "score"
      BY <1>0, OneIs
    <2>2. Plan(kind) = Load \o one \o Sync
      BY <1>1 DEF Plan
    <2> HIDE DEF one
    <2>3. one \in Seq(Stages) /\ Load \in Seq(Stages) /\ Sync \in Seq(Stages)
      BY <2>1, LoadIs, SyncIs DEF Chain
    <2> DEFINE tail == one \o Sync
    <2>4. Plan(kind) = Load \o tail
      BY <2>2, <2>3, ConcatAssociative, SMTT(30)
    <2>5. /\ Follows(one[Len(one)], Sync[1]) /\ \A i \in 1..1 : one[i] # "gate"
          /\ 1 \in Nat /\ 4 \in Nat /\ 1 + 4 <= 16
      BY <2>1, SyncIs DEF Follows
    <2>6. WellPlanned(tail) /\ NotOfChange(tail) /\ Len(tail) = 1 + 4 /\ tail[1] = one[1]
      BY <2>1, <2>5, SyncIs, PutInFront, Zenon
    <2> HIDE DEF tail
    <2>7. /\ Follows(Load[Len(Load)], tail[1]) /\ Len(tail) = 5
          /\ 4 \in Nat /\ 5 \in Nat /\ 4 + 5 <= 16
      BY <2>1, <2>6, LoadIs DEF Follows
    <2>8. WellPlanned(Load \o tail) /\ NotOfChange(Load \o tail) /\ (Load \o tail)[1] = Load[1]
      BY <2>6, <2>7, LoadIs, PutInFront, Zenon
    <2> QED BY <1>1, <2>4, <2>8, LoadIs
  <1>2. CASE kind = "sync"
    BY <1>2, SyncIs DEF Plan
  <1>3. CASE kind = "rescore"
    <2> DEFINE one == <<"bulk">>
    <2>1. WellPlanned(one) /\ NotOfChange(one) /\ Len(one) = 1 /\ one[1] = "bulk"
      BY <1>0, OneIs
    <2>2. Plan(kind) = Load \o one
      BY <1>3 DEF Plan
    <2> HIDE DEF one
    <2>3. /\ Follows(Load[Len(Load)], one[1])
          /\ 4 \in Nat /\ 1 \in Nat /\ 4 + 1 <= 16
      BY <2>1, LoadIs DEF Follows
    <2>4. WellPlanned(Load \o one) /\ NotOfChange(Load \o one) /\ (Load \o one)[1] = Load[1]
      BY <2>1, <2>3, LoadIs, PutInFront, Zenon
    <2> QED BY <1>3, <2>2, <2>4, LoadIs
  <1>4. CASE kind = "rescore_now"
    <2>1. Follows("current", "bulk")
      BY DEF Follows
    <2>2. Plan(kind) = <<"current", "bulk">>
      BY <1>4 DEF Plan
    <2>3. /\ WellPlanned(<<"current", "bulk">>) /\ NotOfChange(<<"current", "bulk">>)
          /\ <<"current", "bulk">>[1] = "current"
      BY <1>0, <2>1, TwoAre
    <2> QED BY <1>4, <2>2, <2>3
  <1>5. CASE kind = "publish"
    <2> DEFINE one == <<"gate">>  end == <<"gate", "ping">>
    <2>1. Chain(one) /\ Len(one) = 1 /\ one[1] = "gate"
      BY <1>0, OneIs
    <2>a. Follows("gate", "ping")
      BY DEF Follows
    <2>2. WellPlanned(end) /\ NotOfChange(end) /\ Len(end) = 2 /\ end[1] = "gate"
      BY <1>0, <2>a, TwoAre
    <2>3. Plan(kind) = one \o Load \o Sync \o end
      BY <1>5 DEF Plan
    <2> HIDE DEF one, end
    <2>4. one \in Seq(Stages) /\ Load \in Seq(Stages) /\ Sync \in Seq(Stages) /\ end \in Seq(Stages)
      BY <2>1, <2>2, LoadIs, SyncIs DEF Chain, WellPlanned
    <2> DEFINE last == Sync \o end  tail == Load \o last
    <2>5. Plan(kind) = one \o tail
      <3>1. Plan(kind) = Joined(Joined(Joined(one, Load), Sync), end)
        BY <2>3 DEF Joined
      <3>2. Joined(Joined(Joined(one, Load), Sync), end)
              = Joined(Joined(one, Load), Joined(Sync, end))
        BY <2>4, JoinedAssociates
      <3>3. Joined(Joined(one, Load), Joined(Sync, end))
              = Joined(one, Joined(Load, Joined(Sync, end)))
        BY <2>4, JoinedAssociates
      <3> QED BY <3>1, <3>2, <3>3 DEF Joined
    <2>6. WellPlanned(last) /\ NotOfChange(last) /\ Len(last) = 6 /\ last[1] = "reread"
      <3>1. /\ Follows(Sync[Len(Sync)], end[1])
            /\ 4 \in Nat /\ 2 \in Nat /\ 4 + 2 <= 16
        BY <2>2, SyncIs DEF Follows
      <3>2. WellPlanned(last) /\ NotOfChange(last) /\ Len(last) = 4 + 2 /\ last[1] = Sync[1]
        BY <2>2, <3>1, SyncIs, PutInFront, Zenon
      <3> QED BY <3>2, SyncIs
    <2> HIDE DEF last
    <2>7. WellPlanned(tail) /\ NotOfChange(tail) /\ Len(tail) = 10 /\ tail[1] = "read"
      <3>1. /\ Follows(Load[Len(Load)], last[1])
            /\ 4 \in Nat /\ 6 \in Nat /\ 4 + 6 <= 16
        BY <2>6, LoadIs DEF Follows
      <3>2. WellPlanned(tail) /\ NotOfChange(tail) /\ Len(tail) = 4 + 6 /\ tail[1] = Load[1]
        BY <2>6, <3>1, LoadIs, PutInFront, Zenon
      <3> QED BY <3>2, LoadIs
    <2> HIDE DEF tail
    <2>8. WellPlanned(one \o tail) /\ NotOfChange(one \o tail) /\ (one \o tail)[1] = one[1]
      <3>1. Follows(one[Len(one)], tail[1])
        BY <2>1, <2>7 DEF Follows
      <3>2. Len(one) + Len(tail) <= 16
        BY <2>1, <2>7
      <3>3. \A i \in 1..Len(one) : one[i] = "gate" => Len(one) + Len(tail) - i <= 10
        BY <2>1, <2>7
      <3> QED BY <2>1, <2>7, <3>1, <3>2, <3>3, JoinPlanned, Zenon
    <2> QED BY <1>5, <2>1, <2>5, <2>8
  <1>6. CASE kind = "admin"
    <2> DEFINE todo == <<"current", "write", "insert", "demote", "bulk">>
    <2>1. Plan(kind) = todo
      BY <1>6 DEF Plan
    <2>2. /\ todo \in Seq(Stages) /\ Len(todo) = 5
          /\ todo[1] = "current" /\ todo[2] = "write" /\ todo[3] = "insert"
          /\ todo[4] = "demote" /\ todo[5] = "bulk"
      BY DEF Stages
    <2> HIDE DEF todo
    <2>3. \A i \in 1..5 : i = 1 \/ i = 2 \/ i = 3 \/ i = 4 \/ i = 5
      OBVIOUS
    <2>4. \A i \in 1..5 : i # 5 => Follows(todo[i], todo[i + 1])
      BY <2>2, <2>3 DEF Follows
    <2>5. Len(todo) \in 1..MaxStages
      BY <2>2 DEF MaxStages
    <2>6. WellPlanned(todo)
      BY <2>2, <2>3, <2>4, <2>5 DEF WellPlanned
    <2>7. /\ ChangeStages[1] = "bulk" /\ ChangeStages[2] = "demote" /\ ChangeStages[3] = "insert"
          /\ ChangeStages[4] = "write" /\ ChangeStages[5] = "current"
      BY DEF ChangeStages
    <2>8. \A i \in 1..5 : todo[i] = ChangeStages[1 + (5 - i)]
      BY <2>2, <2>3, <2>7
    <2>9. OfChange(todo)
      BY <2>2, <2>8 DEF OfChange
    <2> QED BY <1>6, <2>1, <2>2, <2>6, <2>9
  <1> QED BY <1>1, <1>2, <1>3, <1>4, <1>5, <1>6 DEF JobKinds

------------------------------------------------------------------------------
(* Generations: the stages                                                  *)

\* What is left after this stage.
After(p) == Tail(job[p].todo)

\* Where an operation stands, and what it has after this stage.
LEMMA StageIs ==
    ASSUME NEW p, Planned(job[p]), NEW s, At(p, s)
    PROVE  /\ job[p].todo \in Seq(Stages) /\ Len(job[p].todo) \in 1..16 /\ job[p].todo[1] = s
           /\ Len(job[p].todo) = 1 => s \in {"demote", "bulk", "ping"} /\ After(p) = <<>>
           /\ Len(job[p].todo) # 1 =>
                 After(p) # <<>> /\ After(p)[1] = job[p].todo[2] /\ Follows(s, After(p)[1])
           /\ Left(p, After(p))
           /\ s = "gate" => Len(After(p)) <= 10
           /\ job[p].kind # "admin" => s # "write" /\ (After(p) # <<>> => After(p)[1] # "write")
  <1> PICK todo, tail : todo = job[p].todo /\ tail = Tail(todo) /\ tail = After(p)
    BY DEF After
  <1>1. todo \in Seq(Stages) /\ Len(todo) \in 1..16 /\ todo[1] = s /\ todo # <<>>
    BY DEF Planned, WellPlanned, At, MaxStages
  <1>2. /\ tail \in Seq(Stages) /\ Len(tail) = Len(todo) - 1
        /\ \A i \in 1..Len(tail) : tail[i] = todo[i + 1]
    BY <1>1
  <1>3. CASE Len(todo) = 1
    <2>1. tail = <<>>
      BY <1>2, <1>3
    <2>2. s \in {"demote", "bulk", "ping"}
      BY <1>1, <1>3 DEF Planned, WellPlanned
    <2>3. job[p].kind # "admin" => s # "write"
      BY <2>2
    <2> QED BY <1>1, <1>3, <2>1, <2>2, <2>3 DEF Left
  <1>4. CASE Len(todo) # 1
    <2>a. \A n \in 1..16 : n # 1 => n - 1 \in 1..15 /\ 1 < n /\ 2 \in 1..n /\ 1 \in 1..n
      OBVIOUS
    <2>1. Len(tail) \in 1..15 /\ 1 < Len(todo) /\ 1 \in Nat
      BY <2>a, <1>1, <1>2, <1>4
    <2>b. 1 \in 1..Len(tail)
      BY <2>1
    <2>2. tail # <<>> /\ tail[1] = todo[2]
      <3>1. tail[1] = todo[1 + 1]
        BY <1>2, <2>b
      <3>2. tail # <<>>
        <4>a. \A n \in 1..15 : n # 0
          OBVIOUS
        <4>1. Len(tail) # 0
          BY <2>1, <4>a, Zenon
        <4>2. Len(<<>>) = 0
          BY EmptySeq
        <4> QED BY <4>1, <4>2, Zenon
      <3> QED BY <3>1, <3>2
    <2>3. Follows(s, todo[2])
      BY <1>1, <1>4 DEF Planned, WellPlanned
    <2>4. /\ WellPlanned(tail)
          /\ OfChange(todo) => OfChange(tail)
          /\ NotOfChange(todo) => NotOfChange(tail)
      BY <1>2, <2>1, RestPlanned DEF Planned
    <2>5. Left(p, tail)
      BY <2>4 DEF Left, Planned
    <2>6. s = "gate" => Len(tail) <= 10
      BY <1>1, <1>2 DEF Planned, WellPlanned
    <2>7. job[p].kind # "admin" => s # "write" /\ tail[1] # "write"
      <3>1. 1 \in 1..Len(todo) /\ 2 \in 1..Len(todo)
        BY <2>a, <1>1, <1>4
      <3> QED BY <3>1, <1>1, <2>2 DEF Planned, NotOfChange
    <2> QED BY <1>1, <1>4, <2>2, <2>3, <2>5, <2>6, <2>7
  <1> QED BY <1>3, <1>4

\* The same for a change from the control room, which has every stage in its place.
LEMMA ChangeStageIs ==
    ASSUME NEW p, Planned(job[p]), job[p].kind = "admin", NEW s, At(p, s)
    PROVE  \/ s = "current" /\ After(p) # <<>> /\ After(p)[1] = "write"
           \/ s = "write" /\ After(p) # <<>> /\ After(p)[1] = "insert"
           \/ s = "insert" /\ After(p) # <<>> /\ After(p)[1] = "demote"
           \/ s = "demote" /\ After(p) # <<>> /\ After(p)[1] = "bulk"
           \/ s = "bulk" /\ After(p) = <<>>
  <1> PICK todo, tail : todo = job[p].todo /\ tail = After(p)
    OBVIOUS
  <1>1. /\ todo \in Seq(Stages) /\ Len(todo) \in 1..16 /\ todo[1] = s
        /\ Len(todo) = 1 => tail = <<>>
        /\ Len(todo) # 1 => tail # <<>> /\ tail[1] = todo[2]
    BY StageIs, Zenon
  <1>2. Len(todo) <= 5 /\ \A i \in 1..Len(todo) : todo[i] = ChangeStages[1 + (Len(todo) - i)]
    BY DEF Planned, OfChange
  <1>3. /\ ChangeStages[1] = "bulk" /\ ChangeStages[2] = "demote" /\ ChangeStages[3] = "insert"
        /\ ChangeStages[4] = "write" /\ ChangeStages[5] = "current"
    BY DEF ChangeStages
  <1>4. s = ChangeStages[Len(todo)] /\ (Len(todo) # 1 => todo[2] = ChangeStages[Len(todo) - 1])
    <2>1. 1 \in 1..Len(todo) /\ 1 + (Len(todo) - 1) = Len(todo)
      BY <1>1
    <2>2. Len(todo) # 1 => 2 \in 1..Len(todo) /\ 1 + (Len(todo) - 2) = Len(todo) - 1
      BY <1>1
    <2>3. s = ChangeStages[1 + (Len(todo) - 1)]
      BY <2>1, <1>1, <1>2
    <2>4. Len(todo) # 1 => todo[2] = ChangeStages[1 + (Len(todo) - 2)]
      BY <2>2, <1>2
    <2> QED BY <2>1, <2>2, <2>3, <2>4
  <1>5. Len(todo) = 1 \/ Len(todo) = 2 \/ Len(todo) = 3 \/ Len(todo) = 4 \/ Len(todo) = 5
    <2>1. \A n \in 1..16 : n <= 5 => n = 1 \/ n = 2 \/ n = 3 \/ n = 4 \/ n = 5
      OBVIOUS
    <2> QED BY <2>1, <1>1, <1>2
  <1>6. CASE Len(todo) = 1
    BY <1>6, <1>1, <1>3, <1>4
  <1>7. CASE Len(todo) = 2
    BY <1>7, <1>1, <1>3, <1>4
  <1>8. CASE Len(todo) = 3
    BY <1>8, <1>1, <1>3, <1>4
  <1>9. CASE Len(todo) = 4
    BY <1>9, <1>1, <1>3, <1>4
  <1>10. CASE Len(todo) = 5
    BY <1>10, <1>1, <1>3, <1>4
  <1> QED BY <1>5, <1>6, <1>7, <1>8, <1>9, <1>10

\* What comes after a configuration is saved, or would have been.
LEMMA JumpIs ==
    ASSUME NEW p, Planned(job[p]), NEW todo, todo = job[p].todo,
           NEW k \in Nat, k \in 1..Len(todo), todo[k] = "demote",
           NEW rest, rest = SubSeq(todo, k + 1, Len(todo))
    PROVE  /\ Left(p, rest)
           /\ rest # <<>> => rest[1] \in {"score", "bulk", "reread", "gate"}
  <1>1. todo \in Seq(Stages) /\ Len(todo) \in 1..16 /\ WellPlanned(todo)
    BY DEF Planned, WellPlanned, MaxStages
  <1>2. CASE k = Len(todo)
    <2>1. rest = <<>>
      BY <1>1, <1>2
    <2> QED BY <2>1 DEF Left
  <1>3. CASE k # Len(todo)
    <2>1. /\ rest \in Seq(Stages) /\ Len(rest) = Len(todo) - k /\ k < Len(todo)
          /\ \A i \in 1..Len(rest) : rest[i] = todo[i + k]
      <3>1. k + 1 \in 1..Len(todo) /\ Len(todo) \in 1..Len(todo) /\ k < Len(todo)
        BY <1>1, <1>3
      <3> DEFINE m == k + 1  n == Len(todo)
      <3>2. m \in Int /\ n \in Int /\ m <= n /\ \A i \in m..n : todo[i] \in Stages
        BY <3>1, <1>1
      <3>3. /\ SubSeq(todo, m, n) \in Seq(Stages)
            /\ Len(SubSeq(todo, m, n)) = IF m <= n THEN n - m + 1 ELSE 0
            /\ \A i \in 1..(n - m + 1) : SubSeq(todo, m, n)[i] = todo[m + i - 1]
        <4> HIDE DEF m, n
        <4> QED BY <3>2, SubSeqProperties
      <3>4. n - m + 1 = n - k /\ \A i \in 1..(n - k) : m + i - 1 = i + k
        <4>1. n \in Int /\ m = k + 1 /\ k \in Int
          BY <3>2
        <4> HIDE DEF n, m
        <4> QED BY ONLY <4>1
      <3>5. rest = SubSeq(todo, m, n)
        OBVIOUS
      <3> QED BY <3>1, <3>2, <3>3, <3>4, <3>5
    <2>2. /\ WellPlanned(rest)
          /\ OfChange(todo) => OfChange(rest)
          /\ NotOfChange(todo) => NotOfChange(rest)
      <3>1. \A i \in 1..Len(rest) : rest[i] = todo[i + k]
        BY <2>1
      <3>2. rest \in Seq(Stages) /\ Len(rest) = Len(todo) - k /\ k < Len(todo)
        BY <2>1
      <3>3. WellPlanned(todo)
        BY <1>1
      <3>4. k \in Nat
        OBVIOUS
      <3> QED BY ONLY <3>1, <3>2, <3>3, <3>4, RestPlanned, Zenon
    <2>3. Left(p, rest)
      BY <2>2 DEF Left, Planned
    <2>4. Follows(todo[k], todo[k + 1])
      BY <1>1, <1>3 DEF WellPlanned
    <2>5. rest[1] = todo[k + 1]
      <3>1. 1 \in 1..Len(rest)
        BY <1>1, <2>1
      <3> QED BY <3>1, <2>1
    <2> QED BY <2>3, <2>4, <2>5 DEF Follows
  <1> QED BY <1>2, <1>3

LEMMA LoadStages ==
    ASSUME NEW p, Planned(job[p]), NEW todo, todo = job[p].todo
    PROVE  /\ At(p, "read") \/ At(p, "reread") =>
                 4 \in 1..Len(todo) /\ todo[2] = "parse" /\ todo[4] = "demote"
           /\ At(p, "parse") => 3 \in 1..Len(todo) /\ todo[2] = "insert" /\ todo[3] = "demote"
           /\ job[p].kind = "admin" => ~At(p, "read") /\ ~At(p, "reread") /\ ~At(p, "parse")
  <1>1. todo \in Seq(Stages) /\ Len(todo) \in 1..16
    BY DEF Planned, WellPlanned, MaxStages
  <1>2. /\ \A i \in 1..Len(todo) : i # Len(todo) => Follows(todo[i], todo[i + 1])
        /\ todo[Len(todo)] \in {"demote", "bulk", "ping"}
    BY DEF Planned, WellPlanned
  <1>3. ASSUME NEW i \in 1..Len(todo), todo[i] \in {"read", "reread", "parse", "insert"}
        PROVE  i + 1 \in 1..Len(todo) /\ Follows(todo[i], todo[i + 1])
    BY <1>1, <1>2, <1>3
  <1>4. ASSUME At(p, "read") \/ At(p, "reread")
        PROVE  4 \in 1..Len(todo) /\ todo[2] = "parse" /\ todo[4] = "demote"
    <2>1. 1 \in 1..Len(todo) /\ todo[1] \in {"read", "reread"}
      BY <1>1, <1>4 DEF At
    <2>2. 2 \in 1..Len(todo) /\ todo[2] = "parse"
      BY <2>1, <1>3 DEF Follows
    <2>3. 3 \in 1..Len(todo) /\ todo[3] = "insert"
      BY <2>2, <1>3 DEF Follows
    <2>4. 4 \in 1..Len(todo) /\ todo[4] = "demote"
      BY <2>3, <1>3 DEF Follows
    <2> QED BY <2>2, <2>4
  <1>5. ASSUME At(p, "parse")
        PROVE  3 \in 1..Len(todo) /\ todo[2] = "insert" /\ todo[3] = "demote"
    <2>1. 1 \in 1..Len(todo) /\ todo[1] = "parse"
      BY <1>1, <1>5 DEF At
    <2>2. 2 \in 1..Len(todo) /\ todo[2] = "insert"
      BY <2>1, <1>3 DEF Follows
    <2>3. 3 \in 1..Len(todo) /\ todo[3] = "demote"
      BY <2>2, <1>3 DEF Follows
    <2> QED BY <2>2, <2>3
  <1>6. job[p].kind = "admin" => ~At(p, "read") /\ ~At(p, "reread") /\ ~At(p, "parse")
    <2>1. ASSUME job[p].kind = "admin", NEW s, At(p, s)
          PROVE  s \notin {"read", "reread", "parse"}
      BY <2>1, ChangeStageIs
    <2> QED BY <2>1
  <1> QED BY <1>4, <1>5, <1>6

------------------------------------------------------------------------------
(* Generations: one operation takes a step                                  *)

LEMMA NextIs ==
    ASSUME NEW p, Planned(job[p]), NEW s, At(p, s)
    PROVE  /\ Left(p, After(p))
           /\ Len(job[p].todo) = 1 <=> After(p) = <<>>
           /\ After(p) = <<>> => s \in {"demote", "bulk", "ping"}
           /\ After(p) # <<>> => Follows(s, After(p)[1])
           /\ s = "gate" => Len(After(p)) <= 10
           /\ job[p].kind # "admin" => s # "write" /\ (After(p) # <<>> => After(p)[1] # "write")
  BY StageIs, Zenon

GoesOn(p, new) ==
    \/ new = Idle
    \/ new \in Busy /\ new.kind = job[p].kind /\ Left(p, new.todo) /\ new.todo # <<>>

\* The operation of p went on to rest, holding what record holds.
Became(p, record, rest) ==
    /\ job' = [job EXCEPT ![p] = job'[p]]
    /\ GoesOn(p, job'[p])
    /\ rest = <<>> => job'[p] = Idle
    /\ rest # <<>> =>
          /\ job'[p].todo = rest /\ job'[p].kind = job[p].kind
          /\ job'[p].raw = record.raw /\ job'[p].cfg = record.cfg
          /\ job'[p].field = record.field /\ job'[p].value = record.value

SavedFit == good # {} /\ Honoured(sheet) /\ \A g \in good : Honoured(g)

LEMMA BecomesIs ==
    ASSUME TypeOK, NEW p \in Procs, NEW record \in Busy, record.kind = job[p].kind,
           NEW rest, Left(p, rest),
           job' = [job EXCEPT ![p] = IF rest = <<>> THEN Idle ELSE [record EXCEPT !.todo = rest]]
    PROVE  Became(p, record, rest)
  <1> DEFINE new == IF rest = <<>> THEN Idle ELSE [record EXCEPT !.todo = rest]
  <1>1. job \in [Procs -> Busy \cup {Idle}]
    BY DEF TypeOK
  <1>2. job'[p] = new /\ job' = [job EXCEPT ![p] = job'[p]]
    BY <1>1
  <1>3. CASE rest = <<>>
    BY <1>2, <1>3 DEF Became, GoesOn
  <1>4. CASE rest # <<>>
    <2>1. rest \in {t \in Seq(Stages) : Len(t) \in 1..MaxStages}
      BY <1>4 DEF Left, WellPlanned
    <2>2. /\ new \in Busy /\ new.todo = rest /\ new.kind = record.kind
          /\ new.raw = record.raw /\ new.cfg = record.cfg
          /\ new.field = record.field /\ new.value = record.value
      BY <2>1, <1>4 DEF Busy
    <2> HIDE DEF new
    <2> QED BY <2>2, <1>2, <1>4 DEF Became, GoesOn
  <1> QED BY <1>3, <1>4

LEMMA AtIs ==
    ASSUME NEW p, NEW record, NEW rest, Became(p, record, rest), Left(p, rest)
    PROVE  \A a : At(p, a)' <=> rest # <<>> /\ rest[1] = a
  <1>1. CASE rest = <<>>
    BY <1>1 DEF Became, At, Idle
  <1>2. CASE rest # <<>>
    <2>1. job'[p].todo = rest /\ rest \in Seq(Stages)
      BY <1>2 DEF Became, Left, WellPlanned
    <2> QED BY <2>1, <1>2 DEF At
  <1> QED BY <1>1, <1>2

\* Goes, from a stage to the next.
LEMMA GoesIs ==
    ASSUME GenerationsInv, NEW p \in Procs, NEW s, At(p, s),
           NEW record \in Busy, record.kind = job[p].kind, Goes(p, record)
    PROVE  Became(p, record, After(p)) /\ Left(p, After(p))
  <1>1. job[p] # Idle /\ Planned(job[p])
    BY DEF At, Idle, GenerationsInv, AllPlanned
  <1>2. Left(p, After(p)) /\ (Len(job[p].todo) = 1 <=> After(p) = <<>>)
    BY <1>1, NextIs, Zenon
  <1>3. job' = [job EXCEPT ![p] = IF Len(job[p].todo) = 1 THEN Idle
                                  ELSE [record EXCEPT !.todo = After(p)]]
    BY DEF Goes, After
  <1>4. job' = [job EXCEPT ![p] = IF After(p) = <<>> THEN Idle
                                  ELSE [record EXCEPT !.todo = After(p)]]
    BY <1>2, <1>3, Zenon
  <1>5. TypeOK
    BY DEF GenerationsInv
  <1>6. Became(p, record, After(p))
    BY ONLY <1>2, <1>4, <1>5, p \in Procs, record \in Busy, record.kind = job[p].kind, BecomesIs, Zenon
  <1> QED BY <1>2, <1>6

LEMMA AtBusy ==
    ASSUME GenerationsInv, NEW p \in Procs, NEW s, At(p, s)
    PROVE  /\ job[p] # Idle /\ job[p] \in Busy /\ Planned(job[p])
           /\ ~overlapped => Holds(p) /\ \A q \in Procs \ {p} : job[q] = Idle
  <1>1. job[p] # Idle
    BY DEF At, Idle
  <1> QED BY <1>1 DEF GenerationsInv, TypeOK, AllPlanned, OneAtATime, AllHold

\* What is left to show of such a step.
LEMMA StepKeeps ==
    ASSUME GenerationsInv, NEW p \in Procs, job[p] # Idle,
           job' = [job EXCEPT ![p] = job'[p]], GoesOn(p, job'[p]), overlapped' = overlapped,
           job' \in [Procs -> Busy \cup {Idle}] => TypeOK',
           ~overlapped => SavedFit' /\ Holds(p)'
    PROVE  GenerationsInv'
  <1>1. job \in [Procs -> Busy \cup {Idle}]
    BY DEF GenerationsInv, TypeOK
  <1>2. TypeOK'
    BY <1>1 DEF GoesOn
  <1>3. \A q \in Procs \ {p} : job'[q] = job[q]
    BY <1>1
  <1>4. AllPlanned'
    <2>1. job'[p] # Idle => Planned(job'[p])
      BY DEF GoesOn, Left, Planned
    <2> QED BY <2>1, <1>3 DEF AllPlanned, GenerationsInv, Planned
  <1>5. ~overlapped => \A q \in Procs \ {p} : job'[q] = Idle
    BY <1>3 DEF GenerationsInv, OneAtATime
  <1>6. OneAtATime'
    BY <1>5 DEF OneAtATime
  <1>7. SavedStands'
    BY DEF SavedStands, SavedFit
  <1>8. ASSUME NEW q \in Procs, job'[q] = Idle PROVE Holds(q)'
    BY <1>8 DEF Holds, At, Idle
  <1>9. AllHold'
    BY <1>5, <1>8 DEF AllHold
  <1> QED BY <1>2, <1>4, <1>6, <1>7, <1>9 DEF GenerationsInv

\* A step after which its operation holds nothing that matters.
LEMMA NothingHeld ==
    ASSUME NEW p, NEW record, NEW rest, Became(p, record, rest), Left(p, rest),
           rest # <<>> => /\ job[p].kind # "admin"
                          /\ rest[1] \notin {"parse", "write", "insert", "demote", "ping"}
    PROVE  Holds(p)'
  <1>1. \A a : At(p, a)' <=> rest # <<>> /\ rest[1] = a
    BY AtIs
  <1>2. job'[p] # Idle => job'[p].kind # "admin"
    BY DEF Became
  <1> QED BY <1>1, <1>2 DEF Holds

\* A step that ends its operation.
LEMMA EndKeeps ==
    ASSUME GenerationsInv, NEW p \in Procs, job[p] # Idle,
           job' = [job EXCEPT ![p] = Idle], overlapped' = overlapped,
           job' \in [Procs -> Busy \cup {Idle}] => TypeOK',
           ~overlapped => SavedFit'
    PROVE  GenerationsInv'
  <1>1. job'[p] = Idle /\ job' = [job EXCEPT ![p] = job'[p]]
    BY DEF GenerationsInv, TypeOK
  <1>2. Holds(p)'
    BY <1>1 DEF Holds, At, Idle
  <1> QED BY <1>1, <1>2, StepKeeps DEF GoesOn

LEMMA ReadSheetKeeps ==
    ASSUME GenerationsInv, NEW p \in Procs, ReadSheet(p) PROVE GenerationsInv'
  <1> DEFINE record == [job[p] EXCEPT !.raw = sheet]
             rest == After(p)
  <1>1. PICK s \in {"read", "reread"} : At(p, s)
    BY DEF ReadSheet
  <1>2. /\ job[p] # Idle /\ job[p] \in Busy /\ Planned(job[p])
        /\ UNCHANGED <<sheet, snapshots, score, history>> /\ Goes(p, record)
    BY <1>1, AtBusy DEF ReadSheet
  <1>3. record \in Busy /\ record.kind = job[p].kind /\ record.raw = sheet
    BY <1>2 DEF Busy, GenerationsInv, TypeOK
  <1> HIDE DEF record
  <1>4. Became(p, record, rest) /\ Left(p, rest)
    BY <1>1, <1>2, <1>3, GoesIs
  <1>5. job[p].kind # "admin" /\ rest # <<>> /\ rest[1] = "parse"
    <2>1. /\ rest = <<>> => s \in {"demote", "bulk", "ping"}
          /\ rest # <<>> => Follows(s, rest[1])
      BY <1>1, <1>2, NextIs, Zenon
    <2>2. job[p].kind # "admin"
      BY <1>1, <1>2, ChangeStageIs
    <2> QED BY <2>1, <2>2 DEF Follows
  <1>6. ~overlapped => Holds(p)'
    <2>1. \A a : At(p, a)' <=> rest # <<>> /\ rest[1] = a
      BY <1>4, AtIs
    <2>2. job'[p].raw = sheet /\ job'[p].kind # "admin" /\ saved' = saved
      BY <1>2, <1>3, <1>4, <1>5 DEF Became, history
    <2>3. ~overlapped => Honoured(sheet)
      BY DEF GenerationsInv, SavedStands
    <2> QED BY <2>1, <2>2, <2>3, <1>5 DEF Holds, Honoured
  <1>7. ~overlapped => SavedFit'
    BY <1>2 DEF GenerationsInv, SavedStands, SavedFit, Honoured, snapshots, history
  <1>8. job' \in [Procs -> Busy \cup {Idle}] => TypeOK'
    BY <1>2 DEF GenerationsInv, TypeOK, snapshots, history
  <1>9. overlapped' = overlapped
    BY <1>2 DEF history
  <1> QED BY <1>2, <1>4, <1>6, <1>7, <1>8, <1>9, StepKeeps DEF Became

\* Nothing but an operation's own record changes.
LEMMA RestStays ==
    ASSUME GenerationsInv, UNCHANGED <<sheet, snapshots, score, history>>
    PROVE  /\ overlapped' = overlapped
           /\ ~overlapped => SavedFit'
           /\ job' \in [Procs -> Busy \cup {Idle}] => TypeOK'
  <1>1. UNCHANGED <<sheet, created, good, score, edits, crashes, overlapped, saved>>
    BY DEF snapshots, history
  <1>2. ~overlapped => SavedFit'
    BY <1>1 DEF GenerationsInv, SavedStands, SavedFit, Honoured
  <1>3. job' \in [Procs -> Busy \cup {Idle}] => TypeOK'
    BY <1>1 DEF GenerationsInv, TypeOK
  <1> QED BY <1>1, <1>2, <1>3

\* A load that is given up, or whose configuration is not saved.
LEMMA SkipKeeps ==
    ASSUME GenerationsInv, NEW p \in Procs, NEW s \in {"read", "reread", "parse"}, At(p, s),
           NEW k \in Nat, k = IF s = "parse" THEN 3 ELSE 4,
           NEW record \in Busy, record.kind = job[p].kind,
           NEW rest, rest = SubSeq(job[p].todo, k + 1, Len(job[p].todo)), GoTo(p, record, rest),
           UNCHANGED <<sheet, snapshots, score, history>>
    PROVE  GenerationsInv'
  <1>1. job[p] # Idle /\ job[p] \in Busy /\ Planned(job[p])
    BY AtBusy
  <1> PICK todo : todo = job[p].todo
    OBVIOUS
  <1>2. k \in 1..Len(todo) /\ todo[k] = "demote" /\ job[p].kind # "admin"
    BY <1>1, LoadStages
  <1>3. rest = SubSeq(todo, k + 1, Len(todo))
    OBVIOUS
  <1>4. Left(p, rest) /\ (rest # <<>> => rest[1] \in {"score", "bulk", "reread", "gate"})
    BY ONLY <1>1, <1>2, <1>3, todo = job[p].todo, k \in Nat, JumpIs
  <1>5. TypeOK /\ job' = [job EXCEPT ![p] = IF rest = <<>> THEN Idle
                                           ELSE [record EXCEPT !.todo = rest]]
    BY DEF GoTo, GenerationsInv
  <1>6. Became(p, record, rest)
    BY ONLY <1>4, <1>5, p \in Procs, record \in Busy, record.kind = job[p].kind, BecomesIs, Zenon
  <1>7. Holds(p)'
    BY <1>2, <1>4, <1>6, NothingHeld
  <1>8. job' = [job EXCEPT ![p] = job'[p]] /\ GoesOn(p, job'[p])
    BY <1>6 DEF Became
  <1> QED BY <1>1, <1>7, <1>8, StepKeeps, RestStays

\* A step to a next stage at which the operation holds nothing that matters.
LEMMA PlainKeeps ==
    ASSUME GenerationsInv, NEW p \in Procs, NEW s, At(p, s), job[p].kind # "admin",
           NEW record \in Busy, record.kind = job[p].kind, Goes(p, record),
           After(p) # <<>> => After(p)[1] \notin {"parse", "write", "insert", "demote", "ping"},
           overlapped' = overlapped,
           job' \in [Procs -> Busy \cup {Idle}] => TypeOK',
           ~overlapped => SavedFit'
    PROVE  GenerationsInv'
  <1>1. Became(p, record, After(p)) /\ Left(p, After(p)) /\ job[p] # Idle
    BY GoesIs, AtBusy
  <1>2. Holds(p)'
    BY <1>1, NothingHeld
  <1>3. job' = [job EXCEPT ![p] = job'[p]] /\ GoesOn(p, job'[p])
    BY <1>1 DEF Became
  <1> QED BY <1>1, <1>2, <1>3, StepKeeps

LEMMA SheetOutKeeps ==
    ASSUME GenerationsInv, NEW p \in Procs, SheetOut(p) PROVE GenerationsInv'
  <1> PICK rest : rest = SubSeq(job[p].todo, 4 + 1, Len(job[p].todo))
    OBVIOUS
  <1>1. rest = SubSeq(job[p].todo, 5, Len(job[p].todo))
    OBVIOUS
  <1>2. UNCHANGED <<sheet, snapshots, score, history>>
    BY DEF SheetOut
  <1>3. CASE At(p, "read") /\ GoTo(p, [job[p] EXCEPT !.cfg = Fallback], rest)
    <2> PICK record : record = [job[p] EXCEPT !.cfg = Fallback]
      OBVIOUS
    <2>1. job[p] \in Busy /\ Fallback \in Configs
      BY <1>3, AtBusy, ActiveIs DEF GenerationsInv
    <2>2. record \in Busy /\ record.kind = job[p].kind
      BY <2>1 DEF Busy
    <2> QED BY <1>2, <1>3, <2>2, SkipKeeps
  <1>4. CASE At(p, "reread") /\ GoTo(p, job[p], rest)
    <2>1. job[p] \in Busy
      BY <1>4, AtBusy
    <2> QED BY <1>2, <1>4, <2>1, SkipKeeps
  <1> QED BY <1>1, <1>3, <1>4 DEF SheetOut

LEMMA NoSyncKeeps ==
    ASSUME GenerationsInv, NEW p \in Procs, NoSync(p) PROVE GenerationsInv'
  <1> PICK rest : rest = SubSeq(job[p].todo, 4 + 1, Len(job[p].todo))
    OBVIOUS
  <1>1. rest = SubSeq(job[p].todo, 5, Len(job[p].todo))
    OBVIOUS
  <1>2. At(p, "reread") /\ UNCHANGED <<sheet, snapshots, score, history>>
        /\ GoTo(p, job[p], rest)
    BY <1>1 DEF NoSync
  <1>3. job[p] \in Busy
    BY <1>2, AtBusy
  <1> QED BY <1>2, <1>3, SkipKeeps

LEMMA EffectiveIs ==
    ASSUME NEW typed \in Typed, NEW fallback \in Configs
    PROVE  /\ Effective(typed, fallback) \in Configs
           /\ ~HasErrors(typed) => Effective(typed, fallback) = typed
  BY DEF Effective, Typed, Configs, HasErrors

LEMMA ParseKeeps ==
    ASSUME GenerationsInv, NEW p \in Procs, Parse(p) PROVE GenerationsInv'
  <1> PICK cfg : cfg = Effective(job[p].raw, Fallback)
    OBVIOUS
  <1> PICK record : record = [job[p] EXCEPT !.cfg = cfg]
    OBVIOUS
  <1> PICK rest : rest = SubSeq(job[p].todo, 3 + 1, Len(job[p].todo))
    OBVIOUS
  <1>1. At(p, "parse") /\ UNCHANGED <<sheet, snapshots, score, history>>
    BY DEF Parse
  <1>2. /\ job[p] # Idle /\ job[p] \in Busy /\ Planned(job[p])
        /\ ~overlapped => Holds(p)
    BY <1>1, AtBusy
  <1>3. job[p].raw \in Typed /\ Fallback \in Configs
    BY <1>2, ActiveIs DEF Busy, GenerationsInv
  <1>4. cfg \in Configs /\ (~HasErrors(job[p].raw) => cfg = job[p].raw)
    BY <1>3, EffectiveIs
  <1>5. record \in Busy /\ record.kind = job[p].kind /\ record.cfg = cfg
    BY <1>2, <1>4 DEF Busy
  <1>6. CASE HasErrors(job[p].raw)
    <2>1. rest = SubSeq(job[p].todo, 4, Len(job[p].todo))
      OBVIOUS
    <2>2. GoTo(p, record, rest)
      BY <1>6, <2>1 DEF Parse
    <2> QED BY <1>1, <1>5, <2>2, SkipKeeps
  <1>7. CASE ~HasErrors(job[p].raw)
    <2>1. Goes(p, record)
      BY <1>7 DEF Parse
    <2>2. Became(p, record, After(p)) /\ Left(p, After(p))
      BY <1>1, <1>5, <2>1, GoesIs
    <2>3. job[p].kind # "admin" /\ After(p) # <<>> /\ After(p)[1] = "insert"
      BY <1>1, <1>2, NextIs, ChangeStageIs DEF Follows
    <2>4. \A a : At(p, a)' <=> a = "insert"
      BY <2>2, <2>3, AtIs
    <2>5. ~overlapped => Honoured(cfg)
      BY <1>1, <1>2, <1>4, <1>7 DEF Holds
    <2>6. job'[p].cfg = cfg /\ job'[p].kind # "admin" /\ saved' = saved
      BY <1>1, <1>5, <2>2, <2>3 DEF Became, history
    <2>7. ~overlapped => Holds(p)'
      BY <2>4, <2>5, <2>6 DEF Holds, Honoured
    <2>8. job' = [job EXCEPT ![p] = job'[p]] /\ GoesOn(p, job'[p])
      BY <2>2 DEF Became
    <2> QED BY <1>1, <1>2, <2>7, <2>8, StepKeeps, RestStays
  <1> QED BY <1>6, <1>7

LEMMA InsertKeeps ==
    ASSUME GenerationsInv, NEW p \in Procs, Insert(p) PROVE GenerationsInv'
  <1> PICK cfg : cfg = job[p].cfg
    OBVIOUS
  <1>1. /\ At(p, "insert") /\ Goes(p, job[p]) /\ good' = good \cup {cfg}
        /\ created' = IF cfg \in Range(created) THEN created ELSE Append(created, cfg)
        /\ UNCHANGED <<sheet, score, edits, crashes, overlapped, saved>>
    BY DEF Insert, GoOn, history
  <1>2. /\ job[p] # Idle /\ job[p] \in Busy /\ Planned(job[p]) /\ cfg \in Configs
        /\ ~overlapped => Holds(p)
    BY <1>1, AtBusy DEF Busy
  <1>3. Became(p, job[p], After(p)) /\ Left(p, After(p))
    BY <1>1, <1>2, GoesIs
  <1>4. After(p) # <<>> /\ After(p)[1] = "demote"
    <2>1. /\ After(p) = <<>> => "insert" \in {"demote", "bulk", "ping"}
          /\ After(p) # <<>> => Follows("insert", After(p)[1])
      BY <1>1, <1>2, NextIs, Zenon
    <2> QED BY <2>1 DEF Follows
  <1>5. \A a : At(p, a)' <=> a = "demote"
    BY <1>3, <1>4, AtIs
  <1>6. ~overlapped => Honoured(cfg)
    BY <1>1, <1>2 DEF Holds
  <1>7. /\ job'[p].cfg = cfg /\ job'[p].kind = job[p].kind
        /\ job'[p].field = job[p].field /\ job'[p].value = job[p].value
    BY <1>3, <1>4 DEF Became
  <1>8. ~overlapped => Holds(p)'
    <2>1. ~overlapped => (job[p].kind = "admin" =>
              /\ cfg[job[p].field] = job[p].value
              /\ saved[job[p].field] \in {None, Bad}
              /\ saved[job[p].field] # Bad => sheet[job[p].field] = job[p].value)
      <3> SUFFICES ASSUME ~overlapped, job[p].kind = "admin"
                   PROVE  /\ cfg[job[p].field] = job[p].value
                          /\ saved[job[p].field] \in {None, Bad}
                          /\ saved[job[p].field] # Bad => sheet[job[p].field] = job[p].value
        OBVIOUS
      <3>1. ~At(p, "current") /\ ~At(p, "write")
        BY <1>1 DEF At
      <3> QED BY <1>2, <3>1 DEF Holds
    <2>2. saved' = saved /\ sheet' = sheet /\ cfg \in good'
      BY <1>1
    <2> QED BY <1>5, <1>6, <1>7, <2>1, <2>2 DEF Holds, Honoured
  <1>9. ~overlapped => SavedFit'
    BY <1>1, <1>6 DEF GenerationsInv, SavedStands, SavedFit, Honoured
  <1>10. job' \in [Procs -> Busy \cup {Idle}] => TypeOK'
    <2>1. created \in Seq(Configs) /\ good \subseteq Range(created)
      BY DEF GenerationsInv, TypeOK
    <2>2. created' \in Seq(Configs) /\ Range(created') = Range(created) \cup {cfg}
      <3>1. CASE cfg \in Range(created)
        BY <1>1, <2>1, <3>1
      <3>2. CASE cfg \notin Range(created)
        BY <1>1, <1>2, <2>1, <3>2 DEF Range
      <3> QED BY <3>1, <3>2
    <2> QED BY <1>1, <2>1, <2>2 DEF GenerationsInv, TypeOK
  <1>11. job' = [job EXCEPT ![p] = job'[p]] /\ GoesOn(p, job'[p])
    BY <1>3 DEF Became
  <1> QED BY <1>1, <1>2, <1>8, <1>9, <1>10, <1>11, StepKeeps

LEMMA DemoteKeeps ==
    ASSUME GenerationsInv, NEW p \in Procs, Demote(p) PROVE GenerationsInv'
  <1> PICK cfg : cfg = job[p].cfg
    OBVIOUS
  <1>1. /\ At(p, "demote") /\ Goes(p, job[p]) /\ good' = good \cap {cfg}
        /\ UNCHANGED <<sheet, created, score, edits, crashes, overlapped, saved>>
    BY DEF Demote, GoOn, history
  <1>2. /\ job[p] # Idle /\ job[p] \in Busy /\ Planned(job[p])
        /\ ~overlapped => Holds(p)
    BY <1>1, AtBusy
  <1>3. Became(p, job[p], After(p)) /\ Left(p, After(p))
    BY <1>1, <1>2, GoesIs
  <1>4. /\ After(p) # <<>> => After(p)[1] \in {"score", "bulk", "reread", "gate"}
        /\ job[p].kind = "admin" => After(p) # <<>> /\ After(p)[1] = "bulk"
    BY <1>1, <1>2, NextIs, ChangeStageIs DEF Follows
  <1>5. \A a : At(p, a)' <=> After(p) # <<>> /\ After(p)[1] = a
    BY <1>3, AtIs
  <1>6. ~overlapped => Honoured(cfg) /\ good' = {cfg}
    BY <1>1, <1>2 DEF Holds
  <1>7. After(p) # <<>> =>
          /\ job'[p].cfg = cfg /\ job'[p].kind = job[p].kind
          /\ job'[p].field = job[p].field /\ job'[p].value = job[p].value
    BY <1>3 DEF Became
  <1>8. ~overlapped => Holds(p)'
    <2>1. ~overlapped => (job[p].kind = "admin" =>
              /\ cfg[job[p].field] = job[p].value
              /\ saved[job[p].field] \in {None, Bad}
              /\ saved[job[p].field] # Bad => sheet[job[p].field] = job[p].value)
      <3> SUFFICES ASSUME ~overlapped, job[p].kind = "admin"
                   PROVE  /\ cfg[job[p].field] = job[p].value
                          /\ saved[job[p].field] \in {None, Bad}
                          /\ saved[job[p].field] # Bad => sheet[job[p].field] = job[p].value
        OBVIOUS
      <3>1. ~At(p, "current") /\ ~At(p, "write")
        BY <1>1 DEF At
      <3> QED BY <1>2, <3>1 DEF Holds
    <2>2. saved' = saved /\ sheet' = sheet
      BY <1>1
    <2>3. CASE After(p) = <<>>
      BY <1>3, <2>3 DEF Became, Holds, At, Idle
    <2>4. CASE After(p) # <<>>
      BY <1>4, <1>5, <1>6, <1>7, <2>1, <2>2, <2>4 DEF Holds
    <2> QED BY <2>3, <2>4
  <1>9. ~overlapped => SavedFit'
    BY <1>1, <1>6 DEF GenerationsInv, SavedStands, SavedFit, Honoured
  <1>10. job' \in [Procs -> Busy \cup {Idle}] => TypeOK'
    BY <1>1 DEF GenerationsInv, TypeOK
  <1>11. job' = [job EXCEPT ![p] = job'[p]] /\ GoesOn(p, job'[p])
    BY <1>3 DEF Became
  <1> QED BY <1>1, <1>2, <1>8, <1>9, <1>10, <1>11, StepKeeps

LEMMA ScoreCompanyKeeps ==
    ASSUME GenerationsInv, NEW p \in Procs, NEW c \in Companies, ScoreCompany(p, c)
    PROVE  GenerationsInv'
  <1>1. /\ At(p, "score") /\ c \in job[p].left
        /\ score' = [score EXCEPT ![c] =
                        [f \in Funds |-> IF f \in job[p].scope THEN job[p].cfg ELSE score[c][f]]]
        /\ UNCHANGED <<sheet, created, good, edits, crashes, overlapped, saved>>
    BY DEF ScoreCompany, snapshots, history, GenerationsInv, TypeOK
  <1>2. job[p] # Idle /\ job[p] \in Busy /\ Planned(job[p])
    BY <1>1, AtBusy
  <1>3. job[p].kind # "admin"
    BY <1>1, <1>2, ChangeStageIs
  <1>4. ~overlapped => SavedFit'
    BY <1>1 DEF GenerationsInv, SavedStands, SavedFit, Honoured
  <1>5. job' \in [Procs -> Busy \cup {Idle}] => TypeOK'
    <2>1. job[p].cfg \in Configs /\ score \in [Companies -> [Funds -> Configs \cup {None}]]
      BY <1>2 DEF Busy, GenerationsInv, TypeOK
    <2>2. score' \in [Companies -> [Funds -> Configs \cup {None}]]
      BY <1>1, <2>1
    <2> QED BY <1>1, <2>2 DEF GenerationsInv, TypeOK
  <1>6. CASE job[p].left = {c}
    <2>1. Goes(p, job[p])
      BY <1>6 DEF ScoreCompany, GoOn
    <2>2. After(p) # <<>> => After(p)[1] = "reread"
      BY <1>1, <1>2, NextIs DEF Follows
    <2> QED BY <1>1, <1>2, <1>3, <1>4, <1>5, <2>1, <2>2, PlainKeeps
  <1>7. CASE job[p].left # {c}
    <2> PICK new : new = [job[p] EXCEPT !.left = job[p].left \ {c}]
      OBVIOUS
    <2>1. job' = [job EXCEPT ![p] = new]
      BY <1>7 DEF ScoreCompany, GenerationsInv, TypeOK
    <2>2. new \in Busy /\ new.kind = job[p].kind /\ new.todo = job[p].todo
      BY <1>2 DEF Busy
    <2>3. job'[p] = new /\ job' = [job EXCEPT ![p] = job'[p]]
      BY <2>1 DEF GenerationsInv, TypeOK
    <2>4. Left(p, new.todo) /\ new.todo # <<>>
      <3>1. new.todo # <<>>
        BY <1>1, <2>2 DEF At
      <3> QED BY <1>2, <2>2, <3>1 DEF Planned, Left
    <2>5. GoesOn(p, job'[p])
      BY <2>2, <2>3, <2>4 DEF GoesOn
    <2>6. Holds(p)'
      <3>1. \A a : At(p, a)' <=> At(p, a)
        BY <2>2, <2>3 DEF At
      <3>2. \A a : At(p, a) => a = "score"
        BY <1>1 DEF At
      <3> QED BY <1>3, <2>2, <2>3, <3>1, <3>2 DEF Holds
    <2> QED BY <1>1, <1>2, <1>4, <1>5, <2>3, <2>5, <2>6, StepKeeps
  <1> QED BY <1>6, <1>7

LEMMA BulkKeeps ==
    ASSUME GenerationsInv, NEW p \in Procs, Bulk(p) PROVE GenerationsInv'
  <1>1. /\ At(p, "bulk") /\ Goes(p, job[p])
        /\ score' = [c \in Companies |-> [f \in Funds |-> job[p].cfg]]
        /\ UNCHANGED <<sheet, created, good, edits, crashes, overlapped>>
    BY DEF Bulk, GoOn, snapshots
  <1>2. /\ job[p] # Idle /\ job[p] \in Busy /\ Planned(job[p])
        /\ ~overlapped => Holds(p)
    BY <1>1, AtBusy
  <1>3. job[p].field \in Fields /\ job[p].value \in Values /\ job[p].cfg \in Configs
    BY <1>2 DEF Busy
  <1>4. saved' \in [Fields -> Values \cup {None, Bad}]
    BY <1>3 DEF Bulk, GenerationsInv, TypeOK
  <1>5. job' \in [Procs -> Busy \cup {Idle}] => TypeOK'
    <2>1. score' \in [Companies -> [Funds -> Configs \cup {None}]]
      BY <1>1, <1>3
    <2> QED BY <1>1, <1>4, <2>1 DEF GenerationsInv, TypeOK
  <1>6. CASE job[p].kind # "admin"
    <2>1. saved' = saved
      BY <1>6 DEF Bulk
    <2>2. ~overlapped => SavedFit'
      BY <1>1, <2>1 DEF GenerationsInv, SavedStands, SavedFit, Honoured
    <2>3. After(p) # <<>> => After(p)[1] = "regate"
      BY <1>1, <1>2, NextIs DEF Follows
    <2> QED BY <1>1, <1>2, <1>5, <1>6, <2>2, <2>3, PlainKeeps
  <1>7. CASE job[p].kind = "admin"
    <2>1. After(p) = <<>>
      BY <1>1, <1>2, <1>7, ChangeStageIs
    <2>2. Became(p, job[p], After(p))
      BY <1>1, <1>2, GoesIs
    <2>3. job' = [job EXCEPT ![p] = Idle]
      BY <2>1, <2>2 DEF Became
    <2>4. ASSUME ~overlapped PROVE SavedFit'
      <3>1. ~At(p, "current") /\ ~At(p, "write")
        BY <1>1 DEF At
      <3>2. /\ job[p].cfg[job[p].field] = job[p].value /\ good = {job[p].cfg}
            /\ saved[job[p].field] # Bad => sheet[job[p].field] = job[p].value
        BY <1>1, <1>2, <1>7, <2>4, <3>1 DEF Holds
      <3>3. Honoured(sheet) /\ \A g \in good : Honoured(g)
        BY <2>4 DEF GenerationsInv, SavedStands
      <3>4. \A x \in Fields : saved'[x] \in Values =>
                \/ saved'[x] = saved[x]
                \/ x = job[p].field /\ saved'[x] = job[p].value /\ saved[x] # Bad
        BY <1>3 DEF Bulk, GenerationsInv, TypeOK
      <3>5. \A x \in Fields : saved'[x] \in Values =>
                sheet[x] = saved'[x] /\ job[p].cfg[x] = saved'[x]
        BY <3>2, <3>3, <3>4 DEF Honoured
      <3> QED BY <1>1, <3>2, <3>5 DEF SavedFit, Honoured
    <2> QED BY <1>1, <1>2, <1>5, <2>3, <2>4, EndKeeps
  <1> QED BY <1>6, <1>7

LEMMA CurrentKeeps ==
    ASSUME GenerationsInv, NEW p \in Procs, Current(p) PROVE GenerationsInv'
  <1>1. At(p, "current") /\ UNCHANGED <<sheet, snapshots, score, history>>
    BY DEF Current
  <1>2. /\ job[p] # Idle /\ job[p] \in Busy /\ Planned(job[p])
        /\ Fallback \in Configs
    BY <1>1, AtBusy, ActiveIs DEF GenerationsInv
  <1>3. /\ overlapped' = overlapped
        /\ ~overlapped => SavedFit'
        /\ job' \in [Procs -> Busy \cup {Idle}] => TypeOK'
    BY <1>1, RestStays
  <1>4. CASE job[p].kind # "admin"
    <2> PICK record : record = [job[p] EXCEPT !.cfg = Fallback]
      OBVIOUS
    <2>1. record \in Busy /\ record.kind = job[p].kind
      BY <1>2 DEF Busy
    <2>2. Goes(p, record)
      BY <1>4 DEF Current
    <2>3. After(p) # <<>> => After(p)[1] = "bulk"
      BY <1>1, <1>2, <1>4, NextIs DEF Follows
    <2> QED BY <1>1, <1>2, <1>3, <1>4, <2>1, <2>2, <2>3, PlainKeeps
  <1>5. CASE job[p].kind = "admin" /\ Fallback[job[p].field] = job[p].value
    <2>1. job' = [job EXCEPT ![p] = Idle]
      BY <1>5 DEF Current, GoTo
    <2> QED BY <1>2, <1>3, <2>1, EndKeeps
  <1>6. CASE job[p].kind = "admin" /\ Fallback[job[p].field] # job[p].value
    <2> PICK cfg : cfg = [Fallback EXCEPT ![job[p].field] = job[p].value]
      OBVIOUS
    <2> PICK record : record = [job[p] EXCEPT !.cfg = cfg]
      OBVIOUS
    <2>1. job[p].field \in Fields /\ job[p].value \in Values
      BY <1>2 DEF Busy
    <2>2. /\ cfg \in Configs /\ cfg[job[p].field] = job[p].value
          /\ \A x \in Fields \ {job[p].field} : cfg[x] = Fallback[x]
      BY <1>2, <2>1 DEF Configs
    <2>3. /\ record \in Busy /\ record.kind = job[p].kind /\ record.cfg = cfg
          /\ record.field = job[p].field /\ record.value = job[p].value
      BY <1>2, <2>2 DEF Busy
    <2>4. Goes(p, record)
      BY <1>6 DEF Current
    <2>5. Became(p, record, After(p)) /\ Left(p, After(p))
      BY <1>1, <2>3, <2>4, GoesIs
    <2>6. After(p) # <<>> /\ After(p)[1] = "write"
      BY <1>1, <1>2, <1>6, ChangeStageIs
    <2>7. \A a : At(p, a)' <=> a = "write"
      BY <2>5, <2>6, AtIs
    <2>8. /\ job'[p].cfg = cfg /\ job'[p].field = job[p].field
          /\ job'[p].value = job[p].value /\ saved' = saved
      BY <1>1, <2>3, <2>5, <2>6 DEF Became, history
    <2>9. ~overlapped =>
              \A x \in Fields \ {job[p].field} : saved[x] \in Values => cfg[x] = saved[x]
      <3>1. ~overlapped => Honoured(Fallback)
        BY ActiveIs DEF GenerationsInv, SavedStands, Fallback
      <3> QED BY <2>2, <3>1 DEF Honoured
    <2>10. ~overlapped => Holds(p)'
      BY <2>2, <2>7, <2>8, <2>9 DEF Holds
    <2>11. job' = [job EXCEPT ![p] = job'[p]] /\ GoesOn(p, job'[p])
      BY <2>5 DEF Became
    <2> QED BY <1>2, <1>3, <2>10, <2>11, StepKeeps
  <1> QED BY <1>4, <1>5, <1>6

LEMMA WriteCellKeeps ==
    ASSUME GenerationsInv, NEW p \in Procs, WriteCell(p) PROVE GenerationsInv'
  <1>1. /\ At(p, "write") /\ Goes(p, job[p])
        /\ sheet' = [sheet EXCEPT ![job[p].field] = job[p].value]
        /\ saved' = [saved EXCEPT ![job[p].field] = None]
        /\ UNCHANGED <<created, good, score, edits, crashes, overlapped>>
    BY DEF WriteCell, GoOn, snapshots
  <1>2. /\ job[p] # Idle /\ job[p] \in Busy /\ Planned(job[p])
        /\ ~overlapped => Holds(p)
    BY <1>1, AtBusy
  <1>3. job[p].kind = "admin"
    BY <1>1, <1>2, NextIs
  <1>4. job[p].field \in Fields /\ job[p].value \in Values
    BY <1>2 DEF Busy
  <1>5. sheet \in Typed /\ saved \in [Fields -> Values \cup {None, Bad}] /\ None \notin Values
    BY ConstantsAssumption DEF GenerationsInv, TypeOK
  <1>6. /\ sheet' \in Typed /\ saved' \in [Fields -> Values \cup {None, Bad}]
        /\ saved'[job[p].field] = None /\ sheet'[job[p].field] = job[p].value
        /\ \A x \in Fields \ {job[p].field} : saved'[x] = saved[x] /\ sheet'[x] = sheet[x]
    BY <1>1, <1>4, <1>5 DEF Typed
  <1>7. job' \in [Procs -> Busy \cup {Idle}] => TypeOK'
    BY <1>1, <1>6 DEF GenerationsInv, TypeOK
  <1>8. ~overlapped => SavedFit'
    BY <1>1, <1>5, <1>6 DEF GenerationsInv, SavedStands, SavedFit, Honoured
  <1>9. Became(p, job[p], After(p)) /\ Left(p, After(p))
    BY <1>1, <1>2, GoesIs
  <1>10. After(p) # <<>> /\ After(p)[1] = "insert"
    BY <1>1, <1>2, <1>3, ChangeStageIs
  <1>11. \A a : At(p, a)' <=> a = "insert"
    BY <1>9, <1>10, AtIs
  <1>12. /\ job'[p].cfg = job[p].cfg /\ job'[p].field = job[p].field
         /\ job'[p].value = job[p].value
    BY <1>9, <1>10 DEF Became
  <1>13. ~overlapped => Holds(p)'
    <2>1. ~overlapped =>
              /\ job[p].cfg[job[p].field] = job[p].value
              /\ \A x \in Fields \ {job[p].field} : saved[x] \in Values => job[p].cfg[x] = saved[x]
      <3>1. ~At(p, "current")
        BY <1>1 DEF At
      <3> QED BY <1>1, <1>2, <1>3, <3>1 DEF Holds
    <2>2. ~overlapped => \A x \in Fields : saved'[x] \in Values => job[p].cfg[x] = saved'[x]
      BY <1>5, <1>6, <2>1
    <2> QED BY <1>6, <1>11, <1>12, <2>1, <2>2 DEF Holds, Honoured
  <1>14. job' = [job EXCEPT ![p] = job'[p]] /\ GoesOn(p, job'[p])
    BY <1>9 DEF Became
  <1> QED BY <1>1, <1>2, <1>7, <1>8, <1>13, <1>14, StepKeeps

LEMMA WriteFailsKeeps ==
    ASSUME GenerationsInv, NEW p \in Procs, WriteFails(p) PROVE GenerationsInv'
  <1>1. /\ At(p, "write") /\ job' = [job EXCEPT ![p] = Idle]
        /\ UNCHANGED <<created, good, score, edits, crashes, overlapped>>
    BY DEF WriteFails, GoTo, snapshots
  <1>2. job[p] # Idle /\ job[p] \in Busy
    BY <1>1, AtBusy
  <1>3. job[p].field \in Fields /\ job[p].value \in Values
    BY <1>2 DEF Busy
  <1>4. sheet \in Typed /\ saved \in [Fields -> Values \cup {None, Bad}] /\ None \notin Values
    BY ConstantsAssumption DEF GenerationsInv, TypeOK
  <1>5. /\ sheet' \in Typed /\ saved' \in [Fields -> Values \cup {None, Bad}]
        /\ \A x \in Fields : saved'[x] \in Values => saved'[x] = saved[x] /\ sheet'[x] = sheet[x]
    BY <1>3, <1>4 DEF WriteFails, Typed
  <1>6. job' \in [Procs -> Busy \cup {Idle}] => TypeOK'
    BY <1>1, <1>5 DEF GenerationsInv, TypeOK
  <1>7. ~overlapped => SavedFit'
    BY <1>1, <1>5 DEF GenerationsInv, SavedStands, SavedFit, Honoured
  <1> QED BY <1>1, <1>2, <1>6, <1>7, EndKeeps

\* A gate that finds nothing wrong lets the operation go on, to the message or not.
LEMMA NoDriftKeeps ==
    ASSUME GenerationsInv, NEW p \in Procs, NEW s, At(p, s), job[p].kind # "admin", ~Drift,
           After(p) # <<>>, After(p)[1] \in {"read", "ping"}, Goes(p, job[p]),
           UNCHANGED <<sheet, snapshots, score, history>>
    PROVE  GenerationsInv'
  <1>1. job[p] # Idle /\ job[p] \in Busy /\ Planned(job[p])
    BY AtBusy
  <1>2. Became(p, job[p], After(p)) /\ Left(p, After(p))
    BY <1>1, GoesIs
  <1>3. \A a : At(p, a)' => a \in {"read", "ping"}
    BY <1>2, AtIs
  <1>4. ~Drift'
    BY DEF Drift, Active, Scored, snapshots
  <1>5. job'[p].kind # "admin"
    BY <1>2 DEF Became
  <1>6. Holds(p)'
    BY <1>3, <1>4, <1>5 DEF Holds
  <1>7. job' = [job EXCEPT ![p] = job'[p]] /\ GoesOn(p, job'[p])
    BY <1>2 DEF Became
  <1> QED BY <1>1, <1>6, <1>7, StepKeeps, RestStays

LEMMA GateKeeps ==
    ASSUME GenerationsInv, NEW p \in Procs, Gate(p) PROVE GenerationsInv'
  <1>1. At(p, "gate") /\ UNCHANGED <<sheet, snapshots, score, history>>
    BY DEF Gate
  <1>2. job[p] # Idle /\ job[p] \in Busy /\ Planned(job[p])
    BY <1>1, AtBusy
  <1>3. /\ job[p].kind # "admin" /\ Left(p, After(p)) /\ Len(After(p)) <= 10
        /\ After(p) # <<>> /\ After(p)[1] \in {"read", "ping"}
    BY <1>1, <1>2, NextIs, ChangeStageIs DEF Follows
  <1>4. /\ overlapped' = overlapped
        /\ ~overlapped => SavedFit'
        /\ job' \in [Procs -> Busy \cup {Idle}] => TypeOK'
    BY <1>1, RestStays
  <1>5. CASE Drift
    <2> PICK rest : rest = Heal \o After(p)
      OBVIOUS
    <2>1. WellPlanned(After(p)) /\ NotOfChange(After(p))
      BY <1>3 DEF Left
    <2>2. WellPlanned(rest) /\ NotOfChange(rest) /\ rest[1] = "read"
      BY <1>3, <2>1, HealPlanned
    <2>3. Left(p, rest)
      BY <1>3, <2>2 DEF Left
    <2>4. TypeOK /\ job' = [job EXCEPT ![p] = IF rest = <<>> THEN Idle
                                             ELSE [job[p] EXCEPT !.todo = rest]]
      BY <1>5 DEF Gate, GoTo, After, GenerationsInv
    <2>5. Became(p, job[p], rest)
      BY ONLY <1>2, <2>3, <2>4, p \in Procs, BecomesIs, Zenon
    <2>6. Holds(p)'
      BY <1>3, <2>2, <2>3, <2>5, NothingHeld
    <2>7. job' = [job EXCEPT ![p] = job'[p]] /\ GoesOn(p, job'[p])
      BY <2>5 DEF Became
    <2> QED BY <1>2, <1>4, <2>6, <2>7, StepKeeps
  <1>6. CASE ~Drift
    <2>1. Goes(p, job[p])
      BY <1>6 DEF Gate, GoOn
    <2> QED BY <1>1, <1>2, <1>3, <1>6, <2>1, NoDriftKeeps
  <1> QED BY <1>5, <1>6

LEMMA RegateKeeps ==
    ASSUME GenerationsInv, NEW p \in Procs, Regate(p) PROVE GenerationsInv'
  <1>1. At(p, "regate") /\ UNCHANGED <<sheet, snapshots, score, history>>
    BY DEF Regate
  <1>2. job[p] # Idle /\ job[p] \in Busy /\ Planned(job[p])
    BY <1>1, AtBusy
  <1>3. job[p].kind # "admin" /\ After(p) # <<>> /\ After(p)[1] \in {"read", "ping"}
    BY <1>1, <1>2, NextIs, ChangeStageIs DEF Follows
  <1>4. CASE Drift
    <2>1. job' = [job EXCEPT ![p] = Idle]
      BY <1>4 DEF Regate, GoTo
    <2> QED BY <1>1, <1>2, <2>1, EndKeeps, RestStays
  <1>5. CASE ~Drift
    <2>1. Goes(p, job[p])
      BY <1>5 DEF Regate, GoOn
    <2> QED BY <1>1, <1>2, <1>3, <1>5, <2>1, NoDriftKeeps
  <1> QED BY <1>4, <1>5

LEMMA RefuseKeeps ==
    ASSUME GenerationsInv, NEW p \in Procs, Refuse(p) PROVE GenerationsInv'
  <1>1. /\ At(p, "gate") \/ At(p, "regate")
        /\ UNCHANGED <<sheet, snapshots, score, history>> /\ job' = [job EXCEPT ![p] = Idle]
    BY DEF Refuse, GoTo
  <1>2. job[p] # Idle
    BY <1>1 DEF At, Idle
  <1> QED BY <1>1, <1>2, EndKeeps, RestStays

LEMMA PingKeeps ==
    ASSUME GenerationsInv, NEW p \in Procs, Ping(p) PROVE GenerationsInv'
  <1>1. At(p, "ping") /\ UNCHANGED <<sheet, snapshots, score, history>> /\ Goes(p, job[p])
    BY DEF Ping, GoOn
  <1>2. job[p] # Idle /\ job[p] \in Busy /\ Planned(job[p])
    BY <1>1, AtBusy
  <1>3. After(p) = <<>>
    BY <1>1, <1>2, NextIs DEF Follows
  <1>4. Became(p, job[p], After(p))
    BY <1>1, <1>2, GoesIs
  <1>5. job' = [job EXCEPT ![p] = Idle]
    BY <1>3, <1>4 DEF Became
  <1> QED BY <1>1, <1>2, <1>5, EndKeeps, RestStays

LEMMA DieKeeps ==
    ASSUME GenerationsInv, NEW p \in Procs, Die(p) PROVE GenerationsInv'
  <1>1. /\ job[p] # Idle /\ job' = [job EXCEPT ![p] = Idle]
        /\ crashes' = crashes + 1 /\ crashes < MaxCrashes
        /\ UNCHANGED <<sheet, created, good, score, edits, overlapped, saved>>
    BY DEF Die, snapshots
  <1>2. crashes' \in 0..MaxCrashes
    BY <1>1, ConstantsAssumption DEF GenerationsInv, TypeOK
  <1>3. job' \in [Procs -> Busy \cup {Idle}] => TypeOK'
    BY <1>1, <1>2 DEF GenerationsInv, TypeOK
  <1>4. ~overlapped => SavedFit'
    BY <1>1 DEF GenerationsInv, SavedStands, SavedFit, Honoured
  <1> QED BY <1>1, <1>3, <1>4, EndKeeps

LEMMA EditKeeps ==
    ASSUME GenerationsInv, NEW x \in Fields, NEW v \in Values \cup Typos, Edit(x, v)
    PROVE  GenerationsInv'
  <1>1. /\ edits < MaxEdits /\ edits' = edits + 1
        /\ sheet' = [sheet EXCEPT ![x] = v] /\ saved' = [saved EXCEPT ![x] = Bad]
        /\ UNCHANGED <<created, good, score, job, crashes, overlapped>>
    BY DEF Edit, snapshots
  <1>2. /\ sheet \in Typed /\ saved \in [Fields -> Values \cup {None, Bad}]
        /\ Bad \notin Values /\ v \in Values \cup {Bad}
    BY ConstantsAssumption DEF GenerationsInv, TypeOK
  <1>3. /\ sheet' \in Typed /\ saved' \in [Fields -> Values \cup {None, Bad}]
        /\ saved'[x] = Bad
        /\ \A y \in Fields \ {x} : saved'[y] = saved[y] /\ sheet'[y] = sheet[y]
    BY <1>1, <1>2 DEF Typed
  <1>4. edits' \in 0..MaxEdits
    BY <1>1, ConstantsAssumption DEF GenerationsInv, TypeOK
  <1>5. TypeOK'
    BY <1>1, <1>3, <1>4 DEF GenerationsInv, TypeOK
  <1>6. AllPlanned' /\ OneAtATime'
    BY <1>1 DEF GenerationsInv, AllPlanned, Planned, OneAtATime
  <1>7. \A cfg : Honoured(cfg) => \A y \in Fields : saved'[y] \in Values => cfg[y] = saved'[y]
    BY <1>2, <1>3 DEF Honoured
  <1>8. SavedStands'
    <2>1. ~overlapped =>
             \A y \in Fields : saved'[y] \in Values => sheet'[y] = saved'[y]
      BY <1>2, <1>3 DEF GenerationsInv, SavedStands, Honoured
    <2> QED BY <1>1, <1>7, <2>1 DEF GenerationsInv, SavedStands, Honoured
  <1>9. AllHold'
    <2> SUFFICES ASSUME ~overlapped, NEW p \in Procs PROVE Holds(p)'
      BY <1>1 DEF AllHold
    <2>1. Holds(p) /\ job' = job /\ good' = good
      BY <1>1 DEF GenerationsInv, AllHold
    <2>2. \A a : At(p, a)' <=> At(p, a)
      BY <1>1 DEF At
    <2>3. Drift' <=> Drift
      BY <1>1 DEF Drift, Active, Scored
    <2>4. job[p] # Idle => job[p].field \in Fields
      BY DEF GenerationsInv, TypeOK, Busy
    <2>5. job[p] # Idle =>
            /\ saved[job[p].field] \in {None, Bad} => saved'[job[p].field] \in {None, Bad}
            /\ (saved[job[p].field] # Bad => sheet[job[p].field] = job[p].value) =>
                  (saved'[job[p].field] # Bad => sheet'[job[p].field] = job[p].value)
      BY <1>3, <2>4
    <2>6. \A y \in Fields : saved'[y] \in Values => saved'[y] = saved[y]
      BY <1>2, <1>3
    <2>7. \A cfg : Honoured(cfg) => Honoured(cfg)'
      BY <2>6 DEF Honoured
    <2> QED BY <2>1, <2>2, <2>3, <2>5, <2>6, <2>7 DEF Holds
  <1> QED BY <1>5, <1>6, <1>8, <1>9 DEF GenerationsInv

\* An operation starts; if another is in progress, they overlap from now on.
LEMMA OperationBegins ==
    ASSUME GenerationsInv, NEW p \in Procs, job[p] = Idle,
           NEW kind \in JobKinds, NEW new \in Busy, new.kind = kind, new.todo = Plan(kind),
           job' = [job EXCEPT ![p] = new],
           overlapped' = (overlapped \/ \E q \in Procs \ {p} : job[q] # Idle),
           edits' \in 0..MaxEdits,
           UNCHANGED <<sheet, snapshots, score, crashes, saved>>
    PROVE  GenerationsInv'
  <1>1. UNCHANGED <<sheet, created, good, score, crashes, saved>>
    BY DEF snapshots
  <1>2. /\ job \in [Procs -> Busy \cup {Idle}] /\ job'[p] = new
        /\ \A q \in Procs \ {p} : job'[q] = job[q]
        /\ job' \in [Procs -> Busy \cup {Idle}]
    BY DEF GenerationsInv, TypeOK
  <1>3. overlapped' \in BOOLEAN
    BY Zenon
  <1>4. TypeOK'
    BY <1>1, <1>2, <1>3 DEF GenerationsInv, TypeOK
  <1>5. Planned(new) /\ new.todo # <<>>
    <2>1. WellPlanned(new.todo)
          /\ IF new.kind = "admin" THEN OfChange(new.todo) ELSE NotOfChange(new.todo)
      BY PlansArePlanned
    <2>2. new.todo # <<>>
      <3>1. Len(new.todo) \in 1..16 /\ \A n \in 1..16 : n # 0
        BY DEF Busy, MaxStages
      <3>2. Len(new.todo) # 0
        BY <3>1, Zenon
      <3> QED BY <3>2, EmptySeq, Zenon
    <2> QED BY <2>1, <2>2 DEF Planned
  <1>6. AllPlanned'
    BY <1>2, <1>5 DEF GenerationsInv, AllPlanned, Planned
  <1>7. ~overlapped' => ~overlapped /\ \A q \in Procs \ {p} : job'[q] = Idle
    BY <1>2, Zenon
  <1>8. OneAtATime'
    BY <1>7 DEF OneAtATime
  <1>9. SavedStands'
    BY <1>1, <1>7 DEF GenerationsInv, SavedStands, Honoured
  <1>10. Holds(p)'
    <2>1. /\ new.todo[1] \in {"read", "reread", "gate", "current"}
          /\ new.kind = "admin" => new.todo[1] = "current"
      BY PlansArePlanned
    <2>2. \A a : At(p, a)' <=> new.todo[1] = a
      BY <1>2, <1>5 DEF At, Busy
    <2>3. \A a : At(p, a)' => a \in {"read", "reread", "gate", "current"}
      BY <2>1, <2>2
    <2>4. job'[p].kind = "admin" => At(p, "current")'
      BY <1>2, <2>1, <2>2
    <2>5. /\ ~At(p, "parse")' /\ ~At(p, "write")' /\ ~At(p, "insert")'
          /\ ~At(p, "demote")' /\ ~At(p, "ping")' /\ ~At(p, "bulk")'
      BY <2>3
    <2> QED BY <2>4, <2>5 DEF Holds
  <1>11. ASSUME NEW q \in Procs, job'[q] = Idle PROVE Holds(q)'
    BY <1>11 DEF Holds, At, Idle
  <1>12. AllHold'
    BY <1>7, <1>10, <1>11 DEF AllHold
  <1> QED BY <1>4, <1>6, <1>8, <1>9, <1>12 DEF GenerationsInv

LEMMA StartKeeps ==
    ASSUME GenerationsInv, NEW p \in Procs, NEW kind \in Kinds, Start(p, kind)
    PROVE  GenerationsInv'
  <1> PICK scope \in Scopes(kind) : job' = [job EXCEPT ![p] =
                    [kind |-> kind, todo |-> Plan(kind), raw |-> sheet, cfg |-> Default,
                     left |-> Companies, scope |-> scope,
                     field |-> CHOOSE x \in Fields : TRUE,
                     value |-> CHOOSE v \in Values : TRUE]]
    BY DEF Start
  <1> PICK x, v : x = (CHOOSE y \in Fields : TRUE) /\ v = (CHOOSE w \in Values : TRUE)
    OBVIOUS
  <1> PICK new : new = [kind |-> kind, todo |-> Plan(kind), raw |-> sheet, cfg |-> Default,
                        left |-> Companies, scope |-> scope, field |-> x, value |-> v]
    OBVIOUS
  <1>1. x \in Fields /\ v \in Values
    BY ConstantsAssumption
  <1>2. kind \in JobKinds /\ scope \in SUBSET Funds
    BY ConstantsAssumption DEF Scopes
  <1>3. Plan(kind) \in {t \in Seq(Stages) : Len(t) \in 1..MaxStages}
    BY <1>2, PlansArePlanned DEF WellPlanned
  <1>4. new \in Busy /\ new.kind = kind /\ new.todo = Plan(kind)
    BY <1>1, <1>2, <1>3, DefaultIs DEF Busy, GenerationsInv, TypeOK
  <1>5. /\ job[p] = Idle /\ job' = [job EXCEPT ![p] = new]
        /\ overlapped' = (overlapped \/ \E q \in Procs \ {p} : job[q] # Idle)
        /\ edits' = edits /\ UNCHANGED <<sheet, snapshots, score, crashes, saved>>
    BY DEF Start
  <1>6. edits' \in 0..MaxEdits
    BY <1>5 DEF GenerationsInv, TypeOK
  <1> QED BY <1>2, <1>4, <1>5, <1>6, OperationBegins

LEMMA ApplyKeeps ==
    ASSUME GenerationsInv, NEW p \in Procs, NEW x \in Fields, NEW v \in Values,
           "admin" \in Kinds, Apply(p, x, v)
    PROVE  GenerationsInv'
  <1> PICK new : new = [kind |-> "admin", todo |-> Plan("admin"), raw |-> sheet,
                        cfg |-> Default, left |-> Companies, scope |-> Funds,
                        field |-> x, value |-> v]
    OBVIOUS
  <1>1. "admin" \in JobKinds
    BY DEF JobKinds
  <1>2. Plan("admin") \in {t \in Seq(Stages) : Len(t) \in 1..MaxStages}
    BY <1>1, PlansArePlanned DEF WellPlanned
  <1>3. new \in Busy /\ new.kind = "admin" /\ new.todo = Plan("admin")
    BY <1>2, DefaultIs DEF Busy, GenerationsInv, TypeOK
  <1>4. /\ job[p] = Idle /\ job' = [job EXCEPT ![p] = new]
        /\ overlapped' = (overlapped \/ \E q \in Procs \ {p} : job[q] # Idle)
        /\ edits < MaxEdits /\ edits' = edits + 1
        /\ UNCHANGED <<sheet, snapshots, score, crashes, saved>>
    BY DEF Apply
  <1>5. edits' \in 0..MaxEdits
    BY <1>4, ConstantsAssumption DEF GenerationsInv, TypeOK
  <1> QED BY <1>1, <1>3, <1>4, <1>5, OperationBegins

LEMMA NothingKeeps ==
    ASSUME GenerationsInv, UNCHANGED vars PROVE GenerationsInv'
  <1>1. UNCHANGED <<sheet, created, good, score, job, edits, crashes, overlapped, saved>>
    BY DEF vars, snapshots, history
  <1>2. TypeOK' /\ AllPlanned' /\ OneAtATime' /\ SavedStands'
    BY <1>1 DEF GenerationsInv, TypeOK, AllPlanned, Planned, OneAtATime, SavedStands, Honoured
  <1>3. AllHold'
    <2>1. \A p, a : At(p, a)' <=> At(p, a)
      BY <1>1 DEF At
    <2>2. Drift' <=> Drift
      BY <1>1 DEF Drift, Active, Scored
    <2>3. \A cfg : Honoured(cfg)' <=> Honoured(cfg)
      BY <1>1 DEF Honoured
    <2> SUFFICES ASSUME ~overlapped, NEW p \in Procs PROVE Holds(p)'
      BY <1>1 DEF AllHold
    <2>4. Holds(p)
      BY DEF GenerationsInv, AllHold
    <2> QED BY <1>1, <2>1, <2>2, <2>3, <2>4 DEF Holds
  <1> QED BY <1>2, <1>3 DEF GenerationsInv

LEMMA GenerationsBegin == Init => GenerationsInv
  <1> SUFFICES ASSUME Init PROVE GenerationsInv
    OBVIOUS
  <1>1. Default \in Configs /\ Default \in Typed
    BY DefaultIs DEF Configs, Typed
  <1>2. /\ sheet = Default /\ created = <<Default>> /\ good = {Default}
        /\ score = [c \in Companies |-> [f \in Funds |-> Default]]
        /\ job = [p \in Procs |-> Idle] /\ edits = 0 /\ crashes = 0
        /\ overlapped = FALSE /\ saved = [x \in Fields |-> None]
    BY DEF Init
  <1>3. created \in Seq(Configs) /\ good \subseteq Range(created)
    BY <1>1, <1>2 DEF Range
  <1>4. /\ 0 \in 0..MaxEdits /\ 0 \in 0..MaxCrashes
        /\ score \in [Companies -> [Funds -> Configs \cup {None}]]
        /\ job \in [Procs -> Busy \cup {Idle}] /\ saved \in [Fields -> Values \cup {None, Bad}]
    BY <1>1, <1>2, ConstantsAssumption
  <1>5. TypeOK
    BY <1>1, <1>2, <1>3, <1>4 DEF TypeOK
  <1>6. \A p \in Procs : job[p] = Idle
    BY <1>2
  <1>7. \A cfg : Honoured(cfg)
    BY <1>2, ConstantsAssumption DEF Honoured
  <1>8. \A p \in Procs : Holds(p)
    BY <1>6 DEF Holds, At, Idle
  <1> QED BY <1>2, <1>5, <1>6, <1>7, <1>8
          DEF GenerationsInv, AllPlanned, OneAtATime, SavedStands, AllHold

LEMMA GenerationsStep == GenerationsInv /\ [Next]_vars => GenerationsInv'
  <1> SUFFICES ASSUME GenerationsInv, [Next]_vars PROVE GenerationsInv'
    OBVIOUS
  <1>1. ASSUME NEW p \in Procs, Step(p) PROVE GenerationsInv'
    BY <1>1, ReadSheetKeeps, SheetOutKeeps, ParseKeeps, InsertKeeps, DemoteKeeps,
       ScoreCompanyKeeps, BulkKeeps, CurrentKeeps, WriteCellKeeps, WriteFailsKeeps,
       GateKeeps, RegateKeeps, RefuseKeeps, NoSyncKeeps, PingKeeps, Zenon DEF Step
  <1>2. CASE UNCHANGED vars
    BY <1>2, NothingKeeps
  <1> QED BY <1>1, <1>2, DieKeeps, StartKeeps, ApplyKeeps, EditKeeps, Zenon DEF Next

\* The invariant gives what the runs check.
LEMMA GenerationsShow ==
    GenerationsInv => TypeOK /\ SavedChangeStays /\ OneConfigurationShown /\ PingMatchesToday
  <1> SUFFICES ASSUME GenerationsInv
               PROVE  SavedChangeStays /\ OneConfigurationShown /\ PingMatchesToday
    BY DEF GenerationsInv
  <1>1. ~overlapped => Active \in good /\ Active # None /\ Honoured(Active)
    BY ActiveIs DEF GenerationsInv, SavedStands
  <1>2. SavedChangeStays
    BY <1>1 DEF SavedChangeStays, Honoured
  <1>3. OneConfigurationShown
    BY <1>1 DEF OneConfigurationShown, Shown
  <1>4. PingMatchesToday
    BY DEF GenerationsInv, AllHold, Holds, PingMatchesToday
  <1> QED BY <1>2, <1>3, <1>4

\* Only the end of a change can make the control room answer.
LEMMA AnswersAre == GenerationsInv /\ [Next]_vars => AnswerScored
  <1> SUFFICES ASSUME GenerationsInv, [Next]_vars, NEW x \in Fields,
                      ~overlapped, saved'[x] \in Values, saved'[x] # saved[x]
               PROVE  Whole(Active)'
    BY DEF AnswerScored
  <1>1. saved \in [Fields -> Values \cup {None, Bad}] /\ None \notin Values /\ Bad \notin Values
    BY ConstantsAssumption DEF GenerationsInv, TypeOK
  <1>2. saved' # saved
    OBVIOUS
  <1>3. PICK p \in Procs : Bulk(p)
    <2>1. ASSUME NEW p \in Procs, Step(p) PROVE Bulk(p)
      <3>1. CASE WriteCell(p) \/ WriteFails(p)
        BY <1>1, <1>2, <3>1 DEF WriteCell, WriteFails
      <3> QED BY <1>2, <2>1, <3>1 DEF Step, ReadSheet, SheetOut, Parse, Insert, Demote,
                 ScoreCompany, Current, Gate, Regate, Refuse, NoSync, Ping, history
    <2>2. ASSUME NEW p \in Procs, Die(p) PROVE FALSE
      BY <1>2, <2>2 DEF Die
    <2>3. ASSUME NEW p \in Procs, NEW kind \in Kinds, Start(p, kind) PROVE FALSE
      BY <1>2, <2>3 DEF Start
    <2>4. ASSUME NEW p \in Procs, NEW y \in Fields, NEW v \in Values, Apply(p, y, v) PROVE FALSE
      BY <1>2, <2>4 DEF Apply
    <2>5. ASSUME NEW y \in Fields, NEW v \in Values \cup Typos, Edit(y, v) PROVE FALSE
      BY <1>1, <2>5 DEF Edit
    <2>6. ~UNCHANGED vars
      BY <1>2 DEF vars, history
    <2> QED BY <2>1, <2>2, <2>3, <2>4, <2>5, <2>6, Zenon DEF Next
  <1>4. /\ At(p, "bulk") /\ job[p].kind = "admin"
        /\ score' = [c \in Companies |-> [f \in Funds |-> job[p].cfg]]
        /\ created' = created /\ good' = good
    BY <1>2, <1>3 DEF Bulk, snapshots
  <1>5. good = {job[p].cfg}
    <2>1. job[p] # Idle /\ Holds(p)
      BY <1>4, AtBusy
    <2> QED BY <1>4, <2>1 DEF Holds
  <1>6. Active' = job[p].cfg
    BY <1>4, <1>5, ActiveIs DEF GenerationsInv, Active
  <1> QED BY <1>4, <1>6 DEF Whole

THEOREM GenerationsHold ==
    Spec => /\ [](TypeOK /\ SavedChangeStays /\ OneConfigurationShown /\ PingMatchesToday)
            /\ [][AnswerScored]_vars
  <1>1. Spec => []GenerationsInv
    BY GenerationsBegin, GenerationsStep, PTL DEF Spec
  <1> QED BY <1>1, GenerationsShow, AnswersAre, GenerationsStep, PTL DEF Spec

===============================================================================
