------------------------------- MODULE Sources --------------------------------
(***************************************************************************)
(* The Sources tab and its two one-off migrations.  The tab is typed in by   *)
(* hand, switched from the control room, read by every run, and also written *)
(* by every Sheet sync, which renders a row per configured source.  A run    *)
(* retires the register sweep once; runs and syncs strip a legacy qualifier  *)
(* from the Lists tab until a sync has rewritten it.                         *)
(*                                                                         *)
(* Kept of a source: on or off, the funds it feeds, its robots override, the *)
(* address of a feed.  Rows are found by the slug of their name, so a row is  *)
(* its source.                                                              *)
(***************************************************************************)
EXTENDS Nothing, Integers

CONSTANTS
    Builtin,          \* the keys of DEFAULT_SOURCES
    Register,         \* companies_house, one of them
    Feed,             \* the key of a feed added in the control room
    Web,              \* url |-> [robots, status, entries, link]; entries 0 when not a feed
    SourceFunds,      \* the funds a source may feed; the empty set is all of them
    NoSource,         \* no such source, no such row
    MaxSourceChanges  \* bound: edits by hand and changes in the control room

VARIABLES
    sourcesTab,          \* the Sources tab
    token,               \* is the legacy qualifier in the Lists tab?
    mistyped,            \* is a cell of another tab in error?
    goodSources,         \* the sources of the last-good configuration, None before one
    admits,              \* does the last-good configuration admit the legacy qualifier?
    used,                \* did the last run take the legacy qualifier for a qualifier?
    retired, rewritten,  \* the two flags in _meta
    sync, sourceOp,      \* the sync and the change under way
    sourceChanges,
    sourceAnswered,      \* history: per source, what the control room last confirmed
    readded,             \* history: the qualifier was typed again once the tab was rewritten
                         \* or read to be
    tornFlag             \* history: a sync died, or a run read the tabs, after its flag
                         \* was set and before it wrote them

sourcesVars == <<sourcesTab, token, mistyped, goodSources, admits, used, retired,
                 rewritten, sync, sourceOp, sourceChanges, sourceAnswered, readded,
                 tornFlag>>

Keys == Builtin \cup {Feed}
Urls == DOMAIN Web

SourceRows ==
    [on : BOOLEAN, funds : SourceFunds \cup {{}}, robots : BOOLEAN, url : Urls \cup {None}]

ASSUME SourcesAssumption ==
    /\ Feed \notin Builtin /\ Register \in Builtin
    /\ None \notin Urls /\ \A u \in Urls : Web[u].link \in Urls \cup {None}
    /\ NoSource \notin SourceRows
    /\ None \notin [Keys -> SourceRows \cup {NoSource}]
    /\ None \notin [rows : [Keys -> SourceRows \cup {NoSource}], strip : BOOLEAN]

\* DEFAULT_SOURCES.
DefaultSources == [k \in Keys |->
    IF k = Feed THEN NoSource ELSE [on |-> TRUE, funds |-> {}, robots |-> FALSE, url |-> None]]

PresentSources(cfg) == {k \in Keys : cfg[k] # NoSource}
CurrentSources == IF goodSources = None THEN DefaultSources ELSE goodSources

------------------------------------------------------------------------------
(* load_config: the rows of the tab, and every default it does not list.    *)

\* parse_sources and with_default_sources.  A tab without rows is the defaults
\* too: seed_grids types them into it.
WithDefaults(lines) == [k \in Keys |-> IF lines[k] = NoSource THEN DefaultSources[k] ELSE lines[k]]

\* drop_legacy_admitting_qualifiers: until a sync has rewritten the Lists tab.
Strips(present) == present /\ ~rewritten

SourcesInit ==
    /\ sourcesTab \in {DefaultSources, [DefaultSources EXCEPT ![Register] = NoSource]}   \* before a first sync
    /\ token = TRUE /\ mistyped = FALSE
    /\ goodSources = IF sourcesTab = DefaultSources THEN DefaultSources ELSE None
    /\ admits = token
    /\ used = FALSE
    /\ retired = FALSE /\ rewritten = FALSE
    /\ sync = None /\ sourceOp = None
    /\ sourceChanges = 0
    /\ sourceAnswered = [k \in Keys |-> None]
    /\ readded = FALSE /\ tornFlag = FALSE

------------------------------------------------------------------------------
(* Somebody types in the Sheet.                                             *)

\* History: a change under way is no longer alone with the tab.
DisturbSource == sourceOp' = IF sourceOp = None THEN None ELSE [sourceOp EXCEPT !.alone = FALSE]

TypedSources(row) == {[row EXCEPT !.on = ~@], [row EXCEPT !.robots = ~@], NoSource}

EditSource(k) ==
    /\ sourceChanges < MaxSourceChanges /\ sourceChanges' = sourceChanges + 1
    /\ sourcesTab[k] # NoSource
    /\ \E row \in TypedSources(sourcesTab[k]) : sourcesTab' = [sourcesTab EXCEPT ![k] = row]
    /\ sourceAnswered' = [sourceAnswered EXCEPT ![k] = None]
    /\ DisturbSource
    /\ UNCHANGED <<token, mistyped, goodSources, admits, used, retired, rewritten, sync,
                   readded, tornFlag>>

\* The qualifier is typed in the Lists tab; a cell elsewhere goes wrong or is
\* put right.
EditElsewhere ==
    /\ sourceChanges < MaxSourceChanges /\ sourceChanges' = sourceChanges + 1
    /\ \/ /\ ~token /\ token' = TRUE
          /\ readded' = (readded \/ rewritten \/ sync # None)
          /\ UNCHANGED mistyped
       \/ mistyped' = ~mistyped /\ UNCHANGED <<token, readded>>
    /\ UNCHANGED <<sourcesTab, goodSources, admits, used, retired, rewritten, sync, sourceOp,
                   sourceAnswered, tornFlag>>

------------------------------------------------------------------------------
(* A run: load_runtime_config reads, loads, strips and retires.  Nothing     *)
(* comes between its reading and its loading; its own switch may fail.       *)

\* What load_config and _with_legacy_qualifier_strips leave as last good: the
\* strip saves whatever was loaded, errors or none.
Promoted(cfg, present) == IF mistyped /\ ~Strips(present) THEN goodSources ELSE cfg
PromotedAdmits(present) ==
    IF Strips(present) THEN FALSE ELSE IF mistyped THEN admits ELSE present

\* _retire_companies_house changes the last-good configuration, not the one
\* just loaded, and a run then goes on with that one.
Off(cfg) == [cfg EXCEPT ![Register] = [@ EXCEPT !.on = FALSE]]
OnIn(cfg) == cfg[Register] # NoSource /\ cfg[Register].on

RunPlain(cfg) ==
    /\ retired \/ ~OnIn(cfg)
    /\ retired' = TRUE
    /\ goodSources' = Promoted(cfg, token)
    /\ admits' = PromotedAdmits(token)
    /\ used' = (token /\ ~Strips(token))
    /\ UNCHANGED <<sourcesTab, sourceAnswered>>

\* apply_source wrote the Sheet and the snapshot.
RunRetires(cfg) ==
    /\ ~retired /\ OnIn(cfg)
    /\ LET kept == Promoted(cfg, token)
           from == IF kept = None THEN DefaultSources ELSE kept IN
       /\ goodSources' = Off(from)
       /\ used' = PromotedAdmits(token)
       /\ sourcesTab' = IF OnIn(from) /\ sourcesTab[Register] # NoSource THEN Off(sourcesTab)
                        ELSE sourcesTab
    /\ admits' = PromotedAdmits(token)
    /\ sourceAnswered' = [sourceAnswered EXCEPT ![Register] = None]
    /\ UNCHANGED retired

\* The Sheet refused the switch: the run goes on with what it loaded.
RunCannotRetire(cfg) ==
    /\ ~retired /\ OnIn(cfg)
    /\ goodSources' = Promoted(cfg, token)
    /\ admits' = PromotedAdmits(token)
    /\ used' = (token /\ ~Strips(token))
    /\ UNCHANGED <<sourcesTab, retired, sourceAnswered>>

\* A sync has set the flag and not yet rewritten the Lists tab.
Halfway == sync # None /\ sync.strip

Run ==
    /\ LET cfg == WithDefaults(sourcesTab) IN RunPlain(cfg) \/ RunRetires(cfg) \/ RunCannotRetire(cfg)
    /\ tornFlag' = (tornFlag \/ Halfway)
    /\ DisturbSource
    /\ UNCHANGED <<token, mistyped, rewritten, sync, sourceChanges, readded>>

------------------------------------------------------------------------------
(* A sync: read, load and set the flag; render; and at the end write.       *)

SyncLoad ==
    /\ sync = None
    /\ LET cfg == WithDefaults(sourcesTab) IN
       /\ goodSources' = Promoted(cfg, token)
       /\ sync' = [rows |-> cfg, strip |-> Strips(token)]
    /\ admits' = PromotedAdmits(token)
    /\ rewritten' = TRUE
    /\ DisturbSource
    /\ UNCHANGED <<sourcesTab, token, mistyped, used, retired, sourceChanges, sourceAnswered,
                   readded, tornFlag>>

\* build_sources renders A to J: the robots column stays as it stands.
SourceRow(k, cfg) ==
    [cfg[k] EXCEPT !.robots = IF sourcesTab[k] = NoSource THEN FALSE ELSE sourcesTab[k].robots]

\* plan_tab writes the rows that differ from the last render; the columns of a
\* source's health are among them, so any may, whatever the tab holds by now.
SyncWrite ==
    /\ sync # None
    /\ \E written \in SUBSET PresentSources(sync.rows) :
          sourcesTab' = [k \in Keys |-> IF k \in written THEN SourceRow(k, sync.rows) ELSE sourcesTab[k]]
    /\ token' = (token /\ ~sync.strip)
    /\ sync' = None
    /\ DisturbSource
    /\ UNCHANGED <<mistyped, goodSources, admits, used, retired, rewritten, sourceChanges, sourceAnswered,
                   readded, tornFlag>>

\* The Sheet refuses the write: the flag stays set, the tab stays as it was.
SyncFails ==
    /\ sync # None
    /\ tornFlag' = (tornFlag \/ sync.strip)
    /\ sync' = None
    /\ UNCHANGED <<sourcesTab, token, mistyped, goodSources, admits, used, retired,
                   rewritten, sourceOp, sourceChanges, sourceAnswered, readded>>

------------------------------------------------------------------------------
(* The control room.                                                        *)

\* _check_feed: the address that parsed as a feed with entries, following one
\* link of an ordinary page; None when it is refused.
CheckedFeed(url, override) ==
    LET Opens(u) == u # None /\ (Web[u].robots => override) /\ Web[u].status = 200
        Reads(u) == Opens(u) /\ Web[u].entries > 0 IN
    CASE Reads(url) -> url
      [] Opens(url) /\ ~Reads(url) /\ Reads(Web[url].link) -> Web[url].link
      [] OTHER -> None

\* The entry a change leaves, and the field it is about.
BeginSource(k, entry, field) ==
    /\ sourceOp = None
    /\ sourceChanges < MaxSourceChanges /\ sourceChanges' = sourceChanges + 1
    /\ entry # CurrentSources[k]
    /\ sourceOp' = [key |-> k, base |-> CurrentSources, entry |-> entry, field |-> field,
              wrote |-> FALSE, found |-> TRUE, alone |-> sync = None]
    /\ UNCHANGED <<sourcesTab, token, mistyped, goodSources, admits, used, retired,
                   rewritten, sync, sourceAnswered, readded, tornFlag>>

ApplySource(k) ==
    k \in PresentSources(CurrentSources) /\ BeginSource(k, [CurrentSources[k] EXCEPT !.on = ~@], "on")

SetSourceFunds(k) ==
    /\ k \in PresentSources(CurrentSources)
    /\ \E funds \in SourceFunds : BeginSource(k, [CurrentSources[k] EXCEPT !.funds = funds], "funds")

SetSourceIgnoreRobots(k) ==
    /\ k \in PresentSources(CurrentSources)
    /\ BeginSource(k, [CurrentSources[k] EXCEPT !.robots = ~@], "robots")

AddFeedSource ==
    /\ Feed \notin PresentSources(CurrentSources)
    /\ \E url \in Urls, override \in BOOLEAN :
          /\ CheckedFeed(url, override) # None
          /\ BeginSource(Feed, [on |-> TRUE, funds |-> {}, robots |-> override,
                          url |-> CheckedFeed(url, override)], "added")

\* A built-in source comes back on the next load: it is switched off instead.
RemoveSource(k) ==
    k \in PresentSources(CurrentSources) \ Builtin /\ BeginSource(k, NoSource, "removed")

\* MUTANT of Changed: the override has no column of its own.
ChangedNotRobots(k) ==
    IF sourceOp.field \in {"added", "removed"} THEN sourceOp.entry
    ELSE IF sourceOp.field = "robots" THEN sourcesTab[k]
    ELSE [sourcesTab[k] EXCEPT ![sourceOp.field] = sourceOp.entry[sourceOp.field]]

\* _write_source_row: the one cell; a removal blanks the row, an addition appends.
Changed(k) ==
    IF sourceOp.field \in {"added", "removed"} THEN sourceOp.entry
    ELSE [sourcesTab[k] EXCEPT ![sourceOp.field] = sourceOp.entry[sourceOp.field]]

OpWrite ==
    /\ sourceOp # None /\ ~sourceOp.wrote
    /\ LET finds == sourcesTab[sourceOp.key] # NoSource \/ sourceOp.field = "added" IN
       /\ sourcesTab' = IF finds THEN [sourcesTab EXCEPT ![sourceOp.key] = Changed(sourceOp.key)]
                        ELSE sourcesTab
       /\ sourceOp' = [sourceOp EXCEPT !.wrote = TRUE, !.found = finds]
    /\ sourceAnswered' = [sourceAnswered EXCEPT ![sourceOp.key] = None]
    /\ UNCHANGED <<token, mistyped, goodSources, admits, used, retired, rewritten, sync,
                   sourceChanges, readded, tornFlag>>

\* The Sheet refuses, or the server dies.
SourceFails ==
    /\ sourceOp # None
    /\ sourceOp' = None
    /\ UNCHANGED <<sourcesTab, token, mistyped, goodSources, admits, used, retired,
                   rewritten, sync, sourceChanges, sourceAnswered, readded, tornFlag>>

\* _commit.  Confirmed: the row was found and nothing else touched the tab; the
\* register's switch counts once it has been retired.
CommitSource ==
    /\ sourceOp # None /\ sourceOp.wrote
    /\ goodSources' = [sourceOp.base EXCEPT ![sourceOp.key] = sourceOp.entry]
    /\ sourceAnswered' = [sourceAnswered EXCEPT ![sourceOp.key] =
          IF sourceOp.found /\ sourceOp.alone /\ (sourceOp.key = Register => retired)
          THEN [field |-> sourceOp.field, entry |-> sourceOp.entry] ELSE None]
    /\ sourceOp' = None
    /\ UNCHANGED <<sourcesTab, token, mistyped, admits, used, retired, rewritten, sync,
                   sourceChanges, readded, tornFlag>>

------------------------------------------------------------------------------
SourcesNext ==
    \/ \E k \in Keys : EditSource(k)
    \/ EditElsewhere
    \/ Run
    \/ SyncLoad
    \/ SyncWrite
    \/ SyncFails
    \/ \E k \in Keys : ApplySource(k)
    \/ \E k \in Keys : SetSourceFunds(k)
    \/ \E k \in Keys : SetSourceIgnoreRobots(k)
    \/ AddFeedSource
    \/ \E k \in Keys : RemoveSource(k)
    \/ OpWrite
    \/ SourceFails
    \/ CommitSource

SourcesSpec == SourcesInit /\ [][SourcesNext]_sourcesVars

------------------------------------------------------------------------------
\* Does a source say what was confirmed of it?
SourceSays(entry, confirmed) ==
    IF confirmed.field \in {"added", "removed"} THEN entry = confirmed.entry
    ELSE entry # NoSource /\ entry[confirmed.field] = confirmed.entry[confirmed.field]

\* What the control room confirmed of a source, the last-good configuration and
\* the tab go on saying, through every later run, sync, typo elsewhere, render
\* and further change, until somebody types in its row.
SwitchSticks ==
    \A k \in Keys : sourceAnswered[k] # None =>
        /\ goodSources # None /\ SourceSays(goodSources[k], sourceAnswered[k])
        /\ SourceSays(WithDefaults(sourcesTab)[k], sourceAnswered[k])

\* No run takes the legacy qualifier for a qualifier unless somebody typed it
\* again after the Lists tab was rewritten or read, or a sync was caught half way.
LegacyStaysBarred == used => readded \/ tornFlag

\* A feed in the configuration was read as a feed with entries, at the very
\* address a run will read, however many links the page that was typed is away.
FeedWasRead ==
    goodSources # None /\ goodSources[Feed] # NoSource =>
        /\ Web[goodSources[Feed].url].entries > 0
        /\ Web[goodSources[Feed].url].status = 200
=============================================================================
