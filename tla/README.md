# Founder Radar: a verification project

Founder Radar finds young UK companies and offers them to one reader. Once a day
it fetches some thirty public sources, extracts companies from them, resolves the
mentions to one row per company, enriches the rows from Companies House, scores
them against several funds, has the best cards checked ("Today QA"), renders a
Google Sheet and sends a Telegram message. Around that run live a web server (the
review queue and the control room), a command line that Telegram uses, a server
for ChatGPT actions, a heartbeat, nightly backups and an updater. All of them are
processes of one machine; what they share is one SQLite file (WAL, autocommit, no
lock between processes) and one Google Sheet that people type in.

The modules here model that system from its source, the runs check them with TLC
on small instances, and the proof modules prove the safety properties of most of
them for every instance with TLAPS. `PROJECT.json` lists the components, runs,
mutants, hazards, findings and theorems and maps every definition to the lines it
stands for.

    tlc -workers 2 -config Machines.cfg MCMachines.tla
    tlapm SettingsProofs.tla

A run `X` of `PROJECT.json` is `X.cfg` with the module it names.

## The system

| Component | State it keeps | Operations | What is hard | Modules |
|---|---|---|---|---|
| Review decisions (`radar/verdict.py`, `prototype/server.py`, `radar/cli.py`, `radar/render/sheet.py`, `radar/selection.py`) | `user_field`, `daily_review`, Sheet column Z, `sheet_row_state`, the undo log | decide on the web, decide on the command line, edit the Sheet, undo, review again, sync the Sheet | two stores, several writers, a Sheet call that fails or lands unheard, midnight, restarts | `Decisions` |
| Today QA (`radar/qa`, `radar/score/snapshot.py`) | `today_check`, `source_link_check`, the frozen approval of a score | a QA pass card by card; rescores and new data | state read before a network call and used after it, several passes at once, timeouts, budget | `TodayQA` |
| Configuration and score generations (`radar/config/loader.py`, `radar/admin/settings.py`, `radar/pipeline.py`, `radar/qa/publish.py`) | the configuration tabs, `config_snapshot`, `score.config_hash` | scan, search, sync, rescore, publish with its gate, a settings change | every operation loads, saves and scores in steps of its own and nothing keeps two apart | `Generations` |
| Fund criteria (`radar/config/loader.py`, `radar/admin/settings.py`) | the Fund Criteria tab, the last-good configuration | load, heal, repair, edit or pause a vehicle, add a fund | a typo must neither trim nor open a rule; Sheet first, snapshot second | `Criteria` |
| Sources tab (the same files, `radar/render/sheet.py`) | the Sources tab, two flags in `_meta` | load, retire, strip, sync, switch, add a feed | one-off migrations that a crash splits; a sync that writes what it read | `Sources` |
| Scoring Weights and Lists tabs | the two tabs, the last-good matrix | load, add a fund, type | cells found by their place | `Weights` |
| Harvest (`radar/sources`, `radar/fetch/layout.py`, `radar/extract`, `radar/pipeline.py`) | page snapshots and fingerprints in `_meta`, `source_health`, `run` | fetch, extract, resolve, record a run | a crash or a failure between remembering a page and using it | `Harvest` |
| Extraction (`radar/extract`, `radar/admin/prompts.py`) | the cache of replies, quarantine, `prompt_override`, company columns | read an article, edit the prompt | two clients and a breaker, a prompt that changes, what a text really says | `Extract` |
| Fetching (`radar/fetch`) | token buckets, the Companies House window, the robots cache | get, retry | limits at their boundary, robots files that cannot be read | `Fetch` |
| Heartbeat (`radar/notify/heartbeat.py`, `radar/fetch/layout.py`) | announcement stamps in `_meta`, over `source_health` and `run` | record a run, check, send, stamp, forget | suppression against silence, undelivered messages, streaks and averages over days | `Heartbeat` |
| Identity and privacy (`radar/resolve`, `radar/privacy.py`) | `company`, `identifier`, `merge_event`, the review queue in `_meta`, `suppression` | match, attach, create, merge, unmerge, resolve a queued pair, erase a person | exact undo, stale queue entries, knowledge moved between rows | `Identity`, `Partition` |
| Enrichment (`radar/enrich`) | dates, filings, officers and their markers | three passes and a recheck within a budget | runs that die, companies nobody gets round to | `Enrichment` |
| Scoring (`radar/score`) | `score`, `score_snapshot` | score one company, rescore all | unknown against zero, the daily path against the bulk path | `Scoring` |
| Threshold tuning (`radar/score/tune.py`) | none | the table of thresholds | ties, a table that leaves rows out | `Tuning` |
| Selection and focus (`radar/selection.py`, `radar/focus.py`) | the focus rows of `_meta` | order, shares, focus, rotation | three surfaces, two writers of two rows | `Selection` |
| Searches (`radar/chatgpt_actions`, `radar/notify/telegram_intercept.py`, `radar/cli.py`) | job files, `search.lock` | kick off, post, run, poll, time out, restart | restarts, stale locks, a file anyone may remove | `Searches` |
| Database (`radar/store/db.py`, `radar/admin/backups.py`) | the SQLite file, its snapshots and safety copies | write, migrate, back up, restore | a restore under writers, half-run migrations | `Restore` |
| Deployment (`deploy/`, `radar/admin/backups.py`) | `HEAD`, the hold, what is installed | update, roll back, release | a rollback without the lock, failing installs | `Updates` |

Not modelled, with the reason in `PROJECT.json`: the failure alerts of the units
(one stamp per unit under `Heartbeat`'s rule), the layout of the Sheet's tabs, the
digest's text and its delivery, the parsing of each site's pages, the flow view, the
web pages themselves, the installer and unit files, and the guide site.

The components meet in three ways. A run passes items from one to the next within
one process: `Harvest`, `Extract`, `Identity`, `Enrichment`, `Scoring`, `Selection`,
`TodayQA`. The processes meet in the database and in the Sheet, where each reads what
others have written since; `Decisions`, `TodayQA`, `Generations`, `Criteria`,
`Sources`, `Weights` and `Selection` are about that, each about its own rows and
tabs, with all the processes that write them. And some meet on the machine:
`Searches`, `Restore` and `Updates` (a scan in the way of a restore or an update), and
`Fetch`, which all network access goes through.

## How the modules are composed

`Decisions`, `TodayQA`, `Harvest`, `Heartbeat` and `Identity` have runs of their own,
because each needs a world of its own to be hard. Fourteen machines are checked side
by side in one run, `Machines`: `MCMachines` extends their modules (and takes
`TodayQA` with INSTANCE), `MachinesData` gives their worlds, and `which` names the
machine that a behaviour is of, while the variables of the others stay `Unused`. That
is sound because the fourteen share no variable; it says nothing, and claims
nothing, about two of them acting on each other. The properties of the machines are
those of their modules under `which = ...`:

| Property of `Machines` | What it holds of |
|---|---|
| `SavedIsShown`, `OneListShown`, `SavedIsScored` | `Generations`: `SavedChangeStays`; `OneConfigurationShown` and `PingMatchesToday`; `AnswerScored` |
| `CriteriaAreKept` | `Criteria`: `GeographyWasStated`, `AnsweredIsScored` |
| `SourcesAreKept` | `Sources`: `SwitchSticks`, `LegacyStaysBarred`, `FeedWasRead` |
| `WeightsAreKept` | `Weights`: `WeightsWereAsked`, `OddCellIsSaid`, `PairsAreRows` |
| `SearchIsTold` | `Searches`: `PollIsTrue`, `OneScanAtATime` |
| `FetchIsPolite` | `Fetch`: `WindowIsKept`, `RobotsAreObeyed` |
| `ServerStands` | `Restore`: `LiveIsWhole`, `MarkedIsRun`, `OldWritesAreCopied`; `Updates`: `OneRunAtATime`, `InstalledIsCheckedOut`, `HoldStands` |
| `ScoresStand` | `Scoring`: `ShortlistIsDefended`, `RowsAreCurrent`; `Tuning`: `TableIsComplete` |
| `QueueIsFair` | `Selection`: `PressureIsSoft`, `SharesAreKept`, `SurfacesShowTheSame`, `FocusWasAskedFor` |
| `RowsAreHonest` | `Extract`: `GroundedOrFlagged`, `OfThisPrompt`, `HermesRests`, `PressIsCounted` |
| `EveryWaitEnds` | liveness of six: the backlog of `Enrichment`, jobs and stale locks of `Searches`, reading runs of `Extract`, a poisoned configuration of `Criteria`, good cards behind cards that never answer of `TodayQA`, merges of `Updates` |

The fairness of `Machines` is that of the modules: a machine that can take the next
step of what it has begun does (`MachineGoes`, weak), and what a timer starts begins
(`MachineBegins`, weak). The updater's timer and steps are strongly fair, because the
scan, the lock and a rollback keep getting in their way. Deadlock is not checked:
every machine may have used up its bounds.

`Partition` is an abstract specification, implemented by `Identity`. Of
`Generations`, the verdict register of `Decisions` and the others the abstract view
is a history variable instead (`saved`, `latest`, `stated`, `confirmed` values), and
the properties relate it to the state.

## Decisions

*State.* `userField` and `review` are the two tables, `cell` is column Z as Google
has it and `rendered` what `sheet_row_state` remembers of it. `web`, `cli` and
`sync` hold the operation in progress on each surface; the web server's `write_lock`
makes one request at a time the whole of `web`. `undoLog` is the in-memory
`UndoLog`. `latest` and `changedAt` are history: what the last person to act asked
for, and when SQLite's value last really changed. So is `unseen`: the companies whose
last order emptied a cell that no sync had remembered as filled.

*Actions.* A decision commits (`WebDecide`, `CliDecide`), then mirrors
(`WebMirror`, `CliMirror`). An undo checks, restores the Sheet, checks again and
commits or is refused. A sync reads the Sheet, folds the verdicts it takes for
edits, reads the database, writes the cells of the rows that differ and remembers
them. Any Sheet call may raise before (`lost`) or after (`ghost`) it has its effect;
any process may die between two steps; the web server may restart.

*Runs.* `DecisionsFaults` has all faults and all interleavings of two decisions, one
edit, one sync at a time and an undo over a midnight (`MaxTime` and `DayLength` are
2). Three moments are enough for a decision, its undo and a sync on both sides of
midnight; two verdicts tell an old from a new one; one company is enough because no
operation relates two of them except the undo log's bound, which is 1.
`DecisionsSerial` has no faults and one operation at a time, three decisions, an
edit (a verdict typed, or a cell emptied) and an undo log of two, and checks that the
last verdict wins, that an undone or emptied one stays gone, and, with fairness, that it
ends up everywhere. `GoneStaysGone` excepts `unseen`, and nothing else: the run finds a
counterexample when that exception is dropped.
`DecisionsMissedMirror` shows what the same property loses when a mirror call fails:
the older verdict in the cell is read back as an edit.

*Fairness.* Steps of a started operation are weakly fair (the process runs);
starting a sync is strongly fair (the timer fires daily, but other operations may
keep it from starting at any moment). No decision, edit or undo is fair.

*Known limits.* Three more orders lose what a person asked for. A mirrored or typed
cell that a person empties before the next sync: the sync sees a blank where nothing had
been rendered, keeps the verdict and renders it again; `DecisionsSerial` has the order,
and `unseen` names it. A decision for a company without a row, rendered by a sync and
then undone (the undo believes the Sheet was not reached), and a decision that lands
between a sync's fold and its write: `DecisionsSerial` excludes both, by its first cells
and its single operation. An Undo counts as an order for what its decision replaced:
after a cell that was emptied and decided anew before the fold, that is the verdict from
before the emptying. `save_user_fields` takes the id of a tombstone too; the model has no merges here.

*Proofs* (`DecisionsProofs`). `SettledStaysHidden`, `MarkerOnItsDay` and
`UndoTakesBackOwn` for all companies, verdicts, faults and interleavings (`DayInv`);
`LatestVerdictWins` and `GoneStaysGone` (`SerialInv`) under the assumptions of their
run: no faults, no overlap, no company new to the Sheet; cells may be emptied. The first three follow from the types together with the
shape of receipts: a receipt's day is the day of its stamp, and what it replaced was
itself a marker of that day. `SettledStaysHidden` needs that a row's stamp is never
later than the last change of the row: an undo puts an old stamp back, and only
because `changedAt` goes back with it does the company stay hidden. The other two
need each stage of each operation related to `latest`: while nothing is in progress,
the cell differs from the stored verdict only by an unfolded edit, and one that was
emptied has been remembered as filled, which is what the next fold deletes by
(`ToDelete`).

## TodayQA

*State.* A company's card is a member of `Cards` (its `snapshot_hash`); `checks` is
`today_check` by company and card, `newest` the card of the newest row, `link` the
company's row in `source_link_check`, `approved` the hash frozen with the current
score, `scoredAt` its stamp. `pass[p]` is one QA pass: the cards as it loaded them,
what it has still to visit, the stored answer it read for the card it is at.

*Actions.* One action per outcome of `check_one`, in its order: rules veto, standing
veto, then the link (reuse or GET), then reuse, rules-only, unavailable, Hermes
(pass, reject, no usable answer), then the comparison with the current card and the
approval in two steps. A card may blow up, a pass may die. `DailyScore` is
`score_company`, `BulkStart`/`BulkCommit` is `rescore_all`, `NewData` is any change
of a card without a rescore.

*Runs.* `TodayQAConcurrent` interleaves two passes over two cards of a company, one
perhaps without Hermes, with a rescore or new data; passes and cards are
interchangeable. `TodayQASerial` runs one pass at a time, with Hermes, by rules only
or while Hermes is down, over expiring link proofs, crashing cards and dying passes,
with two changes of daily or bulk scores in five moments, and checks the properties
that need it: approvals belong to the current score, a rescore forces a new check,
vetoes stand, a reused proof outlives the day. The lifetimes of a proof are scaled so
that the order that matters is the code's: a proof lasts longer than it may be
reused plus a whole review (24 hours against 18 and three timeouts; here 4 against
2 and 1), and `MAX_CONSECUTIVE_FAILURES` is 2 or 3. In `Machines` four companies
stand in line, of which the first two never get an answer from Hermes, and the other
two must be judged again and again.

*Fairness.* A started pass runs on and the timer starts passes; nothing else.

*Known limits.* Excluded from `TodayQASerial`: a rescore inside a pass, which had
read a stored pass before its link check and records it again afterwards
(`radar/qa/today.py:1148`), so that the new generation is shown without a check of
its own; an approval that is written between another process's rescore and its
comparison; a bulk rescore stamped before a check and committed after it; two events
within one second. `RejectStands` is about one pass at a time: a second pass that
read the store before the veto was written can replace it. Three stuck cards at the
head of the order do starve the rest, in every pass.

*Proofs* (`TodayQAProofs`). All six safety properties. `ShownWasChecked` and
`ApprovedWasChecked` need no assumption on overlap or failure: the invariant `Honest`
says that every stored pass which counts, every answer a pass in progress holds for
reuse and every card at the comparison or the approval was really checked; without
the middle part the reuse step is not inductive. `ApprovedIsOfThisScore` assumes no
rescore inside a pass and holds for any number of passes: `PassIsCurrent` says that
the card a pass is about to approve is the current one. `FreshVerdict` assumes a
clock that moves on as well, because the store compares seconds: what is stored, and
what a pass holds, is newer than the last change it follows (`RowsFresh`,
`PassFresh`, `BulkOutdates`). `RejectStands` assumes one pass: a pass never holds for
reuse an answer that a stored veto contradicts (`NoVeto`). `ProofOutlivesDay` assumes
of the constants only that a proof lasts longer than its reuse and a review together,
and bounds the age of a proof at each stage of a pass (`Timely`, `Proven`,
`Lasting`).

## Generations

*State.* A configuration stands for its hash. `sheet` is what the configuration tabs
say, `created`/`good` are the rows of `config_snapshot` in the order of their
`created_at` and their last-good marks, `score` the hash of every score row. A job
is an operation in progress with the stages it has still to do; `saved` and
`overlapped` are history.

*Actions.* One per stage: read the tabs (or fail to), parse them with the last-good
value for every bad cell, insert the snapshot, unmark the others, score company by
company or in bulk, write a cell from the control room, check at the gate, heal and
check again, send. Any operation may die between two stages.

*Runs.* In `Machines` one operation at a time, all seven kinds, two settings, two
funds, two edits and a crash: two settings tell a lost change from a bad cell, two
funds a scoped search from a full one. `GenerationsOverlap` interleaves two
operations (scan, publish, control room) on one setting with edits, a typo, a crash
and Sheet outages, and checks that the daily scan brings everything together again.

*Fairness* (of `GenerationsOverlap`). A started operation runs on (weak), the Sheet
can be read again and again (strong, since outages come and go), the timer starts
the scan again and again (strong). Edits, crashes and starts of other kinds are not
fair.

*Known limits.* When operations overlap, an older configuration can become the
last-good one, no row can be last-good for a while, and Today can mix or be empty;
the next undisturbed scan repairs it. A Sheet sync after an edit saves a
configuration without rescoring, so Today is empty until the gate or the next scan;
a scoped search after an edit leaves a partial drift the gate does not see. A bad
cell next to a good change is the one serial state the gate cannot heal: every run
scores with a configuration that is not saved as last-good
(`radar/config/loader.py:1465`), and Today, which reads the last-good one, is empty
until the cell is repaired.

*Proofs* (`SettingsProofs`, `GenerationsHold`). `SavedChangeStays`,
`OneConfigurationShown`, `PingMatchesToday` and `AnswerIsScored` while operations do
not overlap, for any settings, values, companies, funds and kinds of operations, any
number of edits, crashes and snapshots. `GenerationsInv` has five parts beside the
types: the stages an operation has still to do are the end of its kind's plan
(`AllPlanned`); at most one operation is under way (`OneAtATime`); the Sheet and every
last-good configuration honour what was saved (`SavedStands`), every one because a
process that dies between its two statements leaves two marks; and what an operation
holds at each stage does so too, with the scores as far along as the stage says
(`AllHold`). Without the last, the step that marks a configuration as last-good
cannot be shown to keep the third.

## Criteria

*State.* `criteriaTab` is the Fund Criteria tab: whether it is laid out by key, by
label or shifted, and each vehicle's cells. `goodVehicles` is the last-good
configuration and whether it is poisoned, `scored` what the last scoring used and
which vehicles were at fault in it. `load` and `criteriaOp` are the operation under
way on either side. `stated` and `vehicleAnswered` are history.

*Actions.* People edit a row, the rest of the tab, or erase it. A run, a sync or the
repair command reads the tab and finishes from what it read; without a Sheet it falls
back; an erased tab is seeded. The control room edits or pauses a vehicle or adds a
fund: row by row on the Sheet, then the snapshot, failing anywhere.

*World in `Machines`.* Two vehicles of the code and one that can be added, two
places, a cell with a typo beside a place, two edits or changes in all, in every
interleaving with a load. One request of the control room changes the switch or the
geography, not both (`Together = FALSE`, a bound that the theorem does without).

*Fairness.* A run starts every morning and a load goes on.

*Known limits.* A confirmation counts while the change is `alone`: when somebody types,
or a run, sync or repair loads the tab, while it is being written, the two may
overwrite each other. Rows named by labels are not found when vehicle cells are written;
pausing a fund that fails half way leaves rows FALSE though it is refused; a blank
HARD cell is an open rule; a poisoned last-good configuration is not healed while a
setting is in error, and a tab of bare headers promotes it again; `repair-fund-criteria`
heals in its own load first (`radar/cli.py:806`); the strip of legacy qualifiers
saves as last-good in spite of errors.

*Proofs* (`SettingsProofs`, `CriteriaStand`). Both properties, for any vehicles,
places, edits and changes, whether or not one request may change both. `PlacesGiven`: the places of each HARD rule in the tab, the snapshot, a load
and a change were given whole or are known to be at fault; `ConfirmedStand` and
`ChangeStands` follow a confirmation through the tab, the snapshot and the change in
progress. The attempt showed that `AnsweredIsScored` had been stated too strongly: a
vehicle that is blocked over a mistyped HARD rule and was paused and resumed is
blocked still, which the bound of two changes never reaches.

## Sources

*State and actions.* The tab, the last-good sources, and the two flags. Loads append
the defaults, retire the register sweep once and strip the legacy qualifier; a sync
loads, then writes the tab it read over whatever is there; the control room switches
a source, sets its funds or its robots override, adds a feed (after it has read it,
link by link) or removes one, Sheet first and snapshot second; each may fail between
its steps.

*World in `Machines`.* One built-in source, which is the register, and one feed that
is two links from the page that is typed and that robots.txt keeps everyone from; two
edits or changes.

*Known limits.* A switch-on of the register before its first retiring run is retired
again; an unlisted default comes back with the next load although the snapshot said
no (`radar/admin/settings.py:411`); the strip's flag is set before the Lists tab is
written (`tornFlag`); a sync writes rows over a switch that was made meanwhile, so a
confirmation counts only when no run and no sync came in between (`alone`). A run is
one step.

*Proofs* (`SettingsProofs`, `SourcesStand`). All three properties, from `AnswersStand` (what was
confirmed stands in the tab and the snapshot), `OpStands` (what the change in
progress has written and will confirm), `Barred` and `FeedsRead`.

## Weights

*State and actions.* The matrix by place, the vocabulary and SIC columns, the
last-good weights. A load reads both tabs; people type weights, importances,
policies, headings, insert a column, clear the tab; the control room adds a fund with
copied weights.

*World in `Machines`.* Two attributes, three values, two funds and one to add, two
changes: enough for a cell out of scale under a moved heading.

*Known limits.* The SIC columns are compacted before they are paired, so a blank
sector moves those below it up (`radar/config/loader.py:745`, against "paired
columns" at :734); `PairsAreRows` therefore speaks of the part without a gap. Of two
cells about one weight, or two rows with one code, the later stands without a word
(:1218, :701), so both properties except them. A weight off the scale with no
last-good weight becomes 0 with a note (:1213), and stays in force from the last-good
configuration when that note is long gone: `weightsAsked` keeps what a note said. The
policy is read from one fixed column, which a fifth fund displaces; a misspelt
attribute drops its rows without a note; a misspelt heading makes weights for a fund
nobody has; a cell that is not a number is dropped, not taken from the last-good
matrix.

*Proofs* (`OperationsProofs`: `WeightsAlwaysStand`). `WeightsInv` says of the
configuration in force and of the last-good one, read under the keys of the funds
(`IsKeyed`, `WasAsked`), that each weight is on its scale, of a known attribute, under
no old label and one that somebody gave; of the tab, that however it was edited its
rows, headings and columns are where they are looked for (`IsTab`). A load then reads
from such a tab and such a fallback (`MatrixIsRead`, `ImportanceIsRead`), copying the
template's weights keeps it (`CopyIsWeight`), and `OddCellIsSaid` and `PairsAreRows` are
facts about one load: a plain row's cell is an entry that stands or is overridden
(`PlainRowIsRead`), and compacting a column leaves what is above its first gap in place
(`FilledKeepsFirst`, `PairsAreRead`). Assumed (`WeightsAssumption`): one default weight
for a listed value and a shipped fund, on the scale; a name that is never a heading for
the old label; rows of SIC codes that are pairs.


## Harvest

*State.* A venture is an entry of a page and the company it names. `page`, `blank`,
`funded` and `design` are what the sites show: a `blank` entry is listed, but nothing
can be read of it (a card whose name the selectors do not find; an article that asks
not to be indexed, has no body or falls behind the first 20 of its feed); `snapshot` and `layout` are the two kinds of
`_meta` rows a source keeps. A run is `stage`, `todo`, `leads` and `listings`; its
items live in memory only. `company` and `flagged` are the company rows and their
`on_vc_portfolio`. `settled`, `lost`, `shown`, `gone` and
`missed` are history: the last two say which entries were taken off their page, or left
out of a snapshot that was saved while they were listed, since they were last handed on.

*Actions.* A run fetches source by source: the page answers (`FetchSource`, which
saves what it could read as the snapshot, compares the structure and hands on what is
new), has another
structure than the stored one (`HoldBack`, which has saved the snapshot too), or
fails before the diff (`FetchFails`). `guard_nonempty` counts the cards, so a page whose
names are all lost does not fail: its snapshot is emptied. Then it resolves or turns down each item,
applies the denylist, and scores. A run may die at any point (`RunDies` is both the
exception that ends it as failed and the kill). The operator scans one source, tests
one (`TestSource`: the same fetch on the live database, the items printed and
dropped) and accepts a layout. Sites publish, withdraw, redesign
and go blank, entry by entry, at any moment.

*Runs.* `Harvest` has a diffed page of two ventures and a feed of one that both list,
two structures and two events. Withholding an article whose own page fails this time is an
event, so it ends; an article that is withheld every time is blank, and the code owes it
nothing. Two ventures on the diffed page are needed because an
empty page is a failure, so a snapshot only shrinks beside another entry; the shared
venture is what the denylist is about; two events put any two faults together, for
example a redesign that loses a name, or a failed fetch and a run that dies. `HarvestRedesign` (one event) shows that a
venture added during a redesign never comes back after the layout is accepted.

*Fairness.* The timer starts a full scan again and again (strong, because scans of
one source may keep it from starting) and a started run takes its next step (weak).
Sites, faults and the operator owe nothing; in `HarvestRedesign` the operator accepts
every changed layout, which only helps the property.

*Known limits.* One run at a time (two runs that overlap share the diff between
them); the diff's load and its save are one step; the reader's answer for an item is
any answer, each time.

*Proofs* (`HarvestProofs`). All safety properties, for any sources and ventures.
`SnapshotAccounted` needs that only a busy run has items in hand (`InHand`);
`OldEntryIsNotNews` follows from `Known`: what has been in a run's hands and has since
neither left its page nor been missed by a read is still in the snapshot. The exception
for missed entries is the code's behaviour: a page read in part saves a smaller snapshot
(`conception_x.py:46-50` tells of 42 cards and not one name), and once the names can be
read again every one of those entries is dated as this week's news, although
`ConceptionXAdapter.diff` says it keeps "only ventures not seen on a previous run".

## Heartbeat

*State.* `row` is `source_health`, one row per source and day; `lastSuccess` is what
`last_successful_run` makes of the `run` rows; `seen` is the stamps of `_meta`.
`warning` is the silence warning of the last run of each source today. `said`,
`standing` and `arrived` describe the last heartbeat; `heard`, `repeats`, `lapses`,
`lastYield` and `lastAnswer` are history.

*Actions.* A day is a scan, a heartbeat, perhaps another run, and the next day. A run
completes (`CompleteRun`: all sources or one, with Today QA or the Sheet failing or
not) or breaks (`BrokenRun`: the exception that marks it failed and the kill that
leaves it running until it is reaped, after the rows of any of its sources are
written). `Check` is the whole of `check()`: staleness, the quiet and the refused
sources, which of them are due, forgetting what has cleared, sending, stamping. Under
it the reads of either kind, the reading or writing of stamps, the delivery or only
the answer to it may fail.

*Runs.* `Heartbeat` has one source with the four kinds of rows, five days and one
event (`MaxEvents`): a run after a heartbeat, or a failure under one. Missed
heartbeats, broken runs and failing sources are not bounded. The windows of seven days are scaled to
one and the repeat period to three, because a condition needs two days to arise, one
to clear and two to arise again while its old stamp is still young. One source is
enough: the heartbeat relates sources only in the set of the active conditions, and
the two conditions of one source already share it. A failing source is warned of after
three days of zeros (`StreakDays`, seven in the code). The view replaces times by their
ages, capped where a longer one changes nothing, keeps whether a stamp is what the
reader last heard, and leaves the clock's place in the day beside them.
`HeartbeatRefused` has three days without failures and shows that a source refused on
its last two rows is not named when it delivered on its first.

*Known limits.* `SilenceIsSuspect` is about a source observed every day: with gaps
between the rows, the start of a silence is looked for a number of rows back on the
calendar (`radar/fetch/layout.py:296`), lands inside the silence and lowers the
average. `stale_sources` averages over the silent days too, so a source falls below
its own threshold after long enough and is no longer named. A source that failed
after it had brought items counts as having answered. A run in which every source
refuses the crawler is `ok` with nothing fetched and counts as proof of life;
`DeadRunsAreSaid` is therefore about pipelines that have sources and runs whose
sources all fail. After a scan that ended later than 07:00 a dead night is less than
26 hours old at 09:00 and is said a day later. A Tier 1 source that fails, rather
than refuses, three runs in a row is named only after seven days without items,
although `docs/prd/08-deployment.md` lists it as an alert. The disk alert has no
state.

*Proofs* (`HeartbeatProofs`). All five invariants, for any sources, rows, order of
the day's times and failures. `StandingIsHeard` and `OneRepeatPerLapse`: a stamp is
never later than what the reader was told (`StampIsHeard`), and while the two differ
a failure of the memory has not yet cost its repeat (`LapsePending`). `NoFalseAlarm`
and `DeadRunsAreSaid` relate `lastSuccess` to the last yield and the last answer
(`Life`). `SilenceIsSuspect` needs that no row lies in the future
(`NothingAheadRecorded`) and a good deal of arithmetic about counting days.

## Identity and Partition

*State.* The rows, their keys (company number, name key, alias), the review queue,
the merge events with what each took along, decisions, founders, and the suppressed
people. `home`, `swept`, `stale` and `decided` are history.

*Actions.* `ResolveItem` is the whole ladder and what follows it: attach, queue, or
create. `SweepItem` is the registry backfill, which looks at numbers only.
`VerifyCrn` adds a number to a company that has none, unless another live one has it.
What a person or a register says of a company may come after its merge: `VerifyCrn`,
`Decide` and `StoreFounder` take tombstones too, as the code does. A queued pair is approved or dismissed, a merge undone, a company
decided about, a founder stored, a person erased.

*Abstract specification.* `Partition`: the mentions read so far fall into companies;
reading moves one mention, a merge unites two companies whole, an undo separates only
what a merge united. `ImplementsPartition` maps the rows and tombstones to it.

*Run.* `Identity`: four mentions (a foreign company, an entry of the register with
almost its name, and one more of each), three companies, three reads, two merges,
two facts, `Cap` 2. Three companies are needed for a merge into a company that is
itself absorbed, and for an undo of one of two.

*Known limits.* The backfill bypasses the ladder (`radar/enrich/__init__.py:278`;
the audit of `radar/resolve/merge.py:505` is what finds it), so `OneRowPerCompany`
excepts rows it wrote and rows an undo put back. A queued pair whose winner has been
merged meanwhile merges into a tombstone (`merge.py:288`), and a decision on a card
older than a merge is stored on the tombstone (`prototype/server.py:2103`), where the
reader does not see it: `stale` marks both. An undo after decisions or other merges is
not exact (`clean`). `founder.id` is an INTEGER PRIMARY KEY without AUTOINCREMENT
(`schema.sql`), so the id of a row that a merge deleted is given again if it was the
largest, and the undo's INSERT OR REPLACE by id then takes the new row away from
whichever company has it (`NextRow`, `Reclaimed`; that company's own merge is no longer
`clean`), against "Undo a merge exactly" (`merge.py:434`). The check of the suppression
and the insert after it are one step. `news_mention_count` is summed twice over nested
merges (`merge.py:74`), and the cap on fuzzy clusters does not hold: an alias under
`fuzzy` has the primary key of the one that attaching stored, so it is never counted
(`merge.py:237`, against `docs/prd/05-pipeline.md:287`).

*Proofs* (`IdentityProofs`). Everything the run checks.
`IdentityTyped` types the variables and says that a tombstone points to an older row
(`Pointers`), so that the walk of `Canonical` ends. `ErasedInv` adds to
`ErasedStaysErased` that no evidence of a merge names an erased person either, since an
undo puts evidence back. `PartsInv`: a mention of a tombstone has been through a merge,
whence `RefinesPartition`, one lemma for each kind of step. `NumbersInv` and `NamesInv`
say of live rows what `Rule` reads of them. For `UndoIsExact`, `CleanInv` says what a
merge leaves of its two companies until something is written to either (`Merged`: their
rows, keys, decisions and founders as they were and as they are); `Spares` says that a
step writes to a company only if it also marks its merges; `RowsInv` and `KeptInv` say
that founders have distinct ids and evidence is of its own companies. From `Merged`,
`UndoExact` computes the undo.

`NewestDecisionSurvives` is not inductive: an undo splits a family, and each half has
to have heard of its own newest decision before the two were joined. `NewestInv` keeps
that. It cuts the tombstones of open merges (those whose undo would be exact, `Open`)
out of the forest: `Group` is what ends at a row then. `Sound` says that a live row
that absorbs nothing openly has heard of its group, and that the two decisions an open
merge recorded had each heard of theirs; `Linked` that an open merge is one tombstone
and shares no company with another. A step that writes to a company closes its merge,
and the later of two newest decisions is the newest of both groups (`SoundLoosened`,
`NewestJoin`), so closing keeps `Sound`; a merge opens one edge (`SoundMerged`), an
exact undo removes it from the forest and the log at once (`SoundUndone`), an undo of
what was written to spoils both groups (`SoundSpoilt`), which the property exempts.

## Extract

*State.* `prompts` is the override, `cache` the stored replies, `companies` the
columns that articles fill, `quarantined` the items set aside, `readingRun` the run
under way: its prompt, its client, the items read, the failures so far.

*Actions.* The prompt is saved or reset at any moment. A run takes its items and the
prompt of that moment, reads them one by one (filters, cache, the two clients with
their breaker and one retry, patterns), then folds what was read into the companies
and flags what a person should look at; it may die anywhere.

*World in `Machines`.* Four items (an article of two companies in one sentence's
distance, an award, a filing, a list), replies that are true, that quote another
company's amount, that do not fit, that are of an investor; a breaker of 1, one
prompt edit, two runs.

*Known limits.* Invalid JSON is said to be retried and quarantined
(`radar/extract/__init__.py`, point 6), but the real clients raise and the patterns
take over; a grant overwrites the total that was raised; a run that dies between the
row and its flag leaves it unflagged (`unflagged`); one-liner, sector and year are not
grounded; the key of the cache leaves out the title.

*Proofs* (`OperationsProofs`, `ReadingStaysHonest`). The four properties for any
items, texts, replies, prompts, breaker and number of runs, edits and crashes. The
inductive invariant `ExtractInv` says besides that a cached reply was given to the
prompt it is filed under and is one its text may draw, that what a run has read is
of the run's prompt or of none, and that unanswered calls are failures counted by
the breaker. It rests on `GroundedIsSaid`: whatever a
reply claims, what `Ground` leaves of it is quoted from the item. Assumed of the
world (`ExtractAssumption`): a reply that fits the schema has the schema's fields.

## Fetch

*State and actions.* Token buckets, the Companies House window, the cached
robots.txt, the request under way. A request is checked against robots (known, read,
or unreadable), takes a token, for Companies House a place in the window, is answered
or retried; an answer may be a redirect, which the client follows to another site
with no token and no look at its robots.txt (`Follow`, `radar/fetch/http.py:99`).
Time passes anywhere.

*World in `Machines`.* One site and Companies House, a window of two requests in two
ticks, one retry, three ticks.

*Known limits.* "At least delay seconds between starts"
(`docs/prd/04-sources.md:284`) does not hold: each robots-checked request sets the
delay again, which replaces the bucket by a full one (`radar/fetch/http.py:119`,
`radar/fetch/ratelimit.py:88`). The window is one process's; redirects and robots
files are not limited. `RobotsAreObeyed` is therefore about the site a page is asked
of, not about where that one redirects to. A redirect into Companies House, which
would pass its window by, and a redirect of robots.txt itself are left out.

*Proofs* (`OperationsProofs`, `FetchPolite`). Both properties for any hosts, delays,
limit and window: `Counted` says that the limiter's events are the requests sent in
the window, `Remembered` that a cached entry is what robots.txt last said.

## Searches

*State and actions.* `scans` are the processes, `lockFile` is `search.lock`, `kicks`
the kickoffs from Telegram, `jobs` the files and threads of the ChatGPT service. A
kickoff looks at the lock, spawns, writes the pid, which may fail and is only logged;
a scan ends and removes the file, whosever it is; a job is created, run, waited for, applied; kickoffs, scans and the
service may be killed, a job times out, the service restarts.

*World in `Machines`.* Two kickoffs, one job, one kill.

*Fairness.* What runs goes on; nobody has to ask, and the service may stay down.

*Known limits.* A job whose service died says `running` for ever: nothing reads old
files again. Two background scans do run at once when kickoffs overlap, one is killed
or fails before its pid is written, or another search's end takes the file along;
`excused` names exactly these, so `OneScanAtATime` does not catch them: it shows that
there is no other way.

*Proofs* (`SearchesTold`). Both properties for any number of kickoffs and jobs:
`Owned` and `FilesFollow` relate a job's file to its thread and its process, `InLine`
says that among background scans that are not excused only the owner of the lock
file is under way.

## Scoring, Tuning, Selection

`Scoring` is one company from its stored facts to its rows, by the daily path
(`ScoreOne`, all funds or one) and by `RescoreAll`, while facts are learned one by
one and the day turns. An unknown fact is neither 0 nor FALSE. World: two funds with
three vehicles, two starting companies, two facts learned. Limits: the two paths run
gates and qualification in different orders; the age cap uses the real date; three
facts that hard rules ask for are never written by any stage. The stored `qualifiers`
column is left out: `derive_qualifiers` reads it, but nothing in the program fills it.

`Tuning` is the table of thresholds for three companies with two verdicts, with room
for two rows, so that three floors are sampled.

`Selection` is the order of Today, its shares, the focus as two rows that the command
line and the control room write one after the other, and what dashboard, Sheet and
ping show. World: six firms of which four are of one family, two funds, two days, two
requests, or one and one change of the matches or the checks: focuses of one day,
which end, and of two, and a rotation that takes effect on the second day. Limit: the Sheet's cards are not in dashboard order although
`radar/render/sheet.py:755` says so (`SheetInDashboardOrder`, which no run checks: it
is false).

*Proofs* (`OperationsProofs`: `ShortlistStands`, `TableStands`, `QueueStaysFair`). `ScoringInv` adds to
one row per fund that rows and snapshots are of days that have come. That a shortlist
can be defended is a fact about two companies, of which the second knows more hard
facts (`MoreIsKnown`): a rule that was met or broken stays so, the gates read none of
those facts, qualifiers are only gained, and a shortlisted fund had no vehicle with
an unverified rule, so its list of eligible vehicles is the same. For `Tuning` the
state is only typed; the argument is arithmetic: a threshold keeps a fit exactly if it
is not above its floor, F1 is compared as fractions in a transitive order
(`FractionsOrdered`), and among finitely many candidates the one with the fewest
better ones has none. Assumed (`ScoringAssumption`, `TuningAssumption`): the fields of
a company, a number of qualifiers, finitely many companies, room for two rows.

`SelectionInv` is small: live matches are among the scored funds, what is checked is a
company, and a fund in focus has a request that was begun and not cleared, whichever
of two statements of which client is still to come. The rest is about functions of a
state. The three loops (the query's order, the spreading of a track, the capping) are
recursive functions; `Repeated` shows that a step on a set of lists can be repeated,
`SameFunction` that the recursion is that function, and `HandedOn` carries a property
from the first n elements to the first n + 1: that no card is on the list twice and
that the cards are those of the pool (`RowsSound`, `PicksSound`), that no card left is
more than twelve points above the one picked (`BestIsPicked`), and that no family has
more than its share of any fund's first cards (`AdmittedStaysShared`: a share of more
cards is never fewer). A list that lists a finite set without repeating it lists all of
it once it is as long, so every loop only permutes, and so the three surfaces agree.
Assumed (`SelectionAssumption`): finitely many companies and scores, priorities and
shares that are natural numbers, companies all of which have a name.

## Enrichment

*State and actions.* A run spends a budget of requests on dates, filings, officers
and what else the officers run; any request may fail or raise, the run may die, the
day turns, shares are filed, companies grow old.

*World in `Machines`.* Three companies, of which one's filings never come, one has no
date and one files late; a budget of 9, one run a day, one fault.

*Fairness.* A run goes on, and the timer starts one every day.

*Known limits.* A failed fetch of officers counts as no officers; a failed profile is
marked as asked for; a request that raises ends the stage with the same company first
tomorrow; a company that needs more than the budget left starves; undated companies
are never asked about again.

## Restore

*State and actions.* A database is its writes and, for each migration, the statements
run and the marker. Processes open and commit one write transaction at a time,
migrate statement by statement, snapshot and prune nightly. A restore, from the
control room, from the root helper or by hand, is confirmed, makes its safety copy,
verifies, locks, and either backs the copy into the live file or replaces a file
that cannot be read and drops its log; it is refused or dies at any step.

*World in `Machines`.* One write, one migration of two statements that an old build
may have left half run, two days, one restore.

*Known limits.* Replacing is not atomic, against the docstring of `restore_database`:
between `os.replace` and the removal of the log whoever opens the file reads both
(`radar/store/db.py:347`; `Mixed` here, and nobody writes to it). Writes between the
safety copy and the lock are lost. A restore by hand makes no safety copy. Safety
copies are pruned by the same pattern after 14 days.

*Proofs* (`DatabaseStands`). For any writes, migrations, days and restores:
`WritersWait` (an open transaction saw the live database, which nobody has replaced
since), `LiveIsWhole`, `CopiesRan` (a marker in any copy has its statements),
`Confirmed` (what was committed at the confirmation is in the safety copy).

## Updates

*State and actions.* `update-from-main.sh` step by step, twice (timer and release),
under its lock; the rollback, which takes none: it writes the hold, checks the commit
out and starts an install in the background (`CheckOut`, `StartInstall`,
`InstallBack`). Fetch, checkout, merge and install may fail, which ends the script
that ran them: a hold is written that is not checked out, or `main` is checked out
without being merged. An install has a beginning and an end, since a run may move the
checkout under the install of a rollback, or install beside it: what it leaves then is
a mixture (`mixed`, `installed = None`). Pushes and scans.

*World in `Machines`.* Three commits, one rollback, one failure, one scan.

*Fairness.* The timer and the steps of a run are strongly fair; a scan ends.

*Known limits.* A merge whose `install.sh` failed is never installed by a later cycle
(`deploy/update-from-main.sh:120`, against its header): `HEAD` has moved, and the
next run finds nothing to do. A rollback while an updater is past its guard loses its
hold, against `radar/admin/backups.py:13`, so `HoldStands` is about rollbacks whose
checkout succeeded with no run past the guard (`undisturbed`): from then until the
hold is released or replaced no timer, push, scan or failing install moves the
checkout. A rollback whose `git checkout` fails leaves its hold behind, which does not
stop the timer, because the guard compares it with `HEAD`
(`deploy/rollback.sh:113-118`, `deploy/rollback-guard.sh:32`).
`InstalledIsCheckedOut` is about the rest after an install that ran through by itself
(`missed` names the others: failed, a mixture, a merge that failed half way), and what
is waited for is a merge of which that is so. What is rescored after an install is left
out.

*Proofs* (`ServerFollows`). For any commits and any number of runs: the lock is the
running run's (`LockIsHeld`); unless the last install failed or was a mixture, what is
checked out is installed while no install is running or due (`InstallFollows`); and
after an undisturbed rollback no run is past the guard and no other checkout is to
come (`HoldFollows`).

## What is proved

Fifty-three theorems are listed in `PROJECT.json`; the lemmas and inductive
invariants they rest on are in the same modules. A proof module EXTENDS the modules
it is about:

| Module | About | Assumes, beside the constants' assumptions |
|---|---|---|
| `DecisionsProofs` | `Decisions` | for `LatestVerdictWins` and `GoneStaysGone`: no faults, no overlap, blank first cells (`Orderly`) |
| `TodayQAProofs` | `TodayQA` | `ApprovedIsOfThisScore`: no overlap; `FreshVerdict`: no overlap, no two events in one second; `RejectStands`: one pass; `ProofOutlivesDay`: `LinkTTL > ReuseMinLeft + ReviewLimit`; else nothing |
| `HarvestProofs` | `Harvest` | nothing |
| `HeartbeatProofs` | `Heartbeat` | for `DeadRunsAreSaid`: a pipeline that has sources |
| `IdentityProofs` | `Identity`, `Partition` | nothing |
| `OperationsProofs` | `Searches`, `Fetch`, `Extract`, `Scoring`, `Selection`, `Tuning`, `Weights`, `Updates`, `Restore` | nothing |
| `SettingsProofs` | `Sources`, `Criteria`, `Generations` | nothing; the properties of `Generations` are themselves about operations that do not overlap |
| `MachinesProofs` | `MCMachines` | nothing more |

The assumptions on constants are each module's named ASSUME: None is not a value, a
bound is a number, the ticks of a day are in order. TLC evaluates them in every run.
None bounds the number of companies, sources, processes, edits or crashes: those
that are bounds in a `.cfg` are any numbers in the theorems.

Each proof has the same shape. An invariant `XInv` is a conjunction of named parts;
one lemma says that the initial states satisfy it, one lemma per action (or group of
actions) that a step keeps it, with one step per part the action can disturb; one
lemma says that it implies the property; and the last theorem joins them with
`PTL`. `MachinesProofs` lifts the results of single modules to the composition:
`which` never changes, so a behaviour with `which = "x"` is one of module X, and XInv
is an invariant of the composition under `which = "x"`.

Actions too are proved: `UndoTakesBackOwn`, `OldEntryIsNotNews`, `RejectStands`,
`SavedIsScored` and `UndoIsExact` are properties of steps. So is a refinement:
`RefinesPartition` says that `Identity` implements `Partition`.

## What is only checked

Every safety property of a passing run, of states or of steps, is stated by a theorem
(under the assumptions of the table above). What is left to TLC:

- Liveness, out of TLAPS's reach here: `EntryIsDealtWith`, `EverywhereInTheEnd`,
  `SettlesOnTheSheet`, `EveryWaitEnds`.
- Three findings, each a run that TLC must find violated: `DecisionsMissedMirror`,
  `HarvestRedesign`, `HeartbeatRefused`.

## What is left out

The contents of pages, prompts, replies and messages; the parsing of each tab beyond
where a cell is looked for; the browser's side of the pages; authentication; time
zones (a day is a number of moments); clocks that go back. Everything else that is
not modelled is listed in `PROJECT.json` with its reason.

## Plan

1. A composition that does share state: a sync of `Sources` and a run of `Criteria`
   over one last-good snapshot.
2. The failure alerts of the units (`radar/notify/alert.py`) beside `Heartbeat`.
