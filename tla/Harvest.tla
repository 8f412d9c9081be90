------------------------------- MODULE Harvest -------------------------------
(***************************************************************************)
(* From a source's page to a company row: the fetch stage with its         *)
(* snapshot diff and layout check, the extract and resolve stages, the     *)
(* inverted denylist, and the two command-line operations that touch the   *)
(* same stored state (sources --test, sources --accept-layout).            *)
(*                                                                         *)
(* A source is either Diffed (an undated portfolio page, of which only     *)
(* what was not there last time is handed on) or a dated feed (everything  *)
(* on it is handed on every time).  A venture stands for one entry of a    *)
(* page and for the company it names.  The rows a run leaves for the       *)
(* operator (run, run_source, source_health) and what is made of them are  *)
(* the subject of module Heartbeat.                                        *)
(***************************************************************************)
EXTENDS Naturals

CONSTANTS
    Sources,      \* the enabled adapters
    Diffed,       \* those that diff their page against a stored snapshot
    Ventures,     \* what a page can list
    Listable,     \* source -> the ventures it may ever list (a bound)
    Layouts,      \* structures a page can have, as their fingerprints
    FirstLayout,  \* the one every source starts with
    NoLayout,     \* no fingerprint stored
    MaxEvents     \* bound on entries taken off or funded, redesigns, tests of a
                  \* source, failed fetches, withheld articles, runs that die

ASSUME ConstantsAssumption ==
    /\ Diffed \subseteq Sources
    /\ Listable \in [Sources -> SUBSET Ventures]
    /\ FirstLayout \in Layouts
    /\ NoLayout \notin Layouts
    /\ MaxEvents \in Nat

VARIABLES
    page,      \* source -> the ventures it lists at this moment
    blank,     \* entries nothing can be read of as their page stands: a card in
               \* which no name is found, an article that is withheld every time
    funded,    \* ventures a portfolio page shows as already funded or exited
    design,    \* source -> the structure of its page at this moment
    snapshot,  \* diffed source -> _meta "snapshot:KEY"
    layout,    \* source -> _meta "layout:KEY"
    stage,     \* of the run: idle, busy (fetch to resolve), scoring
    todo,      \* sources the run has still to fetch
    leads,     \* entries fetched and not yet resolved, <<source, venture>>
    listings,  \* ventures the run fetched as denylist evidence
    company,   \* ventures we hold a company row for
    flagged,   \* companies with on_vc_portfolio set
    events,    \* events so far, up to MaxEvents
    shown,     \* history: ventures this run has seen shown as funded
    settled,   \* history: entries resolved, or turned down by the reader
    lost,      \* history: entries that were dropped after the snapshot was saved
    gone,      \* history: entries taken off their page since they were last handed on
    missed     \* history: listed entries a saved snapshot has left out since

worldVars == <<page, blank, funded, design>>
runVars == <<stage, todo, leads, listings, shown>>
pastVars == <<gone, missed>>
vars == <<page, blank, funded, design, snapshot, layout, stage, todo, leads, listings,
          company, flagged, events, shown, settled, lost, gone, missed>>

Entries == Sources \X Ventures

Init ==
    /\ page = [s \in Sources |-> {}]
    /\ blank = {}
    /\ funded = {}
    /\ design = [s \in Sources |-> FirstLayout]
    /\ snapshot = [s \in Diffed |-> {}]
    /\ layout = [s \in Sources |-> NoLayout]
    /\ stage = "idle"
    /\ todo = {}
    /\ leads = {}
    /\ listings = {}
    /\ shown = {}
    /\ company = {}
    /\ flagged = {}
    /\ events = 0
    /\ settled = {}
    /\ lost = {}
    /\ gone = {}
    /\ missed = {}

-----------------------------------------------------------------------------
(* The sites.                                                              *)

Event == events < MaxEvents /\ events' = events + 1

Publish(s, v) ==
    /\ v \in Listable[s] \ page[s]
    /\ page' = [page EXCEPT ![s] = @ \union {v}]
    /\ UNCHANGED <<blank, funded, design, snapshot, layout, runVars, company,
                   flagged, events, settled, lost, pastVars>>

Withdraw(s, v) ==
    /\ v \in page[s]
    /\ page' = [page EXCEPT ![s] = @ \ {v}]
    /\ Event
    /\ gone' = gone \union {<<s, v>>}
    /\ UNCHANGED <<blank, funded, design, snapshot, layout, runVars, company, flagged,
                   settled, lost, missed>>

Fund(v) ==
    /\ v \notin funded
    /\ Event
    /\ funded' = funded \union {v}
    /\ UNCHANGED <<page, blank, design, snapshot, layout, runVars, company,
                   flagged, settled, lost, pastVars>>

Redesign(s, d) ==
    /\ design[s] # d
    /\ Event
    /\ design' = [design EXCEPT ![s] = d]
    /\ UNCHANGED <<page, blank, funded, snapshot, layout, runVars, company,
                   flagged, settled, lost, pastVars>>

\* The markup of a card changes so that its name is no longer found, with or
\* without a redesign; an article asks not to be indexed, has no body, or falls
\* behind the first 20 of its feed.  It stays so until the site changes again.
GoBlank(e) ==
    /\ e \notin blank
    /\ Event
    /\ blank' = blank \union {e}
    /\ UNCHANGED <<page, funded, design, snapshot, layout, runVars, company,
                   flagged, settled, lost, pastVars>>

Reappear(e) ==
    /\ e \in blank
    /\ blank' = blank \ {e}
    /\ UNCHANGED <<page, funded, design, snapshot, layout, runVars, company,
                   flagged, events, settled, lost, pastVars>>

-----------------------------------------------------------------------------
(* What an adapter makes of a page.                                        *)

\* The entries an adapter can read.
Items(s) == {v \in page[s] : <<s, v>> \notin blank}

\* An entry whose company is already held is skipped.
NewIdsUnheld(s) ==
    IF s \in Diffed THEN Items(s) \ snapshot[s] ELSE Items(s) \ company

\* snapshot_diff: the ids that were not there the last time.  No snapshot reads
\* as an empty one (its "bootstrap" mark is read by nothing).  A dated feed
\* keeps no snapshot.
NewIds(s) == IF s \in Diffed THEN Items(s) \ snapshot[s] ELSE Items(s)

\* The diff drops known entries whatever their kind.
DeniedIfNew(s) == IF s \in Diffed THEN NewIds(s) \cap funded ELSE {}

\* A funded venture on a portfolio page is evidence against a lead
\* (kind_hint vc_portfolio_listing), and is handed on whether new or not.
Denied(s) == IF s \in Diffed THEN Items(s) \cap funded ELSE {}

Handed(s) == {s} \X (NewIds(s) \ Denied(s))

\* Only what was new is saved.
SavedNewIds(s) ==
    IF s \in Diffed THEN [snapshot EXCEPT ![s] = NewIds(s)] ELSE snapshot

\* What could be read replaces the snapshot, be it less than the page lists, or
\* nothing at all: guard_nonempty counted the cards, not the items.
SavedSnapshot(s) ==
    IF s \in Diffed THEN [snapshot EXCEPT ![s] = Items(s)] ELSE snapshot

\* The entries of its page that a saving of the snapshot leaves out.
LeftOut(s) == IF s \in Diffed THEN {s} \X (page[s] \ Items(s)) ELSE {}

\* The history starts anew for what is handed on.
Read(s) ==
    /\ gone' = gone \ Handed(s)
    /\ missed' = (missed \ Handed(s)) \union LeftOut(s)

\* check_fingerprint: the first sighting is learned, a different one refused.
LayoutMoved(s) == layout[s] \notin {NoLayout, design[s]}

LearnedLayout(s) ==
    IF layout[s] = NoLayout THEN [layout EXCEPT ![s] = design[s]] ELSE layout

\* What a diffed source will not hand on again once it is dropped.
Unrepeatable(entries) == {e \in entries : e[1] \in Diffed}

-----------------------------------------------------------------------------
(* The run.                                                                *)

\* The timer's scan of every source, or a scan of one (--source KEY).
BeginRun(scope) ==
    /\ stage = "idle"
    /\ stage' = "busy"
    /\ todo' = scope
    /\ leads' = {}
    /\ listings' = {}
    /\ shown' = {}
    /\ UNCHANGED <<worldVars, snapshot, layout, company, flagged, events,
                   settled, lost, pastVars>>

Fetching(s) == stage = "busy" /\ s \in todo /\ todo' = todo \ {s}

\* The adapter answers in the known structure.  `withheld` are the articles of
\* a feed whose own pages fail this time (hydrate_articles); those that are
\* withheld every time are blank.
FetchSource(s, withheld) ==
    /\ Fetching(s)
    /\ page[s] # {}
    /\ ~LayoutMoved(s)
    /\ IF withheld = {} THEN UNCHANGED events ELSE s \notin Diffed /\ Event
    /\ snapshot' = SavedSnapshot(s)
    /\ layout' = LearnedLayout(s)
    /\ leads' = leads \union (Handed(s) \ ({s} \X withheld))
    /\ listings' = listings \union Denied(s)
    /\ shown' = shown \union (IF s \in Diffed THEN Items(s) \cap funded ELSE {})
    /\ Read(s)
    /\ UNCHANGED <<worldVars, stage, company, flagged, settled, lost>>

\* LayoutChanged from check_fingerprint: the adapter has already saved its
\* snapshot, and the items are dropped.
HoldBack(s) ==
    /\ Fetching(s)
    /\ page[s] # {}
    /\ LayoutMoved(s)
    /\ snapshot' = SavedSnapshot(s)
    /\ lost' = lost \union Unrepeatable(Handed(s))
    /\ Read(s)
    /\ UNCHANGED <<worldVars, layout, stage, leads, listings, shown, company,
                   flagged, events, settled>>

\* The snapshot is saved before the page is found to be unusable.
FetchFailsSaving(s) ==
    /\ Fetching(s)
    /\ IF page[s] = {} THEN UNCHANGED events ELSE Event
    /\ snapshot' = SavedSnapshot(s)
    /\ Read(s)
    /\ UNCHANGED <<worldVars, layout, stage, leads, listings, shown, company,
                   flagged, settled, lost>>

\* Blocked, denied by robots.txt, down, or (guard_nonempty) without a single
\* card, legible or not: the adapter raises before it compares with its snapshot.
FetchFails(s) ==
    /\ Fetching(s)
    /\ IF page[s] = {} THEN UNCHANGED events ELSE Event
    /\ UNCHANGED <<worldVars, snapshot, layout, stage, leads, listings, shown,
                   company, flagged, settled, lost, pastVars>>

Resolving(e) ==
    /\ stage = "busy"
    /\ todo = {}
    /\ e \in leads
    /\ leads' = leads \ {e}
    /\ settled' = settled \union {e}

\* resolve_item: the entry becomes, or joins, a company.
Resolve(e) ==
    /\ Resolving(e)
    /\ company' = company \union {e[2]}
    /\ UNCHANGED <<worldVars, snapshot, layout, stage, todo, listings, shown,
                   flagged, events, lost, pastVars>>

\* resolve_item returns None: no company is named, or more than one.
TurnDown(e) ==
    /\ Resolving(e)
    /\ UNCHANGED <<worldVars, snapshot, layout, stage, todo, listings, shown,
                   company, flagged, events, lost, pastVars>>

\* apply_denylist, once everything is resolved and before anything is scored.
ApplyDenylist ==
    /\ stage = "busy"
    /\ todo = {}
    /\ leads = {}
    /\ flagged' = flagged \union (company \cap listings)
    /\ stage' = "scoring"
    /\ UNCHANGED <<worldVars, snapshot, layout, todo, leads, listings, shown, company,
                   events, settled, lost, pastVars>>

\* Enrichment, scoring, Today QA, the Sheet: they end the run.
FinishRun ==
    /\ stage = "scoring"
    /\ stage' = "idle"
    /\ listings' = {}
    /\ shown' = {}
    /\ UNCHANGED <<worldVars, snapshot, layout, todo, leads, company, flagged,
                   events, settled, lost, pastVars>>

\* An exception outside the per-source isolation ends the run as failed; a
\* kill ends it without a word.  Either way nobody has the items any more.
RunDies ==
    /\ stage # "idle"
    /\ Event
    /\ stage' = "idle"
    /\ todo' = {}
    /\ leads' = {}
    /\ listings' = {}
    /\ shown' = {}
    /\ lost' = lost \union Unrepeatable(leads)
    /\ UNCHANGED <<worldVars, snapshot, layout, company, flagged, settled, pastVars>>

-----------------------------------------------------------------------------
(* The operator.                                                           *)

\* sources --accept-layout KEY
AcceptLayout(s) ==
    /\ layout[s] # NoLayout
    /\ layout' = [layout EXCEPT ![s] = NoLayout]
    /\ UNCHANGED <<worldVars, snapshot, runVars, company, flagged, events,
                   settled, lost, pastVars>>

\* sources --test KEY: fetch_all on this one adapter with the live database;
\* the items are printed and dropped.
TestSource(s) ==
    /\ page[s] # {}
    /\ snapshot' = SavedSnapshot(s)
    /\ layout' = LearnedLayout(s)
    /\ lost' = lost \union Unrepeatable(Handed(s))
    /\ Read(s)
    /\ Event
    /\ UNCHANGED <<worldVars, runVars, company, flagged, settled>>

-----------------------------------------------------------------------------

Sites ==
    \/ \E s \in Sources, v \in Ventures : Publish(s, v) \/ Withdraw(s, v)
    \/ \E v \in Ventures : Fund(v)
    \/ \E s \in Sources, d \in Layouts : Redesign(s, d)
    \/ \E s \in Sources, v \in Ventures : GoBlank(<<s, v>>) \/ Reappear(<<s, v>>)

Fetch(s) ==
    \/ \E withheld \in SUBSET Items(s) : FetchSource(s, withheld)
    \/ HoldBack(s)
    \/ FetchFails(s)

RunSteps ==
    \/ \E s \in Sources : Fetch(s)
    \/ \E e \in leads : Resolve(e) \/ TurnDown(e)
    \/ ApplyDenylist
    \/ FinishRun

Operator == \E s \in Sources : BeginRun({s}) \/ AcceptLayout(s) \/ TestSource(s)

Next == Sites \/ BeginRun(Sources) \/ RunSteps \/ RunDies \/ Operator

Spec == Init /\ [][Next]_vars

\* The timer starts a scan again and again and a started run goes on to its
\* next step; sites, events and the operator owe nothing.
FairSpec ==
    /\ Spec
    /\ WF_vars(RunSteps)
    /\ SF_vars(BeginRun(Sources))

\* A system without mishaps and tests, whose operator looks at every source
\* that reports a changed layout.
AttendedSpec ==
    /\ Init
    /\ [][Sites \/ BeginRun(Sources) \/ RunSteps
          \/ \E s \in Sources : AcceptLayout(s)]_vars
    /\ WF_vars(RunSteps)
    /\ SF_vars(BeginRun(Sources))
    /\ \A s \in Sources : WF_vars(LayoutMoved(s) /\ AcceptLayout(s))

-----------------------------------------------------------------------------
(* Properties.                                                             *)

\* Every variable has its type.
TypeOK ==
    /\ page \in [Sources -> SUBSET Ventures]
    /\ blank \in SUBSET Entries
    /\ funded \in SUBSET Ventures
    /\ design \in [Sources -> Layouts]
    /\ snapshot \in [Diffed -> SUBSET Ventures]
    /\ layout \in [Sources -> Layouts \union {NoLayout}]
    /\ stage \in {"idle", "busy", "scoring"}
    /\ todo \in SUBSET Sources
    /\ leads \in SUBSET Entries
    /\ listings \in SUBSET Ventures
    /\ shown \in SUBSET Ventures
    /\ company \in SUBSET Ventures
    /\ flagged \in SUBSET Ventures
    /\ events \in 0 .. MaxEvents
    /\ settled \in SUBSET Entries
    /\ lost \in SUBSET Entries
    /\ gone \in SUBSET Entries
    /\ missed \in SUBSET Entries

\* The stored snapshot suppresses an entry for good, so it may only name
\* entries that have been dealt with: resolved, turned down, in the hands of
\* the run in progress, denylist evidence, or dropped in one of the three ways
\* that are known to lose an entry (a changed layout, a run that died, a test
\* of the source).  Nothing else falls between the diff and the company row.
SnapshotAccounted ==
    \A s \in Diffed : \A v \in snapshot[s] :
        v \in funded \/ <<s, v>> \in settled \union leads \union lost

\* An undated entry is dated by the run that hands it on, so an old company
\* looks like this week's news whenever its entry is handed on again.  That
\* takes a page that took the entry off, or a read that listed it and found no
\* name: nothing else, no failed fetch, changed layout, test, dead run or
\* accepted layout, makes an entry news twice.
OldEntryIsNotNews ==
    [][\A e \in leads' \ leads :
          e[1] \in Diffed /\ e \in settled \union lost => e \in gone \union missed]_vars

\* No company that a portfolio page read in this run shows as funded reaches
\* scoring without its flag, even when the same run has only just created it
\* from another source.
DemotedBeforeScored == stage = "scoring" => company \cap shown \subseteq flagged

\* An entry that stays on its page and can be read is settled in the end,
\* through failed fetches, articles withheld for a time and runs that die on
\* it, unless the page's structure has changed or the entry is funded; only a
\* diffed source's entry may instead have been lost.  An entry that goes blank
\* is owed nothing while it is, and is settled or lost like any other after.
EntryIsDealtWith ==
    \A s \in Sources, v \in Ventures :
        v \in page[s] ~>
            \/ v \notin page[s]
            \/ <<s, v>> \in blank
            \/ LayoutMoved(s)
            \/ s \in Diffed /\ (v \in funded \/ <<s, v>> \in lost)
            \/ <<s, v>> \in settled

\* While its layout is reported as changed a source's items are held back
\* (docs/ops-guide.md:134-138); once the operator has accepted the layout,
\* whatever is still on the page reaches the pipeline.
HeldBackComesBack ==
    \A s \in Sources, v \in Ventures :
        v \in page[s] /\ LayoutMoved(s) ~>
            v \notin page[s] \/ v \in funded \/ <<s, v>> \in settled

==============================================================================
