------------------------------ MODULE Identity ------------------------------
(***************************************************************************)
(* Who is who.  A mention of a company (an article, a grant, an entry of   *)
(* the register) is compared with the companies it could be, by the ladder *)
(* of resolve/match.py, and attached to one or stored as a new one; a pair *)
(* that is only alike is queued for a person.  A merge of two stored       *)
(* companies leaves a tombstone and the evidence to undo it.  Around this  *)
(* the registry backfill inserts by number alone, website evidence adds a  *)
(* number to a company that has none, people decide about companies, and   *)
(* a founder who asks is erased.                                           *)
(*                                                                         *)
(* Domains are left out: no source states one.  Names are compared by a    *)
(* table, Likeness, in place of the string distances.                      *)
(***************************************************************************)
EXTENDS Integers, FiniteSets, Sequences

CONSTANTS
    Mentions,      \* what the sources bring
    Says,          \* mention -> [name, number, country] it states
    FromRegister,  \* the mentions that are entries of the register
    Names,
    Placeholders,  \* names that identify nobody
    Likeness,      \* name -> name -> how alike
    Numbers,       \* registration numbers
    Countries,
    Home,          \* the country of the register
    People,        \* founders
    Unknown,       \* a column that is NULL
    Cap,           \* MAX_FUZZY_CLUSTER
    MaxCompanies,  \* bound on companies
    MaxReads,      \* bound on mentions read
    MaxMerges,     \* bound on merges
    MaxFacts       \* bound on decisions, founders stored and numbers verified

\* 92 and over with every guard passed, 92 and over without, 84 to 91, two firms
\* of one family's name, none of these.
Degrees == {"auto", "held", "near", "kin", "apart"}

ASSUME ConstantsAssumption ==
    /\ FromRegister \subseteq Mentions
    /\ Placeholders \subseteq Names
    /\ Unknown \notin Numbers \cup Countries
    /\ Home \in Countries
    /\ Says \in [Mentions -> [name : Names \cup {Unknown}, number : Numbers \cup {Unknown},
                              country : Countries \cup {Unknown}]]
    /\ \A m \in FromRegister : Unknown \notin {Says[m].name, Says[m].number}
    /\ Likeness \in [Names -> [Names -> Degrees]]
    /\ {Cap, MaxCompanies, MaxReads, MaxMerges, MaxFacts} \subseteq Nat

Ids == 1 .. MaxCompanies

\* No company: the merged_into of a live one.
Nobody == 0

NoVerdict == 0

VARIABLES
    made,        \* companies inserted: 1 .. made, the older the smaller
    company,     \* id -> row [name, number, country, into]
    keys,        \* identifier: [kind, value, id, source]
    queue,       \* _meta "review:": [winner, loser, rule]
    events,      \* merge_event, with its evidence
    verdict,     \* user_field: id -> when the decision was made
    founders,    \* founder: [row, at, person]
    suppressed,  \* suppression
    reads,       \* mentions read, up to MaxReads
    facts,       \* decisions, founders and numbers stored, up to MaxFacts
    home,        \* history: mention -> company it was last resolved to
    swept,       \* history: companies the backfill wrote
    stale,       \* history: ids merged into a tombstone
    decided      \* history: id -> newest decision that was made about it

stored == <<made, company, keys, queue, events, verdict, founders, suppressed>>
vars == <<stored, reads, facts, home, swept, stale, decided>>

Rows == 1 .. made

NoRow == [name |-> Unknown, number |-> Unknown, country |-> Unknown, into |-> Nobody]

Init ==
    /\ made = 0
    /\ company = [c \in Ids |-> NoRow]
    /\ keys = {}
    /\ queue = {}
    /\ events = <<>>
    /\ verdict = [c \in Ids |-> NoVerdict]
    /\ founders = {}
    /\ suppressed = {}
    /\ reads = 0
    /\ facts = 0
    /\ home = [m \in Mentions |-> Nobody]
    /\ swept = {}
    /\ stale = {}
    /\ decided = [c \in Ids |-> NoVerdict]

Live == {c \in Rows : company[c].into = Nobody}

\* One step along the tombstones.
NextOf(id) == IF company[id].into = Nobody THEN id ELSE company[id].into

\* resolve_company_id: along the tombstones, an id seen twice ends the walk.
Canonical(id) ==
    LET end[c \in Ids] == [seen \in SUBSET Ids |->
            IF c \in seen \/ company[c].into = Nobody
            THEN c
            ELSE end[company[c].into][seen \cup {c}]]
    IN  end[id][{}]

-----------------------------------------------------------------------------
(* The ladder.                                                             *)

Conflict(a, b) == Unknown \notin {a, b} /\ a # b

Agree(a, b) == a # Unknown /\ a = b

\* compare: the first rule that fires on the mention's facts and a company's, or
\* "".
Rule(fact, row) ==
    LET alike == Likeness[fact.name][row.name]
        abroad == Conflict(fact.country, row.country)
    IN  IF Agree(fact.number, row.number) THEN "ch_exact"
        ELSE IF \/ Conflict(fact.number, row.number)
                \/ {fact.name, row.name} \cap Placeholders # {}
        THEN ""
        ELSE IF fact.name = row.name
        THEN IF abroad THEN "" ELSE "normkey_exact"
        ELSE CASE alike = "auto" /\ ~abroad -> "fuzzy"
               [] alike = "auto" /\ abroad  -> "fuzzy_held"
               [] alike = "held"            -> "fuzzy_held"
               [] alike \in {"near", "kin"}  -> alike
               [] alike = "apart"           -> ""

\* The order of find_match: decision, confidence, score.
Strength(rule) ==
    CASE rule = "ch_exact"      -> 5
      [] rule = "normkey_exact" -> 4
      [] rule = "fuzzy"         -> 3
      [] rule = "fuzzy_held"    -> 2
      [] rule = "near"          -> 1
      [] rule = "kin"           -> 0

Merges(rule) == rule \in {"ch_exact", "normkey_exact", "fuzzy"}

\* The names of these rules in the code start with "fuzzy".
IsFuzzy(rule) == rule \in {"fuzzy", "fuzzy_held", "near"}

\* fuzzy_cluster_size: the events count, undone ones too, and the aliases that
\* were written as fuzzy.
ClusterSize(c) ==
    1 + Cardinality({e \in DOMAIN events : events[e].winner = c /\ IsFuzzy(events[e].rule)})
      + Cardinality({k \in keys : k.id = c /\ k.kind = "alias" /\ k.source = "fuzzy"})

\* Without the names.
NumberedCandidates(fact) ==
    {Canonical(c) : c \in {c \in Rows : Agree(company[c].number, fact.number)}} \cap Live

\* The live companies worth comparing: by any key they ever had, tombstones
\* followed, and by a distinctive word of the name.
Candidates(fact) ==
    LET byNumber == {k.id : k \in {k \in keys : k.kind = "ch" /\ k.value = fact.number}}
                        \cup {c \in Rows : Agree(company[c].number, fact.number)}
        byName == {k.id : k \in {k \in keys : k.kind # "ch" /\ k.value = fact.name}}
                      \cup {c \in Rows : company[c].name = fact.name}
        byWord == {c \in Live : Likeness[fact.name][company[c].name] # "apart"}
        found == byNumber \cup (IF fact.name \in Placeholders THEN {} ELSE byName \cup byWord)
    IN  {Canonical(c) : c \in found} \cap Live

CappedRule(fact, c) ==
    LET rule == Rule(fact, company[c])
    IN  IF rule = "fuzzy" /\ ClusterSize(c) >= Cap THEN "fuzzy_held" ELSE rule

\* find_match: a best company and its rule; any of equals, for the rows come in
\* no order.
Matches(fact) ==
    LET close == {c \in Candidates(fact) : CappedRule(fact, c) # ""}
    IN  {c \in close : \A d \in close :
            Strength(CappedRule(fact, c)) >= Strength(CappedRule(fact, d))}

-----------------------------------------------------------------------------
(* Writing a mention.                                                      *)

Key(kind, value, id, source) == [kind |-> kind, value |-> value, id |-> id, source |-> source]

\* add_identifier, one after another: INSERT OR IGNORE on (kind, value, id).
Added(old, new) ==
    {k \in new : k.value # Unknown
        /\ ~\E o \in old : o.kind = k.kind /\ o.value = k.value /\ o.id = k.id} \cup old

Filled(old, new) == IF old = Unknown THEN new ELSE old

\* What was recorded of a merge is no longer the last word on companies that
\* something has changed since.
Touch(log, ids) ==
    [e \in DOMAIN log |->
        IF log[e].undone \/ {log[e].winner, log[e].loser} \cap ids = {}
        THEN log[e]
        ELSE [log[e] EXCEPT !.clean = FALSE]]

\* attach, and upsert_record's alias of a fuzzy match after it.
Attach(c, fact, fuzzy) ==
    LET row == company[c]
        kind == IF fact.name = row.name THEN "norm_key" ELSE "alias"
        own == Added(keys, {Key("ch", fact.number, c, "source"), Key(kind, fact.name, c, "source")})
    IN  /\ company' = [company EXCEPT
                          ![c].number = Filled(@, fact.number),
                          ![c].country = Filled(@, fact.country)]
        /\ keys' = IF fuzzy THEN Added(own, {Key("alias", fact.name, c, "fuzzy")}) ELSE own
        /\ events' = Touch(events, {c})
        /\ UNCHANGED <<made, queue>>

\* create_company.
Create(fact, nameKind) ==
    LET c == made + 1
    IN  /\ made < MaxCompanies
        /\ made' = c
        /\ company' = [company EXCEPT ![c] =
               [name |-> fact.name, number |-> fact.number, country |-> fact.country,
                into |-> Nobody]]
        /\ keys' = Added(keys, {Key(nameKind, fact.name, c, "source"),
                                Key("ch", fact.number, c, "source")})
        /\ UNCHANGED events

\* enqueue_review: one entry for a pair, whichever way round.
Enqueued(winner, loser, rule) ==
    IF \E q \in queue : {q.winner, q.loser} = {winner, loser}
    THEN queue
    ELSE queue \cup {[winner |-> winner, loser |-> loser, rule |-> rule]}

Resolved(m, c) ==
    /\ home' = [home EXCEPT ![m] = c]
    /\ reads' = reads + 1
    /\ UNCHANGED <<verdict, founders, suppressed, facts, stale, decided>>

\* upsert_record: fold it in, or store it and queue the pair, or store it.
UpsertRecord(m) ==
    LET fact == Says[m]
    IN  \/ \E c \in Matches(fact) :
              /\ Merges(CappedRule(fact, c))
              /\ Attach(c, fact, CappedRule(fact, c) = "fuzzy")
              /\ Resolved(m, c)
        \/ \E c \in Matches(fact) :
              /\ ~Merges(CappedRule(fact, c))
              /\ Create(fact, "norm_key")
              /\ queue' = Enqueued(c, made + 1, CappedRule(fact, c))
              /\ Resolved(m, made + 1)
        \/ /\ Matches(fact) = {}
           /\ Create(fact, "norm_key")
           /\ Resolved(m, made + 1)
           /\ UNCHANGED queue

\* resolve_item: a mention that names no single company is dropped.
ResolveItem(m) ==
    /\ reads < MaxReads
    /\ Says[m].name # Unknown
    /\ UpsertRecord(m)
    /\ UNCHANGED swept

\* enrich.upsert_company: the backfill knows a company by its number alone.
SweepItem(m) ==
    LET fact == [Says[m] EXCEPT !.country = Home]
        known == {c \in Live : company[c].number = fact.number}
        nameKind == IF fact.name \in Placeholders THEN "alias" ELSE "norm_key"
    IN  /\ reads < MaxReads
        /\ m \in FromRegister
        /\ \/ /\ known = {}
              /\ Create(fact, nameKind)
              /\ swept' = swept \cup {made + 1}
              /\ Resolved(m, made + 1)
              /\ UNCHANGED queue
           \/ \E c \in known :
                 /\ company' = [company EXCEPT ![c].name = fact.name, ![c].country = Home]
                 /\ keys' = Added(keys, {Key("ch", fact.number, c, "source"),
                                         Key(nameKind, fact.name, c, "source")})
                 /\ events' = Touch(events, {c})
                 /\ swept' = swept \cup {c}
                 /\ Resolved(m, c)
                 /\ UNCHANGED <<made, queue>>

\* verify_missing_crns: its site and the register name one number for it.  What
\* is read again after the pages were fetched is the number and the country, not
\* whether the company has been merged since.
VerifyCrn(c, number) ==
    /\ facts < MaxFacts
    /\ c \in Rows
    /\ company[c].number = Unknown
    /\ company[c].country \in {Unknown, Home}
    /\ \A d \in Live : company[d].number # number
    /\ company' = [company EXCEPT ![c].number = number]
    /\ keys' = Added(keys, {Key("ch", number, c, "source")})
    /\ events' = Touch(events, {c})
    /\ facts' = facts + 1
    /\ UNCHANGED <<made, queue, verdict, founders, suppressed, reads, home, swept, stale, decided>>

-----------------------------------------------------------------------------
(* Merging and undoing.                                                    *)

KeysOf(c) == {k \in keys : k.id = c}

SameKey(k, l) == k.kind = l.kind /\ k.value = l.value

Shared(k, c) == \E l \in KeysOf(c) : SameKey(k, l)

PeopleOf(c) == {f \in founders : f.at = c}

Persons(rows) == {f.person : f \in rows}

RowIds(rows) == {f.row : f \in rows}

\* The id of an INTEGER PRIMARY KEY is one more than the largest in use: that of
\* a deleted row is given again.
NextRow ==
    CHOOSE r \in 1 .. MaxFacts + 1 :
        /\ \A f \in founders : f.row < r
        /\ r = 1 \/ r - 1 \in RowIds(founders)

Record(c) == <<company[c], KeysOf(c), verdict[c], PeopleOf(c)>>

MovedTo(ks, c) == {[k EXCEPT !.id = c] : k \in ks}

\* Only where the winner holds none.
DecisionFills(winner, loser) == verdict[loser] # NoVerdict /\ verdict[winner] = NoVerdict

\* A decision moves unless the winner holds one as new.
DecisionMoves(winner, loser) ==
    verdict[loser] # NoVerdict /\ verdict[loser] > verdict[winner]

\* merge_companies: the evidence first, then tombstone, rows, columns, alias.
Evidence(winner, loser, rule) ==
    LET alias == Key("alias", company[loser].name, winner, "merge")
        moved == {k \in KeysOf(loser) : ~Shared(k, winner)}
        moves == DecisionMoves(winner, loser)
        collided == {f \in PeopleOf(loser) : f.person \in Persons(PeopleOf(winner))}
    IN  [winner    |-> winner,
         loser     |-> loser,
         rule      |-> rule,
         before    |-> company[winner],
         moved     |-> moved,
         deleted   |-> KeysOf(loser) \ moved,
         inserted  |-> IF \/ company[loser].name = company[winner].name
                          \/ company[loser].name \in Placeholders
                          \/ \E k \in KeysOf(winner) \cup MovedTo(moved, winner) : SameKey(k, alias)
                       THEN {}
                       ELSE {alias},
         decision  |-> moves,
         displaced |-> IF moves THEN verdict[winner] ELSE verdict[loser],
         people    |-> {f.row : f \in PeopleOf(loser) \ collided},
         dropped   |-> collided,
         undone    |-> FALSE,
         clean     |-> TRUE,
         was       |-> <<Record(winner), Record(loser)>>,
         part      |-> {m \in Mentions : home[m] # Nobody /\ Canonical(home[m]) = loser}]

MergeCompanies(winner, loser, rule) ==
    LET ev == Evidence(winner, loser, rule)
    IN  /\ Len(events) < MaxMerges
        /\ winner # loser
        /\ loser \in Live
        /\ company' = [company EXCEPT
               ![loser].into = winner,
               ![winner].number = Filled(@, company[loser].number),
               ![winner].country = Filled(@, company[loser].country)]
        /\ keys' = (keys \ KeysOf(loser)) \cup MovedTo(ev.moved, winner) \cup ev.inserted
        /\ verdict' = [verdict EXCEPT
               ![winner] = IF ev.decision THEN verdict[loser] ELSE @,
               ![loser] = NoVerdict]
        /\ founders' = {IF f.row \in ev.people THEN [f EXCEPT !.at = winner] ELSE f :
                            f \in founders \ ev.dropped}
        /\ events' = Append(Touch(events, {winner, loser}), ev)
        /\ stale' = IF winner \in Live THEN stale ELSE stale \cup {loser}
        /\ UNCHANGED <<made, suppressed, reads, facts, home, swept, decided>>

\* resolve_review: a merge that raises leaves the entry; either other way it goes.
ApproveReview(q) ==
    /\ q \in queue
    /\ MergeCompanies(q.winner, q.loser, q.rule)
    /\ queue' = queue \ {q}

DismissReview(q) ==
    /\ q \in queue
    /\ queue' = queue \ {q}
    /\ UNCHANGED <<made, company, keys, events, verdict, founders, suppressed>>
    /\ UNCHANGED <<reads, facts, home, swept, stale, decided>>

\* Every key of the winner but what the merge added.
ReturningAll(ev) == KeysOf(ev.winner) \ ev.inserted

\* What of the moved rows is still there to be moved back.
Returning(ev) == {k \in KeysOf(ev.winner) : \E l \in ev.moved : SameKey(k, l)} \ ev.inserted

\* The rows with an id of those the merge moved or dropped: the same ones, or
\* others that were given their ids since.
Reclaimed(ev) == {f \in founders : f.row \in ev.people \cup RowIds(ev.dropped)}

\* unmerge, as recorded.  A key or a decision the loser has been given since, or
\* a number that two live rows would have, is an IntegrityError: nothing of it is
\* applied.
Unmerge(e) ==
    LET ev == events[e]
        w == ev.winner
        l == ev.loser
        back == Returning(ev)
    IN  /\ ~ev.undone
        /\ company[l].into = w
        /\ \A k \in back : ~Shared(k, l)
        /\ ev.decision => NoVerdict \in {verdict[l], verdict[w]}
        /\ \A f, g \in founders :
              f # g /\ f.row \in ev.people /\ (g.row \in ev.people \/ g.at = l)
                  => f.person # g.person
        /\ company' = [company EXCEPT
               ![w] = [ev.before EXCEPT !.into = company[w].into],
               ![l].into = Nobody]
        /\ \A c, d \in {x \in Rows : company'[x].into = Nobody} :
              c # d => ~Agree(company'[c].number, company'[d].number)
        /\ keys' = LET kept == (keys \ ev.inserted) \ back
                       returned == kept \cup MovedTo(back, l)
                   IN  {k \in returned : ~\E d \in ev.deleted : k.id = d.id /\ SameKey(k, d)}
                           \cup ev.deleted
        /\ verdict' =
               LET returned == IF ev.decision /\ verdict[w] # NoVerdict
                               THEN [verdict EXCEPT ![l] = verdict[w], ![w] = NoVerdict]
                               ELSE verdict
               IN  IF ev.displaced = NoVerdict THEN returned
                   ELSE [returned EXCEPT ![IF ev.decision THEN w ELSE l] = ev.displaced]
        /\ founders' =
               LET returned == {IF f.row \in ev.people THEN [f EXCEPT !.at = l] ELSE f :
                                    f \in founders}
               IN  {f \in returned : /\ f.row \notin RowIds(ev.dropped)
                                     /\ f.at = l => f.person \notin Persons(ev.dropped)}
                       \cup ev.dropped
        /\ events' = [Touch(events, {w, l} \cup {f.at : f \in Reclaimed(ev)})
                          EXCEPT ![e] = [ev EXCEPT !.undone = TRUE]]
        /\ UNCHANGED <<made, queue, suppressed, reads, facts, home, swept, stale, decided>>

-----------------------------------------------------------------------------
(* People.                                                                 *)

\* The user's verdict on a card of the page, which may be older than a merge: a
\* decision about a company absorbed since stays on its tombstone.
Decide(c) ==
    /\ facts < MaxFacts
    /\ c \in Rows
    /\ facts' = facts + 1
    /\ verdict' = [verdict EXCEPT ![c] = facts']
    /\ decided' = [decided EXCEPT ![c] = facts']
    /\ events' = Touch(events, {c})
    /\ stale' = stale \cup ({c} \ Live)
    /\ UNCHANGED <<made, company, keys, queue, founders, suppressed, reads, home, swept>>

\* store_founders, of what the register says about the officers of a company that
\* may have been merged since it was asked.
StoreFounder(c, p) ==
    /\ facts < MaxFacts
    /\ c \in Rows
    /\ company[c].number # Unknown
    /\ p \notin suppressed
    /\ founders' = IF p \in Persons(PeopleOf(c))
                   THEN founders
                   ELSE founders \cup {[row |-> NextRow, at |-> c, person |-> p]}
    /\ events' = Touch(events, {c})
    /\ facts' = facts + 1
    /\ UNCHANGED <<made, company, keys, queue, verdict, suppressed, reads, home, swept, stale, decided>>

\* Without the evidence.
DeletePerson(p) ==
    /\ p \notin suppressed
    /\ founders' = {f \in founders : f.person # p}
    /\ suppressed' = suppressed \cup {p}
    /\ UNCHANGED <<made, company, keys, queue, events, verdict, reads, facts, home>>
    /\ UNCHANGED <<swept, stale, decided>>

\* forget_person: the rows, what a merge keeps of them for its undo, and the
\* entry that stops the next one, in one transaction.
ForgetPerson(p) ==
    /\ p \notin suppressed
    /\ founders' = {f \in founders : f.person # p}
    /\ events' = [e \in DOMAIN events |->
                     [events[e] EXCEPT !.dropped = {f \in @ : f.person # p},
                                       !.clean = @ /\ events[e].undone]]
    /\ suppressed' = suppressed \cup {p}
    /\ UNCHANGED <<made, company, keys, queue, verdict, reads, facts, home, swept, stale, decided>>

Next ==
    \/ \E m \in Mentions : ResolveItem(m)
    \/ \E m \in Mentions : SweepItem(m)
    \/ \E c \in Ids, number \in Numbers : VerifyCrn(c, number)
    \/ \E q \in queue : ApproveReview(q)
    \/ \E q \in queue : DismissReview(q)
    \/ \E e \in DOMAIN events : Unmerge(e)
    \/ \E c \in Ids : Decide(c)
    \/ \E c \in Ids, p \in People : StoreFounder(c, p)
    \/ \E p \in People : ForgetPerson(p)

Spec == Init /\ [][Next]_vars

-----------------------------------------------------------------------------
(* Properties.                                                             *)

Columns == [name : Names \cup {Unknown}, number : Numbers \cup {Unknown},
            country : Countries \cup {Unknown}, into : {Nobody} \cup Ids]

TypeOK ==
    /\ made \in 0 .. MaxCompanies
    /\ company \in [Ids -> Columns]
    /\ \A k \in keys : k.id \in Rows /\ k.kind \in {"ch", "norm_key", "alias"}
    /\ \A q \in queue : q.winner \in Rows /\ q.loser \in Rows
    /\ \A e \in DOMAIN events : events[e].winner \in Rows /\ events[e].loser \in Rows
    /\ verdict \in [Ids -> 0 .. MaxFacts]
    /\ \A f \in founders : f.at \in Rows /\ f.person \in People
    /\ suppressed \subseteq People
    /\ reads \in 0 .. MaxReads
    /\ facts \in 0 .. MaxFacts
    /\ home \in [Mentions -> {Nobody} \cup Ids]

\* The partition of the mentions that the stored rows and tombstones make.
Partition == INSTANCE Partition WITH
    same <- {pair \in Mentions \X Mentions :
                /\ Nobody \notin {home[pair[1]], home[pair[2]]}
                /\ Canonical(home[pair[1]]) = Canonical(home[pair[2]])},
    united <- {events[e].part : e \in DOMAIN events}

\* Reading, sweeping, merging and undoing implement Partition: a mention moves
\* alone, a merge takes every mention of the absorbed company along, also
\* those of companies it had absorbed, and an undo separates nothing else.
ImplementsPartition == Partition!Spec

Undoings(c) == {e \in DOMAIN events : events[e].undone /\ c \in {events[e].winner, events[e].loser}}

\* merge.py's audit: no two live rows that the ladder would have matched by a
\* number or a name.  Apart from rows the backfill wrote, which it matches by
\* number alone, and rows an undo put back.
OneRowPerCompany ==
    \A c, d \in Live :
        c # d /\ {c, d} \cap swept = {} /\ Undoings(c) \cup Undoings(d) = {} =>
            Rule(company[c], company[d]) \notin {"ch_exact", "normkey_exact"}

Family(c) == {d \in Rows : Canonical(d) = c}

\* "When both companies made the same decision the NEWEST one survives": a live
\* company carries the newest decision made about it or about any company merged
\* into it.  Decisions taken between a merge and its undo follow the undo, and
\* what is merged into a tombstone, or decided about one, stays there.
NewestDecisionSurvives ==
    \A c \in Live :
        \/ Family(c) \cap stale # {}
        \/ \E d \in Family(c) : \E e \in Undoings(d) : ~events[e].clean
        \/ /\ \A d \in Family(c) : decided[d] <= verdict[c]
           /\ verdict[c] \in {NoVerdict} \cup {decided[d] : d \in Family(c)}

Undoes(e) == ~events[e].undone /\ events'[e].undone

\* unmerge gives both companies back every column, key, decision and founder
\* they had, unless one of them has been written to in the meantime.
UndoIsExact ==
    [][\A e \in DOMAIN events :
           Undoes(e) /\ events[e].clean =>
               <<Record(events[e].winner)', Record(events[e].loser)'>> = events[e].was]_vars

\* forget: no founder row of an erased person, whatever is read, merged or
\* undone afterwards.
ErasedStaysErased == Persons(founders) \cap suppressed = {}

\* "Cap fuzzy clusters at 3 members before forcing review" (05-pipeline): no
\* company takes in more names that are only alike without a person asked.
Absorbed(c) == {k.value : k \in {k \in keys : k.id = c /\ k.kind = "alias"}}

FuzzyClustersAreCapped ==
    \A c \in Live : c \in swept \/ Cardinality(Absorbed(c)) < Cap

=============================================================================
