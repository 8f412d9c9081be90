------------------------------- MODULE Criteria -------------------------------
(***************************************************************************)
(* The Fund Criteria tab: one row per vehicle of a fund, typed by hand and   *)
(* edited from the control room.  A morning run, a Sheet sync and the repair *)
(* command read the tab, refuse what is shifted, hold what is mistyped, and  *)
(* save what is clean as the last-good configuration; the control room       *)
(* writes the Sheet first and the snapshot second.  Between the two reads    *)
(* and the two writes other people type.                                     *)
(*                                                                         *)
(* Kept of a vehicle: whether it is active, its geography rule and places.   *)
(* One row per vehicle; the other tabs are one bit, whether a cell of        *)
(* Settings is in error.                                                     *)
(***************************************************************************)
EXTENDS Nothing, FiniteSets, Sequences, SequencesExt

CONSTANTS
    ShippedVehicles,    \* the vehicles of the fund in default_config
    AddedVehicle,       \* the vehicle of a fund added in the control room
    Places,             \* the vocabulary of Geo values
    Edited,             \* the vehicles whose rows somebody types in
    Typo,               \* a place that is not in it
    Cells,              \* what may stand in a Geo values cell, subsets of Places \cup {Typo}
    NoVehicle,          \* no such vehicle
    Together,           \* bound: may one request change the switch and the geography?
    MaxCriteriaChanges  \* bound: edits by hand and changes in the control room

VARIABLES
    configured,       \* are there credentials for a Sheet?
    criteriaTab,      \* the Fund Criteria tab, and whether a setting is mistyped
    goodVehicles,     \* the last-good configuration, None before the first
    scored,           \* what the last scoring used, and the vehicles whose rule was at fault
    load,             \* the run, sync or repair under way
    criteriaOp,       \* the control-room change under way
    criteriaChanges,  \* edits and changes so far
    stated,           \* history: the places somebody gave each rule, whole and in one piece
    vehicleAnswered   \* history: what the control room last confirmed for "active"

criteriaVars == <<configured, criteriaTab, goodVehicles, scored, load, criteriaOp,
                  criteriaChanges, stated, vehicleAnswered>>

Vehicles == ShippedVehicles \cup {AddedVehicle}
Rules == {"HARD", "SOFT"}

------------------------------------------------------------------------------
(* The tab.                                                                 *)

\* A row is named by keys, by the labels a person types, or its Vehicle key
\* column holds the YES of Active?.
RowNames == {"key", "label", "yes"}
CriteriaRows == [name : RowNames, active : {"TRUE", "FALSE", "?"}, rule : Rules,
                 places : SUBSET (Places \cup {Typo})]

\* What a run makes of a vehicle, and a configuration.
Settings == [active : BOOLEAN, rule : Rules, places : SUBSET Places]
VehicleConfigs == [Vehicles -> Settings \cup {NoVehicle}]
GoodConfigs == [vehicles : VehicleConfigs, poisoned : BOOLEAN]
CriteriaTabs ==
    [head : {"good", "shifted", "blank"}, mistyped : BOOLEAN,
     rows : [Vehicles -> CriteriaRows \cup {NoVehicle}]]

ASSUME CriteriaAssumption ==
    /\ IsFiniteSet(Vehicles) /\ AddedVehicle \notin ShippedVehicles
    /\ Edited \subseteq Vehicles
    /\ Typo \notin Places /\ \A c \in Cells : c \subseteq Places \cup {Typo}
    /\ NoVehicle \notin Settings \cup CriteriaRows
    /\ None \notin BOOLEAN \cup GoodConfigs \cup CriteriaTabs

\* default_config: the first vehicle HARD, with every place.
DefaultVehicles == [v \in Vehicles |->
    IF v = AddedVehicle THEN NoVehicle
    ELSE [active |-> TRUE, rule |-> "HARD", places |-> Places]]

\* fund_criteria_seed_grid.
SeedCriteriaRow(s) == [name |-> "key", active |-> IF s.active THEN "TRUE" ELSE "FALSE",
               rule |-> s.rule, places |-> s.places]
SeedTab(cfg, lines) ==
    [v \in Vehicles |-> IF cfg[v] = NoVehicle THEN lines[v] ELSE SeedCriteriaRow(cfg[v])]

Empty == [v \in Vehicles |-> NoVehicle]
IsBlank(t) == t.head = "blank" /\ t.rows = Empty

\* seed_grids: an empty tab is read as if the defaults were typed in it.
Seeded(t) ==
    IF IsBlank(t) THEN [t EXCEPT !.head = "good", !.rows = SeedTab(DefaultVehicles, Empty)] ELSE t

------------------------------------------------------------------------------
(* load_config: one row at a time, then the layout, then the HARD rules.    *)

\* parse_fund_criteria: what one row says.
ReadRow(row) == [active |-> row.active # "FALSE", rule |-> row.rule,
              places |-> row.places \cap Places]

Faulted(row) == row.rule = "HARD" /\ ~(row.places \subseteq Places)

Poisonous(row) == row # NoVehicle /\ row.name = "yes"
KeptRows(t) == {v \in Vehicles : t.rows[v] # NoVehicle /\ ~Poisonous(t.rows[v])}
Faults(t) == {v \in KeptRows(t) : Faulted(t.rows[v])}

\* fund_criteria_header_shift, and Active TRUE/FALSE in the Vehicle key column.
Layout(t) == t.head = "shifted" \/ \E v \in Vehicles : Poisonous(t.rows[v])

\* funds_are_poisoned.
UsableVehicles(cfg) == cfg # None /\ cfg.vehicles # Empty /\ ~cfg.poisoned

Of(cfg) == [vehicles |-> cfg, poisoned |-> FALSE]
Prior(v) == IF goodVehicles = None THEN NoVehicle ELSE goodVehicles.vehicles[v]

\* An earlier configuration that is itself an empty HARD rule is of no use.
CanHold(s) == s # NoVehicle /\ ~(s.rule = "HARD" /\ s.places = {})

\* _fail_closed_hard_geography: hold the vehicle at its last valid
\* configuration, or block it.
FailClosed(v, row) ==
    IF CanHold(Prior(v)) THEN Prior(v) ELSE [ReadRow(row) EXCEPT !.active = FALSE]

Parsed(t) == [v \in Vehicles |->
    CASE v \in Faults(t) -> FailClosed(v, t.rows[v])
      [] v \in KeptRows(t) \ Faults(t) -> ReadRow(t.rows[v])
      [] OTHER -> NoVehicle]

\* The configuration, whether there are errors, the vehicles at fault, and
\* whether the vehicles were taken from the code.
Loaded(t) ==
    IF Layout(t)
    THEN IF UsableVehicles(goodVehicles)
         THEN [cfg |-> goodVehicles, errors |-> TRUE, faults |-> {}, healed |-> FALSE]
         ELSE [cfg |-> Of(DefaultVehicles), errors |-> t.mistyped, faults |-> {}, healed |-> TRUE]
    ELSE [cfg |-> IF KeptRows(t) = {} /\ goodVehicles # None THEN goodVehicles ELSE Of(Parsed(t)),
          errors |-> t.mistyped \/ Faults(t) # {},
          faults |-> Faults(t), healed |-> FALSE]

\* Only a configuration without errors becomes the last-good one.
Promotes(r) == ~r.errors

\* load_runtime_config with no Sheet: the last-good vehicles, unless poisoned.
Offline ==
    IF goodVehicles = None \/ goodVehicles.poisoned THEN DefaultVehicles ELSE goodVehicles.vehicles

------------------------------------------------------------------------------
NoCriteriaWork == [kind |-> "idle"]

CriteriaInit ==
    /\ configured \in BOOLEAN
    /\ criteriaTab = [head |-> "good", mistyped |-> FALSE, rows |-> SeedTab(DefaultVehicles, Empty)]
    /\ goodVehicles \in {None, Of(DefaultVehicles), [vehicles |-> Empty, poisoned |-> TRUE]}
    /\ scored = [cfg |-> DefaultVehicles, faults |-> {}]
    /\ load = NoCriteriaWork /\ criteriaOp = NoCriteriaWork
    /\ criteriaChanges = 0
    /\ stated = [v \in Vehicles |-> {Places}]
    /\ vehicleAnswered = [v \in Vehicles |-> None]

(* Somebody types in the Sheet.                                             *)

\* A row with one cell changed.
Retyped(v, row) ==
    {[row EXCEPT !.name = n] : n \in IF v = AddedVehicle THEN {"key", "yes"} ELSE RowNames}
    \cup {[row EXCEPT !.active = a] : a \in {"TRUE", "FALSE", "?"}}
    \cup {[row EXCEPT !.rule = r] : r \in Rules}
    \cup {[row EXCEPT !.places = c] : c \in Cells}

EditCriteria ==
    /\ configured /\ criteriaChanges < MaxCriteriaChanges
    /\ criteriaChanges' = criteriaChanges + 1
    /\ UNCHANGED <<configured, goodVehicles, scored, load>>

\* History: somebody typed, or a load began, while a change was being written.
DisturbCriteria ==
    criteriaOp' = IF criteriaOp = NoCriteriaWork THEN criteriaOp
                  ELSE [criteriaOp EXCEPT !.alone = FALSE]

EditRow(v) ==
    /\ EditCriteria
    /\ criteriaTab.rows[v] # NoVehicle
    /\ \E row \in (Retyped(v, criteriaTab.rows[v]) \cup {NoVehicle}) \ {criteriaTab.rows[v]} :
          /\ criteriaTab' = [criteriaTab EXCEPT !.rows = [@ EXCEPT ![v] = row]]
          /\ stated' = IF row # NoVehicle /\ row.places \subseteq Places
                       THEN [stated EXCEPT ![v] = @ \cup {row.places}] ELSE stated
    /\ vehicleAnswered' = [vehicleAnswered EXCEPT ![v] = None]
    /\ DisturbCriteria

\* A column is inserted or taken out again; a setting is mistyped or put right.
EditTab ==
    /\ EditCriteria
    /\ \/ criteriaTab' = [criteriaTab EXCEPT !.head = IF @ = "shifted" THEN "good" ELSE "shifted"]
       \/ criteriaTab' = [criteriaTab EXCEPT !.mistyped = ~@]
    /\ UNCHANGED <<criteriaOp, stated, vehicleAnswered>>

EraseTab ==
    /\ EditCriteria
    /\ criteriaTab' = [criteriaTab EXCEPT !.head = "blank", !.rows = Empty]
    /\ vehicleAnswered' = [v \in Vehicles |-> None]
    /\ DisturbCriteria
    /\ UNCHANGED stated

------------------------------------------------------------------------------
(* A run, a sync and the repair: read the tabs, then validate and save.     *)

LoadRead(kind) ==
    /\ load = NoCriteriaWork
    /\ \/ configured /\ load' = [kind |-> kind, raw |-> Seeded(criteriaTab)]
       \/ kind # "sync" /\ load' = [kind |-> kind, raw |-> None]
    /\ DisturbCriteria
    /\ UNCHANGED <<configured, criteriaTab, goodVehicles, scored, criteriaChanges,
                   stated, vehicleAnswered>>

Done(kind) == IF kind = "repair" THEN [kind |-> "reseed"] ELSE NoCriteriaWork

\* Taking the vehicles from the code undoes whatever was confirmed.
Forget(undone) == vehicleAnswered' = IF undone THEN [v \in Vehicles |-> None] ELSE vehicleAnswered

\* Only a sync writes the tab: the seed of an empty one, and over a poisoned
\* one if it is the sync's own load that fell back on the code.
LoadFinish ==
    /\ load.kind \in {"run", "sync", "repair"}
    /\ load.raw # None
    /\ \E r \in {Loaded(load.raw)} :
       /\ goodVehicles' = IF Promotes(r) THEN r.cfg ELSE goodVehicles
       /\ scored' = IF load.kind # "run" THEN scored
                    ELSE [cfg |-> r.cfg.vehicles, faults |-> r.faults]
       /\ Forget(r.healed)
       /\ criteriaTab' = CASE load.kind = "sync" /\ r.healed ->
                        [criteriaTab EXCEPT !.head = "good", !.rows = SeedTab(r.cfg.vehicles, @)]
                   [] load.kind = "sync" /\ IsBlank(criteriaTab) -> Seeded(criteriaTab)
                   [] OTHER -> criteriaTab
    /\ load' = Done(load.kind)
    /\ UNCHANGED <<configured, criteriaOp, criteriaChanges, stated>>

\* The Sheet cannot be read.
LoadOffline ==
    /\ load.kind \in {"run", "repair"}
    /\ load.raw = None
    /\ goodVehicles' = IF goodVehicles = None \/ ~goodVehicles.poisoned THEN goodVehicles
                       ELSE Of(DefaultVehicles)
    /\ Forget(goodVehicles # None /\ goodVehicles.poisoned)
    /\ scored' = IF load.kind = "run" THEN [cfg |-> Offline, faults |-> {}] ELSE scored
    /\ load' = Done(load.kind)
    /\ UNCHANGED <<configured, criteriaTab, criteriaOp, criteriaChanges, stated>>

\* repair_fund_criteria: its own load has healed what it looks for, so only
\* --force-sheet reseeds the snapshot and, if it opens, the tab.
Reseed ==
    /\ load.kind = "reseed"
    /\ load' = NoCriteriaWork
    /\ \/ UNCHANGED <<criteriaTab, goodVehicles, vehicleAnswered>>
       \/ /\ goodVehicles' = Of(DefaultVehicles)
          /\ Forget(TRUE)
          /\ \/ /\ configured
                /\ criteriaTab' = [criteriaTab EXCEPT !.head = "good",
                                       !.rows = SeedTab(DefaultVehicles, Empty)]
             \/ UNCHANGED criteriaTab
    /\ UNCHANGED <<configured, scored, criteriaOp, criteriaChanges, stated>>

------------------------------------------------------------------------------
(* The control room: validate against the snapshot, write the Sheet row by  *)
(* row, then save, rescore and answer.                                      *)

CurrentCriteria == IF goodVehicles = None THEN Of(DefaultVehicles) ELSE goodVehicles

PresentVehicles(cfg) == {v \in Vehicles : cfg.vehicles[v] # NoVehicle}

\* The vehicles a change asked for alters.
Altered(cfg, next) == {v \in Vehicles : next[v] # cfg.vehicles[v]}

BeginCriteria(next) ==
    /\ criteriaOp = NoCriteriaWork /\ criteriaChanges < MaxCriteriaChanges
    /\ Altered(CurrentCriteria, next) # {}
    /\ criteriaChanges' = criteriaChanges + 1
    /\ criteriaOp' =
          [kind |-> "write", base |-> CurrentCriteria, next |-> next, found |-> TRUE,
           alone |-> load = NoCriteriaWork,
           todo |-> IF configured THEN SetToSeq(Altered(CurrentCriteria, next)) ELSE <<>>]
    /\ stated' = [v \in Vehicles |-> stated[v] \cup
                    {next[w].places : w \in Altered(CurrentCriteria, next) \cap {v}}]
    /\ UNCHANGED <<configured, criteriaTab, goodVehicles, scored, load, vehicleAnswered>>

\* _vehicle_value: an unknown place is refused, and a HARD rule with no place.
Accepted(s) == s.places \subseteq Places /\ (s.rule = "HARD" => s.places # {})

\* apply_vehicle: any of the fields of a vehicle.
ApplyVehicle(v) ==
    /\ v \in PresentVehicles(CurrentCriteria)
    /\ LET was == CurrentCriteria.vehicles[v] IN
       \E s \in [active : BOOLEAN, rule : Rules, places : Cells \cup {was.places}] :
          /\ Together \/ s.active = was.active \/ (s.rule = was.rule /\ s.places = was.places)
          /\ Accepted(s)
          /\ BeginCriteria([CurrentCriteria.vehicles EXCEPT ![v] = s])

\* set_fund_paused: every vehicle of the fund.
SetFundPaused(paused) ==
    BeginCriteria([v \in Vehicles |->
             IF v \in ShippedVehicles \cap PresentVehicles(CurrentCriteria)
             THEN [CurrentCriteria.vehicles[v] EXCEPT !.active = ~paused]
             ELSE CurrentCriteria.vehicles[v]])

AddFundRow ==
    /\ AddedVehicle \notin PresentVehicles(CurrentCriteria)
    /\ BeginCriteria([CurrentCriteria.vehicles EXCEPT ![AddedVehicle] =
                [active |-> TRUE, rule |-> "HARD", places |-> Places]])

\* MUTANT of Rewritten: the first row of a fund is the only one looked for.
RewrittenFirst(v, s) ==
    IF Len(criteriaOp.todo) < Cardinality(Altered(criteriaOp.base, criteriaOp.next))
    THEN criteriaTab.rows
    ELSE [criteriaTab.rows EXCEPT ![v] = [SeedCriteriaRow(s) EXCEPT !.name = criteriaTab.rows[v].name]]

\* The cells of the fields that change, and no others.
Rewritten(v, s) ==
    LET b == criteriaOp.base.vehicles[v]
        row == criteriaTab.rows[v] IN
    [criteriaTab.rows EXCEPT ![v] =
        [name |-> row.name,
         active |-> IF s.active = b.active THEN row.active ELSE SeedCriteriaRow(s).active,
         rule |-> IF s.rule = b.rule THEN row.rule ELSE s.rule,
         places |-> IF s.places = b.places THEN row.places ELSE s.places]]

\* _write_vehicle_cells looks for the keys in columns A and B; add_fund appends.
FoundRow(v) == /\ criteriaTab.head # "shifted"
               /\ criteriaTab.rows[v] # NoVehicle /\ criteriaTab.rows[v].name = "key"
IsNew(v) == criteriaOp.base.vehicles[v] = NoVehicle
Switched(v) ==
    IsNew(v) \/ criteriaOp.base.vehicles[v].active # criteriaOp.next[v].active

WriteRow ==
    /\ criteriaOp.kind = "write" /\ criteriaOp.todo # <<>>
    /\ LET v == Head(criteriaOp.todo) s == criteriaOp.next[v] IN
       /\ criteriaTab' = [criteriaTab EXCEPT !.rows =
                CASE IsNew(v) -> [@ EXCEPT ![v] = SeedCriteriaRow(s)]
                  [] ~IsNew(v) /\ FoundRow(v) -> Rewritten(v, s)
                  [] OTHER -> @]
       /\ criteriaOp' = [criteriaOp EXCEPT !.todo = Tail(@), !.found = @ /\ (IsNew(v) \/ FoundRow(v))]
       /\ vehicleAnswered' = [vehicleAnswered EXCEPT ![v] = None]
    /\ UNCHANGED <<configured, goodVehicles, scored, load, criteriaChanges, stated>>

\* The Sheet refuses a write, or the server dies: what is written stays.
CriteriaFail ==
    /\ criteriaOp.kind = "write"
    /\ criteriaOp' = NoCriteriaWork
    /\ UNCHANGED <<configured, criteriaTab, goodVehicles, scored, load, criteriaChanges,
                   stated, vehicleAnswered>>

\* _commit.  A change counts as confirmed when its row was found (or there is
\* no Sheet) and nobody typed or loaded the tab meanwhile.
CommitCriteria ==
    /\ criteriaOp.kind = "write" /\ criteriaOp.todo = <<>>
    /\ goodVehicles' = [criteriaOp.base EXCEPT !.vehicles = criteriaOp.next]
    /\ scored' = [cfg |-> criteriaOp.next, faults |-> {}]
    /\ vehicleAnswered' = [v \in Vehicles |->
          IF v \notin Altered(criteriaOp.base, criteriaOp.next) THEN vehicleAnswered[v]
          ELSE IF criteriaOp.found /\ criteriaOp.alone /\ Switched(v)
               THEN criteriaOp.next[v].active ELSE None]
    /\ criteriaOp' = NoCriteriaWork
    /\ UNCHANGED <<configured, criteriaTab, load, criteriaChanges, stated>>

------------------------------------------------------------------------------
LoadStep == LoadFinish \/ LoadOffline \/ Reseed

CriteriaNext ==
    \/ \E v \in Edited : EditRow(v)
    \/ EditTab
    \/ EraseTab
    \/ \E kind \in {"run", "sync", "repair"} : LoadRead(kind)
    \/ LoadFinish
    \/ LoadOffline
    \/ Reseed
    \/ \E v \in Vehicles : ApplyVehicle(v)
    \/ \E paused \in BOOLEAN : SetFundPaused(paused)
    \/ AddFundRow
    \/ WriteRow
    \/ CriteriaFail
    \/ CommitCriteria

\* A run every morning, to its end.
CriteriaFairness == WF_criteriaVars(LoadRead("run")) /\ WF_criteriaVars(LoadStep)

CriteriaSpec == CriteriaInit /\ [][CriteriaNext]_criteriaVars /\ CriteriaFairness

------------------------------------------------------------------------------
\* No vehicle is scored under a HARD rule with places nobody gave it: a typo
\* neither trims a rule nor empties it, whichever of the tab, the snapshot and
\* the control room it came through, and a vehicle at fault is never open.
GeographyWasStated ==
    \A v \in Vehicles : scored.cfg[v] # NoVehicle /\ scored.cfg[v].active
                        /\ scored.cfg[v].rule = "HARD" =>
        /\ scored.cfg[v].places \in stated[v]
        /\ v \in scored.faults => scored.cfg[v].places # {}

\* What the control room confirmed is what is scored, through every later
\* load, shifted tab, outage and further change, until somebody types in that
\* row or the vehicles are taken from the code.  Only a HARD rule at fault with
\* no earlier rule to hold it at blocks a vehicle all the same.
AnsweredIsScored ==
    \A v \in Vehicles : vehicleAnswered[v] # None =>
        /\ scored.cfg[v] # NoVehicle
        /\ \/ scored.cfg[v].active = vehicleAnswered[v]
           \/ v \in scored.faults /\ ~scored.cfg[v].active /\ ~CanHold(Prior(v))

\* A tab that can be promoted: nothing at fault in it, and not a bare header.
Promotable(t) ==
    /\ ~t.mistyped
    /\ Layout(t) \/ (Faults(t) = {} /\ KeptRows(t) # {})

\* A poisoned snapshot is replaced by what the tab says or, as long as the tab
\* is poisoned too or cannot be read, by the vehicles of the code.
PoisonStays ==
    goodVehicles # None /\ goodVehicles.poisoned /\ Promotable(Seeded(criteriaTab))
PoisonIsHealed == []<>~PoisonStays
=============================================================================
