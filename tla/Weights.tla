------------------------------- MODULE Weights -------------------------------
(***************************************************************************)
(* The Scoring Weights tab and the Lists tab beside it, as a load reads      *)
(* them.  A weight is found by its place: the attribute is the last one      *)
(* named above the row, the fund is the heading of the column, the policy    *)
(* stands in one fixed column; the SIC codes and their sectors are two       *)
(* columns read side by side.  People type in the tabs, the control room     *)
(* adds a fund, and what a cell does not say is taken from the last-good     *)
(* configuration.                                                            *)
(*                                                                         *)
(* Kept: the headings, the rows and their cells, the importance block, the   *)
(* values the vocabulary admits, the SIC columns.  The rest of a             *)
(* configuration is one bit, whether some setting is in error.               *)
(***************************************************************************)
EXTENDS Nothing, Naturals, Sequences, FiniteSets

CONSTANTS
    AttributeOrder,           \* the attributes, in the order a tab is seeded in
    CategoryOrder,            \* the default vocabulary: <<attribute, value>> in that order
    FundOrder,                \* the funds of default_config, in order
    AddedFund,                \* a fund added in the control room
    Label,                    \* the label an old snapshot may hold for the first fund
    DefaultMatrix,            \* default_config: <<attribute, value, fund, weight>>
    DefaultSic,               \* default_config: rows of the SIC table, <<code, sector>>
    MatrixCells, WeighingCells,\* where somebody types a weight: <<row, column>>
    TypedCells,               \* what somebody types there
    Mistyped,                 \* a heading or an attribute nothing is named after
    SicEdits,                 \* what somebody makes of the SIC rows
    Neutral, Assume,          \* policies for an unknown value
    Stray,                    \* "exact", left over from a table written as text
    Blank,
    MaxWeightChanges          \* bound: edits by hand and in the control room

VARIABLES
    weightsTab,    \* the Scoring Weights tab, Blank when it is empty
    valuesTab,     \* the vocabulary columns of the Lists tab
    sicTab,        \* its columns sic_code and sic_sector, row by row
    faulty,        \* is some setting in error?
    listed,        \* the funds on the Fund Criteria tab
    goodWeights,   \* the last-good configuration as stored, None before the first
    config,        \* the configuration of the last load or change
    noted,         \* the rows of the matrix the last load put a note on
    read,          \* history: the tabs that load read
    weightsAsked,  \* history: weights the tab, a seed, a copy or a note showed
    weightChanges

weightsVars == <<weightsTab, valuesTab, sicTab, faulty, listed, goodWeights, config, noted,
                 read, weightsAsked, weightChanges>>

WeighedAttributes == {AttributeOrder[i] : i \in DOMAIN AttributeOrder}
ShippedWeights == {FundOrder[i] : i \in DOMAIN FundOrder}
WeighedFunds == ShippedWeights \cup {AddedFund}
Categories == {CategoryOrder[i] : i \in DOMAIN CategoryOrder}
Policies == {Neutral, Assume}

\* What may stand above a column; an old label does not.
Headings == WeighedFunds \cup {Mistyped, Blank, "Unknown policy", "Notes", "Status"}

\* A default weight is one of a value that is listed, for a fund that ships, on the
\* scale; there is one for each; rows of the SIC columns are pairs.
ASSUME WeightsAssumption ==
    /\ CategoryOrder \in Seq(Categories) /\ FundOrder \in Seq(ShippedWeights)
    /\ Categories \subseteq {<<v[1], v[2]>> : v \in Categories}
    /\ \A v \in Categories : v[1] \in WeighedAttributes
    /\ {None, Blank} \cap WeighedAttributes = {} /\ None \notin Nat
    /\ DefaultMatrix \subseteq
          {<<v[1], v[2], f, w>> : v \in Categories, f \in ShippedWeights, w \in 0..4}
    /\ \A m, n \in DefaultMatrix : <<m[1], m[2], m[3]>> = <<n[1], n[2], n[3]>> => m = n
    /\ Label \notin Headings
    /\ \A lines \in SicEdits :
          lines \in Seq({<<lines[i][1], lines[i][2]>> : i \in DOMAIN lines})
    /\ MaxWeightChanges \in Nat

\* READ_RANGES reads A1:I300: two columns of names, one per fund, Unknown
\* policy, Notes, Status; the policy is taken from column G.
Width == Len(FundOrder) + 3
PolicyColumn == Len(FundOrder) + 1

------------------------------------------------------------------------------
(* Weights.matrix is a set of <<attribute, value, fund, weight>>, at most one *)
(* weight each; Weights.importance one of <<attribute, fund, weight>>.        *)

WeightOf(matrix, a, v, f) ==
    LET found == {m \in matrix : m[1] = a /\ m[2] = v /\ m[3] = f}
    IN  IF found = {} THEN None ELSE (CHOOSE m \in found : TRUE)[4]

ImportanceOf(importance, a, f) ==
    LET found == {m \in importance : m[1] = a /\ m[2] = f}
    IN  IF found = {} THEN 1 ELSE (CHOOSE m \in found : TRUE)[3]

DefaultWeights == [matrix |-> DefaultMatrix, importance |-> {},
            policy |-> [a \in WeighedAttributes |-> Neutral],
            values |-> Categories, sic |-> DefaultSic, funds |-> ShippedWeights]

\* An old snapshot names the first fund by its label; beside it there may be
\* rows under the key.
Canonical(f) == IF f = Label THEN FundOrder[1] ELSE f

\* canonicalize_config: remap_leaf writes every spelling under the key.
CanonicalizeConfig(cfg) ==
    [cfg EXCEPT !.funds = {Canonical(f) : f \in cfg.funds},
                !.matrix = {<<m[1], m[2], Canonical(m[3]), m[4]>> : m \in cfg.matrix},
                !.importance = {<<m[1], Canonical(m[2]), m[3]>> : m \in cfg.importance}]

LastGood == IF goodWeights = None THEN None ELSE CanonicalizeConfig(goodWeights)

------------------------------------------------------------------------------
(* The tabs.                                                                *)

\* _weights_grid of default_config.
SeedWeightRow(category) ==
    [attribute |-> category[1], category |-> category[2],
     cells |-> [i \in 1..Width |->
        IF i <= Len(FundOrder)
        THEN LET w == WeightOf(DefaultMatrix, category[1], category[2], FundOrder[i])
             IN  IF w = None THEN Blank ELSE w
        ELSE IF i = PolicyColumn THEN Neutral ELSE Blank]]

Seed ==
    [header |-> FundOrder \o <<"Unknown policy", "Notes", "Status">>,
     rows |-> [i \in DOMAIN CategoryOrder |-> SeedWeightRow(CategoryOrder[i])],
     weighed |-> FundOrder,
     weighing |-> [k \in DOMAIN AttributeOrder |->
                    [attribute |-> AttributeOrder[k],
                     cells |-> [i \in DOMAIN FundOrder |-> Blank]]]]

\* read_sheet_state: an empty tab is read as its seed.
TabRead == IF weightsTab = Blank THEN Seed ELSE weightsTab

\* _fund_columns: a heading that names no known fund is taken for a key all
\* the same.
FundColumns(header) ==
    {i \in DOMAIN header : header[i] \notin {"Unknown policy", "Notes", "Status", Blank}}

\* The attribute is carried down from the last row that names one.
AttributeAt(tab, i) ==
    LET named == {j \in 1..i : tab.rows[j].attribute # Blank}
        last  == CHOOSE j \in named : \A k \in named : k <= j
    IN  IF named = {} \/ tab.rows[last].attribute \notin WeighedAttributes
        THEN None ELSE tab.rows[last].attribute

------------------------------------------------------------------------------
(* parse_weights.                                                           *)

\* coerce_weight: a blank is no entry, and neither is a cell that is no number.
IsNumber(cell) == cell \in Nat

Clamped(cell, top, fallback) == IF cell <= top THEN cell ELSE top

\* A number outside the scale gives way to the last-good weight.
Ranged(cell, top, fallback) == IF cell <= top THEN cell ELSE fallback

CellAt(tab, e) == tab.rows[e[1]].cells[e[2]]

\* The entries of the matrix in the order they are read, row by row.
Entries(tab, values) ==
    {e \in (DOMAIN tab.rows) \X FundColumns(tab.header) :
        /\ <<AttributeAt(tab, e[1]), tab.rows[e[1]].category>> \in values
        /\ IsNumber(CellAt(tab, e))}

Target(tab, e) == <<AttributeAt(tab, e[1]), tab.rows[e[1]].category, tab.header[e[2]]>>

\* Of two entries for the same weight the later one stands.
Standing(tab, values) ==
    LET entries == Entries(tab, values)
    IN  {e \in entries : \A d \in entries :
            Target(tab, d) = Target(tab, e) =>
                d[1] < e[1] \/ (d[1] = e[1] /\ d[2] <= e[2])}

\* The last-good weight of a target.
LastWeight(last, t) == IF last = None THEN None ELSE WeightOf(last.matrix, t[1], t[2], t[3])

WeightEntry(t, weight) == <<t[1], t[2], t[3], weight>>

ReadMatrix(tab, values, last) ==
    {LET t == Target(tab, e)
         fallback == IF LastWeight(last, t) = None THEN 0 ELSE LastWeight(last, t)
     IN  WeightEntry(t, Ranged(CellAt(tab, e), 4, fallback)) :
        e \in Standing(tab, values)}

\* Without one, the note on a number outside the scale says that 0 is used.
NotedZeros(tab, values, last) ==
    {WeightEntry(Target(tab, e), 0) :
        e \in {d \in Entries(tab, values) :
                CellAt(tab, d) > 4 /\ LastWeight(last, Target(tab, d)) = None}}

ReadImportance(tab, last) ==
    {<<tab.weighing[e[1]].attribute, tab.weighed[e[2]],
       Ranged(tab.weighing[e[1]].cells[e[2]], 10,
              IF last = None THEN 1
              ELSE ImportanceOf(last.importance, tab.weighing[e[1]].attribute, tab.weighed[e[2]]))>> :
        e \in {d \in (DOMAIN tab.weighing) \X FundColumns(tab.weighed) :
                /\ tab.weighing[d[1]].attribute \in WeighedAttributes
                /\ IsNumber(tab.weighing[d[1]].cells[d[2]])}}

\* The policy of an attribute: the last one its rows show in column G.
ReadPolicy(tab, values) ==
    [a \in WeighedAttributes |->
        LET shown == {i \in DOMAIN tab.rows : AttributeAt(tab, i) = a
                                              /\ tab.rows[i].cells[PolicyColumn] \in Policies}
        IN  IF shown = {} THEN Neutral
            ELSE tab.rows[CHOOSE i \in shown : \A j \in shown : j <= i].cells[PolicyColumn]]

\* The rows that get a note instead of a tick.
Odd(tab, values, i) ==
    /\ AttributeAt(tab, i) # None
    /\ \/ <<AttributeAt(tab, i), tab.rows[i].category>> \notin values
       \/ \E c \in FundColumns(tab.header) :
            /\ tab.rows[i].cells[c] # Blank
            /\ ~(IsNumber(tab.rows[i].cells[c]) /\ tab.rows[i].cells[c] <= 4)
       \/ tab.rows[i].cells[PolicyColumn] \notin Policies \cup {Blank}

------------------------------------------------------------------------------
(* parse_lists.                                                             *)

\* A populated vocabulary column replaces the default, an empty one does not.
ReadValues(tab) ==
    UNION {IF \E v \in tab : v[1] = a THEN {v \in tab : v[1] = a}
           ELSE {v \in Categories : v[1] = a} : a \in WeighedAttributes}

\* Each column is read without its blank cells, and the two are paired by place.
Filled(column) ==
    LET filled[n \in 0 .. Len(column)] ==
            IF n = 0 THEN <<>>
            ELSE IF column[n] = Blank THEN filled[n - 1] ELSE Append(filled[n - 1], column[n])
    IN  filled[Len(column)]
Column(lines, k) == [i \in DOMAIN lines |-> lines[i][k]]

\* sic_map_from_columns: of two rows with one code the later one stands; a
\* leftover "exact" leaves no table, and so the default in force.
SicMap(codes, sectors) ==
    LET paired == {i \in DOMAIN codes : i \in DOMAIN sectors}
    IN  IF \E i \in paired : sectors[i] = Stray THEN {}
        ELSE {<<codes[i], sectors[i]>> :
                i \in {j \in paired : \A k \in paired : codes[k] = codes[j] => k <= j}}

ReadSic(lines) ==
    LET table == SicMap(Filled(Column(lines, 1)), Filled(Column(lines, 2)))
    IN  IF table = {} THEN DefaultSic ELSE table

------------------------------------------------------------------------------
(* Steps.                                                                   *)

\* What a reader of the tab takes it to say: the weight in the row of a value,
\* in the group of an attribute, under the heading of a fund.
ShownWeights(tab) ==
    {<<AttributeAt(tab, i), tab.rows[i].category, tab.header[c], tab.rows[i].cells[c]>> :
        i \in DOMAIN tab.rows, c \in DOMAIN tab.header}
    \cup {<<tab.weighing[k].attribute, tab.weighed[c], tab.weighing[k].cells[c]>> :
            k \in DOMAIN tab.weighing, c \in DOMAIN tab.weighed}

\* load_config, by a morning run or a sync; the sync writes the seed into an
\* empty tab.
LoadWeights ==
    LET tab    == TabRead
        last   == LastGood
        values == ReadValues(valuesTab)
        matrix == ReadMatrix(tab, values, last)
        importance == ReadImportance(tab, last)
        unread == matrix = {} /\ importance = {} /\ last # None
        cfg    == CanonicalizeConfig(
                    [matrix |-> IF unread THEN last.matrix ELSE matrix,
                     importance |-> IF unread THEN last.importance ELSE importance,
                     policy |-> IF unread THEN last.policy ELSE ReadPolicy(tab, values),
                     values |-> values, sic |-> ReadSic(sicTab), funds |-> listed])
    IN  /\ config' = cfg
        /\ goodWeights' = IF faulty THEN goodWeights ELSE cfg
        /\ noted' = {i \in DOMAIN tab.rows : Odd(tab, values, i)}
        /\ read' = [weights |-> tab, sic |-> sicTab]
        /\ weightsAsked' = weightsAsked \cup ShownWeights(tab) \cup NotedZeros(tab, values, last)
        /\ weightsTab' \in {weightsTab, tab}
        /\ UNCHANGED <<valuesTab, sicTab, faulty, listed, weightChanges>>

\* add_fund: the row goes to the Fund Criteria tab, the weights of the template
\* are copied in the snapshot; the Scoring Weights tab gets no column.
Template == FundOrder[2]

Copied(matrix, a, v) ==
    LET entries == {m \in matrix : m[1] = a /\ m[2] = v}
        from(f) == WeightOf(matrix, a, v, f)
    IN  IF from(Template) # None THEN from(Template)
        ELSE IF \E i \in DOMAIN FundOrder : from(FundOrder[i]) # None
             THEN from(FundOrder[CHOOSE i \in DOMAIN FundOrder :
                        from(FundOrder[i]) # None /\ \A j \in 1..(i - 1) : from(FundOrder[j]) = None])
             ELSE 1

CopyWeights(cfg) ==
    LET unweighed == {m \in cfg.matrix : WeightOf(cfg.matrix, m[1], m[2], AddedFund) = None}
        plain == {m \in cfg.importance :
                    \A o \in cfg.importance : <<o[1], o[2]>> # <<m[1], AddedFund>>}
    IN  [cfg EXCEPT
            !.funds = cfg.funds \cup {AddedFund},
            !.matrix = cfg.matrix \cup
                {<<m[1], m[2], AddedFund, Copied(cfg.matrix, m[1], m[2])>> : m \in unweighed},
            !.importance = cfg.importance \cup
                {<<m[1], AddedFund, ImportanceOf(cfg.importance, m[1], Template)>> : m \in plain}]

WeightChange == weightChanges < MaxWeightChanges /\ weightChanges' = weightChanges + 1

AddFund ==
    LET current == IF LastGood = None THEN DefaultWeights ELSE LastGood
        cfg     == CopyWeights(current)
    IN  /\ WeightChange
        /\ AddedFund \notin current.funds
        /\ listed' = listed \cup {AddedFund}
        /\ config' = cfg /\ goodWeights' = cfg
        /\ weightsAsked' = weightsAsked \cup cfg.matrix \cup cfg.importance
        /\ noted' = {} /\ read' = [weights |-> Blank, sic |-> <<>>]
        /\ UNCHANGED <<weightsTab, valuesTab, sicTab, faulty>>

\* People edit the tabs.
EditWeights(tab) ==
    /\ WeightChange
    /\ weightsTab # Blank
    /\ weightsTab' = tab
    /\ UNCHANGED <<valuesTab, sicTab, faulty, listed, goodWeights, config, noted, read,
                   weightsAsked>>

TypeWeight ==
    \E at \in MatrixCells, x \in TypedCells :
        EditWeights([weightsTab EXCEPT !.rows[at[1]].cells[at[2]] = x])

TypeImportance ==
    \E at \in WeighingCells, x \in TypedCells :
        EditWeights([weightsTab EXCEPT !.weighing[at[1]].cells[at[2]] = x])

TypePolicy ==
    \E i \in {at[1] : at \in MatrixCells} :
        EditWeights([weightsTab EXCEPT !.rows[i].cells[PolicyColumn] = Assume])

\* Somebody clears, or mistypes, the attribute of a row.
TypeAttribute ==
    \E i \in {at[1] : at \in MatrixCells}, a \in {Blank, Mistyped} :
        EditWeights([weightsTab EXCEPT !.rows[i].attribute = a])

TypeHeading == EditWeights([weightsTab EXCEPT !.header[1] = Mistyped])

\* A column for the added fund goes in before Unknown policy; the range that is
\* read ends where it did.
InsertFundColumn ==
    LET widened(cells, x) ==
            [i \in 1..Width |-> IF i < PolicyColumn THEN cells[i]
                                ELSE IF i = PolicyColumn THEN x ELSE cells[i - 1]]
        rows == [i \in DOMAIN weightsTab.rows |->
                    [weightsTab.rows[i] EXCEPT !.cells = widened(@, 3)]]
        weighing == [k \in DOMAIN weightsTab.weighing |->
                        [weightsTab.weighing[k] EXCEPT !.cells = Append(@, Blank)]]
    IN  /\ AddedFund \in listed
        /\ weightsTab # Blank =>
              AddedFund \notin {weightsTab.header[i] : i \in DOMAIN weightsTab.header}
        /\ EditWeights([weightsTab EXCEPT !.header = widened(@, AddedFund), !.rows = rows,
                                          !.weighed = Append(@, AddedFund),
                                          !.weighing = weighing])

ClearWeights == EditWeights(Blank)

TypeLists ==
    /\ WeightChange
    /\ \/ \E v \in Categories : valuesTab' = valuesTab \ {v} /\ UNCHANGED sicTab
       \/ sicTab' \in SicEdits /\ UNCHANGED valuesTab
    /\ UNCHANGED <<weightsTab, faulty, listed, goodWeights, config, noted, read,
                   weightsAsked>>

TypeSetting ==
    /\ WeightChange
    /\ faulty' = ~faulty
    /\ UNCHANGED <<weightsTab, valuesTab, sicTab, listed, goodWeights, config, noted,
                   read, weightsAsked>>

------------------------------------------------------------------------------

\* The first load of a seeded Sheet, or an old snapshot with the first fund's
\* label in it beside its key.
Labelled ==
    [DefaultWeights EXCEPT !.matrix =
        {<<m[1], m[2], IF m[3] = FundOrder[1] THEN Label ELSE m[3], m[4]>> : m \in DefaultMatrix}]

WeightsInit ==
    /\ weightsTab = Seed /\ valuesTab = Categories /\ sicTab \in {<<>>} \cup SicEdits
    /\ faulty = FALSE /\ listed = ShippedWeights
    /\ goodWeights \in {None, DefaultWeights, Labelled}
    /\ config = DefaultWeights /\ noted = {}
    /\ read = [weights |-> Seed, sic |-> <<>>]
    /\ weightsAsked = ShownWeights(Seed)
    /\ weightChanges = 0

WeightsNext ==
    \/ LoadWeights \/ AddFund \/ TypeWeight \/ TypeImportance \/ TypePolicy
    \/ TypeAttribute \/ TypeHeading \/ InsertFundColumn \/ ClearWeights
    \/ TypeLists \/ TypeSetting

WeightsSpec == WeightsInit /\ [][WeightsNext]_weightsVars

------------------------------------------------------------------------------
(* Properties.                                                              *)

WeightsTypeOK ==
    /\ \A m \in config.matrix : m[1] \in WeighedAttributes /\ m[4] \in 0..4
    /\ \A m \in config.importance : m[1] \in WeighedAttributes /\ m[3] \in 0..10
    /\ noted \subseteq 1..Len(CategoryOrder)
    /\ weightChanges \in 0..MaxWeightChanges

\* The weights scores are made with are weights somebody gave: each was typed
\* for that attribute, value and fund, seeded or copied from the template, or a
\* note said that it is 0; and so was each importance.  A mistyped cell or
\* label, a cleared tab, a moved column or a load between two edits brings in
\* no other.
WeightsWereAsked ==
    /\ config.matrix \subseteq weightsAsked
    /\ \A m \in config.importance : m \in weightsAsked \/ m[3] = 1

Later(d, e) == d[1] > e[1] \/ (d[1] = e[1] /\ d[2] > e[2])

\* A weight that is typed under a fund and an attribute is the weight in force,
\* or its row says otherwise, or a later cell is about the same weight.
OddCellIsSaid ==
    read.weights # Blank =>
    LET tab == read.weights
    IN  \A e \in (DOMAIN tab.rows \ noted) \X FundColumns(tab.header) :
            Target(tab, e)[1] # None /\ CellAt(tab, e) # Blank =>
                \/ WeightEntry(Target(tab, e), CellAt(tab, e)) \in config.matrix
                \/ \E d \in (DOMAIN tab.rows) \X FundColumns(tab.header) :
                      Later(d, e) /\ Target(tab, d) = Target(tab, e) /\ IsNumber(CellAt(tab, d))

Complete(row) == row[1] # Blank /\ row[2] # Blank

\* As far down as the SIC columns have no gap, a code has the sector beside it,
\* or the one beside it further down.
PairsAreRows ==
    (\A i \in DOMAIN read.sic : read.sic[i][2] # Stray) =>
    \A i \in DOMAIN read.sic :
        (\A j \in 1..i : Complete(read.sic[j])) =>
            \/ read.sic[i] \in config.sic
            \/ \E k \in DOMAIN read.sic : k > i /\ read.sic[k][1] = read.sic[i][1]

WeightsStand == WeightsWereAsked /\ OddCellIsSaid /\ PairsAreRows

\* Every code has the sector of its own row: "the SIC -> sector map ..., as
\* paired columns" (parse_lists).  A blank sector moves those below it up.
SectorOfItsRow ==
    \A pair \in config.sic : pair \in DefaultSic \/ \E i \in DOMAIN read.sic : read.sic[i] = pair

==============================================================================
