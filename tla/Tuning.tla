------------------------------- MODULE Tuning -------------------------------
(***************************************************************************)
(* The table of `tune`: for the thresholds at which the shortlist changes, *)
(* how many companies it would hold and how many of those that were judged *)
(* were liked.  Fits are in tenths of a percent, thresholds in percent.    *)
(***************************************************************************)
EXTENDS Integers, FiniteSets, FiniteSetsExt

CONSTANTS
    Rated, TunedFunds,
    FitsOf,      \* fits a score may have
    Highest,     \* the highest threshold that can be set, 100
    TableLimit,  \* MAX_SWEEP_ROWS
    MaxVerdicts

VARIABLES
    rows,     \* <<company, fund>> -> [fit, eligible]
    verdict,  \* company -> what the user wrote in the Verdict column
    tuningChanges

\* The table has room for both ends.
ASSUME TuningAssumption ==
    /\ IsFiniteSet(Rated)
    /\ FitsOf \subseteq Nat
    /\ Highest \in Nat
    /\ TableLimit \in Nat \ {0, 1}

tuningVars == <<rows, verdict, tuningChanges>>

\* labelled_companies: only the two decisive verdicts count.
Labels == {c \in Rated : verdict[c] \in {"worth contacting", "not for me"}}

Positives == {c \in Labels : verdict[c] = "worth contacting"}

ClampedThreshold(n) == Max({0, Min({Highest, n})})

\* The last threshold that keeps a fit.
Floor(fit) == ClampedThreshold(fit \div 10)

Floors == {Floor(rows[p].fit) : p \in {q \in DOMAIN rows : rows[q].eligible}}

\* round() of n/d, halves to the even.
Round(n, d) ==
    LET low == n \div d
    IN  IF 2 * (n % d) < d \/ (2 * (n % d) = d /\ low % 2 = 0) THEN low ELSE low + 1

\* The place of a floor in the sorted list, counted from 0.
PlaceInTable(floor) == Cardinality({g \in Floors : g < floor})

\* change_points: sampled evenly over the limit.
ChangePoints ==
    IF Cardinality(Floors) <= TableLimit THEN Floors
    ELSE {floor \in Floors : \E i \in 0 .. TableLimit - 1 :
            PlaceInTable(floor) = Round(i * (Cardinality(Floors) - 1), TableLimit - 1)}

Omitted == Cardinality(Floors) - Cardinality(ChangePoints)

WouldShortlist(t) == {p[1] : p \in {q \in DOMAIN rows : rows[q].eligible /\ rows[q].fit >= 10 * t}}

\* A row of the sweep, of the companies that were judged.
Sweep(t) ==
    LET judged == WouldShortlist(t) \cap Labels
    IN  [tp |-> Cardinality(judged \cap Positives),
         fp |-> Cardinality(judged \ Positives),
         fn |-> Cardinality(Positives \ WouldShortlist(t))]

\* F1 as a fraction: no F1 without a true positive.
HasF1(row) == row.tp > 0

NotBelow(r, q) == r.tp * (2 * q.tp + q.fp + q.fn) >= q.tp * (2 * r.tp + r.fp + r.fn)

Candidates == {t \in ChangePoints : HasF1(Sweep(t))}

\* The first of the best rows.
Recommended == Min({t \in Candidates : \A u \in Candidates : NotBelow(Sweep(t), Sweep(u))})

-----------------------------------------------------------------------------

Count == tuningChanges < MaxVerdicts /\ tuningChanges' = tuningChanges + 1

Judge(c, label) ==
    /\ Count
    /\ verdict' = [verdict EXCEPT ![c] = label]
    /\ UNCHANGED rows

RescorePair(p, fit, eligible) ==
    /\ Count
    /\ rows' = [rows EXCEPT ![p] = [fit |-> fit, eligible |-> eligible]]
    /\ UNCHANGED verdict

TuningInit ==
    /\ rows \in [Rated \X TunedFunds -> [fit : FitsOf, eligible : {TRUE}]]
    /\ verdict = [c \in Rated |-> ""]
    /\ tuningChanges = 0

TuningNext ==
    \/ \E c \in Rated, label \in {"worth contacting", "not for me", "unsure"} : Judge(c, label)
    \/ \E p \in Rated \X TunedFunds, fit \in FitsOf, eligible \in BOOLEAN : RescorePair(p, fit, eligible)

TuningSpec == TuningInit /\ [][TuningNext]_tuningVars

-----------------------------------------------------------------------------

\* "The complete set, not a sample": when the table says nothing was left out,
\* every threshold that can be set gives the shortlist of the next row of the
\* table, or none, and no threshold has a better F1 than the recommended one;
\* sampled, the table keeps both ends.
TableIsComplete ==
    /\ Floors # {} => {Min(Floors), Max(Floors)} \subseteq ChangePoints
    /\ Omitted = 0 => \A t \in 0 .. Highest :
        LET next == {u \in ChangePoints : u >= t}
        IN  /\ WouldShortlist(t) = IF next = {} THEN {} ELSE WouldShortlist(Min(next))
            /\ HasF1(Sweep(t)) => Candidates # {} /\ NotBelow(Sweep(Recommended), Sweep(t))

=============================================================================
