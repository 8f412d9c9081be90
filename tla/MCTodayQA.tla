----------------------------- MODULE MCTodayQA -------------------------------
EXTENDS TodayQA, TLC

CONSTANTS c1, c2, c3, c4

\* Today order, best first.
OneRanked == c1 :> 1
FourRanked == c1 :> 1 @@ c2 :> 2 @@ c3 :> 3 @@ c4 :> 4

\* Texts and passes are interchangeable where no text is special.
Interchangeable == Permutations(Cards) \cup Permutations(Passes)
==============================================================================
