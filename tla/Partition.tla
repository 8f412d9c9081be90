------------------------------ MODULE Partition ------------------------------
(***************************************************************************)
(* What resolving mentions promises, whatever it matches them by: the      *)
(* mentions read so far fall into companies.  Reading a mention places     *)
(* that mention and moves no other; a merge unites two companies whole; an *)
(* undo separates only what a merge has united.                            *)
(***************************************************************************)
CONSTANT Mentions

VARIABLES
    same,     \* the pairs of mentions that are of one company
    united    \* sets of mentions that have been merged into another company

partition == <<same, united>>

Placed == {m \in Mentions : <<m, m>> \in same}

Group(m) == {n \in Mentions : <<m, n>> \in same}

Groups == {Group(m) : m \in Placed}

IsEquivalence(relation) ==
    \A a, b \in Mentions : <<a, b>> \in relation =>
        /\ <<b, a>> \in relation
        /\ \A c \in Mentions : <<b, c>> \in relation => <<a, c>> \in relation

Init ==
    /\ same = {}
    /\ united = {}

\* m goes where it goes, and every other pair stays what it is.
Place(m) ==
    /\ IsEquivalence(same')
    /\ <<m, m>> \in same'
    /\ \A a, b \in Mentions \ {m} : <<a, b>> \in same' <=> <<a, b>> \in same
    /\ UNCHANGED united

\* One may be a company of which no mention is left.
Unite(into, part) ==
    /\ same' = same \cup (into \X part) \cup (part \X into)
    /\ united' = united \cup {part}

Separate(part, rest) ==
    /\ \A a \in part, b \in rest : <<a, b>> \in same
    /\ part \subseteq UNION united
    /\ same' = same \ ((part \X rest) \cup (rest \X part))
    /\ UNCHANGED united

Next ==
    \/ \E m \in Mentions : Place(m)
    \/ \E into, part \in Groups \cup {{}} : Unite(into, part)
    \/ \E m \in Placed : \E part \in SUBSET Group(m) : Separate(part, Group(m) \ part)

Spec == Init /\ [][Next]_partition

=============================================================================
