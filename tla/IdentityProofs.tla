---------------------------- MODULE IdentityProofs ----------------------------
(***************************************************************************)
(* What holds of Identity for every ladder, every table of names and every *)
(* number of mentions, companies and merges: an erased founder stays       *)
(* erased, no two live rows are one company, the rows and tombstones       *)
(* implement the partition of the mentions, and an undo is exact.          *)
(***************************************************************************)
EXTENDS Identity, SequenceTheorems, WellFoundedInduction, TLAPS

-----------------------------------------------------------------------------
(* What the variables hold.                                                *)

Values == Names \cup Numbers \cup {Unknown}

AKey == [kind : {"ch", "norm_key", "alias"}, value : Values, id : Ids,
         source : {"source", "fuzzy", "merge"}]

AFounder == [row : 1 .. MaxFacts, at : Ids, person : People]

ARecord == Columns \X (SUBSET AKey) \X (0 .. MaxFacts) \X (SUBSET AFounder)

Rules == {"", "ch_exact", "normkey_exact", "fuzzy", "fuzzy_held", "near", "kin"}

APair == [winner : Ids, loser : Ids, rule : Rules]

AnEvent == [winner    : Ids,
            loser     : Ids,
            rule      : Rules,
            before    : Columns,
            moved     : SUBSET AKey,
            deleted   : SUBSET AKey,
            inserted  : SUBSET AKey,
            decision  : BOOLEAN,
            displaced : 0 .. MaxFacts,
            people    : SUBSET (1 .. MaxFacts),
            dropped   : SUBSET AFounder,
            undone    : BOOLEAN,
            clean     : BOOLEAN,
            was       : ARecord \X ARecord,
            part      : SUBSET Mentions]

Typed ==
    /\ made \in 0 .. MaxCompanies
    /\ company \in [Ids -> Columns]
    /\ keys \in SUBSET AKey
    /\ queue \in SUBSET APair
    /\ verdict \in [Ids -> 0 .. MaxFacts]
    /\ founders \in SUBSET AFounder
    /\ suppressed \in SUBSET People
    /\ reads \in 0 .. MaxReads
    /\ facts \in 0 .. MaxFacts
    /\ home \in [Mentions -> 0 .. made]

\* A row points to an older one, and so does what will make it point.
Pointers ==
    /\ \A c \in Ids : company[c].into # Nobody => c <= made /\ company[c].into < c
    /\ \A q \in queue : q.winner < q.loser /\ q.loser <= made

\* What is stored of a company is of a row that there is, and a row has a name.
Stored ==
    /\ \A c \in Rows : company[c].name \in Names
    /\ \A k \in keys : k.id <= made
    /\ \A f \in founders : f.at <= made /\ f.row <= facts

\* What is recorded of merges, among n companies and k facts.
LogFits(log, n, k) ==
    /\ log \in Seq(AnEvent)
    /\ \A e \in DOMAIN log :
          /\ log[e].winner < log[e].loser /\ log[e].loser <= n
          /\ log[e].before.name \in Names
          /\ \A f \in log[e].dropped : f.at = log[e].loser /\ f.row <= k
          /\ \A d \in log[e].deleted : d.id <= n

IdentityTyped == Typed /\ Pointers /\ Stored /\ LogFits(events, made, facts)

\* Nothing of an erased person is kept for an undo either.
ErasedInv ==
    /\ ErasedStaysErased
    /\ \A e \in DOMAIN events : Persons(events[e].dropped) \cap suppressed = {}

\* A mention of a tombstone has been through a merge.
PartsInv ==
    \A m \in Mentions : home[m] # Nobody /\ company[home[m]].into # Nobody =>
        \E e \in DOMAIN events : m \in events[e].part

\* No two live rows have one number; two with one name are told apart by a
\* number or a country.
NumbersInv == \A c, d \in Live : c # d => ~Agree(company[c].number, company[d].number)

Apart(row, other) ==
    \/ row.name # other.name
    \/ row.name \in Placeholders
    \/ Conflict(row.number, other.number)
    \/ Conflict(row.country, other.country)

NamesInv ==
    \A c, d \in Live :
        c # d /\ {c, d} \cap swept = {} /\ Undoings(c) \cup Undoings(d) = {} =>
            Apart(company[c], company[d])

\* Two founders have two ids.
Distinct(rows) == \A f, g \in rows : f.row = g.row => f = g

RowsInv == Distinct(founders)

\* What is kept of a merge for its undo is of its two companies.
KeptInv ==
    \A e \in DOMAIN events :
        /\ \A k \in events[e].inserted : k.id = events[e].winner
        /\ \A k \in events[e].deleted : k.id = events[e].loser
        /\ Distinct(events[e].dropped)

\* What a merge leaves of its two companies, until something changes either:
\* of their rows, their keys, their decisions and their founders, as they were
\* and as they are.
Pointing(row, to) == [row EXCEPT !.into = to]

MergedRows(ev, w, l, nw, nl) ==
    /\ w = ev.before /\ l.into = Nobody
    /\ nw.into = w.into /\ nl = Pointing(l, ev.winner)

MergedKeys(ev, w, l, nw, nl) ==
    /\ \A k \in w : k.id = ev.winner
    /\ \A k \in l : k.id = ev.loser
    /\ ev.moved = {k \in l : ~\E j \in w : SameKey(k, j)}
    /\ ev.deleted = l \ ev.moved
    /\ \A k \in ev.inserted : ~\E j \in w \cup MovedTo(ev.moved, ev.winner) : SameKey(j, k)
    /\ nw = w \cup MovedTo(ev.moved, ev.winner) \cup ev.inserted
    /\ nl = {}

MergedVerdicts(ev, w, l, nw, nl) ==
    /\ ev.decision => l # NoVerdict
    /\ ev.displaced = IF ev.decision THEN w ELSE l
    /\ nw = IF ev.decision THEN l ELSE w
    /\ nl = NoVerdict

PeopleTo(rows, c) == {[f EXCEPT !.at = c] : f \in rows}

MergedPeople(ev, w, l, nw, nl) ==
    /\ \A f \in w : f.at = ev.winner /\ f.row \notin ev.people
    /\ \A f \in l : f.at = ev.loser
    /\ ev.dropped = {f \in l : f.person \in Persons(w)}
    /\ ev.people = RowIds(l \ ev.dropped)
    /\ nw = w \cup PeopleTo(l \ ev.dropped, ev.winner)
    /\ nl = {}
    /\ \A f \in ev.dropped : f.row \notin RowIds(nw) \cup ev.people

KeysAt(ks, c) == {k \in ks : k.id = c}

PeopleAt(fs, c) == {f \in fs : f.at = c}

Merged(ev, rows, ks, vs, fs) ==
    /\ MergedRows(ev, ev.was[1][1], ev.was[2][1], rows[ev.winner], rows[ev.loser])
    /\ MergedKeys(ev, ev.was[1][2], ev.was[2][2], KeysAt(ks, ev.winner), KeysAt(ks, ev.loser))
    /\ MergedVerdicts(ev, ev.was[1][3], ev.was[2][3], vs[ev.winner], vs[ev.loser])
    /\ MergedPeople(ev, ev.was[1][4], ev.was[2][4],
                    PeopleAt(fs, ev.winner), PeopleAt(fs, ev.loser))

CleanInv ==
    \A e \in DOMAIN events : events[e].clean /\ ~events[e].undone =>
        Merged(events[e], company, keys, verdict, founders)

-----------------------------------------------------------------------------
(* Tombstones.                                                             *)

\* Canonical, of any rows.
Followed(rows, id) ==
    LET end[c \in Ids] == [seen \in SUBSET Ids |->
            IF c \in seen \/ rows[c].into = Nobody
            THEN c
            ELSE end[rows[c].into][seen \cup {c}]]
    IN  end[id][{}]

LEMMA CanonicalIsFollowed ==
    ASSUME NEW id
    PROVE  /\ Canonical(id) = Followed(company, id)
           /\ (Canonical(id))' = Followed(company', id)
  BY DEF Canonical, Followed

\* The equation of the walk, on the first n ids.
Walk(rows, n, f) ==
    f = [c \in 1 .. n |-> [seen \in SUBSET Ids |->
            IF c \in seen \/ rows[c].into = Nobody
            THEN c
            ELSE f[rows[c].into][seen \cup {c}]]]

\* Every row points to an older one.
Descends(rows) == \A c \in Ids : rows[c].into \in 0 .. c - 1

\* A set of natural numbers has a smallest one.
LEMMA Smallest ==
    ASSUME NEW S \in SUBSET Nat, S # {}
    PROVE  \E n \in S : \A m \in S : n <= m
  <1> DEFINE Less == {ss \in Nat \X Nat : ss[1] < ss[2]}
  <1>1. IsWellFoundedOn(Less, Nat)
    BY NatLessThanWellFounded, Zenon DEF OpToRel
  <1> HIDE DEF Less
  <1>2. PICK n \in S : \A m \in S : ~(<<m, n>> \in Less)
    BY <1>1, WFMin, Zenon
  <1>3. ASSUME NEW m \in S, m < n PROVE FALSE
    <2>1. <<m, n>> \in Nat \X Nat /\ <<m, n>>[1] < <<m, n>>[2]
      BY <1>3
    <2>2. <<m, n>> \in Less
      BY <2>1 DEF Less
    <2> QED BY <1>2, <1>3, <2>2
  <1> QED BY <1>3

LEMMA SizesAreNatural == MaxCompanies \in Nat /\ MaxFacts \in Nat /\ MaxReads \in Nat
  BY ConstantsAssumption

\* Where every row points to an older one, the recursion has a solution.
LEMMA WalkExists ==
    ASSUME NEW rows, Descends(rows)
    PROVE  \E f : Walk(rows, MaxCompanies, f)
  <1> DEFINE Bad == {n \in 0 .. MaxCompanies : ~\E f : Walk(rows, n, f)}
  <1>0. MaxCompanies \in Nat
    BY SizesAreNatural
  <1>1. SUFFICES ASSUME Bad # {} PROVE FALSE
    BY <1>0
  <1>2. PICK n \in Bad : \A m \in Bad : n <= m
    <2>1. Bad \in SUBSET Nat
      BY <1>0
    <2> HIDE DEF Bad
    <2> QED BY <1>1, <2>1, Smallest
  <1>3. n \in 0 .. MaxCompanies /\ n \in Nat /\ ~\E f : Walk(rows, n, f)
    BY <1>0, <1>2
  <1>4. n # 0
    <2>1. Walk(rows, 0, [c \in {} |-> c])
      BY DEF Walk
    <2> QED BY <1>3, <2>1
  <1>5. n - 1 \in 0 .. MaxCompanies /\ n - 1 \notin Bad
    <2>1. n - 1 \in 0 .. MaxCompanies /\ ~(n <= n - 1)
      BY <1>0, <1>3, <1>4
    <2> HIDE DEF Bad
    <2> QED BY <1>2, <2>1
  <1>6. PICK f : Walk(rows, n - 1, f)
    BY <1>5
  <1> DEFINE g == [c \in 1 .. n |-> [seen \in SUBSET Ids |->
                     IF c \in seen \/ rows[c].into = Nobody
                     THEN c
                     ELSE f[rows[c].into][seen \cup {c}]]]
  <1>7. \A c \in 1 .. n - 1 : g[c] = f[c]
    <2> SUFFICES ASSUME NEW c \in 1 .. n - 1 PROVE g[c] = f[c]
      OBVIOUS
    <2> DEFINE h(d) == [seen \in SUBSET Ids |->
                           IF d \in seen \/ rows[d].into = Nobody
                           THEN d
                           ELSE f[rows[d].into][seen \cup {d}]]
    <2>1. c \in 1 .. n
      BY <1>3
    <2>2. f = [d \in 1 .. n - 1 |-> h(d)]
      BY <1>6 DEF Walk
    <2>3. g = [d \in 1 .. n |-> h(d)]
      OBVIOUS
    <2> HIDE DEF h, g
    <2> QED BY <2>1, <2>2, <2>3
  <1>8. \A c \in 1 .. n : rows[c].into # Nobody => rows[c].into \in 1 .. n - 1
    BY <1>0, <1>3, <1>4 DEF Descends, Ids, Nobody
  <1>9. \A c \in 1 .. n : g[c] = [seen \in SUBSET Ids |->
                     IF c \in seen \/ rows[c].into = Nobody
                     THEN c
                     ELSE g[rows[c].into][seen \cup {c}]]
    <2> SUFFICES ASSUME NEW c \in 1 .. n
                 PROVE  g[c] = [seen \in SUBSET Ids |->
                     IF c \in seen \/ rows[c].into = Nobody
                     THEN c
                     ELSE g[rows[c].into][seen \cup {c}]]
      OBVIOUS
    <2>1. g[c] = [seen \in SUBSET Ids |->
                     IF c \in seen \/ rows[c].into = Nobody
                     THEN c
                     ELSE f[rows[c].into][seen \cup {c}]]
      OBVIOUS
    <2>2. rows[c].into # Nobody => g[rows[c].into] = f[rows[c].into]
      BY <1>7, <1>8
    <2> HIDE DEF g
    <2> QED BY <2>1, <2>2
  <1>10. Walk(rows, n, g)
    <2>1. g = [c \in 1 .. n |-> g[c]]
      OBVIOUS
    <2> HIDE DEF g
    <2> QED BY <1>9, <2>1 DEF Walk
  <1> QED BY <1>3, <1>10

\* The end of a row that points nowhere is itself, of another that of the row
\* it points to.
LEMMA FollowedEnds ==
    ASSUME NEW rows, Descends(rows)
    PROVE  \A c \in Ids : Followed(rows, c) =
               IF rows[c].into = Nobody THEN c ELSE Followed(rows, rows[c].into)
  <1> DEFINE f == CHOOSE f : f = [c \in Ids |-> [seen \in SUBSET Ids |->
                     IF c \in seen \/ rows[c].into = Nobody
                     THEN c
                     ELSE f[rows[c].into][seen \cup {c}]]]
  <1>0. MaxCompanies \in Nat
    BY SizesAreNatural
  <1>1. f = [c \in Ids |-> [seen \in SUBSET Ids |->
                     IF c \in seen \/ rows[c].into = Nobody
                     THEN c
                     ELSE f[rows[c].into][seen \cup {c}]]]
    BY WalkExists DEF Walk, Ids
  <1>2. \A c : Followed(rows, c) = f[c][{}]
    BY DEF Followed
  <1> HIDE DEF f
  <1>3. \A c \in Ids, seen \in SUBSET Ids :
           f[c][seen] = IF c \in seen \/ rows[c].into = Nobody
                        THEN c
                        ELSE f[rows[c].into][seen \cup {c}]
    <2> SUFFICES ASSUME NEW c \in Ids, NEW seen \in SUBSET Ids
                 PROVE  f[c][seen] = IF c \in seen \/ rows[c].into = Nobody
                                     THEN c
                                     ELSE f[rows[c].into][seen \cup {c}]
      OBVIOUS
    <2>1. f[c] = [s \in SUBSET Ids |-> IF c \in s \/ rows[c].into = Nobody
                                       THEN c
                                       ELSE f[rows[c].into][s \cup {c}]]
      BY <1>1
    <2> QED BY <2>1
  <1> DEFINE Bad == {c \in Ids : \E seen \in SUBSET Ids :
                        (\A s \in seen : c < s) /\ f[c][seen] # f[c][{}]}
  <1>4. Bad = {}
    <2> SUFFICES ASSUME Bad # {} PROVE FALSE
      OBVIOUS
    <2>1. PICK c \in Bad : \A d \in Bad : c <= d
      <3>1. Bad \in SUBSET Nat
        BY <1>0 DEF Ids
      <3> QED BY <3>1, Smallest
    <2>2. PICK seen \in SUBSET Ids : (\A s \in seen : c < s) /\ f[c][seen] # f[c][{}]
      BY <2>1
    <2>3. c \in Ids /\ c \in Nat /\ c \notin seen /\ \A s \in seen : s \in Nat
      BY <1>0, <2>1, <2>2 DEF Ids
    <2>4. rows[c].into # Nobody
      BY <1>3, <2>2, <2>3
    <2> DEFINE d == rows[c].into
    <2>5. d \in Ids /\ d < c
      BY <1>0, <2>3, <2>4 DEF Descends, Ids, Nobody
    <2>6. f[c][seen] = f[d][seen \cup {c}] /\ f[c][{}] = f[d][{} \cup {c}]
      BY <1>3, <2>3, <2>4
    <2>7. d \notin Bad
      BY <2>1, <2>3, <2>5 DEF Ids
    <2>8. \A t \in SUBSET Ids : (\A s \in t : d < s) => f[d][t] = f[d][{}]
      BY <2>5, <2>7
    <2>9. \A s \in seen \cup {c} : d < s
      BY <1>0, <2>2, <2>3, <2>5 DEF Ids
    <2> HIDE DEF d, Bad
    <2> QED BY <2>2, <2>3, <2>6, <2>8, <2>9
  <1>5. ASSUME NEW c \in Ids, rows[c].into # Nobody PROVE f[c][{}] = f[rows[c].into][{}]
    <2>1. rows[c].into \in Ids /\ rows[c].into < c
      BY <1>0, <1>5 DEF Descends, Ids, Nobody
    <2>2. f[c][{}] = f[rows[c].into][{} \cup {c}]
      BY <1>3, <1>5
    <2> QED BY <1>4, <2>1, <2>2
  <1>6. ASSUME NEW c \in Ids, rows[c].into = Nobody PROVE f[c][{}] = c
    BY <1>3, <1>6
  <1> QED BY <1>2, <1>5, <1>6

\* The walk ends at a row that is no younger and points nowhere.
LEMMA EndIsRoot ==
    ASSUME NEW rows, Descends(rows), NEW c \in Ids
    PROVE  /\ Followed(rows, c) \in Ids
           /\ Followed(rows, c) <= c
           /\ rows[Followed(rows, c)].into = Nobody
  <1> DEFINE Good(d) == /\ Followed(rows, d) \in Ids
                        /\ Followed(rows, d) <= d
                        /\ rows[Followed(rows, d)].into = Nobody
             Bad == {d \in Ids : ~Good(d)}
  <1>0. MaxCompanies \in Nat
    BY SizesAreNatural
  <1>1. SUFFICES ASSUME Bad # {} PROVE FALSE
    OBVIOUS
  <1>2. PICK d \in Bad : \A e \in Bad : d <= e
    <2>1. Bad \in SUBSET Nat
      BY <1>0 DEF Ids
    <2> QED BY <1>1, <2>1, Smallest
  <1>3. d \in Ids /\ ~Good(d)
    BY <1>2
  <1>4. CASE rows[d].into = Nobody
    BY <1>0, <1>3, <1>4, FollowedEnds DEF Ids
  <1>5. CASE rows[d].into # Nobody
    <2>1. rows[d].into \in Ids /\ rows[d].into < d
      BY <1>0, <1>3, <1>5 DEF Descends, Ids, Nobody
    <2>2. Good(rows[d].into)
      BY <1>2, <1>3, <2>1 DEF Ids
    <2>3. Followed(rows, d) = Followed(rows, rows[d].into)
      BY <1>3, <1>5, FollowedEnds
    <2> QED BY <1>0, <1>3, <2>1, <2>2, <2>3 DEF Ids
  <1> QED BY <1>4, <1>5

\* Rows that point alike end alike.
LEMMA SameEnds ==
    ASSUME NEW rows, Descends(rows), NEW after,
           \A c \in Ids : after[c].into = rows[c].into
    PROVE  \A c \in Ids : Followed(after, c) = Followed(rows, c)
  <1> DEFINE Bad == {c \in Ids : Followed(after, c) # Followed(rows, c)}
  <1>0. MaxCompanies \in Nat /\ Descends(after)
    BY SizesAreNatural DEF Descends
  <1>1. SUFFICES ASSUME Bad # {} PROVE FALSE
    OBVIOUS
  <1>2. PICK c \in Bad : \A d \in Bad : c <= d
    <2>1. Bad \in SUBSET Nat
      BY <1>0 DEF Ids
    <2> QED BY <1>1, <2>1, Smallest
  <1>3. c \in Ids /\ Followed(after, c) # Followed(rows, c)
    BY <1>2
  <1>4. CASE rows[c].into = Nobody
    BY <1>0, <1>3, <1>4, FollowedEnds
  <1>5. CASE rows[c].into # Nobody
    <2>1. rows[c].into \in Ids /\ rows[c].into < c
      BY <1>0, <1>3, <1>5 DEF Descends, Ids, Nobody
    <2>2. Followed(after, rows[c].into) = Followed(rows, rows[c].into)
      BY <1>2, <1>3, <2>1 DEF Ids
    <2> QED BY <1>0, <1>3, <1>5, <2>2, FollowedEnds
  <1> QED BY <1>4, <1>5

\* When a row l that points nowhere is made to point to an older one w, what
\* ended at l ends where w does, and nothing else moves.
LEMMA Redirected ==
    ASSUME NEW rows, Descends(rows), NEW after, NEW w \in Ids, NEW l \in Ids, w < l,
           rows[l].into = Nobody, after[l].into = w,
           \A c \in Ids \ {l} : after[c].into = rows[c].into
    PROVE  /\ \A c \in Ids : Followed(after, c) = IF Followed(rows, c) = l
                                                  THEN Followed(rows, w)
                                                  ELSE Followed(rows, c)
           /\ Followed(rows, w) # l
           /\ Followed(rows, l) = l
  <1> DEFINE Is(c) == Followed(after, c) = IF Followed(rows, c) = l
                                           THEN Followed(rows, w)
                                           ELSE Followed(rows, c)
             Bad == {c \in Ids : ~Is(c)}
  <1>0. MaxCompanies \in Nat /\ Descends(after)
    BY SizesAreNatural DEF Descends, Ids
  <1>1. Followed(rows, w) # l
    BY <1>0, EndIsRoot DEF Ids
  <1>2. Followed(rows, l) = l
    BY FollowedEnds
  <1>3. Bad = {}
    <2>1. SUFFICES ASSUME Bad # {} PROVE FALSE
      OBVIOUS
    <2>2. PICK c \in Bad : \A d \in Bad : c <= d
      <3>1. Bad \in SUBSET Nat
        BY <1>0 DEF Ids
      <3> QED BY <2>1, <3>1, Smallest
    <2>3. c \in Ids /\ ~Is(c)
      BY <2>2
    <2>4. \A d \in Ids : d < c => Is(d)
      BY <1>0, <2>2, <2>3 DEF Ids
    <2> HIDE DEF Bad
    <2>5. CASE c = l
      <3>1. Nobody \notin Ids /\ w # Nobody
        BY DEF Ids, Nobody
      <3>2. Followed(after, l) = Followed(after, w)
        BY <1>0, <3>1, FollowedEnds
      <3>3. Is(w)
        BY <2>4, <2>5
      <3> QED BY <1>1, <1>2, <2>3, <2>5, <3>2, <3>3
    <2>6. CASE c # l /\ rows[c].into = Nobody
      <3>1. Followed(rows, c) = c /\ Followed(after, c) = c
        BY <1>0, <2>3, <2>6, FollowedEnds
      <3> QED BY <2>3, <2>6, <3>1
    <2>7. CASE c # l /\ rows[c].into # Nobody
      <3>1. rows[c].into \in Ids /\ rows[c].into < c
        BY <1>0, <2>3, <2>7 DEF Descends, Ids, Nobody
      <3>2. /\ Followed(rows, c) = Followed(rows, rows[c].into)
            /\ Followed(after, c) = Followed(after, rows[c].into)
        BY <1>0, <2>3, <2>7, FollowedEnds
      <3> QED BY <2>3, <2>4, <3>1, <3>2
    <2> QED BY <2>5, <2>6, <2>7
  <1> QED BY <1>1, <1>2, <1>3

-----------------------------------------------------------------------------
(* Type correctness.                                                       *)

\* What a merge records is never rewritten, but for who has been erased.
Kept(ev, old) ==
    /\ ev.winner = old.winner /\ ev.loser = old.loser
    /\ ev.before = old.before
    /\ ev.moved = old.moved /\ ev.deleted = old.deleted /\ ev.inserted = old.inserted
    /\ ev.displaced = old.displaced /\ ev.people = old.people
    /\ ev.was = old.was /\ ev.part = old.part
    /\ ev.decision <=> old.decision

LEMMA TouchKeeps ==
    ASSUME NEW log \in Seq(AnEvent), NEW ids
    PROVE  /\ Touch(log, ids) \in Seq(AnEvent)
           /\ Len(Touch(log, ids)) = Len(log)
           /\ \A e \in DOMAIN log :
                 LET t == Touch(log, ids)[e]
                 IN  /\ Kept(t, log[e])
                     /\ t.dropped = log[e].dropped
                     /\ t.undone <=> log[e].undone
                     /\ log[e].undone => t = log[e]
                     /\ t.clean => log[e].clean
                     /\ t.clean /\ ~t.undone => {t.winner, t.loser} \cap ids = {}
  <1> DEFINE t(e) == IF log[e].undone \/ {log[e].winner, log[e].loser} \cap ids = {}
                     THEN log[e]
                     ELSE [log[e] EXCEPT !.clean = FALSE]
  <1>1. \A e \in DOMAIN log : log[e] \in AnEvent
    OBVIOUS
  <1>2. ASSUME NEW e \in DOMAIN log
        PROVE  /\ t(e) \in AnEvent
               /\ Kept(t(e), log[e])
               /\ t(e).dropped = log[e].dropped
               /\ t(e).undone <=> log[e].undone
               /\ log[e].undone => t(e) = log[e]
               /\ t(e).clean => log[e].clean
               /\ t(e).clean /\ ~t(e).undone => {t(e).winner, t(e).loser} \cap ids = {}
    <2>1. log[e] \in AnEvent
      BY <1>1, <1>2
    <2>2. CASE log[e].undone \/ {log[e].winner, log[e].loser} \cap ids = {}
      BY <2>1, <2>2 DEF Kept
    <2>3. CASE ~(log[e].undone \/ {log[e].winner, log[e].loser} \cap ids = {})
      <3> DEFINE s == [log[e] EXCEPT !.clean = FALSE]
      <3>1. s \in AnEvent /\ ~s.clean
        BY <2>1 DEF AnEvent
      <3>2. Kept(s, log[e]) /\ s.dropped = log[e].dropped /\ s.undone = log[e].undone
        BY <2>1 DEF AnEvent, Kept
      <3>3. t(e) = s
        BY <2>3
      <3> HIDE DEF s, t
      <3> QED BY <2>3, <3>1, <3>2, <3>3
    <2> QED BY <2>2, <2>3
  <1>3. Touch(log, ids) = [e \in DOMAIN log |-> t(e)]
    BY DEF Touch
  <1> HIDE DEF t
  <1>4. DOMAIN log = 1 .. Len(log) /\ Len(log) \in Nat
    OBVIOUS
  <1>5. [e \in 1 .. Len(log) |-> t(e)] \in Seq(AnEvent)
    BY <1>2, <1>4
  <1> QED BY <1>2, <1>3, <1>4, <1>5

\* A fact as a source states it, with a name.
AFact == [name : Names, number : Numbers \cup {Unknown}, country : Countries \cup {Unknown}]

LEMMA RuleIs ==
    ASSUME NEW fact, NEW row, fact.name \in Names, row.name \in Names
    PROVE  Rule(fact, row) \in Rules
  <1>1. Likeness[fact.name][row.name] \in Degrees
    BY ConstantsAssumption
  <1> QED BY <1>1 DEF Rule, Rules, Degrees

LEMMA KeysAdded ==
    ASSUME NEW old \in SUBSET AKey, NEW new \in SUBSET AKey, NEW n \in Nat,
           \A k \in old \cup new : k.id <= n
    PROVE  /\ Added(old, new) \in SUBSET AKey
           /\ \A k \in Added(old, new) : k.id <= n
           /\ old \subseteq Added(old, new)
           /\ \A k \in Added(old, new) : k \in old \/ k \in new
  BY DEF Added

\* A row with two of its columns rewritten.
LEMMA RowFilled ==
    ASSUME NEW row \in Columns, NEW n, NEW y
    PROVE  [row EXCEPT !.number = n, !.country = y]
               = [name |-> row.name, number |-> n, country |-> y, into |-> row.into]
  <1> DEFINE first == [row EXCEPT !.number = n]
  <1>1. first = [name |-> row.name, number |-> n, country |-> row.country, into |-> row.into]
    BY DEF Columns
  <1> HIDE DEF first
  <1>2. [first EXCEPT !.country = y]
               = [name |-> row.name, number |-> n, country |-> y, into |-> row.into]
    BY <1>1
  <1> QED BY <1>2 DEF first

LEMMA AttachTyped ==
    ASSUME IdentityTyped, NEW c \in Live, NEW fact \in AFact, NEW fuzzy \in BOOLEAN,
           Attach(c, fact, fuzzy)
    PROVE  /\ company' \in [Ids -> Columns]
           /\ \A d \in Ids : /\ company'[d].into = company[d].into
                             /\ company'[d].name = company[d].name
           /\ keys' \in SUBSET AKey
           /\ \A k \in keys' : k.id <= made
           /\ made' = made /\ queue' = queue /\ events' = Touch(events, {c})
  <1>1. /\ c \in Ids /\ c <= made /\ made \in Nat /\ company \in [Ids -> Columns]
        /\ keys \in SUBSET AKey /\ \A k \in keys : k.id <= made
    BY SizesAreNatural DEF IdentityTyped, Typed, Stored, Live, Rows, Ids
  <1>2. company' = [company EXCEPT ![c] = [company[c] EXCEPT
                       !.number = Filled(company[c].number, fact.number),
                       !.country = Filled(company[c].country, fact.country)]]
    BY <1>1 DEF Attach, Columns
  <1>3. /\ Filled(company[c].number, fact.number) \in Numbers \cup {Unknown}
        /\ Filled(company[c].country, fact.country) \in Countries \cup {Unknown}
    BY <1>1 DEF Filled, AFact, Columns
  <1> DEFINE kind == IF fact.name = company[c].name THEN "norm_key" ELSE "alias"
             first == {Key("ch", fact.number, c, "source"), Key(kind, fact.name, c, "source")}
             second == {Key("alias", fact.name, c, "fuzzy")}
  <1>4. /\ first \in SUBSET AKey /\ second \in SUBSET AKey
        /\ \A k \in first \cup second : k.id <= made
    BY <1>1 DEF Key, AKey, AFact, Values
  <1>5. keys' = IF fuzzy THEN Added(Added(keys, first), second) ELSE Added(keys, first)
    BY DEF Attach
  <1> HIDE DEF first, second, kind
  <1>6. keys' \in SUBSET AKey /\ \A k \in keys' : k.id <= made
    <2>1. /\ Added(keys, first) \in SUBSET AKey
          /\ \A k \in Added(keys, first) : k.id <= made
      BY <1>1, <1>4, KeysAdded
    <2>2. /\ Added(Added(keys, first), second) \in SUBSET AKey
          /\ \A k \in Added(Added(keys, first), second) : k.id <= made
      BY <1>1, <1>4, <2>1, KeysAdded
    <2> QED BY <1>5, <2>1, <2>2
  <1> DEFINE number == Filled(company[c].number, fact.number)
             country == Filled(company[c].country, fact.country)
             row == [company[c] EXCEPT !.number = number, !.country = country]
  <1>7. row \in Columns /\ row.into = company[c].into /\ row.name = company[c].name
    <2>1. number \in Numbers \cup {Unknown} /\ country \in Countries \cup {Unknown}
      BY <1>3
    <2>2. row = [name |-> company[c].name, number |-> number, country |-> country,
                 into |-> company[c].into]
      BY <1>1, RowFilled
    <2> HIDE DEF number, country, row
    <2> QED BY <1>1, <2>1, <2>2 DEF Columns
  <1>8. company' = [company EXCEPT ![c] = row]
    BY <1>2
  <1> HIDE DEF row
  <1>9. made' = made /\ queue' = queue /\ events' = Touch(events, {c})
    BY DEF Attach
  <1> QED BY <1>1, <1>6, <1>7, <1>8, <1>9

LEMMA CreateTyped ==
    ASSUME IdentityTyped, NEW fact \in AFact, NEW kind \in {"norm_key", "alias"},
           Create(fact, kind)
    PROVE  /\ made' = made + 1 /\ made' \in 0 .. MaxCompanies
           /\ company[made + 1].into = Nobody
           /\ company' = [company EXCEPT ![made + 1] =
                 [name |-> fact.name, number |-> fact.number, country |-> fact.country,
                  into |-> Nobody]]
           /\ company' \in [Ids -> Columns]
           /\ keys' \in SUBSET AKey
           /\ \A k \in keys' : k.id <= made'
           /\ events' = events
  <1>1. /\ made \in Nat /\ made + 1 \in Ids /\ company \in [Ids -> Columns]
        /\ keys \in SUBSET AKey /\ \A k \in keys : k.id <= made
    BY SizesAreNatural DEF IdentityTyped, Typed, Stored, Ids, Create
  <1>2. company[made + 1].into = Nobody
    BY <1>1 DEF IdentityTyped, Pointers
  <1>3. company' = [company EXCEPT ![made + 1] =
                 [name |-> fact.name, number |-> fact.number, country |-> fact.country,
                  into |-> Nobody]]
    BY DEF Create
  <1>4. company' \in [Ids -> Columns]
    BY <1>1, <1>3 DEF AFact, Columns
  <1> DEFINE new == {Key(kind, fact.name, made + 1, "source"),
                     Key("ch", fact.number, made + 1, "source")}
  <1>5. new \in SUBSET AKey /\ \A k \in new : k.id <= made + 1
    BY <1>1 DEF Key, AKey, AFact, Values
  <1>6. keys' = Added(keys, new) /\ \A k \in keys : k.id <= made + 1
    BY <1>1 DEF Create, AKey, Ids
  <1> HIDE DEF new
  <1>7. keys' \in SUBSET AKey /\ \A k \in keys' : k.id <= made + 1
    BY <1>1, <1>5, <1>6, KeysAdded
  <1>8. made' = made + 1 /\ made' \in 0 .. MaxCompanies /\ events' = events
    BY <1>1, SizesAreNatural DEF Create, Ids
  <1> QED BY <1>2, <1>3, <1>4, <1>7, <1>8

LEMMA FitsTouched ==
    ASSUME NEW log, NEW ids, NEW n \in Nat, NEW k \in Nat, NEW n2 \in Nat, NEW k2 \in Nat,
           LogFits(log, n, k), n <= n2, k <= k2
    PROVE  LogFits(Touch(log, ids), n2, k2)
  <1>1. log \in Seq(AnEvent) /\ \A e \in DOMAIN log : log[e] \in AnEvent
    BY DEF LogFits
  <1> DEFINE t == Touch(log, ids)
  <1>2. t \in Seq(AnEvent) /\ Len(t) = Len(log)
    BY <1>1, TouchKeeps
  <1>3. DOMAIN t = DOMAIN log
    BY <1>1, <1>2
  <1>4. \A e \in DOMAIN log : Kept(t[e], log[e]) /\ t[e].dropped = log[e].dropped
    BY <1>1, TouchKeeps
  <1> HIDE DEF t
  <1> SUFFICES ASSUME NEW e \in DOMAIN log
               PROVE  /\ t[e].winner < t[e].loser /\ t[e].loser <= n2
                      /\ t[e].before.name \in Names
                      /\ \A f \in t[e].dropped : f.at = t[e].loser /\ f.row <= k2
                      /\ \A d \in t[e].deleted : d.id <= n2
    BY <1>2, <1>3 DEF LogFits, t
  <1>5. /\ log[e].winner < log[e].loser /\ log[e].loser <= n
        /\ log[e].before.name \in Names
        /\ \A f \in log[e].dropped : f.at = log[e].loser /\ f.row <= k
        /\ \A d \in log[e].deleted : d.id <= n
    BY DEF LogFits
  <1>6. /\ log[e].loser \in Nat /\ \A f \in log[e].dropped : f.row \in Nat
        /\ \A d \in log[e].deleted : d.id \in Nat
    <2>1. log[e] \in AnEvent
      BY <1>1
    <2>2. /\ log[e].loser \in Ids /\ log[e].dropped \in SUBSET AFounder
          /\ log[e].deleted \in SUBSET AKey
      BY <2>1 DEF AnEvent
    <2>3. /\ \A f \in log[e].dropped : f.row \in 1 .. MaxFacts
          /\ \A d \in log[e].deleted : d.id \in Ids
      BY <2>2 DEF AFounder, AKey
    <2>4. \A d \in log[e].deleted : d.id \in Nat
      BY <2>3, SizesAreNatural DEF Ids
    <2>5. \A f \in log[e].dropped : f.row \in Nat
      BY <2>3, SizesAreNatural
    <2> QED BY <2>2, <2>4, <2>5, SizesAreNatural DEF Ids
  <1>7. t[e].winner = log[e].winner /\ t[e].loser = log[e].loser /\ t[e].before = log[e].before
        /\ t[e].dropped = log[e].dropped /\ t[e].deleted = log[e].deleted
    BY <1>4 DEF Kept
  <1> QED BY <1>5, <1>6, <1>7

LEMMA TypedFacts ==
    ASSUME IdentityTyped
    PROVE  /\ made \in Nat /\ made <= MaxCompanies /\ facts \in Nat /\ reads \in Nat
           /\ company \in [Ids -> Columns] /\ keys \in SUBSET AKey /\ queue \in SUBSET APair
           /\ founders \in SUBSET AFounder /\ home \in [Mentions -> 0 .. made]
           /\ verdict \in [Ids -> 0 .. MaxFacts]
           /\ LogFits(events, made, facts)
           /\ Rows \subseteq Ids /\ \A c \in Ids : c \in Nat /\ (c \in Rows <=> c <= made)
           /\ Live \subseteq Rows
  BY SizesAreNatural DEF IdentityTyped, Typed, Rows, Live, Ids

\* What a mention states, of which the name is known.
LEMMA SaysFact ==
    ASSUME NEW m \in Mentions
    PROVE  /\ Says[m].name # Unknown => Says[m] \in AFact
           /\ m \in FromRegister =>
                 /\ [Says[m] EXCEPT !.country = Home] \in AFact
                 /\ [Says[m] EXCEPT !.country = Home].number = Says[m].number
                 /\ Says[m].number # Unknown
  <1>1. Says[m] \in [name : Names \cup {Unknown}, number : Numbers \cup {Unknown},
                     country : Countries \cup {Unknown}]
    BY ConstantsAssumption
  <1>2. Says[m].name # Unknown => Says[m] \in AFact
    BY <1>1 DEF AFact
  <1>3. [Says[m] EXCEPT !.country = Home]
            = [name |-> Says[m].name, number |-> Says[m].number, country |-> Home]
    BY <1>1
  <1>4. m \in FromRegister => Unknown \notin {Says[m].name, Says[m].number}
    BY ConstantsAssumption
  <1>5. Home \in Countries
    BY ConstantsAssumption
  <1> QED BY <1>1, <1>2, <1>3, <1>4, <1>5 DEF AFact

LEMMA MatchesAreLive ==
    ASSUME NEW fact
    PROVE  Matches(fact) \subseteq Live
  BY DEF Matches, Candidates

\* Reading a mention touches no pointer and no number of its own.
LEMMA ReadKeeps ==
    ASSUME IdentityTyped, NEW m \in Mentions, NEW c \in 0 .. made', made' \in Nat, made <= made',
           reads < MaxReads, Resolved(m, c)
    PROVE  /\ home' \in [Mentions -> 0 .. made']
           /\ reads' \in 0 .. MaxReads /\ facts' = facts
           /\ verdict' = verdict /\ founders' = founders /\ suppressed' = suppressed
  BY TypedFacts, SizesAreNatural DEF Resolved, IdentityTyped, Typed

LEMMA AttachedTyped ==
    ASSUME IdentityTyped, NEW m \in Mentions, NEW c \in Live, NEW fact \in AFact,
           NEW fuzzy \in BOOLEAN, reads < MaxReads, Attach(c, fact, fuzzy), Resolved(m, c)
    PROVE  IdentityTyped'
  <1>1. /\ company' \in [Ids -> Columns]
        /\ \A d \in Ids : /\ company'[d].into = company[d].into
                          /\ company'[d].name = company[d].name
        /\ keys' \in SUBSET AKey
        /\ \A k \in keys' : k.id <= made
        /\ made' = made /\ queue' = queue /\ events' = Touch(events, {c})
    BY AttachTyped
  <1>2. /\ home' \in [Mentions -> 0 .. made']
        /\ reads' \in 0 .. MaxReads /\ facts' = facts
        /\ verdict' = verdict /\ founders' = founders /\ suppressed' = suppressed
    BY <1>1, TypedFacts, ReadKeeps
  <1>3. LogFits(events', made', facts')
    BY <1>1, <1>2, TypedFacts, FitsTouched
  <1>4. Typed'
    BY <1>1, <1>2 DEF IdentityTyped, Typed
  <1>5. Pointers'
    BY <1>1 DEF IdentityTyped, Pointers
  <1>6. Stored'
    BY <1>1, <1>2, TypedFacts DEF IdentityTyped, Stored, Rows
  <1> QED BY <1>3, <1>4, <1>5, <1>6 DEF IdentityTyped

LEMMA CreatedTyped ==
    ASSUME IdentityTyped, NEW m \in Mentions, NEW fact \in AFact,
           NEW kind \in {"norm_key", "alias"}, reads < MaxReads,
           Create(fact, kind), Resolved(m, made + 1),
           queue' \in SUBSET APair, \A q \in queue' : q.winner < q.loser /\ q.loser <= made + 1
    PROVE  IdentityTyped'
  <1>1. /\ made' = made + 1 /\ made' \in 0 .. MaxCompanies
        /\ company' = [company EXCEPT ![made + 1] =
                 [name |-> fact.name, number |-> fact.number, country |-> fact.country,
                  into |-> Nobody]]
        /\ company' \in [Ids -> Columns]
        /\ keys' \in SUBSET AKey
        /\ \A k \in keys' : k.id <= made'
        /\ events' = events
    BY CreateTyped
  <1>2. /\ home' \in [Mentions -> 0 .. made']
        /\ reads' \in 0 .. MaxReads /\ facts' = facts
        /\ verdict' = verdict /\ founders' = founders /\ suppressed' = suppressed
    BY <1>1, TypedFacts, ReadKeeps
  <1>3. LogFits(events', made', facts')
    <2>1. made \in Nat /\ made' \in Nat /\ made <= made' /\ facts' = facts
      BY <1>1, <1>2, TypedFacts
    <2>2. LogFits(events, made, facts) /\ facts \in Nat
      BY TypedFacts
    <2>3. \A e \in DOMAIN events :
             events[e].loser \in Nat /\ \A d \in events[e].deleted : d.id \in Nat
      <3>1. \A e \in DOMAIN events : events[e] \in AnEvent
        BY <2>2 DEF LogFits
      <3> QED BY <3>1, SizesAreNatural DEF AnEvent, AKey, Ids
    <2> QED BY <1>1, <2>1, <2>2, <2>3 DEF LogFits
  <1>4. Typed'
    BY <1>1, <1>2 DEF IdentityTyped, Typed
  <1>5. \A c \in Ids : /\ c = made + 1 => /\ company'[c].into = Nobody
                                          /\ company'[c].name = fact.name
                       /\ c # made + 1 => company'[c] = company[c]
    BY <1>1, TypedFacts DEF Columns
  <1>6. Pointers'
    BY <1>1, <1>5, TypedFacts DEF IdentityTyped, Pointers
  <1>7. Stored'
    <2>1. \A c \in Rows' : company'[c].name \in Names
      <3>1. \A c \in Rows' : c \in Ids /\ (c = made + 1 \/ c \in Rows)
        BY <1>1, TypedFacts, SizesAreNatural DEF Rows, Ids
      <3> QED BY <1>5, <3>1 DEF IdentityTyped, Stored, AFact
    <2>2. \A f \in founders' : f.at <= made' /\ f.row <= facts'
      BY <1>1, <1>2, TypedFacts, SizesAreNatural DEF IdentityTyped, Stored, AFounder, Ids
    <2> QED BY <1>1, <2>1, <2>2 DEF Stored
  <1> QED BY <1>3, <1>4, <1>6, <1>7 DEF IdentityTyped

LEMMA ResolveTyped ==
    ASSUME IdentityTyped, NEW m \in Mentions, ResolveItem(m)
    PROVE  IdentityTyped'
  <1> DEFINE fact == Says[m]
  <1>1. fact \in AFact /\ reads < MaxReads
    BY SaysFact DEF ResolveItem
  <1>2. Matches(fact) \subseteq Live
    BY MatchesAreLive
  <1>3. CASE \E c \in Matches(fact) :
                /\ Attach(c, fact, CappedRule(fact, c) = "fuzzy")
                /\ Resolved(m, c)
    BY <1>1, <1>2, <1>3, AttachedTyped
  <1>4. CASE \E c \in Matches(fact) :
                /\ Create(fact, "norm_key")
                /\ queue' = Enqueued(c, made + 1, CappedRule(fact, c))
                /\ Resolved(m, made + 1)
    <2>1. PICK c \in Matches(fact) :
                /\ Create(fact, "norm_key")
                /\ queue' = Enqueued(c, made + 1, CappedRule(fact, c))
                /\ Resolved(m, made + 1)
      BY <1>4
    <2>2. c \in Live /\ c \in Ids /\ c <= made /\ made \in Nat /\ made + 1 \in Ids
      <3>1. c \in Live /\ c \in Ids /\ c <= made /\ made \in Nat
        BY <1>2, <2>1, TypedFacts
      <3>2. made + 1 \in Ids
        BY <2>1, <3>1, SizesAreNatural DEF Create, Ids
      <3> QED BY <3>1, <3>2
    <2>3. CappedRule(fact, c) \in Rules
      <3>1. company[c].name \in Names
        BY <2>2, TypedFacts DEF IdentityTyped, Stored
      <3>2. Rule(fact, company[c]) \in Rules
        BY <1>1, <3>1, RuleIs DEF AFact
      <3> QED BY <3>2 DEF CappedRule, Rules
    <2>4. [winner |-> c, loser |-> made + 1, rule |-> CappedRule(fact, c)] \in APair
      BY <2>2, <2>3 DEF APair
    <2>5. /\ queue' \in SUBSET APair
          /\ \A q \in queue' : q \in queue \/ (q.winner = c /\ q.loser = made + 1)
      <3>1. queue \in SUBSET APair
        BY TypedFacts
      <3> DEFINE pair == [winner |-> c, loser |-> made + 1, rule |-> CappedRule(fact, c)]
      <3>2. queue' = queue \/ queue' = queue \cup {pair}
        BY <2>1 DEF Enqueued
      <3>3. pair.winner = c /\ pair.loser = made + 1
        OBVIOUS
      <3>4. pair \in APair
        BY <2>4
      <3> HIDE DEF pair
      <3> QED BY <3>1, <3>2, <3>3, <3>4
    <2>6. \A q \in queue : q.winner < q.loser /\ q.loser <= made /\ q.loser \in Nat
      BY TypedFacts DEF IdentityTyped, Pointers, APair
    <2>7. \A q \in queue' : q.winner < q.loser /\ q.loser <= made + 1
      <3>1. c \in Nat /\ made \in Nat /\ c <= made
        BY <2>2, TypedFacts
      <3> QED BY <2>5, <2>6, <3>1
    <2> HIDE DEF fact
    <2> QED BY <1>1, <2>1, <2>5, <2>7, CreatedTyped
  <1>5. CASE Create(fact, "norm_key") /\ Resolved(m, made + 1) /\ queue' = queue
    <2>1. queue' \in SUBSET APair
      BY <1>5, TypedFacts
    <2>2. \A q \in queue' : q.winner < q.loser /\ q.loser <= made + 1
      BY <1>5, TypedFacts DEF IdentityTyped, Pointers, APair
    <2> HIDE DEF fact
    <2> QED BY <1>1, <1>5, <2>1, <2>2, CreatedTyped
  <1> QED BY <1>3, <1>4, <1>5 DEF ResolveItem, UpsertRecord

LEMMA Renamed ==
    ASSUME NEW rows \in [Ids -> Columns], NEW c \in Ids, NEW n, NEW y
    PROVE  [rows EXCEPT ![c].name = n, ![c].country = y]
               = [rows EXCEPT ![c] = [name |-> n, number |-> rows[c].number, country |-> y,
                                      into |-> rows[c].into]]
  <1> DEFINE one == [name |-> n, number |-> rows[c].number, country |-> rows[c].country,
                     into |-> rows[c].into]
             first == [rows EXCEPT ![c].name = n]
             two == [name |-> n, number |-> rows[c].number, country |-> y, into |-> rows[c].into]
  <1>1. first = [rows EXCEPT ![c] = one]
    <2>1. rows[c] \in Columns
      OBVIOUS
    <2>2. [rows[c] EXCEPT !.name = n] = one
      BY <2>1 DEF Columns
    <2>3. first = [rows EXCEPT ![c] = [rows[c] EXCEPT !.name = n]]
      OBVIOUS
    <2> HIDE DEF one
    <2> QED BY <2>2, <2>3
  <1> HIDE DEF first
  <1>2. [first EXCEPT ![c].country = y] = [rows EXCEPT ![c] = two]
    <2>1. [first EXCEPT ![c].country = y] = [first EXCEPT ![c] = [first[c] EXCEPT !.country = y]]
      OBVIOUS
    <2>2. first[c] = one
      BY <1>1
    <2>3. [one EXCEPT !.country = y] = two
      OBVIOUS
    <2> HIDE DEF one, two
    <2> QED BY <1>1, <2>1, <2>2, <2>3
  <1> QED BY <1>2 DEF first

LEMMA SweepTyped ==
    ASSUME IdentityTyped, NEW m \in Mentions, SweepItem(m)
    PROVE  IdentityTyped'
  <1> DEFINE fact == [Says[m] EXCEPT !.country = Home]
             kind == IF fact.name \in Placeholders THEN "alias" ELSE "norm_key"
  <1>1. fact \in AFact /\ reads < MaxReads /\ kind \in {"norm_key", "alias"}
    BY SaysFact DEF SweepItem
  <1>2. CASE Create(fact, kind) /\ Resolved(m, made + 1) /\ queue' = queue
    <2>1. queue' \in SUBSET APair
      BY <1>2, TypedFacts
    <2>2. \A q \in queue' : q.winner < q.loser /\ q.loser <= made + 1
      BY <1>2, TypedFacts DEF IdentityTyped, Pointers, APair
    <2> HIDE DEF fact, kind
    <2> QED BY <1>1, <1>2, <2>1, <2>2, CreatedTyped
  <1>3. CASE \E c \in Live :
               /\ company' = [company EXCEPT ![c].name = fact.name, ![c].country = Home]
               /\ keys' = Added(keys, {Key("ch", fact.number, c, "source"),
                                       Key(kind, fact.name, c, "source")})
               /\ events' = Touch(events, {c})
               /\ Resolved(m, c)
               /\ UNCHANGED <<made, queue>>
    <2>1. PICK c \in Live :
               /\ company' = [company EXCEPT ![c].name = fact.name, ![c].country = Home]
               /\ keys' = Added(keys, {Key("ch", fact.number, c, "source"),
                                       Key(kind, fact.name, c, "source")})
               /\ events' = Touch(events, {c})
               /\ Resolved(m, c)
               /\ UNCHANGED <<made, queue>>
      BY <1>3
    <2>2. /\ c \in Ids /\ c <= made /\ made \in Nat /\ company \in [Ids -> Columns]
          /\ keys \in SUBSET AKey /\ \A k \in keys : k.id <= made
      BY TypedFacts DEF IdentityTyped, Stored
    <2>3. /\ company' \in [Ids -> Columns]
          /\ \A d \in Ids : company'[d].into = company[d].into
          /\ \A d \in Ids : d # c => company'[d] = company[d]
          /\ company'[c].name = fact.name
      <3> DEFINE row == [name |-> fact.name, number |-> company[c].number,
                         country |-> Home, into |-> company[c].into]
      <3>1. company' = [company EXCEPT ![c] = row]
        <4>1. [company EXCEPT ![c].name = fact.name, ![c].country = Home] = [company EXCEPT ![c] = row]
          BY <2>2, Renamed
        <4> QED BY <2>1, <4>1
      <3>2. row \in Columns /\ row.into = company[c].into /\ row.name = fact.name
        BY <1>1, <2>2, ConstantsAssumption DEF Columns, AFact
      <3> HIDE DEF row
      <3> QED BY <2>2, <3>1, <3>2
    <2>4. keys' \in SUBSET AKey /\ \A k \in keys' : k.id <= made
      <3> DEFINE new == {Key("ch", fact.number, c, "source"), Key(kind, fact.name, c, "source")}
      <3>1. new \in SUBSET AKey /\ \A k \in new : k.id <= made
        <4> HIDE DEF fact, kind
        <4> QED BY <1>1, <2>2 DEF Key, AKey, AFact, Values
      <3>2. keys' = Added(keys, new)
        BY <2>1
      <3> HIDE DEF new
      <3> QED BY <2>2, <3>1, <3>2, KeysAdded
    <2>5. /\ home' \in [Mentions -> 0 .. made']
          /\ reads' \in 0 .. MaxReads /\ facts' = facts
          /\ verdict' = verdict /\ founders' = founders /\ suppressed' = suppressed
      BY <1>1, <2>1, <2>2, TypedFacts, ReadKeeps DEF Ids
    <2>6. LogFits(events', made', facts')
      BY <2>1, <2>5, TypedFacts, FitsTouched
    <2>7. Typed'
      BY <2>1, <2>3, <2>4, <2>5 DEF IdentityTyped, Typed
    <2>8. Pointers'
      BY <2>1, <2>3 DEF IdentityTyped, Pointers
    <2>9. Stored'
      <3>1. fact.name \in Names
        BY <1>1 DEF AFact
      <3> HIDE DEF fact, kind
      <3> QED BY <2>1, <2>3, <2>4, <2>5, <3>1, TypedFacts DEF IdentityTyped, Stored, Rows
    <2> QED BY <2>6, <2>7, <2>8, <2>9 DEF IdentityTyped
  <1> QED BY <1>2, <1>3 DEF SweepItem

LEMMA VerifyTyped ==
    ASSUME IdentityTyped, NEW c \in Ids, NEW number \in Numbers, VerifyCrn(c, number)
    PROVE  IdentityTyped'
  <1>1. /\ c <= made /\ made \in Nat /\ company \in [Ids -> Columns]
        /\ keys \in SUBSET AKey /\ \A k \in keys : k.id <= made
    BY TypedFacts DEF VerifyCrn, IdentityTyped, Stored
  <1>2. /\ company' \in [Ids -> Columns]
        /\ \A d \in Ids : company'[d].into = company[d].into /\ company'[d].name = company[d].name
    BY <1>1 DEF VerifyCrn, Columns
  <1>3. keys' \in SUBSET AKey /\ \A k \in keys' : k.id <= made
    <2> DEFINE new == {Key("ch", number, c, "source")}
    <2>1. new \in SUBSET AKey /\ \A k \in new : k.id <= made
      BY <1>1 DEF Key, AKey, Values
    <2>2. keys' = Added(keys, new)
      BY DEF VerifyCrn
    <2> HIDE DEF new
    <2> QED BY <1>1, <2>1, <2>2, KeysAdded
  <1>4. /\ UNCHANGED <<made, queue, verdict, founders, suppressed, reads, home>>
        /\ events' = Touch(events, {c})
        /\ facts' = facts + 1 /\ facts' \in 0 .. MaxFacts
    BY TypedFacts, SizesAreNatural DEF VerifyCrn
  <1>5. LogFits(events', made', facts')
    BY <1>4, TypedFacts, FitsTouched
  <1>6. Typed'
    BY <1>2, <1>3, <1>4 DEF IdentityTyped, Typed
  <1>7. Pointers'
    BY <1>2, <1>4 DEF IdentityTyped, Pointers
  <1>8. Stored'
    <2>1. \A f \in founders : f.at <= made /\ f.row <= facts + 1
      BY <1>4, TypedFacts, SizesAreNatural DEF IdentityTyped, Stored, AFounder
    <2> QED BY <1>2, <1>3, <1>4, <2>1, TypedFacts DEF IdentityTyped, Stored, Rows
  <1> QED BY <1>5, <1>6, <1>7, <1>8 DEF IdentityTyped

LEMMA DecideTyped ==
    ASSUME IdentityTyped, NEW c \in Ids, Decide(c)
    PROVE  IdentityTyped'
  <1>1. /\ UNCHANGED <<made, company, keys, queue, founders, suppressed, reads, home>>
        /\ events' = Touch(events, {c})
        /\ facts' = facts + 1 /\ facts' \in 0 .. MaxFacts
    BY TypedFacts, SizesAreNatural DEF Decide
  <1>2. verdict' \in [Ids -> 0 .. MaxFacts]
    BY <1>1, TypedFacts DEF Decide
  <1>3. LogFits(events', made', facts')
    BY <1>1, TypedFacts, FitsTouched
  <1>4. \A f \in founders : f.at <= made /\ f.row <= facts + 1
    BY TypedFacts, SizesAreNatural DEF IdentityTyped, Stored, AFounder
  <1>5. Typed' /\ Pointers' /\ Stored'
    BY <1>1, <1>2, <1>4 DEF IdentityTyped, Typed, Pointers, Stored, Rows
  <1> QED BY <1>3, <1>5 DEF IdentityTyped

\* The id a new row is given is of none that there is.
LEMMA NextRowIsFree ==
    ASSUME IdentityTyped, facts < MaxFacts
    PROVE  /\ NextRow \in 1 .. facts + 1
           /\ \A f \in founders : f.row < NextRow
  <1>1. /\ facts \in Nat /\ MaxFacts \in Nat
        /\ \A f \in founders : f.row \in Nat /\ f.row <= facts
    BY TypedFacts, SizesAreNatural DEF IdentityTyped, Stored, AFounder
  <1> DEFINE Above == {r \in 1 .. facts + 1 : \A f \in founders : f.row < r}
  <1>2. Above \in SUBSET Nat /\ facts + 1 \in Above
    BY <1>1
  <1>3. PICK r \in Above : \A s \in Above : r <= s
    <2> HIDE DEF Above
    <2> QED BY <1>2, Smallest
  <1>4. r \in 1 .. facts + 1 /\ r \in Nat /\ \A f \in founders : f.row < r
    BY <1>1, <1>3
  <1>5. r = 1 \/ r - 1 \in RowIds(founders)
    <2> SUFFICES ASSUME r # 1 PROVE r - 1 \in RowIds(founders)
      OBVIOUS
    <2>1. r - 1 \in 1 .. facts + 1 /\ ~(r <= r - 1)
      BY <1>1, <1>4
    <2>2. r - 1 \notin Above
      <3> HIDE DEF Above
      <3> QED BY <1>3, <2>1
    <2>3. PICK f \in founders : ~(f.row < r - 1)
      BY <2>1, <2>2
    <2>4. f.row = r - 1
      BY <1>1, <1>4, <2>3
    <2> QED BY <2>4 DEF RowIds
  <1> DEFINE Is(s) == /\ \A f \in founders : f.row < s
                      /\ s = 1 \/ s - 1 \in RowIds(founders)
  <1>6. r \in 1 .. MaxFacts + 1 /\ Is(r)
    BY <1>1, <1>4, <1>5
  <1>7. NextRow = CHOOSE s \in 1 .. MaxFacts + 1 : Is(s)
    BY DEF NextRow
  <1> HIDE DEF Is
  <1>8. NextRow \in 1 .. MaxFacts + 1 /\ Is(NextRow)
    BY <1>6, <1>7
  <1>9. /\ \A f \in founders : f.row < NextRow
        /\ NextRow = 1 \/ \E f \in founders : f.row = NextRow - 1
    BY <1>8 DEF Is, RowIds
  <1> QED BY <1>1, <1>8, <1>9

LEMMA StoreTyped ==
    ASSUME IdentityTyped, NEW c \in Ids, NEW p \in People, StoreFounder(c, p)
    PROVE  IdentityTyped'
  <1>1. /\ UNCHANGED <<made, company, keys, queue, verdict, suppressed, reads, home>>
        /\ events' = Touch(events, {c})
        /\ facts' = facts + 1 /\ facts' \in 0 .. MaxFacts
        /\ c <= made /\ made \in Nat
    BY TypedFacts, SizesAreNatural DEF StoreFounder
  <1>2. LogFits(events', made', facts')
    BY <1>1, TypedFacts, FitsTouched
  <1> DEFINE new == [row |-> NextRow, at |-> c, person |-> p]
  <1>3. new \in AFounder /\ new.at <= made /\ new.row <= facts + 1
    BY <1>1, NextRowIsFree, TypedFacts, SizesAreNatural DEF AFounder, StoreFounder
  <1>4. founders' = founders \/ founders' = founders \cup {new}
    BY DEF StoreFounder
  <1>5. \A f \in founders : f.at <= made /\ f.row <= facts + 1
    BY TypedFacts, SizesAreNatural DEF IdentityTyped, Stored, AFounder
  <1> HIDE DEF new
  <1>6. founders' \in SUBSET AFounder /\ \A f \in founders' : f.at <= made /\ f.row <= facts + 1
    BY <1>3, <1>4, <1>5, TypedFacts
  <1>7. Typed' /\ Pointers' /\ Stored'
    BY <1>1, <1>6 DEF IdentityTyped, Typed, Pointers, Stored, Rows
  <1> QED BY <1>2, <1>7 DEF IdentityTyped

LEMMA DismissTyped ==
    ASSUME IdentityTyped, NEW q \in queue, DismissReview(q)
    PROVE  IdentityTyped'
  <1>1. /\ UNCHANGED <<made, company, keys, events, verdict, founders, suppressed, reads, facts, home>>
        /\ queue' \subseteq queue
    BY DEF DismissReview
  <1> QED BY <1>1 DEF IdentityTyped, Typed, Pointers, Stored, Rows

\* What an erasure leaves of the record of merges.
Forgotten(log, p) ==
    [e \in DOMAIN log |-> [log[e] EXCEPT !.dropped = {f \in log[e].dropped : f.person # p},
                                         !.clean = log[e].clean /\ log[e].undone]]

LEMMA ForgottenKeeps ==
    ASSUME NEW log \in Seq(AnEvent), NEW p
    PROVE  /\ Forgotten(log, p) \in Seq(AnEvent)
           /\ Len(Forgotten(log, p)) = Len(log)
           /\ \A e \in DOMAIN log :
                 /\ Kept(Forgotten(log, p)[e], log[e])
                 /\ Forgotten(log, p)[e].dropped = {f \in log[e].dropped : f.person # p}
                 /\ Forgotten(log, p)[e].undone <=> log[e].undone
                 /\ Forgotten(log, p)[e].clean <=> (log[e].clean /\ log[e].undone)
  <1> DEFINE t(e) == [log[e] EXCEPT !.dropped = {f \in log[e].dropped : f.person # p},
                                    !.clean = log[e].clean /\ log[e].undone]
  <1>1. ASSUME NEW e \in DOMAIN log
        PROVE  /\ t(e) \in AnEvent
               /\ Kept(t(e), log[e])
               /\ t(e).dropped = {f \in log[e].dropped : f.person # p}
               /\ t(e).undone <=> log[e].undone
               /\ t(e).clean <=> (log[e].clean /\ log[e].undone)
    <2>1. log[e] \in AnEvent
      OBVIOUS
    <2> DEFINE left == {f \in log[e].dropped : f.person # p}
               still == log[e].clean /\ log[e].undone
               first == [log[e] EXCEPT !.dropped = left]
    <2>2. left \in SUBSET AFounder /\ still \in BOOLEAN
      BY <2>1 DEF AnEvent
    <2>3. t(e) = [first EXCEPT !.clean = still]
      OBVIOUS
    <2> HIDE DEF left, still
    <2>4. first \in AnEvent /\ Kept(first, log[e]) /\ first.dropped = left
          /\ (first.undone <=> log[e].undone)
      BY <2>1, <2>2 DEF AnEvent, Kept
    <2> HIDE DEF first
    <2> DEFINE second == [first EXCEPT !.clean = still]
    <2>5. second \in AnEvent /\ Kept(second, first) /\ second.dropped = first.dropped
          /\ (second.undone <=> first.undone) /\ (second.clean <=> still)
      BY <2>2, <2>4 DEF AnEvent, Kept
    <2>6. t(e) = second
      BY <2>3
    <2> HIDE DEF second, t
    <2>7. Kept(second, log[e])
      BY <2>4, <2>5 DEF Kept
    <2> QED BY <2>4, <2>5, <2>6, <2>7 DEF left, still
  <1> HIDE DEF t
  <1>2. DOMAIN log = 1 .. Len(log) /\ Len(log) \in Nat
    OBVIOUS
  <1>3. [e \in 1 .. Len(log) |-> t(e)] \in Seq(AnEvent)
    BY <1>1, <1>2
  <1> DEFINE after == [e \in DOMAIN log |-> t(e)]
  <1>4. /\ after \in Seq(AnEvent)
        /\ Len(after) = Len(log)
        /\ \A e \in DOMAIN log : after[e] = t(e)
    BY <1>2, <1>3
  <1>5. /\ after \in Seq(AnEvent)
        /\ Len(after) = Len(log)
        /\ \A e \in DOMAIN log :
                     /\ Kept(after[e], log[e])
                     /\ after[e].dropped = {f \in log[e].dropped : f.person # p}
                     /\ after[e].undone <=> log[e].undone
                     /\ after[e].clean <=> (log[e].clean /\ log[e].undone)
    BY <1>1, <1>4
  <1>6. after = Forgotten(log, p)
    BY DEF t, Forgotten
  <1> HIDE DEF after
  <1> QED BY <1>5, <1>6

LEMMA ForgetEvents ==
    ASSUME IdentityTyped, NEW p \in People, ForgetPerson(p)
    PROVE  /\ LogFits(events', made, facts)
           /\ DOMAIN events' = DOMAIN events
           /\ \A e \in DOMAIN events :
                     /\ Kept(events'[e], events[e])
                     /\ events'[e].dropped = {f \in events[e].dropped : f.person # p}
                     /\ events'[e].undone <=> events[e].undone
                     /\ events'[e].clean <=> (events[e].clean /\ events[e].undone)
  <1>1. events \in Seq(AnEvent)
    BY TypedFacts DEF LogFits
  <1>2. events' = Forgotten(events, p)
    BY DEF ForgetPerson, Forgotten
  <1>3. /\ events' \in Seq(AnEvent)
        /\ Len(events') = Len(events)
        /\ \A e \in DOMAIN events :
                     /\ Kept(events'[e], events[e])
                     /\ events'[e].dropped = {f \in events[e].dropped : f.person # p}
                     /\ events'[e].undone <=> events[e].undone
                     /\ events'[e].clean <=> (events[e].clean /\ events[e].undone)
    BY <1>1, <1>2, ForgottenKeeps
  <1>4. DOMAIN events' = DOMAIN events
    BY <1>1, <1>3
  <1>5. ASSUME NEW e \in DOMAIN events
        PROVE  /\ events'[e].winner < events'[e].loser /\ events'[e].loser <= made
               /\ events'[e].before.name \in Names
               /\ \A f \in events'[e].dropped : f.at = events'[e].loser /\ f.row <= facts
               /\ \A d \in events'[e].deleted : d.id <= made
    <2>1. /\ events[e].winner < events[e].loser /\ events[e].loser <= made
          /\ events[e].before.name \in Names
          /\ \A f \in events[e].dropped : f.at = events[e].loser /\ f.row <= facts
          /\ \A d \in events[e].deleted : d.id <= made
      BY TypedFacts DEF LogFits
    <2> QED BY <1>3, <2>1 DEF Kept
  <1> QED BY <1>3, <1>4, <1>5 DEF LogFits

LEMMA ForgetTyped ==
    ASSUME IdentityTyped, NEW p \in People, ForgetPerson(p)
    PROVE  IdentityTyped'
  <1>1. /\ UNCHANGED <<made, company, keys, queue, verdict, reads, facts, home>>
        /\ founders' \subseteq founders /\ suppressed' = suppressed \cup {p}
    BY DEF ForgetPerson
  <1>2. LogFits(events', made', facts')
    BY <1>1, ForgetEvents
  <1> QED BY <1>1, <1>2 DEF IdentityTyped, Typed, Pointers, Stored, Rows

\* What a merge makes of the rows of its two companies.
RowsAfter(rows, w, l, n, y) == [rows EXCEPT ![l].into = w, ![w].number = n, ![w].country = y]

AreMerged(after, rows, w, l, n, y) ==
    /\ after \in [Ids -> Columns]
    /\ after[l] = [rows[l] EXCEPT !.into = w]
    /\ after[l].into = w /\ after[l].name = rows[l].name
    /\ after[l].number = rows[l].number /\ after[l].country = rows[l].country
    /\ after[w] = [name |-> rows[w].name, number |-> n, country |-> y, into |-> rows[w].into]
    /\ \A c \in Ids \ {w, l} : after[c] = rows[c]

LEMMA RowsMerged ==
    ASSUME NEW rows \in [Ids -> Columns], NEW w \in Ids, NEW l \in Ids, w # l,
           NEW n \in Numbers \cup {Unknown}, NEW y \in Countries \cup {Unknown}
    PROVE  AreMerged(RowsAfter(rows, w, l, n, y), rows, w, l, n, y)
  <1> DEFINE tomb == [rows[l] EXCEPT !.into = w]
             one == [rows EXCEPT ![l].into = w]
             two == [one EXCEPT ![w].number = n]
             three == [two EXCEPT ![w].country = y]
             kept == [name |-> rows[w].name, number |-> n, country |-> y, into |-> rows[w].into]
             half == [name |-> rows[w].name, number |-> n, country |-> rows[w].country,
                      into |-> rows[w].into]
  <1>1. one = [rows EXCEPT ![l] = tomb]
    OBVIOUS
  <1>2. tomb = [name |-> rows[l].name, number |-> rows[l].number,
                country |-> rows[l].country, into |-> w]
    BY DEF Columns
  <1> HIDE DEF tomb
  <1>3. one[w] = rows[w] /\ one \in [Ids -> Columns] /\ one[l] = tomb
        /\ \A c \in Ids \ {w, l} : one[c] = rows[c]
    BY <1>1, <1>2 DEF Columns
  <1> HIDE DEF one
  <1>4. two = [one EXCEPT ![w] = half]
    <2>1. two = [one EXCEPT ![w] = [one[w] EXCEPT !.number = n]]
      OBVIOUS
    <2>2. [rows[w] EXCEPT !.number = n] = half
      BY DEF Columns
    <2> HIDE DEF half
    <2> QED BY <1>3, <2>1, <2>2
  <1>5. half \in Columns /\ kept \in Columns
    BY DEF Columns
  <1> HIDE DEF two
  <1>6. three = [two EXCEPT ![w] = kept]
    <2>1. three = [two EXCEPT ![w] = [two[w] EXCEPT !.country = y]]
      OBVIOUS
    <2>2. [half EXCEPT !.country = y] = kept
      OBVIOUS
    <2>3. two[w] = half
      BY <1>3, <1>4
    <2> HIDE DEF half, kept
    <2> QED BY <2>1, <2>2, <2>3
  <1> HIDE DEF half, three
  <1>7. /\ three \in [Ids -> Columns]
        /\ three[l] = tomb /\ three[w] = kept
        /\ \A c \in Ids \ {w, l} : three[c] = rows[c]
    <2> HIDE DEF kept
    <2> QED BY <1>3, <1>4, <1>5, <1>6
  <1>8. three = RowsAfter(rows, w, l, n, y)
    BY DEF three, two, one, RowsAfter
  <1>9. AreMerged(three, rows, w, l, n, y)
    BY <1>2, <1>7 DEF tomb, kept, AreMerged
  <1> QED BY <1>8, <1>9

\* What a merge of l into w records.
IsEvidence(ev, w, l) ==
    /\ ev.winner = w /\ ev.loser = l /\ ev.before = company[w]
    /\ ev.moved = {k \in KeysOf(l) : ~Shared(k, w)}
    /\ ev.deleted = KeysOf(l) \ ev.moved
    /\ ev.inserted \in SUBSET {Key("alias", company[l].name, w, "merge")}
    /\ \A k \in ev.inserted :
          ~\E j \in KeysOf(w) \cup MovedTo(ev.moved, w) : SameKey(j, k)
    /\ ev.decision <=> DecisionMoves(w, l)
    /\ ev.displaced = IF DecisionMoves(w, l) THEN verdict[w] ELSE verdict[l]
    /\ ev.dropped = {f \in PeopleOf(l) : f.person \in Persons(PeopleOf(w))}
    /\ ev.people = RowIds(PeopleOf(l) \ ev.dropped)
    /\ ~ev.undone /\ ev.clean
    /\ ev.was = <<Record(w), Record(l)>>
    /\ ev.part = {m \in Mentions : home[m] # Nobody /\ Canonical(home[m]) = l}

LEMMA EvidenceTyped ==
    ASSUME IdentityTyped, NEW w \in Rows, NEW l \in Rows, NEW rule \in Rules,
           w < l
    PROVE  /\ Evidence(w, l, rule) \in AnEvent
           /\ IsEvidence(Evidence(w, l, rule), w, l)
  <1> DEFINE alias == Key("alias", company[l].name, w, "merge")
             moved == {k \in KeysOf(l) : ~Shared(k, w)}
             moves == DecisionMoves(w, l)
             collided == {f \in PeopleOf(l) : f.person \in Persons(PeopleOf(w))}
             inserted == IF \/ company[l].name = company[w].name
                            \/ company[l].name \in Placeholders
                            \/ \E k \in KeysOf(w) \cup MovedTo(moved, w) : SameKey(k, alias)
                         THEN {}
                         ELSE {alias}
             displaced == IF moves THEN verdict[w] ELSE verdict[l]
             stay == RowIds(PeopleOf(l) \ collided)
             part == {m \in Mentions : home[m] # Nobody /\ Canonical(home[m]) = l}
             was == <<Record(w), Record(l)>>
             ev == [winner |-> w, loser |-> l, rule |-> rule, before |-> company[w],
                    moved |-> moved, deleted |-> KeysOf(l) \ moved, inserted |-> inserted,
                    decision |-> moves, displaced |-> displaced, people |-> stay,
                    dropped |-> collided, undone |-> FALSE, clean |-> TRUE,
                    was |-> was, part |-> part]
  <1>1. Evidence(w, l, rule) = ev
    BY DEF Evidence, RowIds
  <1>2. w \in Ids /\ l \in Ids /\ company[w] \in Columns /\ company[l] \in Columns
        /\ company[l].name \in Names
    BY TypedFacts DEF IdentityTyped, Stored
  <1>3. moved \in SUBSET AKey /\ KeysOf(l) \ moved \in SUBSET AKey
    BY TypedFacts DEF KeysOf
  <1>4. inserted \in SUBSET AKey /\ inserted \in SUBSET {alias}
        /\ \A k \in inserted : ~\E j \in KeysOf(w) \cup MovedTo(moved, w) : SameKey(j, k)
    <2>1. alias \in AKey
      BY <1>2 DEF Key, AKey, Values
    <2> HIDE DEF alias, moved
    <2> QED BY <2>1
  <1>5. displaced \in 0 .. MaxFacts /\ moves \in BOOLEAN
    BY <1>2, TypedFacts DEF DecisionMoves
  <1>6. collided \in SUBSET AFounder /\ stay \in SUBSET (1 .. MaxFacts)
    BY TypedFacts DEF PeopleOf, RowIds, AFounder
  <1>7. part \in SUBSET Mentions
    OBVIOUS
  <1>8. was \in ARecord \X ARecord
    <2>1. ASSUME NEW c \in Ids PROVE Record(c) \in ARecord
      <3>1. /\ company[c] \in Columns /\ KeysOf(c) \in SUBSET AKey
            /\ verdict[c] \in 0 .. MaxFacts /\ PeopleOf(c) \in SUBSET AFounder
        BY <2>1, TypedFacts DEF KeysOf, PeopleOf
      <3> QED BY <3>1 DEF Record, ARecord
    <2> QED BY <1>2, <2>1
  <1> HIDE DEF moved, moves, collided, inserted, displaced, stay, part, was
  <1>9. ev \in AnEvent
    BY <1>2, <1>3, <1>4, <1>5, <1>6, <1>7, <1>8 DEF AnEvent
  <1>10. /\ ev.winner = w /\ ev.loser = l /\ ev.before = company[w]
         /\ ev.moved = moved /\ ev.deleted = KeysOf(l) \ moved /\ ev.inserted = inserted
         /\ ev.decision = moves /\ ev.displaced = displaced
         /\ ev.dropped = collided /\ ev.people = stay
         /\ ev.undone = FALSE /\ ev.clean = TRUE /\ ev.was = was /\ ev.part = part
    OBVIOUS
  <1> HIDE DEF ev
  <1> DEFINE got == Evidence(w, l, rule)
  <1>11. got \in AnEvent
    BY <1>1, <1>9
  <1>12. /\ got.winner = w /\ got.loser = l /\ got.before = company[w]
         /\ got.moved = moved /\ got.deleted = KeysOf(l) \ moved /\ got.inserted = inserted
         /\ got.decision = moves /\ got.displaced = displaced
         /\ got.dropped = collided /\ got.people = stay
         /\ got.undone = FALSE /\ got.clean = TRUE /\ got.was = was /\ got.part = part
    BY <1>1, <1>10
  <1> HIDE DEF got
  <1>13. /\ got.moved = {k \in KeysOf(l) : ~Shared(k, w)}
         /\ got.deleted = KeysOf(l) \ got.moved
         /\ got.dropped = {f \in PeopleOf(l) : f.person \in Persons(PeopleOf(w))}
    BY <1>12 DEF moved, collided
  <1>14. /\ got.inserted \in SUBSET {Key("alias", company[l].name, w, "merge")}
         /\ \A k \in got.inserted :
                ~\E j \in KeysOf(w) \cup MovedTo(got.moved, w) : SameKey(j, k)
    BY <1>4, <1>12
  <1>15. /\ got.decision <=> DecisionMoves(w, l)
         /\ got.displaced = IF DecisionMoves(w, l) THEN verdict[w] ELSE verdict[l]
         /\ ~got.undone /\ got.clean
    BY <1>12 DEF moves, displaced
  <1>16. /\ got.people = RowIds(PeopleOf(l) \ got.dropped)
         /\ got.was = <<Record(w), Record(l)>>
         /\ got.part = {m \in Mentions : home[m] # Nobody /\ Canonical(home[m]) = l}
    BY <1>12 DEF stay, was, part
  <1>17. IsEvidence(got, w, l)
    BY <1>12, <1>13, <1>14, <1>15, <1>16 DEF IsEvidence
  <1> QED BY <1>11, <1>17 DEF got

LEMMA FounderMoved ==
    ASSUME NEW f \in AFounder, NEW c \in Ids
    PROVE  /\ [f EXCEPT !.at = c] \in AFounder
           /\ [f EXCEPT !.at = c] = [row |-> f.row, at |-> c, person |-> f.person]
  BY DEF AFounder

LEMMA KeysMoved ==
    ASSUME NEW ks \in SUBSET AKey, NEW c \in Ids
    PROVE  /\ MovedTo(ks, c) \in SUBSET AKey
           /\ \A k \in MovedTo(ks, c) : k.id = c
  <1>1. ASSUME NEW k \in ks PROVE [k EXCEPT !.id = c] \in AKey /\ [k EXCEPT !.id = c].id = c
    BY <1>1 DEF AKey
  <1> QED BY <1>1 DEF MovedTo

LEMMA FitsAppended ==
    ASSUME NEW log, NEW ev \in AnEvent, NEW n \in Nat, NEW k \in Nat, LogFits(log, n, k),
           ev.winner < ev.loser, ev.loser <= n, ev.before.name \in Names,
           \A f \in ev.dropped : f.at = ev.loser /\ f.row <= k,
           \A d \in ev.deleted : d.id <= n
    PROVE  /\ LogFits(Append(log, ev), n, k)
           /\ Append(log, ev)[Len(log) + 1] = ev
           /\ \A e \in DOMAIN log : Append(log, ev)[e] = log[e]
           /\ DOMAIN Append(log, ev) = DOMAIN log \cup {Len(log) + 1}
           /\ Len(log) + 1 \notin DOMAIN log
  <1>1. log \in Seq(AnEvent)
    BY DEF LogFits
  <1>2. /\ Append(log, ev) \in Seq(AnEvent)
        /\ Append(log, ev)[Len(log) + 1] = ev
        /\ \A e \in DOMAIN log : Append(log, ev)[e] = log[e]
        /\ DOMAIN Append(log, ev) = DOMAIN log \cup {Len(log) + 1}
        /\ Len(log) + 1 \notin DOMAIN log
    BY <1>1
  <1> DEFINE after == Append(log, ev)
  <1>3. after = Append(log, ev)
    OBVIOUS
  <1> HIDE DEF after
  <1>4. ASSUME NEW e \in DOMAIN after
        PROVE  /\ after[e].winner < after[e].loser /\ after[e].loser <= n
               /\ after[e].before.name \in Names
               /\ \A f \in after[e].dropped : f.at = after[e].loser /\ f.row <= k
               /\ \A d \in after[e].deleted : d.id <= n
    <2>1. CASE e \in DOMAIN log
      <3>1. after[e] = log[e]
        BY <1>2, <1>3, <2>1
      <3> QED BY <2>1, <3>1 DEF LogFits
    <2>2. CASE e = Len(log) + 1
      <3>1. after[e] = ev
        BY <1>2, <1>3, <2>2
      <3> QED BY <3>1
    <2> QED BY <1>2, <1>3, <2>1, <2>2
  <1>5. LogFits(after, n, k)
    BY <1>2, <1>3, <1>4 DEF LogFits
  <1> QED BY <1>2, <1>3, <1>5

\* The founders, those with an id of ids at c.
MovedFounders(rows, ids, c) == {IF f.row \in ids THEN [f EXCEPT !.at = c] ELSE f : f \in rows}

LEMMA FounderAt ==
    ASSUME NEW rows \in SUBSET AFounder, NEW ids, NEW c \in Ids
    PROVE  LET after == MovedFounders(rows, ids, c)
           IN  /\ after \in SUBSET AFounder
               /\ \A g \in after : \E f \in rows :
                     /\ g.row = f.row /\ g.person = f.person
                     /\ g.at = IF f.row \in ids THEN c ELSE f.at
               /\ \A f \in rows : \E g \in after :
                     /\ g.row = f.row /\ g.person = f.person
                     /\ g.at = IF f.row \in ids THEN c ELSE f.at
  <1> DEFINE to(f) == IF f.row \in ids THEN [f EXCEPT !.at = c] ELSE f
             after == {to(f) : f \in rows}
  <1>1. ASSUME NEW f \in rows
        PROVE  /\ to(f) \in AFounder /\ to(f).row = f.row /\ to(f).person = f.person
               /\ to(f).at = IF f.row \in ids THEN c ELSE f.at
    <2>1. CASE f.row \in ids
      <3>1. to(f) = [row |-> f.row, at |-> c, person |-> f.person] /\ to(f) \in AFounder
        BY <2>1, FounderMoved
      <3> HIDE DEF to
      <3> QED BY <2>1, <3>1
    <2>2. CASE f.row \notin ids
      BY <2>2
    <2> QED BY <2>1, <2>2
  <1>2. after = MovedFounders(rows, ids, c)
    BY DEF MovedFounders
  <1> HIDE DEF to
  <1>3. after \in SUBSET AFounder
    BY <1>1
  <1>4. \A g \in after : \E f \in rows :
                     /\ g.row = f.row /\ g.person = f.person
                     /\ g.at = IF f.row \in ids THEN c ELSE f.at
    BY <1>1
  <1>5. \A f \in rows : \E g \in after :
                     /\ g.row = f.row /\ g.person = f.person
                     /\ g.at = IF f.row \in ids THEN c ELSE f.at
    BY <1>1
  <1> HIDE DEF after
  <1> QED BY <1>2, <1>3, <1>4, <1>5

\* What a merge does to the rows, to the pointers and to the log.
LEMMA MergeRows ==
    ASSUME IdentityTyped, NEW w \in Rows, NEW l \in Rows, NEW rule \in Rules, w < l,
           MergeCompanies(w, l, rule)
    PROVE  /\ company' \in [Ids -> Columns]
           /\ company[l].into = Nobody
           /\ company'[l] = Pointing(company[l], w)
           /\ company'[l].into = w /\ company'[l].name = company[l].name
           /\ company'[w].name = company[w].name /\ company'[w].into = company[w].into
           /\ company'[w].number = Filled(company[w].number, company[l].number)
           /\ company'[w].country = Filled(company[w].country, company[l].country)
           /\ \A c \in Ids \ {w, l} : company'[c] = company[c]
           /\ LogFits(events', made, facts)
           /\ events' = Append(Touch(events, {w, l}), Evidence(w, l, rule))
           /\ Len(Touch(events, {w, l})) = Len(events)
           /\ events'[Len(events) + 1] = Evidence(w, l, rule)
           /\ \A e \in DOMAIN events : events'[e] = Touch(events, {w, l})[e]
           /\ DOMAIN events' = DOMAIN events \cup {Len(events) + 1}
           /\ Len(events) + 1 \notin DOMAIN events
  <1>1. w \in Ids /\ l \in Ids /\ w # l /\ company \in [Ids -> Columns]
        /\ company[w] \in Columns /\ company[l] \in Columns
    BY TypedFacts
  <1> DEFINE n == Filled(company[w].number, company[l].number)
             y == Filled(company[w].country, company[l].country)
  <1>2. n \in Numbers \cup {Unknown} /\ y \in Countries \cup {Unknown}
    BY <1>1 DEF Filled, Columns
  <1>3. company' = RowsAfter(company, w, l, n, y)
    BY DEF MergeCompanies, RowsAfter
  <1>4. company[l].into = Nobody
    BY DEF MergeCompanies, Live
  <1> DEFINE ev == Evidence(w, l, rule)
             log == Touch(events, {w, l})
  <1>5. LogFits(log, made, facts) /\ Len(log) = Len(events) /\ DOMAIN log = DOMAIN events
    <2>1. events \in Seq(AnEvent)
      BY TypedFacts DEF LogFits
    <2>2. LogFits(log, made, facts)
      BY TypedFacts, FitsTouched
    <2>3. Len(log) = Len(events) /\ log \in Seq(AnEvent)
      BY <2>1, TouchKeeps
    <2> HIDE DEF log
    <2> QED BY <2>1, <2>2, <2>3
  <1>6. /\ ev \in AnEvent /\ ev.winner = w /\ ev.loser = l /\ ev.before = company[w]
        /\ ev.dropped \subseteq PeopleOf(l) /\ ev.deleted \subseteq KeysOf(l)
    <2>1. /\ ev \in AnEvent /\ ev.winner = w /\ ev.loser = l /\ ev.before = company[w]
          /\ ev.dropped = {f \in PeopleOf(l) : f.person \in Persons(PeopleOf(w))}
          /\ ev.deleted = KeysOf(l) \ ev.moved
      <3>1. ev \in AnEvent /\ IsEvidence(ev, w, l)
        BY EvidenceTyped
      <3> HIDE DEF ev
      <3> QED BY <3>1 DEF IsEvidence
    <2> HIDE DEF ev
    <2> QED BY <2>1
  <1>7. /\ company[w].name \in Names /\ l <= made /\ made \in Nat /\ facts \in Nat
        /\ \A f \in PeopleOf(l) : f.at = l /\ f.row <= facts
        /\ \A k \in KeysOf(l) : k.id <= made
    BY TypedFacts DEF IdentityTyped, Stored, PeopleOf, KeysOf
  <1>8. events' = Append(log, ev)
    BY DEF MergeCompanies
  <1> HIDE DEF ev, log
  <1>d. /\ ev.winner < ev.loser /\ ev.loser <= made /\ ev.before.name \in Names
        /\ \A f \in ev.dropped : f.at = ev.loser /\ f.row <= facts
        /\ \A d \in ev.deleted : d.id <= made
    <2>1. ev.winner < ev.loser /\ ev.loser <= made /\ ev.before.name \in Names
      BY <1>6, <1>7
    <2>2. \A f \in ev.dropped : f.at = ev.loser /\ f.row <= facts
      BY <1>6, <1>7
    <2>3. \A d \in ev.deleted : d.id <= made
      BY <1>6, <1>7
    <2> QED BY <2>1, <2>2, <2>3
  <1>9. /\ LogFits(events', made, facts)
        /\ events'[Len(events) + 1] = ev
        /\ \A e \in DOMAIN events : events'[e] = log[e]
        /\ DOMAIN events' = DOMAIN events \cup {Len(events) + 1}
        /\ Len(events) + 1 \notin DOMAIN events
    BY <1>5, <1>6, <1>7, <1>8, <1>d, FitsAppended
  <1> HIDE DEF n, y
  <1>10. /\ company' \in [Ids -> Columns]
         /\ company'[l] = [company[l] EXCEPT !.into = w]
         /\ company'[l].into = w /\ company'[l].name = company[l].name
         /\ company'[w] = [name |-> company[w].name, number |-> n, country |-> y,
                           into |-> company[w].into]
         /\ \A c \in Ids \ {w, l} : company'[c] = company[c]
    <2>1. AreMerged(company', company, w, l, n, y)
      BY <1>1, <1>2, <1>3, RowsMerged
    <2> QED BY <2>1 DEF AreMerged
  <1>11. company'[w].name = company[w].name /\ company'[w].into = company[w].into
         /\ company'[w].number = n /\ company'[w].country = y
    BY <1>10
  <1>12. /\ LogFits(events', made, facts)
         /\ events' = Append(Touch(events, {w, l}), Evidence(w, l, rule))
         /\ Len(Touch(events, {w, l})) = Len(events)
         /\ events'[Len(events) + 1] = Evidence(w, l, rule)
         /\ \A e \in DOMAIN events : events'[e] = Touch(events, {w, l})[e]
         /\ DOMAIN events' = DOMAIN events \cup {Len(events) + 1}
         /\ Len(events) + 1 \notin DOMAIN events
    BY <1>5, <1>8, <1>9 DEF ev, log
  <1>13. company'[l] = Pointing(company[l], w)
    BY <1>10 DEF Pointing
  <1> QED BY <1>4, <1>10, <1>11, <1>12, <1>13 DEF n, y

LEMMA MergeTyped ==
    ASSUME IdentityTyped, NEW w \in Rows, NEW l \in Rows, NEW rule \in Rules, w < l,
           MergeCompanies(w, l, rule), queue' \subseteq queue
    PROVE  IdentityTyped'
  <1> DEFINE ev == Evidence(w, l, rule)
  <1>1. w \in Ids /\ l \in Ids /\ w # l /\ made \in Nat /\ facts \in Nat
    BY TypedFacts
  <1>2. /\ ev \in AnEvent
        /\ ev.dropped \subseteq PeopleOf(l)
        /\ ev.moved \subseteq AKey
        /\ ev.inserted \subseteq {Key("alias", company[l].name, w, "merge")}
    <2>1. /\ ev \in AnEvent
          /\ ev.dropped = {f \in PeopleOf(l) : f.person \in Persons(PeopleOf(w))}
          /\ ev.inserted \in SUBSET {Key("alias", company[l].name, w, "merge")}
      <3>1. ev \in AnEvent /\ IsEvidence(ev, w, l)
        BY EvidenceTyped
      <3> HIDE DEF ev
      <3> QED BY <3>1 DEF IsEvidence
    <2> HIDE DEF ev
    <2> QED BY <2>1 DEF AnEvent
  <1>3. UNCHANGED <<made, suppressed, reads, facts, home>>
    BY DEF MergeCompanies
  <1>4. /\ company' \in [Ids -> Columns]
        /\ company'[l].into = w /\ company'[l].name = company[l].name
        /\ company'[w].name = company[w].name /\ company'[w].into = company[w].into
        /\ \A c \in Ids \ {w, l} : company'[c] = company[c]
        /\ LogFits(events', made, facts)
    BY MergeRows
  <1>5. keys' \in SUBSET AKey /\ \A k \in keys' : k.id <= made
    <2>1. keys' = (keys \ KeysOf(l)) \cup MovedTo(ev.moved, w) \cup ev.inserted
      BY DEF MergeCompanies
    <2>2. MovedTo(ev.moved, w) \in SUBSET AKey /\ \A k \in MovedTo(ev.moved, w) : k.id = w
      BY <1>1, <1>2, KeysMoved
    <2>3. ev.inserted \in SUBSET AKey /\ \A k \in ev.inserted : k.id = w
      BY <1>2 DEF AnEvent, Key
    <2>4. keys \in SUBSET AKey /\ (\A k \in keys : k.id <= made) /\ w <= made
      BY TypedFacts DEF IdentityTyped, Stored
    <2> HIDE DEF ev
    <2> QED BY <2>1, <2>2, <2>3, <2>4
  <1>6. verdict' \in [Ids -> 0 .. MaxFacts]
    <2>1. verdict \in [Ids -> 0 .. MaxFacts] /\ 0 \in 0 .. MaxFacts
      BY TypedFacts, SizesAreNatural
    <2>2. verdict' = [verdict EXCEPT ![w] = IF ev.decision THEN verdict[l] ELSE verdict[w],
                                     ![l] = NoVerdict]
      BY DEF MergeCompanies
    <2> HIDE DEF ev
    <2> QED BY <1>1, <2>1, <2>2 DEF NoVerdict
  <1>7. founders' \in SUBSET AFounder /\ \A f \in founders' : f.at <= made /\ f.row <= facts
    <2>1. founders' = MovedFounders(founders \ ev.dropped, ev.people, w)
      BY DEF MergeCompanies, MovedFounders
    <2>2. founders \ ev.dropped \in SUBSET AFounder
      BY TypedFacts
    <2>3. (\A f \in founders : f.at <= made /\ f.row <= facts) /\ w <= made
      BY TypedFacts DEF IdentityTyped, Stored
    <2> HIDE DEF ev
    <2>4. /\ founders' \in SUBSET AFounder
          /\ \A g \in founders' : \E f \in founders \ ev.dropped :
                     /\ g.row = f.row /\ g.person = f.person
                     /\ g.at = IF f.row \in ev.people THEN w ELSE f.at
      BY <1>1, <2>1, <2>2, FounderAt
    <2> QED BY <2>3, <2>4
  <1>8. Typed'
    BY <1>3, <1>4, <1>5, <1>6, <1>7 DEF IdentityTyped, Typed
  <1>9. Pointers'
    <2>1. \A c \in Ids : company'[c].into # Nobody => c <= made /\ company'[c].into < c
      <3> SUFFICES ASSUME NEW c \in Ids, company'[c].into # Nobody
                   PROVE  c <= made /\ company'[c].into < c
        OBVIOUS
      <3>1. CASE c = l
        BY <1>4, <3>1, TypedFacts
      <3>2. CASE c # l
        BY <1>4, <3>2 DEF IdentityTyped, Pointers
      <3> QED BY <3>1, <3>2
    <2> QED BY <1>3, <2>1 DEF IdentityTyped, Pointers
  <1>10. Stored'
    <2>1. \A c \in Rows : company'[c].name \in Names
      BY <1>4, TypedFacts DEF IdentityTyped, Stored
    <2> QED BY <1>3, <1>5, <1>7, <2>1 DEF Stored, Rows
  <1> QED BY <1>3, <1>4, <1>8, <1>9, <1>10 DEF IdentityTyped

\* The log with one merge undone.
Reversed(log, e, ev) == [log EXCEPT ![e] = [ev EXCEPT !.undone = TRUE]]

LEMMA UndoneKeeps ==
    ASSUME NEW log \in Seq(AnEvent), NEW e \in DOMAIN log, NEW ev \in AnEvent
    PROVE  /\ Reversed(log, e, ev) \in Seq(AnEvent)
           /\ Len(Reversed(log, e, ev)) = Len(log)
           /\ Kept(Reversed(log, e, ev)[e], ev)
           /\ Reversed(log, e, ev)[e].dropped = ev.dropped
           /\ Reversed(log, e, ev)[e].undone
           /\ Reversed(log, e, ev)[e].clean <=> ev.clean
           /\ \A o \in DOMAIN log \ {e} : Reversed(log, e, ev)[o] = log[o]
  <1> DEFINE one == [ev EXCEPT !.undone = TRUE]
             after == Reversed(log, e, ev)
  <1>1. /\ one \in AnEvent /\ one.undone /\ Kept(one, ev) /\ one.dropped = ev.dropped
        /\ one.clean <=> ev.clean
    BY DEF AnEvent, Kept
  <1>2. after = [log EXCEPT ![e] = one]
    BY DEF Reversed
  <1> HIDE DEF one
  <1>3. log \in [1 .. Len(log) -> AnEvent] /\ Len(log) \in Nat /\ e \in 1 .. Len(log)
    OBVIOUS
  <1> HIDE DEF after
  <1>4. after \in [1 .. Len(log) -> AnEvent]
    BY <1>1, <1>2, <1>3
  <1>5. after \in Seq(AnEvent) /\ Len(after) = Len(log)
    BY <1>3, <1>4
  <1>6. after[e] = one /\ \A o \in DOMAIN log \ {e} : after[o] = log[o]
    BY <1>2, <1>3
  <1> QED BY <1>1, <1>5, <1>6 DEF after

\* The companies that an undo writes to.
Written(e) ==
    {events[e].winner, events[e].loser} \cup {f.at : f \in Reclaimed(events[e])}

LEMMA UndoneEvents ==
    ASSUME IdentityTyped, NEW e \in DOMAIN events, Unmerge(e)
    PROVE  /\ DOMAIN events' = DOMAIN events
           /\ LogFits(events', made, facts)
           /\ \A o \in DOMAIN events :
                 /\ Kept(events'[o], events[o])
                 /\ events'[o].dropped = events[o].dropped
                 /\ events'[o].undone <=> (events[o].undone \/ o = e)
                 /\ events[o].undone => events'[o] = events[o]
                 /\ events'[o].clean => events[o].clean
                 /\ events'[o].clean /\ ~events'[o].undone =>
                       {events[o].winner, events[o].loser} \cap Written(e) = {}
           /\ events'[e].clean <=> events[e].clean
  <1> DEFINE log == Touch(events, Written(e))
  <1>1. events \in Seq(AnEvent) /\ ~events[e].undone
    BY TypedFacts DEF LogFits, Unmerge
  <1>2. events' = Reversed(log, e, events[e]) /\ events[e] \in AnEvent
    BY <1>1 DEF Unmerge, Written, Reversed
  <1>3. /\ log \in Seq(AnEvent) /\ Len(log) = Len(events)
        /\ \A o \in DOMAIN events :
                     /\ Kept(log[o], events[o])
                     /\ log[o].dropped = events[o].dropped
                     /\ log[o].undone <=> events[o].undone
                     /\ events[o].undone => log[o] = events[o]
                     /\ log[o].clean => events[o].clean
                     /\ log[o].clean /\ ~log[o].undone =>
                            {log[o].winner, log[o].loser} \cap Written(e) = {}
    BY <1>1, TouchKeeps
  <1> HIDE DEF log
  <1>4. DOMAIN log = DOMAIN events
    BY <1>1, <1>3
  <1>5. /\ events' \in Seq(AnEvent) /\ Len(events') = Len(log)
        /\ Kept(events'[e], events[e]) /\ events'[e].dropped = events[e].dropped
        /\ events'[e].undone
        /\ events'[e].clean <=> events[e].clean
        /\ \A o \in DOMAIN log \ {e} : events'[o] = log[o]
    <2> DEFINE ev == events[e]
    <2>1. ev \in AnEvent /\ e \in DOMAIN log /\ log \in Seq(AnEvent)
      BY <1>2, <1>3, <1>4
    <2> HIDE DEF ev
    <2>2. /\ Reversed(log, e, ev) \in Seq(AnEvent)
          /\ Len(Reversed(log, e, ev)) = Len(log)
          /\ Kept(Reversed(log, e, ev)[e], ev)
          /\ Reversed(log, e, ev)[e].dropped = ev.dropped
          /\ Reversed(log, e, ev)[e].undone
          /\ Reversed(log, e, ev)[e].clean <=> ev.clean
          /\ \A o \in DOMAIN log \ {e} : Reversed(log, e, ev)[o] = log[o]
      BY <2>1, UndoneKeeps
    <2> QED BY <1>2, <2>2 DEF ev
  <1>6. DOMAIN events' = DOMAIN events
    BY <1>3, <1>4, <1>5
  <1>7. \A o \in DOMAIN events :
                 /\ Kept(events'[o], events[o])
                 /\ events'[o].dropped = events[o].dropped
                 /\ events'[o].undone <=> (events[o].undone \/ o = e)
                 /\ events[o].undone => events'[o] = events[o]
                 /\ events'[o].clean => events[o].clean
                 /\ events'[o].clean /\ ~events'[o].undone =>
                       {events[o].winner, events[o].loser} \cap Written(e) = {}
    <2> SUFFICES ASSUME NEW o \in DOMAIN events
                 PROVE  /\ Kept(events'[o], events[o])
                        /\ events'[o].dropped = events[o].dropped
                        /\ events'[o].undone <=> (events[o].undone \/ o = e)
                        /\ events[o].undone => events'[o] = events[o]
                        /\ events'[o].clean => events[o].clean
                        /\ events'[o].clean /\ ~events'[o].undone =>
                              {events[o].winner, events[o].loser} \cap Written(e) = {}
      OBVIOUS
    <2>1. /\ Kept(log[o], events[o])
          /\ log[o].dropped = events[o].dropped
          /\ log[o].undone <=> events[o].undone
          /\ events[o].undone => log[o] = events[o]
          /\ log[o].clean => events[o].clean
          /\ log[o].clean /\ ~log[o].undone =>
                 {log[o].winner, log[o].loser} \cap Written(e) = {}
      BY <1>3
    <2>2. CASE o = e
      BY <1>1, <1>5, <2>1, <2>2 DEF Kept
    <2>3. CASE o # e
      <3>1. events'[o] = log[o]
        BY <1>4, <1>5, <2>3
      <3>2. log[o].winner = events[o].winner /\ log[o].loser = events[o].loser
        BY <2>1 DEF Kept
      <3> QED BY <2>1, <2>3, <3>1, <3>2
    <2> QED BY <2>2, <2>3
  <1>8. ASSUME NEW o \in DOMAIN events
        PROVE  /\ events'[o].winner < events'[o].loser /\ events'[o].loser <= made
               /\ events'[o].before.name \in Names
               /\ \A f \in events'[o].dropped : f.at = events'[o].loser /\ f.row <= facts
               /\ \A d \in events'[o].deleted : d.id <= made
    <2>1. /\ events[o].winner < events[o].loser /\ events[o].loser <= made
          /\ events[o].before.name \in Names
          /\ \A f \in events[o].dropped : f.at = events[o].loser /\ f.row <= facts
          /\ \A d \in events[o].deleted : d.id <= made
      BY TypedFacts DEF LogFits
    <2> QED BY <1>7, <2>1 DEF Kept
  <1> QED BY <1>5, <1>6, <1>7, <1>8 DEF LogFits

\* What an undo makes of the rows of the two companies.
LEMMA UndoneRows ==
    ASSUME IdentityTyped, NEW e \in DOMAIN events, Unmerge(e)
    PROVE  LET w == events[e].winner
               l == events[e].loser
           IN  /\ w \in Rows /\ l \in Rows /\ w < l /\ company[l].into = w
               /\ events[e] \in AnEvent
               /\ company' \in [Ids -> Columns]
               /\ company'[l] = Pointing(company[l], Nobody)
               /\ company'[l].into = Nobody /\ company'[l].name = company[l].name
               /\ company'[w] = Pointing(events[e].before, company[w].into)
               /\ company'[w].into = company[w].into /\ company'[w].name \in Names
               /\ \A c \in Ids \ {w, l} : company'[c] = company[c]
  <1> DEFINE w == events[e].winner
             l == events[e].loser
             row == [events[e].before EXCEPT !.into = company[w].into]
             free == [company[l] EXCEPT !.into = Nobody]
             one == [company EXCEPT ![w] = row]
  <1>1. /\ events[e] \in AnEvent /\ w < l /\ l <= made /\ events[e].before.name \in Names
        /\ company \in [Ids -> Columns]
    BY TypedFacts DEF LogFits
  <1>2. w \in Rows /\ l \in Rows /\ w \in Ids /\ l \in Ids /\ w # l
        /\ company[w] \in Columns /\ company[l] \in Columns
    BY <1>1, TypedFacts DEF AnEvent, Ids, Rows
  <1>3. company[l].into = w /\ company' = [one EXCEPT ![l].into = Nobody]
    BY DEF Unmerge
  <1>4. row \in Columns /\ row.into = company[w].into /\ row.name = events[e].before.name
    BY <1>1, <1>2 DEF AnEvent, Columns
  <1>5. free \in Columns /\ free.into = Nobody /\ free.name = company[l].name
    BY <1>2 DEF Columns
  <1>6. [one EXCEPT ![l].into = Nobody] = [one EXCEPT ![l] = free]
    <2>1. one[l] = company[l]
      BY <1>1, <1>2
    <2>2. [one EXCEPT ![l].into = Nobody] = [one EXCEPT ![l] = [one[l] EXCEPT !.into = Nobody]]
      OBVIOUS
    <2> HIDE DEF one
    <2> QED BY <2>1, <2>2
  <1> HIDE DEF row, free
  <1>7. /\ company' \in [Ids -> Columns] /\ company'[l] = free /\ company'[w] = row
        /\ \A c \in Ids \ {w, l} : company'[c] = company[c]
    BY <1>1, <1>2, <1>3, <1>4, <1>5, <1>6
  <1> QED BY <1>1, <1>2, <1>3, <1>4, <1>5, <1>7 DEF row, free, Pointing

\* What an undo makes of the founders.
LEMMA UndoneFounders ==
    ASSUME IdentityTyped, NEW e \in DOMAIN events, Unmerge(e)
    PROVE  /\ founders' \in SUBSET AFounder
           /\ \A g \in founders' :
                 \/ g \in events[e].dropped
                 \/ /\ g.row \notin RowIds(events[e].dropped)
                    /\ \E f \in founders :
                          /\ g.row = f.row /\ g.person = f.person
                          /\ g.at = IF f.row \in events[e].people THEN events[e].loser ELSE f.at
  <1> DEFINE ev == events[e]
             returned == MovedFounders(founders, ev.people, ev.loser)
  <1>1. ev \in AnEvent /\ ev.loser \in Ids /\ ev.dropped \in SUBSET AFounder
    <2>1. ev \in AnEvent
      BY TypedFacts DEF LogFits
    <2> HIDE DEF ev
    <2> QED BY <2>1 DEF AnEvent
  <1>2. founders' = {f \in returned : /\ f.row \notin RowIds(ev.dropped)
                                      /\ f.at = ev.loser => f.person \notin Persons(ev.dropped)}
                       \cup ev.dropped
    BY DEF Unmerge, MovedFounders
  <1>3. /\ returned \in SUBSET AFounder
        /\ \A g \in returned : \E f \in founders :
                 /\ g.row = f.row /\ g.person = f.person
                 /\ g.at = IF f.row \in ev.people THEN ev.loser ELSE f.at
    BY <1>1, TypedFacts, FounderAt
  <1> HIDE DEF ev, returned
  <1>4. /\ founders' \in SUBSET AFounder
        /\ \A g \in founders' :
                 \/ g \in ev.dropped
                 \/ /\ g.row \notin RowIds(ev.dropped)
                    /\ \E f \in founders :
                          /\ g.row = f.row /\ g.person = f.person
                          /\ g.at = IF f.row \in ev.people THEN ev.loser ELSE f.at
    BY <1>1, <1>2, <1>3
  <1> QED BY <1>4 DEF ev

LEMMA UnmergeTyped ==
    ASSUME IdentityTyped, NEW e \in DOMAIN events, Unmerge(e)
    PROVE  IdentityTyped'
  <1> DEFINE ev == events[e]
             w == ev.winner
             l == ev.loser
  <1>1. /\ w \in Rows /\ l \in Rows /\ w < l /\ company[l].into = w
        /\ ev \in AnEvent
        /\ company' \in [Ids -> Columns]
        /\ company'[l].into = Nobody /\ company'[l].name = company[l].name
        /\ company'[w].into = company[w].into /\ company'[w].name \in Names
        /\ \A c \in Ids \ {w, l} : company'[c] = company[c]
    BY UndoneRows
  <1>2. UNCHANGED <<made, queue, suppressed, reads, facts, home>>
    BY DEF Unmerge
  <1>3. LogFits(events', made, facts)
    BY UndoneEvents
  <1>4. made \in Nat /\ facts \in Nat /\ w \in Ids /\ l \in Ids /\ l <= made
    BY <1>1, TypedFacts
  <1>5. keys' \in SUBSET AKey /\ \A k \in keys' : k.id <= made
    <2> DEFINE back == Returning(ev)
               returned == ((keys \ ev.inserted) \ back) \cup MovedTo(back, l)
    <2>1. keys' = {k \in returned : ~\E d \in ev.deleted : k.id = d.id /\ SameKey(k, d)}
                      \cup ev.deleted
      BY DEF Unmerge
    <2>2. keys \in SUBSET AKey /\ (\A k \in keys : k.id <= made) /\ back \in SUBSET keys
      BY TypedFacts DEF IdentityTyped, Stored, Returning, KeysOf
    <2>3. ev.deleted \in SUBSET AKey
      BY <1>1 DEF AnEvent
    <2>4. MovedTo(back, l) \in SUBSET AKey /\ \A k \in MovedTo(back, l) : k.id = l
      <3> HIDE DEF back
      <3> QED BY <1>4, <2>2, KeysMoved
    <2>5. \A k \in ev.deleted : k.id <= made
      BY TypedFacts DEF LogFits
    <2> HIDE DEF back, ev
    <2> QED BY <1>4, <2>1, <2>2, <2>3, <2>4, <2>5
  <1>6. verdict' \in [Ids -> 0 .. MaxFacts]
    <2> DEFINE returned == IF ev.decision /\ verdict[w] # NoVerdict
                           THEN [verdict EXCEPT ![l] = verdict[w], ![w] = NoVerdict]
                           ELSE verdict
    <2>1. verdict' = IF ev.displaced = NoVerdict THEN returned
                     ELSE [returned EXCEPT ![IF ev.decision THEN w ELSE l] = ev.displaced]
      BY DEF Unmerge
    <2>2. verdict \in [Ids -> 0 .. MaxFacts] /\ NoVerdict \in 0 .. MaxFacts
      BY TypedFacts, SizesAreNatural DEF NoVerdict
    <2>3. ev.displaced \in 0 .. MaxFacts
      BY <1>1 DEF AnEvent
    <2> HIDE DEF ev, w, l
    <2>4. returned \in [Ids -> 0 .. MaxFacts]
      BY <1>4, <2>2
    <2> HIDE DEF returned
    <2> QED BY <1>4, <2>1, <2>3, <2>4
  <1>7. founders' \in SUBSET AFounder /\ \A f \in founders' : f.at <= made /\ f.row <= facts
    <2>1. /\ founders' \in SUBSET AFounder
          /\ \A g \in founders' :
                 \/ g \in ev.dropped
                 \/ \E f \in founders :
                          /\ g.row = f.row /\ g.person = f.person
                          /\ g.at = IF f.row \in ev.people THEN l ELSE f.at
      BY UndoneFounders
    <2>2. \A f \in founders : f.at <= made /\ f.row <= facts
      BY TypedFacts DEF IdentityTyped, Stored
    <2>3. \A f \in ev.dropped : f.at = l /\ f.row <= facts
      BY TypedFacts DEF LogFits
    <2> HIDE DEF ev, l
    <2> QED BY <1>4, <2>1, <2>2, <2>3
  <1> HIDE DEF ev, w, l
  <1>8. Typed'
    BY <1>1, <1>2, <1>5, <1>6, <1>7 DEF IdentityTyped, Typed
  <1>9. Pointers'
    <2>1. \A c \in Ids : company'[c].into # Nobody => company'[c].into = company[c].into
      BY <1>1
    <2> QED BY <1>2, <2>1 DEF IdentityTyped, Pointers
  <1>10. Stored'
    <2>1. \A c \in Rows : company'[c].name \in Names
      <3> SUFFICES ASSUME NEW c \in Rows PROVE company'[c].name \in Names
        OBVIOUS
      <3>1. c \in Ids /\ company[c].name \in Names
        BY TypedFacts DEF IdentityTyped, Stored
      <3>2. CASE c = w
        BY <1>1, <3>2
      <3>3. CASE c # w
        BY <1>1, <3>1, <3>3
      <3> QED BY <3>2, <3>3
    <2> QED BY <1>2, <1>5, <1>7, <2>1 DEF Stored, Rows
  <1> QED BY <1>2, <1>3, <1>8, <1>9, <1>10 DEF IdentityTyped

\* Every step keeps the types: in one lemma, by the action.
LEMMA StepTyped ==
    ASSUME IdentityTyped, [Next]_vars
    PROVE  IdentityTyped'
  <1>1. CASE UNCHANGED vars
    <2>1. UNCHANGED <<made, company, keys, queue, events, verdict, founders, suppressed,
                      reads, facts, home>>
      BY <1>1 DEF vars, stored
    <2> QED BY <2>1 DEF IdentityTyped, Typed, Pointers, Stored, Rows
  <1>2. ASSUME NEW q \in queue, ApproveReview(q) PROVE IdentityTyped'
    <2>1. q \in APair /\ q.winner < q.loser /\ q.loser <= made
      BY <1>2, TypedFacts DEF IdentityTyped, Pointers
    <2>2. q.winner \in Rows /\ q.loser \in Rows /\ q.rule \in Rules
      BY <2>1, TypedFacts DEF APair, Ids, Rows
    <2>3. MergeCompanies(q.winner, q.loser, q.rule) /\ queue' \subseteq queue
      BY <1>2 DEF ApproveReview
    <2> QED BY <2>1, <2>2, <2>3, MergeTyped
  <1> QED BY <1>1, <1>2, ResolveTyped, SweepTyped, VerifyTyped, DismissTyped, UnmergeTyped,
             DecideTyped, StoreTyped, ForgetTyped DEF Next

LEMMA InitTyped == Init => IdentityTyped
  <1> SUFFICES ASSUME Init PROVE IdentityTyped
    OBVIOUS
  <1>1. MaxCompanies \in Nat /\ MaxFacts \in Nat /\ MaxReads \in Nat
    BY SizesAreNatural
  <1>2. Typed
    BY <1>1 DEF Init, Typed, NoRow, Columns, NoVerdict, Nobody, Ids
  <1>3. Pointers /\ Stored
    BY <1>1 DEF Init, Pointers, Stored, NoRow, Rows
  <1>4. LogFits(events, made, facts)
    BY <1>1 DEF Init, LogFits
  <1> QED BY <1>2, <1>3, <1>4 DEF IdentityTyped

\* Every variable holds what it is declared to hold: the rows, the keys, the
\* queue, the log of the merges and their evidence, in every state.
THEOREM TypeCorrect == Spec => []TypeOK
  <1>1. IdentityTyped /\ [Next]_vars => IdentityTyped'
    BY StepTyped
  <1>2. IdentityTyped => TypeOK
    <2> SUFFICES ASSUME IdentityTyped PROVE TypeOK
      OBVIOUS
    <2>1. /\ made \in 0 .. MaxCompanies /\ company \in [Ids -> Columns]
          /\ verdict \in [Ids -> 0 .. MaxFacts] /\ suppressed \subseteq People
          /\ reads \in 0 .. MaxReads /\ facts \in 0 .. MaxFacts
      BY DEF IdentityTyped, Typed
    <2>2. home \in [Mentions -> {Nobody} \cup Ids]
      BY TypedFacts, SizesAreNatural DEF Nobody, Ids
    <2>3. \A k \in keys : k.id \in Rows /\ k.kind \in {"ch", "norm_key", "alias"}
      BY TypedFacts DEF IdentityTyped, Stored, AKey, Rows, Ids
    <2>4. \A q \in queue : q.winner \in Rows /\ q.loser \in Rows
      BY TypedFacts DEF IdentityTyped, Pointers, APair, Rows, Ids
    <2>5. \A e \in DOMAIN events : events[e].winner \in Rows /\ events[e].loser \in Rows
      <3>1. \A e \in DOMAIN events : /\ events[e] \in AnEvent
                                     /\ events[e].winner < events[e].loser
                                     /\ events[e].loser <= made
        BY TypedFacts DEF LogFits
      <3> QED BY <3>1, TypedFacts DEF AnEvent, Rows, Ids
    <2>6. \A f \in founders : f.at \in Rows /\ f.person \in People
      BY TypedFacts DEF IdentityTyped, Stored, AFounder, Rows, Ids
    <2> QED BY <2>1, <2>2, <2>3, <2>4, <2>5, <2>6 DEF TypeOK
  <1> QED BY <1>1, <1>2, InitTyped, PTL DEF Spec

-----------------------------------------------------------------------------
(* An erased founder stays erased.                                         *)

\* Of merges that are only touched, or not even that, the same is recorded.
LEMMA TouchedLog ==
    ASSUME IdentityTyped, NEW ids, events' = Touch(events, ids)
    PROVE  /\ DOMAIN events' = DOMAIN events
           /\ \A e \in DOMAIN events :
                 /\ Kept(events'[e], events[e])
                 /\ events'[e].dropped = events[e].dropped
                 /\ events'[e].undone <=> events[e].undone
                 /\ events[e].undone => events'[e] = events[e]
                 /\ events'[e].clean => events[e].clean
                 /\ events'[e].clean /\ ~events'[e].undone =>
                       {events[e].winner, events[e].loser} \cap ids = {}
  <1>1. events \in Seq(AnEvent)
    BY TypedFacts DEF LogFits
  <1>2. /\ events' \in Seq(AnEvent) /\ Len(events') = Len(events)
        /\ \A e \in DOMAIN events :
              /\ Kept(events'[e], events[e])
              /\ events'[e].dropped = events[e].dropped
              /\ events'[e].undone <=> events[e].undone
              /\ events[e].undone => events'[e] = events[e]
              /\ events'[e].clean => events[e].clean
              /\ events'[e].clean /\ ~events'[e].undone =>
                    {events'[e].winner, events'[e].loser} \cap ids = {}
    BY <1>1, TouchKeeps
  <1> QED BY <1>1, <1>2 DEF Kept

\* What an action that merges and undoes nothing can do to the log.
LEMMA PlainLog ==
    ASSUME IdentityTyped,
           \/ \E m \in Mentions : ResolveItem(m) \/ SweepItem(m)
           \/ \E c \in Ids, number \in Numbers : VerifyCrn(c, number)
           \/ \E q \in queue : DismissReview(q)
           \/ \E c \in Ids : Decide(c)
           \/ \E c \in Ids, p \in People : StoreFounder(c, p)
    PROVE  events' = events \/ \E ids : events' = Touch(events, ids)
  BY DEF ResolveItem, UpsertRecord, Attach, Create, SweepItem, VerifyCrn, DismissReview,
         Decide, StoreFounder

LEMMA MergeEvents ==
    ASSUME IdentityTyped, NEW w \in Rows, NEW l \in Rows, NEW rule \in Rules, w < l,
           MergeCompanies(w, l, rule)
    PROVE  /\ Len(events) + 1 \notin DOMAIN events
           /\ DOMAIN events' = DOMAIN events \cup {Len(events) + 1}
           /\ events'[Len(events) + 1] = Evidence(w, l, rule)
           /\ \A e \in DOMAIN events : events'[e] = Touch(events, {w, l})[e]
  BY MergeRows

LEMMA MergedLog ==
    ASSUME IdentityTyped, NEW q \in queue, ApproveReview(q)
    PROVE  LET w == q.winner
               l == q.loser
               ev == Evidence(w, l, q.rule)
               n == Len(events) + 1
           IN  /\ w \in Rows /\ l \in Rows /\ w < l /\ w \in Ids /\ l \in Ids
               /\ q.rule \in Rules /\ MergeCompanies(w, l, q.rule)
               /\ ev \in AnEvent /\ IsEvidence(ev, w, l)
               /\ n \notin DOMAIN events /\ DOMAIN events' = DOMAIN events \cup {n}
               /\ events'[n] = ev
               /\ \A e \in DOMAIN events :
                     /\ Kept(events'[e], events[e])
                     /\ events'[e].dropped = events[e].dropped
                     /\ events'[e].undone <=> events[e].undone
                     /\ events[e].undone => events'[e] = events[e]
                     /\ events'[e].clean => events[e].clean
                     /\ events'[e].clean /\ ~events'[e].undone =>
                           {events[e].winner, events[e].loser} \cap {w, l} = {}
  <1> DEFINE w == q.winner
             l == q.loser
             ev == Evidence(w, l, q.rule)
             n == Len(events) + 1
             log == Touch(events, {w, l})
  <1>1. q \in APair /\ q.winner < q.loser /\ q.loser <= made
    BY TypedFacts DEF IdentityTyped, Pointers
  <1>2. w \in Rows /\ l \in Rows /\ w < l /\ w \in Ids /\ l \in Ids /\ q.rule \in Rules
    BY <1>1, TypedFacts DEF APair, Ids, Rows
  <1>3. MergeCompanies(w, l, q.rule)
    BY DEF ApproveReview
  <1>4. ev \in AnEvent /\ IsEvidence(ev, w, l)
    BY <1>2, EvidenceTyped
  <1>5. /\ n \notin DOMAIN events /\ DOMAIN events' = DOMAIN events \cup {n}
        /\ events'[n] = ev
        /\ \A e \in DOMAIN events : events'[e] = log[e]
    BY <1>2, <1>3, MergeEvents
  <1>6. events \in Seq(AnEvent)
    BY TypedFacts DEF LogFits
  <1>7. \A e \in DOMAIN events :
              /\ Kept(log[e], events[e])
              /\ log[e].dropped = events[e].dropped
              /\ log[e].undone <=> events[e].undone
              /\ events[e].undone => log[e] = events[e]
              /\ log[e].clean => events[e].clean
              /\ log[e].clean /\ ~log[e].undone => {log[e].winner, log[e].loser} \cap {w, l} = {}
    BY <1>6, TouchKeeps
  <1> HIDE DEF w, l, ev, n, log
  <1>8. \A e \in DOMAIN events :
                     /\ Kept(events'[e], events[e])
                     /\ events'[e].dropped = events[e].dropped
                     /\ events'[e].undone <=> events[e].undone
                     /\ events[e].undone => events'[e] = events[e]
                     /\ events'[e].clean => events[e].clean
                     /\ events'[e].clean /\ ~events'[e].undone =>
                           {events[e].winner, events[e].loser} \cap {w, l} = {}
    BY <1>5, <1>7 DEF Kept
  <1> QED BY <1>2, <1>3, <1>4, <1>5, <1>8 DEF w, l, ev, n

LEMMA ErasedStep ==
    ASSUME IdentityTyped, ErasedInv, [Next]_vars
    PROVE  ErasedInv'
  <1> DEFINE Gone(rows, who) == \A f \in rows : f.person \notin who
  <1>0. ErasedInv <=> /\ Gone(founders, suppressed)
                      /\ \A e \in DOMAIN events : Gone(events[e].dropped, suppressed)
    BY DEF ErasedInv, ErasedStaysErased, Persons
  <1>p. ErasedInv' <=> /\ Gone(founders', suppressed')
                       /\ \A e \in DOMAIN events' : Gone(events'[e].dropped, suppressed')
    BY DEF ErasedInv, ErasedStaysErased, Persons
  <1>1. /\ Gone(founders, suppressed)
        /\ \A e \in DOMAIN events : Gone(events[e].dropped, suppressed)
    BY <1>0
  <1>2. CASE \/ \E m \in Mentions : ResolveItem(m) \/ SweepItem(m)
             \/ \E c \in Ids, number \in Numbers : VerifyCrn(c, number)
             \/ \E q \in queue : DismissReview(q)
             \/ \E c \in Ids : Decide(c)
             \/ \E c \in Ids, p \in People : StoreFounder(c, p)
    <2>1. /\ DOMAIN events' = DOMAIN events
          /\ \A e \in DOMAIN events : events'[e].dropped = events[e].dropped
      <3>1. CASE events' = events
        BY <3>1
      <3>2. CASE \E ids : events' = Touch(events, ids)
        BY <3>2, TouchedLog
      <3> QED BY <1>2, <3>1, <3>2, PlainLog
    <2>2. suppressed' = suppressed
      BY <1>2 DEF ResolveItem, UpsertRecord, Resolved, SweepItem, VerifyCrn, DismissReview,
                  Decide, StoreFounder
    <2>3. \A f \in founders' : f \in founders \/ f.person \notin suppressed
      <3>1. CASE founders' = founders
        BY <3>1
      <3>2. CASE \E c \in Ids, p \in People : StoreFounder(c, p)
        <4>1. PICK c \in Ids, p \in People : StoreFounder(c, p)
          BY <3>2
        <4> DEFINE new == [row |-> NextRow, at |-> c, person |-> p]
        <4>2. p \notin suppressed /\ (founders' = founders \/ founders' = founders \cup {new})
          BY <4>1 DEF StoreFounder
        <4>3. new.person = p
          OBVIOUS
        <4> HIDE DEF new
        <4> QED BY <4>2, <4>3
      <3>3. (\E c \in Ids, p \in People : StoreFounder(c, p)) \/ founders' = founders
        BY <1>2 DEF ResolveItem, UpsertRecord, Resolved, SweepItem, VerifyCrn, DismissReview,
                    Decide
      <3> QED BY <3>1, <3>2, <3>3
    <2> QED BY <1>1, <1>p, <2>1, <2>2, <2>3
  <1>3. ASSUME NEW q \in queue, ApproveReview(q) PROVE ErasedInv'
    <2> DEFINE w == q.winner
               l == q.loser
               ev == Evidence(w, l, q.rule)
               n == Len(events) + 1
    <2>1. /\ w \in Ids /\ MergeCompanies(w, l, q.rule) /\ IsEvidence(ev, w, l)
          /\ DOMAIN events' = DOMAIN events \cup {n} /\ events'[n] = ev
          /\ \A e \in DOMAIN events : events'[e].dropped = events[e].dropped
      BY <1>3, MergedLog
    <2>2. suppressed' = suppressed
          /\ founders' = MovedFounders(founders \ ev.dropped, ev.people, w)
      BY <2>1 DEF MergeCompanies, MovedFounders
    <2>3. founders \ ev.dropped \in SUBSET AFounder
      BY TypedFacts
    <2> HIDE DEF w, l, ev, n
    <2>4. \A g \in founders' : \E f \in founders : g.person = f.person
      BY <2>1, <2>2, <2>3, FounderAt
    <2>5. ev.dropped \subseteq founders
      BY <2>1 DEF IsEvidence, PeopleOf
    <2> QED BY <1>1, <1>p, <2>1, <2>2, <2>4, <2>5
  <1>4. ASSUME NEW e \in DOMAIN events, Unmerge(e) PROVE ErasedInv'
    <2>1. /\ DOMAIN events' = DOMAIN events
          /\ \A o \in DOMAIN events : events'[o].dropped = events[o].dropped
      BY <1>4, UndoneEvents
    <2>2. \A g \in founders' : g \in events[e].dropped \/ \E f \in founders : g.person = f.person
      BY <1>4, UndoneFounders
    <2>3. suppressed' = suppressed
      BY <1>4 DEF Unmerge
    <2> QED BY <1>1, <1>p, <1>4, <2>1, <2>2, <2>3
  <1>5. ASSUME NEW p \in People, ForgetPerson(p) PROVE ErasedInv'
    <2>1. /\ DOMAIN events' = DOMAIN events
          /\ \A e \in DOMAIN events :
                events'[e].dropped = {f \in events[e].dropped : f.person # p}
      BY <1>5, ForgetEvents
    <2>2. /\ founders' = {f \in founders : f.person # p}
          /\ suppressed' = suppressed \cup {p}
      BY <1>5 DEF ForgetPerson
    <2> QED BY <1>1, <1>p, <2>1, <2>2
  <1>6. CASE UNCHANGED vars
    BY <1>6 DEF vars, stored, ErasedInv, ErasedStaysErased, Persons
  <1> QED BY <1>2, <1>3, <1>4, <1>5, <1>6 DEF Next

\* A founder who asked to be forgotten has no row, whatever is read, merged or
\* undone afterwards: the evidence of a merge does not bring the row back.
THEOREM ErasedForGood == Spec => []ErasedStaysErased
  <1>1. Init => ErasedInv
    <2> SUFFICES ASSUME Init PROVE ErasedInv
      OBVIOUS
    <2>1. founders = {} /\ events = <<>>
      BY DEF Init
    <2> QED BY <2>1 DEF ErasedInv, ErasedStaysErased, Persons
  <1>2. IdentityTyped /\ ErasedInv /\ [Next]_vars => (IdentityTyped /\ ErasedInv)'
    BY StepTyped, ErasedStep
  <1>3. ErasedInv => ErasedStaysErased
    BY DEF ErasedInv
  <1> QED BY <1>1, <1>2, <1>3, InitTyped, PTL DEF Spec

-----------------------------------------------------------------------------
(* The rows and tombstones implement the partition of the mentions.        *)

PartsKept ==
    /\ DOMAIN events' = DOMAIN events
    /\ \A e \in DOMAIN events : events'[e].part = events[e].part

PointersKept == \A c \in Ids : company'[c].into = company[c].into

LEMMA TouchedParts ==
    ASSUME IdentityTyped, events' = events \/ \E ids : events' = Touch(events, ids)
    PROVE  PartsKept
  <1>1. CASE events' = events
    BY <1>1 DEF PartsKept
  <1>2. ASSUME NEW ids, events' = Touch(events, ids) PROVE PartsKept
    BY <1>2, TouchedLog DEF PartsKept, Kept
  <1> QED BY <1>1, <1>2

\* A mention that is read is at a live company, and nothing else is anywhere
\* else.
LEMMA ReadMoves ==
    ASSUME IdentityTyped, NEW m \in Mentions, ResolveItem(m) \/ SweepItem(m)
    PROVE  /\ PartsKept /\ PointersKept
           /\ \E c \in Ids : company[c].into = Nobody /\ home' = [home EXCEPT ![m] = c]
  <1>1. PartsKept
    BY TouchedParts, PlainLog
  <1>2. ASSUME NEW fact \in AFact, NEW kind \in {"norm_key", "alias"}, Create(fact, kind),
               Resolved(m, made + 1)
        PROVE  /\ PointersKept
               /\ \E c \in Ids : company[c].into = Nobody /\ home' = [home EXCEPT ![m] = c]
    <2>1. /\ company[made + 1].into = Nobody
          /\ company' = [company EXCEPT ![made + 1] =
                 [name |-> fact.name, number |-> fact.number, country |-> fact.country,
                  into |-> Nobody]]
      BY <1>2, CreateTyped
    <2>2. made + 1 \in Ids /\ company \in [Ids -> Columns]
      BY <1>2, TypedFacts, SizesAreNatural DEF Create, Ids
    <2>3. PointersKept
      BY <2>1, <2>2 DEF PointersKept
    <2>4. home' = [home EXCEPT ![m] = made + 1]
      BY <1>2 DEF Resolved
    <2> QED BY <2>1, <2>2, <2>3, <2>4
  <1>3. \A c \in Live : c \in Ids /\ company[c].into = Nobody
    BY TypedFacts DEF Live
  <1>4. CASE ResolveItem(m)
    <2> DEFINE fact == Says[m]
    <2>1. fact \in AFact
      BY <1>4, SaysFact DEF ResolveItem
    <2>2. CASE \E c \in Matches(fact) :
                  /\ Attach(c, fact, CappedRule(fact, c) = "fuzzy")
                  /\ Resolved(m, c)
      <3>1. PICK c \in Matches(fact) :
                  /\ Attach(c, fact, CappedRule(fact, c) = "fuzzy")
                  /\ Resolved(m, c)
        BY <2>2
      <3>2. c \in Live
        BY <3>1, MatchesAreLive
      <3>3. \A d \in Ids : company'[d].into = company[d].into
        <4> HIDE DEF fact
        <4> QED BY <2>1, <3>1, <3>2, AttachTyped
      <3>4. home' = [home EXCEPT ![m] = c]
        BY <3>1 DEF Resolved
      <3> QED BY <1>1, <1>3, <3>2, <3>3, <3>4 DEF PointersKept
    <2>3. CASE Create(fact, "norm_key") /\ Resolved(m, made + 1)
      BY <1>1, <1>2, <2>1, <2>3
    <2> QED BY <1>4, <2>2, <2>3 DEF ResolveItem, UpsertRecord
  <1>5. CASE SweepItem(m)
    <2> DEFINE fact == [Says[m] EXCEPT !.country = Home]
               kind == IF fact.name \in Placeholders THEN "alias" ELSE "norm_key"
    <2>1. fact \in AFact /\ kind \in {"norm_key", "alias"}
      BY <1>5, SaysFact DEF SweepItem
    <2>2. CASE Create(fact, kind) /\ Resolved(m, made + 1)
      <3> HIDE DEF fact, kind
      <3> QED BY <1>1, <1>2, <2>1, <2>2
    <2>3. CASE \E c \in Live :
               /\ company' = [company EXCEPT ![c].name = fact.name, ![c].country = Home]
               /\ Resolved(m, c)
      <3>1. PICK c \in Live :
               /\ company' = [company EXCEPT ![c].name = fact.name, ![c].country = Home]
               /\ Resolved(m, c)
        BY <2>3
      <3> DEFINE row == [name |-> fact.name, number |-> company[c].number,
                         country |-> Home, into |-> company[c].into]
      <3>2. c \in Ids /\ company \in [Ids -> Columns]
        BY TypedFacts
      <3>3. company' = [company EXCEPT ![c] = row]
        <4>1. [company EXCEPT ![c].name = fact.name, ![c].country = Home]
                  = [company EXCEPT ![c] = row]
          BY <3>2, Renamed
        <4> QED BY <3>1, <4>1
      <3>4. row.into = company[c].into
        OBVIOUS
      <3> HIDE DEF row
      <3>5. PointersKept
        BY <3>2, <3>3, <3>4 DEF PointersKept
      <3>6. home' = [home EXCEPT ![m] = c]
        BY <3>1 DEF Resolved
      <3> QED BY <1>1, <1>3, <3>5, <3>6
    <2> QED BY <1>5, <2>2, <2>3 DEF SweepItem
  <1> QED BY <1>4, <1>5

LEMMA OthersStay ==
    ASSUME IdentityTyped,
           \/ \E c \in Ids, number \in Numbers : VerifyCrn(c, number)
           \/ \E q \in queue : DismissReview(q)
           \/ \E c \in Ids : Decide(c)
           \/ \E c \in Ids, p \in People : StoreFounder(c, p)
           \/ \E p \in People : ForgetPerson(p)
           \/ UNCHANGED vars
    PROVE  PartsKept /\ PointersKept /\ home' = home
  <1>1. PartsKept
    <2>1. CASE \E p \in People : ForgetPerson(p)
      BY <2>1, ForgetEvents DEF PartsKept, Kept
    <2>2. CASE UNCHANGED vars
      BY <2>2 DEF vars, stored, PartsKept
    <2> QED BY <2>1, <2>2, TouchedParts, PlainLog
  <1>2. ASSUME NEW c \in Ids, NEW number \in Numbers, VerifyCrn(c, number)
        PROVE  PointersKept /\ home' = home
    BY <1>2, TypedFacts DEF VerifyCrn, Columns, PointersKept
  <1>3. (\E c \in Ids, number \in Numbers : VerifyCrn(c, number)) \/ company' = company
    BY DEF DismissReview, Decide, StoreFounder, ForgetPerson, vars, stored
  <1>4. home' = home
    BY DEF VerifyCrn, DismissReview, Decide, StoreFounder, ForgetPerson, vars, stored
  <1> QED BY <1>1, <1>2, <1>3, <1>4 DEF PointersKept

LEMMA RowsDescend == IdentityTyped => Descends(company)
  BY TypedFacts, SizesAreNatural DEF IdentityTyped, Pointers, Descends, Columns, Ids, Nobody

\* A merge in the words of the partition.
LEMMA MergeMoves ==
    ASSUME IdentityTyped, NEW q \in queue, ApproveReview(q)
    PROVE  /\ q.winner \in Ids /\ q.loser \in Ids /\ q.winner < q.loser
           /\ company[q.loser].into = Nobody /\ company'[q.loser].into = q.winner
           /\ \A c \in Ids \ {q.loser} : company'[c].into = company[c].into
           /\ home' = home
           /\ Len(events) + 1 \notin DOMAIN events
           /\ DOMAIN events' = DOMAIN events \cup {Len(events) + 1}
           /\ \A e \in DOMAIN events : events'[e].part = events[e].part
           /\ events'[Len(events) + 1].part
                  = {m \in Mentions : home[m] # Nobody /\ Canonical(home[m]) = q.loser}
  <1> DEFINE w == q.winner
             l == q.loser
             ev == Evidence(w, l, q.rule)
             n == Len(events) + 1
  <1>1. /\ w \in Rows /\ l \in Rows /\ w < l /\ w \in Ids /\ l \in Ids /\ q.rule \in Rules
        /\ MergeCompanies(w, l, q.rule) /\ IsEvidence(ev, w, l)
        /\ n \notin DOMAIN events /\ DOMAIN events' = DOMAIN events \cup {n}
        /\ events'[n] = ev
        /\ \A e \in DOMAIN events : Kept(events'[e], events[e])
    BY MergedLog
  <1>2. home' = home
    BY <1>1 DEF MergeCompanies
  <1>3. ev.part = {m \in Mentions : home[m] # Nobody /\ Canonical(home[m]) = l}
    <2> HIDE DEF ev, w, l
    <2> QED BY <1>1 DEF IsEvidence
  <1>4. /\ company[l].into = Nobody /\ company'[l].into = w
        /\ \A c \in Ids \ {l} : company'[c].into = company[c].into
    <2> HIDE DEF w, l
    <2>1. /\ company[l].into = Nobody /\ company'[l].into = w
          /\ company'[w].into = company[w].into
          /\ \A c \in Ids \ {w, l} : company'[c] = company[c]
      BY <1>1, MergeRows
    <2> QED BY <2>1
  <1> HIDE DEF ev, n
  <1>5. /\ \A e \in DOMAIN events : events'[e].part = events[e].part
        /\ events'[n].part = {m \in Mentions : home[m] # Nobody /\ Canonical(home[m]) = l}
    BY <1>1, <1>3 DEF Kept
  <1> QED BY <1>1, <1>2, <1>4, <1>5 DEF n

\* An undo in the words of the partition.
LEMMA UndoMoves ==
    ASSUME IdentityTyped, NEW e \in DOMAIN events, Unmerge(e)
    PROVE  /\ events[e].winner \in Ids /\ events[e].loser \in Ids
           /\ events[e].winner < events[e].loser
           /\ company'[events[e].loser].into = Nobody
           /\ company[events[e].loser].into = events[e].winner
           /\ \A c \in Ids \ {events[e].loser} : company'[c].into = company[c].into
           /\ home' = home /\ PartsKept
  <1> DEFINE w == events[e].winner
             l == events[e].loser
  <1>1. /\ w \in Rows /\ l \in Rows /\ w < l /\ company[l].into = w
        /\ company'[l].into = Nobody /\ company'[w].into = company[w].into
        /\ \A c \in Ids \ {w, l} : company'[c] = company[c]
    BY UndoneRows
  <1>2. home' = home
    BY DEF Unmerge
  <1>3. PartsKept
    BY UndoneEvents DEF PartsKept, Kept
  <1>4. w \in Ids /\ l \in Ids
    BY <1>1, TypedFacts
  <1> QED BY <1>1, <1>2, <1>3, <1>4

\* Where each mention ends, and the relation that this makes.
AtEnd(rows, at) == [m \in Mentions |-> IF at[m] = Nobody THEN Nobody ELSE Followed(rows, at[m])]

Joined(place) ==
    {pair \in Mentions \X Mentions :
        place[pair[1]] # Nobody /\ place[pair[1]] = place[pair[2]]}

At(place, c) == {m \in Mentions : place[m] = c}

Places == [Mentions -> {Nobody} \cup Ids]

Taken(log) == {log[e].part : e \in DOMAIN log}

LEMMA Relation ==
    ASSUME NEW rows, Descends(rows), NEW at \in Places
    PROVE  /\ AtEnd(rows, at) \in Places
           /\ Joined(AtEnd(rows, at)) = {pair \in Mentions \X Mentions :
                /\ Nobody \notin {at[pair[1]], at[pair[2]]}
                /\ Followed(rows, at[pair[1]]) = Followed(rows, at[pair[2]])}
  <1>1. \A m \in Mentions : at[m] # Nobody => Followed(rows, at[m]) \in Ids
    BY EndIsRoot DEF Places
  <1>2. Nobody \notin Ids
    BY DEF Nobody, Ids
  <1> DEFINE place == AtEnd(rows, at)
  <1>3. \A m \in Mentions : place[m] = IF at[m] = Nobody THEN Nobody ELSE Followed(rows, at[m])
    BY DEF AtEnd
  <1>4. place \in Places
    BY <1>1 DEF AtEnd, Places
  <1> HIDE DEF place
  <1>5. Joined(place) = {pair \in Mentions \X Mentions :
                /\ Nobody \notin {at[pair[1]], at[pair[2]]}
                /\ Followed(rows, at[pair[1]]) = Followed(rows, at[pair[2]])}
    BY <1>1, <1>2, <1>3 DEF Joined
  <1> QED BY <1>4, <1>5 DEF place

\* One mention goes somewhere.
LEMMA PlaceStep ==
    ASSUME NEW old \in Places, NEW new \in Places, NEW m \in Mentions, new[m] # Nobody,
           \A o \in Mentions \ {m} : new[o] = old[o]
    PROVE  /\ \A a, b \in Mentions : <<a, b>> \in Joined(new) =>
                 /\ <<b, a>> \in Joined(new)
                 /\ \A c \in Mentions : <<b, c>> \in Joined(new) => <<a, c>> \in Joined(new)
           /\ <<m, m>> \in Joined(new)
           /\ \A a, b \in Mentions \ {m} : <<a, b>> \in Joined(new) <=> <<a, b>> \in Joined(old)
  <1>1. \A a, b \in Mentions : <<a, b>> \in Joined(new) <=> new[a] # Nobody /\ new[a] = new[b]
    BY DEF Joined
  <1>2. \A a, b \in Mentions : <<a, b>> \in Joined(old) <=> old[a] # Nobody /\ old[a] = old[b]
    BY DEF Joined
  <1>3. \A a, b \in Mentions \ {m} : <<a, b>> \in Joined(new) <=> <<a, b>> \in Joined(old)
    <2> SUFFICES ASSUME NEW a \in Mentions \ {m}, NEW b \in Mentions \ {m}
                 PROVE  <<a, b>> \in Joined(new) <=> <<a, b>> \in Joined(old)
      OBVIOUS
    <2>1. a \in Mentions /\ b \in Mentions /\ new[a] = old[a] /\ new[b] = old[b]
      OBVIOUS
    <2>2. <<a, b>> \in Joined(new) <=> new[a] # Nobody /\ new[a] = new[b]
      BY <1>1, <2>1
    <2>3. <<a, b>> \in Joined(old) <=> old[a] # Nobody /\ old[a] = old[b]
      BY <1>2, <2>1
    <2> QED BY <2>1, <2>2, <2>3
  <1>4. <<m, m>> \in Joined(new)
    BY <1>1, Zenon
  <1>5. ASSUME NEW a \in Mentions, NEW b \in Mentions, <<a, b>> \in Joined(new)
        PROVE  /\ <<b, a>> \in Joined(new)
               /\ \A c \in Mentions : <<b, c>> \in Joined(new) => <<a, c>> \in Joined(new)
    BY <1>1, <1>5, Zenon
  <1> QED BY <1>3, <1>4, <1>5, Zenon

\* All that is at l goes to x.
LEMMA UniteStep ==
    ASSUME NEW old \in Places, NEW new \in Places, NEW x \in Ids, NEW l \in Ids, x # l,
           \A m \in Mentions : new[m] = IF old[m] = l THEN x ELSE old[m]
    PROVE  Joined(new) = Joined(old) \cup (At(old, x) \X At(old, l)) \cup (At(old, l) \X At(old, x))
  <1>1. Nobody \notin Ids
    BY DEF Nobody, Ids
  <1> QED BY <1>1 DEF Joined, At

\* What had come from l leaves x again.
LEMMA SeparateStep ==
    ASSUME NEW old \in Places, NEW new \in Places, NEW x \in Ids, NEW l \in Ids, x # l,
           \A m \in Mentions : old[m] = IF new[m] = l THEN x ELSE new[m]
    PROVE  /\ Joined(new) = Joined(old) \ ((At(new, l) \X At(new, x)) \cup (At(new, x) \X At(new, l)))
           /\ \A a \in At(new, l), b \in At(new, x) : <<a, b>> \in Joined(old)
           /\ At(old, x) = At(new, l) \cup At(new, x)
           /\ At(new, l) = {} => Joined(new) = Joined(old)
  <1>1. Nobody \notin Ids
    BY DEF Nobody, Ids
  <1> QED BY <1>1 DEF Joined, At

\* The company of a mention.
LEMMA GroupIs ==
    ASSUME NEW place \in Places, NEW m \in Mentions, place[m] # Nobody
    PROVE  {n \in Mentions : <<m, n>> \in Joined(place)} = At(place, place[m])
  BY DEF Joined, At

SameNow == {pair \in Mentions \X Mentions :
                /\ Nobody \notin {home[pair[1]], home[pair[2]]}
                /\ Canonical(home[pair[1]]) = Canonical(home[pair[2]])}

EndsNow == AtEnd(company, home)

LEMMA SameIs ==
    ASSUME IdentityTyped
    PROVE  EndsNow \in Places /\ SameNow = Joined(EndsNow) /\ home \in Places
  <1>1. SameNow = {pair \in Mentions \X Mentions :
                /\ Nobody \notin {home[pair[1]], home[pair[2]]}
                /\ Followed(company, home[pair[1]]) = Followed(company, home[pair[2]])}
    BY DEF SameNow, Canonical, Followed
  <1>2. home \in Places
    BY TypedFacts, SizesAreNatural DEF Places, Nobody, Ids
  <1>3. Descends(company)
    BY RowsDescend
  <1> QED BY <1>1, <1>2, <1>3, Relation DEF EndsNow

\* The same, of the state after a step.
LEMMA SameThen ==
    ASSUME IdentityTyped'
    PROVE  EndsNow' \in Places /\ SameNow' = Joined(EndsNow') /\ home' \in Places
  <1>1. SameNow' = {pair \in Mentions \X Mentions :
                /\ Nobody \notin {home'[pair[1]], home'[pair[2]]}
                /\ Followed(company', home'[pair[1]]) = Followed(company', home'[pair[2]])}
    BY DEF SameNow, Canonical, Followed
  <1>2. home' \in Places
    BY SizesAreNatural DEF IdentityTyped, Typed, Places, Nobody, Ids
  <1>3. Descends(company')
    BY SizesAreNatural DEF IdentityTyped, Typed, Pointers, Descends, Columns, Ids, Nobody
  <1> QED BY <1>1, <1>2, <1>3, Relation DEF EndsNow, AtEnd

LEMMA PartsStep ==
    ASSUME IdentityTyped, PartsInv, [Next]_vars
    PROVE  PartsInv'
  <1>1. \A m \in Mentions : home[m] # Nobody => home[m] \in Ids
    BY TypedFacts, SizesAreNatural DEF Nobody, Ids
  <1>2. ASSUME PartsKept, home' = home,
               \A c \in Ids : company'[c].into # Nobody => company[c].into # Nobody
        PROVE  PartsInv'
    BY <1>1, <1>2 DEF PartsInv, PartsKept
  <1>3. ASSUME NEW m \in Mentions, ResolveItem(m) \/ SweepItem(m) PROVE PartsInv'
    <2>1. PartsKept /\ PointersKept
      BY <1>3, ReadMoves
    <2>2. PICK c \in Ids : company[c].into = Nobody /\ home' = [home EXCEPT ![m] = c]
      BY <1>3, ReadMoves
    <2>3. \A o \in Mentions : home'[o] = IF o = m THEN c ELSE home[o]
      BY <2>2, TypedFacts
    <2> QED BY <1>1, <2>1, <2>2, <2>3 DEF PartsInv, PartsKept, PointersKept
  <1>4. ASSUME NEW q \in queue, ApproveReview(q) PROVE PartsInv'
    <2> DEFINE w == q.winner
               l == q.loser
               n == Len(events) + 1
    <2>1. /\ w \in Ids /\ l \in Ids /\ w < l
          /\ company[l].into = Nobody /\ company'[l].into = w
          /\ \A c \in Ids \ {l} : company'[c].into = company[c].into
          /\ home' = home
          /\ DOMAIN events' = DOMAIN events \cup {n}
          /\ \A e \in DOMAIN events : events'[e].part = events[e].part
          /\ events'[n].part = {m \in Mentions : home[m] # Nobody /\ Canonical(home[m]) = l}
      BY <1>4, MergeMoves
    <2> HIDE DEF w, l, n
    <2>2. Followed(company, l) = l
      BY <2>1, RowsDescend, FollowedEnds
    <2>3. Canonical(l) = l
      BY <2>2 DEF Canonical, Followed
    <2> SUFFICES ASSUME NEW m \in Mentions, home'[m] # Nobody, company'[home'[m]].into # Nobody
                 PROVE  \E e \in DOMAIN events' : m \in events'[e].part
      BY DEF PartsInv
    <2>4. CASE home[m] = l
      <3>1. m \in events'[n].part
        BY <2>1, <2>3, <2>4
      <3> QED BY <2>1, <3>1
    <2>5. CASE home[m] # l
      <3>1. company[home[m]].into # Nobody
        BY <1>1, <2>1, <2>5
      <3>2. PICK e \in DOMAIN events : m \in events[e].part
        BY <2>1, <3>1 DEF PartsInv
      <3> QED BY <2>1, <3>2
    <2> QED BY <2>4, <2>5
  <1>5. ASSUME NEW e \in DOMAIN events, Unmerge(e) PROVE PartsInv'
    <2>1. /\ company'[events[e].loser].into = Nobody
          /\ \A c \in Ids \ {events[e].loser} : company'[c].into = company[c].into
          /\ home' = home /\ PartsKept
      BY <1>5, UndoMoves
    <2> QED BY <1>2, <2>1
  <1>6. CASE \/ \E c \in Ids, number \in Numbers : VerifyCrn(c, number)
             \/ \E q \in queue : DismissReview(q)
             \/ \E c \in Ids : Decide(c)
             \/ \E c \in Ids, p \in People : StoreFounder(c, p)
             \/ \E p \in People : ForgetPerson(p)
             \/ UNCHANGED vars
    <2>1. PartsKept /\ PointersKept /\ home' = home
      BY <1>6, OthersStay
    <2> QED BY <1>2, <2>1 DEF PointersKept
  <1> QED BY <1>3, <1>4, <1>5, <1>6 DEF Next

TakenNow == {events[e].part : e \in DOMAIN events}

\* Every step is one of the partition, or none.
LEMMA StepRefines ==
    ASSUME IdentityTyped, PartsInv, [Next]_vars
    PROVE  [Partition!Next]_(Partition!partition)
  <1> DEFINE old == EndsNow
             new == EndsNow'
  <1>1. /\ old \in Places /\ SameNow = Joined(old) /\ home \in Places
        /\ \A m \in Mentions : old[m] = IF home[m] = Nobody THEN Nobody
                                        ELSE Followed(company, home[m])
    BY SameIs DEF EndsNow, AtEnd
  <1>2. /\ new \in Places /\ SameNow' = Joined(new) /\ home' \in Places
        /\ \A m \in Mentions : new[m] = IF home'[m] = Nobody THEN Nobody
                                        ELSE Followed(company', home'[m])
    BY StepTyped, SameThen DEF EndsNow, AtEnd
  <1>3. Descends(company)
    BY RowsDescend
  <1>4. \A m \in Mentions : home[m] # Nobody => home[m] \in Ids
    BY <1>1 DEF Places
  <1>5. Nobody \notin Ids
    BY DEF Nobody, Ids
  <1>d. /\ Partition!partition = <<SameNow, TakenNow>>
        /\ Partition!partition' = <<SameNow', TakenNow'>>
    BY DEF Partition!partition, SameNow, TakenNow
  <1>t. PartsKept => TakenNow' = TakenNow
    BY DEF PartsKept, TakenNow
  <1>6. ASSUME PartsKept, new = old PROVE [Partition!Next]_(Partition!partition)
    BY <1>1, <1>2, <1>6, <1>d, <1>t
  <1> HIDE DEF old, new
  <1>7. ASSUME NEW m \in Mentions, ResolveItem(m) \/ SweepItem(m)
        PROVE  [Partition!Next]_(Partition!partition)
    <2>1. PartsKept /\ PointersKept
      BY <1>7, ReadMoves
    <2>2. PICK c \in Ids : company[c].into = Nobody /\ home' = [home EXCEPT ![m] = c]
      BY <1>7, ReadMoves
    <2>3. \A d \in Ids : Followed(company', d) = Followed(company, d)
      BY <1>3, <2>1, SameEnds DEF PointersKept
    <2>4. home'[m] = c /\ \A o \in Mentions \ {m} : home'[o] = home[o]
      BY <1>1, <2>2 DEF Places
    <2>5. Followed(company, c) = c
      BY <1>3, <2>2, FollowedEnds
    <2>6. new[m] # Nobody /\ \A o \in Mentions \ {m} : new[o] = old[o]
      BY <1>1, <1>2, <1>4, <1>5, <2>3, <2>4, <2>5
    <2>7. /\ \A a, b \in Mentions : <<a, b>> \in SameNow' =>
                 /\ <<b, a>> \in SameNow'
                 /\ \A d \in Mentions : <<b, d>> \in SameNow' => <<a, d>> \in SameNow'
          /\ <<m, m>> \in SameNow'
          /\ \A a, b \in Mentions \ {m} : <<a, b>> \in SameNow' <=> <<a, b>> \in SameNow
      BY <1>1, <1>2, <2>6, PlaceStep
    <2>8. TakenNow' = TakenNow
      BY <2>1, <1>t
    <2>9. Partition!Place(m)
      BY <2>7, <2>8 DEF Partition!Place, Partition!IsEquivalence, SameNow, TakenNow
    <2> QED BY <2>9 DEF Partition!Next
  <1>8. ASSUME NEW q \in queue, ApproveReview(q) PROVE [Partition!Next]_(Partition!partition)
    <2> DEFINE w == q.winner
               l == q.loser
               n == Len(events) + 1
               x == Followed(company, w)
               into == At(old, x)
               part == At(old, l)
    <2>1. /\ w \in Ids /\ l \in Ids /\ w < l
          /\ company[l].into = Nobody /\ company'[l].into = w
          /\ \A c \in Ids \ {l} : company'[c].into = company[c].into
          /\ home' = home
          /\ DOMAIN events' = DOMAIN events \cup {n}
          /\ n \notin DOMAIN events
          /\ \A e \in DOMAIN events : events'[e].part = events[e].part
          /\ events'[n].part = {m \in Mentions : home[m] # Nobody /\ Canonical(home[m]) = l}
      BY <1>8, MergeMoves
    <2>2. events'[n].part = {m \in Mentions : home[m] # Nobody /\ Followed(company, home[m]) = l}
      BY <2>1 DEF Canonical, Followed
    <2> HIDE DEF w, l, n
    <2>3. /\ \A c \in Ids : Followed(company', c) = IF Followed(company, c) = l
                                                    THEN x
                                                    ELSE Followed(company, c)
          /\ x # l
      BY <1>3, <2>1, Redirected
    <2>4. x \in Ids
      BY <1>3, <2>1, EndIsRoot
    <2> HIDE DEF x
    <2>5. \A m \in Mentions : new[m] = IF old[m] = l THEN x ELSE old[m]
      BY <1>1, <1>2, <1>4, <1>5, <2>1, <2>3
    <2>6. SameNow' = SameNow \cup (into \X part) \cup (part \X into)
      BY <1>1, <1>2, <2>1, <2>3, <2>4, <2>5, UniteStep
    <2>7. events'[n].part = part
      BY <1>1, <1>5, <2>1, <2>2 DEF At
    <2>8. TakenNow' = TakenNow \cup {part}
      <3> HIDE DEF part
      <3> QED BY <2>1, <2>7 DEF TakenNow
    <2>9. ASSUME NEW c \in Ids PROVE At(old, c) \in Partition!Groups \cup {{}}
      <3> SUFFICES ASSUME At(old, c) # {} PROVE At(old, c) \in Partition!Groups
        OBVIOUS
      <3>1. PICK m \in Mentions : old[m] = c
        BY DEF At
      <3>2. {o \in Mentions : <<m, o>> \in SameNow} = At(old, c)
        BY <1>1, <1>5, <3>1, GroupIs
      <3>3. <<m, m>> \in SameNow
        BY <1>1, <1>5, <3>1 DEF Joined
      <3>4. m \in Partition!Placed /\ Partition!Group(m) = At(old, c)
        BY <3>2, <3>3 DEF Partition!Placed, Partition!Group, SameNow
      <3> QED BY <3>4 DEF Partition!Groups
    <2>10. into \in Partition!Groups \cup {{}} /\ part \in Partition!Groups \cup {{}}
      BY <2>1, <2>4, <2>9
    <2> HIDE DEF into, part
    <2>11. \E a, b \in Partition!Groups \cup {{}} :
              /\ SameNow' = SameNow \cup (a \X b) \cup (b \X a)
              /\ TakenNow' = TakenNow \cup {b}
      BY <2>6, <2>8, <2>10
    <2>12. \E a, b \in Partition!Groups \cup {{}} : Partition!Unite(a, b)
      BY <2>11 DEF Partition!Unite, SameNow, TakenNow
    <2>13. Partition!Next
      BY <2>12 DEF Partition!Next
    <2> QED BY <2>13
  <1>9. ASSUME NEW e \in DOMAIN events, Unmerge(e) PROVE [Partition!Next]_(Partition!partition)
    <2> DEFINE w == events[e].winner
               l == events[e].loser
               x == Followed(company', w)
               rest == At(new, x)
               part == At(new, l)
    <2>1. /\ w \in Ids /\ l \in Ids /\ w < l
          /\ company'[l].into = Nobody /\ company[l].into = w
          /\ \A c \in Ids \ {l} : company'[c].into = company[c].into
          /\ home' = home /\ PartsKept
      BY <1>9, UndoMoves
    <2> HIDE DEF w, l
    <2>2. Descends(company')
      BY <1>3, <2>1, SizesAreNatural DEF Descends, Ids, Nobody
    <2>3. /\ \A c \in Ids : Followed(company, c) = IF Followed(company', c) = l
                                                   THEN x
                                                   ELSE Followed(company', c)
          /\ x # l
      BY <2>1, <2>2, Redirected
    <2>4. x \in Ids
      BY <2>1, <2>2, EndIsRoot
    <2> HIDE DEF x
    <2>5. \A m \in Mentions : old[m] = IF new[m] = l THEN x ELSE new[m]
      BY <1>1, <1>2, <1>4, <1>5, <2>1, <2>3
    <2>6. /\ SameNow' = SameNow \ ((part \X rest) \cup (rest \X part))
          /\ \A a \in part, b \in rest : <<a, b>> \in SameNow
          /\ At(old, x) = part \cup rest
          /\ part = {} => SameNow' = SameNow
      BY <1>1, <1>2, <2>1, <2>3, <2>4, <2>5, SeparateStep
    <2>7. TakenNow' = TakenNow
      BY <2>1, <1>t
    <2>8. CASE part = {}
      BY <2>6, <2>7, <2>8, <1>d
    <2>9. CASE part # {}
      <3>1. PICK m \in Mentions : new[m] = l
        BY <2>9 DEF At
      <3>2. old[m] = x
        BY <2>5, <3>1
      <3>3. {o \in Mentions : <<m, o>> \in SameNow} = At(old, x)
        BY <1>1, <1>5, <2>4, <3>2, GroupIs
      <3>4. <<m, m>> \in SameNow
        BY <1>1, <1>5, <2>4, <3>2 DEF Joined
      <3>7. part \subseteq UNION TakenNow
        <4> SUFFICES ASSUME NEW a \in Mentions, new[a] = l PROVE a \in UNION TakenNow
          BY DEF At
        <4>1. home[a] # Nobody /\ home[a] \in Ids /\ Followed(company', home[a]) = l
          BY <1>2, <1>4, <1>5, <2>1
        <4>2. company[home[a]].into # Nobody
          <5>1. CASE home[a] = l
            BY <1>5, <2>1, <5>1
          <5>2. CASE home[a] # l
            <6>1. company'[home[a]].into # Nobody
              BY <2>2, <4>1, <5>2, FollowedEnds
            <6> QED BY <2>1, <4>1, <5>2, <6>1
          <5> QED BY <5>1, <5>2
        <4>3. PICK o \in DOMAIN events : a \in events[o].part
          BY <4>1, <4>2 DEF PartsInv
        <4> QED BY <4>3 DEF TakenNow
      <3> DEFINE group(o) == {a \in Mentions : <<o, a>> \in SameNow}
      <3>8. /\ m \in {o \in Mentions : <<o, o>> \in SameNow}
            /\ part \in SUBSET group(m) /\ rest = group(m) \ part
        BY <2>3, <2>6, <3>3, <3>4 DEF At
      <3> HIDE DEF part, rest
      <3>9. \E o \in {o \in Mentions : <<o, o>> \in SameNow} : \E p \in SUBSET group(o) :
               /\ \A a \in p, b \in group(o) \ p : <<a, b>> \in SameNow
               /\ p \subseteq UNION TakenNow
               /\ SameNow' = SameNow \ ((p \X (group(o) \ p)) \cup ((group(o) \ p) \X p))
               /\ TakenNow' = TakenNow
        <4> HIDE DEF group
        <4>1. \E p \in SUBSET group(m) :
               /\ \A a \in p, b \in group(m) \ p : <<a, b>> \in SameNow
               /\ p \subseteq UNION TakenNow
               /\ SameNow' = SameNow \ ((p \X (group(m) \ p)) \cup ((group(m) \ p) \X p))
               /\ TakenNow' = TakenNow
          BY <2>6, <2>7, <3>7, <3>8
        <4> QED BY <3>8, <4>1
      <3>10. Partition!Next
        BY <3>9 DEF Partition!Next, Partition!Separate, Partition!Placed, Partition!Group,
                    SameNow, TakenNow
      <3> QED BY <3>10
    <2> QED BY <2>8, <2>9
  <1>10. CASE \/ \E c \in Ids, number \in Numbers : VerifyCrn(c, number)
              \/ \E q \in queue : DismissReview(q)
              \/ \E c \in Ids : Decide(c)
              \/ \E c \in Ids, p \in People : StoreFounder(c, p)
              \/ \E p \in People : ForgetPerson(p)
              \/ UNCHANGED vars
    <2>1. PartsKept /\ PointersKept /\ home' = home
      BY <1>10, OthersStay
    <2>2. \A d \in Ids : Followed(company', d) = Followed(company, d)
      BY <1>3, <2>1, SameEnds DEF PointersKept
    <2>3. \A m \in Mentions : new[m] = old[m]
      BY <1>1, <1>2, <1>4, <2>1, <2>2
    <2>4. new = old
      BY <1>1, <1>2, <2>3 DEF Places
    <2> QED BY <1>6, <2>1, <2>4
  <1> QED BY <1>7, <1>8, <1>9, <1>10 DEF Next

LEMMA InitRefines == Init => PartsInv /\ Partition!Init
  <1> SUFFICES ASSUME Init PROVE PartsInv /\ Partition!Init
    OBVIOUS
  <1>1. events = <<>> /\ home = [m \in Mentions |-> Nobody]
    BY DEF Init
  <1>2. PartsInv
    BY <1>1 DEF PartsInv
  <1>3. SameNow = {} /\ TakenNow = {}
    BY <1>1 DEF SameNow, TakenNow
  <1> QED BY <1>2, <1>3 DEF Partition!Init, SameNow, TakenNow

\* The rows and tombstones implement the partition of the mentions: a mention
\* that is read moves alone, a merge takes every mention of the absorbed company
\* along, also those of the companies it had absorbed, and an undo separates
\* what that merge united, from nothing else.
THEOREM RefinesPartition == Spec => ImplementsPartition
  <1>1. IdentityTyped /\ PartsInv /\ [Next]_vars => (IdentityTyped /\ PartsInv)'
    BY StepTyped, PartsStep
  <1>2. IdentityTyped /\ PartsInv /\ [Next]_vars => [Partition!Next]_(Partition!partition)
    BY StepRefines
  <1> QED BY <1>1, <1>2, InitTyped, InitRefines, PTL DEF Spec, ImplementsPartition, Partition!Spec
-----------------------------------------------------------------------------
(* No two live rows are one company.                                       *)

\* That nothing fires.
NoRule == ""

LEMMA StrengthIs ==
    ASSUME NEW rule \in Rules \ {NoRule}
    PROVE  /\ Strength(rule) \in 0 .. 5
           /\ Strength(rule) >= 5 => rule = "ch_exact"
           /\ Strength(rule) >= 4 => rule \in {"ch_exact", "normkey_exact"}
           /\ rule = "ch_exact" => Strength(rule) = 5
           /\ rule = "normkey_exact" => Strength(rule) = 4
  <1>1. \/ rule = "ch_exact" /\ Strength(rule) = 5
        \/ rule = "normkey_exact" /\ Strength(rule) = 4
        \/ rule = "fuzzy" /\ Strength(rule) = 3
        \/ rule = "fuzzy_held" /\ Strength(rule) = 2
        \/ rule = "near" /\ Strength(rule) = 1
        \/ rule = "kin" /\ Strength(rule) = 0
    BY Zenon DEF Strength, Rules, NoRule
  <1> DEFINE k == Strength(rule)
  <1>2. \/ rule = "ch_exact" /\ k = 5
        \/ rule = "normkey_exact" /\ k = 4
        \/ rule \notin {"ch_exact", "normkey_exact"} /\ k \in 0 .. 3
    BY <1>1
  <1> HIDE DEF k
  <1>3. /\ k \in 0 .. 5
        /\ k >= 5 => rule = "ch_exact"
        /\ k >= 4 => rule \in {"ch_exact", "normkey_exact"}
        /\ rule = "ch_exact" => k = 5
        /\ rule = "normkey_exact" => k = 4
    BY <1>2
  <1> QED BY <1>3 DEF k

\* The best match is no weaker than any candidate, and there is one.
LEMMA BestMatch ==
    ASSUME IdentityTyped, NEW fact \in AFact, NEW d \in Candidates(fact),
           CappedRule(fact, d) # NoRule
    PROVE  /\ Matches(fact) # {}
           /\ \A c \in Matches(fact) :
                 /\ CappedRule(fact, c) \in Rules \ {NoRule}
                 /\ Strength(CappedRule(fact, c)) >= Strength(CappedRule(fact, d))
  <1> DEFINE close == {c \in Candidates(fact) : CappedRule(fact, c) # NoRule}
             s == [c \in close |-> Strength(CappedRule(fact, c))]
             Short == {5 - s[c] : c \in close}
  <1>1. \A c \in close : CappedRule(fact, c) \in Rules \ {NoRule} /\ s[c] \in 0 .. 5
    <2> SUFFICES ASSUME NEW c \in close
                 PROVE  CappedRule(fact, c) \in Rules \ {NoRule} /\ s[c] \in 0 .. 5
      OBVIOUS
    <2>1. c \in Live
      BY DEF Candidates
    <2>2. company[c].name \in Names
      BY <2>1, TypedFacts DEF IdentityTyped, Stored
    <2>3. Rule(fact, company[c]) \in Rules
      BY <2>2, RuleIs DEF AFact
    <2>4. CappedRule(fact, c) \in Rules \ {NoRule}
      BY <2>3, Zenon DEF CappedRule, Rules
    <2> QED BY <2>4, StrengthIs
  <1>f. \A c \in close : s[c] = Strength(CappedRule(fact, c))
    OBVIOUS
  <1>2. Matches(fact) = {c \in close : \A o \in close : s[c] >= s[o]}
    BY <1>f, Zenon DEF Matches, NoRule
  <1>3. d \in close
    OBVIOUS
  <1> HIDE DEF s, close
  <1>4. Short \in SUBSET Nat /\ Short # {}
    <2>1. \A c \in close : 5 - s[c] \in Nat
      BY <1>1
    <2> QED BY <1>3, <2>1
  <1>5. PICK k \in Short : \A o \in Short : k <= o
    <2> HIDE DEF Short
    <2> QED BY <1>4, Smallest
  <1>6. PICK c \in close : k = 5 - s[c]
    BY <1>5
  <1>7. \A o \in close : s[c] >= s[o]
    <2> SUFFICES ASSUME NEW o \in close PROVE s[c] >= s[o]
      OBVIOUS
    <2>1. 5 - s[o] \in Short
      OBVIOUS
    <2>2. 5 - s[c] <= 5 - s[o]
      BY <1>5, <1>6, <2>1
    <2>3. s[c] \in 0 .. 5 /\ s[o] \in 0 .. 5
      BY <1>1
    <2> QED BY <2>2, <2>3
  <1>8. Matches(fact) # {}
    BY <1>2, <1>7
  <1>9. \A o \in Matches(fact) : CappedRule(fact, o) \in Rules \ {NoRule} /\ s[o] >= s[d]
    BY <1>1, <1>2, <1>3
  <1> QED BY <1>2, <1>3, <1>8, <1>9, <1>f

\* Only a number is the rule of the number.
LEMMA NumberDecides ==
    ASSUME NEW fact \in AFact, NEW row, row.name \in Names, Rule(fact, row) = "ch_exact"
    PROVE  Agree(fact.number, row.number)
  <1>1. Likeness[fact.name][row.name] \in Degrees
    BY ConstantsAssumption DEF AFact
  <1> QED BY <1>1, Zenon DEF Rule, Degrees

\* A live row is its own end.
LEMMA LiveEnds ==
    ASSUME IdentityTyped, NEW d \in Live
    PROVE  Canonical(d) = d
  <1>1. d \in Ids /\ company[d].into = Nobody
    BY TypedFacts DEF Live
  <1>2. Followed(company, d) = d
    BY <1>1, RowsDescend, FollowedEnds
  <1> QED BY <1>2 DEF Canonical, Followed

\* A live row with the number of a mention, or with its name and nothing against
\* it, is found, and nothing but such a row is taken before it.
LEMMA Found ==
    ASSUME IdentityTyped, NEW fact \in AFact, NEW d \in Live
    PROVE  /\ Agree(fact.number, company[d].number) =>
                 /\ Matches(fact) # {}
                 /\ \A c \in Matches(fact) : CappedRule(fact, c) = "ch_exact"
           /\ ~Apart(fact, company[d]) =>
                 /\ Matches(fact) # {}
                 /\ \A c \in Matches(fact) :
                       CappedRule(fact, c) \in {"ch_exact", "normkey_exact"}
  <1>1. Canonical(d) = d /\ d \in Rows
    BY LiveEnds, TypedFacts
  <1>2. CASE Agree(fact.number, company[d].number)
    <2>1. d \in Candidates(fact)
      BY <1>1, <1>2 DEF Candidates, Agree
    <2>2. CappedRule(fact, d) = "ch_exact"
      <3> DEFINE row == company[d]
      <3>a. Agree(fact.number, row.number)
        BY <1>2
      <3> HIDE DEF row
      <3>b. Rule(fact, row) = "ch_exact"
        BY <3>a, Zenon DEF Rule
      <3>1. Rule(fact, company[d]) = "ch_exact"
        BY <3>b DEF row
      <3> QED BY <3>1 DEF CappedRule
    <2>3. Strength(CappedRule(fact, d)) = 5
      BY <2>2 DEF Strength
    <2>n. CappedRule(fact, d) # NoRule
      BY <2>2, Zenon DEF NoRule
    <2>4. /\ Matches(fact) # {}
          /\ \A c \in Matches(fact) : /\ CappedRule(fact, c) \in Rules \ {NoRule}
                                      /\ Strength(CappedRule(fact, c)) >= 5
      BY <2>1, <2>3, <2>n, BestMatch
    <2>5. \A c \in Matches(fact) : CappedRule(fact, c) = "ch_exact"
      BY <2>4, StrengthIs
    <2> QED BY <2>4, <2>5
  <1>3. CASE ~Agree(fact.number, company[d].number) /\ ~Apart(fact, company[d])
    <2>1. /\ fact.name = company[d].name /\ fact.name \notin Placeholders
          /\ ~Conflict(fact.number, company[d].number)
          /\ ~Conflict(fact.country, company[d].country)
      BY <1>3 DEF Apart
    <2>2. d \in Candidates(fact)
      BY <1>1, <2>1 DEF Candidates
    <2>3. CappedRule(fact, d) = "normkey_exact"
      <3>1. {fact.name, company[d].name} \cap Placeholders = {}
        BY <2>1
      <3>2. Rule(fact, company[d]) = "normkey_exact"
        BY <1>3, <2>1, <3>1, Zenon DEF Rule
      <3> QED BY <3>2 DEF CappedRule
    <2>4. Strength(CappedRule(fact, d)) = 4
      BY <2>3 DEF Strength
    <2>n. CappedRule(fact, d) # NoRule
      BY <2>3, Zenon DEF NoRule
    <2>5. /\ Matches(fact) # {}
          /\ \A c \in Matches(fact) : /\ CappedRule(fact, c) \in Rules \ {NoRule}
                                      /\ Strength(CappedRule(fact, c)) >= 4
      BY <2>2, <2>4, <2>n, BestMatch
    <2>6. \A c \in Matches(fact) : CappedRule(fact, c) \in {"ch_exact", "normkey_exact"}
      BY <2>5, StrengthIs
    <2> QED BY <1>3, <2>5, <2>6
  <1> QED BY <1>2, <1>3

\* What is known of a company is not taken back.
Gains(row, old) ==
    /\ row.name = old.name
    /\ old.number = Unknown \/ row.number = old.number
    /\ old.country = Unknown \/ row.country = old.country

LEMMA GainsApart ==
    ASSUME NEW r, NEW s, NEW r2, NEW s2, Gains(r2, r), Gains(s2, s), Apart(r, s)
    PROVE  Apart(r2, s2)
  BY DEF Gains, Apart, Conflict

UndoneKept ==
    /\ DOMAIN events \subseteq DOMAIN events'
    /\ \A e \in DOMAIN events :
          /\ events'[e].winner = events[e].winner /\ events'[e].loser = events[e].loser
          /\ events[e].undone => events'[e].undone

\* Rows that only learn more stay apart.
LEMMA NamesKept ==
    ASSUME NamesInv, UndoneKept, swept \subseteq swept',
           \A c \in Live' : c \notin swept' /\ Undoings(c)' = {} =>
               c \in Live /\ Gains(company'[c], company[c])
    PROVE  NamesInv'
  <1> SUFFICES ASSUME NEW c \in Live', NEW d \in Live', c # d, {c, d} \cap swept' = {},
                      Undoings(c)' \cup Undoings(d)' = {}
               PROVE  Apart(company'[c], company'[d])
    BY DEF NamesInv, Apart, Conflict
  <1>1. Undoings(c) \subseteq Undoings(c)' /\ Undoings(d) \subseteq Undoings(d)'
    BY DEF UndoneKept, Undoings
  <1>2. /\ c \in Live /\ Gains(company'[c], company[c])
        /\ d \in Live /\ Gains(company'[d], company[d])
    OBVIOUS
  <1>3. Apart(company[c], company[d])
    BY <1>1, <1>2 DEF NamesInv
  <1> QED BY <1>2, <1>3, GainsApart

\* Undoings are recorded for good.
LEMMA EventsGrow ==
    ASSUME IdentityTyped, [Next]_vars
    PROVE  UndoneKept
  <1>1. CASE events' = events \/ \E ids : events' = Touch(events, ids)
    <2>1. CASE events' = events
      BY <2>1 DEF UndoneKept
    <2>2. ASSUME NEW ids, events' = Touch(events, ids) PROVE UndoneKept
      BY <2>2, TouchedLog DEF UndoneKept, Kept
    <2> QED BY <1>1, <2>1, <2>2
  <1>2. ASSUME NEW q \in queue, ApproveReview(q) PROVE UndoneKept
    <2>1. /\ DOMAIN events \subseteq DOMAIN events'
          /\ \A e \in DOMAIN events : /\ Kept(events'[e], events[e])
                                      /\ events'[e].undone <=> events[e].undone
      BY <1>2, MergedLog
    <2> QED BY <2>1 DEF UndoneKept, Kept
  <1>3. ASSUME NEW e \in DOMAIN events, Unmerge(e) PROVE UndoneKept
    BY <1>3, UndoneEvents DEF UndoneKept, Kept
  <1>4. ASSUME NEW p \in People, ForgetPerson(p) PROVE UndoneKept
    BY <1>4, ForgetEvents DEF UndoneKept, Kept
  <1>5. CASE UNCHANGED vars
    BY <1>1, <1>5 DEF vars, stored
  <1> QED BY <1>1, <1>2, <1>3, <1>4, <1>5, PlainLog DEF Next

\* What a read does to the rows: one learns what a mention states, or one more
\* is stored.
Learns(c, fact) ==
    /\ c \in Live /\ made' = made /\ company' \in [Ids -> Columns]
    /\ \A d \in Ids : d # c => company'[d] = company[d]
    /\ company'[c].into = Nobody /\ company'[c].name = company[c].name
    /\ company'[c].number = Filled(company[c].number, fact.number)
    /\ company'[c].country = Filled(company[c].country, fact.country)

Stores(fact) ==
    /\ made' = made + 1 /\ made + 1 \in Ids /\ made + 1 \notin Live
    /\ \A d \in Ids : d # made + 1 => company'[d] = company[d]
    /\ company'[made + 1].into = Nobody /\ company'[made + 1].name = fact.name
    /\ company'[made + 1].number = fact.number /\ company'[made + 1].country = fact.country

LEMMA AttachLearns ==
    ASSUME IdentityTyped, NEW c \in Live, NEW fact \in AFact, NEW fuzzy \in BOOLEAN,
           Attach(c, fact, fuzzy)
    PROVE  Learns(c, fact)
  <1>1. c \in Ids /\ company \in [Ids -> Columns] /\ company[c] \in Columns
        /\ company[c].into = Nobody
    BY TypedFacts DEF Live
  <1> DEFINE number == Filled(company[c].number, fact.number)
             country == Filled(company[c].country, fact.country)
             row == [name |-> company[c].name, number |-> number, country |-> country,
                     into |-> company[c].into]
  <1>2. company' \in [Ids -> Columns] /\ made' = made
    BY AttachTyped
  <1>3. company' = [company EXCEPT ![c] = [company[c] EXCEPT !.number = number,
                                                             !.country = country]]
    BY <1>1 DEF Attach, Columns
  <1>4. [company[c] EXCEPT !.number = number, !.country = country] = row
    <2> HIDE DEF number, country
    <2> QED BY <1>1, RowFilled
  <1>5. company' = [company EXCEPT ![c] = row]
    BY <1>3, <1>4
  <1>6. /\ row.into = Nobody /\ row.name = company[c].name
        /\ row.number = number /\ row.country = country
    BY <1>1
  <1> HIDE DEF row
  <1>7. company'[c] = row /\ \A d \in Ids : d # c => company'[d] = company[d]
    BY <1>1, <1>5
  <1> QED BY <1>2, <1>6, <1>7 DEF Learns

LEMMA CreateStores ==
    ASSUME IdentityTyped, NEW fact \in AFact, NEW kind \in {"norm_key", "alias"},
           Create(fact, kind)
    PROVE  Stores(fact)
  <1> DEFINE row == [name |-> fact.name, number |-> fact.number, country |-> fact.country,
                     into |-> Nobody]
  <1>1. made' = made + 1 /\ company' = [company EXCEPT ![made + 1] = row]
    BY CreateTyped
  <1>2. made + 1 \in Ids /\ made + 1 \notin Live /\ company \in [Ids -> Columns]
    BY TypedFacts, SizesAreNatural DEF Create, Ids, Live, Rows
  <1>3. /\ row.into = Nobody /\ row.name = fact.name
        /\ row.number = fact.number /\ row.country = fact.country
    OBVIOUS
  <1> HIDE DEF row
  <1> QED BY <1>1, <1>2, <1>3 DEF Stores

\* What the backfill knows of a company replaces its name and country.
LEMMA SweepWrites ==
    ASSUME IdentityTyped, NEW m \in Mentions, SweepItem(m)
    PROVE  \/ \E fact \in AFact :
                 /\ Stores(fact) /\ swept' = swept \cup {made + 1}
                 /\ \A d \in Live : company[d].number # fact.number
           \/ \E c \in Live :
                 /\ made' = made /\ swept' = swept \cup {c}
                 /\ \A d \in Ids : d # c => company'[d] = company[d]
                 /\ company'[c].into = Nobody /\ company'[c].number = company[c].number
  <1> DEFINE fact == [Says[m] EXCEPT !.country = Home]
             kind == IF fact.name \in Placeholders THEN "alias" ELSE "norm_key"
  <1>1. fact \in AFact /\ kind \in {"norm_key", "alias"}
    BY SaysFact DEF SweepItem
  <1>2. CASE /\ {c \in Live : company[c].number = fact.number} = {}
             /\ Create(fact, kind) /\ swept' = swept \cup {made + 1}
    <2> HIDE DEF fact, kind
    <2>1. Stores(fact)
      BY <1>1, <1>2, CreateStores
    <2>2. \A d \in Live : company[d].number # fact.number
      BY <1>2
    <2> QED BY <1>1, <1>2, <2>1, <2>2
  <1>3. CASE \E c \in Live :
               /\ company' = [company EXCEPT ![c].name = fact.name, ![c].country = Home]
               /\ swept' = swept \cup {c} /\ made' = made
    <2>1. PICK c \in Live :
               /\ company' = [company EXCEPT ![c].name = fact.name, ![c].country = Home]
               /\ swept' = swept \cup {c} /\ made' = made
      BY <1>3
    <2> DEFINE row == [name |-> fact.name, number |-> company[c].number,
                       country |-> Home, into |-> company[c].into]
    <2>2. c \in Ids /\ company \in [Ids -> Columns] /\ company[c].into = Nobody
      BY TypedFacts DEF Live
    <2>3. company' = [company EXCEPT ![c] = row]
      <3>1. [company EXCEPT ![c].name = fact.name, ![c].country = Home]
                = [company EXCEPT ![c] = row]
        BY <2>2, Renamed
      <3> QED BY <2>1, <3>1
    <2>4. row.into = Nobody /\ row.number = company[c].number
      BY <2>2
    <2> HIDE DEF row
    <2>5. company'[c] = row /\ \A d \in Ids : d # c => company'[d] = company[d]
      BY <2>2, <2>3
    <2> QED BY <2>1, <2>4, <2>5
  <1> QED BY <1>2, <1>3 DEF SweepItem

\* A mention that is read completes the row it matches best, or is stored when
\* no live row has its number, nor its name with nothing against it.
LEMMA ResolveWrites ==
    ASSUME IdentityTyped, NEW m \in Mentions, ResolveItem(m)
    PROVE  \E fact \in AFact :
              \/ \E c \in Live :
                    /\ Learns(c, fact)
                    /\ \A d \in Live : Agree(fact.number, company[d].number) =>
                           company[c].number = company[d].number
              \/ /\ Stores(fact)
                 /\ \A d \in Live : /\ ~Agree(fact.number, company[d].number)
                                    /\ Apart(fact, company[d])
  <1> DEFINE fact == Says[m]
  <1>1. fact \in AFact
    BY SaysFact DEF ResolveItem
  <1>2. CASE \E c \in Matches(fact) : Attach(c, fact, CappedRule(fact, c) = "fuzzy")
    <2>1. PICK c \in Matches(fact) : Attach(c, fact, CappedRule(fact, c) = "fuzzy")
      BY <1>2
    <2> HIDE DEF fact
    <2>2. c \in Live
      BY MatchesAreLive
    <2>3. Learns(c, fact)
      BY <1>1, <2>1, <2>2, AttachLearns
    <2>4. ASSUME NEW d \in Live, Agree(fact.number, company[d].number)
          PROVE  company[c].number = company[d].number
      <3>1. CappedRule(fact, c) = "ch_exact"
        BY <1>1, <2>4, Found
      <3>2. Rule(fact, company[c]) = "ch_exact"
        BY <3>1, Zenon DEF CappedRule
      <3>3. Agree(fact.number, company[c].number)
        <4>1. company[c].name \in Names
          BY <2>2, TypedFacts DEF IdentityTyped, Stored
        <4> QED BY <1>1, <3>2, <4>1, NumberDecides
      <3> QED BY <2>4, <3>3 DEF Agree
    <2> QED BY <1>1, <2>2, <2>3, <2>4
  <1>3. CASE /\ Create(fact, "norm_key")
             /\ \/ Matches(fact) = {}
                \/ \E c \in Matches(fact) : ~Merges(CappedRule(fact, c))
    <2> HIDE DEF fact
    <2>1. Stores(fact)
      BY <1>1, <1>3, CreateStores
    <2>2. \A d \in Live : /\ ~Agree(fact.number, company[d].number)
                          /\ Apart(fact, company[d])
      BY <1>1, <1>3, Found DEF Merges
    <2> QED BY <1>1, <2>1, <2>2
  <1> QED BY <1>2, <1>3 DEF ResolveItem, UpsertRecord

LEMMA NumbersStep ==
    ASSUME IdentityTyped, NumbersInv, [Next]_vars
    PROVE  NumbersInv'
  <1>0. /\ Live' = {c \in Rows' : company'[c].into = Nobody} /\ Rows' = 1 .. made'
        /\ Live = {c \in Rows : company[c].into = Nobody} /\ Rows = 1 .. made
        /\ made \in Nat
    BY TypedFacts DEF Live, Rows
  <1>1. NumbersInv' <=> \A c, d \in Live' : c # d => ~Agree(company'[c].number, company'[d].number)
    BY DEF NumbersInv, Agree
  <1>2. ASSUME NEW fact \in AFact, Stores(fact),
               \A d \in Live : ~Agree(fact.number, company[d].number)
        PROVE  NumbersInv'
    <2>1. \A c \in Live' : c = made + 1 \/ (c \in Live /\ c # made + 1 /\ company'[c] = company[c])
      BY <1>0, <1>2, TypedFacts DEF Stores
    <2>2. company'[made + 1].number = fact.number
      BY <1>2 DEF Stores
    <2> QED BY <1>1, <1>2, <2>1, <2>2 DEF NumbersInv, Agree
  <1>3. ASSUME NEW fact \in AFact, NEW c \in Live, Learns(c, fact),
               \A d \in Live : Agree(fact.number, company[d].number) =>
                                  company[c].number = company[d].number
        PROVE  NumbersInv'
    <2>1. \A d \in Live' : d \in Live /\ (d # c => company'[d] = company[d])
      BY <1>0, <1>3, TypedFacts DEF Learns
    <2>2. company'[c].number = Filled(company[c].number, fact.number)
      BY <1>3 DEF Learns
    <2> QED BY <1>1, <1>3, <2>1, <2>2 DEF NumbersInv, Agree, Filled
  <1>4. ASSUME NEW m \in Mentions, ResolveItem(m) PROVE NumbersInv'
    BY <1>2, <1>3, <1>4, ResolveWrites
  <1>5. ASSUME NEW m \in Mentions, SweepItem(m) PROVE NumbersInv'
    <2>1. CASE \E fact \in AFact : Stores(fact) /\ \A d \in Live : company[d].number # fact.number
      BY <1>2, <2>1 DEF Agree
    <2>2. CASE \E c \in Live :
                 /\ made' = made
                 /\ \A d \in Ids : d # c => company'[d] = company[d]
                 /\ company'[c].into = Nobody /\ company'[c].number = company[c].number
      <3>1. PICK c \in Live :
                 /\ made' = made
                 /\ \A d \in Ids : d # c => company'[d] = company[d]
                 /\ company'[c].into = Nobody /\ company'[c].number = company[c].number
        BY <2>2
      <3>2. \A d \in Live' : d \in Live /\ company'[d].number = company[d].number
        BY <1>0, <3>1, TypedFacts
      <3> QED BY <1>1, <3>2 DEF NumbersInv, Agree
    <2> QED BY <1>5, <2>1, <2>2, SweepWrites
  <1>6. ASSUME NEW c \in Ids, NEW number \in Numbers, VerifyCrn(c, number) PROVE NumbersInv'
    <2>1. /\ \A d \in Ids : d # c => company'[d].number = company[d].number
          /\ company'[c].number = number
          /\ \A d \in Ids : company'[d].into = company[d].into
          /\ \A d \in Live : company[d].number # number
          /\ made' = made
      BY <1>6, TypedFacts DEF VerifyCrn, Columns
    <2>2. \A d \in Live' : d \in Live
      BY <1>0, <2>1, TypedFacts
    <2> QED BY <1>1, <2>1, <2>2, TypedFacts DEF NumbersInv, Agree
  <1>7. ASSUME NEW q \in queue, ApproveReview(q) PROVE NumbersInv'
    <2> DEFINE w == q.winner
               l == q.loser
    <2>1. /\ w \in Rows /\ l \in Rows /\ w < l /\ w \in Ids /\ l \in Ids /\ q.rule \in Rules
          /\ MergeCompanies(w, l, q.rule)
      BY <1>7, MergedLog
    <2> HIDE DEF w, l
    <2>2. /\ company[l].into = Nobody /\ company'[l].into = w
          /\ company'[w].into = company[w].into
          /\ company'[w].number = Filled(company[w].number, company[l].number)
          /\ \A c \in Ids \ {w, l} : company'[c] = company[c]
      BY <2>1, MergeRows
    <2>3. made' = made /\ l \in Live
      BY <2>1 DEF MergeCompanies
    <2>4. w # Nobody
      BY <2>1 DEF Ids, Nobody
    <2>5. \A c \in Live' : /\ c \in Live /\ c # l
                           /\ c # w => company'[c].number = company[c].number
      BY <1>0, <2>2, <2>3, <2>4, TypedFacts
    <2> QED BY <1>1, <2>1, <2>2, <2>3, <2>5 DEF NumbersInv, Agree, Filled
  <1>8. ASSUME NEW e \in DOMAIN events, Unmerge(e) PROVE NumbersInv'
    <2>1. \A c, d \in {x \in Rows : company'[x].into = Nobody} :
              c # d => ~Agree(company'[c].number, company'[d].number)
      BY <1>8 DEF Unmerge
    <2>2. made' = made
      BY <1>8 DEF Unmerge
    <2> QED BY <1>0, <1>1, <2>1, <2>2
  <1>9. CASE company' = company /\ made' = made
    BY <1>0, <1>1, <1>9 DEF NumbersInv
  <1>10. CASE \/ \E q \in queue : DismissReview(q)
              \/ \E c \in Ids : Decide(c)
              \/ \E c \in Ids, p \in People : StoreFounder(c, p)
              \/ \E p \in People : ForgetPerson(p)
              \/ UNCHANGED vars
    BY <1>9, <1>10 DEF DismissReview, Decide, StoreFounder, ForgetPerson, vars, stored
  <1> QED BY <1>4, <1>5, <1>6, <1>7, <1>8, <1>10 DEF Next

LEMMA NamesStep ==
    ASSUME IdentityTyped, NamesInv, [Next]_vars
    PROVE  NamesInv'
  <1>0. /\ Live' = {c \in Rows' : company'[c].into = Nobody} /\ Rows' = 1 .. made'
        /\ Live = {c \in Rows : company[c].into = Nobody} /\ Rows = 1 .. made
        /\ made \in Nat
    BY TypedFacts DEF Live, Rows
  <1>1. UndoneKept
    BY EventsGrow
  <1>2. \A r : Gains(r, r)
    BY DEF Gains
  <1>3. ASSUME NEW m \in Mentions, ResolveItem(m) PROVE NamesInv'
    <2>1. swept' = swept
      BY <1>3 DEF ResolveItem
    <2>2. PICK fact \in AFact :
              \/ \E c \in Live : Learns(c, fact)
              \/ /\ Stores(fact)
                 /\ \A d \in Live : Apart(fact, company[d])
      BY <1>3, ResolveWrites
    <2>3. ASSUME NEW c \in Live, Learns(c, fact) PROVE NamesInv'
      <3>1. \A d \in Live' : d \in Live /\ (d # c => company'[d] = company[d])
        BY <1>0, <2>3, TypedFacts DEF Learns
      <3>2. Gains(company'[c], company[c])
        BY <2>3 DEF Learns, Gains, Filled
      <3>3. \A d \in Live' : d \in Live /\ Gains(company'[d], company[d])
        BY <1>2, <3>1, <3>2
      <3> QED BY <1>1, <2>1, <3>3, NamesKept
    <2>4. ASSUME Stores(fact), \A d \in Live : Apart(fact, company[d]) PROVE NamesInv'
      <3> DEFINE n == made + 1
      <3>1. \A d \in Live' : d = n \/ (d \in Live /\ d # n /\ company'[d] = company[d])
        BY <1>0, <2>4, TypedFacts DEF Stores
      <3>2. /\ company'[n].name = fact.name /\ company'[n].number = fact.number
            /\ company'[n].country = fact.country
        BY <2>4 DEF Stores
      <3> HIDE DEF n
      <3>3. \A d \in Live : Apart(company'[n], company[d]) /\ Apart(company[d], company'[n])
        BY <2>4, <3>2 DEF Apart, Conflict
      <3> SUFFICES ASSUME NEW c \in Live', NEW d \in Live', c # d, {c, d} \cap swept' = {},
                          Undoings(c)' \cup Undoings(d)' = {}
                   PROVE  Apart(company'[c], company'[d])
        BY DEF NamesInv, Apart, Conflict
      <3>4. CASE c = n \/ d = n
        BY <3>1, <3>3, <3>4
      <3>5. CASE c # n /\ d # n
        <4>1. c \in Live /\ d \in Live /\ company'[c] = company[c] /\ company'[d] = company[d]
          BY <3>1, <3>5
        <4>2. Undoings(c) \subseteq Undoings(c)' /\ Undoings(d) \subseteq Undoings(d)'
          BY <1>1 DEF UndoneKept, Undoings
        <4> QED BY <2>1, <4>1, <4>2 DEF NamesInv
      <3> QED BY <3>4, <3>5
    <2> QED BY <2>2, <2>3, <2>4
  <1>4. ASSUME NEW m \in Mentions, SweepItem(m) PROVE NamesInv'
    <2>1. CASE \E fact \in AFact : Stores(fact) /\ swept' = swept \cup {made + 1}
      <3>1. PICK fact \in AFact : Stores(fact) /\ swept' = swept \cup {made + 1}
        BY <2>1
      <3>2. \A d \in Live' : d = made + 1 \/ (d \in Live /\ company'[d] = company[d])
        BY <1>0, <3>1, TypedFacts DEF Stores
      <3>3. \A d \in Live' : d \notin swept' => d \in Live /\ Gains(company'[d], company[d])
        BY <1>2, <3>1, <3>2
      <3> QED BY <1>1, <3>1, <3>3, NamesKept
    <2>2. CASE \E c \in Live :
                 /\ made' = made /\ swept' = swept \cup {c}
                 /\ \A d \in Ids : d # c => company'[d] = company[d]
      <3>1. PICK c \in Live :
                 /\ made' = made /\ swept' = swept \cup {c}
                 /\ \A d \in Ids : d # c => company'[d] = company[d]
        BY <2>2
      <3>2. \A d \in Live' : d = c \/ (d \in Live /\ company'[d] = company[d])
        BY <1>0, <3>1, TypedFacts
      <3>3. \A d \in Live' : d \notin swept' => d \in Live /\ Gains(company'[d], company[d])
        BY <1>2, <3>1, <3>2
      <3> QED BY <1>1, <3>1, <3>3, NamesKept
    <2> QED BY <1>4, <2>1, <2>2, SweepWrites
  <1>5. ASSUME NEW c \in Ids, NEW number \in Numbers, VerifyCrn(c, number) PROVE NamesInv'
    <2>1. /\ \A d \in Ids : d # c => company'[d] = company[d]
          /\ company[c].number = Unknown
          /\ company'[c].name = company[c].name /\ company'[c].country = company[c].country
          /\ \A d \in Ids : company'[d].into = company[d].into
          /\ made' = made /\ swept' = swept
      BY <1>5, TypedFacts DEF VerifyCrn, Columns
    <2>2. \A d \in Live' : d \in Live /\ d \in Ids
      BY <1>0, <2>1, TypedFacts
    <2>3. Gains(company'[c], company[c])
      BY <2>1 DEF Gains
    <2>4. \A d \in Live' : d \in Live /\ Gains(company'[d], company[d])
      BY <1>2, <2>1, <2>2, <2>3
    <2> QED BY <1>1, <2>1, <2>4, NamesKept
  <1>6. ASSUME NEW q \in queue, ApproveReview(q) PROVE NamesInv'
    <2> DEFINE w == q.winner
               l == q.loser
    <2>1. /\ w \in Rows /\ l \in Rows /\ w < l /\ w \in Ids /\ l \in Ids /\ q.rule \in Rules
          /\ MergeCompanies(w, l, q.rule)
      BY <1>6, MergedLog
    <2> HIDE DEF w, l
    <2>2. /\ company'[l].into = w
          /\ company'[w].name = company[w].name /\ company'[w].into = company[w].into
          /\ company'[w].number = Filled(company[w].number, company[l].number)
          /\ company'[w].country = Filled(company[w].country, company[l].country)
          /\ \A c \in Ids \ {w, l} : company'[c] = company[c]
      BY <2>1, MergeRows
    <2>3. made' = made /\ swept' = swept
      BY <2>1 DEF MergeCompanies
    <2>4. w # Nobody
      BY <2>1 DEF Ids, Nobody
    <2>5. \A c \in Live' : c \in Live /\ (c # w => company'[c] = company[c])
      BY <1>0, <2>2, <2>3, <2>4, TypedFacts
    <2>6. Gains(company'[w], company[w])
      BY <2>2 DEF Gains, Filled
    <2>7. \A c \in Live' : c \in Live /\ Gains(company'[c], company[c])
      BY <1>2, <2>5, <2>6
    <2> QED BY <1>1, <2>3, <2>7, NamesKept
  <1>7. ASSUME NEW e \in DOMAIN events, Unmerge(e) PROVE NamesInv'
    <2>0. \E w, l : w = events[e].winner /\ l = events[e].loser
      OBVIOUS
    <2> PICK w, l : w = events[e].winner /\ l = events[e].loser
      BY <2>0
    <2>1. /\ w \in Rows /\ l \in Rows
          /\ \A c \in Ids \ {w, l} : company'[c] = company[c]
      BY <1>7, UndoneRows
    <2>2. /\ DOMAIN events' = DOMAIN events
          /\ events'[e].winner = w /\ events'[e].loser = l /\ events'[e].undone
      BY <1>7, UndoneEvents DEF Kept
    <2>3. e \in Undoings(w)' /\ e \in Undoings(l)'
      BY <2>2 DEF Undoings
    <2>4. made' = made /\ swept' = swept
      BY <1>7 DEF Unmerge
    <2>5. \A c \in Live' : c \in {w, l} \/ (c \in Live /\ company'[c] = company[c])
      BY <1>0, <2>1, <2>4, TypedFacts
    <2>6. \A c \in Live' : Undoings(c)' = {} => c \in Live /\ Gains(company'[c], company[c])
      <3> SUFFICES ASSUME NEW c \in Live', Undoings(c)' = {}
                   PROVE  c \in Live /\ Gains(company'[c], company[c])
        OBVIOUS
      <3>1. c # w /\ c # l
        BY <2>3
      <3> QED BY <1>2, <2>5, <3>1
    <2> QED BY <1>1, <2>4, <2>6, NamesKept
  <1>8. CASE company' = company /\ made' = made /\ swept' = swept
    <2>1. \A c \in Live' : c \in Live /\ Gains(company'[c], company[c])
      BY <1>0, <1>2, <1>8
    <2> QED BY <1>1, <1>8, <2>1, NamesKept
  <1>9. CASE \/ \E q \in queue : DismissReview(q)
             \/ \E c \in Ids : Decide(c)
             \/ \E c \in Ids, p \in People : StoreFounder(c, p)
             \/ \E p \in People : ForgetPerson(p)
             \/ UNCHANGED vars
    BY <1>8, <1>9 DEF DismissReview, Decide, StoreFounder, ForgetPerson, vars, stored
  <1> QED BY <1>3, <1>4, <1>5, <1>6, <1>7, <1>9 DEF Next

\* No two live rows are one company by the ladder's number or name, whatever is
\* read, swept, verified, merged and undone, in any order; but for rows of the
\* backfill, which looks at numbers alone, and rows an undo put back.
THEOREM LiveRowsDiffer == Spec => []OneRowPerCompany
  <1>1. Init => NumbersInv /\ NamesInv
    BY DEF Init, NumbersInv, NamesInv, Live, Rows
  <1>2. IdentityTyped /\ NumbersInv /\ NamesInv /\ [Next]_vars
            => (IdentityTyped /\ NumbersInv /\ NamesInv)'
    BY StepTyped, NumbersStep, NamesStep
  <1>3. IdentityTyped /\ NumbersInv /\ NamesInv => OneRowPerCompany
    <2> SUFFICES ASSUME IdentityTyped, NumbersInv, NamesInv,
                        NEW c \in Live, NEW d \in Live, c # d, {c, d} \cap swept = {},
                        Undoings(c) \cup Undoings(d) = {}
                 PROVE  Rule(company[c], company[d]) \notin {"ch_exact", "normkey_exact"}
      BY DEF OneRowPerCompany
    <2>1. ~Agree(company[c].number, company[d].number)
      BY DEF NumbersInv
    <2>2. Apart(company[c], company[d])
      BY DEF NamesInv
    <2>3. company[c].name \in Names /\ company[d].name \in Names
      BY TypedFacts DEF IdentityTyped, Stored
    <2>4. Likeness[company[c].name][company[d].name] \in Degrees
      BY <2>3, ConstantsAssumption
    <2> DEFINE r == company[c]
               s == company[d]
    <2>5. \/ Conflict(r.number, s.number) \/ {r.name, s.name} \cap Placeholders # {}
          \/ r.name # s.name
          \/ Conflict(r.country, s.country)
      BY <2>2 DEF Apart
    <2>6. ~Agree(r.number, s.number) /\ Likeness[r.name][s.name] \in Degrees
      BY <2>1, <2>4
    <2> HIDE DEF r, s
    <2>7. Rule(r, s) \notin {"ch_exact", "normkey_exact"}
      BY <2>5, <2>6, Zenon DEF Rule, Degrees
    <2> QED BY <2>7 DEF r, s
  <1> QED BY <1>1, <1>2, <1>3, InitTyped, PTL DEF Spec
-----------------------------------------------------------------------------
(* An undo is exact.                                                       *)

\* What moving does to keys and to founders.
LEMMA KeyMoved ==
    ASSUME NEW k \in AKey, NEW c \in Ids
    PROVE  /\ [k EXCEPT !.id = c] \in AKey
           /\ [k EXCEPT !.id = c].id = c
           /\ [k EXCEPT !.id = c].kind = k.kind /\ [k EXCEPT !.id = c].value = k.value
           /\ [k EXCEPT !.id = c].source = k.source
  BY DEF AKey

LEMMA SameKeys ==
    ASSUME NEW k \in AKey, NEW j \in AKey, k.kind = j.kind, k.value = j.value, k.id = j.id,
           k.source = j.source
    PROVE  k = j
  BY DEF AKey

LEMMA MovedIs ==
    ASSUME NEW ks \in SUBSET AKey, NEW c \in Ids
    PROVE  /\ \A k \in MovedTo(ks, c) :
                 /\ k \in AKey /\ k.id = c
                 /\ \E j \in ks : SameKey(k, j) /\ k.source = j.source
           /\ \A j \in ks : \E k \in MovedTo(ks, c) : SameKey(k, j) /\ k.source = j.source
  <1> DEFINE to(k) == [k EXCEPT !.id = c]
  <1>1. \A k \in ks : /\ to(k) \in AKey /\ to(k).id = c /\ SameKey(to(k), k)
                      /\ to(k).source = k.source
    BY KeyMoved DEF SameKey
  <1>2. MovedTo(ks, c) = {to(k) : k \in ks}
    BY DEF MovedTo
  <1> HIDE DEF to
  <1> QED BY <1>1, <1>2

\* There and back again.
LEMMA MovedBack ==
    ASSUME NEW ks \in SUBSET AKey, NEW w \in Ids, NEW l \in Ids, \A k \in ks : k.id = l
    PROVE  MovedTo(MovedTo(ks, w), l) = ks
  <1> DEFINE there == MovedTo(ks, w)
             again == MovedTo(there, l)
  <1>1. there \in SUBSET AKey
    BY KeysMoved
  <1>2. /\ \A k \in there : \E j \in ks : SameKey(k, j) /\ k.source = j.source
        /\ \A j \in ks : \E k \in there : SameKey(k, j) /\ k.source = j.source
    BY MovedIs
  <1> HIDE DEF there
  <1>3. /\ \A k \in again : k \in AKey /\ k.id = l
                            /\ \E j \in there : SameKey(k, j) /\ k.source = j.source
        /\ \A j \in there : \E k \in again : SameKey(k, j) /\ k.source = j.source
    BY <1>1, MovedIs
  <1> HIDE DEF again
  <1>4. ASSUME NEW k \in again PROVE k \in ks
    <2>1. PICK t \in there : SameKey(k, t) /\ k.source = t.source
      BY <1>3
    <2>2. PICK j \in ks : SameKey(t, j) /\ t.source = j.source
      BY <1>2
    <2>3. k = j
      BY <1>3, <2>1, <2>2, SameKeys DEF SameKey
    <2> QED BY <2>3
  <1>5. ASSUME NEW j \in ks PROVE j \in again
    <2>1. PICK t \in there : SameKey(t, j) /\ t.source = j.source
      BY <1>2
    <2>2. PICK k \in again : SameKey(k, t) /\ k.source = t.source
      BY <1>3
    <2>3. k = j
      BY <1>3, <2>1, <2>2, SameKeys DEF SameKey
    <2> QED BY <2>3
  <1> QED BY <1>4, <1>5 DEF again, there

LEMMA PersonMoved ==
    ASSUME NEW f \in AFounder, NEW c \in Ids
    PROVE  /\ [f EXCEPT !.at = c] \in AFounder /\ [f EXCEPT !.at = c].at = c
           /\ [f EXCEPT !.at = c].row = f.row /\ [f EXCEPT !.at = c].person = f.person
  BY DEF AFounder

LEMMA SameFounders ==
    ASSUME NEW f \in AFounder, NEW g \in AFounder, f.row = g.row, f.at = g.at,
           f.person = g.person
    PROVE  f = g
  BY DEF AFounder

LEMMA PeopleIs ==
    ASSUME NEW rows \in SUBSET AFounder, NEW c \in Ids
    PROVE  /\ \A g \in PeopleTo(rows, c) :
                 /\ g \in AFounder /\ g.at = c
                 /\ \E f \in rows : g.row = f.row /\ g.person = f.person
           /\ \A f \in rows : \E g \in PeopleTo(rows, c) : g.row = f.row /\ g.person = f.person
  <1> DEFINE to(f) == [f EXCEPT !.at = c]
  <1>1. \A f \in rows : /\ to(f) \in AFounder /\ to(f).at = c
                        /\ to(f).row = f.row /\ to(f).person = f.person
    BY PersonMoved
  <1>2. PeopleTo(rows, c) = {to(f) : f \in rows}
    BY DEF PeopleTo
  <1> HIDE DEF to
  <1> QED BY <1>1, <1>2

\* The keys of an id after a merge of l into w.
LEMMA KeysMerged ==
    ASSUME NEW ks \in SUBSET AKey, NEW w \in Ids, NEW l \in Ids, w # l,
           NEW moved \in SUBSET AKey, NEW inserted, \A k \in inserted : k.id = w,
           NEW after,
           after = (ks \ {k \in ks : k.id = l}) \cup MovedTo(moved, w) \cup inserted
    PROVE  /\ {k \in after : k.id = w} = {k \in ks : k.id = w} \cup MovedTo(moved, w) \cup inserted
           /\ {k \in after : k.id = l} = {}
           /\ \A c \in Ids \ {w, l} : {k \in after : k.id = c} = {k \in ks : k.id = c}
  <1> DEFINE there == MovedTo(moved, w)
  <1>1. \A k \in there : k.id = w
    BY KeysMoved
  <1> HIDE DEF there
  <1>2. after = (ks \ {k \in ks : k.id = l}) \cup there \cup inserted
    BY DEF there
  <1>3. /\ {k \in after : k.id = w} = {k \in ks : k.id = w} \cup there \cup inserted
        /\ {k \in after : k.id = l} = {}
        /\ \A c \in Ids \ {w, l} : {k \in after : k.id = c} = {k \in ks : k.id = c}
    BY <1>1, <1>2
  <1> QED BY <1>3 DEF there

\* And after its undo: of any other, nothing changes.
LEMMA KeysUndone ==
    ASSUME NEW ks \in SUBSET AKey, NEW w \in Ids, NEW l \in Ids, w # l,
           NEW back \in SUBSET ks, \A k \in back : k.id = w,
           NEW inserted, \A k \in inserted : k.id = w,
           NEW deleted \in SUBSET AKey, \A k \in deleted : k.id = l,
           NEW after,
           after = {k \in ((ks \ inserted) \ back) \cup MovedTo(back, l) :
                       ~\E d \in deleted : k.id = d.id /\ SameKey(k, d)} \cup deleted
    PROVE  /\ {k \in after : k.id = w} = ({k \in ks : k.id = w} \ inserted) \ back
           /\ {k \in after : k.id = l} =
                  {k \in {k \in ks : k.id = l} \cup MovedTo(back, l) :
                       ~\E d \in deleted : SameKey(k, d)} \cup deleted
           /\ \A c \in Ids \ {w, l} : {k \in after : k.id = c} = {k \in ks : k.id = c}
  <1> DEFINE there == MovedTo(back, l)
  <1>1. \A k \in there : k.id = l
    BY KeysMoved
  <1>2. after = {k \in ((ks \ inserted) \ back) \cup there :
                       ~\E d \in deleted : k.id = d.id /\ SameKey(k, d)} \cup deleted
    OBVIOUS
  <1> HIDE DEF there
  <1>3. {k \in after : k.id = w} = ({k \in ks : k.id = w} \ inserted) \ back
    BY <1>1, <1>2
  <1>4. {k \in after : k.id = l} =
                  {k \in {k \in ks : k.id = l} \cup there :
                       ~\E d \in deleted : SameKey(k, d)} \cup deleted
    BY <1>1, <1>2
  <1>5. \A c \in Ids \ {w, l} : {k \in after : k.id = c} = {k \in ks : k.id = c}
    BY <1>1, <1>2
  <1> QED BY <1>3, <1>4, <1>5 DEF there

\* What an undo gives back of the keys is what there was.
KeysSent(ev, ks) == {k \in ks : \E j \in ev.moved : SameKey(k, j)} \ ev.inserted

KeysHeld(ev, ks, back) ==
    {k \in ks \cup MovedTo(back, ev.loser) : ~\E d \in ev.deleted : SameKey(k, d)}
        \cup ev.deleted

LEMMA KeysBack ==
    ASSUME NEW ev, NEW w \in Ids, NEW l \in Ids, w # l, ev.winner = w, ev.loser = l,
           NEW kw \in SUBSET AKey, NEW kl \in SUBSET AKey,
           NEW nw \in SUBSET AKey, NEW nl, MergedKeys(ev, kw, kl, nw, nl)
    PROVE  /\ (nw \ ev.inserted) \ KeysSent(ev, nw) = kw
           /\ KeysHeld(ev, nl, KeysSent(ev, nw)) = kl
  <1> DEFINE moved == ev.moved
             inserted == ev.inserted
             deleted == ev.deleted
             there == MovedTo(moved, w)
             back == KeysSent(ev, nw)
  <1>1. /\ \A k \in kw : k.id = w
        /\ \A k \in kl : k.id = l
        /\ moved = {k \in kl : ~\E j \in kw : SameKey(k, j)}
        /\ deleted = kl \ moved
        /\ \A k \in inserted : ~\E j \in kw \cup there : SameKey(j, k)
        /\ nw = kw \cup there \cup inserted
        /\ nl = {}
    BY DEF MergedKeys
  <1>2. back = {k \in nw : \E j \in moved : SameKey(k, j)} \ inserted
    BY DEF KeysSent
  <1>3. moved \in SUBSET AKey
    BY <1>1
  <1>4. MovedTo(there, l) = moved
    BY <1>1, <1>3, MovedBack
  <1>5. \A k \in there : k.id = w /\ \E j \in moved : SameKey(k, j)
    BY <1>3, MovedIs
  <1>6. \A k \in kw \cup there \cup moved : SameKey(k, k)
    BY DEF SameKey
  <1>7. \A k, j : SameKey(k, j) => SameKey(j, k)
    BY DEF SameKey
  <1>8. \A k, j, i : SameKey(k, j) /\ SameKey(j, i) => SameKey(k, i)
    BY DEF SameKey
  <1> HIDE DEF moved, inserted, deleted, there, back
  <1>9. \A k \in kw \cup there : k \notin inserted
    BY <1>1, <1>6
  <1>10. \A k \in kw : ~\E j \in moved : SameKey(k, j)
    BY <1>1, <1>7
  <1>11. back = there
    <2>1. \A k \in back : k \in there
      BY <1>1, <1>2, <1>10
    <2>2. \A k \in there : k \in back
      BY <1>1, <1>2, <1>5, <1>9
    <2> QED BY <2>1, <2>2
  <1>12. (nw \ inserted) \ back = kw
    <2>1. \A k \in kw : k \notin there
      BY <1>5, <1>10
    <2> QED BY <1>1, <1>9, <1>11, <2>1
  <1>13. \A k \in moved : ~\E d \in deleted : SameKey(k, d)
    <2> SUFFICES ASSUME NEW k \in moved, NEW d \in deleted, SameKey(k, d) PROVE FALSE
      OBVIOUS
    <2>1. PICK j \in kw : SameKey(d, j)
      BY <1>1
    <2> QED BY <1>1, <1>8, <2>1
  <1>14. {k \in nl \cup MovedTo(back, l) : ~\E d \in deleted : SameKey(k, d)} \cup deleted = kl
    BY <1>1, <1>4, <1>11, <1>13
  <1> QED BY <1>12, <1>14 DEF inserted, deleted, back, KeysHeld

\* The founders of an id after a merge of l into w.
Gone(fs, w, l, dropped) ==
    MovedFounders(fs \ dropped, RowIds({f \in fs : f.at = l} \ dropped), w)

LEMMA PeopleMerged ==
    ASSUME NEW fs \in SUBSET AFounder, Distinct(fs), NEW w \in Ids, NEW l \in Ids, w # l,
           NEW dropped \in SUBSET fs, \A f \in dropped : f.at = l
    PROVE  /\ {f \in Gone(fs, w, l, dropped) : f.at = w} =
                  {f \in fs : f.at = w} \cup PeopleTo({f \in fs : f.at = l} \ dropped, w)
           /\ {f \in Gone(fs, w, l, dropped) : f.at = l} = {}
           /\ \A c \in Ids \ {w, l} :
                 {f \in Gone(fs, w, l, dropped) : f.at = c} = {f \in fs : f.at = c}
           /\ Distinct(Gone(fs, w, l, dropped))
  <1> DEFINE left == {f \in fs : f.at = l} \ dropped
             sent == PeopleTo(left, w)
             ids == RowIds(left)
             after == MovedFounders(fs \ dropped, ids, w)
  <1>0. after = Gone(fs, w, l, dropped)
    BY DEF Gone
  <1>1. /\ after \in SUBSET AFounder
        /\ \A g \in after : \E f \in fs \ dropped :
                     /\ g.row = f.row /\ g.person = f.person
                     /\ g.at = IF f.row \in ids THEN w ELSE f.at
        /\ \A f \in fs \ dropped : \E g \in after :
                     /\ g.row = f.row /\ g.person = f.person
                     /\ g.at = IF f.row \in ids THEN w ELSE f.at
    <2>1. fs \ dropped \in SUBSET AFounder
      OBVIOUS
    <2> HIDE DEF ids
    <2> QED BY <2>1, FounderAt
  <1> HIDE DEF after
  <1>2. \A f \in fs \ dropped : f.row \in ids <=> f.at = l
    BY DEF RowIds, Distinct
  <1>3. /\ left \in SUBSET AFounder
        /\ \A f : f \in left <=> f \in fs \ dropped /\ f.at = l
    OBVIOUS
  <1> HIDE DEF left
  <1>4. /\ \A g \in sent : g \in AFounder /\ g.at = w
                           /\ \E f \in left : g.row = f.row /\ g.person = f.person
        /\ \A f \in left : \E g \in sent : g.row = f.row /\ g.person = f.person
    BY <1>3, PeopleIs
  <1> HIDE DEF left, sent, ids
  <1>5. \A g \in after : \E f \in fs \ dropped :
                     /\ g.row = f.row /\ g.person = f.person
                     /\ g.at = IF f.at = l THEN w ELSE f.at
    BY <1>1, <1>2
  <1>6. \A f \in fs \ dropped : \E g \in after :
                     /\ g.row = f.row /\ g.person = f.person
                     /\ g.at = IF f.at = l THEN w ELSE f.at
    BY <1>1, <1>2
  <1>7. \A f \in fs \ dropped : f.at # l => f \in after
    BY <1>1, <1>6, SameFounders
  <1>8. \A g \in after : g.at # w => g \in fs /\ g.at # l
    BY <1>1, <1>5, SameFounders
  <1>9. {f \in after : f.at = w} = {f \in fs : f.at = w} \cup sent
    <2>1. ASSUME NEW g \in after, g.at = w PROVE g \in {f \in fs : f.at = w} \cup sent
      <3>1. PICK f \in fs \ dropped : /\ g.row = f.row /\ g.person = f.person
                                      /\ g.at = IF f.at = l THEN w ELSE f.at
        BY <1>5
      <3>2. CASE f.at = l
        <4>1. PICK h \in sent : h.row = f.row /\ h.person = f.person
          BY <1>3, <1>4, <3>2
        <4>2. g = h
          BY <1>1, <1>4, <2>1, <3>1, <4>1, SameFounders
        <4> QED BY <4>2
      <3>3. CASE f.at # l
        <4>1. g = f
          BY <1>1, <3>1, <3>3, SameFounders
        <4> QED BY <2>1, <4>1
      <3> QED BY <3>2, <3>3
    <2>2. ASSUME NEW g \in sent PROVE g \in after /\ g.at = w
      <3>1. PICK f \in left : g.row = f.row /\ g.person = f.person
        BY <1>4
      <3>2. PICK h \in after : h.row = f.row /\ h.person = f.person /\ h.at = w
        BY <1>3, <1>6
      <3>3. g = h
        BY <1>1, <1>4, <3>1, <3>2, SameFounders
      <3> QED BY <1>4, <3>3
    <2>3. \A f \in fs : f.at = w => f \in after
      BY <1>7
    <2> QED BY <2>1, <2>2, <2>3
  <1>10. {f \in after : f.at = l} = {}
    BY <1>8
  <1>11. \A c \in Ids \ {w, l} : {f \in after : f.at = c} = {f \in fs : f.at = c}
    BY <1>7, <1>8
  <1>12. Distinct(after)
    <2> SUFFICES ASSUME NEW g \in after, NEW h \in after, g.row = h.row PROVE g = h
      BY DEF Distinct
    <2>1. PICK f \in fs \ dropped : /\ g.row = f.row /\ g.person = f.person
                                    /\ g.at = IF f.at = l THEN w ELSE f.at
      BY <1>5
    <2>2. PICK e \in fs \ dropped : /\ h.row = e.row /\ h.person = e.person
                                    /\ h.at = IF e.at = l THEN w ELSE e.at
      BY <1>5
    <2>3. f = e
      BY <2>1, <2>2 DEF Distinct
    <2> QED BY <1>1, <2>1, <2>2, <2>3, SameFounders
  <1> QED BY <1>0, <1>9, <1>10, <1>11, <1>12 DEF left, sent

\* The founders after an undo.
Back(fs, ids, l, dropped) ==
    {f \in MovedFounders(fs, ids, l) :
        /\ f.row \notin RowIds(dropped)
        /\ f.at = l => f.person \notin Persons(dropped)} \cup dropped

LEMMA PeopleUndone ==
    ASSUME NEW fs \in SUBSET AFounder, NEW l \in Ids, NEW ids,
           NEW dropped \in SUBSET AFounder, \A f \in dropped : f.at = l
    PROVE  /\ \A c \in Ids \ {l} :
                 (\A f \in fs : f.at = c => f.row \notin ids \cup RowIds(dropped)) =>
                     {f \in Back(fs, ids, l, dropped) : f.at = c} = {f \in fs : f.at = c}
           /\ Distinct(fs) /\ Distinct(dropped) => Distinct(Back(fs, ids, l, dropped))
  <1> DEFINE returned == MovedFounders(fs, ids, l)
             after == Back(fs, ids, l, dropped)
  <1>1. /\ returned \in SUBSET AFounder
        /\ \A g \in returned : \E f \in fs :
                     /\ g.row = f.row /\ g.person = f.person
                     /\ g.at = IF f.row \in ids THEN l ELSE f.at
        /\ \A f \in fs : \E g \in returned :
                     /\ g.row = f.row /\ g.person = f.person
                     /\ g.at = IF f.row \in ids THEN l ELSE f.at
    BY FounderAt
  <1> HIDE DEF returned
  <1>2. after = {f \in returned : /\ f.row \notin RowIds(dropped)
                                  /\ f.at = l => f.person \notin Persons(dropped)} \cup dropped
    BY DEF Back, returned
  <1> HIDE DEF after
  <1>3. ASSUME NEW c \in Ids \ {l},
               \A f \in fs : f.at = c => f.row \notin ids \cup RowIds(dropped)
        PROVE  {f \in after : f.at = c} = {f \in fs : f.at = c}
    <2>1. ASSUME NEW g \in after, g.at = c PROVE g \in fs
      <3>1. g \in returned
        BY <1>2, <2>1
      <3>2. PICK f \in fs : /\ g.row = f.row /\ g.person = f.person
                            /\ g.at = IF f.row \in ids THEN l ELSE f.at
        BY <1>1, <3>1
      <3>3. g = f
        BY <1>1, <2>1, <3>1, <3>2, SameFounders
      <3> QED BY <3>3
    <2>2. ASSUME NEW f \in fs, f.at = c PROVE f \in after
      <3>1. PICK g \in returned : /\ g.row = f.row /\ g.person = f.person
                                  /\ g.at = IF f.row \in ids THEN l ELSE f.at
        BY <1>1
      <3>2. f.row \notin ids \cup RowIds(dropped)
        BY <1>3, <2>2
      <3>3. g = f
        BY <1>1, <3>1, <3>2, SameFounders
      <3> QED BY <1>2, <2>2, <3>1, <3>2, <3>3
    <2> QED BY <2>1, <2>2
  <1>4. ASSUME Distinct(fs), Distinct(dropped) PROVE Distinct(after)
    <2> SUFFICES ASSUME NEW g \in after, NEW h \in after, g.row = h.row PROVE g = h
      BY DEF Distinct
    <2>1. CASE g \in dropped /\ h \in dropped
      BY <1>4, <2>1 DEF Distinct
    <2>2. CASE g \notin dropped /\ h \notin dropped
      <3>1. g \in returned /\ h \in returned
        BY <1>2, <2>2
      <3>2. PICK f \in fs : /\ g.row = f.row /\ g.person = f.person
                            /\ g.at = IF f.row \in ids THEN l ELSE f.at
        BY <1>1, <3>1
      <3>3. PICK e \in fs : /\ h.row = e.row /\ h.person = e.person
                            /\ h.at = IF e.row \in ids THEN l ELSE e.at
        BY <1>1, <3>1
      <3>4. f = e
        BY <1>4, <3>2, <3>3 DEF Distinct
      <3> QED BY <1>1, <3>1, <3>2, <3>3, <3>4, SameFounders
    <2>3. CASE g \in dropped /\ h \notin dropped
      BY <1>2, <2>3 DEF RowIds
    <2>4. CASE g \notin dropped /\ h \in dropped
      BY <1>2, <2>4 DEF RowIds
    <2> QED BY <2>1, <2>2, <2>3, <2>4
  <1> QED BY <1>3, <1>4 DEF after

\* What an undo gives back of the founders is what there was.
LEMMA PeopleBack ==
    ASSUME NEW ev, NEW w \in Ids, NEW l \in Ids, w # l, ev.winner = w, ev.loser = l,
           NEW fs \in SUBSET AFounder, Distinct(fs),
           NEW pw \in SUBSET AFounder, NEW pl \in SUBSET AFounder,
           MergedPeople(ev, pw, pl, {f \in fs : f.at = w}, {f \in fs : f.at = l})
    PROVE  /\ {f \in Back(fs, ev.people, l, ev.dropped) : f.at = w} = pw
           /\ {f \in Back(fs, ev.people, l, ev.dropped) : f.at = l} = pl
  <1> DEFINE returned == MovedFounders(fs, ev.people, l)
             after == Back(fs, ev.people, l, ev.dropped)
             left == pl \ ev.dropped
             sent == PeopleTo(left, w)
  <1>1. /\ returned \in SUBSET AFounder
        /\ \A g \in returned : \E f \in fs :
                     /\ g.row = f.row /\ g.person = f.person
                     /\ g.at = IF f.row \in ev.people THEN l ELSE f.at
        /\ \A f \in fs : \E g \in returned :
                     /\ g.row = f.row /\ g.person = f.person
                     /\ g.at = IF f.row \in ev.people THEN l ELSE f.at
    BY FounderAt
  <1>2. after = {f \in returned : /\ f.row \notin RowIds(ev.dropped)
                                  /\ f.at = l => f.person \notin Persons(ev.dropped)} \cup ev.dropped
    BY DEF Back
  <1>3. /\ left \in SUBSET AFounder /\ \A f \in left : f \in pl /\ f \notin ev.dropped
        /\ ev.dropped \subseteq pl /\ \A f \in pl : f \in left \/ f \in ev.dropped
    BY DEF MergedPeople
  <1>4. /\ \A g \in sent : g \in AFounder /\ g.at = w
                           /\ \E f \in left : g.row = f.row /\ g.person = f.person
        /\ \A f \in left : \E g \in sent : g.row = f.row /\ g.person = f.person
    BY <1>3, PeopleIs
  <1> HIDE DEF returned, after, left, sent
  <1>5. /\ \A f \in pw : f.at = w /\ f.row \notin ev.people /\ f \in fs
        /\ \A f \in pl : f.at = l
        /\ ev.people = RowIds(left)
        /\ {f \in fs : f.at = w} = pw \cup sent
        /\ {f \in fs : f.at = l} = {}
        /\ \A f \in ev.dropped : f.row \notin RowIds({g \in fs : g.at = w}) \cup ev.people
    BY DEF MergedPeople, left, sent
  <1>6. ev.dropped = {f \in pl : f.person \in Persons(pw)}
    BY DEF MergedPeople
  <1>7. \A f \in fs : f.row \in ev.people => f \in sent
    <2> SUFFICES ASSUME NEW f \in fs, f.row \in ev.people PROVE f \in sent
      OBVIOUS
    <2>1. PICK o \in left : o.row = f.row
      BY <1>5 DEF RowIds
    <2>2. PICK g \in sent : g.row = o.row
      BY <1>4
    <2>3. g \in fs
      BY <1>5, <2>2
    <2> QED BY <2>1, <2>2, <2>3 DEF Distinct
  <1>8. \A f \in sent : f \in fs /\ f.row \in ev.people
    BY <1>4, <1>5 DEF RowIds
  <1>9. \A f \in ev.dropped : f.at = l /\ f.row \notin ev.people
                              /\ \A g \in fs : g.at = w => g.row # f.row
    BY <1>3, <1>5 DEF RowIds
  <1>10. {f \in after : f.at = w} = pw
    <2>1. ASSUME NEW g \in after, g.at = w PROVE g \in pw
      <3>1. g \in returned
        BY <1>2, <1>9, <2>1
      <3>2. PICK f \in fs : /\ g.row = f.row /\ g.person = f.person
                            /\ g.at = IF f.row \in ev.people THEN l ELSE f.at
        BY <1>1, <3>1
      <3>3. f.row \notin ev.people /\ f.at = w
        BY <2>1, <3>2
      <3>4. g = f
        BY <1>1, <3>1, <3>2, <3>3, SameFounders
      <3>5. f \in pw \cup sent
        BY <1>5, <3>3
      <3> QED BY <1>8, <3>3, <3>4, <3>5
    <2>2. ASSUME NEW f \in pw PROVE f \in after /\ f.at = w
      <3>1. f \in fs /\ f.at = w /\ f.row \notin ev.people
        BY <1>5
      <3>2. PICK g \in returned : /\ g.row = f.row /\ g.person = f.person
                                  /\ g.at = IF f.row \in ev.people THEN l ELSE f.at
        BY <1>1, <3>1
      <3>3. g = f
        BY <1>1, <3>1, <3>2, SameFounders
      <3>4. f.row \notin RowIds(ev.dropped)
        BY <1>9, <3>1 DEF RowIds
      <3> QED BY <1>2, <3>1, <3>2, <3>3, <3>4
    <2> QED BY <2>1, <2>2
  <1>11. {f \in after : f.at = l} = pl
    <2>1. ASSUME NEW g \in after, g.at = l PROVE g \in pl
      <3>1. CASE g \in ev.dropped
        BY <1>3, <3>1
      <3>2. CASE g \notin ev.dropped
        <4>1. g \in returned
          BY <1>2, <3>2
        <4>2. PICK f \in fs : /\ g.row = f.row /\ g.person = f.person
                              /\ g.at = IF f.row \in ev.people THEN l ELSE f.at
          BY <1>1, <4>1
        <4>3. f.row \in ev.people
          BY <1>5, <2>1, <4>2
        <4>4. PICK o \in left : f.row = o.row /\ f.person = o.person
          BY <1>4, <1>7, <4>3
        <4>5. g = o
          BY <1>1, <1>3, <1>5, <2>1, <4>1, <4>2, <4>4, SameFounders
        <4> QED BY <1>3, <4>5
      <3> QED BY <3>1, <3>2
    <2>2. ASSUME NEW f \in pl PROVE f \in after /\ f.at = l
      <3>1. CASE f \in ev.dropped
        BY <1>2, <1>5, <3>1
      <3>2. CASE f \in left
        <4>1. PICK s \in sent : s.row = f.row /\ s.person = f.person
          BY <1>4, <3>2
        <4>2. s \in fs /\ s.row \in ev.people
          BY <1>8
        <4>3. PICK g \in returned : g.row = s.row /\ g.person = s.person /\ g.at = l
          BY <1>1, <4>2
        <4>4. g = f
          BY <1>1, <1>3, <1>5, <3>2, <4>1, <4>3, SameFounders
        <4>5. f.row \notin RowIds(ev.dropped)
          BY <1>9, <4>1, <4>2 DEF RowIds
        <4>6. f.person \notin Persons(ev.dropped)
          BY <1>3, <1>6, <3>2 DEF Persons
        <4> QED BY <1>2, <1>5, <4>3, <4>4, <4>5, <4>6
      <3> QED BY <1>3, <3>1, <3>2
    <2> QED BY <2>1, <2>2
  <1> QED BY <1>10, <1>11 DEF after

-----------------------------------------------------------------------------
(* What is recorded of a merge stays true of its companies while nothing   *)
(* writes to them.                                                         *)

\* Nothing of company c is written.
Spared(c) ==
    /\ company'[c] = company[c]
    /\ KeysAt(keys', c) = KeysAt(keys, c)
    /\ verdict'[c] = verdict[c]
    /\ PeopleAt(founders', c) = PeopleAt(founders, c)

\* An event that is still clean has not been touched.
LEMMA TouchSame ==
    ASSUME NEW log \in Seq(AnEvent), NEW ids, NEW e \in DOMAIN log, Touch(log, ids)[e].clean
    PROVE  Touch(log, ids)[e] = log[e]
  <1>1. CASE log[e].undone \/ {log[e].winner, log[e].loser} \cap ids = {}
    BY <1>1 DEF Touch
  <1>2. CASE ~(log[e].undone \/ {log[e].winner, log[e].loser} \cap ids = {})
    <2>1. Touch(log, ids)[e] = [log[e] EXCEPT !.clean = FALSE]
      BY <1>2 DEF Touch
    <2>2. log[e] \in AnEvent
      OBVIOUS
    <2>3. ~[log[e] EXCEPT !.clean = FALSE].clean
      BY <2>2 DEF AnEvent
    <2> QED BY <2>1, <2>3
  <1> QED BY <1>1, <1>2

LEMMA SparedMerge ==
    ASSUME NEW ev, Spared(ev.winner), Spared(ev.loser),
           Merged(ev, company, keys, verdict, founders)
    PROVE  Merged(ev, company', keys', verdict', founders')
  BY DEF Spared, Merged

\* What keeps CleanInv and KeptInv, but for a new event.
Spares ==
    \A e \in DOMAIN events :
        events'[e].clean /\ ~events'[e].undone =>
            /\ events'[e] = events[e]
            /\ Spared(events[e].winner) /\ Spared(events[e].loser)

LEMMA SparedStay ==
    ASSUME CleanInv, Spares, DOMAIN events' = DOMAIN events
    PROVE  CleanInv'
  <1> SUFFICES ASSUME NEW e \in DOMAIN events, events'[e].clean, ~events'[e].undone
               PROVE  Merged(events'[e], company', keys', verdict', founders')
    BY DEF CleanInv
  <1>1. /\ events'[e] = events[e]
        /\ Spared(events[e].winner) /\ Spared(events[e].loser)
    BY DEF Spares
  <1>2. Merged(events[e], company, keys, verdict, founders)
    BY <1>1 DEF CleanInv
  <1> QED BY <1>1, <1>2, SparedMerge

\* An action that touches the merges of what it writes to spares the others.
LEMMA TouchSpares ==
    ASSUME IdentityTyped, NEW ids, events' = Touch(events, ids),
           \A c \in Rows \ ids : Spared(c)
    PROVE  Spares
  <1> SUFFICES ASSUME NEW e \in DOMAIN events, events'[e].clean, ~events'[e].undone
               PROVE  /\ events'[e] = events[e]
                      /\ Spared(events[e].winner) /\ Spared(events[e].loser)
    BY DEF Spares
  <1>1. {events[e].winner, events[e].loser} \cap ids = {}
    BY TouchedLog
  <1>2. events \in Seq(AnEvent)
    BY TypedFacts DEF LogFits
  <1>3. events'[e] = events[e]
    BY <1>2, TouchSame
  <1>4. events[e].winner \in Rows /\ events[e].loser \in Rows
    <2>1. events[e] \in AnEvent /\ events[e].winner < events[e].loser /\ events[e].loser <= made
      BY <1>2, TypedFacts DEF LogFits
    <2>2. events[e].winner \in Ids /\ events[e].loser \in Ids
      BY <2>1 DEF AnEvent
    <2> QED BY <2>1, <2>2, TypedFacts
  <1> QED BY <1>1, <1>3, <1>4

LEMMA SameSpares ==
    ASSUME IdentityTyped, events' = events, \A c \in Rows : Spared(c)
    PROVE  Spares
  <1> SUFFICES ASSUME NEW e \in DOMAIN events
               PROVE  Spared(events[e].winner) /\ Spared(events[e].loser)
    BY DEF Spares
  <1>1. events[e] \in AnEvent /\ events[e].winner < events[e].loser /\ events[e].loser <= made
    BY TypedFacts DEF LogFits
  <1>2. events[e].winner \in Ids /\ events[e].loser \in Ids
    BY <1>1 DEF AnEvent
  <1>3. events[e].winner \in Rows /\ events[e].loser \in Rows
    BY <1>1, <1>2, TypedFacts
  <1> QED BY <1>3

\* New keys of one company are no keys of another.
LEMMA KeysSpared ==
    ASSUME NEW old, NEW new, NEW c, NEW d, \A k \in new : k.id = c, c # d
    PROVE  KeysAt(Added(old, new), d) = KeysAt(old, d)
  BY DEF KeysAt, Added

LEMMA AttachSpares ==
    ASSUME IdentityTyped, NEW c \in Live, NEW fact \in AFact, NEW fuzzy, Attach(c, fact, fuzzy),
           UNCHANGED <<verdict, founders>>
    PROVE  events' = Touch(events, {c}) /\ \A d \in Rows \ {c} : Spared(d)
  <1> SUFFICES ASSUME NEW d \in Rows \ {c} PROVE Spared(d)
    BY DEF Attach
  <1>1. company'[d] = company[d]
    BY TypedFacts DEF Attach
  <1>2. KeysAt(keys', d) = KeysAt(keys, d)
    <2> DEFINE kind == IF fact.name = company[c].name THEN "norm_key" ELSE "alias"
               new == {Key("ch", fact.number, c, "source"), Key(kind, fact.name, c, "source")}
               too == {Key("alias", fact.name, c, "fuzzy")}
               own == Added(keys, new)
    <2>1. keys' = IF fuzzy THEN Added(own, too) ELSE own
      BY DEF Attach
    <2>2. (\A k \in new : k.id = c) /\ (\A k \in too : k.id = c)
      BY DEF Key
    <2> HIDE DEF new, too
    <2>3. KeysAt(own, d) = KeysAt(keys, d)
      BY <2>2, KeysSpared
    <2> HIDE DEF own
    <2>4. KeysAt(Added(own, too), d) = KeysAt(own, d)
      BY <2>2, KeysSpared
    <2> QED BY <2>1, <2>3, <2>4
  <1> QED BY <1>1, <1>2 DEF Spared

LEMMA CreateSpares ==
    ASSUME IdentityTyped, NEW fact \in AFact, NEW kind \in {"norm_key", "alias"},
           Create(fact, kind), UNCHANGED <<verdict, founders>>
    PROVE  events' = events /\ \A d \in Rows : Spared(d)
  <1> SUFFICES ASSUME NEW d \in Rows PROVE Spared(d)
    BY DEF Create
  <1>1. d # made + 1 /\ d \in Ids
    BY TypedFacts
  <1>2. company'[d] = company[d]
    BY <1>1, TypedFacts DEF Create
  <1>3. KeysAt(keys', d) = KeysAt(keys, d)
    <2> DEFINE c == made + 1
               new == {Key(kind, fact.name, c, "source"), Key("ch", fact.number, c, "source")}
    <2>1. keys' = Added(keys, new)
      BY DEF Create
    <2>2. \A k \in new : k.id = c
      BY DEF Key
    <2>3. c # d
      BY <1>1
    <2> HIDE DEF new, c
    <2> QED BY <2>1, <2>2, <2>3, KeysSpared
  <1> QED BY <1>2, <1>3 DEF Spared

\* Reading, sweeping, verifying, deciding, storing and dismissing.
LEMMA PlainSpares ==
    ASSUME IdentityTyped,
           \/ \E m \in Mentions : ResolveItem(m) \/ SweepItem(m)
           \/ \E c \in Ids, number \in Numbers : VerifyCrn(c, number)
           \/ \E q \in queue : DismissReview(q)
           \/ \E c \in Ids : Decide(c)
           \/ \E c \in Ids, p \in People : StoreFounder(c, p)
           \/ UNCHANGED vars
    PROVE  Spares /\ DOMAIN events' = DOMAIN events
  <1>1. ASSUME \/ events' = events /\ \A c \in Rows : Spared(c)
               \/ \E ids : events' = Touch(events, ids) /\ \A c \in Rows \ ids : Spared(c)
        PROVE  Spares /\ DOMAIN events' = DOMAIN events
    <2>1. Spares
      BY <1>1, TouchSpares, SameSpares
    <2>2. DOMAIN events' = DOMAIN events
      BY <1>1, TouchedLog
    <2> QED BY <2>1, <2>2
  <1>2. ASSUME NEW m \in Mentions, ResolveItem(m) PROVE Spares /\ DOMAIN events' = DOMAIN events
    <2> DEFINE fact == Says[m]
    <2>1. fact \in AFact
      BY <1>2, SaysFact DEF ResolveItem
    <2>2. CASE \E c \in Matches(fact) :
                  /\ Attach(c, fact, CappedRule(fact, c) = "fuzzy")
                  /\ Resolved(m, c)
      BY <1>1, <2>1, <2>2, AttachSpares, MatchesAreLive DEF Resolved
    <2>3. CASE Create(fact, "norm_key") /\ Resolved(m, made + 1)
      BY <1>1, <2>1, <2>3, CreateSpares DEF Resolved
    <2> QED BY <1>2, <2>2, <2>3 DEF ResolveItem, UpsertRecord
  <1>3. ASSUME NEW m \in Mentions, SweepItem(m) PROVE Spares /\ DOMAIN events' = DOMAIN events
    <2> DEFINE fact == [Says[m] EXCEPT !.country = Home]
               kind == IF fact.name \in Placeholders THEN "alias" ELSE "norm_key"
    <2>1. fact \in AFact /\ kind \in {"norm_key", "alias"}
      BY <1>3, SaysFact DEF SweepItem
    <2>2. \/ Create(fact, kind) /\ Resolved(m, made + 1)
          \/ \E c \in Live :
                /\ company' = [company EXCEPT ![c].name = fact.name, ![c].country = Home]
                /\ keys' = Added(keys, {Key("ch", fact.number, c, "source"),
                                        Key(kind, fact.name, c, "source")})
                /\ events' = Touch(events, {c})
                /\ Resolved(m, c)
      BY <1>3 DEF SweepItem
    <2> HIDE DEF fact, kind
    <2>3. CASE Create(fact, kind) /\ Resolved(m, made + 1)
      BY <1>1, <2>1, <2>3, CreateSpares DEF Resolved
    <2>4. CASE \E c \in Live :
                /\ company' = [company EXCEPT ![c].name = fact.name, ![c].country = Home]
                /\ keys' = Added(keys, {Key("ch", fact.number, c, "source"),
                                        Key(kind, fact.name, c, "source")})
                /\ events' = Touch(events, {c})
                /\ Resolved(m, c)
      <3>0. PICK c \in Live :
                /\ company' = [company EXCEPT ![c].name = fact.name, ![c].country = Home]
                /\ keys' = Added(keys, {Key("ch", fact.number, c, "source"),
                                        Key(kind, fact.name, c, "source")})
                /\ events' = Touch(events, {c})
                /\ Resolved(m, c)
        BY <2>4
      <3>1. ASSUME NEW d \in Rows \ {c} PROVE Spared(d)
        <4>1. company'[d] = company[d]
          BY <3>0, <3>1, TypedFacts
        <4>2. KeysAt(keys', d) = KeysAt(keys, d)
          <5> DEFINE new == {Key("ch", fact.number, c, "source"),
                             Key(kind, fact.name, c, "source")}
          <5>1. \A k \in new : k.id = c
            BY DEF Key
          <5>2. keys' = Added(keys, new)
            BY <3>0
          <5>3. c # d
            BY <3>1
          <5> HIDE DEF new
          <5> QED BY <5>1, <5>2, <5>3, KeysSpared
        <4> QED BY <3>0, <4>1, <4>2 DEF Spared, Resolved
      <3> QED BY <1>1, <3>0, <3>1
    <2> QED BY <2>2, <2>3, <2>4
  <1>4. ASSUME NEW c \in Ids, NEW number \in Numbers, VerifyCrn(c, number)
        PROVE  Spares /\ DOMAIN events' = DOMAIN events
    <2>1. ASSUME NEW d \in Rows \ {c} PROVE Spared(d)
      <3>1. company'[d] = company[d]
        BY <1>4, <2>1, TypedFacts DEF VerifyCrn
      <3>2. KeysAt(keys', d) = KeysAt(keys, d)
        <4> DEFINE new == {Key("ch", number, c, "source")}
        <4>1. \A k \in new : k.id = c
          BY DEF Key
        <4>2. keys' = Added(keys, new)
          BY <1>4 DEF VerifyCrn
        <4> HIDE DEF new
        <4> QED BY <2>1, <4>1, <4>2, KeysSpared
      <3> QED BY <1>4, <3>1, <3>2 DEF Spared, VerifyCrn
    <2>2. events' = Touch(events, {c})
      BY <1>4 DEF VerifyCrn
    <2> QED BY <1>1, <2>1, <2>2
  <1>5. ASSUME NEW c \in Ids, Decide(c) PROVE Spares /\ DOMAIN events' = DOMAIN events
    <2>1. ASSUME NEW d \in Rows \ {c} PROVE Spared(d)
      BY <1>5, <2>1, TypedFacts DEF Decide, Spared
    <2>2. events' = Touch(events, {c})
      BY <1>5 DEF Decide
    <2> QED BY <1>1, <2>1, <2>2
  <1>6. ASSUME NEW c \in Ids, NEW p \in People, StoreFounder(c, p)
        PROVE  Spares /\ DOMAIN events' = DOMAIN events
    <2>1. founders' = founders \/ founders' = founders \cup {[row |-> NextRow, at |-> c, person |-> p]}
      BY <1>6 DEF StoreFounder
    <2>2. ASSUME NEW d \in Rows \ {c} PROVE Spared(d)
      <3>1. PeopleAt(founders', d) = PeopleAt(founders, d)
        BY <2>1, <2>2 DEF PeopleAt
      <3> QED BY <1>6, <3>1 DEF Spared, StoreFounder
    <2>3. events' = Touch(events, {c})
      BY <1>6 DEF StoreFounder
    <2> QED BY <1>1, <2>2, <2>3
  <1>7. CASE \E q \in queue : DismissReview(q)
    BY <1>1, <1>7 DEF DismissReview, Spared
  <1>8. CASE UNCHANGED vars
    BY <1>1, <1>8 DEF vars, stored, Spared
  <1> QED BY <1>2, <1>3, <1>4, <1>5, <1>6, <1>7, <1>8

\* What a merge makes of what is stored of its two companies, and of no other.
MergeWrites(w, l, ev) ==
    /\ KeysAt(keys', w) = KeysAt(keys, w) \cup MovedTo(ev.moved, w) \cup ev.inserted
    /\ KeysAt(keys', l) = {}
    /\ verdict'[w] = IF ev.decision THEN verdict[l] ELSE verdict[w]
    /\ verdict'[l] = NoVerdict
    /\ PeopleAt(founders', w) =
           PeopleAt(founders, w) \cup PeopleTo(PeopleAt(founders, l) \ ev.dropped, w)
    /\ PeopleAt(founders', l) = {}
    /\ Distinct(founders')
    /\ \A c \in Ids \ {w, l} : Spared(c)

LEMMA MergeSets ==
    ASSUME IdentityTyped, RowsInv, NEW w \in Rows, NEW l \in Rows, NEW rule \in Rules, w < l,
           MergeCompanies(w, l, rule)
    PROVE  MergeWrites(w, l, Evidence(w, l, rule))
  <1> DEFINE ev == Evidence(w, l, rule)
  <1>1. /\ w \in Ids /\ l \in Ids /\ w # l /\ keys \in SUBSET AKey
        /\ founders \in SUBSET AFounder /\ verdict \in [Ids -> 0 .. MaxFacts]
    BY TypedFacts
  <1>2. /\ keys' = (keys \ KeysOf(l)) \cup MovedTo(ev.moved, w) \cup ev.inserted
        /\ verdict' = [verdict EXCEPT ![w] = IF ev.decision THEN verdict[l] ELSE @,
                                      ![l] = NoVerdict]
        /\ founders' = MovedFounders(founders \ ev.dropped, ev.people, w)
    BY DEF MergeCompanies, MovedFounders
  <1>3. ev \in AnEvent /\ IsEvidence(ev, w, l)
    BY EvidenceTyped
  <1>4. \A c \in Ids \ {w, l} : company'[c] = company[c]
    BY MergeRows
  <1> HIDE DEF ev
  <1>5. /\ ev.moved \in SUBSET AKey /\ ev.inserted \in SUBSET AKey
        /\ \A k \in ev.inserted : k.id = w
        /\ ev.dropped \in SUBSET founders /\ \A f \in ev.dropped : f.at = l
        /\ ev.people = RowIds(PeopleAt(founders, l) \ ev.dropped)
    BY <1>3 DEF AnEvent, IsEvidence, Key, PeopleOf, PeopleAt
  <1>6. /\ KeysAt(keys', w) = KeysAt(keys, w) \cup MovedTo(ev.moved, w) \cup ev.inserted
        /\ KeysAt(keys', l) = {}
        /\ \A c \in Ids \ {w, l} : KeysAt(keys', c) = KeysAt(keys, c)
    <2> DEFINE there == MovedTo(ev.moved, w)
    <2>1. keys' = (keys \ {k \in keys : k.id = l}) \cup there \cup ev.inserted
      BY <1>2 DEF KeysOf
    <2>2. \A k \in there : k.id = w
      BY <1>1, <1>5, KeysMoved
    <2> HIDE DEF there
    <2>3. /\ KeysAt(keys', w) = KeysAt(keys, w) \cup there \cup ev.inserted
          /\ KeysAt(keys', l) = {}
          /\ \A c \in Ids \ {w, l} : KeysAt(keys', c) = KeysAt(keys, c)
      BY <1>1, <1>5, <2>1, <2>2 DEF KeysAt
    <2> QED BY <2>3 DEF there
  <1>7. /\ verdict'[w] = IF ev.decision THEN verdict[l] ELSE verdict[w]
        /\ verdict'[l] = NoVerdict
        /\ \A c \in Ids \ {w, l} : verdict'[c] = verdict[c]
    BY <1>1, <1>2
  <1>8. founders' = Gone(founders, w, l, ev.dropped)
    BY <1>2, <1>5 DEF Gone, PeopleAt
  <1>9. /\ PeopleAt(founders', w) =
               PeopleAt(founders, w) \cup PeopleTo(PeopleAt(founders, l) \ ev.dropped, w)
        /\ PeopleAt(founders', l) = {}
        /\ \A c \in Ids \ {w, l} : PeopleAt(founders', c) = PeopleAt(founders, c)
        /\ Distinct(founders')
    <2> DEFINE dropped == ev.dropped
    <2>1. Distinct(founders) /\ dropped \in SUBSET founders /\ \A f \in dropped : f.at = l
      BY <1>5 DEF RowsInv
    <2>2. founders' = Gone(founders, w, l, dropped)
      BY <1>8
    <2> HIDE DEF dropped
    <2>3. /\ {f \in Gone(founders, w, l, dropped) : f.at = w} =
                 {f \in founders : f.at = w}
                     \cup PeopleTo({f \in founders : f.at = l} \ dropped, w)
          /\ {f \in Gone(founders, w, l, dropped) : f.at = l} = {}
          /\ \A c \in Ids \ {w, l} :
                {f \in Gone(founders, w, l, dropped) : f.at = c} = {f \in founders : f.at = c}
          /\ Distinct(Gone(founders, w, l, dropped))
      BY <1>1, <2>1, PeopleMerged
    <2> QED BY <2>2, <2>3 DEF dropped, PeopleAt
  <1>10. MergeWrites(w, l, ev)
    BY <1>4, <1>6, <1>7, <1>9 DEF MergeWrites, Spared
  <1> QED BY <1>10 DEF ev

\* The new event, of its companies as they are now.
LEMMA NewIsMerged ==
    ASSUME IdentityTyped, RowsInv, NEW w \in Rows, NEW l \in Rows, NEW rule \in Rules, w < l,
           MergeCompanies(w, l, rule)
    PROVE  Merged(Evidence(w, l, rule), company', keys', verdict', founders')
  <1> DEFINE ev == Evidence(w, l, rule)
  <1>1. /\ w \in Ids /\ l \in Ids /\ w # l
        /\ keys \in SUBSET AKey /\ founders \in SUBSET AFounder
        /\ \A c \in Ids : verdict[c] \in Nat
    BY TypedFacts, SizesAreNatural
  <1>2. MergeWrites(w, l, ev)
    BY MergeSets
  <1>3. IsEvidence(ev, w, l)
    BY EvidenceTyped
  <1>4. /\ company[l].into = Nobody /\ company'[l] = Pointing(company[l], w)
        /\ company'[w].into = company[w].into
    BY MergeRows
  <1> HIDE DEF ev
  <1>5. /\ ev.winner = w /\ ev.loser = l
        /\ ev.was[1][1] = company[w] /\ ev.was[2][1] = company[l]
        /\ ev.was[1][2] = KeysAt(keys, w) /\ ev.was[2][2] = KeysAt(keys, l)
        /\ ev.was[1][3] = verdict[w] /\ ev.was[2][3] = verdict[l]
        /\ ev.was[1][4] = PeopleAt(founders, w) /\ ev.was[2][4] = PeopleAt(founders, l)
    BY <1>3 DEF IsEvidence, Record, KeysOf, PeopleOf, KeysAt, PeopleAt
  <1>6. MergedRows(ev, company[w], company[l], company'[w], company'[l])
    BY <1>3, <1>4, <1>5 DEF MergedRows, IsEvidence
  <1>7. MergedKeys(ev, KeysAt(keys, w), KeysAt(keys, l), KeysAt(keys', w), KeysAt(keys', l))
    <2>1. /\ ev.moved = {k \in KeysAt(keys, l) : ~\E j \in KeysAt(keys, w) : SameKey(k, j)}
          /\ ev.deleted = KeysAt(keys, l) \ ev.moved
          /\ \A k \in ev.inserted :
                 ~\E j \in KeysAt(keys, w) \cup MovedTo(ev.moved, w) : SameKey(j, k)
      BY <1>3 DEF IsEvidence, KeysOf, KeysAt, Shared
    <2>2. /\ \A k \in KeysAt(keys, w) : k.id = w
          /\ \A k \in KeysAt(keys, l) : k.id = l
      BY DEF KeysAt
    <2> QED BY <1>2, <1>5, <2>1, <2>2 DEF MergeWrites, MergedKeys
  <1>8. MergedVerdicts(ev, verdict[w], verdict[l], verdict'[w], verdict'[l])
    <2>1. /\ ev.decision <=> verdict[l] # NoVerdict /\ verdict[l] > verdict[w]
          /\ ev.displaced = IF ev.decision THEN verdict[w] ELSE verdict[l]
      BY <1>3 DEF IsEvidence, DecisionMoves
    <2>2. /\ verdict'[w] = IF ev.decision THEN verdict[l] ELSE verdict[w]
          /\ verdict'[l] = NoVerdict
      BY <1>2 DEF MergeWrites
    <2> QED BY <2>1, <2>2 DEF MergedVerdicts
  <1>9. MergedPeople(ev, PeopleAt(founders, w), PeopleAt(founders, l),
                     PeopleAt(founders', w), PeopleAt(founders', l))
    <2>1. /\ ev.dropped = {f \in PeopleAt(founders, l) : f.person \in Persons(PeopleAt(founders, w))}
          /\ ev.people = RowIds(PeopleAt(founders, l) \ ev.dropped)
      BY <1>3 DEF IsEvidence, PeopleOf, PeopleAt
    <2> DEFINE pw == PeopleAt(founders, w)
               pl == PeopleAt(founders, l)
               left == pl \ ev.dropped
               sent == PeopleTo(left, w)
    <2>2. /\ \A f \in pw : f \in founders /\ f.at = w
          /\ \A f \in pl : f \in founders /\ f.at = l
          /\ ev.dropped \subseteq pl
      BY <2>1 DEF PeopleAt
    <2>3. \A f, g \in founders : f.row = g.row => f = g
      BY DEF RowsInv, Distinct
    <2>4. left \in SUBSET AFounder /\ left = pl \ ev.dropped
      BY <1>1, <2>2
    <2>5. PeopleAt(founders', w) = pw \cup sent /\ PeopleAt(founders', l) = {}
      BY <1>2 DEF MergeWrites
    <2>6. ev.people = RowIds(left)
      BY <2>1
    <2> HIDE DEF pw, pl, left
    <2>7. \A g \in sent : \E f \in left : g.row = f.row
      BY <1>1, <2>4, PeopleIs
    <2> HIDE DEF sent
    <2>8. \A f \in pw : f.row \notin ev.people
      BY <1>1, <2>2, <2>3, <2>4, <2>6 DEF RowIds
    <2>9. \A f \in ev.dropped : f.row \notin RowIds(pw \cup sent) \cup ev.people
      <3> SUFFICES ASSUME NEW f \in ev.dropped
                   PROVE  f.row \notin RowIds(pw \cup sent) /\ f.row \notin ev.people
        OBVIOUS
      <3>1. \A g \in left : g.row # f.row
        BY <2>2, <2>3, <2>4
      <3>2. \A g \in pw : g.row # f.row
        BY <1>1, <2>2, <2>3
      <3> QED BY <2>6, <2>7, <3>1, <3>2 DEF RowIds
    <2>10. /\ ev.dropped = {f \in pl : f.person \in Persons(pw)}
           /\ ev.people = RowIds(pl \ ev.dropped)
      BY <2>1 DEF pl, pw
    <2>11. PeopleAt(founders', w) = pw \cup PeopleTo(pl \ ev.dropped, w)
      BY <2>5 DEF sent, left
    <2>12. MergedPeople(ev, pw, pl, PeopleAt(founders', w), PeopleAt(founders', l))
      BY <1>5, <2>2, <2>5, <2>8, <2>9, <2>10, <2>11 DEF MergedPeople
    <2> QED BY <2>12 DEF pw, pl
  <1>10. Merged(ev, company', keys', verdict', founders')
    BY <1>5, <1>6, <1>7, <1>8, <1>9 DEF Merged
  <1> QED BY <1>10 DEF ev

\* What a merge does to the other events.
LEMMA MergeClean ==
    ASSUME IdentityTyped, RowsInv, CleanInv, NEW q \in queue, ApproveReview(q)
    PROVE  CleanInv' /\ Distinct(founders')
  <1> DEFINE w == q.winner
             l == q.loser
             ev == Evidence(w, l, q.rule)
             n == Len(events) + 1
  <1>1. /\ w \in Rows /\ l \in Rows /\ w < l /\ w \in Ids /\ l \in Ids
        /\ q.rule \in Rules /\ MergeCompanies(w, l, q.rule)
        /\ n \notin DOMAIN events /\ DOMAIN events' = DOMAIN events \cup {n}
        /\ events'[n] = ev
        /\ \A e \in DOMAIN events :
              /\ events'[e].undone <=> events[e].undone
              /\ events'[e].clean /\ ~events'[e].undone =>
                    {events[e].winner, events[e].loser} \cap {w, l} = {}
    BY MergedLog
  <1>2. \A e \in DOMAIN events : events'[e] = Touch(events, {w, l})[e]
    BY <1>1, MergeEvents
  <1>3. Merged(ev, company', keys', verdict', founders')
    BY <1>1, NewIsMerged
  <1>4. MergeWrites(w, l, ev)
    BY <1>1, MergeSets
  <1>5. events \in Seq(AnEvent)
    BY TypedFacts DEF LogFits
  <1> HIDE DEF w, l, ev, n
  <1>6. ASSUME NEW e \in DOMAIN events, events'[e].clean, ~events'[e].undone
        PROVE  Merged(events'[e], company', keys', verdict', founders')
    <2>1. events'[e] = events[e]
      BY <1>2, <1>5, <1>6, TouchSame
    <2>2. events[e].winner \in Ids \ {w, l} /\ events[e].loser \in Ids \ {w, l}
      <3>1. events[e] \in AnEvent
        BY <1>5
      <3>2. events[e].winner \in Ids /\ events[e].loser \in Ids
        BY <3>1 DEF AnEvent
      <3> QED BY <1>1, <1>6, <3>2
    <2>3. Spared(events[e].winner) /\ Spared(events[e].loser)
      BY <1>4, <2>2 DEF MergeWrites
    <2>4. Merged(events[e], company, keys, verdict, founders)
      BY <1>6, <2>1 DEF CleanInv
    <2>5. Merged(events[e], company', keys', verdict', founders')
      BY <2>3, <2>4, SparedMerge
    <2> QED BY <2>1, <2>5
  <1>7. CleanInv'
    BY <1>1, <1>3, <1>6 DEF CleanInv
  <1> QED BY <1>4, <1>7 DEF MergeWrites

DecisionsBack(vs, ev, w, l) ==
    LET returned == IF ev.decision /\ vs[w] # NoVerdict
                    THEN [vs EXCEPT ![l] = vs[w], ![w] = NoVerdict]
                    ELSE vs
    IN  IF ev.displaced = NoVerdict THEN returned
        ELSE [returned EXCEPT ![IF ev.decision THEN w ELSE l] = ev.displaced]

\* What an undo makes of what is stored of the two companies, and of no other
\* than those it writes to.
UndoWrites(ev, w, l) ==
    /\ KeysAt(keys', w) = (KeysAt(keys, w) \ ev.inserted) \ Returning(ev)
    /\ KeysAt(keys', l) =
           {k \in KeysAt(keys, l) \cup MovedTo(Returning(ev), l) :
                ~\E d \in ev.deleted : SameKey(k, d)} \cup ev.deleted
    /\ founders' = Back(founders, ev.people, l, ev.dropped)
    /\ verdict' = DecisionsBack(verdict, ev, w, l)

LEMMA UndoSets ==
    ASSUME IdentityTyped, RowsInv, KeptInv, NEW e \in DOMAIN events, Unmerge(e)
    PROVE  /\ UndoWrites(events[e], events[e].winner, events[e].loser)
           /\ \A c \in Ids \ Written(e) : Spared(c)
           /\ Distinct(founders')
  <1>0. \E x, y, z : x = events[e] /\ y = events[e].winner /\ z = events[e].loser
    OBVIOUS
  <1> PICK ev, w, l : ev = events[e] /\ w = events[e].winner /\ l = events[e].loser
    BY <1>0
  <1>1. /\ w \in Ids /\ l \in Ids /\ w # l
        /\ ev \in AnEvent /\ ev.winner = w /\ ev.loser = l
        /\ \A c \in Ids \ {w, l} : company'[c] = company[c]
    BY UndoneRows, TypedFacts
  <1>2. /\ keys \in SUBSET AKey /\ founders \in SUBSET AFounder
        /\ verdict \in [Ids -> 0 .. MaxFacts]
    BY TypedFacts
  <1>3. /\ ev.deleted \in SUBSET AKey /\ \A k \in ev.deleted : k.id = l
        /\ \A k \in ev.inserted : k.id = w
        /\ ev.dropped \in SUBSET AFounder /\ \A f \in ev.dropped : f.at = l
        /\ Distinct(ev.dropped)
    <2>1. /\ ev.deleted \in SUBSET AKey /\ ev.dropped \in SUBSET AFounder
      BY <1>1 DEF AnEvent
    <2>2. \A f \in ev.dropped : f.at = l
      BY TypedFacts DEF LogFits
    <2> QED BY <2>1, <2>2 DEF KeptInv
  <1> DEFINE back == Returning(ev)
  <1>4. back \in SUBSET keys /\ \A k \in back : k.id = w
    BY <1>1 DEF Returning, KeysOf
  <1>5. keys' = {k \in ((keys \ ev.inserted) \ back) \cup MovedTo(back, l) :
                    ~\E d \in ev.deleted : k.id = d.id /\ SameKey(k, d)} \cup ev.deleted
    BY DEF Unmerge
  <1>6. founders' = Back(founders, ev.people, l, ev.dropped)
    BY DEF Unmerge, Back, MovedFounders
  <1>7. verdict' = DecisionsBack(verdict, ev, w, l)
    BY DEF Unmerge, DecisionsBack
  <1>8. /\ KeysAt(keys', w) = (KeysAt(keys, w) \ ev.inserted) \ back
        /\ KeysAt(keys', l) = {k \in KeysAt(keys, l) \cup MovedTo(back, l) :
                                   ~\E d \in ev.deleted : SameKey(k, d)} \cup ev.deleted
        /\ \A c \in Ids \ {w, l} : KeysAt(keys', c) = KeysAt(keys, c)
    <2> DEFINE there == MovedTo(back, l)
    <2> HIDE DEF back
    <2>1. \A k \in there : k.id = l
      BY <1>1, <1>2, <1>4, KeysMoved
    <2>2. keys' = {k \in ((keys \ ev.inserted) \ back) \cup there :
                      ~\E d \in ev.deleted : k.id = d.id /\ SameKey(k, d)} \cup ev.deleted
      BY <1>5
    <2> HIDE DEF there
    <2>3. KeysAt(keys', w) = (KeysAt(keys, w) \ ev.inserted) \ back
      BY <1>1, <1>3, <2>1, <2>2 DEF KeysAt
    <2>4. KeysAt(keys', l) = {k \in KeysAt(keys, l) \cup there :
                                   ~\E d \in ev.deleted : SameKey(k, d)} \cup ev.deleted
      BY <1>1, <1>3, <1>4, <2>1, <2>2 DEF KeysAt
    <2>5. \A c \in Ids \ {w, l} : KeysAt(keys', c) = KeysAt(keys, c)
      BY <1>1, <1>3, <1>4, <2>1, <2>2 DEF KeysAt
    <2> QED BY <2>3, <2>4, <2>5 DEF there
  <1>9. UndoWrites(ev, w, l)
    BY <1>6, <1>7, <1>8 DEF UndoWrites
  <1>10. ASSUME NEW c \in Ids \ Written(e) PROVE Spared(c)
    <2>1. c # w /\ c # l /\ \A f \in Reclaimed(ev) : f.at # c
      BY <1>10 DEF Written
    <2>2. \A f \in founders : f.at = c => f.row \notin ev.people \cup RowIds(ev.dropped)
      BY <2>1 DEF Reclaimed
    <2>3. PeopleAt(founders', c) = PeopleAt(founders, c)
      <3> DEFINE ids == ev.people
                 dropped == ev.dropped
      <3>1. /\ dropped \in SUBSET AFounder /\ \A f \in dropped : f.at = l
            /\ \A f \in founders : f.at = c => f.row \notin ids \cup RowIds(dropped)
            /\ c \in Ids \ {l}
        BY <1>3, <2>1, <2>2, <1>10
      <3>2. founders' = Back(founders, ids, l, dropped)
        BY <1>6
      <3> HIDE DEF ids, dropped
      <3>3. \A d \in Ids \ {l} :
                (\A f \in founders : f.at = d => f.row \notin ids \cup RowIds(dropped)) =>
                    {f \in Back(founders, ids, l, dropped) : f.at = d}
                        = {f \in founders : f.at = d}
        BY <1>1, <1>2, <3>1, PeopleUndone
      <3>4. {f \in Back(founders, ids, l, dropped) : f.at = c} = {f \in founders : f.at = c}
        BY <3>1, <3>3
      <3> QED BY <3>2, <3>4 DEF PeopleAt
    <2>4. verdict'[c] = verdict[c]
      BY <1>1, <1>2, <1>7, <2>1 DEF DecisionsBack
    <2> QED BY <1>1, <1>8, <2>1, <2>3, <2>4 DEF Spared
  <1>11. Distinct(founders')
    <2> DEFINE ids == ev.people
               dropped == ev.dropped
    <2>1. /\ dropped \in SUBSET AFounder /\ \A f \in dropped : f.at = l
          /\ Distinct(founders) /\ Distinct(dropped)
      BY <1>3 DEF RowsInv
    <2>2. founders' = Back(founders, ids, l, dropped)
      BY <1>6
    <2> HIDE DEF ids, dropped
    <2> QED BY <1>1, <1>2, <2>1, <2>2, PeopleUndone
  <1> QED BY <1>9, <1>10, <1>11

\* What an undo leaves of the other events.
LEMMA UndoSpares ==
    ASSUME IdentityTyped, RowsInv, KeptInv, NEW e \in DOMAIN events, Unmerge(e)
    PROVE  Spares
  <1> SUFFICES ASSUME NEW o \in DOMAIN events, events'[o].clean, ~events'[o].undone
               PROVE  /\ events'[o] = events[o]
                      /\ Spared(events[o].winner) /\ Spared(events[o].loser)
    BY DEF Spares
  <1>1. /\ o # e
        /\ {events[o].winner, events[o].loser} \cap Written(e) = {}
    BY UndoneEvents
  <1>2. events \in Seq(AnEvent)
    BY TypedFacts DEF LogFits
  <1> DEFINE log == Touch(events, Written(e))
  <1>3. events'[o] = log[o]
    <2>1. events' = Reversed(log, e, events[e]) /\ events[e] \in AnEvent
      BY <1>2 DEF Unmerge, Written, Reversed
    <2>2. log \in Seq(AnEvent) /\ Len(log) = Len(events)
      BY <1>2, TouchKeeps
    <2> HIDE DEF log
    <2>3. e \in DOMAIN log /\ o \in DOMAIN log
      BY <1>2, <2>2
    <2> QED BY <1>1, <2>1, <2>2, <2>3, UndoneKeeps
  <1>4. log[o].clean
    BY <1>3
  <1>5. events'[o] = events[o]
    <2>1. log[o] = events[o]
      BY <1>2, <1>4, TouchSame
    <2> HIDE DEF log
    <2> QED BY <1>3, <2>1
  <1>6. events[o].winner \in Ids /\ events[o].loser \in Ids
    <2>1. events[o] \in AnEvent
      BY <1>2
    <2> QED BY <2>1 DEF AnEvent
  <1>7. Spared(events[o].winner) /\ Spared(events[o].loser)
    BY <1>1, <1>6, UndoSets
  <1> QED BY <1>5, <1>7

\* Rows that point somewhere else and back.
LEMMA PointedBack ==
    ASSUME NEW row \in Columns, NEW c
    PROVE  /\ Pointing(row, row.into) = row
           /\ row.into = Nobody => Pointing(Pointing(row, c), Nobody) = row
  <1>1. Pointing(row, row.into) = row
    BY DEF Pointing, Columns
  <1>2. Pointing(row, c) = [name |-> row.name, number |-> row.number,
                            country |-> row.country, into |-> c]
    BY DEF Pointing, Columns
  <1> DEFINE there == [name |-> row.name, number |-> row.number,
                       country |-> row.country, into |-> c]
             again == [name |-> row.name, number |-> row.number,
                       country |-> row.country, into |-> Nobody]
  <1>3. Pointing(there, Nobody) = again
    BY DEF Pointing
  <1>4. row.into = Nobody => again = row
    BY DEF Columns
  <1> HIDE DEF again
  <1> QED BY <1>1, <1>2, <1>3, <1>4

\* Decisions that a merge moved or kept and its undo puts back.
LEMMA VerdictsBack ==
    ASSUME NEW vs \in [Ids -> 0 .. MaxFacts], NEW w \in Ids, NEW l \in Ids, w # l,
           NEW ev, NEW vw, NEW vl, MergedVerdicts(ev, vw, vl, vs[w], vs[l])
    PROVE  DecisionsBack(vs, ev, w, l)[w] = vw /\ DecisionsBack(vs, ev, w, l)[l] = vl
  <1> DEFINE after == DecisionsBack(vs, ev, w, l)
  <1>1. CASE ev.decision
    <2>1. /\ vl # NoVerdict /\ ev.displaced = vw /\ vs[w] = vl /\ vs[l] = NoVerdict
      BY <1>1 DEF MergedVerdicts
    <2> DEFINE returned == [vs EXCEPT ![l] = vs[w], ![w] = NoVerdict]
    <2>2. after = IF vw = NoVerdict THEN returned ELSE [returned EXCEPT ![w] = vw]
      BY <1>1, <2>1 DEF DecisionsBack
    <2>3. returned[w] = NoVerdict /\ returned[l] = vl /\ DOMAIN returned = Ids
      BY <2>1
    <2> HIDE DEF returned
    <2> QED BY <2>2, <2>3
  <1>2. CASE ~ev.decision
    <2>1. /\ ev.displaced = vl /\ vs[w] = vw /\ vs[l] = NoVerdict
      BY <1>2 DEF MergedVerdicts
    <2>2. after = IF vl = NoVerdict THEN vs ELSE [vs EXCEPT ![l] = vl]
      BY <1>2, <2>1 DEF DecisionsBack
    <2> QED BY <2>1, <2>2
  <1> QED BY <1>1, <1>2

\* Everything of the two companies is what it was before the merge.
LEMMA UndoExact ==
    ASSUME IdentityTyped, RowsInv, KeptInv, CleanInv,
           NEW e \in DOMAIN events, Unmerge(e), events[e].clean
    PROVE  LET w == events[e].winner
               l == events[e].loser
           IN  /\ <<company'[w], KeysAt(keys', w), verdict'[w], PeopleAt(founders', w)>>
                      = events[e].was[1]
               /\ <<company'[l], KeysAt(keys', l), verdict'[l], PeopleAt(founders', l)>>
                      = events[e].was[2]
  <1>0. \E x, y, z : x = events[e] /\ y = events[e].winner /\ z = events[e].loser
    OBVIOUS
  <1> PICK ev, w, l : ev = events[e] /\ w = events[e].winner /\ l = events[e].loser
    BY <1>0
  <1>1. /\ w \in Ids /\ l \in Ids /\ w # l
        /\ ev \in AnEvent /\ ev.winner = w /\ ev.loser = l
        /\ company'[l] = Pointing(company[l], Nobody)
        /\ company'[w] = Pointing(ev.before, company[w].into)
    BY UndoneRows, TypedFacts
  <1>2. UndoWrites(ev, w, l)
    BY UndoSets
  <1>3. Merged(ev, company, keys, verdict, founders)
    BY DEF CleanInv, Unmerge
  <1>4. /\ keys \in SUBSET AKey /\ founders \in SUBSET AFounder /\ Distinct(founders)
        /\ verdict \in [Ids -> 0 .. MaxFacts]
    BY TypedFacts DEF RowsInv
  <1>5. \E rw \in ARecord, rl \in ARecord : ev.was = <<rw, rl>>
    BY <1>1 DEF AnEvent
  <1>6. PICK rw \in ARecord, rl \in ARecord : ev.was = <<rw, rl>>
    BY <1>5
  <1>7. ev.was[1] = rw /\ ev.was[2] = rl
    BY <1>6
  <1>8. /\ rw[1] \in Columns /\ rw[2] \in SUBSET AKey /\ rw[4] \in SUBSET AFounder
        /\ rl[1] \in Columns /\ rl[2] \in SUBSET AKey /\ rl[4] \in SUBSET AFounder
        /\ rw = <<rw[1], rw[2], rw[3], rw[4]>> /\ rl = <<rl[1], rl[2], rl[3], rl[4]>>
    BY DEF ARecord
  <1>9. /\ MergedRows(ev, rw[1], rl[1], company[w], company[l])
        /\ MergedKeys(ev, rw[2], rl[2], KeysAt(keys, w), KeysAt(keys, l))
        /\ MergedVerdicts(ev, rw[3], rl[3], verdict[w], verdict[l])
        /\ MergedPeople(ev, rw[4], rl[4], PeopleAt(founders, w), PeopleAt(founders, l))
    BY <1>1, <1>3, <1>7 DEF Merged
  <1>10. company'[w] = rw[1] /\ company'[l] = rl[1]
    <2>1. /\ rw[1] = ev.before /\ rl[1].into = Nobody
          /\ company[w].into = rw[1].into /\ company[l] = Pointing(rl[1], w)
      BY <1>1, <1>9 DEF MergedRows
    <2> QED BY <1>1, <1>8, <2>1, PointedBack
  <1>11. KeysAt(keys', w) = rw[2] /\ KeysAt(keys', l) = rl[2]
    <2> DEFINE kw == rw[2]
               kl == rl[2]
               nw == KeysAt(keys, w)
               nl == KeysAt(keys, l)
               back == Returning(ev)
    <2>1. back = KeysSent(ev, nw)
      BY <1>1 DEF KeysSent, Returning, KeysOf, KeysAt
    <2>2. /\ kw \in SUBSET AKey /\ kl \in SUBSET AKey /\ nw \in SUBSET AKey
          /\ MergedKeys(ev, kw, kl, nw, nl)
      BY <1>4, <1>8, <1>9 DEF KeysAt
    <2>3. /\ KeysAt(keys', w) = (nw \ ev.inserted) \ back
          /\ KeysAt(keys', l) = {k \in nl \cup MovedTo(back, l) :
                                     ~\E d \in ev.deleted : SameKey(k, d)} \cup ev.deleted
      BY <1>2 DEF UndoWrites
    <2> HIDE DEF kw, kl, nw, nl, back
    <2>4. /\ (nw \ ev.inserted) \ KeysSent(ev, nw) = kw
          /\ KeysHeld(ev, nl, KeysSent(ev, nw)) = kl
      BY <1>1, <2>2, KeysBack
    <2> QED BY <1>1, <2>1, <2>3, <2>4 DEF kw, kl, KeysHeld
  <1>12. verdict'[w] = rw[3] /\ verdict'[l] = rl[3]
    <2>1. verdict' = DecisionsBack(verdict, ev, w, l)
      BY <1>2 DEF UndoWrites
    <2> QED BY <1>1, <1>4, <1>9, <2>1, VerdictsBack
  <1>13. PeopleAt(founders', w) = rw[4] /\ PeopleAt(founders', l) = rl[4]
    <2> DEFINE pw == rw[4]
               pl == rl[4]
    <2>1. /\ pw \in SUBSET AFounder /\ pl \in SUBSET AFounder
          /\ MergedPeople(ev, pw, pl, {f \in founders : f.at = w}, {f \in founders : f.at = l})
      BY <1>8, <1>9 DEF PeopleAt
    <2>2. founders' = Back(founders, ev.people, l, ev.dropped)
      BY <1>2 DEF UndoWrites
    <2> HIDE DEF pw, pl
    <2>3. /\ {f \in Back(founders, ev.people, l, ev.dropped) : f.at = w} = pw
          /\ {f \in Back(founders, ev.people, l, ev.dropped) : f.at = l} = pl
      BY <1>1, <1>4, <2>1, PeopleBack
    <2> QED BY <2>2, <2>3 DEF PeopleAt, pw, pl
  <1> QED BY <1>7, <1>8, <1>10, <1>11, <1>12, <1>13

LEMMA OnlyUndoes ==
    ASSUME IdentityTyped, [Next]_vars, NEW e \in DOMAIN events, Undoes(e)
    PROVE  Unmerge(e)
  <1>1. ~events[e].undone /\ events'[e].undone
    BY DEF Undoes
  <1>2. CASE events' = events \/ \E ids : events' = Touch(events, ids)
    BY <1>1, <1>2, TouchedLog
  <1>3. ASSUME NEW q \in queue, ApproveReview(q) PROVE FALSE
    BY <1>1, <1>3, MergedLog
  <1>4. ASSUME NEW o \in DOMAIN events, Unmerge(o) PROVE o = e
    BY <1>1, <1>4, UndoneEvents
  <1>5. ASSUME NEW p \in People, ForgetPerson(p) PROVE FALSE
    BY <1>1, <1>5, ForgetEvents
  <1>6. CASE UNCHANGED vars
    BY <1>2, <1>6 DEF vars, stored
  <1> QED BY <1>2, <1>3, <1>4, <1>5, <1>6, PlainLog DEF Next

LEMMA KeptStep ==
    ASSUME IdentityTyped, RowsInv, KeptInv, [Next]_vars
    PROVE  KeptInv'
  <1>1. ASSUME DOMAIN events' = DOMAIN events,
               \A e \in DOMAIN events :
                  /\ Kept(events'[e], events[e])
                  /\ events'[e].dropped \subseteq events[e].dropped
        PROVE  KeptInv'
    BY <1>1 DEF KeptInv, Kept, Distinct
  <1>2. CASE events' = events
    BY <1>2 DEF KeptInv
  <1>3. CASE \E ids : events' = Touch(events, ids)
    BY <1>1, <1>3, TouchedLog
  <1>4. ASSUME NEW q \in queue, ApproveReview(q) PROVE KeptInv'
    <2> DEFINE w == q.winner
               l == q.loser
               ev == Evidence(w, l, q.rule)
               n == Len(events) + 1
    <2>1. /\ IsEvidence(ev, w, l)
          /\ n \notin DOMAIN events /\ DOMAIN events' = DOMAIN events \cup {n}
          /\ events'[n] = ev
          /\ \A e \in DOMAIN events : /\ Kept(events'[e], events[e])
                                      /\ events'[e].dropped = events[e].dropped
      BY <1>4, MergedLog
    <2> HIDE DEF w, l, ev, n
    <2>2. /\ ev.winner = w /\ ev.loser = l
          /\ \A k \in ev.inserted : k.id = w
          /\ \A k \in ev.deleted : k.id = l
          /\ Distinct(ev.dropped)
      BY <2>1 DEF IsEvidence, Key, KeysOf, PeopleOf, RowsInv, Distinct
    <2> QED BY <2>1, <2>2 DEF KeptInv, Kept
  <1>5. ASSUME NEW e \in DOMAIN events, Unmerge(e) PROVE KeptInv'
    BY <1>1, <1>5, UndoneEvents
  <1>6. ASSUME NEW p \in People, ForgetPerson(p) PROVE KeptInv'
    BY <1>1, <1>6, ForgetEvents
  <1>7. CASE UNCHANGED vars
    BY <1>2, <1>7 DEF vars, stored
  <1> QED BY <1>2, <1>3, <1>4, <1>5, <1>6, <1>7, PlainLog DEF Next

LEMMA RowsStep ==
    ASSUME IdentityTyped, RowsInv, KeptInv, CleanInv, [Next]_vars
    PROVE  RowsInv'
  <1>1. CASE founders' = founders
    BY <1>1 DEF RowsInv
  <1>2. ASSUME NEW q \in queue, ApproveReview(q) PROVE RowsInv'
    BY <1>2, MergeClean DEF RowsInv
  <1>3. ASSUME NEW e \in DOMAIN events, Unmerge(e) PROVE RowsInv'
    BY <1>3, UndoSets DEF RowsInv
  <1>4. ASSUME NEW c \in Ids, NEW p \in People, StoreFounder(c, p) PROVE RowsInv'
    <2> DEFINE new == [row |-> NextRow, at |-> c, person |-> p]
    <2>1. founders' = founders \/ founders' = founders \cup {new}
      BY <1>4 DEF StoreFounder
    <2>2. \A f \in founders : f.row # NextRow
      <3>1. NextRow \in 1 .. facts + 1 /\ \A f \in founders : f.row < NextRow
        BY <1>4, NextRowIsFree DEF StoreFounder
      <3>2. \A f \in founders : f.row \in Nat
        BY TypedFacts, SizesAreNatural DEF AFounder
      <3> QED BY <3>1, <3>2, TypedFacts
    <2>3. new.row = NextRow
      OBVIOUS
    <2> HIDE DEF new
    <2> QED BY <2>1, <2>2, <2>3 DEF RowsInv, Distinct
  <1>5. ASSUME NEW p \in People, ForgetPerson(p) PROVE RowsInv'
    BY <1>5 DEF ForgetPerson, RowsInv, Distinct
  <1>6. CASE \/ \E m \in Mentions : ResolveItem(m) \/ SweepItem(m)
             \/ \E c \in Ids, number \in Numbers : VerifyCrn(c, number)
             \/ \E q \in queue : DismissReview(q)
             \/ \E c \in Ids : Decide(c)
             \/ UNCHANGED vars
    BY <1>1, <1>6 DEF ResolveItem, UpsertRecord, Resolved, SweepItem, VerifyCrn, DismissReview,
                      Decide, vars, stored
  <1> QED BY <1>2, <1>3, <1>4, <1>5, <1>6 DEF Next

LEMMA CleanStep ==
    ASSUME IdentityTyped, RowsInv, KeptInv, CleanInv, [Next]_vars
    PROVE  CleanInv'
  <1>1. ASSUME NEW q \in queue, ApproveReview(q) PROVE CleanInv'
    BY <1>1, MergeClean
  <1>2. ASSUME NEW e \in DOMAIN events, Unmerge(e) PROVE CleanInv'
    BY <1>2, UndoSpares, UndoneEvents, SparedStay
  <1>3. ASSUME NEW p \in People, ForgetPerson(p) PROVE CleanInv'
    <2>1. Spares /\ DOMAIN events' = DOMAIN events
      BY <1>3, ForgetEvents DEF Spares
    <2> QED BY <2>1, SparedStay
  <1>4. CASE \/ \E m \in Mentions : ResolveItem(m) \/ SweepItem(m)
             \/ \E c \in Ids, number \in Numbers : VerifyCrn(c, number)
             \/ \E q \in queue : DismissReview(q)
             \/ \E c \in Ids : Decide(c)
             \/ \E c \in Ids, p \in People : StoreFounder(c, p)
             \/ UNCHANGED vars
    BY <1>4, PlainSpares, SparedStay
  <1> QED BY <1>1, <1>2, <1>3, <1>4 DEF Next

\* An undo gives both companies back every column, key, decision and founder they
\* had, however many merges, mentions and founders came between, if none of it
\* was written to either of them.
THEOREM UndoGivesBack == Spec => UndoIsExact
  <1> DEFINE IInv == IdentityTyped /\ RowsInv /\ KeptInv /\ CleanInv
             Exact == \A e \in DOMAIN events :
                          Undoes(e) /\ events[e].clean =>
                              <<Record(events[e].winner)', Record(events[e].loser)'>>
                                  = events[e].was
  <1>1. Init => IInv
    BY InitTyped DEF Init, RowsInv, Distinct, KeptInv, CleanInv
  <1>2. IInv /\ [Next]_vars => IInv'
    BY StepTyped, RowsStep, KeptStep, CleanStep
  <1>3. IInv /\ [Next]_vars => [Exact]_vars
    <2> SUFFICES ASSUME IInv, [Next]_vars, NEW e \in DOMAIN events, Undoes(e), events[e].clean
                 PROVE  <<Record(events[e].winner)', Record(events[e].loser)'>> = events[e].was
      OBVIOUS
    <2>1. Unmerge(e)
      BY OnlyUndoes
    <2>0. \E x, y : x = events[e].winner /\ y = events[e].loser
      OBVIOUS
    <2>2. PICK w, l : w = events[e].winner /\ l = events[e].loser
      BY <2>0
    <2>3. events'[e].winner = w /\ events'[e].loser = l
      BY <2>1, <2>2, UndoneEvents DEF Kept
    <2>4. /\ <<company'[w], KeysAt(keys', w), verdict'[w], PeopleAt(founders', w)>>
                 = events[e].was[1]
          /\ <<company'[l], KeysAt(keys', l), verdict'[l], PeopleAt(founders', l)>>
                 = events[e].was[2]
      BY <2>1, <2>2, UndoExact
    <2>5. /\ Record(events[e].winner)' = events[e].was[1]
          /\ Record(events[e].loser)' = events[e].was[2]
      BY <2>3, <2>4 DEF Record, KeysOf, PeopleOf, KeysAt, PeopleAt
    <2>6. events[e].was = <<events[e].was[1], events[e].was[2]>>
      <3>1. events[e] \in AnEvent
        BY TypedFacts DEF LogFits
      <3> QED BY <3>1 DEF AnEvent
    <2> QED BY <2>5, <2>6
  <1> QED BY <1>1, <1>2, <1>3, PTL DEF Spec, UndoIsExact
-----------------------------------------------------------------------------
(* The newest decision.                                                    *)

\* The merges whose undo would be exact.
Open(log) == {e \in DOMAIN log : log[e].clean /\ ~log[e].undone}

\* The tombstones without those of open merges, and what ends at a row c then.
Cut(rows, log) ==
    [c \in Ids |-> [into |-> IF \E e \in Open(log) : log[e].loser = c
                             THEN Nobody
                             ELSE rows[c].into]]

Group(rows, log, c) == {d \in Ids : Followed(Cut(rows, log), d) = c}

Spoilt(log, st, d) ==
    \/ d \in st
    \/ \E e \in DOMAIN log :
          log[e].undone /\ ~log[e].clean /\ d \in {log[e].winner, log[e].loser}

Newest(v, group, ds) ==
    /\ \A d \in group : ds[d] <= v
    /\ v = NoVerdict \/ \E d \in group : v = ds[d]

Heard(v, group, log, ds, st) ==
    (\E d \in group : Spoilt(log, st, d)) \/ Newest(v, group, ds)

\* A live row that absorbs nothing openly has heard of its group; where it does,
\* it had before that, and so had the other.
Sound(rows, log, vs, ds, st) ==
    /\ \A c \in Ids :
          rows[c].into = Nobody /\ (\A e \in Open(log) : log[e].winner # c) =>
              Heard(vs[c], Group(rows, log, c), log, ds, st)
    /\ \A e \in Open(log) :
          LET w == log[e].winner
              l == log[e].loser
          IN  IF rows[w].into = Nobody
              THEN /\ Heard(log[e].was[1][3], Group(rows, log, w), log, ds, st)
                   /\ Heard(log[e].was[2][3], Group(rows, log, l), log, ds, st)
              ELSE l \in st

\* A merge that was not undone is one tombstone, and open ones share no company.
Linked(rows, log) ==
    /\ \A e \in DOMAIN log : ~log[e].undone => rows[log[e].loser].into = log[e].winner
    /\ \A e, f \in DOMAIN log :
          e # f /\ ~log[e].undone /\ ~log[f].undone => log[e].loser # log[f].loser
    /\ \A e, f \in Open(log) :
          e # f => {log[e].winner, log[e].loser} \cap {log[f].winner, log[f].loser} = {}
    /\ \A e \in DOMAIN log : log[e].decision <=> log[e].was[1][3] < log[e].was[2][3]

\* What an open merge made of the two decisions.
Settled(log, vs) ==
    \A e \in Open(log) :
        vs[log[e].winner] = IF log[e].decision THEN log[e].was[2][3] ELSE log[e].was[1][3]

DecidedInv == decided \in [Ids -> 0 .. facts]

NewestInv ==
    /\ Linked(company, events)
    /\ DecidedInv
    /\ Sound(company, events, verdict, decided, stale)

\* A log of the same merges, of which fewer are open.
Loosened(log, after) ==
    /\ DOMAIN after = DOMAIN log
    /\ \A e \in DOMAIN log :
          /\ Kept(after[e], log[e])
          /\ after[e].undone <=> log[e].undone
          /\ after[e].clean => log[e].clean
          /\ log[e].undone /\ log[e].clean => after[e].clean

\* Every merge is of two companies, the older one wins.
Ordered(log) ==
    \A e \in DOMAIN log :
        log[e].winner \in Ids /\ log[e].loser \in Ids /\ log[e].winner < log[e].loser

LEMMA LogIsOrdered == IdentityTyped => Ordered(events)
  <1> SUFFICES ASSUME IdentityTyped, NEW e \in DOMAIN events
               PROVE  /\ events[e].winner \in Ids /\ events[e].loser \in Ids
                      /\ events[e].winner < events[e].loser
    BY DEF Ordered
  <1>1. events[e] \in AnEvent /\ events[e].winner < events[e].loser
    BY TypedFacts DEF LogFits
  <1> QED BY <1>1 DEF AnEvent

LEMMA OpenLess ==
    ASSUME NEW log, NEW after, Loosened(log, after)
    PROVE  /\ Open(after) \subseteq Open(log)
           /\ \A e \in DOMAIN log : /\ after[e].winner = log[e].winner
                                    /\ after[e].loser = log[e].loser
                                    /\ after[e].was = log[e].was
                                    /\ after[e].decision <=> log[e].decision
           /\ \A st, d : Spoilt(after, st, d) <=> Spoilt(log, st, d)
  BY DEF Loosened, Kept, Open, Spoilt

LEMMA CutDescends ==
    ASSUME NEW rows, Descends(rows), NEW log
    PROVE  Descends(Cut(rows, log))
  BY SizesAreNatural DEF Descends, Cut, Ids, Nobody

\* Where a row that points somewhere still points there, what ended at a row ends
\* where that one does.
LEMMA Onward ==
    ASSUME NEW rows, Descends(rows), NEW after, Descends(after),
           \A c \in Ids : rows[c].into # Nobody => after[c].into = rows[c].into
    PROVE  \A c \in Ids : Followed(after, c) = Followed(after, Followed(rows, c))
  <1> DEFINE Bad == {c \in Ids : Followed(after, c) # Followed(after, Followed(rows, c))}
  <1>0. MaxCompanies \in Nat
    BY SizesAreNatural
  <1>1. SUFFICES ASSUME Bad # {} PROVE FALSE
    OBVIOUS
  <1>2. PICK c \in Bad : \A d \in Bad : c <= d
    <2>1. Bad \in SUBSET Nat
      BY <1>0 DEF Ids
    <2> QED BY <1>1, <2>1, Smallest
  <1>3. c \in Ids /\ Followed(after, c) # Followed(after, Followed(rows, c))
    BY <1>2
  <1>4. CASE rows[c].into = Nobody
    BY <1>3, <1>4, FollowedEnds
  <1>5. CASE rows[c].into # Nobody
    <2>1. rows[c].into \in Ids /\ rows[c].into < c
      BY <1>0, <1>3, <1>5 DEF Descends, Ids, Nobody
    <2>2. Followed(after, rows[c].into) = Followed(after, Followed(rows, rows[c].into))
      BY <1>2, <1>3, <2>1 DEF Ids
    <2>3. Followed(rows, c) = Followed(rows, rows[c].into)
      BY <1>3, <1>5, FollowedEnds
    <2>4. after[c].into = rows[c].into
      BY <1>3, <1>5
    <2>5. Followed(after, c) = Followed(after, rows[c].into)
      BY <1>3, <1>5, <2>4, FollowedEnds
    <2> QED BY <1>3, <2>2, <2>3, <2>5
  <1> QED BY <1>4, <1>5

\* What ends at a row when fewer merges are open: what did, and what the row had
\* absorbed by the one merge that is open no more.
LEMMA GroupsJoin ==
    ASSUME NEW rows, Descends(rows), NEW log, NEW after, Loosened(log, after),
           Linked(rows, log), Ordered(log), NEW st,
           \A e \in Open(log) : rows[log[e].winner].into # Nobody => log[e].loser \in st,
           NEW x \in Ids, Cut(rows, after)[x].into = Nobody,
           Group(rows, after, x) \cap st = {}
    PROVE  /\ \A o \in Open(log) \ Open(after) : log[o].winner = x =>
                 Group(rows, after, x) = Group(rows, log, x) \cup Group(rows, log, log[o].loser)
           /\ (\A o \in Open(log) \ Open(after) : log[o].winner # x) =>
                 Group(rows, after, x) = Group(rows, log, x)
  <1> DEFINE old == Cut(rows, log)
             new == Cut(rows, after)
  <1>1. Descends(old) /\ Descends(new)
    BY CutDescends
  <1>2. \A c \in Ids : /\ old[c].into = IF \E e \in Open(log) : log[e].loser = c
                                        THEN Nobody
                                        ELSE rows[c].into
                       /\ new[c].into = IF \E e \in Open(after) : after[e].loser = c
                                        THEN Nobody
                                        ELSE rows[c].into
    BY DEF Cut
  <1>3. \A c : Group(rows, log, c) = {d \in Ids : Followed(old, d) = c}
    BY DEF Group
  <1>4. Group(rows, after, x) = {d \in Ids : Followed(new, d) = x}
    BY DEF Group
  <1>5. new[x].into = Nobody
    OBVIOUS
  <1>6. /\ Open(after) \subseteq Open(log) /\ Open(log) \subseteq DOMAIN log
        /\ \A e \in DOMAIN log : after[e].winner = log[e].winner /\ after[e].loser = log[e].loser
    BY OpenLess DEF Open
  <1> HIDE DEF old, new
  <1>7. \A c \in Ids : old[c].into # Nobody => new[c].into = old[c].into
    BY <1>2, <1>6
  <1>8. \A c \in Ids : Followed(new, c) = Followed(new, Followed(old, c))
    BY <1>1, <1>7, Onward
  <1>9. ASSUME NEW o \in Open(log) \ Open(after)
        PROVE  /\ log[o].loser \in Ids /\ log[o].winner \in Ids
               /\ Followed(new, log[o].loser) = Followed(new, log[o].winner)
               /\ Followed(old, log[o].loser) = log[o].loser
    <2> DEFINE m == log[o].loser
               w == log[o].winner
    <2>1. m \in Ids /\ w \in Ids /\ rows[m].into = w /\ w # Nobody
      BY <1>6 DEF Ordered, Linked, Open, Ids, Nobody
    <2>2. \A e \in Open(after) : after[e].loser # m
      BY <1>6, <1>9 DEF Linked, Open
    <2>3. new[m].into = w /\ old[m].into = Nobody
      BY <1>2, <1>9, <2>1, <2>2
    <2> HIDE DEF m, w
    <2>4. Followed(new, m) = Followed(new, w) /\ Followed(old, m) = m
      BY <1>1, <2>1, <2>3, FollowedEnds
    <2> QED BY <2>1, <2>4 DEF m, w
  <1>10. Followed(new, x) = x
    BY <1>1, <1>5, FollowedEnds
  <1>11. old[x].into = Nobody /\ Followed(old, x) = x
    <2>1. old[x].into = Nobody
      BY <1>5, <1>7
    <2> QED BY <1>1, <2>1, FollowedEnds
  <1>12. Group(rows, log, x) \subseteq Group(rows, after, x)
    BY <1>3, <1>4, <1>8, <1>10
  <1>13. ASSUME NEW o \in Open(log) \ Open(after), log[o].winner = x
         PROVE  Group(rows, log, log[o].loser) \subseteq Group(rows, after, x)
    BY <1>3, <1>4, <1>8, <1>9, <1>10, <1>13
  <1>14. ASSUME NEW d \in Group(rows, after, x), d \notin Group(rows, log, x)
         PROVE  \E o \in Open(log) \ Open(after) :
                    log[o].winner = x /\ d \in Group(rows, log, log[o].loser)
    <2> DEFINE m == Followed(old, d)
    <2>1. d \in Ids /\ Followed(new, d) = x /\ m # x
      BY <1>3, <1>4, <1>14
    <2>2. m \in Ids /\ old[m].into = Nobody
      BY <1>1, <2>1, EndIsRoot
    <2>3. Followed(new, m) = x
      BY <1>8, <2>1
    <2>4. d \in Group(rows, log, m)
      BY <1>3, <2>1
    <2> HIDE DEF m
    <2>5. new[m].into # Nobody
      BY <1>1, <2>1, <2>2, <2>3, FollowedEnds
    <2>6. PICK o \in Open(log) : log[o].loser = m
      BY <1>2, <2>2, <2>5
    <2>7. o \notin Open(after)
      BY <1>2, <1>6, <2>2, <2>5, <2>6
    <2>8. m \notin st
      BY <1>4, <2>2, <2>3
    <2>9. rows[log[o].winner].into = Nobody /\ log[o].winner \in Ids
      BY <1>6, <2>6, <2>8 DEF Ordered
    <2>10. new[log[o].winner].into = Nobody
      BY <1>2, <2>9
    <2>11. Followed(new, log[o].winner) = log[o].winner
      BY <1>1, <2>9, <2>10, FollowedEnds
    <2>12. log[o].winner = x
      BY <1>9, <2>3, <2>6, <2>7, <2>11
    <2> QED BY <2>4, <2>6, <2>7, <2>12
  <1>15. ASSUME NEW o \in Open(log) \ Open(after), log[o].winner = x
         PROVE  Group(rows, after, x) \subseteq
                    Group(rows, log, x) \cup Group(rows, log, log[o].loser)
    <2>1. \A p \in Open(log) \ Open(after) : log[p].winner = x => p = o
      BY <1>15 DEF Linked
    <2> QED BY <1>14, <2>1
  <1> QED BY <1>12, <1>13, <1>14, <1>15

\* When each decision was made, as numbers.
Counted(log, vs, ds) ==
    /\ \A e \in DOMAIN log : log[e].was[1][3] \in Nat /\ log[e].was[2][3] \in Nat
    /\ vs \in [Ids -> Nat]
    /\ ds \in [Ids -> Nat]

\* The later of two decisions is the newest of both groups.
LEMMA NewestJoin ==
    ASSUME NEW g, NEW h, NEW ds, NEW v \in Nat, NEW u \in Nat,
           \A d \in g \cup h : ds[d] \in Nat, Newest(v, g, ds), Newest(u, h, ds)
    PROVE  Newest(IF v < u THEN u ELSE v, g \cup h, ds)
  BY DEF Newest

LEMMA LinkedStays ==
    ASSUME NEW rows, NEW log, NEW after, Loosened(log, after), Linked(rows, log)
    PROVE  Linked(rows, after)
  <1>1. /\ Open(after) \subseteq Open(log)
        /\ \A e \in DOMAIN log : /\ after[e].winner = log[e].winner
                                 /\ after[e].loser = log[e].loser
                                 /\ after[e].was = log[e].was
                                 /\ after[e].decision <=> log[e].decision
    BY OpenLess
  <1>2. Open(after) \subseteq DOMAIN log /\ DOMAIN after = DOMAIN log
    BY DEF Open, Loosened
  <1>3. \A e \in DOMAIN log : after[e].undone <=> log[e].undone
    BY DEF Loosened
  <1> QED BY <1>1, <1>2, <1>3 DEF Linked

\* A company that is written to has nothing to lose by it.
LEMMA SoundLoosened ==
    ASSUME NEW rows, Descends(rows), NEW log, NEW after, Loosened(log, after),
           Linked(rows, log), Ordered(log), NEW vs, NEW ds, NEW st, Counted(log, vs, ds),
           Settled(log, vs), Sound(rows, log, vs, ds, st)
    PROVE  Sound(rows, after, vs, ds, st)
  <1>1. /\ Open(after) \subseteq Open(log) /\ Open(log) \subseteq DOMAIN log
        /\ \A e \in DOMAIN log : /\ after[e].winner = log[e].winner
                                 /\ after[e].loser = log[e].loser
                                 /\ after[e].was = log[e].was
    BY OpenLess DEF Open
  <1>2. \A v, g : Heard(v, g, after, ds, st) <=> Heard(v, g, log, ds, st)
    BY OpenLess DEF Heard
  <1>3. \A e \in Open(log) : rows[log[e].winner].into # Nobody => log[e].loser \in st
    BY DEF Sound
  <1>4. ASSUME NEW x \in Ids, Cut(rows, after)[x].into = Nobody,
               \A d \in Group(rows, after, x) : ~Spoilt(log, st, d)
        PROVE  /\ \A o \in Open(log) \ Open(after) : log[o].winner = x =>
                     Group(rows, after, x)
                         = Group(rows, log, x) \cup Group(rows, log, log[o].loser)
               /\ (\A o \in Open(log) \ Open(after) : log[o].winner # x) =>
                     Group(rows, after, x) = Group(rows, log, x)
    <2>1. Group(rows, after, x) \cap st = {}
      BY <1>4 DEF Spoilt
    <2> QED BY <1>3, <1>4, <2>1, GroupsJoin
  <1>5. ASSUME NEW c \in Ids, rows[c].into = Nobody, \A e \in Open(after) : after[e].winner # c
        PROVE  Heard(vs[c], Group(rows, after, c), after, ds, st)
    <2> SUFFICES ASSUME \A d \in Group(rows, after, c) : ~Spoilt(log, st, d)
                 PROVE  Newest(vs[c], Group(rows, after, c), ds)
      BY <1>2 DEF Heard
    <2>1. Cut(rows, after)[c].into = Nobody
      BY <1>5 DEF Cut
    <2>2. CASE \A o \in Open(log) : log[o].winner # c
      <3>1. Group(rows, after, c) = Group(rows, log, c)
        BY <1>4, <2>1, <2>2
      <3>2. Heard(vs[c], Group(rows, log, c), log, ds, st)
        BY <1>5, <2>2 DEF Sound
      <3> QED BY <3>1, <3>2 DEF Heard
    <2>3. ASSUME NEW o \in Open(log), log[o].winner = c
          PROVE  Newest(vs[c], Group(rows, after, c), ds)
      <3> DEFINE g == Group(rows, log, c)
                 h == Group(rows, log, log[o].loser)
                 v == log[o].was[1][3]
                 u == log[o].was[2][3]
      <3>1. o \notin Open(after)
        BY <1>1, <1>5, <2>3
      <3>2. Group(rows, after, c) = g \cup h
        BY <1>4, <2>1, <2>3, <3>1
      <3>3. Heard(v, g, log, ds, st) /\ Heard(u, h, log, ds, st)
        BY <1>5, <2>3 DEF Sound
      <3>4. vs[c] = IF v < u THEN u ELSE v
        BY <1>1, <2>3 DEF Settled, Linked
      <3>5. v \in Nat /\ u \in Nat /\ \A d \in g \cup h : ds[d] \in Nat
        BY <1>1 DEF Counted, Group
      <3> HIDE DEF g, h, v, u
      <3>6. Newest(v, g, ds) /\ Newest(u, h, ds)
        BY <3>2, <3>3 DEF Heard
      <3> QED BY <3>2, <3>4, <3>5, <3>6, NewestJoin
    <2> QED BY <2>2, <2>3
  <1>6. ASSUME NEW e \in Open(after)
        PROVE  IF rows[after[e].winner].into = Nobody
               THEN /\ Heard(after[e].was[1][3], Group(rows, after, after[e].winner),
                             after, ds, st)
                    /\ Heard(after[e].was[2][3], Group(rows, after, after[e].loser),
                             after, ds, st)
               ELSE after[e].loser \in st
    <2> DEFINE w == log[e].winner
               l == log[e].loser
    <2>1. /\ e \in Open(log) /\ after[e].winner = w /\ after[e].loser = l
          /\ after[e].was = log[e].was
          /\ w \in Ids /\ l \in Ids
      BY <1>1 DEF Ordered
    <2>2. CASE rows[w].into # Nobody
      BY <2>1, <2>2 DEF Sound
    <2>3. CASE rows[w].into = Nobody
      <3>1. /\ Heard(log[e].was[1][3], Group(rows, log, w), log, ds, st)
            /\ Heard(log[e].was[2][3], Group(rows, log, l), log, ds, st)
        BY <2>1, <2>3 DEF Sound
      <3>2. \A o \in Open(log) \ Open(after) : log[o].winner \notin {w, l}
        BY <2>1 DEF Linked
      <3>3. Cut(rows, after)[w].into = Nobody /\ Cut(rows, after)[l].into = Nobody
        BY <2>1, <2>3 DEF Cut
      <3> HIDE DEF w, l
      <3>4. ASSUME NEW x \in {w, l}, NEW v, Heard(v, Group(rows, log, x), log, ds, st)
            PROVE  Heard(v, Group(rows, after, x), log, ds, st)
        <4> SUFFICES ASSUME \A d \in Group(rows, after, x) : ~Spoilt(log, st, d)
                     PROVE  Newest(v, Group(rows, after, x), ds)
          BY DEF Heard
        <4>1. x \in Ids /\ Cut(rows, after)[x].into = Nobody
          BY <2>1, <3>3
        <4>2. Group(rows, after, x) = Group(rows, log, x)
          BY <1>4, <3>2, <4>1
        <4> QED BY <3>4, <4>2 DEF Heard
      <3>5. /\ Heard(log[e].was[1][3], Group(rows, after, w), log, ds, st)
            /\ Heard(log[e].was[2][3], Group(rows, after, l), log, ds, st)
        BY <3>1, <3>4
      <3> QED BY <1>2, <2>1, <2>3, <3>5
    <2> QED BY <2>2, <2>3
  <1> QED BY <1>5, <1>6 DEF Sound

\* A decision about a company in no open merge.
LEMMA SoundDecided ==
    ASSUME NEW rows, Descends(rows), NEW log, Ordered(log), NEW vs, NEW ds, NEW st,
           Sound(rows, log, vs, ds, st), NEW n \in Nat, \A d \in Ids : ds[d] \in 0 .. n,
           NEW c \in Ids, \A e \in Open(log) : c \notin {log[e].winner, log[e].loser},
           NEW vt, vt[c] = n, \A d \in Ids \ {c} : vt[d] = vs[d],
           NEW dt, dt[c] = n, \A d \in Ids \ {c} : dt[d] = ds[d],
           NEW su, st \subseteq su, rows[c].into # Nobody => c \in su
    PROVE  Sound(rows, log, vt, dt, su)
  <1> DEFINE cut == Cut(rows, log)
  <1>1. Descends(cut)
    BY CutDescends
  <1>2. \A x : Group(rows, log, x) = {d \in Ids : Followed(cut, d) = x}
    BY DEF Group
  <1>3. rows[c].into = Nobody => cut[c].into = Nobody
    BY DEF Cut
  <1> HIDE DEF cut
  <1>4. ASSUME NEW x, x # c, NEW v, Heard(v, Group(rows, log, x), log, ds, st)
        PROVE  Heard(v, Group(rows, log, x), log, dt, su)
    <2>1. CASE c \in Group(rows, log, x)
      <3>1. Followed(cut, c) = x
        BY <1>2, <2>1
      <3>2. rows[c].into # Nobody
        BY <1>1, <1>3, <1>4, <3>1, FollowedEnds
      <3> QED BY <2>1, <3>2 DEF Heard, Spoilt
    <2>2. CASE c \notin Group(rows, log, x)
      <3>1. \A d \in Group(rows, log, x) : dt[d] = ds[d]
        BY <1>2, <2>2
      <3> QED BY <1>4, <3>1 DEF Heard, Spoilt, Newest
    <2> QED BY <2>1, <2>2
  <1>5. ASSUME NEW x \in Ids, rows[x].into = Nobody, \A e \in Open(log) : log[e].winner # x
        PROVE  Heard(vt[x], Group(rows, log, x), log, dt, su)
    <2>1. CASE x = c
      <3>1. c \in Group(rows, log, c)
        BY <1>1, <1>2, <1>3, <1>5, <2>1, FollowedEnds
      <3>2. \A d \in Group(rows, log, c) : dt[d] <= n
        BY <1>2
      <3> QED BY <2>1, <3>1, <3>2 DEF Heard, Newest
    <2>2. CASE x # c
      BY <1>4, <1>5, <2>2 DEF Sound
    <2> QED BY <2>1, <2>2
  <1>6. ASSUME NEW e \in Open(log)
        PROVE  IF rows[log[e].winner].into = Nobody
               THEN /\ Heard(log[e].was[1][3], Group(rows, log, log[e].winner), log, dt, su)
                    /\ Heard(log[e].was[2][3], Group(rows, log, log[e].loser), log, dt, su)
               ELSE log[e].loser \in su
    BY <1>4, <1>6 DEF Sound
  <1> QED BY <1>5, <1>6 DEF Sound

\* A merge of two companies in no open one.
LEMMA SoundMerged ==
    ASSUME NEW rows, NEW log, Ordered(log), NEW vs, NEW ds, NEW st,
           Sound(rows, log, vs, ds, st),
           NEW w \in Ids, NEW l \in Ids, w < l, rows[l].into = Nobody,
           \A e \in Open(log) : {w, l} \cap {log[e].winner, log[e].loser} = {},
           NEW after, after[l].into = w,
           \A c \in Ids \ {l} : after[c].into = rows[c].into,
           NEW longer, NEW n, n \notin DOMAIN log, DOMAIN longer = DOMAIN log \cup {n},
           \A e \in DOMAIN log : longer[e] = log[e],
           longer[n].winner = w, longer[n].loser = l,
           longer[n].clean, ~longer[n].undone,
           longer[n].was[1][3] = vs[w], longer[n].was[2][3] = vs[l],
           NEW vt, \A c \in Ids \ {w, l} : vt[c] = vs[c],
           NEW su, st \subseteq su, rows[w].into # Nobody => l \in su
    PROVE  Sound(after, longer, vt, ds, su)
  <1>1. Open(longer) = Open(log) \cup {n} /\ Open(log) \subseteq DOMAIN log
    BY DEF Open
  <1>2. Cut(after, longer) = Cut(rows, log)
    <2>1. \A c \in Ids : (\E e \in Open(longer) : longer[e].loser = c)
                             <=> c = l \/ \E e \in Open(log) : log[e].loser = c
      BY <1>1
    <2>2. \A c \in Ids :
              (IF \E e \in Open(longer) : longer[e].loser = c THEN Nobody ELSE after[c].into)
            = (IF \E e \in Open(log) : log[e].loser = c THEN Nobody ELSE rows[c].into)
      BY <2>1
    <2> QED BY <2>2 DEF Cut
  <1>3. \A x : Group(after, longer, x) = Group(rows, log, x)
    BY <1>2 DEF Group
  <1>4. \A d : Spoilt(log, st, d) => Spoilt(longer, su, d)
    BY <1>1 DEF Spoilt
  <1>5. \A v, x : Heard(v, Group(rows, log, x), log, ds, st) =>
                      Heard(v, Group(after, longer, x), longer, ds, su)
    BY <1>3, <1>4 DEF Heard
  <1>6. Nobody \notin Ids
    BY DEF Ids, Nobody
  <1>7. \A x \in {w, l} : rows[x].into = Nobody =>
            Heard(vs[x], Group(rows, log, x), log, ds, st)
    <2>1. \A e \in Open(log) : log[e].winner # w /\ log[e].winner # l
      <3> SUFFICES ASSUME NEW e \in Open(log) PROVE log[e].winner # w /\ log[e].winner # l
        OBVIOUS
      <3>1. {w, l} \cap {log[e].winner, log[e].loser} = {}
        OBVIOUS
      <3> QED BY <3>1
    <2> QED BY <2>1 DEF Sound
  <1>8. ASSUME NEW x \in Ids, after[x].into = Nobody,
               \A e \in Open(longer) : longer[e].winner # x
        PROVE  Heard(vt[x], Group(after, longer, x), longer, ds, su)
    <2>1. x \notin {w, l} /\ rows[x].into = Nobody /\ \A e \in Open(log) : log[e].winner # x
      BY <1>1, <1>6, <1>8
    <2>2. Heard(vs[x], Group(rows, log, x), log, ds, st)
      BY <2>1 DEF Sound
    <2> QED BY <1>5, <2>1, <2>2
  <1>9. ASSUME NEW e \in Open(longer)
        PROVE  IF after[longer[e].winner].into = Nobody
               THEN /\ Heard(longer[e].was[1][3], Group(after, longer, longer[e].winner),
                             longer, ds, su)
                    /\ Heard(longer[e].was[2][3], Group(after, longer, longer[e].loser),
                             longer, ds, su)
               ELSE longer[e].loser \in su
    <2>1. CASE e = n
      <3>1. w # l /\ after[w].into = rows[w].into
        BY DEF Ids
      <3>2. CASE rows[w].into # Nobody
        BY <2>1, <3>1, <3>2
      <3>3. CASE rows[w].into = Nobody
        <4>1. /\ Heard(vs[w], Group(after, longer, w), longer, ds, su)
              /\ Heard(vs[l], Group(after, longer, l), longer, ds, su)
          BY <1>5, <1>7, <3>3
        <4> QED BY <2>1, <3>1, <3>3, <4>1
      <3> QED BY <3>2, <3>3
    <2>2. CASE e # n
      <3>1. e \in Open(log) /\ e \in DOMAIN log /\ longer[e] = log[e]
        BY <1>1, <1>9, <2>2
      <3>2. /\ log[e].winner \in Ids \ {w, l}
            /\ after[log[e].winner].into = rows[log[e].winner].into
        BY <3>1 DEF Ordered
      <3>3. IF rows[log[e].winner].into = Nobody
            THEN /\ Heard(log[e].was[1][3], Group(rows, log, log[e].winner), log, ds, st)
                 /\ Heard(log[e].was[2][3], Group(rows, log, log[e].loser), log, ds, st)
            ELSE log[e].loser \in st
        BY <3>1 DEF Sound
      <3>4. CASE rows[log[e].winner].into = Nobody
        <4>1. /\ Heard(log[e].was[1][3], Group(after, longer, log[e].winner), longer, ds, su)
              /\ Heard(log[e].was[2][3], Group(after, longer, log[e].loser), longer, ds, su)
          BY <1>5, <3>3, <3>4
        <4> QED BY <3>1, <3>2, <3>4, <4>1
      <3>5. CASE rows[log[e].winner].into # Nobody
        BY <3>1, <3>2, <3>3, <3>5
      <3> QED BY <3>4, <3>5
    <2> QED BY <2>1, <2>2
  <1> QED BY <1>8, <1>9 DEF Sound

\* The undo of an open merge.
LEMMA SoundUndone ==
    ASSUME NEW rows, NEW log, Ordered(log), Linked(rows, log), NEW vs, NEW ds, NEW st,
           Sound(rows, log, vs, ds, st), NEW e \in Open(log),
           NEW after, Descends(after), after[log[e].loser].into = Nobody,
           \A c \in Ids \ {log[e].loser} : after[c].into = rows[c].into,
           NEW later, DOMAIN later = DOMAIN log, later[e].undone, later[e].clean,
           \A o \in DOMAIN log \ {e} : later[o] = log[o],
           NEW vt, vt[log[e].winner] = log[e].was[1][3], vt[log[e].loser] = log[e].was[2][3],
           \A c \in Ids \ {log[e].winner, log[e].loser} : vt[c] = vs[c]
    PROVE  Sound(after, later, vt, ds, st)
  <1> DEFINE w == log[e].winner
             l == log[e].loser
  <1>1. /\ Open(later) = Open(log) \ {e} /\ Open(log) \subseteq DOMAIN log /\ e \in DOMAIN log
        /\ \A o \in Open(later) : later[o] = log[o]
    BY DEF Open
  <1>2. w \in Ids /\ l \in Ids /\ w # l /\ after[w].into = rows[w].into
    BY <1>1 DEF Ordered, Ids
  <1>3. \A o \in Open(later) : {log[o].winner, log[o].loser} \cap {w, l} = {}
    BY <1>1 DEF Linked
  <1> HIDE DEF w, l
  <1>4. Cut(after, later) = Cut(rows, log)
    <2>1. \A c \in Ids :
              (IF \E o \in Open(later) : later[o].loser = c THEN Nobody ELSE after[c].into)
            = (IF \E o \in Open(log) : log[o].loser = c THEN Nobody ELSE rows[c].into)
      <3> SUFFICES ASSUME NEW c \in Ids
            PROVE  (IF \E o \in Open(later) : later[o].loser = c THEN Nobody ELSE after[c].into)
                 = (IF \E o \in Open(log) : log[o].loser = c THEN Nobody ELSE rows[c].into)
        OBVIOUS
      <3>1. CASE c = l
        BY <3>1 DEF l
      <3>2. CASE c # l
        <4>1. (\E o \in Open(later) : later[o].loser = c) <=> \E o \in Open(log) : log[o].loser = c
          BY <1>1, <3>2 DEF l
        <4>2. after[c].into = rows[c].into
          BY <3>2 DEF l
        <4> QED BY <4>1, <4>2
      <3> QED BY <3>1, <3>2
    <2> QED BY <2>1 DEF Cut
  <1>5. \A x : Group(after, later, x) = Group(rows, log, x)
    BY <1>4 DEF Group
  <1>6. \A d : Spoilt(log, st, d) => Spoilt(later, st, d)
    BY <1>1 DEF Spoilt, Open
  <1>7. \A v, x : Heard(v, Group(rows, log, x), log, ds, st) =>
                      Heard(v, Group(after, later, x), later, ds, st)
    BY <1>5, <1>6 DEF Heard
  <1>8. IF rows[w].into = Nobody
        THEN /\ Heard(vt[w], Group(rows, log, w), log, ds, st)
             /\ Heard(vt[l], Group(rows, log, l), log, ds, st)
        ELSE l \in st
    BY DEF Sound, w, l
  <1>9. ASSUME NEW x \in Ids, after[x].into = Nobody,
               \A o \in Open(later) : later[o].winner # x
        PROVE  Heard(vt[x], Group(after, later, x), later, ds, st)
    <2>1. CASE x = w
      BY <1>2, <1>7, <1>8, <1>9, <2>1
    <2>2. CASE x = l
      <3>1. CASE rows[w].into = Nobody
        BY <1>7, <1>8, <2>2, <3>1
      <3>2. CASE l \in st
        <4>1. \A o \in Open(later) : later[o].loser # l
          BY <1>1, <1>3
        <4>2. l \in Group(after, later, l)
          <5>1. Cut(after, later)[l].into = Nobody
            BY <1>2, <1>9, <2>2, <4>1 DEF Cut
          <5>2. Followed(Cut(after, later), l) = l
            BY <1>2, <5>1, CutDescends, FollowedEnds
          <5> QED BY <1>2, <5>2 DEF Group
        <4>3. Spoilt(later, st, l)
          BY <3>2 DEF Spoilt
        <4> QED BY <2>2, <4>2, <4>3 DEF Heard
      <3> QED BY <1>8, <3>1, <3>2
    <2>3. CASE x \notin {w, l}
      <3>1. rows[x].into = Nobody /\ vt[x] = vs[x]
        BY <1>9, <2>3 DEF w, l
      <3>2. \A o \in Open(log) : log[o].winner # x
        BY <1>1, <1>9, <2>3 DEF w
      <3>3. Heard(vs[x], Group(rows, log, x), log, ds, st)
        BY <3>1, <3>2 DEF Sound
      <3> QED BY <1>7, <3>1, <3>3
    <2> QED BY <2>1, <2>2, <2>3
  <1>10. ASSUME NEW o \in Open(later)
         PROVE  IF after[later[o].winner].into = Nobody
                THEN /\ Heard(later[o].was[1][3], Group(after, later, later[o].winner),
                              later, ds, st)
                     /\ Heard(later[o].was[2][3], Group(after, later, later[o].loser),
                              later, ds, st)
                ELSE later[o].loser \in st
    <2>1. o \in Open(log) /\ o \in DOMAIN log /\ later[o] = log[o]
      BY <1>1
    <2>2. after[log[o].winner].into = rows[log[o].winner].into
      <3>1. log[o].winner \in Ids /\ log[o].winner # l
        BY <1>3, <2>1 DEF Ordered
      <3> QED BY <3>1 DEF l
    <2>3. IF rows[log[o].winner].into = Nobody
          THEN /\ Heard(log[o].was[1][3], Group(rows, log, log[o].winner), log, ds, st)
               /\ Heard(log[o].was[2][3], Group(rows, log, log[o].loser), log, ds, st)
          ELSE log[o].loser \in st
      BY <2>1 DEF Sound
    <2>4. CASE rows[log[o].winner].into = Nobody
      <3>1. /\ Heard(log[o].was[1][3], Group(after, later, log[o].winner), later, ds, st)
            /\ Heard(log[o].was[2][3], Group(after, later, log[o].loser), later, ds, st)
        BY <1>7, <2>3, <2>4
      <3> QED BY <2>1, <2>2, <2>4, <3>1
    <2>5. CASE rows[log[o].winner].into # Nobody
      BY <2>1, <2>2, <2>3, <2>5
    <2> QED BY <2>4, <2>5
  <1> QED BY <1>9, <1>10 DEF Sound

\* The undo of another merge leaves both companies as they are.
LEMMA SoundSpoilt ==
    ASSUME NEW rows, NEW log, Ordered(log), NEW vs, NEW ds, NEW st,
           Sound(rows, log, vs, ds, st), NEW e \in DOMAIN log,
           NEW w, NEW l, w = log[e].winner, l = log[e].loser, rows[l].into = w,
           \A o \in Open(log) : {w, l} \cap {log[o].winner, log[o].loser} = {},
           NEW after, Descends(after), after[l].into = Nobody,
           \A c \in Ids \ {l} : after[c].into = rows[c].into,
           NEW later, DOMAIN later = DOMAIN log, later[e].undone, ~later[e].clean,
           later[e].winner = w, later[e].loser = l, e \notin Open(log),
           \A o \in DOMAIN log \ {e} : later[o] = log[o],
           ~log[e].undone,
           NEW vt, \A c \in Ids \ {w, l} : vt[c] = vs[c]
    PROVE  Sound(after, later, vt, ds, st)
  <1> DEFINE old == Cut(rows, log)
             new == Cut(after, later)
  <1>1. /\ Open(later) = Open(log) /\ Open(log) \subseteq DOMAIN log
        /\ \A o \in Open(log) : later[o] = log[o] /\ o # e
    BY DEF Open
  <1>2. w \in Ids /\ l \in Ids /\ w < l /\ w # l
    BY DEF Ordered, Ids
  <1>3. Descends(new)
    BY CutDescends
  <1>4. /\ new[l].into = Nobody /\ old[l].into = w
        /\ \A c \in Ids \ {l} : new[c].into = old[c].into
    <2>1. \A c \in Ids : (\E o \in Open(later) : later[o].loser = c)
                             <=> \E o \in Open(log) : log[o].loser = c
      BY <1>1
    <2>2. ~\E o \in Open(log) : log[o].loser = l
      OBVIOUS
    <2> QED BY <1>2, <2>1, <2>2 DEF Cut
  <1>5. \A x : /\ Group(rows, log, x) = {d \in Ids : Followed(old, d) = x}
               /\ Group(after, later, x) = {d \in Ids : Followed(new, d) = x}
    BY DEF Group
  <1> HIDE DEF old, new
  <1>6. /\ \A c \in Ids : Followed(old, c) = IF Followed(new, c) = l
                                             THEN Followed(new, w)
                                             ELSE Followed(new, c)
        /\ Followed(new, w) # l
        /\ Followed(new, l) = l
    BY <1>2, <1>3, <1>4, Redirected
  <1>7. Spoilt(later, st, w) /\ Spoilt(later, st, l)
    BY DEF Spoilt
  <1>8. \A d : Spoilt(log, st, d) => Spoilt(later, st, d)
    BY DEF Spoilt
  <1>9. ASSUME NEW x, {w, l} \cap Group(after, later, x) = {}
        PROVE  Group(after, later, x) = Group(rows, log, x)
    <2>1. x # l /\ x # Followed(new, w)
      BY <1>2, <1>5, <1>6, <1>9
    <2>2. \A d \in Ids : Followed(old, d) = x <=> Followed(new, d) = x
      BY <1>6, <2>1
    <2>3. /\ Group(rows, log, x) = {d \in Ids : Followed(old, d) = x}
          /\ Group(after, later, x) = {d \in Ids : Followed(new, d) = x}
      BY <1>5
    <2> QED BY <2>2, <2>3
  <1>10. ASSUME NEW x, NEW v, Heard(v, Group(rows, log, x), log, ds, st)
         PROVE  Heard(v, Group(after, later, x), later, ds, st)
    <2>1. CASE {w, l} \cap Group(after, later, x) = {}
      <3>1. Group(after, later, x) = Group(rows, log, x)
        BY <1>9, <2>1
      <3> QED BY <1>8, <1>10, <3>1 DEF Heard
    <2>2. CASE {w, l} \cap Group(after, later, x) # {}
      BY <1>7, <2>2 DEF Heard
    <2> QED BY <2>1, <2>2
  <1>11. ASSUME NEW x \in Ids, after[x].into = Nobody,
                \A o \in Open(later) : later[o].winner # x
         PROVE  Heard(vt[x], Group(after, later, x), later, ds, st)
    <2>1. CASE x \in {w, l}
      <3>1. new[x].into = Nobody
        BY <1>11 DEF Cut, new
      <3>2. x \in Group(after, later, x)
        BY <1>3, <1>5, <1>11, <3>1, FollowedEnds
      <3> QED BY <1>7, <2>1, <3>2 DEF Heard
    <2>2. CASE x \notin {w, l}
      <3>1. rows[x].into = Nobody /\ vt[x] = vs[x]
        BY <1>11, <2>2
      <3>2. \A o \in Open(log) : log[o].winner # x
        BY <1>1, <1>11
      <3>3. Heard(vs[x], Group(rows, log, x), log, ds, st)
        BY <1>11, <3>1, <3>2 DEF Sound
      <3> QED BY <1>10, <3>1, <3>3
    <2> QED BY <2>1, <2>2
  <1>12. ASSUME NEW o \in Open(later)
         PROVE  IF after[later[o].winner].into = Nobody
                THEN /\ Heard(later[o].was[1][3], Group(after, later, later[o].winner),
                              later, ds, st)
                     /\ Heard(later[o].was[2][3], Group(after, later, later[o].loser),
                              later, ds, st)
                ELSE later[o].loser \in st
    <2>1. o \in Open(log) /\ o \in DOMAIN log /\ later[o] = log[o]
      BY <1>1, <1>12
    <2>2. log[o].winner \in Ids \ {l} /\ after[log[o].winner].into = rows[log[o].winner].into
      BY <2>1 DEF Ordered
    <2>3. IF rows[log[o].winner].into = Nobody
          THEN /\ Heard(log[o].was[1][3], Group(rows, log, log[o].winner), log, ds, st)
               /\ Heard(log[o].was[2][3], Group(rows, log, log[o].loser), log, ds, st)
          ELSE log[o].loser \in st
      BY <2>1 DEF Sound
    <2>4. CASE rows[log[o].winner].into = Nobody
      <3>1. /\ Heard(log[o].was[1][3], Group(after, later, log[o].winner), later, ds, st)
            /\ Heard(log[o].was[2][3], Group(after, later, log[o].loser), later, ds, st)
        BY <1>10, <2>3, <2>4
      <3> QED BY <2>1, <2>2, <2>4, <3>1
    <2>5. CASE rows[log[o].winner].into # Nobody
      BY <2>1, <2>2, <2>3, <2>5
    <2> QED BY <2>4, <2>5
  <1> QED BY <1>11, <1>12 DEF Sound

\* Of rows, only where they point matters.
LEMMA SamePointers ==
    ASSUME NEW rows, NEW after, \A c \in Ids : after[c].into = rows[c].into,
           NEW log, Ordered(log)
    PROVE  /\ Linked(rows, log) => Linked(after, log)
           /\ \A vs, ds, st : Sound(rows, log, vs, ds, st) => Sound(after, log, vs, ds, st)
  <1>1. Cut(after, log) = Cut(rows, log)
    BY DEF Cut
  <1>2. \A x : Group(after, log, x) = Group(rows, log, x)
    BY <1>1 DEF Group
  <1>3. \A e \in DOMAIN log : /\ after[log[e].loser].into = rows[log[e].loser].into
                              /\ after[log[e].winner].into = rows[log[e].winner].into
    BY DEF Ordered
  <1>4. Open(log) \subseteq DOMAIN log
    BY DEF Open
  <1> QED BY <1>2, <1>3, <1>4 DEF Linked, Sound

\* What the other invariants say of decisions.
LEMMA DecisionFacts ==
    ASSUME IdentityTyped, CleanInv, DecidedInv
    PROVE  /\ Settled(events, verdict)
           /\ Counted(events, verdict, decided)
           /\ Ordered(events)
           /\ Descends(company)
           /\ verdict \in [Ids -> Nat] /\ decided \in [Ids -> Nat]
           /\ \A e \in DOMAIN events : events[e].was[1][3] \in Nat /\ events[e].was[2][3] \in Nat
  <1>1. ASSUME NEW e \in Open(events)
        PROVE  verdict[events[e].winner] = IF events[e].decision
                                           THEN events[e].was[2][3]
                                           ELSE events[e].was[1][3]
    <2>1. Merged(events[e], company, keys, verdict, founders)
      BY <1>1 DEF CleanInv, Open
    <2> QED BY <2>1 DEF Merged, MergedVerdicts
  <1>2. verdict \in [Ids -> Nat] /\ decided \in [Ids -> Nat]
    BY TypedFacts, SizesAreNatural DEF DecidedInv
  <1>3. ASSUME NEW e \in DOMAIN events
        PROVE  events[e].was[1][3] \in Nat /\ events[e].was[2][3] \in Nat
    <2>1. events[e] \in AnEvent
      BY TypedFacts DEF LogFits
    <2>2. events[e].was[1] \in ARecord /\ events[e].was[2] \in ARecord
      BY <2>1 DEF AnEvent
    <2> QED BY <2>2, SizesAreNatural DEF ARecord
  <1> QED BY <1>1, <1>2, <1>3, LogIsOrdered, RowsDescend DEF Settled, Counted

LEMMA PlainLoosens ==
    ASSUME IdentityTyped,
           \/ events' = events
           \/ \E ids : events' = Touch(events, ids)
           \/ \E p \in People : ForgetPerson(p)
    PROVE  Loosened(events, events')
  <1>1. CASE events' = events
    BY <1>1 DEF Loosened, Kept
  <1>2. CASE \E ids : events' = Touch(events, ids)
    BY <1>2, TouchedLog DEF Loosened
  <1>3. CASE \E p \in People : ForgetPerson(p)
    BY <1>3, ForgetEvents DEF Loosened
  <1> QED BY <1>1, <1>2, <1>3

LEMMA QuietNewest ==
    ASSUME IdentityTyped, CleanInv, NewestInv, Loosened(events, events'), PointersKept,
           verdict' = verdict, decided' = decided, stale' = stale,
           facts' \in Nat, facts <= facts'
    PROVE  NewestInv'
  <1>1. /\ Linked(company, events) /\ DecidedInv
        /\ Sound(company, events, verdict, decided, stale)
    BY DEF NewestInv
  <1>2. /\ Linked(company, events') /\ Sound(company, events', verdict, decided, stale)
    BY <1>1, DecisionFacts, LinkedStays, SoundLoosened
  <1>3. Ordered(events')
    BY <1>1, DecisionFacts DEF Ordered, Loosened, Kept
  <1>4. /\ Linked(company', events') /\ Sound(company', events', verdict, decided, stale)
    BY <1>2, <1>3, SamePointers DEF PointersKept
  <1>5. DecidedInv'
    BY <1>1, TypedFacts DEF DecidedInv
  <1> QED BY <1>4, <1>5 DEF NewestInv

LEMMA DecideNewest ==
    ASSUME IdentityTyped, CleanInv, NewestInv, NEW c \in Ids, Decide(c)
    PROVE  NewestInv'
  <1>1. /\ Linked(company, events) /\ DecidedInv
        /\ Sound(company, events, verdict, decided, stale)
    BY DEF NewestInv
  <1>2. /\ events' = Touch(events, {c}) /\ company' = company /\ facts' = facts + 1
        /\ verdict' = [verdict EXCEPT ![c] = facts'] /\ decided' = [decided EXCEPT ![c] = facts']
        /\ stale' = stale \cup ({c} \ Live) /\ c \in Rows
    BY DEF Decide
  <1>3. Loosened(events, events')
    BY <1>2, PlainLoosens
  <1>4. /\ Linked(company, events') /\ Sound(company, events', verdict, decided, stale)
    BY <1>1, <1>3, DecisionFacts, LinkedStays, SoundLoosened
  <1>5. Ordered(events')
    BY <1>1, <1>3, DecisionFacts DEF Ordered, Loosened, Kept
  <1>6. ASSUME NEW e \in Open(events') PROVE c \notin {events'[e].winner, events'[e].loser}
    <2>1. /\ DOMAIN events' = DOMAIN events
          /\ \A o \in DOMAIN events :
                /\ Kept(events'[o], events[o])
                /\ events'[o].clean /\ ~events'[o].undone =>
                       {events[o].winner, events[o].loser} \cap {c} = {}
      BY <1>2, TouchedLog
    <2>2. e \in DOMAIN events /\ events'[e].clean /\ ~events'[e].undone
      BY <1>6, <2>1 DEF Open
    <2>3. {events[e].winner, events[e].loser} \cap {c} = {}
      BY <2>1, <2>2
    <2>4. events'[e].winner = events[e].winner /\ events'[e].loser = events[e].loser
      BY <2>1, <2>2 DEF Kept
    <2> QED BY <2>3, <2>4
  <1>7. facts \in Nat /\ verdict \in [Ids -> Nat] /\ decided \in [Ids -> 0 .. facts]
    BY <1>1, TypedFacts, DecisionFacts DEF DecidedInv
  <1>8. company[c].into # Nobody => c \in stale'
    BY <1>2 DEF Live
  <1>9. Descends(company)
    BY RowsDescend
  <1>10. /\ verdict'[c] = facts + 1 /\ \A d \in Ids \ {c} : verdict'[d] = verdict[d]
         /\ decided'[c] = facts + 1 /\ \A d \in Ids \ {c} : decided'[d] = decided[d]
         /\ \A d \in Ids : decided[d] \in 0 .. facts + 1
         /\ facts + 1 \in Nat /\ stale \subseteq stale'
    BY <1>2, <1>7
  <1>11. Sound(company, events', verdict', decided', stale')
    BY <1>4, <1>5, <1>6, <1>8, <1>9, <1>10, SoundDecided
  <1>12. DecidedInv'
    BY <1>2, <1>7 DEF DecidedInv
  <1> QED BY <1>2, <1>4, <1>11, <1>12 DEF NewestInv

LEMMA MergeNewest ==
    ASSUME IdentityTyped, CleanInv, NewestInv, NEW q \in queue, ApproveReview(q)
    PROVE  NewestInv'
  <1> DEFINE w == q.winner
             l == q.loser
             ev == Evidence(w, l, q.rule)
             n == Len(events) + 1
             log == Touch(events, {w, l})
  <1>1. /\ Linked(company, events) /\ DecidedInv
        /\ Sound(company, events, verdict, decided, stale)
    BY DEF NewestInv
  <1>2. /\ w \in Rows /\ l \in Rows /\ w < l /\ w \in Ids /\ l \in Ids
        /\ q.rule \in Rules /\ MergeCompanies(w, l, q.rule)
        /\ IsEvidence(ev, w, l)
        /\ n \notin DOMAIN events /\ DOMAIN events' = DOMAIN events \cup {n}
        /\ events'[n] = ev
    BY MergedLog
  <1>3. \A e \in DOMAIN events : events'[e] = log[e]
    BY <1>2, MergedLog, MergeEvents
  <1>4. /\ company[l].into = Nobody /\ company'[l].into = w
        /\ \A c \in Ids \ {l} : company'[c].into = company[c].into
    <2> HIDE DEF w, l, ev, n, log
    <2>1. /\ company[l].into = Nobody /\ company'[l].into = w
          /\ company'[w].into = company[w].into
          /\ \A c \in Ids \ {w, l} : company'[c] = company[c]
      BY <1>2, MergeRows
    <2> QED BY <2>1
  <1>5. /\ decided' = decided /\ facts' = facts
        /\ stale' = IF w \in Live THEN stale ELSE stale \cup {l}
        /\ verdict' = [verdict EXCEPT ![w] = IF ev.decision THEN verdict[l] ELSE verdict[w],
                                      ![l] = NoVerdict]
    BY <1>2 DEF MergeCompanies
  <1>6. /\ log \in Seq(AnEvent) /\ DOMAIN log = DOMAIN events
        /\ Loosened(events, log)
        /\ \A e \in Open(log) : {w, l} \cap {log[e].winner, log[e].loser} = {}
    <2>1. events \in Seq(AnEvent)
      BY TypedFacts DEF LogFits
    <2>2. /\ log \in Seq(AnEvent) /\ Len(log) = Len(events)
          /\ \A e \in DOMAIN events :
                /\ Kept(log[e], events[e])
                /\ log[e].undone <=> events[e].undone
                /\ events[e].undone => log[e] = events[e]
                /\ log[e].clean => events[e].clean
                /\ log[e].clean /\ ~log[e].undone => {log[e].winner, log[e].loser} \cap {w, l} = {}
      BY <2>1, TouchKeeps
    <2> HIDE DEF log
    <2>3. DOMAIN log = DOMAIN events
      BY <2>1, <2>2
    <2> QED BY <2>2, <2>3 DEF Loosened, Open
  <1> HIDE DEF log
  <1>7. Linked(company, log) /\ Sound(company, log, verdict, decided, stale)
    BY <1>1, <1>6, DecisionFacts, LinkedStays, SoundLoosened
  <1>8. Ordered(log)
    BY <1>1, <1>6, DecisionFacts DEF Ordered, Loosened, Kept
  <1>9. /\ ev.winner = w /\ ev.loser = l /\ ev.clean /\ ~ev.undone
        /\ ev.was[1][3] = verdict[w] /\ ev.was[2][3] = verdict[l]
        /\ ev.decision <=> verdict[w] < verdict[l]
    <2>1. ev.decision <=> verdict[l] # NoVerdict /\ verdict[l] > verdict[w]
      BY <1>2 DEF IsEvidence, DecisionMoves
    <2>2. verdict[w] \in Nat /\ verdict[l] \in Nat
      BY <1>1, <1>2, DecisionFacts
    <2>3. ev.was = <<Record(w), Record(l)>>
      BY <1>2 DEF IsEvidence
    <2>4. ev.was[1][3] = verdict[w] /\ ev.was[2][3] = verdict[l]
      BY <2>3 DEF Record
    <2>5. ev.winner = w /\ ev.loser = l /\ ev.clean /\ ~ev.undone
      BY <1>2 DEF IsEvidence
    <2> HIDE DEF ev, w, l
    <2> QED BY <2>1, <2>2, <2>4, <2>5 DEF NoVerdict
  <1>10. company[w].into # Nobody => l \in stale'
    BY <1>5 DEF Live
  <1>11. \A c \in Ids \ {w, l} : verdict'[c] = verdict[c]
    BY <1>5, TypedFacts
  <1>12. stale \subseteq stale'
    BY <1>5
  <1> HIDE DEF w, l, ev, n
  <1>13. Sound(company', events', verdict', decided, stale')
    <2>1. n \notin DOMAIN log /\ DOMAIN events' = DOMAIN log \cup {n}
      BY <1>2, <1>6
    <2>2. \A e \in DOMAIN log : events'[e] = log[e]
      BY <1>3, <1>6
    <2>3. /\ events'[n].winner = w /\ events'[n].loser = l
          /\ events'[n].clean /\ ~events'[n].undone
          /\ events'[n].was[1][3] = verdict[w] /\ events'[n].was[2][3] = verdict[l]
      BY <1>2, <1>9
    <2>4. \A e \in Open(log) : {w, l} \cap {log[e].winner, log[e].loser} = {}
      BY <1>6
    <2> QED BY <1>2, <1>4, <1>7, <1>8, <1>10, <1>11, <1>12, <2>1, <2>2, <2>3, <2>4, SoundMerged
  <1>14. Linked(company', events')
    <2>1. \A e \in DOMAIN log : ~log[e].undone => log[e].loser # l
      BY <1>4, <1>7, <1>8 DEF Linked, Ordered, Ids, Nobody
    <2>2. \A e \in DOMAIN events' : ~events'[e].undone =>
              company'[events'[e].loser].into = events'[e].winner
      BY <1>2, <1>3, <1>4, <1>6, <1>7, <1>8, <1>9, <2>1 DEF Linked, Ordered
    <2>3. \A e, f \in DOMAIN events' :
             e # f /\ ~events'[e].undone /\ ~events'[f].undone =>
                 events'[e].loser # events'[f].loser
      BY <1>2, <1>3, <1>6, <1>7, <1>9, <2>1 DEF Linked
    <2>4. Open(events') = Open(log) \cup {n} /\ Open(log) \subseteq DOMAIN events
      BY <1>2, <1>3, <1>6, <1>9 DEF Open
    <2>5. \A e, f \in Open(events') : e # f =>
              {events'[e].winner, events'[e].loser}
                  \cap {events'[f].winner, events'[f].loser} = {}
      BY <1>2, <1>3, <1>6, <1>7, <1>9, <2>4 DEF Linked
    <2>6. \A e \in DOMAIN events' :
              events'[e].decision <=> events'[e].was[1][3] < events'[e].was[2][3]
      BY <1>2, <1>3, <1>6, <1>7, <1>9 DEF Linked
    <2> QED BY <2>2, <2>3, <2>5, <2>6 DEF Linked
  <1>15. DecidedInv'
    BY <1>1, <1>5 DEF DecidedInv
  <1> QED BY <1>5, <1>13, <1>14, <1>15 DEF NewestInv


\* Before an undo is made, the merges it writes to are open no more.
UndoneLog(e) == [o \in DOMAIN events |-> IF o = e THEN events[e] ELSE events'[o]]

LEMMA UndoneLoosens ==
    ASSUME IdentityTyped, NEW e \in DOMAIN events, Unmerge(e)
    PROVE  /\ Loosened(events, UndoneLog(e))
           /\ DOMAIN UndoneLog(e) = DOMAIN events /\ DOMAIN events' = DOMAIN events
           /\ UndoneLog(e)[e] = events[e] /\ ~events[e].undone
           /\ \A o \in DOMAIN events \ {e} : events'[o] = UndoneLog(e)[o]
           /\ events'[e].undone /\ (events'[e].clean <=> events[e].clean)
           /\ events'[e].winner = events[e].winner /\ events'[e].loser = events[e].loser
           /\ events'[e].was = events[e].was /\ (events'[e].decision <=> events[e].decision)
           /\ \A o \in DOMAIN events \ {e} : events'[o].clean /\ ~events'[o].undone =>
                 {events[e].winner, events[e].loser}
                     \cap {events'[o].winner, events'[o].loser} = {}
  <1> DEFINE log == UndoneLog(e)
  <1>1. /\ DOMAIN events' = DOMAIN events
        /\ \A o \in DOMAIN events :
              /\ Kept(events'[o], events[o])
              /\ events'[o].undone <=> (events[o].undone \/ o = e)
              /\ events[o].undone => events'[o] = events[o]
              /\ events'[o].clean => events[o].clean
              /\ events'[o].clean /\ ~events'[o].undone =>
                    {events[o].winner, events[o].loser} \cap Written(e) = {}
        /\ events'[e].clean <=> events[e].clean
    BY UndoneEvents
  <1>2. ~events[e].undone
    BY DEF Unmerge
  <1>3. /\ DOMAIN log = DOMAIN events
        /\ \A o \in DOMAIN events : log[o] = IF o = e THEN events[e] ELSE events'[o]
    BY DEF UndoneLog
  <1> HIDE DEF log
  <1>4. Loosened(events, log)
    <2>1. ASSUME NEW o \in DOMAIN events
          PROVE  /\ Kept(log[o], events[o])
                 /\ log[o].undone <=> events[o].undone
                 /\ log[o].clean => events[o].clean
                 /\ events[o].undone /\ events[o].clean => log[o].clean
      <3>1. CASE o = e
        BY <1>3, <3>1 DEF Kept
      <3>2. CASE o # e
        <4>1. log[o] = events'[o]
          BY <1>3, <3>2
        <4> QED BY <1>1, <3>2, <4>1
      <3> QED BY <3>1, <3>2
    <2> QED BY <1>3, <2>1 DEF Loosened
  <1>5. ASSUME NEW o \in DOMAIN events \ {e}, events'[o].clean, ~events'[o].undone
        PROVE  {events[e].winner, events[e].loser}
                   \cap {events'[o].winner, events'[o].loser} = {}
    <2>1. {events[o].winner, events[o].loser} \cap Written(e) = {}
      BY <1>1, <1>5
    <2>2. events'[o].winner = events[o].winner /\ events'[o].loser = events[o].loser
      BY <1>1 DEF Kept
    <2> QED BY <2>1, <2>2 DEF Written
  <1>6. /\ events'[e].winner = events[e].winner /\ events'[e].loser = events[e].loser
        /\ events'[e].was = events[e].was /\ (events'[e].decision <=> events[e].decision)
        /\ events'[e].undone
    BY <1>1 DEF Kept
  <1> QED BY <1>1, <1>2, <1>3, <1>4, <1>5, <1>6 DEF log

LEMMA UndoNewest ==
    ASSUME IdentityTyped, IdentityTyped', RowsInv, KeptInv, CleanInv, NewestInv,
           NEW e \in DOMAIN events, Unmerge(e)
    PROVE  NewestInv'
  <1> DEFINE log == UndoneLog(e)
             w == events[e].winner
             l == events[e].loser
  <1>1. /\ Linked(company, events) /\ DecidedInv
        /\ Sound(company, events, verdict, decided, stale)
    BY DEF NewestInv
  <1>2. /\ Loosened(events, log)
        /\ DOMAIN log = DOMAIN events /\ DOMAIN events' = DOMAIN events
        /\ log[e] = events[e] /\ ~events[e].undone
        /\ \A o \in DOMAIN events \ {e} : events'[o] = log[o]
        /\ events'[e].undone /\ (events'[e].clean <=> events[e].clean)
        /\ events'[e].winner = w /\ events'[e].loser = l
        /\ events'[e].was = events[e].was /\ (events'[e].decision <=> events[e].decision)
        /\ \A o \in DOMAIN events \ {e} : events'[o].clean /\ ~events'[o].undone =>
              {w, l} \cap {events'[o].winner, events'[o].loser} = {}
    BY UndoneLoosens
  <1>3. /\ w \in Ids /\ l \in Ids /\ w < l
        /\ company'[l].into = Nobody /\ company[l].into = w
        /\ \A c \in Ids \ {l} : company'[c].into = company[c].into
    BY UndoMoves
  <1>4. verdict' = DecisionsBack(verdict, events[e], w, l)
    BY UndoSets DEF UndoWrites
  <1>5. \A c \in Ids \ {w, l} : verdict'[c] = verdict[c]
    BY <1>3, <1>4, TypedFacts DEF DecisionsBack
  <1>6. Descends(company) /\ Descends(company')
    <2>1. Descends(company)
      BY RowsDescend
    <2>2. (IdentityTyped => Descends(company))'
      BY RowsDescend, PTL
    <2> QED BY <2>1, <2>2
  <1>7. UNCHANGED <<decided, stale, facts>>
    BY DEF Unmerge
  <1>8. events[e].clean => /\ verdict'[w] = events[e].was[1][3]
                           /\ verdict'[l] = events[e].was[2][3]
    <2> SUFFICES ASSUME events[e].clean
                 PROVE  verdict'[w] = events[e].was[1][3] /\ verdict'[l] = events[e].was[2][3]
      OBVIOUS
    <2>1. /\ <<company'[w], KeysAt(keys', w), verdict'[w], PeopleAt(founders', w)>>
                 = events[e].was[1]
          /\ <<company'[l], KeysAt(keys', l), verdict'[l], PeopleAt(founders', l)>>
                 = events[e].was[2]
      BY UndoExact
    <2> QED BY <2>1
  <1> HIDE DEF log, w, l
  <1>9. Linked(company, log) /\ Sound(company, log, verdict, decided, stale)
    BY <1>1, <1>2, DecisionFacts, LinkedStays, SoundLoosened
  <1>10. Ordered(log)
    BY <1>1, <1>2, DecisionFacts DEF Ordered, Loosened, Kept
  <1>11. log[e].winner = w /\ log[e].loser = l /\ log[e].was = events[e].was
    BY <1>2 DEF w, l
  <1>12. Sound(company', events', verdict', decided, stale)
    <2>1. CASE events[e].clean
      <3>1. e \in Open(log)
        BY <1>2, <2>1 DEF Open
      <3>2. /\ company'[log[e].loser].into = Nobody
            /\ \A c \in Ids \ {log[e].loser} : company'[c].into = company[c].into
            /\ DOMAIN events' = DOMAIN log /\ events'[e].undone /\ events'[e].clean
            /\ \A o \in DOMAIN log \ {e} : events'[o] = log[o]
            /\ verdict'[log[e].winner] = log[e].was[1][3]
            /\ verdict'[log[e].loser] = log[e].was[2][3]
            /\ \A c \in Ids \ {log[e].winner, log[e].loser} : verdict'[c] = verdict[c]
        BY <1>2, <1>3, <1>5, <1>8, <1>11, <2>1
      <3> QED BY <1>6, <1>9, <1>10, <3>1, <3>2, SoundUndone
    <2>2. CASE ~events[e].clean
      <3>1. e \notin Open(log) /\ e \in DOMAIN log /\ ~log[e].undone
        BY <1>2, <2>2 DEF Open
      <3>2. \A o \in Open(log) : {w, l} \cap {log[o].winner, log[o].loser} = {}
        <4> SUFFICES ASSUME NEW o \in Open(log)
                     PROVE  {w, l} \cap {log[o].winner, log[o].loser} = {}
          OBVIOUS
        <4>1. o \in DOMAIN events \ {e} /\ log[o].clean /\ ~log[o].undone
          BY <1>2, <3>1 DEF Open
        <4>2. events'[o] = log[o]
          BY <1>2, <4>1
        <4> QED BY <1>2, <4>1, <4>2
      <3>3. /\ DOMAIN events' = DOMAIN log /\ events'[e].undone /\ ~events'[e].clean
            /\ \A o \in DOMAIN log \ {e} : events'[o] = log[o]
            /\ events'[e].winner = w /\ events'[e].loser = l
        BY <1>2, <2>2
      <3> QED BY <1>3, <1>5, <1>6, <1>9, <1>10, <1>11, <3>1, <3>2, <3>3, SoundSpoilt
    <2> QED BY <2>1, <2>2
  <1>13. Linked(company', events')
    <2>1. Open(events') \subseteq Open(log)
      BY <1>2 DEF Open
    <2>2. \A o \in DOMAIN events' : ~events'[o].undone => o # e /\ events'[o] = log[o]
      BY <1>2
    <2>3. ASSUME NEW o \in DOMAIN events', ~events'[o].undone
          PROVE  company'[events'[o].loser].into = events'[o].winner
      <3>1. o # e /\ events'[o] = log[o] /\ o \in DOMAIN log /\ ~log[o].undone
        BY <1>2, <2>2, <2>3
      <3>2. log[o].loser # l /\ log[o].loser \in Ids
        BY <1>2, <1>9, <1>10, <1>11, <3>1 DEF Linked, Ordered
      <3>3. company[log[o].loser].into = log[o].winner
        BY <1>9, <3>1 DEF Linked
      <3> QED BY <1>3, <3>1, <3>2, <3>3
    <2>4. \A o, f \in DOMAIN events' :
             o # f /\ ~events'[o].undone /\ ~events'[f].undone =>
                 events'[o].loser # events'[f].loser
      BY <1>2, <1>9, <2>2 DEF Linked
    <2>5. \A o \in Open(events') : o \in Open(log) /\ events'[o] = log[o]
      BY <2>1, <2>2 DEF Open
    <2>6. \A o, f \in Open(events') : o # f =>
              {events'[o].winner, events'[o].loser}
                  \cap {events'[f].winner, events'[f].loser} = {}
      BY <1>9, <2>5 DEF Linked
    <2>7. \A o \in DOMAIN events' :
              events'[o].decision <=> events'[o].was[1][3] < events'[o].was[2][3]
      <3> SUFFICES ASSUME NEW o \in DOMAIN events'
                   PROVE  events'[o].decision <=> events'[o].was[1][3] < events'[o].was[2][3]
        OBVIOUS
      <3>1. CASE o = e
        BY <1>1, <1>2, <3>1 DEF Linked
      <3>2. CASE o # e
        <4>1. o \in DOMAIN log /\ events'[o] = log[o]
          BY <1>2, <3>2
        <4> QED BY <1>9, <4>1 DEF Linked
      <3> QED BY <3>1, <3>2
    <2> QED BY <2>3, <2>4, <2>6, <2>7 DEF Linked
  <1>14. DecidedInv'
    BY <1>1, <1>7 DEF DecidedInv
  <1> QED BY <1>7, <1>12, <1>13, <1>14 DEF NewestInv

LEMMA NewestStep ==
    ASSUME IdentityTyped, IdentityTyped', RowsInv, KeptInv, CleanInv, NewestInv, [Next]_vars
    PROVE  NewestInv'
  <1>1. ASSUME NEW q \in queue, ApproveReview(q) PROVE NewestInv'
    BY <1>1, MergeNewest
  <1>2. ASSUME NEW e \in DOMAIN events, Unmerge(e) PROVE NewestInv'
    BY <1>2, UndoNewest
  <1>3. ASSUME NEW c \in Ids, Decide(c) PROVE NewestInv'
    BY <1>3, DecideNewest
  <1>4. facts \in Nat /\ facts <= facts + 1 /\ facts + 1 \in Nat
    BY TypedFacts
  <1>5. ASSUME NEW m \in Mentions, ResolveItem(m) \/ SweepItem(m) PROVE NewestInv'
    <2>1. PointersKept
      BY <1>5, ReadMoves
    <2>2. events' = events \/ \E ids : events' = Touch(events, ids)
      BY <1>5, PlainLog
    <2>3. Loosened(events, events')
      BY <2>2, PlainLoosens
    <2>4. UNCHANGED <<verdict, decided, stale, facts>>
      BY <1>5 DEF ResolveItem, UpsertRecord, Resolved, SweepItem
    <2> QED BY <1>4, <2>1, <2>3, <2>4, QuietNewest
  <1>6. CASE \/ \E c \in Ids, number \in Numbers : VerifyCrn(c, number)
             \/ \E q \in queue : DismissReview(q)
             \/ \E c \in Ids, p \in People : StoreFounder(c, p)
             \/ \E p \in People : ForgetPerson(p)
             \/ UNCHANGED vars
    <2>1. PointersKept
      BY <1>6, OthersStay
    <2>2. \/ events' = events
          \/ \E ids : events' = Touch(events, ids)
          \/ \E p \in People : ForgetPerson(p)
      BY <1>6, PlainLog DEF vars, stored
    <2>3. Loosened(events, events')
      BY <2>2, PlainLoosens
    <2>4. UNCHANGED <<verdict, decided, stale>> /\ facts' \in {facts, facts + 1}
      BY <1>6 DEF VerifyCrn, DismissReview, StoreFounder, ForgetPerson, vars, stored
    <2> QED BY <1>4, <2>1, <2>3, <2>4, QuietNewest
  <1> QED BY <1>1, <1>2, <1>3, <1>5, <1>6 DEF Next

\* With every company written to, no merge is open, and what ends at a row is its
\* family.
LEMMA NewestHeard ==
    ASSUME IdentityTyped, CleanInv, NewestInv
    PROVE  NewestDecisionSurvives
  <1> DEFINE log == Touch(events, Ids)
  <1>1. /\ Linked(company, events) /\ DecidedInv
        /\ Sound(company, events, verdict, decided, stale)
    BY DEF NewestInv
  <1>2. /\ Loosened(events, log) /\ Open(log) = {}
    <2>1. events \in Seq(AnEvent)
      BY TypedFacts DEF LogFits
    <2>2. /\ log \in Seq(AnEvent) /\ Len(log) = Len(events)
          /\ \A e \in DOMAIN events :
                /\ Kept(log[e], events[e])
                /\ log[e].undone <=> events[e].undone
                /\ events[e].undone => log[e] = events[e]
                /\ log[e].clean => events[e].clean
                /\ log[e].clean /\ ~log[e].undone => {log[e].winner, log[e].loser} \cap Ids = {}
      BY <2>1, TouchKeeps
    <2> HIDE DEF log
    <2>3. DOMAIN log = DOMAIN events
      BY <2>1, <2>2
    <2>4. \A e \in DOMAIN events : log[e].winner \in Ids
      BY <1>1, <2>2, DecisionFacts DEF Kept, Ordered
    <2> QED BY <2>2, <2>3, <2>4 DEF Loosened, Open
  <1> HIDE DEF log
  <1>3. Sound(company, log, verdict, decided, stale)
    BY <1>1, <1>2, DecisionFacts, SoundLoosened
  <1>4. Descends(company) /\ Descends(Cut(company, log))
    BY RowsDescend, CutDescends
  <1>5. \A c \in Ids : Cut(company, log)[c].into = company[c].into
    BY <1>2 DEF Cut
  <1>6. \A c \in Ids : Followed(Cut(company, log), c) = Followed(company, c)
    BY <1>4, <1>5, SameEnds
  <1>7. \A st, d : Spoilt(log, st, d) <=> Spoilt(events, st, d)
    BY <1>2, OpenLess
  <1>8. SUFFICES ASSUME NEW c \in Live
                 PROVE  \/ Family(c) \cap stale # {}
                        \/ \E d \in Family(c) : \E e \in Undoings(d) : ~events[e].clean
                        \/ /\ \A d \in Family(c) : decided[d] <= verdict[c]
                           /\ verdict[c] \in {NoVerdict} \cup {decided[d] : d \in Family(c)}
    BY DEF NewestDecisionSurvives
  <1>9. c \in Ids /\ c \in Rows /\ company[c].into = Nobody /\ c <= made
    BY TypedFacts DEF Live
  <1>10. Group(company, log, c) = Family(c)
    <2>1. Family(c) = {d \in Rows : Followed(company, d) = c}
      BY CanonicalIsFollowed DEF Family
    <2>2. Group(company, log, c) = {d \in Ids : Followed(Cut(company, log), d) = c}
      BY DEF Group
    <2>3. ASSUME NEW d \in Ids, Followed(company, d) = c PROVE d \in Rows
      <3> SUFFICES ASSUME d \notin Rows PROVE FALSE
        OBVIOUS
      <3>1. ~(d <= made)
        BY TypedFacts
      <3>2. company[d].into = Nobody
        BY <3>1 DEF IdentityTyped, Pointers
      <3>3. Followed(company, d) = d
        BY <1>4, <3>2, FollowedEnds
      <3> QED BY <1>9, <2>3, <3>1, <3>3
    <2> QED BY <1>6, <2>1, <2>2, <2>3, TypedFacts
  <1>11. Heard(verdict[c], Family(c), log, decided, stale)
    BY <1>2, <1>3, <1>9, <1>10 DEF Sound
  <1>12. ASSUME NEW d \in Family(c), Spoilt(log, stale, d)
         PROVE  \/ Family(c) \cap stale # {}
                \/ \E x \in Family(c) : \E e \in Undoings(x) : ~events[e].clean
    <2>1. Spoilt(events, stale, d)
      BY <1>7, <1>12
    <2> QED BY <2>1 DEF Spoilt, Undoings
  <1>13. CASE Newest(verdict[c], Family(c), decided)
    BY <1>13 DEF Newest
  <1> QED BY <1>11, <1>12, <1>13 DEF Heard

\* A live company carries the newest decision made about it or about any company
\* merged into it, through merges of merged companies and undos in any order, as
\* long as no undo gave back what had been written to since.
THEOREM NewestDecisionStays == Spec => []NewestDecisionSurvives
  <1> DEFINE IInv == IdentityTyped /\ RowsInv /\ KeptInv /\ CleanInv /\ NewestInv
  <1>1. Init => IInv
    <2> SUFFICES ASSUME Init PROVE IInv
      OBVIOUS
    <2>1. IdentityTyped /\ RowsInv /\ KeptInv /\ CleanInv
      BY InitTyped DEF Init, RowsInv, Distinct, KeptInv, CleanInv
    <2>2. /\ events = <<>> /\ facts = 0 /\ \A c \in Ids : company[c].into = Nobody
          /\ verdict = [c \in Ids |-> NoVerdict] /\ decided = [c \in Ids |-> NoVerdict]
      BY DEF Init, NoRow
    <2>3. DOMAIN events = {} /\ Open(events) = {}
      BY <2>2 DEF Open
    <2>4. Linked(company, events)
      BY <2>3 DEF Linked
    <2>5. DecidedInv
      BY <2>2 DEF DecidedInv, NoVerdict
    <2>6. ASSUME NEW c \in Ids
          PROVE  Heard(verdict[c], Group(company, events, c), events, decided, stale)
      <3>1. \A d \in Group(company, events, c) : decided[d] <= verdict[c]
        BY <2>2 DEF Group, NoVerdict
      <3>2. verdict[c] = NoVerdict
        BY <2>2
      <3> QED BY <3>1, <3>2 DEF Heard, Newest
    <2>7. Sound(company, events, verdict, decided, stale)
      BY <2>3, <2>6 DEF Sound
    <2> QED BY <2>1, <2>4, <2>5, <2>7 DEF NewestInv
  <1>2. IInv /\ [Next]_vars => IInv'
    BY StepTyped, RowsStep, KeptStep, CleanStep, NewestStep
  <1>3. IInv => NewestDecisionSurvives
    BY NewestHeard
  <1> QED BY <1>1, <1>2, <1>3, PTL DEF Spec
=============================================================================
