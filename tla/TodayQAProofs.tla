--------------------------- MODULE TodayQAProofs -----------------------------
(***************************************************************************)
(* Theorems about TodayQA, for every set of companies, texts and passes,   *)
(* every limit and every bound.                                            *)
(***************************************************************************)
EXTENDS TodayQA, TLAPS

------------------------------------------------------------------------------
(* Types                                                                    *)

\* A pass that is not idle is a Busy record.
LEMMA BusyPass ==
    ASSUME TypeOK, NEW p \in Passes, pass[p] # Idle
    PROVE  /\ pass[p] \in Busy
           /\ Company(p) \in Companies /\ Text(p) \in Cards
  BY DEF TypeOK, Busy, Company, Text

\* A process that has a stage to go through is not idle.
LEMMA NotIdle ==
    ASSUME NEW p \in Passes, pass[p].pc # "idle"
    PROVE  pass[p] # Idle
  BY DEF Idle

\* record_check leaves well-formed rows.
LEMMA WriteType ==
    ASSUME TypeOK, NEW c \in Companies, NEW h \in Cards,
           NEW verdict \in Verdicts, NEW checker \in Checkers,
           Write(c, h, verdict, checker)
    PROVE  /\ checks' \in [Companies -> [Cards -> MaybeCheck]]
           /\ newest' \in [Companies -> Cards \cup {None}]
  <1>1. [verdict |-> verdict, checker |-> checker, at |-> now] \in MaybeCheck
    BY DEF TypeOK, MaybeCheck, Checks
  <1> QED BY <1>1 DEF TypeOK, Write

\* The loop leaves a well-formed pass.
LEMMA AdvanceType ==
    ASSUME TypeOK, NEW p \in Passes, pass[p] # Idle,
           NEW failures \in 0..MaxFailures, Advance(p, failures)
    PROVE  /\ pass' \in [Passes -> Busy \cup {Idle}]
           /\ \A q \in Passes \ {p} : pass'[q] = pass[q]
           /\ pass'[p] # Idle => /\ pass'[p].pc = "next" /\ pass'[p].cached = None
                                /\ pass'[p].texts = pass[p].texts
  <1>1. pass[p] \in Busy
    BY BusyPass
  <1>2. ASSUME NEW c \in pass[p].left
        PROVE  AtCard(pass[p], c, failures) \in Busy
    <2>1. c \in Companies /\ (pass[p].left \ {c}) \in SUBSET Companies
      BY <1>1 DEF Busy
    <2>2. 0 \in Times /\ None \in MaybeCheck /\ "unknown" \in LinkStates /\ "next" \in Stages
      BY ConstantsAssumption DEF Times, MaybeCheck, LinkStates, Stages
    <2> QED BY <1>1, <2>1, <2>2 DEF AtCard, Busy
  <1>3. ASSUME NEW c \in pass[p].left
        PROVE  /\ AtCard(pass[p], c, failures).pc = "next"
               /\ AtCard(pass[p], c, failures).cached = None
               /\ AtCard(pass[p], c, failures).texts = pass[p].texts
    BY <1>1 DEF AtCard, Busy
  <1>4. CASE pass' = [pass EXCEPT ![p] = Idle]
    BY <1>4 DEF TypeOK
  <1>5. ASSUME NEW c \in pass[p].left, pass' = [pass EXCEPT ![p] = AtCard(pass[p], c, failures)]
        PROVE  /\ pass' \in [Passes -> Busy \cup {Idle}]
               /\ \A q \in Passes \ {p} : pass'[q] = pass[q]
               /\ pass'[p] # Idle => /\ pass'[p].pc = "next" /\ pass'[p].cached = None
                                    /\ pass'[p].texts = pass[p].texts
    BY <1>2, <1>3, <1>5 DEF TypeOK
  <1> QED BY <1>4, <1>5 DEF Advance

\* Going to a stage leaves a well-formed pass.
LEMMA GotoType ==
    ASSUME TypeOK, NEW p \in Passes, pass[p] # Idle, NEW stage \in Stages, Goto(p, stage)
    PROVE  /\ pass' \in [Passes -> Busy \cup {Idle}]
           /\ \A q \in Passes \ {p} : pass'[q] = pass[q]
           /\ pass'[p] = [pass[p] EXCEPT !.pc = stage]
           /\ pass'[p].pc = stage /\ pass'[p].cached = pass[p].cached
           /\ pass'[p].texts = pass[p].texts /\ pass'[p].company = pass[p].company
           /\ pass'[p].failures = pass[p].failures
  <1>1. pass[p] \in Busy
    BY BusyPass
  <1>2. [pass[p] EXCEPT !.pc = stage] \in Busy
    BY <1>1 DEF Busy
  <1> QED BY <1>2 DEF Goto, TypeOK

\* What cached_check returns is a row or nothing.
LEMMA CachedType ==
    ASSUME TypeOK, NEW c \in Companies, NEW h \in Cards
    PROVE  CachedCheck(c, h) \in MaybeCheck
  BY DEF TypeOK, CachedCheck, MaybeCheck

\* What is stored about a link is well formed, whatever the GET found.
LEMMA LinkType ==
    ASSUME TypeOK, NEW t \in Times, NEW state \in LinkFindings
    PROVE  [state |-> state,
            expires |-> t + IF state = "reachable" THEN LinkTTL ELSE RetryTTL] \in Links
  <1>1. MaxTime \in Nat /\ LinkTTL \in Nat /\ RetryTTL \in Nat /\ t \in 0..MaxTime
    BY ConstantsAssumption DEF Times
  <1>2. (t + IF state = "reachable" THEN LinkTTL ELSE RetryTTL)
            \in 0..(MaxTime + LinkTTL + RetryTTL)
    BY <1>1
  <1> QED BY <1>2, ConstantsAssumption DEF Links

\* Hermes is asked only while it is in use, so the failure count stays in bounds.
Reviewing == \A p \in Passes : pass[p].pc = "review" => pass[p].failures < MaxFailures

\* A step of a pass keeps the types.
LEMMA StepType ==
    ASSUME TypeOK, Reviewing, NEW p \in Passes, Step(p)
    PROVE  TypeOK'
  <1> USE DEF Stages, Verdicts, Checkers
  <1> SUFFICES ASSUME pass[p] # Idle, pass[p] \in Busy,
                      Company(p) \in Companies, Text(p) \in Cards
               PROVE  TypeOK'
    <2>1. pass[p].pc # "idle"
      BY DEF Step, RulesVeto, StandingVeto, BeginCheck, VerifyReuse, VerifyGet, HoldBack,
             ReusePass, RulesPass, Unavailable, AskHermes, HermesPass, HermesReject,
             HermesFails, Compare, Approve
    <2> QED BY <2>1, NotIdle, BusyPass
  <1>f. pass[p].failures \in 0..MaxFailures /\ 0 \in 0..MaxFailures
    BY ConstantsAssumption DEF Busy
  <1>1. CASE RulesVeto(p)
    <2>1. pass' \in [Passes -> Busy \cup {Idle}]
      BY <1>1, <1>f, AdvanceType DEF RulesVeto
    <2>2. /\ checks' \in [Companies -> [Cards -> MaybeCheck]]
          /\ newest' \in [Companies -> Cards \cup {None}]
      BY <1>1, WriteType DEF RulesVeto
    <2> QED BY <1>1, <2>1, <2>2 DEF RulesVeto, TypeOK, world
  <1>2. CASE StandingVeto(p)
    <2>1. pass' \in [Passes -> Busy \cup {Idle}]
      BY <1>2, <1>f, AdvanceType DEF StandingVeto
    <2> QED BY <1>2, <2>1 DEF StandingVeto, TypeOK, world
  <1>3. CASE BeginCheck(p)
    <2>1. CachedCheck(Company(p), Text(p)) \in MaybeCheck
      BY CachedType
    <2>2. [pass[p] EXCEPT !.pc = "verify", !.cached = CachedCheck(Company(p), Text(p)),
                          !.since = now] \in Busy
      BY <2>1 DEF Busy, TypeOK
    <2>3. pass' \in [Passes -> Busy \cup {Idle}]
      BY <1>3, <2>2 DEF BeginCheck, TypeOK
    <2> QED BY <1>3, <2>3 DEF BeginCheck, TypeOK, world
  <1>4. ASSUME NEW state \in LinkStates, AfterVerify(p, state)
        PROVE  pass' \in [Passes -> Busy \cup {Idle}]
    <2>1. [pass[p] EXCEPT !.pc = IF state = "reachable" THEN "decide" ELSE "held",
                          !.outcome = state] \in Busy
      BY DEF Busy
    <2> QED BY <1>4, <2>1 DEF AfterVerify, TypeOK
  <1>5. CASE VerifyReuse(p)
    <2>1. link[Company(p)].state \in LinkStates
      BY <1>5 DEF VerifyReuse, LinkReusable, TypeOK, Links
    <2>2. pass' \in [Passes -> Busy \cup {Idle}]
      BY <1>4, <1>5, <2>1 DEF VerifyReuse
    <2> QED BY <1>5, <2>2 DEF VerifyReuse, TypeOK, world
  <1>6. CASE VerifyGet(p)
    <2>1. PICK state \in LinkFindings :
             /\ link' = [link EXCEPT ![Company(p)] =
                          [state |-> state, expires |->
                             pass[p].since + IF state = "reachable" THEN LinkTTL ELSE RetryTTL]]
             /\ AfterVerify(p, state)
      BY <1>6 DEF VerifyGet
    <2>2. pass[p].since \in Times /\ state \in LinkStates
      BY ConstantsAssumption DEF Busy
    <2>3. link' \in [Companies -> Links \cup {None}]
      BY <2>1, <2>2, LinkType DEF TypeOK
    <2>4. pass' \in [Passes -> Busy \cup {Idle}]
      BY <1>4, <2>1, <2>2
    <2> QED BY <1>6, <2>3, <2>4 DEF VerifyGet, TypeOK, world
  <1>7. CASE HoldBack(p)
    <2>1. pass' \in [Passes -> Busy \cup {Idle}]
      BY <1>7, <1>f, AdvanceType DEF HoldBack
    <2>2. /\ checks' \in [Companies -> [Cards -> MaybeCheck]]
          /\ newest' \in [Companies -> Cards \cup {None}]
      BY <1>7, WriteType DEF HoldBack
    <2> QED BY <1>7, <2>1, <2>2 DEF HoldBack, TypeOK, world
  <1>8. CASE ReusePass(p)
    <2>1. pass[p].cached.verdict \in Verdicts /\ pass[p].cached.checker \in Checkers
      BY <1>8 DEF ReusePass, Reusable, Busy, MaybeCheck, Checks
    <2>2. /\ checks' \in [Companies -> [Cards -> MaybeCheck]]
          /\ newest' \in [Companies -> Cards \cup {None}]
      BY <1>8, <2>1, WriteType DEF ReusePass
    <2>3. pass' \in [Passes -> Busy \cup {Idle}]
      BY <1>8, GotoType DEF ReusePass
    <2> QED BY <1>8, <2>2, <2>3 DEF ReusePass, TypeOK, world
  <1>9. CASE RulesPass(p)
    <2>1. pass' \in [Passes -> Busy \cup {Idle}]
      BY <1>9, GotoType DEF RulesPass
    <2>2. /\ checks' \in [Companies -> [Cards -> MaybeCheck]]
          /\ newest' \in [Companies -> Cards \cup {None}]
      BY <1>9, WriteType DEF RulesPass
    <2> QED BY <1>9, <2>1, <2>2 DEF RulesPass, TypeOK, world
  <1>10. CASE Unavailable(p)
    <2>1. pass' \in [Passes -> Busy \cup {Idle}]
      BY <1>10, <1>f, AdvanceType DEF Unavailable
    <2>2. /\ checks' \in [Companies -> [Cards -> MaybeCheck]]
          /\ newest' \in [Companies -> Cards \cup {None}]
      BY <1>10, WriteType DEF Unavailable
    <2> QED BY <1>10, <2>1, <2>2 DEF Unavailable, TypeOK, world
  <1>11. CASE AskHermes(p)
    <2>1. pass' \in [Passes -> Busy \cup {Idle}]
      BY <1>11, GotoType DEF AskHermes
    <2> QED BY <1>11, <2>1 DEF AskHermes, TypeOK, world
  <1>12. CASE HermesPass(p)
    <2>1. [pass[p] EXCEPT !.pc = "compare", !.failures = 0] \in Busy
      BY <1>f DEF Busy
    <2>2. pass' \in [Passes -> Busy \cup {Idle}]
      BY <1>12, <2>1 DEF HermesPass, TypeOK
    <2>3. /\ checks' \in [Companies -> [Cards -> MaybeCheck]]
          /\ newest' \in [Companies -> Cards \cup {None}]
      BY <1>12, WriteType DEF HermesPass
    <2> QED BY <1>12, <2>2, <2>3 DEF HermesPass, TypeOK, world
  <1>13. CASE HermesReject(p)
    <2>1. pass' \in [Passes -> Busy \cup {Idle}]
      BY <1>13, <1>f, AdvanceType DEF HermesReject
    <2>2. /\ checks' \in [Companies -> [Cards -> MaybeCheck]]
          /\ newest' \in [Companies -> Cards \cup {None}]
      BY <1>13, WriteType DEF HermesReject
    <2> QED BY <1>13, <2>1, <2>2 DEF HermesReject, TypeOK, world
  <1>14. CASE HermesFails(p)
    <2>1. pass[p].failures + 1 \in 0..MaxFailures
      <3>1. pass[p].failures < MaxFailures
        BY <1>14 DEF HermesFails, Reviewing
      <3> QED BY <3>1, <1>f, ConstantsAssumption
    <2>2. pass' \in [Passes -> Busy \cup {Idle}]
      BY <1>14, <2>1, AdvanceType DEF HermesFails
    <2>3. /\ checks' \in [Companies -> [Cards -> MaybeCheck]]
          /\ newest' \in [Companies -> Cards \cup {None}]
      BY <1>14, WriteType DEF HermesFails
    <2> QED BY <1>14, <2>2, <2>3 DEF HermesFails, TypeOK, world
  <1>15. CASE Compare(p)
    <2>1. pass' \in [Passes -> Busy \cup {Idle}]
      BY <1>15, <1>f, AdvanceType, GotoType DEF Compare
    <2> QED BY <1>15, <2>1 DEF Compare, TypeOK, world
  <1>16. CASE Approve(p)
    <2>1. pass' \in [Passes -> Busy \cup {Idle}]
      BY <1>16, <1>f, AdvanceType DEF Approve
    <2> QED BY <1>16, <2>1 DEF Approve, TypeOK, world
  <1> QED BY <1>1, <1>2, <1>3, <1>5, <1>6, <1>7, <1>8, <1>9, <1>10, <1>11, <1>12, <1>13,
             <1>14, <1>15, <1>16 DEF Step

\* What a step of a pass does to the passes: the others do not move, and only
\* AskHermes, with Hermes in use, leads to the review.
LEMMA StepPass ==
    ASSUME TypeOK, Reviewing, NEW p \in Passes, Step(p)
    PROVE  /\ pass[p] # Idle
           /\ \A q \in Passes \ {p} : pass'[q] = pass[q]
           /\ pass'[p].pc = "review" => pass'[p].failures < MaxFailures
  <1>0. pass[p].pc # "idle"
    BY DEF Step, RulesVeto, StandingVeto, BeginCheck, VerifyReuse, VerifyGet, HoldBack,
           ReusePass, RulesPass, Unavailable, AskHermes, HermesPass, HermesReject,
           HermesFails, Compare, Approve
  <1>1. pass[p] # Idle /\ pass[p] \in Busy
    BY <1>0, NotIdle, BusyPass
  <1>f. pass[p].failures \in 0..MaxFailures /\ 0 \in 0..MaxFailures
    BY <1>1, ConstantsAssumption DEF Busy
  <1>i. Idle.pc # "review"
    BY DEF Idle
  <1>2. ASSUME NEW failures \in 0..MaxFailures, Advance(p, failures)
        PROVE  /\ \A q \in Passes \ {p} : pass'[q] = pass[q]
               /\ pass'[p].pc # "review"
    <2>1. pass'[p] # Idle => pass'[p].pc = "next"
      BY <1>1, <1>2, AdvanceType
    <2> QED BY <1>1, <1>2, <1>i, <2>1, AdvanceType
  <1>3. ASSUME NEW stage \in Stages \ {"review"}, Goto(p, stage)
        PROVE  /\ \A q \in Passes \ {p} : pass'[q] = pass[q]
               /\ pass'[p].pc # "review"
    BY <1>1, <1>3, GotoType
  <1>4. ASSUME NEW state, AfterVerify(p, state)
        PROVE  /\ \A q \in Passes \ {p} : pass'[q] = pass[q]
               /\ pass'[p].pc # "review"
    BY <1>1, <1>4 DEF AfterVerify, TypeOK, Busy
  <1>5. CASE RulesVeto(p) \/ StandingVeto(p) \/ HoldBack(p) \/ Unavailable(p) \/ HermesReject(p)
             \/ Approve(p)
    BY <1>1, <1>2, <1>5, <1>f DEF RulesVeto, StandingVeto, HoldBack, Unavailable, HermesReject,
                                 Approve
  <1>6. CASE BeginCheck(p)
    BY <1>1, <1>6 DEF BeginCheck, TypeOK, Busy
  <1>7. CASE VerifyReuse(p) \/ VerifyGet(p)
    BY <1>1, <1>4, <1>7 DEF VerifyReuse, VerifyGet
  <1>8. CASE ReusePass(p) \/ RulesPass(p)
    BY <1>1, <1>3, <1>8 DEF ReusePass, RulesPass, Stages
  <1>9. CASE AskHermes(p)
    <2>1. /\ \A q \in Passes \ {p} : pass'[q] = pass[q]
          /\ pass'[p].failures = pass[p].failures
      BY <1>1, <1>9, GotoType DEF AskHermes, Stages
    <2> QED BY <1>1, <1>9, <2>1 DEF AskHermes, Live
  <1>10. CASE HermesPass(p)
    BY <1>1, <1>10 DEF HermesPass, TypeOK, Busy
  <1>11. CASE HermesFails(p)
    <2>1. pass[p].failures + 1 \in 0..MaxFailures
      BY <1>11, <1>f, ConstantsAssumption DEF HermesFails, Reviewing
    <2> QED BY <1>1, <1>2, <1>11, <2>1 DEF HermesFails
  <1>12. CASE Compare(p)
    BY <1>1, <1>2, <1>3, <1>12, <1>f DEF Compare, Stages
  <1> QED BY <1>1, <1>5, <1>6, <1>7, <1>8, <1>9, <1>10, <1>11, <1>12 DEF Step

\* A pass that starts is well formed.
LEMMA StartType ==
    ASSUME TypeOK, NEW p \in Passes, NEW mode \in Modes, Start(p, mode)
    PROVE  /\ pass' \in [Passes -> Busy \cup {Idle}]
           /\ \A q \in Passes \ {p} : pass'[q] = pass[q]
           /\ pass'[p] # Idle
           /\ pass'[p].pc = "next" /\ pass'[p].cached = None /\ pass'[p].texts = card
  <1>1. PICK c \in Selection(mode) : pass' = [pass EXCEPT ![p] =
               [pc |-> "next", mode |-> mode, texts |-> card,
                finished |-> Completed(mode), left |-> Selection(mode) \ {c},
                company |-> c, cached |-> None, outcome |-> "unknown", since |-> 0,
                failures |-> 0]]
    BY DEF Start
  <1>2. Completed(mode) \in SUBSET Companies /\ Selection(mode) \in SUBSET Companies
    BY DEF Completed, Selection, Unfinished
  <1>3. 0 \in Times /\ None \in MaybeCheck /\ "unknown" \in LinkStates /\ "next" \in Stages
        /\ 0 \in 0..MaxFailures
    BY ConstantsAssumption DEF Times, MaybeCheck, LinkStates, Stages
  <1>4. [pc |-> "next", mode |-> mode, texts |-> card,
         finished |-> Completed(mode), left |-> Selection(mode) \ {c},
         company |-> c, cached |-> None, outcome |-> "unknown", since |-> 0,
         failures |-> 0] \in Busy
    BY <1>2, <1>3 DEF Busy, TypeOK
  <1>5. pass'[p] # Idle
    BY <1>1 DEF TypeOK, Idle
  <1> QED BY <1>1, <1>4, <1>5 DEF TypeOK

TypeInv == TypeOK /\ Reviewing

LEMMA InitTypeInv == Init => TypeInv
  BY ConstantsAssumption DEF Init, TypeInv, TypeOK, Reviewing, Idle, Times, MaybeCheck, Never

LEMMA NextTypeInv == TypeInv /\ [Next]_vars => TypeInv'
  <1> SUFFICES ASSUME TypeOK, Reviewing, [Next]_vars
               PROVE  TypeOK' /\ Reviewing'
    BY DEF TypeInv
  <1>t. now \in 0..MaxTime /\ MaxTime \in Nat
    BY ConstantsAssumption DEF TypeOK, Times
  <1>c. ASSUME MayChange
        PROVE  changes' \in 0..MaxChanges
    BY <1>c, ConstantsAssumption DEF MayChange, TypeOK
  <1>1. CASE Tick
    <2>1. now' \in Times
      BY <1>1, <1>t DEF Tick, Times
    <2> QED BY <1>1, <2>1 DEF Tick, TypeOK, Reviewing, world
  <1>2. ASSUME NEW p \in Passes, NEW mode \in Modes, Start(p, mode)
        PROVE  TypeOK' /\ Reviewing'
    <2>1. TypeOK'
      BY <1>2, StartType DEF TypeOK, Start, world
    <2> QED BY <1>2, <2>1, StartType DEF Reviewing
  <1>3. ASSUME NEW p \in Passes, Step(p)
        PROVE  TypeOK' /\ Reviewing'
    BY <1>3, StepType, StepPass DEF Reviewing
  <1>4. ASSUME NEW p \in Passes, BlowUp(p)
        PROVE  TypeOK' /\ Reviewing'
    <2>1. /\ pass[p] # Idle /\ pass[p] \in Busy
          /\ Company(p) \in Companies /\ Text(p) \in Cards
          /\ pass[p].failures \in 0..MaxFailures
      BY <1>4, NotIdle, BusyPass DEF BlowUp, Busy
    <2>2. /\ pass' \in [Passes -> Busy \cup {Idle}]
          /\ \A q \in Passes \ {p} : pass'[q] = pass[q]
          /\ pass'[p] # Idle => pass'[p].pc = "next"
      BY <1>4, <2>1, AdvanceType DEF BlowUp
    <2>3. /\ checks' \in [Companies -> [Cards -> MaybeCheck]]
          /\ newest' \in [Companies -> Cards \cup {None}]
      BY <1>4, <2>1, WriteType DEF BlowUp, Verdicts, Checkers
    <2>4. TypeOK'
      BY <1>4, <2>2, <2>3 DEF BlowUp, TypeOK, world
    <2> QED BY <2>2, <2>4 DEF Reviewing, Idle
  <1>5. ASSUME NEW p \in Passes, Die(p)
        PROVE  TypeOK' /\ Reviewing'
    BY <1>5 DEF Die, TypeOK, Reviewing, Idle, world
  <1>6. ASSUME NEW c \in Companies, NEW h \in Cards, DailyScore(c, h)
        PROVE  TypeOK' /\ Reviewing'
    BY <1>6, <1>c DEF DailyScore, TypeOK, Reviewing
  <1>7. ASSUME NEW c \in Companies, NEW h \in Cards, NewData(c, h)
        PROVE  TypeOK' /\ Reviewing'
    BY <1>7, <1>c DEF NewData, TypeOK, Reviewing
  <1>8. CASE BulkStart
    BY <1>8, <1>c DEF BulkStart, TypeOK, Reviewing, Idle
  <1>9. ASSUME NEW texts \in [Companies -> Cards], BulkCommit(texts)
        PROVE  TypeOK' /\ Reviewing'
    <2>1. bulk.stamp \in Times
      BY <1>9 DEF BulkCommit, TypeOK
    <2> QED BY <1>9, <2>1 DEF BulkCommit, TypeOK, Reviewing
  <1>10. CASE UNCHANGED vars
    BY <1>10 DEF vars, TypeOK, Reviewing
  <1> QED BY <1>1, <1>2, <1>3, <1>4, <1>5, <1>6, <1>7, <1>8, <1>9, <1>10 DEF Next

\* Every reachable state is well formed; a pass never counts more failures than it
\* takes to give up on Hermes.
THEOREM TypeCorrect == Spec => []TypeOK
  <1>1. TypeInv => TypeOK
    BY DEF TypeInv
  <1> QED BY <1>1, InitTypeInv, NextTypeInv, PTL DEF Spec

------------------------------------------------------------------------------
(* Nothing is shown or approved that was not checked                        *)

\* A stored pass, a pass read from the store and a pass about to be approved all
\* come from a check of that very text; the newest check is one that is stored.
RowsHonest ==
    \A c \in Companies :
       /\ newest[c] # None => checks[c][newest[c]] # None
       /\ \A h \in Cards : checks[c][h] # None /\ StateOf(checks[c][h]) = "pass"
                             => reviewed[c][h] # Never

PassHonest(p) ==
    pass[p] # Idle =>
       /\ pass[p].cached # None =>
             /\ pass[p].cached.verdict # "reject"
             /\ StateOf(pass[p].cached) = "pass" => reviewed[Company(p)][Text(p)] # Never
       /\ pass[p].pc \in {"compare", "approve"} => reviewed[Company(p)][Text(p)] # Never

Honest == RowsHonest /\ (\A p \in Passes : PassHonest(p)) /\ ApprovedWasChecked

\* What was once reviewed stays so.
StaysReviewed ==
    \A c \in Companies, h \in Cards : reviewed[c][h] # Never => reviewed'[c][h] # Never

\* A row that is no pass, or whose text was reviewed, keeps the rows honest.
LEMMA WriteHonest ==
    ASSUME TypeOK, RowsHonest, StaysReviewed, NEW c \in Companies, NEW h \in Cards,
           NEW verdict \in Verdicts, NEW checker \in Checkers,
           Write(c, h, verdict, checker),
           verdict = "pass" /\ checker # "skip" => reviewed'[c][h] # Never
    PROVE  RowsHonest'
  <1> DEFINE row == [verdict |-> verdict, checker |-> checker, at |-> now]
  <1>1. row # None
    BY ConstantsAssumption DEF TypeOK, Times, Verdicts, Checkers
  <1>2. StateOf(row) = "pass" => reviewed'[c][h] # Never
    BY DEF StateOf
  <1>3. /\ checks' = [checks EXCEPT ![c][h] = row]
        /\ newest' = [newest EXCEPT ![c] = h]
    BY DEF Write
  <1>4. checks'[c][h] = row /\ newest'[c] = h
    BY <1>3 DEF TypeOK
  <1>5. ASSUME NEW d \in Companies, NEW g \in Cards, d # c \/ g # h
        PROVE  checks'[d][g] = checks[d][g]
    BY <1>3, <1>5 DEF TypeOK
  <1>6. ASSUME NEW d \in Companies, d # c
        PROVE  newest'[d] = newest[d]
    BY <1>3, <1>6 DEF TypeOK
  <1>7. ASSUME NEW d \in Companies
        PROVE  newest'[d] # None => checks'[d][newest'[d]] # None
    <2>1. CASE d = c
      BY <1>1, <1>4, <2>1
    <2>2. CASE d # c
      BY <1>5, <1>6, <2>2 DEF RowsHonest, TypeOK
    <2> QED BY <2>1, <2>2
  <1>8. ASSUME NEW d \in Companies, NEW g \in Cards, checks'[d][g] # None,
               StateOf(checks'[d][g]) = "pass"
        PROVE  reviewed'[d][g] # Never
    <2>1. CASE d = c /\ g = h
      BY <1>2, <1>4, <1>8, <2>1
    <2>2. CASE d # c \/ g # h
      BY <1>5, <1>8, <2>2 DEF RowsHonest, StaysReviewed
    <2> QED BY <2>1, <2>2
  <1> HIDE DEF row
  <1> QED BY <1>7, <1>8 DEF RowsHonest, StateOf

\* The passes that do not move stay honest.
LEMMA OthersHonest ==
    ASSUME NEW p \in Passes, PassHonest(p), StaysReviewed, TypeOK, pass'[p] = pass[p]
    PROVE  PassHonest(p)'
  <1>1. pass[p] # Idle => Company(p) \in Companies /\ Text(p) \in Cards
    BY BusyPass
  <1>2. Company(p)' = Company(p) /\ Text(p)' = Text(p)
    BY DEF Company, Text
  <1> QED BY <1>1, <1>2 DEF PassHonest, StaysReviewed

\* With no row written, the rows stay honest.
LEMMA RowsKept ==
    ASSUME TypeOK, RowsHonest, StaysReviewed, checks' = checks, newest' = newest
    PROVE  RowsHonest'
  BY DEF RowsHonest, StaysReviewed

\* An approval is honest when what it approves was reviewed.
LEMMA ApprovalKept ==
    ASSUME TypeOK, ApprovedWasChecked, StaysReviewed, approved' = approved
    PROVE  ApprovedWasChecked'
  BY DEF ApprovedWasChecked, StaysReviewed, TypeOK

\* At the next card nothing has been claimed yet.
LEMMA AdvanceHonest ==
    ASSUME TypeOK, NEW p \in Passes, pass[p] # Idle,
           NEW failures \in 0..MaxFailures, Advance(p, failures)
    PROVE  PassHonest(p)'
  <1>1. pass'[p] # Idle => pass'[p].pc = "next" /\ pass'[p].cached = None
    BY AdvanceType
  <1> QED BY <1>1 DEF PassHonest

\* A step of a pass keeps rows, passes and approvals honest.
LEMMA StepHonest ==
    ASSUME TypeInv, Honest, NEW p \in Passes, Step(p)
    PROVE  RowsHonest' /\ PassHonest(p)' /\ ApprovedWasChecked' /\ StaysReviewed
  <1>0. TypeOK /\ Reviewing /\ RowsHonest /\ PassHonest(p) /\ ApprovedWasChecked
    BY DEF TypeInv, Honest
  <1>1. /\ pass[p] # Idle /\ pass[p] \in Busy
        /\ Company(p) \in Companies /\ Text(p) \in Cards
    BY <1>0, StepPass, BusyPass
  <1>f. pass[p].failures \in 0..MaxFailures /\ 0 \in 0..MaxFailures
    BY <1>1, ConstantsAssumption DEF Busy
  <1>k. ASSUME UNCHANGED reviewed
        PROVE  StaysReviewed
    BY <1>k DEF StaysReviewed
  <1>n. ASSUME reviewed' = [reviewed EXCEPT ![Company(p)][Text(p)] = now]
        PROVE  StaysReviewed /\ reviewed'[Company(p)][Text(p)] # Never
    <2>1. now # Never
      BY <1>0, ConstantsAssumption DEF TypeOK, Times, Never
    <2> QED BY <1>0, <1>1, <1>n, <2>1 DEF StaysReviewed, TypeOK
  \* Verdicts that are no pass, after which the pass goes on.
  <1>2. ASSUME NEW verdict \in Verdicts \ {"pass"}, NEW checker \in Checkers,
               Write(Company(p), Text(p), verdict, checker),
               NEW failures \in 0..MaxFailures, Advance(p, failures),
               UNCHANGED <<approved, reviewed>>
        PROVE  RowsHonest' /\ PassHonest(p)' /\ ApprovedWasChecked' /\ StaysReviewed
    <2>1. StaysReviewed
      BY <1>2, <1>k
    <2>2. RowsHonest'
      BY <1>0, <1>1, <1>2, <2>1, WriteHonest
    <2> QED BY <1>0, <1>1, <1>2, <2>1, <2>2, AdvanceHonest, ApprovalKept
  \* Steps that write no row.
  <1>3. ASSUME UNCHANGED <<checks, newest, approved, reviewed>>
        PROVE  RowsHonest' /\ ApprovedWasChecked' /\ StaysReviewed
    BY <1>0, <1>3, <1>k, RowsKept, ApprovalKept
  <1>4. CASE RulesVeto(p)
    BY <1>2, <1>4, <1>f DEF RulesVeto, Verdicts, Checkers
  <1>5. CASE StandingVeto(p)
    BY <1>0, <1>1, <1>3, <1>5, <1>f, AdvanceHonest DEF StandingVeto
  <1>6. CASE BeginCheck(p)
    <2> DEFINE row == CachedCheck(Company(p), Text(p))
    <2>1. /\ pass'[p].cached = row /\ pass'[p].pc = "verify"
          /\ Company(p)' = Company(p) /\ Text(p)' = Text(p)
      BY <1>0, <1>1, <1>6 DEF BeginCheck, TypeOK, Busy, Company, Text
    <2>2. row # None => row = checks[Company(p)][Text(p)] /\ row.verdict # "reject"
      BY <1>6 DEF BeginCheck, CachedCheck
    <2>3. row # None /\ StateOf(row) = "pass" => reviewed[Company(p)][Text(p)] # Never
      BY <1>0, <1>1, <2>2 DEF RowsHonest
    <2>4. UNCHANGED <<checks, newest, approved, reviewed>>
      BY <1>6 DEF BeginCheck
    <2>5. PassHonest(p)'
      BY <2>1, <2>2, <2>3, <2>4 DEF PassHonest, StateOf
    <2> QED BY <1>3, <2>4, <2>5
  <1>7. CASE VerifyReuse(p) \/ VerifyGet(p)
    <2>1. PICK state : AfterVerify(p, state)
      BY <1>7 DEF VerifyReuse, VerifyGet
    <2>2. /\ pass'[p].cached = pass[p].cached /\ pass'[p].pc \in {"decide", "held"}
          /\ Company(p)' = Company(p) /\ Text(p)' = Text(p)
      BY <1>0, <1>1, <2>1 DEF AfterVerify, TypeOK, Busy, Company, Text
    <2>3. UNCHANGED <<checks, newest, approved, reviewed>>
      BY <1>7 DEF VerifyReuse, VerifyGet
    <2>4. PassHonest(p)'
      BY <1>0, <1>1, <2>2, <2>3 DEF PassHonest, StateOf
    <2> QED BY <1>3, <2>3, <2>4
  <1>8. CASE HoldBack(p)
    BY <1>2, <1>8, <1>f DEF HoldBack, Verdicts, Checkers
  <1>9. ASSUME NEW stage \in Stages, Goto(p, stage), StaysReviewed,
               stage \in {"compare", "approve"} => reviewed'[Company(p)][Text(p)] # Never
        PROVE  PassHonest(p)'
    <2>1. /\ pass'[p].cached = pass[p].cached /\ pass'[p].pc = stage
          /\ Company(p)' = Company(p) /\ Text(p)' = Text(p)
      BY <1>0, <1>1, <1>9, GotoType DEF Company, Text
    <2> QED BY <1>0, <1>1, <1>9, <2>1 DEF PassHonest, StateOf, StaysReviewed
  <1>10. CASE ReusePass(p)
    <2>1. /\ pass[p].cached # None /\ pass[p].cached.verdict \in Verdicts
          /\ pass[p].cached.checker \in Checkers
          /\ StateOf(pass[p].cached) = "pass"
      BY <1>0, <1>1, <1>10 DEF ReusePass, Reusable, PassHonest, Busy, MaybeCheck, Checks
    <2>2. StaysReviewed /\ reviewed'[Company(p)][Text(p)] # Never
      BY <1>0, <1>1, <1>10, <2>1, <1>k DEF ReusePass, PassHonest
    <2>3. RowsHonest'
      BY <1>0, <1>1, <1>10, <2>1, <2>2, WriteHonest DEF ReusePass
    <2>4. PassHonest(p)'
      BY <1>9, <1>10, <2>2 DEF ReusePass, Stages
    <2> QED BY <1>0, <1>10, <2>2, <2>3, <2>4, ApprovalKept DEF ReusePass
  <1>11. CASE RulesPass(p)
    <2>1. StaysReviewed /\ reviewed'[Company(p)][Text(p)] # Never
      BY <1>11, <1>n DEF RulesPass
    <2>2. RowsHonest'
      BY <1>0, <1>1, <1>11, <2>1, WriteHonest DEF RulesPass, Verdicts, Checkers
    <2>3. PassHonest(p)'
      BY <1>9, <1>11, <2>1 DEF RulesPass, Stages
    <2> QED BY <1>0, <1>11, <2>1, <2>2, <2>3, ApprovalKept DEF RulesPass
  <1>12. CASE Unavailable(p)
    BY <1>2, <1>12, <1>f DEF Unavailable, Verdicts, Checkers
  <1>13. CASE AskHermes(p)
    <2>1. UNCHANGED <<checks, newest, approved, reviewed>>
      BY <1>13 DEF AskHermes
    <2> QED BY <1>3, <1>9, <1>13, <2>1 DEF AskHermes, Stages
  <1>14. CASE HermesPass(p)
    <2>1. StaysReviewed /\ reviewed'[Company(p)][Text(p)] # Never
      BY <1>14, <1>n DEF HermesPass
    <2>2. RowsHonest'
      BY <1>0, <1>1, <1>14, <2>1, WriteHonest DEF HermesPass, Verdicts, Checkers
    <2>3. /\ pass'[p].cached = pass[p].cached
          /\ Company(p)' = Company(p) /\ Text(p)' = Text(p)
      BY <1>0, <1>1, <1>14 DEF HermesPass, TypeOK, Busy, Company, Text
    <2>4. PassHonest(p)'
      BY <1>0, <1>1, <2>1, <2>3 DEF PassHonest, StateOf
    <2> QED BY <1>0, <1>14, <2>1, <2>2, <2>4, ApprovalKept DEF HermesPass
  <1>15. CASE HermesReject(p)
    BY <1>2, <1>15, <1>f DEF HermesReject, Verdicts, Checkers
  <1>16. CASE HermesFails(p)
    <2>1. pass[p].failures + 1 \in 0..MaxFailures
      BY <1>0, <1>16, <1>f, ConstantsAssumption DEF HermesFails, Reviewing
    <2> QED BY <1>2, <1>16, <2>1 DEF HermesFails, Verdicts, Checkers
  <1>17. CASE Compare(p)
    <2>1. UNCHANGED <<checks, newest, approved, reviewed>>
      BY <1>17 DEF Compare
    <2>2. CASE Goto(p, "approve")
      <3>1. reviewed'[Company(p)][Text(p)] # Never /\ StaysReviewed
        BY <1>0, <1>1, <1>17, <2>1, <1>k DEF Compare, PassHonest
      <3> QED BY <1>3, <1>9, <2>1, <2>2, <3>1 DEF Stages
    <2>3. CASE Advance(p, pass[p].failures)
      BY <1>0, <1>1, <1>3, <1>f, <2>1, <2>3, AdvanceHonest
    <2> QED BY <1>17, <2>2, <2>3 DEF Compare
  <1>18. CASE Approve(p)
    <2>1. reviewed[Company(p)][Text(p)] # Never
      BY <1>0, <1>1, <1>18 DEF Approve, PassHonest
    <2>2. StaysReviewed /\ RowsHonest'
      BY <1>0, <1>18, <1>k, RowsKept DEF Approve
    <2>3. ApprovedWasChecked'
      BY <1>0, <1>1, <1>18, <2>1 DEF Approve, ApprovedWasChecked, TypeOK
    <2> QED BY <1>0, <1>1, <1>18, <1>f, <2>2, <2>3, AdvanceHonest DEF Approve
  <1> QED BY <1>4, <1>5, <1>6, <1>7, <1>8, <1>10, <1>11, <1>12, <1>13, <1>14, <1>15, <1>16,
             <1>17, <1>18 DEF Step

LEMMA NextHonest == TypeInv /\ Honest /\ [Next]_vars => Honest'
  <1> SUFFICES ASSUME TypeInv, Honest, [Next]_vars
               PROVE  Honest'
    OBVIOUS
  <1>0. TypeOK /\ RowsHonest /\ ApprovedWasChecked /\ \A p \in Passes : PassHonest(p)
    BY DEF TypeInv, Honest
  <1>1. ASSUME NEW p \in Passes, Step(p)
        PROVE  Honest'
    <2>1. RowsHonest' /\ PassHonest(p)' /\ ApprovedWasChecked' /\ StaysReviewed
      BY <1>1, StepHonest
    <2>2. ASSUME NEW q \in Passes \ {p}
          PROVE  PassHonest(q)'
      <3>1. pass'[q] = pass[q]
        BY <1>1, StepPass DEF TypeInv
      <3> QED BY <1>0, <2>1, <3>1, OthersHonest
    <2> QED BY <2>1, <2>2 DEF Honest
  \* Steps that change neither rows nor reviews.
  <1>2. ASSUME UNCHANGED <<checks, newest, reviewed>>
        PROVE  RowsHonest' /\ StaysReviewed
    BY <1>0, <1>2, RowsKept DEF StaysReviewed
  <1>3. ASSUME UNCHANGED <<checks, newest, reviewed, pass>>, ApprovedWasChecked'
        PROVE  Honest'
    BY <1>0, <1>2, <1>3, OthersHonest DEF Honest
  <1>4. CASE Tick \/ (\E c \in Companies, h \in Cards : NewData(c, h)) \/ BulkStart
             \/ UNCHANGED vars
    <2>1. UNCHANGED <<checks, newest, reviewed, pass, approved>>
      BY <1>4 DEF Tick, NewData, BulkStart, vars
    <2>2. ApprovedWasChecked'
      BY <2>1 , <1>0 DEF ApprovedWasChecked
    <2> QED BY <1>3, <2>1, <2>2
  <1>5. ASSUME NEW c \in Companies, NEW h \in Cards, DailyScore(c, h)
        PROVE  Honest'
    <2>1. UNCHANGED <<checks, newest, reviewed, pass>>
      BY <1>5 DEF DailyScore
    <2>2. ApprovedWasChecked'
      BY <1>0, <1>5 DEF DailyScore, ApprovedWasChecked, TypeOK
    <2> QED BY <1>3, <2>1, <2>2
  <1>6. ASSUME NEW texts \in [Companies -> Cards], BulkCommit(texts)
        PROVE  Honest'
    <2>1. UNCHANGED <<checks, newest, reviewed, pass>>
      BY <1>6 DEF BulkCommit
    <2>2. ApprovedWasChecked'
      BY <1>6 DEF BulkCommit, ApprovedWasChecked
    <2> QED BY <1>3, <2>1, <2>2
  <1>7. ASSUME NEW p \in Passes, NEW mode \in Modes, Start(p, mode)
        PROVE  Honest'
    <2>1. UNCHANGED <<checks, newest, reviewed, approved>>
      BY <1>7 DEF Start
    <2>2. PassHonest(p)'
      BY <1>0, <1>7, StartType DEF PassHonest
    <2>3. ASSUME NEW q \in Passes \ {p}
          PROVE  PassHonest(q)'
      BY <1>0, <1>2, <1>7, <2>1, <2>3, StartType, OthersHonest
    <2> QED BY <1>0, <1>2, <2>1, <2>2, <2>3, ApprovalKept DEF Honest
  <1>8. ASSUME NEW p \in Passes, BlowUp(p)
        PROVE  Honest'
    <2>1. /\ pass[p] # Idle /\ Company(p) \in Companies /\ Text(p) \in Cards
          /\ pass[p].failures \in 0..MaxFailures
      BY <1>0, <1>8, NotIdle, BusyPass DEF BlowUp, Busy
    <2>2. StaysReviewed
      BY <1>8 DEF BlowUp, StaysReviewed
    <2>3. RowsHonest'
      BY <1>0, <1>8, <2>1, <2>2, WriteHonest DEF BlowUp, Verdicts, Checkers
    <2>4. PassHonest(p)' /\ \A q \in Passes \ {p} : pass'[q] = pass[q]
      BY <1>0, <1>8, <2>1, AdvanceHonest, AdvanceType DEF BlowUp
    <2>5. ApprovedWasChecked'
      BY <1>0, <1>8, <2>2, ApprovalKept DEF BlowUp
    <2> QED BY <1>0, <2>2, <2>3, <2>4, <2>5, OthersHonest DEF Honest
  <1>9. ASSUME NEW p \in Passes, Die(p)
        PROVE  Honest'
    <2>1. UNCHANGED <<checks, newest, reviewed, approved>>
      BY <1>9 DEF Die
    <2>2. pass'[p] = Idle /\ \A q \in Passes \ {p} : pass'[q] = pass[q]
      BY <1>0, <1>9 DEF Die, TypeOK
    <2>3. PassHonest(p)'
      BY <2>2 DEF PassHonest
    <2> QED BY <1>0, <1>2, <2>1, <2>2, <2>3, OthersHonest, ApprovalKept DEF Honest
  <1> QED BY <1>1, <1>4, <1>5, <1>6, <1>7, <1>8, <1>9 DEF Next

\* Honest is an invariant of every execution, however passes, crashes, rescores and
\* outages interleave.
THEOREM HonestInvariant == Spec => [](TypeInv /\ Honest)
  <1>1. Init => Honest
    BY ConstantsAssumption
    DEF Init, Honest, RowsHonest, PassHonest, ApprovedWasChecked
  <1> QED BY <1>1, InitTypeInv, NextTypeInv, NextHonest, PTL DEF Spec

\* Only what was really checked is ever shown.
THEOREM ShownWasCheckedTheorem == Spec => []ShownWasChecked
  <1>1. TypeInv /\ Honest => ShownWasChecked
    <2> SUFFICES ASSUME TypeOK, RowsHonest, NEW c \in Companies, Shown(c)
                 PROVE  reviewed[c][card[c]] # Never
      BY DEF TypeInv, Honest, ShownWasChecked
    <2>1. card[c] \in Cards /\ card[c] # None /\ newest[c] = card[c]
      BY ConstantsAssumption DEF Shown, TypeOK
    <2>2. checks[c][card[c]] # None /\ StateOf(checks[c][card[c]]) = "pass"
      BY <2>1 DEF RowsHonest, Shown
    <2> QED BY <2>1, <2>2 DEF RowsHonest
  <1> QED BY <1>1, HonestInvariant, PTL

\* Only what was really checked is ever frozen as approved.
THEOREM ApprovedWasCheckedTheorem == Spec => []ApprovedWasChecked
  <1>1. TypeInv /\ Honest => ApprovedWasChecked
    BY DEF Honest
  <1> QED BY <1>1, HonestInvariant, PTL

------------------------------------------------------------------------------
(* What a step of a pass can do, whatever its outcome.                      *)

\* The pass is done with its card, or still at it with what it has read.
LeavesCard(p) ==
    pass'[p] # Idle => pass'[p].pc = "next" /\ pass'[p].cached = None

StaysAtCard(p) ==
    /\ pass'[p] # Idle
    /\ pass'[p].company = pass[p].company /\ pass'[p].cached = pass[p].cached
    /\ pass'[p].since = pass[p].since /\ pass'[p].outcome = pass[p].outcome

\* A veto, or a check that did not finish.
WritesNoPass(p) ==
    /\ \E verdict \in Verdicts \ {"pass"}, checker \in Checkers :
          /\ Write(Company(p), Text(p), verdict, checker)
          /\ pass[p].pc = "next" => verdict = "reject"
    /\ LeavesCard(p)
    /\ UNCHANGED <<link, approved, reviewed>>

\* A pass, made here or standing in for one.
WritesPass(p) ==
    /\ pass[p].pc \in {"decide", "review"}
    /\ \E checker \in Checkers : Write(Company(p), Text(p), "pass", checker)
    /\ StaysAtCard(p) /\ pass'[p].pc = "compare"
    /\ \/ reviewed' = [reviewed EXCEPT ![Company(p)][Text(p)] = now]
       \/ /\ reviewed' = reviewed
          /\ pass[p].cached # None /\ StateOf(pass[p].cached) = "pass"
    /\ UNCHANGED <<link, approved>>

\* The stored answer is read, or the link looked at.
ReadsAnswer(p) ==
    /\ pass[p].pc = "next"
    /\ pass'[p] # Idle /\ pass'[p].pc = "verify"
    /\ pass'[p].company = pass[p].company /\ pass'[p].since = now
    /\ pass'[p].cached = CachedCheck(Company(p), Text(p))
    /\ pass'[p].cached # None => pass'[p].cached.verdict # "reject"
    /\ UNCHANGED <<checks, newest, link, approved, reviewed>>

Verifies(p) ==
    /\ pass[p].pc = "verify"
    /\ pass'[p] # Idle /\ pass'[p].pc \in {"held", "decide"}
    /\ pass'[p].company = pass[p].company /\ pass'[p].cached = pass[p].cached
    /\ pass'[p].since = pass[p].since
    /\ \/ link' = link /\ LinkReusable(Company(p), pass[p].since)
       \/ \E state \in LinkFindings :
             link' = [link EXCEPT ![Company(p)] =
                        [state |-> state,
                         expires |-> pass[p].since + IF state = "reachable" THEN LinkTTL
                                                     ELSE RetryTTL]]
    /\ UNCHANGED <<checks, newest, approved, reviewed>>

\* No row is written: the pass goes on, and may have approved.
GoesOn(p) ==
    /\ \/ LeavesCard(p)
       \/ /\ StaysAtCard(p)
          /\ \/ pass[p].pc = "decide" /\ pass'[p].pc = "review"
             \/ pass[p].pc = "compare" /\ pass'[p].pc = "approve"
    /\ approved' = approved \/ approved' = [approved EXCEPT ![Company(p)] = Text(p)]
    /\ UNCHANGED <<checks, newest, link, reviewed>>

\* These are the only things a step does, to its own pass and to no other.
LEMMA StepKinds ==
    ASSUME TypeInv, Honest, NEW p \in Passes, Step(p)
    PROVE  /\ UNCHANGED <<now, world>>
           /\ pass'[p] # Idle => pass'[p].texts = pass[p].texts
           /\ \/ WritesNoPass(p) \/ WritesPass(p) \/ ReadsAnswer(p)
              \/ Verifies(p) \/ GoesOn(p)
  <1>0. TypeOK /\ Reviewing /\ PassHonest(p)
    BY DEF TypeInv, Honest
  <1>1. /\ pass[p] # Idle /\ pass[p] \in Busy
        /\ Company(p) \in Companies /\ Text(p) \in Cards
    BY <1>0, StepPass, BusyPass
  <1>f. pass[p].failures \in 0..MaxFailures /\ 0 \in 0..MaxFailures
    BY <1>1, ConstantsAssumption DEF Busy
  <1>i. \A r \in Busy : r # Idle <=> r.pc # "idle"
    BY DEF Busy, Stages, Idle
  <1>w. UNCHANGED <<now, world>>
    BY DEF Step, RulesVeto, StandingVeto, BeginCheck, VerifyReuse, VerifyGet, HoldBack,
           ReusePass, RulesPass, Unavailable, AskHermes, HermesPass, HermesReject,
           HermesFails, Compare, Approve
  \* The pass turns to the next card.
  <1>2. ASSUME NEW failures \in 0..MaxFailures, Advance(p, failures)
        PROVE  LeavesCard(p) /\ (pass'[p] # Idle => pass'[p].texts = pass[p].texts)
    BY <1>0, <1>1, <1>2, AdvanceType DEF LeavesCard
  \* It changes its stage and nothing else that is kept for the card.
  <1>3. ASSUME NEW stage \in Stages, Goto(p, stage)
        PROVE  StaysAtCard(p) /\ pass'[p].pc = stage /\ pass'[p].texts = pass[p].texts
    <2>1. pass'[p] = [pass[p] EXCEPT !.pc = stage] /\ pass'[p] \in Busy \cup {Idle}
      BY <1>0, <1>1, <1>3, GotoType
    <2>2. [pass[p] EXCEPT !.pc = stage] \in Busy /\ stage # "idle"
      BY <1>1 DEF Busy, Stages
    <2> QED BY <1>1, <1>i, <2>1, <2>2 DEF Busy, StaysAtCard
  <1>4. ASSUME NEW verdict \in Verdicts \ {"pass"}, NEW checker \in Checkers,
               Write(Company(p), Text(p), verdict, checker),
               pass[p].pc = "next" => verdict = "reject",
               NEW failures \in 0..MaxFailures, Advance(p, failures),
               UNCHANGED <<link, approved, reviewed>>
        PROVE  WritesNoPass(p) /\ (pass'[p] # Idle => pass'[p].texts = pass[p].texts)
    BY <1>2, <1>4 DEF WritesNoPass
  <1>5. CASE RulesVeto(p)
    BY <1>w, <1>4, <1>5, <1>f DEF RulesVeto, Verdicts, Checkers
  <1>6. CASE HoldBack(p)
    BY <1>w, <1>4, <1>6, <1>f DEF HoldBack, Verdicts, Checkers
  <1>7. CASE Unavailable(p) \/ HermesReject(p)
    BY <1>w, <1>4, <1>7, <1>f DEF Unavailable, HermesReject, Verdicts, Checkers
  <1>8. CASE HermesFails(p)
    <2>1. pass[p].failures + 1 \in 0..MaxFailures
      BY <1>0, <1>8, <1>f, ConstantsAssumption DEF HermesFails, Reviewing
    <2> QED BY <1>w, <1>4, <1>8, <2>1 DEF HermesFails, Verdicts, Checkers
  <1>9. CASE ReusePass(p)
    <2>1. /\ pass[p].cached # None /\ StateOf(pass[p].cached) = "pass"
          /\ pass[p].cached.verdict = "pass" /\ pass[p].cached.checker \in Checkers
      BY <1>0, <1>1, <1>9 DEF ReusePass, Reusable, PassHonest, Busy, MaybeCheck, Checks, StateOf
    <2>2. StaysAtCard(p) /\ pass'[p].pc = "compare" /\ pass'[p].texts = pass[p].texts
      BY <1>3, <1>9 DEF ReusePass, Stages
    <2>3. WritesPass(p)
      BY <1>9, <2>1, <2>2 DEF ReusePass, WritesPass
    <2> QED BY <1>w, <2>2, <2>3
  <1>10. CASE RulesPass(p)
    <2>1. StaysAtCard(p) /\ pass'[p].pc = "compare" /\ pass'[p].texts = pass[p].texts
      BY <1>3, <1>10 DEF RulesPass, Stages
    <2>2. WritesPass(p)
      BY <1>10, <2>1 DEF RulesPass, WritesPass, Checkers
    <2> QED BY <1>w, <2>1, <2>2
  <1>11. CASE HermesPass(p)
    <2>1. pass'[p] = [pass[p] EXCEPT !.pc = "compare", !.failures = 0]
      BY <1>0, <1>11 DEF HermesPass, TypeOK
    <2>2. pass'[p] \in Busy /\ pass'[p].pc = "compare"
      BY <1>1, <1>f, <2>1 DEF Busy, Stages
    <2>3. StaysAtCard(p) /\ pass'[p].texts = pass[p].texts
      BY <1>1, <1>i, <2>1, <2>2 DEF StaysAtCard, Busy
    <2>4. WritesPass(p)
      BY <1>11, <2>2, <2>3 DEF HermesPass, WritesPass, Checkers
    <2> QED BY <1>w, <2>3, <2>4
  <1>12. CASE BeginCheck(p)
    <2> DEFINE row == CachedCheck(Company(p), Text(p))
    <2>1. pass'[p] = [pass[p] EXCEPT !.pc = "verify", !.cached = row, !.since = now]
      BY <1>0, <1>12 DEF BeginCheck, TypeOK
    <2>2. row \in MaybeCheck /\ now \in Times /\ (row # None => row.verdict # "reject")
      BY <1>0, <1>1, <1>12, CachedType DEF TypeOK, BeginCheck
    <2> HIDE DEF row
    <2>3. pass'[p] \in Busy /\ pass'[p].pc = "verify" /\ pass'[p].cached = row
          /\ pass'[p].since = now /\ pass'[p].company = pass[p].company
          /\ pass'[p].texts = pass[p].texts
      BY <1>1, <2>1, <2>2 DEF Busy, Stages
    <2>4. pass'[p] # Idle
      BY <1>i, <2>3
    <2>5. ReadsAnswer(p)
      BY <1>12, <2>2, <2>3, <2>4 DEF BeginCheck, ReadsAnswer, row
    <2> QED BY <1>w, <2>3, <2>5
  <1>13. CASE VerifyReuse(p) \/ VerifyGet(p)
    <2>1. PICK state : AfterVerify(p, state)
      BY <1>13 DEF VerifyReuse, VerifyGet
    <2>2. pass'[p] = [pass[p] EXCEPT !.pc = IF state = "reachable" THEN "decide" ELSE "held",
                                     !.outcome = state]
      BY <1>0, <2>1 DEF AfterVerify, TypeOK
    <2>3. /\ pass'[p].pc \in {"held", "decide"} /\ pass'[p].company = pass[p].company
          /\ pass'[p].cached = pass[p].cached /\ pass'[p].since = pass[p].since
          /\ pass'[p].texts = pass[p].texts
      BY <1>1, <2>2 DEF Busy
    <2>4. pass'[p] # Idle
      BY <2>3 DEF Idle
    <2>5. Verifies(p)
      BY <1>13, <2>3, <2>4 DEF VerifyReuse, VerifyGet, Verifies
    <2> QED BY <1>w, <2>3, <2>5
  <1>14. CASE StandingVeto(p) \/ Approve(p)
    <2>1. GoesOn(p)
      BY <1>2, <1>14, <1>f DEF StandingVeto, Approve, GoesOn
    <2> QED BY <1>w, <1>2, <1>14, <1>f, <2>1 DEF StandingVeto, Approve
  <1>15. CASE AskHermes(p)
    <2>1. StaysAtCard(p) /\ pass'[p].pc = "review" /\ pass'[p].texts = pass[p].texts
      BY <1>3, <1>15 DEF AskHermes, Stages
    <2>2. GoesOn(p)
      BY <1>15, <2>1 DEF AskHermes, GoesOn
    <2> QED BY <1>w, <2>1, <2>2
  <1>16. CASE Compare(p)
    <2>1. CASE Goto(p, "approve")
      <3>1. StaysAtCard(p) /\ pass'[p].pc = "approve" /\ pass'[p].texts = pass[p].texts
        BY <1>3, <2>1 DEF Stages
      <3>2. GoesOn(p)
        BY <1>16, <3>1 DEF Compare, GoesOn
      <3> QED BY <1>w, <3>1, <3>2
    <2>2. CASE Advance(p, pass[p].failures)
      <3>1. GoesOn(p)
        BY <1>2, <1>16, <1>f, <2>2 DEF Compare, GoesOn
      <3> QED BY <1>w, <1>2, <1>f, <2>2, <3>1
    <2> QED BY <1>16, <2>1, <2>2 DEF Compare
  <1> QED BY <1>5, <1>6, <1>7, <1>8, <1>9, <1>10, <1>11, <1>12, <1>13, <1>14, <1>15, <1>16
          DEF Step

\* A card that blows up: an unfinished check is recorded and the pass turns away.
LEMMA BlowUpKind ==
    ASSUME TypeOK, NEW p \in Passes, BlowUp(p)
    PROVE  /\ UNCHANGED <<now, world>>
           /\ pass[p] # Idle /\ pass[p].pc \notin {"idle", "next"}
           /\ \A q \in Passes \ {p} : pass'[q] = pass[q]
           /\ pass'[p] # Idle => pass'[p].texts = pass[p].texts
           /\ WritesNoPass(p)
  <1>1. pass[p] # Idle /\ pass[p].failures \in 0..MaxFailures
    BY NotIdle, BusyPass DEF BlowUp, Busy
  <1>2. /\ \A q \in Passes \ {p} : pass'[q] = pass[q]
        /\ pass'[p] # Idle => /\ pass'[p].pc = "next" /\ pass'[p].cached = None
                             /\ pass'[p].texts = pass[p].texts
    BY <1>1, AdvanceType DEF BlowUp
  <1> QED BY <1>1, <1>2 DEF BlowUp, WritesNoPass, LeavesCard, Verdicts, Checkers

------------------------------------------------------------------------------
(* With no rescore inside a pass, an approval is of the score it is frozen  *)
(* with                                                                     *)

\* A pass in progress works on the texts of the current score, and no rescore is
\* being computed.
PassIsCurrent(p) == pass[p] # Idle => bulk = Idle /\ pass[p].texts = card

CardIsSeen == \A c \in Companies : card[c] \in seen[c]

OneScore == (\A p \in Passes : PassIsCurrent(p)) /\ CardIsSeen /\ ApprovedIsOfThisScore

\* A rescore finds no pass in progress; it is computed and committed, or the data
\* change, between passes.
LEMMA NoPassMeanwhile ==
    ASSUME OneScore, Overlap = FALSE, NEW p \in Passes, MayChange \/ bulk # Idle
    PROVE  pass[p] = Idle
  BY DEF OneScore, PassIsCurrent, MayChange

LEMMA NextOneScore ==
    ASSUME TypeInv, Honest, OneScore, Overlap = FALSE, [Next]_vars
    PROVE  OneScore'
  <1>0. TypeOK /\ Reviewing /\ CardIsSeen /\ ApprovedIsOfThisScore
        /\ \A p \in Passes : PassIsCurrent(p)
    BY DEF TypeInv, OneScore
  \* What a pass does to itself.
  <1>1. ASSUME NEW p \in Passes, UNCHANGED world,
               pass[p] # Idle, \A q \in Passes \ {p} : pass'[q] = pass[q],
               pass'[p] # Idle => pass'[p].texts = pass[p].texts,
               approved' = approved \/ approved' = [approved EXCEPT ![Company(p)] = Text(p)]
        PROVE  OneScore'
    <2>1. \A q \in Passes : PassIsCurrent(q)'
      BY <1>0, <1>1 DEF PassIsCurrent, world
    <2>2. Company(p) \in Companies /\ Text(p) = card[Company(p)]
      BY <1>0, <1>1, BusyPass DEF PassIsCurrent, Company, Text
    <2>3. ApprovedIsOfThisScore'
      BY <1>0, <1>1, <2>2 DEF ApprovedIsOfThisScore, CardIsSeen, world, TypeOK
    <2> QED BY <1>0, <1>1, <2>1, <2>3 DEF OneScore, CardIsSeen, world
  <1>2. CASE Tick \/ UNCHANGED vars
    BY <1>2 DEF Tick, vars, world, OneScore, PassIsCurrent, CardIsSeen, ApprovedIsOfThisScore
  <1>3. ASSUME NEW p \in Passes, NEW mode \in Modes, Start(p, mode)
        PROVE  OneScore'
    <2>1. bulk = Idle /\ UNCHANGED <<world, approved>>
      BY <1>3 DEF Start
    <2>2. \A q \in Passes : PassIsCurrent(q)'
      BY <1>0, <1>3, <2>1, StartType DEF PassIsCurrent, world
    <2> QED BY <1>0, <2>1, <2>2 DEF OneScore, CardIsSeen, ApprovedIsOfThisScore, world
  <1>4. ASSUME NEW p \in Passes, Step(p)
        PROVE  OneScore'
    <2>1. approved' = approved \/ approved' = [approved EXCEPT ![Company(p)] = Text(p)]
      BY <1>4, StepKinds DEF WritesNoPass, WritesPass, ReadsAnswer, Verifies, GoesOn
    <2> QED BY <1>0, <1>1, <1>4, <2>1, StepPass, StepKinds
  <1>5. ASSUME NEW p \in Passes, BlowUp(p)
        PROVE  OneScore'
    BY <1>0, <1>1, <1>5, BlowUpKind DEF BlowUp
  <1>6. ASSUME NEW p \in Passes, Die(p)
        PROVE  OneScore'
    BY <1>0, <1>1, <1>6 DEF Die, TypeOK
  <1>7. ASSUME NEW c \in Companies, NEW h \in Cards, DailyScore(c, h)
        PROVE  OneScore'
    <2>1. \A q \in Passes : PassIsCurrent(q)'
      BY <1>7, NoPassMeanwhile DEF DailyScore, PassIsCurrent
    <2>2. CardIsSeen'
      BY <1>0, <1>7 DEF DailyScore, CardIsSeen, TypeOK
    <2>3. ApprovedIsOfThisScore'
      BY <1>0, <1>7 DEF DailyScore, ApprovedIsOfThisScore, TypeOK
    <2> QED BY <2>1, <2>2, <2>3 DEF OneScore
  <1>8. ASSUME NEW c \in Companies, NEW h \in Cards, NewData(c, h)
        PROVE  OneScore'
    <2>1. \A q \in Passes : PassIsCurrent(q)'
      BY <1>8, NoPassMeanwhile DEF NewData, PassIsCurrent
    <2>2. CardIsSeen'
      BY <1>0, <1>8 DEF NewData, CardIsSeen, TypeOK
    <2>3. ApprovedIsOfThisScore'
      BY <1>0, <1>8 DEF NewData, ApprovedIsOfThisScore, TypeOK
    <2> QED BY <2>1, <2>2, <2>3 DEF OneScore
  <1>9. CASE BulkStart
    BY <1>9, NoPassMeanwhile
       DEF BulkStart, OneScore, PassIsCurrent, CardIsSeen, ApprovedIsOfThisScore
  <1>10. ASSUME NEW texts \in [Companies -> Cards], BulkCommit(texts)
         PROVE  OneScore'
    <2>1. \A q \in Passes : PassIsCurrent(q)'
      BY <1>10, NoPassMeanwhile DEF BulkCommit, PassIsCurrent
    <2>2. CardIsSeen' /\ ApprovedIsOfThisScore'
      BY <1>10 DEF BulkCommit, CardIsSeen, ApprovedIsOfThisScore
    <2> QED BY <2>1, <2>2 DEF OneScore
  <1> QED BY <1>2, <1>3, <1>4, <1>5, <1>6, <1>7, <1>8, <1>9, <1>10 DEF Next

\* With no rescore or new data inside a pass, however many passes run and whatever
\* fails, OneScore holds in every reachable state.
THEOREM OneScoreInvariant ==
    ASSUME Overlap = FALSE
    PROVE  Spec => [](TypeInv /\ Honest /\ OneScore)
  <1>1. Init => OneScore
    BY DEF Init, OneScore, PassIsCurrent, CardIsSeen, ApprovedIsOfThisScore
  <1>2. TypeInv /\ Honest /\ OneScore /\ [Next]_vars => OneScore'
    BY NextOneScore
  <1> QED BY <1>1, <1>2, HonestInvariant, PTL DEF Spec

\* An approval is never of a card that the score it is frozen with has replaced.
THEOREM ApprovedIsOfThisScoreTheorem ==
    ASSUME Overlap = FALSE
    PROVE  Spec => []ApprovedIsOfThisScore
  <1>1. OneScore => ApprovedIsOfThisScore
    BY DEF OneScore
  <1> QED BY <1>1, OneScoreInvariant, PTL

------------------------------------------------------------------------------
(* A rescore makes a fresh check necessary                                  *)

\* Nothing is stamped in the future.
InTime ==
    \A c \in Companies :
       /\ committed[c] <= now
       /\ \A h \in Cards : /\ reviewed[c][h] <= now
                           /\ checks[c][h] # None => checks[c][h].at <= now

\* A rescore that is being computed will outdate every stored row.
BulkOutdates ==
    bulk # Idle => \A c \in Companies, h \in Cards :
                      checks[c][h] # None => checks[c][h].at < bulk.stamp

\* A text was reviewed under the current score.
ReviewedSince(c, h) == reviewed[c][h] >= committed[c]

\* A stored pass that counts was made under the current score ...
RowsFresh ==
    \A c \in Companies, h \in Cards :
       checks[c][h] # None /\ StateOf(checks[c][h]) = "pass" /\ scoredAt[c] <= checks[c][h].at
         => ReviewedSince(c, h)

\* ... and so was one that a pass has read and may record again.
PassFresh(p) ==
    pass[p] # Idle /\ pass[p].cached # None /\ StateOf(pass[p].cached) = "pass"
      => ReviewedSince(Company(p), Text(p))

Fresh == InTime /\ BulkOutdates /\ RowsFresh /\ \A p \in Passes : PassFresh(p)

\* What record_check stores.
LEMMA WriteRows ==
    ASSUME TypeOK, NEW c \in Companies, NEW h \in Cards, NEW verdict, NEW checker,
           Write(c, h, verdict, checker)
    PROVE  /\ checks'[c][h] = [verdict |-> verdict, checker |-> checker, at |-> now]
           /\ checks'[c][h].verdict = verdict /\ checks'[c][h].at = now
           /\ \A d \in Companies, g \in Cards :
                 d # c \/ g # h => checks'[d][g] = checks[d][g]
  BY DEF TypeOK, Write

\* Freshness through a step of a pass.
LEMMA StepFresh ==
    ASSUME TypeInv, Honest, OneScore, Fresh, NEW p \in Passes,
           pass[p] # Idle, \A q \in Passes \ {p} : pass'[q] = pass[q],
           UNCHANGED <<now, world>>, pass'[p] # Idle => pass'[p].texts = pass[p].texts,
           \/ WritesNoPass(p) \/ WritesPass(p) \/ ReadsAnswer(p)
           \/ Verifies(p) \/ GoesOn(p)
    PROVE  Fresh'
  <1>0. /\ TypeOK /\ InTime /\ BulkOutdates /\ RowsFresh /\ PassFresh(p)
        /\ Company(p) \in Companies /\ Text(p) \in Cards /\ bulk = Idle
    BY BusyPass DEF TypeInv, Fresh, OneScore, PassIsCurrent
  <1>w. /\ now' = now /\ committed' = committed /\ scoredAt' = scoredAt /\ bulk' = Idle
    BY <1>0 DEF world
  <1>t. /\ now \in Nat
        /\ \A c \in Companies : committed[c] \in Nat
        /\ \A c \in Companies, h \in Cards : reviewed[c][h] \in Int
    BY <1>0, ConstantsAssumption DEF TypeOK, Times, Never
  \* Reviews only ever get newer, and this pass may have made one.
  <1>1. /\ \A c \in Companies, h \in Cards :
             /\ reviewed'[c][h] \in Int
             /\ reviewed[c][h] <= reviewed'[c][h] /\ reviewed'[c][h] <= now
        /\ WritesPass(p) => ReviewedSince(Company(p), Text(p))'
    <2>1. CASE reviewed' = reviewed
      <3>1. WritesPass(p) => ReviewedSince(Company(p), Text(p))
        <4>1. ASSUME WritesPass(p),
                     reviewed' = [reviewed EXCEPT ![Company(p)][Text(p)] = now]
              PROVE  ReviewedSince(Company(p), Text(p))
          BY <1>0, <1>t, <2>1, <4>1 DEF TypeOK, ReviewedSince, InTime
        <4> QED BY <1>0, <4>1 DEF WritesPass, PassFresh
      <3>2. WritesPass(p) => Company(p)' = Company(p) /\ Text(p)' = Text(p)
        BY DEF WritesPass, StaysAtCard, Company, Text
      <3> QED BY <1>0, <1>t, <1>w, <2>1, <3>1, <3>2 DEF InTime, ReviewedSince
    <2>2. CASE reviewed' = [reviewed EXCEPT ![Company(p)][Text(p)] = now]
      <3>1. /\ reviewed'[Company(p)][Text(p)] = now
            /\ \A c \in Companies, h \in Cards :
                  reviewed'[c][h] = now \/ reviewed'[c][h] = reviewed[c][h]
        BY <1>0, <2>2 DEF TypeOK
      <3>2. WritesPass(p) => Company(p)' = Company(p) /\ Text(p)' = Text(p)
        BY DEF WritesPass, StaysAtCard, Company, Text
      <3> QED BY <1>0, <1>t, <1>w, <3>1, <3>2 DEF InTime, ReviewedSince
    <2> QED BY <2>1, <2>2 DEF WritesNoPass, WritesPass, ReadsAnswer, Verifies, GoesOn
  <1>2. \A c \in Companies, h \in Cards : ReviewedSince(c, h) => reviewed'[c][h] >= committed'[c]
    BY <1>1, <1>t, <1>w DEF ReviewedSince
  <1>3. \A c \in Companies, h \in Cards :
           \/ checks'[c][h] = checks[c][h]
           \/ /\ c = Company(p) /\ h = Text(p) /\ checks'[c][h].at = now
              /\ WritesPass(p) \/ checks'[c][h].verdict # "pass"
    <2>1. CASE checks' = checks
      BY <2>1
    <2>2. ASSUME NEW verdict \in Verdicts, NEW checker \in Checkers,
                 Write(Company(p), Text(p), verdict, checker),
                 WritesPass(p) \/ verdict # "pass"
          PROVE  <1>3
      <3>1. /\ checks'[Company(p)][Text(p)].verdict = verdict
            /\ checks'[Company(p)][Text(p)].at = now
            /\ \A d \in Companies, g \in Cards :
                  d # Company(p) \/ g # Text(p) => checks'[d][g] = checks[d][g]
        <4> DEFINE c == Company(p)  h == Text(p)
        <4>1. c \in Companies /\ h \in Cards /\ Write(c, h, verdict, checker)
          BY <1>0, <2>2
        <4>2. /\ checks'[c][h].verdict = verdict /\ checks'[c][h].at = now
              /\ \A d \in Companies, g \in Cards :
                    d # c \/ g # h => checks'[d][g] = checks[d][g]
          <5> HIDE DEF c, h
          <5> QED BY <1>0, <4>1 DEF Write, TypeOK
        <4> QED BY <4>2, Zenon
      <3> QED BY <1>0, <2>2, <3>1
    <2>3. CASE WritesPass(p)
      BY <2>2, <2>3 DEF WritesPass, Verdicts
    <2> QED BY <2>1, <2>2, <2>3 DEF WritesNoPass, ReadsAnswer, Verifies, GoesOn
  <1>4. InTime'
    BY <1>0, <1>1, <1>3, <1>t, <1>w DEF InTime
  <1>5. BulkOutdates'
    BY <1>w DEF BulkOutdates
  <1>6. RowsFresh'
    <2> SUFFICES ASSUME NEW c \in Companies, NEW h \in Cards, checks'[c][h] # None,
                        StateOf(checks'[c][h]) = "pass", scoredAt[c] <= checks'[c][h].at
                 PROVE  reviewed'[c][h] >= committed'[c]
      BY <1>w DEF RowsFresh, ReviewedSince, StateOf
    <2>1. CASE checks'[c][h] = checks[c][h]
      BY <1>0, <1>2, <2>1 DEF RowsFresh
    <2>2. CASE c = Company(p) /\ h = Text(p) /\ WritesPass(p)
      <3>1. Company(p)' = Company(p) /\ Text(p)' = Text(p)
        BY <2>2 DEF WritesPass, StaysAtCard, Company, Text
      <3> QED BY <1>1, <2>2, <3>1 DEF ReviewedSince
    <2>3. CASE checks'[c][h].verdict # "pass"
      BY <2>3 DEF StateOf
    <2> QED BY <1>3, <2>1, <2>2, <2>3
  <1>7. PassFresh(p)'
    <2> SUFFICES ASSUME pass'[p] # Idle, pass'[p].cached # None,
                        StateOf(pass'[p].cached) = "pass"
                 PROVE  ReviewedSince(Company(p), Text(p))'
      BY DEF PassFresh, StateOf
    <2>1. CASE LeavesCard(p)
      BY <2>1 DEF LeavesCard
    <2>2. CASE ReadsAnswer(p)
      <3>1. Company(p)' = Company(p) /\ Text(p)' = Text(p)
        BY <2>2 DEF ReadsAnswer, Company, Text
      <3>2. ReviewedSince(Company(p), Text(p))
        <4>1. pass'[p].cached = CachedCheck(Company(p), Text(p))
          BY <2>2 DEF ReadsAnswer
        <4>2. checks[Company(p)][Text(p)] \in MaybeCheck /\ scoredAt[Company(p)] \in Times
          BY <1>0 DEF TypeOK
        <4>3. /\ checks[Company(p)][Text(p)] # None
              /\ StateOf(checks[Company(p)][Text(p)]) = "pass"
              /\ scoredAt[Company(p)] <= checks[Company(p)][Text(p)].at
          BY <4>1, <4>2, ConstantsAssumption DEF CachedCheck, MaybeCheck, Checks, Times
        <4> QED BY <1>0, <4>3 DEF RowsFresh
      <3> QED BY <1>0, <1>2, <3>1, <3>2 DEF ReviewedSince
    <2>3. CASE StaysAtCard(p) \/ Verifies(p)
      <3>1. /\ Company(p)' = Company(p) /\ Text(p)' = Text(p)
            /\ pass'[p].cached = pass[p].cached
        BY <2>3 DEF StaysAtCard, Verifies, Company, Text
      <3> QED BY <1>0, <1>2, <3>1 DEF PassFresh, ReviewedSince
    <2> QED BY <2>1, <2>2, <2>3 DEF WritesNoPass, WritesPass, GoesOn
  <1>8. ASSUME NEW q \in Passes \ {p}
        PROVE  PassFresh(q)'
    <2>1. pass'[q] = pass[q] /\ PassFresh(q)
      BY <1>8 DEF Fresh
    <2>2. Company(q)' = Company(q) /\ Text(q)' = Text(q)
      BY <2>1 DEF Company, Text
    <2>3. pass[q] # Idle => Company(q) \in Companies /\ Text(q) \in Cards
      BY <1>0, <1>8, BusyPass
    <2> QED BY <1>2, <2>1, <2>2, <2>3 DEF PassFresh, ReviewedSince
  <1> QED BY <1>4, <1>5, <1>6, <1>7, <1>8 DEF Fresh

LEMMA NextFresh ==
    ASSUME TypeInv, Honest, OneScore, Fresh, Overlap = FALSE, SameSecond = FALSE, [Next]_vars
    PROVE  Fresh'
  <1>0. /\ TypeOK /\ InTime /\ BulkOutdates /\ RowsFresh /\ \A p \in Passes : PassFresh(p)
    BY DEF TypeInv, Fresh
  <1>t. /\ now \in Nat
        /\ \A c \in Companies : committed[c] \in Nat /\ scoredAt[c] \in Nat
        /\ \A c \in Companies, h \in Cards : reviewed[c][h] \in Int
    BY <1>0, ConstantsAssumption DEF TypeOK, Times, Never
  <1>r. \A c \in Companies, h \in Cards : checks[c][h] # None => checks[c][h].at \in Nat
    BY <1>0, ConstantsAssumption DEF TypeOK, MaybeCheck, Checks, Times
  <1>1. ASSUME NEW p \in Passes, Step(p)
        PROVE  Fresh'
    BY <1>0, <1>1, StepKinds, StepPass, StepFresh DEF TypeInv
  <1>2. ASSUME NEW p \in Passes, BlowUp(p)
        PROVE  Fresh'
    BY <1>0, <1>2, BlowUpKind, StepFresh
  \* The passes read nothing, and the rows and their reviews stay.
  <1>3. ASSUME UNCHANGED <<checks, reviewed, committed>>,
               \A q \in Passes : pass'[q] = pass[q] \/ pass'[q] = Idle \/ pass'[q].cached = None
        PROVE  \A q \in Passes : PassFresh(q)'
    <2> SUFFICES ASSUME NEW q \in Passes, pass'[q] # Idle, pass'[q].cached # None,
                        StateOf(pass'[q].cached) = "pass"
                 PROVE  reviewed[Company(q)'][Text(q)'] >= committed[Company(q)']
      BY <1>3 DEF PassFresh, ReviewedSince, StateOf
    <2>1. pass'[q] = pass[q] /\ PassFresh(q)
      BY <1>0, <1>3
    <2> QED BY <2>1 DEF PassFresh, ReviewedSince, Company, Text
  <1>4. CASE UNCHANGED vars
    BY <1>0, <1>3, <1>4
       DEF vars, Fresh, InTime, BulkOutdates, RowsFresh, ReviewedSince
  <1>5. CASE Tick
    <2>1. /\ now' = now + 1
          /\ UNCHANGED <<checks, reviewed, committed, scoredAt, bulk, pass>>
      BY <1>5 DEF Tick, world
    <2>2. InTime'
      BY <1>0, <1>t, <1>r, <2>1 DEF InTime
    <2> QED BY <1>0, <1>3, <2>1, <2>2 DEF Fresh, BulkOutdates, RowsFresh, ReviewedSince
  <1>6. ASSUME NEW p \in Passes, NEW mode \in Modes, Start(p, mode)
        PROVE  Fresh'
    <2>1. UNCHANGED <<now, checks, reviewed, committed, scoredAt, bulk>>
      BY <1>6 DEF Start, world
    <2>2. \A q \in Passes : PassFresh(q)'
      BY <1>0, <1>3, <1>6, <2>1, StartType
    <2> QED BY <1>0, <2>1, <2>2 DEF Fresh, InTime, BulkOutdates, RowsFresh, ReviewedSince
  <1>7. ASSUME NEW p \in Passes, Die(p)
        PROVE  Fresh'
    <2>1. UNCHANGED <<now, checks, reviewed, committed, scoredAt, bulk>>
      BY <1>7 DEF Die, world
    <2>2. \A q \in Passes : PassFresh(q)'
      BY <1>0, <1>3, <1>7, <2>1 DEF Die, TypeOK
    <2> QED BY <1>0, <2>1, <2>2 DEF Fresh, InTime, BulkOutdates, RowsFresh, ReviewedSince
  <1>8. ASSUME NEW c \in Companies, NEW h \in Cards, NewData(c, h)
        PROVE  Fresh'
    <2>1. UNCHANGED <<now, checks, reviewed, committed, scoredAt, bulk, pass>>
      BY <1>8 DEF NewData
    <2> QED BY <1>0, <1>3, <2>1 DEF Fresh, InTime, BulkOutdates, RowsFresh, ReviewedSince
  \* A rescore outdates the rows: none is from this second.
  <1>9. ASSUME MayChange \/ bulk # Idle
        PROVE  \A q \in Passes : pass[q] = Idle
    BY <1>9, NoPassMeanwhile
  <1>10. ASSUME NEW c \in Companies, NEW h \in Cards, DailyScore(c, h)
         PROVE  Fresh'
    <2>1. /\ UNCHANGED <<now, checks, reviewed, bulk, pass>> /\ MayChange
          /\ \A d \in Companies : /\ committed'[d] = IF d = c THEN now ELSE committed[d]
                                  /\ scoredAt'[d] = IF d = c THEN now ELSE scoredAt[d]
      BY <1>0, <1>10 DEF DailyScore, TypeOK
    <2>2. \A d \in Companies, g \in Cards : checks[d][g] # None => checks[d][g].at < now
      BY <2>1 DEF MayChange
    <2>3. RowsFresh'
      <3> SUFFICES ASSUME NEW d \in Companies, NEW g \in Cards, checks[d][g] # None,
                          StateOf(checks[d][g]) = "pass", scoredAt'[d] <= checks[d][g].at
                   PROVE  reviewed[d][g] >= committed'[d]
        BY <2>1 DEF RowsFresh, ReviewedSince, StateOf
      <3>1. d # c
        BY <1>t, <1>r, <2>1, <2>2
      <3> QED BY <1>0, <2>1, <3>1 DEF RowsFresh, ReviewedSince
    <2>4. \A q \in Passes : PassFresh(q)'
      BY <1>9, <2>1 DEF PassFresh
    <2>5. InTime'
      BY <1>0, <1>t, <2>1 DEF InTime
    <2> QED BY <1>0, <2>1, <2>3, <2>4, <2>5 DEF Fresh, BulkOutdates
  <1>11. CASE BulkStart
    <2>1. /\ UNCHANGED <<now, checks, reviewed, committed, scoredAt, pass>> /\ MayChange
          /\ bulk'.stamp = now
      BY <1>11 DEF BulkStart
    <2>2. BulkOutdates'
      BY <2>1 DEF BulkOutdates, MayChange
    <2>3. \A q \in Passes : PassFresh(q)'
      BY <1>9, <2>1 DEF PassFresh
    <2> QED BY <1>0, <2>1, <2>2, <2>3 DEF Fresh, InTime, RowsFresh, ReviewedSince
  <1>12. ASSUME NEW texts \in [Companies -> Cards], BulkCommit(texts)
         PROVE  Fresh'
    <2>1. /\ UNCHANGED <<now, checks, reviewed, pass>> /\ bulk # Idle /\ bulk' = Idle
          /\ \A d \in Companies : committed'[d] = now /\ scoredAt'[d] = bulk.stamp
      BY <1>12 DEF BulkCommit
    <2>2. bulk.stamp \in Nat
      BY <1>0, <2>1, ConstantsAssumption DEF TypeOK, Times
    <2>3. RowsFresh'
      BY <1>0, <1>r, <2>1, <2>2 DEF RowsFresh, BulkOutdates
    <2>4. \A q \in Passes : PassFresh(q)'
      BY <1>9, <2>1 DEF PassFresh
    <2>5. InTime'
      BY <1>0, <1>t, <2>1 DEF InTime
    <2> QED BY <2>1, <2>3, <2>4, <2>5 DEF Fresh, BulkOutdates
  <1> QED BY <1>1, <1>2, <1>4, <1>5, <1>6, <1>7, <1>8, <1>10, <1>11, <1>12 DEF Next

\* A score that was just committed is shown only after a check made for it, for any
\* number of passes, when rescores keep out of the passes and of the seconds in which
\* checks are recorded: the stamps that decide it have that resolution.
THEOREM FreshVerdictTheorem ==
    ASSUME Overlap = FALSE, SameSecond = FALSE
    PROVE  Spec => []FreshVerdict
  <1>1. Init => Fresh
    BY DEF Init, Fresh, InTime, BulkOutdates, RowsFresh, PassFresh, Never
  <1>2. TypeInv /\ Honest /\ OneScore /\ Fresh /\ [Next]_vars => Fresh'
    BY NextFresh
  <1>3. TypeInv /\ Honest /\ Fresh => FreshVerdict
    <2> SUFFICES ASSUME TypeOK, RowsHonest, RowsFresh, NEW c \in Companies, Shown(c)
                 PROVE  reviewed[c][card[c]] >= committed[c]
      BY DEF TypeInv, Honest, Fresh, FreshVerdict
    <2>1. card[c] \in Cards /\ card[c] # None /\ newest[c] = card[c]
      BY ConstantsAssumption DEF Shown, TypeOK
    <2>2. /\ checks[c][card[c]] # None /\ StateOf(checks[c][card[c]]) = "pass"
          /\ scoredAt[c] <= checks[c][card[c]].at
      BY <2>1 DEF RowsHonest, Shown
    <2> QED BY <2>1, <2>2 DEF RowsFresh, ReviewedSince
  <1> QED BY <1>1, <1>2, <1>3, OneScoreInvariant, PTL DEF Spec

------------------------------------------------------------------------------
(* A veto stands                                                            *)

IsVeto(c, h) == checks[c][h] # None /\ checks[c][h].verdict = "reject"

\* A pass that is past the stored answer is at a text without a veto.
NoVeto(p) == pass[p] # Idle /\ pass[p].pc # "next" => ~ IsVeto(Company(p), Text(p))

\* A pass and what it writes keep the vetoes and stay past them, whatever its stage.
LEMMA StepVeto ==
    ASSUME TypeOK, NEW p \in Passes, pass[p] # Idle, NoVeto(p),
           pass'[p] # Idle => pass'[p].texts = pass[p].texts,
           \/ WritesNoPass(p) \/ WritesPass(p) \/ ReadsAnswer(p)
           \/ Verifies(p) \/ GoesOn(p)
    PROVE  /\ NoVeto(p)'
           /\ \A c \in Companies, h \in Cards :
                 IsVeto(c, h) => checks'[c][h].verdict = "reject"
  <1>0. Company(p) \in Companies /\ Text(p) \in Cards
    BY BusyPass
  <1>1. CASE WritesNoPass(p)
    <2>1. PICK verdict \in Verdicts \ {"pass"} : \E checker \in Checkers :
             /\ Write(Company(p), Text(p), verdict, checker)
             /\ pass[p].pc = "next" => verdict = "reject"
      BY <1>1 DEF WritesNoPass
    <2>2. PICK checker \in Checkers : Write(Company(p), Text(p), verdict, checker)
      BY <2>1
    <2>3. \A c \in Companies, h \in Cards :
             checks'[c][h] = IF c = Company(p) /\ h = Text(p)
                             THEN [verdict |-> verdict, checker |-> checker, at |-> now]
                             ELSE checks[c][h]
      BY <1>0, <2>2 DEF Write, TypeOK
    <2>4. \A c \in Companies, h \in Cards :
             IsVeto(c, h) => checks'[c][h].verdict = "reject"
      BY <2>1, <2>3 DEF NoVeto, IsVeto
    <2> QED BY <1>1, <2>4 DEF WritesNoPass, LeavesCard, NoVeto
  <1>2. CASE WritesPass(p)
    <2>1. PICK checker \in Checkers : Write(Company(p), Text(p), "pass", checker)
      BY <1>2 DEF WritesPass
    <2>2. \A c \in Companies, h \in Cards :
             checks'[c][h] = IF c = Company(p) /\ h = Text(p)
                             THEN [verdict |-> "pass", checker |-> checker, at |-> now]
                             ELSE checks[c][h]
      BY <1>0, <2>1 DEF Write, TypeOK
    <2>3. ~ IsVeto(Company(p), Text(p))
      BY <1>2 DEF WritesPass, NoVeto
    <2>4. \A c \in Companies, h \in Cards :
             IsVeto(c, h) => checks'[c][h].verdict = "reject"
      BY <2>2, <2>3 DEF IsVeto
    <2>5. Company(p)' = Company(p) /\ Text(p)' = Text(p)
      BY <1>2 DEF WritesPass, StaysAtCard, Company, Text
    <2> QED BY <1>0, <2>2, <2>4, <2>5 DEF NoVeto, IsVeto
  <1>3. CASE ReadsAnswer(p)
    <2>1. Company(p)' = Company(p) /\ Text(p)' = Text(p) /\ checks' = checks
      BY <1>3 DEF ReadsAnswer, Company, Text
    <2>2. ~ IsVeto(Company(p), Text(p))
      BY <1>3 DEF ReadsAnswer, CachedCheck, StateOf, IsVeto
    <2> QED BY <2>1, <2>2 DEF NoVeto, IsVeto
  <1>4. CASE Verifies(p)
    <2>1. /\ Company(p)' = Company(p) /\ Text(p)' = Text(p) /\ checks' = checks
          /\ pass[p].pc = "verify"
      BY <1>4 DEF Verifies, Company, Text
    <2> QED BY <2>1 DEF NoVeto, IsVeto
  <1>5. CASE GoesOn(p)
    <2>1. checks' = checks
      BY <1>5 DEF GoesOn
    <2>2. CASE LeavesCard(p)
      BY <2>1, <2>2 DEF LeavesCard, NoVeto, IsVeto
    <2>3. CASE StaysAtCard(p) /\ pass[p].pc \in {"decide", "compare"}
      <3>1. Company(p)' = Company(p) /\ Text(p)' = Text(p)
        BY <2>3 DEF StaysAtCard, Company, Text
      <3> QED BY <2>1, <2>3, <3>1 DEF NoVeto, IsVeto
    <2> QED BY <1>5, <2>2, <2>3 DEF GoesOn
  <1> QED BY <1>1, <1>2, <1>3, <1>4, <1>5

\* A veto of a text stands, through stored answers, outages, exceptions, dead processes
\* and rescores at any point, where one pass runs at a time.  (A second pass that read
\* the store before the veto was written can replace it: see README.)
THEOREM RejectStandsTheorem ==
    ASSUME \A p, q \in Passes : p = q
    PROVE  Spec => RejectStands
  <1> DEFINE Open == \A p \in Passes : NoVeto(p)
             Stands == \A c \in Companies, h \in Cards :
                          IsVeto(c, h) => checks'[c][h].verdict = "reject"
  <1>1. Init => Open
    BY DEF Init, NoVeto
  <1>2. ASSUME TypeInv, Honest, Open, [Next]_vars
        PROVE  Open' /\ Stands
    <2>0. TypeOK
      BY <1>2 DEF TypeInv
    \* The only pass there is.
    <2>1. ASSUME NEW p \in Passes, NoVeto(p)', Stands
          PROVE  Open' /\ Stands
      <3>1. \A q \in Passes : q = p
        OBVIOUS
      <3> QED BY <2>1, <3>1
    <2>2. ASSUME NEW p \in Passes, Step(p)
          PROVE  Open' /\ Stands
      BY <1>2, <2>0, <2>1, <2>2, StepKinds, StepPass, StepVeto DEF TypeInv
    <2>3. ASSUME NEW p \in Passes, BlowUp(p)
          PROVE  Open' /\ Stands
      BY <1>2, <2>0, <2>1, <2>3, BlowUpKind, StepVeto
    <2>4. ASSUME checks' = checks,
                 \A q \in Passes : pass'[q] = pass[q] \/ pass'[q] = Idle \/ pass'[q].pc = "next"
          PROVE  Open' /\ Stands
      BY <1>2, <2>4 DEF NoVeto, IsVeto, Company, Text
    <2>5. ASSUME NEW p \in Passes, NEW mode \in Modes, Start(p, mode)
          PROVE  Open' /\ Stands
      BY <2>0, <2>4, <2>5, StartType DEF Start
    <2>6. ASSUME NEW p \in Passes, Die(p)
          PROVE  Open' /\ Stands
      BY <2>0, <2>4, <2>6 DEF Die, TypeOK
    <2>7. ASSUME UNCHANGED <<checks, pass>>
          PROVE  Open' /\ Stands
      BY <2>4, <2>7
    <2> QED BY <1>2, <2>2, <2>3, <2>5, <2>6, <2>7
        DEF Next, vars, Tick, DailyScore, NewData, BulkStart, BulkCommit
  <1>3. Stands => (\A c \in Companies, h \in Cards :
                     checks[c][h] # None /\ checks[c][h].verdict = "reject"
                       => checks'[c][h].verdict = "reject")
    BY DEF IsVeto
  <1> QED BY <1>1, <1>2, <1>3, HonestInvariant, PTL DEF Spec, RejectStands

------------------------------------------------------------------------------
(* A link proof outlives the day it is used for                             *)

\* A card is not held longer than a check of it may take.
Timely(p) ==
    pass[p] # Idle /\ pass[p].pc # "next" =>
       pass[p].since <= now /\ now <= pass[p].since + ReviewLimit

Past == \A c \in Companies, h \in Cards : checks[c][h] # None => checks[c][h].at <= now

Reachable(c) == link[c] # None /\ link[c].state = "reachable"

\* A card that got past the link check has a proof with enough of its life left,
\* even if another pass has renewed it since.
Proven(p) ==
    pass[p] # Idle /\ pass[p].pc \in {"decide", "review"} /\ Reachable(Company(p))
      => link[Company(p)].expires > pass[p].since + ReuseMinLeft

Lasting ==
    /\ \A p \in Passes : Timely(p) /\ Proven(p)
    /\ Past
    /\ ProofOutlivesDay

\* Where nothing is written and the passes stand still or turn to a card.
LEMMA LastingKept ==
    ASSUME TypeOK, Lasting, UNCHANGED <<now, checks, link>>,
           \A q \in Passes : pass'[q] = pass[q] \/ pass'[q] = Idle \/ pass'[q].pc = "next"
    PROVE  Lasting'
  <1>1. ASSUME NEW q \in Passes
        PROVE  Timely(q)' /\ Proven(q)'
    BY <1>1 DEF Lasting, Timely, Proven, Reachable, Company
  <1> QED BY <1>1 DEF Lasting, Past, ProofOutlivesDay, StateOf

LEMMA StepLasting ==
    ASSUME TypeOK, LinkTTL > ReuseMinLeft + ReviewLimit, Lasting, NEW p \in Passes,
           pass[p] # Idle, \A q \in Passes \ {p} : pass'[q] = pass[q], UNCHANGED <<now, world>>,
           \/ WritesNoPass(p) \/ WritesPass(p) \/ ReadsAnswer(p)
           \/ Verifies(p) \/ GoesOn(p)
    PROVE  Lasting'
  <1>0. /\ Company(p) \in Companies /\ Text(p) \in Cards /\ pass[p].since \in Nat
        /\ now \in Nat /\ ReuseMinLeft \in Nat /\ ReviewLimit \in Nat /\ LinkTTL \in Nat
        /\ Timely(p) /\ Proven(p) /\ Past /\ ProofOutlivesDay
    BY BusyPass, ConstantsAssumption DEF TypeOK, Busy, Times, Lasting
  <1>c. \A c \in Companies, h \in Cards : checks[c][h] # None => checks[c][h].at \in Nat
    BY ConstantsAssumption DEF TypeOK, MaybeCheck, Checks, Times
  \* The other passes, while the links stay.
  <1>1. ASSUME link' = link, NEW q \in Passes \ {p}
        PROVE  Timely(q)' /\ Proven(q)'
    BY <1>1 DEF Lasting, Timely, Proven, Reachable, Company
  <1>2. CASE WritesNoPass(p)
    <2>1. PICK verdict \in Verdicts \ {"pass"} : \E checker \in Checkers :
             Write(Company(p), Text(p), verdict, checker)
      BY <1>2 DEF WritesNoPass
    <2>2. PICK checker \in Checkers : Write(Company(p), Text(p), verdict, checker)
      BY <2>1
    <2>3. \A c \in Companies, h \in Cards :
             checks'[c][h] = IF c = Company(p) /\ h = Text(p)
                             THEN [verdict |-> verdict, checker |-> checker, at |-> now]
                             ELSE checks[c][h]
      BY <1>0, <2>2 DEF Write, TypeOK
    <2>4. Past'
      BY <1>0, <2>3 DEF Past
    <2>5. link' = link /\ ProofOutlivesDay'
      BY <1>0, <1>2, <2>3 DEF WritesNoPass, ProofOutlivesDay, StateOf
    <2>6. Timely(p)' /\ Proven(p)'
      BY <1>2 DEF WritesNoPass, LeavesCard, Timely, Proven
    <2> QED BY <1>1, <2>4, <2>5, <2>6 DEF Lasting
  <1>3. CASE WritesPass(p)
    <2>1. PICK checker \in Checkers : Write(Company(p), Text(p), "pass", checker)
      BY <1>3 DEF WritesPass
    <2>2. \A c \in Companies, h \in Cards :
             checks'[c][h] = IF c = Company(p) /\ h = Text(p)
                             THEN [verdict |-> "pass", checker |-> checker, at |-> now]
                             ELSE checks[c][h]
      BY <1>0, <2>1 DEF Write, TypeOK
    <2>3. Past'
      BY <1>0, <2>2 DEF Past
    <2>4. link' = link /\ pass[p].pc \in {"decide", "review"} /\ pass'[p].pc = "compare"
          /\ pass'[p].since = pass[p].since
      BY <1>3 DEF WritesPass, StaysAtCard
    \* The proof had enough left when the check began.
    <2>5. Reachable(Company(p)) =>
             link[Company(p)].expires > now + ReuseMinLeft - ReviewLimit
      <3>1. now <= pass[p].since + ReviewLimit
        BY <1>0, <2>4 DEF Timely
      <3>2. SUFFICES ASSUME Reachable(Company(p))
                     PROVE  link[Company(p)].expires > now + ReuseMinLeft - ReviewLimit
        OBVIOUS
      <3>3. link[Company(p)].expires > pass[p].since + ReuseMinLeft
        BY <1>0, <2>4, <3>2 DEF Proven
      <3>4. link[Company(p)].expires \in Int
        BY <1>0, <3>2, ConstantsAssumption DEF TypeOK, Links, Reachable
      <3> QED BY <1>0, <3>1, <3>3, <3>4
    <2>6. ProofOutlivesDay'
      BY <1>0, <2>2, <2>4, <2>5 DEF ProofOutlivesDay, Reachable, StateOf
    <2>7. Timely(p)' /\ Proven(p)'
      BY <1>0, <2>4 DEF Timely, Proven
    <2> QED BY <1>1, <2>3, <2>4, <2>6, <2>7 DEF Lasting
  <1>4. CASE ReadsAnswer(p)
    <2>1. UNCHANGED <<checks, link>> /\ pass'[p].pc = "verify" /\ pass'[p].since = now
      BY <1>4 DEF ReadsAnswer
    <2>2. Timely(p)' /\ Proven(p)'
      BY <1>0, <2>1 DEF Timely, Proven
    <2> QED BY <1>0, <1>1, <2>1, <2>2 DEF Lasting, Past, ProofOutlivesDay, StateOf
  <1>5. CASE GoesOn(p)
    <2>1. UNCHANGED <<checks, link>>
      BY <1>5 DEF GoesOn
    <2>2. Timely(p)' /\ Proven(p)'
      <3>1. CASE LeavesCard(p)
        BY <3>1 DEF LeavesCard, Timely, Proven
      <3>2. CASE /\ StaysAtCard(p)
                 /\ \/ pass[p].pc = "decide" /\ pass'[p].pc = "review"
                    \/ pass[p].pc = "compare" /\ pass'[p].pc = "approve"
        BY <1>0, <2>1, <3>2 DEF StaysAtCard, Timely, Proven, Reachable, Company
      <3> QED BY <1>5, <3>1, <3>2 DEF GoesOn
    <2> QED BY <1>0, <1>1, <2>1, <2>2 DEF Lasting, Past, ProofOutlivesDay, StateOf
  <1>6. CASE Verifies(p)
    <2>1. /\ pass[p].pc = "verify" /\ pass'[p].since = pass[p].since
          /\ Company(p)' = Company(p) /\ checks' = checks
          /\ pass[p].since <= now /\ now <= pass[p].since + ReviewLimit
      BY <1>0, <1>6 DEF Verifies, Company, Timely
    <2>2. Timely(p)' /\ Past'
      BY <1>0, <2>1 DEF Timely, Past
    <2>3. CASE link' = link /\ LinkReusable(Company(p), pass[p].since)
      <3>1. Proven(p)'
        <4>1. Reachable(Company(p)) => link[Company(p)].expires \in Int
          BY <1>0, ConstantsAssumption DEF TypeOK, Links, Reachable
        <4> QED BY <1>0, <2>1, <2>3, <4>1 DEF LinkReusable, Proven, Reachable
      <3> QED BY <1>0, <1>1, <2>1, <2>2, <2>3, <3>1 DEF Lasting, ProofOutlivesDay, StateOf
    <2>4. ASSUME NEW state \in LinkFindings,
                 link' = [link EXCEPT ![Company(p)] =
                            [state |-> state,
                             expires |-> pass[p].since + IF state = "reachable" THEN LinkTTL
                                                         ELSE RetryTTL]]
          PROVE  Lasting'
      <3>1. /\ \A c \in Companies \ {Company(p)} : link'[c] = link[c]
            /\ link'[Company(p)].state = "reachable" =>
                  link'[Company(p)].expires = pass[p].since + LinkTTL
        BY <1>0, <2>4 DEF TypeOK
      <3>2. Proven(p)'
        BY <1>0, <2>1, <3>1 DEF Proven, Reachable
      <3>3. ASSUME NEW q \in Passes \ {p}
            PROVE  Timely(q)' /\ Proven(q)'
        <4>1. pass'[q] = pass[q] /\ Company(q)' = Company(q) /\ Timely(q) /\ Proven(q)
          BY <3>3 DEF Company, Lasting
        <4>2. Timely(q)'
          BY <4>1 DEF Timely
        <4>3. CASE Company(q) = Company(p)
          <5>1. pass[q] # Idle => pass[q].since \in Nat
            BY <3>3, BusyPass, ConstantsAssumption DEF Busy, Times
          <5> QED BY <1>0, <2>1, <3>1, <4>1, <4>3, <5>1 DEF Timely, Proven, Reachable
        <4>4. CASE Company(q) # Company(p)
          <5>1. pass[q] # Idle => Company(q) \in Companies
            BY <3>3, BusyPass
          <5> QED BY <3>1, <4>1, <4>2, <4>4, <5>1 DEF Proven, Reachable
        <4> QED BY <4>2, <4>3, <4>4
      <3>4. ProofOutlivesDay'
        <4> SUFFICES ASSUME NEW c \in Companies, NEW h \in Cards, checks[c][h] # None,
                            StateOf(checks[c][h]) = "pass", link'[c] # None,
                            link'[c].state = "reachable"
                     PROVE  link'[c].expires > checks[c][h].at + ReuseMinLeft - ReviewLimit
          BY <2>1 DEF ProofOutlivesDay, StateOf
        <4>1. CASE c = Company(p)
          <5>1. checks[c][h].at <= now /\ checks[c][h].at \in Nat
            BY <1>0, <1>c DEF Past
          <5> QED BY <1>0, <2>1, <3>1, <4>1, <5>1
        <4>2. CASE c # Company(p)
          BY <1>0, <3>1, <4>2 DEF ProofOutlivesDay
        <4> QED BY <4>1, <4>2
      <3> QED BY <2>2, <3>2, <3>3, <3>4 DEF Lasting
    <2> QED BY <1>6, <2>3, <2>4 DEF Verifies
  <1> QED BY <1>2, <1>3, <1>4, <1>5, <1>6

\* A card that passed in the morning is not withheld before the next one because its
\* link proof was about to expire when it was used: for any number of passes over the
\* same cards, when a fresh proof outlives the reuse limit and a check together.
THEOREM ProofOutlivesDayTheorem ==
    ASSUME LinkTTL > ReuseMinLeft + ReviewLimit
    PROVE  Spec => []ProofOutlivesDay
  <1>1. Init => Lasting
    BY DEF Init, Lasting, Timely, Proven, Past, ProofOutlivesDay
  <1>2. ASSUME TypeInv, Honest, Lasting, [Next]_vars
        PROVE  Lasting'
    <2>0. TypeOK
      BY <1>2 DEF TypeInv
    <2>1. ASSUME NEW p \in Passes, Step(p)
          PROVE  Lasting'
      BY <1>2, <2>0, <2>1, StepKinds, StepPass, StepLasting DEF TypeInv
    <2>2. ASSUME NEW p \in Passes, BlowUp(p)
          PROVE  Lasting'
      BY <1>2, <2>0, <2>2, BlowUpKind, StepLasting
    <2>3. ASSUME NEW p \in Passes, NEW mode \in Modes, Start(p, mode)
          PROVE  Lasting'
      BY <1>2, <2>0, <2>3, StartType, LastingKept DEF Start
    <2>4. ASSUME NEW p \in Passes, Die(p)
          PROVE  Lasting'
      <3>1. \A q \in Passes : pass'[q] = pass[q] \/ pass'[q] = Idle
        BY <2>0, <2>4 DEF Die, TypeOK
      <3> QED BY <1>2, <2>0, <2>4, <3>1, LastingKept DEF Die
    <2>5. ASSUME UNCHANGED <<now, checks, link, pass>>
          PROVE  Lasting'
      BY <1>2, <2>0, <2>5, LastingKept
    \* The clock waits for a check that has used up its time.
    <2>6. CASE Tick
      <3>1. /\ now' = now + 1 /\ UNCHANGED <<checks, link, pass>>
            /\ \A q \in Passes : pass[q].pc \notin {"idle", "next"}
                                   => now < pass[q].since + ReviewLimit
        BY <2>6 DEF Tick
      <3>2. ASSUME NEW q \in Passes
            PROVE  Timely(q)' /\ Proven(q)'
        <4>1. pass[q] # Idle => pass[q].pc # "idle" /\ pass[q].since \in Nat
          BY <2>0, <3>2, BusyPass, ConstantsAssumption DEF Busy, Stages, Times
        <4>2. Timely(q)'
          BY <1>2, <2>0, <3>1, <4>1, ConstantsAssumption DEF Lasting, Timely, TypeOK, Times
        <4> QED BY <1>2, <3>1, <4>2 DEF Lasting, Proven, Reachable, Company
      <3>3. Past'
        BY <1>2, <2>0, <3>1, ConstantsAssumption
           DEF Lasting, Past, TypeOK, MaybeCheck, Checks, Times
      <3> QED BY <1>2, <3>1, <3>2, <3>3 DEF Lasting, ProofOutlivesDay, StateOf
    <2> QED BY <1>2, <2>1, <2>2, <2>3, <2>4, <2>5, <2>6
        DEF Next, vars, DailyScore, NewData, BulkStart, BulkCommit
  <1>3. Lasting => ProofOutlivesDay
    BY DEF Lasting
  <1> QED BY <1>1, <1>2, <1>3, HonestInvariant, PTL DEF Spec

==============================================================================
