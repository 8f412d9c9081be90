--------------------------- MODULE HeartbeatProofs ---------------------------
(***************************************************************************)
(* Theorems about Heartbeat, for every set of sources, every outcome of    *)
(* their fetches, every timing of the day that respects its order and      *)
(* every number of failures under the heartbeat.                           *)
(***************************************************************************)
EXTENDS Heartbeat, FiniteSetTheorems, WellFoundedInduction, TLAPS

-----------------------------------------------------------------------------
(* Types                                                                   *)

\* What fails under a heartbeat can be counted.
LEMMA FaultsCount ==
    ASSUME NEW broken \in SUBSET Faults
    PROVE  Cardinality(broken) \in Nat
  <1>1. \A S, x : IsFiniteSet(S) => IsFiniteSet(S \union {x})
    BY FS_AddElement
  <1>2. IsFiniteSet(((((({} \union {"down"}) \union {"blocked"}) \union {"recall"})
                       \union {"remember"}) \union {"telegram"}) \union {"receipt"})
    BY <1>1, FS_EmptySet, Zenon
  <1>3. Faults = (((((({} \union {"down"}) \union {"blocked"}) \union {"recall"})
                       \union {"remember"}) \union {"telegram"}) \union {"receipt"})
    BY DEF Faults
  <1>4. IsFiniteSet(Faults)
    BY <1>2, <1>3, Zenon
  <1> QED BY <1>4, FS_Subset, FS_CardinalityType

\* The time of an event is a time.
LEMMA TimesType ==
    ASSUME TypeOK, NEW tick \in 0 .. LateTick
    PROVE  At(tick) \in Nat
  <1> USE ConstantsAssumption
  <1>1. day \in Nat /\ DayTicks \in Nat /\ tick \in Nat
    BY DEF TypeOK, Days
  <1>2. day * DayTicks \in Nat
    BY <1>1
  <1> QED BY <1>1, <1>2 DEF At

\* What a run leaves is well-formed.
LEMMA RunType ==
    ASSUME TypeOK, NEW tick \in 0 .. LateTick, Run(tick)
    PROVE  /\ now' \in Nat
           /\ row' \in [Sources -> [Days -> Outcomes \union {NoRow}]]
           /\ warning' \in SUBSET Sources
           /\ lastSuccess' \in Times
           /\ lastYield' \in Times
           /\ lastAnswer' \in Times
  <1>1. At(tick) \in Nat
    BY TimesType
  <1>2. ASSUME NEW scope \in SUBSET Sources, NEW outcome \in Results(scope)
        PROVE  /\ RecordedRows(scope, outcome) \in [Sources -> [Days -> Outcomes \union {NoRow}]]
               /\ {s \in scope : Suspect(s, outcome[s])} \in SUBSET Sources
    <2>1. \A s \in scope : outcome[s] \in Outcomes
      BY <1>2 DEF Results
    <2>2. ASSUME NEW s \in Sources
          PROVE  (IF s \in scope THEN [row[s] EXCEPT ![day] = outcome[s]] ELSE row[s])
                    \in [Days -> Outcomes \union {NoRow}]
      BY <2>1, <2>2 DEF TypeOK
    <2> QED BY <2>2 DEF RecordedRows
  <1>3. \A happens \in BOOLEAN, time \in Times : Since(time, happens, tick) \in Times
    BY <1>1 DEF Since, Times
  <1>4. ASSUME NEW scope \in SUBSET Sources, NEW outcome \in Results(scope),
               NEW late \in BOOLEAN, CompleteRun(scope, outcome, late, tick)
        PROVE  /\ row' \in [Sources -> [Days -> Outcomes \union {NoRow}]]
               /\ warning' \in SUBSET Sources
               /\ lastSuccess' \in Times
               /\ lastYield' \in Times
               /\ lastAnswer' \in Times
    <2>1. /\ Since(lastSuccess, ProofOfLife(scope, outcome, late), tick) \in Times
          /\ Since(lastYield, Fruits(scope, outcome), tick) \in Times
          /\ Since(lastAnswer, Answered(scope, outcome), tick) \in Times
      BY <1>1 DEF Since, Times, TypeOK
    <2> QED BY <1>2, <1>4, <2>1 DEF CompleteRun, TypeOK
  <1>5. ASSUME NEW scope \in SUBSET Sources, NEW outcome \in Results(scope),
               BrokenRun(scope, outcome)
        PROVE  /\ row' \in [Sources -> [Days -> Outcomes \union {NoRow}]]
               /\ warning' \in SUBSET Sources
               /\ lastSuccess' \in Times
               /\ lastYield' \in Times
               /\ lastAnswer' \in Times
    BY <1>2, <1>5 DEF BrokenRun, TypeOK
  <1> QED BY <1>1, <1>4, <1>5 DEF Run

LEMMA InitType == Init => TypeOK
  <1> SUFFICES ASSUME Init PROVE TypeOK
    OBVIOUS
  <1> USE ConstantsAssumption
  <1>1. 1 \in Days /\ DayTicks \in Nat
    BY DEF Days
  <1>2. row \in [Sources -> [Days -> Outcomes \union {NoRow}]]
    BY DEF Init
  <1>3. 0 \in 0 .. MaxEvents
    OBVIOUS
  <1>4. /\ seen \in [Conditions -> Times]
        /\ heard \in [Conditions -> Times]
        /\ repeats \in [Conditions -> Nat]
    BY DEF Init, Times
  <1> QED BY <1>1, <1>2, <1>3, <1>4 DEF Init, TypeOK, Times

LEMMA NextType == TypeOK /\ [Next]_vars => TypeOK'
  <1> SUFFICES ASSUME TypeOK, [Next]_vars PROVE TypeOK'
    OBVIOUS
  <1> USE ConstantsAssumption
  <1>1. CASE Scan
    <2>1. PICK tick \in 0 .. LateTick : Run(tick)
      BY <1>1 DEF Scan
    <2> QED BY <1>1, <2>1, RunType DEF Scan, saidVars, memoryVars, TypeOK
  <1>2. CASE Heartbeat
    <2>1. PICK tick \in 0 .. LateTick, broken \in SUBSET Faults : Check(tick, broken)
      BY <1>2 DEF Heartbeat
    <2>2. At(tick) \in Nat /\ Cardinality(broken) \in Nat
      BY TimesType, FaultsCount
    <2>3. Active(broken) \in SUBSET Conditions
      BY DEF Active
    <2>4. Announced(broken, At(tick)) \in SUBSET Conditions
      BY <2>3 DEF Announced
    <2>5. /\ said' \in SUBSET (Conditions \union {StaleRun})
          /\ standing' \in SUBSET Conditions
          /\ arrived' \in BOOLEAN
          /\ now' \in Nat
      BY <2>1, <2>2, <2>3, <2>4 DEF Check
    <2>6. /\ seen' \in [Conditions -> Times]
          /\ heard' \in [Conditions -> Times]
      BY <2>1, <2>2 DEF Check, Times, TypeOK
    <2>7. repeats' \in [Conditions -> Nat]
      BY <2>1 DEF Check, TypeOK
    <2>8. lapses' \in Nat /\ events' \in 0 .. MaxEvents
      BY <2>1, <2>2 DEF Check, One, TypeOK
    <2> QED BY <1>2, <2>5, <2>6, <2>7, <2>8 DEF Heartbeat, healthVars, TypeOK
  <1>3. CASE MissHeartbeat
    BY <1>3 DEF MissHeartbeat, healthVars, saidVars, memoryVars, TypeOK
  <1>4. CASE LateRun
    <2>1. Run(LateTick) /\ LateTick \in 0 .. LateTick
      BY <1>4 DEF LateRun
    <2>2. events' \in 0 .. MaxEvents
      BY <1>4 DEF LateRun, TypeOK
    <2>3. /\ now' \in Nat
          /\ row' \in [Sources -> [Days -> Outcomes \union {NoRow}]]
          /\ warning' \in SUBSET Sources
          /\ lastSuccess' \in Times
          /\ lastYield' \in Times
          /\ lastAnswer' \in Times
      BY <2>1, RunType
    <2>4. day' = day /\ slot' = "evening" /\ said' = {} /\ standing' = {}
          /\ arrived' = FALSE /\ UNCHANGED <<seen, heard, repeats, lapses>>
      BY <1>4 DEF LateRun, Forgotten, memoryVars
    <2> QED BY <2>2, <2>3, <2>4 DEF TypeOK
  <1>5. CASE NextDay
    <2>1. day + 1 \in Days /\ (day + 1) * DayTicks \in Nat
      BY <1>5 DEF NextDay, Days, TypeOK
    <2> QED BY <1>5, <2>1 DEF NextDay, Forgotten, memoryVars, TypeOK
  <1>6. CASE UNCHANGED vars
    BY <1>6 DEF vars, healthVars, saidVars, memoryVars, TypeOK
  <1> QED BY <1>1, <1>2, <1>3, <1>4, <1>5, <1>6 DEF Next

\* Every variable keeps its type.
THEOREM TypeCorrect == Spec => []TypeOK
  BY InitType, NextType, PTL DEF Spec

-----------------------------------------------------------------------------
(* The heartbeat's memory.                                                 *)

\* Where the stamp is not the time the reader was last told, a failure of the
\* memory has not yet cost its repeat.
LapsePending ==
    \A c \in Conditions :
        /\ repeats[c] <= lapses
        /\ seen[c] # heard[c] => repeats[c] + 1 <= lapses

\* A stamp stands for something the reader was told no earlier.
StampIsHeard ==
    \A c \in Conditions :
        seen[c] # Never => heard[c] # Never /\ seen[c] <= heard[c] /\ heard[c] <= now

\* The clock is within its day.
ClockInDay ==
    /\ At(0) <= now
    /\ now <= At(LateTick)
    /\ slot = "morning" => now = At(0)
    /\ slot = "scanned" => \E scan \in ScanTicks : now = At(scan)

Memory == TypeOK /\ ClockInDay /\ LapsePending /\ StampIsHeard /\ StandingIsHeard

\* Times of one day compare as their ticks do, and the next day is later.
LEMMA DayOrder ==
    ASSUME TypeOK
    PROVE  /\ \A t, u \in 0 .. LateTick : t <= u => At(t) <= At(u)
           /\ At(LateTick) <= (day + 1) * DayTicks
           /\ At(0) = day * DayTicks
  <1> USE ConstantsAssumption
  <1>1. day \in Nat /\ DayTicks \in Nat
    BY DEF TypeOK, Days
  <1>2. day * DayTicks \in Nat
    BY <1>1
  <1>3. (day + 1) * DayTicks = day * DayTicks + DayTicks
    BY <1>1
  <1> QED BY <1>1, <1>2, <1>3 DEF At

LEMMA InitMemory == Init => Memory
  <1> SUFFICES ASSUME Init PROVE Memory
    OBVIOUS
  <1>1. TypeOK
    BY InitType
  <1>2. At(0) = DayTicks /\ DayTicks \in Nat /\ At(LateTick) \in Nat
    BY <1>1, ConstantsAssumption, TimesType DEF Init, At
  <1>3. At(0) <= At(LateTick)
    BY <1>1, DayOrder, ConstantsAssumption
  <1>4. ClockInDay
    BY <1>2, <1>3 DEF Init, ClockInDay
  <1>5. LapsePending /\ StampIsHeard /\ StandingIsHeard
    BY DEF Init, LapsePending, StampIsHeard, StandingIsHeard
  <1> QED BY <1>1, <1>4, <1>5 DEF Memory

\* The times that a day goes through.
LEMMA NextClock ==
    ASSUME TypeOK, ClockInDay, [Next]_vars
    PROVE  ClockInDay' /\ now <= now'
  <1> USE ConstantsAssumption
  <1>1. /\ \A t, u \in 0 .. LateTick : t <= u => At(t) <= At(u)
        /\ At(LateTick) <= (day + 1) * DayTicks
        /\ At(0) = day * DayTicks
    BY DayOrder
  <1>2. 0 \in 0 .. LateTick /\ LateTick \in 0 .. LateTick
    OBVIOUS
  <1>3. \A t \in 0 .. LateTick : At(t) \in Nat
    BY TimesType
  <1>4. now \in Nat
    BY DEF TypeOK
  <1>5. CASE Scan
    <2>1. PICK scan \in ScanTicks : now' = At(scan)
      BY <1>5 DEF Scan, Run
    <2>2. slot = "morning" /\ slot' = "scanned" /\ day' = day
      BY <1>5 DEF Scan
    <2>3. scan \in 0 .. LateTick
      OBVIOUS
    <2> QED BY <1>1, <1>2, <1>3, <2>1, <2>2, <2>3 DEF ClockInDay, At
  <1>6. CASE Heartbeat
    <2>1. PICK check \in CheckTicks : now' = At(check)
      BY <1>6 DEF Heartbeat, Check
    <2>2. slot = "scanned" /\ slot' = "checked" /\ day' = day
      BY <1>6 DEF Heartbeat
    <2>3. PICK scan \in ScanTicks : now = At(scan)
      BY <2>2 DEF ClockInDay
    <2>4. At(scan) <= At(check)
      BY <1>1
    <2>5. At(0) <= At(check) /\ At(check) <= At(LateTick)
      BY <1>1, <1>2
    <2> QED BY <2>1, <2>2, <2>3, <2>4, <2>5 DEF ClockInDay, At
  <1>7. CASE MissHeartbeat
    BY <1>4, <1>7 DEF MissHeartbeat, ClockInDay, At
  <1>8. CASE LateRun
    <2>1. now' = At(LateTick) /\ slot' = "evening" /\ day' = day
      BY <1>8 DEF LateRun, Run
    <2>2. At(0) <= At(LateTick)
      BY <1>1, <1>2
    <2>3. At(LateTick) \in Nat
      BY <1>2, <1>3
    <2> QED BY <2>1, <2>2, <2>3 DEF ClockInDay, At
  <1>9. CASE NextDay
    <2>1. now' = (day + 1) * DayTicks /\ slot' = "morning" /\ day' = day + 1
      BY <1>9 DEF NextDay
    <2>2. now <= now'
      BY <1>1, <1>2, <1>3, <1>4, <2>1 DEF ClockInDay
    <2>3. (day + 1) * DayTicks \in Nat
      BY DEF TypeOK, Days
    <2>4. At(0)' = now' /\ At(0)' <= At(LateTick)'
      BY <2>1, <2>3 DEF At
    <2> QED BY <2>1, <2>2, <2>4 DEF ClockInDay
  <1>10. CASE UNCHANGED vars
    BY <1>4, <1>10 DEF vars, ClockInDay, At
  <1> QED BY <1>5, <1>6, <1>7, <1>8, <1>9, <1>10 DEF Next

\* What a heartbeat does to its memory of one condition: it tells the reader
\* of it, or forgets it, or leaves it; and it tells him whenever it is due and
\* the message goes out.
LEMMA OneCondition ==
    ASSUME Memory, NEW tick \in CheckTicks, NEW broken \in SUBSET Faults,
           Check(tick, broken), NEW c \in Conditions
    PROVE  LET told == c \in Announced(broken, At(tick)) /\ "telegram" \notin broken
               early == heard[c] # Never /\ At(tick) - heard[c] < Repeat * DayTicks
           IN  /\ told => /\ heard'[c] = At(tick)
                          /\ seen'[c] = IF Stamps(broken) THEN At(tick) ELSE seen[c]
                          /\ repeats'[c] = IF early THEN repeats[c] + 1 ELSE repeats[c]
               /\ ~told => /\ repeats'[c] = repeats[c]
                           /\ \/ seen'[c] = Never /\ heard'[c] = Never
                                 /\ c \notin Active(broken)
                              \/ seen'[c] = seen[c] /\ heard'[c] = heard[c]
  <1> DEFINE told == c \in Announced(broken, At(tick)) /\ "telegram" \notin broken
  <1>1. Announced(broken, At(tick)) \subseteq Active(broken)
    BY DEF Announced
  <1>2. Forgets(broken) = Sees(broken)
    BY DEF Forgets, Sees
  <1>3. Stamps(broken) => "telegram" \notin broken
    BY DEF Stamps
  <1>4. CASE told
    BY <1>1, <1>4 DEF Check
  <1>5. CASE ~told
    BY <1>1, <1>2, <1>3, <1>5 DEF Check
  <1> QED BY <1>4, <1>5

LEMMA HeartbeatMemory ==
    ASSUME Memory, NEW tick \in CheckTicks, NEW broken \in SUBSET Faults,
           Check(tick, broken), now <= At(tick)
    PROVE  LapsePending' /\ StampIsHeard' /\ StandingIsHeard'
  <1> USE ConstantsAssumption
  <1> DEFINE told(c) == c \in Announced(broken, At(tick)) /\ "telegram" \notin broken
             early(c) == heard[c] # Never /\ At(tick) - heard[c] < Repeat * DayTicks
  <1>1. At(tick) \in Nat /\ now \in Nat /\ now' = At(tick)
    BY TimesType DEF Memory, TypeOK, Check
  <1>2. lapses \in Nat /\ lapses' \in Nat
        /\ lapses' = lapses + One("recall", broken) + One("remember", broken)
                            + One("receipt", broken)
    BY DEF Memory, TypeOK, Check, One
  <1>3. Repeat * DayTicks \in Nat /\ Repeat * DayTicks > 0
    OBVIOUS
  <1>4. ASSUME NEW c \in Conditions
        PROVE  /\ repeats'[c] <= lapses'
               /\ seen'[c] # heard'[c] => repeats'[c] + 1 <= lapses'
    <2>1. /\ repeats[c] \in Nat
          /\ repeats[c] <= lapses
          /\ seen[c] # heard[c] => repeats[c] + 1 <= lapses
      BY DEF Memory, TypeOK, LapsePending
    <2>2. lapses <= lapses'
      BY <1>2 DEF One
    <2>3. CASE ~told(c)
      <3>1. repeats'[c] = repeats[c]
        BY <2>3, OneCondition
      <3>2. seen'[c] = heard'[c] \/ (seen'[c] = seen[c] /\ heard'[c] = heard[c])
        BY <2>3, OneCondition
      <3> QED BY <1>2, <2>1, <2>2, <3>1, <3>2
    <2>4. CASE told(c)
      <3>1. /\ heard'[c] = At(tick)
            /\ seen'[c] = IF Stamps(broken) THEN At(tick) ELSE seen[c]
            /\ repeats'[c] = IF early(c) THEN repeats[c] + 1 ELSE repeats[c]
        BY <2>4, OneCondition
      <3>2. Due(c, broken, At(tick))
        BY <2>4 DEF Announced
      <3>3. early(c) => "recall" \in broken \/ repeats[c] + 1 <= lapses
        <4> SUFFICES ASSUME early(c), "recall" \notin broken
                     PROVE  seen[c] # heard[c]
          BY <2>1
        <4>1. seen[c] = Never \/ At(tick) - seen[c] >= Repeat * DayTicks
          BY <3>2 DEF Due
        <4>2. CASE seen[c] = Never
          BY <4>2
        <4>3. CASE At(tick) - seen[c] >= Repeat * DayTicks /\ seen[c] # Never
          <5>1. seen[c] \in Nat /\ heard[c] \in Nat
            BY <4>3 DEF Memory, TypeOK, Times
          <5> QED BY <1>1, <1>3, <4>3, <5>1
        <4> QED BY <4>1, <4>2, <4>3
      <3>4. repeats'[c] <= lapses + One("recall", broken)
        BY <1>2, <2>1, <3>1, <3>3 DEF One
      <3>5. ~Stamps(broken) => One("remember", broken) + One("receipt", broken) >= 1
        BY <2>4 DEF Stamps, One
      <3>6. repeats'[c] \in Nat
        BY <2>1, <3>1
      <3>7. /\ One("recall", broken) \in Nat
            /\ One("remember", broken) \in Nat
            /\ One("receipt", broken) \in Nat
        BY DEF One
      <3>8. CASE Stamps(broken)
        BY <1>2, <3>1, <3>4, <3>6, <3>7, <3>8
      <3>9. CASE ~Stamps(broken)
        BY <1>2, <3>4, <3>5, <3>6, <3>7, <3>9
      <3> QED BY <3>8, <3>9
    <2> QED BY <2>3, <2>4
  <1>5. ASSUME NEW c \in Conditions, seen'[c] # Never
        PROVE  heard'[c] # Never /\ seen'[c] <= heard'[c] /\ heard'[c] <= now'
    <2>1. seen[c] # Never => /\ seen[c] \in Nat /\ heard[c] \in Nat
                             /\ seen[c] <= heard[c] /\ heard[c] <= now
      BY DEF Memory, TypeOK, Times, StampIsHeard
    <2>2. At(tick) # Never
      BY <1>1
    <2>3. CASE told(c)
      <3>1. heard'[c] = At(tick) /\ (seen'[c] = At(tick) \/ seen'[c] = seen[c])
        BY <2>3, OneCondition
      <3> QED BY <1>1, <1>5, <2>1, <2>2, <3>1
    <2>4. CASE ~told(c)
      <3>1. seen'[c] = seen[c] /\ heard'[c] = heard[c]
        BY <1>5, <2>4, OneCondition
      <3>2. heard[c] # Never
        BY <1>5, <3>1 DEF Memory, StampIsHeard
      <3> QED BY <1>1, <1>5, <2>1, <3>1, <3>2
    <2> QED BY <2>3, <2>4
  <1>6. ASSUME arrived', NEW c \in standing'
        PROVE  heard'[c] # Never /\ now' - heard'[c] < Repeat * DayTicks
    <2>1. c \in Active(broken) /\ c \in Conditions /\ "telegram" \notin broken
      BY <1>6 DEF Check, Active
    <2>2. CASE told(c)
      <3>1. heard'[c] = At(tick)
        BY <2>1, <2>2, OneCondition
      <3> QED BY <1>1, <1>3, <3>1
    <2>3. CASE ~told(c)
      <3>1. ~Due(c, broken, At(tick))
        BY <2>1, <2>3 DEF Announced
      <3>2. seen[c] # Never /\ ~(At(tick) - seen[c] >= Repeat * DayTicks)
        BY <3>1 DEF Due
      <3>3. seen'[c] = seen[c] /\ heard'[c] = heard[c]
        BY <2>1, <2>3, OneCondition
      <3>4. heard[c] # Never /\ seen[c] <= heard[c] /\ seen[c] \in Nat /\ heard[c] \in Nat
        BY <2>1, <3>2 DEF Memory, TypeOK, Times, StampIsHeard
      <3> QED BY <1>1, <1>3, <3>2, <3>3, <3>4
    <2> QED BY <2>2, <2>3
  <1> QED BY <1>4, <1>5, <1>6 DEF LapsePending, StampIsHeard, StandingIsHeard

LEMMA NextMemory == Memory /\ [Next]_vars => Memory'
  <1> SUFFICES ASSUME Memory, [Next]_vars
               PROVE  LapsePending' /\ StampIsHeard' /\ StandingIsHeard'
    BY NextType, NextClock DEF Memory
  <1>1. now \in Nat /\ now' \in Nat /\ now <= now'
    BY NextType, NextClock DEF Memory, TypeOK
  <1>2. CASE Heartbeat
    <2>1. PICK tick \in CheckTicks, broken \in SUBSET Faults : Check(tick, broken)
      BY <1>2 DEF Heartbeat
    <2>2. now <= At(tick)
      BY <1>1, <2>1 DEF Check
    <2> QED BY <2>1, <2>2, HeartbeatMemory
  <1>3. CASE Scan \/ MissHeartbeat \/ LateRun \/ NextDay
    <2>1. UNCHANGED <<seen, heard, repeats, lapses>> /\ slot' # "checked"
      BY <1>3 DEF Scan, MissHeartbeat, LateRun, NextDay, memoryVars
    <2>2. LapsePending'
      BY <2>1 DEF Memory, LapsePending
    <2>3. StampIsHeard'
      <3> SUFFICES ASSUME NEW c \in Conditions, seen[c] # Never
                   PROVE  heard[c] # Never /\ seen[c] <= heard[c] /\ heard[c] <= now'
        BY <2>1 DEF StampIsHeard
      <3>1. heard[c] # Never /\ seen[c] <= heard[c] /\ heard[c] <= now /\ heard[c] \in Nat
        BY DEF Memory, TypeOK, Times, StampIsHeard
      <3> QED BY <1>1, <3>1
    <2> QED BY <2>1, <2>2, <2>3 DEF StandingIsHeard
  <1>4. CASE UNCHANGED vars
    BY <1>4 DEF vars, saidVars, memoryVars, Memory, LapsePending, StampIsHeard,
                StandingIsHeard
  <1> QED BY <1>2, <1>3, <1>4 DEF Next

LEMMA AlwaysMemory == Spec => []Memory
  BY InitMemory, NextMemory, PTL DEF Spec

\* After a heartbeat that got through, the reader has been told of every
\* condition it found, in its present stretch and within Repeat.
THEOREM StandingIsHeardTheorem == Spec => []StandingIsHeard
  BY AlwaysMemory, PTL DEF Memory

\* A condition is repeated early at most once for each failure of the memory.
THEOREM OneRepeatPerLapseTheorem == Spec => []OneRepeatPerLapse
  <1>1. Memory => OneRepeatPerLapse
    BY DEF Memory, LapsePending, OneRepeatPerLapse
  <1> QED BY <1>1, AlwaysMemory, PTL

-----------------------------------------------------------------------------
(* The pipeline's life.                                                    *)

\* What brought something is proof of life, no time is in the future, and what
\* is proof of life had an answer, as far as a pipeline has sources at all.
YieldIsLife == lastYield # Never => lastSuccess # Never /\ lastYield <= lastSuccess
LifeIsAnswer == lastSuccess # Never => lastAnswer # Never /\ lastSuccess <= lastAnswer

NothingAhead == \A time \in {lastYield, lastSuccess, lastAnswer} : time # Never => time <= now

Life ==
    /\ TypeOK /\ ClockInDay /\ NothingAhead
    /\ YieldIsLife /\ NoFalseAlarm
    /\ Sources # {} => LifeIsAnswer /\ DeadRunsAreSaid

\* A stale run is no condition of a source.
LEMMA StaleRunApart == StaleRun \notin Conditions
  BY DEF StaleRun, Conditions

\* A clean run of some source, and any that brought something, had an answer.
LEMMA LifeAnswers ==
    ASSUME NEW scope \in SUBSET Sources, NEW outcome \in Results(scope), NEW late \in BOOLEAN,
           scope # {}, ProofOfLife(scope, outcome, late)
    PROVE  Answered(scope, outcome)
  BY DEF ProofOfLife, RunStatus, Fruits, Answered

\* A run moves all three times to its own, or none that the others wait for.
LEMMA RunLife ==
    ASSUME Life, NEW tick \in 0 .. LateTick, Run(tick), now <= At(tick)
    PROVE  NothingAhead' /\ YieldIsLife' /\ (Sources # {} => LifeIsAnswer')
  <1>1. At(tick) \in Nat /\ now \in Nat /\ now' = At(tick) /\ Never \notin Nat
    BY TimesType, ConstantsAssumption DEF Life, TypeOK, Run
  <1>2. lastYield \in Times /\ lastSuccess \in Times /\ lastAnswer \in Times
    BY DEF Life, TypeOK
  <1>3. ASSUME NEW scope \in {Sources} \union {{s} : s \in Sources}, NEW late \in BOOLEAN,
               NEW outcome \in Results(scope), CompleteRun(scope, outcome, late, tick)
        PROVE  NothingAhead' /\ YieldIsLife' /\ (Sources # {} => LifeIsAnswer')
    <2>1. Fruits(scope, outcome) => ProofOfLife(scope, outcome, late)
      BY DEF ProofOfLife
    <2>2. Sources # {} => (ProofOfLife(scope, outcome, late) => Answered(scope, outcome))
      BY LifeAnswers
    <2>3. /\ lastSuccess' = Since(lastSuccess, ProofOfLife(scope, outcome, late), tick)
          /\ lastYield' = Since(lastYield, Fruits(scope, outcome), tick)
          /\ lastAnswer' = Since(lastAnswer, Answered(scope, outcome), tick)
      BY <1>3 DEF CompleteRun
    <2>4. NothingAhead'
      BY <1>1, <1>2, <2>3 DEF Since, Times, Life, NothingAhead
    <2>5. YieldIsLife'
      BY <1>1, <1>2, <2>1, <2>3 DEF Since, Times, Life, NothingAhead, YieldIsLife
    <2>6. Sources # {} => LifeIsAnswer'
      BY <1>1, <1>2, <2>2, <2>3 DEF Since, Times, Life, NothingAhead, LifeIsAnswer
    <2> QED BY <2>4, <2>5, <2>6
  <1>4. ASSUME UNCHANGED <<lastSuccess, lastYield, lastAnswer>>
        PROVE  NothingAhead' /\ YieldIsLife' /\ (Sources # {} => LifeIsAnswer')
    <2>1. NothingAhead'
      BY <1>1, <1>2, <1>4 DEF Times, Life, NothingAhead
    <2> QED BY <1>4, <2>1 DEF Life, YieldIsLife, LifeIsAnswer
  <1> QED BY <1>3, <1>4 DEF Run, BrokenRun

LEMMA NextLife == Life /\ [Next]_vars => Life'
  <1> SUFFICES ASSUME Life, [Next]_vars PROVE Life'
    OBVIOUS
  <1>1. TypeOK' /\ ClockInDay' /\ now <= now' /\ now \in Nat /\ now' \in Nat
    BY NextType, NextClock DEF Life, TypeOK
  <1>2. lastYield \in Times /\ lastSuccess \in Times /\ lastAnswer \in Times
    BY DEF Life, TypeOK
  <1>3. ScanTicks \subseteq 0 .. LateTick /\ LateTick \in 0 .. LateTick /\ StaleAfter \in Nat
    BY ConstantsAssumption
  <1>4. CASE Scan \/ LateRun
    <2>1. PICK tick \in 0 .. LateTick : Run(tick)
      BY <1>3, <1>4 DEF Scan, LateRun
    <2>2. now <= At(tick)
      BY <1>1, <2>1 DEF Run
    <2>3. slot' # "checked"
      BY <1>4 DEF Scan, LateRun
    <2> QED BY <1>1, <2>1, <2>2, <2>3, RunLife DEF Life, NoFalseAlarm, DeadRunsAreSaid
  <1>5. CASE UNCHANGED <<lastSuccess, lastYield, lastAnswer>>
    <2>1. NothingAhead'
      BY <1>1, <1>2, <1>5 DEF Times, Life, NothingAhead
    <2>2. YieldIsLife' /\ (Sources # {} => LifeIsAnswer')
      BY <1>5 DEF Life, YieldIsLife, LifeIsAnswer
    <2>3. CASE Heartbeat
      <3>1. PICK tick \in CheckTicks, broken \in SUBSET Faults : Check(tick, broken)
        BY <2>3 DEF Heartbeat
      <3>2. StaleRun \in said' <=> Stale(now')
        <4>1. Announced(broken, At(tick)) \subseteq Conditions
          BY DEF Announced, Active
        <4>2. said' = Announced(broken, At(tick))
                        \union (IF Stale(now') THEN {StaleRun} ELSE {})
          BY <3>1 DEF Check
        <4> QED BY <4>1, <4>2, StaleRunApart
      <3>3. Stale(now') <=> lastSuccess' = Never \/ now' - lastSuccess' > StaleAfter
        BY <1>5 DEF Stale
      <3> DEFINE yield == lastYield'
                 success == lastSuccess'
                 answer == lastAnswer'
                 moment == now'
      <3>6. yield \in Times /\ success \in Times /\ answer \in Times /\ moment \in Nat
        BY <1>1, <1>2, <1>5
      <3>7. yield # Never => success # Never /\ yield <= success
        BY <2>2 DEF YieldIsLife
      <3>8. Sources # {} => (success # Never => answer # Never /\ success <= answer)
        BY <2>2 DEF LifeIsAnswer
      <3>9. Stale(moment) <=> success = Never \/ moment - success > StaleAfter
        BY <3>3
      <3>4. NoFalseAlarm'
        <4> SUFFICES ASSUME yield # Never, moment - yield <= StaleAfter
                     PROVE  ~Stale(moment)
          BY <3>2 DEF NoFalseAlarm
        <4> HIDE DEF yield, success, moment
        <4> QED BY <1>3, <3>6, <3>7, <3>9 DEF Times
      <3>5. Sources # {} => DeadRunsAreSaid'
        <4> SUFFICES ASSUME Sources # {}, answer = Never \/ moment - answer > StaleAfter
                     PROVE  Stale(moment)
          BY <3>2 DEF DeadRunsAreSaid
        <4> HIDE DEF success, answer, moment
        <4> QED BY <1>3, <3>6, <3>8, <3>9 DEF Times
      <3> QED BY <1>1, <2>1, <2>2, <3>4, <3>5 DEF Life
    <2>4. CASE MissHeartbeat \/ NextDay
      <3>1. slot' # "checked"
        BY <2>4 DEF MissHeartbeat, NextDay
      <3> QED BY <1>1, <2>1, <2>2, <3>1 DEF Life, NoFalseAlarm, DeadRunsAreSaid
    <2>5. CASE UNCHANGED vars
      BY <1>1, <2>1, <2>2, <2>5 DEF Life, NoFalseAlarm, DeadRunsAreSaid, vars, saidVars, healthVars
    <2>6. CASE Scan \/ LateRun
      BY <1>4, <2>6
    <2> QED BY <2>3, <2>4, <2>5, <2>6 DEF Next
  <1>6. Heartbeat \/ MissHeartbeat \/ NextDay \/ UNCHANGED vars
            => UNCHANGED <<lastSuccess, lastYield, lastAnswer>>
    BY DEF Heartbeat, MissHeartbeat, NextDay, vars, healthVars
  <1> QED BY <1>4, <1>5, <1>6 DEF Next

LEMMA AlwaysLife == Spec => []Life
  <1>1. Init => Life
    BY InitMemory DEF Init, Memory, Life, NothingAhead, YieldIsLife, LifeIsAnswer,
                      NoFalseAlarm, DeadRunsAreSaid
  <1> QED BY <1>1, NextLife, PTL DEF Spec

\* While a run within StaleAfter fetched something, the pipeline is not called
\* stale, whatever else failed in that run or after it.
THEOREM NoFalseAlarmTheorem == Spec => []NoFalseAlarm
  BY AlwaysLife, PTL DEF Life

\* A pipeline with sources, of which every run for StaleAfter died or had every
\* source fail with nothing, is called stale by every heartbeat that is heard.
THEOREM DeadRunsAreSaidTheorem == Spec => [](Sources # {} => DeadRunsAreSaid)
  <1>1. Life => (Sources # {} => DeadRunsAreSaid)
    BY DEF Life
  <1> QED BY <1>1, AlwaysLife, PTL

-----------------------------------------------------------------------------
(* The silence of a source.                                                *)

\* Nothing is recorded for a day to come, nor for a day before its first run.
NothingAheadRecorded ==
    \A s \in Sources, d \in Days :
        d > day \/ (d = day /\ slot = "morning") => row[s][d] = NoRow

Silence == TypeOK /\ NothingAheadRecorded /\ SilenceIsSuspect

\* A set of days has a first one.
LEMMA FirstDay ==
    ASSUME NEW S \in SUBSET Nat, S # {}
    PROVE  Min(S) \in S /\ \A d \in S : Min(S) <= d
  <1> DEFINE Less == {ss \in Nat \X Nat : ss[1] < ss[2]}
  <1>1. IsWellFoundedOn(Less, Nat)
    BY NatLessThanWellFounded, Zenon DEF OpToRel
  <1> HIDE DEF Less
  <1>2. PICK m \in S : \A d \in S : ~(<<d, m>> \in Less)
    BY <1>1, WFMin, Zenon
  <1>3. \A d \in S : m <= d
    <2> SUFFICES ASSUME NEW d \in S, d < m PROVE FALSE
      OBVIOUS
    <2>1. <<d, m>> \in Nat \X Nat /\ <<d, m>>[1] < <<d, m>>[2]
      OBVIOUS
    <2>2. <<d, m>> \in Less
      BY <2>1 DEF Less
    <2> QED BY <1>2, <2>2
  <1>4. \E x \in S : \A y \in S : x <= y
    BY <1>3
  <1> QED BY <1>4 DEF Min

\* For a source observed every day until now, the runs without an item that
\* lead up to today are the days since it fell silent, whatever an earlier run
\* of today left, and the average over the days before is the same as it will
\* be once today's row is written.
LEMMA SilenceFound ==
    ASSUME TypeOK, day' = day, NEW s \in Sources,
           \A d \in Days : d # day => row'[s][d] = row[s][d],
           \A d \in 1 .. day : row'[s][d] # NoRow,
           row'[s][day].items = 0
    PROVE  Missed(s, row[s][day], day - SilentSince(s) + 1, Baseline(s, SilentSince(s)))'
              <=> Missed(s, row'[s][day], ZeroStreak(s) + 1,
                         Baseline(s, day - ZeroStreak(s)))
  <1> DEFINE silent == {d \in 1 .. day : \A e \in d .. day : row'[s][e].items = 0}
             since == Min(silent)
             baseline == Baseline(s, since)
  <1>1. day \in Nat /\ 1 <= day /\ day <= MaxDay /\ MaxDay \in Nat
    BY ConstantsAssumption DEF TypeOK, Days
  <1>2. day \in silent /\ silent \in SUBSET Nat
    BY <1>1
  <1>3. since \in silent /\ \A d \in silent : since <= d
    BY <1>2, FirstDay
  <1>4. since \in 1 .. day /\ \A e \in since .. day : row'[s][e].items = 0
    BY <1>3
  <1>5. SilentSince(s)' = since
    BY DEF SilentSince
  <1> HIDE DEF since
  <1>6. ZeroStreak(s) = day - since
    <2>1. \A d \in 1 .. day - 1 : d \in Recorded(s) /\ row[s][d] = row'[s][d]
      BY <1>1 DEF Recorded, Days
    <2>2. {d \in Recorded(s) :
              d < day /\ \A e \in Recorded(s) : d <= e /\ e < day => row[s][e].items = 0}
            = since .. day - 1
      <3>1. ASSUME NEW d \in since .. day - 1
            PROVE  /\ d \in Recorded(s) /\ d < day
                   /\ \A e \in Recorded(s) : d <= e /\ e < day => row[s][e].items = 0
        <4>1. d \in 1 .. day - 1
          BY <1>1, <1>4
        <4>2. ASSUME NEW e \in Recorded(s), d <= e, e < day
              PROVE  row[s][e].items = 0
          <5>1. e \in 1 .. day - 1 /\ e \in since .. day
            BY <1>1, <1>4, <4>2 DEF Recorded, Days
          <5> QED BY <1>4, <2>1, <5>1
        <4> QED BY <1>1, <2>1, <4>1, <4>2
      <3>2. ASSUME NEW d \in Recorded(s), d < day,
                   \A e \in Recorded(s) : d <= e /\ e < day => row[s][e].items = 0
            PROVE  d \in since .. day - 1
        <4>1. d \in 1 .. day /\ d \in Nat
          BY <1>1, <3>2 DEF Recorded, Days
        <4>2. ASSUME NEW e \in d .. day
              PROVE  row'[s][e].items = 0
          <5>1. CASE e = day
            BY <5>1
          <5>2. CASE e # day
            <6>1. e \in 1 .. day - 1 /\ d <= e /\ e < day
              BY <1>1, <4>1, <5>2
            <6> QED BY <2>1, <3>2, <6>1
          <5> QED BY <5>1, <5>2
        <4>3. d \in silent
          BY <4>1, <4>2
        <4> QED BY <1>1, <1>3, <1>4, <3>2, <4>1, <4>3
      <3> QED BY <3>1, <3>2
    <2>3. Cardinality(since .. day - 1) = day - since
      <3>1. since \in Int /\ day - 1 \in Int /\ since <= day
        BY <1>1, <1>4
      <3>2. Cardinality(since .. day - 1)
               = IF since > day - 1 THEN 0 ELSE (day - 1) - since + 1
        BY <3>1, FS_Interval
      <3> QED BY <1>1, <3>1, <3>2
    <2> QED BY <2>2, <2>3 DEF ZeroStreak
  <1>7. day - ZeroStreak(s) = since
    BY <1>1, <1>4, <1>6
  <1>8. \A d \in Days : d < since => row'[s][d] = row[s][d]
    BY <1>1, <1>4 DEF Days
  <1>9. Baseline(s, SilentSince(s))' = baseline
    <2>1. Baseline(s, SilentSince(s))'
             = {d \in Days : /\ row'[s][d] # NoRow
                             /\ d < since /\ d + Window >= since
                             /\ row'[s][d].status # "failed"}
      BY <1>5 DEF Baseline, Recorded
    <2>2. baseline = {d \in Days : /\ row[s][d] # NoRow
                                   /\ d < since /\ d + Window >= since
                                   /\ row[s][d].status # "failed"}
      BY DEF Baseline, Recorded
    <2> QED BY <1>8, <2>1, <2>2
  <1>10. \A d \in baseline : row'[s][d] = row[s][d]
    BY <1>8 DEF Baseline, Recorded
  <1> HIDE DEF baseline
  <1>11. Items(s, Baseline(s, SilentSince(s)))' = Items(s, baseline)
    <2>1. [d \in baseline |-> row'[s][d].items] = [d \in baseline |-> row[s][d].items]
      BY <1>10
    <2> QED BY <1>9, <2>1 DEF Items
  <1>12. /\ Averages(s, Baseline(s, SilentSince(s)))' <=> Averages(s, baseline)
         /\ AveragesMore(s, Baseline(s, SilentSince(s)))' <=> AveragesMore(s, baseline)
    BY <1>9, <1>11 DEF Averages, AveragesMore
  <1>13. (day - SilentSince(s) + 1)' = ZeroStreak(s) + 1
    BY <1>5, <1>6
  <1> QED BY <1>7, <1>12, <1>13 DEF baseline, Missed

\* What a run does to the row and the warning of one source.
LEMMA RunOfSource ==
    ASSUME TypeOK, NEW tick, Run(tick), NEW s \in Sources
    PROVE  \/ /\ row'[s] = row[s]
              /\ s \in warning' <=> s \in warning
           \/ /\ \A d \in Days : d # day => row'[s][d] = row[s][d]
              /\ s \in warning' <=> Suspect(s, row'[s][day])
  <1>0. PICK scope \in SUBSET Sources :
            \E outcome : /\ row' = RecordedRows(scope, outcome)
                         /\ warning' = (warning \ scope)
                                         \union {t \in scope : Suspect(t, outcome[t])}
    BY DEF Run, CompleteRun, BrokenRun
  <1>1. PICK outcome : /\ row' = RecordedRows(scope, outcome)
                       /\ warning' = (warning \ scope)
                                       \union {t \in scope : Suspect(t, outcome[t])}
    BY <1>0
  <1>2. row'[s] = IF s \in scope THEN [row[s] EXCEPT ![day] = outcome[s]] ELSE row[s]
    BY <1>1 DEF RecordedRows
  <1>3. CASE s \in scope
    <2>1. row'[s] = [row[s] EXCEPT ![day] = outcome[s]]
      BY <1>2, <1>3
    <2>2. row[s] \in [Days -> Outcomes \union {NoRow}] /\ day \in Days
      BY DEF TypeOK
    <2>3. row'[s][day] = outcome[s] /\ \A d \in Days : d # day => row'[s][d] = row[s][d]
      BY <2>1, <2>2
    <2>4. s \in warning' <=> Suspect(s, outcome[s])
      BY <1>1, <1>3
    <2> QED BY <2>3, <2>4
  <1>4. CASE s \notin scope
    BY <1>1, <1>2, <1>4
  <1> QED BY <1>3, <1>4

LEMMA RunSilence ==
    ASSUME Silence, day' = day, NEW tick, Run(tick)
    PROVE  SilenceIsSuspect'
  <1> SUFFICES ASSUME NEW s \in Sources,
                      \A d \in 1 .. day : row'[s][d] # NoRow,
                      row'[s][day].items = 0
               PROVE  s \in warning' <=> Missed(s, row[s][day], day - SilentSince(s) + 1,
                                                Baseline(s, SilentSince(s)))'
    BY DEF SilenceIsSuspect
  <1>1. TypeOK
    BY DEF Silence
  <1>2. CASE row'[s] = row[s] /\ (s \in warning' <=> s \in warning)
    <2>1. s \in warning <=> Missed(s, row[s][day], day - SilentSince(s) + 1,
                                  Baseline(s, SilentSince(s)))
      BY <1>2 DEF Silence, SilenceIsSuspect
    <2>2. SilentSince(s)' = SilentSince(s)
      BY <1>2 DEF SilentSince
    <2>3. Baseline(s, SilentSince(s))' = Baseline(s, SilentSince(s))
      BY <1>2, <2>2 DEF Baseline, Recorded
    <2>4. Missed(s, row[s][day], day - SilentSince(s) + 1, Baseline(s, SilentSince(s)))'
              <=> Missed(s, row[s][day], day - SilentSince(s) + 1, Baseline(s, SilentSince(s)))
      BY <1>2, <2>2, <2>3 DEF Missed, Averages, AveragesMore, Items
    <2> QED BY <1>2, <2>1, <2>4
  <1>3. CASE /\ \A d \in Days : d # day => row'[s][d] = row[s][d]
             /\ s \in warning' <=> Suspect(s, row'[s][day])
    <2>1. Missed(s, row[s][day], day - SilentSince(s) + 1, Baseline(s, SilentSince(s)))'
              <=> Missed(s, row'[s][day], ZeroStreak(s) + 1, Baseline(s, day - ZeroStreak(s)))
      BY <1>1, <1>3, SilenceFound
    <2> QED BY <1>3, <2>1 DEF Suspect
  <1> QED BY <1>1, <1>2, <1>3, RunOfSource

\* A run records nothing for a day to come.
LEMMA RunAhead ==
    ASSUME Silence, day' = day, slot' # "morning", NEW tick, Run(tick)
    PROVE  NothingAheadRecorded'
  <1> SUFFICES ASSUME NEW s \in Sources, NEW d \in Days, d > day
               PROVE  row'[s][d] = NoRow
    BY DEF NothingAheadRecorded
  <1>1. row[s][d] = NoRow /\ d # day /\ TypeOK
    BY DEF Silence, NothingAheadRecorded, TypeOK, Days
  <1> QED BY <1>1, RunOfSource

LEMMA NextSilence == Silence /\ [Next]_vars => Silence'
  <1> SUFFICES ASSUME Silence, [Next]_vars PROVE Silence'
    OBVIOUS
  <1>1. TypeOK /\ TypeOK'
    BY NextType DEF Silence
  <1>2. CASE Scan \/ LateRun
    <2>1. PICK tick : Run(tick)
      BY <1>2 DEF Scan, LateRun
    <2>2. day' = day /\ slot' # "morning"
      BY <1>2 DEF Scan, LateRun
    <2> QED BY <1>1, <2>1, <2>2, RunSilence, RunAhead DEF Silence
  <1>3. CASE NextDay
    <2>1. day' = day + 1 /\ row' = row /\ day \in Nat /\ day' \in Days
      BY <1>1, <1>3 DEF NextDay, TypeOK, Days
    <2>2. NothingAheadRecorded'
      BY <2>1 DEF Silence, NothingAheadRecorded, Days
    <2>3. SilenceIsSuspect'
      <3>1. \A s \in Sources : row'[s][day'] = NoRow /\ day' \in 1 .. day'
        BY <2>1 DEF Silence, NothingAheadRecorded, Days
      <3> QED BY <3>1 DEF SilenceIsSuspect
    <2> QED BY <1>1, <2>2, <2>3 DEF Silence
  <1>4. CASE Heartbeat \/ MissHeartbeat \/ UNCHANGED vars
    <2>1. row' = row /\ warning' = warning /\ day' = day
          /\ (slot' = "morning" => slot = "morning")
      BY <1>4 DEF Heartbeat, MissHeartbeat, vars, healthVars
    <2>2. NothingAheadRecorded'
      BY <2>1 DEF Silence, NothingAheadRecorded
    <2>3. SilenceIsSuspect'
      BY <2>1 DEF Silence, SilenceIsSuspect, SilentSince, Baseline, Recorded, Missed, Averages,
                  AveragesMore, Items
    <2> QED BY <1>1, <2>2, <2>3 DEF Silence
  <1> QED BY <1>2, <1>3, <1>4 DEF Next

\* A source observed every day is reported as suspiciously empty exactly when it
\* brings nothing and brought enough before it fell silent (one that fails, after a
\* streak), for any window, threshold and length of the silence, and after any number
\* of runs today.
THEOREM SilenceIsSuspectTheorem == Spec => []SilenceIsSuspect
  <1>1. Init => Silence
    <2> SUFFICES ASSUME Init PROVE Silence
      OBVIOUS
    <2>1. \A s \in Sources, d \in Days : row[s][d] = NoRow
      BY DEF Init
    <2>2. 1 \in 1 .. day /\ 1 \in Days
      BY ConstantsAssumption DEF Init, Days
    <2> QED BY <2>1, <2>2, InitType DEF Silence, NothingAheadRecorded, SilenceIsSuspect
  <1>2. Silence => SilenceIsSuspect
    BY DEF Silence
  <1> QED BY <1>1, <1>2, NextSilence, PTL DEF Spec

==============================================================================
