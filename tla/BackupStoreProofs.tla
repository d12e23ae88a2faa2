------------------------- MODULE BackupStoreProofs -------------------------
(***************************************************************************)
(* What TLAPS proves of BackupStore, for any number of runs, destinations  *)
(* and paths, and for any retention.                                       *)
(*                                                                         *)
(* The runs hold no lock; what keeps their IDs apart is time.  A           *)
(* reservation is given up by its own run at its end, or by a cleanup a    *)
(* day after the time of the ID, and a run that reserves tries IDs of less *)
(* than a day.  So the invariant speaks of the reservation of a run as     *)
(* "held or old" (Held), and of the times the runs go by (Times).          *)
(***************************************************************************)
EXTENDS BackupStore, TLAPS

Live(r) == pc[r] \notin Ended
Old(s) == s.at + Day <= clock

BeforeId == {"start", "wait", "clean", "rmdir", "release", "reserve", "mkdir"}
WithId == {"prepare", "save", "saving", "tidy", "unlist", "return"}

\* What a run has at each place.
Places ==
  /\ \A r \in Runs: pc[r] \in BeforeId => id[r] = NoId
  /\ \A r \in Runs: pc[r] \in WithId => id[r] \in Ids
  /\ \A r \in Runs: saved[r] # {} => id[r] \in Ids
  /\ \A r \in Runs: pc[r] \in {"rmdir", "release"} => expired[r] # {}
  /\ \A r \in Runs: pc[r] = "saving" => items[r] # {}
  /\ \A r \in Runs: pc[r] \in {"clean", "rmdir", "release"} =>
       r \in Cleans /\ left[r] \subseteq Configured[r]

\* The times the runs go by are past, and what they clean has expired.
Times ==
  /\ \A r \in Runs: now[r] <= clock /\ at[r] <= clock
  /\ \A r \in Runs: pc[r] = "mkdir" => clock < at[r] + Day
  /\ \A r \in Runs: \A s \in expired[r]: Expired(s, Retention, now[r])
  /\ \A r \in Runs: pc[r] = "release" => Old(First(expired[r]))

\* The ID of a run that is under way is reserved, or nobody tries it any more.
Held == \A r \in Runs: (Live(r) /\ id[r] # NoId) => (id[r] \in reservations \/ Old(id[r]))

IInv == TypeOK /\ Places /\ Times /\ Held /\ RunningIdsDiffer

----------------------------------------------------------------------------
\* CHOOSE picks a member.
LEMMA FirstIsMember ==
  ASSUME NEW S, S # {}
  PROVE  First(S) \in S
BY DEF First

\* The types of the constants.
LEMMA Constants ==
  /\ Cleans \subseteq Runs
  /\ Configured \in [Runs -> SUBSET Targets]
  /\ \A w \in Items: w[1] \in Targets
  /\ \A r \in Runs: Changes[r] \subseteq Items
  /\ Retention \in Nat /\ Day \in Nat /\ Day > 0 /\ LastTime \in Nat /\ MaxSeq \in Nat
  /\ Retention * Day \in Nat
  /\ Retention # 0 => Retention * Day >= Day
  /\ LongRuns \in BOOLEAN
<1>1. Retention * Day \in Nat
  BY BackupStoreAssumption
<1>2. Retention # 0 => Retention * Day >= Day
  BY BackupStoreAssumption
<1> QED BY <1>1, <1>2, BackupStoreAssumption DEF Items

\* The area and the entry a run works on next.
LEMMA NextItemTyped ==
  ASSUME TypeOK, NEW r \in Runs, items[r] # {}
  PROVE  /\ First(items[r]) \in Items
         /\ NewEntry(r, First(items[r])) \in [id : {id[r]}, target : Targets,
              path : {w[2] : w \in Items}, place : {"pending"}, whole : {TRUE}]
<1>1. First(items[r]) \in Items
  BY FirstIsMember DEF TypeOK
<1> QED BY <1>1, Constants DEF NewEntry

\* The types hold initially and after every step.
LEMMA InitType == Init => TypeOK
BY Constants DEF Init, TypeOK, Pcs, Ended, Ids

LEMMA StepType ==
  ASSUME TypeOK, Places, Times, [Next]_vars
  PROVE  TypeOK'
<1> USE DEF store, work, local
<1>1. CASE Tick
  BY <1>1, Constants DEF Tick, TypeOK
<1>2. CASE UNCHANGED vars
  BY <1>2 DEF vars, TypeOK
<1>3. ASSUME NEW r \in Runs, Begin(r) \/ Start(r) \/ CleanDone(r) \/ ReserveList(r)
  PROVE TypeOK'
  BY <1>3, Constants DEF Begin, Start, CleanDone, ReserveList, ReservedAt, AfterCleaning, Goto,
    TypeOK, Pcs, Ended
<1>4. ASSUME NEW r \in Runs, CleanEntry(r)
  PROVE TypeOK'
  <2>1. PICK e \in entries: entries' = (entries \ {e}) \cup
                              (IF e.whole THEN {[e EXCEPT !.whole = FALSE]} ELSE {})
    BY <1>4 DEF CleanEntry
  <2>2. [e EXCEPT !.whole = FALSE] \in Entry
    BY <2>1 DEF TypeOK, Entry
  <2>3. [e EXCEPT !.whole = FALSE].id = e.id /\ [e EXCEPT !.whole = FALSE].target = e.target
    BY <2>1 DEF TypeOK, Entry
  <2>4. \A f \in entries': f \in Entry /\ <<f.id, f.target>> \in areas
    BY <2>1, <2>2, <2>3 DEF TypeOK
  <2> QED BY <1>4, <2>4 DEF CleanEntry, TypeOK
<1>5. ASSUME NEW r \in Runs, CleanArea(r)
  PROVE TypeOK'
  BY <1>5 DEF CleanArea, IsRemoving, EmptyAreas, TypeOK
<1>6. ASSUME NEW r \in Runs, CleanList(r) \/ CleanSession(r) \/ CleanRelease(r)
  PROVE TypeOK'
  BY <1>6, Constants DEF CleanList, CleanSession, CleanRelease, CleanNext, HasAreas, Goto,
    TypeOK, Pcs, Ended
<1>7. ASSUME NEW r \in Runs, Reserve(r)
  PROVE TypeOK'
  <2>1. PICK n \in 1..MaxSeq:
          LET s == [at |-> at[r], seq |-> n] IN
          IF Taken(s)
          THEN Learn(r, s) /\ UNCHANGED <<reservations, id, pc, left>>
          ELSE /\ reservations' = reservations \cup {s}
               /\ id' = [id EXCEPT ![r] = s]
               /\ left' = [left EXCEPT ![r] = {w[1] : w \in Changes[r]}]
               /\ Goto(r, "prepare")
               /\ UNCHANGED known
    BY <1>7 DEF Reserve
  <2>2. [at |-> at[r], seq |-> n] \in Ids
    BY DEF TypeOK, Ids
  <2>3. {w[1] : w \in Changes[r]} \subseteq Targets
    BY Constants
  <2> QED BY <1>7, <2>1, <2>2, <2>3 DEF Reserve, Learn, Goto, TypeOK, Pcs
<1>8. ASSUME NEW r \in Runs, Prepare(r)
  PROVE TypeOK'
  <2>1. id[r] \in Ids /\ First(left[r]) \in Targets
    BY <1>8, FirstIsMember DEF Prepare, Places, WithId, TypeOK
  <2> QED BY <1>8, <2>1 DEF Prepare, TypeOK
<1>9. ASSUME NEW r \in Runs, Prepared(r) \/ Exhausted(r) \/ CannotStart(r) \/ Crash(r) \/ SaveNothing(r)
  PROVE TypeOK'
  BY <1>9, Constants DEF Prepared, Exhausted, CannotStart, Crash, SaveNothing, NextItem, Goto,
    TypeOK, Pcs, Ended
<1>10. ASSUME NEW r \in Runs, SaveBegin(r)
  PROVE TypeOK'
  <2> DEFINE w == First(items[r])
  <2>1. id[r] \in Ids /\ w \in Items /\ w[1] \in Targets
    BY <1>10, NextItemTyped, Constants DEF SaveBegin, Places, WithId
  <2>2. NewEntry(r, w) \in Entry /\ NewEntry(r, w).id = id[r] /\ NewEntry(r, w).target = w[1]
    BY <2>1 DEF NewEntry, Entry
  <2> QED BY <1>10, <2>1, <2>2 DEF SaveBegin, Goto, TypeOK, Pcs
<1>11. ASSUME NEW r \in Runs, SaveCommit(r)
  PROVE TypeOK'
  <2> DEFINE w == First(items[r])
  <2>1. PICK e \in Temporary(r, w): entries' = (entries \ {e}) \cup {[e EXCEPT !.place = "records"]}
    BY <1>11 DEF SaveCommit
  <2>2. e \in entries
    BY <2>1 DEF Temporary
  <2>3. /\ [e EXCEPT !.place = "records"] \in Entry
        /\ [e EXCEPT !.place = "records"].id = e.id
        /\ [e EXCEPT !.place = "records"].target = e.target
    BY <2>2 DEF TypeOK, Entry
  <2>4. \A f \in entries': f \in Entry /\ <<f.id, f.target>> \in areas
    BY <2>1, <2>2, <2>3 DEF TypeOK
  <2>5. w \in Items
    BY <1>11, NextItemTyped DEF SaveCommit, Places
  <2> QED BY <1>11, <2>4, <2>5 DEF SaveCommit, NextItem, Goto, TypeOK, Pcs
<1>12. ASSUME NEW r \in Runs, SaveFails(r)
  PROVE TypeOK'
  BY <1>12 DEF SaveFails, NextItem, Goto, TypeOK, Pcs
<1>13. ASSUME NEW r \in Runs, FinishAreas(r) \/ FinishSession(r) \/ FinishCheck(r) \/ FinishRelease(r)
  PROVE TypeOK'
  BY <1>13 DEF FinishAreas, FinishSession, FinishCheck, FinishRelease, HasAreas, Goto, TypeOK, Pcs, Ended
<1> QED BY <1>1, <1>2, <1>3, <1>4, <1>5, <1>6, <1>7, <1>8, <1>9, <1>10, <1>11, <1>12, <1>13
  DEF Next, Progress, AllEnded

----------------------------------------------------------------------------
\* What each group of actions leaves alone.

\* Nobody comes back: a run that has ended takes no step.
LEMMA EndedStays ==
  ASSUME TypeOK, [Next]_vars, NEW q \in Runs, Live(q)'
  PROVE  Live(q)
<1> USE DEF store, work, local, Live, Ended, TypeOK
<1>1. CASE Tick \/ UNCHANGED vars
  BY <1>1 DEF Tick, vars
<1>2. ASSUME NEW r \in Runs, Begin(r) \/ Start(r) \/ CleanEntry(r) \/ CleanArea(r) \/ CleanList(r)
                             \/ CleanSession(r) \/ CleanRelease(r) \/ CleanDone(r)
  PROVE Live(q)
  BY <1>2 DEF Begin, Start, CleanEntry, CleanArea, IsRemoving, CleanList, CleanSession, CleanRelease,
    CleanDone, CleanNext, Goto
<1>3. ASSUME NEW r \in Runs, ReserveList(r) \/ Reserve(r) \/ Prepare(r) \/ Prepared(r) \/ Exhausted(r)
                             \/ CannotStart(r) \/ Crash(r)
  PROVE Live(q)
  BY <1>3 DEF ReserveList, Reserve, Prepare, Prepared, Exhausted, CannotStart, Crash, Goto
<1>4. ASSUME NEW r \in Runs, SaveBegin(r) \/ SaveNothing(r) \/ SaveCommit(r) \/ SaveFails(r)
                             \/ FinishAreas(r) \/ FinishSession(r) \/ FinishCheck(r) \/ FinishRelease(r)
  PROVE Live(q)
  BY <1>4 DEF SaveBegin, SaveNothing, SaveCommit, SaveFails, FinishAreas, FinishSession,
    FinishCheck, FinishRelease, NextItem, Goto
<1> QED BY <1>1, <1>2, <1>3, <1>4 DEF Next, Progress, AllEnded

\* Only these actions change the clock, the reservations or an ID.
LEMMA OthersKeep ==
  ASSUME TypeOK, [Next]_vars
  PROVE  \/ UNCHANGED <<clock, reservations, id>>
         \/ Tick
         \/ \E r \in Runs: CleanRelease(r) \/ Reserve(r) \/ FinishRelease(r)
<1> USE DEF store, work, local
<1>1. CASE UNCHANGED vars
  BY <1>1 DEF vars
<1>2. ASSUME NEW r \in Runs, Begin(r) \/ Start(r) \/ CleanEntry(r) \/ CleanArea(r) \/ CleanList(r)
                             \/ CleanSession(r) \/ CleanDone(r)
  PROVE UNCHANGED <<clock, reservations, id>>
  BY <1>2 DEF Begin, Start, CleanEntry, CleanArea, CleanList, CleanSession, CleanDone
<1>3. ASSUME NEW r \in Runs, ReserveList(r) \/ Prepare(r) \/ Prepared(r) \/ Exhausted(r)
                             \/ CannotStart(r) \/ Crash(r)
  PROVE UNCHANGED <<clock, reservations, id>>
  BY <1>3 DEF ReserveList, Prepare, Prepared, Exhausted, CannotStart, Crash
<1>4. ASSUME NEW r \in Runs, SaveBegin(r) \/ SaveNothing(r) \/ SaveCommit(r) \/ SaveFails(r)
                             \/ FinishAreas(r) \/ FinishSession(r) \/ FinishCheck(r)
  PROVE UNCHANGED <<clock, reservations, id>>
  BY <1>4 DEF SaveBegin, SaveNothing, SaveCommit, SaveFails, FinishAreas, FinishSession, FinishCheck
<1> QED BY <1>1, <1>2, <1>3, <1>4 DEF Next, Progress, AllEnded

\* The clock does not go back.
LEMMA ClockGrows ==
  ASSUME TypeOK, [Next]_vars
  PROVE  clock \in Nat /\ clock' \in Nat /\ clock <= clock'
<1>1. clock \in Nat
  BY Constants DEF TypeOK
<1>2. CASE Tick
  BY <1>1, <1>2 DEF Tick
<1>3. CASE clock' = clock
  BY <1>1, <1>3
<1> QED BY <1>2, <1>3, OthersKeep DEF CleanRelease, Reserve, FinishRelease

\* What is old stays old.
LEMMA OldStays ==
  ASSUME TypeOK, [Next]_vars, NEW s \in Ids, Old(s)
  PROVE  Old(s)'
BY ClockGrows, Constants DEF Old, Ids

\* A day later at the earliest.
LEMMA ReleasableIsOld ==
  ASSUME TypeOK, NEW s \in Ids, NEW t \in Nat, t <= clock, Releasable(s, t)
  PROVE  Old(s)
<1>1. clock \in Nat /\ s.at \in Nat
  BY Constants DEF TypeOK, Ids
<1>2. CASE Retention = 0
  BY <1>1, <1>2, Constants DEF Releasable, Expired, Old
<1>3. CASE Retention # 0
  <2>1. s.at + Retention * Day <= t
    BY <1>3 DEF Releasable, Expired
  <2> QED BY <2>1, <1>1, <1>3, Constants DEF Old
<1> QED BY <1>2, <1>3

\* An ID of less than a day is not old.
LEMMA FreshIsNotOld ==
  ASSUME TypeOK, NEW s \in Ids, clock < s.at + Day
  PROVE  ~Old(s)
BY Constants DEF TypeOK, Ids, Old

----------------------------------------------------------------------------
\* IInv is inductive.
LEMMA InitIInv == Init => IInv
<1> SUFFICES ASSUME Init PROVE IInv
  OBVIOUS
<1>1. TypeOK
  BY InitType
<1>2. Places
  BY DEF Init, Places, BeforeId, WithId
<1>3. Times
  BY Constants DEF Init, Times
<1>4. Held /\ RunningIdsDiffer
  BY DEF Init, Held, RunningIdsDiffer, NoId
<1> QED BY <1>1, <1>2, <1>3, <1>4 DEF IInv

LEMMA StepPlaces ==
  ASSUME TypeOK, Places, Times, [Next]_vars
  PROVE  Places'
<1> USE DEF store, work, local, Places, BeforeId, WithId, TypeOK
<1>1. CASE Tick \/ UNCHANGED vars
  BY <1>1 DEF Tick, vars
<1>2. ASSUME NEW r \in Runs, Begin(r) \/ Start(r) \/ CleanDone(r)
  PROVE Places'
  BY <1>2, Constants DEF Begin, Start, CleanDone, AfterCleaning, Goto
<1>3. ASSUME NEW r \in Runs, CleanEntry(r) \/ CleanArea(r)
  PROVE Places'
  BY <1>3 DEF CleanEntry, CleanArea, IsRemoving
<1>4. ASSUME NEW r \in Runs, CleanList(r) \/ CleanSession(r) \/ CleanRelease(r)
  PROVE Places'
  BY <1>4 DEF CleanList, CleanSession, CleanRelease, CleanNext, Goto
<1>5. ASSUME NEW r \in Runs, ReserveList(r) \/ Prepared(r) \/ Exhausted(r) \/ CannotStart(r) \/ Crash(r)
  PROVE Places'
  BY <1>5 DEF ReserveList, Prepared, Exhausted, CannotStart, Crash, Ended, Goto
<1>6. ASSUME NEW r \in Runs, Reserve(r)
  PROVE Places'
  <2>1. PICK n \in 1..MaxSeq:
          LET s == [at |-> at[r], seq |-> n] IN
          IF Taken(s)
          THEN Learn(r, s) /\ UNCHANGED <<reservations, id, pc, left>>
          ELSE /\ reservations' = reservations \cup {s}
               /\ id' = [id EXCEPT ![r] = s]
               /\ left' = [left EXCEPT ![r] = {w[1] : w \in Changes[r]}]
               /\ Goto(r, "prepare")
               /\ UNCHANGED known
    BY <1>6 DEF Reserve
  <2>2. [at |-> at[r], seq |-> n] \in Ids
    BY DEF Ids
  <2> QED BY <1>6, <2>1, <2>2 DEF Reserve, Goto
<1>7. ASSUME NEW r \in Runs, Prepare(r)
  PROVE Places'
  BY <1>7 DEF Prepare
<1>8. ASSUME NEW r \in Runs, SaveBegin(r) \/ SaveNothing(r) \/ SaveFails(r)
  PROVE Places'
  BY <1>8 DEF SaveBegin, SaveNothing, SaveFails, NextItem, Goto
<1>9. ASSUME NEW r \in Runs, SaveCommit(r)
  PROVE Places'
  BY <1>9 DEF SaveCommit, NextItem, Goto
<1>10. ASSUME NEW r \in Runs, FinishAreas(r) \/ FinishSession(r) \/ FinishCheck(r) \/ FinishRelease(r)
  PROVE Places'
  BY <1>10 DEF FinishAreas, FinishSession, FinishCheck, FinishRelease, Goto
<1> QED BY <1>1, <1>2, <1>3, <1>4, <1>5, <1>6, <1>7, <1>8, <1>9, <1>10 DEF Next, Progress, AllEnded

LEMMA StepTimes ==
  ASSUME TypeOK, Places, Times, [Next]_vars
  PROVE  Times'
<1> USE DEF store, work, local, Times
<1>1. clock \in Nat /\ \A q \in Runs: now[q] \in Nat /\ at[q] \in Nat /\ expired[q] \subseteq Ids
  BY Constants DEF TypeOK
<1>2. CASE Tick
  <2>1. clock' = clock + 1 /\ UNCHANGED <<pc, now, at, expired>>
    BY <1>2 DEF Tick
  <2>2. \A q \in Runs: pc[q] = "mkdir" => clock + 1 < at[q] + Day
    BY <1>2 DEF Tick, InTime
  <2>3. ASSUME NEW q \in Runs, pc[q] = "release"
        PROVE  Old(First(expired[q]))'
    <3>1. First(expired[q]) \in Ids /\ Old(First(expired[q]))
      BY <1>1, <2>3, FirstIsMember DEF Places
    <3>2. First(expired[q])' = First(expired[q])
      BY <2>1
    <3> QED BY <1>1, <2>1, <3>1, <3>2, Constants DEF Old, Ids
  <2> QED BY <1>1, <2>1, <2>2, <2>3, Constants
<1>3. CASE UNCHANGED vars
  BY <1>3 DEF vars, Old
<1>4. ASSUME NEW r \in Runs, Begin(r)
  PROVE Times'
  <2>1. \A s \in expired[r]: Expired(s, Retention, clock)
    BY <1>1, Constants DEF Expired, Ids
  <2> QED BY <1>1, <1>4, <2>1 DEF Begin, Goto, TypeOK, Old
<1>5. ASSUME NEW r \in Runs, Start(r)
  PROVE Times'
  <2>1. \A s \in expired'[r]: Expired(s, Retention, now[r])
    BY <1>5 DEF Start, TypeOK
  <2> QED BY <1>5, <2>1 DEF Start, AfterCleaning, Goto, TypeOK, Old
<1>6. ASSUME NEW r \in Runs, CleanEntry(r) \/ CleanArea(r) \/ CleanDone(r)
  PROVE Times'
  BY <1>6 DEF CleanEntry, CleanArea, IsRemoving, CleanDone, AfterCleaning, Goto, TypeOK, Old
<1>7. ASSUME NEW r \in Runs, CleanList(r) \/ CleanRelease(r)
  PROVE Times'
  BY <1>7 DEF CleanList, CleanRelease, CleanNext, Goto, TypeOK, Old
<1>8. ASSUME NEW r \in Runs, CleanSession(r)
  PROVE Times'
  <2>1. First(expired[r]) \in Ids
    BY <1>1, <1>8, FirstIsMember DEF CleanSession, Places
  <2>2. CASE ~HasAreas(First(expired[r])) /\ Releasable(First(expired[r]), now[r])
    <3>1. Old(First(expired[r]))
      BY <2>1, <2>2, <1>1, ReleasableIsOld
    <3> QED BY <1>8, <2>2, <3>1 DEF CleanSession, Goto, TypeOK, Old
  <2>3. CASE ~(~HasAreas(First(expired[r])) /\ Releasable(First(expired[r]), now[r]))
    BY <1>8, <2>3 DEF CleanSession, CleanNext, Goto, TypeOK, Old
  <2> QED BY <2>2, <2>3
<1>9. ASSUME NEW r \in Runs, ReserveList(r)
  PROVE Times'
  <2>1. clock < clock + Day
    BY <1>1, Constants
  <2> QED BY <1>1, <1>9, <2>1 DEF ReserveList, ReservedAt, Goto, TypeOK, Old
<1>10. ASSUME NEW r \in Runs, Reserve(r) \/ Prepare(r) \/ Prepared(r) \/ Exhausted(r) \/ CannotStart(r) \/ Crash(r)
  PROVE Times'
  BY <1>10 DEF Reserve, Prepare, Prepared, Exhausted, CannotStart, Crash, Goto, TypeOK, Old
<1>11. ASSUME NEW r \in Runs, SaveBegin(r) \/ SaveNothing(r) \/ SaveCommit(r) \/ SaveFails(r)
                             \/ FinishAreas(r) \/ FinishSession(r) \/ FinishCheck(r) \/ FinishRelease(r)
  PROVE Times'
  BY <1>11 DEF SaveBegin, SaveNothing, SaveCommit, SaveFails, FinishAreas, FinishSession,
    FinishCheck, FinishRelease, NextItem, Goto, TypeOK, Old
<1> QED BY <1>2, <1>3, <1>4, <1>5, <1>6, <1>7, <1>8, <1>9, <1>10, <1>11 DEF Next, Progress, AllEnded

\* What a successful reservation does: a new ID of less than a day.
LEMMA ReserveIsNew ==
  ASSUME TypeOK, Times, NEW r \in Runs, Reserve(r), ~UNCHANGED <<reservations, id, pc, left>>
  PROVE  \E s \in Ids:
           /\ s \notin reservations /\ ~Old(s) /\ s # NoId
           /\ reservations' = reservations \cup {s}
           /\ id' = [id EXCEPT ![r] = s]
           /\ s.at = at[r]
           /\ IsNextSeq(r, s.seq)
           /\ UNCHANGED <<clock, known>>
<1>1. PICK n \in 1..MaxSeq:
        LET s == [at |-> at[r], seq |-> n] IN
        /\ IsNextSeq(r, n)
        /\ IF Taken(s)
           THEN Learn(r, s) /\ UNCHANGED <<reservations, id, pc, left>>
           ELSE /\ reservations' = reservations \cup {s}
                /\ id' = [id EXCEPT ![r] = s]
                /\ left' = [left EXCEPT ![r] = {w[1] : w \in Changes[r]}]
                /\ Goto(r, "prepare")
                /\ UNCHANGED known
  BY DEF Reserve
<1> DEFINE s == [at |-> at[r], seq |-> n]
<1>2. s \in Ids /\ s.at = at[r] /\ s.seq = n /\ s # NoId
  BY DEF TypeOK, Ids, NoId
<1>3. clock < s.at + Day
  BY <1>2 DEF Reserve, Times
<1>4. ~Old(s)
  BY <1>2, <1>3, FreshIsNotOld
<1>5. ~Taken(s)
  BY <1>1
<1> QED BY <1>1, <1>2, <1>4, <1>5 DEF Taken, Reserve

\* What becomes of the reservations that are given up.
LEMMA StepHeld ==
  ASSUME IInv, [Next]_vars
  PROVE  Held'
<1> USE DEF IInv
<1> SUFFICES ASSUME NEW q \in Runs, Live(q)', id'[q] # NoId
             PROVE  id'[q] \in reservations' \/ Old(id[q])'
  BY DEF Held
<1>1. Live(q)
  BY EndedStays
<1>2. id[q] # NoId => id[q] \in Ids /\ (id[q] \in reservations \/ Old(id[q]))
  BY <1>1 DEF TypeOK, Held
<1>3. CASE UNCHANGED <<clock, reservations, id>>
  BY <1>2, <1>3 DEF Old
<1>4. CASE Tick
  <2>1. UNCHANGED <<reservations, id>>
    BY <1>4 DEF Tick, store, local
  <2>2. id[q] \in Ids
    BY <1>2, <2>1
  <2>3. Old(id[q]) => Old(id[q])'
    BY <2>1, <2>2, ClockGrows, Constants DEF Old, Ids
  <2> QED BY <1>2, <2>1, <2>3
<1>5. ASSUME NEW r \in Runs, CleanRelease(r)
      PROVE  id'[q] \in reservations' \/ Old(id[q])'
  <2>1. Old(First(expired[r]))
    BY <1>5 DEF CleanRelease, Times
  <2>2. UNCHANGED <<clock, id>> /\ reservations' = reservations \ {First(expired[r])}
    BY <1>5 DEF CleanRelease, local
  <2> QED BY <1>2, <2>1, <2>2 DEF Old
<1>6. ASSUME NEW r \in Runs, Reserve(r)
      PROVE  id'[q] \in reservations' \/ Old(id[q])'
  <2>1. CASE UNCHANGED <<reservations, id, pc, left>>
    BY <1>2, <1>6, <2>1 DEF Reserve, Old
  <2>2. CASE ~UNCHANGED <<reservations, id, pc, left>>
    <3>1. PICK s \in Ids: /\ reservations' = reservations \cup {s}
                          /\ id' = [id EXCEPT ![r] = s]
                          /\ clock' = clock
      BY <1>6, <2>2, ReserveIsNew
    <3>2. id'[r] = s /\ (q # r => id'[q] = id[q])
      BY <3>1 DEF TypeOK
    <3> QED BY <1>2, <3>1, <3>2 DEF Old
  <2> QED BY <2>1, <2>2
<1>7. ASSUME NEW r \in Runs, FinishRelease(r)
      PROVE  id'[q] \in reservations' \/ Old(id[q])'
  <2>1. UNCHANGED <<clock, id>> /\ reservations' = reservations \ {id[r]} /\ pc' = [pc EXCEPT ![r] = "done"]
    BY <1>7 DEF FinishRelease, local, Goto
  <2>2. q # r
    BY <2>1 DEF Live, Ended, TypeOK
  <2>3. pc[r] \notin Ended
    BY <1>7 DEF FinishRelease, Ended
  <2>4. id[q] # id[r]
    BY <1>1, <2>1, <2>2, <2>3 DEF RunningIdsDiffer, Live
  <2> QED BY <1>2, <2>1, <2>4 DEF Old
<1> QED BY <1>3, <1>4, <1>5, <1>6, <1>7, OthersKeep

\* A run that reserves an ID of less than a day finds those of all others taken.
LEMMA StepRunningIdsDiffer ==
  ASSUME IInv, [Next]_vars
  PROVE  RunningIdsDiffer'
<1> USE DEF IInv
<1>1. CASE id' = id
  BY <1>1, EndedStays DEF RunningIdsDiffer, Live
<1>2. ASSUME NEW r \in Runs, Reserve(r), id' # id
      PROVE  RunningIdsDiffer'
  <2>1. PICK s \in Ids: s \notin reservations /\ ~Old(s) /\ id' = [id EXCEPT ![r] = s]
    BY <1>2, ReserveIsNew
  <2>2. id'[r] = s /\ \A q \in Runs \ {r}: id'[q] = id[q]
    BY <2>1 DEF TypeOK
  <2>3. s # NoId
    BY DEF Ids, NoId
  <2>4. ASSUME NEW q \in Runs \ {r}, Live(q) PROVE id[q] # s
    BY <2>1, <2>3, <2>4 DEF Held
  <2>5. ASSUME NEW p \in Runs, NEW q \in Runs, p # q, id'[p] # NoId, Live(p)', Live(q)'
        PROVE  id'[p] # id'[q]
    <3>1. Live(p) /\ Live(q)
      BY <2>5, EndedStays
    <3>2. CASE p = r
      BY <2>2, <2>4, <2>5, <3>1, <3>2
    <3>3. CASE q = r
      BY <2>2, <2>4, <2>5, <3>1, <3>3
    <3>4. CASE p # r /\ q # r
      BY <2>2, <2>5, <3>1, <3>4 DEF RunningIdsDiffer, Live
    <3> QED BY <3>2, <3>3, <3>4
  <2> QED BY <2>5 DEF RunningIdsDiffer, Live
<1>3. id' = id \/ \E r \in Runs: Reserve(r)
  BY OthersKeep DEF Tick, CleanRelease, FinishRelease, local
<1> QED BY <1>1, <1>2, <1>3

LEMMA StepIInv == IInv /\ [Next]_vars => IInv'
BY StepType, StepPlaces, StepTimes, StepHeld, StepRunningIdsDiffer DEF IInv

\* IInv is an invariant.
THEOREM Invariant == Spec => []IInv
BY InitIInv, StepIInv, PTL DEF Spec

\* Every variable has its type, an area is in a session and an entry in an area.
THEOREM TypeCorrect == Spec => []TypeOK
BY Invariant, PTL DEF IInv

\* REQ-backup-023: runs that are under way at the same time never have the same
\* session ID, for any retention, 0 included, and however long the runs take
\* after they took their ID.
THEOREM RunningIdsDifferHolds == Spec => []RunningIdsDiffer
BY Invariant, PTL DEF IInv

----------------------------------------------------------------------------
(***************************************************************************)
(* What was saved is kept.                                                 *)
(***************************************************************************)
\* Whether a cleanup may take entries of session s and destination t apart.
MayGo(s, t) == Expired(s, Retention, clock) /\ \E q \in Cleans: t \in Configured[q]

\* Only a cleanup takes an entry apart, and only an expired one.
Torn == \A e \in entries: e.whole \/ MayGo(e.id, e.target)

\* The entry in which run r backed up w.
Record(r, w) ==
  [id |-> id[r], target |-> w[1], path |-> w[2], place |-> "records", whole |-> TRUE]

Kept == Torn /\ SavedIsKept

LEMMA MayGoStays ==
  ASSUME TypeOK, [Next]_vars, NEW s \in Ids, NEW t, MayGo(s, t)
  PROVE  MayGo(s, t)'
<1>1. s.at + Retention * Day <= clock
  BY DEF MayGo, Expired
<1>2. s.at \in Nat
  BY DEF Ids
<1>3. s.at + Retention * Day <= clock'
  BY <1>1, <1>2, ClockGrows, Constants
<1> QED BY <1>3 DEF MayGo, Expired

\* Only these actions change the entries or what is reported as saved.
LEMMA OthersKeepEntries ==
  ASSUME TypeOK, [Next]_vars
  PROVE  \/ UNCHANGED <<entries, saved, id>>
         \/ \E r \in Runs: CleanEntry(r) \/ Reserve(r) \/ SaveBegin(r) \/ SaveCommit(r) \/ SaveFails(r)
<1> USE DEF store, work, local
<1>1. CASE Tick \/ UNCHANGED vars
  BY <1>1 DEF Tick, vars
<1>2. ASSUME NEW r \in Runs, Begin(r) \/ Start(r) \/ CleanArea(r) \/ CleanList(r)
                             \/ CleanSession(r) \/ CleanRelease(r) \/ CleanDone(r)
  PROVE UNCHANGED <<entries, saved, id>>
  BY <1>2 DEF Begin, Start, CleanArea, CleanList, CleanSession, CleanRelease, CleanDone
<1>3. ASSUME NEW r \in Runs, ReserveList(r) \/ Prepare(r) \/ Prepared(r) \/ Exhausted(r)
                             \/ CannotStart(r) \/ Crash(r)
  PROVE UNCHANGED <<entries, saved, id>>
  BY <1>3 DEF ReserveList, Prepare, Prepared, Exhausted, CannotStart, Crash
<1>4. ASSUME NEW r \in Runs, SaveNothing(r) \/ FinishSession(r) \/ FinishCheck(r) \/ FinishRelease(r)
  PROVE UNCHANGED <<entries, saved, id>>
  BY <1>4 DEF SaveNothing, FinishSession, FinishCheck, FinishRelease
<1>5. ASSUME NEW r \in Runs, FinishAreas(r)
  PROVE UNCHANGED <<entries, saved, id>>
  <2>1. \A e \in entries: <<e.id, e.target>> \in areas'
    BY <1>5 DEF FinishAreas, Tidied, EmptyAreas, TypeOK
  <2> QED BY <1>5, <2>1 DEF FinishAreas
<1> QED BY <1>1, <1>2, <1>3, <1>4, <1>5 DEF Next, Progress, AllEnded

LEMMA StepTorn ==
  ASSUME IInv, Torn, [Next]_vars
  PROVE  Torn'
<1> USE DEF IInv
<1>1. \A e \in entries: e.id \in Ids /\ (e.whole \/ MayGo(e.id, e.target)')
  BY MayGoStays DEF Torn, TypeOK, Entry
<1>2. CASE entries' = entries
  BY <1>1, <1>2 DEF Torn
<1>3. ASSUME NEW r \in Runs, CleanEntry(r)
      PROVE  Torn'
  <2>1. PICK e \in entries: /\ <<e.id, e.target>> = Removing(r)
                            /\ entries' = (entries \ {e}) \cup
                                 (IF e.whole THEN {[e EXCEPT !.whole = FALSE]} ELSE {})
    BY <1>3 DEF CleanEntry
  <2>2. e.id = First(expired[r]) /\ e.target = First(left[r])
    BY <2>1 DEF Removing
  <2>3. e.id \in expired[r] /\ e.target \in left[r]
    BY <2>2, <1>3, FirstIsMember DEF CleanEntry, IsRemoving
  <2>4. Expired(e.id, Retention, now[r]) /\ r \in Cleans /\ e.target \in Configured[r]
    BY <2>3, <1>3 DEF CleanEntry, IsRemoving, Times, Places
  <2>5. e.id.at + Retention * Day <= clock
    <3>1. now[r] <= clock /\ now[r] \in Nat /\ clock \in Nat
      BY Constants DEF Times, TypeOK
    <3>2. e.id.at \in Nat
      BY <1>1 DEF Ids
    <3> QED BY <3>1, <3>2, <2>4, Constants DEF Expired
  <2>6. MayGo(e.id, e.target)
    BY <2>4, <2>5 DEF MayGo, Expired
  <2>7. MayGo(e.id, e.target)'
    BY <1>1, <2>6, MayGoStays
  <2>8. [e EXCEPT !.whole = FALSE].id = e.id /\ [e EXCEPT !.whole = FALSE].target = e.target
    BY DEF TypeOK, Entry
  <2> QED BY <1>1, <2>1, <2>7, <2>8 DEF Torn
<1>4. ASSUME NEW r \in Runs, SaveBegin(r)
      PROVE  Torn'
  BY <1>1, <1>4 DEF SaveBegin, NewEntry, Torn
<1>5. ASSUME NEW r \in Runs, SaveCommit(r)
      PROVE  Torn'
  <2>1. PICK e \in entries: entries' = (entries \ {e}) \cup {[e EXCEPT !.place = "records"]}
    BY <1>5 DEF SaveCommit, Temporary
  <2>2. /\ [e EXCEPT !.place = "records"].id = e.id
        /\ [e EXCEPT !.place = "records"].target = e.target
        /\ [e EXCEPT !.place = "records"].whole = e.whole
    BY DEF TypeOK, Entry
  <2> QED BY <1>1, <2>1, <2>2 DEF Torn
<1>6. ASSUME NEW r \in Runs, SaveFails(r)
      PROVE  Torn'
  BY <1>1, <1>6 DEF SaveFails, Torn
<1> QED BY <1>2, <1>3, <1>4, <1>5, <1>6, OthersKeepEntries DEF Reserve

LEMMA StepSavedIsKept ==
  ASSUME IInv, Kept, [Next]_vars
  PROVE  SavedIsKept'
<1> USE DEF IInv
<1> SUFFICES ASSUME NEW q \in Runs, NEW w \in saved'[q]
             PROVE  Record(q, w)' \in entries' \/ MayGo(id[q], w[1])'
  BY DEF SavedIsKept, Record, MayGo
<1>1. w \in saved[q] => /\ id[q] \in Ids
                        /\ Record(q, w) \in entries \/ MayGo(id[q], w[1])
                        /\ MayGo(id[q], w[1]) => (id'[q] = id[q] => MayGo(id[q], w[1])')
  BY MayGoStays DEF Kept, SavedIsKept, Record, MayGo, Places
<1>2. id'[q] = id[q] => Record(q, w)' = Record(q, w)
  BY DEF Record
<1>3. CASE UNCHANGED <<entries, saved, id>>
  BY <1>1, <1>2, <1>3
<1>4. ASSUME NEW r \in Runs, CleanEntry(r)
      PROVE  Record(q, w)' \in entries' \/ MayGo(id[q], w[1])'
  <2>1. UNCHANGED <<saved, id>> /\ entries \ entries' \subseteq {e \in entries : ~ (e \in entries')}
    BY <1>4 DEF CleanEntry, local
  <2>2. PICK e \in entries: /\ <<e.id, e.target>> = Removing(r)
                            /\ entries' = (entries \ {e}) \cup
                                 (IF e.whole THEN {[e EXCEPT !.whole = FALSE]} ELSE {})
    BY <1>4 DEF CleanEntry
  <2>3. CASE Record(q, w) = e
    <3>1. e.id = id[q] /\ e.target = w[1] /\ e.whole
      BY <2>3 DEF Record
    <3>2. CASE e.whole
      <4>1. [e EXCEPT !.whole = FALSE] \in entries'
        BY <2>2, <3>2
      <4>2. /\ [e EXCEPT !.whole = FALSE].id = id[q]
            /\ [e EXCEPT !.whole = FALSE].target = w[1]
            /\ ~[e EXCEPT !.whole = FALSE].whole
        BY <3>1 DEF TypeOK, Entry
      <4>3. Torn'
        BY StepTorn DEF Kept
      <4>4. MayGo(id[q], w[1])'
        BY <4>1, <4>2, <4>3, <2>1 DEF Torn
      <4> QED BY <4>4
    <3> QED BY <3>1, <3>2
  <2>4. CASE Record(q, w) # e
    BY <1>1, <1>2, <2>1, <2>2, <2>4
  <2> QED BY <2>3, <2>4
<1>5. ASSUME NEW r \in Runs, Reserve(r)
      PROVE  Record(q, w)' \in entries' \/ MayGo(id[q], w[1])'
  <2>1. UNCHANGED <<entries, saved>> /\ id'[q] = id[q]
    <3>1. saved[r] = {}
      BY <1>5 DEF Reserve, Places, BeforeId, Ids, NoId
    <3>2. UNCHANGED <<entries, saved>>
      BY <1>5 DEF Reserve
    <3>3. q # r
      BY <3>1, <3>2
    <3>4. q # r => id'[q] = id[q]
      BY <1>5 DEF Reserve, TypeOK
    <3> QED BY <3>2, <3>3, <3>4
  <2> QED BY <1>1, <1>2, <2>1
<1>6. ASSUME NEW r \in Runs, SaveBegin(r)
      PROVE  Record(q, w)' \in entries' \/ MayGo(id[q], w[1])'
  BY <1>1, <1>2, <1>6 DEF SaveBegin, local
<1>7. ASSUME NEW r \in Runs, SaveCommit(r)
      PROVE  Record(q, w)' \in entries' \/ MayGo(id[q], w[1])'
  <2> DEFINE v == First(items[r])
  <2>1. PICK e \in Temporary(r, v): entries' = (entries \ {e}) \cup {[e EXCEPT !.place = "records"]}
    BY <1>7 DEF SaveCommit
  <2>2. e \in Entry /\ e \in entries /\ e.place = "pending" /\ e.id = id[r] /\ e.target = v[1] /\ e.path = v[2]
    BY <2>1 DEF Temporary, TypeOK
  <2>3. id' = id /\ saved' = [saved EXCEPT ![r] = @ \cup {v}]
    BY <1>7 DEF SaveCommit
  <2>4. w \in saved[q] \/ (q = r /\ w = v)
    BY <2>3 DEF TypeOK
  <2>5. CASE w \in saved[q]
    <3>1. Record(q, w) # e
      BY <2>2 DEF Record
    <3> QED BY <1>1, <1>2, <2>1, <2>3, <2>5, <3>1
  <2>6. CASE q = r /\ w = v
    <3>1. CASE e.whole
      <4>1. [e EXCEPT !.place = "records"] = Record(q, w)
        <5>1. [e EXCEPT !.place = "records"] =
                [id |-> e.id, target |-> e.target, path |-> e.path, place |-> "records", whole |-> e.whole]
          BY <2>2 DEF Entry
        <5>2. e.whole = TRUE
          BY <2>2, <3>1 DEF Entry
        <5>3. Record(q, w) =
                [id |-> e.id, target |-> e.target, path |-> e.path, place |-> "records", whole |-> TRUE]
          BY <2>2, <2>6 DEF Record
        <5> QED BY <5>1, <5>2, <5>3
      <4> QED BY <1>2, <2>1, <2>3, <4>1
    <3>2. CASE ~e.whole
      <4>1. MayGo(id[q], w[1])
        BY <2>2, <2>6, <3>2 DEF Kept, Torn
      <4>2. id[q] \in Ids
        BY <2>2, <2>6 DEF Entry
      <4>3. ASSUME NEW s \in Ids, NEW t, MayGo(s, t) PROVE MayGo(s, t)'
        BY <4>3, MayGoStays
      <4> QED BY <4>1, <4>2, <4>3, <2>3
    <3> QED BY <3>1, <3>2
  <2> QED BY <2>4, <2>5, <2>6
<1>8. ASSUME NEW r \in Runs, SaveFails(r)
      PROVE  Record(q, w)' \in entries' \/ MayGo(id[q], w[1])'
  <2>1. UNCHANGED <<saved, id>>
    BY <1>8 DEF SaveFails, local
  <2>2. Record(q, w) \notin Temporary(r, First(items[r]))
    BY DEF Temporary, Record
  <2> QED BY <1>1, <1>2, <1>8, <2>1, <2>2 DEF SaveFails
<1> QED BY <1>3, <1>4, <1>5, <1>6, <1>7, <1>8, OthersKeepEntries

LEMMA InitKept == Init => Kept
BY DEF Init, Kept, Torn, SavedIsKept

LEMMA StepKept == IInv /\ Kept /\ [Next]_vars => Kept'
BY StepTorn, StepSavedIsKept DEF Kept

LEMMA KeptInvariant == Spec => []Kept
BY Invariant, InitKept, StepKept, PTL DEF Spec

\* REQ-backup-009, 026: what a run reported as backed up stays readable until it
\* has expired and some run that cleans has its destination configured.
THEOREM SavedIsKeptHolds == Spec => []SavedIsKept
BY KeptInvariant, PTL DEF Kept

\* A record is never half written, and only an expired one is half removed.
THEOREM RecordsAreWholeHolds == Spec => []RecordsAreWhole
<1>1. Kept => RecordsAreWhole
  BY DEF Kept, Torn, RecordsAreWhole, MayGo
<1> QED BY <1>1, KeptInvariant, PTL

----------------------------------------------------------------------------
(***************************************************************************)
(* An ID under which something was saved is not given out again, unless    *)
(* the retention is 0: then an entry can go while its reservation is       *)
(* young, and its run gives the reservation up.                            *)
(***************************************************************************)
\* An ID in use, by a run that has saved or is under way.
Spent ==
  /\ IdsAreNeverReused
  /\ \A r \in Runs: saved[r] # {} => (id[r] \in reservations \/ Old(id[r]))
  /\ \A r, q \in Runs: (r # q /\ saved[r] # {} /\ Live(q) /\ id[q] # NoId) => id[r] # id[q]
  /\ \A r \in Runs: (pc[r] = "return" /\ saved[r] # {}) => Old(id[r])

LEMMA InitSpent == Init => Spent
BY DEF Init, Spent, IdsAreNeverReused

\* Only saving adds to what was saved, and only by a run under way.
LEMMA OthersKeepSaved ==
  ASSUME TypeOK, [Next]_vars
  PROVE  saved' = saved \/ \E r \in Runs: SaveCommit(r)
BY OthersKeepEntries DEF CleanEntry, Reserve, SaveBegin, SaveFails, local

\* Only FinishCheck sends a run to give its reservation up.
LEMMA OthersDoNotReturn ==
  ASSUME TypeOK, [Next]_vars, NEW q \in Runs, pc'[q] = "return"
  PROVE  pc[q] = "return" \/ FinishCheck(q)
<1> USE DEF store, work, local, TypeOK
<1>1. CASE Tick \/ UNCHANGED vars
  BY <1>1 DEF Tick, vars
<1>2. ASSUME NEW r \in Runs, Begin(r) \/ Start(r) \/ CleanEntry(r) \/ CleanArea(r) \/ CleanList(r)
                             \/ CleanSession(r) \/ CleanRelease(r) \/ CleanDone(r)
  PROVE pc[q] = "return"
  BY <1>2 DEF Begin, Start, CleanEntry, CleanArea, IsRemoving, CleanList, CleanSession, CleanRelease,
    CleanDone, CleanNext, AfterCleaning, Goto
<1>3. ASSUME NEW r \in Runs, ReserveList(r) \/ Reserve(r) \/ Prepare(r) \/ Prepared(r) \/ Exhausted(r)
                             \/ CannotStart(r) \/ Crash(r)
  PROVE pc[q] = "return"
  BY <1>3 DEF ReserveList, Reserve, Prepare, Prepared, Exhausted, CannotStart, Crash, Goto
<1>4. ASSUME NEW r \in Runs, SaveBegin(r) \/ SaveNothing(r) \/ SaveCommit(r) \/ SaveFails(r)
                             \/ FinishAreas(r) \/ FinishSession(r) \/ FinishRelease(r)
  PROVE pc[q] = "return"
  BY <1>4 DEF SaveBegin, SaveNothing, SaveCommit, SaveFails, FinishAreas, FinishSession,
    FinishRelease, NextItem, Goto
<1>5. ASSUME NEW r \in Runs, FinishCheck(r)
  PROVE pc[q] = "return" \/ FinishCheck(q)
  BY <1>5 DEF FinishCheck, Goto
<1> QED BY <1>1, <1>2, <1>3, <1>4, <1>5 DEF Next, Progress, AllEnded

\* When a session is gone, what was saved in it has expired.
LEMMA GoneIsOld ==
  ASSUME IInv, Kept, Retention # 0, NEW q \in Runs, saved[q] # {}, id[q] \notin sessions
  PROVE  Old(id[q])
<1> USE DEF IInv
<1>1. PICK w \in saved[q]: TRUE
  OBVIOUS
<1>2. id[q] \in Ids
  BY DEF Places
<1>3. Record(q, w) \notin entries
  <2>1. Record(q, w).id = id[q] /\ Record(q, w).target = w[1]
    BY DEF Record
  <2>2. \A e \in entries: e.id \in sessions
    BY DEF TypeOK
  <2> QED BY <2>1, <2>2
<1>4. id[q].at + Retention * Day <= clock
  BY <1>1, <1>3 DEF Kept, SavedIsKept, Record, Expired
<1> QED BY <1>2, <1>4, Constants DEF Old, Ids, TypeOK

\* The reservation of a run that saved is kept for a day.
LEMMA StepSpentReserved ==
  ASSUME IInv, Spent, [Next]_vars, NEW q \in Runs, saved'[q] # {}
  PROVE  id'[q] \in reservations' \/ Old(id[q])'
<1> USE DEF IInv
<1>1. Live(q)' => id'[q] \in reservations' \/ Old(id[q])'
  <2>1. id'[q] # NoId
    BY StepPlaces DEF Places, Ids, NoId
  <2> QED BY <2>1, StepHeld DEF Held
<1>2. saved[q] # {} \/ SaveCommit(q)
  BY OthersKeepSaved DEF SaveCommit, TypeOK
<1>3. SaveCommit(q) => Live(q)'
  BY DEF SaveCommit, NextItem, Goto, Live, Ended, TypeOK
<1>4. ASSUME saved[q] # {}
      PROVE  id'[q] \in reservations' \/ Old(id[q])'
  <2>1. id[q] \in Ids /\ (id[q] \in reservations \/ Old(id[q]))
    BY <1>4 DEF Spent, Places
  <2>2. CASE UNCHANGED <<clock, reservations, id>>
    BY <2>1, <2>2 DEF Old
  <2>3. CASE Tick
    <3>1. UNCHANGED <<reservations, id>>
      BY <2>3 DEF Tick, store, local
    <3>2. Old(id[q]) => Old(id[q])'
      BY <2>1, <3>1, ClockGrows, Constants DEF Old, Ids
    <3> QED BY <2>1, <3>1, <3>2
  <2>4. ASSUME NEW r \in Runs, CleanRelease(r)
        PROVE  id'[q] \in reservations' \/ Old(id[q])'
    <3>1. Old(First(expired[r]))
      BY <2>4 DEF CleanRelease, Times
    <3>2. UNCHANGED <<clock, id>> /\ reservations' = reservations \ {First(expired[r])}
      BY <2>4 DEF CleanRelease, local
    <3> QED BY <2>1, <3>1, <3>2 DEF Old
  <2>5. ASSUME NEW r \in Runs, Reserve(r)
        PROVE  id'[q] \in reservations' \/ Old(id[q])'
    <3>1. q # r
      BY <2>5, <1>4 DEF Reserve, Places, BeforeId, Ids, NoId
    <3>2. id'[q] = id[q] /\ clock' = clock /\ reservations \subseteq reservations'
      BY <2>5, <3>1 DEF Reserve, TypeOK
    <3> QED BY <2>1, <3>2 DEF Old
  <2>6. ASSUME NEW r \in Runs, FinishRelease(r)
        PROVE  id'[q] \in reservations' \/ Old(id[q])'
    <3>1. UNCHANGED <<clock, id>> /\ reservations' = reservations \ {id[r]} /\ pc[r] = "return"
      BY <2>6 DEF FinishRelease, local
    <3>2. CASE q = r
      BY <1>4, <3>1, <3>2 DEF Spent, Old
    <3>3. CASE q # r
      <4>1. Live(r) /\ id[r] # NoId
        BY <3>1 DEF Live, Ended, Places, WithId, Ids, NoId
      <4>2. id[q] # id[r]
        BY <1>4, <3>3, <4>1 DEF Spent
      <4> QED BY <2>1, <3>1, <4>2 DEF Old
    <3> QED BY <3>2, <3>3
  <2> QED BY <2>2, <2>3, <2>4, <2>5, <2>6, OthersKeep
<1> QED BY <1>1, <1>2, <1>3, <1>4

\* A run that reserves finds the IDs of all that have saved taken.
LEMMA StepSpentDiffers ==
  ASSUME IInv, Spent, [Next]_vars, NEW p \in Runs, NEW q \in Runs, p # q,
         saved'[p] # {}, Live(q)', id'[q] # NoId
  PROVE  id'[p] # id'[q]
<1> USE DEF IInv
<1>1. Live(q)
  BY EndedStays
<1>2. ASSUME NEW r \in Runs, SaveCommit(r)
      PROVE  id'[p] # id'[q]
  <2>1. UNCHANGED id /\ (saved[p] # {} \/ p = r) /\ Live(r)
    BY <1>2 DEF SaveCommit, TypeOK, Live, Ended
  <2>2. p = r => id[p] # NoId
    BY <1>2 DEF SaveCommit, Places, WithId, Ids, NoId
  <2>3. CASE p = r
    BY <1>1, <2>1, <2>2, <2>3 DEF RunningIdsDiffer, Live
  <2>4. CASE saved[p] # {}
    BY <1>1, <2>1, <2>4 DEF Spent
  <2> QED BY <2>1, <2>3, <2>4
<1>3. ASSUME saved' = saved, id' = id
      PROVE  id'[p] # id'[q]
  BY <1>1, <1>3 DEF Spent
<1>4. ASSUME NEW r \in Runs, Reserve(r), id' # id
      PROVE  id'[p] # id'[q]
  <2>1. PICK s \in Ids: s \notin reservations /\ ~Old(s) /\ id' = [id EXCEPT ![r] = s]
    BY <1>4, ReserveIsNew
  <2>2. id'[r] = s /\ \A x \in Runs \ {r}: id'[x] = id[x]
    BY <2>1 DEF TypeOK
  <2>3. saved' = saved
    BY <1>4 DEF Reserve
  <2>4. saved[r] = {}
    BY <1>4 DEF Reserve, Places, BeforeId, Ids, NoId
  <2>5. p # r /\ id[p] # s
    BY <2>1, <2>3, <2>4 DEF Spent
  <2>6. CASE q = r
    BY <2>2, <2>5, <2>6
  <2>7. CASE q # r
    BY <1>1, <2>2, <2>3, <2>5, <2>7 DEF Spent
  <2> QED BY <2>6, <2>7
<1>5. id' = id \/ \E r \in Runs: Reserve(r)
  BY OthersKeep DEF Tick, CleanRelease, FinishRelease, local
<1>6. \A r \in Runs: Reserve(r) => saved' = saved
  BY DEF Reserve
<1> QED BY <1>2, <1>3, <1>4, <1>5, <1>6, OthersKeepSaved

LEMMA StepSpent ==
  ASSUME Retention # 0, IInv, Kept, Spent, [Next]_vars
  PROVE  Spent'
<1> USE DEF IInv
<1>1. ASSUME NEW r \in Runs, saved'[r] # {}
      PROVE  id'[r] \in reservations' \/ Old(id[r])'
  BY <1>1, StepSpentReserved
<1>2. ASSUME NEW p \in Runs, NEW q \in Runs, p # q, saved'[p] # {}, Live(q)', id'[q] # NoId
      PROVE  id'[p] # id'[q]
  BY <1>2, StepSpentDiffers
<1>3. ASSUME NEW q \in Runs, pc'[q] = "return", saved'[q] # {}
      PROVE  Old(id[q])'
  <2>1. CASE FinishCheck(q)
    <3>1. UNCHANGED <<clock, id, saved>>
      BY <2>1 DEF FinishCheck, local
    <3>2. pc[q] = "unlist" /\ id[q] \notin sessions
      BY <2>1, <1>3 DEF FinishCheck, InStore, Goto, TypeOK
    <3>3. Old(id[q])
      BY <1>3, <3>1, <3>2, GoneIsOld
    <3> QED BY <3>1, <3>3 DEF Old
  <2>2. CASE pc[q] = "return"
    <3>1. saved'[q] = saved[q]
      BY <2>2, OthersKeepSaved DEF SaveCommit, TypeOK
    <3>2. id[q] \in Ids /\ Old(id[q])
      BY <1>3, <2>2, <3>1 DEF Spent, Places
    <3>3. id'[q] = id[q]
      BY <2>2, OthersKeep DEF Tick, CleanRelease, Reserve, FinishRelease, TypeOK, local
    <3> QED BY <3>2, <3>3, ClockGrows, Constants DEF Old, Ids
  <2> QED BY <1>3, <2>1, <2>2, OthersDoNotReturn
<1>4. ASSUME NEW p \in Runs, NEW q \in Runs, p # q, saved'[p] # {}, saved'[q] # {}
      PROVE  id'[p] # id'[q]
  <2>1. CASE saved' = saved
    <3>1. \A r \in Runs: Reserve(r) => r # p /\ r # q
      BY <1>4, <2>1 DEF Reserve, Places, BeforeId, Ids, NoId
    <3>2. id'[p] = id[p] /\ id'[q] = id[q]
      BY <3>1, OthersKeep DEF Tick, CleanRelease, Reserve, FinishRelease, TypeOK, local
    <3> QED BY <1>4, <2>1, <3>2 DEF Spent, IdsAreNeverReused
  <2>2. ASSUME NEW r \in Runs, SaveCommit(r)
        PROVE  id'[p] # id'[q]
    <3>1. Live(r)' /\ id'[r] # NoId
      BY <2>2 DEF SaveCommit, NextItem, Goto, Live, Ended, Places, WithId, Ids, NoId, TypeOK
    <3>2. CASE p = r
      BY <1>2, <1>4, <3>1, <3>2
    <3>3. CASE q = r
      BY <1>2, <1>4, <3>1, <3>3
    <3>4. CASE p # r /\ q # r
      <4>1. UNCHANGED id /\ saved'[p] = saved[p] /\ saved'[q] = saved[q]
        BY <2>2, <3>4 DEF SaveCommit, TypeOK
      <4> QED BY <1>4, <4>1 DEF Spent, IdsAreNeverReused
    <3> QED BY <3>2, <3>3, <3>4
  <2> QED BY <2>1, <2>2, OthersKeepSaved
<1>5. IdsAreNeverReused'
  BY <1>4 DEF IdsAreNeverReused
<1> QED BY <1>1, <1>2, <1>3, <1>5 DEF Spent

\* REQ-backup-023: with a retention of a day or more, two runs never report
\* backups under the same ID, whichever are killed and however long they take.
THEOREM NeverReused == Retention # 0 => (Spec => []IdsAreNeverReused)
<1> SUFFICES ASSUME Retention # 0 PROVE Spec => []IdsAreNeverReused
  OBVIOUS
<1>1. Spent /\ IInv /\ Kept /\ [Next]_vars => Spent'
  BY StepSpent
<1>2. Spent => IdsAreNeverReused
  BY DEF Spent
<1> QED BY InitSpent, Invariant, KeptInvariant, <1>1, <1>2, PTL DEF Spec

----------------------------------------------------------------------------
(***************************************************************************)
(* IDs are in the order of the reservations.                               *)
(***************************************************************************)
Ordered ==
  /\ LaterIsNewer
  /\ \A s \in reservations: s.at <= clock
  /\ \A r \in Runs: pc[r] = "mkdir" => \A s \in known[r]: s.at <= at[r]

LEMMA InitOrdered == Init => Ordered
BY DEF Init, Ordered, LaterIsNewer

\* Only the two steps of a reservation change what is known or go there.
LEMMA OthersKeepKnown ==
  ASSUME TypeOK, [Next]_vars
  PROVE  \/ UNCHANGED <<known, id, at>> /\ \A q \in Runs: pc'[q] = "mkdir" => pc[q] = "mkdir"
         \/ \E r \in Runs: ReserveList(r) \/ Reserve(r)
<1> USE DEF store, work, local, TypeOK
<1>1. CASE Tick \/ UNCHANGED vars
  BY <1>1 DEF Tick, vars
<1>2. ASSUME NEW r \in Runs, Begin(r) \/ Start(r) \/ CleanEntry(r) \/ CleanArea(r) \/ CleanList(r)
                             \/ CleanSession(r) \/ CleanRelease(r) \/ CleanDone(r)
  PROVE UNCHANGED <<known, id, at>> /\ \A q \in Runs: pc'[q] = "mkdir" => pc[q] = "mkdir"
  BY <1>2 DEF Begin, Start, CleanEntry, CleanArea, IsRemoving, CleanList, CleanSession, CleanRelease,
    CleanDone, CleanNext, AfterCleaning, Goto
<1>3. ASSUME NEW r \in Runs, Prepare(r) \/ Prepared(r) \/ Exhausted(r) \/ CannotStart(r) \/ Crash(r)
  PROVE UNCHANGED <<known, id, at>> /\ \A q \in Runs: pc'[q] = "mkdir" => pc[q] = "mkdir"
  BY <1>3 DEF Prepare, Prepared, Exhausted, CannotStart, Crash, Goto
<1>4. ASSUME NEW r \in Runs, SaveBegin(r) \/ SaveNothing(r) \/ SaveCommit(r) \/ SaveFails(r)
                             \/ FinishAreas(r) \/ FinishSession(r) \/ FinishCheck(r) \/ FinishRelease(r)
  PROVE UNCHANGED <<known, id, at>> /\ \A q \in Runs: pc'[q] = "mkdir" => pc[q] = "mkdir"
  BY <1>4 DEF SaveBegin, SaveNothing, SaveCommit, SaveFails, FinishAreas, FinishSession,
    FinishCheck, FinishRelease, NextItem, Goto
<1> QED BY <1>1, <1>2, <1>3, <1>4 DEF Next, Progress, AllEnded

LEMMA StepOrdered == 
  ASSUME IInv, Ordered, [Next]_vars
  PROVE  Ordered'
<1> USE DEF IInv
<1>1. \A s \in reservations': s.at <= clock'
  <2>1. clock \in Nat /\ clock' \in Nat /\ clock <= clock'
    BY ClockGrows
  <2>2. \A s \in reservations: s.at \in Nat /\ s.at <= clock'
    BY <2>1 DEF Ordered, TypeOK, Ids
  <2>3. CASE reservations' \subseteq reservations
    BY <2>2, <2>3
  <2>4. ASSUME NEW r \in Runs, Reserve(r), reservations' # reservations
        PROVE  \A s \in reservations': s.at <= clock'
    <3>1. PICK s \in Ids: reservations' = reservations \cup {s} /\ s.at = at[r]
      BY <2>4, ReserveIsNew
    <3>2. at[r] <= clock' /\ at[r] \in Nat
      BY <2>1 DEF Times, TypeOK
    <3> QED BY <2>2, <3>1, <3>2
  <2>5. reservations' \subseteq reservations \/ \E r \in Runs: Reserve(r)
    BY OthersKeep DEF Tick, CleanRelease, FinishRelease, store
  <2> QED BY <2>3, <2>4, <2>5
<1>2. CASE UNCHANGED <<known, id, at>> /\ \A q \in Runs: pc'[q] = "mkdir" => pc[q] = "mkdir"
  BY <1>1, <1>2 DEF Ordered, LaterIsNewer
<1>3. ASSUME NEW r \in Runs, ReserveList(r)
      PROVE  Ordered'
  <2>1. /\ known' = [known EXCEPT ![r] = reservations] /\ at' = [at EXCEPT ![r] = clock]
        /\ pc' = [pc EXCEPT ![r] = "mkdir"] /\ id' = id
    BY <1>3 DEF ReserveList, ReservedAt, Goto
  <2>2. id[r] = NoId
    BY <1>3 DEF ReserveList, Places, BeforeId
  <2>3. LaterIsNewer'
    BY <2>1, <2>2 DEF Ordered, LaterIsNewer, TypeOK
  <2>4. \A q \in Runs: pc'[q] = "mkdir" => \A s \in known'[q]: s.at <= at'[q]
    BY <2>1 DEF Ordered, TypeOK
  <2> QED BY <1>1, <2>3, <2>4 DEF Ordered
<1>4. ASSUME NEW r \in Runs, Reserve(r), UNCHANGED <<reservations, id, pc, left>>
      PROVE  Ordered'
  <2>1. PICK n \in 1..MaxSeq: known' = known \/
          known' = [known EXCEPT ![r] = @ \cup {[at |-> at[r], seq |-> n]}]
    BY <1>4 DEF Reserve, Learn
  <2>2. at' = at /\ at[r] \in Nat
    BY <1>4 DEF Reserve, TypeOK
  <2>3. id[r] = NoId
    BY <1>4 DEF Reserve, Places, BeforeId
  <2>4. LaterIsNewer'
    BY <1>4, <2>1, <2>3 DEF Ordered, LaterIsNewer, TypeOK
  <2>5. \A q \in Runs: pc'[q] = "mkdir" => \A s \in known'[q]: s.at <= at'[q]
    BY <1>4, <2>1, <2>2 DEF Ordered, TypeOK
  <2> QED BY <1>1, <2>4, <2>5 DEF Ordered
<1>5. ASSUME NEW r \in Runs, Reserve(r), ~UNCHANGED <<reservations, id, pc, left>>
      PROVE  Ordered'
  <2>1. PICK s \in Ids: /\ id' = [id EXCEPT ![r] = s] /\ known' = known
                        /\ s.at = at[r] /\ IsNextSeq(r, s.seq)
    BY <1>5, ReserveIsNew
  <2>2. \A x \in known[r]: Older(x, s)
    <3>1. ASSUME NEW x \in known[r] PROVE Older(x, s)
      <4>1. x.at <= at[r] /\ x.at \in Nat /\ at[r] \in Nat
        BY <1>5, <3>1 DEF Reserve, Ordered, TypeOK, Ids
      <4>2. x.at = at[r] => x.seq < s.seq
        BY <2>1, <3>1 DEF IsNextSeq
      <4> QED BY <2>1, <4>1, <4>2 DEF Older
    <3> QED BY <3>1
  <2>3. LaterIsNewer'
    BY <2>1, <2>2 DEF Ordered, LaterIsNewer, TypeOK
  <2>4. \A q \in Runs: pc'[q] = "mkdir" => pc[q] = "mkdir"
    BY <1>5 DEF Reserve, Goto, TypeOK
  <2>5. at' = at
    BY <1>5 DEF Reserve
  <2> QED BY <1>1, <2>1, <2>3, <2>4, <2>5 DEF Ordered
<1> QED BY <1>2, <1>3, <1>4, <1>5, OthersKeepKnown

\* REQ-backup-022: a new ID is after every ID that was in the store when its run
\* began to reserve, so the last session is the newest.
THEOREM LaterIsNewerHolds == Spec => []LaterIsNewer
<1>1. IInv /\ Ordered /\ [Next]_vars => Ordered'
  BY StepOrdered
<1>2. Ordered => LaterIsNewer
  BY DEF Ordered
<1> QED BY InitOrdered, Invariant, <1>1, <1>2, PTL DEF Spec

----------------------------------------------------------------------------
(***************************************************************************)
(* A session has its reservation, unless its run goes on for a day: then a *)
(* cleanup gives the ID up while the run still saves under it.             *)
(***************************************************************************)
Guarded ==
  /\ SessionsAreReserved
  /\ \A r \in Runs: (Live(r) /\ id[r] # NoId) => clock < id[r].at + Day
  /\ \A r \in Runs: pc[r] = "release" => First(expired[r]) \notin sessions
  /\ \A r \in Runs: pc[r] = "return" => id[r] \notin sessions

LEMMA InitGuarded == Init => Guarded
BY DEF Init, Guarded, SessionsAreReserved, NoId

\* Sessions appear only under the ID of a run that is under way.
LEMMA SessionsGrow ==
  ASSUME TypeOK, [Next]_vars
  PROVE  \/ sessions' \subseteq sessions
         \/ \E r \in Runs: /\ Prepare(r) \/ SaveBegin(r)
                           /\ sessions' = sessions \cup {id[r]}
                           /\ UNCHANGED <<clock, reservations, id, expired>>
<1> USE DEF store, work, local
<1>1. CASE Tick \/ UNCHANGED vars
  BY <1>1 DEF Tick, vars
<1>2. ASSUME NEW r \in Runs, Begin(r) \/ Start(r) \/ CleanEntry(r) \/ CleanArea(r) \/ CleanList(r)
                             \/ CleanSession(r) \/ CleanRelease(r) \/ CleanDone(r)
  PROVE sessions' \subseteq sessions
  BY <1>2 DEF Begin, Start, CleanEntry, CleanArea, CleanList, CleanSession, CleanRelease, CleanDone
<1>3. ASSUME NEW r \in Runs, ReserveList(r) \/ Reserve(r) \/ Prepared(r) \/ Exhausted(r)
                             \/ CannotStart(r) \/ Crash(r)
  PROVE sessions' \subseteq sessions
  BY <1>3 DEF ReserveList, Reserve, Prepared, Exhausted, CannotStart, Crash
<1>4. ASSUME NEW r \in Runs, SaveNothing(r) \/ SaveCommit(r) \/ SaveFails(r)
                             \/ FinishAreas(r) \/ FinishSession(r) \/ FinishCheck(r) \/ FinishRelease(r)
  PROVE sessions' \subseteq sessions
  BY <1>4 DEF SaveNothing, SaveCommit, SaveFails, FinishAreas, FinishSession, FinishCheck, FinishRelease
<1>5. ASSUME NEW r \in Runs, Prepare(r) \/ SaveBegin(r)
  PROVE \/ sessions' \subseteq sessions
        \/ sessions' = sessions \cup {id[r]} /\ UNCHANGED <<clock, reservations, id, expired>>
  BY <1>5 DEF Prepare, SaveBegin
<1> QED BY <1>1, <1>2, <1>3, <1>4, <1>5 DEF Next, Progress, AllEnded

\* Only CleanSession sends a cleanup to give a reservation up, and it stays with
\* the session it removed.
LEMMA OthersDoNotRelease ==
  ASSUME TypeOK, [Next]_vars, NEW q \in Runs, pc'[q] = "release"
  PROVE  \/ pc[q] = "release" /\ expired'[q] = expired[q]
         \/ CleanSession(q)
<1> USE DEF store, work, local, TypeOK
<1>1. CASE Tick \/ UNCHANGED vars
  BY <1>1 DEF Tick, vars
<1>2. ASSUME NEW r \in Runs, Begin(r) \/ Start(r) \/ CleanEntry(r) \/ CleanArea(r) \/ CleanList(r)
                             \/ CleanRelease(r) \/ CleanDone(r)
  PROVE pc[q] = "release" /\ expired'[q] = expired[q]
  BY <1>2 DEF Begin, Start, CleanEntry, CleanArea, IsRemoving, CleanList, CleanRelease,
    CleanDone, CleanNext, AfterCleaning, Goto
<1>3. ASSUME NEW r \in Runs, ReserveList(r) \/ Reserve(r) \/ Prepare(r) \/ Prepared(r) \/ Exhausted(r)
                             \/ CannotStart(r) \/ Crash(r)
  PROVE pc[q] = "release" /\ expired'[q] = expired[q]
  BY <1>3 DEF ReserveList, Reserve, Prepare, Prepared, Exhausted, CannotStart, Crash, Goto
<1>4. ASSUME NEW r \in Runs, SaveBegin(r) \/ SaveNothing(r) \/ SaveCommit(r) \/ SaveFails(r)
                             \/ FinishAreas(r) \/ FinishSession(r) \/ FinishCheck(r) \/ FinishRelease(r)
  PROVE pc[q] = "release" /\ expired'[q] = expired[q]
  BY <1>4 DEF SaveBegin, SaveNothing, SaveCommit, SaveFails, FinishAreas, FinishSession,
    FinishCheck, FinishRelease, NextItem, Goto
<1>5. ASSUME NEW r \in Runs, CleanSession(r)
  PROVE (pc[q] = "release" /\ expired'[q] = expired[q]) \/ CleanSession(q)
  BY <1>5 DEF CleanSession, CleanNext, Goto
<1> QED BY <1>1, <1>2, <1>3, <1>4, <1>5 DEF Next, Progress, AllEnded

\* A run keeps its ID until a day has passed.
LEMMA StepInTime ==
  ASSUME ~LongRuns, IInv, Guarded, [Next]_vars, NEW q \in Runs, Live(q)', id'[q] # NoId
  PROVE  clock' < id'[q].at + Day
<1> USE DEF IInv
<1>1. Live(q)
  BY EndedStays
<1>2. CASE UNCHANGED <<clock, id>>
  BY <1>1, <1>2 DEF Guarded
<1>3. CASE Tick
  BY <1>1, <1>3 DEF Tick, InTime, Live, local
<1>4. ASSUME NEW r \in Runs, Reserve(r), id' # id
      PROVE  clock' < id'[q].at + Day
  <2>1. PICK s \in Ids: id' = [id EXCEPT ![r] = s] /\ clock' = clock /\ s.at = at[r]
    BY <1>4, ReserveIsNew
  <2>2. clock < at[r] + Day
    BY <1>4 DEF Reserve, Times
  <2>3. CASE q = r
    BY <2>1, <2>2, <2>3 DEF TypeOK
  <2>4. CASE q # r
    BY <1>1, <2>1, <2>4 DEF TypeOK, Guarded
  <2> QED BY <2>3, <2>4
<1>5. ASSUME NEW r \in Runs, Reserve(r)
      PROVE  clock' = clock
  BY <1>5 DEF Reserve
<1> QED BY <1>2, <1>3, <1>4, <1>5, OthersKeep DEF CleanRelease, FinishRelease, local

\* The ID of a run that is under way is neither old nor free.
LEMMA GuardedIsReserved ==
  ASSUME IInv, Guarded, NEW r \in Runs, Prepare(r) \/ SaveBegin(r)
  PROVE  id[r] \in reservations /\ ~Old(id[r]) /\ Live(r) /\ id[r] # NoId
<1> USE DEF IInv
<1>1. pc[r] \in {"prepare", "save"}
  BY DEF Prepare, SaveBegin
<1>2. Live(r) /\ id[r] \in Ids /\ id[r] # NoId
  BY <1>1 DEF Live, Ended, Places, WithId, Ids, NoId
<1>3. ~Old(id[r])
  BY <1>2, FreshIsNotOld DEF Guarded
<1> QED BY <1>2, <1>3 DEF Held

LEMMA StepSessionsAreReserved ==
  ASSUME IInv, Guarded, [Next]_vars
  PROVE  SessionsAreReserved'
<1>1. CASE sessions' \subseteq sessions
  <2>1. CASE reservations \subseteq reservations'
    BY <1>1, <2>1 DEF Guarded, SessionsAreReserved
  <2>2. ASSUME NEW r \in Runs, CleanRelease(r)
        PROVE  SessionsAreReserved'
    <3>1. reservations' = reservations \ {First(expired[r])} /\ sessions' = sessions
      BY <2>2 DEF CleanRelease
    <3>2. First(expired[r]) \notin sessions
      BY <2>2 DEF CleanRelease, Guarded
    <3> QED BY <3>1, <3>2 DEF Guarded, SessionsAreReserved
  <2>3. ASSUME NEW r \in Runs, FinishRelease(r)
        PROVE  SessionsAreReserved'
    <3>1. reservations' = reservations \ {id[r]} /\ sessions' = sessions
      BY <2>3 DEF FinishRelease
    <3>2. id[r] \notin sessions
      BY <2>3 DEF FinishRelease, Guarded
    <3> QED BY <3>1, <3>2 DEF Guarded, SessionsAreReserved
  <2>4. ASSUME NEW r \in Runs, Reserve(r) PROVE reservations \subseteq reservations'
    BY <2>4 DEF Reserve
  <2> QED BY <2>1, <2>2, <2>3, <2>4, OthersKeep DEF Tick, store, IInv
<1>2. ASSUME NEW r \in Runs, Prepare(r) \/ SaveBegin(r), sessions' = sessions \cup {id[r]},
             UNCHANGED <<clock, reservations, id, expired>>
      PROVE  SessionsAreReserved'
  BY <1>2, GuardedIsReserved DEF Guarded, SessionsAreReserved
<1> QED BY <1>1, <1>2, SessionsGrow DEF IInv

\* The session whose ID is about to be given up does not come back.
LEMMA StepReleased ==
  ASSUME IInv, Guarded, [Next]_vars, NEW q \in Runs, pc'[q] = "release"
  PROVE  First(expired'[q]) \notin sessions'
<1> USE DEF IInv
<1>1. CASE CleanSession(q)
  <2>1. /\ ~HasAreas(First(expired[q]))
        /\ expired' = expired
    BY <1>1 DEF CleanSession, CleanNext, Goto, TypeOK
  <2> QED BY <1>1, <2>1 DEF CleanSession
<1>2. CASE pc[q] = "release" /\ expired'[q] = expired[q]
  <2>1. First(expired[q]) \notin sessions /\ Old(First(expired[q]))
    BY <1>2 DEF Guarded, Times
  <2>2. ASSUME NEW r \in Runs, Prepare(r) \/ SaveBegin(r), sessions' = sessions \cup {id[r]}
        PROVE  First(expired[q]) \notin sessions'
    BY <2>1, <2>2, GuardedIsReserved
  <2> QED BY <1>2, <2>1, <2>2, SessionsGrow
<1> QED BY <1>1, <1>2, OthersDoNotRelease

LEMMA StepReturned ==
  ASSUME IInv, Guarded, [Next]_vars, NEW q \in Runs, pc'[q] = "return"
  PROVE  id'[q] \notin sessions'
<1> USE DEF IInv
<1>1. CASE FinishCheck(q)
  BY <1>1 DEF FinishCheck, InStore, Goto, TypeOK, store, local
<1>2. CASE pc[q] = "return"
  <2>1. id'[q] = id[q]
    BY <1>2, OthersKeep DEF Tick, CleanRelease, Reserve, FinishRelease, TypeOK, local
  <2>2. id[q] \notin sessions /\ Live(q)
    BY <1>2 DEF Guarded, Live, Ended
  <2>3. ASSUME NEW r \in Runs, Prepare(r) \/ SaveBegin(r), sessions' = sessions \cup {id[r]}
        PROVE  id[q] \notin sessions'
    <3>1. r # q
      BY <1>2, <2>3 DEF Prepare, SaveBegin
    <3>2. id[r] # id[q]
      BY <2>2, <2>3, <3>1, GuardedIsReserved DEF RunningIdsDiffer, Live
    <3> QED BY <2>2, <2>3, <3>2
  <2> QED BY <2>1, <2>2, <2>3, SessionsGrow
<1> QED BY <1>1, <1>2, OthersDoNotReturn

\* REQ-backup-047: as long as a run ends within a day after it took its ID, every
\* session in the store has its reservation, so that no other run is given its ID.
THEOREM SessionsAreReservedHolds == ~LongRuns => (Spec => []SessionsAreReserved)
<1> SUFFICES ASSUME ~LongRuns PROVE Spec => []SessionsAreReserved
  OBVIOUS
<1>1. IInv /\ Guarded /\ [Next]_vars => Guarded'
  <2> SUFFICES ASSUME IInv, Guarded, [Next]_vars PROVE Guarded'
    OBVIOUS
  <2>1. ASSUME NEW q \in Runs, Live(q)', id'[q] # NoId PROVE clock' < id'[q].at + Day
    BY <2>1, StepInTime
  <2>2. ASSUME NEW q \in Runs, pc'[q] = "release" PROVE First(expired'[q]) \notin sessions'
    BY <2>2, StepReleased
  <2>3. ASSUME NEW q \in Runs, pc'[q] = "return" PROVE id'[q] \notin sessions'
    BY <2>3, StepReturned
  <2>4. \A q \in Runs: pc'[q] = "release" => (First(expired[q]) \notin sessions)'
    <3>1. ASSUME NEW q \in Runs PROVE First(expired[q])' = First(expired'[q])
      BY DEF First
    <3> QED BY <2>2, <3>1
  <2> QED BY <2>1, <2>3, <2>4, StepSessionsAreReserved DEF Guarded
<1>2. Guarded => SessionsAreReserved
  BY DEF Guarded
<1> QED BY InitGuarded, Invariant, <1>1, <1>2, PTL DEF Spec

----------------------------------------------------------------------------
(***************************************************************************)
(* A run that backed up nothing, and shares its ID with no other run,      *)
(* leaves nothing: nobody else makes anything under its ID, and what it    *)
(* makes itself it takes back, one step after the other.                   *)
(***************************************************************************)
\* Nothing was reported as backed up under the ID of run r.
Alone(r) == id[r] # NoId /\ saved[r] = {} /\ \A q \in Runs \ {r}: id[q] # id[r]

\* What is there under its ID at each place.
Cleared(r) ==
  /\ pc[r] \in {"prepare", "save"} => \A e \in entries: e.id # id[r]
  /\ pc[r] = "saving" => \A e \in entries: e.id = id[r] =>
       e.place = "pending" /\ e.target = First(items[r])[1] /\ e.path = First(items[r])[2]
  /\ pc[r] = "tidy" => ~HasAreas(id[r])
  /\ pc[r] \in {"unlist", "return", "done"} => id[r] \notin sessions
  /\ pc[r] = "done" => id[r] \notin reservations

Traces ==
  /\ \A s \in sessions: \E q \in Runs: id[q] = s
  /\ \A r \in Runs: Alone(r) => Cleared(r)

LEMMA InitTraces == Init => Traces
BY DEF Init, Traces, Alone

\* An ID is never taken back, and nobody shares it later who does not share it now.
LEMMA IdStays ==
  ASSUME IInv, [Next]_vars, NEW r \in Runs, id[r] # NoId
  PROVE  id'[r] = id[r] /\ (Alone(r)' => Alone(r))
<1> USE DEF IInv
<1>1. ASSUME NEW q \in Runs, id[q] # NoId PROVE id'[q] = id[q]
  <2>1. ASSUME NEW p \in Runs, Reserve(p) PROVE id'[q] = id[q]
    <3>1. id[p] = NoId
      BY <2>1 DEF Reserve, Places, BeforeId
    <3> QED BY <1>1, <2>1, <3>1, ReserveIsNew DEF TypeOK
  <2> QED BY <2>1, OthersKeep DEF Tick, CleanRelease, FinishRelease, local
<1>2. saved[r] \subseteq saved'[r]
  BY OthersKeepSaved DEF SaveCommit, TypeOK
<1> QED BY <1>1, <1>2 DEF Alone

\* What another run does leaves everything under the ID of run r to run r.
LEMMA OthersLeaveAlone ==
  ASSUME IInv, NEW r \in Runs, NEW q \in Runs \ {r}, id[r] # NoId, id[q] # id[r], id'[q] # id[r],
         Progress(q) \/ CannotStart(q) \/ Crash(q)
  PROVE  /\ pc'[r] = pc[r] /\ items'[r] = items[r]
         /\ \A e \in entries': e.id = id[r] => \E f \in entries:
              f.id = e.id /\ f.place = e.place /\ f.target = e.target /\ f.path = e.path
         /\ \A a \in areas': a[1] = id[r] => a \in areas
         /\ id[r] \in sessions' => id[r] \in sessions
         /\ id[r] \in reservations' => id[r] \in reservations
<1> USE DEF store, work, local, TypeOK, IInv
<1>1. CASE Begin(q) \/ Start(q) \/ CleanDone(q) \/ ReserveList(q) \/ Prepared(q) \/ Exhausted(q)
           \/ CannotStart(q) \/ Crash(q) \/ SaveNothing(q) \/ FinishCheck(q)
  BY <1>1 DEF Begin, Start, CleanDone, ReserveList, Prepared, Exhausted, CannotStart, Crash,
     SaveNothing, FinishCheck, NextItem, Goto
<1>2. CASE CleanArea(q) \/ CleanList(q) \/ CleanSession(q) \/ CleanRelease(q)
  BY <1>2 DEF CleanArea, CleanList, CleanSession, CleanRelease, CleanNext, Goto
<1>3. CASE FinishSession(q) \/ FinishRelease(q)
  BY <1>3 DEF FinishSession, FinishRelease, Goto
<1>4. CASE FinishAreas(q)
  BY <1>4 DEF FinishAreas, Goto
<1>5. CASE CleanEntry(q)
  <2>1. PICK e \in entries: entries' = (entries \ {e}) \cup
                              (IF e.whole THEN {[e EXCEPT !.whole = FALSE]} ELSE {})
    BY <1>5 DEF CleanEntry
  <2>2. /\ [e EXCEPT !.whole = FALSE].id = e.id /\ [e EXCEPT !.whole = FALSE].target = e.target
        /\ [e EXCEPT !.whole = FALSE].path = e.path /\ [e EXCEPT !.whole = FALSE].place = e.place
    BY <2>1 DEF Entry
  <2> QED BY <1>5, <2>1, <2>2 DEF CleanEntry
<1>6. CASE Reserve(q)
  <2>1. PICK n \in 1..MaxSeq:
          LET s == [at |-> at[q], seq |-> n] IN
          IF Taken(s)
          THEN UNCHANGED <<reservations, id, pc, left>>
          ELSE /\ reservations' = reservations \cup {s}
               /\ id' = [id EXCEPT ![q] = s]
               /\ Goto(q, "prepare")
    BY <1>6 DEF Reserve
  <2> QED BY <1>6, <2>1 DEF Reserve, Goto
<1>7. CASE Prepare(q)
  BY <1>7 DEF Prepare
<1>8. CASE SaveBegin(q)
  <2> DEFINE w == First(items[q])
  <2>1. /\ sessions' = sessions \cup {id[q]} /\ areas' = areas \cup {<<id[q], w[1]>>}
        /\ entries' = entries \cup {NewEntry(q, w)} /\ NewEntry(q, w).id = id[q]
    BY <1>8 DEF SaveBegin, NewEntry
  <2> QED BY <1>8, <2>1 DEF SaveBegin, Goto
<1>9. CASE SaveCommit(q)
  <2>1. PICK e \in entries: e.id = id[q] /\ entries' = (entries \ {e}) \cup {[e EXCEPT !.place = "records"]}
    BY <1>9 DEF SaveCommit, Temporary
  <2>2. [e EXCEPT !.place = "records"].id = e.id
    BY <2>1 DEF Entry
  <2> QED BY <1>9, <2>1, <2>2 DEF SaveCommit, NextItem, Goto
<1>10. CASE SaveFails(q)
  BY <1>10 DEF SaveFails, NextItem, Goto
<1> QED BY <1>1, <1>2, <1>3, <1>4, <1>5, <1>6, <1>7, <1>8, <1>9, <1>10 DEF Progress

\* What run r does takes back what it made.
LEMMA OwnStepClears ==
  ASSUME IInv, Traces, NEW r \in Runs, Alone(r), Alone(r)', id'[r] = id[r],
         Progress(r) \/ CannotStart(r) \/ Crash(r)
  PROVE  Cleared(r)'
<1> USE DEF store, work, local, IInv
<1>0. Cleared(r)
  BY DEF Traces
<1>1. pc[r] \notin BeforeId
  BY DEF Places, Alone
<1>2. ~(Begin(r) \/ Start(r) \/ CleanEntry(r) \/ CleanArea(r) \/ CleanList(r) \/ CleanSession(r)
        \/ CleanRelease(r) \/ CleanDone(r) \/ ReserveList(r) \/ Reserve(r) \/ Exhausted(r))
  BY <1>1 DEF BeforeId, Begin, Start, CleanEntry, CleanArea, IsRemoving, CleanList, CleanSession,
     CleanRelease, CleanDone, ReserveList, Reserve, Exhausted
<1>3. CASE CannotStart(r) \/ Crash(r)
  BY <1>3 DEF CannotStart, Crash, Goto, Cleared, TypeOK
<1>4. CASE Prepare(r) \/ Prepared(r) \/ SaveNothing(r)
  BY <1>0, <1>4 DEF Prepare, Prepared, SaveNothing, NextItem, Goto, Cleared, TypeOK
<1>5. CASE SaveBegin(r)
  <2> DEFINE w == First(items[r])
  <2>1. /\ pc[r] = "save" /\ pc' = [pc EXCEPT ![r] = "saving"] /\ items' = items
        /\ entries' = entries \cup {NewEntry(r, w)}
    BY <1>5 DEF SaveBegin, Goto
  <2>2. NewEntry(r, w).place = "pending" /\ NewEntry(r, w).target = w[1] /\ NewEntry(r, w).path = w[2]
    BY DEF NewEntry
  <2>3. \A e \in entries: e.id # id[r]
    BY <1>0, <2>1 DEF Cleared
  <2>4. First(items[r])' = w
    BY <2>1 DEF First
  <2> QED BY <2>1, <2>2, <2>3, <2>4 DEF Cleared, TypeOK
<1>6. CASE SaveCommit(r)
  BY <1>6 DEF SaveCommit, Alone, TypeOK
<1>7. CASE SaveFails(r)
  <2>1. \A e \in entries: e.id = id[r] => e \in Temporary(r, First(items[r]))
    BY <1>0, <1>7 DEF SaveFails, Cleared, Temporary
  <2> QED BY <1>7, <2>1 DEF SaveFails, NextItem, Goto, Cleared, TypeOK
<1>8. CASE FinishAreas(r)
  <2>1. \A e \in entries: e.id # id[r]
    BY <1>0, <1>8 DEF FinishAreas, Cleared
  <2>2. \A a \in areas: a[1] = id[r] => a \in EmptyAreas(id[r])
    BY <2>1 DEF EmptyAreas, TypeOK
  <2>3. \A a \in areas': a[1] # id[r]
    BY <1>8, <2>2 DEF FinishAreas, Tidied
  <2> QED BY <1>8, <2>3 DEF FinishAreas, Goto, Cleared, HasAreas, TypeOK
<1>9. CASE FinishSession(r)
  BY <1>0, <1>9 DEF FinishSession, Goto, Cleared, TypeOK
<1>10. CASE FinishCheck(r)
  BY <1>0, <1>10 DEF FinishCheck, InStore, Goto, Cleared, TypeOK
<1>11. CASE FinishRelease(r)
  BY <1>0, <1>11 DEF FinishRelease, Goto, Cleared, TypeOK
<1> QED BY <1>2, <1>3, <1>4, <1>5, <1>6, <1>7, <1>8, <1>9, <1>10, <1>11 DEF Progress

LEMMA StepTraces ==
  ASSUME IInv, Traces, [Next]_vars
  PROVE  Traces'
<1> USE DEF IInv
<1>1. \A r \in Runs: id[r] # NoId => id'[r] = id[r] /\ (Alone(r)' => Alone(r))
  BY IdStays
<1>2. \A s \in sessions': \E q \in Runs: id'[q] = s
  <2>1. \A s \in sessions: \E q \in Runs: id'[q] = s
    <3>1. \A s \in sessions: s # NoId
      BY DEF TypeOK, Ids, NoId
    <3> QED BY <1>1, <3>1 DEF Traces
  <2> QED BY <2>1, SessionsGrow
<1>3. ASSUME NEW r \in Runs, Alone(r)'
      PROVE  Cleared(r)'
  <2>1. CASE id[r] = NoId
    <3>1. PICK p \in Runs: Reserve(p) /\ id' # id
      BY <1>3, <2>1, OthersKeep DEF Alone, Tick, CleanRelease, FinishRelease, local
    <3>2. PICK s \in Ids: id' = [id EXCEPT ![p] = s] /\ s # NoId
      BY <3>1, ReserveIsNew
    <3>3. p = r /\ id'[r] = s /\ \A q \in Runs \ {r}: id'[q] = id[q]
      BY <1>3, <2>1, <3>2 DEF Alone, TypeOK
    <3>4. UNCHANGED entries /\ pc'[r] = "prepare"
      BY <3>1, <3>3 DEF Reserve, Goto, TypeOK
    <3>5. s \notin sessions
      BY <1>3, <2>1, <3>2, <3>3 DEF Traces, Alone
    <3>6. \A e \in entries: e.id \in sessions
      BY DEF TypeOK
    <3> QED BY <3>3, <3>4, <3>5, <3>6 DEF Cleared
  <2>2. CASE id[r] # NoId
    <3>0. id'[r] = id[r] /\ Alone(r) /\ Cleared(r)
      BY <1>1, <1>3, <2>2 DEF Traces
    <3>1. CASE Tick \/ UNCHANGED vars
      <4>1. UNCHANGED <<store, pc, work, local>>
        BY <3>1 DEF Tick, vars
      <4> QED BY <3>0, <4>1 DEF Cleared, HasAreas, store, work, local
    <3>2. CASE Progress(r) \/ CannotStart(r) \/ Crash(r)
      BY <1>3, <3>0, <3>2, OwnStepClears
    <3>3. ASSUME NEW q \in Runs \ {r}, Progress(q) \/ CannotStart(q) \/ Crash(q)
          PROVE  Cleared(r)'
      <4>1. id[q] # id[r] /\ id'[q] # id[r]
        BY <1>3, <3>0 DEF Alone
      <4>2. /\ pc'[r] = pc[r] /\ items'[r] = items[r]
            /\ \A e \in entries': e.id = id[r] => \E f \in entries:
                 f.id = e.id /\ f.place = e.place /\ f.target = e.target /\ f.path = e.path
            /\ \A a \in areas': a[1] = id[r] => a \in areas
            /\ id[r] \in sessions' => id[r] \in sessions
            /\ id[r] \in reservations' => id[r] \in reservations
        BY <2>2, <3>3, <4>1, OthersLeaveAlone
      <4>3. First(items[r])' = First(items[r])
        BY <4>2 DEF First
      <4> QED BY <3>0, <4>2, <4>3 DEF Cleared, HasAreas
    <3> QED BY <3>1, <3>2, <3>3 DEF Next, AllEnded
  <2> QED BY <2>1, <2>2
<1> QED BY <1>2, <1>3 DEF Traces

\* REQ-backup-015: a run that ended normally and backed up nothing leaves neither a
\* session nor a reservation under an ID that is its own (finish_session).
THEOREM NothingIsLeftHolds == Spec => []NothingIsLeft
<1>1. IInv /\ Traces /\ [Next]_vars => Traces'
  BY StepTraces
<1>2. Traces => NothingIsLeft
  BY DEF Traces, NothingIsLeft, Alone, Cleared
<1> QED BY InitTraces, Invariant, <1>1, <1>2, PTL DEF Spec
=============================================================================
