---------------------------- MODULE BackupStore ----------------------------
(***************************************************************************)
(* The backup store of one user: a directory tree that every merge, sync   *)
(* and rollback of that user shares (backup_store.rs, its cleanup, and the *)
(* order cli/plan_apply.rs and runtime/core_backup.rs call them in).       *)
(* A run removes what has expired, reserves a session ID, makes an area    *)
(* for each destination, saves entries into it and tidies up.  Runs share  *)
(* nothing but the file system, take their steps in any order, and may be  *)
(* killed between any two of them.                                         *)
(***************************************************************************)
EXTENDS Naturals, FiniteSets

CONSTANTS
  Runs,        \* processes of the command
  Cleans,      \* the runs that remove expired sessions (a rollback does not)
  Targets,     \* destinations
  Configured,  \* Configured[r]: the destinations in the configuration of run r
  Changes,     \* Changes[r]: the <<destination, path>> pairs run r wants to change
  Retention,   \* retention_days
  Day,         \* how many clock units (seconds) make a day
  LastTime,    \* bound: the clock stops here
  MaxSeq,      \* the largest sequence number an ID can have (u64::MAX)
  LongRuns,    \* whether a run may go on for a day after it took its ID
  Crashes      \* the runs that may be killed

ASSUME BackupStoreAssumption ==
  /\ Cleans \subseteq Runs /\ Crashes \subseteq Runs
  /\ Configured \in [Runs -> SUBSET Targets]
  /\ \A r \in Runs: \A w \in Changes[r]: w[1] \in Configured[r]
  /\ Retention \in Nat /\ Day \in Nat \ {0} /\ LastTime \in Nat /\ MaxSeq \in Nat \ {0}
  /\ LongRuns \in BOOLEAN

VARIABLES
  clock,         \* system time
  reservations,  \* the directories below reservations/
  sessions,      \* the directories below sessions/
  areas,         \* <<id, destination>>: the directories below sessions/<id>/
  entries,       \* what the areas hold; "pending" until it is renamed into records/
  pc,            \* pc[r]: where run r is
  expired,       \* expired[r]: the sessions run r has still to clean
  left,          \* left[r]: the destinations whose areas it has still to remove or make
  items,         \* items[r]: the pairs it has still to save
  now,           \* now[r]: when run r began
  id,            \* id[r]: the session ID of run r
  at,            \* at[r]: the time of the ID run r tries to reserve
  known,         \* known[r]: the IDs run r knows to be taken
  saved          \* saved[r]: what run r reported as backed up

store == <<reservations, sessions, areas, entries>>
work == <<expired, left, items>>
local == <<now, id, at, known, saved>>
vars == <<clock, store, pc, work, local>>

Ids == [at : 0..LastTime, seq : 1..MaxSeq]
NoId == [at |-> 0, seq |-> 0]
Items == UNION {Changes[r] : r \in Runs}
Entry == [id : Ids, target : Targets, path : {w[2] : w \in Items},
          place : {"pending", "records"}, whole : BOOLEAN]

\* "done" is a normal end, "stopped" an error of the command, "dead" a kill.
Ended == {"done", "stopped", "dead"}
Pcs == {"start", "wait", "clean", "rmdir", "release", "reserve", "mkdir", "prepare", "save",
        "saving", "tidy", "unlist", "return"} \cup Ended

TypeOK ==
  /\ clock \in 0..LastTime
  /\ reservations \subseteq Ids
  /\ sessions \subseteq Ids
  /\ areas \subseteq sessions \X Targets
  /\ entries \subseteq Entry
  /\ \A e \in entries: <<e.id, e.target>> \in areas
  /\ pc \in [Runs -> Pcs]
  /\ expired \in [Runs -> SUBSET Ids]
  /\ left \in [Runs -> SUBSET Targets]
  /\ items \in [Runs -> SUBSET Items]
  /\ now \in [Runs -> 0..LastTime]
  /\ id \in [Runs -> Ids \cup {NoId}]
  /\ at \in [Runs -> 0..LastTime]
  /\ known \in [Runs -> SUBSET Ids]
  /\ saved \in [Runs -> SUBSET Items]

\* Earlier runs of the same second may have left their reservations.
Init ==
  /\ clock = 0
  /\ reservations \in SUBSET {s \in Ids : s.at = 0}
  /\ sessions = {} /\ areas = {} /\ entries = {}
  /\ pc = [r \in Runs |-> "start"]
  /\ expired = [r \in Runs |-> {}] /\ left = [r \in Runs |-> {}] /\ items = [r \in Runs |-> {}]
  /\ now = [r \in Runs |-> 0]
  /\ id = [r \in Runs |-> NoId]
  /\ at = [r \in Runs |-> 0]
  /\ known = [r \in Runs |-> {}]
  /\ saved = [r \in Runs |-> {}]

Goto(r, p) == pc' = [pc EXCEPT ![r] = p]

\* The order of sessions, destinations and paths is fixed; any one will do.
First(S) == CHOOSE x \in S : TRUE

\* rmdir removes an area only when nothing is in it, a session only when it has
\* no areas.
EmptyAreas(s) == {a \in areas : a[1] = s /\ ~\E e \in entries: <<e.id, e.target>> = a}

HasAreas(s) == \E a \in areas: a[1] = s

\* A run reads the clock when it begins; before it touches the store it
\* compares and asks, which takes as long as the user likes.
Begin(r) ==
  /\ pc[r] = "start"
  /\ now' = [now EXCEPT ![r] = clock]
  /\ Goto(r, "wait")
  /\ UNCHANGED <<clock, store, work, id, at, known, saved>>

----------------------------------------------------------------------------
(***************************************************************************)
(* cleanup_expired: the sessions that have expired are looked at in turn.  *)
(***************************************************************************)
\* is_session_expired.
Expired(s, days, when) == s.at + days * Day <= when

\* A run that has nothing to change cleans all the same; one that does not
\* clean is a rollback, which reserves only when it restores something.
AfterCleaning(r) == IF Changes[r] = {} THEN "done" ELSE "reserve"

Start(r) ==
  /\ pc[r] = "wait"
  /\ IF r \in Cleans
     THEN /\ Goto(r, "clean")
          /\ expired' = [expired EXCEPT ![r] = {s \in sessions : Expired(s, Retention, now[r])}]
          /\ left' = [left EXCEPT ![r] = Configured[r]]
     ELSE Goto(r, AfterCleaning(r)) /\ UNCHANGED <<expired, left>>
  /\ UNCHANGED <<clock, store, items, local>>

\* The area run r is removing, of the session it is cleaning.
Removing(r) == <<First(expired[r]), First(left[r])>>
IsRemoving(r) == pc[r] = "clean" /\ expired[r] # {} /\ left[r] # {}

\* remove_dir_all takes the area of a configured destination apart: one of the
\* two files of a record, then the rest of it, and at last the directories.
CleanEntry(r) ==
  /\ IsRemoving(r)
  /\ \E e \in entries:
       /\ <<e.id, e.target>> = Removing(r)
       /\ entries' = (entries \ {e}) \cup (IF e.whole THEN {[e EXCEPT !.whole = FALSE]} ELSE {})
  /\ UNCHANGED <<clock, reservations, sessions, areas, pc, work, local>>

CleanArea(r) ==
  /\ IsRemoving(r)
  /\ Removing(r) \in areas => Removing(r) \in EmptyAreas(First(expired[r]))
  /\ areas' = areas \ {Removing(r)}
  /\ left' = [left EXCEPT ![r] = @ \ {First(@)}]
  /\ UNCHANGED <<clock, reservations, sessions, entries, pc, expired, items, local>>

\* The session is dealt with; the next one has areas of the same destinations.
CleanNext(r) ==
  /\ expired' = [expired EXCEPT ![r] = @ \ {First(@)}]
  /\ left' = [left EXCEPT ![r] = Configured[r]]
  /\ Goto(r, "clean")

\* read_dir of the session: an empty one is removed, one that is gone or holds
\* areas of other configurations is left as it is.
CleanList(r) ==
  /\ pc[r] = "clean" /\ expired[r] # {} /\ left[r] = {}
  /\ LET s == First(expired[r]) IN
       IF s \in sessions /\ ~HasAreas(s)
       THEN Goto(r, "rmdir") /\ UNCHANGED <<expired, left>>
       ELSE CleanNext(r)
  /\ UNCHANGED <<clock, store, items, local>>

\* A reservation is given up a day after the ID's time at the earliest.
Releasable(s, when) == Expired(s, IF Retention = 0 THEN 1 ELSE Retention, when)

\* rmdir of the session; that another run removed it first is no error, that
\* another run saved into it leaves the session and its reservation.
CleanSession(r) ==
  /\ pc[r] = "rmdir"
  /\ LET s == First(expired[r]) IN
     /\ sessions' = IF HasAreas(s) THEN sessions ELSE sessions \ {s}
     /\ IF ~HasAreas(s) /\ Releasable(s, now[r])
        THEN Goto(r, "release") /\ UNCHANGED <<expired, left>>
        ELSE CleanNext(r)
  /\ UNCHANGED <<clock, reservations, areas, entries, items, local>>

CleanRelease(r) ==
  /\ pc[r] = "release"
  /\ reservations' = reservations \ {First(expired[r])}
  /\ CleanNext(r)
  /\ UNCHANGED <<clock, sessions, areas, entries, items, local>>

CleanDone(r) ==
  /\ pc[r] = "clean" /\ expired[r] = {}
  /\ Goto(r, AfterCleaning(r))
  /\ UNCHANGED <<clock, store, work, local>>

----------------------------------------------------------------------------
(***************************************************************************)
(* reserve_session and prepare_target.                                     *)
(***************************************************************************)
\* (mutant of ReservedAt: the time the command began)
ReservedAtStart(r) == now[r]

\* ReservationTime::now: the time of the reservation, after any confirmation.
ReservedAt(r) == clock

ReserveList(r) ==
  /\ pc[r] = "reserve"
  /\ known' = [known EXCEPT ![r] = reservations]
  /\ at' = [at EXCEPT ![r] = ReservedAt(r)]
  /\ Goto(r, "mkdir")
  /\ UNCHANGED <<clock, store, work, now, id, saved>>

\* next_session_id: n is one more than the largest sequence number known at that
\* time.
IsNextSeq(r, n) ==
  LET taken == {0} \cup {s.seq : s \in {x \in known[r] : x.at = at[r]}}
  IN  n - 1 \in taken /\ \A k \in taken: k < n

\* (mutant of Learn: the ID that turned out to be taken is not remembered)
LearnNothing(r, s) == UNCHANGED known

Learn(r, s) == known' = [known EXCEPT ![r] = @ \cup {s}]

\* (mutant of Taken: as if the directory could be made twice)
TakenNever(s) == FALSE

\* create_dir fails when the directory is there already.
Taken(s) == s \in reservations

Reserve(r) ==
  /\ pc[r] = "mkdir"
  /\ \E n \in 1..MaxSeq:
       LET s == [at |-> at[r], seq |-> n] IN
       /\ IsNextSeq(r, n)
       /\ IF Taken(s)
          THEN Learn(r, s) /\ UNCHANGED <<reservations, id, pc, left>>
          ELSE /\ reservations' = reservations \cup {s}
               /\ id' = [id EXCEPT ![r] = s]
               /\ left' = [left EXCEPT ![r] = {w[1] : w \in Changes[r]}]
               /\ Goto(r, "prepare")
               /\ UNCHANGED known
  /\ UNCHANGED <<clock, sessions, areas, entries, expired, items, now, at, saved>>

\* mkdir -p of an area makes the session first; a kill or an error can fall
\* between the two.
Prepare(r) ==
  /\ pc[r] = "prepare" /\ left[r] # {}
  /\ IF id[r] \in sessions
     THEN /\ areas' = areas \cup {<<id[r], First(left[r])>>}
          /\ left' = [left EXCEPT ![r] = @ \ {First(@)}]
          /\ UNCHANGED sessions
     ELSE sessions' = sessions \cup {id[r]} /\ UNCHANGED <<areas, left>>
  /\ UNCHANGED <<clock, reservations, entries, pc, expired, items, local>>

Prepared(r) ==
  /\ pc[r] = "prepare" /\ left[r] = {}
  /\ Goto(r, "save")
  /\ items' = [items EXCEPT ![r] = Changes[r]]
  /\ UNCHANGED <<clock, store, expired, left, local>>

\* The sequence of this second is used up (checked_add).
Exhausted(r) ==
  /\ pc[r] = "mkdir" /\ IsNextSeq(r, MaxSeq + 1)
  /\ Goto(r, "stopped")
  /\ UNCHANGED <<clock, store, work, local>>

\* Any failure up to here ends the command before it has written anything
\* (REQ-backup-045); nobody tidies up.
CannotStart(r) ==
  /\ pc[r] \in {"wait", "clean", "rmdir", "release", "reserve", "mkdir", "prepare"}
  /\ Goto(r, "stopped")
  /\ UNCHANGED <<clock, store, work, local>>

----------------------------------------------------------------------------
(***************************************************************************)
(* save: the entry is built under pending/ and renamed into records/.      *)
(***************************************************************************)
\* (mutant of NewEntry: written where it is read, without a rename)
NewEntryInPlace(r, w) ==
  [id |-> id[r], target |-> w[1], path |-> w[2], place |-> "records", whole |-> FALSE]

NewEntry(r, w) ==
  [id |-> id[r], target |-> w[1], path |-> w[2], place |-> "pending", whole |-> TRUE]

Temporary(r, w) == {e \in entries : /\ e.id = id[r] /\ e.target = w[1] /\ e.path = w[2]
                                    /\ e.place = "pending"}

\* The next pair is done with.
NextItem(r) == Goto(r, "save") /\ items' = [items EXCEPT ![r] = @ \ {First(@)}]

\* mkdir -p of the area, which may be gone, and the temporary entry below it.
SaveBegin(r) ==
  /\ pc[r] = "save" /\ items[r] # {}
  /\ LET w == First(items[r]) IN
     /\ sessions' = sessions \cup {id[r]}
     /\ areas' = areas \cup {<<id[r], w[1]>>}
     /\ entries' = entries \cup {NewEntry(r, w)}
  /\ Goto(r, "saving")
  /\ UNCHANGED <<clock, reservations, work, local>>

\* There is nothing at the path, or it is not to be changed after all: no entry
\* (REQ-backup-015).
SaveNothing(r) ==
  /\ pc[r] = "save" /\ items[r] # {}
  /\ NextItem(r)
  /\ UNCHANGED <<clock, store, expired, left, local>>

\* A cleanup may have removed one of the two files before the rename.
SaveCommit(r) ==
  /\ pc[r] = "saving"
  /\ LET w == First(items[r]) IN
     /\ \E e \in Temporary(r, w):
          entries' = (entries \ {e}) \cup {[e EXCEPT !.place = "records"]}
     /\ saved' = [saved EXCEPT ![r] = @ \cup {w}]
  /\ NextItem(r)
  /\ UNCHANGED <<clock, reservations, sessions, areas, expired, left, now, id, at, known>>

\* The path is reported as "backup failed" and the run goes on.
SaveFails(r) ==
  /\ pc[r] = "saving"
  /\ entries' = entries \ Temporary(r, First(items[r]))
  /\ NextItem(r)
  /\ UNCHANGED <<clock, reservations, sessions, areas, expired, left, local>>

----------------------------------------------------------------------------
(***************************************************************************)
(* finish_session: directories nothing was saved in are removed again.     *)
(***************************************************************************)
\* (mutant of Tidied: also takes areas that hold records)
TidiedAll(s) == {a \in areas : a[1] = s}

\* (mutant of Tidied: leaves the areas that were made in advance)
TidiedNone(s) == {}

Tidied(s) == EmptyAreas(s)

\* What is in an area goes with it; nothing is, in the areas Tidied names.
FinishAreas(r) ==
  /\ pc[r] = "save" /\ items[r] = {}
  /\ areas' = areas \ Tidied(id[r])
  /\ entries' = {e \in entries : <<e.id, e.target>> \in areas'}
  /\ Goto(r, "tidy")
  /\ UNCHANGED <<clock, reservations, sessions, work, local>>

FinishSession(r) ==
  /\ pc[r] = "tidy"
  /\ sessions' = IF HasAreas(id[r]) THEN sessions ELSE sessions \ {id[r]}
  /\ Goto(r, "unlist")
  /\ UNCHANGED <<clock, reservations, areas, entries, work, local>>

\* (mutant of InStore: never asks)
InStoreNever(s) == FALSE

InStore(s) == s \in sessions

FinishCheck(r) ==
  /\ pc[r] = "unlist"
  /\ Goto(r, IF InStore(id[r]) THEN "done" ELSE "return")
  /\ UNCHANGED <<clock, store, work, local>>

FinishRelease(r) ==
  /\ pc[r] = "return"
  /\ reservations' = reservations \ {id[r]}
  /\ Goto(r, "done")
  /\ UNCHANGED <<clock, sessions, areas, entries, work, local>>

----------------------------------------------------------------------------
\* A kill leaves the store as it is.
Crash(r) ==
  /\ r \in Crashes
  /\ pc[r] \notin Ended \cup {"start"}
  /\ Goto(r, "dead")
  /\ UNCHANGED <<clock, store, work, local>>

\* Reserving takes less than a day, and so does a whole run unless LongRuns.
InTime(r) ==
  /\ pc[r] = "mkdir" => clock + 1 < at[r] + Day
  /\ (~LongRuns /\ id[r] # NoId /\ pc[r] \notin Ended) => clock + 1 < id[r].at + Day

Tick ==
  /\ clock < LastTime
  /\ \A r \in Runs: InTime(r)
  /\ clock' = clock + 1
  /\ UNCHANGED <<store, pc, work, local>>

Progress(r) ==
  \/ Begin(r) \/ Start(r)
  \/ CleanEntry(r) \/ CleanArea(r) \/ CleanList(r) \/ CleanSession(r) \/ CleanRelease(r)
  \/ CleanDone(r)
  \/ ReserveList(r) \/ Reserve(r) \/ Prepare(r) \/ Prepared(r) \/ Exhausted(r)
  \/ SaveBegin(r) \/ SaveNothing(r) \/ SaveCommit(r) \/ SaveFails(r)
  \/ FinishAreas(r) \/ FinishSession(r) \/ FinishCheck(r) \/ FinishRelease(r)

AllEnded == (\A r \in Runs: pc[r] \in Ended) /\ UNCHANGED vars

Next == Tick \/ AllEnded \/ \E r \in Runs: Progress(r) \/ CannotStart(r) \/ Crash(r)

Spec == Init /\ [][Next]_vars

\* Every process is scheduled; no error or kill is bound to happen.
FairSpec == Spec /\ \A r \in Runs: WF_vars(Progress(r))
----------------------------------------------------------------------------
(***************************************************************************)
(* Properties.                                                             *)
(***************************************************************************)

\* REQ-backup-023: runs that are under way at the same time have different IDs.
RunningIdsDiffer ==
  \A r, q \in Runs:
    (r # q /\ id[r] # NoId /\ pc[r] \notin Ended /\ pc[q] \notin Ended) => id[r] # id[q]

\* REQ-backup-023: two runs never report backups under the same ID.  (The ID
\* of a run that backed up nothing is free again.)
IdsAreNeverReused ==
  \A r, q \in Runs: (r # q /\ saved[r] # {} /\ saved[q] # {}) => id[r] # id[q]

\* What a run reported as backed up stays readable until it has expired and its
\* destination is configured in a run that cleans (REQ-backup-009, 026).
SavedIsKept ==
  \A r \in Runs: \A w \in saved[r]:
    \/ [id |-> id[r], target |-> w[1], path |-> w[2], place |-> "records", whole |-> TRUE] \in entries
    \/ Expired(id[r], Retention, clock) /\ \E q \in Cleans: w[1] \in Configured[q]

\* A record is never half written, and only an expired one half removed:
\* it is built under pending/ and renamed.
RecordsAreWhole ==
  \A e \in entries: (e.place = "records" /\ ~Expired(e.id, Retention, clock)) => e.whole

\* REQ-backup-047: a session in the store has its reservation, so that its ID
\* is given to nobody else.
SessionsAreReserved == sessions \subseteq reservations

\* REQ-backup-015: a run that ended normally and backed up nothing leaves
\* neither a session nor a reservation.
NothingIsLeft ==
  \A r \in Runs:
    (pc[r] = "done" /\ id[r] # NoId /\ saved[r] = {} /\ \A q \in Runs \ {r}: id[q] # id[r])
      => id[r] \notin sessions \cup reservations

\* compare_session_ids.
Older(s, t) == s.at < t.at \/ (s.at = t.at /\ s.seq < t.seq)

\* REQ-backup-022: the IDs are in the order of the reservations, so that "the
\* newest session" of rollback is the last one: an ID is never smaller than one
\* that was in the store when its run began to reserve.
LaterIsNewer ==
  \A r \in Runs: \A s \in known[r]: (id[r] # NoId /\ s # id[r]) => Older(s, id[r])

\* Every run ends, however many others reserve in the same second.
EveryRunEnds == \A r \in Runs: <>(pc[r] \in Ended)
=============================================================================
