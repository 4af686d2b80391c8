----------------------------- MODULE UsageStore -----------------------------
(***************************************************************************)
(* The usage store (extensions.UsageStore): per-day request counts, kept   *)
(* in memory and rewritten to one JSON file after every change.  record()  *)
(* runs under the store's lock; clear_expired() takes no lock, so that any *)
(* number of threads may be in it, beside each other and beside a record().*)
(* A save is three steps of its caller: serialize, open the file (which    *)
(* empties it), write it; the process may be killed between any two of     *)
(* them, and then starts again from the file.                              *)
(*                                                                         *)
(* The store counts per day and per "provider:model" key; the keys of one  *)
(* day are independent entries of one dictionary, and one stands for all.  *)
(* A day's dictionary is an object that the store's dictionary and those   *)
(* that clear_expired() calls are building may share.                      *)
(***************************************************************************)
EXTENDS Integers, FiniteSets, Sequences

CONSTANTS
    Threads,      \* threads that use the store
    None,         \* no thread
    KeepDays,     \* what clear_expired() is called with
    MaxDay,       \* bound: days that pass
    MaxRecords,   \* bound: calls of record() a day
    MaxCrashes    \* bound: times the process is killed and started again

ASSUME UsageAssumption ==
    /\ None \notin Threads
    /\ KeepDays \subseteq Nat /\ MaxDay \in Nat \ {0} /\ MaxRecords \in Nat /\ MaxCrashes \in Nat

VARIABLES
    entries,      \* by day, the dictionaries made for that day: the count of each
    data,         \* store._data: for each day it has, which of them
    lock,         \* the thread that holds store._lock, or None
    file,         \* what the file holds: a count for each day it has, or Torn
    today,        \* the date
    pc,           \* where each thread is
    kept,         \* what each clear_expired() in progress has picked of store._data
    walking,      \* the threads that may be walking the dictionary the store has
    grown,        \* those whose dictionary has got another day since they began
    snapshot,     \* what each thread has serialized
    crashes,      \* times the process was killed
    begun,        \* history, of this process: calls of record() that counted, by day
    returned,     \* history, of this process: those that returned
    overlapped    \* history, of this process: two calls were under way at once

walks == <<kept, walking, grown>>

vars == <<entries, data, lock, file, today, pc, walks, snapshot, crashes, begun, returned, overlapped>>

Days == 1 .. MaxDay
Empty == [d \in {} |-> 0]   \* also an empty file, which loads as no counts
Torn == [d \in {0} |-> 0]   \* not a JSON document: no store has a day 0

CountOf(counts, d) == IF d \in DOMAIN counts THEN counts[d] ELSE 0

\* The counts the store has.
Stored == [d \in DOMAIN data |-> entries[d][data[d]]]

Init ==
    /\ entries = [d \in Days |-> <<>>]
    /\ data = Empty /\ file = Empty
    /\ lock = None
    /\ today = 1
    /\ pc = [t \in Threads |-> "idle"]
    /\ kept = [t \in Threads |-> Empty]
    /\ walking = {} /\ grown = {}
    /\ snapshot = [t \in Threads |-> Empty]
    /\ crashes = 0
    /\ begun = [d \in Days |-> 0]
    /\ returned = [d \in Days |-> 0]
    /\ overlapped = FALSE

Idle == \A t \in Threads : pc[t] = "idle"

\* The days no clear_expired() removes.
NotExpired(d) == \A keep \in KeepDays : d >= today - keep

Goes(t, place) == pc' = [pc EXCEPT ![t] = place]
-----------------------------------------------------------------------------
\* Mutant of Counted: a new day starts from the day before.
CountedOn(d) ==
    IF d \in DOMAIN data THEN [entries EXCEPT ![d][data[d]] = @ + 1]
                         ELSE [entries EXCEPT ![d] = Append(@, 1 + CountOf(Stored, d - 1))]

Counted(d) ==
    IF d \in DOMAIN data THEN [entries EXCEPT ![d][data[d]] = @ + 1]
                         ELSE [entries EXCEPT ![d] = Append(@, 1)]

\* record(): with the lock, the day's dictionary is created or changed.
Record(t) ==
    /\ pc[t] = "idle"
    /\ lock = None
    /\ begun[today] < MaxRecords
    /\ lock' = t
    /\ entries' = Counted(today)
    /\ IF today \in DOMAIN data
       THEN UNCHANGED <<data, grown>>
       ELSE /\ data' = [d \in DOMAIN data \cup {today} |-> IF d = today THEN Len(entries'[d]) ELSE data[d]]
            /\ grown' = grown \cup walking
    /\ begun' = [begun EXCEPT ![today] = @ + 1]
    /\ Goes(t, "changed")
    /\ overlapped' = (overlapped \/ ~ Idle)
    /\ UNCHANGED <<file, today, kept, walking, snapshot, crashes, returned>>

\* clear_expired(), first half: a new dictionary is built from the days of the
\* old one.
Pick(t, keep) ==
    /\ pc[t] = "idle"
    /\ kept' = [kept EXCEPT ![t] = [d \in {e \in DOMAIN data : e >= today - keep} |-> data[d]]]
    /\ walking' = walking \cup {t}
    /\ Goes(t, "picked")
    /\ overlapped' = (overlapped \/ ~ Idle)
    /\ UNCHANGED <<entries, data, lock, file, today, grown, snapshot, crashes, begun, returned>>

\* Second half: it replaces the one the store has.  The days' own dictionaries
\* are shared by both, so a day that was picked keeps what was counted meanwhile;
\* a day that began meanwhile is gone, and so is what another thread put in
\* place.  A thread about to save walks the new one, or may have begun already.
Rebind(t) ==
    /\ pc[t] = "picked"
    /\ data' = kept[t]
    /\ kept' = [kept EXCEPT ![t] = Empty]
    /\ walking' = {u \in walking : pc[u] = "changed"} \cup {t}
    /\ grown' = grown \ {t}
    /\ Goes(t, "changed")
    /\ UNCHANGED <<entries, lock, file, today, snapshot, crashes, begun, returned, overlapped>>

\* Or, the dictionary having grown under one of its two walks (to pick, to
\* serialize), clear_expired() raises RuntimeError.
WalkFails(t) ==
    /\ pc[t] \in {"picked", "changed"} /\ t \in grown
    /\ kept' = [kept EXCEPT ![t] = Empty]
    /\ walking' = walking \ {t} /\ grown' = grown \ {t}
    /\ Goes(t, "idle")
    /\ UNCHANGED <<entries, data, lock, file, today, snapshot, crashes, begun, returned, overlapped>>

\* Mutant of Serialize: only the day at hand is saved.
SerializeToday(t) ==
    /\ pc[t] = "changed"
    /\ snapshot' = [snapshot EXCEPT ![t] = [d \in DOMAIN data \cap {today} |-> Stored[d]]]
    /\ walking' = walking \ {t} /\ grown' = grown \ {t}
    /\ Goes(t, "serialized")
    /\ UNCHANGED <<entries, data, lock, file, today, kept, crashes, begun, returned, overlapped>>

\* _save(), its three steps, in record() and in clear_expired().
Serialize(t) ==
    /\ pc[t] = "changed"
    /\ snapshot' = [snapshot EXCEPT ![t] = Stored]
    /\ walking' = walking \ {t} /\ grown' = grown \ {t}
    /\ Goes(t, "serialized")
    /\ UNCHANGED <<entries, data, lock, file, today, kept, crashes, begun, returned, overlapped>>

Open(t) ==
    /\ pc[t] = "serialized"
    /\ file' = Empty
    /\ Goes(t, "emptied")
    /\ UNCHANGED <<entries, data, lock, today, walks, snapshot, crashes, begun, returned, overlapped>>

\* Writers that all emptied the file write over each other from its start: a
\* shorter text leaves the tail of a longer one behind it.
Write(t) ==
    /\ pc[t] = "emptied"
    /\ file' = IF Cardinality(DOMAIN snapshot[t]) >= Cardinality(DOMAIN file) THEN snapshot[t] ELSE Torn
    /\ snapshot' = [snapshot EXCEPT ![t] = Empty]
    /\ Goes(t, "written")
    /\ UNCHANGED <<entries, data, lock, today, walks, crashes, begun, returned, overlapped>>

\* Mutant of Leave: the lock is not given back.
LeaveLocked(t) ==
    /\ pc[t] = "written"
    /\ returned' = IF lock = t THEN begun ELSE returned
    /\ Goes(t, "idle")
    /\ UNCHANGED <<entries, data, lock, file, today, walks, snapshot, crashes, begun, overlapped>>

\* The call returns; record() gives the lock back, and the calls that counted
\* are then those that returned, since they ran one at a time.
Leave(t) ==
    /\ pc[t] = "written"
    /\ lock' = IF lock = t THEN None ELSE lock
    /\ returned' = IF lock = t THEN begun ELSE returned
    /\ Goes(t, "idle")
    /\ UNCHANGED <<entries, data, file, today, walks, snapshot, crashes, begun, overlapped>>

NewDay ==
    /\ today < MaxDay
    /\ today' = today + 1
    /\ UNCHANGED <<entries, data, lock, file, pc, walks, snapshot, crashes, begun, returned, overlapped>>

\* _load(): a document that does not parse is passed over in silence.
Load(document) == IF document = Torn THEN Empty ELSE document

\* The process is killed; the next one starts from the file.
Crash ==
    /\ crashes < MaxCrashes
    /\ crashes' = crashes + 1
    /\ data' = [d \in DOMAIN Load(file) |-> 1]
    /\ entries' = [d \in Days |-> IF d \in DOMAIN Load(file) THEN <<Load(file)[d]>> ELSE <<>>]
    /\ lock' = None
    /\ pc' = [t \in Threads |-> "idle"]
    /\ kept' = [t \in Threads |-> Empty]
    /\ walking' = {} /\ grown' = {}
    /\ snapshot' = [t \in Threads |-> Empty]
    /\ begun' = [d \in Days |-> CountOf(Load(file), d)]
    /\ returned' = begun'
    /\ overlapped' = FALSE
    /\ UNCHANGED <<file, today>>

Work(t) == Rebind(t) \/ WalkFails(t) \/ Serialize(t) \/ Open(t) \/ Write(t) \/ Leave(t)

Next ==
    \/ \E t \in Threads : Record(t) \/ (\E keep \in KeepDays : Pick(t, keep)) \/ Work(t)
    \/ NewDay
    \/ Crash

Spec == Init /\ [][Next]_vars

\* A thread inside the store is not descheduled for ever.
FairSpec == Spec /\ \A t \in Threads : WF_vars(Work(t))
-----------------------------------------------------------------------------
Counts == UNION {[S -> 0 .. MaxRecords] : S \in SUBSET Days}

\* A dictionary of the store, which names for some days one of those made for it.
Dictionaries == UNION {[S -> Nat] : S \in SUBSET Days}

Made(dictionary) == \A d \in DOMAIN dictionary : dictionary[d] \in DOMAIN entries[d]

\* Type invariant; the lock is held by a thread that is inside record().
TypeOK ==
    /\ entries \in [Days -> Seq(0 .. MaxRecords)]
    /\ data \in Dictionaries /\ Made(data)
    /\ file \in Counts \cup {Torn}
    /\ lock \in Threads \cup {None}
    /\ lock # None => pc[lock] \in {"changed", "serialized", "emptied", "written"} /\ lock \notin walking \cup grown
    /\ today \in Days
    /\ pc \in [Threads -> {"idle", "picked", "changed", "serialized", "emptied", "written"}]
    /\ kept \in [Threads -> Dictionaries] /\ \A t \in Threads : Made(kept[t])
    /\ walking \cup grown \subseteq {t \in Threads : pc[t] \in {"picked", "changed"}}
    /\ snapshot \in [Threads -> Counts]
    /\ crashes \in 0 .. MaxCrashes
    /\ begun \in [Days -> 0 .. MaxRecords] /\ returned \in [Days -> 0 .. MaxRecords]
    /\ overlapped \in BOOLEAN

\* No count, in memory, in the file or on its way there, exceeds the requests
\* recorded that day, whatever writers overlap and wherever a process was killed.
NothingInvented ==
    \A d \in Days :
        /\ CountOf(Stored, d) <= begun[d]
        /\ CountOf(file, d) <= begun[d]
        /\ \A t \in Threads : CountOf(snapshot[t], d) <= begun[d]

\* A process killed while no thread has the file emptied, and in which no two
\* calls ran beside each other (a clear_expired() beside a record() or beside
\* another clear_expired(): the lock keeps two record() apart), leaves a file that
\* holds every call of record() that returned, for each day not yet expired.
UndisturbedIsDurable ==
    [][ Crash /\ ~ overlapped /\ (\A t \in Threads : pc[t] # "emptied")
        => \A d \in Days : NotExpired(d) => returned[d] <= CountOf(Stored', d) ]_vars

\* Whoever holds the lock gives it back: record() cannot wait for ever.
LockIsReleased == \A t \in Threads : lock = t ~> lock # t
=============================================================================
