-------------------------- MODULE UsageStoreProofs --------------------------
(***************************************************************************)
(* The usage store invents no count, and loses none that it returned       *)
(* unless the process is killed inside a file write or two calls ran       *)
(* beside each other: for any number of threads, days, records, kills and  *)
(* ages that clear_expired() is called with.                               *)
(*                                                                         *)
(* NothingInvented is about every dictionary that was ever made for a day, *)
(* in use or not (EntriesBounded), since a clear_expired() may put one     *)
(* back.  Durability is about what each place of the one busy thread knows *)
(* to hold all that was counted (Durable).                                 *)
(***************************************************************************)
EXTENDS UsageStore, TLAPS, FiniteSetTheorems

EntriesBounded == \A d \in Days : \A i \in DOMAIN entries[d] : entries[d][i] <= begun[d]

WritesBounded ==
    \A d \in Days :
        /\ CountOf(file, d) <= begun[d]
        /\ \A t \in Threads : CountOf(snapshot[t], d) <= begun[d]

ReturnedBegan == \A d \in Days : returned[d] <= begun[d]

\* These counts have all that was counted on the days not yet expired.
Complete(counts) == \A d \in Days : NotExpired(d) => begun[d] <= CountOf(counts, d)

OneBusy == \A t, u \in Threads : pc[t] # "idle" /\ pc[u] # "idle" => t = u

PickedComplete ==
    \A t \in Threads : pc[t] = "picked" =>
        \A d \in DOMAIN data : NotExpired(d) => d \in DOMAIN kept[t] /\ kept[t][d] = data[d]

SnapshotComplete ==
    \A t \in Threads : pc[t] \in {"serialized", "emptied"} => Complete(snapshot[t])

EmptiedIsEmpty == \A t \in Threads : pc[t] = "emptied" => file = Empty

\* The file has all that was counted unless somebody is about to save, and all
\* that was returned unless somebody has emptied it.
FileComplete ==
    (\A t \in Threads : pc[t] \notin {"changed", "serialized", "emptied"}) => Complete(file)

FileKeepsReturned ==
    (\A t \in Threads : pc[t] # "emptied") =>
        \A d \in Days : NotExpired(d) => returned[d] <= CountOf(file, d)

Durable ==
    /\ OneBusy /\ grown = {} /\ Complete(Stored) /\ PickedComplete /\ SnapshotComplete
    /\ EmptiedIsEmpty /\ FileComplete /\ FileKeepsReturned

Sound == TypeOK /\ EntriesBounded /\ WritesBounded /\ ReturnedBegan

Inv == Sound /\ (~ overlapped => Durable)
-----------------------------------------------------------------------------
\* What it is to be counts, without the union of function sets.
LEMMA CountsType ==
    ASSUME NEW c
    PROVE  c \in Counts <=> /\ c = [d \in DOMAIN c |-> c[d]]
                            /\ DOMAIN c \in SUBSET Days
                            /\ \A d \in DOMAIN c : c[d] \in 0 .. MaxRecords
<1>1. ASSUME c \in Counts
      PROVE  /\ c = [d \in DOMAIN c |-> c[d]]
             /\ DOMAIN c \in SUBSET Days
             /\ \A d \in DOMAIN c : c[d] \in 0 .. MaxRecords
  <2>1. PICK S \in SUBSET Days : c \in [S -> 0 .. MaxRecords]
    BY <1>1 DEF Counts
  <2> QED BY <2>1
<1>2. ASSUME c = [d \in DOMAIN c |-> c[d]], DOMAIN c \in SUBSET Days,
             \A d \in DOMAIN c : c[d] \in 0 .. MaxRecords
      PROVE  c \in Counts
  <2>1. c \in [DOMAIN c -> 0 .. MaxRecords]
    BY <1>2
  <2> QED BY <1>2, <2>1 DEF Counts
<1> QED BY <1>1, <1>2

LEMMA CountOfType ==
    ASSUME NEW c \in Counts \cup {Torn}, NEW d \in Days
    PROVE  CountOf(c, d) \in 0 .. MaxRecords
<1> USE UsageAssumption DEF UsageAssumption
<1>1. CASE c \in Counts
  BY <1>1, CountsType DEF CountOf
<1>2. CASE c = Torn
  BY <1>2 DEF CountOf, Torn, Days
<1> QED BY <1>1, <1>2

\* No counts at all, and a document that does not parse, count nothing.
LEMMA EmptyCounts ==
    /\ Empty \in Counts /\ Torn \notin Counts
    /\ \A d \in Days : CountOf(Empty, d) = 0 /\ CountOf(Torn, d) = 0
<1> USE UsageAssumption DEF UsageAssumption
<1>1. DOMAIN Empty = {} /\ DOMAIN Torn = {0} /\ 0 \notin Days
  BY DEF Empty, Torn, Days
<1>2. Empty = [d \in DOMAIN Empty |-> Empty[d]]
  BY DEF Empty
<1>3. Empty \in Counts
  BY <1>1, <1>2, CountsType
<1>4. Torn \notin Counts
  BY <1>1, CountsType
<1>5. \A d \in Days : CountOf(Empty, d) = 0 /\ CountOf(Torn, d) = 0
  BY <1>1 DEF CountOf, Torn
<1> QED BY <1>3, <1>4, <1>5

\* What a day's sequence of counts holds.
LEMMA ElementType ==
    ASSUME NEW s \in Seq(0 .. MaxRecords), NEW i \in DOMAIN s
    PROVE  s[i] \in 0 .. MaxRecords /\ s[i] \in Nat
<1> DEFINE S == 0 .. MaxRecords
<1>1. S \subseteq Nat
  BY UsageAssumption DEF UsageAssumption
<1>2. s \in Seq(S) /\ i \in DOMAIN s
  OBVIOUS
<1> HIDE DEF S
<1>3. s[i] \in S
  BY <1>2
<1> QED BY <1>1, <1>3 DEF S

\* What it is to be a dictionary, likewise.
LEMMA DictionaryType ==
    ASSUME NEW c
    PROVE  c \in Dictionaries <=> /\ c = [d \in DOMAIN c |-> c[d]]
                                  /\ DOMAIN c \in SUBSET Days
                                  /\ \A d \in DOMAIN c : c[d] \in Nat
<1>1. ASSUME c \in Dictionaries
      PROVE  /\ c = [d \in DOMAIN c |-> c[d]]
             /\ DOMAIN c \in SUBSET Days
             /\ \A d \in DOMAIN c : c[d] \in Nat
  <2>1. PICK S \in SUBSET Days : c \in [S -> Nat]
    BY <1>1 DEF Dictionaries
  <2> QED BY <2>1
<1>2. ASSUME c = [d \in DOMAIN c |-> c[d]], DOMAIN c \in SUBSET Days, \A d \in DOMAIN c : c[d] \in Nat
      PROVE  c \in Dictionaries
  <2>1. c \in [DOMAIN c -> Nat]
    BY <1>2
  <2> QED BY <1>2, <2>1 DEF Dictionaries
<1> QED BY <1>1, <1>2

\* The counts the store has are those of the dictionaries it has.
LEMMA StoredCounts ==
    ASSUME TypeOK
    PROVE  /\ Stored \in Counts
           /\ \A d \in Days : CountOf(Stored, d) = IF d \in DOMAIN data THEN entries[d][data[d]] ELSE 0
<1>1. DOMAIN data \in SUBSET Days
  BY DictionaryType DEF TypeOK
<1>2. DOMAIN Stored = DOMAIN data /\ Stored = [d \in DOMAIN Stored |-> Stored[d]]
      /\ \A d \in DOMAIN data : Stored[d] = entries[d][data[d]]
  BY DEF Stored
<1>3. \A d \in DOMAIN data : entries[d][data[d]] \in 0 .. MaxRecords
  <2>1. ASSUME NEW d \in DOMAIN data PROVE entries[d][data[d]] \in 0 .. MaxRecords
    <3>1. data[d] \in DOMAIN entries[d] /\ entries[d] \in Seq(0 .. MaxRecords)
      BY <1>1 DEF TypeOK, Made
    <3> QED BY <3>1, ElementType
  <2> QED BY <2>1
<1>4. Stored \in Counts
  BY <1>1, <1>2, <1>3, CountsType
<1>5. \A d \in Days : CountOf(Stored, d) = IF d \in DOMAIN data THEN entries[d][data[d]] ELSE 0
  BY <1>2 DEF CountOf
<1> QED BY <1>4, <1>5

\* The part of a dictionary on some days is a dictionary.
LEMMA PartOfDictionary ==
    ASSUME NEW c \in Dictionaries, Made(c), NEW S \in SUBSET DOMAIN c
    PROVE  [d \in S |-> c[d]] \in Dictionaries /\ Made([d \in S |-> c[d]])
<1> DEFINE r == [d \in S |-> c[d]]
<1>1. r = [d \in DOMAIN r |-> r[d]] /\ DOMAIN r = S /\ \A d \in S : r[d] = c[d]
  OBVIOUS
<1>2. DOMAIN c \in SUBSET Days /\ \A d \in DOMAIN c : c[d] \in Nat
  BY DictionaryType
<1>3. r \in Dictionaries
  BY <1>1, <1>2, DictionaryType
<1> QED BY <1>1, <1>3 DEF Made

LEMMA NoDictionary == Empty \in Dictionaries /\ Made(Empty)
<1>1. DOMAIN Empty = {} /\ Empty = [d \in DOMAIN Empty |-> Empty[d]]
  BY DEF Empty
<1> QED BY <1>1, DictionaryType DEF Made

\* record() counts one request, in its day's dictionary, and takes none away.
LEMMA RecordCounts ==
    ASSUME TypeOK, EntriesBounded, NEW t \in Threads, Record(t)
    PROVE  /\ entries' \in [Days -> Seq(0 .. MaxRecords)]
           /\ data' \in Dictionaries
           /\ DOMAIN data' = DOMAIN data \cup {today}
           /\ \A d \in DOMAIN data' : data'[d] \in DOMAIN entries'[d]
           /\ \A d \in Days : DOMAIN entries[d] \subseteq DOMAIN entries'[d]
           /\ \A d \in Days : \A i \in DOMAIN entries'[d] :
                  entries'[d][i] <= begun[d] + (IF d = today THEN 1 ELSE 0)
           /\ \A d \in Days : (IF d \in DOMAIN data' THEN entries'[d][data'[d]] ELSE 0)
                            = (IF d \in DOMAIN data THEN entries[d][data[d]] ELSE 0)
                                + (IF d = today THEN 1 ELSE 0)
<1>0. /\ entries \in [Days -> Seq(0 .. MaxRecords)] /\ today \in Days
      /\ begun \in [Days -> 0 .. MaxRecords] /\ begun[today] < MaxRecords /\ MaxRecords \in Nat
      /\ entries' = Counted(today)
  BY UsageAssumption DEF TypeOK, Record, UsageAssumption
<1>1. DOMAIN data \in SUBSET Days /\ (\A d \in DOMAIN data : data[d] \in Nat)
      /\ data = [d \in DOMAIN data |-> data[d]] /\ \A d \in DOMAIN data : data[d] \in DOMAIN entries[d]
  BY DictionaryType DEF TypeOK, Made
<1> DEFINE old == entries[today]
           new == entries'[today]
<1>2. old \in Seq(0 .. MaxRecords) /\ (\A i \in DOMAIN old : old[i] \in 0 .. MaxRecords /\ old[i] <= begun[today])
  BY <1>0 DEF EntriesBounded
<1>3. \A d \in Days \ {today} : entries'[d] = entries[d]
  BY <1>0 DEF Counted
<1>4. CASE today \in DOMAIN data
  <2> DEFINE k == data[today]
  <2>1. k \in DOMAIN old /\ data' = data
    BY <1>1, <1>4 DEF Record
  <2>2. entries' = [entries EXCEPT ![today] = [old EXCEPT ![k] = old[k] + 1]]
    BY <1>0, <1>4 DEF Counted
  <2>3. new = [old EXCEPT ![k] = old[k] + 1]
    BY <1>0, <2>2
  <2> HIDE DEF k, old
  <2>4. old[k] + 1 \in 0 .. MaxRecords
    BY <1>0, <1>2, <2>1
  <2>5. new \in Seq(0 .. MaxRecords) /\ DOMAIN new = DOMAIN old /\ new[k] = old[k] + 1
        /\ \A i \in DOMAIN old \ {k} : new[i] = old[i]
    BY <1>2, <2>1, <2>3, <2>4
  <2>6. \A i \in DOMAIN new : new[i] <= begun[today] + 1
    <3>1. old[k] <= begun[today] /\ old[k] \in Int /\ begun[today] \in Int
      BY <1>0, <1>2, <2>1
    <3>2. ASSUME NEW i \in DOMAIN old, i # k PROVE new[i] <= begun[today] + 1
      <4>1. new[i] = old[i] /\ old[i] <= begun[today] /\ old[i] \in Int
        BY <1>2, <2>5, <3>2
      <4> QED BY <3>1, <4>1
    <3> QED BY <2>5, <3>1, <3>2
  <2> HIDE DEF new
  <2> USE DEF k, old, new
  <2>7. entries' \in [Days -> Seq(0 .. MaxRecords)]
    BY <1>0, <2>2, <2>3, <2>5
  <2>8. \A d \in Days : DOMAIN entries[d] = DOMAIN entries'[d]
    BY <1>3, <2>5
  <2>9. \A d \in Days : \A i \in DOMAIN entries'[d] :
           entries'[d][i] <= begun[d] + (IF d = today THEN 1 ELSE 0)
    <3>1. ASSUME NEW d \in Days \ {today}, NEW i \in DOMAIN entries'[d] PROVE entries'[d][i] <= begun[d] + 0
      BY <1>0, <1>3, <3>1 DEF EntriesBounded
    <3> QED BY <2>6, <3>1
  <2>10. \A d \in DOMAIN data : d # today => entries'[d][data[d]] = entries[d][data[d]] /\ entries[d][data[d]] \in Nat
    <3>1. ASSUME NEW d \in DOMAIN data, d # today PROVE entries'[d][data[d]] = entries[d][data[d]] /\ entries[d][data[d]] \in Nat
      <4>1. d \in Days /\ data[d] \in DOMAIN entries[d] /\ entries[d] \in Seq(0 .. MaxRecords)
        BY <1>0, <1>1
      <4>2. entries[d][data[d]] \in Nat
        BY <4>1, ElementType
      <4> QED BY <1>3, <3>1, <4>1, <4>2
    <3> QED BY <3>1
  <2>11. \A d \in Days : (IF d \in DOMAIN data' THEN entries'[d][data'[d]] ELSE 0)
                       = (IF d \in DOMAIN data THEN entries[d][data[d]] ELSE 0) + (IF d = today THEN 1 ELSE 0)
    BY <1>4, <2>1, <2>5, <2>10
  <2> QED BY <1>1, <1>4, <2>1, <2>7, <2>8, <2>9, <2>11 DEF TypeOK
<1>5. CASE today \notin DOMAIN data
  <2>1. entries' = [entries EXCEPT ![today] = Append(old, 1)]
        /\ data' = [d \in DOMAIN data \cup {today} |-> IF d = today THEN Len(entries'[d]) ELSE data[d]]
    BY <1>0, <1>5 DEF Record, Counted
  <2>2. new = Append(old, 1)
    BY <1>0, <2>1
  <2>3. 1 \in 0 .. MaxRecords
    BY <1>0
  <2> HIDE DEF old, new
  <2>4. new \in Seq(0 .. MaxRecords) /\ Len(new) = Len(old) + 1 /\ DOMAIN old \subseteq DOMAIN new
        /\ new[Len(new)] = 1 /\ (\A i \in DOMAIN old : new[i] = old[i]) /\ DOMAIN new = DOMAIN old \cup {Len(new)}
        /\ Len(new) \in Nat /\ Len(new) \in DOMAIN new
    BY <1>2, <2>2, <2>3
  <2>5. \A i \in DOMAIN new : new[i] <= begun[today] + 1
    BY <1>0, <1>2, <2>4
  <2> USE DEF old, new
  <2>6. entries' \in [Days -> Seq(0 .. MaxRecords)]
    BY <1>0, <2>1, <2>2, <2>4
  <2>7. \A d \in Days : DOMAIN entries[d] \subseteq DOMAIN entries'[d]
    BY <1>3, <2>4
  <2>8. \A d \in Days : \A i \in DOMAIN entries'[d] :
           entries'[d][i] <= begun[d] + (IF d = today THEN 1 ELSE 0)
    <3>1. ASSUME NEW d \in Days \ {today}, NEW i \in DOMAIN entries'[d] PROVE entries'[d][i] <= begun[d] + 0
      BY <1>0, <1>3, <3>1 DEF EntriesBounded
    <3> QED BY <2>5, <3>1
  <2>9. DOMAIN data' = DOMAIN data \cup {today} /\ data'[today] = Len(new)
        /\ (\A d \in DOMAIN data : data'[d] = data[d]) /\ data' = [d \in DOMAIN data' |-> data'[d]]
    BY <1>5, <2>1
  <2>10. data' \in Dictionaries
    BY <1>0, <1>1, <2>4, <2>9, DictionaryType
  <2>11. \A d \in DOMAIN data' : data'[d] \in DOMAIN entries'[d]
    BY <1>1, <2>4, <2>7, <2>9
  <2>12. \A d \in DOMAIN data : entries'[d][data[d]] = entries[d][data[d]] /\ entries[d][data[d]] \in Nat
    <3>1. ASSUME NEW d \in DOMAIN data PROVE entries'[d][data[d]] = entries[d][data[d]] /\ entries[d][data[d]] \in Nat
      <4>1. d \in Days /\ d # today /\ data[d] \in DOMAIN entries[d] /\ entries[d] \in Seq(0 .. MaxRecords)
        BY <1>0, <1>1, <1>5
      <4>2. entries[d][data[d]] \in Nat
        BY <4>1, ElementType
      <4> QED BY <1>3, <4>1, <4>2
    <3> QED BY <3>1
  <2>13. \A d \in Days : (IF d \in DOMAIN data' THEN entries'[d][data'[d]] ELSE 0)
                       = (IF d \in DOMAIN data THEN entries[d][data[d]] ELSE 0) + (IF d = today THEN 1 ELSE 0)
    <3>1. ASSUME NEW d \in Days, d \in DOMAIN data
          PROVE (IF d \in DOMAIN data' THEN entries'[d][data'[d]] ELSE 0)
                       = (IF d \in DOMAIN data THEN entries[d][data[d]] ELSE 0) + (IF d = today THEN 1 ELSE 0)
      BY <1>5, <2>9, <2>12, <3>1
    <3>2. (IF today \in DOMAIN data' THEN entries'[today][data'[today]] ELSE 0) = 0 + 1
      BY <2>4, <2>9
    <3> QED BY <1>5, <2>9, <3>1, <3>2
  <2> QED BY <2>6, <2>7, <2>8, <2>9, <2>10, <2>11, <2>13
<1> QED BY <1>4, <1>5

\* On an emptied file a text is written whole.
LEMMA WrittenWhole ==
    ASSUME NEW c \in Counts
    PROVE  Cardinality(DOMAIN c) >= Cardinality(DOMAIN Empty)
<1>1. DOMAIN c \in SUBSET Days
  BY CountsType
<1>2. IsFiniteSet(Days)
  BY FS_Interval, UsageAssumption DEF Days, UsageAssumption
<1>3. Cardinality(DOMAIN c) \in Nat
  BY <1>1, <1>2, FS_Subset, FS_CardinalityType
<1>4. DOMAIN Empty = {} /\ Cardinality({}) = 0
  BY FS_EmptySet DEF Empty
<1> QED BY <1>3, <1>4
-----------------------------------------------------------------------------
LEMMA InitInv == Init => Inv
<1> SUFFICES ASSUME Init PROVE Inv
  OBVIOUS
<1> USE UsageAssumption, EmptyCounts DEF Init, UsageAssumption
<1>0. DOMAIN Empty = {}
  BY DEF Empty
<1>1. TypeOK
  <2>1. 0 \in 0 .. MaxRecords /\ 1 \in Days /\ 0 \in 0 .. MaxCrashes
    BY DEF Days
  <2>2. entries \in [Days -> Seq(0 .. MaxRecords)]
    OBVIOUS
  <2> QED BY <2>1, <2>2, NoDictionary DEF TypeOK, Made
<1>2. EntriesBounded /\ WritesBounded /\ ReturnedBegan
  BY DEF EntriesBounded, WritesBounded, ReturnedBegan
<1>3. Complete(Stored)
  BY <1>0, <1>1, StoredCounts DEF Complete
<1>4. Durable
  BY <1>0, <1>3 DEF Durable, OneBusy, Complete, PickedComplete, SnapshotComplete, EmptiedIsEmpty,
         FileComplete, FileKeepsReturned
<1> QED BY <1>1, <1>2, <1>4 DEF Inv, Sound

LEMMA RecordKeepsInv == ASSUME Inv, NEW t \in Threads, Record(t) PROVE Inv'
<1> USE DEF Inv, Sound
<1>0. /\ pc[t] = "idle" /\ lock = None /\ begun[today] < MaxRecords
      /\ begun' = [begun EXCEPT ![today] = @ + 1]
      /\ lock' = t /\ pc' = [pc EXCEPT ![t] = "changed"]
      /\ overlapped' = (overlapped \/ ~ Idle)
      /\ grown' = grown \/ grown' = grown \cup walking
      /\ UNCHANGED <<file, today, kept, walking, snapshot, crashes, returned>>
  BY DEF Record, Goes
<1>1. /\ today \in Days /\ begun \in [Days -> 0 .. MaxRecords]
      /\ file \in Counts \cup {Torn} /\ snapshot \in [Threads -> Counts]
      /\ returned \in [Days -> 0 .. MaxRecords] /\ MaxRecords \in Nat
  BY UsageAssumption DEF TypeOK, UsageAssumption
<1>2. /\ entries' \in [Days -> Seq(0 .. MaxRecords)] /\ data' \in Dictionaries
      /\ \A d \in DOMAIN data' : data'[d] \in DOMAIN entries'[d]
      /\ \A d \in Days : DOMAIN entries[d] \subseteq DOMAIN entries'[d]
      /\ \A d \in Days : \A i \in DOMAIN entries'[d] : entries'[d][i] <= begun[d] + (IF d = today THEN 1 ELSE 0)
      /\ \A d \in Days : (IF d \in DOMAIN data' THEN entries'[d][data'[d]] ELSE 0)
                       = (IF d \in DOMAIN data THEN entries[d][data[d]] ELSE 0) + (IF d = today THEN 1 ELSE 0)
  BY RecordCounts
<1>3. \A d \in Days : begun'[d] = begun[d] + (IF d = today THEN 1 ELSE 0)
  BY <1>0, <1>1
<1>4. TypeOK'
  <2>1. begun' \in [Days -> 0 .. MaxRecords] /\ pc' \in [Threads -> {"idle", "picked", "changed", "serialized", "emptied", "written"}]
    BY <1>0, <1>1 DEF TypeOK
  <2>2. walking' \cup grown' \subseteq {u \in Threads : pc'[u] \in {"picked", "changed"}} /\ t \notin walking' \cup grown'
    BY <1>0 DEF TypeOK
  <2>3. \A u \in Threads : Made(kept[u])'
    BY <1>0, <1>2, DictionaryType DEF TypeOK, Made
  <2>4. Made(data)'
    BY <1>2 DEF Made
  <2> QED BY <1>0, <1>2, <2>1, <2>2, <2>3, <2>4 DEF TypeOK
<1>5. EntriesBounded'
  BY <1>2, <1>3 DEF EntriesBounded
<1>6. WritesBounded'
  <2>1. ASSUME NEW d \in Days
        PROVE  CountOf(file', d) <= begun'[d] /\ \A u \in Threads : CountOf(snapshot'[u], d) <= begun'[d]
    <3>1. begun'[d] >= begun[d] /\ begun[d] \in Nat /\ begun'[d] \in Nat
      BY <1>1, <1>3
    <3>2. CountOf(file, d) \in Nat /\ CountOf(file, d) <= begun[d]
      BY <1>1, CountOfType DEF WritesBounded
    <3>3. \A u \in Threads : CountOf(snapshot[u], d) \in Nat /\ CountOf(snapshot[u], d) <= begun[d]
      BY <1>1, CountOfType DEF WritesBounded
    <3> QED BY <1>0, <3>1, <3>2, <3>3
  <2> QED BY <2>1 DEF WritesBounded
<1>7. ReturnedBegan'
  BY <1>0, <1>1, <1>3 DEF ReturnedBegan
<1>8. ASSUME ~ overlapped' PROVE Durable'
  <2>1. Durable /\ \A u \in Threads : pc[u] = "idle"
    BY <1>0, <1>8 DEF Idle
  <2>2. pc'[t] = "changed" /\ \A u \in Threads : u # t => pc'[u] = "idle"
    BY <1>0, <2>1 DEF TypeOK
  <2>3. Complete(Stored)'
    <3>1. ASSUME NEW d \in Days, NotExpired(d)' PROVE begun'[d] <= CountOf(Stored', d)
      <4>1. begun[d] <= CountOf(Stored, d)
        BY <1>0, <2>1, <3>1 DEF Durable, Complete, NotExpired
      <4>2. CountOf(Stored, d) \in 0 .. MaxRecords
        BY StoredCounts, CountOfType
      <4>3. CountOf(Stored', d) = CountOf(Stored, d) + (IF d = today THEN 1 ELSE 0)
        <5>1. CountOf(Stored, d) = IF d \in DOMAIN data THEN entries[d][data[d]] ELSE 0
          BY StoredCounts
        <5>2. CountOf(Stored', d) = IF d \in DOMAIN data' THEN entries'[d][data'[d]] ELSE 0
          BY DEF CountOf, Stored
        <5> QED BY <1>2, <5>1, <5>2
      <4> QED BY <1>1, <1>3, <4>1, <4>2, <4>3
    <3> QED BY <3>1 DEF Complete
  <2>4. FileKeepsReturned'
    <3>1. \A d \in Days : NotExpired(d) => returned[d] <= CountOf(file, d)
      BY <2>1 DEF Durable, FileKeepsReturned
    <3> QED BY <1>0, <3>1 DEF FileKeepsReturned, NotExpired
  <2>5. grown' = {}
    BY <1>0, <2>1 DEF TypeOK
  <2>6. OneBusy' /\ PickedComplete' /\ SnapshotComplete' /\ EmptiedIsEmpty' /\ FileComplete'
    BY <2>2 DEF OneBusy, PickedComplete, SnapshotComplete, EmptiedIsEmpty, FileComplete
  <2> QED BY <2>3, <2>4, <2>5, <2>6 DEF Durable
<1> QED BY <1>4, <1>5, <1>6, <1>7, <1>8

\* The steps that count nothing and save nothing leave the counts as they are.
LEMMA SoundKept ==
    ASSUME Sound, TypeOK', UNCHANGED <<entries, file, snapshot, begun, returned>>
    PROVE  Sound'
BY DEF Sound, EntriesBounded, WritesBounded, ReturnedBegan

LEMMA PickKeepsInv == ASSUME Inv, NEW t \in Threads, NEW keep \in KeepDays, Pick(t, keep) PROVE Inv'
<1> USE DEF Inv
<1> DEFINE S == {e \in DOMAIN data : e >= today - keep}
           part == [d \in S |-> data[d]]
<1>0. /\ pc[t] = "idle" /\ kept' = [kept EXCEPT ![t] = part] /\ pc' = [pc EXCEPT ![t] = "picked"]
      /\ walking' = walking \cup {t} /\ overlapped' = (overlapped \/ ~ Idle)
      /\ UNCHANGED <<entries, data, lock, file, today, grown, snapshot, crashes, begun, returned>>
  BY DEF Pick, Goes
<1>1. part \in Dictionaries /\ Made(part) /\ DOMAIN part = S /\ \A d \in S : part[d] = data[d]
  BY PartOfDictionary DEF Sound, TypeOK
<1> HIDE DEF part, S
<1>2. kept'[t] = part /\ kept' \in [Threads -> Dictionaries] /\ \A u \in Threads : u # t => kept'[u] = kept[u]
  BY <1>0, <1>1 DEF Sound, TypeOK
<1>3. TypeOK'
  <2>1. \A u \in Threads : Made(kept[u])'
    BY <1>0, <1>1, <1>2 DEF Sound, TypeOK, Made
  <2>2. Made(data)'
    BY <1>0 DEF Sound, TypeOK, Made
  <2>3. walking' \cup grown' \subseteq {u \in Threads : pc'[u] \in {"picked", "changed"}}
    BY <1>0 DEF Sound, TypeOK
  <2>4. lock' # None => pc'[lock'] \in {"changed", "serialized", "emptied", "written"} /\ lock' \notin walking' \cup grown'
    BY <1>0 DEF Sound, TypeOK
  <2> QED BY <1>0, <1>2, <2>1, <2>2, <2>3, <2>4 DEF Sound, TypeOK
<1>4. Sound'
  BY <1>0, <1>3, SoundKept
<1>5. ASSUME ~ overlapped' PROVE Durable'
  <2>1. Durable /\ \A u \in Threads : pc[u] = "idle"
    BY <1>0, <1>5 DEF Idle
  <2>2. pc'[t] = "picked" /\ \A u \in Threads : u # t => pc'[u] = "idle"
    BY <1>0, <2>1 DEF Sound, TypeOK
  <2>3. Complete(Stored) /\ Complete(file)
        /\ \A d \in Days : NotExpired(d) => returned[d] <= CountOf(file, d)
    BY <2>1 DEF Durable, FileComplete, FileKeepsReturned
  <2>4. Complete(Stored)' /\ FileComplete' /\ FileKeepsReturned'
    BY <1>0, <2>3 DEF Complete, NotExpired, Stored, FileComplete, FileKeepsReturned
  <2>5. PickedComplete'
    BY <1>0, <1>1, <1>2, <2>2 DEF PickedComplete, NotExpired, S
  <2>6. OneBusy' /\ SnapshotComplete' /\ EmptiedIsEmpty' /\ grown' = {}
    BY <1>0, <2>1, <2>2 DEF Durable, OneBusy, SnapshotComplete, EmptiedIsEmpty
  <2> QED BY <2>4, <2>5, <2>6 DEF Durable
<1> QED BY <1>4, <1>5

\* A thread that clears is the only busy one as long as nothing overlapped.
LEMMA RebindKeepsInv == ASSUME Inv, NEW t \in Threads, Rebind(t) PROVE Inv'
<1> USE DEF Inv
<1>0. /\ pc[t] = "picked" /\ data' = kept[t] /\ kept' = [kept EXCEPT ![t] = Empty]
      /\ pc' = [pc EXCEPT ![t] = "changed"]
      /\ walking' = {u \in walking : pc[u] = "changed"} \cup {t} /\ grown' = grown \ {t}
      /\ UNCHANGED <<entries, lock, file, today, snapshot, crashes, begun, returned, overlapped>>
  BY DEF Rebind, Goes
<1>1. lock # t
  BY <1>0, UsageAssumption DEF Sound, TypeOK, UsageAssumption
<1>2. TypeOK'
  <2>1. /\ kept' \in [Threads -> Dictionaries]
        /\ \A u \in Threads : kept'[u] = IF u = t THEN Empty ELSE kept[u]
    BY <1>0, NoDictionary DEF Sound, TypeOK
  <2>2. \A u \in Threads : Made(kept[u])'
    BY <1>0, <2>1, NoDictionary DEF Sound, TypeOK, Made
  <2>3. data' \in Dictionaries /\ Made(data)'
    BY <1>0 DEF Sound, TypeOK, Made
  <2>4. walking' \cup grown' \subseteq {u \in Threads : pc'[u] \in {"picked", "changed"}}
    BY <1>0 DEF Sound, TypeOK
  <2>5. lock' # None => pc'[lock'] \in {"changed", "serialized", "emptied", "written"} /\ lock' \notin walking' \cup grown'
    BY <1>0, <1>1 DEF Sound, TypeOK
  <2> QED BY <1>0, <2>1, <2>2, <2>3, <2>4, <2>5 DEF Sound, TypeOK
<1>3. Sound'
  BY <1>0, <1>2, SoundKept
<1>4. ASSUME ~ overlapped' PROVE Durable'
  <2>1. Durable
    BY <1>0, <1>4
  <2>2. \A u \in Threads : u # t => pc[u] = "idle"
    BY <1>0, <2>1 DEF Durable, OneBusy
  <2>3. pc'[t] = "changed" /\ \A u \in Threads : u # t => pc'[u] = "idle"
    BY <1>0, <2>2 DEF Sound, TypeOK
  <2>4. ASSUME NEW d \in Days, NotExpired(d)' PROVE begun'[d] <= CountOf(Stored', d)
    <3>1. NotExpired(d) /\ begun[d] <= CountOf(Stored, d) /\ begun'[d] = begun[d] /\ begun[d] \in Nat
      BY <1>0, <2>1, <2>4 DEF NotExpired, Durable, Complete, Sound, TypeOK
    <3>2. CountOf(Stored, d) = IF d \in DOMAIN data THEN entries[d][data[d]] ELSE 0
      BY StoredCounts DEF Sound
    <3>3. CountOf(Stored', d) = IF d \in DOMAIN data' THEN entries[d][data'[d]] ELSE 0
      BY <1>0 DEF CountOf, Stored
    <3>4. CASE d \in DOMAIN data
      <4>1. d \in DOMAIN kept[t] /\ kept[t][d] = data[d]
        BY <1>0, <2>1, <3>1, <3>4 DEF Durable, PickedComplete
      <4> QED BY <1>0, <3>1, <3>2, <3>3, <3>4, <4>1
    <3>5. CASE d \notin DOMAIN data
      <4>1. begun[d] = 0
        BY <3>1, <3>2, <3>5
      <4>2. CountOf(Stored', d) \in 0 .. MaxRecords
        <5>1. d \in DOMAIN data' => data'[d] \in DOMAIN entries[d] /\ entries[d] \in Seq(0 .. MaxRecords)
          BY <1>0, <1>2 DEF Sound, TypeOK, Made
        <5> QED BY <3>3, <5>1, UsageAssumption DEF UsageAssumption
      <4> QED BY <3>1, <4>1, <4>2
    <3> QED BY <3>4, <3>5
  <2>5. Complete(Stored)'
    BY <2>4 DEF Complete
  <2>6. \A d \in Days : NotExpired(d) => returned[d] <= CountOf(file, d)
    BY <1>0, <2>1, <2>2 DEF Durable, FileKeepsReturned
  <2>7. FileKeepsReturned'
    BY <1>0, <2>6 DEF FileKeepsReturned, NotExpired
  <2>8. OneBusy' /\ PickedComplete' /\ SnapshotComplete' /\ EmptiedIsEmpty' /\ FileComplete' /\ grown' = {}
    BY <1>0, <2>1, <2>3 DEF Durable, OneBusy, PickedComplete, SnapshotComplete, EmptiedIsEmpty, FileComplete
  <2> QED BY <2>5, <2>7, <2>8 DEF Durable
<1> QED BY <1>3, <1>4

\* No walk fails unless something ran beside it.
LEMMA WalkFailsKeepsInv == ASSUME Inv, NEW t \in Threads, WalkFails(t) PROVE Inv'
<1> USE DEF Inv
<1>0. /\ t \in grown /\ kept' = [kept EXCEPT ![t] = Empty] /\ pc' = [pc EXCEPT ![t] = "idle"]
      /\ walking' = walking \ {t} /\ grown' = grown \ {t}
      /\ UNCHANGED <<entries, data, lock, file, today, snapshot, crashes, begun, returned, overlapped>>
  BY DEF WalkFails, Goes
<1>1. TypeOK'
  <2>1. /\ kept' \in [Threads -> Dictionaries]
        /\ \A u \in Threads : kept'[u] = IF u = t THEN Empty ELSE kept[u]
    BY <1>0, NoDictionary DEF Sound, TypeOK
  <2>2. (\A u \in Threads : Made(kept[u])') /\ Made(data)'
    BY <1>0, <2>1, NoDictionary DEF Sound, TypeOK, Made
  <2>3. walking' \cup grown' \subseteq {u \in Threads : pc'[u] \in {"picked", "changed"}}
    BY <1>0 DEF Sound, TypeOK
  <2>4. lock' # None => pc'[lock'] \in {"changed", "serialized", "emptied", "written"} /\ lock' \notin walking' \cup grown'
    BY <1>0 DEF Sound, TypeOK
  <2> QED BY <1>0, <2>1, <2>2, <2>3, <2>4 DEF Sound, TypeOK
<1>2. Sound'
  BY <1>0, <1>1, SoundKept
<1>3. ASSUME ~ overlapped' PROVE FALSE
  BY <1>0, <1>3 DEF Durable
<1> QED BY <1>2, <1>3

LEMMA SerializeKeepsInv == ASSUME Inv, NEW t \in Threads, Serialize(t) PROVE Inv'
<1> USE DEF Inv
<1>0. /\ pc[t] = "changed" /\ snapshot' = [snapshot EXCEPT ![t] = Stored]
      /\ pc' = [pc EXCEPT ![t] = "serialized"] /\ walking' = walking \ {t} /\ grown' = grown \ {t}
      /\ UNCHANGED <<entries, data, lock, file, today, kept, crashes, begun, returned, overlapped>>
  BY DEF Serialize, Goes
<1>1. Stored \in Counts /\ \A d \in Days : CountOf(Stored, d) = IF d \in DOMAIN data THEN entries[d][data[d]] ELSE 0
  BY StoredCounts DEF Sound
<1>2. TypeOK'
  <2>1. (\A u \in Threads : Made(kept[u])') /\ Made(data)'
    BY <1>0 DEF Sound, TypeOK, Made
  <2>2. walking' \cup grown' \subseteq {u \in Threads : pc'[u] \in {"picked", "changed"}}
    BY <1>0 DEF Sound, TypeOK
  <2>3. lock' # None => pc'[lock'] \in {"changed", "serialized", "emptied", "written"} /\ lock' \notin walking' \cup grown'
    BY <1>0 DEF Sound, TypeOK
  <2> QED BY <1>0, <1>1, <2>1, <2>2, <2>3 DEF Sound, TypeOK
<1>3. snapshot'[t] = Stored /\ \A u \in Threads : u # t => snapshot'[u] = snapshot[u]
  BY <1>0 DEF Sound, TypeOK
<1>4. Sound'
  <2>1. ASSUME NEW d \in Days PROVE CountOf(Stored, d) <= begun[d]
    <3>1. d \in DOMAIN data => data[d] \in DOMAIN entries[d]
      BY DEF Sound, TypeOK, Made
    <3>2. begun[d] \in Nat
      BY DEF Sound, TypeOK
    <3> QED BY <1>1, <3>1, <3>2 DEF Sound, EntriesBounded
  <2>2. WritesBounded'
    BY <1>0, <1>3, <2>1 DEF Sound, WritesBounded
  <2>3. EntriesBounded' /\ ReturnedBegan'
    BY <1>0 DEF Sound, EntriesBounded, ReturnedBegan
  <2> QED BY <1>2, <2>2, <2>3 DEF Sound
<1>5. ASSUME ~ overlapped' PROVE Durable'
  <2>1. Durable
    BY <1>0, <1>5
  <2>2. \A u \in Threads : u # t => pc[u] = "idle"
    BY <1>0, <2>1 DEF Durable, OneBusy
  <2>3. pc'[t] = "serialized" /\ \A u \in Threads : u # t => pc'[u] = "idle"
    BY <1>0, <2>2 DEF Sound, TypeOK
  <2>4. Complete(Stored)' /\ SnapshotComplete'
    BY <1>0, <1>3, <2>1, <2>3 DEF Durable, Complete, Stored, SnapshotComplete, NotExpired
  <2>5. \A d \in Days : NotExpired(d) => returned[d] <= CountOf(file, d)
    BY <1>0, <2>1, <2>2 DEF Durable, FileKeepsReturned
  <2>6. FileKeepsReturned'
    BY <1>0, <2>5 DEF FileKeepsReturned, NotExpired
  <2>7. OneBusy' /\ PickedComplete' /\ EmptiedIsEmpty' /\ FileComplete' /\ grown' = {}
    BY <1>0, <2>1, <2>3 DEF Durable, OneBusy, PickedComplete, EmptiedIsEmpty, FileComplete
  <2> QED BY <2>4, <2>6, <2>7 DEF Durable
<1> QED BY <1>4, <1>5

\* From here on the store's dictionaries are left alone.
LEMMA DictionariesKept ==
    ASSUME TypeOK, UNCHANGED <<entries, data, walks>>
    PROVE  /\ data' \in Dictionaries /\ Made(data)'
           /\ kept' \in [Threads -> Dictionaries] /\ \A t \in Threads : Made(kept[t])'
BY DEF TypeOK, Made, walks

LEMMA OpenKeepsInv == ASSUME Inv, NEW t \in Threads, Open(t) PROVE Inv'
<1> USE DEF Inv
<1>0. /\ pc[t] = "serialized" /\ file' = Empty /\ pc' = [pc EXCEPT ![t] = "emptied"]
      /\ UNCHANGED <<entries, data, lock, today, walks, kept, walking, grown, snapshot, crashes, begun, returned, overlapped>>
  BY DEF Open, Goes, walks
<1>1. TypeOK'
  BY <1>0, EmptyCounts, DictionariesKept DEF Sound, TypeOK
<1>2. Sound'
  <2>1. \A d \in Days : CountOf(file', d) = 0 /\ 0 <= begun[d]
    BY <1>0, EmptyCounts DEF Sound, TypeOK
  <2> QED BY <1>0, <1>1, <2>1 DEF Sound, EntriesBounded, WritesBounded, ReturnedBegan
<1>3. ASSUME ~ overlapped' PROVE Durable'
  <2>1. Durable
    BY <1>0, <1>3
  <2>2. \A u \in Threads : u # t => pc[u] = "idle"
    BY <1>0, <2>1 DEF Durable, OneBusy
  <2>3. pc'[t] = "emptied" /\ \A u \in Threads : u # t => pc'[u] = "idle"
    BY <1>0, <2>2 DEF Sound, TypeOK
  <2>4. Complete(Stored)' /\ SnapshotComplete'
    BY <1>0, <2>1, <2>3 DEF Durable, Complete, Stored, SnapshotComplete, NotExpired
  <2>5. OneBusy' /\ PickedComplete' /\ EmptiedIsEmpty' /\ FileComplete' /\ FileKeepsReturned' /\ grown' = {}
    BY <1>0, <2>1, <2>3 DEF Durable, OneBusy, PickedComplete, EmptiedIsEmpty, FileComplete, FileKeepsReturned
  <2> QED BY <2>4, <2>5 DEF Durable
<1> QED BY <1>2, <1>3

LEMMA WriteKeepsInv == ASSUME Inv, NEW t \in Threads, Write(t) PROVE Inv'
<1> USE DEF Inv
<1>0. /\ pc[t] = "emptied"
      /\ file' = IF Cardinality(DOMAIN snapshot[t]) >= Cardinality(DOMAIN file) THEN snapshot[t] ELSE Torn
      /\ snapshot' = [snapshot EXCEPT ![t] = Empty] /\ pc' = [pc EXCEPT ![t] = "written"]
      /\ UNCHANGED <<entries, data, lock, today, walks, kept, walking, grown, crashes, begun, returned, overlapped>>
  BY DEF Write, Goes, walks
<1>1. TypeOK'
  BY <1>0, EmptyCounts, DictionariesKept DEF Sound, TypeOK
<1>2. Sound'
  <2>1. ASSUME NEW d \in Days PROVE CountOf(file', d) <= begun[d]
    BY <1>0, EmptyCounts DEF Sound, WritesBounded, TypeOK
  <2>2. ASSUME NEW d \in Days, NEW u \in Threads PROVE CountOf(snapshot'[u], d) <= begun[d]
    <3>1. snapshot'[u] = IF u = t THEN Empty ELSE snapshot[u]
      BY <1>0 DEF Sound, TypeOK
    <3> QED BY <3>1, EmptyCounts DEF Sound, WritesBounded, TypeOK
  <2> QED BY <1>0, <1>1, <2>1, <2>2 DEF Sound, EntriesBounded, WritesBounded, ReturnedBegan
<1>3. ASSUME ~ overlapped' PROVE Durable'
  <2>1. Durable
    BY <1>0, <1>3
  <2>2. \A u \in Threads : u # t => pc[u] = "idle"
    BY <1>0, <2>1 DEF Durable, OneBusy
  <2>3. pc'[t] = "written" /\ \A u \in Threads : u # t => pc'[u] = "idle"
    BY <1>0, <2>2 DEF Sound, TypeOK
  <2>4. file' = snapshot[t]
    <3>1. file = Empty /\ snapshot[t] \in Counts
      BY <1>0, <2>1 DEF Durable, EmptiedIsEmpty, Sound, TypeOK
    <3> QED BY <1>0, <3>1, WrittenWhole
  <2>5. Complete(snapshot[t]) /\ Complete(Stored)
    BY <1>0, <2>1 DEF Durable, SnapshotComplete
  <2>6. Complete(Stored)' /\ FileComplete'
    BY <1>0, <2>4, <2>5 DEF Complete, Stored, NotExpired, FileComplete
  <2>7. FileKeepsReturned'
    <3>1. ASSUME NEW d \in Days, NotExpired(d)' PROVE returned'[d] <= CountOf(file', d)
      <4>1. begun[d] <= CountOf(snapshot[t], d) /\ returned[d] <= begun[d]
        BY <1>0, <2>5, <3>1 DEF Complete, NotExpired, Sound, ReturnedBegan
      <4>2. CountOf(snapshot[t], d) \in Int /\ begun[d] \in Int /\ returned[d] \in Int
        BY CountOfType DEF Sound, TypeOK
      <4> QED BY <1>0, <2>4, <4>1, <4>2
    <3> QED BY <3>1 DEF FileKeepsReturned
  <2>8. OneBusy' /\ PickedComplete' /\ SnapshotComplete' /\ EmptiedIsEmpty' /\ grown' = {}
    BY <1>0, <2>1, <2>3 DEF Durable, OneBusy, PickedComplete, SnapshotComplete, EmptiedIsEmpty
  <2> QED BY <2>6, <2>7, <2>8 DEF Durable
<1> QED BY <1>2, <1>3

LEMMA LeaveKeepsInv == ASSUME Inv, NEW t \in Threads, Leave(t) PROVE Inv'
<1> USE DEF Inv
<1>0. /\ pc[t] = "written" /\ lock' = (IF lock = t THEN None ELSE lock)
      /\ returned' = (IF lock = t THEN begun ELSE returned) /\ pc' = [pc EXCEPT ![t] = "idle"]
      /\ UNCHANGED <<entries, data, file, today, walks, kept, walking, grown, snapshot, crashes, begun, overlapped>>
  BY DEF Leave, Goes, walks
<1>1. TypeOK'
  BY <1>0, DictionariesKept DEF Sound, TypeOK
<1>2. Sound'
  BY <1>0, <1>1 DEF Sound, EntriesBounded, WritesBounded, ReturnedBegan, TypeOK
<1>3. ASSUME ~ overlapped' PROVE Durable'
  <2>1. Durable
    BY <1>0, <1>3
  <2>2. \A u \in Threads : u # t => pc[u] = "idle"
    BY <1>0, <2>1 DEF Durable, OneBusy
  <2>3. \A u \in Threads : pc'[u] = "idle"
    BY <1>0, <2>2 DEF Sound, TypeOK
  <2>4. Complete(Stored) /\ Complete(file) /\ \A d \in Days : NotExpired(d) => returned[d] <= CountOf(file, d)
    BY <1>0, <2>1, <2>2 DEF Durable, FileComplete, FileKeepsReturned
  <2>5. Complete(Stored)' /\ FileComplete' /\ FileKeepsReturned'
    BY <1>0, <2>4 DEF Complete, Stored, NotExpired, FileComplete, FileKeepsReturned
  <2>6. OneBusy' /\ PickedComplete' /\ SnapshotComplete' /\ EmptiedIsEmpty' /\ grown' = {}
    BY <1>0, <2>1, <2>3 DEF Durable, OneBusy, PickedComplete, SnapshotComplete, EmptiedIsEmpty
  <2> QED BY <2>5, <2>6 DEF Durable
<1> QED BY <1>2, <1>3

\* A new day only makes days expire.
LEMMA NewDayKeepsInv == ASSUME Inv, NewDay PROVE Inv'
<1> USE DEF Inv
<1>0. /\ today < MaxDay /\ today' = today + 1
      /\ UNCHANGED <<entries, data, lock, file, pc, walks, kept, walking, grown, snapshot, crashes, begun, returned, overlapped>>
  BY DEF NewDay, walks
<1>1. TypeOK'
  <2>1. today' \in Days
    BY <1>0, UsageAssumption DEF Sound, TypeOK, Days, UsageAssumption
  <2> QED BY <1>0, <2>1, DictionariesKept DEF Sound, TypeOK
<1>2. Sound'
  BY <1>0, <1>1, SoundKept
<1>3. \A d \in Days : NotExpired(d)' => NotExpired(d)
  BY <1>0, UsageAssumption DEF NotExpired, Sound, TypeOK, Days, UsageAssumption
<1>4. ASSUME ~ overlapped' PROVE Durable'
  <2>1. Durable
    BY <1>0, <1>4
  <2>2. \A c : Complete(c) => \A d \in Days : NotExpired(d)' => begun'[d] <= CountOf(c, d)
    BY <1>0, <1>3 DEF Complete
  <2>3. Stored' = Stored
    BY <1>0 DEF Stored
  <2>4. Complete(Stored)' /\ SnapshotComplete' /\ FileComplete'
    BY <1>0, <2>1, <2>2, <2>3 DEF Durable, Complete, SnapshotComplete, FileComplete
  <2>5. DOMAIN data \in SUBSET Days
    BY DictionaryType DEF Sound, TypeOK
  <2>6. PickedComplete'
    BY <1>0, <1>3, <2>1, <2>5 DEF Durable, PickedComplete
  <2>7. OneBusy' /\ EmptiedIsEmpty' /\ FileKeepsReturned' /\ grown' = {}
    BY <1>0, <1>3, <2>1 DEF Durable, OneBusy, EmptiedIsEmpty, FileKeepsReturned
  <2> QED BY <2>4, <2>6, <2>7 DEF Durable
<1> QED BY <1>2, <1>4

\* The next process has what the file has.
LEMMA LoadCounts ==
    ASSUME NEW c \in Counts \cup {Torn}
    PROVE  Load(c) \in Counts /\ \A d \in Days : CountOf(Load(c), d) = CountOf(c, d)
BY EmptyCounts DEF Load

LEMMA CrashKeepsInv ==
    ASSUME Inv, Crash
    PROVE  Inv' /\ \A d \in Days : CountOf(Stored', d) = CountOf(file, d)
<1> USE DEF Inv
<1> DEFINE c == Load(file)
<1>0. /\ crashes < MaxCrashes /\ crashes' = crashes + 1 /\ lock' = None
      /\ data' = [d \in DOMAIN c |-> 1]
      /\ entries' = [d \in Days |-> IF d \in DOMAIN c THEN <<c[d]>> ELSE <<>>]
      /\ pc' = [t \in Threads |-> "idle"] /\ kept' = [t \in Threads |-> Empty]
      /\ walking' = {} /\ grown' = {} /\ snapshot' = [t \in Threads |-> Empty]
      /\ begun' = [d \in Days |-> CountOf(c, d)] /\ returned' = begun' /\ overlapped' = FALSE
      /\ UNCHANGED <<file, today>>
  BY DEF Crash
<1>1. file \in Counts \cup {Torn}
  BY DEF Sound, TypeOK
<1>2. c \in Counts /\ \A d \in Days : CountOf(c, d) = CountOf(file, d) /\ CountOf(c, d) \in 0 .. MaxRecords
  BY <1>1, LoadCounts, CountOfType
<1> HIDE DEF c
<1>3. DOMAIN c \in SUBSET Days /\ \A d \in DOMAIN c : c[d] \in 0 .. MaxRecords
  BY <1>2, CountsType
<1>4. \A d \in Days : entries'[d] = IF d \in DOMAIN c THEN <<c[d]>> ELSE <<>>
  BY <1>0
<1>5. \A d \in DOMAIN c : entries'[d] = <<c[d]>> /\ entries'[d] \in Seq(0 .. MaxRecords) /\ DOMAIN entries'[d] = {1}
                          /\ entries'[d][1] = c[d]
  <2>1. ASSUME NEW d \in DOMAIN c, NEW x \in 0 .. MaxRecords, x = c[d]
        PROVE  <<x>> \in Seq(0 .. MaxRecords) /\ DOMAIN <<x>> = {1} /\ <<x>>[1] = x
    OBVIOUS
  <2> QED BY <1>3, <1>4, <2>1
<1>6. \A d \in Days \ DOMAIN c : entries'[d] = <<>> /\ entries'[d] \in Seq(0 .. MaxRecords) /\ DOMAIN entries'[d] = {}
  <2>1. <<>> \in Seq(0 .. MaxRecords) /\ DOMAIN <<>> = {}
    OBVIOUS
  <2> QED BY <1>4, <2>1
<1>7. entries' \in [Days -> Seq(0 .. MaxRecords)]
  <2>1. \A d \in Days : entries'[d] \in Seq(0 .. MaxRecords)
    BY <1>5, <1>6
  <2> QED BY <1>0, <2>1
<1>8. DOMAIN data' = DOMAIN c /\ data' = [d \in DOMAIN data' |-> data'[d]] /\ \A d \in DOMAIN c : data'[d] = 1
  BY <1>0
<1>9. TypeOK'
  <2>1. data' \in Dictionaries
    BY <1>3, <1>8, DictionaryType
  <2>2. Made(data)'
    BY <1>5, <1>8 DEF Made
  <2>3. kept' \in [Threads -> Dictionaries] /\ \A t \in Threads : Made(kept[t])'
    BY <1>0, NoDictionary DEF Made, Empty
  <2>4. crashes' \in 0 .. MaxCrashes /\ begun' \in [Days -> 0 .. MaxRecords]
    BY <1>0, <1>2, UsageAssumption DEF Sound, TypeOK, UsageAssumption
  <2> QED BY <1>0, <1>7, <2>1, <2>2, <2>3, <2>4, EmptyCounts DEF Sound, TypeOK
<1>10. \A d \in Days : CountOf(Stored', d) = CountOf(c, d)
  <2>1. \A d \in Days : CountOf(Stored', d) = IF d \in DOMAIN data' THEN entries'[d][data'[d]] ELSE 0
    BY DEF CountOf, Stored
  <2> QED BY <1>5, <1>8, <2>1 DEF CountOf
<1>11. \A d \in Days : begun'[d] = CountOf(c, d) /\ begun'[d] = CountOf(file', d) /\ begun'[d] \in Nat
  BY <1>0, <1>2
<1>12. EntriesBounded'
  <2>1. \A d \in DOMAIN c : begun'[d] = c[d] /\ c[d] <= c[d]
    BY <1>3, <1>11 DEF CountOf
  <2> QED BY <1>5, <1>6, <2>1 DEF EntriesBounded
<1>13. WritesBounded' /\ ReturnedBegan'
  BY <1>0, <1>11, EmptyCounts DEF WritesBounded, ReturnedBegan
<1>14. Durable'
  <2>1. Complete(Stored)' /\ FileComplete' /\ FileKeepsReturned'
    BY <1>0, <1>10, <1>11 DEF Complete, FileComplete, FileKeepsReturned
  <2>2. OneBusy' /\ PickedComplete' /\ SnapshotComplete' /\ EmptiedIsEmpty' /\ grown' = {}
    BY <1>0 DEF OneBusy, PickedComplete, SnapshotComplete, EmptiedIsEmpty
  <2> QED BY <2>1, <2>2 DEF Durable
<1> QED BY <1>2, <1>9, <1>10, <1>12, <1>13, <1>14 DEF Sound

LEMMA NextInv == Inv /\ [Next]_vars => Inv'
<1> SUFFICES ASSUME Inv, [Next]_vars PROVE Inv'
  OBVIOUS
<1>1. ASSUME NEW t \in Threads, Record(t) \/ (\E keep \in KeepDays : Pick(t, keep)) \/ Work(t) PROVE Inv'
  BY <1>1, RecordKeepsInv, PickKeepsInv, RebindKeepsInv, WalkFailsKeepsInv, SerializeKeepsInv,
     OpenKeepsInv, WriteKeepsInv, LeaveKeepsInv DEF Work
<1>2. CASE NewDay
  BY <1>2, NewDayKeepsInv
<1>3. CASE Crash
  BY <1>3, CrashKeepsInv
<1>4. CASE UNCHANGED vars
  <2>1. /\ entries' = entries /\ data' = data /\ lock' = lock /\ file' = file /\ today' = today /\ pc' = pc
        /\ kept' = kept /\ walking' = walking /\ grown' = grown /\ snapshot' = snapshot
        /\ crashes' = crashes /\ begun' = begun /\ returned' = returned /\ overlapped' = overlapped
    BY <1>4 DEF vars, walks
  <2>2. TypeOK' <=> TypeOK
    BY <2>1 DEF TypeOK, Made
  <2>3. Stored' = Stored
    BY <2>1 DEF Stored
  <2>4. \A d : NotExpired(d)' <=> NotExpired(d)
    BY <2>1 DEF NotExpired
  <2>5. EntriesBounded' /\ WritesBounded' /\ ReturnedBegan'
    BY <2>1 DEF Inv, Sound, EntriesBounded, WritesBounded, ReturnedBegan
  <2>6. (OneBusy' <=> OneBusy) /\ (EmptiedIsEmpty' <=> EmptiedIsEmpty) /\ (Complete(Stored)' <=> Complete(Stored))
    BY <2>1, <2>3, <2>4 DEF OneBusy, EmptiedIsEmpty, Complete
  <2>7. (PickedComplete' <=> PickedComplete) /\ (SnapshotComplete' <=> SnapshotComplete)
    BY <2>1, <2>4 DEF PickedComplete, SnapshotComplete, Complete
  <2>8. (FileComplete' <=> FileComplete) /\ (FileKeepsReturned' <=> FileKeepsReturned)
    BY <2>1, <2>4 DEF FileComplete, FileKeepsReturned, Complete
  <2> QED BY <2>1, <2>2, <2>5, <2>6, <2>7, <2>8 DEF Inv, Sound, Durable
<1> QED BY <1>1, <1>2, <1>3, <1>4 DEF Next

LEMMA InvAlways == Spec => []Inv
BY InitInv, NextInv, PTL DEF Spec
-----------------------------------------------------------------------------
\* The store's dictionaries and counts, its file and its lock keep their types.
THEOREM TypeCorrect == Spec => []TypeOK
<1>1. Inv => TypeOK
  BY DEF Inv, Sound
<1> QED BY <1>1, InvAlways, PTL

\* Nowhere is there a count of more requests than were recorded that day.
THEOREM CountsCorrect == Spec => []NothingInvented
<1>1. Inv => NothingInvented
  <2> SUFFICES ASSUME Inv, NEW d \in Days
               PROVE  /\ CountOf(Stored, d) <= begun[d] /\ CountOf(file, d) <= begun[d]
                      /\ \A t \in Threads : CountOf(snapshot[t], d) <= begun[d]
    BY DEF NothingInvented
  <2>1. CountOf(Stored, d) = IF d \in DOMAIN data THEN entries[d][data[d]] ELSE 0
    BY StoredCounts DEF Inv, Sound
  <2>2. (d \in DOMAIN data => data[d] \in DOMAIN entries[d]) /\ begun[d] \in Nat
    BY DEF Inv, Sound, TypeOK, Made
  <2> QED BY <2>1, <2>2 DEF Inv, Sound, EntriesBounded, WritesBounded
<1> QED BY <1>1, InvAlways, PTL

\* A kill outside a file write, of a process in which no two calls ran beside
\* each other, loses no request that record() returned for, on any day that no
\* clear_expired() removes.
THEOREM KillLosesNothing == Spec => UndisturbedIsDurable
<1>1. Inv /\ [Next]_vars =>
          [ Crash /\ ~ overlapped /\ (\A t \in Threads : pc[t] # "emptied")
              => \A d \in Days : NotExpired(d) => returned[d] <= CountOf(Stored', d) ]_vars
  <2> SUFFICES ASSUME Inv, Crash, ~ overlapped, \A t \in Threads : pc[t] # "emptied",
                      NEW d \in Days, NotExpired(d)
               PROVE  returned[d] <= CountOf(Stored', d)
    OBVIOUS
  <2>1. returned[d] <= CountOf(file, d)
    BY DEF Inv, Durable, FileKeepsReturned
  <2> QED BY <2>1, CrashKeepsInv
<1> QED BY <1>1, InvAlways, PTL DEF Spec, UndisturbedIsDurable
=============================================================================
