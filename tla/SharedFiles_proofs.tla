------------------------- MODULE SharedFiles_proofs -------------------------
(***************************************************************************)
(* The files that overlapping processes share, for any set of processes:   *)
(* the API keys, of any number, with any limit; the usage ledger, over any *)
(* number of days and requests; and the account pool, with its snapshot in *)
(* Redis, of any accounts.                                                 *)
(***************************************************************************)
EXTENDS MCSharedFiles, Totals, FiniteSetTheorems, TLAPS

-----------------------------------------------------------------------------
(* The API keys.  A process that runs has cached some version of the file; *)
(* the cache is current when its time is the file's, and the holder of the *)
(* file's lock has the current one, changed by a check that still holds.   *)

Infos == {Info(f) : f \in Files}
Phases == {"off", "up", "changing", "resolving"}
Stores == [st : Phases, keys : [Keys -> States], info : Infos \cup {None},
           key : Keys \cup {None}, to : States \cup {None}]

KeysTypeOK ==
  /\ file \in Files \cup {None}
  /\ proc \in [Procs -> Stores]
  /\ truth \in [Keys -> States]
  /\ seen \in [Procs -> SUBSET States]

Cached ==
  \A p \in Procs : proc[p].st # "off" =>
    /\ file # None
    /\ proc[p].info \in Infos
    /\ proc[p].info.time <= file.time
    /\ proc[p].info.time = file.time => proc[p].keys = file.keys

\* One change at a time, of the current keys, which its checks have allowed.
OneChange ==
  /\ \A p, q \in LockHolders : p = q
  /\ \A p \in LockHolders :
       /\ proc[p].keys = file.keys /\ proc[p].key \in Keys /\ proc[p].to \in States
       /\ \/ proc[p].to = "gone"
          \/ proc[p].key \in Live(file.keys)
          \/ Cardinality(Live(file.keys)) < MaxKeys

Limited ==
  /\ file = None => truth = NoKeys
  /\ file # None => file.keys = truth
  /\ IsFiniteSet(Live(truth)) /\ Cardinality(Live(truth)) <= MaxKeys

\* A check under way reads a version that was current since it began.
Watched ==
  \A p \in Procs : proc[p].st = "resolving" =>
    proc[p].key \in Keys /\ proc[p].keys[proc[p].key] \in seen[p]

KeysInv == KeysTypeOK /\ Cached /\ OneChange /\ Limited /\ Watched

\* The next version of the file is a later one.
LEMMA WrittenFile ==
  ASSUME file \in Files \cup {None}, NEW keys, keys \in [Keys -> States]
  PROVE  /\ Written(keys) \in Files /\ Written(keys) # None /\ Written(keys).keys = keys
         /\ file # None => Written(keys).time = file.time + 1
BY KeysAssumption DEF Written, Files

\* What a process remembers of the key file is made of the file.
LEMMA InfoOfFile ==
  ASSUME NEW f, f \in Files
  PROVE  Info(f) \in Infos /\ Info(f).time = f.time
BY DEF Info, Infos

\* A refresh leaves the current version in the cache.
LEMMA RefreshedStore ==
  ASSUME KeysTypeOK, Cached, NEW p \in Procs, proc[p].st # "off"
  PROVE  /\ Refreshed(proc[p]) = Cache(file.keys, file)
         /\ file \in Files /\ file.keys \in [Keys -> States]
<1>1. proc[p] \in Stores /\ file \in Files
  BY DEF KeysTypeOK, Cached
<1>2. file.keys \in [Keys -> States]
  BY <1>1 DEF Files
<1>3. CASE Unchanged(proc[p].info)
  <2>1. proc[p].info = Info(file)
    BY <1>3 DEF Unchanged
  <2>2. proc[p].keys = file.keys
    BY <1>1, <2>1, InfoOfFile DEF Cached
  <2>3. QED
    BY <1>1, <1>2, <1>3, <2>1, <2>2 DEF Refreshed, Cache
<1>4. CASE ~ Unchanged(proc[p].info)
  BY <1>1, <1>2, <1>4 DEF Refreshed
<1>5. QED
  BY <1>3, <1>4

-----------------------------------------------------------------------------
(* The invariant holds initially, and each operation keeps it.             *)

\* The invariant of the key files holds when the stores are opened.
LEMMA KeysInit == Init => KeysInv
<1> SUFFICES ASSUME Init PROVE KeysInv
  OBVIOUS
<1>1. NoKeys \in [Keys -> States] /\ Live(NoKeys) = {}
  BY DEF NoKeys, States, Live
<1>2. KeysTypeOK
  BY <1>1 DEF Init, KeysTypeOK, Off, Stores, Phases
<1>3. \A p \in Procs : proc[p].st = "off"
  BY DEF Init, Off
<1>4. LockHolders = {}
  BY <1>3 DEF LockHolders
<1>5. Limited
  BY <1>1, FS_EmptySet, LimitAssumption DEF Init, Limited
<1>6. QED
  BY <1>2, <1>3, <1>4, <1>5 DEF KeysInv, Cached, OneChange, Watched

\* Reading the file into a process keeps it.
LEMMA KeysOpen ==
  ASSUME KeysInv, NEW p \in Procs, Open(p)
  PROVE  KeysInv'
<1>1. /\ LockHolders = {} /\ proc[p].st = "off" /\ seen' = seen
      /\ KeysTypeOK /\ Cached /\ Limited /\ Watched
  BY DEF Open, KeysInv
<1> DEFINE Up(keys, info) == [st |-> "up", keys |-> keys, info |-> info, key |-> None, to |-> None]
<1>2. CASE file # None
  <2>1. file' = file /\ truth' = truth /\ proc' = [proc EXCEPT ![p] = Up(file.keys, Info(file))]
    BY <1>2 DEF Open, Doing, Cache
  <2>2. file \in Files /\ file.keys \in [Keys -> States] /\ Info(file) \in Infos
        /\ Info(file).time = file.time
    BY <1>1, <1>2, InfoOfFile DEF KeysTypeOK, Files
  <2>3. KeysTypeOK'
    BY <1>1, <2>1, <2>2 DEF KeysTypeOK, Stores, Phases
  <2>4. Cached'
    BY <1>1, <1>2, <2>1, <2>2 DEF KeysTypeOK, Cached, Files
  <2>5. LockHolders' = {}
    BY <1>1, <2>1 DEF LockHolders, KeysTypeOK
  <2>6. Watched'
    BY <1>1, <2>1 DEF Watched, KeysTypeOK
  <2>7. Limited'
    BY <1>1, <2>1 DEF Limited
  <2>8. QED
    BY <2>3, <2>4, <2>5, <2>6, <2>7 DEF KeysInv, OneChange
<1>3. CASE file = None
  <2> DEFINE keys == [NoKeys EXCEPT ![Legacy] = "on"]
  <2>1. /\ file' = Written(keys) /\ truth' = keys
        /\ proc' = [proc EXCEPT ![p] = Up(keys, Info(Written(keys)))]
    BY <1>3 DEF Open, Doing, Cache
  <2>2. keys \in [Keys -> States] /\ Live(keys) = {Legacy}
    BY KeysAssumption DEF NoKeys, States, Live
  <2> HIDE DEF keys
  <2>3. /\ Written(keys) \in Files /\ Written(keys) # None /\ Written(keys).keys = keys
        /\ Info(Written(keys)) \in Infos
        /\ Info(Written(keys)).time = Written(keys).time /\ Written(keys).time \in Nat
    BY <1>1, <2>2, WrittenFile, InfoOfFile DEF KeysTypeOK, Files
  <2>4. \A q \in Procs : proc[q].st = "off"
    BY <1>1, <1>3 DEF Cached
  <2>5. KeysTypeOK'
    BY <1>1, <2>1, <2>2, <2>3 DEF KeysTypeOK, Stores, Phases
  <2>6. Cached'
    BY <1>1, <2>1, <2>3, <2>4 DEF KeysTypeOK, Cached
  <2>7. LockHolders' = {}
    BY <1>1, <2>1 DEF LockHolders, KeysTypeOK
  <2>8. Watched'
    BY <1>1, <2>1 DEF Watched, KeysTypeOK
  <2>9. Limited'
    <3>1. IsFiniteSet({Legacy}) /\ Cardinality({Legacy}) = 1
      BY FS_Singleton
    <3>2. QED
      BY <2>1, <2>2, <2>3, <3>1, LimitAssumption DEF Limited
  <2>10. QED
    BY <2>5, <2>6, <2>7, <2>8, <2>9 DEF KeysInv, OneChange
<1>4. QED
  BY <1>2, <1>3

\* A process that goes on without the lock of the file, and leaves the file alone.
LEMMA KeysIdle ==
  ASSUME KeysInv, NEW p \in Procs, NEW r, r \in Stores, r.st # "changing",
         proc' = [proc EXCEPT ![p] = r], UNCHANGED <<file, truth>>,
         seen' \in [Procs -> SUBSET States],
         r.st # "off" => /\ file # None /\ r.info \in Infos /\ r.info.time <= file.time
                         /\ r.info.time = file.time => r.keys = file.keys
  PROVE  KeysTypeOK' /\ Cached' /\ OneChange' /\ Limited'
<1>1. KeysTypeOK /\ Cached /\ OneChange /\ Limited
  BY DEF KeysInv
<1>2. proc'[p] = r /\ \A q \in Procs \ {p} : proc'[q] = proc[q]
  BY <1>1 DEF KeysTypeOK
<1>3. KeysTypeOK'
  BY <1>1 DEF KeysTypeOK
<1>4. Cached'
  BY <1>1, <1>2 DEF Cached
<1>5. LockHolders' = LockHolders \ {p} /\ \A q \in LockHolders' : proc'[q] = proc[q]
  BY <1>2 DEF LockHolders
<1>6. OneChange'
  BY <1>1, <1>5 DEF OneChange, Live
<1>7. Limited'
  BY <1>1 DEF Limited, Live
<1>8. QED
  BY <1>3, <1>4, <1>6, <1>7

\* Rereading the file under the lock and changing the copy keeps it.
LEMMA KeysChange ==
  ASSUME KeysInv, NEW p \in Procs, NEW k \in Keys, NEW to \in {"on", "off", "gone"},
         Change(p, k, to)
  PROVE  KeysInv'
<1> DEFINE r == [st |-> "changing", keys |-> file.keys, info |-> Info(file), key |-> k, to |-> to]
<1>1. /\ KeysTypeOK /\ Cached /\ OneChange /\ Limited /\ Watched
      /\ LockHolders = {} /\ proc[p].st = "up" /\ UNCHANGED <<file, truth, seen>>
  BY DEF KeysInv, Change, FileLockFree
<1>2. /\ Refreshed(proc[p]) = Cache(file.keys, file)
      /\ file \in Files /\ file.keys \in [Keys -> States]
  BY <1>1, RefreshedStore
<1>3. proc' = [proc EXCEPT ![p] = r]
  BY <1>2 DEF Change, Doing, Cache
<1>4. /\ Info(file) \in Infos /\ Info(file).time = file.time /\ file.time \in Nat
      /\ file # None
  BY <1>1, <1>2, InfoOfFile DEF Files, Cached
<1>5. r \in Stores /\ r.key = k /\ r.to = to /\ r.st = "changing" /\ r.keys = file.keys
      /\ r.info = Info(file)
  BY <1>2, <1>4 DEF Stores, Phases, States
<1>6. \/ to = "gone"
      \/ k \in Live(file.keys)
      \/ Cardinality(Live(file.keys)) < MaxKeys
  BY <1>2 DEF Change, Cache
<1> HIDE DEF r
<1>7. proc'[p] = r /\ \A q \in Procs \ {p} : proc'[q] = proc[q]
  BY <1>1, <1>3 DEF KeysTypeOK
<1>8. KeysTypeOK'
  BY <1>1, <1>3, <1>5 DEF KeysTypeOK
<1>9. Cached'
  BY <1>1, <1>4, <1>5, <1>7 DEF Cached
<1>10. LockHolders' = {p}
  BY <1>1, <1>5, <1>7 DEF LockHolders
<1>11. OneChange'
  BY <1>1, <1>5, <1>6, <1>7, <1>10 DEF OneChange, Live, States
<1>12. Limited'
  BY <1>1 DEF Limited, Live
<1>13. Watched'
  BY <1>1, <1>5, <1>7 DEF Watched
<1>14. QED
  BY <1>8, <1>9, <1>11, <1>12, <1>13 DEF KeysInv

\* A key that changes state within the limit keeps the limit.
LEMMA LiveChange ==
  ASSUME NEW keys, keys \in [Keys -> States], IsFiniteSet(Live(keys)),
         Cardinality(Live(keys)) <= MaxKeys, NEW k \in Keys, NEW to, to \in States,
         \/ to = "gone"
         \/ k \in Live(keys)
         \/ Cardinality(Live(keys)) < MaxKeys
  PROVE  LET next == [keys EXCEPT ![k] = to]
         IN  /\ next \in [Keys -> States]
             /\ IsFiniteSet(Live(next)) /\ Cardinality(Live(next)) <= MaxKeys
<1> DEFINE next == [keys EXCEPT ![k] = to]
<1>1. next \in [Keys -> States] /\ next[k] = to /\ \A l \in Keys \ {k} : next[l] = keys[l]
  OBVIOUS
<1> HIDE DEF next
<1>2. Cardinality(Live(keys)) \in Nat /\ MaxKeys \in Nat
  BY FS_CardinalityType, LimitAssumption
<1>3. CASE to \in {"on", "off"}
  <2>1. Live(next) = Live(keys) \cup {k}
    BY <1>1, <1>3 DEF Live
  <2>2. /\ IsFiniteSet(Live(next))
        /\ Cardinality(Live(next)) =
             IF k \in Live(keys) THEN Cardinality(Live(keys)) ELSE Cardinality(Live(keys)) + 1
    BY <2>1, FS_AddElement
  <2>3. QED
    BY <1>1, <1>2, <1>3, <2>2 DEF next
<1>4. CASE to \notin {"on", "off"}
  <2>1. Live(next) = Live(keys) \ {k}
    BY <1>1, <1>4 DEF Live
  <2>2. /\ IsFiniteSet(Live(next))
        /\ Cardinality(Live(next)) =
             IF k \in Live(keys) THEN Cardinality(Live(keys)) - 1 ELSE Cardinality(Live(keys))
    BY <2>1, FS_RemoveElement
  <2>3. QED
    BY <1>1, <1>2, <2>2 DEF next
<1>5. QED
  BY <1>3, <1>4

\* Writing the changed copy, or failing to, keeps it.
LEMMA KeysCommit ==
  ASSUME KeysInv, NEW p \in Procs, Commit(p)
  PROVE  KeysInv'
<1>1. /\ KeysTypeOK /\ Cached /\ OneChange /\ Limited /\ Watched
      /\ proc[p].st = "changing" /\ p \in LockHolders /\ proc[p] \in Stores /\ file \in Files
  BY DEF KeysInv, Commit, LockHolders, KeysTypeOK, Cached
<1>2. \A q \in Procs \ {p} : proc[q].st # "changing"
  BY <1>1 DEF OneChange, LockHolders
<1>3. file.keys \in [Keys -> States] /\ file.time \in Nat
  BY <1>1 DEF Files
<1>4. CASE /\ proc' = [proc EXCEPT ![p] = Doing("up", @, None, None)]
           /\ UNCHANGED <<file, truth, seen>>
  <2> DEFINE r == [st |-> "up", keys |-> proc[p].keys, info |-> proc[p].info, key |-> None, to |-> None]
  <2>1. proc' = [proc EXCEPT ![p] = r]
    BY <1>4 DEF Doing
  <2>2. /\ r \in Stores /\ r.st = "up" /\ r.keys = proc[p].keys /\ r.info = proc[p].info
    BY <1>1 DEF Stores, Phases
  <2> HIDE DEF r
  <2>3. /\ file # None /\ r.info \in Infos /\ r.info.time <= file.time
        /\ r.info.time = file.time => r.keys = file.keys
    BY <1>1, <2>2 DEF Cached
  <2>4. KeysTypeOK' /\ Cached' /\ OneChange' /\ Limited'
    BY <1>1, <1>4, <2>1, <2>2, <2>3, KeysIdle DEF KeysTypeOK
  <2>5. Watched'
    BY <1>1, <1>4, <2>1, <2>2 DEF Watched, KeysTypeOK
  <2>6. QED
    BY <2>4, <2>5 DEF KeysInv
<1>5. CASE \E keys : /\ keys = [proc[p].keys EXCEPT ![proc[p].key] = proc[p].to]
                     /\ file' = Written(keys)
                     /\ proc' = [proc EXCEPT ![p] = Doing("up", Cache(keys, Written(keys)), None, None)]
                     /\ truth' = [truth EXCEPT ![proc[p].key] = proc[p].to]
                     /\ seen' = Watch(proc[p].key, proc[p].to)
  <2>1. PICK keys : /\ keys = [proc[p].keys EXCEPT ![proc[p].key] = proc[p].to]
                    /\ file' = Written(keys)
                    /\ proc' = [proc EXCEPT ![p] = Doing("up", Cache(keys, Written(keys)), None, None)]
                    /\ truth' = [truth EXCEPT ![proc[p].key] = proc[p].to]
                    /\ seen' = Watch(proc[p].key, proc[p].to)
    BY <1>5
  <2>2. PICK k \in Keys, to \in States : k = proc[p].key /\ to = proc[p].to
    BY <1>1 DEF OneChange
  <2>3. /\ proc[p].keys = file.keys /\ truth = file.keys /\ keys = [file.keys EXCEPT ![k] = to]
        /\ truth' = keys
    BY <1>1, <2>1, <2>2 DEF OneChange, Limited, Cached
  <2>4. /\ keys \in [Keys -> States] /\ IsFiniteSet(Live(keys)) /\ Cardinality(Live(keys)) <= MaxKeys
    <3>1. \/ to = "gone"
          \/ k \in Live(file.keys)
          \/ Cardinality(Live(file.keys)) < MaxKeys
      BY <1>1, <2>2 DEF OneChange
    <3>2. QED
      BY <1>1, <1>3, <2>3, <3>1, LiveChange DEF Limited
  <2>5. /\ file' \in Files /\ file' # None /\ file'.keys = keys /\ file'.time = file.time + 1
        /\ Info(file') \in Infos /\ Info(file').time = file'.time
    BY <1>1, <2>1, <2>4, WrittenFile, InfoOfFile DEF Cached
  <2> DEFINE r == [st |-> "up", keys |-> keys, info |-> Info(file'), key |-> None, to |-> None]
  <2>6. proc' = [proc EXCEPT ![p] = r]
    BY <2>1 DEF Doing, Cache
  <2>7. r \in Stores /\ r.st = "up" /\ r.keys = keys /\ r.info = Info(file')
    BY <2>4, <2>5 DEF Stores, Phases
  <2> HIDE DEF r
  <2>8. proc'[p] = r /\ \A q \in Procs \ {p} : proc'[q] = proc[q]
    BY <1>1, <2>6 DEF KeysTypeOK
  <2>9. /\ seen' \in [Procs -> SUBSET States]
        /\ \A q \in Procs : /\ seen[q] \subseteq seen'[q]
                            /\ proc[q].st = "resolving" /\ proc[q].key = k => to \in seen'[q]
    BY <1>1, <2>1, <2>2 DEF KeysTypeOK, Watch
  <2>10. KeysTypeOK'
    BY <1>1, <2>3, <2>4, <2>5, <2>6, <2>7, <2>9 DEF KeysTypeOK
  <2>11. Cached'
    <3>1. file'.time \in Nat
      BY <2>5 DEF Files
    <3>2. ASSUME NEW q \in Procs \ {p}, proc'[q].st # "off"
          PROVE  /\ proc'[q].info \in Infos /\ proc'[q].info.time < file'.time
      <4>1. PICK f \in Files : proc[q].info = Info(f)
        BY <1>1, <2>8, <3>2 DEF Cached, Infos
      <4>2. Info(f).time \in Nat
        BY InfoOfFile DEF Files
      <4>3. QED
        BY <1>1, <1>3, <2>5, <2>8, <3>2, <4>1, <4>2 DEF Cached
    <3>3. /\ proc'[p].info \in Infos /\ proc'[p].info.time = file'.time
          /\ proc'[p].keys = file'.keys
      BY <2>5, <2>7, <2>8
    <3>4. ASSUME NEW q \in Procs, proc'[q].st # "off"
          PROVE  /\ proc'[q].info \in Infos /\ proc'[q].info.time <= file'.time
                 /\ proc'[q].info.time = file'.time => proc'[q].keys = file'.keys
      <4>1. CASE q = p
        BY <3>1, <3>3, <4>1
      <4>2. CASE q # p
        <5>1. PICK f \in Files : proc[q].info = Info(f)
          BY <1>1, <2>8, <3>4, <4>2 DEF Cached, Infos
        <5>2. Info(f).time \in Nat /\ proc'[q].info = Info(f)
          BY <2>8, <4>2, <5>1, InfoOfFile DEF Files
        <5>3. QED
          BY <3>1, <3>2, <3>4, <4>2, <5>2
      <4>3. QED
        BY <4>1, <4>2
    <3>5. QED
      BY <2>5, <3>4 DEF Cached
  <2>12. LockHolders' = {}
    BY <1>2, <2>7, <2>8 DEF LockHolders
  <2>13. Limited'
    BY <2>3, <2>4, <2>5 DEF Limited, Live
  <2>14. Watched'
    BY <1>1, <2>7, <2>8, <2>9 DEF Watched
  <2>15. QED
    BY <2>10, <2>11, <2>12, <2>13, <2>14 DEF KeysInv, OneChange
<1>6. QED
  BY <1>4, <1>5 DEF Commit

\* Checking a key and the end of a process leave the file alone.
LEMMA KeysRequest ==
  ASSUME KeysInv, NEW p \in Procs,
         \/ \E k \in Keys : Resolve(p, k)
         \/ \E accepted \in BOOLEAN : Answer(p, accepted)
         \/ Exit(p)
  PROVE  KeysInv'
<1>1. /\ KeysTypeOK /\ Cached /\ OneChange /\ Limited /\ Watched
      /\ UNCHANGED <<file, truth>> /\ proc[p] \in Stores /\ proc[p].st # "off"
  BY DEF KeysInv, Resolve, Answer, Exit, KeysTypeOK
<1>2. ASSUME NEW k \in Keys, Resolve(p, k)
      PROVE  KeysInv'
  <2> DEFINE r == [st |-> "resolving", keys |-> file.keys, info |-> Info(file), key |-> k, to |-> None]
  <2>1. Refreshed(proc[p]) = Cache(file.keys, file) /\ file \in Files /\ file.keys \in [Keys -> States]
    BY <1>1, RefreshedStore
  <2>2. proc' = [proc EXCEPT ![p] = r] /\ seen' = [seen EXCEPT ![p] = {truth[k]}]
    BY <1>2, <2>1 DEF Resolve, Doing, Cache
  <2>3. /\ Info(file) \in Infos /\ Info(file).time = file.time /\ file.time \in Nat
        /\ file # None
    BY <1>1, <2>1, InfoOfFile DEF Files, Cached
  <2>4. r \in Stores /\ r.st = "resolving" /\ r.keys = file.keys /\ r.info = Info(file) /\ r.key = k
    BY <2>1, <2>3 DEF Stores, Phases
  <2> HIDE DEF r
  <2>5. truth[k] \in States /\ file.keys[k] = truth[k]
    BY <1>1, <2>3 DEF KeysTypeOK, Limited
  <2>6. /\ seen' \in [Procs -> SUBSET States] /\ seen'[p] = {truth[k]}
        /\ \A q \in Procs \ {p} : seen'[q] = seen[q] /\ proc'[q] = proc[q]
        /\ proc'[p] = r
    BY <1>1, <2>2, <2>5 DEF KeysTypeOK
  <2>7. KeysTypeOK' /\ Cached' /\ OneChange' /\ Limited'
    <3>1. /\ file # None /\ r.info \in Infos /\ r.info.time <= file.time
          /\ r.info.time = file.time => r.keys = file.keys
      BY <2>3, <2>4
    <3>2. QED
      BY <1>1, <2>2, <2>4, <2>6, <3>1, KeysIdle
  <2>8. Watched'
    BY <1>1, <2>4, <2>5, <2>6 DEF Watched
  <2>9. QED
    BY <2>7, <2>8 DEF KeysInv
<1>3. ASSUME NEW r, r \in Stores, r.st \in {"up", "off"}, proc' = [proc EXCEPT ![p] = r],
             seen' = [seen EXCEPT ![p] = {}], r.st # "off" => r.keys = proc[p].keys /\ r.info = proc[p].info
      PROVE  KeysInv'
  <2>1. /\ seen' \in [Procs -> SUBSET States] /\ proc'[p] = r
        /\ \A q \in Procs \ {p} : seen'[q] = seen[q] /\ proc'[q] = proc[q]
    BY <1>1, <1>3 DEF KeysTypeOK
  <2>2. r.st # "off" => /\ file # None /\ r.info \in Infos /\ r.info.time <= file.time
                        /\ r.info.time = file.time => r.keys = file.keys
    BY <1>1, <1>3 DEF Cached
  <2>3. KeysTypeOK' /\ Cached' /\ OneChange' /\ Limited'
    BY <1>1, <1>3, <2>1, <2>2, KeysIdle
  <2>4. Watched'
    BY <1>1, <1>3, <2>1 DEF Watched
  <2>5. QED
    BY <2>3, <2>4 DEF KeysInv
<1>4. ASSUME NEW accepted \in BOOLEAN, Answer(p, accepted)
      PROVE  KeysInv'
  <2> DEFINE r == [st |-> "up", keys |-> proc[p].keys, info |-> proc[p].info, key |-> None, to |-> None]
  <2>1. proc' = [proc EXCEPT ![p] = r] /\ seen' = [seen EXCEPT ![p] = {}]
    BY <1>4 DEF Answer, Doing
  <2>2. r \in Stores /\ r.st = "up" /\ r.keys = proc[p].keys /\ r.info = proc[p].info
    BY <1>1 DEF Stores, Phases
  <2> HIDE DEF r
  <2>3. QED
    BY <1>3, <2>1, <2>2
<1>5. ASSUME Exit(p)
      PROVE  KeysInv'
  <2>1. Off \in Stores /\ Off.st = "off"
    BY DEF Off, Stores, Phases, NoKeys, States
  <2>2. QED
    BY <1>3, <1>5, <2>1 DEF Exit
<1>6. QED
  BY <1>2, <1>4, <1>5

\* Every step of the key store keeps the invariant.
LEMMA KeysStep == KeysInv /\ [Next]_vars => KeysInv'
<1> SUFFICES ASSUME KeysInv, [Next]_vars PROVE KeysInv'
  OBVIOUS
<1>1. CASE UNCHANGED vars
  BY <1>1 DEF vars, KeysInv, KeysTypeOK, Cached, OneChange, Limited, Watched, LockHolders, Live
<1>2. CASE Next
  BY <1>2, KeysOpen, KeysChange, KeysCommit, KeysRequest DEF Next
<1>3. QED
  BY <1>1, <1>2

\* The invariant of the key store holds always.
LEMMA KeysInductive == Spec => []KeysInv
BY KeysInit, KeysStep, PTL DEF Spec

(* FileIsTruth: whatever processes create, update and delete keys at the    *)
(* same time, and wherever they stop, the file holds the result of every    *)
(* change that succeeded (store.go, lockAndRefresh and commit), and never   *)
(* more keys than the limit.                                                *)
THEOREM KeysFile == Spec => []FileIsTruth
<1>1. KeysInv => FileIsTruth
  BY DEF KeysInv, Limited, FileIsTruth
<1>2. QED
  BY <1>1, KeysInductive, PTL

(* RevokedIsRefused: a key is accepted only if it was enabled at some       *)
(* moment of the check (store.go, Resolve), however stale the cached copy   *)
(* and whichever process has revoked the key.                               *)
THEOREM KeysAnswers == Spec => RevokedIsRefused
<1>1. ASSUME KeysInv, NEW p \in Procs, Answer(p, TRUE)
      PROVE  "on" \in seen[p]
  BY <1>1 DEF KeysInv, Watched, Answer
<1>2. KeysInv /\ [Next]_vars => [\A p \in Procs : Answer(p, TRUE) => "on" \in seen[p]]_vars
  BY <1>1
<1>3. QED
  BY <1>2, KeysInductive, PTL DEF Spec, RevokedIsRefused

-----------------------------------------------------------------------------
(* What is proved of a store holds of the process that keeps all three.     *)
LEMMA EachStore == StoresSpec => Spec /\ Pool!Spec /\ Usage!Spec
<1>1. StoresInit => Init /\ Pool!Init /\ Usage!Init
  BY DEF StoresInit
<1>2. [StoresNext]_<<store, vars, poolVars, usageVars>> => [Next]_vars
  BY DEF StoresNext
<1>3. [StoresNext]_<<store, vars, poolVars, usageVars>> => [Pool!Next]_(Pool!vars)
  BY DEF StoresNext, poolVars, Pool!vars
<1>4. [StoresNext]_<<store, vars, poolVars, usageVars>> => [Usage!Next]_(Usage!vars)
  BY DEF StoresNext, usageVars, Usage!vars
<1>5. QED
  BY <1>1, <1>2, <1>3, <1>4, PTL DEF StoresSpec, Spec, Pool!Spec, Usage!Spec

-----------------------------------------------------------------------------
(* Sums over a finite set.                                                 *)

Units(f) == UNION {{x} \X (1 .. f[x]) : x \in DOMAIN f}

\* The units that a total counts.
LEMMA UnitsOf ==
  ASSUME NEW S, NEW f \in [S -> Nat], NEW c
  PROVE  c \in Units(f) <=> \E x \in S : c \in {x} \X (1 .. f[x])
BY DEF Units

\* What one argument contributes.
LEMMA Column ==
  ASSUME NEW x, NEW n \in Nat
  PROVE  IsFiniteSet({x} \X (1 .. n)) /\ Cardinality({x} \X (1 .. n)) = n
<1> DEFINE one == {x}  count == 1 .. n
<1>1. IsFiniteSet(one) /\ Cardinality(one) = 1
  BY FS_Singleton
<1>2. IsFiniteSet(count) /\ Cardinality(count) = n
  BY FS_Interval
<1>3. IsFiniteSet(one \X count) /\ Cardinality(one \X count) = Cardinality(one) * Cardinality(count)
  <2> HIDE DEF one, count
  <2>1. QED
    BY <1>1, <1>2, FS_Product
<1>4. QED
  BY <1>1, <1>2, <1>3

\* A total over a finite set is a natural number.
LEMMA UnitsFinite ==
  ASSUME NEW S, IsFiniteSet(S), NEW f \in [S -> Nat]
  PROVE  IsFiniteSet(Units(f)) /\ Total(f) = Cardinality(Units(f)) /\ Total(f) \in Nat
<1> DEFINE column == [x \in S |-> {x} \X (1 .. f[x])]
           columns == {column[x] : x \in S}
<1>1. column \in Surjection(S, columns)
  BY DEF Surjection
<1>2. IsFiniteSet(columns)
  <2> HIDE DEF columns, column
  <2>1. QED
    BY <1>1, FS_Surjection
<1>3. ASSUME NEW x \in S
      PROVE  IsFiniteSet(column[x])
  BY Column
<1>4. \A T \in columns : IsFiniteSet(T)
  BY <1>3
<1>5. IsFiniteSet(UNION columns)
  <2> HIDE DEF columns, column
  <2>1. QED
    BY <1>2, <1>4, FS_UNION
<1>6. Units(f) = UNION columns
  BY DEF Units
<1>7. IsFiniteSet(Units(f))
  BY <1>5, <1>6
<1>8. Total(f) = Cardinality(Units(f))
  BY DEF Total, Units
<1>9. QED
  BY <1>7, <1>8, FS_CardinalityType

\* A total is one value and the units of all others.
LEMMA Rest ==
  ASSUME NEW S, IsFiniteSet(S), NEW f \in [S -> Nat], NEW x \in S
  PROVE  /\ Cardinality({c \in Units(f) : c[1] # x}) \in Nat
         /\ Total(f) = Cardinality({c \in Units(f) : c[1] # x}) + f[x]
<1> DEFINE rest == {c \in Units(f) : c[1] # x}
           mine == {x} \X (1 .. f[x])
<1>1. IsFiniteSet(Units(f)) /\ Total(f) = Cardinality(Units(f))
  BY UnitsFinite
<1>2. IsFiniteSet(rest) /\ Cardinality(rest) \in Nat
  BY <1>1, FS_Subset, FS_CardinalityType
<1>3. IsFiniteSet(mine) /\ Cardinality(mine) = f[x]
  BY Column
<1>4. Units(f) = rest \cup mine
  BY UnitsOf
<1>5. rest \cap mine = {}
  OBVIOUS
<1> HIDE DEF rest, mine
<1>6. Cardinality(rest \cup mine) = Cardinality(rest) + Cardinality(mine)
  BY <1>2, <1>3, <1>5, FS_Union, FS_EmptySet
<1>7. QED
  BY <1>1, <1>2, <1>3, <1>4, <1>6 DEF rest

\* A sum changes by what one of its arguments does.
LEMMA TotalChange ==
  ASSUME NEW S, IsFiniteSet(S), NEW f \in [S -> Nat], NEW g \in [S -> Nat], NEW x \in S,
         \A y \in S \ {x} : g[y] = f[y]
  PROVE  Total(f) \in Nat /\ Total(g) \in Nat /\ Total(g) + f[x] = Total(f) + g[x]
<1>1. {c \in Units(f) : c[1] # x} = {c \in Units(g) : c[1] # x}
  BY UnitsOf
<1>2. PICK n \in Nat : n = Cardinality({c \in Units(f) : c[1] # x})
  BY Rest
<1>3. Total(f) = n + f[x]
  BY <1>2, Rest
<1>4. Total(g) = n + g[x]
  BY <1>1, <1>2, Rest
<1>5. f[x] \in Nat /\ g[x] \in Nat
  OBVIOUS
<1>6. QED
  BY <1>3, <1>4, <1>5

\* A total depends on the values only.
LEMMA TotalSame ==
  ASSUME NEW S, NEW f \in [S -> Nat], NEW g \in [S -> Nat], \A y \in S : g[y] = f[y]
  PROVE  Total(g) = Total(f)
<1>1. f = g
  OBVIOUS
<1>2. QED
  BY <1>1

\* Nothing adds up to nothing.
LEMMA TotalZero ==
  ASSUME NEW S, NEW f \in [S -> Nat], \A x \in S : f[x] = 0
  PROVE  Total(f) = 0
<1>1. Units(f) = {}
  BY DEF Units
<1>2. QED
  BY <1>1, FS_EmptySet DEF Total, Units

\* A sum is no less than any of its parts.
LEMMA TotalPart ==
  ASSUME NEW S, IsFiniteSet(S), NEW f \in [S -> Nat], NEW x \in S
  PROVE  f[x] <= Total(f)
<1>1. PICK n \in Nat : n = Cardinality({c \in Units(f) : c[1] # x})
  BY Rest
<1>2. Total(f) = n + f[x]
  BY <1>1, Rest
<1>3. f[x] \in Nat
  OBVIOUS
<1>4. QED
  BY <1>2, <1>3

-----------------------------------------------------------------------------
(* The usage ledger.  A process's own requests are those its document has   *)
(* and no baseline does; with the file's they are all of today's, and no    *)
(* baseline counts one that still waits in a process.                       *)

Until(n) == {d \in Usage!Documents : DOMAIN d.day \subseteq 1..n}
Ledgers(n) == [st : {"off", "opening", "up", "closing", "closed", "failed"},
               doc : Until(n), written : Until(n), dirty : BOOLEAN]
Operations(n) == {o \in Usage!Operations : o.snap \in Until(n) /\ o.written \in Until(n)}

\* What a document counts on day x, or altogether when x is 0.
Amount(d, x) == IF x = 0 THEN d.total ELSE Usage!At(d.day, x)

\* Where an operation meets the phases of its process.
Phased(r, o) ==
  /\ r.st \in {"off", "opening"} => r.doc = Usage!Empty /\ r.written = Usage!Empty
  /\ r.st = "opening" => o # NoOp /\ o.kind = "flush" /\ o.st = "opening"
  /\ r.st \in {"off", "closed", "failed"} => o = NoOp
  /\ o # NoOp => /\ o.st = "opening" => r.st = "opening"
                 /\ o.st = "closing" => r.st = "closing"
                 /\ o.kind = "reset" => o.st = "up" /\ r.written = Usage!Empty

\* Baseline, clone and document of a process grow in this order.
Grown(r, o, x) ==
  IF o = NoOp THEN Amount(r.written, x) <= Amount(r.doc, x)
  ELSE IF o.kind = "flush"
  THEN /\ o.stage = "start" => Amount(r.written, x) <= Amount(o.snap, x)
       /\ Amount(o.snap, x) <= Amount(r.doc, x)
  ELSE o.stage = "start" => Amount(o.written, x) <= Amount(o.snap, x)

\* A process that is not dirty has nothing of its own.
Clean(r, o) ==
  IF o = NoOp THEN /\ ~ r.dirty => r.doc.total = r.written.total
                   /\ r.st = "closed" => ~ r.dirty
  ELSE IF o.kind = "flush"
  THEN /\ ~ r.dirty => r.doc.total = o.snap.total
       /\ o.st \in {"opening", "closing"} => ~ r.dirty
  ELSE /\ ~ r.dirty => r.doc.total = 0
       /\ ~ o.dirty => o.snap.total = o.written.total

Sound(r, o, n) ==
  /\ r \in Ledgers(n) /\ o \in Operations(n) \cup {NoOp}
  /\ Phased(r, o) /\ Clean(r, o) /\ Grown(r, o, 0) /\ Grown(r, o, n)

\* The requests of a process that no file holds yet.
Own(r, o, x) ==
  IF o = NoOp \/ (o.kind = "flush" /\ o.stage = "start") THEN Amount(r.doc, x) - Amount(r.written, x)
  ELSE IF o.kind = "flush" THEN Amount(r.doc, x) - Amount(o.snap, x)
  ELSE IF o.stage = "start" THEN Amount(r.doc, x) + (Amount(o.snap, x) - Amount(o.written, x))
  ELSE Amount(r.doc, x)

Waiting(procs, ops, x) == Total([p \in Procs |-> Own(procs[p], ops[p], x)])

UsageTypeOK ==
  /\ today \in 1..LastDay
  /\ usageFile \in [there : BOOLEAN, doc : Until(today)]
  /\ usageProc \in [Procs -> Ledgers(today)]
  /\ op \in [Procs -> Operations(today) \cup {NoOp}]
  /\ recorded \in [1..LastDay -> Nat] /\ erased \in [1..LastDay -> Nat]
  /\ lost \in BOOLEAN

NeverWritten ==
  ~ lost /\ ~ usageFile.there =>
    /\ usageFile.doc = Usage!Empty
    /\ \A p \in Procs : /\ usageProc[p].written = Usage!Empty
                        /\ op[p] # NoOp => op[p].written = Usage!Empty /\ op[p].stage = "start"

Apart ==
  LET waiting == Waiting(usageProc, op, 0)
  IN  /\ usageFile.doc.total + waiting <= Usage!Recorded
      /\ \A p \in Procs : usageProc[p].written.total + waiting <= Usage!Recorded
      /\ \A p \in Procs : op[p] # NoOp => op[p].written.total + waiting <= Usage!Recorded

Today ==
  /\ ~ lost => recorded[today] = erased[today] + Amount(usageFile.doc, today)
                                 + Waiting(usageProc, op, today)
  /\ \A d \in (today + 1) .. LastDay : recorded[d] = 0 /\ erased[d] = 0

UsageInv ==
  /\ UsageTypeOK
  /\ \A p \in Procs : Sound(usageProc[p], op[p], today)
  /\ NeverWritten /\ Today /\ Apart /\ ~ excess

\* A document counts something on each day, and altogether.
LEMMA Counts ==
  ASSUME NEW n \in 1..LastDay, NEW d, d \in Until(n)
  PROVE  /\ d \in Usage!Documents /\ d.total \in Nat
         /\ \E D \in SUBSET (1..n) : d.day \in [D -> Nat]
         /\ d = [total |-> d.total, day |-> d.day]
         /\ \A x \in Nat : Amount(d, x) \in Nat /\ Usage!At(d.day, x) \in Nat
         /\ \A x \in Nat : x > n => Usage!At(d.day, x) = 0
         /\ Amount(d, 0) = d.total /\ Amount(d, n) = Usage!At(d.day, n)
<1>1. d \in Usage!Documents /\ DOMAIN d.day \subseteq 1..n
  BY DEF Until
<1>2. /\ d.total \in Nat /\ d = [total |-> d.total, day |-> d.day]
      /\ \E D \in SUBSET Usage!Days : d.day \in [D -> Nat]
  BY <1>1 DEF Usage!Documents
<1>3. PICK D \in SUBSET (1..n) : d.day \in [D -> Nat]
  BY <1>1, <1>2
<1>4. \A x \in Nat : Usage!At(d.day, x) \in Nat /\ (x > n => Usage!At(d.day, x) = 0)
  BY <1>3 DEF Usage!At
<1>5. n # 0
  OBVIOUS
<1>6. QED
  BY <1>1, <1>2, <1>3, <1>4, <1>5 DEF Amount

\* A total with buckets of days gone by is a document.
LEMMA NewDocument ==
  ASSUME NEW n \in 1..LastDay, NEW total \in Nat, NEW D \in SUBSET (1..n), NEW f \in [D -> Nat]
  PROVE  [total |-> total, day |-> f] \in Until(n)
<1>1. D \in SUBSET Usage!Days
  BY UsageBounds DEF Usage!Days
<1>2. [total |-> total, day |-> f] \in Usage!Documents
  BY <1>1 DEF Usage!Documents
<1>3. QED
  BY <1>2 DEF Until

\* An empty document counts nothing.
LEMMA EmptyDocument ==
  ASSUME NEW n \in 1..LastDay
  PROVE  Usage!Empty \in Until(n) /\ Amount(Usage!Empty, 0) = 0 /\ Amount(Usage!Empty, n) = 0
         /\ Usage!Empty.total = 0
<1>1. Usage!NoDays \in [{} -> Nat]
  BY DEF Usage!NoDays
<1>2. Usage!Empty \in Until(n)
  BY <1>1, NewDocument DEF Usage!Empty
<1>3. QED
  BY <1>2 DEF Usage!Empty, Amount, Usage!At, Usage!NoDays

\* The document of one request of today counts it.
LEMMA OneDocument ==
  ASSUME NEW n \in 1..LastDay
  PROVE  Usage!One(n) \in Until(n) /\ Amount(Usage!One(n), 0) = 1 /\ Amount(Usage!One(n), n) = 1
<1>1. [e \in {n} |-> 1] \in [{n} -> Nat] /\ n # 0
  OBVIOUS
<1>2. Usage!One(n) \in Until(n)
  BY <1>1, NewDocument DEF Usage!One
<1>3. QED
  BY <1>1, <1>2 DEF Usage!One, Amount, Usage!At

\* Trimming keeps the days that have few later ones.
LEMMA TrimmedIs ==
  ASSUME NEW b
  PROVE  Usage!Trimmed(b) = [x \in {y \in DOMAIN b : Cardinality({z \in DOMAIN b : z > y}) < MaxDayBuckets}
                             |-> b[x]]
BY DEF Usage!Trimmed, Usage!Cardinality, Cardinality

\* Documents add up, whatever days are trimmed: the latest one stays.
LEMMA Added ==
  ASSUME NEW n \in 1..LastDay, NEW d, d \in Until(n), NEW e, e \in Until(n)
  PROVE  LET sum == Usage!AddDocument(d, e)
         IN  /\ sum \in Until(n)
             /\ \A x \in {0, n} : Amount(sum, x) = Amount(d, x) + Amount(e, x)
<1>1. PICK D \in SUBSET (1..n) : d.day \in [D -> Nat]
  BY Counts
<1>2. PICK E \in SUBSET (1..n) : e.day \in [E -> Nat]
  BY Counts
<1> DEFINE both == [x \in DOMAIN d.day \cup DOMAIN e.day |-> Usage!At(d.day, x) + Usage!At(e.day, x)]
<1>3. both \in [D \cup E -> Nat]
  <2>1. \A x \in D \cup E : Usage!At(d.day, x) \in Nat /\ Usage!At(e.day, x) \in Nat
    BY Counts
  <2>2. DOMAIN d.day = D /\ DOMAIN e.day = E
    BY <1>1, <1>2
  <2>3. QED
    BY <2>1, <2>2
<1>4. n \in D \cup E => both[n] = Usage!At(d.day, n) + Usage!At(e.day, n)
  BY <1>1, <1>2
<1>5. n \notin D \cup E => Usage!At(d.day, n) = 0 /\ Usage!At(e.day, n) = 0
  BY <1>1, <1>2 DEF Usage!At
<1>6. Usage!AddDocument(d, e) = [total |-> d.total + e.total, day |-> Usage!Trimmed(both)]
  BY DEF Usage!AddDocument
<1> HIDE DEF both
<1> DEFINE kept == {x \in DOMAIN both : Cardinality({y \in DOMAIN both : y > x}) < MaxDayBuckets}
<1>7. Usage!Trimmed(both) = [x \in kept |-> both[x]]
  BY TrimmedIs DEF kept
<1>8. Usage!Trimmed(both) \in [kept -> Nat] /\ kept \subseteq 1..n
  BY <1>3, <1>7
<1>9. n \in D \cup E => n \in kept
  <2>1. {y \in DOMAIN both : y > n} = {}
    <3>1. DOMAIN both \subseteq 1..n
      BY <1>3
    <3>2. \A y \in 1..n : ~ (y > n)
      OBVIOUS
    <3>3. QED
      BY <3>1, <3>2
  <2>2. Cardinality({y \in DOMAIN both : y > n}) < MaxDayBuckets
    BY <2>1, FS_EmptySet, UsageAssumption
  <2>3. QED
    BY <1>3, <2>2
<1>10. n \notin D \cup E => n \notin kept
  BY <1>3
<1>11. Usage!At(Usage!Trimmed(both), n) = Usage!At(d.day, n) + Usage!At(e.day, n)
  <2> HIDE DEF kept
  <2>1. QED
    BY <1>4, <1>5, <1>7, <1>9, <1>10 DEF Usage!At
<1>12. d.total \in Nat /\ e.total \in Nat
  BY Counts
<1>13. Usage!AddDocument(d, e) \in Until(n)
  <2> HIDE DEF kept
  <2>1. QED
    BY <1>6, <1>8, <1>12, NewDocument
<1>14. QED
  BY <1>6, <1>11, <1>13, Counts DEF Amount

\* The positive part of a difference, where it is the difference.
LEMMA Difference ==
  ASSUME NEW a \in Nat, NEW b \in Nat
  PROVE  /\ Usage!Positive(a, b) \in Nat
         /\ b <= a => Usage!Positive(a, b) = a - b
         /\ a = 0 => Usage!Positive(a, b) = 0
BY DEF Usage!Positive

\* What is new since another document that is nowhere ahead.
LEMMA Since ==
  ASSUME NEW n \in 1..LastDay, NEW d, d \in Until(n), NEW e, e \in Until(n)
  PROVE  LET new == Usage!DeltaDocument(d, e)
         IN  /\ new \in Until(n)
             /\ \A x \in {0, n} : Amount(e, x) <= Amount(d, x) => Amount(new, x) = Amount(d, x) - Amount(e, x)
<1>1. PICK D \in SUBSET (1..n) : d.day \in [D -> Nat]
  BY Counts
<1> DEFINE days == [x \in DOMAIN d.day |-> Usage!Positive(d.day[x], Usage!At(e.day, x))]
<1>2. d.total \in Nat /\ e.total \in Nat /\ Usage!Positive(d.total, e.total) \in Nat
  BY Counts, Difference
<1>3. days \in [D -> Nat] /\ DOMAIN d.day = D
  <2>1. \A x \in D : Usage!At(e.day, x) \in Nat /\ d.day[x] \in Nat
    BY <1>1, Counts
  <2>2. \A x \in D : Usage!Positive(d.day[x], Usage!At(e.day, x)) \in Nat
    BY <2>1, Difference
  <2>3. QED
    BY <1>1, <2>2
<1>4. Usage!DeltaDocument(d, e) = [total |-> Usage!Positive(d.total, e.total), day |-> days]
  BY DEF Usage!DeltaDocument
<1>5. n \in D => days[n] = Usage!Positive(Usage!At(d.day, n), Usage!At(e.day, n))
  BY <1>1 DEF Usage!At
<1> HIDE DEF days
<1>6. Usage!At(e.day, n) \in Nat /\ Usage!At(d.day, n) \in Nat
  BY Counts
<1>7. Usage!At(days, n) = Usage!Positive(Usage!At(d.day, n), Usage!At(e.day, n))
  BY <1>3, <1>5, <1>6, Difference DEF Usage!At
<1>8. Usage!DeltaDocument(d, e) \in Until(n)
  BY <1>2, <1>3, <1>4, NewDocument
<1> DEFINE new == Usage!DeltaDocument(d, e)
<1>9. new.total = Usage!Positive(d.total, e.total) /\ Usage!At(new.day, n) = Usage!At(days, n)
  BY <1>4
<1> HIDE DEF new
<1>10. new \in Until(n)
  BY <1>8 DEF new
<1>11. Amount(e, 0) <= Amount(d, 0) => Amount(new, 0) = Amount(d, 0) - Amount(e, 0)
  BY <1>2, <1>9, <1>10, Counts, Difference
<1>12. Amount(e, n) <= Amount(d, n) => Amount(new, n) = Amount(d, n) - Amount(e, n)
  BY <1>6, <1>7, <1>9, <1>10, Counts, Difference
<1>13. QED
  BY <1>10, <1>11, <1>12 DEF new

\* What a flush or a reset under way is made of.
LEMMA NewOperation ==
  ASSUME NEW n \in 1..LastDay, NEW kind \in {"flush", "reset"}, NEW stage \in {"start", "commit"},
         NEW snap, snap \in Until(n), NEW written, written \in Until(n), NEW dirty \in BOOLEAN,
         NEW st \in {"opening", "up", "closing"}
  PROVE  LET o == [kind |-> kind, stage |-> stage, snap |-> snap, written |-> written, dirty |-> dirty,
                   st |-> st]
         IN  o \in Operations(n) /\ o # NoOp
<1>1. snap \in Usage!Documents /\ written \in Usage!Documents
  BY Counts
<1>2. QED
  BY <1>1, UsageAssumption DEF Operations, Usage!Operations

\* The fields of a sound process and its operation.
LEMMA Parts ==
  ASSUME NEW n \in 1..LastDay, NEW r, NEW o, Sound(r, o, n)
  PROVE  /\ r \in Ledgers(n) /\ r.doc \in Until(n) /\ r.written \in Until(n) /\ r.dirty \in BOOLEAN
         /\ o # NoOp => /\ o \in Operations(n) /\ o.snap \in Until(n) /\ o.written \in Until(n)
                        /\ o.kind \in {"flush", "reset"} /\ o.stage \in {"start", "commit"}
                        /\ o.dirty \in BOOLEAN /\ o.st \in {"opening", "up", "closing"}
         /\ \A x \in {0, n} : Grown(r, o, x)
<1>1. r \in Ledgers(n) /\ o \in Operations(n) \cup {NoOp} /\ \A x \in {0, n} : Grown(r, o, x)
  BY DEF Sound
<1>2. /\ r.doc \in Until(n) /\ r.written \in Until(n) /\ r.dirty \in BOOLEAN
  BY <1>1 DEF Ledgers
<1>3. o # NoOp => /\ o \in Usage!Operations /\ o.snap \in Until(n) /\ o.written \in Until(n)
  BY <1>1 DEF Operations
<1>4. o # NoOp => /\ o.kind \in {"flush", "reset"} /\ o.stage \in {"start", "commit"}
                  /\ o.dirty \in BOOLEAN /\ o.st \in {"opening", "up", "closing"}
  BY <1>3 DEF Usage!Operations
<1>5. QED
  BY <1>1, <1>2, <1>3, <1>4

\* What a process counts: by the stage of its operation.
LEMMA Owned ==
  ASSUME NEW n \in 1..LastDay, NEW r, NEW o, Sound(r, o, n), NEW x \in {0, n}
  PROVE  /\ Own(r, o, x) \in Nat /\ Amount(r.doc, x) \in Nat /\ Amount(r.written, x) \in Nat
         /\ o # NoOp => Amount(o.snap, x) \in Nat /\ Amount(o.written, x) \in Nat
<1>1. x \in Nat
  OBVIOUS
<1>2. /\ Amount(r.doc, x) \in Nat /\ Amount(r.written, x) \in Nat
      /\ o # NoOp => Amount(o.snap, x) \in Nat /\ Amount(o.written, x) \in Nat
  BY <1>1, Parts, Counts
<1>3. Grown(r, o, x)
  BY Parts
<1>4. o # NoOp => o.kind \in {"flush", "reset"} /\ o.stage \in {"start", "commit"}
  BY Parts
<1>5. Own(r, o, x) \in Nat
  <2>1. CASE o = NoOp
    BY <1>2, <1>3, <2>1 DEF Own, Grown
  <2>2. CASE o # NoOp
    BY <1>2, <1>3, <1>4, <2>2 DEF Own, Grown
  <2>3. QED
    BY <2>1, <2>2
<1>6. QED
  BY <1>2, <1>5

\* Which is what the specification calls unsaved.
LEMMA UnsavedIsOwn ==
  ASSUME NEW n \in 1..LastDay, NEW p \in Procs, Sound(usageProc[p], op[p], n)
  PROVE  /\ \A x \in {0, n} : Amount(Usage!Unsaved(p), x) = Own(usageProc[p], op[p], x)
         /\ \A x \in 1..LastDay : /\ Usage!At(Usage!Unsaved(p).day, x) \in Nat
                                  /\ x > n => Usage!At(Usage!Unsaved(p).day, x) = 0
<1> DEFINE r == usageProc[p]  o == op[p]
<1>1. /\ r.doc \in Until(n) /\ r.written \in Until(n)
      /\ o # NoOp => /\ o.snap \in Until(n) /\ o.written \in Until(n)
                     /\ o.kind \in {"flush", "reset"} /\ o.stage \in {"start", "commit"}
      /\ \A x \in {0, n} : Grown(r, o, x)
  BY Parts
<1>2. CASE o = NoOp \/ (o.kind = "flush" /\ o.stage = "start")
  <2>1. Usage!Unsaved(p) = Usage!DeltaDocument(r.doc, r.written)
    BY <1>2 DEF Usage!Unsaved
  <2>2. Usage!Unsaved(p) \in Until(n)
    BY <1>1, <2>1, Since
  <2>3. ASSUME NEW x \in {0, n}
        PROVE  Amount(Usage!Unsaved(p), x) = Own(r, o, x)
    <3>1. Amount(r.written, x) <= Amount(r.doc, x)
      <4>1. /\ Amount(r.doc, x) \in Nat /\ Amount(r.written, x) \in Nat /\ Grown(r, o, x)
            /\ o # NoOp => Amount(o.snap, x) \in Nat
        BY Owned, <1>1
      <4>2. QED
        BY <1>2, <4>1 DEF Grown
    <3>2. QED
      BY <1>1, <1>2, <2>1, <3>1, Since DEF Own
  <2>4. QED
    BY <2>2, <2>3, Counts
<1>3. CASE o # NoOp /\ o.kind = "flush" /\ o.stage # "start"
  <2>1. Usage!Unsaved(p) = Usage!DeltaDocument(r.doc, o.snap)
    BY <1>3 DEF Usage!Unsaved, Usage!PendingOf
  <2>2. Usage!Unsaved(p) \in Until(n)
    BY <1>1, <1>3, <2>1, Since
  <2>3. ASSUME NEW x \in {0, n}
        PROVE  Amount(Usage!Unsaved(p), x) = Own(r, o, x)
    <3>1. Amount(o.snap, x) <= Amount(r.doc, x)
      BY <1>1, <1>3 DEF Grown
    <3>2. QED
      BY <1>1, <1>3, <2>1, <3>1, Since DEF Own
  <2>4. QED
    BY <2>2, <2>3, Counts
<1>4. CASE o # NoOp /\ o.kind = "reset" /\ o.stage = "start"
  <2> DEFINE limbo == Usage!DeltaDocument(o.snap, o.written)
             both == [d \in Usage!Days |-> Usage!At(r.doc.day, d) + Usage!At(limbo.day, d)]
  <2>1. limbo \in Until(n)
    BY <1>1, <1>4, Since
  <2>2. Usage!Unsaved(p) = [total |-> r.doc.total + limbo.total, day |-> both]
    BY <1>4 DEF Usage!Unsaved, Usage!Limbo
  <2>3. \A x \in {0, n} : Amount(limbo, x) = Amount(o.snap, x) - Amount(o.written, x)
    BY <1>1, <1>4, Since DEF Grown
  <2> HIDE DEF limbo
  <2>4. \A x \in 1..LastDay : Usage!At(both, x) = Usage!At(r.doc.day, x) + Usage!At(limbo.day, x)
    BY DEF Usage!At, Usage!Days
  <2> HIDE DEF both
  <2>5. \A x \in 1..LastDay : /\ Usage!At(both, x) \in Nat
                              /\ x > n => Usage!At(both, x) = 0
    <3>1. ASSUME NEW x \in 1..LastDay
          PROVE  /\ Usage!At(r.doc.day, x) \in Nat /\ Usage!At(limbo.day, x) \in Nat
                 /\ x > n => Usage!At(r.doc.day, x) = 0 /\ Usage!At(limbo.day, x) = 0
      <4>1. x \in Nat
        BY UsageBounds
      <4>2. QED
        BY ZenonT(60), <1>1, <2>1, <4>1, Counts
    <3>2. QED
      BY <2>4, <3>1
  <2>6. Usage!Unsaved(p).total = Amount(r.doc, 0) + Amount(limbo, 0)
    BY <1>1, <2>1, <2>2, Counts
  <2>7. Usage!At(Usage!Unsaved(p).day, n) = Amount(r.doc, n) + Amount(limbo, n)
    BY <1>1, <2>1, <2>2, <2>4, Counts
  <2>8. \A x \in {0, n} : Amount(Usage!Unsaved(p), x) = Amount(r.doc, x) + Amount(limbo, x)
    BY <2>6, <2>7 DEF Amount
  <2>9. \A x \in {0, n} : Own(r, o, x) = Amount(r.doc, x) + (Amount(o.snap, x) - Amount(o.written, x))
    BY <1>4 DEF Own
  <2>10. \A x \in {0, n} : Amount(Usage!Unsaved(p), x) = Own(r, o, x)
    BY <2>3, <2>8, <2>9
  <2>11. Usage!Unsaved(p).day = both
    BY <2>2
  <2>12. QED
    BY <2>5, <2>10, <2>11
<1>5. CASE o # NoOp /\ o.kind = "reset" /\ o.stage # "start"
  <2>1. Usage!Unsaved(p) = r.doc
    BY <1>5 DEF Usage!Unsaved
  <2>2. \A x \in {0, n} : Amount(Usage!Unsaved(p), x) = Own(r, o, x)
    BY <1>5, <2>1 DEF Own
  <2>3. QED
    BY <1>1, <2>1, <2>2, Counts
<1>6. QED
  BY <1>1, <1>2, <1>3, <1>4, <1>5

-----------------------------------------------------------------------------
(* What each operation does to the process that runs it.                    *)

\* A process that does not run has nothing to save.
LEMMA OffSound ==
  ASSUME NEW n \in 1..LastDay
  PROVE  Sound(Usage!Off, NoOp, n) /\ \A x \in {0, n} : Own(Usage!Off, NoOp, x) = 0
<1>1. /\ Usage!Empty \in Until(n) /\ Amount(Usage!Empty, 0) = 0 /\ Amount(Usage!Empty, n) = 0
  BY EmptyDocument
<1>2. Usage!Off \in Ledgers(n)
  BY <1>1 DEF Usage!Off, Ledgers
<1>3. Usage!Off.doc = Usage!Empty /\ Usage!Off.written = Usage!Empty /\ Usage!Off.st = "off"
  BY DEF Usage!Off
<1>4. QED
  BY <1>1, <1>2, <1>3 DEF Sound, Phased, Clean, Grown, Own

\* A process that has just read the file has nothing to save.
LEMMA OpenedSound ==
  ASSUME NEW n \in 1..LastDay, NEW doc, doc \in Until(n)
  PROVE  LET s == [st |-> "up", doc |-> doc, written |-> doc, dirty |-> FALSE]
         IN  Sound(s, NoOp, n) /\ \A x \in {0, n} : Own(s, NoOp, x) = 0
<1> DEFINE s == [st |-> "up", doc |-> doc, written |-> doc, dirty |-> FALSE]
<1>1. s \in Ledgers(n) /\ s.st = "up" /\ s.doc = doc /\ s.written = doc
  BY DEF Ledgers
<1>2. Amount(doc, 0) \in Nat /\ Amount(doc, n) \in Nat
  BY Counts
<1> HIDE DEF s
<1>3. Sound(s, NoOp, n) /\ \A x \in {0, n} : Own(s, NoOp, x) = 0
  BY <1>1, <1>2 DEF Sound, Phased, Clean, Grown, Own
<1>4. QED
  BY <1>3 DEF s

\* Nor has one whose first flush is to read the file.
LEMMA OpeningSound ==
  ASSUME NEW n \in 1..LastDay, NEW p
  PROVE  LET s == [st |-> "opening", doc |-> Usage!Empty, written |-> Usage!Empty, dirty |-> FALSE]
             o == Usage!Operation("flush", p, s)
         IN  /\ Sound(s, o, n) /\ \A x \in {0, n} : Own(s, o, x) = 0
             /\ o # NoOp /\ o.written = Usage!Empty /\ o.stage = "start"
<1> DEFINE s == [st |-> "opening", doc |-> Usage!Empty, written |-> Usage!Empty, dirty |-> FALSE]
           o == Usage!Operation("flush", p, s)
<1>1. /\ Usage!Empty \in Until(n) /\ Amount(Usage!Empty, 0) = 0 /\ Amount(Usage!Empty, n) = 0
  BY EmptyDocument
<1>2. /\ s \in Ledgers(n) /\ s.st = "opening" /\ s.doc = Usage!Empty /\ s.written = Usage!Empty
      /\ s.dirty = FALSE
  BY <1>1 DEF Ledgers
<1>3. /\ o \in Operations(n) /\ o # NoOp /\ o.kind = "flush" /\ o.stage = "start" /\ o.st = "opening"
      /\ o.snap = Usage!Empty /\ o.written = Usage!Empty
  BY <1>1, NewOperation DEF Usage!Operation
<1> HIDE DEF s, o
<1>4. Sound(s, o, n) /\ \A x \in {0, n} : Own(s, o, x) = 0
  BY <1>1, <1>2, <1>3 DEF Sound, Phased, Clean, Grown, Own
<1>5. QED
  BY <1>3, <1>4 DEF s, o

\* A request recorded is one more to save, altogether and today.
LEMMA RecordSound ==
  ASSUME NEW n \in 1..LastDay, NEW r, NEW o, Sound(r, o, n), r.st = "up"
  PROVE  LET s == [r EXCEPT !.doc = Usage!AddDocument(r.doc, Usage!One(n)), !.dirty = TRUE]
         IN  Sound(s, o, n) /\ \A x \in {0, n} : Own(s, o, x) = Own(r, o, x) + 1
<1> DEFINE doc == Usage!AddDocument(r.doc, Usage!One(n))
           s == [r EXCEPT !.doc = doc, !.dirty = TRUE]
<1>1. r \in Ledgers(n) /\ r.doc \in Until(n) /\ o \in Operations(n) \cup {NoOp}
      /\ Phased(r, o) /\ Clean(r, o)
  BY Parts DEF Sound
<1>2. doc \in Until(n) /\ \A x \in {0, n} : Amount(doc, x) = Amount(r.doc, x) + 1
  BY <1>1, OneDocument, Added
<1> HIDE DEF doc
<1>3. s \in Ledgers(n) /\ s.doc = doc /\ s.dirty = TRUE /\ s.st = "up" /\ s.written = r.written
  BY <1>1, <1>2 DEF Ledgers
<1> HIDE DEF s
<1>4. ASSUME NEW x \in {0, n}
      PROVE  Grown(s, o, x) /\ Own(s, o, x) = Own(r, o, x) + 1
  <2>1. /\ Amount(r.doc, x) \in Nat /\ Amount(r.written, x) \in Nat
        /\ o # NoOp => Amount(o.snap, x) \in Nat /\ Amount(o.written, x) \in Nat
    BY Owned
  <2>2. Grown(r, o, x) /\ Amount(s.doc, x) = Amount(r.doc, x) + 1
    BY <1>2, <1>3, Parts
  <2>3. QED
    BY <1>3, <2>1, <2>2 DEF Grown, Own
<1>5. Phased(s, o) /\ Clean(s, o)
  BY <1>1, <1>3, Parts DEF Phased, Clean
<1>6. Sound(s, o, n)
  BY <1>1, <1>3, <1>4, <1>5 DEF Sound
<1>7. QED
  BY <1>4, <1>6 DEF s, doc

\* A flush begins with what the document says, a reset with an empty one.
LEMMA StartSound ==
  ASSUME NEW n \in 1..LastDay, NEW r, Sound(r, NoOp, n), NEW p
  PROVE  /\ r.st \in {"up", "closing"} =>
              LET s == [r EXCEPT !.dirty = FALSE]
                  o == Usage!Operation("flush", p, r)
              IN  Sound(s, o, n) /\ \A x \in {0, n} : Own(s, o, x) = Own(r, NoOp, x)
         /\ r.st = "up" =>
              LET s == [r EXCEPT !.doc = Usage!Empty, !.written = Usage!Empty, !.dirty = FALSE]
                  o == Usage!Operation("reset", p, r)
              IN  Sound(s, o, n) /\ \A x \in {0, n} : Own(s, o, x) = Own(r, NoOp, x)
<1>1. /\ r \in Ledgers(n) /\ r.doc \in Until(n) /\ r.written \in Until(n) /\ r.dirty \in BOOLEAN
      /\ Phased(r, NoOp) /\ Clean(r, NoOp) /\ \A x \in {0, n} : Grown(r, NoOp, x)
  BY Parts DEF Sound
<1>2. \A x \in {0, n} : Amount(r.doc, x) \in Nat /\ Amount(r.written, x) \in Nat
  BY Owned
<1>3. ASSUME r.st \in {"up", "closing"}
      PROVE  LET s == [r EXCEPT !.dirty = FALSE]
                 o == Usage!Operation("flush", p, r)
             IN  Sound(s, o, n) /\ \A x \in {0, n} : Own(s, o, x) = Own(r, NoOp, x)
  <2> DEFINE s == [r EXCEPT !.dirty = FALSE]
             o == Usage!Operation("flush", p, r)
  <2>1. s \in Ledgers(n) /\ s.st = r.st /\ s.doc = r.doc /\ s.written = r.written /\ s.dirty = FALSE
    BY <1>1 DEF Ledgers
  <2>2. /\ o \in Operations(n) /\ o # NoOp /\ o.kind = "flush" /\ o.stage = "start" /\ o.st = r.st
        /\ o.snap = r.doc /\ o.written = r.written
    BY <1>1, <1>3, NewOperation DEF Usage!Operation
  <2> HIDE DEF s, o
  <2>3. Phased(s, o) /\ Clean(s, o)
    BY <1>1, <1>3, <2>1, <2>2 DEF Phased, Clean
  <2>4. \A x \in {0, n} : Grown(s, o, x) /\ Own(s, o, x) = Own(r, NoOp, x)
    BY <1>1, <1>2, <2>1, <2>2 DEF Grown, Own
  <2>5. Sound(s, o, n)
    BY <2>1, <2>2, <2>3, <2>4 DEF Sound
  <2>6. QED
    BY <2>4, <2>5 DEF s, o
<1>4. ASSUME r.st = "up"
      PROVE  LET s == [r EXCEPT !.doc = Usage!Empty, !.written = Usage!Empty, !.dirty = FALSE]
                 o == Usage!Operation("reset", p, r)
             IN  Sound(s, o, n) /\ \A x \in {0, n} : Own(s, o, x) = Own(r, NoOp, x)
  <2> DEFINE s == [r EXCEPT !.doc = Usage!Empty, !.written = Usage!Empty, !.dirty = FALSE]
             o == Usage!Operation("reset", p, r)
  <2>1. /\ Usage!Empty \in Until(n) /\ Usage!Empty.total = 0
        /\ \A x \in {0, n} : Amount(Usage!Empty, x) = 0
    BY EmptyDocument
  <2>2. s \in Ledgers(n) /\ s.st = "up" /\ s.doc = Usage!Empty /\ s.written = Usage!Empty /\ s.dirty = FALSE
    BY <1>1, <1>4, <2>1 DEF Ledgers
  <2>3. /\ o \in Operations(n) /\ o # NoOp /\ o.kind = "reset" /\ o.stage = "start" /\ o.st = "up"
        /\ o.snap = r.doc /\ o.written = r.written /\ o.dirty = r.dirty
    BY <1>1, <1>4, NewOperation DEF Usage!Operation
  <2> HIDE DEF s, o
  <2>4. Phased(s, o) /\ Clean(s, o)
    BY <1>1, <1>4, <2>1, <2>2, <2>3 DEF Phased, Clean
  <2>5. \A x \in {0, n} : Grown(s, o, x) /\ Own(s, o, x) = Own(r, NoOp, x)
    BY <1>1, <1>2, <2>1, <2>2, <2>3 DEF Grown, Own
  <2>6. Sound(s, o, n)
    BY <2>2, <2>3, <2>4, <2>5 DEF Sound
  <2>7. QED
    BY <2>5, <2>6 DEF s, o
<1>5. QED
  BY <1>3, <1>4

\* The merge hands what is new since the baseline to the file.
MergedOp(o, doc) == [o EXCEPT !.stage = "commit", !.written = doc]

\* What a flush has merged into the file is no longer to be saved.
LEMMA MergeSound ==
  ASSUME NEW n \in 1..LastDay, NEW r, NEW o, Sound(r, o, n), o # NoOp,
         o.kind = "flush", o.stage = "start", NEW doc, doc \in Until(n),
         NEW u, u = MergedOp(o, doc), NEW new, new = Usage!DeltaDocument(o.snap, r.written)
  PROVE  /\ Sound(r, u, n) /\ u # NoOp /\ u.written = doc
         /\ \A x \in {0, n} : Own(r, u, x) + Amount(new, x) = Own(r, o, x)
<1>1. /\ r \in Ledgers(n) /\ o \in Operations(n) /\ Phased(r, o) /\ Clean(r, o)
      /\ o.snap \in Until(n) /\ r.written \in Until(n)
      /\ o \in Usage!Operations /\ doc \in Usage!Documents
  BY Parts, Counts DEF Sound, Operations
<1>2. /\ u \in Usage!Operations /\ u.kind = "flush" /\ u.stage = "commit" /\ u.snap = o.snap
      /\ u.written = doc /\ u.st = o.st
  BY <1>1 DEF Usage!Operations, MergedOp
<1>3. u \in Operations(n) /\ u # NoOp
  BY <1>1, <1>2, UsageAssumption DEF Operations
<1>4. Phased(r, u) /\ Clean(r, u)
  BY <1>1, <1>2, <1>3 DEF Phased, Clean
<1>5. ASSUME NEW x \in {0, n}
      PROVE  Grown(r, u, x) /\ Own(r, u, x) + Amount(new, x) = Own(r, o, x)
  <2>1. /\ Amount(r.doc, x) \in Nat /\ Amount(r.written, x) \in Nat /\ Amount(o.snap, x) \in Nat
        /\ Grown(r, o, x)
    BY Owned, Parts
  <2>2. Amount(r.written, x) <= Amount(o.snap, x) /\ Amount(o.snap, x) <= Amount(r.doc, x)
    BY <2>1 DEF Grown
  <2>3. Amount(new, x) = Amount(o.snap, x) - Amount(r.written, x)
    BY <1>1, <2>2, Since
  <2>4. QED
    BY <1>2, <1>3, <2>1, <2>2, <2>3 DEF Grown, Own
<1>6. Sound(r, u, n)
  BY <1>1, <1>3, <1>4, <1>5 DEF Sound
<1>7. QED
  BY <1>2, <1>3, <1>5, <1>6

\* A flush that ends keeps what was recorded since it began.
LEMMA CommitSound ==
  ASSUME NEW n \in 1..LastDay, NEW r, NEW o, Sound(r, o, n), o # NoOp,
         o.kind = "flush", o.stage = "commit"
  PROVE  LET doc == Usage!AddDocument(o.written, Usage!DeltaDocument(r.doc, o.snap))
             s == [r EXCEPT !.doc = doc, !.written = o.written,
                            !.st = IF o.st = "up" THEN r.st ELSE Usage!After(r.st, TRUE)]
         IN  Sound(s, NoOp, n) /\ s.written = o.written /\ \A x \in {0, n} : Own(s, NoOp, x) = Own(r, o, x)
<1> DEFINE doc == Usage!AddDocument(o.written, Usage!DeltaDocument(r.doc, o.snap))
           st == IF o.st = "up" THEN r.st ELSE Usage!After(r.st, TRUE)
           s == [r EXCEPT !.doc = doc, !.written = o.written, !.st = st]
<1>1. /\ r \in Ledgers(n) /\ r.doc \in Until(n) /\ o.snap \in Until(n) /\ o.written \in Until(n)
      /\ Phased(r, o) /\ Clean(r, o) /\ o.st \in {"opening", "up", "closing"}
      /\ r.st \in {"off", "opening", "up", "closing", "closed", "failed"}
  BY Parts DEF Sound, Ledgers
<1>2. /\ doc \in Until(n)
      /\ \A x \in {0, n} : Amount(doc, x) = Amount(o.written, x) + (Amount(r.doc, x) - Amount(o.snap, x))
  <2> DEFINE pending == Usage!DeltaDocument(r.doc, o.snap)
  <2>1. \A x \in {0, n} : Amount(o.snap, x) <= Amount(r.doc, x)
    BY Parts DEF Grown
  <2>2. pending \in Until(n) /\ \A x \in {0, n} : Amount(pending, x) = Amount(r.doc, x) - Amount(o.snap, x)
    BY <1>1, <2>1, Since
  <2> HIDE DEF pending
  <2>3. Usage!AddDocument(o.written, pending) \in Until(n)
        /\ \A x \in {0, n} : Amount(Usage!AddDocument(o.written, pending), x)
                             = Amount(o.written, x) + Amount(pending, x)
    BY <1>1, <2>2, Added
  <2>4. QED
    BY <2>2, <2>3 DEF pending
<1>3. /\ st \in {"up", "closing", "closed"}
      /\ st = "closed" => o.st = "closing"
  BY <1>1 DEF Phased, Usage!After
<1> HIDE DEF doc, st
<1>4. s \in Ledgers(n) /\ s.doc = doc /\ s.written = o.written /\ s.st = st /\ s.dirty = r.dirty
  BY <1>1, <1>2, <1>3 DEF Ledgers
<1> HIDE DEF s
<1>5. ASSUME NEW x \in {0, n}
      PROVE  Grown(s, NoOp, x) /\ Own(s, NoOp, x) = Own(r, o, x) /\ (Amount(r.doc, x) = Amount(o.snap, x) => Amount(doc, x) = Amount(o.written, x))
  <2>1. /\ Amount(r.doc, x) \in Nat /\ Amount(o.written, x) \in Nat /\ Amount(o.snap, x) \in Nat
        /\ Grown(r, o, x)
    BY Owned, Parts
  <2>2. Amount(o.snap, x) <= Amount(r.doc, x)
    BY <2>1 DEF Grown
  <2>3. QED
    BY <1>2, <1>4, <2>1, <2>2 DEF Grown, Own
<1>6. Phased(s, NoOp)
  BY <1>3, <1>4 DEF Phased
<1>7. r.doc.total = o.snap.total => doc.total = o.written.total
  BY <1>1, <1>2, <1>5, Counts
<1>8. Clean(s, NoOp)
  BY <1>1, <1>3, <1>4, <1>7 DEF Clean
<1>9. Sound(s, NoOp, n)
  BY <1>4, <1>5, <1>6, <1>8 DEF Sound
<1>10. QED
  BY <1>4, <1>5, <1>9 DEF s, doc, st

\* After a flush that failed the process has as much to save as before.
LEMMA FailSound ==
  ASSUME NEW n \in 1..LastDay, NEW r, NEW o, Sound(r, o, n), o # NoOp,
         o.kind = "flush", o.stage = "start"
  PROVE  LET s == [r EXCEPT !.dirty = TRUE,
                            !.st = IF o.st = "up" THEN r.st ELSE Usage!After(r.st, FALSE)]
         IN  Sound(s, NoOp, n) /\ s.written = r.written /\ \A x \in {0, n} : Own(s, NoOp, x) = Own(r, o, x)
<1> DEFINE st == IF o.st = "up" THEN r.st ELSE Usage!After(r.st, FALSE)
           s == [r EXCEPT !.dirty = TRUE, !.st = st]
<1>1. /\ r \in Ledgers(n) /\ Phased(r, o) /\ o.st \in {"opening", "up", "closing"}
      /\ r.st \in {"off", "opening", "up", "closing", "closed", "failed"}
  BY Parts DEF Sound, Ledgers
<1>2. /\ st \in {"off", "up", "closing", "failed"}
      /\ st = "off" => r.st = "opening"
  BY <1>1 DEF Phased, Usage!After
<1> HIDE DEF st
<1>3. s \in Ledgers(n) /\ s.doc = r.doc /\ s.written = r.written /\ s.st = st /\ s.dirty = TRUE
  BY <1>1, <1>2 DEF Ledgers
<1> HIDE DEF s
<1>4. ASSUME NEW x \in {0, n}
      PROVE  Grown(s, NoOp, x) /\ Own(s, NoOp, x) = Own(r, o, x)
  <2>1. /\ Amount(r.doc, x) \in Nat /\ Amount(r.written, x) \in Nat /\ Amount(o.snap, x) \in Nat
        /\ Grown(r, o, x)
    BY Owned, Parts
  <2>2. QED
    BY <1>3, <2>1 DEF Grown, Own
<1>5. Phased(s, NoOp) /\ Clean(s, NoOp)
  BY <1>1, <1>2, <1>3 DEF Phased, Clean
<1>6. Sound(s, NoOp, n)
  BY <1>3, <1>4, <1>5 DEF Sound
<1>7. QED
  BY <1>3, <1>4, <1>6 DEF s, st

\* A reset gives up what its clone held, and keeps what was recorded since.
LEMMA ResetSound ==
  ASSUME NEW n \in 1..LastDay, NEW r, NEW o, Sound(r, o, n), o # NoOp, o.kind = "reset"
  PROVE  /\ o.stage = "start" =>
              LET u == [o EXCEPT !.stage = "commit"]
              IN  /\ Sound(r, u, n) /\ u # NoOp /\ u.written = o.written
                  /\ \A x \in {0, n} : Own(r, u, x) + Amount(Usage!DeltaDocument(o.snap, o.written), x)
                                       = Own(r, o, x)
         /\ o.stage = "commit" =>
              LET s == [r EXCEPT !.written = Usage!Empty]
              IN  Sound(s, NoOp, n) /\ \A x \in {0, n} : Own(s, NoOp, x) = Own(r, o, x)
         /\ o.stage = "start" =>
              LET s == [r EXCEPT !.doc = Usage!AddDocument(o.snap, r.doc), !.written = o.written,
                                 !.dirty = r.dirty \/ o.dirty]
              IN  Sound(s, NoOp, n) /\ s.written = o.written /\ \A x \in {0, n} : Own(s, NoOp, x) = Own(r, o, x)
<1>1. /\ r \in Ledgers(n) /\ r.doc \in Until(n) /\ r.written = Usage!Empty /\ r.dirty \in BOOLEAN
      /\ o \in Operations(n) /\ o \in Usage!Operations /\ o.snap \in Until(n) /\ o.written \in Until(n)
      /\ o.dirty \in BOOLEAN
      /\ Phased(r, o) /\ Clean(r, o) /\ r.st \in {"up", "closing"}
  BY Parts DEF Sound, Operations, Phased, Ledgers
<1>2. /\ Usage!Empty \in Until(n) /\ Usage!Empty.total = 0
      /\ \A x \in {0, n} : Amount(Usage!Empty, x) = 0
  BY EmptyDocument
<1>3. \A x \in {0, n} : /\ Amount(r.doc, x) \in Nat /\ Amount(o.snap, x) \in Nat
                        /\ Amount(o.written, x) \in Nat /\ Grown(r, o, x)
  BY Owned, Parts
<1>4. ASSUME o.stage = "start"
      PROVE  LET u == [o EXCEPT !.stage = "commit"]
             IN  /\ Sound(r, u, n) /\ u # NoOp /\ u.written = o.written
                 /\ \A x \in {0, n} : Own(r, u, x) + Amount(Usage!DeltaDocument(o.snap, o.written), x)
                                      = Own(r, o, x)
  <2> DEFINE u == [o EXCEPT !.stage = "commit"]
             limbo == Usage!DeltaDocument(o.snap, o.written)
  <2>1. /\ u \in Usage!Operations /\ u.kind = "reset" /\ u.stage = "commit" /\ u.snap = o.snap
        /\ u.written = o.written /\ u.st = o.st /\ u.dirty = o.dirty
    BY <1>1 DEF Usage!Operations
  <2>2. u \in Operations(n) /\ u # NoOp
    BY <1>1, <2>1, UsageAssumption DEF Operations
  <2>3. \A x \in {0, n} : Amount(limbo, x) = Amount(o.snap, x) - Amount(o.written, x)
    BY <1>1, <1>3, <1>4, Since DEF Grown
  <2> HIDE DEF u, limbo
  <2>4. Phased(r, u) /\ Clean(r, u)
    BY <1>1, <2>1, <2>2 DEF Phased, Clean
  <2>5. \A x \in {0, n} : Grown(r, u, x) /\ Own(r, u, x) + Amount(limbo, x) = Own(r, o, x)
    BY <1>3, <1>4, <2>1, <2>2, <2>3 DEF Grown, Own
  <2>6. Sound(r, u, n)
    BY <1>1, <2>2, <2>4, <2>5 DEF Sound
  <2>7. QED
    BY <2>1, <2>2, <2>5, <2>6 DEF u, limbo
<1>5. ASSUME o.stage = "commit"
      PROVE  LET s == [r EXCEPT !.written = Usage!Empty]
             IN  Sound(s, NoOp, n) /\ \A x \in {0, n} : Own(s, NoOp, x) = Own(r, o, x)
  <2> DEFINE s == [r EXCEPT !.written = Usage!Empty]
  <2>1. s \in Ledgers(n) /\ s.doc = r.doc /\ s.written = Usage!Empty /\ s.dirty = r.dirty /\ s.st = r.st
    BY <1>1, <1>2 DEF Ledgers
  <2> HIDE DEF s
  <2>2. Phased(s, NoOp) /\ Clean(s, NoOp)
    BY <1>1, <1>2, <2>1 DEF Phased, Clean
  <2>3. \A x \in {0, n} : Grown(s, NoOp, x) /\ Own(s, NoOp, x) = Own(r, o, x)
    BY <1>2, <1>3, <1>5, <2>1 DEF Grown, Own
  <2>4. Sound(s, NoOp, n)
    BY <2>1, <2>2, <2>3 DEF Sound
  <2>5. QED
    BY <2>3, <2>4 DEF s
<1>6. ASSUME o.stage = "start"
      PROVE  LET s == [r EXCEPT !.doc = Usage!AddDocument(o.snap, r.doc), !.written = o.written,
                                !.dirty = r.dirty \/ o.dirty]
             IN  Sound(s, NoOp, n) /\ s.written = o.written /\ \A x \in {0, n} : Own(s, NoOp, x) = Own(r, o, x)
  <2> DEFINE doc == Usage!AddDocument(o.snap, r.doc)
             dirty == r.dirty \/ o.dirty
             s == [r EXCEPT !.doc = doc, !.written = o.written, !.dirty = dirty]
  <2>1. doc \in Until(n) /\ \A x \in {0, n} : Amount(doc, x) = Amount(o.snap, x) + Amount(r.doc, x)
    BY <1>1, Added
  <2>2. dirty \in BOOLEAN /\ (~ dirty => r.doc.total = 0 /\ o.snap.total = o.written.total)
    BY <1>1 DEF Clean
  <2> HIDE DEF doc, dirty
  <2>3. s \in Ledgers(n) /\ s.doc = doc /\ s.written = o.written /\ s.dirty = dirty /\ s.st = r.st
    BY <1>1, <2>1, <2>2 DEF Ledgers
  <2> HIDE DEF s
  <2>4. ~ dirty => doc.total = o.written.total
    BY <1>1, <2>1, <2>2, Counts
  <2>5. Phased(s, NoOp) /\ Clean(s, NoOp)
    BY <1>1, <2>3, <2>4 DEF Phased, Clean
  <2>6. \A x \in {0, n} : Grown(s, NoOp, x) /\ Own(s, NoOp, x) = Own(r, o, x)
    BY <1>3, <1>6, <2>1, <2>3 DEF Grown, Own
  <2>7. Sound(s, NoOp, n)
    BY <2>3, <2>5, <2>6 DEF Sound
  <2>8. QED
    BY <2>3, <2>6, <2>7 DEF s, doc, dirty
<1>7. QED
  BY <1>4, <1>5, <1>6

\* Close begins when a process is up, and ends at once when nothing is dirty.
LEMMA CloseSound ==
  ASSUME NEW n \in 1..LastDay, NEW r, NEW o, Sound(r, o, n)
  PROVE  /\ r.st = "up" =>
              LET s == [r EXCEPT !.st = "closing"]
              IN  Sound(s, o, n) /\ s.written = r.written /\ \A x \in {0, n} : Own(s, o, x) = Own(r, o, x)
         /\ r.st = "closing" /\ o = NoOp /\ ~ r.dirty =>
              LET s == [r EXCEPT !.st = "closed"]
              IN  Sound(s, o, n) /\ s.written = r.written /\ \A x \in {0, n} : Own(s, o, x) = Own(r, o, x)
<1>1. r \in Ledgers(n) /\ o \in Operations(n) \cup {NoOp} /\ Phased(r, o) /\ Clean(r, o)
      /\ \A x \in {0, n} : Grown(r, o, x)
  BY Parts DEF Sound
<1>2. o # NoOp => o.kind \in {"flush", "reset"} /\ o.st \in {"opening", "up", "closing"}
  BY Parts
<1>3. ASSUME NEW st \in {"closing", "closed"},
             \/ st = "closing" /\ r.st = "up"
             \/ st = "closed" /\ r.st = "closing" /\ o = NoOp /\ ~ r.dirty
      PROVE  LET s == [r EXCEPT !.st = st]
             IN  Sound(s, o, n) /\ s.written = r.written /\ \A x \in {0, n} : Own(s, o, x) = Own(r, o, x)
  <2> DEFINE s == [r EXCEPT !.st = st]
  <2>1. s \in Ledgers(n) /\ s.doc = r.doc /\ s.written = r.written /\ s.dirty = r.dirty /\ s.st = st
    BY <1>1, <1>3 DEF Ledgers
  <2> HIDE DEF s
  <2>2. Phased(s, o) /\ Clean(s, o)
    BY <1>1, <1>2, <1>3, <2>1 DEF Phased, Clean
  <2>3. \A x \in {0, n} : Grown(s, o, x) /\ Own(s, o, x) = Own(r, o, x)
    BY <1>1, <2>1 DEF Grown, Own
  <2>4. Sound(s, o, n)
    BY <1>1, <2>1, <2>2, <2>3 DEF Sound
  <2>5. QED
    BY <2>1, <2>3, <2>4 DEF s
<1>4. QED
  BY <1>3

-----------------------------------------------------------------------------
(* The whole: one process moves at a time, and the sums follow it.          *)

\* The ledger's sums are those of Totals.
LEMMA SameTotal == ASSUME NEW f PROVE Usage!Total(f) = Total(f)
<1>1. \A S : Usage!Cardinality(S) = Cardinality(S)
  BY DEF Usage!Cardinality, Cardinality
<1>2. QED
  BY <1>1 DEF Usage!Total, Total

\* What was recorded altogether is a natural number.
LEMMA RecordedTotal ==
  ASSUME UsageTypeOK
  PROVE  Usage!Recorded = Total(recorded) /\ Usage!Recorded \in Nat
<1>1. IsFiniteSet(1..LastDay) /\ recorded \in [1..LastDay -> Nat]
  <2>1. 1 \in Int /\ LastDay \in Int
    BY UsageBounds
  <2>2. IsFiniteSet(1..LastDay)
    BY <2>1, FS_Interval
  <2>3. QED
    BY <2>2 DEF UsageTypeOK
<1>2. Total(recorded) \in Nat
  BY <1>1, UnitsFinite
<1>3. Usage!Recorded = Total(recorded)
  BY SameTotal DEF Usage!Recorded
<1>4. QED
  BY <1>2, <1>3

\* What the processes have to save adds up to at least what one has.
LEMMA WaitingNat ==
  ASSUME NEW n \in 1..LastDay, NEW procs, NEW ops, \A p \in Procs : Sound(procs[p], ops[p], n),
         NEW x \in {0, n}
  PROVE  /\ [p \in Procs |-> Own(procs[p], ops[p], x)] \in [Procs -> Nat]
         /\ Waiting(procs, ops, x) \in Nat
         /\ \A p \in Procs : Own(procs[p], ops[p], x) \in Nat /\ Own(procs[p], ops[p], x) <= Waiting(procs, ops, x)
<1> DEFINE f == [p \in Procs |-> Own(procs[p], ops[p], x)]
<1>1. \A p \in Procs : Own(procs[p], ops[p], x) \in Nat
  BY Owned
<1>2. f \in [Procs -> Nat] /\ \A p \in Procs : f[p] = Own(procs[p], ops[p], x)
  BY <1>1
<1>3. Waiting(procs, ops, x) = Total(f)
  BY DEF Waiting
<1> HIDE DEF f
<1>4. Total(f) \in Nat /\ \A p \in Procs : f[p] <= Total(f)
  BY <1>2, UnitsFinite, TotalPart, PoolAssumption
<1>5. QED
  BY <1>1, <1>2, <1>3, <1>4 DEF f

\* Another process's requests wait as before.
LEMMA Moved ==
  ASSUME UsageInv, NEW p \in Procs, NEW r, NEW o, Sound(r, o, today),
         usageProc' = [usageProc EXCEPT ![p] = r], op' = [op EXCEPT ![p] = o], today' = today
  PROVE  /\ usageProc' \in [Procs -> Ledgers(today)] /\ op' \in [Procs -> Operations(today) \cup {NoOp}]
         /\ usageProc'[p] = r /\ op'[p] = o
         /\ \A q \in Procs \ {p} : usageProc'[q] = usageProc[q] /\ op'[q] = op[q]
         /\ \A q \in Procs : Sound(usageProc'[q], op'[q], today)
         /\ \A x \in {0, today} :
              /\ Waiting(usageProc, op, x) \in Nat /\ Waiting(usageProc', op', x) \in Nat
              /\ Own(usageProc[p], op[p], x) \in Nat /\ Own(r, o, x) \in Nat
              /\ Own(usageProc[p], op[p], x) <= Waiting(usageProc, op, x)
              /\ Waiting(usageProc', op', x) + Own(usageProc[p], op[p], x)
                   = Waiting(usageProc, op, x) + Own(r, o, x)
<1>1. /\ today \in 1..LastDay /\ usageProc \in [Procs -> Ledgers(today)]
      /\ op \in [Procs -> Operations(today) \cup {NoOp}]
      /\ \A q \in Procs : Sound(usageProc[q], op[q], today)
  BY DEF UsageInv, UsageTypeOK
<1>2. r \in Ledgers(today) /\ o \in Operations(today) \cup {NoOp}
  BY DEF Sound
<1>3. /\ usageProc' \in [Procs -> Ledgers(today)] /\ op' \in [Procs -> Operations(today) \cup {NoOp}]
  BY <1>1, <1>2
<1>4. /\ usageProc'[p] = r /\ op'[p] = o
      /\ \A q \in Procs \ {p} : usageProc'[q] = usageProc[q] /\ op'[q] = op[q]
  BY <1>1
<1>5. \A q \in Procs : Sound(usageProc'[q], op'[q], today)
  BY <1>1, <1>4
<1>6. ASSUME NEW x \in {0, today}
      PROVE  /\ Waiting(usageProc, op, x) \in Nat /\ Waiting(usageProc', op', x) \in Nat
             /\ Own(usageProc[p], op[p], x) \in Nat /\ Own(r, o, x) \in Nat
             /\ Own(usageProc[p], op[p], x) <= Waiting(usageProc, op, x)
             /\ Waiting(usageProc', op', x) + Own(usageProc[p], op[p], x)
                  = Waiting(usageProc, op, x) + Own(r, o, x)
  <2> DEFINE f == [q \in Procs |-> Own(usageProc[q], op[q], x)]
             g == [q \in Procs |-> Own(usageProc'[q], op'[q], x)]
  <2>1. /\ f \in [Procs -> Nat] /\ Waiting(usageProc, op, x) \in Nat
        /\ Own(usageProc[p], op[p], x) <= Waiting(usageProc, op, x)
        /\ Own(usageProc[p], op[p], x) \in Nat
    BY <1>1, WaitingNat
  <2>2. g \in [Procs -> Nat] /\ Waiting(usageProc', op', x) \in Nat
    BY <1>1, <1>5, WaitingNat
  <2>3. /\ Waiting(usageProc, op, x) = Total(f) /\ Waiting(usageProc', op', x) = Total(g)
    BY DEF Waiting
  <2>4. /\ f[p] = Own(usageProc[p], op[p], x) /\ g[p] = Own(r, o, x)
        /\ \A q \in Procs \ {p} : g[q] = f[q]
    BY <1>4
  <2>5. Own(r, o, x) \in Nat
    BY <1>1, Owned
  <2> HIDE DEF f, g
  <2>6. Total(g) + f[p] = Total(f) + g[p]
    BY <2>1, <2>2, <2>4, TotalChange, PoolAssumption
  <2>7. QED
    BY <2>1, <2>2, <2>3, <2>4, <2>5, <2>6
<1>7. QED
  BY <1>3, <1>4, <1>5, <1>6

\* A step of one process that leaves the file, the clock and its own requests.
LEMMA Quietly ==
  ASSUME UsageInv, NEW p \in Procs, NEW r, NEW o, Sound(r, o, today),
         usageProc' = [usageProc EXCEPT ![p] = r], op' = [op EXCEPT ![p] = o],
         UNCHANGED <<usageFile, today, excess, recorded, erased, lost>>,
         \A x \in {0, today} : Own(r, o, x) = Own(usageProc[p], op[p], x),
         r.written.total + Waiting(usageProc, op, 0) <= Usage!Recorded,
         o # NoOp => o.written.total + Waiting(usageProc, op, 0) <= Usage!Recorded,
         ~ lost /\ ~ usageFile.there =>
           /\ r.written = Usage!Empty
           /\ o # NoOp => o.written = Usage!Empty /\ o.stage = "start"
  PROVE  UsageInv'
<1>1. /\ UsageTypeOK /\ NeverWritten /\ Today /\ Apart /\ ~ excess
  BY DEF UsageInv
<1>2. /\ usageProc' \in [Procs -> Ledgers(today)] /\ op' \in [Procs -> Operations(today) \cup {NoOp}]
      /\ usageProc'[p] = r /\ op'[p] = o
      /\ \A q \in Procs \ {p} : usageProc'[q] = usageProc[q] /\ op'[q] = op[q]
      /\ \A q \in Procs : Sound(usageProc'[q], op'[q], today)
  BY Moved
<1>3. \A x \in {0, today} : Waiting(usageProc', op', x) = Waiting(usageProc, op, x)
  <2>1. ASSUME NEW x \in {0, today}
        PROVE  Waiting(usageProc', op', x) = Waiting(usageProc, op, x)
    <3>1. /\ Waiting(usageProc, op, x) \in Nat /\ Waiting(usageProc', op', x) \in Nat
          /\ Own(usageProc[p], op[p], x) \in Nat
          /\ Waiting(usageProc', op', x) + Own(usageProc[p], op[p], x)
               = Waiting(usageProc, op, x) + Own(r, o, x)
      BY Moved
    <3>2. Own(r, o, x) = Own(usageProc[p], op[p], x)
      OBVIOUS
    <3>3. QED
      BY <3>1, <3>2
  <2>2. QED
    BY <2>1
<1>4. UsageTypeOK'
  BY <1>1, <1>2 DEF UsageTypeOK
<1>5. NeverWritten'
  BY <1>1, <1>2 DEF NeverWritten
<1>6. Today'
  BY <1>1, <1>3 DEF Today
<1>7. Apart'
  <2>1. Usage!Recorded' = Usage!Recorded
    BY DEF Usage!Recorded, Usage!Total
  <2>2. Waiting(usageProc', op', 0) = Waiting(usageProc, op, 0)
    BY <1>3
  <2>3. \A q \in Procs : /\ usageProc'[q].written.total + Waiting(usageProc, op, 0) <= Usage!Recorded
                         /\ op'[q] # NoOp => op'[q].written.total + Waiting(usageProc, op, 0) <= Usage!Recorded
    BY <1>1, <1>2 DEF Apart
  <2>4. QED
    BY <1>1, <2>1, <2>2, <2>3 DEF Apart
<1>8. QED
  BY <1>1, <1>2, <1>4, <1>5, <1>6, <1>7 DEF UsageInv

\* What the invariant says of the process that moves.
LEMMA Mover ==
  ASSUME UsageInv, NEW p \in Procs
  PROVE  /\ today \in 1..LastDay /\ Sound(usageProc[p], op[p], today)
         /\ usageProc \in [Procs -> Ledgers(today)] /\ op \in [Procs -> Operations(today) \cup {NoOp}]
         /\ usageProc = [usageProc EXCEPT ![p] = usageProc[p]] /\ op = [op EXCEPT ![p] = op[p]]
         /\ usageFile.doc \in Until(today)
         /\ usageFile.doc.total + Waiting(usageProc, op, 0) <= Usage!Recorded
         /\ usageProc[p].written.total + Waiting(usageProc, op, 0) <= Usage!Recorded
         /\ op[p] # NoOp => op[p].written.total + Waiting(usageProc, op, 0) <= Usage!Recorded
         /\ ~ lost /\ ~ usageFile.there =>
              /\ usageFile.doc = Usage!Empty /\ usageProc[p].written = Usage!Empty
              /\ op[p] # NoOp => op[p].written = Usage!Empty /\ op[p].stage = "start"
         /\ Waiting(usageProc, op, 0) \in Nat /\ Usage!Recorded \in Nat
         /\ Waiting(usageProc, op, 0) <= Usage!Recorded
<1>1. /\ today \in 1..LastDay /\ usageProc \in [Procs -> Ledgers(today)]
      /\ op \in [Procs -> Operations(today) \cup {NoOp}] /\ usageFile.doc \in Until(today)
      /\ \A q \in Procs : Sound(usageProc[q], op[q], today)
      /\ UsageTypeOK /\ NeverWritten /\ Apart
  BY DEF UsageInv, UsageTypeOK
<1>2. usageProc = [usageProc EXCEPT ![p] = usageProc[p]] /\ op = [op EXCEPT ![p] = op[p]]
  BY <1>1
<1>3. Waiting(usageProc, op, 0) \in Nat /\ Usage!Recorded \in Nat /\ usageFile.doc.total \in Nat
  BY <1>1, WaitingNat, RecordedTotal, Counts
<1>4. /\ usageFile.doc.total + Waiting(usageProc, op, 0) <= Usage!Recorded
      /\ usageProc[p].written.total + Waiting(usageProc, op, 0) <= Usage!Recorded
      /\ op[p] # NoOp => op[p].written.total + Waiting(usageProc, op, 0) <= Usage!Recorded
  BY <1>1 DEF Apart
<1>5. Waiting(usageProc, op, 0) <= Usage!Recorded
  BY <1>3, <1>4
<1>6. QED
  BY <1>1, <1>2, <1>3, <1>4, <1>5 DEF NeverWritten

\* Opening the ledger keeps the invariant.
LEMMA UsageOpen ==
  ASSUME UsageInv, NEW p \in Procs, Usage!Open(p)
  PROVE  UsageInv'
<1> DEFINE r == usageProc[p]
<1>1. /\ Sound(r, op[p], today) /\ today \in 1..LastDay /\ usageProc[p].st = "off"
      /\ usageFile.doc \in Until(today)
      /\ UNCHANGED <<usageFile, today, excess, recorded, erased, lost>>
  BY Mover DEF Usage!Open, Usage!history
<1>2. /\ Usage!Empty \in Until(today) /\ Usage!Empty.total = 0
      /\ \A x \in {0, today} : Amount(Usage!Empty, x) = 0
  BY <1>1, EmptyDocument
<1>3. op[p] = NoOp /\ \A x \in {0, today} : Own(r, op[p], x) = 0
  <2>1. op[p] = NoOp /\ r.doc = Usage!Empty /\ r.written = Usage!Empty
    BY <1>1 DEF Sound, Phased
  <2>2. QED
    BY <1>2, <2>1 DEF Own
<1>4. CASE usageFile.there
  <2> DEFINE s == [st |-> "up", doc |-> usageFile.doc, written |-> usageFile.doc, dirty |-> FALSE]
  <2>1. usageProc' = [usageProc EXCEPT ![p] = s] /\ op' = [op EXCEPT ![p] = NoOp]
    BY <1>4 DEF Usage!Open
  <2>2. Sound(s, NoOp, today) /\ \A x \in {0, today} : Own(s, NoOp, x) = 0
    BY <1>1, OpenedSound
  <2>3. s.written = usageFile.doc
    OBVIOUS
  <2> HIDE DEF s
  <2>4. s.written.total + Waiting(usageProc, op, 0) <= Usage!Recorded
    BY <2>3, Mover
  <2>5. QED
    BY <1>1, <1>3, <1>4, <2>1, <2>2, <2>4, Quietly
<1>5. CASE ~ usageFile.there
  <2> DEFINE s == [st |-> "opening", doc |-> Usage!Empty, written |-> Usage!Empty, dirty |-> FALSE]
             o == Usage!Operation("flush", p, s)
  <2>1. usageProc' = [usageProc EXCEPT ![p] = s]
    BY <1>5 DEF Usage!Open
  <2>2. usageProc'[p] = s
    BY <2>1, Mover
  <2>3. op' = [op EXCEPT ![p] = o]
    BY <1>5, <2>2 DEF Usage!Open
  <2>4. /\ Sound(s, o, today) /\ \A x \in {0, today} : Own(s, o, x) = 0
        /\ o # NoOp /\ o.written = Usage!Empty /\ o.stage = "start"
    BY <1>1, OpeningSound
  <2>5. s.written = Usage!Empty
    OBVIOUS
  <2> HIDE DEF s, o
  <2>6. Usage!Empty.total + Waiting(usageProc, op, 0) <= Usage!Recorded
    BY <1>2, Mover
  <2>7. QED
    BY <1>1, <1>3, <2>1, <2>3, <2>4, <2>5, <2>6, Quietly
<1>6. QED
  BY <1>4, <1>5

\* Taking a snapshot for a flush or a reset keeps it.
LEMMA UsageStart ==
  ASSUME UsageInv, NEW p \in Procs, Usage!StartFlush(p) \/ Usage!StartReset(p)
  PROVE  UsageInv'
<1> DEFINE r == usageProc[p]
<1>1. /\ Sound(r, NoOp, today) /\ today \in 1..LastDay /\ op[p] = NoOp
      /\ UNCHANGED <<usageFile, today, excess, recorded, erased, lost>>
      /\ r \in Ledgers(today)
  BY Mover DEF Usage!StartFlush, Usage!StartReset, Usage!FlushFree, Usage!history
<1>2. CASE Usage!StartFlush(p)
  <2> DEFINE s == [r EXCEPT !.dirty = FALSE]
             o == Usage!Operation("flush", p, r)
  <2>1. /\ usageProc' = [usageProc EXCEPT ![p] = s] /\ op' = [op EXCEPT ![p] = o]
        /\ r.st \in {"up", "closing"}
    BY <1>2 DEF Usage!StartFlush, Usage!Running
  <2>2. Sound(s, o, today) /\ \A x \in {0, today} : Own(s, o, x) = Own(r, NoOp, x)
    BY ZenonT(60), <1>1, <2>1, StartSound
  <2>3. s.written = r.written /\ o.written = r.written /\ o.stage = "start"
    BY <1>1 DEF Usage!Operation, Ledgers
  <2> HIDE DEF s, o
  <2>4. /\ r.written.total + Waiting(usageProc, op, 0) <= Usage!Recorded
        /\ ~ lost /\ ~ usageFile.there => r.written = Usage!Empty
    BY Mover
  <2>5. QED
    BY <1>1, <2>1, <2>2, <2>3, <2>4, Quietly
<1>3. CASE Usage!StartReset(p)
  <2> DEFINE s == [r EXCEPT !.doc = Usage!Empty, !.written = Usage!Empty, !.dirty = FALSE]
             o == Usage!Operation("reset", p, r)
  <2>1. usageProc' = [usageProc EXCEPT ![p] = s] /\ op' = [op EXCEPT ![p] = o] /\ r.st = "up"
    BY <1>3 DEF Usage!StartReset
  <2>2. Sound(s, o, today) /\ \A x \in {0, today} : Own(s, o, x) = Own(r, NoOp, x)
    BY ZenonT(60), <1>1, <2>1, StartSound
  <2>3. s.written = Usage!Empty /\ o.written = r.written /\ o.stage = "start"
    BY <1>1 DEF Usage!Operation, Ledgers
  <2> HIDE DEF s, o
  <2>4. /\ Usage!Empty.total + Waiting(usageProc, op, 0) <= Usage!Recorded
        /\ r.written.total + Waiting(usageProc, op, 0) <= Usage!Recorded
        /\ ~ lost /\ ~ usageFile.there => r.written = Usage!Empty
    BY <1>1, Mover, EmptyDocument
  <2>5. QED
    BY <1>1, <2>1, <2>2, <2>3, <2>4, Quietly
<1>4. QED
  BY <1>2, <1>3

\* The end of a flush or a reset, however it went, keeps it.
LEMMA UsageEnd ==
  ASSUME UsageInv, NEW p \in Procs,
         \/ Usage!Commit(p) \/ Usage!FlushFails(p) \/ Usage!ResetCommit(p) \/ Usage!ResetFails(p)
  PROVE  UsageInv'
<1> DEFINE r == usageProc[p]  o == op[p]
<1>1. /\ Sound(r, o, today) /\ today \in 1..LastDay /\ o # NoOp
      /\ UNCHANGED <<usageFile, today, excess, recorded, erased, lost>>
      /\ op' = [op EXCEPT ![p] = NoOp]
  BY Mover DEF Usage!Commit, Usage!FlushFails, Usage!ResetCommit, Usage!ResetFails, Usage!history
<1>2. /\ r.written.total + Waiting(usageProc, op, 0) <= Usage!Recorded
      /\ o.written.total + Waiting(usageProc, op, 0) <= Usage!Recorded
      /\ ~ lost /\ ~ usageFile.there => /\ r.written = Usage!Empty /\ o.written = Usage!Empty
                                        /\ o.stage = "start"
  BY <1>1, Mover
<1>3. ASSUME NEW s, Sound(s, NoOp, today), usageProc' = [usageProc EXCEPT ![p] = s],
             \A x \in {0, today} : Own(s, NoOp, x) = Own(r, o, x),
             s.written \in {r.written, o.written}
      PROVE  UsageInv'
  <2>1. /\ s.written.total + Waiting(usageProc, op, 0) <= Usage!Recorded
        /\ ~ lost /\ ~ usageFile.there => s.written = Usage!Empty
    BY <1>2, <1>3
  <2>2. QED
    BY <1>1, <1>3, <2>1, Quietly
<1>4. CASE Usage!Commit(p)
  <2> DEFINE doc == Usage!AddDocument(o.written, Usage!DeltaDocument(r.doc, o.snap))
             s == [r EXCEPT !.doc = doc, !.written = o.written,
                            !.st = IF o.st = "up" THEN r.st ELSE Usage!After(r.st, TRUE)]
  <2>1. usageProc' = [usageProc EXCEPT ![p] = s] /\ o.kind = "flush" /\ o.stage = "commit"
    BY <1>4, Mover DEF Usage!Commit, Usage!PendingOf
  <2>2. Sound(s, NoOp, today) /\ s.written = o.written /\ \A x \in {0, today} : Own(s, NoOp, x) = Own(r, o, x)
    BY <1>1, <2>1, CommitSound
  <2> HIDE DEF s, doc
  <2>3. QED
    BY <1>3, <2>1, <2>2
<1>5. CASE Usage!FlushFails(p)
  <2> DEFINE s == [r EXCEPT !.dirty = TRUE,
                            !.st = IF o.st = "up" THEN r.st ELSE Usage!After(r.st, FALSE)]
  <2>1. usageProc' = [usageProc EXCEPT ![p] = s] /\ o.kind = "flush" /\ o.stage = "start"
    BY <1>5, Mover DEF Usage!FlushFails
  <2>2. Sound(s, NoOp, today) /\ s.written = r.written /\ \A x \in {0, today} : Own(s, NoOp, x) = Own(r, o, x)
    BY <1>1, <2>1, FailSound
  <2> HIDE DEF s
  <2>3. QED
    BY <1>3, <2>1, <2>2
<1>6. CASE Usage!ResetCommit(p)
  <2> DEFINE s == [r EXCEPT !.written = Usage!Empty]
  <2>1. usageProc' = [usageProc EXCEPT ![p] = s] /\ o.kind = "reset" /\ o.stage = "commit"
    BY <1>6, Mover DEF Usage!ResetCommit
  <2>2. Sound(s, NoOp, today) /\ \A x \in {0, today} : Own(s, NoOp, x) = Own(r, o, x)
    BY <1>1, <2>1, ResetSound
  <2>3. s.written = r.written
    <3>1. r \in Ledgers(today) /\ r.written = Usage!Empty
      BY <1>1, <2>1, Parts DEF Sound, Phased
    <3>2. QED
      BY <3>1 DEF Ledgers
  <2> HIDE DEF s
  <2>4. QED
    BY <1>3, <2>1, <2>2, <2>3
<1>7. CASE Usage!ResetFails(p)
  <2> DEFINE s == [r EXCEPT !.doc = Usage!AddDocument(o.snap, r.doc), !.written = o.written,
                            !.dirty = r.dirty \/ o.dirty]
  <2>1. usageProc' = [usageProc EXCEPT ![p] = s] /\ o.kind = "reset" /\ o.stage = "start"
    BY <1>7, Mover DEF Usage!ResetFails
  <2>2. Sound(s, NoOp, today) /\ s.written = o.written /\ \A x \in {0, today} : Own(s, NoOp, x) = Own(r, o, x)
    BY <1>1, <2>1, ResetSound
  <2> HIDE DEF s
  <2>3. QED
    BY <1>3, <2>1, <2>2
<1>8. QED
  BY <1>4, <1>5, <1>6, <1>7

\* Closing, with or without a last flush, keeps it.
LEMMA UsageClose ==
  ASSUME UsageInv, NEW p \in Procs, Usage!Close(p) \/ Usage!CloseWithNothing(p)
  PROVE  UsageInv'
<1> DEFINE r == usageProc[p]  o == op[p]
<1>1. /\ Sound(r, o, today) /\ today \in 1..LastDay
      /\ UNCHANGED <<usageFile, today, excess, recorded, erased, lost>>
      /\ op' = [op EXCEPT ![p] = o]
  BY Mover DEF Usage!Close, Usage!CloseWithNothing, Usage!history
<1>2. /\ r.written.total + Waiting(usageProc, op, 0) <= Usage!Recorded
      /\ o # NoOp => o.written.total + Waiting(usageProc, op, 0) <= Usage!Recorded
      /\ ~ lost /\ ~ usageFile.there => /\ r.written = Usage!Empty
                                        /\ o # NoOp => o.written = Usage!Empty /\ o.stage = "start"
  BY Mover
<1>3. PICK s : /\ usageProc' = [usageProc EXCEPT ![p] = s] /\ Sound(s, o, today)
               /\ s.written = r.written /\ \A x \in {0, today} : Own(s, o, x) = Own(r, o, x)
  <2>1. CASE Usage!Close(p)
    <3> DEFINE s == [r EXCEPT !.st = "closing"]
    <3>1. usageProc' = [usageProc EXCEPT ![p] = s] /\ r.st = "up"
      BY <2>1, Mover DEF Usage!Close
    <3>2. Sound(s, o, today) /\ s.written = r.written /\ \A x \in {0, today} : Own(s, o, x) = Own(r, o, x)
      BY <1>1, <3>1, CloseSound
    <3>3. QED
      BY <3>1, <3>2
  <2>2. CASE Usage!CloseWithNothing(p)
    <3> DEFINE s == [r EXCEPT !.st = "closed"]
    <3>1. usageProc' = [usageProc EXCEPT ![p] = s] /\ r.st = "closing" /\ o = NoOp /\ ~ r.dirty
      BY <2>2, Mover DEF Usage!CloseWithNothing, Usage!FlushFree
    <3>2. Sound(s, o, today) /\ s.written = r.written /\ \A x \in {0, today} : Own(s, o, x) = Own(r, o, x)
      BY <1>1, <3>1, CloseSound
    <3>3. QED
      BY <3>1, <3>2
  <2>3. QED
    BY <2>1, <2>2
<1>4. QED
  BY <1>1, <1>2, <1>3, Quietly

\* Arithmetic of a part that passes from a process to the file.
LEMMA Handed ==
  ASSUME NEW w \in Nat, NEW v \in Nat, NEW a \in Nat, NEW b \in Nat, NEW k \in Nat, v + a = w + b, b + k = a
  PROVE  v + k = w
OBVIOUS

\* Recording a request keeps it.
LEMMA UsageRecord ==
  ASSUME UsageInv, NEW p \in Procs, Usage!RecordOutcome(p)
  PROVE  UsageInv'
<1> DEFINE r == usageProc[p]  o == op[p]
           s == [r EXCEPT !.doc = Usage!AddDocument(r.doc, Usage!One(today)), !.dirty = TRUE]
<1>1. /\ Sound(r, o, today) /\ today \in 1..LastDay /\ r.st = "up" /\ r \in Ledgers(today)
      /\ UNCHANGED <<usageFile, today, excess, erased, lost>> /\ op' = [op EXCEPT ![p] = o]
      /\ recorded' = [recorded EXCEPT ![today] = @ + 1]
      /\ UsageTypeOK /\ NeverWritten /\ Today /\ Apart /\ ~ excess
  BY Mover DEF Usage!RecordOutcome, Usage!Accepts, UsageInv
<1>2. usageProc' = [usageProc EXCEPT ![p] = s]
  BY Mover DEF Usage!RecordOutcome
<1>3. Sound(s, o, today) /\ \A x \in {0, today} : Own(s, o, x) = Own(r, o, x) + 1
  BY <1>1, RecordSound
<1>4. s.written = r.written
  BY <1>1 DEF Ledgers
<1> HIDE DEF s
<1>5. /\ usageProc' \in [Procs -> Ledgers(today)] /\ op' \in [Procs -> Operations(today) \cup {NoOp}]
      /\ usageProc'[p] = s /\ op'[p] = o
      /\ \A q \in Procs \ {p} : usageProc'[q] = usageProc[q] /\ op'[q] = op[q]
      /\ \A q \in Procs : Sound(usageProc'[q], op'[q], today)
  BY <1>1, <1>2, <1>3, Moved
<1>6. \A x \in {0, today} : /\ Waiting(usageProc, op, x) \in Nat
                            /\ Waiting(usageProc', op', x) = Waiting(usageProc, op, x) + 1
  <2>1. ASSUME NEW x \in {0, today}
        PROVE  /\ Waiting(usageProc, op, x) \in Nat
               /\ Waiting(usageProc', op', x) = Waiting(usageProc, op, x) + 1
    <3>1. /\ Waiting(usageProc, op, x) \in Nat /\ Waiting(usageProc', op', x) \in Nat
          /\ Own(r, o, x) \in Nat
          /\ Waiting(usageProc', op', x) + Own(r, o, x) = Waiting(usageProc, op, x) + Own(s, o, x)
      BY <1>1, <1>2, <1>3, Moved, ZenonT(60)
    <3>2. Own(s, o, x) = Own(r, o, x) + 1
      BY <1>3
    <3>3. QED
      BY <3>1, <3>2
  <2>2. QED
    BY <2>1
<1>7. /\ recorded' \in [1..LastDay -> Nat] /\ recorded'[today] = recorded[today] + 1
      /\ \A d \in 1..LastDay : d # today => recorded'[d] = recorded[d]
  BY <1>1 DEF UsageTypeOK
<1>8. Usage!Recorded \in Nat /\ Usage!Recorded' = Usage!Recorded + 1
  <2>1. Usage!Recorded = Total(recorded) /\ Usage!Recorded \in Nat
    BY <1>1, RecordedTotal
  <2>2. Usage!Recorded' = Total(recorded')
    BY SameTotal DEF Usage!Recorded
  <2>3. recorded \in [1..LastDay -> Nat] /\ IsFiniteSet(1..LastDay)
    <3>1. 1 \in Int /\ LastDay \in Int
      BY UsageBounds
    <3>2. QED
      BY <1>1, <3>1, FS_Interval DEF UsageTypeOK
  <2>4. Total(recorded') + recorded[today] = Total(recorded) + recorded'[today] /\ Total(recorded') \in Nat
    <3> DEFINE S == 1..LastDay
    <3>1. /\ today \in S /\ IsFiniteSet(S) /\ recorded \in [S -> Nat] /\ recorded' \in [S -> Nat]
          /\ \A d \in S \ {today} : recorded'[d] = recorded[d]
      BY <1>1, <1>7, <2>3
    <3> HIDE DEF S
    <3>2. QED
      BY <3>1, TotalChange
  <2>5. recorded[today] \in Nat
    BY <1>1, <2>3
  <2>6. QED
    BY <1>7, <2>1, <2>2, <2>4, <2>5
<1>9. UsageTypeOK'
  BY <1>1, <1>5, <1>7 DEF UsageTypeOK
<1>10. NeverWritten'
  BY <1>1, <1>4, <1>5 DEF NeverWritten
<1>11. Today'
  <2>1. ~ lost => recorded'[today] = erased[today] + Amount(usageFile.doc, today)
                                     + Waiting(usageProc', op', today)
    <3>1. /\ Amount(usageFile.doc, today) \in Nat /\ erased[today] \in Nat /\ recorded[today] \in Nat
      BY <1>1, Mover, Counts DEF UsageTypeOK
    <3>2. QED
      BY <1>1, <1>6, <1>7, <3>1 DEF Today
  <2>2. \A d \in (today + 1) .. LastDay : recorded'[d] = 0 /\ erased[d] = 0
    <3>1. \A d \in (today + 1) .. LastDay : d \in 1..LastDay /\ d # today
      BY <1>1, UsageBounds
    <3>2. QED
      BY <1>1, <1>7, <3>1 DEF Today
  <2>3. QED
    BY <1>1, <2>1, <2>2 DEF Today
<1>12. Apart'
  <2> DEFINE w == Waiting(usageProc, op, 0)
  <2>1. w \in Nat /\ Waiting(usageProc', op', 0) = w + 1
    BY <1>6
  <2>2. ASSUME NEW d, d \in Until(today), d.total + w <= Usage!Recorded
        PROVE  d.total + (w + 1) <= Usage!Recorded'
    <3>1. d.total \in Nat
      BY <1>1, <2>2, Counts
    <3>2. QED
      BY <1>8, <2>1, <2>2, <3>1
  <2>3. usageFile.doc.total + (w + 1) <= Usage!Recorded'
    BY <2>2, Mover
  <2>4. ASSUME NEW q \in Procs
        PROVE  /\ usageProc'[q].written.total + (w + 1) <= Usage!Recorded'
               /\ op'[q] # NoOp => op'[q].written.total + (w + 1) <= Usage!Recorded'
    <3>1. /\ usageProc[q].written.total + w <= Usage!Recorded
          /\ op[q] # NoOp => op[q].written.total + w <= Usage!Recorded
          /\ Sound(usageProc[q], op[q], today)
      BY Mover
    <3>2. usageProc[q].written \in Until(today) /\ (op[q] # NoOp => op[q].written \in Until(today))
      BY <1>1, <3>1, Parts
    <3>3. usageProc'[q].written = usageProc[q].written /\ op'[q] = op[q]
      BY <1>4, <1>5
    <3>4. QED
      BY <2>2, <3>1, <3>2, <3>3
  <2> HIDE DEF w
  <2>5. QED
    BY <1>1, <2>1, <2>3, <2>4 DEF Apart
<1>13. QED
  BY <1>1, <1>5, <1>9, <1>10, <1>11, <1>12 DEF UsageInv

\* A process that hands over, or loses, some of what it alone had.
HandsOver(p, r, o, part) ==
  /\ Sound(r, o, today)
  /\ usageProc' = [usageProc EXCEPT ![p] = r] /\ op' = [op EXCEPT ![p] = o]
  /\ UNCHANGED <<today, excess, recorded, lost>>
  /\ usageFile' \in [there : BOOLEAN, doc : Until(today)]
  /\ usageFile'.there \/ (~ usageFile.there /\ usageFile' = usageFile)
  /\ erased' \in [1..LastDay -> Nat]
  /\ \A d \in (today + 1) .. LastDay : erased'[d] = 0
  /\ part \in [{0, today} -> Nat]
  /\ \A x \in {0, today} : Own(r, o, x) + part[x] = Own(usageProc[p], op[p], x)
  /\ usageFile'.doc.total + Waiting(usageProc, op, 0) <= Usage!Recorded + part[0]
  /\ r.written = usageProc[p].written \/ r.written = Usage!Empty
  /\ o # NoOp => o.written.total + Waiting(usageProc, op, 0) <= Usage!Recorded + part[0]
  /\ ~ usageFile'.there => o = NoOp
  /\ ~ lost => erased'[today] + Amount(usageFile'.doc, today)
                 = erased[today] + Amount(usageFile.doc, today) + part[today]

\* So does a process that hands a part over to the file or loses it.
LEMMA Released ==
  ASSUME UsageInv, NEW p \in Procs, NEW r, NEW o, NEW part, HandsOver(p, r, o, part)
  PROVE  UsageInv'
<1>1. /\ UsageTypeOK /\ NeverWritten /\ Today /\ Apart /\ ~ excess /\ today \in 1..LastDay
  BY DEF UsageInv, UsageTypeOK
<1> USE DEF HandsOver
<1>2. /\ usageProc' \in [Procs -> Ledgers(today)] /\ op' \in [Procs -> Operations(today) \cup {NoOp}]
      /\ usageProc'[p] = r /\ op'[p] = o
      /\ \A q \in Procs \ {p} : usageProc'[q] = usageProc[q] /\ op'[q] = op[q]
      /\ \A q \in Procs : Sound(usageProc'[q], op'[q], today)
  BY Moved
<1>3. \A x \in {0, today} : /\ Waiting(usageProc, op, x) \in Nat /\ Waiting(usageProc', op', x) \in Nat
                            /\ part[x] \in Nat
                            /\ Waiting(usageProc', op', x) + part[x] = Waiting(usageProc, op, x)
  <2>1. ASSUME NEW x \in {0, today}
        PROVE  /\ Waiting(usageProc, op, x) \in Nat /\ Waiting(usageProc', op', x) \in Nat
               /\ part[x] \in Nat
               /\ Waiting(usageProc', op', x) + part[x] = Waiting(usageProc, op, x)
    <3>1. /\ Waiting(usageProc, op, x) \in Nat /\ Waiting(usageProc', op', x) \in Nat
          /\ Own(usageProc[p], op[p], x) \in Nat /\ Own(r, o, x) \in Nat
          /\ Waiting(usageProc', op', x) + Own(usageProc[p], op[p], x)
               = Waiting(usageProc, op, x) + Own(r, o, x)
      BY Moved, ZenonT(60)
    <3>2. Own(r, o, x) + part[x] = Own(usageProc[p], op[p], x) /\ part[x] \in Nat
      OBVIOUS
    <3>3. PICK w \in Nat, v \in Nat, a \in Nat, b \in Nat, k \in Nat :
            /\ w = Waiting(usageProc, op, x) /\ v = Waiting(usageProc', op', x)
            /\ a = Own(usageProc[p], op[p], x) /\ b = Own(r, o, x) /\ k = part[x]
            /\ v + a = w + b /\ b + k = a
      BY <3>1, <3>2
    <3>4. v \in Nat /\ w \in Nat /\ a \in Nat /\ b \in Nat /\ k \in Nat /\ v + a = w + b /\ b + k = a
      BY <3>3
    <3>5. v + k = w
      BY ONLY <3>4, Handed
    <3>6. QED
      BY <3>3, <3>5
  <2>2. QED
    BY <2>1
<1>4. UsageTypeOK'
  BY <1>1, <1>2 DEF UsageTypeOK
<1>5. NeverWritten'
  <2>1. CASE usageFile'.there
    BY <2>1 DEF NeverWritten
  <2>2. CASE ~ usageFile'.there
    BY <1>1, <1>2, <2>2 DEF NeverWritten
  <2>3. QED
    BY <2>1, <2>2
<1>6. Today'
  <2>1. ASSUME ~ lost
        PROVE  recorded[today] = erased'[today] + Amount(usageFile'.doc, today)
                                 + Waiting(usageProc', op', today)
    <3>1. /\ erased[today] \in Nat /\ erased'[today] \in Nat
      BY <1>1 DEF UsageTypeOK
    <3>2. usageFile.doc \in Until(today) /\ usageFile'.doc \in Until(today)
      BY <1>1 DEF UsageTypeOK
    <3>3. Amount(usageFile.doc, today) \in Nat /\ Amount(usageFile'.doc, today) \in Nat
      BY <1>1, <3>2, Counts
    <3>4. recorded[today] = erased[today] + Amount(usageFile.doc, today) + Waiting(usageProc, op, today)
      BY <1>1, <2>1 DEF Today
    <3>5. erased'[today] + Amount(usageFile'.doc, today)
            = erased[today] + Amount(usageFile.doc, today) + part[today]
      BY <2>1
    <3>6. /\ Waiting(usageProc, op, today) \in Nat /\ Waiting(usageProc', op', today) \in Nat
          /\ part[today] \in Nat
          /\ Waiting(usageProc', op', today) + part[today] = Waiting(usageProc, op, today)
      BY <1>3
    <3>7. QED
      BY <3>1, <3>3, <3>4, <3>5, <3>6
  <2>2. QED
    BY <1>1, <2>1 DEF Today
<1>7. Apart'
  <2>1. Usage!Recorded' = Usage!Recorded /\ Usage!Recorded \in Nat
    BY <1>1, RecordedTotal DEF Usage!Recorded, Usage!Total
  <2>2. PICK w \in Nat, v \in Nat, k \in Nat :
          w = Waiting(usageProc, op, 0) /\ v = Waiting(usageProc', op', 0) /\ k = part[0] /\ v + k = w
    BY <1>3
  <2>3. ASSUME NEW d, d \in Until(today), d.total + w <= Usage!Recorded + k
        PROVE  d.total + v <= Usage!Recorded
    <3>1. PICK m \in Nat, n \in Nat : m = d.total /\ n = Usage!Recorded /\ m + w <= n + k
      BY <1>1, <2>1, <2>3, Counts
    <3>2. m + v <= n
      BY <2>2, <3>1
    <3>3. QED
      BY <3>1, <3>2
  <2>4. usageFile'.doc.total + v <= Usage!Recorded
    BY <2>2, <2>3
  <2>5. \A d : d \in Until(today) /\ d.total + w <= Usage!Recorded => d.total + v <= Usage!Recorded
    <3>1. ASSUME NEW d, d \in Until(today), d.total + w <= Usage!Recorded
          PROVE  d.total + v <= Usage!Recorded
      <4>1. PICK m \in Nat, n \in Nat : m = d.total /\ n = Usage!Recorded /\ m + w <= n
        BY <1>1, <2>1, <3>1, Counts
      <4>2. m + v <= n
        BY <2>2, <4>1
      <4>3. QED
        BY <4>1, <4>2
    <3>2. QED
      BY <3>1
  <2>6. ASSUME NEW q \in Procs
        PROVE  /\ usageProc'[q].written.total + v <= Usage!Recorded
               /\ op'[q] # NoOp => op'[q].written.total + v <= Usage!Recorded
    <3>1. /\ usageProc[q].written.total + w <= Usage!Recorded
          /\ op[q] # NoOp => op[q].written.total + w <= Usage!Recorded
          /\ Sound(usageProc[q], op[q], today) /\ w <= Usage!Recorded
      BY <2>2, Mover
    <3>2. usageProc[q].written \in Until(today) /\ (op[q] # NoOp => op[q].written \in Until(today))
      BY <1>1, <3>1, Parts
    <3>3. CASE q # p
      BY <1>2, <2>5, <3>1, <3>2, <3>3
    <3>4. CASE q = p
      <4>1. r.written.total + v <= Usage!Recorded
        <5>1. Usage!Empty \in Until(today) /\ Usage!Empty.total = 0
          BY <1>1, EmptyDocument
        <5>2. Usage!Empty.total + w <= Usage!Recorded
          BY <2>2, <3>1, <5>1
        <5>3. QED
          BY <2>5, <3>1, <3>2, <3>4, <5>1, <5>2
      <4>2. o # NoOp => o.written \in Until(today)
        BY <1>1, Parts
      <4>3. o # NoOp => o.written.total + v <= Usage!Recorded
        BY <2>2, <2>3, <4>2
      <4>4. QED
        BY <1>2, <3>4, <4>1, <4>3
    <3>5. QED
      BY <3>3, <3>4
  <2>7. QED
    BY <2>1, <2>2, <2>4, <2>6 DEF Apart
<1>8. QED
  BY <1>1, <1>2, <1>4, <1>5, <1>6, <1>7 DEF UsageInv

\* A flush adds to the file what its process hands over.
LEMMA UsageMerge ==
  ASSUME UsageInv, NEW p \in Procs, Usage!Merge(p)
  PROVE  UsageInv'
<1> DEFINE r == usageProc[p]  o == op[p]
           base == IF usageFile.there THEN usageFile.doc ELSE r.written
           new == Usage!DeltaDocument(o.snap, r.written)
           doc == Usage!AddDocument(base, new)
           u == MergedOp(o, doc)
           part == [x \in {0, today} |-> Amount(new, x)]
<1>1. /\ Sound(r, o, today) /\ today \in 1..LastDay /\ o # NoOp /\ o.kind = "flush" /\ o.stage = "start"
      /\ usageProc' = [usageProc EXCEPT ![p] = r]
      /\ UNCHANGED <<today, excess, recorded, erased, lost>>
      /\ UsageTypeOK /\ Today
  BY Mover DEF Usage!Merge, Usage!history, UsageInv
<1>2. /\ r.written \in Until(today) /\ o.snap \in Until(today) /\ usageFile.doc \in Until(today)
  BY <1>1, Mover, Parts
<1>3. base \in Until(today) /\ new \in Until(today)
  BY <1>1, <1>2, Since
<1>4. doc \in Until(today) /\ \A x \in {0, today} : Amount(doc, x) = Amount(base, x) + Amount(new, x)
  BY <1>1, <1>3, Added
<1>5. /\ usageFile' = [there |-> TRUE, doc |-> doc] /\ op' = [op EXCEPT ![p] = u]
  BY Mover DEF Usage!Merge, MergedOp
<1> HIDE DEF doc, base
<1>6. /\ Sound(r, u, today) /\ u # NoOp /\ u.written = doc
      /\ \A x \in {0, today} : Own(r, u, x) + Amount(new, x) = Own(r, o, x)
  BY <1>1, <1>4, MergeSound
<1>7. base.total + Waiting(usageProc, op, 0) <= Usage!Recorded
  BY Mover DEF base
<1>8. ~ lost => base = usageFile.doc
  BY Mover DEF base
<1>9. /\ part \in [{0, today} -> Nat] /\ \A x \in {0, today} : part[x] = Amount(new, x)
  <2>1. \A x \in {0, today} : x \in Nat
    BY <1>1, UsageBounds
  <2>2. QED
    BY <1>1, <1>3, <2>1, Counts
<1> HIDE DEF new, u, part
<1>10. usageFile' \in [there : BOOLEAN, doc : Until(today)] /\ usageFile'.there /\ usageFile'.doc = doc
  BY <1>4, <1>5
<1>11. doc.total + Waiting(usageProc, op, 0) <= Usage!Recorded + part[0]
  <2>1. /\ doc.total = base.total + part[0] /\ base.total \in Nat /\ part[0] \in Nat
    BY <1>1, <1>3, <1>4, <1>9, Counts
  <2>2. Waiting(usageProc, op, 0) \in Nat /\ Usage!Recorded \in Nat
    BY Mover
  <2>3. QED
    BY <1>7, <2>1, <2>2
<1>12. ~ lost => erased[today] + Amount(doc, today) = erased[today] + Amount(usageFile.doc, today) + part[today]
  <2>1. erased[today] \in Nat /\ Amount(usageFile.doc, today) \in Nat /\ Amount(new, today) \in Nat
    BY <1>1, <1>2, <1>3, Counts DEF UsageTypeOK
  <2>2. QED
    BY <1>4, <1>8, <1>9, <2>1
<1>13. /\ erased' \in [1..LastDay -> Nat] /\ \A d \in (today + 1) .. LastDay : erased'[d] = 0
  BY <1>1 DEF UsageTypeOK, Today
<1>14. HandsOver(p, r, u, part)
  BY <1>1, <1>5, <1>6, <1>9, <1>10, <1>11, <1>12, <1>13 DEF HandsOver
<1>15. QED
  BY <1>14, Released

\* What is erased on each day is a number, and nothing on a later day.
LEMMA Erased ==
  ASSUME UsageInv, NEW f \in [1..LastDay -> Nat], \A d \in (today + 1) .. LastDay : f[d] = 0,
         erased' = [d \in Usage!Days |-> erased[d] + f[d]]
  PROVE  /\ erased' \in [1..LastDay -> Nat] /\ \A d \in (today + 1) .. LastDay : erased'[d] = 0
         /\ erased'[today] = erased[today] + f[today] /\ erased[today] \in Nat
<1>1. /\ erased \in [1..LastDay -> Nat] /\ today \in 1..LastDay
      /\ \A d \in (today + 1) .. LastDay : erased[d] = 0
  BY DEF UsageInv, UsageTypeOK, Today
<1>2. \A d \in (today + 1) .. LastDay : d \in 1..LastDay
  BY <1>1, UsageBounds
<1>3. QED
  BY <1>1, <1>2 DEF Usage!Days

\* A reset moves what the file held to what was erased.
LEMMA UsageErase ==
  ASSUME UsageInv, NEW p \in Procs, Usage!ResetWrite(p)
  PROVE  UsageInv'
<1> DEFINE r == usageProc[p]  o == op[p]
           limbo == Usage!DeltaDocument(o.snap, o.written)
           u == [o EXCEPT !.stage = "commit"]
           part == [x \in {0, today} |-> Amount(limbo, x)]
           f == [d \in 1..LastDay |-> Usage!At(usageFile.doc.day, d) + Usage!At(limbo.day, d)]
<1>1. /\ Sound(r, o, today) /\ today \in 1..LastDay /\ o # NoOp /\ o.kind = "reset" /\ o.stage = "start"
      /\ usageProc' = [usageProc EXCEPT ![p] = r] /\ op' = [op EXCEPT ![p] = u]
      /\ usageFile' = [there |-> TRUE, doc |-> Usage!Empty]
      /\ UNCHANGED <<today, excess, recorded, lost>>
  BY Mover DEF Usage!ResetWrite
<1>2. /\ o.written \in Until(today) /\ o.snap \in Until(today) /\ usageFile.doc \in Until(today)
  BY <1>1, Mover, Parts
<1>3. limbo \in Until(today)
  BY <1>1, <1>2, Since
<1>4. /\ Sound(r, u, today) /\ u # NoOp /\ u.written = o.written
      /\ \A x \in {0, today} : Own(r, u, x) + Amount(limbo, x) = Own(r, o, x)
  BY <1>1, ResetSound
<1>5. /\ Usage!Empty \in Until(today) /\ Usage!Empty.total = 0 /\ Amount(Usage!Empty, today) = 0
  BY <1>1, EmptyDocument
<1>6. erased' = [d \in Usage!Days |-> erased[d] + f[d]]
  <2>1. erased' = [d \in Usage!Days |-> erased[d] + Usage!At(usageFile.doc.day, d) + Usage!At(limbo.day, d)]
    BY DEF Usage!ResetWrite, Usage!Limbo
  <2>2. \A d \in Usage!Days : erased[d] + Usage!At(usageFile.doc.day, d) + Usage!At(limbo.day, d)
                              = erased[d] + f[d]
    <3>1. ASSUME NEW d \in 1..LastDay
          PROVE  /\ erased[d] \in Nat /\ Usage!At(usageFile.doc.day, d) \in Nat /\ Usage!At(limbo.day, d) \in Nat
      <4>1. d \in Nat /\ erased \in [1..LastDay -> Nat]
        BY UsageBounds DEF UsageInv, UsageTypeOK
      <4>2. QED
        BY <1>1, <1>2, <1>3, <4>1, Counts
    <3> HIDE DEF limbo
    <3>2. QED
      BY <3>1 DEF Usage!Days
  <2> HIDE DEF f
  <2>3. QED
    BY <2>1, <2>2
<1> HIDE DEF limbo
<1>7. /\ f \in [1..LastDay -> Nat] /\ \A d \in (today + 1) .. LastDay : f[d] = 0
      /\ f[today] = Amount(usageFile.doc, today) + Amount(limbo, today)
  <2>1. ASSUME NEW d \in 1..LastDay
        PROVE  /\ Usage!At(usageFile.doc.day, d) \in Nat /\ Usage!At(limbo.day, d) \in Nat
               /\ d > today => Usage!At(usageFile.doc.day, d) = 0 /\ Usage!At(limbo.day, d) = 0
    <3>1. d \in Nat
      BY UsageBounds
    <3>2. QED
      BY SMTT(120), <1>1, <1>2, <1>3, <3>1, Counts
  <2>2. \A d \in (today + 1) .. LastDay : d \in 1..LastDay /\ d > today
    BY <1>1, UsageBounds
  <2>3. /\ Amount(usageFile.doc, today) = Usage!At(usageFile.doc.day, today)
        /\ Amount(limbo, today) = Usage!At(limbo.day, today)
    BY <1>1, <1>2, <1>3, Counts
  <2>4. f \in [1..LastDay -> Nat]
    BY <2>1
  <2>5. \A d \in (today + 1) .. LastDay : f[d] = 0
    BY <2>1, <2>2
  <2>6. QED
    BY <1>1, <2>3, <2>4, <2>5
<1> HIDE DEF f
<1>8. /\ erased' \in [1..LastDay -> Nat] /\ \A d \in (today + 1) .. LastDay : erased'[d] = 0
      /\ erased'[today] = erased[today] + f[today] /\ erased[today] \in Nat
  BY <1>6, <1>7, Erased
<1>9. /\ part \in [{0, today} -> Nat] /\ \A x \in {0, today} : part[x] = Amount(limbo, x)
  <2>1. \A x \in {0, today} : x \in Nat
    BY <1>1, UsageBounds
  <2>2. QED
    BY <1>1, <1>3, <2>1, Counts
<1> HIDE DEF part, u
<1>10. usageFile' \in [there : BOOLEAN, doc : Until(today)] /\ usageFile'.there /\ usageFile'.doc = Usage!Empty
  BY <1>1, <1>5
<1>11. /\ Usage!Empty.total + Waiting(usageProc, op, 0) <= Usage!Recorded + part[0]
       /\ o.written.total + Waiting(usageProc, op, 0) <= Usage!Recorded + part[0]
  <2>1. /\ Waiting(usageProc, op, 0) \in Nat /\ Usage!Recorded \in Nat /\ part[0] \in Nat
        /\ Waiting(usageProc, op, 0) <= Usage!Recorded
        /\ o.written.total + Waiting(usageProc, op, 0) <= Usage!Recorded
        /\ o.written.total \in Nat
    BY <1>1, <1>2, <1>9, Mover, Counts
  <2>2. QED
    BY <1>5, <2>1
<1>12. erased'[today] + Amount(Usage!Empty, today) = erased[today] + Amount(usageFile.doc, today) + part[today]
  <2>1. Amount(usageFile.doc, today) \in Nat /\ Amount(limbo, today) \in Nat
    BY <1>1, <1>2, <1>3, Counts
  <2>2. QED
    BY <1>5, <1>7, <1>8, <1>9, <2>1
<1>13. HandsOver(p, r, u, part)
  BY <1>1, <1>4, <1>8, <1>9, <1>10, <1>11, <1>12 DEF HandsOver
<1>14. QED
  BY <1>13, Released

\* The end of a process, which may lose what it had to save.
LEMMA UsageExit ==
  ASSUME UsageInv, NEW p \in Procs, Usage!Exit(p)
  PROVE  UsageInv'
<1> DEFINE r == usageProc[p]  o == op[p]
           part == [x \in {0, today} |-> Own(r, o, x)]
           f == [d \in 1..LastDay |-> Usage!At(Usage!Unsaved(p).day, d)]
<1>1. /\ Sound(r, o, today) /\ today \in 1..LastDay
      /\ usageProc' = [usageProc EXCEPT ![p] = Usage!Off] /\ op' = [op EXCEPT ![p] = NoOp]
      /\ erased' = [d \in Usage!Days |-> erased[d] + Usage!At(Usage!Unsaved(p).day, d)]
      /\ UNCHANGED <<usageFile, today, excess, recorded, lost>>
      /\ usageFile \in [there : BOOLEAN, doc : Until(today)]
  BY Mover DEF Usage!Exit, UsageInv, UsageTypeOK
<1>2. /\ Sound(Usage!Off, NoOp, today) /\ \A x \in {0, today} : Own(Usage!Off, NoOp, x) = 0
  BY <1>1, OffSound
<1>3. /\ part \in [{0, today} -> Nat] /\ \A x \in {0, today} : part[x] = Own(r, o, x)
  BY <1>1, Owned
<1>4. erased' = [d \in Usage!Days |-> erased[d] + f[d]]
  BY <1>1 DEF Usage!Days
<1>5. /\ f \in [1..LastDay -> Nat] /\ \A d \in (today + 1) .. LastDay : f[d] = 0
      /\ f[today] = Own(r, o, today)
  <2>1. \A d \in 1..LastDay : /\ Usage!At(Usage!Unsaved(p).day, d) \in Nat
                              /\ d > today => Usage!At(Usage!Unsaved(p).day, d) = 0
    BY <1>1, UnsavedIsOwn
  <2>2. \A d \in (today + 1) .. LastDay : d \in 1..LastDay /\ d > today
    BY <1>1, UsageBounds
  <2>3. Usage!At(Usage!Unsaved(p).day, today) = Own(r, o, today)
    <3>1. today # 0
      BY <1>1
    <3>2. QED
      BY <1>1, <3>1, UnsavedIsOwn DEF Amount
  <2>4. f \in [1..LastDay -> Nat]
    BY <2>1
  <2>5. \A d \in (today + 1) .. LastDay : f[d] = 0
    BY <2>1, <2>2
  <2>6. QED
    BY <1>1, <2>3, <2>4, <2>5
<1> HIDE DEF f, part
<1>6. /\ erased' \in [1..LastDay -> Nat] /\ \A d \in (today + 1) .. LastDay : erased'[d] = 0
      /\ erased'[today] = erased[today] + f[today] /\ erased[today] \in Nat
  BY <1>4, <1>5, Erased
<1>7. /\ usageFile' \in [there : BOOLEAN, doc : Until(today)]
      /\ usageFile'.there \/ (~ usageFile.there /\ usageFile' = usageFile)
  BY <1>1
<1>8. usageFile'.doc.total + Waiting(usageProc, op, 0) <= Usage!Recorded + part[0]
  <2>1. /\ Waiting(usageProc, op, 0) \in Nat /\ Usage!Recorded \in Nat /\ part[0] \in Nat
        /\ usageFile.doc.total + Waiting(usageProc, op, 0) <= Usage!Recorded
        /\ usageFile.doc.total \in Nat
    BY <1>1, <1>3, Mover, Counts
  <2>2. QED
    BY <1>1, <2>1
<1>9. erased'[today] + Amount(usageFile'.doc, today) = erased[today] + Amount(usageFile.doc, today) + part[today]
  <2>1. Amount(usageFile.doc, today) \in Nat /\ part[today] \in Nat /\ part[today] = f[today]
    BY <1>1, <1>3, <1>5, Mover, Counts
  <2>2. usageFile' = usageFile
    BY <1>1
  <2>3. QED
    BY <1>6, <2>1, <2>2
<1>10. /\ \A x \in {0, today} : Own(Usage!Off, NoOp, x) + part[x] = Own(r, o, x)
       /\ Usage!Off.written = Usage!Empty
  <2>1. \A x \in {0, today} : Own(Usage!Off, NoOp, x) = 0 /\ part[x] = Own(r, o, x) /\ part[x] \in Nat
    BY <1>2, <1>3
  <2>2. QED
    BY <2>1 DEF Usage!Off
<1>11. HandsOver(p, Usage!Off, NoOp, part)
  BY <1>1, <1>2, <1>3, <1>6, <1>7, <1>8, <1>9, <1>10 DEF HandsOver
<1>12. QED
  BY <1>11, Released

\* A snapshot shows no more than was recorded.
LEMMA UsageSnapshot ==
  ASSUME UsageInv, NEW p \in Procs, Usage!Snapshot(p)
  PROVE  UsageInv'
<1> DEFINE r == usageProc[p]
<1>1. /\ UNCHANGED <<usageFile, usageProc, op, today, recorded, erased, lost>>
      /\ Sound(r, op[p], today) /\ today \in 1..LastDay /\ op[p] = NoOp
      /\ UsageTypeOK /\ NeverWritten /\ Today /\ Apart /\ ~ excess
      /\ \A q \in Procs : Sound(usageProc[q], op[q], today)
  BY Mover DEF Usage!Snapshot, Usage!ViewLock, Usage!FlushFree, Usage!history, UsageInv
<1>2. /\ r.doc \in Until(today) /\ r.written \in Until(today) /\ usageFile.doc \in Until(today)
  BY <1>1, Parts, Mover
<1>3. PICK w \in Nat, own \in Nat, all \in Nat, base \in Nat, doc \in Nat, inFile \in Nat :
        /\ w = Waiting(usageProc, op, 0) /\ own = Own(r, NoOp, 0) /\ all = Usage!Recorded
        /\ base = r.written.total /\ doc = r.doc.total /\ inFile = usageFile.doc.total
        /\ own <= w /\ inFile + w <= all /\ base + w <= all /\ own = doc - base
  <2>1. Own(r, NoOp, 0) = r.doc.total - r.written.total
    BY DEF Own, Amount
  <2>2. Own(r, NoOp, 0) \in Nat /\ Own(r, NoOp, 0) <= Waiting(usageProc, op, 0)
    BY <1>1, WaitingNat
  <2>3. r.written.total \in Nat /\ r.doc.total \in Nat /\ usageFile.doc.total \in Nat
    BY <1>1, <1>2, Counts
  <2>4. QED
    BY <2>1, <2>2, <2>3, Mover
<1>4. r.doc.total <= Usage!Recorded
  BY <1>3
<1>5. Usage!AddDocument(usageFile.doc, Usage!DeltaDocument(r.doc, r.written)).total <= Usage!Recorded
  <2> DEFINE new == Usage!DeltaDocument(r.doc, r.written)
             view == Usage!AddDocument(usageFile.doc, new)
  <2>1. Amount(r.written, 0) <= Amount(r.doc, 0)
    BY <1>1, Parts DEF Grown
  <2>2. new \in Until(today) /\ Amount(new, 0) = r.doc.total - r.written.total
    BY <1>1, <1>2, <2>1, Since, Counts
  <2> HIDE DEF new
  <2>3. view \in Until(today) /\ Amount(view, 0) = Amount(usageFile.doc, 0) + Amount(new, 0)
    BY <1>1, <1>2, <2>2, Added
  <2> HIDE DEF view
  <2>4. view.total = inFile + own
    BY <1>1, <1>2, <1>3, <2>2, <2>3, Counts
  <2>5. view.total <= Usage!Recorded
    BY <1>3, <2>4
  <2>6. QED
    BY <2>5 DEF view, new
<1>6. ~ excess'
  <2>1. Usage!Recorded \in Nat /\ r.doc.total \in Nat
    BY <1>3
  <2>2. ~ (r.doc.total > Usage!Recorded)
    BY <1>3
  <2> DEFINE view == Usage!AddDocument(usageFile.doc, Usage!DeltaDocument(r.doc, r.written))
  <2>3. view.total \in Nat
    <3>1. Usage!DeltaDocument(r.doc, r.written) \in Until(today)
      BY <1>1, <1>2, Since
    <3>2. view \in Until(today)
      BY <1>1, <1>2, <3>1, Added
    <3>3. QED
      BY <1>1, <3>2, Counts
  <2>4. ~ (view.total > Usage!Recorded)
    BY <1>5, <2>1, <2>3
  <2>5. PICK readable \in {usageFile.there, FALSE} :
          excess' = (excess \/ (IF readable THEN view ELSE r.doc).total > Usage!Recorded)
    BY DEF Usage!Snapshot
  <2> HIDE DEF view
  <2>6. QED
    BY <1>1, <2>2, <2>4, <2>5
<1>7. Usage!Recorded' = Usage!Recorded
  BY <1>1 DEF Usage!Recorded, Usage!Total
<1>8. QED
  BY <1>1, <1>6, <1>7 DEF UsageInv, UsageTypeOK, NeverWritten, Today, Apart

\* The next day begins with nothing.
LEMMA Later ==
  ASSUME NEW n \in 1..LastDay, NEW m \in 1..LastDay, m = n + 1, NEW r, NEW o, Sound(r, o, n)
  PROVE  Sound(r, o, m) /\ Own(r, o, m) = 0
<1>1. \A d \in Until(n) : d \in Until(m)
  BY DEF Until
<1>2. ASSUME NEW d, d \in Until(n)
      PROVE  Amount(d, m) = 0
  <2>1. m \in Nat /\ m > n /\ m # 0
    OBVIOUS
  <2>2. Usage!At(d.day, m) = 0
    BY <1>2, <2>1, Counts
  <2>3. QED
    BY <2>1, <2>2 DEF Amount
<1>3. /\ r \in Ledgers(n) /\ r.doc \in Until(n) /\ r.written \in Until(n)
      /\ o # NoOp => o \in Operations(n) /\ o.snap \in Until(n) /\ o.written \in Until(n)
      /\ Phased(r, o) /\ Clean(r, o) /\ Grown(r, o, 0)
  BY Parts DEF Sound
<1>4. r \in Ledgers(m)
  BY <1>1, <1>3 DEF Ledgers
<1>5. o \in Operations(m) \cup {NoOp}
  BY <1>1, <1>3 DEF Operations
<1>6. /\ Amount(r.doc, m) = 0 /\ Amount(r.written, m) = 0
      /\ o # NoOp => Amount(o.snap, m) = 0 /\ Amount(o.written, m) = 0
  BY <1>2, <1>3
<1>7. Grown(r, o, m) /\ Own(r, o, m) = 0
  BY <1>6 DEF Grown, Own
<1>8. QED
  BY <1>3, <1>4, <1>5, <1>7 DEF Sound

\* A new day has no bucket anywhere yet.
LEMMA UsageNextDay == UsageInv /\ Usage!NextDay => UsageInv'
<1> SUFFICES ASSUME UsageInv, Usage!NextDay PROVE UsageInv'
  OBVIOUS
<1>1. /\ UsageTypeOK /\ NeverWritten /\ Today /\ Apart /\ ~ excess
      /\ today \in 1..LastDay /\ today' = today + 1 /\ today' \in 1..LastDay
      /\ UNCHANGED <<usageFile, usageProc, op, excess, recorded, erased, lost>>
      /\ \A p \in Procs : Sound(usageProc[p], op[p], today)
  BY UsageBounds DEF UsageInv, UsageTypeOK, Usage!NextDay, Usage!history
<1>2. \A p \in Procs : Sound(usageProc[p], op[p], today') /\ Own(usageProc[p], op[p], today') = 0
  BY <1>1, Later
<1>3. Waiting(usageProc, op, today') = 0
  <2> DEFINE f == [p \in Procs |-> Own(usageProc[p], op[p], today')]
  <2>1. f \in [Procs -> Nat] /\ \A p \in Procs : f[p] = 0
    BY <1>2
  <2>2. Waiting(usageProc, op, today') = Total(f)
    BY DEF Waiting
  <2> HIDE DEF f
  <2>3. QED
    BY <2>1, <2>2, TotalZero
<1>4. UsageTypeOK'
  <2>1. \A d \in Until(today) : d \in Until(today')
    BY <1>1 DEF Until
  <2>2. \A p \in Procs : usageProc[p] \in Ledgers(today') /\ op[p] \in Operations(today') \cup {NoOp}
    BY <1>2 DEF Sound
  <2>3. usageProc \in [Procs -> Ledgers(today')] /\ op \in [Procs -> Operations(today') \cup {NoOp}]
    BY <1>1, <2>2 DEF UsageTypeOK
  <2>4. usageFile \in [there : BOOLEAN, doc : Until(today')]
    BY <1>1, <2>1 DEF UsageTypeOK
  <2>5. QED
    BY <1>1, <2>3, <2>4 DEF UsageTypeOK
<1>5. NeverWritten'
  BY <1>1 DEF NeverWritten
<1>6. Apart'
  <2>1. Usage!Recorded' = Usage!Recorded
    BY <1>1 DEF Usage!Recorded, Usage!Total
  <2>2. QED
    BY <1>1, <2>1 DEF Apart
<1>7. Today'
  <2>1. today' \in (today + 1) .. LastDay
    BY <1>1
  <2>2. recorded[today'] = 0 /\ erased[today'] = 0
    BY <1>1, <2>1 DEF Today
  <2>3. Amount(usageFile.doc, today') = 0
    <3>1. usageFile.doc \in Until(today)
      BY <1>1 DEF UsageTypeOK
    <3>2. today' \in Nat /\ today' > today /\ today' # 0
      BY <1>1
    <3>3. Usage!At(usageFile.doc.day, today') = 0
      BY <1>1, <3>1, <3>2, Counts
    <3>4. QED
      BY <3>2, <3>3 DEF Amount
  <2>4. \A d \in (today' + 1) .. LastDay : d \in (today + 1) .. LastDay
    BY <1>1, UsageBounds
  <2>5. ~ lost' => recorded'[today'] = erased'[today'] + Amount(usageFile'.doc, today')
                                       + Waiting(usageProc', op', today')
    <3>1. recorded' = recorded /\ erased' = erased /\ usageFile' = usageFile /\ usageProc' = usageProc /\ op' = op
      BY <1>1
    <3>2. QED
      BY <1>3, <2>2, <2>3, <3>1
  <2>6. \A d \in (today' + 1) .. LastDay : recorded'[d] = 0 /\ erased'[d] = 0
    BY <1>1, <2>4 DEF Today
  <2>7. QED
    BY <2>5, <2>6 DEF Today
<1>8. \A p \in Procs : Sound(usageProc'[p], op'[p], today')
  BY <1>1, <1>2
<1>9. QED
  BY <1>1, <1>4, <1>5, <1>6, <1>7, <1>8 DEF UsageInv

\* The invariant says nothing of sums once the file was removed.
LEMMA UsageLoseFile == UsageInv /\ Usage!LoseFile => UsageInv'
<1> SUFFICES ASSUME UsageInv, Usage!LoseFile PROVE UsageInv'
  OBVIOUS
<1>1. /\ UsageTypeOK /\ NeverWritten /\ Today /\ Apart /\ ~ excess /\ today \in 1..LastDay
      /\ UNCHANGED <<usageProc, op, today, excess, recorded, erased>> /\ lost'
      /\ usageFile' = [there |-> FALSE, doc |-> Usage!Empty] /\ lost' = TRUE
      /\ \A p \in Procs : Sound(usageProc[p], op[p], today)
  BY DEF UsageInv, UsageTypeOK, Usage!LoseFile
<1>2. Usage!Empty \in Until(today) /\ Usage!Empty.total = 0
  BY <1>1, EmptyDocument
<1>3. UsageTypeOK'
  BY <1>1, <1>2 DEF UsageTypeOK
<1>4. NeverWritten' /\ Today'
  BY <1>1 DEF NeverWritten, Today
<1>5. Apart'
  <2>1. Usage!Recorded' = Usage!Recorded /\ Usage!Recorded \in Nat /\ Waiting(usageProc, op, 0) \in Nat
    BY <1>1, RecordedTotal, WaitingNat DEF Usage!Recorded, Usage!Total
  <2>2. usageFile.doc.total \in Nat /\ usageFile.doc.total + Waiting(usageProc, op, 0) <= Usage!Recorded
    BY <1>1, Counts DEF UsageTypeOK, Apart
  <2>3. Usage!Empty.total + Waiting(usageProc, op, 0) <= Usage!Recorded
    BY <1>2, <2>1, <2>2
  <2>4. usageFile'.doc = Usage!Empty /\ usageProc' = usageProc /\ op' = op
    BY <1>1
  <2>5. QED
    BY <1>1, <2>1, <2>3, <2>4 DEF Apart
<1>6. QED
  BY <1>1, <1>3, <1>4, <1>5 DEF UsageInv

\* The invariant of the ledger holds at first.
LEMMA UsageInit == Usage!Init => UsageInv
<1> SUFFICES ASSUME Usage!Init PROVE UsageInv
  OBVIOUS
<1>1. /\ usageFile = [there |-> FALSE, doc |-> Usage!Empty] /\ today = 1 /\ excess = FALSE /\ lost = FALSE
      /\ usageProc = [p \in Procs |-> Usage!Off] /\ op = [p \in Procs |-> NoOp]
      /\ recorded = [d \in 1..LastDay |-> 0] /\ erased = [d \in 1..LastDay |-> 0]
      /\ today \in 1..LastDay
  BY UsageBounds DEF Usage!Init, Usage!Days
<1>2. Usage!Empty \in Until(today) /\ Usage!Empty.total = 0 /\ Amount(Usage!Empty, today) = 0
  BY <1>1, EmptyDocument
<1>3. /\ Sound(Usage!Off, NoOp, today) /\ \A x \in {0, today} : Own(Usage!Off, NoOp, x) = 0
  BY <1>1, OffSound
<1>4. \A p \in Procs : usageProc[p] = Usage!Off /\ op[p] = NoOp /\ Sound(usageProc[p], op[p], today)
  BY <1>1, <1>3
<1>5. \A x \in {0, today} : Waiting(usageProc, op, x) = 0
  <2>1. ASSUME NEW x \in {0, today}
        PROVE  Waiting(usageProc, op, x) = 0
    <3> DEFINE f == [p \in Procs |-> Own(usageProc[p], op[p], x)]
    <3>1. f \in [Procs -> Nat] /\ \A p \in Procs : f[p] = 0
      BY <1>3, <1>4
    <3>2. Waiting(usageProc, op, x) = Total(f)
      BY DEF Waiting
    <3> HIDE DEF f
    <3>3. QED
      BY <3>1, <3>2, TotalZero
  <2>2. QED
    BY <2>1
<1>6. UsageTypeOK
  <2>1. Usage!Off \in Ledgers(today)
    BY <1>3 DEF Sound
  <2>2. QED
    BY <1>1, <1>2, <2>1 DEF UsageTypeOK
<1>7. Usage!Recorded \in Nat
  BY <1>6, RecordedTotal
<1>8. NeverWritten
  BY <1>1, <1>4 DEF NeverWritten, Usage!Off
<1>9. Today
  <2>1. \A d \in (today + 1) .. LastDay : recorded[d] = 0 /\ erased[d] = 0
    BY <1>1
  <2>2. recorded[today] = 0 /\ erased[today] = 0 /\ usageFile.doc = Usage!Empty
    BY <1>1
  <2>3. QED
    BY <1>2, <1>5, <2>1, <2>2 DEF Today
<1>10. Apart
  <2>1. usageFile.doc = Usage!Empty /\ \A p \in Procs : usageProc[p].written = Usage!Empty
    BY <1>1, <1>4 DEF Usage!Off
  <2>2. Waiting(usageProc, op, 0) = 0
    BY <1>5
  <2>3. QED
    BY <1>2, <1>4, <1>7, <2>1, <2>2 DEF Apart
<1>11. QED
  BY <1>1, <1>4, <1>6, <1>8, <1>9, <1>10 DEF UsageInv

\* Every step of the ledger keeps it.
LEMMA UsageStep == UsageInv /\ [Usage!Next]_(Usage!vars) => UsageInv'
<1> SUFFICES ASSUME UsageInv, [Usage!Next]_(Usage!vars) PROVE UsageInv'
  OBVIOUS
<1>1. CASE UNCHANGED Usage!vars
  <2>1. UNCHANGED <<usageFile, usageProc, op, today, excess, recorded, erased, lost>>
    BY <1>1 DEF Usage!vars
  <2>2. Usage!Recorded' = Usage!Recorded
    BY <2>1 DEF Usage!Recorded, Usage!Total
  <2>3. QED
    BY <2>1, <2>2 DEF UsageInv, UsageTypeOK, NeverWritten, Today, Apart
<1>2. CASE Usage!Next
  BY <1>2, UsageOpen, UsageRecord, UsageStart, UsageMerge, UsageEnd, UsageErase, UsageSnapshot,
     UsageClose, UsageExit, UsageNextDay, UsageLoseFile DEF Usage!Next
<1>3. QED
  BY <1>1, <1>2

\* It holds always.
LEMMA UsageInductive == Usage!Spec => []UsageInv
BY UsageInit, UsageStep, PTL DEF Usage!Spec

(* TodayAddsUp: whatever flushes, fails, resets, crashes and overlaps, each *)
(* request of today is in the file's bucket or waits in one process, once   *)
(* (store.go, persistDocument and commit).                                  *)
THEOREM UsageAdds == StoresSpec => []TodayAddsUp
<1>1. ASSUME UsageInv
      PROVE  TodayAddsUp
  <2> DEFINE f == [p \in Procs |-> Own(usageProc[p], op[p], today)]
             g == [p \in Procs |-> Usage!At(Usage!Unsaved(p).day, today)]
  <2>1. /\ today \in 1..LastDay /\ today # 0 /\ usageFile.doc \in Until(today)
        /\ \A p \in Procs : Sound(usageProc[p], op[p], today)
        /\ recorded[today] \in Nat /\ erased[today] \in Nat
    BY <1>1 DEF UsageInv, UsageTypeOK
  <2>2. \A p \in Procs : Usage!At(Usage!Unsaved(p).day, today) = Own(usageProc[p], op[p], today)
    BY <2>1, UnsavedIsOwn DEF Amount
  <2>3. f = g
    BY <2>2
  <2>4. Usage!Total(g) = Waiting(usageProc, op, today)
    BY <2>3, SameTotal DEF Waiting
  <2>5. Waiting(usageProc, op, today) \in Nat
    BY <2>1, WaitingNat
  <2>6. Amount(usageFile.doc, today) = Usage!At(usageFile.doc.day, today) /\ Amount(usageFile.doc, today) \in Nat
    BY <2>1, Counts
  <2>7. ~ lost => recorded[today] = erased[today] + Amount(usageFile.doc, today) + Waiting(usageProc, op, today)
    BY <1>1 DEF UsageInv, Today
  <2>8. ~ lost => recorded[today] - erased[today] = Usage!At(usageFile.doc.day, today) + Usage!Total(g)
    <3> HIDE DEF f, g
    <3>1. QED
      BY <2>1, <2>4, <2>5, <2>6, <2>7
  <2>9. QED
    BY <2>8 DEF TodayAddsUp, Usage!TodayAddsUp
<1>2. UsageInv => TodayAddsUp
  BY <1>1
<1>3. QED
  BY <1>2, UsageInductive, EachStore, PTL

(* ViewNeverOvercounts: no snapshot, taken while the process flushes or     *)
(* beside another process, counts a request twice (store.go, Snapshot).     *)
THEOREM UsageViews == StoresSpec => []ViewNeverOvercounts
<1>1. UsageInv => ViewNeverOvercounts
  BY DEF UsageInv, ViewNeverOvercounts, Usage!ViewNeverOvercounts
<1>2. QED
  BY <1>1, UsageInductive, EachStore, PTL

(* ClosedIsSaved: a ledger that closed without an error has saved all that  *)
(* it recorded (store.go, Close).                                           *)
THEOREM UsageCloses == StoresSpec => []ClosedIsSaved
<1>1. ASSUME UsageInv, NEW p \in Procs, usageProc[p].st = "closed"
      PROVE  Usage!Unsaved(p).total = 0
  <2>1. today \in 1..LastDay /\ Sound(usageProc[p], op[p], today)
    BY <1>1 DEF UsageInv, UsageTypeOK
  <2>2. op[p] = NoOp /\ usageProc[p].doc.total = usageProc[p].written.total
    BY <1>1, <2>1 DEF Sound, Phased, Clean
  <2>3. usageProc[p].doc.total \in Nat
    BY <2>1, Parts, Counts
  <2>4. Usage!Unsaved(p).total = Usage!Positive(usageProc[p].doc.total, usageProc[p].written.total)
    BY <2>2 DEF Usage!Unsaved, Usage!DeltaDocument
  <2>5. QED
    BY <2>2, <2>3, <2>4, Difference
<1>2. UsageInv => ClosedIsSaved
  BY <1>1 DEF ClosedIsSaved, Usage!ClosedIsSaved
<1>3. QED
  BY <1>2, UsageInductive, EachStore, PTL

-----------------------------------------------------------------------------
(* The account pool.  Of a process's pool some facts hold whatever is       *)
(* removed: its counters only grow from their base, its flag differs from   *)
(* the base only where it was assigned or restored.  As long as nothing has *)
(* been removed, all that any snapshot or base counts is in the file.       *)

Slots == Pool!Records \cup {None}
PoolFiles == [there : BOOLEAN, acc : [Accounts -> Slots], epoch : [Accounts -> Nat], stamp : Nat]
Intents == [flag : BOOLEAN, created : BOOLEAN, createdEpoch : Nat,
            deleted : BOOLEAN, deletedEpoch : Nat, imported : BOOLEAN, floor : Nat]
Pools == [st : {"off", "loaded", "restored", "up"}, mem : [Accounts -> Slots],
          base : [Accounts -> Slots], epoch : [Accounts -> Nat],
          intent : [Accounts -> Intents], dirty : BOOLEAN]

PoolTypeOK ==
  /\ poolFile \in PoolFiles /\ redis \in PoolFiles
  /\ sending \in [Procs -> PoolFiles \cup {None}]
  /\ dir \in SUBSET Accounts
  /\ poolProc \in [Procs -> Pools]
  /\ counted \in [Accounts -> Nat] /\ dropped \in [Accounts -> Nat]
  /\ past \in {"whole", "shrunk", "lost"}
  /\ assigned \in [Procs -> SUBSET Accounts] /\ borrowed \in [Procs -> SUBSET Accounts]

Counted(r) == Pool!Known(r).count

\* What holds of a pool q that has assigned and restored the flags of these accounts.
Coherent(q, ours, theirs) ==
  /\ q.st = "off" => q.mem = Pool!Nobody
  /\ q.st \in {"off", "loaded"} => theirs = {}
  /\ \A a \in Accounts :
       /\ q.mem[a] # None => Counted(q.base[a]) <= Counted(q.mem[a])
       /\ q.mem[a] # None /\ q.st \in {"loaded", "restored"} => Counted(q.base[a]) = Counted(q.mem[a])
       /\ q.intent[a].deleted => q.mem[a] = None
       /\ q.intent[a].flag => a \in ours
       /\ q.mem[a] # None /\ a \notin ours \cup theirs => q.mem[a].flag = Pool!Known(q.base[a]).flag

\* What holds of it besides, of the file, before anything is removed.
Covered(q, f) ==
  \A a \in Accounts :
    /\ q.epoch[a] = 0 /\ q.intent[a].createdEpoch = 0
    /\ q.intent[a].imported => q.intent[a].floor <= Counted(f.acc[a])
    /\ f.acc[a] = None => /\ Counted(q.base[a]) = 0
                          /\ q.mem[a] # None => q.base[a] = None \/ q.intent[a].created

\* The file counts all that a snapshot s does.
Contains(f, s) ==
  \A a \in Accounts : /\ s.epoch[a] = 0
                      /\ s.acc[a] # None => f.acc[a] # None /\ Counted(s.acc[a]) <= Counted(f.acc[a])

UnsavedOf(q, a) == IF q.mem[a] = None THEN 0 ELSE Counted(q.mem[a]) - Counted(q.base[a])
AllOf(procs, a) == Total([p \in Procs |-> UnsavedOf(procs[p], a)])

Whole ==
  /\ Contains(poolFile, poolFile) /\ Contains(poolFile, redis)
  /\ ~ poolFile.there => poolFile.acc = Pool!Nobody
  /\ \A p \in Procs : /\ Covered(poolProc[p], poolFile)
                      /\ sending[p] # None => Contains(poolFile, sending[p])
  /\ \A a \in Accounts : counted[a] = Counted(poolFile.acc[a]) + AllOf(poolProc, a) + dropped[a]

PoolInv ==
  /\ PoolTypeOK
  /\ \A p \in Procs : Coherent(poolProc[p], assigned[p], borrowed[p])
  /\ past = "whole" => Whole

\* The record of an account that may be unknown.
LEMMA KnownRecord ==
  ASSUME NEW r \in Slots
  PROVE  /\ Pool!Known(r) \in Pool!Records /\ Counted(r) \in Nat
         /\ r = None => Pool!Known(r) = Pool!Zero /\ Counted(r) = 0 /\ Pool!Known(r).flag = FALSE
         /\ r # None => Pool!Known(r) = r /\ r \in Pool!Records /\ Counted(r) = r.count
BY DEF Slots, Pool!Known, Pool!Zero, Pool!Records, Counted

\* A new record counts nothing.
LEMMA ZeroRecord ==
  /\ Pool!Zero \in Pool!Records /\ Pool!Zero \in Slots /\ Pool!Zero # None
  /\ Counted(Pool!Zero) = 0 /\ Pool!Zero.flag = FALSE /\ Pool!Known(Pool!Zero) = Pool!Zero
<1>1. Pool!Zero \in Pool!Records /\ Pool!Zero.count = 0 /\ Pool!Zero.flag = FALSE
  BY DEF Pool!Zero, Pool!Records
<1>2. None \notin Pool!Records
  BY PoolAssumption
<1>3. QED
  BY <1>1, <1>2 DEF Slots, Pool!Known, Counted

\* A count and a flag make a record.
LEMMA NewRecord ==
  ASSUME NEW n \in Nat, NEW b \in BOOLEAN
  PROVE  LET r == [count |-> n, flag |-> b]
         IN  /\ r \in Pool!Records /\ r \in Slots /\ r # None /\ Pool!Known(r) = r /\ Counted(r) = n
             /\ r.flag = b
BY PoolAssumption DEF Slots, Pool!Known, Pool!Records, Counted

\* Without intents no account is created, deleted or imported.
LEMMA NothingIntended ==
  /\ Pool!NoIntent \in Intents /\ Pool!NoIntents \in [Accounts -> Intents]
  /\ \A a \in Accounts : Pool!NoIntents[a] = Pool!NoIntent
  /\ Pool!NoIntent.flag = FALSE /\ Pool!NoIntent.created = FALSE /\ Pool!NoIntent.createdEpoch = 0
  /\ Pool!NoIntent.deleted = FALSE /\ Pool!NoIntent.imported = FALSE
BY DEF Pool!NoIntent, Pool!NoIntents, Intents

\* A file that is not there holds no account and no epoch.
LEMMA EmptyFile ==
  /\ Pool!NoFile \in PoolFiles /\ Pool!NoFile.there = FALSE /\ Pool!NoFile.acc = Pool!Nobody
  /\ Pool!NoFile.epoch = Pool!NoEpochs /\ Pool!Nobody \in [Accounts -> Slots]
  /\ Pool!NoEpochs \in [Accounts -> Nat]
  /\ \A a \in Accounts : Pool!Nobody[a] = None /\ Pool!NoEpochs[a] = 0
BY DEF Pool!NoFile, PoolFiles, Pool!Nobody, Pool!NoEpochs, Slots

\* A process that does not run has nothing unsaved.
LEMMA OffPool ==
  ASSUME NEW ours
  PROVE  /\ Pool!Off \in Pools /\ Pool!Off.st = "off" /\ Pool!Off.mem = Pool!Nobody
         /\ Pool!Off.base = Pool!Nobody /\ Pool!Off.epoch = Pool!NoEpochs /\ Pool!Off.intent = Pool!NoIntents
         /\ Coherent(Pool!Off, ours, {})
         /\ \A a \in Accounts : UnsavedOf(Pool!Off, a) = 0
         /\ \A f \in PoolFiles : Covered(Pool!Off, f)
<1>1. /\ Pool!Off \in Pools /\ Pool!Off.st = "off" /\ Pool!Off.mem = Pool!Nobody
      /\ Pool!Off.base = Pool!Nobody /\ Pool!Off.epoch = Pool!NoEpochs /\ Pool!Off.intent = Pool!NoIntents
  BY NothingIntended, EmptyFile DEF Pool!Off, Pools
<1>2. Coherent(Pool!Off, ours, {}) /\ \A a \in Accounts : UnsavedOf(Pool!Off, a) = 0
  BY <1>1, NothingIntended, EmptyFile DEF Coherent, UnsavedOf
<1>3. None \in Slots /\ Counted(None) = 0
  BY KnownRecord DEF Slots
<1>4. \A f \in PoolFiles : Covered(Pool!Off, f)
  BY <1>1, <1>3, NothingIntended, EmptyFile DEF Covered
<1>5. QED
  BY <1>1, <1>2, <1>4

\* What a pool holds and has not saved is a number.
LEMMA UnsavedNat ==
  ASSUME NEW q \in Pools, NEW ours, NEW theirs, Coherent(q, ours, theirs), NEW a \in Accounts
  PROVE  /\ UnsavedOf(q, a) \in Nat /\ q.mem[a] \in Slots /\ q.base[a] \in Slots
         /\ Counted(q.mem[a]) \in Nat /\ Counted(q.base[a]) \in Nat
         /\ q.mem[a] # None => UnsavedOf(q, a) = Counted(q.mem[a]) - Counted(q.base[a])
         /\ q.mem[a] = None => UnsavedOf(q, a) = 0
         /\ q.st \in {"off", "loaded", "restored"} => UnsavedOf(q, a) = 0
<1>1. q.mem[a] \in Slots /\ q.base[a] \in Slots
  BY DEF Pools
<1>2. Counted(q.mem[a]) \in Nat /\ Counted(q.base[a]) \in Nat
  BY <1>1, KnownRecord
<1>3. /\ q.mem[a] # None => Counted(q.base[a]) <= Counted(q.mem[a])
      /\ q.mem[a] # None /\ q.st \in {"loaded", "restored"} => Counted(q.base[a]) = Counted(q.mem[a])
      /\ q.st = "off" => q.mem[a] = None
  BY EmptyFile DEF Coherent
<1>4. QED
  BY <1>1, <1>2, <1>3 DEF UnsavedOf

\* The larger of two numbers.
LEMMA LargerNat ==
  ASSUME NEW m \in Nat, NEW n \in Nat
  PROVE  /\ Pool!Larger(m, n) \in Nat
         /\ n <= m => Pool!Larger(m, n) = m
BY DEF Pool!Larger
-----------------------------------------------------------------------------
(* What each step of a start does to a pool.                                *)

\* The file grows: nothing in it is removed or loses counts.
LEMMA CoveredLater ==
  ASSUME NEW f \in PoolFiles, NEW g \in PoolFiles, Contains(g, f)
  PROVE  /\ \A q \in Pools : Covered(q, f) => Covered(q, g)
         /\ \A s \in PoolFiles : Contains(f, s) => Contains(g, s)
<1>1. \A a \in Accounts : /\ f.acc[a] \in Slots /\ g.acc[a] \in Slots
                          /\ Counted(f.acc[a]) \in Nat /\ Counted(g.acc[a]) \in Nat
                          /\ f.acc[a] = None => Counted(f.acc[a]) = 0
                          /\ f.acc[a] # None => g.acc[a] # None /\ Counted(f.acc[a]) <= Counted(g.acc[a])
  BY KnownRecord DEF PoolFiles, Contains
<1>2. \A a \in Accounts : Counted(f.acc[a]) <= Counted(g.acc[a])
  BY <1>1
<1>3. ASSUME NEW q \in Pools, Covered(q, f)
      PROVE  Covered(q, g)
  <2>1. \A a \in Accounts : q.intent[a].floor \in Nat
    BY DEF Pools, Intents
  <2>2. QED
    BY <1>1, <1>2, <1>3, <2>1 DEF Covered
<1>4. ASSUME NEW s \in PoolFiles, Contains(f, s)
      PROVE  Contains(g, s)
  <2>1. \A a \in Accounts : Counted(s.acc[a]) \in Nat
    BY KnownRecord DEF PoolFiles
  <2>2. QED
    BY <1>1, <1>4, <2>1 DEF Contains
<1>5. QED
  BY <1>3, <1>4

\* A process that has loaded the file differs from it in nothing.
LEMMA LoadedPool ==
  ASSUME NEW f \in PoolFiles, NEW ours
  PROVE  LET q == [Pool!Off EXCEPT !.st = "loaded", !.mem = f.acc, !.base = f.acc, !.epoch = f.epoch]
         IN  /\ q \in Pools /\ Coherent(q, ours, {})
             /\ \A a \in Accounts : UnsavedOf(q, a) = 0
             /\ Contains(f, f) => Covered(q, f)
<1> DEFINE q == [Pool!Off EXCEPT !.st = "loaded", !.mem = f.acc, !.base = f.acc, !.epoch = f.epoch]
<1>1. f.acc \in [Accounts -> Slots] /\ f.epoch \in [Accounts -> Nat]
  BY DEF PoolFiles
<1>2. /\ q \in Pools /\ q.st = "loaded" /\ q.mem = f.acc /\ q.base = f.acc /\ q.epoch = f.epoch
      /\ q.intent = Pool!NoIntents
  BY <1>1, OffPool DEF Pools
<1> HIDE DEF q
<1>3. \A a \in Accounts : f.acc[a] \in Slots /\ Counted(f.acc[a]) \in Nat
  BY <1>1, KnownRecord
<1>4. \A a \in Accounts : f.acc[a] # None => f.acc[a].flag = Pool!Known(f.acc[a]).flag
  BY <1>1, KnownRecord
<1>5. Coherent(q, ours, {})
  BY <1>2, <1>3, <1>4, NothingIntended DEF Coherent
<1>6. \A a \in Accounts : UnsavedOf(q, a) = 0
  BY <1>2, <1>3 DEF UnsavedOf
<1>7. Contains(f, f) => Covered(q, f)
  <2>1. \A a \in Accounts : f.acc[a] = None => Counted(f.acc[a]) = 0
    BY <1>3, KnownRecord
  <2>2. QED
    BY <1>2, <2>1, NothingIntended DEF Contains, Covered
<1>8. QED
  BY <1>2, <1>5, <1>6, <1>7 DEF q

\* The base of an imported account counts what the snapshot does.
LEMMA Imported ==
  ASSUME NEW k \in Slots, NEW s \in Pool!Records
  PROVE  /\ Pool!ImportedBase(k, s) \in Slots /\ Pool!ImportedBase(k, s) # None
         /\ Counted(Pool!ImportedBase(k, s)) = s.count
         /\ Pool!Known(Pool!ImportedBase(k, s)).flag = Pool!Known(k).flag
<1>1. Pool!Known(k) \in Pool!Records
  BY KnownRecord
<1> DEFINE b == Pool!ImportedBase(k, s)
<1>2. b \in Pool!Records /\ b.count = s.count /\ b.flag = Pool!Known(k).flag
  BY <1>1 DEF Pool!ImportedBase, Pool!Records
<1> HIDE DEF b
<1>3. b \in Slots /\ b # None
  BY <1>2, PoolAssumption DEF Slots
<1>4. QED
  BY <1>2, <1>3, KnownRecord DEF b

\* What a restore makes of one account.
RestoredIntent(q, a) ==
  IF redis.acc[a] # None
  THEN [Pool!NoIntent EXCEPT !.imported = TRUE, !.floor = redis.acc[a].count,
                             !.created = q.base[a] = None,
                             !.createdEpoch = IF q.base[a] = None THEN redis.epoch[a] ELSE 0]
  ELSE IF q.mem[a] # None
  THEN [Pool!NoIntent EXCEPT !.deleted = TRUE, !.deletedEpoch = redis.epoch[a]]
  ELSE Pool!NoIntent

\* What a restore from the snapshot intends for an account.
LEMMA RestoredIntents ==
  ASSUME NEW q \in Pools, redis \in PoolFiles, NEW a \in Accounts
  PROVE  LET i == RestoredIntent(q, a)
         IN  /\ i \in Intents /\ i.flag = FALSE
             /\ i.deleted => redis.acc[a] = None
             /\ i.createdEpoch \in {0, redis.epoch[a]}
             /\ i.imported => redis.acc[a] # None /\ i.floor = Counted(redis.acc[a])
             /\ redis.acc[a] # None => i.created = (q.base[a] = None)
<1>1. redis.acc[a] \in Slots /\ redis.epoch[a] \in Nat /\ (q.base[a] = None) \in BOOLEAN
  BY DEF PoolFiles
<1>2. redis.acc[a] # None => redis.acc[a].count \in Nat /\ redis.acc[a].count = Counted(redis.acc[a])
  BY <1>1, KnownRecord DEF Pool!Records
<1>3. CASE redis.acc[a] # None
  BY <1>1, <1>2, <1>3, NothingIntended DEF RestoredIntent, Intents
<1>4. CASE redis.acc[a] = None
  BY <1>1, <1>4, NothingIntended DEF RestoredIntent, Intents
<1>5. QED
  BY <1>3, <1>4

\* RestoreFromSnapshot: the snapshot's accounts, at the snapshot's counts.
LEMMA RestoredPool ==
  ASSUME NEW q \in Pools, redis \in PoolFiles, NEW ours, Coherent(q, ours, {}), NEW f \in PoolFiles
  PROVE  LET r == [Pool!Restored(q) EXCEPT !.st = "restored"]
             theirs == {a \in Accounts : redis.acc[a] # None /\ redis.acc[a].flag # Pool!Known(q.base[a]).flag}
         IN  /\ r \in Pools /\ Coherent(r, ours, theirs)
             /\ Covered(q, f) /\ Contains(f, redis) => Covered(r, f)
<1> DEFINE base == [a \in Accounts |-> IF redis.acc[a] = None THEN q.base[a]
                                       ELSE Pool!ImportedBase(q.base[a], redis.acc[a])]
           epoch == [a \in Accounts |-> Pool!Larger(q.epoch[a], redis.epoch[a])]
           intent == [a \in Accounts |-> RestoredIntent(q, a)]
           r == [Pool!Restored(q) EXCEPT !.st = "restored"]
           theirs == {a \in Accounts : redis.acc[a] # None /\ redis.acc[a].flag # Pool!Known(q.base[a]).flag}
<1>1. /\ \A a \in Accounts : /\ redis.acc[a] \in Slots /\ q.base[a] \in Slots /\ redis.epoch[a] \in Nat
                             /\ q.epoch[a] \in Nat
      /\ redis.acc \in [Accounts -> Slots]
  BY DEF PoolFiles, Pools
<1>2. \A a \in Accounts : redis.acc[a] # None =>
        /\ redis.acc[a] \in Pool!Records /\ Counted(redis.acc[a]) = redis.acc[a].count
        /\ Pool!Known(redis.acc[a]) = redis.acc[a]
  BY <1>1, KnownRecord
<1>3. base \in [Accounts -> Slots]
  BY <1>1, <1>2, Imported
<1>4. epoch \in [Accounts -> Nat]
  BY <1>1, LargerNat
<1>5. intent \in [Accounts -> Intents]
  BY RestoredIntents
<1>6. Pool!Restored(q) = [q EXCEPT !.mem = redis.acc, !.epoch = epoch, !.base = base, !.intent = intent,
                                   !.dirty = TRUE]
  BY DEF Pool!Restored, RestoredIntent
<1>7. \A a \in Accounts : /\ redis.acc[a] # None => /\ Counted(base[a]) = Counted(redis.acc[a])
                                                    /\ base[a] # None
                                                    /\ Pool!Known(base[a]).flag = Pool!Known(q.base[a]).flag
                          /\ redis.acc[a] = None => base[a] = q.base[a]
                          /\ epoch[a] = Pool!Larger(q.epoch[a], redis.epoch[a])
                          /\ intent[a] = RestoredIntent(q, a)
  BY <1>1, <1>2, Imported
<1> HIDE DEF base, epoch, intent
<1>8. /\ r \in Pools /\ r.st = "restored" /\ r.mem = redis.acc /\ r.epoch = epoch /\ r.base = base
      /\ r.intent = intent
  BY <1>1, <1>3, <1>4, <1>5, <1>6 DEF Pools
<1> HIDE DEF r
<1>9. ASSUME NEW a \in Accounts
      PROVE  /\ r.mem[a] # None => Counted(r.base[a]) = Counted(r.mem[a]) /\ Counted(r.mem[a]) \in Nat
             /\ r.intent[a].deleted => r.mem[a] = None
             /\ r.intent[a].flag = FALSE
             /\ r.mem[a] # None /\ a \notin theirs => r.mem[a].flag = Pool!Known(r.base[a]).flag
  <2>1. /\ r.mem[a] = redis.acc[a] /\ r.base[a] = base[a] /\ r.intent[a] = RestoredIntent(q, a)
    BY <1>7, <1>8
  <2>2. /\ RestoredIntent(q, a).flag = FALSE
        /\ RestoredIntent(q, a).deleted => redis.acc[a] = None
    BY RestoredIntents
  <2>3. redis.acc[a] # None => Counted(base[a]) = Counted(redis.acc[a]) /\ Counted(redis.acc[a]) \in Nat
    BY <1>1, <1>7, KnownRecord
  <2>4. redis.acc[a] # None /\ a \notin theirs => redis.acc[a].flag = Pool!Known(base[a]).flag
    BY <1>7
  <2> HIDE DEF theirs
  <2>5. QED
    BY <2>1, <2>2, <2>3, <2>4
<1>10. Coherent(r, ours, theirs)
  <2> HIDE DEF theirs
  <2>1. ASSUME NEW a \in Accounts, r.mem[a] # None
        PROVE  Counted(r.base[a]) <= Counted(r.mem[a])
    <3>1. Counted(r.base[a]) = Counted(r.mem[a]) /\ Counted(r.mem[a]) \in Nat
      BY <1>9, <2>1
    <3>2. QED
      BY ONLY <3>1
  <2>2. QED
    BY <1>8, <1>9, <2>1 DEF Coherent
<1>11. ASSUME Covered(q, f), Contains(f, redis)
       PROVE  Covered(r, f)
  <2>1. ASSUME NEW a \in Accounts
        PROVE  /\ r.epoch[a] = 0 /\ r.intent[a].createdEpoch = 0
               /\ r.intent[a].imported => r.intent[a].floor <= Counted(f.acc[a])
               /\ f.acc[a] = None => /\ Counted(r.base[a]) = 0
                                     /\ r.mem[a] # None => r.base[a] = None \/ r.intent[a].created
    <3>1. q.epoch[a] = 0 /\ redis.epoch[a] = 0
      BY <1>11 DEF Covered, Contains
    <3>2. r.epoch[a] = 0
      BY <1>7, <1>8, <3>1, LargerNat
    <3>3. r.intent[a].createdEpoch = 0
      BY ZenonT(60), <1>7, <1>8, <3>1, RestoredIntents
    <3>4. r.intent[a].imported => r.intent[a].floor <= Counted(f.acc[a])
      <4>1. /\ RestoredIntent(q, a).imported => /\ redis.acc[a] # None
                                                /\ RestoredIntent(q, a).floor = Counted(redis.acc[a])
        BY RestoredIntents
      <4>2. redis.acc[a] # None => Counted(redis.acc[a]) <= Counted(f.acc[a])
        BY <1>11 DEF Contains
      <4>3. r.intent[a] = RestoredIntent(q, a)
        BY <1>7, <1>8
      <4>4. QED
        BY <4>1, <4>2, <4>3
    <3>5. f.acc[a] = None => redis.acc[a] = None
      BY <1>11 DEF Contains
    <3>6. f.acc[a] = None => Counted(r.base[a]) = 0
      BY <1>7, <1>8, <1>11, <3>5 DEF Covered
    <3>7. QED
      BY <1>8, <3>2, <3>3, <3>4, <3>5, <3>6
  <2>2. QED
    BY <2>1 DEF Covered
<1>12. QED
  BY <1>8, <1>10, <1>11 DEF r
\* What an upsert makes of one account.
UpsertedIntent(q, a) ==
  LET newest == IF poolFile.there THEN Pool!Larger(q.epoch[a], poolFile.epoch[a]) ELSE q.epoch[a]
  IN  IF a \in dir /\ (q.mem[a] = None \/ poolFile.acc[a] = None \/ newest # q.epoch[a])
      THEN [q.intent[a] EXCEPT !.created = TRUE, !.deleted = FALSE, !.createdEpoch = newest]
      ELSE q.intent[a]

\* What adding the accounts of the directory intends.
LEMMA UpsertedIntents ==
  ASSUME NEW q \in Pools, poolFile \in PoolFiles, NEW a \in Accounts
  PROVE  LET i == UpsertedIntent(q, a)
         IN  /\ i \in Intents /\ i.flag = q.intent[a].flag /\ i.imported = q.intent[a].imported
             /\ i.floor = q.intent[a].floor
             /\ i.deleted => q.intent[a].deleted /\ ~ (a \in dir /\ q.mem[a] = None)
             /\ q.intent[a].created => i.created
             /\ a \in dir /\ (q.mem[a] = None \/ poolFile.acc[a] = None) => i.created
             /\ q.epoch[a] = 0 /\ poolFile.epoch[a] = 0 /\ q.intent[a].createdEpoch = 0 => i.createdEpoch = 0
<1> DEFINE newest == IF poolFile.there THEN Pool!Larger(q.epoch[a], poolFile.epoch[a]) ELSE q.epoch[a]
<1>1. q.intent[a] \in Intents /\ q.epoch[a] \in Nat /\ poolFile.epoch[a] \in Nat
  BY DEF Pools, PoolFiles
<1>2. newest \in Nat /\ (q.epoch[a] = 0 /\ poolFile.epoch[a] = 0 => newest = 0)
  <2>1. PICK m \in Nat, n \in Nat : m = q.epoch[a] /\ n = poolFile.epoch[a]
    BY <1>1
  <2>2. newest = IF poolFile.there THEN Pool!Larger(m, n) ELSE m
    BY <2>1
  <2>3. Pool!Larger(m, n) \in Nat /\ (m = 0 /\ n = 0 => Pool!Larger(m, n) = 0)
    BY DEF Pool!Larger
  <2> HIDE DEF newest
  <2>4. QED
    BY <2>1, <2>2, <2>3
<1>3. UpsertedIntent(q, a) =
        IF a \in dir /\ (q.mem[a] = None \/ poolFile.acc[a] = None \/ newest # q.epoch[a])
        THEN [q.intent[a] EXCEPT !.created = TRUE, !.deleted = FALSE, !.createdEpoch = newest]
        ELSE q.intent[a]
  BY DEF UpsertedIntent
<1> HIDE DEF newest
<1>4. PICK i \in Intents : i = q.intent[a]
  BY <1>1
<1>5. QED
  BY <1>2, <1>3, <1>4 DEF Intents

\* Adding the accounts of the directory keeps a pool coherent.
LEMMA UpsertedPool ==
  ASSUME NEW q \in Pools, poolFile \in PoolFiles, NEW ours, NEW theirs, Coherent(q, ours, theirs),
         q.st = "restored"
  PROVE  LET r == Pool!Upserted(q)
         IN  /\ r \in Pools /\ r.st = "restored" /\ Coherent(r, ours, theirs)
             /\ \A a \in Accounts : a \in dir => r.mem[a] # None
             /\ Contains(poolFile, poolFile) /\ Covered(q, poolFile) => Covered(r, poolFile)
<1> DEFINE mem == [a \in Accounts |-> IF a \in dir THEN Pool!Known(q.mem[a]) ELSE q.mem[a]]
           base == [a \in Accounts |-> IF a \in dir /\ q.mem[a] = None THEN Pool!Zero ELSE q.base[a]]
           intent == [a \in Accounts |-> UpsertedIntent(q, a)]
           r == Pool!Upserted(q)
<1>1. \A a \in Accounts : q.mem[a] \in Slots /\ q.base[a] \in Slots
  BY DEF Pools
<1>2. \A a \in Accounts : /\ Pool!Known(q.mem[a]) \in Slots /\ Pool!Known(q.mem[a]) # None
                          /\ q.mem[a] = None => Pool!Known(q.mem[a]) = Pool!Zero
                          /\ q.mem[a] # None => Pool!Known(q.mem[a]) = q.mem[a]
  BY <1>1, KnownRecord, ZeroRecord DEF Slots
<1>3. mem \in [Accounts -> Slots]
  BY <1>1, <1>2
<1>4. base \in [Accounts -> Slots]
  BY <1>1, ZeroRecord
<1>5. intent \in [Accounts -> Intents]
  BY UpsertedIntents
<1>6. r = [q EXCEPT !.mem = mem, !.base = base, !.intent = intent]
  BY DEF Pool!Upserted, UpsertedIntent
<1>7. ASSUME NEW a \in Accounts
      PROVE  /\ a \in dir /\ q.mem[a] = None => mem[a] = Pool!Zero /\ base[a] = Pool!Zero
             /\ ~ (a \in dir /\ q.mem[a] = None) => mem[a] = q.mem[a] /\ base[a] = q.base[a]
             /\ intent[a] = UpsertedIntent(q, a)
             /\ a \in dir => mem[a] # None
  BY <1>2
<1> HIDE DEF mem, base, intent
<1>8. r \in Pools /\ r.st = "restored" /\ r.mem = mem /\ r.base = base /\ r.intent = intent /\ r.epoch = q.epoch
  BY <1>3, <1>4, <1>5, <1>6 DEF Pools
<1> HIDE DEF r
<1>9. ASSUME NEW a \in Accounts
      PROVE  /\ r.mem[a] # None => Counted(r.base[a]) = Counted(r.mem[a]) /\ Counted(r.mem[a]) \in Nat
             /\ r.intent[a].deleted => r.mem[a] = None
             /\ r.intent[a].flag => a \in ours
             /\ r.mem[a] # None /\ a \notin ours \cup theirs => r.mem[a].flag = Pool!Known(r.base[a]).flag
  <2>1. /\ q.mem[a] # None => Counted(q.base[a]) = Counted(q.mem[a]) /\ Counted(q.mem[a]) \in Nat
        /\ q.intent[a].deleted => q.mem[a] = None
        /\ q.intent[a].flag => a \in ours
        /\ q.mem[a] # None /\ a \notin ours \cup theirs => q.mem[a].flag = Pool!Known(q.base[a]).flag
    BY <1>1, KnownRecord DEF Coherent
  <2>2. /\ r.mem[a] = mem[a] /\ r.base[a] = base[a] /\ r.intent[a] = UpsertedIntent(q, a)
    BY <1>7, <1>8
  <2>3. /\ UpsertedIntent(q, a).flag = q.intent[a].flag
        /\ UpsertedIntent(q, a).deleted => q.intent[a].deleted /\ ~ (a \in dir /\ q.mem[a] = None)
    BY UpsertedIntents
  <2>4. CASE a \in dir /\ q.mem[a] = None
    BY <1>7, <2>1, <2>2, <2>3, <2>4, ZeroRecord
  <2>5. CASE ~ (a \in dir /\ q.mem[a] = None)
    BY <1>7, <2>1, <2>2, <2>3, <2>5
  <2>6. QED
    BY <2>4, <2>5
<1>10. Coherent(r, ours, theirs)
  <2>1. \A a \in Accounts : r.mem[a] # None => Counted(r.base[a]) <= Counted(r.mem[a])
    BY <1>9
  <2>2. QED
    BY <1>8, <1>9, <2>1 DEF Coherent
<1>11. \A a \in Accounts : a \in dir => r.mem[a] # None
  BY <1>7, <1>8
<1>12. ASSUME Contains(poolFile, poolFile), Covered(q, poolFile)
       PROVE  Covered(r, poolFile)
  <2>1. ASSUME NEW a \in Accounts
        PROVE  /\ r.epoch[a] = 0 /\ r.intent[a].createdEpoch = 0
               /\ r.intent[a].imported => r.intent[a].floor <= Counted(poolFile.acc[a])
               /\ poolFile.acc[a] = None => /\ Counted(r.base[a]) = 0
                                            /\ r.mem[a] # None => r.base[a] = None \/ r.intent[a].created
    <3>1. /\ q.epoch[a] = 0 /\ q.intent[a].createdEpoch = 0 /\ poolFile.epoch[a] = 0
          /\ q.intent[a].imported => q.intent[a].floor <= Counted(poolFile.acc[a])
          /\ poolFile.acc[a] = None => /\ Counted(q.base[a]) = 0
                                       /\ q.mem[a] # None => q.base[a] = None \/ q.intent[a].created
      BY <1>12 DEF Contains, Covered
    <3>2. /\ UpsertedIntent(q, a).createdEpoch = 0
          /\ UpsertedIntent(q, a).imported = q.intent[a].imported
          /\ UpsertedIntent(q, a).floor = q.intent[a].floor
          /\ q.intent[a].created => UpsertedIntent(q, a).created
          /\ a \in dir /\ (q.mem[a] = None \/ poolFile.acc[a] = None) => UpsertedIntent(q, a).created
      BY <3>1, UpsertedIntents
    <3>3. /\ r.mem[a] = mem[a] /\ r.base[a] = base[a] /\ r.intent[a] = UpsertedIntent(q, a)
          /\ r.epoch[a] = q.epoch[a]
      BY <1>7, <1>8
    <3>4. CASE a \in dir /\ q.mem[a] = None
      BY <1>7, <3>1, <3>2, <3>3, <3>4, ZeroRecord
    <3>5. CASE ~ (a \in dir /\ q.mem[a] = None)
      BY <1>7, <3>1, <3>2, <3>3, <3>5
    <3>6. QED
      BY <3>4, <3>5
  <2>2. QED
    BY <2>1 DEF Covered
<1>13. QED
  BY <1>8, <1>10, <1>11, <1>12 DEF r

\* An account that leaves takes what it counted with it: nothing, so far.
DroppedIntent(q, a) ==
  IF a \notin dir /\ q.mem[a] # None
  THEN [q.intent[a] EXCEPT !.deleted = TRUE, !.deletedEpoch = 0]
  ELSE q.intent[a]

\* Dropping the accounts that left the directory keeps it coherent.
LEMMA DroppedPool ==
  ASSUME NEW q \in Pools, poolFile \in PoolFiles, NEW ours, NEW theirs, Coherent(q, ours, theirs),
         q.st = "restored"
  PROVE  LET r == Pool!Dropped(q)
         IN  /\ r \in Pools /\ r.st = "restored" /\ Coherent(r, ours, theirs)
             /\ (\E a \in Accounts \ dir : q.mem[a] # None) => \E a \in Accounts : r.intent[a].deleted
             /\ Covered(q, poolFile) => Covered(r, poolFile)
<1> DEFINE mem == [a \in Accounts |-> IF a \in dir THEN q.mem[a] ELSE None]
           intent == [a \in Accounts |-> DroppedIntent(q, a)]
           r == Pool!Dropped(q)
<1>1. mem \in [Accounts -> Slots] /\ \A a \in Accounts : q.intent[a] \in Intents
  BY DEF Pools, Slots
<1>2. ASSUME NEW a \in Accounts
      PROVE  LET i == DroppedIntent(q, a)
             IN  /\ i \in Intents /\ i.flag = q.intent[a].flag /\ i.imported = q.intent[a].imported
                 /\ i.floor = q.intent[a].floor /\ i.createdEpoch = q.intent[a].createdEpoch
                 /\ i.created = q.intent[a].created
                 /\ i.deleted = (q.intent[a].deleted \/ (a \notin dir /\ q.mem[a] # None))
  <2>1. PICK i \in Intents : i = q.intent[a]
    BY <1>1
  <2>2. CASE a \notin dir /\ q.mem[a] # None
    BY <2>1, <2>2 DEF DroppedIntent, Intents
  <2>3. CASE ~ (a \notin dir /\ q.mem[a] # None)
    BY <2>1, <2>3 DEF DroppedIntent, Intents
  <2>4. QED
    BY <2>2, <2>3
<1>3. intent \in [Accounts -> Intents]
  BY <1>2
<1>4. r = [q EXCEPT !.mem = mem, !.intent = intent]
  BY DEF Pool!Dropped, DroppedIntent
<1>5. \A a \in Accounts : mem[a] = (IF a \in dir THEN q.mem[a] ELSE None) /\ intent[a] = DroppedIntent(q, a)
  OBVIOUS
<1> HIDE DEF mem, intent
<1>6. /\ r \in Pools /\ r.st = "restored" /\ r.mem = mem /\ r.base = q.base /\ r.intent = intent
      /\ r.epoch = q.epoch
  BY <1>1, <1>3, <1>4 DEF Pools
<1> HIDE DEF r
<1>7. ASSUME NEW a \in Accounts
      PROVE  /\ r.mem[a] \in {q.mem[a], None} /\ r.base[a] = q.base[a] /\ r.epoch[a] = q.epoch[a]
             /\ r.intent[a].flag = q.intent[a].flag /\ r.intent[a].imported = q.intent[a].imported
             /\ r.intent[a].floor = q.intent[a].floor /\ r.intent[a].createdEpoch = q.intent[a].createdEpoch
             /\ r.intent[a].created = q.intent[a].created
             /\ r.intent[a].deleted = (q.intent[a].deleted \/ (a \notin dir /\ q.mem[a] # None))
             /\ a \notin dir => r.mem[a] = None
  BY <1>2, <1>5, <1>6
<1>8. Coherent(r, ours, theirs)
  <2>1. ASSUME NEW a \in Accounts
        PROVE  /\ r.mem[a] # None => Counted(r.base[a]) <= Counted(r.mem[a])
               /\ r.mem[a] # None /\ r.st \in {"loaded", "restored"} => Counted(r.base[a]) = Counted(r.mem[a])
               /\ r.intent[a].deleted => r.mem[a] = None
               /\ r.intent[a].flag => a \in ours
               /\ r.mem[a] # None /\ a \notin ours \cup theirs => r.mem[a].flag = Pool!Known(r.base[a]).flag
    BY <1>7 DEF Coherent
  <2>2. QED
    BY <1>6, <2>1 DEF Coherent
<1>9. (\E a \in Accounts \ dir : q.mem[a] # None) => \E a \in Accounts : r.intent[a].deleted
  BY <1>7
<1>10. Covered(q, poolFile) => Covered(r, poolFile)
  BY <1>7 DEF Covered
<1>11. QED
  BY <1>6, <1>8, <1>9, <1>10 DEF r
-----------------------------------------------------------------------------
(* A save.                                                                  *)

\* What the merge makes of one account.
KnownEpoch(q, f, a) == IF f.there THEN Pool!Larger(f.epoch[a], q.epoch[a]) ELSE q.epoch[a]

MergedEpoch(q, f, a) ==
  IF ~ Pool!Deletes(q, a, KnownEpoch(q, f, a)) THEN KnownEpoch(q, f, a)
  ELSE IF q.intent[a].deletedEpoch # 0 THEN q.intent[a].deletedEpoch
  ELSE KnownEpoch(q, f, a) + 1

Kept(q, f, a) == IF Pool!Deletes(q, a, KnownEpoch(q, f, a)) THEN None ELSE f.acc[a]

MergedSlot(q, f, a) ==
  IF ~ f.there THEN q.mem[a]
  ELSE IF q.mem[a] = None \/ ~ Pool!Survives(q, a, MergedEpoch(q, f, a)) THEN Kept(q, f, a)
  ELSE IF Kept(q, f, a) # None
       THEN Pool!MergedRecord(Pool!Known(q.base[a]), q.mem[a], Kept(q, f, a), q.intent[a])
  ELSE IF q.base[a] = None \/ q.intent[a].created THEN q.mem[a]
  ELSE None

\* A merged counter is the file's and what the process has added to it.
LEMMA MergedCount ==
  ASSUME NEW b \in Pool!Records, NEW c \in Pool!Records, NEW r \in Pool!Records, NEW i \in Intents
  PROVE  LET m == Pool!MergedRecord(b, c, r, i)
         IN  /\ m \in Pool!Records
             /\ m.flag # r.flag => i.flag \/ c.flag # b.flag
             /\ b.count <= c.count /\ (i.imported => i.floor <= r.count)
                  => m.count = r.count + (c.count - b.count)
<1>1. /\ b.count \in Nat /\ c.count \in Nat /\ r.count \in Nat /\ i.floor \in Nat
      /\ b.flag \in BOOLEAN /\ c.flag \in BOOLEAN /\ r.flag \in BOOLEAN
  BY DEF Pool!Records, Intents
<1> DEFINE m == Pool!MergedRecord(b, c, r, i)
           latest == IF i.imported THEN Pool!Larger(r.count, i.floor) ELSE r.count
           count == Pool!MergedCounter(latest, c.count, b.count)
           flag == Pool!MergedFlag(b.flag, c.flag, r.flag, i.flag)
<1>2. m = [count |-> count, flag |-> flag]
  BY DEF Pool!MergedRecord
<1>3. flag \in BOOLEAN /\ (flag # r.flag => i.flag \/ c.flag # b.flag)
  BY <1>1 DEF Pool!MergedFlag
<1>4. latest \in Nat /\ (i.imported /\ i.floor <= r.count => latest = r.count)
      /\ (~ i.imported => latest = r.count)
  BY <1>1 DEF Pool!Larger
<1> HIDE DEF latest, flag
<1>5. count \in Nat /\ (b.count <= c.count => count = latest + (c.count - b.count))
  <2>1. PICK x \in Nat, y \in Nat, z \in Nat : x = b.count /\ y = c.count /\ z = latest
    BY <1>1, <1>4
  <2>2. count = IF y < x THEN y ELSE z + (y - x)
    BY <2>1 DEF Pool!MergedCounter
  <2> HIDE DEF count
  <2>3. QED
    BY <2>1, <2>2
<1> HIDE DEF count, m
<1>6. QED
  BY <1>2, <1>3, <1>4, <1>5 DEF m, Pool!Records

\* The merged file, account by account.
LEMMA MergedFile ==
  ASSUME NEW q \in Pools, NEW f \in PoolFiles
  PROVE  LET g == Pool!Merged(q, f)
         IN  /\ g \in PoolFiles /\ g.there = TRUE
             /\ \A a \in Accounts : g.acc[a] = MergedSlot(q, f, a) /\ g.epoch[a] = MergedEpoch(q, f, a)
<1> DEFINE g == Pool!Merged(q, f)
           acc == [a \in Accounts |-> MergedSlot(q, f, a)]
           epoch == [a \in Accounts |-> MergedEpoch(q, f, a)]
<1>1. g = [there |-> TRUE, acc |-> acc, epoch |-> epoch, stamp |-> f.stamp + 1]
  BY DEF Pool!Merged, MergedSlot, MergedEpoch, Kept, KnownEpoch
<1>2. ASSUME NEW a \in Accounts
      PROVE  MergedEpoch(q, f, a) \in Nat
  <2>1. q.epoch[a] \in Nat /\ f.epoch[a] \in Nat /\ q.intent[a].deletedEpoch \in Nat
    BY DEF Pools, PoolFiles, Intents
  <2>2. KnownEpoch(q, f, a) \in Nat
    BY <2>1 DEF KnownEpoch, Pool!Larger
  <2>3. QED
    BY <2>1, <2>2 DEF MergedEpoch
<1>3. ASSUME NEW a \in Accounts
      PROVE  MergedSlot(q, f, a) \in Slots
  <2>1. q.mem[a] \in Slots /\ q.base[a] \in Slots /\ f.acc[a] \in Slots /\ q.intent[a] \in Intents
    BY DEF Pools, PoolFiles
  <2>2. Kept(q, f, a) \in Slots
    BY <2>1 DEF Kept, Slots
  <2>3. q.mem[a] # None /\ Kept(q, f, a) # None
          => Pool!MergedRecord(Pool!Known(q.base[a]), q.mem[a], Kept(q, f, a), q.intent[a]) \in Slots
    BY <2>1, <2>2, KnownRecord, MergedCount DEF Slots
  <2>4. None \in Slots
    BY DEF Slots
  <2>5. QED
    BY <2>1, <2>2, <2>3, <2>4 DEF MergedSlot
<1>4. acc \in [Accounts -> Slots] /\ epoch \in [Accounts -> Nat]
  BY <1>2, <1>3
<1>5. \A a \in Accounts : acc[a] = MergedSlot(q, f, a) /\ epoch[a] = MergedEpoch(q, f, a)
  OBVIOUS
<1> HIDE DEF acc, epoch
<1>6. f.stamp + 1 \in Nat
  BY DEF PoolFiles
<1>7. g \in PoolFiles /\ g.there = TRUE /\ g.acc = acc /\ g.epoch = epoch
  BY <1>1, <1>4, <1>6 DEF PoolFiles
<1> HIDE DEF g
<1>8. QED
  BY <1>5, <1>7 DEF g

\* What a process keeps after its save into the file g.
SavedPool(q, st, g) == [q EXCEPT !.st = st, !.base = q.mem, !.epoch = g.epoch,
                                 !.intent = Pool!NoIntents, !.dirty = FALSE]

\* A process that has saved has nothing unsaved and no intents.
LEMMA SavedCoherent ==
  ASSUME NEW q \in Pools, NEW st \in {"loaded", "restored", "up"}, NEW g \in PoolFiles, NEW ours, NEW theirs,
         st = "loaded" => theirs = {}
  PROVE  LET r == SavedPool(q, st, g)
         IN  /\ r \in Pools /\ Coherent(r, ours, theirs)
             /\ r.mem = q.mem /\ r.base = q.mem /\ r.epoch = g.epoch /\ r.intent = Pool!NoIntents
             /\ \A a \in Accounts : UnsavedOf(r, a) = 0
<1> DEFINE r == SavedPool(q, st, g)
<1>1. q.mem \in [Accounts -> Slots] /\ g.epoch \in [Accounts -> Nat]
  BY DEF Pools, PoolFiles
<1>2. /\ r \in Pools /\ r.st = st /\ r.mem = q.mem /\ r.base = q.mem /\ r.epoch = g.epoch
      /\ r.intent = Pool!NoIntents
  BY <1>1, NothingIntended DEF SavedPool, Pools
<1> HIDE DEF r
<1>3. \A a \in Accounts : /\ q.mem[a] \in Slots /\ Counted(q.mem[a]) \in Nat
                          /\ q.mem[a] # None => Pool!Known(q.mem[a]) = q.mem[a]
  BY <1>1, KnownRecord
<1>4. ASSUME NEW a \in Accounts
      PROVE  Counted(r.base[a]) <= Counted(r.mem[a]) /\ UnsavedOf(r, a) = 0
  <2>1. Counted(q.mem[a]) \in Nat
    BY <1>3
  <2>2. QED
    BY <1>2, <2>1 DEF UnsavedOf
<1>5. Coherent(r, ours, theirs)
  BY <1>2, <1>3, <1>4, NothingIntended DEF Coherent
<1>6. QED
  BY <1>2, <1>4, <1>5 DEF r

\* While nothing has been removed the file takes in all that was counted, once.
LEMMA MergedWhole ==
  ASSUME NEW q \in Pools, NEW f \in PoolFiles, NEW ours, NEW theirs, Coherent(q, ours, theirs),
         Covered(q, f), Contains(f, f), ~ f.there => f.acc = Pool!Nobody,
         \A a \in Accounts : ~ q.intent[a].deleted, NEW a \in Accounts
  PROVE  LET g == Pool!Merged(q, f)
         IN  /\ g.epoch[a] = 0
             /\ f.acc[a] # None \/ q.mem[a] # None => g.acc[a] # None
             /\ Counted(g.acc[a]) = Counted(f.acc[a]) + UnsavedOf(q, a)
<1> DEFINE g == Pool!Merged(q, f)
           c == Counted(f.acc[a])
<1>1. /\ q.mem[a] \in Slots /\ q.base[a] \in Slots /\ f.acc[a] \in Slots /\ q.intent[a] \in Intents
      /\ Counted(q.mem[a]) \in Nat /\ Counted(q.base[a]) \in Nat /\ c \in Nat
  BY KnownRecord DEF Pools, PoolFiles
<1>2. /\ q.epoch[a] = 0 /\ q.intent[a].createdEpoch = 0
      /\ q.intent[a].imported => q.intent[a].floor <= c
      /\ f.acc[a] = None => /\ Counted(q.base[a]) = 0
                            /\ q.mem[a] # None => q.base[a] = None \/ q.intent[a].created
  BY DEF Covered
<1>3. f.acc[a] # None => f.epoch[a] = 0
  BY DEF Contains
<1>4. f.epoch[a] = 0
  BY DEF Contains
<1>5. KnownEpoch(q, f, a) = 0
  BY <1>2, <1>4 DEF KnownEpoch, Pool!Larger
<1>6. ~ Pool!Deletes(q, a, 0)
  BY DEF Pool!Deletes
<1>7. MergedEpoch(q, f, a) = 0 /\ Kept(q, f, a) = f.acc[a]
  BY <1>5, <1>6 DEF MergedEpoch, Kept
<1>8. Pool!Survives(q, a, 0)
  BY <1>2 DEF Pool!Survives
<1>9. g.acc[a] = MergedSlot(q, f, a) /\ g.epoch[a] = 0
  BY <1>7, MergedFile
<1>10. UnsavedOf(q, a) = (IF q.mem[a] = None THEN 0 ELSE Counted(q.mem[a]) - Counted(q.base[a]))
  BY DEF UnsavedOf
<1>11. Counted(None) = 0
  BY KnownRecord DEF Slots
<1> HIDE DEF g
<1>12. CASE q.mem[a] = None
  <2>1. f.there => MergedSlot(q, f, a) = f.acc[a]
    BY <1>7, <1>12 DEF MergedSlot
  <2>2. ~ f.there => MergedSlot(q, f, a) = None /\ f.acc[a] = None
    BY <1>12, EmptyFile DEF MergedSlot
  <2>3. QED
    BY <1>1, <1>9, <1>10, <1>12, <2>1, <2>2 DEF g
<1>13. CASE q.mem[a] # None /\ f.acc[a] = None
  <2>1. MergedSlot(q, f, a) = q.mem[a]
    BY <1>2, <1>7, <1>8, <1>13 DEF MergedSlot
  <2>2. Counted(f.acc[a]) = 0 /\ Counted(q.base[a]) = 0
    BY <1>2, <1>11, <1>13
  <2>3. UnsavedOf(q, a) = Counted(q.mem[a])
    BY <1>1, <1>10, <1>13, <2>2
  <2>4. QED
    BY <1>1, <1>9, <1>13, <2>1, <2>2, <2>3 DEF g
<1>14. CASE q.mem[a] # None /\ f.acc[a] # None
  <2> DEFINE m == Pool!MergedRecord(Pool!Known(q.base[a]), q.mem[a], f.acc[a], q.intent[a])
  <2>1. f.there
    BY <1>14, EmptyFile
  <2>2. MergedSlot(q, f, a) = m
    BY <1>7, <1>8, <1>14, <2>1 DEF MergedSlot
  <2>3. /\ Pool!Known(q.base[a]) \in Pool!Records /\ q.mem[a] \in Pool!Records /\ f.acc[a] \in Pool!Records
        /\ Pool!Known(q.base[a]).count = Counted(q.base[a]) /\ q.mem[a].count = Counted(q.mem[a])
        /\ f.acc[a].count = c
    BY <1>1, <1>14, KnownRecord DEF Counted
  <2>4. Counted(q.base[a]) <= Counted(q.mem[a])
    BY <1>14 DEF Coherent
  <2>5. m \in Pool!Records /\ m.count = c + (Counted(q.mem[a]) - Counted(q.base[a]))
    <3>1. /\ m \in Pool!Records
          /\ Pool!Known(q.base[a]).count <= q.mem[a].count
               /\ (q.intent[a].imported => q.intent[a].floor <= f.acc[a].count)
             => m.count = f.acc[a].count + (q.mem[a].count - Pool!Known(q.base[a]).count)
      <4>1. PICK b \in Pool!Records, x \in Pool!Records, r \in Pool!Records, i \in Intents :
              b = Pool!Known(q.base[a]) /\ x = q.mem[a] /\ r = f.acc[a] /\ i = q.intent[a]
        BY <1>1, <2>3
      <4>2. m = Pool!MergedRecord(b, x, r, i)
        BY <4>1
      <4>3. /\ Pool!MergedRecord(b, x, r, i) \in Pool!Records
            /\ b.count <= x.count /\ (i.imported => i.floor <= r.count)
                 => Pool!MergedRecord(b, x, r, i).count = r.count + (x.count - b.count)
        BY MergedCount
      <4> HIDE DEF m
      <4>4. QED
        BY <4>1, <4>2, <4>3
    <3> HIDE DEF m
    <3>2. QED
      BY <1>2, <2>3, <2>4, <3>1
  <2> HIDE DEF m
  <2>6. m \in Slots /\ m # None /\ Counted(m) = m.count
    BY <2>5, PoolAssumption, KnownRecord DEF Slots
  <2>7. UnsavedOf(q, a) = Counted(q.mem[a]) - Counted(q.base[a])
    BY <1>10, <1>14
  <2>8. QED
    BY <1>9, <2>2, <2>5, <2>6, <2>7 DEF g
<1>15. QED
  BY <1>12, <1>13, <1>14

\* Of the new file: it contains the old one, and covers the process that wrote it.
LEMMA MergedCovers ==
  ASSUME NEW q \in Pools, NEW f \in PoolFiles, NEW ours, NEW theirs, Coherent(q, ours, theirs),
         Covered(q, f), Contains(f, f), ~ f.there => f.acc = Pool!Nobody,
         \A a \in Accounts : ~ q.intent[a].deleted,
         NEW st \in {"loaded", "restored", "up"}
  PROVE  LET g == Pool!Merged(q, f)
         IN  /\ Contains(g, f) /\ Contains(g, g)
             /\ Covered(SavedPool(q, st, g), g)
<1> DEFINE g == Pool!Merged(q, f)
<1>1. g \in PoolFiles
  BY MergedFile
<1>2. ASSUME NEW a \in Accounts
      PROVE  /\ g.epoch[a] = 0 /\ f.epoch[a] = 0
             /\ f.acc[a] # None \/ q.mem[a] # None => g.acc[a] # None
             /\ Counted(f.acc[a]) <= Counted(g.acc[a]) /\ Counted(g.acc[a]) <= Counted(g.acc[a])
             /\ g.acc[a] = None => q.mem[a] = None
  <2>1. /\ g.epoch[a] = 0 /\ (f.acc[a] # None \/ q.mem[a] # None => g.acc[a] # None)
        /\ Counted(g.acc[a]) = Counted(f.acc[a]) + UnsavedOf(q, a)
    BY MergedWhole
  <2>2. UnsavedOf(q, a) \in Nat
    BY UnsavedNat
  <2>3. Counted(f.acc[a]) \in Nat /\ f.epoch[a] = 0
    BY KnownRecord DEF PoolFiles, Contains
  <2> HIDE DEF g
  <2>4. QED
    BY <2>1, <2>2, <2>3
<1> HIDE DEF g
<1>3. Contains(g, f) /\ Contains(g, g)
  BY <1>2 DEF Contains
<1> DEFINE r == SavedPool(q, st, g)
<1>4. r.mem = q.mem /\ r.base = q.mem /\ r.epoch = g.epoch /\ r.intent = Pool!NoIntents
  <2>1. q.mem \in [Accounts -> Slots] /\ g.epoch \in [Accounts -> Nat]
    BY <1>1 DEF Pools, PoolFiles
  <2>2. QED
    BY <2>1, NothingIntended DEF SavedPool, Pools
<1> HIDE DEF r
<1>5. Counted(None) = 0
  BY KnownRecord DEF Slots
<1>6. Covered(r, g)
  BY <1>2, <1>4, <1>5, NothingIntended DEF Covered
<1>7. QED
  BY <1>3, <1>6 DEF g, r
-----------------------------------------------------------------------------
(* A step of one process.                                                   *)

\* Process p's pool becomes r, which has assigned and restored these flags;
\* unless something is removed the file grows and the counts balance.
PoolMoves(p, r, ours, theirs) ==
  /\ r \in Pools /\ poolProc' = [poolProc EXCEPT ![p] = r]
  /\ ours \in SUBSET Accounts /\ theirs \in SUBSET Accounts /\ Coherent(r, ours, theirs)
  /\ assigned' = [assigned EXCEPT ![p] = ours] /\ borrowed' = [borrowed EXCEPT ![p] = theirs]
  /\ poolFile' \in PoolFiles /\ redis' \in PoolFiles /\ sending' \in [Procs -> PoolFiles \cup {None}]
  /\ dir' = dir /\ past' \in {"whole", "shrunk", "lost"}
  /\ counted' \in [Accounts -> Nat] /\ dropped' \in [Accounts -> Nat]
  /\ \A o \in Procs \ {p} : sending'[o] = sending[o]
  /\ past' = "whole" =>
       /\ past = "whole"
       /\ Contains(poolFile', poolFile) /\ Contains(poolFile', poolFile') /\ Contains(poolFile', redis')
       /\ ~ poolFile'.there => poolFile'.acc = Pool!Nobody
       /\ Covered(r, poolFile')
       /\ sending'[p] # None => Contains(poolFile', sending'[p])
       /\ \A a \in Accounts :
            counted'[a] + Counted(poolFile.acc[a]) + UnsavedOf(poolProc[p], a) + dropped[a]
              = counted[a] + Counted(poolFile'.acc[a]) + UnsavedOf(r, a) + dropped'[a]

\* What all processes have unsaved, when one of them changes.
LEMMA AllChange ==
  ASSUME poolProc \in [Procs -> Pools], \A o \in Procs : Coherent(poolProc[o], assigned[o], borrowed[o]),
         NEW p \in Procs, NEW r \in Pools, NEW ours, NEW theirs, Coherent(r, ours, theirs), NEW a \in Accounts
  PROVE  /\ AllOf(poolProc, a) \in Nat /\ AllOf([poolProc EXCEPT ![p] = r], a) \in Nat
         /\ UnsavedOf(poolProc[p], a) \in Nat /\ UnsavedOf(r, a) \in Nat
         /\ AllOf([poolProc EXCEPT ![p] = r], a) + UnsavedOf(poolProc[p], a) = AllOf(poolProc, a) + UnsavedOf(r, a)
<1> DEFINE after == [poolProc EXCEPT ![p] = r]
           f == [o \in Procs |-> UnsavedOf(poolProc[o], a)]
           g == [o \in Procs |-> UnsavedOf(after[o], a)]
<1>1. /\ after[p] = r /\ \A o \in Procs \ {p} : after[o] = poolProc[o]
      /\ UnsavedOf(r, a) \in Nat /\ \A o \in Procs : UnsavedOf(poolProc[o], a) \in Nat
  BY UnsavedNat
<1>2. AllOf(poolProc, a) = Total(f) /\ AllOf(after, a) = Total(g)
  BY DEF AllOf
<1> HIDE DEF after
<1>3. /\ f \in [Procs -> Nat] /\ g \in [Procs -> Nat]
      /\ f[p] = UnsavedOf(poolProc[p], a) /\ g[p] = UnsavedOf(r, a)
      /\ \A o \in Procs \ {p} : g[o] = f[o]
  BY <1>1
<1> HIDE DEF f, g
<1>4. Total(f) \in Nat /\ Total(g) \in Nat /\ Total(g) + f[p] = Total(f) + g[p]
  BY <1>3, TotalChange, PoolAssumption
<1>5. QED
  BY <1>1, <1>2, <1>3, <1>4 DEF after

\* A step of one process that saves nothing keeps the invariant.
LEMMA PoolMoved ==
  ASSUME PoolInv, NEW p \in Procs, NEW r, NEW ours, NEW theirs, PoolMoves(p, r, ours, theirs)
  PROVE  PoolInv'
<1>1. /\ PoolTypeOK /\ poolProc \in [Procs -> Pools]
      /\ \A o \in Procs : Coherent(poolProc[o], assigned[o], borrowed[o])
      /\ past = "whole" => Whole
  BY DEF PoolInv, PoolTypeOK
<1>2. /\ r \in Pools /\ poolProc' = [poolProc EXCEPT ![p] = r]
      /\ ours \in SUBSET Accounts /\ theirs \in SUBSET Accounts /\ Coherent(r, ours, theirs)
      /\ assigned' = [assigned EXCEPT ![p] = ours] /\ borrowed' = [borrowed EXCEPT ![p] = theirs]
      /\ \A o \in Procs \ {p} : sending'[o] = sending[o]
  BY DEF PoolMoves
<1>3. PoolTypeOK'
  BY <1>1, <1>2 DEF PoolMoves, PoolTypeOK
<1>4. /\ poolProc'[p] = r /\ assigned'[p] = ours /\ borrowed'[p] = theirs
      /\ \A o \in Procs \ {p} : /\ poolProc'[o] = poolProc[o] /\ assigned'[o] = assigned[o]
                                /\ borrowed'[o] = borrowed[o]
  BY <1>1, <1>2 DEF PoolTypeOK
<1>5. \A o \in Procs : Coherent(poolProc'[o], assigned'[o], borrowed'[o])
  BY <1>1, <1>2, <1>4
<1>6. ASSUME past' = "whole"
      PROVE  Whole'
  <2>1. /\ Whole /\ poolFile \in PoolFiles /\ poolFile' \in PoolFiles
        /\ redis' \in PoolFiles /\ sending \in [Procs -> PoolFiles \cup {None}]
        /\ Contains(poolFile', poolFile) /\ Contains(poolFile', poolFile') /\ Contains(poolFile', redis')
        /\ ~ poolFile'.there => poolFile'.acc = Pool!Nobody
        /\ Covered(r, poolFile')
        /\ sending'[p] # None => Contains(poolFile', sending'[p])
    BY <1>1, <1>6 DEF PoolMoves, PoolTypeOK
  <2>2. \A o \in Procs : Covered(poolProc'[o], poolFile')
    <3>1. \A o \in Procs \ {p} : poolProc[o] \in Pools /\ Covered(poolProc[o], poolFile)
      BY <1>1, <2>1 DEF Whole
    <3>2. \A o \in Procs \ {p} : Covered(poolProc[o], poolFile')
      BY <2>1, <3>1, CoveredLater
    <3>3. QED
      BY <1>4, <2>1, <3>2
  <2>3. \A o \in Procs : sending'[o] # None => Contains(poolFile', sending'[o])
    <3>1. \A o \in Procs \ {p} : sending[o] # None => sending[o] \in PoolFiles /\ Contains(poolFile, sending[o])
      BY <2>1 DEF Whole
    <3>2. \A o \in Procs \ {p} : sending[o] # None => Contains(poolFile', sending[o])
      BY <2>1, <3>1, CoveredLater
    <3>3. QED
      BY <1>2, <2>1, <3>2
  <2>4. ASSUME NEW a \in Accounts
        PROVE  counted'[a] = Counted(poolFile'.acc[a]) + AllOf(poolProc', a) + dropped'[a]
    <3>1. /\ counted[a] = Counted(poolFile.acc[a]) + AllOf(poolProc, a) + dropped[a]
          /\ counted'[a] + Counted(poolFile.acc[a]) + UnsavedOf(poolProc[p], a) + dropped[a]
               = counted[a] + Counted(poolFile'.acc[a]) + UnsavedOf(r, a) + dropped'[a]
      BY <1>6, <2>1 DEF PoolMoves, Whole
    <3>2. /\ AllOf(poolProc, a) \in Nat /\ AllOf(poolProc', a) \in Nat
          /\ UnsavedOf(poolProc[p], a) \in Nat /\ UnsavedOf(r, a) \in Nat
          /\ AllOf(poolProc', a) + UnsavedOf(poolProc[p], a) = AllOf(poolProc, a) + UnsavedOf(r, a)
      BY <1>1, <1>2, AllChange
    <3>3. /\ counted[a] \in Nat /\ counted'[a] \in Nat /\ dropped[a] \in Nat /\ dropped'[a] \in Nat
      BY <1>1, <1>3 DEF PoolTypeOK
    <3>4. Counted(poolFile.acc[a]) \in Nat /\ Counted(poolFile'.acc[a]) \in Nat
      BY <2>1, KnownRecord DEF PoolFiles
    <3>5. PICK n \in Nat, m \in Nat, d \in Nat, e \in Nat, b \in Nat, c \in Nat :
            /\ n = counted[a] /\ m = counted'[a] /\ d = dropped[a] /\ e = dropped'[a]
            /\ b = Counted(poolFile.acc[a]) /\ c = Counted(poolFile'.acc[a])
      BY <3>3, <3>4
    <3>6. PICK u \in Nat, v \in Nat, s \in Nat, t \in Nat :
            /\ u = UnsavedOf(poolProc[p], a) /\ v = UnsavedOf(r, a)
            /\ s = AllOf(poolProc, a) /\ t = AllOf(poolProc', a)
      BY <3>2
    <3>7. n = b + s + d /\ m + b + u + d = n + c + v + e /\ t + u = s + v
      BY ONLY <3>1, <3>2, <3>5, <3>6
    <3>8. m = c + t + e
      BY ONLY <3>7, n \in Nat, m \in Nat, d \in Nat, e \in Nat, b \in Nat, c \in Nat,
              u \in Nat, v \in Nat, s \in Nat, t \in Nat
    <3>9. QED
      BY ONLY <3>5, <3>6, <3>8
  <2>5. QED
    BY <2>1, <2>2, <2>3, <2>4 DEF Whole
<1>7. QED
  BY <1>3, <1>5, <1>6 DEF PoolInv
-----------------------------------------------------------------------------
(* The invariant holds initially, and each operation keeps it.             *)

\* The invariant of the pool holds at first.
LEMMA PoolInit == Pool!Init => PoolInv
<1> SUFFICES ASSUME Pool!Init PROVE PoolInv
  OBVIOUS
<1>1. /\ poolFile = Pool!NoFile /\ redis = Pool!NoFile /\ past = "whole"
      /\ \A p \in Procs : /\ poolProc[p] = Pool!Off /\ assigned[p] = {} /\ borrowed[p] = {} /\ sending[p] = None
      /\ \A a \in Accounts : counted[a] = 0 /\ dropped[a] = 0
  BY DEF Pool!Init
<1>2. PoolTypeOK
  BY EmptyFile, OffPool DEF Pool!Init, PoolTypeOK
<1>3. \A p \in Procs : Coherent(poolProc[p], assigned[p], borrowed[p])
  BY <1>1, OffPool
<1>4. Contains(Pool!NoFile, Pool!NoFile)
  BY EmptyFile DEF Contains
<1>5. \A p \in Procs : Covered(poolProc[p], poolFile)
  BY <1>1, OffPool, EmptyFile
<1>6. ASSUME NEW a \in Accounts
      PROVE  counted[a] = Counted(poolFile.acc[a]) + AllOf(poolProc, a) + dropped[a]
  <2> DEFINE f == [p \in Procs |-> UnsavedOf(poolProc[p], a)]
  <2>1. f \in [Procs -> Nat] /\ \A p \in Procs : f[p] = 0
    BY <1>1, OffPool
  <2>2. AllOf(poolProc, a) = Total(f)
    BY DEF AllOf
  <2> HIDE DEF f
  <2>3. AllOf(poolProc, a) = 0
    BY <2>1, <2>2, TotalZero
  <2>4. Counted(poolFile.acc[a]) = 0
    BY <1>1, EmptyFile, KnownRecord DEF Slots
  <2>5. QED
    BY <1>1, <2>3, <2>4
<1>7. Whole
  BY <1>1, <1>4, <1>5, <1>6, EmptyFile DEF Whole
<1>8. QED
  BY <1>2, <1>3, <1>7 DEF PoolInv

\* What a process may use of the invariant.
LEMMA PoolFacts ==
  ASSUME PoolInv, NEW p \in Procs
  PROVE  /\ PoolTypeOK /\ poolFile \in PoolFiles /\ redis \in PoolFiles
         /\ poolProc[p] \in Pools /\ Coherent(poolProc[p], assigned[p], borrowed[p])
         /\ sending \in [Procs -> PoolFiles \cup {None}]
         /\ assigned[p] \in SUBSET Accounts /\ borrowed[p] \in SUBSET Accounts
         /\ assigned = [assigned EXCEPT ![p] = assigned[p]] /\ borrowed = [borrowed EXCEPT ![p] = borrowed[p]]
         /\ counted \in [Accounts -> Nat] /\ dropped \in [Accounts -> Nat]
         /\ \A a \in Accounts : /\ UnsavedOf(poolProc[p], a) \in Nat /\ Counted(poolFile.acc[a]) \in Nat
                                /\ counted[a] \in Nat /\ dropped[a] \in Nat
         /\ past = "whole" =>
              /\ Whole /\ Contains(poolFile, poolFile) /\ Contains(poolFile, redis)
              /\ ~ poolFile.there => poolFile.acc = Pool!Nobody
              /\ Covered(poolProc[p], poolFile)
              /\ sending[p] # None => Contains(poolFile, sending[p])
<1>1. /\ PoolTypeOK /\ poolFile \in PoolFiles /\ redis \in PoolFiles
      /\ poolProc[p] \in Pools /\ Coherent(poolProc[p], assigned[p], borrowed[p])
      /\ sending \in [Procs -> PoolFiles \cup {None}]
      /\ assigned \in [Procs -> SUBSET Accounts] /\ borrowed \in [Procs -> SUBSET Accounts]
      /\ counted \in [Accounts -> Nat] /\ dropped \in [Accounts -> Nat]
  BY DEF PoolInv, PoolTypeOK
<1>2. \A a \in Accounts : UnsavedOf(poolProc[p], a) \in Nat /\ Counted(poolFile.acc[a]) \in Nat
  BY <1>1, UnsavedNat, KnownRecord DEF PoolFiles
<1>3. past = "whole" => Whole
  BY DEF PoolInv
<1>4. QED
  BY <1>1, <1>2, <1>3 DEF Whole

\* A pool that goes on without a save, and neither gains nor loses counts.
GoesOn(p, r, ours, theirs) ==
  /\ r \in Pools /\ poolProc' = [poolProc EXCEPT ![p] = r]
  /\ ours \in SUBSET Accounts /\ theirs \in SUBSET Accounts /\ Coherent(r, ours, theirs)
  /\ assigned' = [assigned EXCEPT ![p] = ours] /\ borrowed' = [borrowed EXCEPT ![p] = theirs]
  /\ UNCHANGED <<poolFile, redis, sending, dir, counted, dropped, past>>
  /\ past = "whole" => Covered(r, poolFile)
  /\ \A a \in Accounts : UnsavedOf(r, a) = UnsavedOf(poolProc[p], a)

\* So does a step that leaves what was counted and lost alone.
LEMMA PoolGoesOn ==
  ASSUME PoolInv, NEW p \in Procs, NEW r, NEW ours, NEW theirs, GoesOn(p, r, ours, theirs)
  PROVE  PoolInv'
<1>1. PoolMoves(p, r, ours, theirs)
  BY PoolFacts DEF GoesOn, PoolMoves, PoolTypeOK
<1>2. QED
  BY <1>1, PoolMoved

\* Loading the file, or failing to, keeps the invariant.
LEMMA PoolLoad ==
  ASSUME PoolInv, NEW p \in Procs, Pool!Load(p)
  PROVE  PoolInv'
<1> DEFINE r == [Pool!Off EXCEPT !.st = "loaded", !.mem = poolFile.acc, !.base = poolFile.acc,
                                 !.epoch = poolFile.epoch]
<1>1. /\ poolProc' = [poolProc EXCEPT ![p] = r] /\ poolProc[p].st = "off"
      /\ UNCHANGED <<poolFile, redis, sending, dir, counted, dropped, past, assigned, borrowed>>
  BY DEF Pool!Load, Pool!disk, Pool!history
<1>2. /\ r \in Pools /\ Coherent(r, assigned[p], {})
      /\ \A a \in Accounts : UnsavedOf(r, a) = 0
      /\ past = "whole" => Covered(r, poolFile)
  BY LoadedPool, PoolFacts
<1> HIDE DEF r
<1>3. /\ poolProc[p] \in Pools /\ Coherent(poolProc[p], assigned[p], borrowed[p])
      /\ assigned[p] \in SUBSET Accounts
      /\ assigned = [assigned EXCEPT ![p] = assigned[p]] /\ borrowed = [borrowed EXCEPT ![p] = borrowed[p]]
  BY PoolFacts
<1>4. borrowed[p] = {}
  BY <1>1, <1>3 DEF Coherent
<1>5. \A a \in Accounts : UnsavedOf(poolProc[p], a) = 0
  BY <1>1, <1>3, UnsavedNat
<1>6. GoesOn(p, r, assigned[p], {})
  BY <1>1, <1>2, <1>3, <1>4, <1>5 DEF GoesOn
<1>7. QED
  BY <1>6, PoolGoesOn

\* Taking the snapshot from Redis, or not, keeps it.
LEMMA PoolRestore ==
  ASSUME PoolInv, NEW p \in Procs, Pool!Restore(p)
  PROVE  PoolInv'
<1>1. /\ poolProc[p].st = "loaded" /\ poolProc[p] \in Pools /\ redis \in PoolFiles /\ poolFile \in PoolFiles
      /\ Coherent(poolProc[p], assigned[p], borrowed[p]) /\ borrowed[p] = {}
      /\ UNCHANGED <<poolFile, redis, sending, dir, counted, dropped, past, assigned>>
  BY PoolFacts DEF Pool!Restore, Pool!disk, Coherent
<1>2. \A a \in Accounts : UnsavedOf(poolProc[p], a) = 0
  BY <1>1, UnsavedNat
<1>3. CASE Pool!TakesSnapshot
  <2> DEFINE r == [Pool!Restored(poolProc[p]) EXCEPT !.st = "restored"]
             theirs == {a \in Accounts :
                          redis.acc[a] # None /\ redis.acc[a].flag # Pool!Known(poolProc[p].base[a]).flag}
  <2>1. poolProc' = [poolProc EXCEPT ![p] = r] /\ borrowed' = [borrowed EXCEPT ![p] = theirs]
    BY <1>3 DEF Pool!Restore
  <2>2. /\ r \in Pools /\ Coherent(r, assigned[p], theirs)
        /\ past = "whole" => Covered(r, poolFile)
    BY <1>1, RestoredPool, PoolFacts, ZenonT(60)
  <2>3. theirs \in SUBSET Accounts
    OBVIOUS
  <2>4. r.st = "restored"
    BY <1>1 DEF Pool!Restored, Pools
  <2> HIDE DEF r, theirs
  <2>5. \A a \in Accounts : UnsavedOf(r, a) = 0
    BY <2>2, <2>4, UnsavedNat
  <2>6. assigned[p] \in SUBSET Accounts /\ assigned = [assigned EXCEPT ![p] = assigned[p]]
    BY PoolFacts
  <2>7. GoesOn(p, r, assigned[p], theirs)
    BY <1>1, <1>2, <2>1, <2>2, <2>3, <2>5, <2>6 DEF GoesOn
  <2>8. QED
    BY <2>7, PoolGoesOn
<1>4. CASE ~ Pool!TakesSnapshot
  <2> DEFINE r == [poolProc[p] EXCEPT !.st = "restored"]
  <2>1. poolProc' = [poolProc EXCEPT ![p] = r] /\ borrowed' = [borrowed EXCEPT ![p] = {}]
    BY <1>4 DEF Pool!Restore
  <2>2. /\ r \in Pools /\ r.st = "restored" /\ r.mem = poolProc[p].mem /\ r.base = poolProc[p].base
        /\ r.intent = poolProc[p].intent /\ r.epoch = poolProc[p].epoch
    BY <1>1 DEF Pools
  <2> HIDE DEF r
  <2>3. Coherent(r, assigned[p], {})
    BY <1>1, <2>2 DEF Coherent
  <2>4. past = "whole" => Covered(r, poolFile)
    BY <2>2, PoolFacts DEF Covered
  <2>5. \A a \in Accounts : UnsavedOf(r, a) = 0
    BY <2>2, <2>3, UnsavedNat
  <2>6. assigned[p] \in SUBSET Accounts /\ assigned = [assigned EXCEPT ![p] = assigned[p]]
    BY PoolFacts
  <2>7. GoesOn(p, r, assigned[p], {})
    BY <1>1, <1>2, <2>1, <2>2, <2>3, <2>4, <2>5, <2>6 DEF GoesOn
  <2>8. QED
    BY <2>7, PoolGoesOn
<1>5. QED
  BY <1>3, <1>4

\* A save of the pool in state q, made of the process's own without counting.
LEMMA PoolSave ==
  ASSUME PoolInv, NEW p \in Procs, NEW q \in Pools, NEW st \in {"loaded", "restored", "up"}, NEW found,
         Pool!Save(p, q, st, found), UNCHANGED <<dir, redis, counted, dropped>>,
         q.st = st \/ (q.st = "restored" /\ st = "up"),
         Coherent(q, assigned[p], borrowed[p]), past = "whole" => Covered(q, poolFile),
         \A a \in Accounts : UnsavedOf(q, a) = UnsavedOf(poolProc[p], a)
  PROVE  PoolInv'
<1> DEFINE g == Pool!Merged(q, poolFile)
<1>1. CASE /\ poolFile' = g /\ poolProc' = [poolProc EXCEPT ![p] = SavedPool(q, st, g)]
           /\ sending' = [sending EXCEPT ![p] = g]
           /\ past' = IF past = "whole" /\ \E a \in Accounts : q.intent[a].deleted THEN "shrunk" ELSE past
           /\ assigned' = [assigned EXCEPT ![p] = {}] /\ borrowed' = [borrowed EXCEPT ![p] = {}]
  <2> DEFINE r == SavedPool(q, st, g)
  <2>1. poolFile \in PoolFiles /\ g \in PoolFiles /\ g.there = TRUE
    BY MergedFile, PoolFacts
  <2>2. /\ r \in Pools /\ Coherent(r, {}, {})
        /\ \A a \in Accounts : UnsavedOf(r, a) = 0
    BY <2>1, SavedCoherent
  <2>3. past' = "whole" => past = "whole" /\ \A a \in Accounts : ~ q.intent[a].deleted
    BY <1>1
  <2>4. ASSUME past' = "whole"
        PROVE  /\ Contains(g, poolFile) /\ Contains(g, g) /\ Covered(r, g)
               /\ \A a \in Accounts : Counted(g.acc[a]) = Counted(poolFile.acc[a]) + UnsavedOf(q, a)
    <3>1. /\ past = "whole" /\ \A a \in Accounts : ~ q.intent[a].deleted
          /\ Covered(q, poolFile) /\ Contains(poolFile, poolFile)
          /\ ~ poolFile.there => poolFile.acc = Pool!Nobody
      BY <2>3, <2>4, PoolFacts
    <3>2. Contains(g, poolFile) /\ Contains(g, g) /\ Covered(r, g)
      BY <2>1, <3>1, MergedCovers
    <3>3. \A a \in Accounts : Counted(g.acc[a]) = Counted(poolFile.acc[a]) + UnsavedOf(q, a)
      BY <2>1, <3>1, MergedWhole
    <3>4. QED
      BY <3>2, <3>3
  <2>5. poolFile' = g /\ poolProc' = [poolProc EXCEPT ![p] = r] /\ sending' = [sending EXCEPT ![p] = g]
    BY <1>1
  <2> HIDE DEF g, r
  <2>6. /\ sending' \in [Procs -> PoolFiles \cup {None}] /\ sending'[p] = g
        /\ \A o \in Procs \ {p} : sending'[o] = sending[o]
    BY <2>1, <2>5, PoolFacts
  <2>7. past' = "whole" => Contains(g, redis)
    BY <2>1, <2>3, <2>4, CoveredLater, PoolFacts
  <2>8. ASSUME past' = "whole", NEW a \in Accounts
        PROVE  counted'[a] + Counted(poolFile.acc[a]) + UnsavedOf(poolProc[p], a) + dropped[a]
                 = counted[a] + Counted(poolFile'.acc[a]) + UnsavedOf(r, a) + dropped'[a]
    <3>1. /\ Counted(g.acc[a]) = Counted(poolFile.acc[a]) + UnsavedOf(q, a) /\ UnsavedOf(r, a) = 0
          /\ UnsavedOf(q, a) = UnsavedOf(poolProc[p], a)
      BY <2>2, <2>4, <2>8
    <3>2. /\ UnsavedOf(poolProc[p], a) \in Nat /\ Counted(poolFile.acc[a]) \in Nat
          /\ counted[a] \in Nat /\ dropped[a] \in Nat
      BY PoolFacts
    <3>3. counted' = counted /\ dropped' = dropped /\ poolFile' = g
      BY <2>5
    <3>4. QED
      BY ONLY <3>1, <3>2, <3>3
  <2>9. past' \in {"whole", "shrunk", "lost"}
    BY <1>1, PoolFacts DEF PoolTypeOK
  <2>10. PoolMoves(p, r, {}, {})
    <3>1. /\ r \in Pools /\ poolProc' = [poolProc EXCEPT ![p] = r]
          /\ {} \in SUBSET Accounts /\ Coherent(r, {}, {})
          /\ assigned' = [assigned EXCEPT ![p] = {}] /\ borrowed' = [borrowed EXCEPT ![p] = {}]
          /\ poolFile' \in PoolFiles /\ redis' \in PoolFiles /\ sending' \in [Procs -> PoolFiles \cup {None}]
          /\ dir' = dir /\ past' \in {"whole", "shrunk", "lost"}
          /\ counted' \in [Accounts -> Nat] /\ dropped' \in [Accounts -> Nat]
          /\ \A o \in Procs \ {p} : sending'[o] = sending[o]
      BY <1>1, <2>1, <2>2, <2>5, <2>6, <2>9, PoolFacts
    <3>2. past' = "whole" =>
            /\ past = "whole"
            /\ Contains(poolFile', poolFile) /\ Contains(poolFile', poolFile') /\ Contains(poolFile', redis')
            /\ ~ poolFile'.there => poolFile'.acc = Pool!Nobody
            /\ Covered(r, poolFile')
            /\ sending'[p] # None => Contains(poolFile', sending'[p])
      BY <2>1, <2>3, <2>4, <2>5, <2>6, <2>7
    <3>3. QED
      BY <2>8, <3>1, <3>2 DEF PoolMoves
  <2>11. QED
    BY <2>10, PoolMoved
<1>2. CASE /\ poolProc' = [poolProc EXCEPT ![p] = [Pool!NoteFail(q) EXCEPT !.st = st]]
           /\ UNCHANGED <<poolFile, sending, past, assigned, borrowed>>
  <2> DEFINE r == [Pool!NoteFail(q) EXCEPT !.st = st]
  <2>1. /\ r \in Pools /\ r.st = st /\ r.mem = q.mem /\ r.base = q.base /\ r.intent = q.intent
        /\ r.epoch = q.epoch
    BY DEF Pool!NoteFail, Pools
  <2> HIDE DEF r
  <2>2. Coherent(r, assigned[p], borrowed[p])
    BY <2>1 DEF Coherent
  <2>3. past = "whole" => Covered(r, poolFile)
    BY <2>1 DEF Covered
  <2>4. \A a \in Accounts : UnsavedOf(r, a) = UnsavedOf(poolProc[p], a)
    BY <2>1 DEF UnsavedOf
  <2>5. poolProc' = [poolProc EXCEPT ![p] = r]
    BY <1>2 DEF r
  <2>6. /\ assigned[p] \in SUBSET Accounts /\ borrowed[p] \in SUBSET Accounts
        /\ assigned = [assigned EXCEPT ![p] = assigned[p]] /\ borrowed = [borrowed EXCEPT ![p] = borrowed[p]]
    BY PoolFacts
  <2>7. GoesOn(p, r, assigned[p], borrowed[p])
    BY <1>2, <2>1, <2>2, <2>3, <2>4, <2>5, <2>6 DEF GoesOn
  <2>8. QED
    BY <2>7, PoolGoesOn
<1>3. QED
  BY <1>1, <1>2 DEF Pool!Save, SavedPool

\* Following the credentials directory and saving keeps it.
LEMMA PoolSync ==
  ASSUME PoolInv, NEW p \in Procs, Pool!SyncToDir(p)
  PROVE  PoolInv'
<1> DEFINE q == Pool!Upserted(poolProc[p])
           d == Pool!Dropped(q)
<1>1. /\ poolProc[p].st = "restored" /\ poolProc[p] \in Pools /\ poolFile \in PoolFiles
      /\ Coherent(poolProc[p], assigned[p], borrowed[p])
      /\ UNCHANGED <<dir, redis, counted, dropped>>
  BY PoolFacts DEF Pool!SyncToDir
<1>2. /\ q \in Pools /\ q.st = "restored" /\ Coherent(q, assigned[p], borrowed[p])
      /\ past = "whole" => Covered(q, poolFile)
  BY <1>1, UpsertedPool, PoolFacts
<1>3. /\ IF \E a \in Accounts \ dir : q.mem[a] # None
         THEN Pool!Save(p, d, "up", dir)
         ELSE /\ poolProc' = [poolProc EXCEPT ![p] = [q EXCEPT !.st = "up"]]
              /\ UNCHANGED <<poolFile, sending, past, assigned, borrowed>>
  BY DEF Pool!SyncToDir
<1> HIDE DEF q
<1>4. /\ d \in Pools /\ d.st = "restored" /\ Coherent(d, assigned[p], borrowed[p])
      /\ past = "whole" => Covered(d, poolFile)
  BY <1>1, <1>2, DroppedPool
<1> HIDE DEF d
<1>5. \A a \in Accounts : UnsavedOf(poolProc[p], a) = 0 /\ UnsavedOf(q, a) = 0 /\ UnsavedOf(d, a) = 0
  BY <1>1, <1>2, <1>4, UnsavedNat
<1>6. CASE \E a \in Accounts \ dir : q.mem[a] # None
  <2>1. Pool!Save(p, d, "up", dir)
    BY <1>3, <1>6
  <2>2. \A a \in Accounts : UnsavedOf(d, a) = UnsavedOf(poolProc[p], a)
    BY <1>5
  <2>3. QED
    BY <1>1, <1>4, <2>1, <2>2, PoolSave
<1>7. CASE ~ \E a \in Accounts \ dir : q.mem[a] # None
  <2> DEFINE r == [q EXCEPT !.st = "up"]
  <2>1. poolProc' = [poolProc EXCEPT ![p] = r] /\ UNCHANGED <<poolFile, sending, past, assigned, borrowed>>
    BY <1>3, <1>7
  <2>2. /\ r \in Pools /\ r.st = "up" /\ r.mem = q.mem /\ r.base = q.base /\ r.intent = q.intent
        /\ r.epoch = q.epoch
    BY <1>2 DEF Pools
  <2> HIDE DEF r
  <2>3. Coherent(r, assigned[p], borrowed[p])
    BY <1>2, <2>2 DEF Coherent
  <2>4. past = "whole" => Covered(r, poolFile)
    BY <1>2, <2>2 DEF Covered
  <2>5. \A a \in Accounts : UnsavedOf(r, a) = UnsavedOf(q, a)
    BY <2>2 DEF UnsavedOf
  <2>6. \A a \in Accounts : UnsavedOf(r, a) = UnsavedOf(poolProc[p], a)
    BY <1>5, <2>5
  <2>7. /\ assigned[p] \in SUBSET Accounts /\ borrowed[p] \in SUBSET Accounts
        /\ assigned = [assigned EXCEPT ![p] = assigned[p]] /\ borrowed = [borrowed EXCEPT ![p] = borrowed[p]]
    BY PoolFacts
  <2>8. GoesOn(p, r, assigned[p], borrowed[p])
    BY <1>1, <2>1, <2>2, <2>3, <2>4, <2>6, <2>7 DEF GoesOn
  <2>9. QED
    BY <2>8, PoolGoesOn
<1>8. QED
  BY <1>6, <1>7

\* Counting for an account keeps it.
LEMMA PoolCount ==
  ASSUME PoolInv, NEW p \in Procs, NEW a \in Accounts, Pool!Count(p, a)
  PROVE  PoolInv'
<1> DEFINE q == poolProc[p]
           m == [q.mem[a] EXCEPT !.count = @ + 1]
           r == [q EXCEPT !.mem = [q.mem EXCEPT ![a] = m], !.dirty = TRUE]
<1>1. /\ q.st = "up" /\ q.mem[a] # None /\ q \in Pools /\ Coherent(q, assigned[p], borrowed[p])
      /\ poolProc \in [Procs -> Pools] /\ counted \in [Accounts -> Nat]
      /\ counted' = [counted EXCEPT ![a] = @ + 1]
      /\ UNCHANGED <<poolFile, redis, sending, dir, dropped, past, assigned, borrowed>>
  BY PoolFacts DEF Pool!Count, Pool!Up, Pool!disk, PoolTypeOK
<1>2. poolProc' = [poolProc EXCEPT ![p] = r]
  BY DEF Pool!Count
<1>3. q.mem \in [Accounts -> Slots] /\ q.mem[a] \in Pool!Records /\ Counted(q.mem[a]) = q.mem[a].count
  BY <1>1, KnownRecord DEF Pools
<1>4. m \in Pool!Records /\ m.count = q.mem[a].count + 1 /\ m.flag = q.mem[a].flag
  BY <1>3 DEF Pool!Records
<1> HIDE DEF m
<1>5. m \in Slots /\ m # None /\ Counted(m) = Counted(q.mem[a]) + 1 /\ Counted(q.mem[a]) \in Nat
  BY <1>3, <1>4, KnownRecord, PoolAssumption DEF Slots, Pool!Records
<1>6. /\ r \in Pools /\ r.st = "up" /\ r.mem[a] = m /\ (\A b \in Accounts \ {a} : r.mem[b] = q.mem[b])
      /\ r.base = q.base /\ r.intent = q.intent /\ r.epoch = q.epoch
  BY <1>1, <1>3, <1>5 DEF Pools
<1> HIDE DEF q, r
<1>7. ASSUME NEW b \in Accounts
      PROVE  /\ r.mem[b] # None => q.mem[b] # None /\ r.mem[b].flag = q.mem[b].flag
             /\ q.mem[b] = None => r.mem[b] = None
             /\ r.mem[b] # None => Counted(r.base[b]) <= Counted(r.mem[b])
             /\ UnsavedOf(r, b) = UnsavedOf(q, b) + (IF b = a THEN 1 ELSE 0)
  <2>1. /\ Counted(q.base[b]) \in Nat /\ Counted(q.mem[b]) \in Nat
        /\ q.mem[b] # None => Counted(q.base[b]) <= Counted(q.mem[b])
    BY <1>1, UnsavedNat DEF Coherent
  <2>2. CASE b = a
    BY <1>1, <1>4, <1>5, <1>6, <2>1, <2>2 DEF UnsavedOf
  <2>3. CASE b # a
    BY <1>6, <2>1, <2>3 DEF UnsavedOf
  <2>4. QED
    BY <2>2, <2>3
<1>8. Coherent(r, assigned[p], borrowed[p])
  BY <1>1, <1>6, <1>7 DEF Coherent
<1>9. past = "whole" => /\ Covered(r, poolFile) /\ Contains(poolFile, poolFile) /\ Contains(poolFile, redis)
                        /\ ~ poolFile.there => poolFile.acc = Pool!Nobody
                        /\ sending[p] # None => Contains(poolFile, sending[p])
  <2>1. past = "whole" => /\ Covered(q, poolFile) /\ Contains(poolFile, poolFile) /\ Contains(poolFile, redis)
                          /\ ~ poolFile.there => poolFile.acc = Pool!Nobody
                          /\ sending[p] # None => Contains(poolFile, sending[p])
    BY PoolFacts DEF q
  <2>2. QED
    BY <1>6, <1>7, <2>1 DEF Covered
<1>10. ASSUME NEW b \in Accounts
       PROVE  counted'[b] + Counted(poolFile.acc[b]) + UnsavedOf(q, b) + dropped[b]
                = counted[b] + Counted(poolFile.acc[b]) + UnsavedOf(r, b) + dropped[b]
  <2>1. /\ UnsavedOf(q, b) \in Nat /\ Counted(poolFile.acc[b]) \in Nat
        /\ counted[b] \in Nat /\ dropped[b] \in Nat
    BY PoolFacts DEF q
  <2>2. counted'[b] = counted[b] + (IF b = a THEN 1 ELSE 0)
    BY <1>1, <2>1
  <2>3. UnsavedOf(r, b) = UnsavedOf(q, b) + (IF b = a THEN 1 ELSE 0)
    BY <1>7
  <2>4. QED
    BY ONLY <2>1, <2>2, <2>3
<1>11. counted' \in [Accounts -> Nat]
  BY <1>1
<1>12. PoolMoves(p, r, assigned[p], borrowed[p])
  <2>1. /\ r \in Pools /\ poolProc' = [poolProc EXCEPT ![p] = r]
        /\ assigned[p] \in SUBSET Accounts /\ borrowed[p] \in SUBSET Accounts
        /\ Coherent(r, assigned[p], borrowed[p])
        /\ assigned' = [assigned EXCEPT ![p] = assigned[p]] /\ borrowed' = [borrowed EXCEPT ![p] = borrowed[p]]
        /\ poolFile' \in PoolFiles /\ redis' \in PoolFiles /\ sending' \in [Procs -> PoolFiles \cup {None}]
        /\ dir' = dir /\ past' \in {"whole", "shrunk", "lost"}
        /\ counted' \in [Accounts -> Nat] /\ dropped' \in [Accounts -> Nat]
        /\ \A o \in Procs \ {p} : sending'[o] = sending[o]
    BY <1>1, <1>2, <1>6, <1>8, <1>11, PoolFacts DEF PoolTypeOK
  <2>2. QED
    BY <1>1, <1>9, <1>10, <2>1 DEF PoolMoves, q
<1>13. QED
  BY <1>12, PoolMoved

\* Assigning a flag keeps it.
LEMMA PoolAssign ==
  ASSUME PoolInv, NEW p \in Procs, NEW a \in Accounts, NEW v \in BOOLEAN, Pool!Assign(p, a, v)
  PROVE  PoolInv'
<1> DEFINE q == poolProc[p]
           m == [q.mem[a] EXCEPT !.flag = v]
           i == [q.intent[a] EXCEPT !.flag = TRUE]
           r == [q EXCEPT !.mem = [q.mem EXCEPT ![a] = m], !.intent = [q.intent EXCEPT ![a] = i], !.dirty = TRUE]
           ours == assigned[p] \cup {a}
<1>1. /\ q.st = "up" /\ q.mem[a] # None /\ q \in Pools /\ Coherent(q, assigned[p], borrowed[p])
      /\ poolProc \in [Procs -> Pools]
      /\ assigned' = [assigned EXCEPT ![p] = ours]
      /\ UNCHANGED <<poolFile, redis, sending, dir, counted, dropped, past, borrowed>>
  BY PoolFacts DEF Pool!Assign, Pool!Up, Pool!disk, PoolTypeOK
<1>2. poolProc' = [poolProc EXCEPT ![p] = r]
  BY DEF Pool!Assign
<1>3. /\ q.mem \in [Accounts -> Slots] /\ q.mem[a] \in Pool!Records /\ Counted(q.mem[a]) = q.mem[a].count
      /\ q.intent \in [Accounts -> Intents] /\ q.intent[a] \in Intents
  BY <1>1, KnownRecord DEF Pools
<1>4. m \in Pool!Records /\ m.count = q.mem[a].count
  BY <1>3 DEF Pool!Records
<1>5. /\ i \in Intents /\ i.created = q.intent[a].created /\ i.createdEpoch = q.intent[a].createdEpoch
      /\ i.deleted = q.intent[a].deleted /\ i.imported = q.intent[a].imported /\ i.floor = q.intent[a].floor
  BY <1>3 DEF Intents
<1> HIDE DEF m, i
<1>6. m \in Slots /\ m # None /\ Counted(m) = Counted(q.mem[a])
  BY <1>3, <1>4, KnownRecord, PoolAssumption DEF Slots
<1>7. /\ r \in Pools /\ r.st = "up" /\ r.mem[a] = m /\ (\A b \in Accounts \ {a} : r.mem[b] = q.mem[b])
      /\ r.base = q.base /\ r.intent[a] = i /\ (\A b \in Accounts \ {a} : r.intent[b] = q.intent[b])
      /\ r.epoch = q.epoch
  BY <1>1, <1>3, <1>5, <1>6 DEF Pools
<1> HIDE DEF q, r
<1>8. ASSUME NEW b \in Accounts
      PROVE  /\ r.mem[b] = None <=> q.mem[b] = None
             /\ Counted(r.mem[b]) = Counted(q.mem[b])
             /\ b # a => r.mem[b] = q.mem[b] /\ r.intent[b].flag = q.intent[b].flag
             /\ r.intent[b].created = q.intent[b].created
             /\ r.intent[b].createdEpoch = q.intent[b].createdEpoch
             /\ r.intent[b].deleted = q.intent[b].deleted /\ r.intent[b].imported = q.intent[b].imported
             /\ r.intent[b].floor = q.intent[b].floor
  <2>1. CASE b = a
    BY <1>1, <1>5, <1>6, <1>7, <2>1
  <2>2. CASE b # a
    BY <1>7, <2>2
  <2>3. QED
    BY <2>1, <2>2
<1>9. Coherent(r, ours, borrowed[p])
  BY <1>1, <1>7, <1>8 DEF Coherent
<1>10. past = "whole" => Covered(r, poolFile)
  <2>1. past = "whole" => Covered(q, poolFile)
    BY PoolFacts DEF q
  <2>2. QED
    BY <1>7, <1>8, <2>1 DEF Covered
<1>11. \A b \in Accounts : UnsavedOf(r, b) = UnsavedOf(q, b)
  BY <1>7, <1>8 DEF UnsavedOf
<1>12. /\ ours \in SUBSET Accounts /\ borrowed[p] \in SUBSET Accounts
       /\ borrowed = [borrowed EXCEPT ![p] = borrowed[p]]
  BY PoolFacts
<1>13. GoesOn(p, r, ours, borrowed[p])
  BY <1>1, <1>2, <1>7, <1>9, <1>10, <1>11, <1>12 DEF GoesOn, q
<1>14. QED
  BY <1>13, PoolGoesOn

\* A flush, whether the save succeeds or fails, keeps it.
LEMMA PoolFlush ==
  ASSUME PoolInv, NEW p \in Procs, Pool!Flush(p)
  PROVE  PoolInv'
<1> DEFINE q == [poolProc[p] EXCEPT !.dirty = FALSE]
<1>1. /\ poolProc[p] \in Pools /\ Coherent(poolProc[p], assigned[p], borrowed[p])
      /\ past = "whole" => Covered(poolProc[p], poolFile)
      /\ poolProc[p].st # "off" /\ UNCHANGED <<dir, redis, counted, dropped>>
  BY PoolFacts DEF Pool!Flush
<1>2. Pool!Save(p, q, poolProc[p].st, listed[p])
  BY DEF Pool!Flush
<1>3. /\ q \in Pools /\ q.st = poolProc[p].st /\ q.mem = poolProc[p].mem /\ q.base = poolProc[p].base
      /\ q.intent = poolProc[p].intent /\ q.epoch = poolProc[p].epoch
      /\ poolProc[p].st \in {"loaded", "restored", "up"}
  BY <1>1 DEF Pools
<1> HIDE DEF q
<1>4. Coherent(q, assigned[p], borrowed[p])
  BY <1>1, <1>3 DEF Coherent
<1>5. past = "whole" => Covered(q, poolFile)
  BY <1>1, <1>3 DEF Covered
<1>6. \A a \in Accounts : UnsavedOf(q, a) = UnsavedOf(poolProc[p], a)
  BY <1>3 DEF UnsavedOf
<1>7. QED
  BY <1>1, <1>2, <1>3, <1>4, <1>5, <1>6, PoolSave

\* The end of a process moves what it had not saved to what was lost.
LEMMA PoolExit ==
  ASSUME PoolInv, NEW p \in Procs, Pool!Exit(p)
  PROVE  PoolInv'
<1>1. /\ poolProc' = [poolProc EXCEPT ![p] = Pool!Off]
      /\ sending' = [sending EXCEPT ![p] = None]
      /\ assigned' = [assigned EXCEPT ![p] = {}] /\ borrowed' = [borrowed EXCEPT ![p] = {}]
      /\ dropped' = [a \in Accounts |-> dropped[a] + UnsavedOf(poolProc[p], a)]
      /\ UNCHANGED <<poolFile, redis, dir, counted, past>>
  <2>1. \A a \in Accounts : Pool!Unsaved(p, a) = UnsavedOf(poolProc[p], a)
    BY DEF Pool!Unsaved, UnsavedOf, Counted, Pool!Known
  <2>2. dropped' = [a \in Accounts |-> dropped[a] + Pool!Unsaved(p, a)]
    BY DEF Pool!Exit
  <2>3. dropped' = [a \in Accounts |-> dropped[a] + UnsavedOf(poolProc[p], a)]
    BY <2>1, <2>2
  <2>4. QED
    BY <2>3 DEF Pool!Exit, Pool!disk
<1>2. /\ Pool!Off \in Pools /\ Coherent(Pool!Off, {}, {})
      /\ \A a \in Accounts : UnsavedOf(Pool!Off, a) = 0
      /\ Covered(Pool!Off, poolFile)
  BY OffPool, PoolFacts
<1>3. \A a \in Accounts : /\ dropped[a] \in Nat /\ UnsavedOf(poolProc[p], a) \in Nat
                          /\ counted[a] \in Nat /\ Counted(poolFile.acc[a]) \in Nat
  BY PoolFacts
<1>4. dropped' \in [Accounts -> Nat]
  BY <1>1, <1>3
<1>5. ASSUME NEW a \in Accounts
      PROVE  counted'[a] + Counted(poolFile.acc[a]) + UnsavedOf(poolProc[p], a) + dropped[a]
               = counted[a] + Counted(poolFile'.acc[a]) + UnsavedOf(Pool!Off, a) + dropped'[a]
  <2>1. dropped'[a] = dropped[a] + UnsavedOf(poolProc[p], a) /\ UnsavedOf(Pool!Off, a) = 0
        /\ counted' = counted /\ poolFile' = poolFile
    BY <1>1, <1>2
  <2>2. QED
    BY ONLY <1>3, <2>1
<1>6. /\ sending' \in [Procs -> PoolFiles \cup {None}] /\ sending'[p] = None
      /\ \A o \in Procs \ {p} : sending'[o] = sending[o]
  BY <1>1, PoolFacts
<1>7. PoolMoves(p, Pool!Off, {}, {})
  BY <1>1, <1>2, <1>4, <1>5, <1>6, PoolFacts DEF PoolMoves, PoolTypeOK
<1>8. QED
  BY <1>7, PoolMoved

\* A snapshot that reaches Redis is no newer than the file.
LEMMA PoolDeliver ==
  ASSUME PoolInv, NEW p \in Procs, Pool!Deliver(p)
  PROVE  PoolInv'
<1>1. /\ sending[p] # None /\ redis' \in {sending[p], redis} /\ sending' = [sending EXCEPT ![p] = None]
      /\ UNCHANGED <<poolFile, dir, poolProc, counted, dropped, past, assigned, borrowed>>
  BY DEF Pool!Deliver, Pool!disk, Pool!history
<1>2. /\ redis' \in PoolFiles /\ sending' \in [Procs -> PoolFiles \cup {None}]
      /\ past = "whole" => Contains(poolFile, redis')
      /\ sending'[p] = None /\ \A o \in Procs \ {p} : sending'[o] = sending[o]
  BY <1>1, PoolFacts
<1>3. poolProc' = [poolProc EXCEPT ![p] = poolProc[p]]
  BY <1>1 DEF PoolInv, PoolTypeOK
<1>4. PoolMoves(p, poolProc[p], assigned[p], borrowed[p])
  BY <1>1, <1>2, <1>3, PoolFacts DEF PoolMoves, PoolTypeOK
<1>5. QED
  BY <1>4, PoolMoved

\* Without a change of the pools and their file the invariant stays.
LEMMA PoolStands ==
  ASSUME PoolInv, dir' \in SUBSET Accounts,
         UNCHANGED <<poolFile, redis, sending, poolProc, counted, dropped, past, assigned, borrowed>>
  PROVE  PoolInv'
<1>1. PoolTypeOK'
  BY DEF PoolInv, PoolTypeOK
<1>2. Whole' = Whole
  BY DEF Whole, AllOf, Covered, Contains, Counted
<1>3. \A p \in Procs : Coherent(poolProc'[p], assigned'[p], borrowed'[p])
  BY DEF PoolInv
<1>4. QED
  BY <1>1, <1>2, <1>3 DEF PoolInv

\* The invariant says nothing of sums once the file was removed.
LEMMA PoolLoseFile ==
  ASSUME PoolInv, Pool!LoseFile
  PROVE  PoolInv'
<1>1. /\ poolFile' = [Pool!NoFile EXCEPT !.stamp = poolFile.stamp] /\ past' = "lost"
      /\ UNCHANGED <<redis, sending, dir, poolProc, counted, dropped, assigned, borrowed>>
      /\ PoolTypeOK
  BY DEF Pool!LoseFile, PoolInv
<1>2. poolFile' \in PoolFiles
  BY <1>1, EmptyFile DEF PoolTypeOK, PoolFiles
<1>3. PoolTypeOK'
  BY <1>1, <1>2 DEF PoolTypeOK
<1>4. \A p \in Procs : Coherent(poolProc'[p], assigned'[p], borrowed'[p])
  BY <1>1 DEF PoolInv
<1>5. QED
  BY <1>1, <1>3, <1>4 DEF PoolInv

\* Every step of the pool's persistence keeps it.
LEMMA PoolStep ==
  ASSUME PoolInv, [Pool!Next]_(Pool!vars)
  PROVE  PoolInv'
<1>1. ASSUME NEW p \in Procs, Pool!Load(p) \/ Pool!Restore(p) \/ Pool!SyncToDir(p) \/ Pool!Flush(p)
                              \/ Pool!Exit(p) \/ Pool!Deliver(p)
      PROVE  PoolInv'
  BY <1>1, PoolLoad, PoolRestore, PoolSync, PoolFlush, PoolExit, PoolDeliver
<1>2. ASSUME NEW p \in Procs, NEW a \in Accounts, Pool!Count(p, a) \/ \E v \in BOOLEAN : Pool!Assign(p, a, v)
      PROVE  PoolInv'
  BY <1>2, PoolCount, PoolAssign
<1>3. ASSUME NEW a \in Accounts, Pool!ChangeDir(a)
      PROVE  PoolInv'
  BY <1>3, PoolStands DEF Pool!ChangeDir, Pool!history, PoolInv, PoolTypeOK
<1>4. CASE Pool!LoseFile
  BY <1>4, PoolLoseFile
<1>5. CASE UNCHANGED Pool!vars
  BY <1>5, PoolStands DEF Pool!vars, PoolInv, PoolTypeOK
<1>6. QED
  BY <1>1, <1>2, <1>3, <1>4, <1>5 DEF Pool!Next

\* It holds always.
LEMMA PoolInductive == Pool!Spec => []PoolInv
<1>1. PoolInv /\ [Pool!Next]_(Pool!vars) => PoolInv'
  BY PoolStep
<1>2. QED
  BY <1>1, PoolInit, PTL DEF Pool!Spec
(* Counters of several processes add up until something is removed, for any *)
(* number of processes and accounts: the file, what each process has not    *)
(* saved and what crashes lost make up what was counted (MergedWhole,       *)
(* Restored: a snapshot counts no more than the file).                      *)
THEOREM PoolAdds == StoresSpec => []CountsAddUp
<1>1. ASSUME PoolInv
      PROVE  CountsAddUp
  <2>1. \A S : Pool!Cardinality(S) = Cardinality(S)
    BY DEF Pool!Cardinality, Cardinality
  <2>2. \A f : Pool!Total(f) = Total(f)
    BY <2>1 DEF Pool!Total, Total
  <2>3. ASSUME NEW a \in Accounts
        PROVE  Pool!AllUnsaved(a) = AllOf(poolProc, a)
    <3>1. \A p \in Procs : Pool!Unsaved(p, a) = UnsavedOf(poolProc[p], a)
      BY DEF Pool!Unsaved, UnsavedOf, Counted, Pool!Known
    <3>2. [p \in Procs |-> Pool!Unsaved(p, a)] = [p \in Procs |-> UnsavedOf(poolProc[p], a)]
      BY <3>1
    <3>3. QED
      BY <2>2, <3>2 DEF Pool!AllUnsaved, AllOf
  <2>4. \A a \in Accounts : Pool!FileCount(a) = Counted(poolFile.acc[a])
    BY DEF Pool!FileCount, Counted
  <2>5. past = "whole" =>
          \A a \in Accounts : counted[a] = Counted(poolFile.acc[a]) + AllOf(poolProc, a) + dropped[a]
    BY <1>1 DEF PoolInv, Whole
  <2>6. QED
    BY <2>3, <2>4, <2>5 DEF CountsAddUp, Pool!CountsAddUp
<1>2. PoolInv => CountsAddUp
  BY <1>1
<1>3. QED
  BY <1>2, PoolInductive, EachStore, PTL

\* A merge changes the flag of an account the file keeps only if it was assigned or restored.
LEMMA MergedFlags ==
  ASSUME NEW q \in Pools, NEW f \in PoolFiles, NEW ours, NEW theirs, Coherent(q, ours, theirs), NEW a \in Accounts,
         f.there, f.acc[a] # None, MergedSlot(q, f, a) # None, MergedSlot(q, f, a).flag # f.acc[a].flag
  PROVE  a \in ours \cup theirs
<1>1. q.mem[a] \in Slots /\ q.base[a] \in Slots /\ f.acc[a] \in Slots /\ q.intent[a] \in Intents
  BY DEF Pools, PoolFiles
<1>2. q.intent[a].deleted => q.mem[a] = None
  BY DEF Coherent
<1>3. q.mem[a] # None
  BY DEF MergedSlot, Kept
<1>4. Kept(q, f, a) = f.acc[a]
  BY <1>2, <1>3 DEF Kept, Pool!Deletes
<1>5. MergedSlot(q, f, a) = Pool!MergedRecord(Pool!Known(q.base[a]), q.mem[a], f.acc[a], q.intent[a])
  BY <1>4 DEF MergedSlot
<1>6. PICK b \in Pool!Records, x \in Pool!Records, r \in Pool!Records, i \in Intents :
        b = Pool!Known(q.base[a]) /\ x = q.mem[a] /\ r = f.acc[a] /\ i = q.intent[a]
  BY <1>1, <1>3, KnownRecord
<1>7. Pool!MergedRecord(b, x, r, i).flag # r.flag => i.flag \/ x.flag # b.flag
  BY MergedCount
<1>8. q.intent[a].flag \/ q.mem[a].flag # Pool!Known(q.base[a]).flag
  BY <1>5, <1>6, <1>7
<1>9. QED
  BY <1>3, <1>8 DEF Coherent

\* A save changes the flag of an account only if it was assigned or restored.
LEMMA SaveFlags ==
  ASSUME NEW p \in Procs, NEW q \in Pools, NEW st, NEW found, Pool!Save(p, q, st, found), poolFile \in PoolFiles,
         NEW ours, NEW theirs, Coherent(q, ours, theirs), NEW a \in Accounts, poolFile.there,
         poolFile.acc[a] # None, poolFile'.acc[a] # None, poolFile'.acc[a].flag # poolFile.acc[a].flag
  PROVE  a \in ours \cup theirs
<1>1. poolFile' = Pool!Merged(q, poolFile)
  BY DEF Pool!Save
<1>2. poolFile'.acc[a] = MergedSlot(q, poolFile, a)
  BY <1>1, MergedFile
<1>3. QED
  BY <1>2, MergedFlags

(* A process's save, be it the last one of a process that drains, leaves a  *)
(* field of the file as it is unless that process assigned it since its     *)
(* last save or restored another value of it (Coherent: what differs from   *)
(* the base was assigned or restored).                                      *)
THEOREM PoolKeeps == StoresSpec => OnlyAssignedChange
<1> DEFINE Assigned == \A p \in Procs, a \in Accounts :
      Pool!Saves(p) /\ poolFile.acc[a] # None /\ poolFile'.acc[a] # None
        /\ poolFile'.acc[a].flag # poolFile.acc[a].flag => a \in assigned[p] \cup borrowed[p]
<1>1. ASSUME PoolInv, Pool!Next
      PROVE  Assigned
  <2> SUFFICES ASSUME NEW p \in Procs, NEW a \in Accounts, Pool!Saves(p),
                      poolFile.acc[a] # None, poolFile'.acc[a] # None,
                      poolFile'.acc[a].flag # poolFile.acc[a].flag
               PROVE  a \in assigned[p] \cup borrowed[p]
    OBVIOUS
  <2>1. /\ poolFile \in PoolFiles /\ poolProc[p] \in Pools /\ poolProc \in [Procs -> Pools]
        /\ Coherent(poolProc[p], assigned[p], borrowed[p])
        /\ poolFile' # poolFile /\ poolFile.there /\ poolFile'.there /\ poolProc'[p] # poolProc[p]
    BY <1>1, PoolFacts DEF PoolTypeOK, Pool!Saves
  <2>2. ASSUME NEW o \in Procs, NEW q, NEW st, NEW found, Pool!Save(o, q, st, found)
        PROVE  o = p
    <3>1. \E r : poolProc' = [poolProc EXCEPT ![o] = r]
      BY <2>2 DEF Pool!Save
    <3>2. QED
      BY <2>1, <3>1
  <2>3. CASE Pool!SyncToDir(p)
    <3> DEFINE q == Pool!Upserted(poolProc[p])
               d == Pool!Dropped(q)
    <3>1. q \in Pools /\ q.st = "restored" /\ Coherent(q, assigned[p], borrowed[p])
      BY <2>1, <2>3, UpsertedPool DEF Pool!SyncToDir
    <3>2. Pool!Save(p, d, "up", dir)
      BY <2>1, <2>3 DEF Pool!SyncToDir
    <3> HIDE DEF q
    <3>3. d \in Pools /\ Coherent(d, assigned[p], borrowed[p])
      BY <2>1, <3>1, DroppedPool
    <3> HIDE DEF d
    <3>4. QED
      BY <2>1, <3>2, <3>3, SaveFlags
  <2>4. CASE Pool!Flush(p)
    <3> DEFINE q == [poolProc[p] EXCEPT !.dirty = FALSE]
    <3>1. Pool!Save(p, q, poolProc[p].st, listed[p])
      BY <2>4 DEF Pool!Flush
    <3>2. /\ q \in Pools /\ q.st = poolProc[p].st /\ q.mem = poolProc[p].mem /\ q.base = poolProc[p].base
          /\ q.intent = poolProc[p].intent
      BY <2>1 DEF Pools
    <3> HIDE DEF q
    <3>3. Coherent(q, assigned[p], borrowed[p])
      BY <2>1, <3>2 DEF Coherent
    <3>4. QED
      BY <2>1, <3>1, <3>2, <3>3, SaveFlags
  <2>5. ASSUME NEW o \in Procs, Pool!SyncToDir(o) \/ Pool!Flush(o)
        PROVE  o = p
    <3>1. CASE Pool!SyncToDir(o)
      BY <2>1, <2>2, <3>1 DEF Pool!SyncToDir
    <3>2. CASE Pool!Flush(o)
      BY <2>2, <3>2 DEF Pool!Flush
    <3>3. QED
      BY <2>5, <3>1, <3>2
  <2>6. ASSUME NEW o \in Procs, Pool!Load(o) \/ Pool!Restore(o) \/ Pool!Exit(o) \/ Pool!Deliver(o)
                                \/ \E b \in Accounts : Pool!Count(o, b) \/ \E v \in BOOLEAN : Pool!Assign(o, b, v)
        PROVE  poolFile' = poolFile
    BY <2>6 DEF Pool!Load, Pool!Restore, Pool!Exit, Pool!Deliver, Pool!Count, Pool!Assign, Pool!disk
  <2>7. ASSUME NEW b \in Accounts, Pool!ChangeDir(b)
        PROVE  poolFile' = poolFile
    BY <2>7 DEF Pool!ChangeDir
  <2>8. ~ Pool!LoseFile
    BY <2>1, EmptyFile DEF Pool!LoseFile, PoolFiles
  <2>9. \E o \in Procs : Pool!SyncToDir(o) \/ Pool!Flush(o)
    BY <1>1, <2>1, <2>6, <2>7, <2>8 DEF Pool!Next
  <2>10. QED
    BY <2>3, <2>4, <2>5, <2>9
<1>2. PoolInv /\ [Pool!Next]_(Pool!vars) => [Assigned]_(Pool!vars)
  BY <1>1
<1> HIDE DEF Assigned
<1>3. Pool!Spec => [][Assigned]_(Pool!vars)
  BY <1>2, PoolInductive, PTL DEF Pool!Spec
<1>4. QED
  BY <1>3, EachStore, PTL DEF OnlyAssignedChange, Pool!OnlyAssignedChange, Assigned

-----------------------------------------------------------------------------
(* Deletions.  While the state file has not been lost, a snapshot is older  *)
(* than the file or the same, no epoch a process knows of is newer than the *)
(* file's, and a creation counts in the deletion epoch it was observed in:  *)
(* a process whose creation counts has found the account since.             *)

Older(s, f) ==
  /\ s.there => /\ f.there /\ s.stamp <= f.stamp
                /\ s.stamp = f.stamp => s.acc = f.acc /\ s.epoch = f.epoch
  /\ \A a \in Accounts : s.epoch[a] <= f.epoch[a]

Dated(q, f) ==
  \A a \in Accounts :
    /\ q.epoch[a] <= f.epoch[a] /\ q.intent[a].createdEpoch <= f.epoch[a]
    /\ q.intent[a].deletedEpoch <= f.epoch[a]
    /\ q.mem[a] # None => q.base[a] # None

\* What would apply to the file f if the process saved now.
Creates(q, f, a) == q.intent[a].created /\ q.intent[a].createdEpoch = f.epoch[a]

\* An account whose creation would apply is one that the process has listed.
Listing(q, f, found) ==
  \A a \in Accounts : q.mem[a] # None /\ Creates(q, f, a) => a \in found

Deletions ==
  /\ Older(redis, poolFile)
  /\ ~ poolFile.there => poolFile.acc = Pool!Nobody /\ poolFile.epoch = Pool!NoEpochs
  /\ \A p \in Procs : /\ Dated(poolProc[p], poolFile) /\ Listing(poolProc[p], poolFile, listed[p])
                      /\ sending[p] # None => Older(sending[p], poolFile)

DeletedInv == listed \in [Procs -> SUBSET Accounts] /\ (past # "lost" => Deletions)

\* What the merge of a pool with a file that was not lost does to an account.
LEMMA MergedDates ==
  ASSUME NEW q \in Pools, NEW f \in PoolFiles, NEW ours, NEW theirs, Coherent(q, ours, theirs), Dated(q, f),
         ~ f.there => f.acc = Pool!Nobody /\ f.epoch = Pool!NoEpochs, NEW a \in Accounts
  PROVE  LET g == Pool!Merged(q, f)
         IN  /\ f.epoch[a] \in Nat /\ g.epoch[a] \in Nat /\ q.epoch[a] \in Nat /\ f.epoch[a] <= g.epoch[a]
             /\ q.mem[a] # None => g.epoch[a] = f.epoch[a]
             /\ f.there /\ f.acc[a] = None /\ g.acc[a] # None => q.mem[a] # None /\ Creates(q, f, a)
<1> DEFINE g == Pool!Merged(q, f)
           i == q.intent[a]
<1>1. /\ q.epoch[a] \in Nat /\ f.epoch[a] \in Nat /\ i.deletedEpoch \in Nat /\ q.epoch[a] <= f.epoch[a]
      /\ i.deletedEpoch <= f.epoch[a] /\ (i.deleted => q.mem[a] = None)
      /\ q.mem[a] # None => q.base[a] # None
      /\ q.mem[a] \in Slots /\ q.base[a] \in Slots /\ f.acc[a] \in Slots /\ i \in Intents
  BY DEF Pools, PoolFiles, Intents, Dated, Coherent
<1>2. KnownEpoch(q, f, a) = f.epoch[a]
  <2>1. CASE f.there
    BY <1>1, <2>1 DEF KnownEpoch, Pool!Larger
  <2>2. CASE ~ f.there
    BY <1>1, <2>2, EmptyFile DEF KnownEpoch
  <2>3. QED
    BY <2>1, <2>2
<1>3. g.acc[a] = MergedSlot(q, f, a) /\ g.epoch[a] = MergedEpoch(q, f, a)
  BY MergedFile
<1> DEFINE deletes == Pool!Deletes(q, a, f.epoch[a])
<1>4. deletes <=> i.deleted /\ (i.deletedEpoch = 0 \/ i.deletedEpoch = f.epoch[a])
  BY <1>1 DEF Pool!Deletes
<1>5. /\ ~ deletes => g.epoch[a] = f.epoch[a] /\ Kept(q, f, a) = f.acc[a]
      /\ deletes /\ i.deletedEpoch = 0 => g.epoch[a] = f.epoch[a] + 1
      /\ deletes /\ i.deletedEpoch # 0 => g.epoch[a] = i.deletedEpoch
      /\ deletes => Kept(q, f, a) = None
  BY <1>2, <1>3 DEF MergedEpoch, Kept
<1> HIDE DEF g, deletes, i
<1>6. g.epoch[a] \in Nat /\ f.epoch[a] <= g.epoch[a]
  BY <1>1, <1>4, <1>5
<1>7. q.mem[a] # None => ~ deletes /\ g.epoch[a] = f.epoch[a]
  BY <1>1, <1>4, <1>5
<1>8. ASSUME f.there, q.mem[a] # None
      PROVE  f.acc[a] = None /\ g.acc[a] # None => Creates(q, f, a)
  <2>1. Kept(q, f, a) = f.acc[a] /\ MergedEpoch(q, f, a) = f.epoch[a] /\ q.base[a] # None
    BY <1>1, <1>3, <1>5, <1>7, <1>8 DEF g
  <2>2. SUFFICES ASSUME f.acc[a] = None, g.acc[a] # None PROVE Creates(q, f, a)
    OBVIOUS
  <2>3. Pool!Survives(q, a, f.epoch[a]) /\ q.intent[a].created
    BY <1>3, <1>8, <2>1, <2>2 DEF MergedSlot
  <2>4. QED
    BY <2>3 DEF Pool!Survives, Creates
<1>9. q.mem[a] = None => g.acc[a] = (IF f.there THEN Kept(q, f, a) ELSE None)
  BY <1>3 DEF MergedSlot
<1>10. g.acc[a] # None /\ q.mem[a] = None => f.acc[a] # None
  BY <1>5, <1>9
<1>11. f.there /\ f.acc[a] = None /\ g.acc[a] # None => q.mem[a] # None /\ Creates(q, f, a)
  BY <1>8, <1>10
<1>12. QED
  BY <1>1, <1>6, <1>7, <1>11 DEF g

\* A pool that differs in nothing a deletion or creation depends on.
Alike(q, r) ==
  \A a \in Accounts :
    /\ r.mem[a] = None <=> q.mem[a] = None
    /\ r.base[a] = None <=> q.base[a] = None
    /\ r.epoch[a] = q.epoch[a]
    /\ r.intent[a].created = q.intent[a].created /\ r.intent[a].createdEpoch = q.intent[a].createdEpoch
    /\ r.intent[a].deletedEpoch = q.intent[a].deletedEpoch

\* What deletions ask of a process looks at its accounts, epochs and intents.
LEMMA AlikePools ==
  ASSUME NEW q, NEW r, Alike(q, r), NEW f
  PROVE  /\ Dated(q, f) => Dated(r, f)
         /\ \A found : Listing(q, f, found) => Listing(r, f, found)
<1>1. \A a \in Accounts : Creates(r, f, a) <=> Creates(q, f, a)
  BY DEF Alike, Creates
<1>2. QED
  BY <1>1 DEF Alike, Dated, Listing

\* A pool without intents creates nothing.
LEMMA Unintended ==
  ASSUME NEW q, NEW f, q.intent = Pool!NoIntents
  PROVE  \A found : Listing(q, f, found)
<1>1. \A a \in Accounts : ~ Creates(q, f, a)
  BY NothingIntended DEF Creates
<1>2. QED
  BY <1>1 DEF Listing

\* A process without intents that is no newer than the file.
LEMMA DatedWithout ==
  ASSUME NEW q \in Pools, NEW f \in PoolFiles, q.intent = Pool!NoIntents, q.base = q.mem,
         \A a \in Accounts : q.epoch[a] <= f.epoch[a]
  PROVE  Dated(q, f)
<1>1. \A a \in Accounts : q.intent[a].createdEpoch = 0 /\ q.intent[a].deletedEpoch = 0 /\ f.epoch[a] \in Nat
  BY NothingIntended DEF Pool!NoIntent, PoolFiles
<1>2. QED
  BY <1>1 DEF Dated
-----------------------------------------------------------------------------
(* A step of one process that leaves the file alone.                        *)

Leaves(p, r, found) ==
  /\ r \in Pools /\ poolProc' = [poolProc EXCEPT ![p] = r]
  /\ found \in SUBSET Accounts /\ listed' = [listed EXCEPT ![p] = found]
  /\ UNCHANGED <<poolFile, redis, past>>
  /\ sending' \in {sending, [sending EXCEPT ![p] = None]}
  /\ past # "lost" => Dated(r, poolFile) /\ Listing(r, poolFile, found)

\* A step that leaves accounts, epochs and intents alone keeps the deletions.
LEMMA Left ==
  ASSUME PoolInv, DeletedInv, NEW p \in Procs, NEW r, NEW found, Leaves(p, r, found)
  PROVE  DeletedInv'
<1>1. /\ poolProc \in [Procs -> Pools] /\ listed \in [Procs -> SUBSET Accounts]
      /\ sending \in [Procs -> PoolFiles \cup {None}]
  BY DEF PoolInv, PoolTypeOK, DeletedInv
<1>2. /\ poolProc'[p] = r /\ listed'[p] = found
      /\ \A o \in Procs \ {p} : poolProc'[o] = poolProc[o] /\ listed'[o] = listed[o]
      /\ \A o \in Procs : sending'[o] \in {sending[o], None}
      /\ listed' \in [Procs -> SUBSET Accounts]
      /\ poolFile' = poolFile /\ redis' = redis /\ past' = past
  BY <1>1 DEF Leaves
<1>3. ASSUME past # "lost"
      PROVE  Deletions'
  <2>1. Deletions /\ Dated(r, poolFile) /\ Listing(r, poolFile, found)
    BY <1>3 DEF DeletedInv, Leaves
  <2>2. \A o \in Procs : Dated(poolProc'[o], poolFile) /\ Listing(poolProc'[o], poolFile, listed'[o])
    BY <1>2, <2>1 DEF Deletions
  <2>3. \A o \in Procs : sending'[o] # None => Older(sending'[o], poolFile)
    BY <1>2, <2>1 DEF Deletions
  <2>4. QED
    BY <1>2, <2>1, <2>2, <2>3 DEF Deletions
<1>4. QED
  BY <1>2, <1>3 DEF DeletedInv

\* Nor changes what a deletion or creation depends on.
LEMMA LeftAlike ==
  ASSUME PoolInv, DeletedInv, NEW p \in Procs, NEW r \in Pools, poolProc' = [poolProc EXCEPT ![p] = r],
         Alike(poolProc[p], r), UNCHANGED <<poolFile, redis, past, sending, listed>>
  PROVE  DeletedInv'
<1>1. listed[p] \in SUBSET Accounts /\ listed = [listed EXCEPT ![p] = listed[p]]
  BY DEF DeletedInv
<1>2. past # "lost" => Dated(r, poolFile) /\ Listing(r, poolFile, listed[p])
  BY AlikePools DEF DeletedInv, Deletions
<1>3. Leaves(p, r, listed[p])
  BY <1>1, <1>2 DEF Leaves
<1>4. QED
  BY <1>3, Left

\* The invariant of the deletions holds at first.
LEMMA DeletedInit == Pool!Init => DeletedInv
<1> SUFFICES ASSUME Pool!Init PROVE DeletedInv
  OBVIOUS
<1>1. /\ poolFile = Pool!NoFile /\ redis = Pool!NoFile
      /\ \A p \in Procs : poolProc[p] = Pool!Off /\ sending[p] = None
      /\ listed = [p \in Procs |-> {}]
  BY DEF Pool!Init
<1>2. Older(Pool!NoFile, Pool!NoFile)
  BY EmptyFile DEF Older
<1>3. Pool!Off \in Pools /\ Pool!Off.intent = Pool!NoIntents /\ Pool!Off.base = Pool!Off.mem
      /\ \A a \in Accounts : Pool!Off.epoch[a] <= Pool!NoFile.epoch[a]
  BY OffPool, EmptyFile
<1>4. Dated(Pool!Off, Pool!NoFile)
  BY <1>3, DatedWithout, EmptyFile
<1>5. QED
  BY <1>1, <1>2, <1>3, <1>4, Unintended, EmptyFile DEF DeletedInv, Deletions

\* Loading the file brings its epochs and no intents.
LEMMA DeletedLoad ==
  ASSUME PoolInv, DeletedInv, NEW p \in Procs, Pool!Load(p)
  PROVE  DeletedInv'
<1> DEFINE r == [Pool!Off EXCEPT !.st = "loaded", !.mem = poolFile.acc, !.base = poolFile.acc,
                                 !.epoch = poolFile.epoch]
<1>1. /\ poolProc' = [poolProc EXCEPT ![p] = r]
      /\ UNCHANGED <<poolFile, redis, sending, past, listed>>
  BY DEF Pool!Load, Pool!disk, Pool!history
<1>2. poolFile \in PoolFiles /\ poolFile.acc \in [Accounts -> Slots] /\ poolFile.epoch \in [Accounts -> Nat]
  BY DEF PoolInv, PoolTypeOK, PoolFiles
<1>3. /\ r \in Pools /\ r.mem = poolFile.acc /\ r.base = poolFile.acc /\ r.epoch = poolFile.epoch
      /\ r.intent = Pool!NoIntents
  BY <1>2, OffPool DEF Pools
<1> HIDE DEF r
<1>4. Dated(r, poolFile)
  <2>1. \A a \in Accounts : r.epoch[a] <= poolFile.epoch[a]
    BY <1>2, <1>3
  <2>2. QED
    BY <1>2, <1>3, <2>1, DatedWithout
<1>5. listed[p] \in SUBSET Accounts /\ listed = [listed EXCEPT ![p] = listed[p]]
  BY DEF DeletedInv
<1>6. Leaves(p, r, listed[p])
  BY <1>1, <1>3, <1>4, <1>5, Unintended DEF Leaves
<1>7. QED
  BY <1>6, Left

\* A restore takes epochs of the snapshot, which are no newer.
LEMMA DeletedRestore ==
  ASSUME PoolInv, DeletedInv, NEW p \in Procs, Pool!Restore(p)
  PROVE  DeletedInv'
<1> DEFINE q == poolProc[p]
           found == listed[p] \cup {a \in Accounts : Pool!TakesSnapshot /\ redis.acc[a] # None}
<1>1. /\ q.st = "loaded" /\ q \in Pools /\ redis \in PoolFiles /\ poolFile \in PoolFiles
      /\ UNCHANGED <<poolFile, redis, sending, past>>
      /\ listed \in [Procs -> SUBSET Accounts] /\ found \in SUBSET Accounts
      /\ listed' = [listed EXCEPT ![p] = found]
  BY PoolFacts DEF Pool!Restore, Pool!disk, DeletedInv
<1>2. CASE Pool!TakesSnapshot
  <2> DEFINE r == [Pool!Restored(q) EXCEPT !.st = "restored"]
             epoch == [a \in Accounts |-> Pool!Larger(q.epoch[a], redis.epoch[a])]
             base == [a \in Accounts |-> IF redis.acc[a] = None THEN q.base[a]
                                         ELSE Pool!ImportedBase(q.base[a], redis.acc[a])]
             intent == [a \in Accounts |-> RestoredIntent(q, a)]
  <2>1. poolProc' = [poolProc EXCEPT ![p] = r]
    BY <1>2 DEF Pool!Restore
  <2>2. r \in Pools
    <3>1. Coherent(q, assigned[p], borrowed[p])
      BY PoolFacts
    <3>2. Coherent(q, assigned[p], {})
      BY <1>1, <3>1 DEF Coherent
    <3>3. QED
      BY <1>1, <3>2, RestoredPool
  <2>3. r = [q EXCEPT !.st = "restored", !.mem = redis.acc, !.epoch = epoch, !.base = base, !.intent = intent,
                      !.dirty = TRUE]
    BY <1>1 DEF Pool!Restored, RestoredIntent, Pools
  <2> HIDE DEF r, epoch, base, intent
  <2>4. /\ r.mem = redis.acc /\ r.epoch = epoch /\ r.base = base /\ r.intent = intent
    BY <1>1, <2>3 DEF Pools
  <2>5. ASSUME past # "lost"
        PROVE  Dated(r, poolFile) /\ Listing(r, poolFile, found)
    <3>1. Older(redis, poolFile) /\ Dated(q, poolFile)
      BY <2>5 DEF DeletedInv, Deletions
    <3>2. redis.acc = poolFile.acc /\ redis.epoch = poolFile.epoch
      <4>1. redis.stamp \in Nat /\ poolFile.stamp \in Nat
        BY <1>1 DEF PoolFiles
      <4>2. QED
        BY <1>2, <3>1, <4>1 DEF Pool!TakesSnapshot, Older
    <3>3. ASSUME NEW a \in Accounts
          PROVE  /\ r.mem[a] = poolFile.acc[a] /\ r.epoch[a] = poolFile.epoch[a]
                 /\ r.mem[a] # None => r.base[a] # None
                 /\ r.intent[a].createdEpoch \in {0, poolFile.epoch[a]}
                 /\ r.intent[a].deletedEpoch \in {0, poolFile.epoch[a]}
                 /\ poolFile.epoch[a] \in Nat
                 /\ r.intent[a].created => a \in found
      <4>1. /\ q.epoch[a] \in Nat /\ poolFile.epoch[a] \in Nat /\ q.epoch[a] <= poolFile.epoch[a]
            /\ q.base[a] \in Slots /\ redis.acc[a] \in Slots
        BY <1>1, <3>1 DEF Pools, PoolFiles, Dated
      <4>2. epoch[a] = poolFile.epoch[a]
        BY <3>2, <4>1 DEF epoch, Pool!Larger
      <4>3. redis.acc[a] # None => base[a] # None
        BY <4>1, KnownRecord, Imported DEF base
      <4>4. /\ RestoredIntent(q, a).createdEpoch \in {0, redis.epoch[a]}
            /\ RestoredIntent(q, a).deletedEpoch \in {0, redis.epoch[a]}
            /\ RestoredIntent(q, a).created => redis.acc[a] # None
        BY NothingIntended DEF RestoredIntent, Pool!NoIntent
      <4>5. intent[a] = RestoredIntent(q, a)
        BY DEF intent
      <4>6. QED
        BY <1>2, <2>4, <3>2, <4>1, <4>2, <4>3, <4>4, <4>5
    <3>4. Dated(r, poolFile)
      <4>1. ASSUME NEW a \in Accounts
            PROVE  /\ r.epoch[a] <= poolFile.epoch[a] /\ r.intent[a].createdEpoch <= poolFile.epoch[a]
                   /\ r.intent[a].deletedEpoch <= poolFile.epoch[a]
                   /\ r.mem[a] # None => r.base[a] # None
        BY <3>3
      <4>2. QED
        BY <4>1 DEF Dated
    <3>5. Listing(r, poolFile, found)
      BY <3>3 DEF Listing, Creates
    <3>6. QED
      BY <3>4, <3>5
  <2>6. Leaves(p, r, found)
    BY <1>1, <2>1, <2>2, <2>5 DEF Leaves
  <2>7. QED
    BY <2>6, Left
<1>3. CASE ~ Pool!TakesSnapshot
  <2> DEFINE r == [q EXCEPT !.st = "restored"]
  <2>1. poolProc' = [poolProc EXCEPT ![p] = r]
    BY <1>3 DEF Pool!Restore
  <2>2. r \in Pools /\ Alike(q, r)
    BY <1>1 DEF Pools, Alike
  <2> HIDE DEF r
  <2>3. found = listed[p] /\ UNCHANGED listed
    BY <1>1, <1>3
  <2>4. QED
    BY <1>1, <2>1, <2>2, <2>3, LeftAlike
<1>4. QED
  BY <1>2, <1>3

\* Counting creates and deletes nothing.
LEMMA DeletedCount ==
  ASSUME PoolInv, DeletedInv, NEW p \in Procs, NEW a \in Accounts, Pool!Count(p, a)
  PROVE  DeletedInv'
<1> DEFINE q == poolProc[p]
           m == [q.mem[a] EXCEPT !.count = @ + 1]
           r == [q EXCEPT !.mem = [q.mem EXCEPT ![a] = m], !.dirty = TRUE]
<1>1. /\ q.st = "up" /\ q.mem[a] # None /\ q \in Pools
      /\ UNCHANGED <<poolFile, redis, sending, past, listed>>
  BY PoolFacts DEF Pool!Count, Pool!Up, Pool!disk
<1>2. poolProc' = [poolProc EXCEPT ![p] = r]
  BY DEF Pool!Count
<1>3. q.mem \in [Accounts -> Slots] /\ q.mem[a] \in Pool!Records
  BY <1>1 DEF Pools, Slots
<1>4. m \in Pool!Records
  BY <1>3 DEF Pool!Records
<1> HIDE DEF m
<1>5. m \in Slots /\ m # None
  BY <1>4, PoolAssumption DEF Slots
<1>6. r \in Pools /\ Alike(q, r)
  BY <1>1, <1>3, <1>5 DEF Pools, Alike
<1> HIDE DEF r
<1>7. QED
  BY <1>1, <1>2, <1>6, LeftAlike

\* Nor does assigning.
LEMMA DeletedAssign ==
  ASSUME PoolInv, DeletedInv, NEW p \in Procs, NEW a \in Accounts, NEW v \in BOOLEAN, Pool!Assign(p, a, v)
  PROVE  DeletedInv'
<1> DEFINE q == poolProc[p]
           m == [q.mem[a] EXCEPT !.flag = v]
           i == [q.intent[a] EXCEPT !.flag = TRUE]
           r == [q EXCEPT !.mem = [q.mem EXCEPT ![a] = m], !.intent = [q.intent EXCEPT ![a] = i], !.dirty = TRUE]
<1>1. /\ q.st = "up" /\ q.mem[a] # None /\ q \in Pools
      /\ UNCHANGED <<poolFile, redis, sending, past, listed>>
  BY PoolFacts DEF Pool!Assign, Pool!Up, Pool!disk
<1>2. poolProc' = [poolProc EXCEPT ![p] = r]
  BY DEF Pool!Assign
<1>3. /\ q.mem \in [Accounts -> Slots] /\ q.mem[a] \in Pool!Records
      /\ q.intent \in [Accounts -> Intents] /\ q.intent[a] \in Intents
  BY <1>1 DEF Pools, Slots
<1>4. m \in Pool!Records
  BY <1>3 DEF Pool!Records
<1>5. /\ i \in Intents /\ i.created = q.intent[a].created /\ i.createdEpoch = q.intent[a].createdEpoch
      /\ i.deleted = q.intent[a].deleted /\ i.deletedEpoch = q.intent[a].deletedEpoch
  BY <1>3 DEF Intents
<1> HIDE DEF m, i
<1>6. m \in Slots /\ m # None
  BY <1>4, PoolAssumption DEF Slots
<1>7. /\ r \in Pools /\ r.st = "up" /\ r.mem = [q.mem EXCEPT ![a] = m]
      /\ r.intent = [q.intent EXCEPT ![a] = i] /\ r.base = q.base /\ r.epoch = q.epoch
  BY <1>1, <1>3, <1>5, <1>6 DEF Pools
<1> HIDE DEF r, q
<1>8. Alike(q, r)
  BY <1>1, <1>3, <1>5, <1>6, <1>7 DEF Alike
<1>9. QED
  BY <1>1, <1>2, <1>7, <1>8, LeftAlike DEF q

\* A process that ends takes its intents with it.
LEMMA DeletedExit ==
  ASSUME PoolInv, DeletedInv, NEW p \in Procs, Pool!Exit(p)
  PROVE  DeletedInv'
<1>1. /\ poolProc' = [poolProc EXCEPT ![p] = Pool!Off]
      /\ sending' = [sending EXCEPT ![p] = None] /\ listed' = [listed EXCEPT ![p] = {}]
      /\ UNCHANGED <<poolFile, redis, past>>
  BY DEF Pool!Exit, Pool!disk
<1>2. poolFile \in PoolFiles /\ \A a \in Accounts : poolFile.epoch[a] \in Nat
  BY PoolFacts DEF PoolFiles
<1>3. /\ Pool!Off \in Pools /\ Pool!Off.intent = Pool!NoIntents /\ Pool!Off.base = Pool!Off.mem
      /\ \A a \in Accounts : Pool!Off.epoch[a] <= poolFile.epoch[a]
  BY <1>2, OffPool, EmptyFile
<1>4. Dated(Pool!Off, poolFile)
  BY <1>2, <1>3, DatedWithout
<1>5. Leaves(p, Pool!Off, {})
  BY <1>1, <1>3, <1>4, Unintended DEF Leaves
<1>6. QED
  BY <1>5, Left

\* A snapshot delivered is no newer than the file.
LEMMA DeletedDeliver ==
  ASSUME PoolInv, DeletedInv, NEW p \in Procs, Pool!Deliver(p)
  PROVE  DeletedInv'
<1>1. /\ sending[p] # None /\ redis' \in {sending[p], redis} /\ sending' = [sending EXCEPT ![p] = None]
      /\ UNCHANGED <<poolFile, poolProc, past, listed>>
  BY DEF Pool!Deliver, Pool!disk, Pool!history
<1>2. \A o \in Procs : sending'[o] \in {sending[o], None}
  BY <1>1, PoolFacts
<1>3. QED
  BY <1>1, <1>2 DEF DeletedInv, Deletions
-----------------------------------------------------------------------------
(* A save.                                                                  *)

\* A snapshot older than a file is older than the next one.
LEMMA OlderLater ==
  ASSUME NEW s \in PoolFiles, NEW f \in PoolFiles, NEW g \in PoolFiles, Older(s, f),
         g.there, g.stamp = f.stamp + 1, \A a \in Accounts : f.epoch[a] <= g.epoch[a]
  PROVE  Older(s, g)
<1>1. s.stamp \in Nat /\ f.stamp \in Nat /\ \A a \in Accounts : s.epoch[a] \in Nat /\ f.epoch[a] \in Nat /\ g.epoch[a] \in Nat
  BY DEF PoolFiles
<1>2. ASSUME NEW a \in Accounts
      PROVE  s.epoch[a] <= g.epoch[a]
  <2>1. s.epoch[a] <= f.epoch[a] /\ f.epoch[a] <= g.epoch[a]
    BY DEF Older
  <2>2. QED
    BY <1>1, <2>1
<1>3. QED
  BY <1>1, <1>2 DEF Older

\* The pool q that process p saves.
Saving(p, q, found) ==
  /\ q \in Pools /\ found \in SUBSET Accounts
  /\ Coherent(q, assigned[p], borrowed[p])
  /\ past # "lost" => Dated(q, poolFile) /\ Listing(q, poolFile, found)

\* A save starts an epoch for what it deletes: no creation from before counts in it.
LEMMA DeletedSave ==
  ASSUME PoolInv, DeletedInv, NEW p \in Procs, NEW q, NEW st \in {"loaded", "restored", "up"},
         NEW found, Saving(p, q, found), Pool!Save(p, q, st, found), UNCHANGED redis
  PROVE  DeletedInv'
<1> DEFINE f == poolFile
           g == Pool!Merged(q, f)
<1>1. /\ poolProc \in [Procs -> Pools] /\ listed \in [Procs -> SUBSET Accounts]
      /\ sending \in [Procs -> PoolFiles \cup {None}] /\ f \in PoolFiles /\ redis \in PoolFiles
      /\ q \in Pools /\ found \in SUBSET Accounts /\ Coherent(q, assigned[p], borrowed[p])
      /\ past # "lost" => Deletions /\ Dated(q, f) /\ Listing(q, f, found)
  BY DEF PoolInv, PoolTypeOK, DeletedInv, Saving
<1>2. CASE /\ poolProc' = [poolProc EXCEPT ![p] = [Pool!NoteFail(q) EXCEPT !.st = st]]
           /\ listed' = [listed EXCEPT ![p] = found]
           /\ UNCHANGED <<poolFile, sending, past>>
  <2> DEFINE r == [Pool!NoteFail(q) EXCEPT !.st = st]
  <2>1. r \in Pools /\ Alike(q, r)
    BY <1>1 DEF Pool!NoteFail, Pools, Alike
  <2>2. poolProc' = [poolProc EXCEPT ![p] = r]
    BY <1>2
  <2> HIDE DEF r
  <2>3. past # "lost" => Dated(r, f) /\ Listing(r, f, found)
    BY <1>1, <2>1, AlikePools
  <2>4. Leaves(p, r, found)
    BY <1>1, <1>2, <2>1, <2>2, <2>3 DEF Leaves
  <2>5. QED
    BY <2>4, Left
<1>3. CASE /\ poolFile' = g /\ poolProc' = [poolProc EXCEPT ![p] = SavedPool(q, st, g)]
           /\ sending' = [sending EXCEPT ![p] = g]
           /\ listed' = [o \in Procs |-> {a \in (IF o = p THEN found ELSE listed[o]) :
                           g.epoch[a] <= Pool!Larger(f.epoch[a], q.epoch[a])}]
           /\ past' = "lost" <=> past = "lost"
  <2> DEFINE r == SavedPool(q, st, g)
  <2>1. g \in PoolFiles /\ g.there = TRUE /\ g.stamp = f.stamp + 1
    BY SMTT(60), <1>1, MergedFile DEF Pool!Merged
  <2>2. r \in Pools /\ r.mem = q.mem /\ r.base = q.mem /\ r.epoch = g.epoch /\ r.intent = Pool!NoIntents
    <3>1. g.epoch \in [Accounts -> Nat] /\ q.mem \in [Accounts -> Slots]
      BY <1>1, <2>1 DEF PoolFiles, Pools
    <3>2. QED
      BY <1>1, <3>1, NothingIntended DEF SavedPool, Pools
  <2>3. listed' \in [Procs -> SUBSET Accounts]
    BY <1>1, <1>3
  <2>4. poolFile' = g /\ poolProc' = [poolProc EXCEPT ![p] = r] /\ sending' = [sending EXCEPT ![p] = g]
    BY <1>3
  <2>5. ASSUME NEW o \in Procs \ {p}, NEW a \in listed[o], f.epoch[a] \in Nat, q.epoch[a] \in Nat,
               g.epoch[a] = f.epoch[a]
        PROVE  a \in listed'[o]
    <3>1. g.epoch[a] <= Pool!Larger(f.epoch[a], q.epoch[a])
      BY <2>5 DEF Pool!Larger
    <3> HIDE DEF g, f
    <3>2. QED
      BY <1>3, <2>5, <3>1
  <2> HIDE DEF r
  <2>6. ASSUME past # "lost"
        PROVE  Deletions'
    <3>1. /\ Deletions /\ Dated(q, f) /\ Listing(q, f, found)
          /\ ~ f.there => f.acc = Pool!Nobody /\ f.epoch = Pool!NoEpochs
      BY <1>1, <2>6 DEF Deletions
    <3>2. ASSUME NEW a \in Accounts
          PROVE  f.epoch[a] \in Nat /\ g.epoch[a] \in Nat /\ q.epoch[a] \in Nat /\ f.epoch[a] <= g.epoch[a]
      BY <1>1, <3>1, MergedDates
    <3> HIDE DEF g
    <3>3. Older(redis, g)
      BY <1>1, <2>1, <3>1, <3>2, OlderLater DEF Deletions
    <3>4. Older(g, g)
      <4>1. g.stamp \in Nat
        BY <2>1 DEF PoolFiles
      <4>2. QED
        BY <3>2, <4>1 DEF Older
    <3>5. Dated(r, g)
      <4>1. r.base = r.mem /\ \A a \in Accounts : r.epoch[a] <= g.epoch[a]
        BY <2>2, <3>2
      <4>2. QED
        BY <2>1, <2>2, <4>1, DatedWithout
    <3>6. ASSUME NEW o \in Procs \ {p}
          PROVE  /\ Dated(poolProc[o], g) /\ Listing(poolProc[o], g, listed'[o])
                 /\ sending[o] # None => Older(sending[o], g)
      <4>1. /\ Dated(poolProc[o], f) /\ Listing(poolProc[o], f, listed[o])
            /\ sending[o] # None => Older(sending[o], f)
        BY <3>1, <3>6 DEF Deletions
      <4>2. sending[o] # None => Older(sending[o], g)
        BY <1>1, <2>1, <3>2, <4>1, OlderLater
      <4>3. /\ poolProc[o] \in Pools
            /\ \A a \in Accounts : /\ poolProc[o].epoch[a] \in Nat /\ poolProc[o].intent[a].createdEpoch \in Nat
                                   /\ poolProc[o].intent[a].deletedEpoch \in Nat
        BY <1>1 DEF Pools, Intents
      <4>4. Dated(poolProc[o], g)
        <5>1. ASSUME NEW a \in Accounts
              PROVE  /\ poolProc[o].epoch[a] <= g.epoch[a]
                     /\ poolProc[o].intent[a].createdEpoch <= g.epoch[a]
                     /\ poolProc[o].intent[a].deletedEpoch <= g.epoch[a]
          <6>1. /\ poolProc[o].epoch[a] <= f.epoch[a] /\ poolProc[o].intent[a].createdEpoch <= f.epoch[a]
                /\ poolProc[o].intent[a].deletedEpoch <= f.epoch[a]
            BY <4>1 DEF Dated
          <6>2. QED
            BY <3>2, <4>3, <6>1
        <5>2. QED
          BY <4>1, <5>1 DEF Dated
      <4>5. ASSUME NEW a \in Accounts, poolProc[o].mem[a] # None, Creates(poolProc[o], g, a)
            PROVE  a \in listed'[o]
        <5>1. g.epoch[a] = f.epoch[a]
          <6>1. poolProc[o].intent[a].createdEpoch <= f.epoch[a] /\ poolProc[o].intent[a].createdEpoch = g.epoch[a]
            BY <4>1, <4>5 DEF Dated, Creates
          <6>2. QED
            BY <3>2, <6>1
        <5>2. Creates(poolProc[o], f, a)
          BY <4>5, <5>1 DEF Creates
        <5>3. a \in listed[o]
          BY <4>1, <4>5, <5>2 DEF Listing
        <5>4. QED
          BY <2>5, <3>2, <5>1, <5>3 DEF g
      <4>6. QED
        BY <4>2, <4>4, <4>5 DEF Listing
    <3>7. /\ poolProc'[p] = r /\ sending'[p] = g /\ \A o \in Procs \ {p} : /\ poolProc'[o] = poolProc[o]
                                                                          /\ sending'[o] = sending[o]
      BY <1>1, <2>4
    <3>8. \A o \in Procs : /\ Dated(poolProc'[o], g) /\ Listing(poolProc'[o], g, listed'[o])
                           /\ sending'[o] # None => Older(sending'[o], g)
      BY <2>2, <3>4, <3>5, <3>6, <3>7, Unintended
    <3>9. QED
      BY <2>1, <2>4, <3>3, <3>8 DEF Deletions
  <2>7. QED
    BY <1>3, <2>3, <2>6 DEF DeletedInv
<1>4. QED
  BY <1>2, <1>3 DEF Pool!Save, SavedPool

\* A flush creates and deletes only what was intended before.
LEMMA DeletedFlush ==
  ASSUME PoolInv, DeletedInv, NEW p \in Procs, Pool!Flush(p)
  PROVE  DeletedInv'
<1> DEFINE q == [poolProc[p] EXCEPT !.dirty = FALSE]
           st == poolProc[p].st
<1>1. /\ poolProc[p] \in Pools /\ Coherent(poolProc[p], assigned[p], borrowed[p]) /\ st # "off"
      /\ listed[p] \in SUBSET Accounts /\ UNCHANGED redis
  BY PoolFacts DEF Pool!Flush, DeletedInv
<1>2. Pool!Save(p, q, st, listed[p])
  BY DEF Pool!Flush
<1>3. /\ q \in Pools /\ st \in {"loaded", "restored", "up"} /\ q.st = st /\ q.mem = poolProc[p].mem
      /\ q.base = poolProc[p].base /\ q.intent = poolProc[p].intent /\ Alike(poolProc[p], q)
  BY <1>1 DEF Pools, Alike
<1> HIDE DEF q, st
<1>4. Coherent(q, assigned[p], borrowed[p])
  BY <1>1, <1>3 DEF Coherent, st
<1>5. past # "lost" => Dated(q, poolFile) /\ Listing(q, poolFile, listed[p])
  BY <1>3, AlikePools DEF DeletedInv, Deletions
<1>6. Saving(p, q, listed[p])
  BY <1>1, <1>3, <1>4, <1>5 DEF Saving
<1>7. QED
  BY <1>1, <1>2, <1>3, <1>6, DeletedSave

\* What SyncToDir makes of a pool, before and after it drops accounts: nothing
\* it creates that is listed in the directory is newer than the file.
LEMMA SyncedPool ==
  ASSUME PoolInv, DeletedInv, NEW p \in Procs, poolProc[p].st = "restored", past # "lost"
  PROVE  LET u == Pool!Upserted(poolProc[p])
             d == Pool!Dropped(u)
         IN  /\ Dated(u, poolFile) /\ Dated(d, poolFile)
             /\ \A a \in Accounts : d.mem[a] # None => a \in dir
<1> DEFINE q == poolProc[p]
           f == poolFile
           u == Pool!Upserted(q)
           d == Pool!Dropped(u)
           umem == [a \in Accounts |-> IF a \in dir THEN Pool!Known(q.mem[a]) ELSE q.mem[a]]
           ubase == [a \in Accounts |-> IF a \in dir /\ q.mem[a] = None THEN Pool!Zero ELSE q.base[a]]
           uintent == [a \in Accounts |-> UpsertedIntent(q, a)]
           dmem == [a \in Accounts |-> IF a \in dir THEN u.mem[a] ELSE None]
           dintent == [a \in Accounts |-> DroppedIntent(u, a)]
<1>1. /\ q \in Pools /\ f \in PoolFiles /\ Coherent(q, assigned[p], borrowed[p]) /\ Dated(q, f)
  BY PoolFacts DEF DeletedInv, Deletions
<1>2. u \in Pools
  BY <1>1, UpsertedPool
<1>3. u = [q EXCEPT !.mem = umem, !.base = ubase, !.intent = uintent]
  BY DEF Pool!Upserted, UpsertedIntent
<1>4. u.mem = umem /\ u.base = ubase /\ u.intent = uintent /\ u.epoch = q.epoch
  <2> HIDE DEF u, umem, ubase, uintent
  <2>1. QED
    BY <1>1, <1>3 DEF Pools
<1> HIDE DEF u
<1>5. d = [u EXCEPT !.mem = dmem, !.intent = dintent]
  BY DEF Pool!Dropped, DroppedIntent
<1>6. d.mem = dmem /\ d.base = u.base /\ d.intent = dintent /\ d.epoch = u.epoch
  <2> HIDE DEF d, dmem, dintent
  <2>1. QED
    BY <1>2, <1>5 DEF Pools
<1> HIDE DEF d
<1>7. ASSUME NEW a \in Accounts
      PROVE  /\ u.epoch[a] <= f.epoch[a]
             /\ u.mem[a] # None => u.base[a] # None
             /\ u.intent[a].createdEpoch <= f.epoch[a] /\ u.intent[a].deletedEpoch <= f.epoch[a]
  <2> DEFINE newest == IF f.there THEN Pool!Larger(q.epoch[a], f.epoch[a]) ELSE q.epoch[a]
             i == q.intent[a]
  <2>1. /\ q.epoch[a] \in Nat /\ f.epoch[a] \in Nat /\ i \in Intents /\ q.mem[a] \in Slots
        /\ q.epoch[a] <= f.epoch[a] /\ i.createdEpoch <= f.epoch[a] /\ i.deletedEpoch <= f.epoch[a]
        /\ q.mem[a] # None => q.base[a] # None
    BY <1>1 DEF Pools, PoolFiles, Dated
  <2>2. newest <= f.epoch[a]
    BY <2>1 DEF Pool!Larger
  <2>3. u.intent[a] = (IF a \in dir /\ (q.mem[a] = None \/ f.acc[a] = None \/ newest # q.epoch[a])
                       THEN [i EXCEPT !.created = TRUE, !.deleted = FALSE, !.createdEpoch = newest]
                       ELSE i)
    BY <1>4 DEF UpsertedIntent
  <2> HIDE DEF newest, i
  <2>4. u.intent[a].createdEpoch <= f.epoch[a] /\ u.intent[a].deletedEpoch <= f.epoch[a]
    BY <2>1, <2>2, <2>3 DEF Intents
  <2>5. u.mem[a] # None => u.base[a] # None
    BY <1>4, <2>1, ZeroRecord, KnownRecord
  <2>6. QED
    BY <1>4, <2>1, <2>4, <2>5
<1>8. ASSUME NEW a \in Accounts
      PROVE  /\ d.epoch[a] = u.epoch[a] /\ d.base[a] = u.base[a] /\ d.mem[a] \in {u.mem[a], None}
             /\ d.mem[a] # None => a \in dir
             /\ d.intent[a].createdEpoch = u.intent[a].createdEpoch
             /\ d.intent[a].deletedEpoch \in {0, u.intent[a].deletedEpoch}
  <2>1. u.intent[a] \in Intents
    BY <1>2 DEF Pools
  <2>2. d.intent[a] = DroppedIntent(u, a) /\ d.mem[a] = (IF a \in dir THEN u.mem[a] ELSE None)
    BY <1>6
  <2>3. QED
    BY <1>6, <2>1, <2>2 DEF DroppedIntent, Intents
<1>9. Dated(u, f)
  BY <1>7 DEF Dated
<1>10. Dated(d, f)
  <2>1. ASSUME NEW a \in Accounts
        PROVE  d.intent[a].deletedEpoch <= f.epoch[a]
    <3>1. f.epoch[a] \in Nat
      BY <1>1 DEF PoolFiles
    <3>2. QED
      BY <1>7, <1>8, <3>1
  <2>2. QED
    BY <1>7, <1>8, <2>1 DEF Dated
<1>11. QED
  BY <1>8, <1>9, <1>10 DEF u, d

\* Following the directory creates only accounts listed in it.
LEMMA DeletedSync ==
  ASSUME PoolInv, DeletedInv, NEW p \in Procs, Pool!SyncToDir(p)
  PROVE  DeletedInv'
<1> DEFINE u == Pool!Upserted(poolProc[p])
           d == Pool!Dropped(u)
<1>1. /\ poolProc[p].st = "restored" /\ poolProc[p] \in Pools /\ poolFile \in PoolFiles
      /\ Coherent(poolProc[p], assigned[p], borrowed[p])
      /\ dir \in SUBSET Accounts /\ UNCHANGED redis
  BY PoolFacts DEF Pool!SyncToDir, PoolTypeOK
<1>2. u \in Pools /\ u.st = "restored" /\ Coherent(u, assigned[p], borrowed[p])
  BY <1>1, UpsertedPool
<1>3. IF \E a \in Accounts \ dir : u.mem[a] # None
      THEN Pool!Save(p, d, "up", dir)
      ELSE /\ poolProc' = [poolProc EXCEPT ![p] = [u EXCEPT !.st = "up"]]
           /\ listed' = [listed EXCEPT ![p] = dir]
           /\ UNCHANGED <<poolFile, sending, past>>
  BY DEF Pool!SyncToDir
<1>4. past # "lost" =>
        /\ Dated(u, poolFile) /\ Dated(d, poolFile)
        /\ \A a \in Accounts : d.mem[a] # None => a \in dir
  BY <1>1, SyncedPool
<1> HIDE DEF u
<1>5. d \in Pools /\ Coherent(d, assigned[p], borrowed[p])
  BY <1>1, <1>2, DroppedPool
<1> HIDE DEF d
<1>6. CASE \E a \in Accounts \ dir : u.mem[a] # None
  <2>1. past # "lost" => Listing(d, poolFile, dir)
    BY <1>4 DEF Listing
  <2>2. Saving(p, d, dir)
    BY <1>1, <1>4, <1>5, <2>1 DEF Saving
  <2>3. QED
    BY <1>1, <1>3, <1>6, <2>2, DeletedSave
<1>7. CASE ~ \E a \in Accounts \ dir : u.mem[a] # None
  <2> DEFINE r == [u EXCEPT !.st = "up"]
  <2>1. /\ r \in Pools /\ r.mem = u.mem /\ r.base = u.base /\ r.intent = u.intent /\ r.epoch = u.epoch
    BY <1>2 DEF Pools
  <2>2. /\ poolProc' = [poolProc EXCEPT ![p] = r] /\ listed' = [listed EXCEPT ![p] = dir]
        /\ UNCHANGED <<poolFile, sending, past>>
    BY <1>3, <1>7
  <2> HIDE DEF r
  <2>3. past # "lost" => Dated(r, poolFile)
    BY <1>4, <2>1 DEF Dated
  <2>4. Listing(r, poolFile, dir)
    BY <1>7, <2>1 DEF Listing
  <2>5. Leaves(p, r, dir)
    BY <1>1, <2>1, <2>2, <2>3, <2>4 DEF Leaves
  <2>6. QED
    BY <2>5, Left
<1>8. QED
  BY <1>6, <1>7

\* Every step of the pool's persistence keeps the deletions.
LEMMA DeletedStep ==
  ASSUME PoolInv, DeletedInv, [Pool!Next]_(Pool!vars)
  PROVE  DeletedInv'
<1>1. ASSUME NEW p \in Procs, Pool!Load(p) \/ Pool!Restore(p) \/ Pool!SyncToDir(p) \/ Pool!Flush(p)
                              \/ Pool!Exit(p) \/ Pool!Deliver(p)
      PROVE  DeletedInv'
  BY <1>1, DeletedLoad, DeletedRestore, DeletedSync, DeletedFlush, DeletedExit, DeletedDeliver
<1>2. ASSUME NEW p \in Procs, NEW a \in Accounts, Pool!Count(p, a) \/ \E v \in BOOLEAN : Pool!Assign(p, a, v)
      PROVE  DeletedInv'
  BY <1>2, DeletedCount, DeletedAssign
<1>3. CASE (\E a \in Accounts : Pool!ChangeDir(a)) \/ UNCHANGED Pool!vars
  <2>1. UNCHANGED <<poolFile, redis, sending, poolProc, past, listed>>
    BY <1>3 DEF Pool!ChangeDir, Pool!history, Pool!vars
  <2>2. QED
    BY <2>1 DEF DeletedInv, Deletions
<1>4. CASE Pool!LoseFile
  BY <1>4 DEF Pool!LoseFile, DeletedInv
<1>5. QED
  BY <1>1, <1>2, <1>3, <1>4 DEF Pool!Next

(* However many processes share the file, and whatever snapshot one that    *)
(* starts restores: an account that is not in the file enters it only in    *)
(* the save of a process that has found it, in the credentials directory or *)
(* in a snapshot as new as the file, since a deletion of it last started an *)
(* epoch.  A creation of an older epoch does not survive the merge.         *)
THEOREM PoolStaysDeleted == StoresSpec => NoResurrection
<1> DEFINE Found == \A p \in Procs, a \in Accounts :
      past # "lost" /\ Pool!Saves(p) /\ poolFile.acc[a] = None /\ poolFile'.acc[a] # None => a \in listed'[p]
<1>1. ASSUME PoolInv, DeletedInv, Pool!Next
      PROVE  Found
  <2> SUFFICES ASSUME NEW p \in Procs, NEW a \in Accounts, past # "lost", Pool!Saves(p),
                      poolFile.acc[a] = None, poolFile'.acc[a] # None
               PROVE  a \in listed'[p]
    OBVIOUS
  <2>1. /\ poolFile \in PoolFiles /\ poolProc[p] \in Pools /\ poolProc \in [Procs -> Pools]
        /\ Coherent(poolProc[p], assigned[p], borrowed[p])
        /\ poolFile' # poolFile /\ poolFile.there /\ poolFile'.there /\ poolProc'[p] # poolProc[p]
        /\ Deletions /\ Dated(poolProc[p], poolFile) /\ Listing(poolProc[p], poolFile, listed[p])
    BY <1>1, PoolFacts DEF PoolTypeOK, Pool!Saves, DeletedInv, Deletions
  <2>2. ASSUME NEW q \in Pools, NEW st, NEW found, Pool!Save(p, q, st, found),
               Coherent(q, assigned[p], borrowed[p]), Dated(q, poolFile), Listing(q, poolFile, found)
        PROVE  a \in listed'[p]
    <3>1. /\ poolFile' = Pool!Merged(q, poolFile)
          /\ listed'[p] = {b \in found : poolFile'.epoch[b] <= Pool!Larger(poolFile.epoch[b], q.epoch[b])}
      BY <2>1, <2>2 DEF Pool!Save
    <3>2. /\ q.mem[a] # None /\ Creates(q, poolFile, a)
          /\ poolFile.epoch[a] \in Nat /\ q.epoch[a] \in Nat /\ poolFile'.epoch[a] = poolFile.epoch[a]
      BY <2>1, <2>2, <3>1, MergedDates DEF Deletions
    <3>3. a \in found /\ poolFile'.epoch[a] <= Pool!Larger(poolFile.epoch[a], q.epoch[a])
      BY <2>2, <3>2 DEF Listing, Pool!Larger
    <3>4. QED
      BY <3>1, <3>3
  <2>3. CASE Pool!SyncToDir(p)
    <3> DEFINE u == Pool!Upserted(poolProc[p])
               d == Pool!Dropped(u)
    <3>1. /\ poolProc[p].st = "restored" /\ Pool!Save(p, d, "up", dir)
      BY <2>1, <2>3 DEF Pool!SyncToDir
    <3>2. u \in Pools /\ u.st = "restored" /\ Coherent(u, assigned[p], borrowed[p])
      BY <2>1, <3>1, UpsertedPool
    <3>3. Dated(d, poolFile) /\ \A b \in Accounts : d.mem[b] # None => b \in dir
      BY <1>1, <3>1, SyncedPool
    <3> HIDE DEF u
    <3>4. d \in Pools /\ Coherent(d, assigned[p], borrowed[p])
      BY <2>1, <3>2, DroppedPool
    <3> HIDE DEF d
    <3>5. Listing(d, poolFile, dir)
      BY <3>3 DEF Listing
    <3>6. QED
      BY <2>2, <3>1, <3>3, <3>4, <3>5
  <2>4. CASE Pool!Flush(p)
    <3> DEFINE q == [poolProc[p] EXCEPT !.dirty = FALSE]
    <3>1. Pool!Save(p, q, poolProc[p].st, listed[p])
      BY <2>4 DEF Pool!Flush
    <3>2. /\ q \in Pools /\ q.st = poolProc[p].st /\ q.mem = poolProc[p].mem /\ q.base = poolProc[p].base
          /\ q.intent = poolProc[p].intent /\ Alike(poolProc[p], q)
      BY <2>1 DEF Pools, Alike
    <3> HIDE DEF q
    <3>3. Coherent(q, assigned[p], borrowed[p])
      BY <2>1, <3>2 DEF Coherent
    <3>4. Dated(q, poolFile) /\ Listing(q, poolFile, listed[p])
      BY <2>1, <3>2, AlikePools
    <3>5. QED
      BY <2>2, <3>1, <3>2, <3>3, <3>4
  <2>5. ASSUME NEW o \in Procs, Pool!SyncToDir(o) \/ Pool!Flush(o)
        PROVE  o = p
    <3>1. \E q, st, found : Pool!Save(o, q, st, found)
      BY <2>1, <2>5 DEF Pool!SyncToDir, Pool!Flush
    <3>2. \E r : poolProc' = [poolProc EXCEPT ![o] = r]
      BY <3>1 DEF Pool!Save
    <3>3. QED
      BY <2>1, <3>2
  <2>6. ASSUME NEW o \in Procs, Pool!Load(o) \/ Pool!Restore(o) \/ Pool!Exit(o) \/ Pool!Deliver(o)
                                \/ \E b \in Accounts : Pool!Count(o, b) \/ \E v \in BOOLEAN : Pool!Assign(o, b, v)
        PROVE  poolFile' = poolFile
    BY <2>6 DEF Pool!Load, Pool!Restore, Pool!Exit, Pool!Deliver, Pool!Count, Pool!Assign, Pool!disk
  <2>7. ASSUME NEW b \in Accounts, Pool!ChangeDir(b)
        PROVE  poolFile' = poolFile
    BY <2>7 DEF Pool!ChangeDir
  <2>8. ~ Pool!LoseFile
    BY <2>1, EmptyFile DEF Pool!LoseFile, PoolFiles
  <2>9. \E o \in Procs : Pool!SyncToDir(o) \/ Pool!Flush(o)
    BY <1>1, <2>1, <2>6, <2>7, <2>8 DEF Pool!Next
  <2>10. QED
    BY <2>3, <2>4, <2>5, <2>9
<1>2. PoolInv /\ DeletedInv /\ [Pool!Next]_(Pool!vars) => [Found]_(Pool!vars)
  BY <1>1
<1> HIDE DEF Found
<1>3. PoolInv /\ DeletedInv /\ [Pool!Next]_(Pool!vars) => DeletedInv'
  BY DeletedStep
<1>4. Pool!Spec => [][Found]_(Pool!vars)
  BY <1>2, <1>3, DeletedInit, PoolInductive, PTL DEF Pool!Spec
<1>5. QED
  BY <1>4, EachStore, PTL DEF NoResurrection, Pool!NoResurrection, Found
=============================================================================
