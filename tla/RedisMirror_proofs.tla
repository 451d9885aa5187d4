------------------------- MODULE RedisMirror_proofs -------------------------
(***************************************************************************)
(* The writes of the Redis mirror, for any keys, values, number of slots   *)
(* and of submissions: the bookkeeping of chains and slots, the order of   *)
(* the writes of one key, and that goroutines, channels and slots          *)
(* implement the queue per key that MirrorQueue promises.                  *)
(***************************************************************************)
EXTENDS RedisMirror, SequenceTheorems, FiniteSetTheorems, TLAPS

-----------------------------------------------------------------------------
(* The log of writes.                                                      *)

\* A step of a write leaves the others, and its own key, value and chain.
LEMMA StepOfWrite ==
  ASSUME TypeOK, NEW i \in DOMAIN task, NEW t, NEW s \in {"run", "written", "done"},
         Moves(i, t, s)
  PROVE  /\ task' \in Seq(Writes) /\ Len(task') = Len(task) /\ DOMAIN task' = DOMAIN task
         /\ DOMAIN task = 1..Len(task)
         /\ \A j \in DOMAIN task :
              /\ task'[j].key = task[j].key /\ task'[j].val = task[j].val
              /\ task'[j].prev = task[j].prev
              /\ task'[j].st = IF j = i THEN s ELSE task[j].st
         /\ task[i].st = t
<1>1. task \in Seq(Writes) /\ i \in 1..Len(task)
  BY DEF TypeOK
<1>2. [task[i] EXCEPT !.st = s] \in Writes
  <2>1. task[i] \in Writes
    BY <1>1, ElementOfSeq
  <2>2. QED
    BY <2>1 DEF Writes
<1>3. task' = [task EXCEPT ![i] = [task[i] EXCEPT !.st = s]]
  BY Zenon DEF Moves
<1>4. task' \in Seq(Writes) /\ Len(task') = Len(task)
  BY <1>1, <1>2, <1>3, ExceptSeq
<1>5. DOMAIN task = 1..Len(task) /\ DOMAIN task' = 1..Len(task')
  BY <1>1, <1>4
<1>6. \A j \in DOMAIN task : task[j] \in Writes
  BY <1>1, <1>5, ElementOfSeq
<1>7. ASSUME NEW j \in DOMAIN task
      PROVE  /\ task'[j].key = task[j].key /\ task'[j].val = task[j].val
             /\ task'[j].prev = task[j].prev
             /\ task'[j].st = IF j = i THEN s ELSE task[j].st
  BY <1>3, <1>6 DEF Writes
<1>8. task[i].st = t
  BY DEF Moves
<1>9. QED
  BY <1>4, <1>5, <1>7, <1>8

\* A submission adds one write at the end.
LEMMA SubmittedWrite ==
  ASSUME TypeOK, NEW w \in Writes, task' = Append(task, w)
  PROVE  /\ task' \in Seq(Writes) /\ Len(task') = Len(task) + 1
         /\ DOMAIN task' = DOMAIN task \cup {Len(task) + 1}
         /\ \A j \in DOMAIN task : task'[j] = task[j]
         /\ task'[Len(task) + 1] = w
<1>1. task \in Seq(Writes) /\ Len(task) \in Nat
  BY DEF TypeOK
<1>2. task' \in Seq(Writes) /\ Len(task') = Len(task) + 1
  BY <1>1
<1>3. DOMAIN task = 1..Len(task) /\ DOMAIN task' = 1..(Len(task) + 1)
  BY <1>1, <1>2
<1>4. QED
  BY <1>1, <1>2, <1>3

-----------------------------------------------------------------------------
(* Type correctness.                                                       *)

\* The types hold at first.
LEMMA TypeInit == Init => TypeOK
BY BoundAssumption, EmptySeq DEF Init, TypeOK, Values

\* A step of a goroutine keeps them.
LEMMA TypeGoroutine ==
  ASSUME TypeOK, NEW i \in DOMAIN task, Goroutine(i)
  PROVE  TypeOK'
<1>1. PICK t \in {"wait", "run", "written"}, s \in {"run", "written", "done"} : Moves(i, t, s)
  BY DEF Goroutine, EnterSlot, Call, Finish
<1>2. task' \in Seq(Writes) /\ Len(task') = Len(task)
  BY <1>1, StepOfWrite
<1>3. task[i] \in Writes
  BY ElementOfSeq DEF TypeOK
<1>4. tails' \in [Keys -> 0..MaxWrites]
  BY <1>3, BoundAssumption DEF TypeOK, Goroutine, EnterSlot, Call, Finish, Writes
<1>5. mirror' \in [Keys -> Values]
  BY <1>3 DEF TypeOK, Goroutine, EnterSlot, Call, Finish, Writes
<1>6. store' = store
  BY DEF Goroutine, EnterSlot, Call, Finish
<1>7. QED
  BY <1>2, <1>4, <1>5, <1>6 DEF TypeOK

\* A write submitted keeps them.
LEMMA TypeSubmit ==
  ASSUME TypeOK, NEW k \in Keys, NEW v \in Values, Submit(k, v)
  PROVE  TypeOK'
<1>1. CASE store # "open"
  BY <1>1 DEF Submit, GoWriteKey, TypeOK
<1>2. CASE store = "open"
  <2>1. [key |-> k, val |-> v, prev |-> tails[k], st |-> "wait"] \in Writes
    BY DEF TypeOK, Writes
  <2>2. task' \in Seq(Writes) /\ Len(task') = Len(task) + 1
    BY <1>2, <2>1, SubmittedWrite DEF Submit, GoWriteKey
  <2>3. Len(task) \in Nat /\ Len(task) < MaxWrites
    BY DEF Submit, TypeOK
  <2>4. tails' \in [Keys -> 0..MaxWrites]
    BY <1>2, <2>3, BoundAssumption DEF TypeOK, Submit, GoWriteKey
  <2>5. QED
    BY <2>2, <2>3, <2>4, BoundAssumption DEF TypeOK, Submit
<1>3. QED
  BY <1>1, <1>2

\* Every step keeps them.
LEMMA TypeStep == TypeOK /\ [Next]_vars => TypeOK'
<1> SUFFICES ASSUME TypeOK, [Next]_vars
             PROVE  TypeOK'
  OBVIOUS
<1>1. ASSUME NEW k \in Keys, NEW v \in Values, Submit(k, v)
      PROVE  TypeOK'
  BY <1>1, TypeSubmit
<1>2. ASSUME NEW i \in DOMAIN task, Goroutine(i)
      PROVE  TypeOK'
  BY <1>2, TypeGoroutine
<1>3. CASE CloseStore \/ CloseClient \/ CloseGivesUp
  BY <1>3 DEF TypeOK, CloseStore, CloseClient, CloseGivesUp
<1>4. ASSUME NEW k \in Keys, Lapse(k)
      PROVE  TypeOK'
  BY <1>4 DEF TypeOK, Lapse, Values
<1>5. CASE Restart
  BY <1>5, BoundAssumption, EmptySeq DEF TypeOK, Restart
<1>6. CASE UNCHANGED vars
  BY <1>6 DEF TypeOK, vars
<1>7. QED
  BY <1>1, <1>2, <1>3, <1>4, <1>5, <1>6 DEF Next

-----------------------------------------------------------------------------
(* The inductive invariant.  A write is chained to the latest unfinished   *)
(* write of its key at its submission, so whatever lies between the two is *)
(* done; hence a write that has left the wait has no unfinished            *)
(* predecessor of its key, although it waits for one of them only.         *)

Links ==
  \A j \in DOMAIN task :
    /\ task[j].prev < j
    /\ task[j].prev # 0 => task[task[j].prev].key = task[j].key
    /\ \A i \in DOMAIN task :
         task[j].prev < i /\ i < j /\ task[i].key = task[j].key => task[i].st = "done"

Ordered ==
  \A i, j \in DOMAIN task :
    i < j /\ task[i].key = task[j].key /\ task[j].st # "wait" => task[i].st = "done"

IInv == TypeOK /\ NewestIsTail /\ Cardinality(Running) <= Slots /\ Links /\ Ordered

\* The invariant of the bookkeeping holds at first.
LEMMA IInvInit == Init => IInv
<1> SUFFICES ASSUME Init PROVE IInv
  OBVIOUS
<1>1. TypeOK
  BY TypeInit
<1>2. DOMAIN task = {}
  BY DEF Init
<1>3. Running = {}
  BY <1>2 DEF Running
<1>4. Cardinality(Running) <= Slots
  BY <1>3, FS_EmptySet, SlotsAssumption
<1>5. QED
  BY <1>1, <1>2, <1>4 DEF Init, IInv, NewestIsTail, Links, Ordered

\* The writes that hold a slot are finitely many.
LEMMA RunningFinite == TypeOK => IsFiniteSet(Running) /\ Cardinality(Running) \in Nat
<1> SUFFICES ASSUME TypeOK PROVE IsFiniteSet(Running) /\ Cardinality(Running) \in Nat
  OBVIOUS
<1>1. Len(task) \in Nat /\ DOMAIN task = 1..Len(task)
  BY DEF TypeOK
<1>2. Running \subseteq 1..Len(task)
  BY <1>1 DEF Running
<1>3. IsFiniteSet(1..Len(task))
  BY <1>1, FS_Interval
<1>4. IsFiniteSet(Running)
  BY <1>2, <1>3, FS_Subset
<1>5. QED
  BY <1>4, FS_CardinalityType

\* No more writes than slots: a write enters when a slot is free, and the
\* writes of an ended process hold none.
LEMMA SlotsStep ==
  ASSUME TypeOK, Cardinality(Running) <= Slots, [Next]_vars
  PROVE  (Cardinality(Running) <= Slots)'
<1>0. IsFiniteSet(Running) /\ Cardinality(Running) \in Nat /\ Slots \in Nat
  BY RunningFinite, SlotsAssumption
<1>1. ASSUME NEW i \in DOMAIN task, EnterSlot(i)
      PROVE  (Cardinality(Running) <= Slots)'
  <2>1. Running' = Running \cup {i}
    BY <1>1, StepOfWrite DEF EnterSlot, Running
  <2>2. i \notin Running /\ Cardinality(Running) < Slots
    BY <1>1, StepOfWrite DEF EnterSlot, Running
  <2>3. QED
    BY <1>0, <2>1, <2>2, FS_AddElement
<1>2. ASSUME NEW i \in DOMAIN task, Call(i)
      PROVE  (Cardinality(Running) <= Slots)'
  <2>1. Running' = Running
    BY <1>2, StepOfWrite DEF Call, Running
  <2>2. QED
    BY <2>1
<1>3. ASSUME NEW i \in DOMAIN task, Finish(i)
      PROVE  (Cardinality(Running) <= Slots)'
  <2>1. Running' = Running \ {i}
    BY <1>3, StepOfWrite DEF Finish, Running
  <2>2. QED
    BY <1>0, <2>1, FS_RemoveElement
<1>4. ASSUME NEW k \in Keys, NEW v \in Values, Submit(k, v)
      PROVE  (Cardinality(Running) <= Slots)'
  <2>1. CASE task' = task
    BY <2>1 DEF Running
  <2>2. CASE store = "open"
    <3>1. [key |-> k, val |-> v, prev |-> tails[k], st |-> "wait"] \in Writes
      BY DEF TypeOK, Writes
    <3>2. Running' = Running
      BY <1>4, <2>2, <3>1, SubmittedWrite DEF Submit, GoWriteKey, Running
    <3>3. QED
      BY <3>2
  <2>3. QED
    BY <1>4, <2>1, <2>2 DEF Submit, GoWriteKey
<1>5. CASE Restart
  <2>1. Running' = {}
    BY <1>5 DEF Restart, Running
  <2>2. QED
    BY <1>0, <2>1, FS_EmptySet
<1>6. CASE task' = task
  BY <1>6 DEF Running
<1>7. QED
  BY <1>1, <1>2, <1>3, <1>4, <1>5, <1>6
     DEF Next, vars, Goroutine, CloseStore, CloseClient, CloseGivesUp, Lapse

\* What the rest of IInv says of the log and its tails.
Threads ==
  /\ \A k \in Keys : tails[k] = 0 =>
       \A i \in DOMAIN task : task[i].key = k => task[i].st = "done"
  /\ \A k \in Keys : tails[k] # 0 =>
       /\ tails[k] \in DOMAIN task /\ task[tails[k]].key = k /\ task[tails[k]].st # "done"
       /\ \A i \in DOMAIN task : task[i].key = k /\ task[i].st # "done" => i <= tails[k]
  /\ Links
  /\ Ordered

\* The invariant, goroutine by goroutine.
LEMMA ThreadsOfIInv == IInv <=> TypeOK /\ Cardinality(Running) <= Slots /\ Threads
BY DEF IInv, Threads, NewestIsTail

\* A write submitted becomes the tail of its key.
LEMMA ThreadsSubmit ==
  ASSUME TypeOK, Threads, NEW k \in Keys, NEW v \in Values, Submit(k, v)
  PROVE  Threads'
<1>1. CASE store # "open"
  BY <1>1 DEF Submit, GoWriteKey, Threads, Links, Ordered
<1>2. CASE store = "open"
  <2> DEFINE m == Len(task) + 1
             w == [key |-> k, val |-> v, prev |-> tails[k], st |-> "wait"]
  <2>1. w \in Writes
    BY DEF TypeOK, Writes
  <2>2. task' = Append(task, w) /\ tails' = [tails EXCEPT ![k] = m]
    BY <1>2 DEF Submit, GoWriteKey
  <2>3. /\ DOMAIN task' = DOMAIN task \cup {m}
        /\ \A j \in DOMAIN task : task'[j] = task[j]
        /\ task'[m] = w
    BY <2>1, <2>2, SubmittedWrite
  <2>4. DOMAIN task = 1..Len(task) /\ Len(task) \in Nat /\ m \notin DOMAIN task
    BY DEF TypeOK
  <2>5. /\ w.key = k /\ w.st = "wait" /\ w.prev = tails[k]
        /\ tails'[k] = m /\ \A l \in Keys \ {k} : tails'[l] = tails[l]
    BY <2>2 DEF TypeOK
  <2> HIDE DEF w
  <2>6. \A l \in Keys : tails'[l] = 0 =>
          \A i \in DOMAIN task' : task'[i].key = l => task'[i].st = "done"
    BY <2>3, <2>4, <2>5 DEF Threads
  <2>7. \A l \in Keys : tails'[l] # 0 =>
          /\ tails'[l] \in DOMAIN task' /\ task'[tails'[l]].key = l
          /\ task'[tails'[l]].st # "done"
          /\ \A i \in DOMAIN task' :
               task'[i].key = l /\ task'[i].st # "done" => i <= tails'[l]
    BY <2>3, <2>4, <2>5 DEF Threads
  <2>8. Links'
    <3> SUFFICES ASSUME NEW j \in DOMAIN task'
                 PROVE  /\ task'[j].prev < j
                        /\ task'[j].prev # 0 => task'[task'[j].prev].key = task'[j].key
                        /\ \A i \in DOMAIN task' :
                             task'[j].prev < i /\ i < j /\ task'[i].key = task'[j].key
                               => task'[i].st = "done"
      BY DEF Links
    <3>1. CASE j = m
      <4>1. tails[k] \in 0..MaxWrites
        BY DEF TypeOK
      <4>2. QED
        BY <2>3, <2>4, <2>5, <3>1, <4>1, BoundAssumption DEF Threads
    <3>2. CASE j \in DOMAIN task
      <4>1. task[j] \in Writes
        BY <2>4, <3>2, ElementOfSeq DEF TypeOK
      <4>2. task[j].prev \in Nat
        BY <4>1, BoundAssumption DEF Writes
      <4>3. QED
        BY <2>3, <2>4, <3>2, <4>2 DEF Threads, Links
    <3>3. QED
      BY <2>3, <3>1, <3>2
  <2>9. Ordered'
    BY <2>3, <2>4, <2>5 DEF Threads, Ordered
  <2>10. QED
    BY <2>6, <2>7, <2>8, <2>9 DEF Threads
<1>3. QED
  BY <1>1, <1>2

\* The predecessor a write waits for is done, and so is what lies between the
\* two; what lies before the predecessor is done because that one has run.
LEMMA ThreadsEnter ==
  ASSUME TypeOK, Threads, NEW i \in DOMAIN task, EnterSlot(i)
  PROVE  \A j \in DOMAIN task : j < i /\ task[j].key = task[i].key => task[j].st = "done"
<1>1. task[i] \in Writes /\ DOMAIN task = 1..Len(task) /\ Len(task) \in Nat
  BY ElementOfSeq DEF TypeOK
<1>2. task[i].prev \in Nat
  BY <1>1, BoundAssumption DEF Writes
<1>3. CASE task[i].prev = 0
  BY <1>1, <1>2, <1>3 DEF Threads, Links
<1>4. CASE task[i].prev # 0
  <2>1. /\ task[i].prev \in DOMAIN task /\ task[task[i].prev].st = "done"
        /\ task[task[i].prev].key = task[i].key
    BY <1>4 DEF EnterSlot, Completed, Threads, Links
  <2>2. ASSUME NEW j \in DOMAIN task, j < i, task[j].key = task[i].key
        PROVE  task[j].st = "done"
    <3>1. CASE j < task[i].prev
      BY <2>1, <2>2, <3>1 DEF Threads, Ordered
    <3>2. CASE j = task[i].prev
      BY <2>1, <3>2
    <3>3. CASE j > task[i].prev
      BY <2>2, <3>3 DEF Threads, Links
    <3>4. QED
      BY <1>1, <1>2, <3>1, <3>2, <3>3
  <2>3. QED
    BY <2>2
<1>5. QED
  BY <1>3, <1>4

\* A goroutine waits, runs or ends, and frees the next one.
LEMMA ThreadsGoroutine ==
  ASSUME TypeOK, Threads, NEW i \in DOMAIN task, Goroutine(i)
  PROVE  Threads'
<1>1. PICK t \in {"wait", "run", "written"}, s \in {"run", "written", "done"} :
        Moves(i, t, s) /\ (s = "done" => Finish(i)) /\ (s # "done" => tails' = tails)
                      /\ (t = "wait" => EnterSlot(i))
  BY DEF Goroutine, EnterSlot, Call, Finish
<1>2. /\ DOMAIN task' = DOMAIN task /\ DOMAIN task = 1..Len(task) /\ task[i].st = t
      /\ \A j \in DOMAIN task :
           /\ task'[j].key = task[j].key /\ task'[j].prev = task[j].prev
           /\ task'[j].st = IF j = i THEN s ELSE task[j].st
  BY <1>1, StepOfWrite
<1>3. \A j \in DOMAIN task : task[j] \in Writes
  BY <1>2, ElementOfSeq DEF TypeOK
<1>4. \A j \in DOMAIN task : task[j].prev \in Nat /\ task[j].key \in Keys
  BY <1>3, BoundAssumption DEF Writes
<1>5. \A j \in DOMAIN task : j < i /\ task[j].key = task[i].key => task[j].st = "done"
  <2>1. CASE t = "wait"
    BY <1>1, <2>1, ThreadsEnter
  <2>2. CASE t # "wait"
    BY <1>2, <2>2 DEF Threads, Ordered
  <2>3. QED
    BY <2>1, <2>2
<1>6. Len(task) \in Nat
  BY DEF TypeOK
<1>7. Ordered'
  BY <1>2, <1>5, <1>6 DEF Ordered, Threads
<1>8. Links'
  <2> SUFFICES ASSUME NEW j \in DOMAIN task
               PROVE  /\ task'[j].prev < j
                      /\ task'[j].prev # 0 => task'[task'[j].prev].key = task'[j].key
                      /\ \A l \in DOMAIN task :
                           task'[j].prev < l /\ l < j /\ task'[l].key = task'[j].key
                             => task'[l].st = "done"
    BY <1>2 DEF Links
  <2>1. task[j].prev # 0 => task[j].prev \in DOMAIN task
    BY <1>2, <1>4, <1>6 DEF Threads, Links
  <2>2. task'[j].prev < j /\ (task'[j].prev # 0 => task'[task'[j].prev].key = task'[j].key)
    BY <1>2, <2>1 DEF Threads, Links
  <2>3. ASSUME NEW l \in DOMAIN task, task'[j].prev < l, l < j, task'[l].key = task'[j].key
        PROVE  task'[l].st = "done"
    <3>1. task[l].st = "done"
      BY <1>2, <2>3 DEF Threads, Links
    <3>2. QED
      BY <1>1, <1>2, <3>1
  <2>4. QED
    BY <2>2, <2>3
<1>9. ASSUME s # "done" PROVE Threads'
  <2>1. tails' = tails
    BY <1>1, <1>9
  <2>2. \A j \in DOMAIN task : task'[j].st = "done" <=> task[j].st = "done"
    BY <1>1, <1>2, <1>9
  <2>3. QED
    BY <1>2, <1>7, <1>8, <2>1, <2>2 DEF Threads
<1>10. ASSUME s = "done" PROVE Threads'
  <2> DEFINE k == task[i].key
  <2>1. k \in Keys /\ tails' = [tails EXCEPT ![k] = IF @ = i THEN 0 ELSE @]
    BY <1>1, <1>4, <1>10 DEF Finish
  <2>2. /\ tails'[k] = IF tails[k] = i THEN 0 ELSE tails[k]
        /\ \A l \in Keys \ {k} : tails'[l] = tails[l]
    BY <2>1 DEF TypeOK
  <2>3. tails[k] # 0 /\ i <= tails[k]
    BY <1>1, <1>2, <2>1 DEF Threads
  <2>4. ASSUME NEW l \in Keys, tails'[l] = 0, NEW j \in DOMAIN task, task[j].key = l
        PROVE  task'[j].st = "done"
    <3>1. CASE l = k
      <4>1. tails[k] = i
        BY <2>2, <2>3, <2>4, <3>1
      <4>2. task[j].st # "done" => j <= i
        BY <2>1, <2>4, <3>1, <4>1, <2>3 DEF Threads
      <4>3. QED
        BY <1>2, <1>5, <1>6, <1>10, <2>4, <3>1, <4>2
    <3>2. CASE l # k
      BY <1>2, <2>2, <2>4, <3>2 DEF Threads
    <3>3. QED
      BY <3>1, <3>2
  <2>5. ASSUME NEW l \in Keys, tails'[l] # 0
        PROVE  /\ tails'[l] \in DOMAIN task /\ task'[tails'[l]].key = l
               /\ task'[tails'[l]].st # "done"
               /\ \A j \in DOMAIN task :
                    task[j].key = l /\ task'[j].st # "done" => j <= tails'[l]
    <3>1. tails'[l] = tails[l] /\ tails[l] # 0 /\ tails[l] # i
      <4>1. CASE l = k
        BY <2>2, <2>5, <4>1
      <4>2. CASE l # k
        BY <2>2, <2>5, <4>2 DEF Threads
      <4>3. QED
        BY <4>1, <4>2
    <3>2. QED
      BY <1>2, <1>10, <3>1 DEF Threads
  <2>6. QED
    BY <1>2, <1>7, <1>8, <2>4, <2>5 DEF Threads
<1>11. QED
  BY <1>9, <1>10

\* Every step keeps the invariant.
LEMMA IInvStep == IInv /\ [Next]_vars => IInv'
<1> SUFFICES ASSUME IInv, [Next]_vars PROVE IInv'
  OBVIOUS
<1>0. TypeOK /\ Threads /\ Cardinality(Running) <= Slots
  BY ThreadsOfIInv
<1>1. ASSUME NEW k \in Keys, NEW v \in Values, Submit(k, v)
      PROVE  Threads'
  BY <1>0, <1>1, ThreadsSubmit
<1>2. ASSUME NEW i \in DOMAIN task, Goroutine(i)
      PROVE  Threads'
  BY <1>0, <1>2, ThreadsGoroutine
<1>3. ASSUME UNCHANGED <<task, tails>>
      PROVE  Threads'
  BY <1>0, <1>3 DEF Threads, Links, Ordered
<1>4. ASSUME Restart
      PROVE  Threads'
  <2>1. DOMAIN task' = {} /\ \A k \in Keys : tails'[k] = 0
    BY <1>4 DEF Restart
  <2>2. QED
    BY <2>1 DEF Threads, Links, Ordered
<1>5. Threads'
  BY <1>1, <1>2, <1>3, <1>4
     DEF Next, vars, CloseStore, CloseClient, CloseGivesUp, Lapse
<1>6. TypeOK' /\ (Cardinality(Running) <= Slots)'
  BY <1>0, TypeStep, SlotsStep
<1>7. NewestIsTail' /\ Links' /\ Ordered'
  BY <1>5 DEF Threads, NewestIsTail
<1>8. QED
  BY <1>6, <1>7 DEF IInv

\* It holds always.
LEMMA Inductive == Spec => []IInv
<1>1. QED
  BY IInvInit, IInvStep, PTL DEF Spec

\* What a write waits for is an older write of its key, and enough to wait for.
LEMMA WaitsForOne ==
  ASSUME IInv, NEW i \in DOMAIN task
  PROVE  /\ i \in Running => Completed(task[i].prev)
         /\ Completed(task[i].prev) => Turn(i)
<1>1. TypeOK /\ Links /\ Ordered
  BY DEF IInv
<1>2. DOMAIN task = 1..Len(task) /\ Len(task) \in Nat /\ task[i] \in Writes
  BY <1>1, ElementOfSeq DEF TypeOK
<1>3. PICK p \in 0..MaxWrites : p = task[i].prev
  BY <1>2 DEF Writes
<1>4. p < i /\ (p # 0 => p \in DOMAIN task /\ task[p].key = task[i].key)
  BY <1>1, <1>2, <1>3, BoundAssumption DEF Links
<1>5. i \in Running => Completed(p)
  BY <1>1, <1>2, <1>4 DEF Ordered, Running, Completed
<1>6. ASSUME Completed(p), NEW j \in 1..(i - 1), task[j].key = task[i].key
      PROVE  task[j].st = "done"
  <2>1. j \in DOMAIN task /\ j < i
    BY <1>2
  <2>2. CASE p < j
    BY <1>1, <1>3, <1>6, <2>1, <2>2 DEF Links
  <2>3. CASE j = p
    BY <1>4, <1>6, <2>1, <2>3 DEF Completed
  <2>4. CASE j < p
    <3>1. p \in DOMAIN task /\ task[p].st = "done" /\ task[p].key = task[j].key
      BY <1>4, <1>6, <2>4 DEF Completed
    <3>2. QED
      BY <1>1, <2>1, <2>4, <3>1 DEF Ordered
  <2>5. QED
    BY <1>2, <1>3, <2>1, <2>2, <2>3, <2>4, BoundAssumption
<1>7. QED
  BY <1>3, <1>5, <1>6 DEF Turn

(* Invariant Chained: the tail of a key (redisstore.go, goWriteKey and the  *)
(* deferred delete) is its newest unfinished write and is absent only when  *)
(* none is left; no write holds a slot before the one it waits for is done, *)
(* with all that are older; and no more than writeConcurrencyLimit hold one.*)
THEOREM TailsAndSlots == Spec => []Chained
<1>1. IInv => Chained
  <2> SUFFICES ASSUME IInv PROVE Chained
    OBVIOUS
  <2>1. ASSUME NEW i \in Running PROVE Completed(task[i].prev)
    <3>1. i \in DOMAIN task
      BY DEF Running
    <3>2. QED
      BY <3>1, WaitsForOne
  <2>2. \A i \in DOMAIN task : Completed(task[i].prev) => Turn(i)
    BY WaitsForOne
  <2>3. TypeOK /\ NewestIsTail /\ Cardinality(Running) <= Slots
    BY DEF IInv
  <2>4. QED
    BY <2>1, <2>2, <2>3 DEF Chained
<1>2. QED
  BY <1>1, Inductive, PTL

-----------------------------------------------------------------------------
(* Finite sets of numbers in increasing order.                             *)

\* The ranks are the numbers from one to the size of the set, in order.
LEMMA Ranks ==
  ASSUME NEW S \in SUBSET Nat, IsFiniteSet(S)
  PROVE  /\ Cardinality(S) \in Nat
         /\ \A i \in S : Rank(S, i) \in 1..Cardinality(S)
         /\ \A i, j \in S : i < j => Rank(S, i) < Rank(S, j)
         /\ \A n \in 1..Cardinality(S) : \E i \in S : Rank(S, i) = n
<1>1. Cardinality(S) \in Nat
  BY FS_CardinalityType
<1>2. \A i \in S : /\ UpTo(S, i) \subseteq S /\ i \in UpTo(S, i)
                  /\ IsFiniteSet(UpTo(S, i)) /\ Rank(S, i) \in 1..Cardinality(S)
  <2> SUFFICES ASSUME NEW i \in S
               PROVE  /\ UpTo(S, i) \subseteq S /\ i \in UpTo(S, i)
                      /\ IsFiniteSet(UpTo(S, i)) /\ Rank(S, i) \in 1..Cardinality(S)
    OBVIOUS
  <2>1. UpTo(S, i) \subseteq S /\ i \in UpTo(S, i)
    BY DEF UpTo
  <2>2. IsFiniteSet(UpTo(S, i)) /\ Rank(S, i) <= Cardinality(S)
    BY <2>1, FS_Subset DEF Rank
  <2>3. Rank(S, i) \in Nat /\ Rank(S, i) # 0
    BY <2>1, <2>2, FS_CardinalityType, FS_EmptySet DEF Rank
  <2>4. QED
    BY <1>1, <2>1, <2>2, <2>3
<1>2a. \A i \in S : Rank(S, i) \in Nat
  BY <1>1, <1>2
<1>3. ASSUME NEW i \in S, NEW j \in S, i < j
      PROVE  Rank(S, i) < Rank(S, j)
  <2>1. UpTo(S, i) \subseteq UpTo(S, j)
    <3>1. i \in Nat /\ j \in Nat /\ \A x \in S : x \in Nat
      OBVIOUS
    <3>2. \A x \in S : x <= i => x <= j
      BY <1>3, <3>1
    <3>3. QED
      BY <3>2, Zenon DEF UpTo
  <2>2. j \in UpTo(S, j) /\ j \notin UpTo(S, i)
    BY <1>3 DEF UpTo
  <2>3. Rank(S, i) <= Rank(S, j) /\ Rank(S, i) # Rank(S, j)
    BY <1>2, <2>1, <2>2, FS_Subset DEF Rank
  <2>4. QED
    BY <1>2a, <2>3
<1>4. ASSUME NEW n \in 1..Cardinality(S)
      PROVE  \E i \in S : Rank(S, i) = n
  <2> DEFINE T == 1..Cardinality(S)
             f == [i \in S |-> Rank(S, i)]
  <2>1. f \in [S -> T]
    BY <1>2
  <2>2. \A i, j \in S : f[i] = f[j] => i = j
    <3>1. SUFFICES ASSUME NEW i \in S, NEW j \in S, i # j
                   PROVE  f[i] # f[j]
      OBVIOUS
    <3>2. i < j \/ j < i
      BY <3>1
    <3>3. Rank(S, i) \in Nat /\ Rank(S, j) \in Nat
      BY <1>2a
    <3>4. QED
      BY <1>3, <3>2, <3>3
  <2> HIDE DEF f
  <2>3. f \in Injection(S, T)
    BY <2>1, <2>2 DEF Injection, IsInjective
  <2>4. IsFiniteSet(T) /\ Cardinality(T) = Cardinality(S)
    BY <1>1, FS_Interval
  <2>5. f \in Surjection(S, T)
    BY <2>3, <2>4, FS_Injection
  <2>6. QED
    BY <2>5 DEF Surjection, f
<1>5. QED
  BY <1>1, <1>2, <1>3, <1>4

\* The member of a rank holds its value there, and nothing else is in the list.
Image(f, S) == {f[i] : i \in S}

\* The list of a finite set has each element at its rank.
LEMMA InOrderList ==
  ASSUME NEW S, NEW f, S \in SUBSET Nat, IsFiniteSet(S)
  PROVE  /\ InOrder(S, f) \in Seq(Image(f, S))
         /\ Len(InOrder(S, f)) = Cardinality(S)
         /\ \A i \in S : InOrder(S, f)[Rank(S, i)] = f[i]
<1>1. Cardinality(S) \in Nat
  BY Ranks
<1>2. ASSUME NEW i \in S
      PROVE  (CHOOSE j \in S : Rank(S, j) = Rank(S, i)) = i
  <2> DEFINE c == CHOOSE j \in S : Rank(S, j) = Rank(S, i)
  <2>1. c \in S /\ Rank(S, c) = Rank(S, i)
    OBVIOUS
  <2> HIDE DEF c
  <2>2. ~(c < i) /\ ~(i < c)
    BY <2>1, Ranks
  <2>3. QED
    BY <2>1, <2>2 DEF c
<1>3. ASSUME NEW n \in 1..Cardinality(S)
      PROVE  InOrder(S, f)[n] \in Image(f, S)
  <2>1. PICK i \in S : Rank(S, i) = n
    BY Ranks
  <2>2. (CHOOSE j \in S : Rank(S, j) = n) = i
    BY <1>2, <2>1
  <2>3. QED
    BY <2>2 DEF InOrder, Image
<1>4. InOrder(S, f) \in [1..Cardinality(S) -> Image(f, S)]
  BY <1>3 DEF InOrder
<1>5. InOrder(S, f) \in Seq(Image(f, S)) /\ Len(InOrder(S, f)) = Cardinality(S)
  BY <1>1, <1>4
<1>6. ASSUME NEW i \in S
      PROVE  InOrder(S, f)[Rank(S, i)] = f[i]
  <2>1. Rank(S, i) \in 1..Cardinality(S)
    BY Ranks
  <2>2. QED
    BY <1>2, <2>1 DEF InOrder
<1>7. QED
  BY <1>5, <1>6

\* The list of nothing is empty.
LEMMA InOrderEmpty == \A f : InOrder({}, f) = <<>>
<1> SUFFICES ASSUME NEW f PROVE InOrder({}, f) = <<>>
  OBVIOUS
<1>1. InOrder({}, f) \in Seq(Image(f, {})) /\ Len(InOrder({}, f)) = 0
  BY InOrderList, FS_EmptySet
<1>2. QED
  BY <1>1, EmptySeq

\* t is s with v added at its end (an equation the provers take as a whole).
Extended(t, s, v) == t = Append(s, v)

\* A member larger than all others comes last.
LEMMA InOrderAppend ==
  ASSUME NEW S, NEW f, NEW g, NEW m, S \in SUBSET Nat, IsFiniteSet(S),
         m \in Nat, \A i \in S : i < m, \A i \in S : g[i] = f[i]
  PROVE  Extended(InOrder(S \cup {m}, g), InOrder(S, f), g[m])
<1> DEFINE T == S \cup {m}
<1>1. /\ T \in SUBSET Nat /\ IsFiniteSet(T) /\ Cardinality(S) \in Nat
      /\ Cardinality(T) = Cardinality(S) + 1
  BY FS_AddElement, FS_CardinalityType
<1>2. \A i \in S : Rank(T, i) = Rank(S, i)
  <2>0. \A i \in S : i \in Nat /\ ~(m <= i)
    OBVIOUS
  <2>1. \A i \in S : UpTo(T, i) = UpTo(S, i)
    BY <2>0 DEF UpTo
  <2>2. QED
    BY <2>1 DEF Rank
<1>3. Rank(T, m) = Cardinality(S) + 1
  <2>1. \A j \in T : j \in Nat /\ j <= m
    OBVIOUS
  <2>2. UpTo(T, m) = T
    BY <2>1 DEF UpTo
  <2>3. QED
    BY <1>1, <2>2 DEF Rank
<1> DEFINE s == InOrder(S, f)
           t == InOrder(T, g)
<1>4. /\ s \in Seq(Image(f, S)) /\ Len(s) = Cardinality(S)
      /\ \A i \in S : s[Rank(S, i)] = f[i]
  BY InOrderList
<1>4a. /\ t \in Seq(Image(g, T)) /\ Len(t) = Cardinality(S) + 1
       /\ \A i \in T : t[Rank(T, i)] = g[i]
  BY <1>1, InOrderList, ZenonT(60)
<1>5. ASSUME NEW n \in 1..Cardinality(S)
      PROVE  t[n] = s[n]
  <2>1. PICK i \in S : Rank(S, i) = n
    BY Ranks
  <2>2. s[n] = f[i] /\ t[n] = g[i]
    BY <1>2, <1>4, <1>4a, <2>1
  <2>3. QED
    BY <2>2
<1>6. t[Cardinality(S) + 1] = g[m]
  BY <1>3, <1>4a
<1> HIDE DEF s, t
<1>7. t = Append(s, g[m])
  <2>0. s \in Seq(Image(g, T)) /\ g[m] \in Image(g, T)
    <3>1. Image(f, S) \subseteq Image(g, T) /\ g[m] \in Image(g, T)
      BY DEF Image
    <3>2. QED
      BY <1>4, <3>1, SeqMonotonic
  <2>1. /\ Append(s, g[m]) \in Seq(Image(g, T)) /\ Len(Append(s, g[m])) = Len(s) + 1
        /\ \A i \in 1..Len(s) : Append(s, g[m])[i] = s[i]
        /\ Append(s, g[m])[Len(s) + 1] = g[m]
    BY <1>4, <2>0, AppendProperties
  <2>2. \A n \in 1..Len(t) : t[n] = Append(s, g[m])[n]
    BY <1>1, <1>4, <1>4a, <1>5, <1>6, <2>1
  <2>3. QED
    BY <1>4, <1>4a, <2>0, <2>1, <2>2, SeqEqual
<1>8. QED
  BY <1>7 DEF s, t, Extended

\* Without its smallest member the list is its own tail.
LEMMA InOrderTail ==
  ASSUME NEW S, NEW f, NEW g, NEW m, S \in SUBSET Nat, IsFiniteSet(S),
         m \in S, \A i \in S : m <= i, \A i \in S \ {m} : g[i] = f[i]
  PROVE  /\ InOrder(S, f) # <<>>
         /\ Head(InOrder(S, f)) = f[m]
         /\ InOrder(S \ {m}, g) = Tail(InOrder(S, f))
<1> DEFINE T == S \ {m}
<1>1. /\ T \in SUBSET Nat /\ IsFiniteSet(T) /\ Cardinality(S) \in Nat
      /\ Cardinality(T) = Cardinality(S) - 1 /\ Cardinality(T) \in Nat
  BY FS_RemoveElement, FS_CardinalityType
<1>2. Rank(S, m) = 1
  <2>0. m \in Nat /\ \A j \in S : j \in Nat
    OBVIOUS
  <2>1. \A j \in S : j <= m <=> j = m
    BY <2>0
  <2>2. UpTo(S, m) = {m}
    BY <2>1 DEF UpTo
  <2>3. QED
    BY <2>2, FS_Singleton DEF Rank
<1>3. ASSUME NEW i \in T
      PROVE  Rank(T, i) = Rank(S, i) - 1
  <2>1. UpTo(T, i) = UpTo(S, i) \ {m} /\ m \in UpTo(S, i) /\ UpTo(S, i) \subseteq S
    BY DEF UpTo
  <2>2. IsFiniteSet(UpTo(S, i))
    BY <2>1, FS_Subset
  <2>3. Cardinality(UpTo(S, i) \ {m}) = Cardinality(UpTo(S, i)) - 1
    BY <2>1, <2>2, FS_RemoveElement
  <2>4. QED
    BY <2>1, <2>3 DEF Rank
<1> DEFINE s == InOrder(S, f)
           t == InOrder(T, g)
<1>4. /\ s \in Seq(Image(f, S)) /\ Len(s) = Cardinality(S)
      /\ \A i \in S : s[Rank(S, i)] = f[i]
  BY InOrderList
<1>4a. /\ t \in Seq(Image(g, T)) /\ Len(t) = Cardinality(S) - 1
       /\ \A i \in T : t[Rank(T, i)] = g[i]
  BY <1>1, InOrderList
<1>5. s[1] = f[m]
  BY <1>2, <1>4
<1>6. ASSUME NEW n \in 1..Len(t)
      PROVE  t[n] = s[n + 1]
  <2>1. PICK i \in T : Rank(T, i) = n
    BY <1>1, <1>4a, Ranks
  <2>2. Rank(S, i) = n + 1
    <3>1. Rank(S, i) \in Nat /\ n \in Nat
      BY <1>1, <1>4a, Ranks
    <3>2. n = Rank(S, i) - 1
      BY <1>3, <2>1
    <3>3. QED
      BY <3>1, <3>2
  <2>3. t[n] = g[i] /\ s[n + 1] = f[i]
    BY <1>4, <1>4a, <2>1, <2>2
  <2>4. QED
    BY <2>3
<1> HIDE DEF s, t
<1>7. s # <<>>
  <2>1. Len(s) # 0
    BY <1>1, <1>4
  <2>2. QED
    BY <2>1, EmptySeq
<1>8. /\ Tail(s) \in Seq(Image(f, S)) /\ Len(Tail(s)) = Len(s) - 1
      /\ \A i \in 1..Len(Tail(s)) : Tail(s)[i] = s[i + 1]
  BY <1>4, <1>7, HeadTailProperties
<1>9. t = Tail(s)
  <2>1. Image(g, T) \subseteq Image(f, S)
    BY DEF Image
  <2>2. t \in Seq(Image(f, S))
    BY <1>4a, <2>1, SeqMonotonic
  <2>3. QED
    BY <1>1, <1>4, <1>4a, <1>6, <1>8, <2>2, SeqEqual
<1>10. Head(s) = f[m]
  BY <1>4, <1>5, <1>7
<1>11. QED
  BY <1>7, <1>9, <1>10 DEF s, t

-----------------------------------------------------------------------------
(* The refinement of MirrorQueue.                                          *)

ValueOf(k) == [i \in Queued(k) |-> task[i].val]

\* The unmade writes of a key are a queue of values.
LEMMA QueueType ==
  ASSUME TypeOK, NEW k \in Keys
  PROVE  /\ Queued(k) \in SUBSET Nat /\ IsFiniteSet(Queued(k))
         /\ ValueOf(k) \in [Queued(k) -> Values]
         /\ Unmade(k) = InOrder(Queued(k), ValueOf(k)) /\ Unmade(k) \in Seq(Values)
<1>1. Len(task) \in Nat /\ DOMAIN task = 1..Len(task)
  BY DEF TypeOK
<1>2. Queued(k) \subseteq 1..Len(task)
  BY <1>1 DEF Queued
<1>3. IsFiniteSet(1..Len(task))
  BY <1>1, FS_Interval
<1>4. Queued(k) \in SUBSET Nat /\ IsFiniteSet(Queued(k))
  BY <1>2, <1>3, FS_Subset
<1>5. \A i \in Queued(k) : task[i] \in Writes
  BY <1>1, <1>2, ElementOfSeq DEF TypeOK
<1>6. ValueOf(k) \in [Queued(k) -> Values]
  BY <1>5 DEF ValueOf, Writes
<1>7. Unmade(k) = InOrder(Queued(k), ValueOf(k))
  BY DEF Unmade, ValueOf
<1>8. InOrder(Queued(k), ValueOf(k)) \in Seq(Values)
  <2>1. Image(ValueOf(k), Queued(k)) \subseteq Values
    BY <1>6 DEF Image
  <2>2. QED
    BY <1>4, <2>1, InOrderList, SeqMonotonic
<1>9. QED
  BY <1>4, <1>6, <1>7, <1>8

\* Entering a slot and leaving it are invisible.
LEMMA QueueKept ==
  ASSUME TypeOK, NEW i \in DOMAIN task, EnterSlot(i) \/ Finish(i)
  PROVE  \A k \in Keys : Unmade(k)' = Unmade(k)
<1> SUFFICES ASSUME NEW k \in Keys PROVE Unmade(k)' = Unmade(k)
  OBVIOUS
<1>1. PICK t \in {"wait", "written"}, s \in {"run", "done"} :
        Moves(i, t, s) /\ (t = "wait" <=> s = "run")
  BY DEF EnterSlot, Finish
<1>2. /\ DOMAIN task' = DOMAIN task /\ task[i].st = t
      /\ \A j \in DOMAIN task : /\ task'[j].key = task[j].key /\ task'[j].val = task[j].val
                               /\ task'[j].st = IF j = i THEN s ELSE task[j].st
  BY <1>1, StepOfWrite
<1>3. Queued(k)' = Queued(k)
  BY <1>1, <1>2 DEF Queued
<1>4. \A j \in Queued(k) : task'[j].val = task[j].val
  BY <1>2 DEF Queued
<1>5. [j \in Queued(k)' |-> task'[j].val] = [j \in Queued(k) |-> task[j].val]
  BY <1>3, <1>4
<1>6. QED
  BY <1>3, <1>5 DEF Unmade

\* A call is the oldest unmade write of its key.
LEMMA QueueCall ==
  ASSUME TypeOK, Threads, NEW i \in DOMAIN task, Call(i), NEW k \in Keys, k = task[i].key
  PROVE  /\ Unmade(k) # <<>> /\ Head(Unmade(k)) = task[i].val
         /\ Unmade(k)' = Tail(Unmade(k))
         /\ \A l \in Keys \ {k} : Unmade(l)' = Unmade(l)
<1>1. /\ DOMAIN task' = DOMAIN task /\ task[i].st = "run" /\ DOMAIN task = 1..Len(task)
      /\ \A j \in DOMAIN task :
           /\ task'[j].key = task[j].key /\ task'[j].val = task[j].val
           /\ task'[j].st = IF j = i THEN "written" ELSE task[j].st
  BY StepOfWrite DEF Call
<1>3. \A l \in Keys : Queued(l)' = IF l = k THEN Queued(l) \ {i} ELSE Queued(l)
  BY <1>1 DEF Queued
<1>4. \A l \in Keys : \A j \in Queued(l) : j \in DOMAIN task /\ task'[j].val = task[j].val
  BY <1>1 DEF Queued
<1>5. ASSUME NEW l \in Keys \ {k}
      PROVE  Unmade(l)' = Unmade(l)
  <2>1. Queued(l)' = Queued(l)
    BY <1>3
  <2>2. [j \in Queued(l)' |-> task'[j].val] = [j \in Queued(l) |-> task[j].val]
    BY <1>4, <2>1
  <2>3. QED
    BY <2>1, <2>2 DEF Unmade
<1>6. i \in Queued(k) /\ \A j \in Queued(k) : i <= j
  <2>1. Len(task) \in Nat
    BY DEF TypeOK
  <2>2. \A j \in DOMAIN task : j < i /\ task[j].key = k => task[j].st = "done"
    BY <1>1 DEF Threads, Ordered
  <2>3. QED
    BY <1>1, <2>1, <2>2 DEF Queued
<1> DEFINE S == Queued(k)
           f == ValueOf(k)
           g == [j \in S \ {i} |-> task'[j].val]
<1>7. S \in SUBSET Nat /\ IsFiniteSet(S) /\ f \in [S -> Values] /\ Unmade(k) = InOrder(S, f)
  BY QueueType
<1>8. \A j \in S : f[j] = task[j].val
  BY DEF ValueOf
<1>9. g \in [S \ {i} -> Values] /\ \A j \in S \ {i} : g[j] = f[j]
  <2>1. \A j \in S \ {i} : g[j] = f[j]
    BY <1>4, <1>8
  <2>2. QED
    BY <1>7, <2>1
<1>10. Unmade(k)' = InOrder(S \ {i}, g)
  <2>1. Queued(k)' = S \ {i}
    BY <1>3
  <2>2. [j \in Queued(k)' |-> task'[j].val] = g
    BY <2>1
  <2>3. QED
    BY <2>1, <2>2 DEF Unmade
<1>11. /\ Unmade(k) # <<>> /\ Head(Unmade(k)) = f[i]
       /\ InOrder(S \ {i}, g) = Tail(Unmade(k))
  <2>1. i \in S /\ \A j \in S : i <= j
    BY <1>6
  <2> HIDE DEF S, f, g
  <2>2. S \in SUBSET Nat /\ IsFiniteSet(S) /\ \A j \in S \ {i} : g[j] = f[j]
    BY <1>7, <1>9
  <2>3. /\ InOrder(S, f) # <<>> /\ Head(InOrder(S, f)) = f[i]
        /\ InOrder(S \ {i}, g) = Tail(InOrder(S, f))
    BY SMTT(30), <2>1, <2>2, InOrderTail
  <2>4. QED
    BY <1>7, <2>3
<1>12. QED
  BY <1>5, <1>6, <1>8, <1>10, <1>11

\* An accepted write is the newest unmade one of its key.
LEMMA QueueSubmit ==
  ASSUME TypeOK, NEW k \in Keys, NEW v \in Values, Submit(k, v), store = "open"
  PROVE  /\ Unmade(k)' = Append(Unmade(k), v)
         /\ \A l \in Keys \ {k} : Unmade(l)' = Unmade(l)
<1> DEFINE m == Len(task) + 1
           w == [key |-> k, val |-> v, prev |-> tails[k], st |-> "wait"]
<1>1. /\ DOMAIN task' = DOMAIN task \cup {m} /\ \A j \in DOMAIN task : task'[j] = task[j]
      /\ task'[m] = w
  <2>1. w \in Writes
    BY DEF TypeOK, Writes
  <2>2. task' = Append(task, w)
    BY DEF Submit, GoWriteKey
  <2>3. QED
    BY <2>1, <2>2, SubmittedWrite
<1>2. m \in Nat /\ DOMAIN task = 1..(m - 1) /\ m \notin DOMAIN task
  BY DEF TypeOK
<1>3. w.key = k /\ w.val = v /\ w.st = "wait"
  OBVIOUS
<1> HIDE DEF w, m
<1>4. \A l \in Keys : Queued(l)' = IF l = k THEN Queued(l) \cup {m} ELSE Queued(l)
  BY <1>1, <1>2, <1>3 DEF Queued
<1>5. \A l \in Keys : \A j \in Queued(l) : j \in DOMAIN task /\ task'[j].val = task[j].val
  BY <1>1 DEF Queued
<1>6. ASSUME NEW l \in Keys \ {k}
      PROVE  Unmade(l)' = Unmade(l)
  <2>1. Queued(l)' = Queued(l)
    BY <1>4
  <2>2. [j \in Queued(l)' |-> task'[j].val] = [j \in Queued(l) |-> task[j].val]
    BY <1>5, <2>1
  <2>3. QED
    BY <2>1, <2>2 DEF Unmade
<1> DEFINE S == Queued(k)
           f == ValueOf(k)
           g == [j \in S \cup {m} |-> task'[j].val]
<1>7. S \in SUBSET Nat /\ IsFiniteSet(S) /\ Unmade(k) = InOrder(S, f)
  BY QueueType
<1>8. \A j \in S : f[j] = task[j].val
  BY DEF ValueOf
<1>9. (\A j \in S : g[j] = f[j]) /\ g[m] = v
  <2>1. \A j \in S : g[j] = f[j]
    BY <1>5, <1>8
  <2>2. g[m] = v
    BY <1>1, <1>3
  <2>3. QED
    BY <2>1, <2>2
<1>10. Unmade(k)' = InOrder(S \cup {m}, g)
  <2>1. Queued(k)' = S \cup {m}
    BY <1>4
  <2>2. [j \in Queued(k)' |-> task'[j].val] = g
    BY <2>1
  <2>3. QED
    BY <2>1, <2>2 DEF Unmade
<1>11. InOrder(S \cup {m}, g) = Append(InOrder(S, f), v)
  <2>1. \A j \in S : j < m
    BY <1>2, <1>5
  <2>2. \A j \in S : g[j] = f[j]
    BY <1>9
  <2>3. g[m] = v
    BY <1>9
  <2> HIDE DEF S, f, g
  <2>4. Extended(InOrder(S \cup {m}, g), InOrder(S, f), g[m])
    <3>1. m \in Nat /\ S \in SUBSET Nat /\ IsFiniteSet(S)
      BY <1>2, <1>7
    <3>2. QED
      BY <2>1, <2>2, <3>1, InOrderAppend
  <2>5. QED
    BY <2>3, <2>4 DEF Extended
<1>12. QED
  BY <1>6, <1>7, <1>10, <1>11

\* The mirror starts with empty queues.
LEMMA RefinesInit == Init => Promise!Init
<1> SUFFICES ASSUME Init PROVE Promise!Init
  OBVIOUS
<1>1. \A k \in Keys : Queued(k) = {}
  BY DEF Init, Queued
<1>2. \A k \in Keys : Unmade(k) = <<>>
  BY <1>1, InOrderEmpty DEF Unmade
<1>3. QED
  BY <1>2 DEF Init, Promise!Init

\* The queues and the rest of the promise's state.
PromiseQueues == [k \in Keys |-> Unmade(k)]
PromiseVars == <<PromiseQueues, mirror, store = "open">>

\* Every step of the mirror is a step of the queues or none.
LEMMA RefinesStep ==
  ASSUME IInv, [Next]_vars
  PROVE  [Promise!Next]_PromiseVars
<1>0. TypeOK /\ Threads
  BY ThreadsOfIInv
<1>1. ASSUME NEW k \in Keys, NEW v \in Values, Submit(k, v)
      PROVE  Promise!Next \/ UNCHANGED PromiseVars
  <2>1. CASE store = "open"
    <3>1. /\ Unmade(k)' = Append(Unmade(k), v)
          /\ \A l \in Keys \ {k} : Unmade(l)' = Unmade(l)
      BY <1>0, <1>1, <2>1, QueueSubmit
    <3>2. PromiseQueues' = [PromiseQueues EXCEPT ![k] = Append(@, v)]
      BY <3>1 DEF PromiseQueues
    <3>3. Promise!Accept(k, v)
      BY <1>1, <2>1, <3>2 DEF Promise!Accept, PromiseQueues, Submit
    <3>4. QED
      BY <3>3 DEF Promise!Next, Promise!Values, Values
  <2>2. CASE store # "open"
    <3>1. UNCHANGED <<task, mirror, store>>
      BY <1>1, <2>2 DEF Submit, GoWriteKey
    <3>2. QED
      BY <3>1 DEF PromiseVars, PromiseQueues, Unmade, Queued
  <2>3. QED
    BY <2>1, <2>2
<1>2. ASSUME NEW i \in DOMAIN task, EnterSlot(i) \/ Finish(i)
      PROVE  UNCHANGED PromiseVars
  <2>1. \A k \in Keys : Unmade(k)' = Unmade(k)
    BY <1>0, <1>2, QueueKept
  <2>2. UNCHANGED <<mirror, store>>
    BY <1>2 DEF EnterSlot, Finish
  <2>3. QED
    BY <2>1, <2>2 DEF PromiseVars, PromiseQueues
<1>3. ASSUME NEW i \in DOMAIN task, Call(i)
      PROVE  Promise!Next
  <2>1. PICK k \in Keys : k = task[i].key
    <3>1. task[i] \in Writes
      BY <1>0, ElementOfSeq DEF TypeOK
    <3>2. QED
      BY <3>1 DEF Writes
  <2>2. /\ Unmade(k) # <<>> /\ Head(Unmade(k)) = task[i].val
        /\ Unmade(k)' = Tail(Unmade(k))
        /\ \A l \in Keys \ {k} : Unmade(l)' = Unmade(l)
    BY <1>0, <1>3, <2>1, QueueCall
  <2>3. PromiseQueues' = [PromiseQueues EXCEPT ![k] = Tail(@)]
    BY <2>2 DEF PromiseQueues
  <2>4. PromiseQueues[k] = Unmade(k)
    BY DEF PromiseQueues
  <2>5. Promise!Make(k)
    BY <1>3, <2>1, <2>2, <2>3, <2>4 DEF Promise!Make, PromiseQueues, Call
  <2>6. QED
    BY <2>5 DEF Promise!Next
<1>4. ASSUME CloseStore
      PROVE  Promise!Next
  <2>1. PromiseQueues' = PromiseQueues
    BY <1>4 DEF CloseStore, PromiseQueues, Unmade, Queued
  <2>2. Promise!Close
    BY <1>4, <2>1 DEF CloseStore, Promise!Close, PromiseQueues
  <2>3. QED
    BY <2>2 DEF Promise!Next
<1>5. ASSUME CloseClient \/ CloseGivesUp
      PROVE  UNCHANGED PromiseVars
  BY <1>5 DEF CloseClient, CloseGivesUp, PromiseVars, PromiseQueues, Unmade, Queued
<1>6. ASSUME NEW k \in Keys, Lapse(k)
      PROVE  Promise!Next
  <2>1. PromiseQueues' = PromiseQueues
    BY <1>6 DEF Lapse, PromiseQueues, Unmade, Queued
  <2>2. mirror' = [l \in Keys |-> IF l \in {k} THEN None ELSE mirror[l]]
    BY <1>0, <1>6 DEF Lapse, TypeOK
  <2>3. Promise!Expire({k})
    BY <1>6, <2>1, <2>2 DEF Lapse, Promise!Expire, PromiseQueues
  <2>4. QED
    BY <2>3 DEF Promise!Next
<1>7. ASSUME Restart
      PROVE  Promise!Next
  <2>1. \A k \in Keys : Queued(k)' = {}
    BY <1>7 DEF Restart, Queued
  <2>2. ASSUME NEW k \in Keys
        PROVE  Unmade(k)' = <<>>
    <3>1. Unmade(k)' = InOrder({}, [i \in {} |-> task'[i].val])
      BY <2>1 DEF Unmade
    <3>2. QED
      BY <3>1, InOrderEmpty
  <2>3. PromiseQueues' = [k \in Keys |-> <<>>]
    BY <2>2 DEF PromiseQueues
  <2>4. Promise!Restart
    BY <1>7, <2>3 DEF Restart, Promise!Restart, PromiseQueues
  <2>5. QED
    BY <2>4 DEF Promise!Next
<1>8. ASSUME UNCHANGED vars
      PROVE  UNCHANGED PromiseVars
  BY <1>8 DEF vars, PromiseVars, PromiseQueues, Unmade, Queued
<1>9. QED
  BY <1>1, <1>2, <1>3, <1>4, <1>5, <1>6, <1>7, <1>8 DEF Next, Goroutine

(* WritesInOrder: goWriteKey's chain of channels, the slots and Close       *)
(* implement one queue per key, so no write of a key takes effect before an *)
(* older one and none is accepted while the store closes.                   *)
THEOREM Refinement == Spec => WritesInOrder
<1>1. Init => Promise!Init
  BY RefinesInit
<1>2. IInv /\ [Next]_vars => [Promise!Next]_PromiseVars
  BY RefinesStep
<1>3. QED
  BY <1>1, <1>2, Inductive, PTL DEF Spec, WritesInOrder, Promise!Spec, PromiseVars, PromiseQueues
=============================================================================
