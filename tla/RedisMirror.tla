---------------------------- MODULE RedisMirror ----------------------------
(***************************************************************************)
(* The asynchronous writes of internal/redisstore: every SetBind, DelBind  *)
(* or SaveState starts a goroutine that waits for the previous write of its key *)
(* (the channel found in tails), then for one of a few slots, calls Redis, *)
(* closes its own channel and leaves the slot.  Close refuses new writes,  *)
(* waits for the submitted ones up to a limit and closes the connection.   *)
(*                                                                         *)
(* A write is a record in task, in submission order.  Redis itself is      *)
(* external: a call succeeds or fails, and a failed one may have been      *)
(* carried out; a key may lapse at any time.  The callers are the session  *)
(* router and the pool; the process may die at any moment.                 *)
(*                                                                         *)
(* A definition named Faulty... is the one that follows it with a          *)
(* plausible mistake; nothing refers to it, it serves the mutation runs.   *)
(***************************************************************************)
EXTENDS Naturals, Sequences, FiniteSets

CONSTANTS
  Keys, Uids, None,
  Slots,      \* capacity of the semaphore (writeConcurrencyLimit)
  MaxWrites   \* bound: writes submitted by one process

ASSUME SlotsAssumption == Slots \in Nat \ {0} /\ None \notin Uids
ASSUME BoundAssumption == MaxWrites \in Nat

VARIABLES
  task,    \* the writes submitted by the running process
  tails,   \* key -> index in task of its latest write, 0 when absent
  mirror,  \* key -> the value Redis holds, None when it holds none
  store    \* "open", "draining" (done is closed) or "closed"

vars == <<task, tails, mirror, store>>

Values == Uids \cup {None}
Writes == [key : Keys, val : Values, prev : 0..MaxWrites,
           st : {"wait", "run", "written", "done"}]

TypeOK ==
  /\ task \in Seq(Writes) /\ Len(task) <= MaxWrites
  /\ tails \in [Keys -> 0..MaxWrites]
  /\ mirror \in [Keys -> Values]
  /\ store \in {"open", "draining", "closed"}

Init ==
  /\ task = <<>>
  /\ tails = [k \in Keys |-> 0]
  /\ mirror = [k \in Keys |-> None]
  /\ store = "open"

FaultyGoWriteKey(k, v) ==
  IF store # "open" THEN UNCHANGED <<task, tails>>
  ELSE /\ task' = Append(task, [key |-> k, val |-> v, prev |-> 0, st |-> "wait"])
       /\ tails' = [tails EXCEPT ![k] = Len(task) + 1]

\* The part of goWriteKey under writeMu; the goroutine it starts is the write.
GoWriteKey(k, v) ==
  IF store # "open" THEN UNCHANGED <<task, tails>>
  ELSE /\ task' = Append(task, [key |-> k, val |-> v, prev |-> tails[k], st |-> "wait"])
       /\ tails' = [tails EXCEPT ![k] = Len(task) + 1]

Running == {i \in DOMAIN task : task[i].st \in {"run", "written"}}
Completed(i) == i \in {0} \cup {j \in DOMAIN task : task[j].st = "done"}

\* The goroutine of write i goes on to its next stage.
Moves(i, from, to) == task[i].st = from /\ task' = [task EXCEPT ![i].st = to]

\* The slot is taken first, the write before is waited for with it in hand.
FaultyEnterSlot(i) ==
  /\ Moves(i, "wait", "run")
  /\ Cardinality(Running) < Slots
  /\ UNCHANGED <<tails, mirror, store>>

\* The goroutine has seen the previous write of its key done and has a slot.
EnterSlot(i) ==
  /\ Moves(i, "wait", "run")
  /\ Completed(task[i].prev)
  /\ Cardinality(Running) < Slots
  /\ UNCHANGED <<tails, mirror, store>>

\* The call to Redis; it fails for sure once the connection is closed.
Call(i) ==
  /\ Moves(i, "run", "written")
  /\ \/ /\ store # "closed"
        /\ mirror' = [mirror EXCEPT ![task[i].key] = task[i].val]
     \/ UNCHANGED mirror
  /\ UNCHANGED <<tails, store>>

\* Only the newest write of a key closes its channel.
FaultyFinish(i) ==
  /\ task[i].st = "written"
  /\ task' = [task EXCEPT ![i].st = IF tails[task[i].key] = i THEN "done" ELSE "written"]
  /\ tails' = [tails EXCEPT ![task[i].key] = IF @ = i THEN 0 ELSE @]
  /\ UNCHANGED <<mirror, store>>

\* The deferred calls: completed is closed, the slot and pending released.
Finish(i) ==
  /\ Moves(i, "written", "done")
  /\ tails' = [tails EXCEPT ![task[i].key] = IF @ = i THEN 0 ELSE @]
  /\ UNCHANGED <<mirror, store>>

\* Close: done is closed under writeMu, then pending is waited for.
CloseStore ==
  /\ store = "open"
  /\ store' = "draining"
  /\ UNCHANGED <<task, tails, mirror>>

CloseClient ==
  /\ store = "draining"
  /\ \A i \in DOMAIN task : task[i].st = "done"
  /\ store' = "closed"
  /\ UNCHANGED <<task, tails, mirror>>

\* closeWaitTimeout passes first.
CloseGivesUp ==
  /\ store = "draining"
  /\ \E i \in DOMAIN task : task[i].st # "done"
  /\ store' = "closed"
  /\ UNCHANGED <<task, tails, mirror>>

\* SetBind (a value), DelBind (None) and SaveState (the state key's value).
Submit(k, v) ==
  /\ Len(task) < MaxWrites
  /\ GoWriteKey(k, v)
  /\ UNCHANGED <<mirror, store>>

Lapse(k) ==
  /\ mirror[k] # None
  /\ mirror' = [mirror EXCEPT ![k] = None]
  /\ UNCHANGED <<task, tails, store>>

\* A process that has ended has no goroutine left; the next one builds its store.
Restart ==
  /\ task' = <<>>
  /\ tails' = [k \in Keys |-> 0]
  /\ store' = "open"
  /\ UNCHANGED mirror

Goroutine(i) == EnterSlot(i) \/ Call(i) \/ Finish(i)

Next ==
  \/ \E k \in Keys, v \in Values : Submit(k, v)
  \/ \E i \in DOMAIN task : Goroutine(i)
  \/ CloseStore \/ CloseClient \/ CloseGivesUp
  \/ \E k \in Keys : Lapse(k)
  \/ Restart

Spec == Init /\ [][Next]_vars

(* Goroutines run on, a call returns within its five seconds, and a channel *)
(* of slots serves its waiters in turn, so none is passed over for ever.    *)
Fairness ==
  \A i \in 1..MaxWrites :
    /\ SF_vars(i \in DOMAIN task /\ EnterSlot(i))
    /\ WF_vars(i \in DOMAIN task /\ Call(i))
    /\ WF_vars(i \in DOMAIN task /\ Finish(i))
    /\ WF_vars(CloseClient)

FairSpec == Spec /\ Fairness
-----------------------------------------------------------------------------
\* tails names the newest unfinished write of a key, and nothing when none is left.
NewestIsTail ==
  \A k \in Keys :
    LET unfinished == {i \in DOMAIN task : task[i].key = k /\ task[i].st # "done"}
    IN  /\ tails[k] = 0 => unfinished = {}
        /\ tails[k] # 0 => tails[k] \in unfinished /\ \A i \in unfinished : i <= tails[k]

\* The older writes of the key of write i are all done.
Turn(i) == \A j \in 1..(i - 1) : task[j].key = task[i].key => task[j].st = "done"

(* A write that holds a slot, and so may call Redis, is done waiting for    *)
(* the one before it (no slot is taken up by a write that waits for one),   *)
(* and to have waited for that one was enough: when it is done, so is every *)
(* older write of the key, whatever was finished, dropped from tails and    *)
(* submitted meanwhile.  At most Slots writes hold one.                     *)
Chained ==
  /\ TypeOK /\ NewestIsTail
  /\ Cardinality(Running) <= Slots
  /\ \A i \in Running : Completed(task[i].prev)
  /\ \A i \in DOMAIN task : Completed(task[i].prev) => Turn(i)

\* The members of a set of numbers in increasing order, mapped by f.
UpTo(S, i) == {j \in S : j <= i}
Rank(S, i) == Cardinality(UpTo(S, i))
InOrder(S, f) == [n \in 1..Cardinality(S) |-> f[CHOOSE i \in S : Rank(S, i) = n]]

\* The writes of k that Redis has not been asked for yet, and their values.
Queued(k) == {i \in DOMAIN task : task[i].key = k /\ task[i].st \in {"wait", "run"}}
Unmade(k) == InOrder(Queued(k), [i \in Queued(k) |-> task[i].val])

Promise == INSTANCE MirrorQueue WITH
  queue <- [k \in Keys |-> Unmade(k)],
  remote <- mirror,
  open <- store = "open"

(* Goroutines, channels and slots implement the queue per key MirrorQueue   *)
(* promises: no write overtakes an older one of its key, Close included.    *)
WritesInOrder == Promise!Spec

(* Writes that wait for each other and for slots do not wait for ever: each *)
(* submitted write ends, or its process does.                               *)
WriteEnds ==
  \A i \in 1..MaxWrites :
    (i \in DOMAIN task) ~> (i \notin DOMAIN task \/ task[i].st = "done")

=============================================================================
