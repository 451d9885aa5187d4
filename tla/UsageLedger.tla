---------------------------- MODULE UsageLedger ----------------------------
(***************************************************************************)
(* The usage ledger (internal/usage/store.go): every process counts the    *)
(* requests it served in memory and merges what is new into one file, so   *)
(* that two processes of a hot update may both hold it.                    *)
(*                                                                         *)
(* A document keeps a total and one bucket per day, of which only the      *)
(* latest MaxDayBuckets stay; keys and models are further totals, merged   *)
(* alike.  A request counts one.  The holder of flushMu is in op; the file *)
(* lock is held from the merge to the commit, and released by a crash.     *)
(* A definition named Faulty... precedes the one it is a mistake in.       *)
(***************************************************************************)
EXTENDS Integers, Totals

CONSTANTS
  Procs, NoOp,
  MaxDayBuckets,
  LastDay,      \* bound: the last day of the clock
  MaxRecords    \* bound: requests recorded


VARIABLES
  file,     \* usage.json: whether it exists and its document
  proc,     \* process -> its Store
  op,       \* process -> the operation that holds its flushMu, or NoOp
  today,    \* the clock, in days
  excess,   \* history: a Snapshot has returned more than was recorded
  recorded, \* history: day -> requests recorded by any process
  erased,   \* history: day -> those a reset cleared or a crash lost
  lost      \* history: the file has been removed

vars == <<file, proc, op, today, excess, recorded, erased, lost>>
history == <<recorded, erased, lost>>

Days == 1..LastDay
Documents == [total : Nat, day : UNION {[D -> Nat] : D \in SUBSET Days}]
NoDays == [d \in {} |-> 0]
Empty == [total |-> 0, day |-> NoDays]
At(b, d) == IF d \in DOMAIN b THEN b[d] ELSE 0

\* trimDayBuckets: the latest MaxDayBuckets stay.
Trimmed(b) ==
  LET kept == {d \in DOMAIN b : Cardinality({e \in DOMAIN b : e > d}) < MaxDayBuckets}
  IN  [d \in kept |-> b[d]]

Positive(now, prev) == IF now < prev THEN 0 ELSE now - prev

\* addDocument
AddDocument(base, delta) ==
  [total |-> base.total + delta.total,
   day |-> Trimmed([d \in DOMAIN base.day \cup DOMAIN delta.day |-> At(base.day, d) + At(delta.day, d)])]

\* deltaDocument: what is new since prev.
DeltaDocument(mine, prev) ==
  [total |-> Positive(mine.total, prev.total),
   day |-> [d \in DOMAIN mine.day |-> Positive(mine.day[d], At(prev.day, d))]]

One(d) == [total |-> 1, day |-> [e \in {d} |-> 1]]
Off == [st |-> "off", doc |-> Empty, written |-> Empty, dirty |-> FALSE]

Init ==
  /\ file = [there |-> FALSE, doc |-> Empty]
  /\ proc = [p \in Procs |-> Off]
  /\ op = [p \in Procs |-> NoOp]
  /\ today = 1
  /\ excess = FALSE
  /\ recorded = [d \in Days |-> 0] /\ erased = [d \in Days |-> 0]
  /\ lost = FALSE

Recorded == Total(recorded)
Running(p) == proc[p].st \in {"up", "closing"}
FlushFree(p) == op[p] = NoOp
FileLockFree == {q \in Procs : op[q] # NoOp /\ op[q].stage = "commit"} = {}

Operations == [kind : {"flush", "reset"}, stage : {"start", "commit"}, snap : Documents,
               written : Documents, dirty : BOOLEAN, st : {"opening", "up", "closing"}]

Operation(kind, p, was) ==
  [kind |-> kind, stage |-> "start", snap |-> was.doc, written |-> was.written, dirty |-> was.dirty,
   st |-> was.st]
-----------------------------------------------------------------------------
\* Open: without a file an empty ledger is flushed at once.
Open(p) ==
  /\ proc[p].st = "off"
  /\ LET doc == IF file.there THEN file.doc ELSE Empty IN
     /\ proc' = [proc EXCEPT ![p] = [st |-> IF file.there THEN "up" ELSE "opening",
                                     doc |-> doc, written |-> doc, dirty |-> FALSE]]
     /\ op' = [op EXCEPT ![p] = IF file.there THEN NoOp ELSE Operation("flush", p, proc'[p])]
  /\ UNCHANGED <<file, today, excess, history>>

\* A record is accepted after Close as well.
FaultyAccepts(p) == proc[p].st \in {"up", "closing", "closed"}

Accepts(p) == proc[p].st = "up"

\* RecordOutcome of one request.
RecordOutcome(p) ==
  /\ Accepts(p)
  /\ Recorded < MaxRecords
  /\ proc' = [proc EXCEPT ![p].doc = AddDocument(@, One(today)), ![p].dirty = TRUE]
  /\ recorded' = [recorded EXCEPT ![today] = @ + 1]
  /\ UNCHANGED <<file, op, today, excess, erased, lost>>

\* Flush takes a clone and clears dirty; Close's own flush is the last.
StartFlush(p) ==
  /\ Running(p) /\ FlushFree(p) /\ proc[p].dirty
  /\ op' = [op EXCEPT ![p] = Operation("flush", p, proc[p])]
  /\ proc' = [proc EXCEPT ![p].dirty = FALSE]
  /\ UNCHANGED <<file, today, excess, history>>

\* persistDocument up to the rename, under the file lock.
Merge(p) ==
  /\ op[p] # NoOp /\ op[p].kind = "flush" /\ op[p].stage = "start" /\ FileLockFree
  /\ LET base == IF file.there THEN file.doc ELSE proc[p].written
         doc == AddDocument(base, DeltaDocument(op[p].snap, proc[p].written)) IN
     /\ file' = [there |-> TRUE, doc |-> doc]
     /\ op' = [op EXCEPT ![p].stage = "commit", ![p].written = doc]
  /\ UNCHANGED <<proc, today, excess, history>>

\* What was recorded since the clone is forgotten.
FaultyPendingOf(p) == Empty

PendingOf(p) == DeltaDocument(proc[p].doc, op[p].snap)

\* The process after its flush: only Open and Close's flush change its phase.
After(st, ok) ==
  CASE st = "opening" -> IF ok THEN "up" ELSE "off"
    [] st = "closing" -> IF ok THEN "closed" ELSE "failed"
    [] OTHER -> st

\* commit of a flush
Commit(p) ==
  /\ op[p] # NoOp /\ op[p].kind = "flush" /\ op[p].stage = "commit"
  /\ proc' = [proc EXCEPT ![p].doc = AddDocument(op[p].written, PendingOf(p)), ![p].written = op[p].written,
                          ![p].st = IF op[p].st = "up" THEN @ ELSE After(@, TRUE)]
  /\ op' = [op EXCEPT ![p] = NoOp]
  /\ UNCHANGED <<file, today, excess, history>>

\* Any step before the rename fails: dirty again.
FlushFails(p) ==
  /\ op[p] # NoOp /\ op[p].kind = "flush" /\ op[p].stage = "start"
  /\ proc' = [proc EXCEPT ![p].dirty = TRUE, ![p].st = IF op[p].st = "up" THEN @ ELSE After(@, FALSE)]
  /\ op' = [op EXCEPT ![p] = NoOp]
  /\ UNCHANGED <<file, today, excess, history>>

\* Reset empties document and baseline, then overwrites the file.
StartReset(p) ==
  /\ proc[p].st = "up" /\ FlushFree(p)
  /\ op' = [op EXCEPT ![p] = Operation("reset", p, proc[p])]
  /\ proc' = [proc EXCEPT ![p].doc = Empty, ![p].written = Empty, ![p].dirty = FALSE]
  /\ UNCHANGED <<file, today, excess, history>>

Limbo(p) == DeltaDocument(op[p].snap, op[p].written)

ResetWrite(p) ==
  /\ op[p] # NoOp /\ op[p].kind = "reset" /\ op[p].stage = "start" /\ FileLockFree
  /\ erased' = [d \in Days |-> erased[d] + At(file.doc.day, d) + At(Limbo(p).day, d)]
  /\ file' = [there |-> TRUE, doc |-> Empty]
  /\ op' = [op EXCEPT ![p].stage = "commit"]
  /\ UNCHANGED <<proc, today, excess, recorded, lost>>

\* commit(adoptDisk = false): the baseline is the empty document written.
ResetCommit(p) ==
  /\ op[p] # NoOp /\ op[p].kind = "reset" /\ op[p].stage = "commit"
  /\ proc' = [proc EXCEPT ![p].written = Empty]
  /\ op' = [op EXCEPT ![p] = NoOp]
  /\ UNCHANGED <<file, today, excess, history>>

\* The document before the reset comes back, with what was recorded since.
ResetFails(p) ==
  /\ op[p] # NoOp /\ op[p].kind = "reset" /\ op[p].stage = "start"
  /\ proc' = [proc EXCEPT ![p].doc = AddDocument(op[p].snap, @), ![p].written = op[p].written,
                          ![p].dirty = @ \/ op[p].dirty]
  /\ op' = [op EXCEPT ![p] = NoOp]
  /\ UNCHANGED <<file, today, excess, history>>

\* Snapshot does not wait for the flush.
FaultyViewLock(p) == TRUE

ViewLock(p) == FlushFree(p)

\* Snapshot: the file with what is new in memory, or memory when the file
\* cannot be read.
Snapshot(p) ==
  /\ proc[p].st = "up" /\ ViewLock(p)
  /\ \E readable \in {file.there, FALSE} :
       LET view == IF readable THEN AddDocument(file.doc, DeltaDocument(proc[p].doc, proc[p].written))
                   ELSE proc[p].doc
       IN  excess' = (excess \/ view.total > Recorded)
  /\ UNCHANGED <<file, proc, op, today, history>>

\* Close refuses records, waits for the flusher and flushes a last time.
Close(p) ==
  /\ proc[p].st = "up"
  /\ proc' = [proc EXCEPT ![p].st = "closing"]
  /\ UNCHANGED <<file, op, today, excess, history>>

CloseWithNothing(p) ==
  /\ proc[p].st = "closing" /\ FlushFree(p) /\ ~ proc[p].dirty
  /\ proc' = [proc EXCEPT ![p].st = "closed"]
  /\ UNCHANGED <<file, op, today, excess, history>>

\* What p has recorded and no file holds yet.
Unsaved(p) ==
  IF op[p] = NoOp \/ (op[p].kind = "flush" /\ op[p].stage = "start")
  THEN DeltaDocument(proc[p].doc, proc[p].written)
  ELSE IF op[p].kind = "flush" THEN PendingOf(p)
  ELSE IF op[p].stage = "start" THEN [total |-> proc[p].doc.total + Limbo(p).total,
                                      day |-> [d \in Days |-> At(proc[p].doc.day, d) + At(Limbo(p).day, d)]]
  ELSE proc[p].doc

\* The process ends, at any point.
Exit(p) ==
  /\ proc[p].st # "off"
  /\ erased' = [d \in Days |-> erased[d] + At(Unsaved(p).day, d)]
  /\ proc' = [proc EXCEPT ![p] = Off]
  /\ op' = [op EXCEPT ![p] = NoOp]
  /\ UNCHANGED <<file, today, excess, recorded, lost>>

NextDay ==
  /\ today < LastDay
  /\ today' = today + 1
  /\ UNCHANGED <<file, proc, op, excess, history>>

LoseFile ==
  /\ file.there /\ FileLockFree
  /\ file' = [there |-> FALSE, doc |-> Empty]
  /\ lost' = TRUE
  /\ UNCHANGED <<proc, op, today, excess, recorded, erased>>

Next ==
  \/ \E p \in Procs :
       \/ Open(p) \/ RecordOutcome(p) \/ StartFlush(p) \/ Merge(p) \/ Commit(p) \/ FlushFails(p)
       \/ StartReset(p) \/ ResetWrite(p) \/ ResetCommit(p) \/ ResetFails(p)
       \/ Snapshot(p) \/ Close(p) \/ CloseWithNothing(p) \/ Exit(p)
  \/ NextDay \/ LoseFile

Spec == Init /\ [][Next]_vars
-----------------------------------------------------------------------------
(* The requests of today are in the file's bucket or wait in one process:   *)
(* no flush, failed flush, reset, crash or second process drops one that    *)
(* was recorded or counts it twice ("两边记录的都会累加").                  *)
TodayAddsUp ==
  ~ lost => recorded[today] - erased[today]
            = At(file.doc.day, today) + Total([p \in Procs |-> At(Unsaved(p).day, today)])

(* A snapshot taken while the process flushes, or beside another process,   *)
(* never shows one request twice.                                           *)
ViewNeverOvercounts == ~ excess

(* Close without an error leaves nothing behind in memory, whatever was     *)
(* recorded while the flusher was writing.                                  *)
ClosedIsSaved == \A p \in Procs : proc[p].st = "closed" => Unsaved(p).total = 0
=============================================================================
