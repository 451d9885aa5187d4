---------------------------- MODULE PoolPersist ----------------------------
(***************************************************************************)
(* How the account pool is kept in state.json and mirrored in Redis        *)
(* (internal/pool: persist.go, persist_merge.go, pool.go), by processes    *)
(* that overlap during a hot update, crash, and start again.               *)
(*                                                                         *)
(* Of an account's record two fields stand for the rest: count, a counter  *)
(* merged by its increments (success_count, err_total), and flag, a field  *)
(* merged by value or because it was assigned (disabled, until, ...).      *)
(* Every action is one critical section under p.mu, with the file lock     *)
(* where the code takes it.  The file is replaced by a rename, so a reader *)
(* sees one save or the other.  Stamps stand for the clock: a save's       *)
(* modification time, and saved_at of its snapshot, taken right after.     *)
(* Directory and Redis are external.                                       *)
(*                                                                         *)
(* A definition named Faulty... is the one that follows it with a          *)
(* plausible mistake; nothing refers to it, it serves the mutation runs.   *)
(***************************************************************************)
EXTENDS Integers, Totals

CONSTANTS
  Accounts, Procs, None,
  MaxCount,   \* bound: successes noted of one account
  MaxSaves    \* bound: saves


VARIABLES
  file,      \* state.json: whether it exists, its accounts, epochs and stamp
  redis,     \* the snapshot in Redis, the same record
  sending,   \* process -> the snapshot SaveState has not delivered yet, or None
  dir,       \* the accounts whose credentials file exists
  proc,      \* process -> its pool
  counted,   \* history: account -> successes noted by any process
  dropped,   \* history: account -> successes a crash has lost
  past,      \* history: "whole", "shrunk" once an account and "lost" once the file was removed
  assigned,  \* history: process -> accounts whose flag it set since its last save
  borrowed,  \* history: process -> accounts whose flag a restore changed, not saved yet
  listed     \* history: process -> accounts it found, in dir or the snapshot, since a deletion
             \* of them last started an epoch

disk == <<file, dir>>
history == <<counted, dropped, past, assigned, borrowed, listed>>
vars == <<file, redis, sending, dir, proc, counted, dropped, past, assigned, borrowed, listed>>

Records == [count : Nat, flag : BOOLEAN]
Zero == [count |-> 0, flag |-> FALSE]
Nobody == [a \in Accounts |-> None]
NoEpochs == [a \in Accounts |-> 0]
NoFile == [there |-> FALSE, acc |-> Nobody, epoch |-> NoEpochs, stamp |-> 0]

NoIntent == [flag |-> FALSE, created |-> FALSE, createdEpoch |-> 0,
             deleted |-> FALSE, deletedEpoch |-> 0, imported |-> FALSE, floor |-> 0]
NoIntents == [a \in Accounts |-> NoIntent]
Off == [st |-> "off", mem |-> Nobody, base |-> Nobody, epoch |-> NoEpochs,
        intent |-> NoIntents, dirty |-> FALSE]

Init ==
  /\ file = NoFile /\ redis = NoFile
  /\ sending = [p \in Procs |-> None]
  /\ dir = Accounts
  /\ proc = [p \in Procs |-> Off]
  /\ counted = [a \in Accounts |-> 0] /\ dropped = [a \in Accounts |-> 0]
  /\ past = "whole"
  /\ assigned = [p \in Procs |-> {}] /\ borrowed = [p \in Procs |-> {}]
  /\ listed = [p \in Procs |-> {}]

Larger(m, n) == IF m > n THEN m ELSE n
Up(p) == proc[p].st = "up"
Known(r) == IF r = None THEN Zero ELSE r
-----------------------------------------------------------------------------
(* The merge of one save: what the process holds, what it held when it      *)
(* last saved (base) and what the file holds now.                           *)

\* The last process to save wins.
FaultyMergedFlag(base, current, latest, forced) == current

MergedFlag(base, current, latest, forced) ==
  IF forced \/ current # base THEN current ELSE latest

MergedCounter(latest, current, base) ==
  IF current < base THEN current ELSE latest + (current - base)

MergedRecord(base, current, latest, intent) ==
  [count |-> MergedCounter(IF intent.imported THEN Larger(latest.count, intent.floor) ELSE latest.count,
                           current.count, base.count),
   flag |-> MergedFlag(base.flag, current.flag, latest.flag, intent.flag)]

\* The deletion of a applies unless a later one has been saved.
Deletes(q, a, epoch) ==
  q.intent[a].deleted /\ (q.intent[a].deletedEpoch = 0 \/ epoch <= q.intent[a].deletedEpoch)

\* An account the process was told of comes back whatever was deleted since.
FaultySurvives(q, a, epoch) == TRUE

\* A creation counts only for the epoch it was observed in.
Survives(q, a, epoch) == q.intent[a].created => q.intent[a].createdEpoch = epoch

\* The file after process state q is merged into it; f is the file found.
Merged(q, f) ==
  LET known == [a \in Accounts |-> IF f.there THEN Larger(f.epoch[a], q.epoch[a]) ELSE q.epoch[a]]
      epoch == [a \in Accounts |-> IF ~ Deletes(q, a, known[a]) THEN known[a]
                                   ELSE IF q.intent[a].deletedEpoch # 0 THEN q.intent[a].deletedEpoch
                                   ELSE known[a] + 1]
      kept == [a \in Accounts |-> IF Deletes(q, a, known[a]) THEN None ELSE f.acc[a]]
      Account(a) ==
        IF ~ f.there THEN q.mem[a]
        ELSE IF q.mem[a] = None \/ ~ Survives(q, a, epoch[a]) THEN kept[a]
        ELSE IF kept[a] # None THEN MergedRecord(Known(q.base[a]), q.mem[a], kept[a], q.intent[a])
        ELSE IF q.base[a] = None \/ q.intent[a].created THEN q.mem[a]
        ELSE None
  IN  [there |-> TRUE, acc |-> [a \in Accounts |-> Account(a)], epoch |-> epoch, stamp |-> f.stamp + 1]

\* A failed save forgets what it was about to write.
FaultyNoteFail(q) == [q EXCEPT !.base = q.mem, !.dirty = FALSE]

\* notePersistFail: base and intents stay, the flusher tries again.
NoteFail(q) == [q EXCEPT !.dirty = TRUE]

\* saveLocked of process p in state q, which has found the accounts in dir;
\* any step of it may fail before the rename.
Save(p, q, st, found) ==
  \/ /\ file.stamp < MaxSaves
     /\ LET merged == Merged(q, file) IN
        /\ file' = merged
        /\ proc' = [proc EXCEPT ![p] = [q EXCEPT !.st = st, !.base = q.mem, !.epoch = merged.epoch,
                                                 !.intent = NoIntents, !.dirty = FALSE]]
        /\ sending' = [sending EXCEPT ![p] = merged]
        /\ listed' = [o \in Procs |-> {a \in (IF o = p THEN found ELSE listed[o]) :
                         merged.epoch[a] <= Larger(file.epoch[a], q.epoch[a])}]
        /\ past' = IF past = "whole" /\ \E a \in Accounts : q.intent[a].deleted THEN "shrunk" ELSE past
        /\ assigned' = [assigned EXCEPT ![p] = {}]
        /\ borrowed' = [borrowed EXCEPT ![p] = {}]
  \/ /\ proc' = [proc EXCEPT ![p] = [NoteFail(q) EXCEPT !.st = st]]
     /\ listed' = [listed EXCEPT ![p] = found]
     /\ UNCHANGED <<file, sending, past, assigned, borrowed>>
-----------------------------------------------------------------------------
\* New: load reads the file; the flusher has nothing to save yet.
Load(p) ==
  /\ proc[p].st = "off"
  /\ proc' = [proc EXCEPT ![p] = [Off EXCEPT !.st = "loaded", !.mem = file.acc, !.base = file.acc,
                                             !.epoch = file.epoch]]
  /\ UNCHANGED <<disk, redis, sending, history>>

ImportedBase(known, snap) == [Known(known) EXCEPT !.count = snap.count]

\* applySnapshotLocked: the snapshot's accounts replace the ones loaded; the
\* base takes their counters, to be added to the file's only when they grow.
Restored(q) ==
  LET known == q.base  snap == redis.acc IN
  [q EXCEPT
     !.mem = snap,
     !.epoch = [a \in Accounts |-> Larger(q.epoch[a], redis.epoch[a])],
     !.base = [a \in Accounts |-> IF snap[a] = None THEN known[a]
                                  ELSE ImportedBase(known[a], snap[a])],
     !.intent = [a \in Accounts |->
        IF snap[a] # None
        THEN [NoIntent EXCEPT !.imported = TRUE, !.floor = snap[a].count,
                              !.created = known[a] = None,
                              !.createdEpoch = IF known[a] = None THEN redis.epoch[a] ELSE 0]
        ELSE IF q.mem[a] # None
        THEN [NoIntent EXCEPT !.deleted = TRUE, !.deletedEpoch = redis.epoch[a]]
        ELSE NoIntent],
     !.dirty = TRUE]

\* RestoreFromSnapshot takes the snapshot unless the file is newer.
TakesSnapshot == redis.there /\ (file.there => file.stamp <= redis.stamp)

Restore(p) ==
  /\ proc[p].st = "loaded"
  /\ proc' = [proc EXCEPT ![p] = [(IF TakesSnapshot THEN Restored(proc[p]) ELSE proc[p]) EXCEPT !.st = "restored"]]
  /\ borrowed' = [borrowed EXCEPT ![p] =
                    IF TakesSnapshot
                    THEN {a \in Accounts : redis.acc[a] # None /\ redis.acc[a].flag # Known(proc[p].base[a]).flag}
                    ELSE {}]
  /\ listed' = [listed EXCEPT ![p] = @ \cup {a \in Accounts : TakesSnapshot /\ redis.acc[a] # None}]
  /\ UNCHANGED <<disk, redis, sending, counted, dropped, past, assigned>>

\* upsertLocked of every account in dir, after a look at the file's epochs.
Upserted(q) ==
  LET seen == [a \in Accounts |-> IF file.there THEN Larger(q.epoch[a], file.epoch[a]) ELSE q.epoch[a]]
      New(a) == a \in dir /\ (q.mem[a] = None \/ file.acc[a] = None \/ seen[a] # q.epoch[a])
  IN  [q EXCEPT
         !.mem = [a \in Accounts |-> IF a \in dir THEN Known(q.mem[a]) ELSE q.mem[a]],
         !.base = [a \in Accounts |-> IF a \in dir /\ q.mem[a] = None THEN Zero ELSE q.base[a]],
         !.intent = [a \in Accounts |->
            IF New(a) THEN [q.intent[a] EXCEPT !.created = TRUE, !.deleted = FALSE, !.createdEpoch = seen[a]]
            ELSE q.intent[a]]]

\* The accounts without a credentials file leave the pool.
Dropped(q) ==
  [q EXCEPT
     !.mem = [a \in Accounts |-> IF a \in dir THEN q.mem[a] ELSE None],
     !.intent = [a \in Accounts |-> IF a \notin dir /\ q.mem[a] # None
                                    THEN [q.intent[a] EXCEPT !.deleted = TRUE, !.deletedEpoch = 0]
                                    ELSE q.intent[a]]]

\* SyncToDir: a save follows only when an account has left.
SyncToDir(p) ==
  LET q == Upserted(proc[p]) IN
  /\ proc[p].st = "restored"
  /\ IF \E a \in Accounts \ dir : q.mem[a] # None
     THEN Save(p, Dropped(q), "up", dir)
     ELSE /\ proc' = [proc EXCEPT ![p] = [q EXCEPT !.st = "up"]]
          /\ listed' = [listed EXCEPT ![p] = dir]
          /\ UNCHANGED <<file, sending, past, assigned, borrowed>>
  /\ UNCHANGED <<dir, redis, counted, dropped>>

\* NoteSuccess and NoteError, as far as the counter goes.
Count(p, a) ==
  /\ Up(p) /\ proc[p].mem[a] # None /\ counted[a] < MaxCount
  /\ proc' = [proc EXCEPT ![p].mem[a].count = @ + 1, ![p].dirty = TRUE]
  /\ counted' = [counted EXCEPT ![a] = @ + 1]
  /\ UNCHANGED <<disk, redis, sending, dropped, past, assigned, borrowed, listed>>

\* An assignment marked by markStateFieldsLocked: Disable, ReviveDisabled, ...
Assign(p, a, v) ==
  /\ Up(p) /\ proc[p].mem[a] # None
  /\ proc' = [proc EXCEPT ![p].mem[a].flag = v, ![p].intent[a].flag = TRUE, ![p].dirty = TRUE]
  /\ assigned' = [assigned EXCEPT ![p] = @ \cup {a}]
  /\ UNCHANGED <<disk, redis, sending, counted, dropped, past, borrowed, listed>>

\* The flusher's tick, or Flush.
Flush(p) ==
  /\ proc[p].st # "off" /\ proc[p].dirty
  /\ Save(p, [proc[p] EXCEPT !.dirty = FALSE], proc[p].st, listed[p])
  /\ UNCHANGED <<dir, redis, counted, dropped>>

Unsaved(p, a) ==
  IF proc[p].mem[a] = None THEN 0 ELSE proc[p].mem[a].count - Known(proc[p].base[a]).count

\* The process ends: without a save, or after Close has flushed everything.
Exit(p) ==
  /\ proc[p].st # "off"
  /\ dropped' = [a \in Accounts |-> dropped[a] + Unsaved(p, a)]
  /\ proc' = [proc EXCEPT ![p] = Off]
  /\ sending' = [sending EXCEPT ![p] = None]
  /\ assigned' = [assigned EXCEPT ![p] = {}]
  /\ borrowed' = [borrowed EXCEPT ![p] = {}]
  /\ listed' = [listed EXCEPT ![p] = {}]
  /\ UNCHANGED <<disk, redis, counted, past>>

\* Redis takes the snapshot; a write that fails is never repeated.
Deliver(p) ==
  /\ sending[p] # None
  /\ redis' \in {sending[p], redis}
  /\ sending' = [sending EXCEPT ![p] = None]
  /\ UNCHANGED <<disk, proc, history>>

\* The operator adds or removes a credentials file, or loses the state file.
ChangeDir(a) ==
  /\ dir' = IF a \in dir THEN dir \ {a} ELSE dir \cup {a}
  /\ UNCHANGED <<file, redis, sending, proc, history>>

LoseFile ==
  /\ file.there
  /\ file' = [NoFile EXCEPT !.stamp = file.stamp]
  /\ past' = "lost"
  /\ UNCHANGED <<redis, sending, dir, proc, counted, dropped, assigned, borrowed, listed>>

Next ==
  \/ \E p \in Procs :
       \/ Load(p) \/ Restore(p) \/ SyncToDir(p) \/ Flush(p) \/ Exit(p) \/ Deliver(p)
       \/ \E a \in Accounts : Count(p, a) \/ \E v \in BOOLEAN : Assign(p, a, v)
  \/ \E a \in Accounts : ChangeDir(a)
  \/ LoseFile

Spec == Init /\ [][Next]_vars
-----------------------------------------------------------------------------
FileCount(a) == Known(file.acc[a]).count
AllUnsaved(a) == Total([p \in Procs |-> Unsaved(p, a)])

(* Counters of several processes add up: until an account or the file is    *)
(* removed, what was counted is in the file, or waits in a process that     *)
(* runs, or was lost with one that crashed; nothing is lost or counted      *)
(* twice by a merge, a failed save, a restart or an imported snapshot.      *)
CountsAddUp ==
  past = "whole" => \A a \in Accounts : counted[a] = FileCount(a) + AllUnsaved(a) + dropped[a]

Saves(p) == proc'[p] # proc[p] /\ file.there /\ file'.there

(* "an old process's last save does not overwrite newer state": a field of  *)
(* the file changes only in the save of a process that assigned it since    *)
(* its last save, or restored another value of it from the snapshot.        *)
OnlyAssignedChange ==
  [][\A p \in Procs, a \in Accounts :
       Saves(p) /\ file.acc[a] # None /\ file'.acc[a] # None /\ file'.acc[a].flag # file.acc[a].flag
         => a \in assigned[p] \cup borrowed[p]]_vars

(* A deleted account does not come back: a deletion starts an epoch, and an *)
(* account that is not in the file enters it only through a process that    *)
(* found it since, in the credentials directory or in a snapshot as new as  *)
(* the file; no creation or copy from before the deletion survives, however *)
(* many processes still hold one.  (A restore may repeat in a new file the  *)
(* deletion its snapshot knows: that starts no epoch and binds nobody.  The *)
(* epochs are in the file, if it is not lost.)                              *)
NoResurrection ==
  [][\A p \in Procs, a \in Accounts :
       past # "lost" /\ Saves(p) /\ file.acc[a] = None /\ file'.acc[a] # None => a \in listed'[p]]_vars
=============================================================================
