---------------------------- MODULE MCSharedFiles ----------------------------
(***************************************************************************)
(* The three files that overlapping processes of the gateway share, each   *)
(* with its lock, merge and atomic replacement: the API keys, the account  *)
(* pool's state and the usage ledger.  The stores never touch each other,  *)
(* so a behaviour is of one of them, which "store" names, and the others   *)
(* stay as they were; each property speaks of one store.                   *)
(***************************************************************************)
EXTENDS ApiKeyStore, TLC

CONSTANTS
  Accounts, MaxCount, MaxSaves,                \* of PoolPersist
  NoOp, MaxDayBuckets, LastDay, MaxRecords     \* of UsageLedger

VARIABLES
  store,
  poolFile, redis, sending, dir, poolProc, counted, dropped, past, assigned, borrowed, listed,
  usageFile, usageProc, op, today, excess, recorded, erased, lost

poolVars == <<poolFile, redis, sending, dir, poolProc, counted, dropped, past, assigned, borrowed, listed>>
usageVars == <<usageFile, usageProc, op, today, excess, recorded, erased, lost>>

Pool == INSTANCE PoolPersist WITH file <- poolFile, proc <- poolProc
Usage == INSTANCE UsageLedger WITH file <- usageFile, proc <- usageProc

ASSUME PoolAssumption ==
  IsFiniteSet(Procs) /\ None \notin Accounts \cup Procs \cup Pool!Records
ASSUME PoolBounds == MaxCount \in Nat /\ MaxSaves \in Nat
ASSUME UsageAssumption == MaxDayBuckets \in Nat \ {0} /\ NoOp \notin Usage!Operations
ASSUME UsageBounds == LastDay \in Nat \ {0} /\ MaxRecords \in Nat

StoresInit ==
  /\ store \in {"keys", "pool", "usage"}
  /\ Init /\ Pool!Init /\ Usage!Init

StoresNext ==
  \/ store = "keys" /\ Next /\ UNCHANGED <<store, poolVars, usageVars>>
  \/ store = "pool" /\ Pool!Next /\ UNCHANGED <<store, vars, usageVars>>
  \/ store = "usage" /\ Usage!Next /\ UNCHANGED <<store, vars, poolVars>>

StoresSpec == StoresInit /\ [][StoresNext]_<<store, vars, poolVars, usageVars>>

(* Counters that two processes of the pool keep add up in state.json: no    *)
(* merge, failed save, restart or imported snapshot loses or doubles one.   *)
CountsAddUp == Pool!CountsAddUp

(* The last save of an old process does not overwrite newer state: a field  *)
(* of state.json changes only by a process that assigned it.                *)
OnlyAssignedChange == Pool!OnlyAssignedChange

(* An account deleted from the pool comes back only through a process that  *)
(* found it since, in the directory or in a snapshot as new as the file.    *)
NoResurrection == Pool!NoResurrection

(* Requests of today are in usage.json or wait in one process, once.        *)
TodayAddsUp == Usage!TodayAddsUp

(* A usage snapshot never shows a request twice.                            *)
ViewNeverOvercounts == Usage!ViewNeverOvercounts

(* A ledger that closed without an error has left nothing in memory.        *)
ClosedIsSaved == Usage!ClosedIsSaved

\* Processes are interchangeable in every property.
Interchangeable == Permutations(Procs)
=============================================================================
