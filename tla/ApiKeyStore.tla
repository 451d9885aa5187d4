---------------------------- MODULE ApiKeyStore ----------------------------
(***************************************************************************)
(* The API keys (internal/apikeys: store.go, admin.go), kept in one file   *)
(* by processes that overlap during a hot update: requests are checked     *)
(* against a cached copy that is read again when the file looks different. *)
(*                                                                         *)
(* A key is "none" until it is created, then "on" or "off", then "gone".   *)
(* Every write replaces the file by a new one, whose inode may be that of  *)
(* the file before the last; modification times of writes differ.  The     *)
(* size tells "on" from "off".  A process does one thing at a time, under  *)
(* s.mu.  Encoding and validation of names and models are left out.        *)
(* A definition named Faulty... precedes the one it is a mistake in.       *)
(***************************************************************************)
EXTENDS Naturals, FiniteSets, FiniteSetsExt

CONSTANTS
  Procs, Keys, None,
  Legacy,     \* the key of the configuration, imported when there is no file
  MaxKeys,
  MaxWrites   \* bound: writes of the file

States == {"none", "on", "off", "gone"}
Files == [keys : [Keys -> States], ino : {1, 2}, time : Nat]

ASSUME KeysAssumption == Legacy \in Keys /\ None \notin Procs \cup Keys \cup Files
ASSUME LimitAssumption == MaxKeys \in Nat \ {0} /\ MaxWrites \in Nat

VARIABLES
  file,   \* api_keys.json: its keys, inode and modification time, or None
  proc,   \* process -> its Store: cached keys, fileInfo, and what it is doing
  truth,  \* history: key -> its state after the operations that succeeded
  seen    \* history: process -> the states of the key since its Resolve began

vars == <<file, proc, truth, seen>>

NoKeys == [k \in Keys |-> "none"]
Off == [st |-> "off", keys |-> NoKeys, info |-> None, key |-> None, to |-> None]
Live(keys) == {k \in Keys : keys[k] \in {"on", "off"}}
Size(keys) == MapThenSumSet(LAMBDA k : IF keys[k] = "on" THEN 2 ELSE 3, Live(keys))
Info(f) == [ino |-> f.ino, size |-> Size(f.keys), time |-> f.time]

Init ==
  /\ file = None
  /\ proc = [p \in Procs |-> Off]
  /\ truth = NoKeys
  /\ seen = [p \in Procs |-> {}]

\* Whoever writes the file holds the lock of the file from its refresh on.
LockHolders == {p \in Procs : proc[p].st = "changing"}

\* The file as the next write leaves it.
Written(keys) ==
  IF file = None THEN [keys |-> keys, ino |-> 1, time |-> 1]
  ELSE [keys |-> keys, ino |-> 3 - file.ino, time |-> file.time + 1]

Writable == file = None \/ file.time < MaxWrites

\* The file counts as unchanged when its size is.
FaultyUnchanged(info) == info # None /\ info.ino = Info(file).ino /\ info.size = Info(file).size

\* refreshLocked keeps the cache for the same inode, size and time.
Unchanged(info) == info = Info(file)

Cache(keys, f) == [keys |-> keys, info |-> Info(f)]
Refreshed(q) == IF Unchanged(q.info) THEN [keys |-> q.keys, info |-> q.info] ELSE Cache(file.keys, file)

\* A process that does st (to key, if any) with the cached copy c.
Doing(st, c, key, to) == [st |-> st, keys |-> c.keys, info |-> c.info, key |-> key, to |-> to]
-----------------------------------------------------------------------------
\* Open: without a file the configured key is imported.
Open(p) ==
  /\ proc[p].st = "off" /\ LockHolders = {}
  /\ IF file # None
     THEN /\ proc' = [proc EXCEPT ![p] = Doing("up", Cache(file.keys, file), None, None)]
          /\ UNCHANGED <<file, truth>>
     ELSE LET keys == [NoKeys EXCEPT ![Legacy] = "on"] IN
          /\ file' = Written(keys)
          /\ proc' = [proc EXCEPT ![p] = Doing("up", Cache(keys, Written(keys)), None, None)]
          /\ truth' = keys
  /\ UNCHANGED seen

\* A change rereads the file without the lock of the file.
FaultyFileLockFree == TRUE

FileLockFree == LockHolders = {}

\* Create, Update and Delete: lockAndRefresh, then the checks.
Change(p, k, to) ==
  /\ proc[p].st = "up" /\ FileLockFree
  /\ LET q == Refreshed(proc[p]) IN
     /\ CASE to = "gone" -> k \in Live(q.keys)
          [] k \in Live(q.keys) -> q.keys[k] # to
          [] OTHER -> q.keys[k] = "none" /\ to = "on" /\ Cardinality(Live(q.keys)) < MaxKeys
     /\ proc' = [proc EXCEPT ![p] = Doing("changing", q, k, to)]
  /\ UNCHANGED <<file, truth, seen>>

Watch(k, state) == [p \in Procs |-> IF proc[p].st = "resolving" /\ proc[p].key = k THEN seen[p] \cup {state} ELSE seen[p]]

\* commit: a write that fails changes nothing.
Commit(p) ==
  /\ proc[p].st = "changing"
  /\ \/ /\ Writable
        /\ LET q == proc[p]
               keys == [q.keys EXCEPT ![q.key] = q.to] IN
           /\ file' = Written(keys)
           /\ proc' = [proc EXCEPT ![p] = Doing("up", Cache(keys, Written(keys)), None, None)]
           /\ truth' = [truth EXCEPT ![q.key] = q.to]
           /\ seen' = Watch(q.key, q.to)
     \/ /\ proc' = [proc EXCEPT ![p] = Doing("up", @, None, None)]
        /\ UNCHANGED <<file, truth, seen>>

\* Resolve looks at the file and, if need be, reads it again.
Resolve(p, k) ==
  /\ proc[p].st = "up"
  /\ proc' = [proc EXCEPT ![p] = Doing("resolving", Refreshed(@), k, None)]
  /\ seen' = [seen EXCEPT ![p] = {truth[k]}]
  /\ UNCHANGED <<file, truth>>

\* Its answer: a key that is enabled, or none when the file cannot be read.
Answer(p, accepted) ==
  /\ proc[p].st = "resolving"
  /\ accepted => proc[p].keys[proc[p].key] = "on"
  /\ proc' = [proc EXCEPT ![p] = Doing("up", @, None, None)]
  /\ seen' = [seen EXCEPT ![p] = {}]
  /\ UNCHANGED <<file, truth>>

\* The process ends, at any point; the lock of the file goes with it.
Exit(p) ==
  /\ proc[p].st # "off"
  /\ proc' = [proc EXCEPT ![p] = Off]
  /\ seen' = [seen EXCEPT ![p] = {}]
  /\ UNCHANGED <<file, truth>>

Next ==
  \E p \in Procs :
    \/ Open(p) \/ Commit(p) \/ Exit(p)
    \/ \E k \in Keys, to \in {"on", "off", "gone"} : Change(p, k, to)
    \/ \E k \in Keys : Resolve(p, k)
    \/ \E accepted \in BOOLEAN : Answer(p, accepted)

Spec == Init /\ [][Next]_vars
-----------------------------------------------------------------------------
(* "A draining process must not overwrite a newer instance's key            *)
(* revocations": the file always holds the result of every change that      *)
(* succeeded, whichever process made it, and never more than MaxKeys keys.  *)
FileIsTruth ==
  /\ file = None \/ file.keys = truth
  /\ Cardinality(Live(truth)) <= MaxKeys

(* A key is accepted only if it was enabled at some moment of the check, a  *)
(* key revoked by any process before the request came never again.          *)
RevokedIsRefused ==
  [][\A p \in Procs : Answer(p, TRUE) => "on" \in seen[p]]_vars
=============================================================================
