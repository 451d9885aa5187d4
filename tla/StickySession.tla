--------------------------- MODULE StickySession ---------------------------
(***************************************************************************)
(* The sticky-session router (internal/session) on top of the mirror in    *)
(* Redis.  A chat request resolves the account its session is bound to and *)
(* in the end binds the account that answered, or unbinds; a collector     *)
(* drops old bindings.  Every action is one critical section under r.mu,   *)
(* or one call of the store, which the code makes after the unlock (under  *)
(* it only when it allocates): between the two any other goroutine may     *)
(* run.  Which of the candidate accounts the hash picks is left open, and  *)
(* so is which accounts the pool calls available at each moment.           *)
(*                                                                         *)
(* The mirror is the queue per key of MirrorQueue, which RedisMirror       *)
(* implements.  Time is counted in ticks: a binding is dead when its age   *)
(* is above TTL.  A definition named Faulty... is the one that follows it  *)
(* with a plausible mistake; it serves the mutation runs.                  *)
(***************************************************************************)
EXTENDS Naturals, Sequences

CONSTANTS
  Keys, Uids, None,
  Reqs,       \* chat requests
  TTL,        \* ticks a binding lives without being renewed
  MaxQueue    \* bound: writes of one key that wait

ASSUME NamesAssumption == None \notin Reqs \cup Uids
ASSUME BoundAssumption == TTL \in Nat /\ MaxQueue \in Nat

VARIABLES
  queue,     \* the mirror, see MirrorQueue
  remote,
  open,
  entries,   \* key -> [uid, age], uid None when the key is not bound
  avail,     \* what AvailableForModel returns now
  mu,        \* the request that allocates and still holds r.mu
  req,       \* request -> where it stands, its key, snapshot and account
  gcDue,     \* keys collected and not yet deleted from the mirror
  sent,      \* history: key -> the value last submitted to the mirror
  made,      \* history: key -> that write was made and Redis still holds it
  doubt,     \* history: key -> why sent may differ from the binding, or "none"
  calm       \* history: key -> nothing but resolutions since the first active one began

redis == <<queue, remote, open>>
session == <<entries, mu>>
vars == <<queue, remote, open, entries, avail, mu, req, gcDue, sent, made, doubt, calm>>

told == <<sent, made>>
history == <<told, doubt>>
Mirror == INSTANCE MirrorQueue

Values == Uids \cup {None}
Absent == [uid |-> None, age |-> 0]
Rest == [pc |-> "idle", key |-> None, snap |-> {}, uid |-> None]

Init ==
  /\ Mirror!Init
  /\ entries = [k \in Keys |-> Absent]
  /\ avail = Uids
  /\ mu = None
  /\ req = [r \in Reqs |-> Rest]
  /\ gcDue = {}
  /\ sent = [k \in Keys |-> None]
  /\ made = [k \in Keys |-> TRUE]
  /\ doubt = [k \in Keys |-> "none"]
  /\ calm = [k \in Keys |-> TRUE]

Room(k) == Len(queue[k]) < MaxQueue
Live(k) == entries[k].uid # None /\ entries[k].age <= TTL
Fresh(u) == [uid |-> u, age |-> 0]

\* A change of k whose write is submitted later, while another one's is due.
Pending(k) == k \in gcDue \/ \E r \in Reqs : req[r].key = k /\ req[r].pc \in {"set", "mirror", "last"}
Marked(k) == [doubt EXCEPT ![k] = IF Pending(k) THEN "race" ELSE "none"]

\* Request r stands here now, with this account; the snapshot is used up.
Goes(r, pc, u) ==
  req' = [req EXCEPT ![r] = [pc |-> pc, key |-> req[r].key, snap |-> {}, uid |-> u]]

Submit(k, v) ==
  /\ Mirror!Accept(k, v)
  /\ sent' = [sent EXCEPT ![k] = v] /\ made' = [made EXCEPT ![k] = FALSE]

\* ResolveForModel asks the pool before it takes any lock.
Begin(r, k) ==
  /\ req[r].pc = "idle" /\ open
  /\ req' = [req EXCEPT ![r] = [pc |-> "fast", key |-> k, snap |-> avail, uid |-> None]]
  /\ calm' = [calm EXCEPT ![k] = @ \/ \A other \in Reqs : req[other].key # k]
  /\ UNCHANGED <<redis, session, avail, gcDue, history>>

FastPath(r) ==
  LET k == req[r].key  e == entries[k] IN
  /\ req[r].pc = "fast" /\ mu = None
  /\ IF Live(k) /\ e.uid \in req[r].snap
     THEN Goes(r, "touch", e.uid)
     ELSE req' = [req EXCEPT ![r].pc = "slow"]
  /\ UNCHANGED <<redis, session, avail, gcDue, history, calm>>

\* touch writes what the fast path read, whatever the entry is by now.
Touch(r) ==
  LET k == req[r].key IN
  /\ req[r].pc = "touch" /\ mu = None
  /\ entries' = [entries EXCEPT ![k] = Fresh(req[r].uid)]
  /\ doubt' = Marked(k)
  /\ req' = [req EXCEPT ![r].pc = "mirror"]
  /\ UNCHANGED <<redis, mu, avail, gcDue, told, calm>>

\* No second look: every request that missed allocates.
FaultyHolds(r) == FALSE

\* The second look, under r.mu.
Holds(r) == Live(req[r].key) /\ entries[req[r].key].uid \in req[r].snap

SlowHit(r) ==
  LET k == req[r].key IN
  /\ req[r].pc = "slow" /\ mu = None
  /\ Holds(r)
  /\ entries' = [entries EXCEPT ![k].age = 0]
  /\ Goes(r, "held", entries[k].uid)
  /\ UNCHANGED <<redis, mu, avail, gcDue, history, calm>>

\* The bindings left once the one that does not hold is deleted.
Kept(k) == IF Live(k) THEN [entries EXCEPT ![k] = Absent] ELSE entries

Candidates(bindings) ==
  LET idle == {u \in avail : \A k \in Keys : bindings[k].uid # u}
  IN  IF idle = {} THEN avail ELSE idle

\* No account: a deleted binding is not deleted from the mirror.
SlowNone(r) ==
  LET k == req[r].key IN
  /\ req[r].pc = "slow" /\ mu = None
  /\ ~ Holds(r)
  /\ avail = {}
  /\ entries' = Kept(k)
  /\ doubt' = [doubt EXCEPT ![k] = IF Live(k) /\ @ = "none" THEN "orphan" ELSE @]
  /\ Goes(r, "held", None)
  /\ UNCHANGED <<redis, mu, avail, gcDue, told, calm>>

\* A new binding; a different one that had expired is deleted from the mirror
\* first, and r.mu is held over both calls.
SlowAllocate(r) ==
  LET k == req[r].key  kept == Kept(k) IN
  /\ req[r].pc = "slow" /\ mu = None /\ Room(k)
  /\ ~ Holds(r)
  /\ \E u \in Candidates(kept) :
       /\ entries' = [kept EXCEPT ![k] = Fresh(u)]
       /\ Goes(r, "set", u)
       /\ IF kept[k].uid \notin {None, u}
          THEN Submit(k, None) ELSE UNCHANGED <<redis, told>>
  /\ mu' = r
  /\ doubt' = Marked(k)
  /\ UNCHANGED <<avail, gcDue, calm>>

\* A return that leaves r.mu locked.
SlowSet(r) ==
  /\ req[r].pc = "set" /\ Room(req[r].key)
  /\ Submit(req[r].key, req[r].uid)
  /\ mu' = None
  /\ req' = [req EXCEPT ![r].pc = "held"]
  /\ UNCHANGED <<entries, avail, gcDue, doubt, calm>>

\* SetBind at the end of touch.
MirrorTouch(r) ==
  /\ req[r].pc = "mirror" /\ Room(req[r].key)
  /\ Submit(req[r].key, req[r].uid)
  /\ req' = [req EXCEPT ![r].pc = "held"]
  /\ UNCHANGED <<session, avail, gcDue, doubt, calm>>

\* Bind: the account that answered may be another one than the bound one.
Bind(r, u) ==
  LET k == req[r].key IN
  /\ req[r].pc = "held" /\ mu = None
  /\ entries' = [entries EXCEPT ![k] = Fresh(u)]
  /\ doubt' = Marked(k)
  /\ Goes(r, "last", u)
  /\ calm' = [calm EXCEPT ![k] = FALSE]
  /\ UNCHANGED <<redis, mu, avail, gcDue, told>>

\* The deletion is not mirrored.
FaultyUnbind(r) ==
  LET k == req[r].key IN
  /\ req[r].pc = "held" /\ mu = None
  /\ entries' = [entries EXCEPT ![k] = IF req[r].uid # None THEN Absent ELSE @]
  /\ req' = [req EXCEPT ![r] = Rest]
  /\ calm' = [calm EXCEPT ![k] = FALSE]
  /\ UNCHANGED <<redis, mu, avail, gcDue, history>>

\* Unbind after a failure, only of a request that had resolved an account.
Unbind(r) ==
  LET k == req[r].key  found == entries[k].uid # None IN
  /\ req[r].pc = "held" /\ mu = None
  /\ entries' = [entries EXCEPT ![k] = IF req[r].uid # None THEN Absent ELSE @]
  /\ IF req[r].uid # None /\ found
     THEN Goes(r, "last", None) /\ doubt' = Marked(k)
     ELSE req' = [req EXCEPT ![r] = Rest] /\ UNCHANGED doubt
  /\ calm' = [calm EXCEPT ![k] = FALSE]
  /\ UNCHANGED <<redis, mu, avail, gcDue, told>>

\* The SetBind of Bind, the DelBind of Unbind.
MirrorLast(r) ==
  /\ req[r].pc = "last" /\ Room(req[r].key)
  /\ Submit(req[r].key, req[r].uid)
  /\ req' = [req EXCEPT ![r] = Rest]
  /\ UNCHANGED <<session, avail, gcDue, doubt, calm>>

\* gcOnce deletes under the lock and mirrors after it.
Collect ==
  LET old == {k \in Keys : entries[k].uid # None /\ ~ Live(k)} IN
  /\ gcDue = {} /\ old # {} /\ mu = None /\ open
  /\ entries' = [k \in Keys |-> IF k \in old THEN Absent ELSE entries[k]]
  /\ gcDue' = old
  /\ doubt' = [k \in Keys |-> IF k \in old THEN Marked(k)[k] ELSE doubt[k]]
  /\ UNCHANGED <<redis, mu, avail, req, told, calm>>

MirrorCollected(k) ==
  /\ k \in gcDue /\ Room(k)
  /\ Submit(k, None)
  /\ gcDue' = gcDue \ {k}
  /\ UNCHANGED <<session, avail, req, doubt, calm>>

PoolChanges ==
  /\ \E some \in SUBSET Uids : some # avail /\ avail' = some
  /\ calm' = [k \in Keys |-> FALSE]
  /\ UNCHANGED <<redis, session, req, gcDue, history>>

\* A tick of the clock; more than TTL + 1 ticks are not told apart.  Redis has
\* a clock of its own, and the renewal of SlowHit never reaches it.
Tick ==
  /\ entries' = [k \in Keys |-> IF entries[k].uid = None \/ entries[k].age > TTL
                                THEN entries[k] ELSE [entries[k] EXCEPT !.age = @ + 1]]
  /\ \E lapsed \in SUBSET Keys :
       /\ Mirror!Expire(lapsed)
       /\ made' = [k \in Keys |-> made[k] /\ (k \notin lapsed \/ remote[k] = None)]
  /\ calm' = [k \in Keys |-> FALSE]
  /\ UNCHANGED <<mu, avail, req, gcDue, sent, doubt>>

Write ==
  /\ \E k \in Keys :
       /\ Mirror!Make(k)
       /\ made' = [made EXCEPT ![k] = Len(queue[k]) = 1 /\ remote'[k] = Head(queue[k])]
  /\ UNCHANGED <<session, avail, req, gcDue, sent, doubt, calm>>

\* A write of the process this one took over from, which drains for minutes.
Meddle ==
  /\ \E k \in Keys :
       /\ \E v \in Values : remote' = [remote EXCEPT ![k] = v]
       /\ made' = [made EXCEPT ![k] = FALSE]
  /\ UNCHANGED <<queue, open, session, avail, req, gcDue, sent, doubt, calm>>

\* drainRuntime: the handlers have ended and StopGC has returned before closeStore.
Shutdown ==
  /\ \A r \in Reqs : req[r].pc = "idle"
  /\ gcDue = {}
  /\ Mirror!Close
  /\ UNCHANGED <<session, avail, req, gcDue, history, calm>>

\* LoadFromStore restores what LoadBinds could read before the scan, or the
\* reading of one key, failed: any part of what Redis holds, none at all if it
\* cannot be reached.
LoadFromStore(loaded) ==
  entries' = [k \in Keys |-> IF k \in loaded THEN Fresh(remote[k]) ELSE Absent]

\* The process dies, after a shutdown or in the middle of anything, and the
\* next one starts; what the mirror was told last is still what it was.
Restart ==
  /\ Mirror!Restart
  /\ \E loaded \in SUBSET {k \in Keys : remote[k] # None} :
       /\ LoadFromStore(loaded)
       /\ doubt' = [k \in Keys |-> IF made[k] /\ (k \in loaded \/ remote[k] = None)
                                   THEN "none" ELSE "lost"]
  /\ mu' = None
  /\ req' = [r \in Reqs |-> Rest]
  /\ gcDue' = {}
  /\ calm' = [k \in Keys |-> FALSE]
  /\ UNCHANGED <<avail, told>>

Next ==
  \/ \E r \in Reqs :
       \/ \E k \in Keys : Begin(r, k)
       \/ FastPath(r) \/ Touch(r) \/ MirrorTouch(r)
       \/ SlowHit(r) \/ SlowNone(r) \/ SlowAllocate(r) \/ SlowSet(r)
       \/ \E u \in Uids : Bind(r, u)
       \/ Unbind(r) \/ MirrorLast(r)
  \/ Collect \/ \E k \in Keys : MirrorCollected(k)
  \/ PoolChanges \/ Tick \/ Write \/ Meddle \/ Shutdown \/ Restart

Spec == Init /\ [][Next]_vars
-----------------------------------------------------------------------------
(* Once every change of a key has been submitted, what was submitted last   *)
(* is what the router holds, whatever touch, allocation, collection, Bind   *)
(* and Unbind did to the key, and across a crash and the restart that loads *)
(* the bindings from the mirror; unless two changes overlapped between lock *)
(* and submission ("race"), the last resolution dropped a binding and found *)
(* no account ("orphan"), or since the restart nobody has bound the key,    *)
(* whose last write had not reached Redis, or lapsed there, or was not read *)
(* ("lost"): the three ways router and mirror can disagree.                 *)
SentIsBinding ==
  \A k \in Keys : ~ Pending(k) /\ doubt[k] = "none" => sent[k] = entries[k].uid

(* "avoids allocating one key twice": requests of one session that resolve  *)
(* at the same time all hold the same account, as long as the pool, the     *)
(* clock and the end of a request have not interfered.                      *)
OneAccountPerSession ==
  \A r, s \in Reqs :
    LET held == {q \in {r, s} : req[q].pc \in {"touch", "set", "mirror", "held"} /\ req[q].uid # None}
    IN  held = {r, s} /\ req[r].key = req[s].key /\ calm[req[r].key] => req[r].uid = req[s].uid
=============================================================================
