---------------------------- MODULE ChatRotation ----------------------------
(***************************************************************************)
(* Chat requests served concurrently from one account pool                 *)
(* (internal/server/handler.go chatCompletions over internal/pool and      *)
(* internal/session).  Every action is one critical section of the code:   *)
(* a method of the pool under p.mu, one compare-and-swap of a lease        *)
(* counter, or one method of the session router under its lock.  Between   *)
(* two of them any other request, the scheduler or the clock may run.      *)
(*                                                                         *)
(* A member of Requests is a server goroutine slot: when its request is    *)
(* done the next one may arrive in it.  The accounts are those of one      *)
(* realm; weights and costs, which only order the candidates, are left to  *)
(* a free choice among them; balances and statistics are not kept.         *)
(*                                                                         *)
(* A definition named Faulty... is the one that follows it with a          *)
(* plausible mistake; nothing refers to it, it serves the mutation runs.   *)
(***************************************************************************)
EXTENDS AccountEntry, FiniteSets

CONSTANTS
  Accounts, Requests, Sessions,
  None,            \* no account, or a request without a session key
  MaxInFlight,     \* maxInFlight: leases per account, 0 = no limit
  MaxRotate,       \* cfg.MaxRotate: accounts one request may try
  Outcomes,        \* how upstream calls may end in this instance
  RefreshFaults,   \* how a token refresh inside a request may fail
  Maintenance,     \* the background steps of this instance
  Resets           \* ticks to the reset times upstream may announce

\* Answers that make the request move on to another account, and ends of it.
RotatingOutcomes == {"transport", "hardCredit", "rate", "rateReset", "modelRate",
                     "notFound", "banned", "fault", "dead", "server", "blocked"}
FinalOutcomes == {"ok", "rejected", "abandoned"}

ASSUME RequestAssumption ==
  /\ None \notin Accounts /\ None \notin Sessions
  /\ MaxInFlight \in Nat /\ MaxRotate \in Nat
  /\ Outcomes \subseteq RotatingOutcomes \cup FinalOutcomes
  /\ RefreshFaults \subseteq {"dead", "error"}
  /\ Maintenance \subseteq {"checkin", "keepalive", "expiry"}
  /\ Resets \subseteq Nat /\ Resets # {}
  /\ IsFiniteSet(Requests)

VARIABLES
  entry,      \* p.byUID: account -> its Entry
  inFlight,   \* account -> entry.inFlight
  bind,       \* router entries: session -> bound account or None
  pc,         \* request -> where its handler stands
  model,      \* request -> bareModel
  sess,       \* request -> sessKey, None without one
  seen,       \* request -> available, the set ResolveForModel read first
  sticky,     \* request -> stickyUID
  tried,      \* request -> tried
  rounds,     \* request -> accounts taken from the pool so far (loop counter i)
  acct,       \* request -> acct.UID of this round
  held,       \* request -> heldUID
  after       \* request -> where fail() returns to: the loop or the exit

pool == <<entry, inFlight>>
locals == <<model, sess, seen, tried, rounds, acct>>
vars == <<entry, inFlight, bind, pc, model, sess, seen, sticky, tried, rounds, acct, held,
          after>>

Resolving == {"resolve", "lookup", "touch", "assign"}

Places == Resolving \cup {"done", "loop", "acquire", "refresh", "call", "clear",
                          "rebind", "release", "unbind", "exit"}

TypeOK ==
  /\ entry \in [Accounts -> Entry]
  /\ inFlight \in [Accounts -> Nat]
  /\ bind \in [Sessions -> Accounts \cup {None}]
  /\ pc \in [Requests -> Places]
  /\ model \in [Requests -> Models]
  /\ sess \in [Requests -> Sessions \cup {None}]
  /\ seen \in [Requests -> SUBSET Accounts]
  /\ sticky \in [Requests -> Accounts \cup {None}]
  /\ tried \in [Requests -> SUBSET Accounts]
  /\ rounds \in [Requests -> 0..MaxRotate]
  /\ acct \in [Requests -> Accounts \cup {None}]
  /\ held \in [Requests -> Accounts \cup {None}]
  /\ after \in [Requests -> {"loop", "exit"}]

Init ==
  /\ entry = [u \in Accounts |-> NewEntry]
  /\ inFlight = [u \in Accounts |-> 0]
  /\ bind = [s \in Sessions |-> None]
  /\ pc = [r \in Requests |-> "done"]
  /\ model \in [Requests -> Models]
  /\ sess = [r \in Requests |-> None]
  /\ seen = [r \in Requests |-> {}]
  /\ sticky = [r \in Requests |-> None]
  /\ tried = [r \in Requests |-> {}]
  /\ rounds = [r \in Requests |-> 0]
  /\ acct = [r \in Requests |-> None]
  /\ held = [r \in Requests |-> None]
  /\ after = [r \in Requests |-> "loop"]

-----------------------------------------------------------------------------
(* What the pool may hand out.                                             *)

InFlightFull(u) == MaxInFlight > 0 /\ inFlight[u] >= MaxInFlight

Pickable(u, m) == HealthyForModel(entry[u], m) /\ ~InFlightFull(u)

AvailableFor(m) == {u \in Accounts : Pickable(u, m)}

Candidates(r) == AvailableFor(model[r]) \ tried[r]

\* With no candidate: the account whose cooldown or breaker ends first.
Fallback(r) ==
  LET soon == {u \in Accounts \ tried[r] :
                 FallbackEligible(entry[u], model[r]) /\ ~InFlightFull(u)}
  IN {u \in soon : \A v \in soon : Expiry(entry[u]) <= Expiry(entry[v])}

-----------------------------------------------------------------------------
(* Arrival and session resolution.                                         *)

Arrive(r) ==
  /\ pc[r] = "done"
  /\ \E m \in Models, s \in Sessions \cup {None} :
       /\ model' = [model EXCEPT ![r] = m]
       /\ sess' = [sess EXCEPT ![r] = s]
       /\ pc' = [pc EXCEPT ![r] = IF s = None THEN "loop" ELSE "resolve"]
  /\ UNCHANGED <<pool, bind, seen, sticky, tried, rounds, acct, held, after>>

\* ResolveForModel starts with the available accounts (availableSet) ...
Resolve(r) ==
  /\ pc[r] = "resolve"
  /\ seen' = [seen EXCEPT ![r] = AvailableFor(model[r])]
  /\ pc' = [pc EXCEPT ![r] = "lookup"]
  /\ UNCHANGED <<pool, bind, model, sess, sticky, tried, rounds, acct, held, after>>

\* ... then looks the binding up under the read lock.
Lookup(r) ==
  LET u == bind[sess[r]]
  IN /\ pc[r] = "lookup"
     /\ \/ /\ u \in seen[r]
           /\ sticky' = [sticky EXCEPT ![r] = u]
           /\ pc' = [pc EXCEPT ![r] = "touch"]
        \/ /\ u \notin seen[r]
           /\ pc' = [pc EXCEPT ![r] = "assign"]
           /\ UNCHANGED sticky
     /\ UNCHANGED <<pool, bind, locals, held, after>>

\* A hit is written back under the write lock, whatever happened to the
\* binding since it was read.
Touch(r) ==
  /\ pc[r] = "touch"
  /\ bind' = [bind EXCEPT ![sess[r]] = sticky[r]]
  /\ seen' = [seen EXCEPT ![r] = {}]
  /\ pc' = [pc EXCEPT ![r] = "loop"]
  /\ UNCHANGED <<pool, model, sess, sticky, tried, rounds, acct, held, after>>

\* Accounts no other session is bound to come first; the hash that picks one
\* of them is a free choice.
IdleFirst(avail, s) ==
  LET idle == avail \ {bind[t] : t \in Sessions \ {s}}
  IN IF idle # {} THEN idle ELSE avail

\* A miss re-checks the binding under the write lock against the set read at
\* first, drops it if it fails again, and assigns an account that is available
\* now; with none the session stays unbound.
Assign(r) ==
  LET s == sess[r]
      avail == AvailableFor(model[r])
  IN /\ pc[r] = "assign"
     /\ \/ /\ bind[s] \in seen[r]
           /\ sticky' = [sticky EXCEPT ![r] = bind[s]]
           /\ UNCHANGED bind
        \/ /\ bind[s] \notin seen[r]
           /\ \E u \in IdleFirst(avail, s) :
                /\ sticky' = [sticky EXCEPT ![r] = u]
                /\ bind' = [bind EXCEPT ![s] = u]
        \/ /\ bind[s] \notin seen[r] /\ avail = {}
           /\ bind' = [bind EXCEPT ![s] = None]
           /\ UNCHANGED sticky
     /\ seen' = [seen EXCEPT ![r] = {}]
     /\ pc' = [pc EXCEPT ![r] = "loop"]
     /\ UNCHANGED <<pool, model, sess, tried, rounds, acct, held, after>>

-----------------------------------------------------------------------------
(* One round of the rotation: select, take a lease, refresh, call.         *)

Take(r, u) ==
  /\ acct' = [acct EXCEPT ![r] = u]
  /\ tried' = [tried EXCEPT ![r] = @ \cup {u}]
  /\ rounds' = [rounds EXCEPT ![r] = @ + 1]
  /\ pc' = [pc EXCEPT ![r] = "acquire"]
  /\ UNCHANGED after

Looping(r) == pc[r] = "loop" /\ rounds[r] < MaxRotate

\* PickByUIDForModel on the session's account; it does not consult tried.
PickSticky(r) ==
  /\ Looping(r)
  /\ sticky[r] # None
  /\ \/ Pickable(sticky[r], model[r]) /\ Take(r, sticky[r])
     \/ /\ ~Pickable(sticky[r], model[r])
        /\ pc' = [pc EXCEPT ![r] = "unbind"]
        /\ after' = [after EXCEPT ![r] = "loop"]
        /\ UNCHANGED <<acct, tried, rounds>>
  /\ UNCHANGED <<pool, bind, model, sess, seen, sticky, held>>

\* PickExcludingForRealm: expired model marks of every account are dropped
\* first; with no candidate and no fallback the request is refused.
PickAccount(r) ==
  /\ Looping(r)
  /\ sticky[r] = None
  /\ entry' = [u \in Accounts |-> Prune(entry[u])]
  /\ \/ \E u \in Candidates(r) : Take(r, u)
     \/ Candidates(r) = {} /\ \E u \in Fallback(r) : Take(r, u)
     \/ /\ Candidates(r) = {} /\ Fallback(r) = {}
        /\ pc' = [pc EXCEPT ![r] = "exit"]
        /\ UNCHANGED <<acct, tried, rounds, after>>
  /\ UNCHANGED <<inFlight, bind, model, sess, seen, sticky, held>>

\* The rotation budget is used up.
GiveUp(r) ==
  /\ pc[r] = "loop"
  /\ rounds[r] >= MaxRotate
  /\ pc' = [pc EXCEPT ![r] = "exit"]
  /\ UNCHANGED <<pool, bind, locals, sticky, held, after>>

\* The client went away: seen at the top of the loop.
Cancel(r) ==
  /\ pc[r] = "loop"
  /\ pc' = [pc EXCEPT ![r] = "exit"]
  /\ UNCHANGED <<pool, bind, locals, sticky, held, after>>

FaultyAcquire(r) ==                  \* trusts the check made by the selection
  /\ pc[r] = "acquire"
  /\ inFlight' = [inFlight EXCEPT ![acct[r]] = @ + 1]
  /\ held' = [held EXCEPT ![r] = acct[r]]
  /\ pc' = [pc EXCEPT ![r] = "refresh"]
  /\ UNCHANGED <<entry, bind, locals, sticky, after>>

FaultyWaitingAcquire(r) ==           \* waits for a lease to come free
  pc[r] = "acquire" /\ ~InFlightFull(acct[r]) /\ FaultyAcquire(r)

\* The compare-and-swap of Acquire, or its refusal.
Acquire(r) ==
  LET u == acct[r]
  IN /\ pc[r] = "acquire"
     /\ \/ /\ ~InFlightFull(u)
           /\ inFlight' = [inFlight EXCEPT ![u] = @ + 1]
           /\ held' = [held EXCEPT ![r] = u]
           /\ pc' = [pc EXCEPT ![r] = "refresh"]
           /\ UNCHANGED after
        \/ /\ InFlightFull(u)
           /\ pc' = [pc EXCEPT ![r] = IF u = sticky[r] THEN "unbind" ELSE "loop"]
           /\ after' = [after EXCEPT ![r] = "loop"]
           /\ UNCHANGED <<inFlight, held>>
     /\ UNCHANGED <<entry, bind, locals, sticky>>

Goto(r, place) == pc' = [pc EXCEPT ![r] = place] /\ UNCHANGED after
FaultyFail(r, next) == Goto(r, next)   \* leaves the release to the exit
Fail(r, next) == /\ pc' = [pc EXCEPT ![r] = "release"]
                 /\ after' = [after EXCEPT ![r] = next]
SetEntry(u, e) == entry' = [entry EXCEPT ![u] = e]

\* The token is fresh, is refreshed, or cannot be.
Refresh(r) ==
  LET u == acct[r]
  IN /\ pc[r] = "refresh"
     /\ \/ Goto(r, "call") /\ UNCHANGED entry
        \/ /\ "dead" \in RefreshFaults
           /\ SetEntry(u, NoteSessionDead(entry[u])) /\ Fail(r, "loop")
        \/ /\ "error" \in RefreshFaults
           /\ SetEntry(u, NoteError(entry[u])) /\ Fail(r, "loop")
     /\ UNCHANGED <<inFlight, bind, locals, sticky, held>>

\* applyErrorPolicy: what each rotating answer does to the account.
ApplyErrorPolicy(e, o, m, reset) ==
  CASE o = "hardCredit" -> Cooldown(e, HardKind, HardCool, "credit")
    [] o = "modelRate"  -> CooldownSoftForModel(e, m, reset)
    [] o = "rateReset"  -> CooldownSoftRateUntil(e, reset)
    [] o = "rate"       -> CooldownSoftRate(e)
    [] o = "dead"       -> Disable(e, "dead")
    [] o = "notFound"   -> Cooldown(e, SoftKind, NotFoundCool, "404")
    [] o = "banned"     -> Disable(e, "banned")
    [] o = "fault"      -> Cooldown(e, SoftKind, SoftBase, "fault")
    [] o = "server"     -> NoteError(e)
    [] o = "blocked"    -> BlockModelBackoff(e, m)
    [] OTHER            -> e

\* The upstream call ends.  "rejected": the request itself is refused,
\* or its stream fails after output; "abandoned": a reasoning loop, an
\* aggregate that does not parse, a broken output contract or a panic, which
\* leave through the deferred release alone.
Answer(r) ==
  LET u == acct[r]
  IN /\ pc[r] = "call"
     /\ \E o \in Outcomes :
          \/ /\ o = "ok"
             /\ SetEntry(u, NoteSuccess(entry[u])) /\ Goto(r, "clear")
          \/ /\ o \in RotatingOutcomes
             /\ \E reset \in Resets :
                  SetEntry(u, ApplyErrorPolicy(entry[u], o, model[r], reset))
             /\ Fail(r, "loop")
          \/ o = "rejected" /\ Fail(r, "exit") /\ UNCHANGED entry
          \/ o = "abandoned" /\ Goto(r, "exit") /\ UNCHANGED entry
     /\ UNCHANGED <<inFlight, bind, locals, sticky, held>>

-----------------------------------------------------------------------------
(* After the call: success is recorded in three separate steps, failure    *)
(* releases the lease and then unbinds the session.                        *)

ClearBlock(r) ==
  LET u == acct[r]
  IN /\ pc[r] = "clear"
     /\ SetEntry(u, BlockModelClear(entry[u], model[r]))
     /\ Goto(r, "rebind")
     /\ UNCHANGED <<inFlight, bind, locals, sticky, held>>

Rebind(r) ==
  /\ pc[r] = "rebind"
  /\ bind' = IF sess[r] = None THEN bind ELSE [bind EXCEPT ![sess[r]] = acct[r]]
  /\ Goto(r, "exit")
  /\ UNCHANGED <<pool, locals, sticky, held>>

FaultyReleaseHeld(r) ==              \* heldUID stays set
  /\ inFlight' = IF held[r] # None /\ inFlight[held[r]] > 0
                 THEN [inFlight EXCEPT ![held[r]] = @ - 1]
                 ELSE inFlight
  /\ UNCHANGED held

\* Pool.Release of heldUID, if there is one; the counter never goes below 0.
ReleaseHeld(r) ==
  /\ inFlight' = IF held[r] # None /\ inFlight[held[r]] > 0
                 THEN [inFlight EXCEPT ![held[r]] = @ - 1]
                 ELSE inFlight
  /\ held' = [held EXCEPT ![r] = None]

FaultyRelease(r) ==                  \* a failed sticky account stays sticky
  /\ pc[r] = "release"
  /\ ReleaseHeld(r)
  /\ Goto(r, after[r])
  /\ UNCHANGED <<entry, bind, locals, sticky>>

Release(r) ==
  /\ pc[r] = "release"
  /\ ReleaseHeld(r)
  /\ Goto(r, IF acct[r] = sticky[r] THEN "unbind" ELSE after[r])
  /\ UNCHANGED <<entry, bind, locals, sticky>>

\* Session.Unbind deletes whatever the key is bound to now.
Unbind(r) ==
  /\ pc[r] = "unbind"
  /\ bind' = [bind EXCEPT ![sess[r]] = None]
  /\ sticky' = [sticky EXCEPT ![r] = None]
  /\ Goto(r, after[r])
  /\ UNCHANGED <<pool, locals, held>>

\* The handler returns: its deferred release runs and its locals are gone.
Exit(r) ==
  /\ pc[r] = "exit"
  /\ ReleaseHeld(r)
  /\ pc' = [pc EXCEPT ![r] = "done"]
  /\ sess' = [sess EXCEPT ![r] = None]
  /\ sticky' = [sticky EXCEPT ![r] = None]
  /\ tried' = [tried EXCEPT ![r] = {}]
  /\ rounds' = [rounds EXCEPT ![r] = 0]
  /\ acct' = [acct EXCEPT ![r] = None]
  /\ after' = [after EXCEPT ![r] = "loop"]
  /\ UNCHANGED <<entry, bind, model, seen>>

-----------------------------------------------------------------------------
(* The clock and the scheduler.                                            *)

requestVars == <<inFlight, bind, pc, locals, sticky, held, after>>

Tick ==
  /\ entry' = [u \in Accounts |-> Age(entry[u])]
  /\ UNCHANGED requestVars

\* The daily check-in found credits on the account.
Checkin(u) ==
  /\ "checkin" \in Maintenance
  /\ SetEntry(u, ReenableIfCredits(entry[u]))
  /\ UNCHANGED requestVars

\* The keepalive refreshed the account's token, or was told its session died.
Keepalive(u) ==
  /\ "keepalive" \in Maintenance
  /\ \/ SetEntry(u, ClearSessionDead(entry[u]))
     \/ SetEntry(u, NoteSessionDead(entry[u]))
  /\ UNCHANGED requestVars

\* A binding outlived its TTL and the router's GC removed it.
ExpireBinding(s) ==
  /\ "expiry" \in Maintenance
  /\ bind' = [bind EXCEPT ![s] = None]
  /\ UNCHANGED <<pool, pc, locals, sticky, held, after>>

-----------------------------------------------------------------------------
\* What a handler does by itself once its request has arrived.
Advance(r) ==
  \/ Resolve(r) \/ Lookup(r) \/ Touch(r) \/ Assign(r)
  \/ PickSticky(r) \/ PickAccount(r) \/ GiveUp(r) \/ Acquire(r)
  \/ Refresh(r) \/ Answer(r) \/ ClearBlock(r) \/ Rebind(r)
  \/ Release(r) \/ Unbind(r) \/ Exit(r)

Next ==
  \/ \E r \in Requests : Advance(r) \/ Arrive(r) \/ Cancel(r)
  \/ \E u \in Accounts : Checkin(u) \/ Keepalive(u)
  \/ \E s \in Sessions : ExpireBinding(s)
  \/ Tick

Spec == Init /\ [][Next]_vars

\* Every call upstream ends (it runs under the client's timeouts), goroutines
\* are scheduled, and time passes; nothing says that requests keep arriving.
FairSpec == Spec /\ (\A r \in Requests : WF_vars(Advance(r))) /\ WF_vars(Tick)

-----------------------------------------------------------------------------
(* Safety.                                                                 *)

\* The in-flight counter of an account is exactly the number of handlers that
\* hold a lease on it, on every path through the rotation: nothing is leaked
\* by an early return, and nothing is given back twice by fail() followed by
\* the deferred release (the clamp at 0 in Release would hide the latter).
LeaseConservation ==
  \A u \in Accounts : inFlight[u] = Cardinality({r \in Requests : held[r] = u})

\* However selections and acquisitions interleave, no account serves more than
\* max_in_flight requests at a time: selection's own check is stale by the
\* time Acquire runs, the compare-and-swap is what enforces the limit.
LeaseWithinLimit ==
  MaxInFlight > 0 => \A u \in Accounts : inFlight[u] <= MaxInFlight

\* A handler holds a lease only from Acquire to the release that follows the
\* call: never while it selects the next account, so never two at once.
NoLeaseBetweenRounds ==
  \A r \in Requests :
    pc[r] \in Resolving \cup {"done", "loop", "acquire", "unbind"} => held[r] = None

\* Every round of a request uses up a new account.  The session's account is
\* selected without consulting tried, so this rests on every failed round
\* having unbound it.
RotationIsFresh ==
  \A r \in Requests : Cardinality(tried[r]) = rounds[r]

-----------------------------------------------------------------------------
(* Action properties.                                                      *)

\* What a selection may hand out, sticky, normal or fallback: never a disabled
\* account, one without credits, or one limited on this model; and one that is
\* cooling only when no untried account is available.
SelectionContract ==
  [][\A r \in Requests : (pc[r] = "loop" /\ pc'[r] = "acquire") =>
       LET e == entry[acct'[r]]
       IN /\ ~e.disabled /\ ~HardCooled(e) /\ ~ModelCooled(e, model[r])
          /\ Healthy(e) \/ Candidates(r) = {}]_vars

\* An account once disabled stays so while the process runs: no answer to a
\* call already in flight, check-in or keepalive brings it back.
DisableIsFinal ==
  [][\A u \in Accounts : entry[u].disabled => entry'[u].disabled]_vars

\* Only a successful call on the account ends its breaker early: no other
\* failure, disable, cooldown or check-in shortens it, and failures of calls
\* that were in flight when it opened can only prolong it.
OnlySuccessClosesBreaker ==
  [][\A u \in Accounts :
       entry'[u].breakerUntil < Less(entry[u].breakerUntil) =>
         \E r \in Requests : /\ acct[r] = u
                             /\ pc[r] = "call" /\ pc'[r] = "clear"]_vars

\* The call of r ended in a refusal that puts the account or the model of r on
\* it aside; its handler goes on to give the lease back.
Refused(r) == pc[r] = "call" /\ pc'[r] = "release"

\* A running 6004 limit of one model on one account only grows older.  It is
\* lifted by a check-in, by a disable or by a refusal that cools the account
\* as a whole, and it is replaced, by a running limit again, only by a refusal
\* of a call for that same model that overlapped: no success, keepalive or
\* selection and no answer about another model lifts, shortens or replaces it.
\* (What replaces it may be a shorter 6004 limit, or an 11102 block, which the
\* model's next success lifts: there is one mark for both.)
ModelLimitSurvives ==
  [][\A u \in Accounts, m \in Models :
       LET old == entry[u].marks[m]
           new == entry'[u].marks[m]
       IN (old.kind = "6004" /\ old.left > 0 /\ new # old) =>
            \/ Tick /\ new = [old EXCEPT !.left = Less(old.left)]
            \/ Checkin(u) \/ entry'[u].disabled
            \/ \E r \in Requests :
                 /\ acct[r] = u /\ Refused(r)
                 /\ entry'[u].until > 0 \/ (model[r] = m /\ new.left > 0)]_vars

-----------------------------------------------------------------------------
(* Liveness.                                                               *)

\* Every request that arrives is answered, whatever the others do.
RequestEnds ==
  \A r \in Requests : pc[r] # "done" ~> pc[r] = "done"

\* A soft cooldown ends even if requests keep probing the account through the
\* fallback and keep being answered 429.
SoftCooldownEnds ==
  \A u \in Accounts :
    (entry[u].coolKind = SoftKind /\ entry[u].until > 0) ~> entry[u].until = 0

-----------------------------------------------------------------------------
(* What the repository says of the pool and the code does not do.          *)

\* internal/pool/cooldown.go on BlockModelBackoff: after the record of a model
\* the backend lacks has expired the account is tried again, and a further hit
\* doubles the delay; so the record outlives its delay and only a success of
\* that model, an account-wide cooldown, a disable or a check-in removes it.
BlockHistoryKept ==
  [][\A u \in Accounts, m \in Models :
       (entry[u].marks[m].kind = "11102" /\ entry'[u].marks[m].kind = "none") =>
         \/ \E r \in Requests : acct[r] = u /\ model[r] = m /\ ClearBlock(r)
         \/ entry'[u].disabled \/ entry'[u].until > 0
         \/ Checkin(u)]_vars
=============================================================================
