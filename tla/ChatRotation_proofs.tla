------------------------- MODULE ChatRotation_proofs -------------------------
(***************************************************************************)
(* Safety of the rotation for any accounts, requests, sessions, limits and *)
(* delays: type correctness, the accounting of the leases, that a request  *)
(* never takes an account twice, what a selection may hand out, that a     *)
(* disabled account stays disabled, and what lifts the limit of a model.   *)
(***************************************************************************)
EXTENDS ChatRotation, TLAPS, FiniteSetTheorems

-----------------------------------------------------------------------------
(* What the transitions of AccountEntry preserve: each maps an entry to an *)
(* entry.                                                                  *)

\* A back-off delay is a number of ticks whatever the counter is.
LEMMA BackoffType ==
  ASSUME NEW base \in Positive, NEW max \in Positive, NEW n \in Nat
  PROVE  Backoff(base, n, max) \in Nat
<1>1. CASE n <= 1
  BY <1>1 DEF Backoff, Positive
<1>2. CASE ~(n <= 1) /\ base * 2^(n - 1) \in 1..max
  BY <1>2 DEF Backoff, Positive
<1>3. CASE ~(n <= 1) /\ ~(base * 2^(n - 1) \in 1..max)
  BY <1>3 DEF Backoff, Positive
<1>4. QED
  BY <1>1, <1>2, <1>3

\* An announced reset time gives a cooldown of at least one tick.
LEMMA CappedType ==
  ASSUME NEW reset \in Nat
  PROVE  Capped(reset) \in Positive
BY DurationAssumption DEF Capped, Positive

\* The counters of the back-offs stay natural numbers.
LEMMA BumpType ==
  ASSUME NEW n \in Nat
  PROVE  Bump(n) \in Nat
BY DEF Bump

\* A pool starts an account with an entry.
LEMMA NewEntryType == NewEntry \in Entry
BY DEF NewEntry, Entry, NoMarks, NoMark, Mark, MarkKinds, Reasons, Unset,
       HardKind, SoftKind

\* Clearing a cooldown, and a disable for any reason, leave an entry.
LEMMA ClearTypes ==
  ASSUME NEW e \in Entry, NEW why \in Reasons
  PROVE  /\ ClearCooling(e) \in Entry
         /\ Disable(e, why) \in Entry
         /\ ReenableIfCredits(e) \in Entry
BY ZenonT(60) DEF ClearCooling, Disable, ReenableIfCredits, Entry, NoMarks, NoMark, Mark,
       MarkKinds, Reasons, HardKind

\* Account-wide cooldowns of any kind leave an entry.
LEMMA CooldownTypes ==
  ASSUME NEW e \in Entry, NEW kind \in {HardKind, SoftKind}, NEW d \in Nat,
         NEW why \in Reasons, NEW reset \in Nat
  PROVE  /\ Cooldown(e, kind, d, why) \in Entry
         /\ CooldownSoftRate(e) \in Entry
         /\ CooldownSoftRateUntil(e, reset) \in Entry
<1>1. NoMarks \in [Models -> Mark]
  BY DEF NoMarks, NoMark, Mark, MarkKinds
<1>2. Cooldown(e, kind, d, why) \in Entry
  BY <1>1 DEF Cooldown, Entry
<1>3. CooldownSoftRate(e) \in Entry
  <2>1. e.softStreak \in Nat /\ e.until \in Nat
    BY DEF Entry
  <2>2. Backoff(SoftBase, e.softStreak + 1, SoftMax) \in Nat
    <3>1. e.softStreak + 1 \in Nat
      BY <2>1
    <3>2. QED
      BY <3>1, BackoffType, DurationAssumption, Zenon
  <2>3. Bump(e.softStreak) \in Nat
    BY <2>1, BumpType
  <2>4. "rate" \in Reasons
    BY DEF Reasons
  <2>5. QED
    BY <1>1, <2>1, <2>2, <2>3, <2>4 DEF CooldownSoftRate, Entry
<1>4. CooldownSoftRateUntil(e, reset) \in Entry
  BY <1>1, CappedType DEF CooldownSoftRateUntil, Entry, Positive, Reasons
<1>5. QED
  BY <1>2, <1>3, <1>4

\* Marks of one model, set, cleared or pruned, leave an entry.
LEMMA MarkTypes ==
  ASSUME NEW e \in Entry, NEW m \in Models, NEW reset \in Nat
  PROVE  /\ CooldownSoftForModel(e, m, reset) \in Entry
         /\ BlockModelBackoff(e, m) \in Entry
         /\ BlockModelClear(e, m) \in Entry
         /\ Prune(e) \in Entry
<1>1. NoMark \in Mark
  BY DEF NoMark, Mark, MarkKinds
<1>2. ASSUME NEW k \in Mark
      PROVE  [e EXCEPT !.marks[m] = k] \in Entry
  BY <1>2 DEF Entry
<1>3. CooldownSoftForModel(e, m, reset) \in Entry
  <2>1. [kind |-> "6004", left |-> Capped(reset), hits |-> 0] \in Mark
    BY CappedType DEF Mark, MarkKinds, Positive
  <2>2. QED
    BY <1>2, <2>1 DEF CooldownSoftForModel
<1>4. BlockModelBackoff(e, m) \in Entry
  <2>1. e.marks[m].hits \in Nat
    BY DEF Entry, Mark
  <2>2. Bump(e.marks[m].hits) \in Nat
    BY <2>1, BumpType
  <2>3. Backoff(BlockBase, Bump(e.marks[m].hits), BlockMax) \in Nat
    BY <2>2, BackoffType, DurationAssumption
  <2>4. [kind |-> "11102",
         left |-> Backoff(BlockBase, Bump(e.marks[m].hits), BlockMax),
         hits |-> Bump(e.marks[m].hits)] \in Mark
    BY <2>2, <2>3 DEF Mark, MarkKinds
  <2>5. QED
    BY <1>2, <2>4 DEF BlockModelBackoff
<1>5. BlockModelClear(e, m) \in Entry
  BY <1>1, <1>2 DEF BlockModelClear
<1>6. Prune(e) \in Entry
  BY <1>1 DEF Prune, Entry
<1>7. QED
  BY <1>3, <1>4, <1>5, <1>6

\* Recording a failure, a success or a dead session leaves an entry.
LEMMA NoteTypes ==
  ASSUME NEW e \in Entry
  PROVE  /\ NoteError(e) \in Entry
         /\ NoteSuccess(e) \in Entry
         /\ NoteSessionDead(e) \in Entry
         /\ ClearSessionDead(e) \in Entry
<1>1. /\ e.fails \in Nat /\ e.retryCount \in Nat /\ e.sessionDeadFails \in Nat
  BY DEF Entry
<1>2. NoteError(e) \in Entry
  <2>1. Backoff(BreakerBase, e.retryCount + 1, BreakerMax) \in Nat
    <3>1. e.retryCount + 1 \in Nat
      BY <1>1
    <3>2. QED
      BY <3>1, BackoffType, DurationAssumption, Zenon
  <2>2. Bump(e.retryCount) \in Nat
    BY <1>1, BumpType
  <2>3. [e EXCEPT !.fails = e.fails + 1] \in Entry
    BY <1>1 DEF Entry
  <2>4. [e EXCEPT !.fails = 0, !.retryCount = Bump(e.retryCount),
                  !.breakerUntil = Backoff(BreakerBase, e.retryCount + 1, BreakerMax)]
          \in Entry
    BY <2>1, <2>2 DEF Entry
  <2>5. QED
    BY <2>3, <2>4, Zenon DEF NoteError
<1>3. NoteSuccess(e) \in Entry
  BY DEF NoteSuccess, Entry, Unset
<1>4. ClearSessionDead(e) \in Entry
  BY DEF ClearSessionDead, Entry
<1>5. NoteSessionDead(e) \in Entry
  <2>1. [e EXCEPT !.sessionDeadFails = 0] \in Entry
    BY DEF Entry
  <2>2. Disable([e EXCEPT !.sessionDeadFails = 0], "dead") \in Entry
    BY <2>1, ClearTypes DEF Reasons
  <2>3. [e EXCEPT !.sessionDeadFails = e.sessionDeadFails + 1] \in Entry
    BY <1>1 DEF Entry
  <2>4. QED
    BY <2>2, <2>3 DEF NoteSessionDead
<1>6. QED
  BY <1>2, <1>3, <1>4, <1>5

\* The clock leaves an entry: no deadline runs below "past".
LEMMA AgeType ==
  ASSUME NEW e \in Entry
  PROVE  Age(e) \in Entry
<1>1. /\ e.until \in Nat /\ e.breakerUntil \in Nat \cup {Unset}
      /\ e.marks \in [Models -> Mark]
  BY DEF Entry
<1>2. /\ Less(e.until) \in Nat
      /\ Less(e.breakerUntil) \in Nat \cup {Unset}
  BY <1>1 DEF Less, Unset
<1>3. ASSUME NEW m \in Models
      PROVE  [e.marks[m] EXCEPT !.left = Less(@)] \in Mark
  BY <1>1 DEF Mark, Less
<1>4. QED
  BY <1>2, <1>3 DEF Age, Entry

-----------------------------------------------------------------------------
(* Type correctness.                                                       *)

\* The error policy maps an entry to an entry, whatever the answer was.
LEMMA PolicyType ==
  ASSUME NEW e \in Entry, NEW o, NEW m \in Models, NEW reset \in Nat
  PROVE  ApplyErrorPolicy(e, o, m, reset) \in Entry
<1>1. /\ HardCool \in Nat /\ NotFoundCool \in Nat /\ SoftBase \in Nat
  BY DurationAssumption DEF Positive
<1>2. {"none", "credit", "rate", "404", "fault", "dead", "banned"} \subseteq Reasons
  BY DEF Reasons
<1>3. /\ Cooldown(e, HardKind, HardCool, "credit") \in Entry
      /\ Cooldown(e, SoftKind, NotFoundCool, "404") \in Entry
      /\ Cooldown(e, SoftKind, SoftBase, "fault") \in Entry
  BY <1>1, <1>2, CooldownTypes
<1>4. CooldownSoftRate(e) \in Entry /\ CooldownSoftRateUntil(e, reset) \in Entry
  BY <1>1, <1>2, CooldownTypes
<1>5. Disable(e, "dead") \in Entry /\ Disable(e, "banned") \in Entry
  BY <1>2, ClearTypes
<1>6. /\ CooldownSoftForModel(e, m, reset) \in Entry
      /\ BlockModelBackoff(e, m) \in Entry
      /\ NoteError(e) \in Entry
  BY MarkTypes, NoteTypes
<1>7. QED
  BY <1>3, <1>4, <1>5, <1>6, Zenon DEF ApplyErrorPolicy

\* Replacing the entry of one account by an entry keeps the pool's type.
LEMMA SetEntryType ==
  ASSUME entry \in [Accounts -> Entry], NEW u, NEW e, SetEntry(u, e),
         u \in Accounts => e \in Entry
  PROVE  entry' \in [Accounts -> Entry]
BY DEF SetEntry

\* A selection keeps the types of the request's own variables.
LEMMA TakeType ==
  ASSUME TypeOK, NEW r \in Requests, NEW u \in Accounts, Looping(r), Take(r, u)
  PROVE  /\ acct' \in [Requests -> Accounts \cup {None}]
         /\ tried' \in [Requests -> SUBSET Accounts]
         /\ rounds' \in [Requests -> 0..MaxRotate]
         /\ pc' \in [Requests -> Places]
         /\ after' \in [Requests -> {"loop", "exit"}]
<1>1. rounds[r] + 1 \in 0..MaxRotate
  BY RequestAssumption DEF TypeOK, Looping
<1>2. QED
  BY <1>1 DEF TypeOK, Take, Places

\* Giving a lease back keeps the counters natural numbers.
LEMMA ReleaseHeldType ==
  ASSUME TypeOK, NEW r \in Requests, ReleaseHeld(r)
  PROVE  /\ inFlight' \in [Accounts -> Nat]
         /\ held' \in [Requests -> Accounts \cup {None}]
BY DEF TypeOK, ReleaseHeld

\* Every step of a handler keeps the types.
LEMMA AdvanceType ==
  ASSUME TypeOK, NEW r \in Requests, Advance(r)
  PROVE  TypeOK'
<1>e. \A u \in Accounts : entry[u] \in Entry
  BY DEF TypeOK
<1>m. model[r] \in Models
  BY DEF TypeOK
<1>0. CASE Resolve(r)
  <2>1. AvailableFor(model[r]) \subseteq Accounts
    BY DEF AvailableFor
  <2>2. QED
    BY <1>0, <2>1 DEF Resolve, TypeOK, pool, Places, Resolving
<1>l. CASE Lookup(r)
  <2>1. seen[r] \subseteq Accounts
    BY DEF TypeOK
  <2>2. /\ sticky' \in [Requests -> Accounts \cup {None}]
        /\ pc' \in [Requests -> Places]
    BY <1>l, <2>1 DEF Lookup, TypeOK, Places, Resolving
  <2>3. QED
    BY <1>l, <2>2 DEF Lookup, TypeOK, pool, locals
<1>t. CASE Touch(r)
  BY <1>t DEF Touch, TypeOK, pool, Places
<1>1. CASE Assign(r)
  <2>1. AvailableFor(model[r]) \subseteq Accounts /\ seen[r] \subseteq Accounts
    BY DEF AvailableFor, TypeOK
  <2>2. IdleFirst(AvailableFor(model[r]), sess[r]) \subseteq Accounts
    BY <2>1 DEF IdleFirst
  <2>3. /\ sticky' \in [Requests -> Accounts \cup {None}]
        /\ bind' \in [Sessions -> Accounts \cup {None}]
        /\ pc' \in [Requests -> Places]
        /\ seen' \in [Requests -> SUBSET Accounts]
    BY <1>1, <2>1, <2>2 DEF Assign, TypeOK, Places
  <2>4. QED
    BY <1>1, <2>3 DEF Assign, TypeOK, pool
<1>2. CASE PickSticky(r)
  <2>1. sticky[r] \in Accounts
    BY <1>2 DEF PickSticky, TypeOK
  <2>2. CASE Take(r, sticky[r])
    BY <1>2, <2>1, <2>2, TakeType DEF PickSticky, TypeOK, pool
  <2>3. CASE /\ pc' = [pc EXCEPT ![r] = "unbind"]
             /\ after' = [after EXCEPT ![r] = "loop"]
             /\ UNCHANGED <<acct, tried, rounds>>
    BY <1>2, <2>3 DEF PickSticky, TypeOK, pool, Places
  <2>4. QED
    BY <1>2, <2>2, <2>3 DEF PickSticky
<1>3. CASE PickAccount(r)
  <2>1. entry' \in [Accounts -> Entry]
    BY <1>3, <1>e, <1>m, MarkTypes, 0 \in Nat DEF PickAccount
  <2>2. Candidates(r) \subseteq Accounts /\ Fallback(r) \subseteq Accounts
    BY DEF Candidates, AvailableFor, Fallback
  <2>3. CASE \E u \in Accounts : Take(r, u)
    BY <1>3, <2>1, <2>3, TakeType DEF PickAccount, TypeOK
  <2>4. CASE pc' = [pc EXCEPT ![r] = "exit"] /\ UNCHANGED <<acct, tried, rounds, after>>
    BY <1>3, <2>1, <2>4 DEF PickAccount, TypeOK, Places
  <2>5. QED
    BY <1>3, <2>2, <2>3, <2>4 DEF PickAccount
<1>4. CASE GiveUp(r)
  BY <1>4 DEF GiveUp, TypeOK, pool, locals, Places
<1>5. CASE Acquire(r)
  BY <1>5 DEF Acquire, TypeOK, locals, Places
<1>6. CASE Refresh(r)
  <2>1. entry' \in [Accounts -> Entry]
    BY <1>6, <1>e, SetEntryType, NoteTypes DEF Refresh, TypeOK
  <2>2. pc' \in [Requests -> Places] /\ after' \in [Requests -> {"loop", "exit"}]
    BY <1>6 DEF Refresh, Goto, Fail, TypeOK, Places
  <2>3. QED
    BY <1>6, <2>1, <2>2 DEF Refresh, TypeOK, locals
<1>7. CASE Answer(r)
  <2>1. Resets \subseteq Nat
    BY RequestAssumption
  <2>2. entry' \in [Accounts -> Entry]
    BY <1>7, <1>e, <1>m, <2>1, SetEntryType, NoteTypes, PolicyType DEF Answer, TypeOK
  <2>3. pc' \in [Requests -> Places] /\ after' \in [Requests -> {"loop", "exit"}]
    BY <1>7 DEF Answer, Goto, Fail, TypeOK, Places
  <2>4. QED
    BY <1>7, <2>2, <2>3 DEF Answer, TypeOK, locals
<1>8. CASE ClearBlock(r)
  <2>1. entry' \in [Accounts -> Entry]
    BY <1>8, <1>e, <1>m, SetEntryType, MarkTypes, 0 \in Nat DEF ClearBlock, TypeOK
  <2>2. QED
    BY <1>8, <2>1 DEF ClearBlock, Goto, TypeOK, locals, Places
<1>9. CASE Rebind(r)
  BY <1>9 DEF Rebind, Goto, TypeOK, pool, locals, Places
<1>10. CASE Release(r)
  <2>1. pc' \in [Requests -> Places] /\ UNCHANGED after
    BY <1>10 DEF Release, Goto, TypeOK, Places
  <2>2. QED
    BY <1>10, <2>1, ReleaseHeldType DEF Release, TypeOK, locals
<1>11. CASE Unbind(r)
  BY <1>11 DEF Unbind, Goto, TypeOK, pool, locals, Places
<1>12. CASE Exit(r)
  <2>1. /\ pc' \in [Requests -> Places]
        /\ sess' \in [Requests -> Sessions \cup {None}]
        /\ sticky' \in [Requests -> Accounts \cup {None}]
        /\ tried' \in [Requests -> SUBSET Accounts]
        /\ rounds' \in [Requests -> 0..MaxRotate]
        /\ acct' \in [Requests -> Accounts \cup {None}]
        /\ after' \in [Requests -> {"loop", "exit"}]
    BY <1>12, RequestAssumption DEF Exit, TypeOK, Places
  <2>2. QED
    BY <1>12, <2>1, ReleaseHeldType DEF Exit, TypeOK
<1>13. QED
  BY <1>0, <1>l, <1>t, <1>1, <1>2, <1>3, <1>4, <1>5, <1>6, <1>7, <1>8, <1>9, <1>10,
     <1>11, <1>12 DEF Advance

\* Arrivals, cancellations, the clock, the scheduler and the router's GC keep
\* the types.
LEMMA EnvironmentType ==
  ASSUME TypeOK,
         \/ \E r \in Requests : Arrive(r) \/ Cancel(r)
         \/ \E u \in Accounts : Checkin(u) \/ Keepalive(u)
         \/ \E s \in Sessions : ExpireBinding(s)
         \/ Tick
  PROVE  TypeOK'
<1>e. \A u \in Accounts : entry[u] \in Entry
  BY DEF TypeOK
<1>1. ASSUME NEW r \in Requests, Arrive(r)  PROVE TypeOK'
  BY <1>1 DEF Arrive, TypeOK, pool, Places, Resolving
<1>2. ASSUME NEW r \in Requests, Cancel(r)  PROVE TypeOK'
  BY <1>2 DEF Cancel, TypeOK, pool, locals, Places
<1>3. ASSUME NEW u \in Accounts, Checkin(u)  PROVE TypeOK'
  <2>1. ReenableIfCredits(entry[u]) \in Entry
    BY <1>e, ClearTypes, "none" \in Reasons DEF Reasons
  <2>2. entry' \in [Accounts -> Entry]
    BY <1>3, <2>1, SetEntryType DEF Checkin, TypeOK
  <2>3. QED
    BY <1>3, <2>2 DEF Checkin, TypeOK, requestVars, locals
<1>4. ASSUME NEW u \in Accounts, Keepalive(u)  PROVE TypeOK'
  <2>1. entry' \in [Accounts -> Entry]
    BY <1>4, <1>e, NoteTypes, SetEntryType DEF Keepalive, TypeOK
  <2>2. QED
    BY <1>4, <2>1 DEF Keepalive, TypeOK, requestVars, locals
<1>5. ASSUME NEW s \in Sessions, ExpireBinding(s)  PROVE TypeOK'
  BY <1>5 DEF ExpireBinding, TypeOK, pool, locals
<1>6. CASE Tick
  <2>1. entry' \in [Accounts -> Entry]
    BY <1>6, <1>e, AgeType DEF Tick
  <2>2. QED
    BY <1>6, <2>1 DEF Tick, TypeOK, requestVars, locals
<1>7. QED
  BY <1>1, <1>2, <1>3, <1>4, <1>5, <1>6

\* A step that changes no variable keeps the types.
LEMMA StutterType ==
  ASSUME TypeOK, UNCHANGED vars
  PROVE  TypeOK'
BY DEF TypeOK, vars

\* Type correctness: counters and deadlines stay natural numbers, a request
\* never counts more rounds than its budget, and the pool's entries keep the
\* shape the code gives them, whatever the constants are.
THEOREM TypeCorrect == Spec => []TypeOK
<1>1. Init => TypeOK
  <2>1. Init => entry \in [Accounts -> Entry]
    BY NewEntryType DEF Init
  <2>2. QED
    BY <2>1, RequestAssumption DEF Init, TypeOK, Places
<1>2. TypeOK /\ [Next]_vars => TypeOK'
  BY AdvanceType, EnvironmentType, StutterType DEF Next
<1>3. QED
  BY <1>1, <1>2, PTL DEF Spec

-----------------------------------------------------------------------------
(* Leases.                                                                 *)

\* A step of the environment touches neither counters nor held leases.
LEMMA EnvironmentKeepsLeases ==
  ASSUME \/ \E r \in Requests : Arrive(r) \/ Cancel(r)
         \/ \E u \in Accounts : Checkin(u) \/ Keepalive(u)
         \/ \E s \in Sessions : ExpireBinding(s)
         \/ Tick
  PROVE  UNCHANGED <<inFlight, held>>
BY DEF Arrive, Cancel, Checkin, Keepalive, ExpireBinding, Tick, pool, locals, requestVars

\* Only three actions of a handler touch them: the others leave both alone.
LEMMA OnlyLeaseActions ==
  ASSUME NEW r \in Requests, Advance(r), ~Acquire(r), ~Release(r), ~Exit(r)
  PROVE  UNCHANGED <<inFlight, held>>
BY DEF Advance, Resolve, Lookup, Touch, Assign, PickSticky, PickAccount, GiveUp,
       Refresh, Answer, ClearBlock, Rebind, Unbind, pool, locals

\* Where a handler holds no lease.
Leaseless == Resolving \cup {"done", "loop", "acquire", "unbind"}

\* A handler gets to a place without a lease from such a place, or by Release
\* or Exit; no other handler moves.
LEMMA LeaselessStep ==
  ASSUME TypeOK, NoLeaseBetweenRounds, NEW r \in Requests,
         Advance(r) \/ Arrive(r) \/ Cancel(r)
  PROVE  NoLeaseBetweenRounds'
<1>1. SUFFICES ASSUME NEW q \in Requests, pc'[q] \in Leaseless
               PROVE  held'[q] = None
  BY DEF NoLeaseBetweenRounds, Leaseless
<1>2. pc \in [Requests -> Places] /\ held \in [Requests -> Accounts \cup {None}]
      /\ after \in [Requests -> {"loop", "exit"}]
  BY DEF TypeOK
<1>3. pc[q] \in Leaseless => held[q] = None
  BY DEF NoLeaseBetweenRounds, Leaseless
<1>4. CASE Acquire(r)
  BY <1>1, <1>2, <1>3, <1>4 DEF Acquire, Leaseless, Resolving
<1>5. CASE Release(r)
  BY <1>1, <1>2, <1>3, <1>5 DEF Release, ReleaseHeld, Goto
<1>6. CASE Exit(r)
  BY <1>1, <1>2, <1>3, <1>6 DEF Exit, ReleaseHeld
<1>7. CASE (Advance(r) /\ ~Acquire(r) /\ ~Release(r) /\ ~Exit(r)) \/ Arrive(r) \/ Cancel(r)
  <2>1. held' = held
    BY <1>7, OnlyLeaseActions, EnvironmentKeepsLeases
  <2>2. pc'[q] = pc[q] \/ (q = r /\ pc[q] \in Leaseless)
    <3>1. CASE q # r
      BY <1>2, <1>7, <3>1 DEF Advance, Resolve, Lookup, Touch, Assign, PickSticky,
        PickAccount, GiveUp, Refresh, Answer, ClearBlock, Rebind, Unbind, Arrive, Cancel,
        Take, Goto, Fail
    <3>2. CASE q = r
      BY <1>1, <1>2, <1>7, <3>2 DEF Advance, Resolve, Lookup, Touch, Assign, PickSticky,
        PickAccount, GiveUp, Resolving, Looping, Refresh, Answer, ClearBlock, Rebind,
        Unbind, Arrive, Cancel, Take, Goto, Fail, Leaseless
    <3>3. QED
      BY <3>1, <3>2
  <2>3. QED
    BY <1>1, <1>3, <2>1, <2>2
<1>8. QED
  BY <1>4, <1>5, <1>6, <1>7

\* A handler that selects or waits holds no lease, on any path through any
\* number of rounds.
THEOREM NoLeaseBetweenRoundsHolds == Spec => []NoLeaseBetweenRounds
<1>1. Init => NoLeaseBetweenRounds
  BY DEF Init, NoLeaseBetweenRounds
<1>2. TypeOK /\ NoLeaseBetweenRounds /\ [Next]_vars => NoLeaseBetweenRounds'
  <2>1. SUFFICES ASSUME TypeOK, NoLeaseBetweenRounds, [Next]_vars
                 PROVE  NoLeaseBetweenRounds'
    OBVIOUS
  <2>2. CASE \E r \in Requests : Advance(r) \/ Arrive(r) \/ Cancel(r)
    BY <2>1, <2>2, LeaselessStep
  <2>3. CASE \/ \E u \in Accounts : Checkin(u) \/ Keepalive(u)
             \/ \E s \in Sessions : ExpireBinding(s)
             \/ Tick
             \/ UNCHANGED vars
    <3>1. UNCHANGED <<pc, held>>
      BY <2>3 DEF Checkin, Keepalive, ExpireBinding, Tick, requestVars, vars
    <3>2. QED
      BY <2>1, <3>1 DEF NoLeaseBetweenRounds
  <2>4. QED
    BY <2>1, <2>2, <2>3 DEF Next
<1>3. QED
  BY <1>1, <1>2, TypeCorrect, PTL DEF Spec

\* The handlers that hold a lease on an account.
Holders(u) == {r \in Requests : held[r] = u}

\* There are finitely many of them.
LEMMA HoldersFinite ==
  ASSUME NEW u
  PROVE  IsFiniteSet(Holders(u)) /\ Cardinality(Holders(u)) \in Nat
<1>1. Holders(u) \subseteq Requests
  BY DEF Holders
<1>2. IsFiniteSet(Holders(u))
  BY <1>1, RequestAssumption, FS_Subset
<1>3. QED
  BY <1>2, FS_CardinalityType

\* A successful Acquire adds its handler to the holders and one to the counter;
\* a refused one changes neither.
LEMMA AcquireConserves ==
  ASSUME TypeOK, NoLeaseBetweenRounds, LeaseConservation, NEW r \in Requests, Acquire(r)
  PROVE  LeaseConservation'
<1>1. held[r] = None /\ held \in [Requests -> Accounts \cup {None}]
      /\ inFlight \in [Accounts -> Nat]
  BY DEF Acquire, NoLeaseBetweenRounds, TypeOK
<1>2. SUFFICES ASSUME NEW u \in Accounts
               PROVE  inFlight'[u] = Cardinality(Holders(u)')
  BY DEF LeaseConservation, Holders
<1>3. inFlight[u] = Cardinality(Holders(u))
  BY DEF LeaseConservation, Holders
<1>4. CASE InFlightFull(acct[r]) \/ acct[r] # u
  <2>1. Holders(u)' = Holders(u) /\ inFlight'[u] = inFlight[u]
    BY <1>1, <1>4, RequestAssumption DEF Acquire, Holders
  <2>2. QED
    BY <1>3, <2>1
<1>5. CASE ~InFlightFull(acct[r]) /\ acct[r] = u
  <2>1. r \notin Holders(u)
    BY <1>1, RequestAssumption DEF Holders
  <2>2. Holders(u)' = Holders(u) \cup {r}
    BY <1>1, <1>5 DEF Acquire, Holders
  <2>3. Cardinality(Holders(u)') = Cardinality(Holders(u)) + 1
    BY <2>1, <2>2, HoldersFinite, FS_AddElement
  <2>4. inFlight'[u] = inFlight[u] + 1
    BY <1>1, <1>5 DEF Acquire
  <2>5. QED
    BY <1>3, <2>3, <2>4
<1>6. QED
  BY <1>4, <1>5

\* Giving back a lease removes its handler from the holders and one from the
\* counter, which is never at the clamp then; with no lease nothing changes.
LEMMA ReleaseConserves ==
  ASSUME TypeOK, LeaseConservation, NEW r \in Requests, ReleaseHeld(r)
  PROVE  LeaseConservation'
<1>1. held \in [Requests -> Accounts \cup {None}] /\ inFlight \in [Accounts -> Nat]
  BY DEF TypeOK
<1>2. SUFFICES ASSUME NEW u \in Accounts
               PROVE  inFlight'[u] = Cardinality(Holders(u)')
  BY DEF LeaseConservation, Holders
<1>3. inFlight[u] = Cardinality(Holders(u))
  BY DEF LeaseConservation, Holders
<1>4. CASE held[r] # u
  <2>1. Holders(u)' = Holders(u)
    BY <1>1, <1>4, RequestAssumption DEF ReleaseHeld, Holders
  <2>2. inFlight'[u] = inFlight[u]
    BY <1>1, <1>4 DEF ReleaseHeld
  <2>3. QED
    BY <1>3, <2>1, <2>2
<1>5. CASE held[r] = u
  <2>1. r \in Holders(u)
    BY <1>5 DEF Holders
  <2>2. Holders(u)' = Holders(u) \ {r}
    BY <1>1, <1>5, RequestAssumption DEF ReleaseHeld, Holders
  <2>3. Cardinality(Holders(u)') = Cardinality(Holders(u)) - 1
    BY <2>1, <2>2, HoldersFinite, FS_RemoveElement
  <2>4. Cardinality(Holders(u)) # 0
    BY <2>1, HoldersFinite, FS_EmptySet
  <2>5. inFlight[u] > 0 /\ u # None
    BY <1>3, <2>4, HoldersFinite, RequestAssumption
  <2>6. inFlight'[u] = inFlight[u] - 1
    BY <1>1, <1>5, <2>5 DEF ReleaseHeld
  <2>7. QED
    BY <1>3, <2>3, <2>6
<1>6. QED
  BY <1>4, <1>5

\* What the two theorems below need of a step: it is an Acquire, it gives a
\* lease back, or it touches no lease.
LEMMA LeaseSteps ==
  ASSUME [Next]_vars
  PROVE  \/ \E r \in Requests : Acquire(r) \/ ReleaseHeld(r)
         \/ UNCHANGED <<inFlight, held>>
<1>1. CASE \E r \in Requests : Advance(r)
  <2>1. PICK r \in Requests : Advance(r)
    BY <1>1
  <2>2. CASE Acquire(r) \/ Release(r) \/ Exit(r)
    BY <2>2 DEF Release, Exit
  <2>3. QED
    BY <2>1, <2>2, OnlyLeaseActions
<1>2. CASE UNCHANGED vars
  BY <1>2 DEF vars
<1>3. QED
  BY <1>1, <1>2, EnvironmentKeepsLeases DEF Next

\* The in-flight counter of every account is the number of handlers holding a
\* lease on it: no path leaks one or gives one back twice.
THEOREM LeasesConserved == Spec => []LeaseConservation
<1>1. Init => LeaseConservation
  <2>1. SUFFICES ASSUME Init, NEW u \in Accounts
                 PROVE  inFlight[u] = Cardinality(Holders(u))
    BY DEF LeaseConservation, Holders
  <2>2. Holders(u) = {}
    BY <2>1, RequestAssumption DEF Init, Holders
  <2>3. QED
    BY <2>1, <2>2, FS_EmptySet DEF Init
<1>2. TypeOK /\ NoLeaseBetweenRounds /\ LeaseConservation /\ [Next]_vars
        => LeaseConservation'
  <2>1. SUFFICES ASSUME TypeOK, NoLeaseBetweenRounds, LeaseConservation, [Next]_vars
                 PROVE  LeaseConservation'
    OBVIOUS
  <2>2. CASE UNCHANGED <<inFlight, held>>
    BY <2>1, <2>2 DEF LeaseConservation
  <2>3. QED
    BY <2>1, <2>2, LeaseSteps, AcquireConserves, ReleaseConserves
<1>3. QED
  BY <1>1, <1>2, TypeCorrect, NoLeaseBetweenRoundsHolds, PTL DEF Spec

\* No interleaving of selections and acquisitions takes an account above
\* max_in_flight.
THEOREM LeaseLimitHolds == Spec => []LeaseWithinLimit
<1>1. Init => LeaseWithinLimit
  BY RequestAssumption DEF Init, LeaseWithinLimit
<1>2. TypeOK /\ LeaseWithinLimit /\ [Next]_vars => LeaseWithinLimit'
  <2>1. SUFFICES ASSUME TypeOK, LeaseWithinLimit, [Next]_vars, MaxInFlight > 0,
                        NEW u \in Accounts
                 PROVE  inFlight'[u] <= MaxInFlight
    BY DEF LeaseWithinLimit
  <2>2. inFlight \in [Accounts -> Nat] /\ inFlight[u] <= MaxInFlight /\ MaxInFlight \in Nat
    BY <2>1, RequestAssumption DEF TypeOK, LeaseWithinLimit
  <2>3. ASSUME NEW r \in Requests, Acquire(r)  PROVE inFlight'[u] <= MaxInFlight
    BY <2>1, <2>2, <2>3 DEF Acquire, InFlightFull
  <2>4. ASSUME NEW r \in Requests, ReleaseHeld(r)  PROVE inFlight'[u] <= MaxInFlight
    BY <2>2, <2>4 DEF ReleaseHeld
  <2>5. QED
    BY <2>1, <2>2, <2>3, <2>4, LeaseSteps
<1>3. QED
  BY <1>1, <1>2, TypeCorrect, PTL DEF Spec

-----------------------------------------------------------------------------
(* A round never repeats an account.                                       *)

\* Where a request works with the account of its current round.
InRound == {"acquire", "refresh", "call", "clear", "rebind", "release"}

\* The strengthening of RotationIsFresh, for one request: the sticky account,
\* which is selected without looking at tried, is at the top of the loop
\* untried or gone; during a round it is the account of the round or gone.
Fresh(r) ==
  /\ IsFiniteSet(tried[r]) /\ Cardinality(tried[r]) = rounds[r]
  /\ pc[r] \in Resolving \cup {"done"} => tried[r] = {}
  /\ pc[r] \in {"done", "resolve", "lookup", "assign"} => sticky[r] = None
  /\ pc[r] = "loop" => sticky[r] \notin tried[r]
  /\ pc[r] \in InRound => sticky[r] \in {None, acct[r]}

StickyFresh == \A r \in Requests : Fresh(r)

\* The step of one handler leaves the locals of the others alone.
LEMMA OthersUntouched ==
  ASSUME TypeOK, NEW r \in Requests, Advance(r) \/ Arrive(r) \/ Cancel(r),
         NEW q \in Requests, q # r
  PROVE  /\ tried'[q] = tried[q] /\ rounds'[q] = rounds[q]
         /\ pc'[q] = pc[q] /\ sticky'[q] = sticky[q] /\ acct'[q] = acct[q]
<1>1. /\ tried \in [Requests -> SUBSET Accounts] /\ rounds \in [Requests -> 0..MaxRotate]
      /\ pc \in [Requests -> Places] /\ sticky \in [Requests -> Accounts \cup {None}]
      /\ acct \in [Requests -> Accounts \cup {None}]
  BY DEF TypeOK
<1>2. CASE \/ Arrive(r) \/ Cancel(r) \/ Resolve(r) \/ Lookup(r) \/ Touch(r) \/ Assign(r)
           \/ GiveUp(r) \/ Acquire(r)
  BY <1>1, <1>2 DEF Arrive, Cancel, Resolve, Lookup, Touch, Assign, GiveUp, Acquire, locals
<1>3. CASE PickSticky(r) \/ PickAccount(r)
  BY <1>1, <1>3 DEF PickSticky, PickAccount, Take
<1>4. CASE Refresh(r) \/ Answer(r) \/ ClearBlock(r) \/ Rebind(r)
  BY <1>1, <1>4 DEF Refresh, Answer, ClearBlock, Rebind, Goto, Fail, locals
<1>5. CASE Release(r) \/ Unbind(r) \/ Exit(r)
  BY <1>1, <1>5 DEF Release, Unbind, Exit, Goto, locals
<1>6. QED
  BY <1>2, <1>3, <1>4, <1>5 DEF Advance

\* Taking an account not tried yet uses up a round with a new account.
LEMMA TakeFresh ==
  ASSUME TypeOK, NEW r \in Requests, Fresh(r), NEW u \in Accounts, Take(r, u),
         u \notin tried[r], sticky' = sticky, sticky[r] \in {None, u}
  PROVE  Fresh(r)'
<1>1. /\ tried'[r] = tried[r] \cup {u} /\ rounds'[r] = rounds[r] + 1
      /\ pc'[r] = "acquire" /\ acct'[r] = u /\ sticky'[r] \in {None, u}
  BY DEF Take, TypeOK
<1>2. IsFiniteSet(tried[r]) /\ Cardinality(tried[r]) = rounds[r]
  BY DEF Fresh
<1>3. /\ IsFiniteSet(tried[r] \cup {u})
      /\ Cardinality(tried[r] \cup {u}) = Cardinality(tried[r]) + 1
  BY <1>2, FS_AddElement
<1>4. QED
  BY <1>1, <1>2, <1>3 DEF Fresh, InRound, Resolving

\* Each step of a handler keeps its request fresh.
LEMMA FreshStep ==
  ASSUME TypeOK, NEW r \in Requests, Fresh(r), Advance(r) \/ Arrive(r) \/ Cancel(r)
  PROVE  Fresh(r)'
<1>1. /\ tried \in [Requests -> SUBSET Accounts] /\ rounds \in [Requests -> 0..MaxRotate]
      /\ pc \in [Requests -> Places] /\ sticky \in [Requests -> Accounts \cup {None}]
      /\ acct \in [Requests -> Accounts \cup {None}] /\ None \notin Accounts
      /\ after \in [Requests -> {"loop", "exit"}]
  BY RequestAssumption DEF TypeOK
<1>2. None \notin tried[r]
  BY <1>1
<1>3. /\ IsFiniteSet(tried[r]) /\ Cardinality(tried[r]) = rounds[r]
      /\ pc[r] \in Resolving \cup {"done"} => tried[r] = {}
      /\ pc[r] \in {"done", "resolve", "lookup", "assign"} => sticky[r] = None
      /\ pc[r] = "loop" => sticky[r] \notin tried[r]
      /\ pc[r] \in InRound => sticky[r] \in {None, acct[r]}
  BY DEF Fresh
<1>4. CASE Arrive(r) \/ Cancel(r) \/ GiveUp(r)
  BY <1>1, <1>2, <1>3, <1>4 DEF Arrive, Cancel, GiveUp, Fresh, InRound, Resolving, locals
<1>5. CASE Resolve(r) \/ Lookup(r) \/ Touch(r) \/ Assign(r)
  BY <1>1, <1>2, <1>3, <1>5 DEF Resolve, Lookup, Touch, Assign, Fresh, InRound,
                                Resolving, locals
<1>6. CASE PickSticky(r)
  <2>1. sticky[r] \in Accounts /\ sticky[r] \notin tried[r] /\ sticky' = sticky
    BY <1>1, <1>3, <1>6 DEF PickSticky, Looping
  <2>2. CASE Take(r, sticky[r])
    BY <2>1, <2>2, TakeFresh
  <2>3. CASE pc' = [pc EXCEPT ![r] = "unbind"] /\ UNCHANGED <<acct, tried, rounds>>
    BY <1>1, <1>3, <2>3 DEF Fresh, InRound, Resolving
  <2>4. QED
    BY <1>6, <2>2, <2>3 DEF PickSticky
<1>7. CASE PickAccount(r)
  <2>1. sticky[r] = None /\ sticky' = sticky
    BY <1>7 DEF PickAccount
  <2>2. /\ Candidates(r) \subseteq Accounts \ tried[r]
        /\ Fallback(r) \subseteq Accounts \ tried[r]
    BY DEF Candidates, AvailableFor, Fallback
  <2>3. CASE \E u \in Accounts \ tried[r] : Take(r, u)
    BY <2>1, <2>3, TakeFresh
  <2>4. CASE pc' = [pc EXCEPT ![r] = "exit"] /\ UNCHANGED <<acct, tried, rounds, after>>
    BY <1>1, <1>3, <2>4 DEF Fresh, InRound, Resolving
  <2>5. QED
    BY <1>7, <2>2, <2>3, <2>4 DEF PickAccount
<1>8. CASE Acquire(r)
  <2>1. /\ sticky[r] \in {None, acct[r]}
        /\ UNCHANGED <<tried, rounds, acct, sticky>>
        /\ \/ pc' = [pc EXCEPT ![r] = "refresh"]
           \/ pc' = [pc EXCEPT ![r] = IF acct[r] = sticky[r] THEN "unbind" ELSE "loop"]
    BY <1>3, <1>8 DEF Acquire, InRound, locals
  <2>2. QED
    BY <1>1, <1>2, <1>3, <2>1 DEF Fresh, InRound, Resolving
<1>9. CASE Refresh(r) \/ Answer(r) \/ ClearBlock(r) \/ Rebind(r)
  <2>1. /\ pc[r] \in InRound
        /\ UNCHANGED <<tried, rounds, acct, sticky>>
        /\ \E p \in {"call", "clear", "rebind", "release", "exit"} : pc' = [pc EXCEPT ![r] = p]
    BY <1>9 DEF Refresh, Answer, ClearBlock, Rebind, Goto, Fail, InRound, locals
  <2>2. QED
    BY <1>1, <1>3, <2>1 DEF Fresh, InRound, Resolving
<1>10. CASE Release(r)
  <2>1. /\ sticky[r] \in {None, acct[r]}
        /\ UNCHANGED <<tried, rounds, acct, sticky>>
        /\ pc' = [pc EXCEPT ![r] = IF acct[r] = sticky[r] THEN "unbind" ELSE after[r]]
    BY <1>3, <1>10 DEF Release, Goto, InRound, locals
  <2>2. QED
    BY <1>1, <1>2, <1>3, <2>1 DEF Fresh, InRound, Resolving
<1>11. CASE Unbind(r)
  BY <1>1, <1>2, <1>3, <1>11 DEF Unbind, Goto, Fresh, InRound, Resolving, locals
<1>12. CASE Exit(r)
  BY <1>1, <1>12, FS_EmptySet DEF Exit, Fresh, InRound, Resolving
<1>13. QED
  BY <1>4, <1>5, <1>6, <1>7, <1>8, <1>9, <1>10, <1>11, <1>12 DEF Advance

\* Every round of a request uses up a new account, although the session's
\* account is selected without looking at those tried before.
THEOREM RotationNeverRepeats == Spec => []RotationIsFresh
<1>1. Init => StickyFresh
  BY FS_EmptySet DEF Init, StickyFresh, Fresh, InRound, Resolving
<1>2. TypeOK /\ StickyFresh /\ [Next]_vars => StickyFresh'
  <2>1. SUFFICES ASSUME TypeOK, StickyFresh, [Next]_vars, NEW q \in Requests
                 PROVE  Fresh(q)'
    BY DEF StickyFresh
  <2>2. Fresh(q)
    BY <2>1 DEF StickyFresh
  <2>3. CASE \E r \in Requests : Advance(r) \/ Arrive(r) \/ Cancel(r)
    <3>1. PICK r \in Requests : Advance(r) \/ Arrive(r) \/ Cancel(r)
      BY <2>3
    <3>2. CASE q = r
      BY <2>1, <2>2, <3>1, <3>2, FreshStep
    <3>3. CASE q # r
      BY <2>1, <2>2, <3>1, <3>3, OthersUntouched DEF Fresh
    <3>4. QED
      BY <3>2, <3>3
  <2>4. CASE \/ \E u \in Accounts : Checkin(u) \/ Keepalive(u)
             \/ \E s \in Sessions : ExpireBinding(s)
             \/ Tick
             \/ UNCHANGED vars
    <3>1. UNCHANGED <<tried, rounds, pc, sticky, acct>>
      BY <2>4 DEF Checkin, Keepalive, ExpireBinding, Tick, requestVars, locals, vars
    <3>2. QED
      BY <2>2, <3>1 DEF Fresh
  <2>5. QED
    BY <2>1, <2>3, <2>4 DEF Next
<1>3. StickyFresh => RotationIsFresh
  BY DEF StickyFresh, Fresh, RotationIsFresh
<1>4. QED
  BY <1>1, <1>2, <1>3, TypeCorrect, PTL DEF Spec

-----------------------------------------------------------------------------
(* Disabled accounts.                                                      *)

\* What no answer has a part in: failures and sessions are counted, a block is
\* lifted, expired marks are dropped.
Noted(e, f) ==
  \/ f \in {e, NoteError(e), NoteSessionDead(e), ClearSessionDead(e), Prune(e)}
  \/ \E m \in Models : f = BlockModelClear(e, m)

\* A call on the account ended in a refusal.
Refuses(u) ==
  \E r \in Requests, o \in RotatingOutcomes, reset \in Nat :
    /\ acct[r] = u /\ Refused(r)
    /\ entry'[u] = ApplyErrorPolicy(entry[u], o, model[r], reset)

\* A call on the account was answered with success.
Succeeds(u) ==
  /\ \E r \in Requests : acct[r] = u /\ pc[r] = "call" /\ pc'[r] = "clear"
  /\ entry'[u] = NoteSuccess(entry[u])

\* Every step of the system changes an entry in one of those ways, ages it or
\* checks it in.
LEMMA EntrySteps ==
  ASSUME TypeOK, [Next]_vars, NEW u \in Accounts
  PROVE  \/ Noted(entry[u], entry'[u])
         \/ Tick /\ entry'[u] = Age(entry[u])
         \/ Refuses(u)
         \/ Succeeds(u)
         \/ Checkin(u) /\ entry'[u] = ReenableIfCredits(entry[u])
<1>1. /\ entry \in [Accounts -> Entry] /\ model \in [Requests -> Models]
      /\ Resets \subseteq Nat /\ DOMAIN pc = Requests
  BY RequestAssumption DEF TypeOK
<1>2. ASSUME NEW v, NEW f, SetEntry(v, f), v = u => Noted(entry[u], f)
      PROVE  Noted(entry[u], entry'[u])
  <2>1. entry'[u] = IF v = u THEN f ELSE entry[u]
    BY <1>1, <1>2 DEF SetEntry
  <2>2. Noted(entry[u], entry[u])
    BY DEF Noted
  <2>3. QED
    BY <1>2, <2>1, <2>2
<1>3. ASSUME UNCHANGED entry
      PROVE  Noted(entry[u], entry'[u])
  BY <1>3 DEF Noted
<1>4. ASSUME NEW r \in Requests, PickAccount(r)
      PROVE  Noted(entry[u], entry'[u])
  BY <1>4 DEF PickAccount, Noted
<1>5. ASSUME NEW r \in Requests, Refresh(r), ~UNCHANGED entry
      PROVE  Noted(entry[u], entry'[u])
  <2>1. \/ SetEntry(acct[r], NoteSessionDead(entry[acct[r]]))
        \/ SetEntry(acct[r], NoteError(entry[acct[r]]))
    BY <1>5 DEF Refresh
  <2>2. /\ acct[r] = u => Noted(entry[u], NoteSessionDead(entry[acct[r]]))
        /\ acct[r] = u => Noted(entry[u], NoteError(entry[acct[r]]))
    BY DEF Noted
  <2>3. QED
    BY <1>2, <2>1, <2>2
<1>6. ASSUME NEW r \in Requests, Answer(r), ~UNCHANGED entry
      PROVE  Noted(entry[u], entry'[u]) \/ Refuses(u) \/ Succeeds(u)
  <2>1. CASE /\ SetEntry(acct[r], NoteSuccess(entry[acct[r]])) /\ Goto(r, "clear")
             /\ pc[r] = "call"
    <3>1. CASE acct[r] = u
      <4>1. pc'[r] = "clear"
        BY <1>1, <2>1 DEF Goto
      <4>2. entry'[u] = NoteSuccess(entry[u])
        BY <1>1, <2>1, <3>1 DEF SetEntry
      <4>3. QED
        BY <2>1, <3>1, <4>1, <4>2 DEF Succeeds
    <3>2. CASE acct[r] # u
      BY <1>2, <2>1, <3>2
    <3>3. QED
      BY <3>1, <3>2
  <2>2. CASE /\ \E o \in RotatingOutcomes, reset \in Resets :
                  SetEntry(acct[r], ApplyErrorPolicy(entry[acct[r]], o, model[r], reset))
             /\ Fail(r, "loop") /\ pc[r] = "call"
    <3>1. PICK o \in RotatingOutcomes, reset \in Resets :
            SetEntry(acct[r], ApplyErrorPolicy(entry[acct[r]], o, model[r], reset))
      BY <2>2
    <3>2. CASE acct[r] = u
      <4>1. Refused(r)
        BY <1>1, <2>2 DEF Refused, Fail
      <4>2. entry'[u] = ApplyErrorPolicy(entry[u], o, model[r], reset)
        BY <1>1, <3>1, <3>2 DEF SetEntry
      <4>3. QED
        BY <1>1, <3>2, <4>1, <4>2 DEF Refuses
    <3>3. CASE acct[r] # u
      BY <1>2, <3>1, <3>3
    <3>4. QED
      BY <3>2, <3>3
  <2>3. QED
    BY <1>6, <2>1, <2>2 DEF Answer
<1>7. ASSUME NEW r \in Requests, ClearBlock(r)
      PROVE  Noted(entry[u], entry'[u])
  <2>1. acct[r] = u => Noted(entry[u], BlockModelClear(entry[acct[r]], model[r]))
    BY <1>1 DEF Noted
  <2>2. QED
    BY <1>2, <1>7, <2>1 DEF ClearBlock
<1>8. ASSUME NEW r \in Requests,
             \/ Resolve(r) \/ Lookup(r) \/ Touch(r) \/ Assign(r)
             \/ PickSticky(r) \/ GiveUp(r) \/ Acquire(r) \/ Rebind(r)
             \/ Release(r) \/ Unbind(r) \/ Exit(r) \/ Arrive(r) \/ Cancel(r)
      PROVE  UNCHANGED entry
  BY <1>8 DEF Resolve, Lookup, Touch, Assign, PickSticky, GiveUp, Acquire, Rebind,
              Release, Unbind, Exit, Arrive, Cancel, pool
<1>9. ASSUME NEW r \in Requests, Advance(r) \/ Arrive(r) \/ Cancel(r)
      PROVE  Noted(entry[u], entry'[u]) \/ Refuses(u) \/ Succeeds(u)
  BY <1>3, <1>4, <1>5, <1>6, <1>7, <1>8, <1>9 DEF Advance
<1>10. ASSUME NEW v \in Accounts, Checkin(v) \/ Keepalive(v)
       PROVE  \/ Noted(entry[u], entry'[u])
              \/ Checkin(u) /\ entry'[u] = ReenableIfCredits(entry[u])
  <2>1. CASE Keepalive(v)
    <3>1. \/ SetEntry(v, ClearSessionDead(entry[v]))
          \/ SetEntry(v, NoteSessionDead(entry[v]))
      BY <2>1 DEF Keepalive
    <3>2. v = u => /\ Noted(entry[u], ClearSessionDead(entry[v]))
                   /\ Noted(entry[u], NoteSessionDead(entry[v]))
      BY DEF Noted
    <3>3. QED
      BY <1>2, <3>1, <3>2
  <2>2. CASE Checkin(v) /\ v # u
    BY <1>2, <2>2 DEF Checkin
  <2>3. CASE Checkin(v) /\ v = u
    BY <1>1, <2>3 DEF Checkin, SetEntry
  <2>4. QED
    BY <1>10, <2>1, <2>2, <2>3
<1>11. CASE Tick
  BY <1>11 DEF Tick
<1>12. CASE (\E s \in Sessions : ExpireBinding(s)) \/ UNCHANGED vars
  BY <1>3, <1>12 DEF ExpireBinding, pool, vars
<1>13. QED
  BY <1>9, <1>10, <1>11, <1>12 DEF Next

\* The transitions of an entry but a success and a check-in.
Change(e, f) ==
  \/ f \in {e, NoteError(e), NoteSessionDead(e), ClearSessionDead(e),
            Prune(e), Age(e)}
  \/ \E m \in Models : f = BlockModelClear(e, m)
  \/ \E o \in RotatingOutcomes, m \in Models, reset \in Nat :
       f = ApplyErrorPolicy(e, o, m, reset)

\* What a step does to an entry, whoever takes it.
LEMMA EntryChanges ==
  ASSUME TypeOK, [Next]_vars, NEW u \in Accounts
  PROVE  \/ Change(entry[u], entry'[u])
         \/ Succeeds(u)
         \/ Checkin(u) /\ entry'[u] = ReenableIfCredits(entry[u])
<1>1. Noted(entry[u], entry'[u]) => Change(entry[u], entry'[u])
  BY DEF Noted, Change
<1>2. Tick /\ entry'[u] = Age(entry[u]) => Change(entry[u], entry'[u])
  BY DEF Change
<1>3. ASSUME Refuses(u)
      PROVE  Change(entry[u], entry'[u])
  <2>1. PICK r \in Requests, o \in RotatingOutcomes, reset \in Nat :
          entry'[u] = ApplyErrorPolicy(entry[u], o, model[r], reset)
    BY <1>3 DEF Refuses
  <2>2. model[r] \in Models
    BY DEF TypeOK
  <2>3. QED
    BY <2>1, <2>2 DEF Change
<1>4. QED
  BY <1>1, <1>2, <1>3, EntrySteps

\* No transition clears the disabled flag.
LEMMA ChangeKeepsDisabled ==
  ASSUME NEW e \in Entry, NEW f, Change(e, f), e.disabled
  PROVE  f.disabled
<1>1. CASE f \in {e, ClearSessionDead(e), Prune(e), Age(e)}
  BY <1>1 DEF Entry, ClearSessionDead, Prune, Age
<1>2. CASE f = NoteError(e)
  BY <1>2 DEF Entry, NoteError
<1>3. CASE f = NoteSessionDead(e)
  BY <1>3 DEF Entry, NoteSessionDead, Disable, ClearCooling
<1>4. CASE \E m \in Models : f = BlockModelClear(e, m)
  BY <1>4 DEF Entry, BlockModelClear
<1>5. CASE \E o \in RotatingOutcomes, m \in Models, reset \in Nat :
             f = ApplyErrorPolicy(e, o, m, reset)
  <2>1. PICK o \in RotatingOutcomes, m \in Models, reset \in Nat :
          f = ApplyErrorPolicy(e, o, m, reset)
    BY <1>5
  <2>2. f \in {e, Cooldown(e, HardKind, HardCool, "credit"),
               CooldownSoftForModel(e, m, reset), CooldownSoftRateUntil(e, reset),
               CooldownSoftRate(e), Disable(e, "dead"),
               Cooldown(e, SoftKind, NotFoundCool, "404"), Disable(e, "banned"),
               Cooldown(e, SoftKind, SoftBase, "fault"), NoteError(e),
               BlockModelBackoff(e, m)}
    BY <2>1, Zenon DEF ApplyErrorPolicy
  <2>3. /\ Cooldown(e, HardKind, HardCool, "credit").disabled
        /\ Cooldown(e, SoftKind, NotFoundCool, "404").disabled
        /\ Cooldown(e, SoftKind, SoftBase, "fault").disabled
        /\ CooldownSoftForModel(e, m, reset).disabled
        /\ CooldownSoftRateUntil(e, reset).disabled
        /\ CooldownSoftRate(e).disabled
        /\ BlockModelBackoff(e, m).disabled
    BY DEF Entry, Cooldown, CooldownSoftForModel, CooldownSoftRateUntil,
           CooldownSoftRate, BlockModelBackoff
  <2>4. Disable(e, "dead").disabled /\ Disable(e, "banned").disabled
    BY DEF Entry, Disable, ClearCooling
  <2>5. QED
    BY <1>2, <2>2, <2>3, <2>4
<1>6. QED
  BY <1>1, <1>2, <1>3, <1>4, <1>5 DEF Change

\* An account disabled by the upstream stays so: no answer to a call already
\* in flight, check-in or keepalive brings it back.
THEOREM DisabledForGood == Spec => DisableIsFinal
<1>1. TypeOK /\ [Next]_vars =>
        \A u \in Accounts : entry[u].disabled => entry'[u].disabled
  <2>1. SUFFICES ASSUME TypeOK, [Next]_vars, NEW u \in Accounts, entry[u].disabled
                 PROVE  entry'[u].disabled
    OBVIOUS
  <2>2. entry[u] \in Entry
    BY <2>1 DEF TypeOK
  <2>3. CASE Change(entry[u], entry'[u])
    BY <2>1, <2>2, <2>3, ChangeKeepsDisabled
  <2>4. CASE entry'[u] = ReenableIfCredits(entry[u])
    BY <2>1, <2>4 DEF ReenableIfCredits
  <2>5. CASE Succeeds(u)
    BY <2>1, <2>2, <2>5 DEF Succeeds, NoteSuccess, Entry
  <2>6. QED
    BY <2>1, <2>3, <2>4, <2>5, EntryChanges
<1>2. QED
  BY <1>1, TypeCorrect, PTL DEF Spec, DisableIsFinal

-----------------------------------------------------------------------------
(* Limits of one model.                                                    *)

\* Delays are never empty.
LEMMA Delays ==
  ASSUME NEW base \in Positive, NEW max \in Positive, NEW n \in Nat
  PROVE  Backoff(base, n, max) \in Positive
<1>1. CASE n <= 1
  BY <1>1 DEF Backoff, Positive
<1>2. CASE ~(n <= 1) /\ base * 2^(n - 1) \in 1..max
  BY <1>2 DEF Backoff, Positive
<1>3. CASE ~(n <= 1) /\ ~(base * 2^(n - 1) \in 1..max)
  BY <1>3 DEF Backoff, Positive
<1>4. QED
  BY <1>1, <1>2, <1>3

\* The limit of m on e is as it was in f, or f is cooled or disabled, or it is
\* n that was refused and it is n that is still limited.
Limited(e, m) == e.marks[m].kind = "6004" /\ e.marks[m].left > 0
Spared(e, f, m, n) ==
  Limited(e, m) =>
    \/ f.marks[m] = e.marks[m]
    \/ f.disabled \/ f.until > 0
    \/ m = n /\ f.marks[m].left > 0

\* A mark is left alone by what concerns the breaker and the session.
LEMMA Unmarked ==
  ASSUME NEW e \in Entry, NEW m \in Models, NEW n, NEW f,
         f.marks = e.marks \/ f.disabled \/ f.until \in Positive
  PROVE  Spared(e, f, m, n)
BY DEF Spared, Positive

\* Every refusal spares it: it concerns the breaker, disables the account,
\* cools it for a while, or marks the model it is about for a while.
LEMMA PolicySpares ==
  ASSUME NEW e \in Entry, NEW m \in Models, NEW o, NEW n \in Models, NEW reset \in Nat
  PROVE  Spared(e, ApplyErrorPolicy(e, o, n, reset), m, n)
<1>1. /\ SoftBase \in Positive /\ SoftMax \in Positive /\ HardCool \in Positive
      /\ NotFoundCool \in Positive /\ BlockBase \in Positive /\ BlockMax \in Positive
  BY DurationAssumption
<1>2. ASSUME NEW kind, NEW d \in Positive, NEW why
      PROVE  Spared(e, Cooldown(e, kind, d, why), m, n)
  <2>1. Cooldown(e, kind, d, why).until = d
    BY DEF Cooldown, Entry
  <2>2. QED
    BY <2>1, Unmarked
<1>3. Spared(e, CooldownSoftRate(e), m, n)
  <2>1. e.softStreak + 1 \in Nat /\ e.until \in Nat
    BY DEF Entry
  <2>2. Backoff(SoftBase, e.softStreak + 1, SoftMax) \in Positive
    BY <1>1, <2>1, Delays
  <2>3. e.until # 0 => e.until \in Positive
    BY <2>1 DEF Positive
  <2>4. CooldownSoftRate(e).until =
          IF e.coolKind # SoftKind \/ e.until = 0
          THEN Backoff(SoftBase, e.softStreak + 1, SoftMax) ELSE e.until
    BY DEF CooldownSoftRate, Entry
  <2>5. CooldownSoftRate(e).until \in Positive
    BY <2>2, <2>3, <2>4
  <2>6. QED
    BY <2>5, Unmarked
<1>4. Spared(e, CooldownSoftRateUntil(e, reset), m, n)
  <2>1. CooldownSoftRateUntil(e, reset).until = Capped(reset)
    BY DEF CooldownSoftRateUntil, Entry
  <2>2. QED
    BY <2>1, CappedType, Unmarked
<1>5. ASSUME NEW k, k.left \in Positive
      PROVE  Spared(e, [e EXCEPT !.marks[n] = k], m, n)
  <2>1. [e EXCEPT !.marks[n] = k].marks = [e.marks EXCEPT ![n] = k]
    BY DEF Entry
  <2>2. [e.marks EXCEPT ![n] = k][m] = IF m = n THEN k ELSE e.marks[m]
    BY DEF Entry
  <2>3. QED
    BY <1>5, <2>1, <2>2 DEF Spared, Positive
<1>6. Spared(e, CooldownSoftForModel(e, n, reset), m, n)
  BY <1>5, CappedType DEF CooldownSoftForModel
<1>7. Spared(e, BlockModelBackoff(e, n), m, n)
  <2>1. Bump(e.marks[n].hits) \in Nat
    BY BumpType DEF Entry, Mark
  <2>2. Backoff(BlockBase, Bump(e.marks[n].hits), BlockMax) \in Positive
    BY <1>1, <2>1, Delays
  <2>3. QED
    BY <1>5, <2>2 DEF BlockModelBackoff
<1>8. ASSUME NEW why
      PROVE  Spared(e, Disable(e, why), m, n)
  <2>1. Disable(e, why).disabled
    BY DEF Disable, ClearCooling, Entry
  <2>2. QED
    BY <2>1, Unmarked
<1>9. Spared(e, NoteError(e), m, n) /\ Spared(e, e, m, n)
  <2>1. NoteError(e).marks = e.marks
    BY DEF NoteError, Entry
  <2>2. QED
    BY <2>1, Unmarked
<1>10. QED
  BY <1>1, <1>2, <1>3, <1>4, <1>6, <1>7, <1>8, <1>9, Zenon DEF ApplyErrorPolicy

\* What is only noted leaves a running limit as it is, or disables the account.
LEMMA NotedSpares ==
  ASSUME NEW e \in Entry, NEW f, Noted(e, f), NEW m \in Models, Limited(e, m)
  PROVE  f.marks[m] = e.marks[m] \/ f.disabled
<1>1. CASE f \in {e, NoteError(e), ClearSessionDead(e)}
  BY <1>1 DEF NoteError, ClearSessionDead, Entry
<1>2. CASE f = NoteSessionDead(e)
  BY <1>2 DEF NoteSessionDead, Disable, ClearCooling, Entry
<1>3. e.marks \in [Models -> Mark] /\ e.marks[m].left # 0
  BY DEF Entry, Limited
<1>4. CASE f = Prune(e)
  <2>1. f.marks[m] = IF e.marks[m].left = 0 THEN NoMark ELSE e.marks[m]
    BY <1>4 DEF Prune, Entry
  <2>2. QED
    BY <1>3, <2>1
<1>5. ASSUME NEW n \in Models, f = BlockModelClear(e, n)
      PROVE  f.marks[m] = e.marks[m]
  BY <1>5 DEF BlockModelClear, Entry, Limited
<1>6. QED
  BY <1>1, <1>2, <1>4, <1>5 DEF Noted

\* The limit the backend set on one model of an account only grows older while
\* it runs, unless a check-in, a disable or a refusal that cools the account
\* lifts it, or a refusal about that same model puts another limit there.
THEOREM LimitSurvives == Spec => ModelLimitSurvives
<1> DEFINE Survives ==
      \A u \in Accounts, m \in Models :
        LET old == entry[u].marks[m]
            new == entry'[u].marks[m]
        IN (old.kind = "6004" /\ old.left > 0 /\ new # old) =>
             \/ Tick /\ new = [old EXCEPT !.left = Less(old.left)]
             \/ Checkin(u) \/ entry'[u].disabled
             \/ \E r \in Requests :
                  /\ acct[r] = u /\ Refused(r)
                  /\ entry'[u].until > 0 \/ (model[r] = m /\ new.left > 0)
<1>1. TypeOK /\ [Next]_vars => Survives
  <2> SUFFICES ASSUME TypeOK, [Next]_vars, NEW u \in Accounts, NEW m \in Models,
                      entry[u].marks[m].kind = "6004", entry[u].marks[m].left > 0,
                      entry'[u].marks[m] # entry[u].marks[m],
                      ~ Checkin(u), ~ entry'[u].disabled
               PROVE  \/ /\ Tick
                         /\ entry'[u].marks[m] =
                              [entry[u].marks[m] EXCEPT !.left = Less(entry[u].marks[m].left)]
                      \/ \E r \in Requests :
                           /\ acct[r] = u /\ Refused(r)
                           /\ \/ entry'[u].until > 0
                              \/ model[r] = m /\ entry'[u].marks[m].left > 0
    BY Zenon
  <2>1. entry[u] \in Entry /\ Limited(entry[u], m)
    BY DEF TypeOK, Limited
  <2>2. CASE Noted(entry[u], entry'[u])
    BY <2>1, <2>2, NotedSpares
  <2>3. CASE Tick /\ entry'[u] = Age(entry[u])
    <3>1. entry'[u].marks =
            [n \in Models |->
               [entry[u].marks[n] EXCEPT !.left = Less(entry[u].marks[n].left)]]
      BY <2>1, <2>3, Zenon DEF Age, Entry
    <3>2. QED
      BY <2>3, <3>1, Zenon
  <2>4. CASE Refuses(u)
    <3>1. PICK r \in Requests, o \in RotatingOutcomes, reset \in Nat :
            /\ acct[r] = u /\ Refused(r)
            /\ entry'[u] = ApplyErrorPolicy(entry[u], o, model[r], reset)
      BY <2>4 DEF Refuses
    <3>2. model[r] \in Models
      BY DEF TypeOK
    <3>3. Spared(entry[u], entry'[u], m, model[r])
      BY <2>1, <3>1, <3>2, PolicySpares
    <3>4. entry'[u].until > 0 \/ (model[r] = m /\ entry'[u].marks[m].left > 0)
      BY <2>1, <3>3 DEF Spared
    <3>5. QED
      BY <3>1, <3>4
  <2>5. CASE Succeeds(u)
    BY <2>1, <2>5 DEF Succeeds, NoteSuccess, Entry
  <2>6. QED
    BY <2>2, <2>3, <2>4, <2>5, EntrySteps
<1>2. QED
  BY <1>1, TypeCorrect, PTL DEF Spec, ModelLimitSurvives

-----------------------------------------------------------------------------
(* The breaker.                                                            *)

\* Arithmetic of the back-off that the provers have no axioms for.
PowersDouble == \A n \in Nat : 2^n \in Nat /\ 2^(n + 1) = 2 * 2^n

\* The next delay is at least this one.
LEMMA DelaysGrow ==
  ASSUME PowersDouble, NEW base \in Positive, NEW max \in Positive, base <= max,
         NEW n \in Positive
  PROVE  Backoff(base, n, max) <= Backoff(base, n + 1, max)
<1> DEFINE x == base * 2^(n - 1)
<1>1. n - 1 \in Nat /\ n \in Nat /\ ~ (n + 1 <= 1) /\ (n - 1) + 1 = n /\ (n + 1) - 1 = n
  BY DEF Positive
<1>2. 2^(n - 1) \in Nat /\ 2^n = 2 * 2^(n - 1)
  <2>1. 2^(n - 1) \in Nat /\ 2^((n - 1) + 1) = 2 * 2^(n - 1)
    BY <1>1 DEF PowersDouble
  <2>2. QED
    BY <1>1, <2>1
<1>3. x \in Nat /\ base * 2^n = 2 * x
  <2>1. \A a, b \in Nat : a * b \in Nat /\ a * (2 * b) = 2 * (a * b)
    OBVIOUS
  <2>2. QED
    BY <1>2, <2>1 DEF Positive
<1>4. Backoff(base, n + 1, max) = IF 2 * x \in 1..max THEN 2 * x ELSE max
  BY <1>1, <1>3 DEF Backoff
<1>5. CASE n <= 1
  <2>1. n = 1
    BY <1>1, <1>5 DEF Positive
  <2>2. 2^1 = 2
    OBVIOUS
  <2>3. 2 * x = base * 2
    BY <1>3, <2>1, <2>2
  <2>4. Backoff(base, n, max) = base
    BY <2>1 DEF Backoff
  <2>5. QED
    BY <1>4, <2>3, <2>4 DEF Positive
<1>6. CASE ~ (n <= 1)
  <2>1. Backoff(base, n, max) = IF x \in 1..max THEN x ELSE max
    BY <1>6 DEF Backoff
  <2>2. QED
    BY <1>3, <1>4, <2>1 DEF Positive
<1>7. QED
  BY <1>5, <1>6

\* A breaker runs no longer than the failure after next would set it.
Bounded(e) == e.breakerUntil <= Backoff(BreakerBase, e.retryCount + 1, BreakerMax)

\* What concerns the breaker is a failure counted, or the clock.
LEMMA BreakerChanges ==
  ASSUME NEW e \in Entry, NEW f,
         Change(e, f) \/ f = ReenableIfCredits(e)
  PROVE  \/ f = NoteError(e)
         \/ /\ f.retryCount = e.retryCount
            /\ f.breakerUntil \in {e.breakerUntil, Less(e.breakerUntil)}
<1>1. CASE f \in {e, NoteError(e), ClearSessionDead(e), Prune(e)}
  BY <1>1 DEF ClearSessionDead, Prune, Entry
<1>2. CASE f = Age(e)
  BY <1>2 DEF Age, Entry
<1>3. CASE f = NoteSessionDead(e) \/ f = ReenableIfCredits(e)
  BY <1>3 DEF NoteSessionDead, ReenableIfCredits, Disable, ClearCooling, Entry
<1>4. CASE \E m \in Models : f = BlockModelClear(e, m)
  BY <1>4 DEF BlockModelClear, Entry
<1>5. CASE \E o \in RotatingOutcomes, m \in Models, reset \in Nat :
             f = ApplyErrorPolicy(e, o, m, reset)
  <2>1. PICK o \in RotatingOutcomes, m \in Models, reset \in Nat :
          f = ApplyErrorPolicy(e, o, m, reset)
    BY <1>5
  <2>2. f \in {e, Cooldown(e, HardKind, HardCool, "credit"),
               CooldownSoftForModel(e, m, reset), CooldownSoftRateUntil(e, reset),
               CooldownSoftRate(e), Disable(e, "dead"),
               Cooldown(e, SoftKind, NotFoundCool, "404"), Disable(e, "banned"),
               Cooldown(e, SoftKind, SoftBase, "fault"), NoteError(e),
               BlockModelBackoff(e, m)}
    BY <2>1, Zenon DEF ApplyErrorPolicy
  <2>3. ASSUME NEW kind, NEW d, NEW why
        PROVE  /\ Cooldown(e, kind, d, why).retryCount = e.retryCount
               /\ Cooldown(e, kind, d, why).breakerUntil = e.breakerUntil
               /\ Disable(e, why).retryCount = e.retryCount
               /\ Disable(e, why).breakerUntil = e.breakerUntil
    BY DEF Cooldown, Disable, ClearCooling, Entry
  <2>4. \A g \in {CooldownSoftForModel(e, m, reset), CooldownSoftRateUntil(e, reset),
                  CooldownSoftRate(e), BlockModelBackoff(e, m)} :
          g.retryCount = e.retryCount /\ g.breakerUntil = e.breakerUntil
    BY DEF CooldownSoftForModel, CooldownSoftRateUntil, CooldownSoftRate,
           BlockModelBackoff, Entry
  <2>5. QED
    BY <2>2, <2>3, <2>4
<1>6. QED
  BY <1>1, <1>2, <1>3, <1>4, <1>5 DEF Change

\* A failure never shortens a breaker that is bounded, and leaves it bounded.
LEMMA ErrorProlongs ==
  ASSUME PowersDouble, BreakerBase <= BreakerMax, NEW e \in Entry, Bounded(e)
  PROVE  NoteError(e).breakerUntil >= e.breakerUntil /\ Bounded(NoteError(e))
<1> DEFINE D(n) == Backoff(BreakerBase, n, BreakerMax)
<1>1. /\ BreakerBase \in Positive /\ BreakerMax \in Positive
      /\ e.retryCount \in Nat /\ e.breakerUntil \in Int
      /\ D(e.retryCount + 1) \in Nat
  <2>1. e.retryCount \in Nat /\ e.retryCount + 1 \in Nat /\ e.breakerUntil \in Int
    BY DEF Entry, Unset
  <2>2. QED
    BY <2>1, DurationAssumption, BackoffType
<1>2. CASE e.fails + 1 < BreakerThreshold
  <2>1. /\ NoteError(e).breakerUntil = e.breakerUntil
        /\ NoteError(e).retryCount = e.retryCount
    BY <1>2 DEF NoteError, Entry
  <2>2. QED
    BY <1>1, <2>1 DEF Bounded
<1>3. CASE ~ (e.fails + 1 < BreakerThreshold)
  <2>1. /\ NoteError(e).breakerUntil = D(e.retryCount + 1)
        /\ NoteError(e).retryCount = Bump(e.retryCount)
    BY <1>3 DEF NoteError, Entry
  <2>2. D(e.retryCount + 1) <= D(Bump(e.retryCount) + 1)
    <3>1. e.retryCount + 1 \in Positive
      BY <1>1 DEF Positive
    <3>2. D(e.retryCount + 1) <= D((e.retryCount + 1) + 1)
      BY <1>1, <3>1, DelaysGrow
    <3>3. CASE Bump(e.retryCount) = e.retryCount + 1
      BY <3>2, <3>3
    <3>4. CASE Bump(e.retryCount) = e.retryCount
      BY <1>1, <3>4
    <3>5. QED
      BY <3>3, <3>4 DEF Bump
  <2>3. QED
    BY <1>1, <2>1, <2>2 DEF Bounded
<1>4. QED
  BY <1>2, <1>3

\* Only a successful call ends the breaker of an account early: no failure,
\* disable, cooldown or check-in shortens it. Failures of calls that were in
\* flight when it opened open it again, never for less, as long as the first
\* delay is not longer than the cap (30 minutes and 6 hours by default).
THEOREM SuccessCloses ==
  ASSUME PowersDouble, BreakerBase <= BreakerMax
  PROVE  Spec => OnlySuccessClosesBreaker
<1> DEFINE AllBounded == \A u \in Accounts : Bounded(entry[u])
           Kept == \A u \in Accounts :
                     entry'[u].breakerUntil < Less(entry[u].breakerUntil) =>
                       \E r \in Requests : /\ acct[r] = u
                                           /\ pc[r] = "call" /\ pc'[r] = "clear"
<1>1. Init => AllBounded
  <2>1. BreakerBase \in Positive /\ BreakerMax \in Positive
    BY DurationAssumption
  <2>2. Backoff(BreakerBase, 0 + 1, BreakerMax) = BreakerBase
    BY <2>1 DEF Backoff
  <2>3. NewEntry.retryCount = 0 /\ NewEntry.breakerUntil = -1
    BY DEF NewEntry, Unset
  <2>4. QED
    BY <2>1, <2>2, <2>3 DEF Init, Bounded, Positive
<1>2. TypeOK /\ TypeOK' /\ AllBounded /\ [Next]_vars => AllBounded' /\ Kept
  <2> SUFFICES ASSUME TypeOK, TypeOK', AllBounded, [Next]_vars, NEW u \in Accounts
               PROVE  /\ Bounded(entry'[u])
                      /\ Succeeds(u) \/ entry'[u].breakerUntil >= Less(entry[u].breakerUntil)
    <3>1. TypeOK' => \A u \in Accounts : entry'[u].breakerUntil \in Int
      BY DEF TypeOK, Entry, Unset
    <3>2. TypeOK => \A u \in Accounts : Less(entry[u].breakerUntil) \in Int
      BY DEF TypeOK, Entry, Unset, Less
    <3>3. QED
      BY <3>1, <3>2 DEF Succeeds, Bounded
  <2>1. entry[u] \in Entry /\ Bounded(entry[u])
    BY DEF TypeOK
  <2>2. entry[u].breakerUntil \in Int /\ Less(entry[u].breakerUntil) <= entry[u].breakerUntil
    BY <2>1 DEF Entry, Unset, Less
  <2>3. CASE Succeeds(u)
    <3>1. /\ entry'[u].breakerUntil = -1 /\ entry'[u].retryCount = 0
      BY <2>1, <2>3 DEF Succeeds, NoteSuccess, Entry, Unset
    <3>2. BreakerBase \in Positive /\ Backoff(BreakerBase, 0 + 1, BreakerMax) = BreakerBase
      BY DurationAssumption DEF Backoff
    <3>3. QED
      BY <2>3, <3>1, <3>2 DEF Bounded, Positive
  <2>4. CASE entry'[u] = NoteError(entry[u])
    <3>1. NoteError(entry[u]).breakerUntil \in Int
      BY <2>1, NoteTypes DEF Entry, Unset
    <3>2. QED
      BY <2>1, <2>2, <2>4, <3>1, ErrorProlongs DEF Less
  <2>5. CASE /\ entry'[u].retryCount = entry[u].retryCount
             /\ entry'[u].breakerUntil \in {entry[u].breakerUntil, Less(entry[u].breakerUntil)}
    <3>1. /\ entry[u].retryCount + 1 \in Nat /\ BreakerBase \in Positive
          /\ BreakerMax \in Positive
      BY <2>1, DurationAssumption DEF Entry
    <3>2. Backoff(BreakerBase, entry[u].retryCount + 1, BreakerMax) \in Nat
      BY <3>1, BackoffType
    <3>3. QED
      BY <2>1, <2>2, <2>5, <3>2 DEF Bounded, Less
  <2>6. QED
    BY <2>1, <2>3, <2>4, <2>5, EntryChanges, BreakerChanges
<1>3. QED
  BY <1>1, <1>2, TypeCorrect, PTL DEF Spec, OnlySuccessClosesBreaker

-----------------------------------------------------------------------------
(* What a selection hands out.                                             *)

\* What the contract asks of the account handed out.
Acceptable(r, u) ==
  /\ ~entry[u].disabled /\ ~HardCooled(entry[u]) /\ ~ModelCooled(entry[u], model[r])
  /\ Healthy(entry[u]) \/ Candidates(r) = {}

\* A healthy account is acceptable, and so is a fallback when nothing else is.
LEMMA SelectedAcceptable ==
  ASSUME NEW r \in Requests, NEW u
  PROVE  /\ Pickable(u, model[r]) => Acceptable(r, u)
         /\ u \in Fallback(r) /\ Candidates(r) = {} => Acceptable(r, u)
<1>1. Pickable(u, model[r]) => Acceptable(r, u)
  BY DEF Pickable, HealthyForModel, Healthy, HardCooled, Acceptable
<1>2. u \in Fallback(r) => FallbackEligible(entry[u], model[r])
  BY DEF Fallback
<1>3. QED
  BY <1>1, <1>2 DEF FallbackEligible, Acceptable

\* Only the two selections of a request take it from the loop to Acquire.
LEMMA OnlySelectionsSelect ==
  ASSUME TypeOK, [Next]_vars, NEW r \in Requests, pc[r] = "loop", pc'[r] = "acquire"
  PROVE  PickSticky(r) \/ PickAccount(r)
<1>1. pc \in [Requests -> Places]
  BY DEF TypeOK
<1>2. ASSUME NEW q \in Requests, Advance(q) \/ Arrive(q) \/ Cancel(q)
      PROVE  PickSticky(r) \/ PickAccount(r)
  <2>1. q = r
    BY <1>2, OthersUntouched
  <2>2. ~Arrive(r) /\ ~Cancel(r)
    BY <1>1 DEF Arrive, Cancel
  <2>3. ~GiveUp(r) /\ ~Acquire(r) /\ ~Refresh(r) /\ ~Answer(r)
    BY <1>1 DEF GiveUp, Acquire, Refresh, Answer
  <2>r. ~Resolve(r) /\ ~Lookup(r) /\ ~Touch(r) /\ ~Assign(r)
    BY <1>1 DEF Resolve, Lookup, Touch, Assign
  <2>4. ~ClearBlock(r) /\ ~Rebind(r) /\ ~Release(r) /\ ~Unbind(r) /\ ~Exit(r)
    BY <1>1 DEF ClearBlock, Rebind, Release, Unbind, Exit
  <2>5. QED
    BY <1>2, <2>1, <2>2, <2>3, <2>r, <2>4 DEF Advance
<1>3. CASE \/ \E u \in Accounts : Checkin(u) \/ Keepalive(u)
           \/ \E s \in Sessions : ExpireBinding(s)
           \/ Tick
           \/ UNCHANGED vars
  BY <1>3 DEF Checkin, Keepalive, ExpireBinding, Tick, requestVars, vars
<1>4. QED
  BY <1>2, <1>3 DEF Next

\* No selection, sticky, normal or fallback, hands out a disabled account, one
\* without credits or one limited on the model; and a cooling one only when no
\* untried account is available.
THEOREM SelectionHonoursContract == Spec => SelectionContract
<1>1. TypeOK /\ [Next]_vars =>
        \A r \in Requests : (pc[r] = "loop" /\ pc'[r] = "acquire") =>
          Acceptable(r, acct'[r])
  <2>1. SUFFICES ASSUME TypeOK, [Next]_vars, NEW r \in Requests,
                        pc[r] = "loop", pc'[r] = "acquire"
                 PROVE  Acceptable(r, acct'[r])
    OBVIOUS
  <2>2. acct \in [Requests -> Accounts \cup {None}] /\ pc \in [Requests -> Places]
    BY <2>1 DEF TypeOK
  <2>3. \E u : Take(r, u) /\ acct'[r] = u /\
               (Pickable(u, model[r]) \/ (u \in Fallback(r) /\ Candidates(r) = {}))
    <3>1. CASE PickSticky(r)
      BY <2>1, <2>2, <3>1 DEF PickSticky, Take
    <3>2. CASE PickAccount(r)
      <4>1. \A u \in Candidates(r) : Pickable(u, model[r])
        BY DEF Candidates, AvailableFor
      <4>2. QED
        BY <2>1, <2>2, <3>2, <4>1 DEF PickAccount, Take
    <3>3. QED
      BY <2>1, <3>1, <3>2, OnlySelectionsSelect
  <2>4. QED
    BY <2>3, SelectedAcceptable
<1>2. QED
  BY <1>1, TypeCorrect, PTL DEF Spec, SelectionContract, Acceptable
=============================================================================
