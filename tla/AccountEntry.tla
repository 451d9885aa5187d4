---------------------------- MODULE AccountEntry ----------------------------
(***************************************************************************)
(* One account of the pool (internal/pool): the record kept under p.mu,    *)
(* the predicates that decide whether it may be handed out, and every      *)
(* transition the pool's methods make on it.  The module has no variable:  *)
(* modules that own a pool apply these operators to their own entries.     *)
(*                                                                         *)
(* TIME.  A deadline is kept as the number of ticks left until it: the     *)
(* code only ever compares a deadline with time.Now() or with another      *)
(* deadline.  0 is "past or never set"; the one place where the code tells *)
(* a past deadline from time.Time{} is breakerUntil.IsZero(), so that      *)
(* field has the extra value Unset.                                        *)
(*                                                                         *)
(* A definition named Faulty... is the one that follows it with a          *)
(* plausible mistake; nothing refers to it, it serves the mutation runs.   *)
(***************************************************************************)
EXTENDS Integers

CONSTANTS
  Models,                \* model names a request may carry
  SoftBase,              \* cfg.SoftCooldown, also the 14017 cooldown
  SoftMax,               \* softRateMax
  NotFoundCool,          \* notFoundCooldown
  HardCool,              \* ticks to the next 04:00
  BreakerBase,           \* breakerCooldown
  BreakerMax,            \* breakerCooldownMax
  BreakerThreshold,      \* breakerThreshold
  BlockBase,             \* modelBlockBaseTTL
  BlockMax,              \* modelBlockMaxTTL
  SessionDeadThreshold,  \* sessionDeadThreshold
  CountBound             \* bound on softStreak, retryCount and hits

Positive == Nat \ {0}

ASSUME DurationAssumption ==
  /\ SoftBase \in Positive /\ SoftMax \in Positive /\ NotFoundCool \in Positive
  /\ HardCool \in Positive
  /\ BreakerBase \in Positive /\ BreakerMax \in Positive
  /\ BlockBase \in Positive /\ BlockMax \in Positive

ASSUME ThresholdAssumption ==
  BreakerThreshold \in Positive /\ SessionDeadThreshold \in Positive

\* A counter that drives a back-off may stop at CountBound when the delay has
\* reached its cap there: the code's counters only move the delay further
\* towards the cap (softStreakShiftMax keeps the shift below the word size).
ASSUME CountAssumption == CountBound \in Positive

-----------------------------------------------------------------------------
Unset == -1
HardKind == 0              \* CoolHard is iota 0, the zero value of CoolKind
SoftKind == 1

Reasons == {"none", "credit", "rate", "404", "fault", "dead", "banned"}
MarkKinds == {"none", "6004", "11102"}

Mark == [kind : MarkKinds, left : Nat, hits : Nat]
NoMark == [kind |-> "none", left |-> 0, hits |-> 0]
NoMarks == [m \in Models |-> NoMark]

Entry == [disabled : BOOLEAN, reason : Reasons,
          until : Nat, coolKind : {HardKind, SoftKind}, softStreak : Nat,
          marks : [Models -> Mark],
          breakerUntil : Nat \cup {Unset}, fails : Nat, retryCount : Nat,
          sessionDeadFails : Nat]

NewEntry == [disabled |-> FALSE, reason |-> "none",
             until |-> 0, coolKind |-> HardKind, softStreak |-> 0,
             marks |-> NoMarks,
             breakerUntil |-> Unset, fails |-> 0, retryCount |-> 0,
             sessionDeadFails |-> 0]

-----------------------------------------------------------------------------
(* What the selection code reads.                                          *)

Healthy(e) == ~e.disabled /\ e.until = 0 /\ e.breakerUntil <= 0

ModelCooled(e, m) == e.marks[m].left > 0

HealthyForModel(e, m) == Healthy(e) /\ ~ModelCooled(e, m)

\* The shape the health probe accepts besides Healthy: note that it looks
\* neither at until nor at whether the marks have expired.
ModelExempt(e) ==
  /\ \E m \in Models : e.marks[m].kind # "none"
  /\ ~e.disabled
  /\ e.breakerUntil = Unset

\* Ticks to the earlier of the two running deadlines, 0 when none runs.
Expiry(e) ==
  IF e.breakerUntil > 0 /\ (e.until = 0 \/ e.breakerUntil < e.until)
  THEN e.breakerUntil
  ELSE e.until

HardCooled(e) == e.coolKind = HardKind /\ e.until > 0

FaultyFallbackEligible(e, m) ==     \* hard cooldown not excluded
  ~e.disabled /\ ~ModelCooled(e, m) /\ Expiry(e) > 0

\* What the fallback accepts when no account is healthy.
FallbackEligible(e, m) ==
  ~e.disabled /\ ~ModelCooled(e, m) /\ ~HardCooled(e) /\ Expiry(e) > 0

-----------------------------------------------------------------------------
(* Delays.                                                                 *)

Bump(n) == IF n < CountBound THEN n + 1 ELSE n

\* The n-th delay in a row: base first, then doubled each time up to max.
Backoff(base, n, max) ==
  IF n <= 1 THEN base
  ELSE IF base * 2^(n - 1) \in 1..max THEN base * 2^(n - 1)
  ELSE max

\* An upstream reset time, cut to SoftMax; one already past gives a cooldown
\* that ends with the next tick.
Capped(reset) ==
  IF reset > SoftMax THEN SoftMax ELSE IF reset > 0 THEN reset ELSE 1

-----------------------------------------------------------------------------
(* Transitions: the entry after each method of the pool.                   *)

Prune(e) ==
  [e EXCEPT !.marks =
     [m \in Models |-> IF e.marks[m].left = 0 THEN NoMark ELSE e.marks[m]]]

FaultyClearCooling(e) ==             \* clears the breaker along with it
  [e EXCEPT !.until = 0, !.coolKind = HardKind, !.reason = "none",
            !.softStreak = 0, !.marks = NoMarks, !.breakerUntil = Unset]

ClearCooling(e) ==
  [e EXCEPT !.until = 0, !.coolKind = HardKind, !.reason = "none",
            !.softStreak = 0, !.marks = NoMarks]

Disable(e, why) ==
  [ClearCooling(e) EXCEPT !.disabled = TRUE, !.reason = why]

Cooldown(e, kind, d, why) ==
  [e EXCEPT !.until = d, !.coolKind = kind, !.reason = why, !.marks = NoMarks]

FaultyCooldownSoftRate(e) ==         \* a probe while cooling moves the deadline
  [e EXCEPT !.until = Backoff(SoftBase, e.softStreak + 1, SoftMax),
            !.softStreak = Bump(e.softStreak),
            !.coolKind = SoftKind, !.reason = "rate", !.marks = NoMarks]

\* A 429 without a reset time: only a cooldown that is not already a running
\* soft one advances the streak and moves the deadline.
CooldownSoftRate(e) ==
  LET fresh == e.coolKind # SoftKind \/ e.until = 0
  IN [e EXCEPT !.until = IF fresh
                         THEN Backoff(SoftBase, e.softStreak + 1, SoftMax)
                         ELSE e.until,
               !.softStreak = IF fresh THEN Bump(e.softStreak) ELSE e.softStreak,
               !.coolKind = SoftKind, !.reason = "rate", !.marks = NoMarks]

\* A 429 that names a reset time and is about the whole account.
CooldownSoftRateUntil(e, reset) ==
  [e EXCEPT !.until = Capped(reset), !.coolKind = SoftKind,
            !.reason = "rate", !.marks = NoMarks]

\* A 6004 with a reset time: only the mark of that model.
CooldownSoftForModel(e, m, reset) ==
  [e EXCEPT !.marks[m] = [kind |-> "6004", left |-> Capped(reset), hits |-> 0]]

BlockModelBackoff(e, m) ==
  LET hits == Bump(e.marks[m].hits)
  IN [e EXCEPT !.marks[m] = [kind |-> "11102",
                             left |-> Backoff(BlockBase, hits, BlockMax),
                             hits |-> hits]]

FaultyBlockModelClear(e, m) ==       \* clears a 6004 mark too
  [e EXCEPT !.marks[m] = NoMark]

BlockModelClear(e, m) ==
  IF e.marks[m].kind = "11102" THEN [e EXCEPT !.marks[m] = NoMark] ELSE e

NoteError(e) ==
  IF e.fails + 1 < BreakerThreshold
  THEN [e EXCEPT !.fails = e.fails + 1]
  ELSE [e EXCEPT !.fails = 0, !.retryCount = Bump(e.retryCount),
                 !.breakerUntil = Backoff(BreakerBase, e.retryCount + 1, BreakerMax)]

NoteSuccess(e) ==
  [e EXCEPT !.fails = 0, !.retryCount = 0, !.breakerUntil = Unset,
            !.softStreak = 0, !.sessionDeadFails = 0]

NoteSessionDead(e) ==
  IF e.sessionDeadFails + 1 < SessionDeadThreshold
  THEN [e EXCEPT !.sessionDeadFails = e.sessionDeadFails + 1]
  ELSE Disable([e EXCEPT !.sessionDeadFails = 0], "dead")

ClearSessionDead(e) == [e EXCEPT !.sessionDeadFails = 0]

FaultyReenableIfCredits(e) ==        \* revives disabled accounts as well
  ClearCooling([e EXCEPT !.disabled = FALSE])

\* A check-in that found credits left.
ReenableIfCredits(e) == IF e.disabled THEN e ELSE ClearCooling(e)

\* One tick of the clock.
Less(n) == IF n > 0 THEN n - 1 ELSE n
Age(e) ==
  [e EXCEPT !.until = Less(e.until), !.breakerUntil = Less(e.breakerUntil),
            !.marks = [m \in Models |-> [e.marks[m] EXCEPT !.left = Less(@)]]]
=============================================================================
