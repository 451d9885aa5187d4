------------------------ MODULE TokenRefresh_proofs ------------------------
(***************************************************************************)
(* Safety of the credentials for any number of callers, refreshes, saves,  *)
(* failures and restarts: type correctness, that a refresh always sends    *)
(* the current credentials, that the file never goes back, and that what   *)
(* was refreshed reaches the file unless the last save failed.             *)
(***************************************************************************)
EXTENDS TokenRefresh, TLAPS

-----------------------------------------------------------------------------
(* The transitions of AccountEntry that a refresh, a chat success, a dead  *)
(* session and the clock cause map an entry to an entry.                   *)

\* A back-off delay is a number of ticks whatever the counter is.
LEMMA BackoffType ==
  ASSUME NEW base \in Positive, NEW max \in Positive, NEW n \in Nat
  PROVE  Backoff(base, n, max) \in Nat
<1>1. CASE n <= 1
  BY <1>1 DEF Backoff, Positive
<1>2. CASE ~(n <= 1) /\ base * 2^(n - 1) \in 1..max
  BY <1>2 DEF Backoff, Positive
<1>3. CASE ~(n <= 1) /\ ~(base * 2^(n - 1) \in 1..max)
  BY <1>3 DEF Backoff, Positive
<1>4. QED
  BY <1>1, <1>2, <1>3

\* The counters of the back-offs stay natural numbers.
LEMMA BumpType ==
  ASSUME NEW n \in Nat
  PROVE  Bump(n) \in Nat
BY DEF Bump

\* A pool starts an account with an entry.
LEMMA NewEntryType == NewEntry \in Entry
BY DEF NewEntry, Entry, NoMarks, NoMark, Mark, MarkKinds, Reasons, Unset,
       HardKind, SoftKind

\* Clearing a cooldown, and a disable for any reason, leave an entry.
LEMMA ClearTypes ==
  ASSUME NEW e \in Entry, NEW why \in Reasons
  PROVE  /\ ClearCooling(e) \in Entry
         /\ Disable(e, why) \in Entry
         /\ ReenableIfCredits(e) \in Entry
BY ZenonT(60) DEF ClearCooling, Disable, ReenableIfCredits, Entry, NoMarks, NoMark, Mark,
       MarkKinds, Reasons, HardKind

\* Recording a failure, a success or a dead session leaves an entry.
LEMMA NoteTypes ==
  ASSUME NEW e \in Entry
  PROVE  /\ NoteError(e) \in Entry
         /\ NoteSuccess(e) \in Entry
         /\ NoteSessionDead(e) \in Entry
         /\ ClearSessionDead(e) \in Entry
<1>1. /\ e.fails \in Nat /\ e.retryCount \in Nat /\ e.sessionDeadFails \in Nat
  BY DEF Entry
<1>2. NoteError(e) \in Entry
  <2>1. Backoff(BreakerBase, e.retryCount + 1, BreakerMax) \in Nat
    <3>1. e.retryCount + 1 \in Nat
      BY <1>1
    <3>2. QED
      BY <3>1, BackoffType, DurationAssumption, Zenon
  <2>2. Bump(e.retryCount) \in Nat
    BY <1>1, BumpType
  <2>3. [e EXCEPT !.fails = e.fails + 1] \in Entry
    BY <1>1 DEF Entry
  <2>4. [e EXCEPT !.fails = 0, !.retryCount = Bump(e.retryCount),
                  !.breakerUntil = Backoff(BreakerBase, e.retryCount + 1, BreakerMax)]
          \in Entry
    BY <2>1, <2>2 DEF Entry
  <2>5. QED
    BY <2>3, <2>4, Zenon DEF NoteError
<1>3. NoteSuccess(e) \in Entry
  BY DEF NoteSuccess, Entry, Unset
<1>4. ClearSessionDead(e) \in Entry
  BY DEF ClearSessionDead, Entry
<1>5. NoteSessionDead(e) \in Entry
  <2>1. [e EXCEPT !.sessionDeadFails = 0] \in Entry
    BY DEF Entry
  <2>2. Disable([e EXCEPT !.sessionDeadFails = 0], "dead") \in Entry
    BY <2>1, ClearTypes DEF Reasons
  <2>3. [e EXCEPT !.sessionDeadFails = e.sessionDeadFails + 1] \in Entry
    BY <1>1 DEF Entry
  <2>4. QED
    BY <2>2, <2>3 DEF NoteSessionDead
<1>6. QED
  BY <1>2, <1>3, <1>4, <1>5

\* The clock leaves an entry: no deadline runs below "past".
LEMMA AgeType ==
  ASSUME NEW e \in Entry
  PROVE  Age(e) \in Entry
<1>1. /\ e.until \in Nat /\ e.breakerUntil \in Nat \cup {Unset}
      /\ e.marks \in [Models -> Mark]
  BY DEF Entry
<1>2. /\ Less(e.until) \in Nat
      /\ Less(e.breakerUntil) \in Nat \cup {Unset}
  BY <1>1 DEF Less, Unset
<1>3. ASSUME NEW m \in Models
      PROVE  [e.marks[m] EXCEPT !.left = Less(@)] \in Mark
  BY <1>1 DEF Mark, Less
<1>4. QED
  BY <1>2, <1>3 DEF Age, Entry

-----------------------------------------------------------------------------
(* Type correctness.                                                       *)

\* A token one tick older is a token.
LEMMA OlderType ==
  ASSUME NEW t \in Token
  PROVE  Older(t) \in Token /\ Older(t).ver = t.ver
<1>1. Less(t.left) \in 0..Lifetime
  BY TokenAssumption DEF Token, Less, Positive
<1>2. QED
  BY <1>1 DEF Older, Token

\* The snapshot of a caller that saves nothing is a token.
LEMMA NoDraftType == NoDraft \in Token
BY TokenAssumption DEF NoDraft, Token, Positive

\* What the steps of a caller do to the entry leaves an entry.
LEMMA EntrySteps ==
  ASSUME TypeOK, NEW c \in Callers, Advance(c)
  PROVE  entry' \in Entry
<1>1. entry \in Entry
  BY DEF TypeOK
<1>2. /\ NoteError(entry) \in Entry /\ NoteSuccess(entry) \in Entry
      /\ NoteSessionDead(entry) \in Entry /\ ClearSessionDead(entry) \in Entry
  BY <1>1, NoteTypes
<1>3. ReenableIfCredits(entry) \in Entry
  BY <1>1, ClearTypes DEF Reasons
<1>4. CASE NoteRefreshed(c) \/ NoteFailure(c) \/ Use(c)
  BY <1>1, <1>2, <1>3, <1>4, Zenon DEF NoteRefreshed, NoteFailure, Use
<1>5. CASE Check(c) \/ Enter(c) \/ Send(c) \/ Return(c) \/ Install(c) \/ Close(c)
           \/ Recheck(c) \/ SaveBegin(c) \/ Write(c)
  BY <1>1, <1>5 DEF Check, Enter, Send, Return, Install, Close, Recheck, SaveBegin, Write
<1>6. QED
  BY <1>4, <1>5 DEF Advance

\* Every step of a caller keeps the types.
LEMMA AdvanceType ==
  ASSUME TypeOK, NEW c \in Callers, Advance(c)
  PROVE  TypeOK'
<1>e. entry' \in Entry
  BY EntrySteps
<1>1. CASE Check(c)
  BY <1>1, <1>e DEF Check, Goto, TypeOK, Places, tokens, refresh, saving, history
<1>2. CASE Enter(c)
  BY <1>2, <1>e DEF Enter, Goto, TypeOK, Places, tokens, saving, history
<1>3. CASE Send(c)
  BY <1>3, <1>e DEF Send, Goto, TypeOK, Places, Token, tokens, saving, history
<1>4. CASE Return(c)
  <2>1. /\ deadAnswers' \in 0..SessionDeadThreshold /\ issued' \in Nat
        /\ replaced' \in Nat
    BY <1>4, ThresholdAssumption DEF Return, TypeOK, Positive, history
  <2>2. /\ pc' \in [Callers -> Places]
        /\ result' \in [Callers -> {"none", "ok", "dead", "error", "panic"}]
    BY <1>4 DEF Return, Goto, TypeOK, Places
  <2>3. QED
    BY <1>4, <1>e, <2>1, <2>2 DEF Return, TypeOK, refresh, saving
<1>5. CASE Install(c)
  <2>1. cred' \in Token
    <3>1. cred.left \in 0..Lifetime /\ Lifetime \in 0..Lifetime
      BY TokenAssumption DEF TypeOK, Token, Positive
    <3>2. \A left \in {cred.left, Lifetime} : [ver |-> issued, left |-> left] \in Token
      BY <3>1 DEF TypeOK, Token
    <3>3. QED
      BY <1>5, <3>2 DEF Install, TypeOK
  <2>2. QED
    BY <1>5, <1>e, <2>1 DEF Install, Goto, TypeOK, Places, refresh, saving, history
<1>6. CASE Close(c)
  <2>1. /\ pc' \in [Callers -> Places]
        /\ result' \in [Callers -> {"none", "ok", "dead", "error", "panic"}]
    BY <1>6 DEF Close, TypeOK, Places
  <2>2. QED
    BY <1>6, <1>e, <2>1 DEF Close, TypeOK, tokens, saving, history
<1>7. CASE NoteRefreshed(c)
  BY <1>7, <1>e DEF NoteRefreshed, Goto, TypeOK, Places, tokens, refresh, saving, history
<1>8. CASE NoteFailure(c)
  BY <1>8, <1>e DEF NoteFailure, Goto, TypeOK, Places, tokens, refresh, saving, history
<1>9. CASE Recheck(c)
  BY <1>9, <1>e DEF Recheck, Goto, TypeOK, Places, tokens, refresh, saving, history
<1>10. CASE SaveBegin(c)
  BY <1>10, <1>e DEF SaveBegin, Goto, TypeOK, Places, tokens, refresh, history
<1>11. CASE Write(c)
  BY <1>11, <1>e, NoDraftType DEF Write, Goto, TypeOK, Places, refresh
<1>12. CASE Use(c)
  BY <1>12, <1>e DEF Use, Goto, TypeOK, Places, tokens, refresh, saving, history
<1>13. QED
  BY <1>1, <1>2, <1>3, <1>4, <1>5, <1>6, <1>7, <1>8, <1>9, <1>10, <1>11, <1>12
  DEF Advance

\* So do the other steps.
LEMMA TypeStep ==
  ASSUME TypeOK, [Next]_vars
  PROVE  TypeOK'
<1>1. ASSUME NEW c \in Callers, BeginChat(c) \/ BeginTask(c)
      PROVE  TypeOK'
  BY <1>1 DEF BeginChat, BeginTask, Goto, TypeOK, Places, tokens, refresh, saving, history
<1>2. ASSUME NEW c \in Callers, Advance(c)
      PROVE  TypeOK'
  BY <1>2, AdvanceType
<1>3. CASE Tick
  <2>1. /\ Older(cred) \in Token /\ Older(disk) \in Token
        /\ \A c \in Callers : Older(draft[c]) \in Token
    BY OlderType DEF TypeOK
  <2>2. Age(entry) \in Entry
    BY AgeType DEF TypeOK
  <2>3. QED
    BY <1>3, <2>1, <2>2 DEF Tick, TypeOK, refresh, history
<1>4. CASE Restart
  <2>1. [entry EXCEPT !.fails = 0] \in Entry
    BY DEF TypeOK, Entry
  <2>2. disk.ver \in Nat /\ replaced' \in Nat
    BY <1>4 DEF Restart, TypeOK, Token
  <2>3. QED
    BY <1>4, <2>1, <2>2, NoDraftType DEF Restart, TypeOK, Places
<1>5. CASE UNCHANGED vars
  BY <1>5 DEF vars, TypeOK
<1>6. QED
  BY <1>1, <1>2, <1>3, <1>4, <1>5 DEF Next

\* A process starts well typed.
LEMMA InitType == Init => TypeOK
<1>1. SUFFICES ASSUME Init PROVE TypeOK
  OBVIOUS
<1>2. cred \in Token /\ disk \in Token
  BY <1>1 DEF Init, Token
<1>3. draft \in [Callers -> Token] /\ entry \in Entry
  BY <1>1, NoDraftType, NewEntryType DEF Init
<1>4. deadAnswers \in 0..SessionDeadThreshold
  BY <1>1, ThresholdAssumption DEF Init, Positive
<1>5. /\ pc \in [Callers -> Places]
      /\ task \in [Callers -> {"chat", "keepalive", "checkin"}]
      /\ result \in [Callers -> {"none", "ok", "dead", "error", "panic"}]
  BY <1>1 DEF Init, Places
<1>6. QED
  BY <1>1, <1>2, <1>3, <1>4, <1>5 DEF Init, TypeOK

\* Every reachable state is well typed.
THEOREM TypeCorrect == Spec => []TypeOK
<1>1. Init => TypeOK
  BY InitType
<1>2. TypeOK /\ [Next]_vars => TypeOK'
  BY TypeStep
<1>3. QED
  BY <1>1, <1>2, PTL DEF Spec

-----------------------------------------------------------------------------
(* One leader at a time, and what its snapshot is.                         *)

\* The leader is the one caller between starting a refresh and closing it,
\* the saver the one that has taken its snapshot and not yet written it.
OneAtATime ==
  /\ \A c \in Callers :
       pc[c] \in {"send", "flying", "install", "close"} <=> leader = c
  /\ \A c \in Callers : pc[c] = "write" <=> saver = c

\* What is being refreshed is what memory holds.
Current == \A c \in Callers : pc[c] \in {"flying", "install"} => before = cred.ver

LeaderInv == TypeOK /\ OneAtATime /\ Current

\* Whoever refreshes or saves does so alone, and nobody else replaces the
\* credentials of the leader's snapshot.
LEMMA LeaderStep ==
  ASSUME LeaderInv, [Next]_vars
  PROVE  LeaderInv'
<1>t. TypeOK' /\ TypeOK
  BY TypeStep DEF LeaderInv
<1>n. None \notin Callers
  BY CallerAssumption
<1> USE <1>t, <1>n DEF LeaderInv, OneAtATime, Current
<1>1. ASSUME NEW c \in Callers, BeginChat(c) \/ BeginTask(c) \/ Check(c)
      PROVE  LeaderInv'
  BY <1>1 DEF BeginChat, BeginTask, Check, Goto, TypeOK, tokens, refresh, saving
<1>2. ASSUME NEW c \in Callers, Enter(c) \/ Send(c)
      PROVE  LeaderInv'
  BY <1>2 DEF Enter, Send, Goto, TypeOK, tokens, saving
<1>3. ASSUME NEW c \in Callers, Return(c)
      PROVE  LeaderInv'
  BY <1>3 DEF Return, Goto, TypeOK, refresh, saving
<1>4. ASSUME NEW c \in Callers, Install(c)
      PROVE  LeaderInv'
  BY <1>4 DEF Install, Goto, TypeOK, refresh, saving
<1>5. ASSUME NEW c \in Callers, Close(c)
      PROVE  LeaderInv'
  BY <1>5 DEF Close, TypeOK, tokens, saving
<1>6. ASSUME NEW c \in Callers,
             NoteRefreshed(c) \/ NoteFailure(c) \/ Recheck(c) \/ Use(c)
      PROVE  LeaderInv'
  BY <1>6 DEF NoteRefreshed, NoteFailure, Recheck, Use, Goto, TypeOK, tokens, refresh,
              saving
<1>7. ASSUME NEW c \in Callers, SaveBegin(c) \/ Write(c)
      PROVE  LeaderInv'
  BY <1>7 DEF SaveBegin, Write, Goto, TypeOK, tokens, refresh
<1>8. CASE Tick
  BY <1>8, OlderType DEF Tick, TypeOK, refresh
<1>9. CASE Restart
  BY <1>9 DEF Restart, TypeOK
<1>10. CASE UNCHANGED vars
  BY <1>10 DEF vars, TypeOK
<1>11. QED
  BY <1>1, <1>2, <1>3, <1>4, <1>5, <1>6, <1>7, <1>8, <1>9, <1>10 DEF Next, Advance

\* One leader refreshes and one saver writes at a time.
LEMMA LeaderInvariant == Spec => []LeaderInv
<1>1. Init => LeaderInv
  <2>1. Init => OneAtATime /\ Current
    BY CallerAssumption DEF Init, OneAtATime, Current
  <2>2. Init => TypeOK
    BY InitType
  <2>3. QED
    BY <2>1, <2>2 DEF LeaderInv
<1>2. LeaderInv /\ [Next]_vars => LeaderInv'
  BY LeaderStep
<1>3. QED
  BY <1>1, <1>2, PTL DEF Spec

-----------------------------------------------------------------------------
(* Versions only grow, in memory and on disk.                              *)

\* The file is no newer than memory, memory no newer than upstream, and a
\* snapshot about to be written lies between file and memory.
Ordered ==
  /\ disk.ver <= cred.ver /\ cred.ver <= issued
  /\ \A c \in Callers :
       pc[c] = "write" => disk.ver <= draft[c].ver /\ draft[c].ver <= cred.ver

VersionInv == LeaderInv /\ Ordered

\* Versions are natural numbers.
LEMMA VersionsAreNat ==
  ASSUME TypeOK
  PROVE  /\ disk.ver \in Nat /\ cred.ver \in Nat /\ issued \in Nat
         /\ \A c \in Callers : draft[c].ver \in Nat
BY DEF TypeOK, Token

\* Ageing leaves the versions alone.
LEMMA TickVersions ==
  ASSUME TypeOK, Tick
  PROVE  /\ cred'.ver = cred.ver /\ disk'.ver = disk.ver
         /\ \A c \in Callers : draft'[c].ver = draft[c].ver
BY OlderType DEF Tick, TypeOK

\* Every step keeps the versions in order.
LEMMA VersionStep ==
  ASSUME VersionInv, [Next]_vars
  PROVE  VersionInv'
<1>t. LeaderInv /\ LeaderInv' /\ TypeOK /\ OneAtATime
  BY LeaderStep DEF VersionInv, LeaderInv
<1>n. /\ disk.ver \in Nat /\ cred.ver \in Nat /\ issued \in Nat
      /\ \A c \in Callers : draft[c].ver \in Nat
  BY <1>t, VersionsAreNat
<1>s. SUFFICES Ordered'
  BY <1>t DEF VersionInv
<1>0. Ordered /\ pc \in [Callers -> Places]
  BY <1>t DEF VersionInv, TypeOK
<1>1. ASSUME NEW c \in Callers,
             \/ BeginChat(c) \/ BeginTask(c) \/ Check(c) \/ Enter(c) \/ Send(c)
             \/ NoteRefreshed(c) \/ NoteFailure(c) \/ Recheck(c) \/ Use(c)
      PROVE  Ordered'
  BY <1>0, <1>1 DEF BeginChat, BeginTask, Check, Enter, Send, NoteRefreshed,
     NoteFailure, Recheck, Use, Goto, Ordered, tokens, saving
<1>2. ASSUME NEW c \in Callers, Return(c)
      PROVE  Ordered'
  BY <1>0, <1>2, <1>n DEF Return, Goto, Ordered, saving
<1>3. ASSUME NEW c \in Callers, Install(c)
      PROVE  Ordered'
  <2>1. cred'.ver \in {cred.ver, issued}
    BY <1>3 DEF Install
  <2>2. UNCHANGED <<disk, issued, draft>> /\ pc' = [pc EXCEPT ![c] = "close"]
    BY <1>3 DEF Install, Goto, saving
  <2>3. QED
    BY <1>0, <1>n, <2>1, <2>2 DEF Ordered
<1>4. ASSUME NEW c \in Callers, Close(c)
      PROVE  Ordered'
  BY <1>0, <1>4 DEF Close, Ordered, tokens, saving
<1>5. ASSUME NEW c \in Callers, SaveBegin(c)
      PROVE  Ordered'
  BY <1>0, <1>5, <1>n, <1>t DEF SaveBegin, Goto, Ordered, tokens, TypeOK
<1>6. ASSUME NEW c \in Callers, Write(c)
      PROVE  Ordered'
  BY <1>0, <1>6, <1>n, <1>t DEF Write, Goto, Ordered, OneAtATime
<1>7. CASE Tick
  BY <1>0, <1>7, <1>t, TickVersions DEF Tick, Ordered
<1>8. CASE Restart
  BY <1>0, <1>8, <1>n DEF Restart, Ordered
<1>9. CASE UNCHANGED vars
  BY <1>0, <1>9 DEF vars, Ordered
<1>10. QED
  BY <1>1, <1>2, <1>3, <1>4, <1>5, <1>6, <1>7, <1>8, <1>9 DEF Next, Advance

\* They are in order always.
LEMMA VersionInvariant == Spec => []VersionInv
<1>1. Init => Ordered
  BY DEF Init, Ordered
<1>2. VersionInv /\ [Next]_vars => VersionInv'
  BY VersionStep
<1>3. Ordered /\ LeaderInv => VersionInv
  BY DEF VersionInv
<1>4. QED
  BY <1>1, <1>2, <1>3, LeaderInvariant, PTL DEF Spec

-----------------------------------------------------------------------------
(* What upstream has replaced is sent no more.                             *)

\* Memory holds what upstream gave last, or the leader is about to install it.
Caught ==
  \/ replaced <= cred.ver
  \/ replaced <= issued /\ \E c \in Callers : pc[c] = "install"

CaughtInv == VersionInv /\ Caught

\* Only the answer of upstream, the install and a restart concern it.
LEMMA CaughtStep ==
  ASSUME CaughtInv, [Next]_vars
  PROVE  CaughtInv'
<1>t. /\ VersionInv /\ VersionInv' /\ LeaderInv /\ TypeOK /\ OneAtATime /\ Current
      /\ Ordered /\ Ordered' /\ Caught
  BY VersionStep DEF CaughtInv, VersionInv, LeaderInv
<1>n. /\ disk.ver \in Nat /\ cred.ver \in Nat /\ issued \in Nat
      /\ replaced \in Nat /\ before \in Nat /\ pc \in [Callers -> Places]
  BY <1>t, VersionsAreNat DEF TypeOK
<1>s. SUFFICES Caught'
  BY <1>t DEF CaughtInv
<1>1. ASSUME NEW c \in Callers,
             \/ BeginChat(c) \/ BeginTask(c) \/ Check(c) \/ Enter(c) \/ Send(c)
             \/ NoteRefreshed(c) \/ NoteFailure(c) \/ Recheck(c) \/ Use(c)
             \/ SaveBegin(c) \/ Write(c)
      PROVE  Caught'
  <2>1. /\ UNCHANGED <<cred, issued, replaced>>
        /\ \A d \in Callers : pc[d] = "install" => pc'[d] = "install"
    BY <1>1, <1>n DEF BeginChat, BeginTask, Check, Enter, Send, NoteRefreshed,
       NoteFailure, Recheck, Use, SaveBegin, Write, Goto, tokens, history
  <2>2. QED
    BY <1>t, <2>1 DEF Caught
<1>2. ASSUME NEW c \in Callers, Return(c)
      PROVE  Caught'
  <2>1. before = cred.ver /\ \A d \in Callers : pc[d] # "install"
    BY <1>2, <1>t DEF Return, Current, OneAtATime
  <2>2. replaced <= cred.ver /\ cred.ver <= issued /\ cred' = cred
    BY <1>2, <1>t, <2>1 DEF Caught, Ordered, Return
  <2>3. CASE issued' = issued + 1 /\ replaced' = before + 1 /\ Goto(c, "install")
    <3>1. replaced' <= issued' /\ pc'[c] = "install"
      BY <1>n, <2>1, <2>2, <2>3 DEF Goto
    <3>2. QED
      BY <3>1 DEF Caught
  <2>4. CASE replaced' = replaced
    BY <2>2, <2>4 DEF Caught
  <2>5. QED
    BY <1>2, <2>3, <2>4 DEF Return
<1>3. ASSUME NEW c \in Callers, Install(c)
      PROVE  Caught'
  <2>1. before = cred.ver
    BY <1>3, <1>t DEF Install, Current
  <2>2. cred'.ver = issued /\ replaced' = replaced
    BY <1>3, <2>1 DEF Install, history
  <2>3. replaced <= issued
    BY <1>t, <1>n DEF Caught, Ordered
  <2>4. QED
    BY <2>2, <2>3 DEF Caught
<1>4. ASSUME NEW c \in Callers, Close(c)
      PROVE  Caught'
  <2>1. \A d \in Callers : pc[d] # "install"
    BY <1>4, <1>t DEF Close, OneAtATime
  <2>2. UNCHANGED <<cred, replaced>>
    BY <1>4 DEF Close, tokens, history
  <2>3. QED
    BY <1>t, <2>1, <2>2 DEF Caught
<1>5. CASE Tick
  <2>1. cred'.ver = cred.ver /\ UNCHANGED <<issued, replaced, pc>>
    BY <1>5, <1>t, TickVersions DEF Tick, history
  <2>2. QED
    BY <1>t, <2>1 DEF Caught
<1>6. CASE Restart
  <2>1. cred' = disk /\ replaced' = IF replaced > disk.ver THEN disk.ver ELSE replaced
    BY <1>6 DEF Restart
  <2>2. replaced' <= cred'.ver
    BY <1>n, <2>1
  <2>3. QED
    BY <2>2 DEF Caught
<1>7. CASE UNCHANGED vars
  BY <1>t, <1>7 DEF vars, Caught
<1>8. QED
  BY <1>1, <1>2, <1>3, <1>4, <1>5, <1>6, <1>7 DEF Next, Advance

\* Credentials that upstream has told the process to be replaced are not sent
\* again, unless it restarts from a file the replacement has not reached, and
\* no answer of upstream is thrown away by the comparison before the install.
THEOREM RefreshAlwaysCurrent == Spec => []RefreshUsesCurrent
<1>1. Init => Caught
  BY DEF Init, Caught, Token
<1>2. CaughtInv /\ [Next]_vars => CaughtInv'
  BY CaughtStep
<1>3. Caught /\ VersionInv => CaughtInv
  BY DEF CaughtInv
<1>4. CaughtInv => RefreshUsesCurrent
  <2>1. SUFFICES ASSUME CaughtInv, NEW c \in Callers
                 PROVE  /\ pc[c] = "flying" => replaced <= before
                        /\ pc[c] \in {"flying", "install"} => before = cred.ver
    BY DEF RefreshUsesCurrent
  <2>2. OneAtATime /\ Current /\ Caught
    BY <2>1 DEF CaughtInv, VersionInv, LeaderInv
  <2>3. ASSUME pc[c] = "flying"
        PROVE  replaced <= before
    <3>1. before = cred.ver /\ \A d \in Callers : pc[d] # "install"
      BY <2>2, <2>3 DEF Current, OneAtATime
    <3>2. QED
      BY <2>2, <3>1 DEF Caught
  <2>4. QED
    BY <2>2, <2>3 DEF Current
<1>5. QED
  BY <1>1, <1>2, <1>3, <1>4, VersionInvariant, PTL DEF Spec

-----------------------------------------------------------------------------
(* The file.                                                               *)

\* Only a rename changes the file, and what it brings is not older.
LEMMA DiskStep ==
  ASSUME VersionInv, [Next]_vars
  PROVE  disk'.ver >= disk.ver
<1>1. TypeOK /\ Ordered
  BY DEF VersionInv, LeaderInv
<1>2. disk.ver \in Nat /\ \A c \in Callers : draft[c].ver \in Nat
  BY <1>1, VersionsAreNat
<1>3. ASSUME NEW c \in Callers, Write(c)
      PROVE  disk'.ver >= disk.ver
  BY <1>1, <1>2, <1>3 DEF Write, Ordered
<1>4. CASE Tick
  BY <1>1, <1>2, <1>4, TickVersions
<1>5. ASSUME ~Tick, ~\E c \in Callers : Write(c)
      PROVE  disk' = disk
  BY <1>5 DEF Next, Advance, vars, BeginChat, BeginTask, Check, Enter, Send, Return,
     Install, Close, NoteRefreshed, NoteFailure, Recheck, SaveBegin, Use, Restart, tokens
<1>6. QED
  BY <1>2, <1>3, <1>4, <1>5

\* Concurrent saves never take the file back to older credentials.
THEOREM DiskOnlyAdvances == Spec => DiskNeverGoesBack
<1>1. VersionInv /\ [Next]_vars => [disk'.ver >= disk.ver]_vars
  BY DiskStep
<1>2. QED
  BY <1>1, VersionInvariant, PTL DEF Spec, DiskNeverGoesBack

-----------------------------------------------------------------------------
(* What was refreshed reaches the file.                                    *)

\* While somebody writes a snapshot that is outdated already, whoever brought
\* the newer credentials still has its own save ahead of it.
OutdatedWriter ==
  \A c \in Callers :
    (pc[c] = "write" /\ draft[c].ver # cred.ver) => \E d \in Callers : WillSave(d)

DiskInv == VersionInv /\ RefreshReachesDisk /\ OutdatedWriter

\* No step but a save ends somebody's intention to save the credentials.
LEMMA WillSaveStays ==
  ASSUME VersionInv, NEW d \in Callers, WillSave(d), NEW c \in Callers,
         \/ BeginChat(c) \/ BeginTask(c) \/ Check(c) \/ Enter(c) \/ Send(c) \/ Return(c)
         \/ Close(c) \/ NoteRefreshed(c) \/ NoteFailure(c) \/ Recheck(c) \/ Use(c)
  PROVE  /\ WillSave(d)'
         /\ UNCHANGED <<cred, disk, draft, saveFailed>>
<1>1. TypeOK /\ OneAtATime
  BY DEF VersionInv, LeaderInv
<1>2. CASE BeginChat(c) \/ BeginTask(c) \/ Check(c) \/ Enter(c) \/ Send(c) \/ Recheck(c)
  BY <1>1, <1>2 DEF BeginChat, BeginTask, Check, Enter, Send, Recheck, Goto, WillSave,
     TypeOK, tokens, saving, history
<1>3. CASE Return(c) \/ NoteFailure(c) \/ NoteRefreshed(c) \/ Use(c)
  BY <1>1, <1>3 DEF Return, NoteFailure, NoteRefreshed, Use, Goto, WillSave, TypeOK,
     tokens, saving, history
<1>4. CASE Close(c)
  BY <1>1, <1>4 DEF Close, OneAtATime, WillSave, TypeOK, tokens, saving, history
<1>5. QED
  BY <1>2, <1>3, <1>4

\* The same steps change neither file, memory nor snapshots, nor do they make
\* anybody a writer.
LEMMA QuietSteps ==
  ASSUME TypeOK, NEW c \in Callers,
         \/ BeginChat(c) \/ BeginTask(c) \/ Check(c) \/ Enter(c) \/ Send(c) \/ Return(c)
         \/ Close(c) \/ NoteRefreshed(c) \/ NoteFailure(c) \/ Recheck(c) \/ Use(c)
  PROVE  /\ UNCHANGED <<cred, disk, draft, saveFailed>>
         /\ \A d \in Callers : pc'[d] = "write" => pc[d] = "write"
BY DEF BeginChat, BeginTask, Check, Enter, Send, Return, Close, NoteRefreshed,
   NoteFailure, Recheck, Use, Goto, TypeOK, tokens, saving, history

\* A write leaves nothing newer behind without its own save.
LEMMA WriteReachesDisk ==
  ASSUME DiskInv, NEW c \in Callers, Write(c)
  PROVE  (RefreshReachesDisk /\ OutdatedWriter)'
<1>1. TypeOK /\ OneAtATime
  BY DEF DiskInv, VersionInv, LeaderInv
<1>2. \A d \in Callers : pc'[d] # "write"
  BY <1>1 DEF Write, Goto, OneAtATime, TypeOK
<1>3. OutdatedWriter'
  BY <1>2 DEF OutdatedWriter
<1>4. CASE saveFailed'
  BY <1>3, <1>4 DEF RefreshReachesDisk
<1>5. CASE disk' = draft[c] /\ draft[c].ver = cred.ver
  BY <1>3, <1>5 DEF RefreshReachesDisk, Write
<1>6. CASE disk' = draft[c] /\ draft[c].ver # cred.ver
  <2>1. PICK d \in Callers : WillSave(d)
    BY <1>6 DEF DiskInv, OutdatedWriter, Write
  <2>2. pc[d] \in {"close", "back", "save"} /\ result[d] = "ok"
    BY <1>1, <1>6, <2>1 DEF WillSave, Write, OneAtATime
  <2>3. WillSave(d)'
    BY <1>1, <2>2 DEF WillSave, Write, Goto, TypeOK
  <2>4. QED
    BY <1>3, <2>3 DEF RefreshReachesDisk
<1>7. QED
  BY <1>4, <1>5, <1>6 DEF Write

\* Every step keeps what holds of the file.
LEMMA ReachesStep ==
  ASSUME DiskInv, [Next]_vars
  PROVE  DiskInv'
<1>t. VersionInv' /\ VersionInv /\ TypeOK
  BY VersionStep DEF DiskInv, VersionInv, LeaderInv
<1>s. SUFFICES (RefreshReachesDisk /\ OutdatedWriter)'
  BY <1>t DEF DiskInv
<1>0. RefreshReachesDisk /\ OutdatedWriter
  BY DEF DiskInv
<1>1. ASSUME NEW c \in Callers,
             \/ BeginChat(c) \/ BeginTask(c) \/ Check(c) \/ Enter(c) \/ Send(c)
             \/ Return(c) \/ Close(c) \/ NoteRefreshed(c) \/ NoteFailure(c)
             \/ Recheck(c) \/ Use(c)
      PROVE  (RefreshReachesDisk /\ OutdatedWriter)'
  <2>1. /\ UNCHANGED <<cred, disk, draft, saveFailed>>
        /\ \A d \in Callers : pc'[d] = "write" => pc[d] = "write"
    BY <1>1, <1>t, QuietSteps
  <2>2. \A d \in Callers : WillSave(d) => WillSave(d)'
    BY <1>1, <1>t, WillSaveStays
  <2>3. QED
    BY <1>0, <2>1, <2>2 DEF RefreshReachesDisk, OutdatedWriter
<1>2. ASSUME NEW c \in Callers, Install(c) \/ SaveBegin(c)
      PROVE  (RefreshReachesDisk /\ OutdatedWriter)'
  <2>1. WillSave(c)'
    BY <1>2, <1>t DEF Install, SaveBegin, WillSave, Goto, TypeOK, tokens
  <2>2. QED
    BY <2>1 DEF RefreshReachesDisk, OutdatedWriter
<1>3. ASSUME NEW c \in Callers, Write(c)
      PROVE  (RefreshReachesDisk /\ OutdatedWriter)'
  BY <1>3, WriteReachesDisk
<1>4. CASE Tick
  <2>1. \A d \in Callers : WillSave(d) => WillSave(d)'
    BY <1>4, <1>t, TickVersions DEF WillSave, Tick
  <2>2. QED
    BY <1>0, <1>4, <1>t, <2>1, TickVersions DEF Tick, RefreshReachesDisk, OutdatedWriter,
       history
<1>5. CASE Restart
  BY <1>5 DEF Restart, RefreshReachesDisk, OutdatedWriter
<1>6. CASE UNCHANGED vars
  BY <1>0, <1>6 DEF vars, RefreshReachesDisk, OutdatedWriter, WillSave
<1>7. QED
  BY <1>1, <1>2, <1>3, <1>4, <1>5, <1>6 DEF Next, Advance

\* Refreshed credentials are on disk or still on their way to it, for any
\* number of concurrent refreshes and saves, unless the last save failed.
THEOREM RefreshesReachDisk == Spec => []RefreshReachesDisk
<1>1. Init => RefreshReachesDisk /\ OutdatedWriter
  BY DEF Init, RefreshReachesDisk, OutdatedWriter
<1>2. DiskInv /\ [Next]_vars => DiskInv'
  BY ReachesStep
<1>3. VersionInv /\ RefreshReachesDisk /\ OutdatedWriter => DiskInv
  BY DEF DiskInv
<1>4. DiskInv => RefreshReachesDisk
  BY DEF DiskInv
<1>5. QED
  BY <1>1, <1>2, <1>3, <1>4, VersionInvariant, PTL DEF Spec
=============================================================================
