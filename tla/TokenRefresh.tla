---------------------------- MODULE TokenRefresh ----------------------------
(***************************************************************************)
(* The credentials of one account: refreshed over the network, installed   *)
(* in memory and saved to their file (internal/auth), by chat requests     *)
(* (internal/server) and by the scheduler's keepalive and check-in         *)
(* (internal/scheduler), which run one at a time under runMu.  The outcome *)
(* of a refresh is then noted on the account's pool entry.                 *)
(*                                                                         *)
(* Every action is one critical section under refreshMu, a.mu, saveMu or   *)
(* p.mu, or one call that leaves the process.  A credential is its version *)
(* (access token, refresh token and domain together) and the ticks left    *)
(* until ExpiresAt.  The temporary file of a save is not kept: its name    *)
(* matches no pattern the loader reads, so one left behind is inert.       *)
(*                                                                         *)
(* A definition named Faulty... is the one that follows it with a          *)
(* plausible mistake; nothing refers to it, it serves the mutation runs.   *)
(***************************************************************************)
EXTENDS AccountEntry

CONSTANTS
  Chats,        \* chat requests that hold a lease on the account
  Scheduler,    \* the goroutine that holds runMu
  None,
  Lifetime,     \* ticks a new token is valid for
  Skew,         \* RefreshSkew and checkinRefreshSkew
  MaxIssued     \* bound: later credentials are not told apart

Callers == Chats \cup {Scheduler}

ASSUME CallerAssumption == Scheduler \notin Chats /\ None \notin Callers
ASSUME TokenAssumption == Lifetime \in Positive /\ Skew \in Nat /\ MaxIssued \in Nat

VARIABLES
  cred,        \* the Auth in memory
  disk,        \* the file at FilePath
  issued,      \* how many credentials upstream has issued (external)
  leader,      \* who runs a.refreshing, None when it is nil
  before,      \* version in the leader's snapshot
  pc,          \* caller -> where it stands
  task,        \* caller -> what it wants the token for
  result,      \* caller -> what RefreshOnce gave it
  saver,       \* holder of saveMu
  draft,       \* caller -> the snapshot its SaveAtomic writes out
  entry,       \* the account's pool entry
  saveFailed,  \* history: the last save failed
  deadAnswers, \* history: 12153 answers to refreshes, up to the threshold
  replaced     \* history: upstream has replaced the versions below this one

tokens == <<cred, disk, issued>>
refresh == <<leader, before>>
saving == <<saver, draft>>
history == <<saveFailed, deadAnswers, replaced>>
vars == <<cred, disk, issued, leader, before, pc, task, result, saver, draft,
          entry, saveFailed, deadAnswers, replaced>>

Token == [ver : Nat, left : 0..Lifetime]
NoDraft == [ver |-> 0, left |-> 0]
Places == {"idle", "check", "enter", "send", "flying", "install", "close",
           "wait", "back", "recheck", "save", "write", "use"}

TypeOK ==
  /\ cred \in Token /\ disk \in Token /\ draft \in [Callers -> Token]
  /\ issued \in Nat /\ before \in Nat
  /\ leader \in Callers \cup {None} /\ saver \in Callers \cup {None}
  /\ pc \in [Callers -> Places]
  /\ task \in [Callers -> {"chat", "keepalive", "checkin"}]
  /\ result \in [Callers -> {"none", "ok", "dead", "error", "panic"}]
  /\ entry \in Entry
  /\ saveFailed \in BOOLEAN
  /\ deadAnswers \in 0..SessionDeadThreshold
  /\ replaced \in Nat

\* The process has loaded a file whose token may be of any age.
Init ==
  /\ cred \in [ver : {0}, left : 0..Lifetime]
  /\ disk = cred
  /\ draft = [c \in Callers |-> NoDraft]
  /\ issued = 0 /\ before = 0
  /\ leader = None /\ saver = None
  /\ pc = [c \in Callers |-> "idle"]
  /\ task = [c \in Callers |-> IF c = Scheduler THEN "keepalive" ELSE "chat"]
  /\ result = [c \in Callers |-> "none"]
  /\ entry = NewEntry
  /\ saveFailed = FALSE
  /\ deadAnswers = 0
  /\ replaced = 0

-----------------------------------------------------------------------------
(* Before the refresh.                                                     *)

Goto(c, place) == pc' = [pc EXCEPT ![c] = place]

NeedsRefresh(within) == cred.left <= within

\* A chat request was given the account, healthy or as a fallback.
BeginChat(c) ==
  /\ pc[c] = "idle" /\ c # Scheduler
  /\ \E m \in Models : HealthyForModel(entry, m) \/ FallbackEligible(entry, m)
  /\ Goto(c, "check")
  /\ UNCHANGED <<tokens, refresh, task, result, saving, entry, history>>

\* Keepalive refreshes every account that is not disabled, check-in those
\* whose token is about to expire.
BeginTask(c) ==
  /\ pc[c] = "idle" /\ c = Scheduler
  /\ ~entry.disabled
  /\ \/ task' = [task EXCEPT ![c] = "keepalive"] /\ Goto(c, "enter")
     \/ task' = [task EXCEPT ![c] = "checkin"] /\ Goto(c, "check")
  /\ UNCHANGED <<tokens, refresh, result, saving, entry, history>>

Check(c) ==
  /\ pc[c] = "check"
  /\ Goto(c, IF NeedsRefresh(Skew) THEN "enter" ELSE "use")
  /\ UNCHANGED <<tokens, refresh, task, result, saving, entry, history>>

-----------------------------------------------------------------------------
(* RefreshOnce.                                                            *)

FaultyEnter(c) ==                    \* always starts a refresh of its own
  /\ pc[c] = "enter"
  /\ leader' = c /\ Goto(c, "send")
  /\ UNCHANGED <<tokens, before, task, result, saving, entry, history>>

\* Join the refresh under way, or start one.
Enter(c) ==
  /\ pc[c] = "enter"
  /\ \/ leader # None /\ Goto(c, "wait") /\ UNCHANGED leader
     \/ leader = None /\ leader' = c /\ Goto(c, "send")
  /\ UNCHANGED <<tokens, before, task, result, saving, entry, history>>

\* The leader's snapshot, with which it calls upstream under no lock.
Send(c) ==
  /\ pc[c] = "send"
  /\ before' = cred.ver
  /\ Goto(c, "flying")
  /\ UNCHANGED <<tokens, leader, task, result, saving, entry, history>>

\* The call ends: new credentials, 12153, another error (an empty access
\* token among them), or a panic in the callback.
Return(c) ==
  /\ pc[c] = "flying"
  /\ \/ /\ issued' = IF issued < MaxIssued THEN issued + 1 ELSE issued
        /\ replaced' = IF issued < MaxIssued THEN before + 1 ELSE replaced
        /\ Goto(c, "install")
        /\ UNCHANGED <<result, deadAnswers>>
     \/ \E failure \in {"dead", "error", "panic"} :
          /\ result' = [result EXCEPT ![c] = failure]
          /\ deadAnswers' = IF failure = "dead" /\ deadAnswers < SessionDeadThreshold
                            THEN deadAnswers + 1 ELSE deadAnswers
          /\ Goto(c, "close")
          /\ UNCHANGED <<issued, replaced>>
  /\ UNCHANGED <<cred, disk, refresh, task, saving, entry, saveFailed>>

\* Only if the credentials are still those of the snapshot; an answer without
\* expiry keeps the old one.
Install(c) ==
  /\ pc[c] = "install"
  /\ IF cred.ver = before
     THEN \E left \in {cred.left, Lifetime} : cred' = [ver |-> issued, left |-> left]
     ELSE UNCHANGED cred
  /\ result' = [result EXCEPT ![c] = "ok"]
  /\ Goto(c, "close")
  /\ UNCHANGED <<disk, issued, refresh, task, saving, entry, history>>

FaultyClose(c) ==                    \* not deferred: skipped by a panic
  /\ pc[c] = "close"
  /\ \/ /\ result[c] = "panic"
        /\ Goto(c, "idle")
        /\ result' = [result EXCEPT ![c] = "none"]
        /\ UNCHANGED leader
     \/ /\ result[c] # "panic"
        /\ leader' = None
        /\ result' = [w \in Callers |-> IF pc[w] = "wait" THEN result[c] ELSE result[w]]
        /\ pc' = [w \in Callers |-> IF pc[w] = "wait" \/ w = c THEN "back" ELSE pc[w]]
  /\ UNCHANGED <<tokens, before, task, saving, entry, history>>

\* The deferred function: all who wait get the same result; after a panic
\* they see an error and the leader's goroutine is gone.
Close(c) ==
  LET waiting == {w \in Callers : pc[w] = "wait"}
      panicked == result[c] = "panic"
  IN /\ pc[c] = "close"
     /\ leader' = None
     /\ result' = [w \in Callers |->
          IF w \in waiting THEN IF panicked THEN "error" ELSE result[c]
          ELSE IF w = c /\ panicked THEN "none" ELSE result[w]]
     /\ pc' = [w \in Callers |->
          IF w \in waiting THEN "back"
          ELSE IF w = c THEN IF panicked THEN "idle" ELSE "back" ELSE pc[w]]
     /\ UNCHANGED <<tokens, before, task, saving, entry, history>>

-----------------------------------------------------------------------------
(* After RefreshOnce: the failure is noted, or the new token is saved.     *)

FaultyNote(c) ==                     \* check-in forgets to save
  /\ pc[c] = "back" /\ result[c] = "ok"
  /\ entry' = IF task[c] = "keepalive" THEN ClearSessionDead(entry) ELSE entry
  /\ Goto(c, IF task[c] = "checkin" THEN "use" ELSE "save")
  /\ UNCHANGED <<tokens, refresh, task, result, saving, history>>

\* Only the keepalive clears the count of 12153 answers here.
NoteRefreshed(c) ==
  /\ pc[c] = "back" /\ result[c] = "ok"
  /\ entry' = IF task[c] = "keepalive" THEN ClearSessionDead(entry) ELSE entry
  /\ Goto(c, "save")
  /\ UNCHANGED <<tokens, refresh, task, result, saving, history>>

\* Every caller counts the failure it was given; only a chat request counts
\* one that is not 12153.  Check-in then goes on if the token still works.
NoteFailure(c) ==
  /\ pc[c] = "back" /\ result[c] \in {"dead", "error"}
  /\ entry' = IF result[c] = "dead" THEN NoteSessionDead(entry)
              ELSE IF task[c] = "chat" THEN NoteError(entry) ELSE entry
  /\ Goto(c, IF task[c] = "checkin" THEN "recheck" ELSE "idle")
  /\ result' = [result EXCEPT ![c] = "none"]
  /\ UNCHANGED <<tokens, refresh, task, saving, history>>

Recheck(c) ==
  /\ pc[c] = "recheck"
  /\ Goto(c, IF NeedsRefresh(0) THEN "idle" ELSE "use")
  /\ UNCHANGED <<tokens, refresh, task, result, saving, entry, history>>

FaultySaveBegin(c) ==                \* no saveMu
  /\ pc[c] = "save"
  /\ draft' = [draft EXCEPT ![c] = cred]
  /\ Goto(c, "write")
  /\ UNCHANGED <<tokens, refresh, task, result, saver, entry, history>>

\* SaveAtomic takes saveMu and, holding it, the snapshot.
SaveBegin(c) ==
  /\ pc[c] = "save"
  /\ saver = None
  /\ saver' = c
  /\ draft' = [draft EXCEPT ![c] = cred]
  /\ Goto(c, "write")
  /\ UNCHANGED <<tokens, refresh, task, result, entry, history>>

\* The rename replaces the file, or the save fails before it; the failure is
\* logged and the caller goes on.
Write(c) ==
  /\ pc[c] = "write"
  /\ \/ disk' = draft[c] /\ saveFailed' = FALSE
     \/ saveFailed' = TRUE /\ UNCHANGED disk
  /\ saver' = None
  /\ draft' = [draft EXCEPT ![c] = NoDraft]
  /\ result' = [result EXCEPT ![c] = "none"]
  /\ Goto(c, IF task[c] = "keepalive" THEN "idle" ELSE "use")
  /\ UNCHANGED <<cred, issued, refresh, task, entry, deadAnswers, replaced>>

\* The chat call or the check-in itself, of whose results only those that
\* reset a count matter here.
Use(c) ==
  /\ pc[c] = "use"
  /\ \/ UNCHANGED entry
     \/ entry' = IF task[c] = "chat" THEN NoteSuccess(entry) ELSE ReenableIfCredits(entry)
  /\ Goto(c, "idle")
  /\ UNCHANGED <<tokens, refresh, task, result, saving, history>>

-----------------------------------------------------------------------------
(* The clock, and a restart.                                               *)

Older(t) == [t EXCEPT !.left = Less(t.left)]

Tick ==
  /\ cred' = Older(cred) /\ disk' = Older(disk)
  /\ draft' = [c \in Callers |-> Older(draft[c])]
  /\ entry' = Age(entry)
  /\ UNCHANGED <<issued, refresh, pc, task, result, saver, history>>

\* The process dies at any point and starts from its files; of the entry the
\* pool stores all but the count of failures short of the breaker (that the
\* flush itself may come too late is left to the pool's persistence).  What
\* upstream replaced and no save recorded is in the file as before.
Restart ==
  /\ cred' = disk
  /\ entry' = [entry EXCEPT !.fails = 0]
  /\ leader' = None /\ before' = 0 /\ saver' = None
  /\ pc' = [c \in Callers |-> "idle"]
  /\ result' = [c \in Callers |-> "none"]
  /\ draft' = [c \in Callers |-> NoDraft]
  /\ saveFailed' = FALSE
  /\ replaced' = IF replaced > disk.ver THEN disk.ver ELSE replaced
  /\ UNCHANGED <<disk, issued, task, deadAnswers>>

-----------------------------------------------------------------------------
\* What a caller does by itself once it has begun.
Advance(c) ==
  \/ Check(c) \/ Enter(c) \/ Send(c) \/ Return(c) \/ Install(c) \/ Close(c)
  \/ NoteRefreshed(c) \/ NoteFailure(c) \/ Recheck(c)
  \/ SaveBegin(c) \/ Write(c) \/ Use(c)

Next ==
  \/ \E c \in Callers : BeginChat(c) \/ BeginTask(c) \/ Advance(c)
  \/ Tick \/ Restart

Spec == Init /\ [][Next]_vars

\* Goroutines are scheduled, the refresh call has a timeout, file operations
\* end, and a sync.Mutex does not starve who waits for it; nothing is assumed
\* about new callers or the clock.
FairSpec ==
  Spec /\ \A c \in Callers : WF_vars(Advance(c)) /\ SF_vars(SaveBegin(c))

-----------------------------------------------------------------------------
(* Properties.                                                             *)

\* However callers arrive, the process never sends credentials that upstream
\* has told it to be replaced, unless it restarts from a file the replacement
\* has not reached; and while a refresh is with upstream or waits to be
\* installed, what it was sent with is what memory holds, so the comparison
\* before the install throws no answer away.  (A refresh that failed leaves its
\* credentials to the next one, which sends them again.)
RefreshUsesCurrent ==
  \A c \in Callers :
    /\ pc[c] = "flying" => replaced <= before
    /\ pc[c] \in {"flying", "install"} => before = cred.ver

\* Who will write credentials at least as new as those in memory.
WillSave(c) ==
  \/ pc[c] \in {"close", "back", "save"} /\ result[c] = "ok"
  \/ pc[c] = "write" /\ draft[c].ver = cred.ver

\* Refreshed credentials are on disk, on the way there, or the last save
\* failed: no schedule of several savers leaves the file behind for good.
RefreshReachesDisk ==
  disk.ver = cred.ver \/ saveFailed \/ \E c \in Callers : WillSave(c)

\* The file never goes back to older credentials, whatever the order in which
\* concurrent saves were called, across failed saves and restarts.
DiskNeverGoesBack ==
  [][disk'.ver >= disk.ver]_vars

\* Whoever asks for the token gets an answer, also when the leader's callback
\* panics while others wait for it.
CallerReturns ==
  \A c \in Callers : pc[c] # "idle" ~> pc[c] = "idle"

\* internal/pool/state.go on NoteSessionDead: an account is disabled only by
\* sessionDeadThreshold 12153 answers, one of which may be a mere glitch.
OneFailureNeverDisables ==
  entry.disabled => deadAnswers >= SessionDeadThreshold
=============================================================================
