---------------------------- MODULE SchedulerTasks ----------------------------
(***************************************************************************)
(* The task scheduler: the timer loop of Run, the per-task busy flag that  *)
(* the timer and a manual trigger share, the mutex that lets one task run  *)
(* at a time, the stop of the process, and what each task does: for every  *)
(* account a chain of upstream calls, with a look at the context before    *)
(* each call.  Time is counted in the hours of the schedule.               *)
(***************************************************************************)
EXTENDS Integers

CONSTANTS Accounts,          \* accounts of the pool
          Globals,           \* those of the international realm
          Kinds,             \* task kinds, among AllKinds
          Hours,             \* [Kinds -> SUBSET (0..HoursPerDay - 1)]; {} = disabled
          HoursPerDay,
          CstShift,          \* hours from the local day to the CST day
          ReportCount,       \* activity_report_count
          SessionDeadLimit,  \* sessionDeadThreshold
          MaxHour,           \* bound: hours that pass
          MaxTriggers        \* bound: manual triggers

(* "script" stands for school, cat, redeem, lottery and makeup: one child  *)
(* process each, no account loop of their own.  What a child asks of the   *)
(* upstream service, a redeem among it, is outside the model.              *)
AllKinds == {"checkin", "travel", "activity", "keepalive", "script"}

ASSUME SchedulerAssumption ==
    /\ Kinds \subseteq AllKinds
    /\ Globals \subseteq Accounts
    /\ HoursPerDay \in Nat \ {0}
    /\ CstShift \in Nat
    /\ Hours \in [Kinds -> SUBSET (0 .. HoursPerDay - 1)]
    /\ ReportCount \in Nat \ {0}
    /\ SessionDeadLimit \in Nat \ {0}
    /\ MaxHour \in Nat
    /\ MaxTriggers \in Nat

VARIABLES now, triggers,     \* the hour, manual triggers accepted
          loop,              \* Run: [pc, at, kinds]
          ctx, lifecycle,    \* cancelled?
          worker,            \* per kind the goroutine that holds the busy flag
          job,               \* what the holder of runMu is doing
          rewardClaimed, adoptTried,   \* CST day of the last mark
          dead, disabled,    \* session-dead counters, disabled accounts
          late,              \* history: calls begun after the stop (0, 1, 2 = more)
          redeems            \* history: redeems the activity task began on the current CST day

clockVars   == <<now, triggers>>
stopVars    == <<ctx, lifecycle>>
markVars    == <<rewardClaimed, adoptTried>>
poolVars    == <<dead, disabled>>
historyVars == <<late, redeems>>
vars == <<clockVars, loop, stopVars, worker, job, markVars, poolVars, historyVars>>

Never == -1
Idle  == [by |-> "none", at |-> "off"]
NoJob == [kind |-> "none", todo |-> {}, acct |-> "none", stage |-> "none",
          phase |-> "none", n |-> 0]

travelDay(t) == (t + CstShift) \div HoursPerDay

-----------------------------------------------------------------------------
(* When.                                                                    *)

(* The first instant strictly after t at one of the hours.                 *)
nextFire(t, hours) ==
    CHOOSE u \in t + 1 .. t + HoursPerDay :
        /\ u % HoursPerDay \in hours
        /\ \A v \in t + 1 .. u - 1 : v % HoursPerDay \notin hours

Scheduled == {k \in Kinds : Hours[k] # {}}

FaultyNextWake(t) ==
    LET fires == {nextFire(t, Hours[k]) : k \in Scheduled}
        at    == CHOOSE u \in fires : \A v \in fires : u <= v
    IN  [at |-> at, kinds |-> {CHOOSE k \in Scheduled : nextFire(t, Hours[k]) = at}]

nextWake(t) ==
    LET fires == {nextFire(t, Hours[k]) : k \in Scheduled}
        at    == CHOOSE u \in fires : \A v \in fires : u <= v
    IN  [at |-> at, kinds |-> {k \in Scheduled : nextFire(t, Hours[k]) = at}]

-----------------------------------------------------------------------------
Init ==
    /\ now = 0 /\ triggers = 0
    /\ loop = [pc |-> "plan", at |-> 0, kinds |-> {}]
    /\ ctx = FALSE /\ lifecycle = FALSE
    /\ worker = [k \in Kinds |-> Idle]
    /\ job = NoJob
    /\ rewardClaimed = [a \in Accounts |-> Never]
    /\ adoptTried = [a \in Accounts |-> Never]
    /\ dead = [a \in Accounts |-> 0]
    /\ disabled = {}
    /\ late = 0
    /\ redeems = [a \in Accounts |-> 0]

(* The hour turns.  The history counters of redeems start again with the   *)
(* CST day.                                                                *)
Tick ==
    /\ now < MaxHour
    /\ now' = now + 1
    /\ redeems' = IF travelDay(now + 1) = travelDay(now) THEN redeems
                  ELSE [a \in Accounts |-> 0]
    /\ UNCHANGED <<triggers, loop, stopVars, worker, job, markVars, poolVars, late>>

(* main cancels the context; the scheduler's own lifecycle follows through *)
(* context.AfterFunc, in a goroutine of its own.                           *)
Cancel ==
    /\ ~ctx
    /\ ctx' = TRUE
    /\ UNCHANGED <<clockVars, loop, lifecycle, worker, job, markVars, poolVars, historyVars>>

Forward ==
    /\ ctx /\ ~lifecycle /\ loop.pc # "done"
    /\ lifecycle' = TRUE
    /\ UNCHANGED <<clockVars, loop, ctx, worker, job, markVars, poolVars, historyVars>>

-----------------------------------------------------------------------------
FaultyBeginTask(k) == worker[k] = Idle

(* The busy flag.                                                           *)

beginTask(k) == ~lifecycle /\ worker[k] = Idle

FaultyEndTask(k) ==
    /\ worker[k].at = "leave" /\ worker[k].by = "timer"
    /\ worker' = [worker EXCEPT ![k] = Idle]
    /\ UNCHANGED <<clockVars, loop, stopVars, job, markVars, poolVars, historyVars>>

endTask(k) ==
    /\ worker[k].at = "leave"
    /\ worker' = [worker EXCEPT ![k] = Idle]
    /\ UNCHANGED <<clockVars, loop, stopVars, job, markVars, poolVars, historyVars>>

TriggerTask(k) ==
    /\ triggers < MaxTriggers
    /\ beginTask(k)
    /\ triggers' = triggers + 1
    /\ worker' = [worker EXCEPT ![k] = [by |-> "manual", at |-> "enter"]]
    /\ UNCHANGED <<now, loop, stopVars, job, markVars, poolVars, historyVars>>

-----------------------------------------------------------------------------
(* The timer loop.                                                          *)

Plan ==
    /\ loop.pc = "plan"
    /\ LET wake == IF Scheduled = {} THEN [at |-> Never, kinds |-> {}] ELSE nextWake(now)
       IN  loop' = [pc |-> "asleep", at |-> wake.at, kinds |-> wake.kinds]
    /\ UNCHANGED <<clockVars, stopVars, worker, job, markVars, poolVars, historyVars>>

Fire ==
    /\ loop.pc = "asleep" /\ loop.at # Never /\ loop.at <= now
    /\ loop' = [loop EXCEPT !.pc = "batch"]
    /\ UNCHANGED <<clockVars, stopVars, worker, job, markVars, poolVars, historyVars>>

dispatch(k) ==
    /\ loop.pc = "batch" /\ k \in loop.kinds
    /\ loop' = [loop EXCEPT !.kinds = @ \ {k}]
    /\ worker' = IF beginTask(k) THEN [worker EXCEPT ![k] = [by |-> "timer", at |-> "enter"]]
                 ELSE worker
    /\ UNCHANGED <<clockVars, stopVars, job, markVars, poolVars, historyVars>>

(* runBatch waits for the tasks it started, not for manual ones.           *)
BatchEnds ==
    /\ loop.pc = "batch" /\ loop.kinds = {}
    /\ \A k \in Kinds : worker[k].by # "timer"
    /\ loop' = [loop EXCEPT !.pc = "plan"]
    /\ UNCHANGED <<clockVars, stopVars, worker, job, markVars, poolVars, historyVars>>

(* The deferred part of Run: cancel, refuse new tasks, wait for the rest.  *)
StopLoop ==
    /\ loop.pc = "asleep" /\ ctx
    /\ loop' = [pc |-> "joining", at |-> Never, kinds |-> {}]
    /\ lifecycle' = TRUE
    /\ UNCHANGED <<clockVars, ctx, worker, job, markVars, poolVars, historyVars>>

Joined ==
    /\ loop.pc = "joining"
    /\ \A k \in Kinds : worker[k] = Idle
    /\ loop' = [loop EXCEPT !.pc = "done"]
    /\ UNCHANGED <<clockVars, stopVars, worker, job, markVars, poolVars, historyVars>>

-----------------------------------------------------------------------------
(* One task at a time: runTask.                                             *)

(* A timed task hears the context of Run, a manual one the lifecycle.      *)
Stopped(k) == IF worker[k].by = "timer" THEN ctx ELSE lifecycle

EnterTask(k) ==
    /\ worker[k].at = "enter"
    /\ worker' = [worker EXCEPT ![k].at = IF Stopped(k) THEN "leave" ELSE "wait"]
    /\ UNCHANGED <<clockVars, loop, stopVars, job, markVars, poolVars, historyVars>>

runTask(k) ==
    /\ worker[k].at = "wait" /\ job = NoJob
    /\ IF Stopped(k)
       THEN /\ worker' = [worker EXCEPT ![k].at = "leave"]
            /\ UNCHANGED job
       ELSE /\ worker' = [worker EXCEPT ![k].at = "run"]
            /\ job' = [NoJob EXCEPT !.kind = k, !.stage = IF k = "script" THEN "script" ELSE "next",
                                    !.phase = "check", !.todo = Accounts]
    /\ UNCHANGED <<clockVars, loop, stopVars, markVars, poolVars, historyVars>>

(* Updates of the job: it stops, goes to the next account, or makes a call *)
(* (after a look at the context).                                          *)
Unlock  == /\ job' = NoJob
           /\ worker' = [worker EXCEPT ![job.kind].at = "leave"]
Goes(s) == /\ job' = [job EXCEPT !.stage = s, !.phase = "check"]
           /\ UNCHANGED worker

(* Accounts a task leaves alone.                                           *)
Skips(k, a) ==
    \/ a \in disabled
    \/ k \in {"checkin", "travel"} /\ a \in Globals

FirstCalls == [checkin |-> {"refresh", "daily"}, travel |-> {"cat"},
               activity |-> {"report"}, keepalive |-> {"refresh"}]

(* The loop over the accounts.  A check-in refreshes a token that is about *)
(* to expire first.                                                        *)
TakeAccount ==
    /\ job.stage = "next"
    /\ IF job.todo = {} \/ Stopped(job.kind) THEN Unlock
       ELSE \E a \in job.todo :
              /\ UNCHANGED worker
              /\ IF Skips(job.kind, a) THEN job' = [job EXCEPT !.todo = @ \ {a}]
                 ELSE \E s \in FirstCalls[job.kind] :
                        job' = [job EXCEPT !.todo = @ \ {a}, !.acct = a, !.stage = s,
                                           !.phase = "go", !.n = 0]
    /\ UNCHANGED <<clockVars, loop, stopVars, markVars, poolVars, historyVars>>

FaultyCheckContext ==
    /\ job.phase = "check" /\ job.stage # "next"
    /\ IF Stopped(job.kind) /\ job.stage \notin {"adopt", "draw"} THEN Unlock
       ELSE job' = [job EXCEPT !.phase = "go"] /\ UNCHANGED worker
    /\ UNCHANGED <<clockVars, loop, stopVars, markVars, poolVars, historyVars>>

(* The look at the context before the next call of an account.             *)
CheckContext ==
    /\ job.phase = "check" /\ job.stage # "next"
    /\ IF Stopped(job.kind) THEN Unlock
       ELSE job' = [job EXCEPT !.phase = "go"] /\ UNCHANGED worker
    /\ UNCHANGED <<clockVars, loop, stopVars, markVars, poolVars, historyVars>>

(* The call begins.  A child process is not started once the context is    *)
(* cancelled, and is killed when that happens later.                       *)
Call ==
    /\ job.phase = "go"
    /\ job' = [job EXCEPT !.phase = "wait"]
    /\ late' = IF lifecycle /\ job.stage # "script" /\ late < 2 THEN late + 1 ELSE late
    /\ redeems' = IF job.stage = "redeem" THEN [redeems EXCEPT ![job.acct] = @ + 1]
                  ELSE redeems
    /\ UNCHANGED <<clockVars, loop, stopVars, worker, markVars, poolVars>>

Answered(s) == job.phase = "wait" /\ job.stage = s

-----------------------------------------------------------------------------
(* The answers of the upstream service and what each task does next.       *)

NoteSessionDead(a) ==
    /\ dead' = [dead EXCEPT ![a] = IF @ < SessionDeadLimit THEN @ + 1 ELSE @]
    /\ disabled' = IF dead[a] + 1 >= SessionDeadLimit THEN disabled \cup {a} ELSE disabled

(* A refresh: keepalive clears the counter after a success, the check-in   *)
(* does not; after a failure the check-in goes on while the token is good. *)
RefreshAnswer ==
    /\ Answered("refresh")
    /\ \/ /\ dead' = IF job.kind = "keepalive" THEN [dead EXCEPT ![job.acct] = 0] ELSE dead
          /\ Goes(IF job.kind = "checkin" THEN "daily" ELSE "next")
          /\ UNCHANGED disabled
       \/ /\ NoteSessionDead(job.acct)
          /\ \E s \in IF job.kind = "checkin" THEN {"daily", "next"} ELSE {"next"} : Goes(s)
       \/ /\ \E s \in IF job.kind = "checkin" THEN {"daily", "next"} ELSE {"next"} : Goes(s)
          /\ UNCHANGED poolVars
    /\ UNCHANGED <<clockVars, loop, stopVars, markVars, late, redeems>>

(* Answers after which the task has one way to go, whatever they say: the  *)
(* balance is read after a failed check-in too, and the streak is only     *)
(* logged.                                                                 *)
OnlyWay == [daily |-> "resource", resource |-> "next", streak |-> "cat",
            depart |-> "next", claim |-> "next", draw |-> "next"]

PlainAnswer ==
    /\ job.phase = "wait" /\ job.stage \in DOMAIN OnlyWay
    /\ Goes(OnlyWay[job.stage])
    /\ UNCHANGED <<clockVars, loop, stopVars, markVars, poolVars, historyVars>>

ReportAnswer ==
    /\ Answered("report")
    /\ UNCHANGED worker
    /\ \/ job' = [job EXCEPT !.stage = "next", !.phase = "check"]
       \/ job' = [job EXCEPT !.n = @ + 1, !.phase = "check",
                             !.stage = IF job.n + 1 < ReportCount THEN "report" ELSE "streak"]
    /\ UNCHANGED <<clockVars, loop, stopVars, markVars, poolVars, historyVars>>

adoptTriedToday(a) == adoptTried[a] = travelDay(now)
FaultyRewardClaimedToday(a) == rewardClaimed[a] > travelDay(now)

rewardClaimedToday(a) == rewardClaimed[a] = travelDay(now)

(* claimGrowthRewards opens with its own gates.                            *)
RewardStage(a) ==
    IF a \in Globals \/ rewardClaimedToday(a) THEN "next" ELSE "rewards"

(* Is there a cat?  Travel asks how it is; the activity task, which skips  *)
(* the daily gate of the adoption, has then done with it.                  *)
CatAnswer ==
    /\ Answered("cat")
    /\ \/ Goes(IF job.kind = "travel" THEN "status" ELSE RewardStage(job.acct))
       \/ Goes(IF job.kind = "travel" /\ adoptTriedToday(job.acct) THEN "next" ELSE "agree")
       \/ Goes(IF job.kind = "travel" THEN "next" ELSE RewardStage(job.acct))
    /\ UNCHANGED <<clockVars, loop, stopVars, markVars, poolVars, historyVars>>

StatusAnswer ==
    /\ Answered("status")
    /\ \E s \in {"depart", "claim", "next"} : Goes(s)
    /\ UNCHANGED <<clockVars, loop, stopVars, markVars, poolVars, historyVars>>

AfterAdoption == IF job.kind = "travel" THEN "next" ELSE RewardStage(job.acct)

AgreeAnswer ==
    /\ Answered("agree")
    /\ \E s \in {"adopt", AfterAdoption} : Goes(s)
    /\ UNCHANGED <<clockVars, loop, stopVars, markVars, poolVars, historyVars>>

AdoptAnswer ==
    /\ Answered("adopt")
    /\ Goes(AfterAdoption)
    /\ \/ UNCHANGED adoptTried
       \/ adoptTried' = [adoptTried EXCEPT ![job.acct] = travelDay(now)]
    /\ UNCHANGED <<clockVars, loop, stopVars, rewardClaimed, poolVars, historyVars>>

(* No tier to claim, or no answer: nothing is written and nothing marked.  *)
RewardsAnswer ==
    /\ Answered("rewards")
    /\ \E s \in {"redeem", "next"} : Goes(s)
    /\ UNCHANGED <<clockVars, loop, stopVars, markVars, poolVars, historyVars>>

(* Whatever the answer, the account is done for the day.                   *)
RedeemAnswer ==
    /\ Answered("redeem")
    /\ Goes("chances")
    /\ rewardClaimed' = [rewardClaimed EXCEPT ![job.acct] = travelDay(now)]
    /\ UNCHANGED <<clockVars, loop, stopVars, adoptTried, poolVars, historyVars>>

ChancesAnswer ==
    /\ Answered("chances")
    /\ \E s \in {"draw", "next"} : Goes(s)
    /\ UNCHANGED <<clockVars, loop, stopVars, markVars, poolVars, historyVars>>

ScriptEnds ==
    /\ Answered("script")
    /\ Unlock
    /\ UNCHANGED <<clockVars, loop, stopVars, markVars, poolVars, historyVars>>

JobStep ==
    \/ TakeAccount \/ CheckContext \/ Call
    \/ RefreshAnswer \/ PlainAnswer \/ ReportAnswer
    \/ CatAnswer \/ StatusAnswer \/ AgreeAnswer \/ AdoptAnswer
    \/ RewardsAnswer \/ RedeemAnswer \/ ChancesAnswer \/ ScriptEnds

LoopStep == Plan \/ Fire \/ (\E k \in Kinds : dispatch(k)) \/ BatchEnds \/ StopLoop \/ Joined

TaskStep(k) == EnterTask(k) \/ runTask(k) \/ endTask(k)

(* The process has ended.                                                  *)
Ended == loop.pc = "done" /\ UNCHANGED vars

Next ==
    \/ Tick \/ Cancel \/ Forward
    \/ \E k \in Kinds : TriggerTask(k) \/ TaskStep(k)
    \/ LoopStep \/ JobStep \/ Ended

(* Goroutines are scheduled and every call ends (the client has a timeout, *)
(* a child process is killed); nothing makes the process stop or a trigger *)
(* come.                                                                   *)
Fairness ==
    /\ WF_vars(LoopStep) /\ WF_vars(JobStep) /\ WF_vars(Forward)
    /\ \A k \in Kinds : WF_vars(TaskStep(k))

Spec == Init /\ [][Next]_vars /\ Fairness

-----------------------------------------------------------------------------
Running == {k \in Kinds : worker[k] # Idle}

(* When Run has returned, main saves the pool and closes the stores: no    *)
(* task is running then, timed or triggered, and none starts again.        *)
QuietAfterRun == loop.pc = "done" => Running = {} /\ job = NoJob

(* After the stop at most one more upstream call begins, over all tasks:   *)
(* the call whose look at the context came before; the tasks that wait     *)
(* for the mutex make none.                                                *)
OneCallAfterStop == late <= 1

(* The activity task redeems at most one tier of an account in a CST day,  *)
(* however often it is triggered and even if midnight passes during the    *)
(* call.  This is the task's own promise, within one life of the process:  *)
(* its mark is in memory only, and the redeem script neither sees nor sets *)
(* it, so what a script redeems of the same account is not counted.        *)
OneActivityRedeemPerDay == \A a \in Accounts : redeems[a] <= 1

(* While the loop sleeps no hour of an enabled task comes that it has not  *)
(* planned, with every task due then.                                      *)
NoDueHourSlept ==
    [][\A k \in Scheduled :
         loop.pc = "asleep" /\ now' # now /\ now' % HoursPerDay \in Hours[k]
            => loop.at <= now' /\ (loop.at = now' => k \in loop.kinds)]_vars

(* A stop is carried out: Run returns whatever task is running or waiting. *)
StopEndsRun == ctx ~> loop.pc = "done"
=============================================================================
