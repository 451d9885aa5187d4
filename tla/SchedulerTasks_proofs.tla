------------------------ MODULE SchedulerTasks_proofs ------------------------
(***************************************************************************)
(* The task scheduler, for any accounts, task kinds, hours and bounds:     *)
(* nothing runs after Run, one call at most begins after the stop, the     *)
(* activity task redeems one tier a day, and no hour is slept through.     *)
(***************************************************************************)
EXTENDS SchedulerTasks, NaturalsInduction, WellFoundedInduction, TLAPS

Stages == {"none", "script", "next", "refresh", "daily", "resource", "cat", "status", "depart",
           "claim", "report", "streak", "agree", "adopt", "rewards", "redeem", "chances", "draw"}

Jobs == [kind : Kinds \cup {"none"}, todo : SUBSET Accounts, acct : Accounts \cup {"none"},
         stage : Stages, phase : {"none", "check", "go", "wait"}, n : Nat]

Workers == [by : {"none", "timer", "manual"}, at : {"off", "enter", "wait", "run", "leave"}]

TypeOK ==
  /\ now \in Nat
  /\ loop \in [pc : {"plan", "asleep", "batch", "joining", "done"}, at : Int, kinds : SUBSET Kinds]
  /\ ctx \in BOOLEAN /\ lifecycle \in BOOLEAN
  /\ worker \in [Kinds -> Workers]
  /\ job \in Jobs
  /\ rewardClaimed \in [Accounts -> Int]
  /\ redeems \in [Accounts -> Nat]

\* Whoever runs has the job, and a job is somebody's.
Held ==
  /\ \A k \in Kinds : worker[k].at = "run" => job.kind = k
  /\ job # NoJob => job.kind \in Kinds /\ worker[job.kind].at = "run"
  /\ job.stage \notin {"none", "next", "script"} => job.acct \in Accounts
  /\ job.stage # "none" => job.kind \in Kinds
  /\ job.stage = "none" => job = NoJob
  /\ job.kind = "script" => job.stage = "script"

Stop ==
  /\ lifecycle => ctx
  /\ loop.pc \in {"joining", "done"} => lifecycle
  /\ loop.pc = "done" => \A k \in Kinds : worker[k] = Idle

\* Nothing goes to its next call once the lifecycle is over.
Calls == late = 0 \/ (late = 1 /\ lifecycle /\ job.phase # "go")

Redeeming(a) == job.stage = "redeem" /\ job.acct = a

Redeems ==
  \A a \in Accounts :
    /\ redeems[a] <= 1
    /\ redeems[a] = 1 =>
         rewardClaimed[a] = travelDay(now) \/ (Redeeming(a) /\ job.phase = "wait")
    /\ (job.stage = "rewards" /\ job.acct = a) \/ (Redeeming(a) /\ job.phase # "wait") =>
         redeems[a] = 0

IInv == TypeOK /\ Held /\ Stop /\ Calls /\ Redeems

-----------------------------------------------------------------------------
(* What the steps of the job change.                                       *)

\* No job and an idle worker.
LEMMA Nothing ==
  /\ NoJob \in Jobs /\ NoJob.kind = "none" /\ NoJob.stage = "none" /\ NoJob.phase = "none"
  /\ "none" \notin Kinds
  /\ Idle \in Workers /\ Idle.at = "off"
BY SchedulerAssumption DEF NoJob, Jobs, Stages, AllKinds, Idle, Workers

\* The job is now here.
Advances(s, p, a) ==
  /\ job' \in Jobs /\ job'.kind = job.kind
  /\ job'.stage = s /\ job'.phase = p /\ job'.acct = a
  /\ worker' = worker

\* The holder of the run lock goes on to a stage.
LEMMA GoesTo ==
  ASSUME TypeOK, NEW s \in Stages, Goes(s)
  PROVE  Advances(s, "check", job.acct)
BY DEF TypeOK, Goes, Advances, Jobs

\* The job is given up.
Releases ==
  /\ job' = NoJob
  /\ worker' \in [Kinds -> Workers]
  /\ job.kind \in Kinds => worker'[job.kind].at = "leave"
  /\ \A k \in Kinds : k # job.kind => worker'[k] = worker[k]

\* Giving the lock back releases it.
LEMMA Unlocks ==
  ASSUME TypeOK, Unlock
  PROVE  Releases
<1>1. worker' = [worker EXCEPT ![job.kind] = [worker[job.kind] EXCEPT !.at = "leave"]]
  BY Zenon DEF Unlock
<1>2. job.kind \in Kinds =>
        /\ [worker[job.kind] EXCEPT !.at = "leave"] \in Workers
        /\ [worker[job.kind] EXCEPT !.at = "leave"].at = "leave"
  BY DEF TypeOK, Workers
<1>3. job' = NoJob
  BY DEF Unlock
<1>4. QED
  BY <1>1, <1>2, <1>3 DEF Releases, TypeOK

\* The first call of a kind is no redemption.
LEMMA First ==
  ASSUME NEW k \in AllKinds, k # "script"
  PROVE  FirstCalls[k] \subseteq {"refresh", "daily", "cat", "report"}
BY DEF FirstCalls, AllKinds

\* A stage with one way out does not lead to one.
LEMMA Only ==
  ASSUME NEW s \in DOMAIN OnlyWay
  PROVE  OnlyWay[s] \in {"resource", "next", "cat"}
         /\ s \in {"daily", "resource", "streak", "depart", "claim", "draw"}
BY DEF OnlyWay

\* Once the lifecycle is over every task hears it.
LEMMA Hears ==
  ASSUME Stop, NEW k, ~ Stopped(k)
  PROVE  ~ lifecycle
BY DEF Stop, Stopped

\* What taking the next account does to the job.
LEMMA TakeAccountStep ==
  ASSUME TypeOK, Held, TakeAccount
  PROVE  \/ Releases
         \/ Advances("next", job.phase, job.acct)
         \/ /\ ~ Stopped(job.kind)
            /\ \E a \in Accounts, s \in {"refresh", "daily", "cat", "report"} : Advances(s, "go", a)
<1>1. CASE job.todo = {} \/ Stopped(job.kind)
  BY <1>1, Unlocks DEF TakeAccount
<1>2. CASE ~ (job.todo = {} \/ Stopped(job.kind))
  <2>1. job \in Jobs /\ job.stage = "next" /\ job.kind \in AllKinds /\ job.kind # "script"
    BY SchedulerAssumption DEF TypeOK, Held, TakeAccount
  <2>2. PICK a \in job.todo :
          /\ UNCHANGED worker
          /\ IF Skips(job.kind, a) THEN job' = [job EXCEPT !.todo = job.todo \ {a}]
             ELSE \E s \in FirstCalls[job.kind] :
                    job' = [job EXCEPT !.todo = job.todo \ {a}, !.acct = a, !.stage = s,
                                       !.phase = "go", !.n = 0]
    BY <1>2, Zenon DEF TakeAccount
  <2>3. a \in Accounts
    BY <2>1 DEF Jobs
  <2>4. CASE Skips(job.kind, a)
    BY <2>1, <2>2, <2>4 DEF Advances, Jobs
  <2>5. CASE ~ Skips(job.kind, a)
    <3>1. PICK s \in FirstCalls[job.kind] :
            job' = [job EXCEPT !.todo = job.todo \ {a}, !.acct = a, !.stage = s,
                               !.phase = "go", !.n = 0]
      BY <2>2, <2>5
    <3>2. s \in {"refresh", "daily", "cat", "report"} /\ s \in Stages
      BY <2>1, First DEF Stages
    <3>3. Advances(s, "go", a)
      BY <2>1, <2>2, <2>3, <3>1, <3>2 DEF Advances, Jobs
    <3>4. QED
      BY <1>2, <2>3, <3>2, <3>3
  <2>6. QED
    BY <2>4, <2>5
<1>3. QED
  BY <1>1, <1>2

\* What a look at the context does to it.
LEMMA CheckStep ==
  ASSUME TypeOK, CheckContext
  PROVE  Releases \/ (~ Stopped(job.kind) /\ Advances(job.stage, "go", job.acct))
<1>1. CASE Stopped(job.kind)
  BY <1>1, Unlocks DEF CheckContext
<1>2. CASE ~ Stopped(job.kind)
  BY <1>2 DEF CheckContext, Advances, TypeOK, Jobs
<1>3. QED
  BY <1>1, <1>2

\* What an upstream call does to it and to what is counted.
LEMMA CallStep ==
  ASSUME TypeOK, Call
  PROVE  /\ job.phase = "go" /\ Advances(job.stage, "wait", job.acct)
         /\ late' \in {late, IF lifecycle THEN late + 1 ELSE late}
         /\ job.stage = "redeem" =>
              redeems' = [redeems EXCEPT ![job.acct] = redeems[job.acct] + 1]
         /\ job.stage # "redeem" => redeems' = redeems
         /\ UNCHANGED <<now, loop, ctx, lifecycle, rewardClaimed>>
<1>1. job.phase = "go" /\ Advances(job.stage, "wait", job.acct)
  BY DEF Call, Advances, TypeOK, Jobs
<1>2. late' \in {late, IF lifecycle THEN late + 1 ELSE late}
  BY DEF Call
<1>3. job.stage = "redeem" => redeems' = [redeems EXCEPT ![job.acct] = redeems[job.acct] + 1]
  BY Zenon DEF Call
<1>4. job.stage # "redeem" => redeems' = redeems
  BY DEF Call
<1>5. QED
  BY <1>1, <1>2, <1>3, <1>4 DEF Call, clockVars, stopVars, markVars

Answer ==
  \/ RefreshAnswer \/ PlainAnswer \/ ReportAnswer
  \/ CatAnswer \/ StatusAnswer \/ AgreeAnswer \/ AdoptAnswer
  \/ RewardsAnswer \/ RedeemAnswer \/ ChancesAnswer

\* After an answer the job goes on to a stage; rewards come only past the
\* gate of the day, and a redeem only after the list of rewards.
LEMMA AnswerStep ==
  ASSUME TypeOK, Answer
  PROVE  /\ job.phase = "wait" /\ job.stage \notin {"none", "next", "script"}
         /\ \E s \in Stages \ {"none", "script"} :
              /\ Advances(s, "check", job.acct)
              /\ s = "rewards" => ~ rewardClaimedToday(job.acct) /\ job.stage # "redeem"
              /\ s = "redeem" => job.stage = "rewards"
         /\ job.stage = "redeem" =>
              rewardClaimed' = [rewardClaimed EXCEPT ![job.acct] = travelDay(now)]
         /\ job.stage # "redeem" => rewardClaimed' = rewardClaimed
         /\ UNCHANGED <<now, loop, ctx, lifecycle, late, redeems>>
<1> USE DEF Answered
<1>1. /\ \A a : RewardStage(a) \in {"next", "rewards"}
      /\ \A a : RewardStage(a) = "rewards" => ~ rewardClaimedToday(a)
  BY DEF RewardStage
<1>2. /\ AfterAdoption \in {"next", "rewards"}
      /\ AfterAdoption = "rewards" => ~ rewardClaimedToday(job.acct)
  BY <1>1 DEF AfterAdoption
<1>3. CASE RefreshAnswer
  <2>1. \E s \in {"daily", "next"} : Goes(s)
    BY <1>3 DEF RefreshAnswer
  <2>2. QED
    BY <1>3, <2>1, GoesTo DEF RefreshAnswer, Stages, clockVars, stopVars, markVars
<1>4. CASE PlainAnswer
  <2>1. \E s \in {"resource", "next", "cat"} : Goes(s)
    BY <1>4, Only DEF PlainAnswer
  <2>2. job.stage \in {"daily", "resource", "streak", "depart", "claim", "draw"}
    BY <1>4, Only DEF PlainAnswer
  <2>3. QED
    BY <1>4, <2>1, <2>2, GoesTo
       DEF PlainAnswer, Stages, clockVars, stopVars, markVars, historyVars
<1>5. CASE ReportAnswer
  <2>1. \E s \in {"next", "report", "streak"} : Advances(s, "check", job.acct)
    <3>1. job \in Jobs /\ job.n + 1 \in Nat /\ worker' = worker
      BY <1>5 DEF ReportAnswer, TypeOK, Jobs
    <3>2. CASE job' = [job EXCEPT !.stage = "next", !.phase = "check"]
      BY <3>1, <3>2 DEF Advances, Jobs, Stages
    <3>3. ASSUME NEW s \in {"report", "streak"},
                 job' = [job EXCEPT !.n = job.n + 1, !.phase = "check", !.stage = s]
          PROVE  Advances(s, "check", job.acct)
      BY <3>1, <3>3 DEF Advances, Jobs, Stages
    <3>4. CASE job' = [job EXCEPT !.n = job.n + 1, !.phase = "check",
                         !.stage = IF job.n + 1 < ReportCount THEN "report" ELSE "streak"]
      BY <3>3, <3>4
    <3>5. \/ job' = [job EXCEPT !.stage = "next", !.phase = "check"]
          \/ job' = [job EXCEPT !.n = job.n + 1, !.phase = "check",
                       !.stage = IF job.n + 1 < ReportCount THEN "report" ELSE "streak"]
      BY <1>5, Zenon DEF ReportAnswer
    <3>6. QED
      BY <3>2, <3>4, <3>5
  <2>2. QED
    BY <1>5, <2>1 DEF ReportAnswer, Stages, clockVars, stopVars, markVars, historyVars
<1>6. CASE CatAnswer
  <2>1. \E s \in {"status", RewardStage(job.acct), "next", "agree"} : Goes(s)
    BY <1>6 DEF CatAnswer
  <2>2. QED
    BY <1>1, <1>6, <2>1, GoesTo
       DEF CatAnswer, Stages, clockVars, stopVars, markVars, historyVars
<1>7. CASE StatusAnswer
  BY <1>7, GoesTo DEF StatusAnswer, Stages, clockVars, stopVars, markVars, historyVars
<1>8. CASE AgreeAnswer
  BY <1>2, <1>8, GoesTo DEF AgreeAnswer, Stages, clockVars, stopVars, markVars, historyVars
<1>9. CASE AdoptAnswer
  BY <1>2, <1>9, GoesTo DEF AdoptAnswer, Stages, clockVars, stopVars, historyVars
<1>10. CASE RewardsAnswer
  BY <1>10, GoesTo DEF RewardsAnswer, Stages, clockVars, stopVars, markVars, historyVars
<1>11. CASE RedeemAnswer
  BY <1>11, GoesTo DEF RedeemAnswer, Stages, clockVars, stopVars, historyVars
<1>12. CASE ChancesAnswer
  BY <1>12, GoesTo DEF ChancesAnswer, Stages, clockVars, stopVars, markVars, historyVars
<1>13. QED
  BY <1>3, <1>4, <1>5, <1>6, <1>7, <1>8, <1>9, <1>10, <1>11, <1>12 DEF Answer

-----------------------------------------------------------------------------
(* The invariant.                                                          *)

\* A step of a goroutine that has not the job.
LEMMA WorkerKeeps ==
  ASSUME IInv, NEW k \in Kinds, NEW w \in Workers, worker' = [worker EXCEPT ![k] = w],
         worker[k].at # "run", w.at # "run", worker[k] # Idle \/ ~ lifecycle,
         UNCHANGED <<now, job, ctx, lifecycle, late, redeems, rewardClaimed>>,
         loop' \in [pc : {"plan", "asleep", "batch", "joining", "done"}, at : Int,
                    kinds : SUBSET Kinds],
         loop'.pc = loop.pc
  PROVE  IInv'
<1>1. TypeOK /\ Held /\ Stop /\ Calls /\ Redeems
  BY DEF IInv
<1>2. worker \in [Kinds -> Workers]
  BY <1>1 DEF TypeOK
<1>3. /\ worker' \in [Kinds -> Workers] /\ worker'[k] = w
      /\ \A j \in Kinds \ {k} : worker'[j] = worker[j]
  BY <1>2
<1>4. TypeOK'
  BY <1>1, <1>3 DEF TypeOK
<1>5. Held'
  BY <1>1, <1>3 DEF Held
<1>6. Stop'
  BY <1>1, <1>3 DEF Stop
<1>7. Calls'
  BY <1>1 DEF Calls
<1>8. Redeems'
  BY <1>1 DEF Redeems, Redeeming, travelDay
<1>9. QED
  BY <1>4, <1>5, <1>6, <1>7, <1>8 DEF IInv

\* The stop, wherever the job is.
LEMMA StopKeeps ==
  ASSUME Stop, UNCHANGED <<loop, ctx, lifecycle>>, loop.pc = "done" => worker' = worker
  PROVE  Stop'
BY DEF Stop

\* Releasing the lock keeps the invariant.
LEMMA ReleaseStep ==
  ASSUME IInv, Releases, job.stage # "none", Redeeming(job.acct) => job.phase # "wait",
         UNCHANGED <<now, loop, ctx, lifecycle, late, redeems, rewardClaimed>>
  PROVE  IInv'
<1>1. TypeOK /\ Held /\ Stop /\ Calls /\ Redeems /\ job.kind \in Kinds
  BY DEF IInv, Held
<1>2. TypeOK'
  BY <1>1, Nothing DEF TypeOK, Releases
<1>3. Held'
  BY <1>1, Nothing DEF Held, Releases
<1>4. loop.pc # "done"
  BY <1>1, Nothing DEF Held, Stop
<1>5. Stop'
  BY <1>1, <1>4, StopKeeps
<1>6. Calls'
  BY <1>1, Nothing DEF Calls, Releases
<1>7. Redeems'
  BY <1>1, Nothing DEF Redeems, Redeeming, Releases, travelDay
<1>8. QED
  BY <1>2, <1>3, <1>5, <1>6, <1>7 DEF IInv

\* The parts that only depend on where the job stands.
LEMMA AdvanceKeeps ==
  ASSUME IInv, NEW s \in Stages \ {"none"}, NEW p, NEW a, Advances(s, p, a),
         job.stage # "none", s = "script" <=> job.stage = "script",
         s \notin {"next", "script"} => a \in Accounts,
         rewardClaimed' \in [Accounts -> Int], redeems' \in [Accounts -> Nat],
         UNCHANGED <<now, loop, ctx, lifecycle>>
  PROVE  TypeOK' /\ Held' /\ Stop'
<1>1. TypeOK /\ Held /\ Stop
  BY DEF IInv
<1>2. TypeOK'
  BY <1>1 DEF TypeOK, Advances
<1>3. job # NoJob /\ job.kind \in Kinds
  BY <1>1, Nothing DEF Held
<1>4. Held'
  BY <1>1, <1>3 DEF Held, Advances
<1>5. Stop'
  BY <1>1, StopKeeps DEF Advances
<1>6. QED
  BY <1>2, <1>4, <1>5

\* Taking an account keeps it.
LEMMA TakeKeeps ==
  ASSUME IInv, TakeAccount
  PROVE  IInv'
<1>1. TypeOK /\ Held /\ Stop /\ Calls /\ Redeems /\ job.stage = "next"
  BY DEF IInv, TakeAccount
<1>2. UNCHANGED <<now, loop, ctx, lifecycle, late, redeems, rewardClaimed>>
  BY DEF TakeAccount, clockVars, stopVars, markVars, historyVars
<1>3. CASE Releases
  BY <1>1, <1>2, <1>3, ReleaseStep DEF Redeeming
<1>4. CASE Advances("next", job.phase, job.acct)
  <2>1. TypeOK' /\ Held' /\ Stop'
    BY <1>1, <1>2, <1>4, AdvanceKeeps DEF TypeOK, Stages
  <2>2. Calls' /\ Redeems'
    BY <1>1, <1>2, <1>4 DEF Calls, Redeems, Redeeming, Advances, travelDay
  <2>3. QED
    BY <2>1, <2>2 DEF IInv
<1>5. ASSUME ~ Stopped(job.kind), NEW a \in Accounts,
             NEW s \in {"refresh", "daily", "cat", "report"}, Advances(s, "go", a)
      PROVE  IInv'
  <2>1. TypeOK' /\ Held' /\ Stop'
    BY <1>1, <1>2, <1>5, AdvanceKeeps DEF TypeOK, Stages
  <2>2. ~ lifecycle
    BY <1>1, <1>5, Hears
  <2>3. Calls' /\ Redeems'
    BY <1>1, <1>2, <1>5, <2>2 DEF Calls, Redeems, Redeeming, Advances, travelDay
  <2>4. QED
    BY <2>1, <2>3 DEF IInv
<1>6. QED
  BY <1>1, <1>3, <1>4, <1>5, TakeAccountStep

\* An answer keeps it.
LEMMA AnswerKeeps ==
  ASSUME IInv, Answer
  PROVE  IInv'
<1>1. TypeOK /\ Held /\ Stop /\ Calls /\ Redeems
  BY DEF IInv
<1>2. /\ job.phase = "wait" /\ job.stage \notin {"none", "next", "script"}
      /\ job.stage = "redeem" =>
           rewardClaimed' = [rewardClaimed EXCEPT ![job.acct] = travelDay(now)]
      /\ job.stage # "redeem" => rewardClaimed' = rewardClaimed
      /\ UNCHANGED <<now, loop, ctx, lifecycle, late, redeems>>
  BY <1>1, AnswerStep
<1>3. PICK s \in Stages \ {"none", "script"} :
        /\ Advances(s, "check", job.acct)
        /\ s = "rewards" => ~ rewardClaimedToday(job.acct) /\ job.stage # "redeem"
        /\ s = "redeem" => job.stage = "rewards"
  BY <1>1, AnswerStep
<1>4. job.acct \in Accounts
  BY <1>1, <1>2 DEF Held
<1>5. travelDay(now) \in Int
  BY <1>1, SchedulerAssumption DEF travelDay, TypeOK
<1>6. /\ rewardClaimed' \in [Accounts -> Int]
      /\ \A a \in Accounts : rewardClaimed'[a] =
           IF Redeeming(a) THEN travelDay(now) ELSE rewardClaimed[a]
  BY <1>1, <1>2, <1>4, <1>5 DEF Redeeming, TypeOK
<1>7. TypeOK' /\ Held' /\ Stop'
  BY <1>1, <1>2, <1>3, <1>4, <1>6, AdvanceKeeps DEF TypeOK
<1>8. Calls'
  BY <1>1, <1>2, <1>3 DEF Calls, Advances
<1>9. Redeems'
  <2>1. ASSUME NEW a \in Accounts
        PROVE  /\ redeems[a] <= 1
               /\ redeems[a] = 1 => rewardClaimed'[a] = travelDay(now)
               /\ s = "rewards" /\ job.acct = a => redeems[a] = 0
               /\ s = "redeem" /\ job.acct = a => redeems[a] = 0
    <3>1. redeems[a] \in Nat /\ redeems[a] <= 1
      BY <1>1 DEF Redeems, TypeOK
    <3>2. redeems[a] = 1 => rewardClaimed'[a] = travelDay(now)
      BY <1>1, <1>6 DEF Redeems
    <3>3. s = "rewards" /\ job.acct = a => redeems[a] = 0
      BY <1>1, <1>3, <3>1 DEF Redeems, Redeeming, rewardClaimedToday
    <3>4. s = "redeem" /\ job.acct = a => redeems[a] = 0
      BY <1>1, <1>3 DEF Redeems
    <3>5. QED
      BY <3>1, <3>2, <3>3, <3>4
  <2>2. QED
    BY <1>2, <1>3, <2>1 DEF Redeems, Redeeming, Advances, travelDay
<1>10. QED
  BY <1>7, <1>8, <1>9 DEF IInv

\* A look at the context keeps it.
LEMMA CheckKeeps ==
  ASSUME IInv, CheckContext
  PROVE  IInv'
<1>1. /\ TypeOK /\ Held /\ Stop /\ Calls /\ Redeems
      /\ job.phase = "check" /\ job.stage # "next" /\ job \in Jobs
  BY DEF IInv, CheckContext, TypeOK
<1>2. UNCHANGED <<now, loop, ctx, lifecycle, late, redeems, rewardClaimed>>
  BY DEF CheckContext, clockVars, stopVars, markVars, historyVars
<1>3. job.stage # "none"
  BY <1>1, Nothing DEF Held
<1>4. CASE Releases
  BY <1>1, <1>2, <1>3, <1>4, ReleaseStep
<1>5. CASE ~ Stopped(job.kind) /\ Advances(job.stage, "go", job.acct)
  <2>1. job.stage \in Stages
    BY <1>1 DEF Jobs
  <2>2. TypeOK' /\ Held' /\ Stop'
    BY <1>1, <1>2, <1>3, <1>5, <2>1, AdvanceKeeps DEF TypeOK, Held
  <2>3. ~ lifecycle
    BY <1>1, <1>5, Hears
  <2>4. Calls' /\ Redeems'
    BY <1>1, <1>2, <1>5, <2>3 DEF Calls, Redeems, Redeeming, Advances, travelDay
  <2>5. QED
    BY <2>2, <2>4 DEF IInv
<1>6. QED
  BY <1>1, <1>4, <1>5, CheckStep

\* A call keeps it.
LEMMA CallKeeps ==
  ASSUME IInv, Call
  PROVE  IInv'
<1>1. TypeOK /\ Held /\ Stop /\ Calls /\ Redeems /\ job \in Jobs
  BY DEF IInv, TypeOK
<1>2. /\ job.phase = "go" /\ Advances(job.stage, "wait", job.acct)
      /\ late' \in {late, IF lifecycle THEN late + 1 ELSE late}
      /\ job.stage = "redeem" => redeems' = [redeems EXCEPT ![job.acct] = redeems[job.acct] + 1]
      /\ job.stage # "redeem" => redeems' = redeems
      /\ UNCHANGED <<now, loop, ctx, lifecycle, rewardClaimed>>
  BY <1>1, CallStep
<1>3. job.stage # "none" /\ job.stage \in Stages
  BY <1>1, <1>2, Nothing DEF Held, Jobs
<1>4. /\ redeems' \in [Accounts -> Nat]
      /\ \A a \in Accounts : redeems'[a] = IF Redeeming(a) THEN redeems[a] + 1 ELSE redeems[a]
  <2>1. CASE job.stage = "redeem"
    <3>1. job.acct \in Accounts
      BY <1>1, <2>1 DEF Held
    <3>2. redeems \in [Accounts -> Nat]
      BY <1>1 DEF TypeOK
    <3>3. redeems' = [redeems EXCEPT ![job.acct] = redeems[job.acct] + 1]
      BY <1>2, <2>1
    <3>4. QED
      BY <2>1, <3>1, <3>2, <3>3 DEF Redeeming
  <2>2. CASE job.stage # "redeem"
    BY <1>1, <1>2, <2>2 DEF Redeeming, TypeOK
  <2>3. QED
    BY <2>1, <2>2
<1>5. TypeOK' /\ Held' /\ Stop'
  <2>1. job.stage \notin {"next", "script"} => job.acct \in Accounts
    BY <1>1, <1>3 DEF Held
  <2>2. rewardClaimed' \in [Accounts -> Int]
    BY <1>1, <1>2 DEF TypeOK
  <2>3. QED
    BY <1>2, <1>3, <1>4, <2>1, <2>2, AdvanceKeeps
<1>6. Calls'
  BY <1>1, <1>2 DEF Calls, Advances
<1>7. Redeems'
  <2>1. ASSUME NEW a \in Accounts
        PROVE  /\ redeems'[a] <= 1
               /\ redeems'[a] = 1 =>
                    rewardClaimed[a] = travelDay(now) \/ (job.stage = "redeem" /\ job.acct = a)
               /\ job.stage = "rewards" /\ job.acct = a => redeems'[a] = 0
    <3>1. redeems[a] \in Nat
      BY <1>1 DEF TypeOK
    <3>2. QED
      BY <1>1, <1>2, <1>4, <3>1 DEF Redeems, Redeeming
  <2>2. QED
    BY <1>2, <2>1 DEF Redeems, Redeeming, Advances, travelDay
<1>8. QED
  BY <1>5, <1>6, <1>7 DEF IInv

\* The end of a script keeps it.
LEMMA ScriptKeeps ==
  ASSUME IInv, ScriptEnds
  PROVE  IInv'
<1>1. TypeOK /\ job.stage = "script" /\ Unlock
  BY DEF IInv, ScriptEnds, Answered
<1>2. UNCHANGED <<now, loop, ctx, lifecycle, late, redeems, rewardClaimed>>
  BY DEF ScriptEnds, clockVars, stopVars, markVars, historyVars
<1>3. Releases
  BY <1>1, Unlocks
<1>4. QED
  BY <1>1, <1>2, <1>3, ReleaseStep DEF Redeeming

\* The holder of runMu starts its job.
LEMMA RunKeeps ==
  ASSUME IInv, NEW k \in Kinds, runTask(k)
  PROVE  IInv'
<1>1. TypeOK /\ Held /\ Stop /\ Calls /\ Redeems
  BY DEF IInv
<1>2. /\ UNCHANGED <<now, loop, ctx, lifecycle, late, redeems, rewardClaimed>>
      /\ worker[k].at = "wait" /\ job = NoJob /\ worker[k] \in Workers
  BY <1>1 DEF runTask, clockVars, stopVars, markVars, historyVars, TypeOK
<1>3. \A s \in {"leave", "run"} : /\ [worker[k] EXCEPT !.at = s] \in Workers
                                  /\ [worker[k] EXCEPT !.at = s].at = s
  BY <1>2 DEF Workers
<1>4. CASE Stopped(k)
  <2>1. worker' = [worker EXCEPT ![k] = [worker[k] EXCEPT !.at = "leave"]] /\ job' = job
    BY <1>4, Zenon DEF runTask
  <2>2. QED
    BY <1>1, <1>2, <1>3, <2>1, Nothing, WorkerKeeps DEF TypeOK
<1>5. CASE ~ Stopped(k)
  <2>1. worker' = [worker EXCEPT ![k] = [worker[k] EXCEPT !.at = "run"]]
    BY <1>5, Zenon DEF runTask
  <2> DEFINE s == IF k = "script" THEN "script" ELSE "next"
  <2>2. job' = [NoJob EXCEPT !.kind = k, !.stage = s, !.phase = "check", !.todo = Accounts]
    BY <1>5, Zenon DEF runTask
  <2>3. s \in Stages
    BY DEF Stages
  <2>4. job' = [kind |-> k, todo |-> Accounts, acct |-> "none", stage |-> s,
                phase |-> "check", n |-> 0]
    BY <2>2 DEF NoJob
  <2>5. job' \in Jobs /\ job'.kind = k /\ job'.stage = s /\ job'.phase = "check"
    BY <2>3, <2>4 DEF Jobs
  <2>6. /\ worker' \in [Kinds -> Workers] /\ worker'[k].at = "run"
        /\ \A j \in Kinds \ {k} : worker'[j] = worker[j]
    BY <1>1, <1>3, <2>1 DEF TypeOK
  <2>7. \A j \in Kinds : worker[j].at # "run"
    BY <1>1, <1>2, Nothing DEF Held
  <2>8. TypeOK'
    BY <1>1, <1>2, <2>5, <2>6 DEF TypeOK
  <2>9. Held'
    BY <2>5, <2>6, <2>7 DEF Held
  <2>10. ~ lifecycle
    BY <1>1, <1>5, Hears
  <2>11. Stop' /\ Calls'
    BY <1>1, <1>2, <2>10 DEF Stop, Calls
  <2>12. Redeems'
    <3>1. job.stage = "none" /\ s # "rewards" /\ s # "redeem"
      BY <1>2, Nothing
    <3> HIDE DEF s
    <3>2. QED
      BY <1>1, <1>2, <2>5, <3>1 DEF Redeems, Redeeming, travelDay
  <2>13. QED
    BY <2>8, <2>9, <2>11, <2>12 DEF IInv
<1>6. QED
  BY <1>4, <1>5

-----------------------------------------------------------------------------
(* When: the hours of the schedule.                                        *)

\* Two hours of a day that differ by days are the same.
LEMMA Multiples ==
  ASSUME NEW H \in Nat \ {0}, NEW d \in Int, NEW r \in 0..(H - 1), NEW s \in 0..(H - 1),
         H * d = r - s
  PROVE  r = s
<1>1. d >= 1 => H * d >= H
  OBVIOUS
<1>2. d <= -1 => H * d <= -H
  OBVIOUS
<1>3. d = 0
  BY <1>1, <1>2
<1>4. QED
  BY <1>3

\* The hour of a moment given by day and hour.
LEMMA HourOfDay ==
  ASSUME NEW H \in Nat \ {0}, NEW q \in Nat, NEW h \in 0..(H - 1)
  PROVE  H * q + h \in Nat /\ (H * q + h) % H = h
<1> DEFINE x == H * q + h
<1>1. H * q \in Nat
  OBVIOUS
<1>2. x \in Nat
  BY <1>1
<1>3. x = H * (x \div H) + (x % H) /\ x \div H \in Int /\ x % H \in 0..(H - 1)
  <2> HIDE DEF x
  <2>1. QED
    BY <1>2
<1>4. PICK p \in Int : p = x \div H
  BY <1>3
<1>5. PICK s \in 0..(H - 1) : s = x % H
  BY <1>3
<1>6. H * q + h = H * p + s
  BY <1>3, <1>4, <1>5
<1>7. H * (q - p) = H * q - H * p
  OBVIOUS
<1>8. H * (q - p) = s - h /\ q - p \in Int
  BY <1>6, <1>7
<1>9. s = h
  BY <1>8, Multiples
<1>10. QED
  BY <1>2, <1>5, <1>9

\* Every hour comes within a day.
LEMMA WithinADay ==
  ASSUME NEW H \in Nat \ {0}, NEW t \in Nat, NEW h \in 0..(H - 1)
  PROVE  \E u \in t + 1 .. t + H : u % H = h
<1> DEFINE x == t + 1
<1>1. x = H * (x \div H) + (x % H) /\ x \div H \in Nat /\ x % H \in 0..(H - 1)
  <2>1. x \in Nat
    OBVIOUS
  <2> HIDE DEF x
  <2>2. QED
    BY <2>1
<1>2. PICK q \in Nat, r \in 0..(H - 1) : x = H * q + r
  BY <1>1
<1>3. CASE r <= h
  <2>1. H * q + h \in t + 1 .. t + H
    <3>1. H * q + h = x + (h - r) /\ h - r \in 0..(H - 1)
      BY <1>2, <1>3
    <3>2. QED
      BY <3>1
  <2>2. (H * q + h) % H = h
    BY HourOfDay
  <2>3. QED
    BY <2>1, <2>2
<1>4. CASE h < r
  <2>1. H * (q + 1) + h \in t + 1 .. t + H
    <3>1. H * (q + 1) = H * q + H
      OBVIOUS
    <3>2. H * (q + 1) + h = x + (H + h - r) /\ H + h - r \in 0..(H - 1)
      BY <1>2, <1>4, <3>1
    <3>3. QED
      BY <3>2
  <2>2. (H * (q + 1) + h) % H = h
    BY HourOfDay
  <2>3. QED
    BY <2>1, <2>2
<1>5. QED
  BY <1>3, <1>4

\* A set of numbers has a least one.
LEMMA Least ==
  ASSUME NEW S \in SUBSET Nat, S # {}
  PROVE  \E m \in S : \A n \in S : m <= n
<1>1. IsWellFoundedOn(OpToRel(<, Nat), Nat)
  BY NatLessThanWellFounded
<1>2. PICK m \in S : \A n \in S : ~ (<<n, m>> \in OpToRel(<, Nat))
  BY <1>1, WFMin, Zenon
<1>3. \A n \in S : ~ (n < m)
  BY <1>2 DEF OpToRel
<1>4. QED
  BY <1>3

\* nextFire is the first instant after t at one of the hours.
LEMMA NextFires ==
  ASSUME NEW t \in Nat, NEW hours \in SUBSET (0 .. HoursPerDay - 1), hours # {}
  PROVE  /\ nextFire(t, hours) \in t + 1 .. t + HoursPerDay
         /\ \A v \in t + 1 .. nextFire(t, hours) - 1 : v % HoursPerDay \notin hours
<1> DEFINE S == {u \in Nat : u \in t + 1 .. t + HoursPerDay /\ u % HoursPerDay \in hours}
<1>1. HoursPerDay \in Nat \ {0}
  BY SchedulerAssumption
<1>2. S # {}
  <2>1. PICK h \in hours : h \in 0 .. HoursPerDay - 1
    OBVIOUS
  <2>2. PICK u \in t + 1 .. t + HoursPerDay : u % HoursPerDay = h
    BY <1>1, <2>1, WithinADay
  <2>3. u \in Nat
    BY <1>1
  <2>4. QED
    BY <2>2, <2>3
<1>3. S \subseteq Nat
  OBVIOUS
<1>4. PICK m \in S : \A n \in S : m <= n
  BY <1>2, <1>3, Least
<1>5. \A v \in t + 1 .. m - 1 : v % HoursPerDay \notin hours
  <2>1. SUFFICES ASSUME NEW v \in t + 1 .. m - 1, v % HoursPerDay \in hours PROVE FALSE
    OBVIOUS
  <2>2. m \in Nat /\ m <= t + HoursPerDay
    BY <1>1
  <2>3. v \in S
    BY <1>1, <2>1, <2>2
  <2>4. QED
    BY <1>4, <2>2, <2>3
<1>6. \E u \in t + 1 .. t + HoursPerDay :
        /\ u % HoursPerDay \in hours
        /\ \A v \in t + 1 .. u - 1 : v % HoursPerDay \notin hours
  BY <1>5
<1>7. QED
  BY <1>6 DEF nextFire

\* The loop wakes at the first instant any scheduled task is due, with every
\* task due then.
LEMMA Wakes ==
  ASSUME NEW t \in Nat, Scheduled # {}
  PROVE  /\ nextWake(t).at \in Nat /\ nextWake(t).kinds \subseteq Kinds
         /\ \A k \in Scheduled :
              /\ nextWake(t).at <= nextFire(t, Hours[k])
              /\ nextFire(t, Hours[k]) = nextWake(t).at => k \in nextWake(t).kinds
<1> DEFINE fires == {nextFire(t, Hours[k]) : k \in Scheduled}
<1>1. \A k \in Scheduled : nextFire(t, Hours[k]) \in Nat
  <2>1. ASSUME NEW k \in Scheduled
        PROVE  nextFire(t, Hours[k]) \in Nat
    <3>1. Hours[k] \in SUBSET (0 .. HoursPerDay - 1) /\ Hours[k] # {}
      BY SchedulerAssumption DEF Scheduled
    <3>2. nextFire(t, Hours[k]) \in t + 1 .. t + HoursPerDay
      BY <3>1, NextFires
    <3>3. QED
      BY <3>2, SchedulerAssumption
  <2>2. QED
    BY <2>1
<1>2. fires \in SUBSET Nat /\ fires # {}
  BY <1>1
<1>3. PICK m \in fires : \A n \in fires : m <= n
  BY <1>2, Least
<1> DEFINE at == CHOOSE u \in fires : \A v \in fires : u <= v
<1>4. at \in fires /\ \A v \in fires : at <= v
  BY <1>3
<1>5. nextWake(t) = [at |-> at, kinds |-> {k \in Scheduled : nextFire(t, Hours[k]) = at}]
  BY DEF nextWake
<1> HIDE DEF at
<1>6. /\ nextWake(t).at = at
      /\ nextWake(t).kinds = {k \in Scheduled : nextFire(t, Hours[k]) = at}
  BY <1>5
<1>7. QED
  BY <1>2, <1>4, <1>6 DEF Scheduled

\* A task is not due before the loop wakes, and when it is due it is one of
\* those the loop wakes for.
LEMMA Due ==
  ASSUME NEW t \in Nat, NEW u \in Nat, t < u, NEW k \in Scheduled, u % HoursPerDay \in Hours[k]
  PROVE  nextWake(t).at <= u /\ (nextWake(t).at = u => k \in nextWake(t).kinds)
<1>1. Hours[k] \in SUBSET (0 .. HoursPerDay - 1) /\ Hours[k] # {} /\ Scheduled # {}
  BY SchedulerAssumption DEF Scheduled
<1>2. PICK f \in Nat : /\ f = nextFire(t, Hours[k])
                      /\ \A v \in t + 1 .. f - 1 : v % HoursPerDay \notin Hours[k]
  <2> DEFINE g == nextFire(t, Hours[k])
  <2>1. /\ g \in t + 1 .. t + HoursPerDay
        /\ \A v \in t + 1 .. g - 1 : v % HoursPerDay \notin Hours[k]
    BY <1>1, NextFires
  <2> HIDE DEF g
  <2>2. g \in Nat
    BY <2>1, SchedulerAssumption
  <2>3. g = nextFire(t, Hours[k])
    BY DEF g
  <2>4. QED
    BY <2>1, <2>2, <2>3
<1>3. f <= u
  BY <1>2
<1>4. nextWake(t).at \in Nat /\ nextWake(t).at <= f
  BY <1>1, <1>2, Wakes
<1>5. nextWake(t).at = f => k \in nextWake(t).kinds
  BY <1>1, <1>2, Wakes
<1>6. QED
  BY <1>3, <1>4, <1>5

\* While the loop sleeps it holds the plan of some earlier instant.
Planned ==
  loop.pc = "asleep" /\ Scheduled # {} =>
    \E t \in Nat : t <= now /\ loop.at = nextWake(t).at /\ loop.kinds = nextWake(t).kinds

\* A plan goes to sleep until the next hour that is due.
LEMMA PlanStep ==
  ASSUME TypeOK, Plan
  PROVE  /\ loop' \in [pc : {"plan", "asleep", "batch", "joining", "done"}, at : Int,
                       kinds : SUBSET Kinds]
         /\ loop'.pc = "asleep"
         /\ Scheduled # {} => loop'.at = nextWake(now).at /\ loop'.kinds = nextWake(now).kinds
<1>1. now \in Nat /\ Never \in Int
  BY DEF TypeOK, Never
<1>2. CASE Scheduled = {}
  BY <1>1, <1>2 DEF Plan
<1>3. CASE Scheduled # {}
  <2>1. loop' = [pc |-> "asleep", at |-> nextWake(now).at, kinds |-> nextWake(now).kinds]
    BY <1>3 DEF Plan
  <2>2. nextWake(now).at \in Int /\ nextWake(now).kinds \in SUBSET Kinds
    BY <1>1, <1>3, Wakes
  <2>3. QED
    BY <2>1, <2>2
<1>4. QED
  BY <1>2, <1>3

-----------------------------------------------------------------------------
(* The other steps, the invariant, and the theorems.                       *)

Loops == [pc : {"plan", "asleep", "batch", "joining", "done"}, at : Int, kinds : SUBSET Kinds]

\* A step of the timer loop or of the stop.
LEMMA LoopKeeps ==
  ASSUME IInv, UNCHANGED <<now, worker, job, late, redeems, rewardClaimed>>,
         loop' \in Loops, ctx' \in BOOLEAN, lifecycle' \in BOOLEAN,
         ctx => ctx', lifecycle => lifecycle', lifecycle' => ctx',
         loop'.pc \in {"joining", "done"} => lifecycle',
         loop'.pc = "done" => \A k \in Kinds : worker[k] = Idle
  PROVE  IInv'
<1>1. TypeOK /\ Held /\ Stop /\ Calls /\ Redeems
  BY DEF IInv
<1>2. TypeOK'
  BY <1>1 DEF TypeOK, Loops
<1>3. Held'
  BY <1>1 DEF Held
<1>4. Stop'
  BY DEF Stop
<1>5. Calls'
  BY <1>1 DEF Calls
<1>6. Redeems'
  BY <1>1 DEF Redeems, Redeeming, travelDay
<1>7. QED
  BY <1>2, <1>3, <1>4, <1>5, <1>6 DEF IInv

\* The loop and the stop keep the invariant.
LEMMA LoopStepKeeps ==
  ASSUME IInv, Cancel \/ Forward \/ Plan \/ Fire \/ BatchEnds \/ StopLoop \/ Joined
  PROVE  IInv'
<1>1. TypeOK /\ Stop /\ loop \in Loops /\ ctx \in BOOLEAN /\ lifecycle \in BOOLEAN
  BY DEF IInv, TypeOK, Loops
<1> USE DEF clockVars, stopVars, markVars, historyVars
<1>2. CASE Cancel
  BY <1>1, <1>2, LoopKeeps DEF Cancel, Stop
<1>3. CASE Forward
  BY <1>1, <1>3, LoopKeeps DEF Forward, Stop
<1>4. CASE Plan
  <2>1. loop' \in Loops /\ loop'.pc = "asleep"
    BY <1>1, <1>4, PlanStep DEF Loops
  <2>2. QED
    BY <1>1, <1>4, <2>1, LoopKeeps DEF Plan, Stop
<1>5. CASE Fire
  <2>1. loop' \in Loops /\ loop'.pc = "batch"
    BY <1>1, <1>5 DEF Fire, Loops
  <2>2. QED
    BY <1>1, <1>5, <2>1, LoopKeeps DEF Fire, Stop
<1>6. CASE BatchEnds
  <2>1. loop' \in Loops /\ loop'.pc = "plan"
    BY <1>1, <1>6 DEF BatchEnds, Loops
  <2>2. QED
    BY <1>1, <1>6, <2>1, LoopKeeps DEF BatchEnds, Stop
<1>7. CASE StopLoop
  <2>1. loop' \in Loops /\ loop'.pc = "joining"
    BY <1>7 DEF StopLoop, Loops, Never
  <2>2. QED
    BY <1>1, <1>7, <2>1, LoopKeeps DEF StopLoop, Stop
<1>8. CASE Joined
  <2>1. loop' \in Loops /\ loop'.pc = "done" /\ lifecycle
    BY <1>1, <1>8 DEF Joined, Loops, Stop
  <2>2. QED
    BY <1>1, <1>8, <2>1, LoopKeeps DEF Joined, Stop
<1>9. QED
  BY <1>2, <1>3, <1>4, <1>5, <1>6, <1>7, <1>8

\* The hour turns: on a new day nobody has redeemed yet.
LEMMA TickKeeps ==
  ASSUME IInv, Tick
  PROVE  IInv'
<1>1. TypeOK /\ Held /\ Stop /\ Calls /\ Redeems
  BY DEF IInv
<1>2. /\ now' = now + 1
      /\ redeems' = IF travelDay(now + 1) = travelDay(now) THEN redeems
                    ELSE [a \in Accounts |-> 0]
      /\ UNCHANGED <<loop, ctx, lifecycle, worker, job, late, rewardClaimed>>
  BY DEF Tick, stopVars, markVars
<1>3. TypeOK'
  BY <1>1, <1>2 DEF TypeOK
<1>4. Held' /\ Stop' /\ Calls'
  BY <1>1, <1>2 DEF Held, Stop, Calls
<1>5. travelDay(now)' = travelDay(now + 1)
  BY <1>2 DEF travelDay
<1>6. ASSUME travelDay(now + 1) = travelDay(now)
      PROVE  Redeems'
  BY <1>1, <1>2, <1>5, <1>6 DEF Redeems, Redeeming
<1>7. ASSUME travelDay(now + 1) # travelDay(now)
      PROVE  Redeems'
  BY <1>2, <1>7 DEF Redeems, Redeeming
<1>8. QED
  BY <1>3, <1>4, <1>6, <1>7 DEF IInv

\* A goroutine takes a busy flag, gives one back, or comes to the mutex.
LEMMA FlagKeeps ==
  ASSUME IInv, NEW k \in Kinds, TriggerTask(k) \/ EnterTask(k) \/ endTask(k) \/ dispatch(k)
  PROVE  IInv'
<1>1. TypeOK /\ worker \in [Kinds -> Workers] /\ worker[k] \in Workers /\ loop \in Loops
  BY DEF IInv, TypeOK, Loops
<1>2. [by |-> "manual", at |-> "enter"] \in Workers /\ [by |-> "timer", at |-> "enter"] \in Workers
  BY DEF Workers
<1> USE DEF clockVars, stopVars, markVars, historyVars
<1>3. CASE TriggerTask(k)
  BY <1>1, <1>2, <1>3, Nothing, WorkerKeeps DEF TriggerTask, beginTask, Loops
<1>4. CASE EnterTask(k)
  <2>1. worker' = [worker EXCEPT ![k] = [worker[k] EXCEPT
                                           !.at = IF Stopped(k) THEN "leave" ELSE "wait"]]
    BY <1>4, Zenon DEF EnterTask
  <2>2. \A s \in {"leave", "wait"} : /\ [worker[k] EXCEPT !.at = s] \in Workers
                                     /\ [worker[k] EXCEPT !.at = s].at = s
    BY <1>1 DEF Workers
  <2>3. PICK s \in {"leave", "wait"} : worker' = [worker EXCEPT ![k] = [worker[k] EXCEPT !.at = s]]
    BY <2>1
  <2>4. worker[k].at = "enter" /\ worker[k] # Idle
    BY <1>4, Nothing DEF EnterTask
  <2>5. UNCHANGED <<now, loop, job, ctx, lifecycle, late, redeems, rewardClaimed>>
    BY <1>4 DEF EnterTask
  <2>6. QED
    BY <1>1, <2>2, <2>3, <2>4, <2>5, WorkerKeeps DEF Loops
<1>5. CASE endTask(k)
  BY <1>1, <1>5, Nothing, WorkerKeeps DEF endTask, Loops
<1>6. CASE dispatch(k)
  <2>1. loop' \in Loops /\ loop'.pc = loop.pc /\ loop.pc = "batch"
    <3>1. loop' = [loop EXCEPT !.kinds = loop.kinds \ {k}] /\ loop.pc = "batch"
      BY <1>6 DEF dispatch
    <3>2. QED
      BY <1>1, <3>1 DEF Loops
  <2>2. UNCHANGED <<now, job, ctx, lifecycle, late, redeems, rewardClaimed>>
    BY <1>6 DEF dispatch
  <2>3. CASE beginTask(k)
    <3>1. worker' = [worker EXCEPT ![k] = [by |-> "timer", at |-> "enter"]]
      BY <1>6, <2>3 DEF dispatch
    <3>2. worker[k].at # "run" /\ ~ lifecycle
      BY <2>3, Nothing DEF beginTask
    <3>3. [by |-> "timer", at |-> "enter"].at # "run"
      OBVIOUS
    <3>4. QED
      BY <1>2, <2>1, <2>2, <3>1, <3>2, <3>3, WorkerKeeps DEF Loops
  <2>4. CASE ~ beginTask(k)
    <3>1. worker' = worker
      BY <1>6, <2>4 DEF dispatch
    <3>2. Stop /\ ctx \in BOOLEAN /\ lifecycle \in BOOLEAN
      BY DEF IInv, TypeOK
    <3>3. QED
      BY <2>1, <2>2, <3>1, <3>2, LoopKeeps DEF Stop
  <2>5. QED
    BY <2>3, <2>4
<1>7. QED
  BY <1>3, <1>4, <1>5, <1>6

\* The invariant holds when Run starts.
LEMMA Initially == Init => IInv /\ Planned
<1> SUFFICES ASSUME Init PROVE IInv /\ Planned
  OBVIOUS
<1>1. TypeOK
  <2>1. loop \in [pc : {"plan", "asleep", "batch", "joining", "done"}, at : Int,
                  kinds : SUBSET Kinds]
    BY DEF Init
  <2>2. worker \in [Kinds -> Workers]
    BY Nothing DEF Init
  <2>3. rewardClaimed \in [Accounts -> Int]
    BY DEF Init, Never
  <2>4. redeems \in [Accounts -> Nat]
    BY DEF Init
  <2>5. now \in Nat /\ ctx \in BOOLEAN /\ lifecycle \in BOOLEAN /\ job \in Jobs
    BY Nothing DEF Init
  <2>6. QED
    BY <2>1, <2>2, <2>3, <2>4, <2>5 DEF TypeOK
<1>2. Held /\ Stop
  BY Nothing DEF Init, Held, Stop
<1>3. Calls /\ Redeems /\ Planned
  BY Nothing DEF Init, Calls, Redeems, Redeeming, Planned
<1>4. QED
  BY <1>1, <1>2, <1>3 DEF IInv

\* Every step keeps it.
LEMMA Inductive == IInv /\ [Next]_vars => IInv'
<1> SUFFICES ASSUME IInv, [Next]_vars PROVE IInv'
  OBVIOUS
<1>1. CASE Tick
  BY <1>1, TickKeeps
<1>2. CASE Cancel \/ Forward
  BY <1>2, LoopStepKeeps
<1>3. ASSUME NEW k \in Kinds, TriggerTask(k) \/ TaskStep(k)
      PROVE  IInv'
  BY <1>3, FlagKeeps, RunKeeps DEF TaskStep
<1>4. CASE LoopStep
  BY <1>4, FlagKeeps, LoopStepKeeps DEF LoopStep
<1>5. CASE JobStep
  <2>1. TakeAccount \/ CheckContext \/ Call \/ Answer \/ ScriptEnds
    BY <1>5 DEF JobStep, Answer
  <2>2. QED
    BY <2>1, TakeKeeps, CheckKeeps, CallKeeps, AnswerKeeps, ScriptKeeps
<1>6. CASE UNCHANGED vars
  <2>1. UNCHANGED <<now, loop, worker, job, ctx, lifecycle, late, redeems, rewardClaimed>>
    BY <1>6 DEF vars, clockVars, stopVars, markVars, historyVars
  <2>2. QED
    BY <2>1, LoopKeeps DEF IInv, TypeOK, Loops, Stop
<1>7. QED
  BY <1>1, <1>2, <1>3, <1>4, <1>5, <1>6 DEF Next, Ended

\* Every step keeps the loop asleep until the next hour due.
LEMMA PlannedStays == IInv /\ Planned /\ [Next]_vars => Planned'
<1> SUFFICES ASSUME IInv, Planned, [Next]_vars PROVE Planned'
  OBVIOUS
<1>1. TypeOK /\ now \in Nat /\ loop \in Loops
  BY DEF IInv, TypeOK, Loops
<1> USE DEF clockVars, stopVars, markVars, historyVars
<1>2. ASSUME UNCHANGED loop, now' \in {now, now + 1}
      PROVE  Planned'
  <2>1. CASE loop.pc = "asleep" /\ Scheduled # {}
    <3>1. PICK t \in Nat : /\ t <= now
                           /\ loop.at = nextWake(t).at /\ loop.kinds = nextWake(t).kinds
      BY <2>1 DEF Planned
    <3>2. t <= now'
      BY <1>1, <1>2, <3>1
    <3>3. QED
      BY <1>2, <3>1, <3>2 DEF Planned
  <2>2. CASE ~ (loop.pc = "asleep" /\ Scheduled # {})
    BY <1>2, <2>2 DEF Planned
  <2>3. QED
    BY <2>1, <2>2
<1>3. CASE Tick \/ Cancel \/ Forward
  BY <1>2, <1>3 DEF Tick, Cancel, Forward
<1>4. ASSUME NEW k \in Kinds, TriggerTask(k) \/ TaskStep(k)
      PROVE  Planned'
  BY <1>2, <1>4 DEF TriggerTask, TaskStep, EnterTask, runTask, endTask
<1>5. CASE Plan
  <2>1. Scheduled # {} => loop'.at = nextWake(now).at /\ loop'.kinds = nextWake(now).kinds
    BY <1>1, <1>5, PlanStep
  <2>2. now' = now
    BY <1>5 DEF Plan
  <2>3. QED
    BY <1>1, <2>1, <2>2 DEF Planned
<1>6. ASSUME loop'.pc # "asleep"
      PROVE  Planned'
  BY <1>6 DEF Planned
<1>7. CASE Fire \/ BatchEnds \/ StopLoop \/ Joined
  <2>1. loop'.pc # "asleep"
    BY <1>1, <1>7 DEF Fire, BatchEnds, StopLoop, Joined, Loops
  <2>2. QED
    BY <1>6, <2>1
<1>8. ASSUME NEW k \in Kinds, dispatch(k)
      PROVE  Planned'
  <2>1. loop' = [loop EXCEPT !.kinds = loop.kinds \ {k}] /\ loop.pc = "batch"
    BY <1>8 DEF dispatch
  <2>2. QED
    BY <1>1, <1>6, <2>1 DEF Loops
<1>9. CASE JobStep
  <2>1. UNCHANGED <<loop, now>>
    BY <1>9 DEF JobStep, TakeAccount, CheckContext, Call, RefreshAnswer, PlainAnswer, ReportAnswer,
       CatAnswer, StatusAnswer, AgreeAnswer, AdoptAnswer, RewardsAnswer, RedeemAnswer,
       ChancesAnswer, ScriptEnds
  <2>2. QED
    BY <1>2, <2>1
<1>10. CASE UNCHANGED vars
  BY <1>2, <1>10 DEF vars
<1>11. QED
  BY <1>3, <1>4, <1>5, <1>7, <1>8, <1>9, <1>10 DEF Next, LoopStep, Ended

\* While the loop sleeps no hour of an enabled task passes that the loop has
\* not planned.
LEMMA HourIsPlanned ==
  ASSUME IInv, Planned, [Next]_vars, NEW k \in Scheduled,
         loop.pc = "asleep", now' # now, now' % HoursPerDay \in Hours[k]
  PROVE  loop.at <= now' /\ (loop.at = now' => k \in loop.kinds)
<1>1. now \in Nat
  BY DEF IInv, TypeOK
<1>2. now' = now + 1
  BY DEF Next, Tick, Cancel, Forward, TriggerTask, TaskStep, EnterTask, runTask, endTask,
     LoopStep, Plan, Fire, dispatch, BatchEnds, StopLoop, Joined,
     JobStep, TakeAccount, CheckContext, Call, RefreshAnswer, PlainAnswer, ReportAnswer,
     CatAnswer, StatusAnswer, AgreeAnswer, AdoptAnswer, RewardsAnswer, RedeemAnswer,
     ChancesAnswer, ScriptEnds, Ended, vars, clockVars
<1>3. PICK t \in Nat : t <= now /\ loop.at = nextWake(t).at /\ loop.kinds = nextWake(t).kinds
  BY DEF Planned
<1>4. now' \in Nat /\ t < now'
  BY <1>1, <1>2, <1>3
<1>5. nextWake(t).at <= now' /\ (nextWake(t).at = now' => k \in nextWake(t).kinds)
  BY <1>4, Due
<1>6. QED
  BY <1>3, <1>5

\* Both hold always.
LEMMA Invariance == Spec => [](IInv /\ Planned)
<1>1. Init => IInv /\ Planned
  BY Initially
<1>2. IInv /\ Planned /\ [Next]_vars => IInv' /\ Planned'
  BY Inductive, PlannedStays
<1>3. QED
  BY <1>1, <1>2, PTL DEF Spec

\* When Run has returned no task runs and none starts, whatever was running,
\* waiting for the mutex or triggered by hand when the stop came.
THEOREM Quiet == Spec => []QuietAfterRun
<1>1. IInv => QuietAfterRun
  <2> SUFFICES ASSUME IInv, loop.pc = "done" PROVE Running = {} /\ job = NoJob
    BY DEF QuietAfterRun
  <2>1. Stop /\ Held
    BY DEF IInv
  <2>2. \A k \in Kinds : worker[k] = Idle
    BY <2>1 DEF Stop
  <2>3. job = NoJob
    BY <2>1, <2>2, Nothing DEF Held
  <2>4. QED
    BY <2>2, <2>3 DEF Running
<1>2. QED
  BY <1>1, Invariance, PTL

\* Over all tasks and accounts at most one upstream call begins after the
\* lifecycle is over.
THEOREM OneCall == Spec => []OneCallAfterStop
<1>1. IInv => OneCallAfterStop
  BY DEF IInv, Calls, OneCallAfterStop
<1>2. QED
  BY <1>1, Invariance, PTL

\* The activity task redeems one tier of an account a CST day, however often it
\* runs and even if midnight passes between the call and its answer.
THEOREM OneActivityRedeem == Spec => []OneActivityRedeemPerDay
<1>1. IInv => OneActivityRedeemPerDay
  BY DEF IInv, Redeems, OneActivityRedeemPerDay
<1>2. QED
  BY <1>1, Invariance, PTL

\* No hour of an enabled task comes while the timer loop sleeps for a later
\* one, or for that one without the task.
THEOREM NoneSlept == Spec => NoDueHourSlept
<1>1. IInv /\ Planned /\ [Next]_vars =>
        [\A k \in Scheduled :
           loop.pc = "asleep" /\ now' # now /\ now' % HoursPerDay \in Hours[k]
              => loop.at <= now' /\ (loop.at = now' => k \in loop.kinds)]_vars
  BY HourIsPlanned
<1>2. QED
  BY <1>1, Invariance, PTL DEF Spec, NoDueHourSlept
=============================================================================
