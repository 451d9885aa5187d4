-------------------------- MODULE HotUpdate_proofs --------------------------
(***************************************************************************)
(* Hot updates, for any number of instances: what is produced during a     *)
(* drain is not lost, the socket is always served and the container stays. *)
(***************************************************************************)
EXTENDS HotUpdate, NaturalsInduction, WellFoundedInduction, TLAPS

Updates == [stage : {"idle", "download", "handover"}, child : 0..Last]

Processes ==
  [st : {"none", "boot", "up", "drain", "gone"}, active : BOOLEAN, batch : BOOLEAN,
   apply : Updates, switched : BOOLEAN, term : BOOLEAN, step : 0..7, code : {0, 1, 75}]

TypeOK ==
  /\ proc \in [Instances -> Processes]
  /\ ready \subseteq Instances
  /\ sup \in {"wait", "supervise", "exit"}
  /\ stopping \in BOOLEAN /\ failed \in BOOLEAN
  /\ pointer \in Instances

\* Instance i is at most this far in its drain.
InStep(i) ==
  /\ proc[i].step > 0 => proc[i].st = "drain"
  /\ proc[i].active => proc[i].st \in {"up", "drain"} /\ proc[i].step < 3
  /\ proc[i].batch => proc[i].st \in {"up", "drain"} /\ proc[i].step < 4
  /\ proc[i].apply # Idle => Alive(i)

Producing == DrainLosesNothing /\ \A i \in Instances : InStep(i)

Parent(i, c) == proc[i].apply.stage = "handover" /\ proc[i].apply.child = c

\* Handovers lead from an instance to a later one, each to its own.
Handovers ==
  /\ proc[1].st # "none"
  /\ \A i, j \in Instances : i < j /\ proc[i].st = "none" => proc[j].st = "none"
  /\ \A i \in Instances :
       proc[i].apply.stage = "handover" =>
         /\ proc[i].apply.child \in Instances /\ i < proc[i].apply.child
         /\ proc[proc[i].apply.child].st # "none"
  /\ \A i, j, c \in Instances : Parent(i, c) /\ Parent(j, c) => i = j
  /\ ready \subseteq {i \in Instances : proc[i].st \in {"up", "drain", "gone"}}

\* The instance has handed over to another.
Handed(i) == proc[i].switched \/ proc[i].code = 75

\* Some instance is in charge that is no older than the pointer, and one later
\* than each that has handed over.
Chain ==
  /\ \E c \in Instances : pointer <= c /\ InCharge(c)
  /\ \A i \in Instances : Handed(i) => \E c \in Instances : i < c /\ InCharge(c)

\* Nobody leaves before it has handed over, unless it crashes.
Unstopped ==
  \A i \in Instances : /\ ~ proc[i].term
                       /\ proc[i].st = "drain" => proc[i].switched
                       /\ proc[i].st = "gone" => proc[i].code \in {1, 75}

\* A process has a status when it is gone; that of the first ends the container.
Exits ==
  /\ ContainerOutlivesHandover
  /\ \A i \in Instances : proc[i].code # 0 => proc[i].st = "gone"

IInv ==
  /\ TypeOK /\ Producing /\ Handovers /\ Exits
  /\ ~ stopping => Unstopped
  /\ ~ stopping /\ ~ failed /\ sup # "exit" => Chain

-----------------------------------------------------------------------------
(* What the steps change.                                                  *)

\* The steps of the drain that are behind instance i.
LEMMA StepsDone ==
  ASSUME NEW i \in Instances, proc[i].step \in 0..7
  PROVE  /\ Done(i, "background") <=> proc[i].step > 0
         /\ Done(i, "listeners") <=> proc[i].step > 1
         /\ Done(i, "sessions") <=> proc[i].step > 4
         /\ Done(i, "usage") <=> proc[i].step > 5
         /\ Done(i, "pool") <=> proc[i].step > 6
         /\ ~ Done(i, "store")
BY DEF Done, DrainOrder

\* The record a process becomes when one field changes.
LEMMA Fields ==
  ASSUME NEW r \in Processes
  PROVE  /\ \A s : [r EXCEPT !.st = s] = [st |-> s, active |-> r.active, batch |-> r.batch,
              apply |-> r.apply, switched |-> r.switched, term |-> r.term, step |-> r.step,
              code |-> r.code]
         /\ \A b : [r EXCEPT !.active = b] = [st |-> r.st, active |-> b, batch |-> r.batch,
              apply |-> r.apply, switched |-> r.switched, term |-> r.term, step |-> r.step,
              code |-> r.code]
         /\ \A b : [r EXCEPT !.batch = b] = [st |-> r.st, active |-> r.active, batch |-> b,
              apply |-> r.apply, switched |-> r.switched, term |-> r.term, step |-> r.step,
              code |-> r.code]
         /\ \A u : [r EXCEPT !.apply = u] = [st |-> r.st, active |-> r.active,
              batch |-> r.batch, apply |-> u, switched |-> r.switched, term |-> r.term,
              step |-> r.step, code |-> r.code]
         /\ \A b : [r EXCEPT !.switched = b] = [st |-> r.st, active |-> r.active,
              batch |-> r.batch, apply |-> r.apply, switched |-> b, term |-> r.term,
              step |-> r.step, code |-> r.code]
         /\ \A b : [r EXCEPT !.term = b] = [st |-> r.st, active |-> r.active,
              batch |-> r.batch, apply |-> r.apply, switched |-> r.switched, term |-> b,
              step |-> r.step, code |-> r.code]
         /\ \A n : [r EXCEPT !.step = n] = [st |-> r.st, active |-> r.active,
              batch |-> r.batch, apply |-> r.apply, switched |-> r.switched,
              term |-> r.term, step |-> n, code |-> r.code]
<1>1. \A s : [r EXCEPT !.st = s] = [st |-> s, active |-> r.active, batch |-> r.batch,
              apply |-> r.apply, switched |-> r.switched, term |-> r.term, step |-> r.step,
              code |-> r.code]
  BY DEF Processes
<1>2. \A b : [r EXCEPT !.active = b] = [st |-> r.st, active |-> b, batch |-> r.batch,
              apply |-> r.apply, switched |-> r.switched, term |-> r.term, step |-> r.step,
              code |-> r.code]
  BY DEF Processes
<1>3. \A b : [r EXCEPT !.batch = b] = [st |-> r.st, active |-> r.active, batch |-> b,
              apply |-> r.apply, switched |-> r.switched, term |-> r.term, step |-> r.step,
              code |-> r.code]
  BY DEF Processes
<1>4. \A u : [r EXCEPT !.apply = u] = [st |-> r.st, active |-> r.active,
              batch |-> r.batch, apply |-> u, switched |-> r.switched, term |-> r.term,
              step |-> r.step, code |-> r.code]
  BY DEF Processes
<1>5. \A b : [r EXCEPT !.switched = b] = [st |-> r.st, active |-> r.active,
              batch |-> r.batch, apply |-> r.apply, switched |-> b, term |-> r.term,
              step |-> r.step, code |-> r.code]
  BY DEF Processes
<1>6. \A b : [r EXCEPT !.term = b] = [st |-> r.st, active |-> r.active,
              batch |-> r.batch, apply |-> r.apply, switched |-> r.switched, term |-> b,
              step |-> r.step, code |-> r.code]
  BY DEF Processes
<1>7. \A n : [r EXCEPT !.step = n] = [st |-> r.st, active |-> r.active,
              batch |-> r.batch, apply |-> r.apply, switched |-> r.switched,
              term |-> r.term, step |-> n, code |-> r.code]
  BY DEF Processes
<1>8. QED
  BY <1>1, <1>2, <1>3, <1>4, <1>5, <1>6, <1>7

\* Instance i becomes r, and the others stay what they are.
Becomes(i, r) == proc' = [proc EXCEPT ![i] = r]

\* A step of one instance leaves the others alone.
LEMMA OneChanges ==
  ASSUME TypeOK, NEW i \in Instances, NEW r \in Processes, Becomes(i, r)
  PROVE  /\ proc' \in [Instances -> Processes]
         /\ proc'[i] = r
         /\ \A j \in Instances \ {i} : proc'[j] = proc[j]
BY DEF Becomes, TypeOK

\* What is left of an instance that ended.
LEMMA Ends ==
  ASSUME NEW c \in {0, 1, 75}
  PROVE  /\ Ended(c) \in Processes
         /\ Ended(c).st = "gone" /\ Ended(c).step = 0 /\ Ended(c).code = c
         /\ Ended(c).apply = Idle /\ Idle.stage = "idle"
         /\ ~ Ended(c).active /\ ~ Ended(c).batch /\ ~ Ended(c).switched /\ ~ Ended(c).term
<1>1. Idle \in Updates /\ Idle.stage = "idle"
  BY LastAssumption DEF Idle, Updates
<1>2. /\ Ended(c).st = "gone" /\ Ended(c).step = 0 /\ Ended(c).code = c
      /\ Ended(c).apply = Idle
      /\ ~ Ended(c).active /\ ~ Ended(c).batch /\ ~ Ended(c).switched /\ ~ Ended(c).term
  BY DEF Ended, Process
<1>3. Ended(c) \in Processes
  BY <1>1 DEF Ended, Process, Processes
<1>4. QED
  BY <1>1, <1>2, <1>3

-----------------------------------------------------------------------------
(* Steps that neither begin nor end a process or a handover.               *)

\* Process i goes on.
Proceeds(i) ==
  /\ proc' \in [Instances -> Processes]
  /\ \A j \in Instances \ {i} : proc'[j] = proc[j]
  /\ Alive(i) /\ proc'[i].st \in {"boot", "up", "drain"}
  /\ proc'[i].st = "boot" => proc[i].st = "boot"
  /\ proc'[i].st = "drain" => proc[i].st = "drain" \/ proc[i].switched \/ proc[i].term
  /\ \/ proc'[i].apply = proc[i].apply
     \/ proc[i].apply.stage # "handover" /\ proc'[i].apply.stage # "handover"
  /\ proc'[i].switched = proc[i].switched /\ proc'[i].term = proc[i].term
  /\ proc'[i].code = proc[i].code
  /\ UNCHANGED <<ready, pointer, sup, stopping, failed>>

\* Serve is a step of a living instance.
LEMMA ServeProceeds ==
  ASSUME TypeOK, Producing, NEW i \in Instances, Serve(i)
  PROVE  Proceeds(i) /\ InStep(i)' /\ late' = {}
<1> DEFINE r == [proc[i] EXCEPT !.st = "up"]
<1>1. Becomes(i, r)
  BY Zenon DEF Serve, Becomes
<1>2. proc[i] \in Processes
  BY DEF TypeOK
<1>3. r \in Processes
  BY <1>2, Fields, Ends DEF Processes, Updates
<1>4. /\ proc' \in [Instances -> Processes] /\ proc'[i] = r
      /\ \A j \in Instances \ {i} : proc'[j] = proc[j]
  BY <1>1, <1>3, OneChanges
<1>5. QED
  BY <1>2, <1>4, Fields, StepsDone, Ends
     DEF Serve, Proceeds, InStep, Alive, Producing, DrainLosesNothing, Processes, Updates

\* So is Accept.
LEMMA AcceptProceeds ==
  ASSUME TypeOK, Producing, NEW i \in Instances, Accept(i)
  PROVE  Proceeds(i) /\ InStep(i)' /\ late' = {}
<1> DEFINE r == [proc[i] EXCEPT !.active = TRUE]
<1>1. Becomes(i, r)
  BY Zenon DEF Accept, Becomes
<1>2. proc[i] \in Processes
  BY DEF TypeOK
<1>3. r \in Processes
  BY ZenonT(60), <1>2, Fields, Ends DEF Processes, Updates
<1>4. /\ proc' \in [Instances -> Processes] /\ proc'[i] = r
      /\ \A j \in Instances \ {i} : proc'[j] = proc[j]
  BY <1>1, <1>3, OneChanges
<1>5. QED
  BY <1>2, <1>4, Fields, StepsDone, Ends
     DEF Accept, Proceeds, InStep, Alive, Producing, DrainLosesNothing, Accepting, Processes, Updates

\* So is the end of what was accepted or started.
LEMMA RequestEndsProceeds ==
  ASSUME TypeOK, Producing, NEW i \in Instances, RequestEnds(i)
  PROVE  Proceeds(i) /\ InStep(i)' /\ late' = {}
<1> DEFINE r == [proc[i] EXCEPT !.active = FALSE]
<1>1. Becomes(i, r)
  BY Zenon DEF RequestEnds, Becomes
<1>2. proc[i] \in Processes
  BY DEF TypeOK
<1>3. r \in Processes
  BY ZenonT(60), <1>2, Fields, Ends DEF Processes, Updates
<1>4. /\ proc' \in [Instances -> Processes] /\ proc'[i] = r
      /\ \A j \in Instances \ {i} : proc'[j] = proc[j]
  BY <1>1, <1>3, OneChanges
<1>5. QED
  BY <1>2, <1>4, Fields, StepsDone, Ends
     DEF RequestEnds, Proceeds, InStep, Alive, Producing, DrainLosesNothing, Given, Processes, Updates

\* So is BatchStarts.
LEMMA BatchStartsProceeds ==
  ASSUME TypeOK, Producing, NEW i \in Instances, BatchStarts(i)
  PROVE  Proceeds(i) /\ InStep(i)' /\ late' = {}
<1> DEFINE r == [proc[i] EXCEPT !.batch = TRUE]
<1>1. Becomes(i, r)
  BY Zenon DEF BatchStarts, Becomes
<1>2. proc[i] \in Processes
  BY DEF TypeOK
<1>3. r \in Processes
  BY ZenonT(60), <1>2, Fields, Ends DEF Processes, Updates
<1>4. /\ proc' \in [Instances -> Processes] /\ proc'[i] = r
      /\ \A j \in Instances \ {i} : proc'[j] = proc[j]
  BY <1>1, <1>3, OneChanges
<1>5. QED
  BY <1>2, <1>4, Fields, StepsDone, Ends
     DEF BatchStarts, Proceeds, InStep, Alive, Producing, DrainLosesNothing, Processes, Updates

\* So is the end of what was accepted or started.
LEMMA BatchEndsProceeds ==
  ASSUME TypeOK, Producing, NEW i \in Instances, BatchEnds(i)
  PROVE  Proceeds(i) /\ InStep(i)' /\ late' = {}
<1> DEFINE r == [proc[i] EXCEPT !.batch = FALSE]
<1>1. Becomes(i, r)
  BY Zenon DEF BatchEnds, Becomes
<1>2. proc[i] \in Processes
  BY DEF TypeOK
<1>3. r \in Processes
  BY ZenonT(60), <1>2, Fields, Ends DEF Processes, Updates
<1>4. /\ proc' \in [Instances -> Processes] /\ proc'[i] = r
      /\ \A j \in Instances \ {i} : proc'[j] = proc[j]
  BY <1>1, <1>3, OneChanges
<1>5. QED
  BY <1>2, <1>4, Fields, StepsDone, Ends
     DEF BatchEnds, Proceeds, InStep, Alive, Producing, DrainLosesNothing, Given, Processes, Updates

\* So is Apply.
LEMMA ApplyProceeds ==
  ASSUME TypeOK, Producing, NEW i \in Instances, Apply(i)
  PROVE  Proceeds(i) /\ InStep(i)' /\ late' = {}
<1> DEFINE r == [proc[i] EXCEPT !.apply = [proc[i].apply EXCEPT !.stage = "download"]]
<1>1. Becomes(i, r)
  BY Zenon DEF Apply, Becomes
<1>2. proc[i] \in Processes
  BY DEF TypeOK
<1>3. r \in Processes
  BY <1>2, Fields, Ends DEF Processes, Updates
<1>4. /\ proc' \in [Instances -> Processes] /\ proc'[i] = r
      /\ \A j \in Instances \ {i} : proc'[j] = proc[j]
  BY <1>1, <1>3, OneChanges
<1>5. QED
  BY <1>2, <1>4, Fields, StepsDone, Ends
     DEF Apply, Proceeds, InStep, Alive, Producing, DrainLosesNothing, Processes, Updates

\* So is ApplyFails.
LEMMA ApplyFailsProceeds ==
  ASSUME TypeOK, Producing, NEW i \in Instances, ApplyFails(i)
  PROVE  Proceeds(i) /\ InStep(i)' /\ late' = {}
<1> DEFINE r == [proc[i] EXCEPT !.apply = Idle]
<1>1. Becomes(i, r)
  BY Zenon DEF ApplyFails, Becomes
<1>2. proc[i] \in Processes
  BY DEF TypeOK
<1>3. r \in Processes
  BY <1>2, Fields, Ends DEF Processes, Updates
<1>4. /\ proc' \in [Instances -> Processes] /\ proc'[i] = r
      /\ \A j \in Instances \ {i} : proc'[j] = proc[j]
  BY <1>1, <1>3, OneChanges
<1>5. QED
  BY <1>2, <1>4, Fields, StepsDone, Ends
     DEF ApplyFails, Proceeds, InStep, Alive, Producing, DrainLosesNothing, Processes, Updates

\* So is StartDrain.
LEMMA StartDrainProceeds ==
  ASSUME TypeOK, Producing, NEW i \in Instances, StartDrain(i)
  PROVE  Proceeds(i) /\ InStep(i)' /\ late' = {}
<1> DEFINE r == [proc[i] EXCEPT !.st = "drain"]
<1>1. Becomes(i, r)
  BY Zenon DEF StartDrain, Becomes
<1>2. proc[i] \in Processes
  BY DEF TypeOK
<1>3. r \in Processes
  BY <1>2, Fields, Ends DEF Processes, Updates
<1>4. /\ proc' \in [Instances -> Processes] /\ proc'[i] = r
      /\ \A j \in Instances \ {i} : proc'[j] = proc[j]
  BY <1>1, <1>3, OneChanges
<1>5. QED
  BY <1>2, <1>4, Fields, StepsDone, Ends
     DEF StartDrain, Proceeds, InStep, Alive, Producing, DrainLosesNothing, Processes, Updates

\* So is every step of the drain but the last.
LEMMA DrainProceeds ==
  ASSUME TypeOK, Producing, NEW i \in Instances, DrainStep(i), proc[i].step < 7
  PROVE  Proceeds(i) /\ InStep(i)' /\ late' = {}
<1> DEFINE r == [proc[i] EXCEPT !.step = proc[i].step + 1]
<1>1. proc[i] \in Processes
  BY DEF TypeOK
<1>2. proc[i].step + 1 < Len(DrainOrder)
  BY <1>1 DEF DrainOrder, Processes
<1>3. Becomes(i, r)
  BY <1>2, Zenon DEF DrainStep, Becomes
<1>4. r \in Processes
  BY <1>1, Fields DEF Processes
<1>5. /\ proc' \in [Instances -> Processes] /\ proc'[i] = r
      /\ \A j \in Instances \ {i} : proc'[j] = proc[j]
  BY <1>3, <1>4, OneChanges
<1>6. /\ proc[i].st = "drain"
      /\ proc[i].step = 2 => ~ proc[i].active
      /\ proc[i].step = 3 => ~ proc[i].batch
      /\ UNCHANGED <<ready, pointer, sup, stopping, failed>>
  BY <1>1 DEF DrainStep, DrainOrder, Processes
<1>7. late' = {}
  <2>1. UNCHANGED late \/ Given(i, {"store"})
    BY DEF DrainStep
  <2>2. QED
    BY <2>1, <1>1, StepsDone DEF Given, Producing, DrainLosesNothing, Processes
<1>8. r = [st |-> proc[i].st, active |-> proc[i].active, batch |-> proc[i].batch,
           apply |-> proc[i].apply, switched |-> proc[i].switched,
           term |-> proc[i].term, step |-> proc[i].step + 1, code |-> proc[i].code]
  BY <1>1, Fields
<1>9. InStep(i)'
  BY <1>1, <1>5, <1>6, <1>8 DEF InStep, Producing, Alive, Processes
<1>10. Proceeds(i)
  BY <1>1, <1>5, <1>6, <1>8 DEF Proceeds, Alive
<1>11. QED
  BY <1>7, <1>9, <1>10

-----------------------------------------------------------------------------
(* The end of a process.                                                   *)

\* Process i is gone, with this code.
Leaves(i, code) ==
  /\ proc' \in [Instances -> Processes]
  /\ \A j \in Instances \ {i} : proc'[j] = proc[j]
  /\ Alive(i)
  /\ proc'[i] = Ended(code)
  /\ UNCHANGED <<ready, pointer, sup, stopping>>

\* An instance that crashes leaves with the status of a failure.
LEMMA CrashLeaves ==
  ASSUME TypeOK, Producing, NEW i \in Instances, Crash(i)
  PROVE  Leaves(i, 1) /\ InStep(i)' /\ late' = {} /\ failed' = (failed \/ InCharge(i))
<1>1. Becomes(i, Ended(1))
  BY Zenon DEF Crash, Becomes
<1>2. /\ proc' \in [Instances -> Processes] /\ proc'[i] = Ended(1)
      /\ \A j \in Instances \ {i} : proc'[j] = proc[j]
  BY <1>1, Ends, OneChanges
<1>3. InStep(i)'
  BY <1>2, Ends DEF InStep
<1>4. QED
  BY <1>2, <1>3 DEF Crash, Leaves, Producing, DrainLosesNothing

\* One that has drained leaves with the status of a handover or of an end.
LEMMA DrainLeaves ==
  ASSUME TypeOK, Producing, NEW i \in Instances, DrainStep(i), proc[i].step = 7
  PROVE  /\ Leaves(i, IF proc[i].switched THEN 75 ELSE 0)
         /\ InStep(i)' /\ late' = {} /\ failed' = failed /\ proc[i].st = "drain"
<1> DEFINE code == IF proc[i].switched THEN 75 ELSE 0
<1>1. ~ (proc[i].step + 1 < Len(DrainOrder))
  BY DEF DrainOrder
<1>2. Becomes(i, Ended(code))
  BY <1>1, Zenon DEF DrainStep, Becomes
<1>3. code \in {0, 1, 75}
  OBVIOUS
<1> HIDE DEF code
<1>4. /\ proc' \in [Instances -> Processes] /\ proc'[i] = Ended(code)
      /\ \A j \in Instances \ {i} : proc'[j] = proc[j]
  BY <1>2, <1>3, Ends, OneChanges
<1>5. InStep(i)'
  BY <1>3, <1>4, Ends DEF InStep
<1>6. late' = {}
  BY DEF DrainStep, DrainOrder, Producing, DrainLosesNothing
<1>7. Leaves(i, code)
  BY <1>4 DEF DrainStep, Leaves, Alive
<1>8. QED
  BY <1>5, <1>6, <1>7 DEF DrainStep, code

-----------------------------------------------------------------------------
(* The chain of handovers.                                                 *)

\* Whoever is in charge stays, nobody hands over: the chain is kept.
LEMMA ChargeKept ==
  ASSUME Chain, pointer' = pointer,
         \A c \in Instances : /\ InCharge(c) => InCharge(c)'
                              /\ Handed(c)' => Handed(c)
  PROVE  Chain'
BY DEF Chain

\* The entrypoint starts instance 1.
LEMMA FirstInstance == 1 \in Instances /\ Instances \subseteq Nat
BY LastAssumption DEF Instances

\* A step of a living instance keeps what holds of the handovers.
LEMMA ProceedsHandovers ==
  ASSUME TypeOK, Handovers, NEW i \in Instances, Proceeds(i)
  PROVE  Handovers'
<1>1. \A j \in Instances : proc'[j].st = "none" <=> proc[j].st = "none"
  BY DEF Proceeds, Alive
<1>2. \A j, c \in Instances : Parent(j, c)' <=> Parent(j, c)
  BY DEF Proceeds, Parent
<1>3. \A j \in Instances :
        proc'[j].apply.stage = "handover" =>
          proc[j].apply.stage = "handover" /\ proc'[j].apply = proc[j].apply
  BY DEF Proceeds
<1>4. ready' \subseteq {j \in Instances : proc'[j].st \in {"up", "drain", "gone"}}
  BY DEF Proceeds, Handovers, Alive
<1>5. QED
  BY <1>1, <1>2, <1>3, <1>4, FirstInstance DEF Handovers

\* It keeps the chain of instances in charge, and nobody leaves.
LEMMA ProceedsChain ==
  ASSUME TypeOK, Handovers, Exits, NEW i \in Instances, Proceeds(i)
  PROVE  (Chain => Chain') /\ (Unstopped => Unstopped') /\ Exits'
<1>1. \A c \in Instances : Awaited(c)' <=> Awaited(c)
  BY DEF Proceeds, Awaited, Candidate
<1>2. \A c \in Instances : InCharge(c)' <=> InCharge(c)
  BY <1>1 DEF InCharge, Proceeds, Alive
<1>3. \A c \in Instances : Handed(c)' <=> Handed(c)
  BY DEF Proceeds, Handed
<1>4. Chain => Chain'
  BY <1>2, <1>3, ChargeKept DEF Proceeds
<1>5. Unstopped => Unstopped'
  BY DEF Proceeds, Unstopped
<1>6. \A c \in Instances : proc'[c].code = proc[c].code /\ (proc[c].st = "gone" => proc'[c].st = "gone")
  BY DEF Proceeds, Alive
<1>7. Exits'
  BY <1>6, FirstInstance DEF Proceeds, Exits, ContainerOutlivesHandover
<1>8. QED
  BY <1>4, <1>5, <1>7

\* One that leaves keeps what holds of the handovers.
LEMMA LeavesHandovers ==
  ASSUME TypeOK, Handovers, NEW i \in Instances, NEW code \in {0, 1, 75}, Leaves(i, code)
  PROVE  Handovers'
<1>1. proc'[i].st = "gone" /\ proc'[i].apply.stage = "idle"
  BY Ends DEF Leaves
<1>2. \A j \in Instances : proc'[j].st = "none" <=> proc[j].st = "none"
  BY <1>1 DEF Leaves, Alive
<1>3. \A j, c \in Instances : Parent(j, c)' => Parent(j, c)
  BY <1>1 DEF Leaves, Parent
<1>4. \A j \in Instances :
        proc'[j].apply.stage = "handover" =>
          proc[j].apply.stage = "handover" /\ proc'[j].apply = proc[j].apply
  BY <1>1 DEF Leaves
<1>5. ready' \subseteq {j \in Instances : proc'[j].st \in {"up", "drain", "gone"}}
  BY <1>1 DEF Leaves, Handovers
<1>6. QED
  BY ZenonT(60), <1>2, <1>3, <1>4, <1>5, FirstInstance DEF Handovers

\* A candidate that fails, or an instance that has handed over, is not missed.
LEMMA LeavesChain ==
  ASSUME TypeOK, Handovers, Exits, NEW i \in Instances, NEW code \in {0, 1, 75}, Leaves(i, code),
         failed => failed'
  PROVE  /\ Chain /\ ~ InCharge(i) /\ (code = 75 => proc[i].switched) => Chain'
         /\ Unstopped /\ code # 0 => Unstopped'
         /\ Exits'
<1>1. /\ proc'[i].st = "gone" /\ proc'[i].apply.stage = "idle" /\ proc'[i].code = code
      /\ ~ proc'[i].switched /\ ~ proc'[i].term
  BY Ends DEF Leaves
<1>2. \A c \in Instances : Awaited(c)' => Awaited(c)
  BY <1>1 DEF Leaves, Awaited, Candidate
<1>3. \A c \in Instances \ {i} : InCharge(c) => InCharge(c)'
  BY <1>2 DEF InCharge, Leaves, Alive
<1>4. ASSUME Chain, ~ InCharge(i), code = 75 => proc[i].switched
      PROVE  Chain'
  <2>1. \A c \in Instances : Handed(c)' => Handed(c)
    BY <1>1, <1>4 DEF Leaves, Handed
  <2>2. \A c \in Instances : InCharge(c) => InCharge(c)'
    BY <1>3, <1>4
  <2>3. QED
    BY <1>4, <2>1, <2>2, ChargeKept DEF Leaves
<1>5. Unstopped /\ code # 0 => Unstopped'
  BY <1>1 DEF Leaves, Unstopped
<1>6. Exits'
  <2>1. \A c \in Instances : proc'[c].code # 0 => proc'[c].st = "gone"
    BY <1>1 DEF Leaves, Exits
  <2>2. proc[1].code = 1 => proc'[1].code = 1
    BY FirstInstance DEF Leaves, Exits, Alive
  <2>3. QED
    BY <2>1, <2>2 DEF Leaves, Exits, ContainerOutlivesHandover
<1>7. QED
  BY <1>4, <1>5, <1>6

\* A candidate that reports itself ready keeps all of them.
LEMMA NotifyStep ==
  ASSUME TypeOK, Handovers, Exits, NEW i \in Instances, NotifyReady(i)
  PROVE  Handovers' /\ (Chain => Chain') /\ (Unstopped => Unstopped') /\ Exits'
<1>1. /\ proc' = proc /\ ready' = ready \cup {i} /\ ready \subseteq Instances
      /\ UNCHANGED <<pointer, sup, stopping, failed>>
  BY DEF NotifyReady, TypeOK
<1>2. Handovers'
  BY <1>1 DEF NotifyReady, Handovers, Parent, Alive
<1>3. \A c \in Instances : /\ InCharge(c) => InCharge(c)'
                           /\ Handed(c)' => Handed(c)
  BY <1>1 DEF InCharge, Awaited, Candidate, Alive, Handed
<1>4. (Unstopped => Unstopped') /\ Exits'
  BY <1>1 DEF Unstopped, Exits, ContainerOutlivesHandover
<1>5. QED
  BY <1>1, <1>2, <1>3, <1>4, ChargeKept

\* The record of the candidate is that of a process that has not been.
LEMMA CandidateStarts ==
  ASSUME TypeOK, Producing, Handovers, NEW i \in Instances, NEW c \in Instances,
         StartCandidate(i, c)
  PROVE  /\ proc' \in [Instances -> Processes]
         /\ i < c /\ proc[c].st = "none" /\ proc'[c].st = "boot"
         /\ ~ proc'[c].active /\ ~ proc'[c].batch /\ proc'[c].apply = Idle
         /\ proc'[c].step = 0
         /\ \A j \in Instances : j # c => proc'[j].st = proc[j].st
         /\ \A j \in Instances : j # i => proc'[j].apply = proc[j].apply
         /\ proc'[i].apply.stage = "handover" /\ proc'[i].apply.child = c
         /\ \A j \in Instances :
              /\ proc'[j].switched = proc[j].switched /\ proc'[j].term = proc[j].term
              /\ proc'[j].code = proc[j].code /\ proc'[j].active = proc[j].active
              /\ proc'[j].batch = proc[j].batch /\ proc'[j].step = proc[j].step
         /\ UNCHANGED <<ready, pointer, sup, stopping, failed, late>>
<1> DEFINE u == [stage |-> "handover", child |-> c]
           q == [proc[i] EXCEPT !.apply = u]
           r == [proc[c] EXCEPT !.st = "boot"]
<1>1. proc' = [[proc EXCEPT ![i] = q] EXCEPT ![c].st = "boot"]
  BY Zenon DEF StartCandidate
<1>2. proc[i] \in Processes /\ proc[c] \in Processes /\ proc \in [Instances -> Processes]
  BY DEF TypeOK
<1>3. proc[i].apply # Idle /\ proc[c].st = "none" /\ Alive(i)
  BY Ends DEF StartCandidate, Producing, InStep
<1>4. i # c /\ i < c
  <2>1. i \in Nat /\ c \in Nat
    BY FirstInstance
  <2>2. i # c
    BY <1>3 DEF Alive
  <2>3. ~ (c < i)
    BY <1>3 DEF Handovers, Alive
  <2>4. QED
    BY <2>1, <2>2, <2>3
<1>5. u \in Updates
  BY DEF Updates, Instances
<1>6. q \in Processes /\ r \in Processes
  BY <1>2, <1>5, Fields DEF Processes
<1>7. proc' = [[proc EXCEPT ![i] = q] EXCEPT ![c] = r]
  BY <1>1, <1>2, <1>4
<1>8. /\ proc' \in [Instances -> Processes] /\ proc'[i] = q /\ proc'[c] = r
      /\ \A j \in Instances : j # i /\ j # c => proc'[j] = proc[j]
  BY <1>2, <1>4, <1>6, <1>7
<1>9. /\ q = [st |-> proc[i].st, active |-> proc[i].active, batch |-> proc[i].batch,
              apply |-> u, switched |-> proc[i].switched, term |-> proc[i].term,
              step |-> proc[i].step, code |-> proc[i].code]
      /\ r = [st |-> "boot", active |-> proc[c].active, batch |-> proc[c].batch,
              apply |-> proc[c].apply, switched |-> proc[c].switched,
              term |-> proc[c].term, step |-> proc[c].step, code |-> proc[c].code]
  BY <1>2, Fields
<1>10. /\ ~ proc[c].active /\ ~ proc[c].batch /\ proc[c].apply = Idle /\ proc[c].step = 0
  BY <1>2, <1>3 DEF Producing, InStep, Alive, Processes
<1>11. UNCHANGED <<ready, pointer, sup, stopping, failed, late>>
  BY DEF StartCandidate
<1>12. \A j \in Instances :
         /\ j # c => proc'[j].st = proc[j].st
         /\ j # i => proc'[j].apply = proc[j].apply
         /\ proc'[j].switched = proc[j].switched /\ proc'[j].term = proc[j].term
         /\ proc'[j].code = proc[j].code /\ proc'[j].active = proc[j].active
         /\ proc'[j].batch = proc[j].batch /\ proc'[j].step = proc[j].step
  BY <1>8, <1>9
<1>13. QED
  BY <1>3, <1>4, <1>8, <1>9, <1>10, <1>11, <1>12

\* The start of a candidate keeps all of them.
LEMMA CandidateStep ==
  ASSUME TypeOK, Producing, Handovers, Exits, NEW i \in Instances, NEW c \in Instances,
         StartCandidate(i, c)
  PROVE  Producing' /\ Handovers' /\ (Chain => Chain') /\ (Unstopped => Unstopped') /\ Exits'
<1> USE CandidateStarts
<1>1. Producing'
  <2>1. Alive(i)
    BY Ends DEF StartCandidate, Producing, InStep
  <2>2. InStep(c)'
    BY DEF InStep
  <2>3. ASSUME NEW j \in Instances, j # c, j # i PROVE InStep(j)'
    <3>1. /\ proc'[j].st = proc[j].st /\ proc'[j].apply = proc[j].apply
          /\ proc'[j].active = proc[j].active /\ proc'[j].batch = proc[j].batch
          /\ proc'[j].step = proc[j].step
      BY <2>3
    <3>2. InStep(j)
      BY DEF Producing
    <3>3. QED
      BY <3>1, <3>2 DEF InStep, Alive
  <2>4. InStep(i)'
    <3>1. /\ proc'[i].st = proc[i].st /\ proc'[i].active = proc[i].active
          /\ proc'[i].batch = proc[i].batch /\ proc'[i].step = proc[i].step
      BY <2>1 DEF Alive
    <3>2. InStep(i)
      BY DEF Producing
    <3>3. QED
      BY <2>1, <3>1, <3>2 DEF InStep, Alive
  <2>5. QED
    BY <2>2, <2>3, <2>4 DEF Producing, DrainLosesNothing
<1>2. \A j, d \in Instances : Parent(j, d)' => (j = i /\ d = c) \/ (j # i /\ Parent(j, d))
  BY DEF Parent
<1>3. \A j \in Instances : ~ Parent(j, c)
  BY DEF Parent, Handovers
<1>4. Handovers'
  <2>1. \A d \in Instances : d < c => proc[d].st # "none"
    <3>1. \A d \in 1..(c - 1) : proc[d].st # "none"
      BY DEF StartCandidate
    <3>2. \A d \in Instances : d < c => d \in 1..(c - 1)
      BY LastAssumption DEF Instances
    <3>3. QED
      BY <3>1, <3>2
  <2>2. \A j \in Instances : proc'[j].st = "none" => proc[j].st = "none" /\ c < j
    <3>1. \A j \in Instances : j \in Nat /\ c \in Nat
      BY FirstInstance
    <3>2. \A j \in Instances : proc'[j].st = "none" => proc[j].st = "none" /\ j # c
      OBVIOUS
    <3>3. QED
      BY <2>1, <3>1, <3>2
  <2>3. \A j, d \in Instances : j < d /\ proc'[j].st = "none" => proc'[d].st = "none"
    BY <2>2, FirstInstance DEF Handovers
  <2>4. \A j \in Instances : proc[j].st # "none" => proc'[j].st # "none"
    OBVIOUS
  <2>5. \A j \in Instances :
          proc'[j].apply.stage = "handover" =>
            /\ proc'[j].apply.child \in Instances /\ j < proc'[j].apply.child
            /\ proc'[proc'[j].apply.child].st # "none"
    BY <2>4 DEF Handovers
  <2>6. \A j, k, d \in Instances : Parent(j, d)' /\ Parent(k, d)' => j = k
    BY <1>2, <1>3 DEF Handovers
  <2>7. ready' \subseteq {j \in Instances : proc'[j].st \in {"up", "drain", "gone"}}
    BY DEF Handovers
  <2>8. proc'[1].st # "none"
    BY <2>4, FirstInstance DEF Handovers
  <2>9. QED
    BY <2>3, <2>5, <2>6, <2>7, <2>8 DEF Handovers
<1>5. Chain => Chain'
  <2>1. \A d \in Instances : Awaited(d)' => d = c \/ Awaited(d)
    BY DEF Awaited, Candidate
  <2>2. ~ InCharge(c)
    BY DEF InCharge, Alive
  <2>3. \A d \in Instances : InCharge(d) => InCharge(d)'
    BY <2>1, <2>2 DEF InCharge, Alive
  <2>4. \A d \in Instances : Handed(d)' => Handed(d)
    BY DEF Handed
  <2>5. QED
    BY <2>3, <2>4, ChargeKept
<1>6. Unstopped => Unstopped'
  BY DEF Unstopped
<1>7. Exits'
  BY FirstInstance DEF Exits, ContainerOutlivesHandover
<1>8. QED
  BY <1>1, <1>4, <1>5, <1>6, <1>7

\* The switch to it keeps the parts of the invariant, unless the candidate is
\* dead: then it has handed over itself, or the switch is a failure.
LEMMA SwitchStep ==
  ASSUME TypeOK, Producing, Handovers, Exits, NEW i \in Instances, Switch(i)
  PROVE  /\ TypeOK' /\ Producing' /\ Handovers' /\ Exits'
         /\ Unstopped => Unstopped'
         /\ Chain /\ ~ failed' => Chain'
<1> DEFINE q == [proc[i] EXCEPT !.apply = Idle]
           r == [q EXCEPT !.switched = TRUE]
<1>1. Becomes(i, r)
  BY Zenon DEF Switch, Becomes
<1>2. proc[i] \in Processes
  BY DEF TypeOK
<1>3. q \in Processes /\ r \in Processes
  BY ZenonT(60), <1>2, Fields, Ends DEF Processes
<1>4. /\ proc' \in [Instances -> Processes] /\ proc'[i] = r
      /\ \A j \in Instances \ {i} : proc'[j] = proc[j]
  BY <1>1, <1>3, OneChanges
<1>5. /\ proc'[i].st = proc[i].st /\ proc'[i].active = proc[i].active
      /\ proc'[i].batch = proc[i].batch /\ proc'[i].apply = Idle
      /\ proc'[i].switched /\ proc'[i].term = proc[i].term
      /\ proc'[i].step = proc[i].step /\ proc'[i].code = proc[i].code
  BY <1>2, <1>3, <1>4, Fields
<1>6. /\ UNCHANGED <<ready, sup, stopping, late>> /\ Idle.stage = "idle"
      /\ proc[i].apply.stage = "handover" /\ proc[i].apply.child \in ready
      /\ pointer' = proc[i].apply.child
  BY DEF Switch, ReportedReady, Candidate, Idle
<1>7. PICK c \in ready : c = proc[i].apply.child
  BY <1>6
<1>8. /\ c \in Instances /\ i < c /\ Parent(i, c)
      /\ \A j \in Instances : Parent(j, c) => j = i
  BY <1>6, <1>7 DEF Handovers, Parent
<1>9. failed' = (failed \/ ~ (Alive(c) \/ proc[c].code = 75))
  BY <1>7 DEF Switch, Candidate, HandedOver
<1> HIDE DEF q, r
<1>10. TypeOK' /\ Producing'
  BY <1>4, <1>5, <1>6, <1>7, <1>8, <1>9 DEF TypeOK, Producing, DrainLosesNothing, InStep, Alive
<1>11. \A j, d \in Instances : Parent(j, d)' => Parent(j, d) /\ j # i
  BY <1>4, <1>5, <1>6 DEF Parent
<1>12. Handovers'
  <2>1. \A j \in Instances : proc'[j].st = proc[j].st
    BY <1>4, <1>5
  <2>2. \A j \in Instances :
          proc'[j].apply.stage = "handover" => j # i /\ proc'[j].apply = proc[j].apply
    BY <1>4, <1>5, <1>6
  <2>3. \A j, k, d \in Instances : Parent(j, d)' /\ Parent(k, d)' => j = k
    BY <1>11 DEF Handovers
  <2>4. QED
    BY <1>6, <2>1, <2>2, <2>3, FirstInstance, ZenonT(60) DEF Handovers
<1>13. \A d \in Instances : proc'[d].st = proc[d].st /\ proc'[d].term = proc[d].term
                            /\ proc'[d].code = proc[d].code /\ (proc[d].switched => proc'[d].switched)
  BY <1>4, <1>5
<1>14. Unstopped => Unstopped'
  BY <1>13 DEF Unstopped
<1>15. Exits'
  BY <1>6, <1>9, <1>13, FirstInstance DEF Exits, ContainerOutlivesHandover
<1>16. ASSUME Chain, ~ failed' PROVE Chain'
  <2>1. \A d \in Instances : Awaited(d)' => Awaited(d) /\ d # c
    BY <1>8, <1>11 DEF Awaited, Candidate, Parent
  <2>2. \A d \in Instances \ {i} : InCharge(d) => InCharge(d)'
    BY <1>4, <1>6, <2>1 DEF InCharge, Alive
  <2>3. PICK d \in Instances : i < d /\ c <= d /\ InCharge(d)'
    <3>1. CASE Handed(c)
      <4>1. PICK d \in Instances : c < d /\ InCharge(d)
        BY <1>8, <1>16, <3>1 DEF Chain
      <4>2. i \in Nat /\ c \in Nat /\ d \in Nat
        BY <1>8, FirstInstance
      <4>3. QED
        BY <1>8, <2>2, <4>1, <4>2
    <3>2. CASE ~ Handed(c)
      <4>1. Alive(c) \/ proc[c].code = 75
        BY <1>9, <1>16
      <4>2. i # c
        BY <1>8, FirstInstance
      <4>3. Alive(c) /\ ~ proc[c].switched
        BY <1>8, <3>2, <4>1 DEF Handed
      <4>4. InCharge(c)'
        BY <1>4, <1>6, <1>8, <2>1, <4>2, <4>3 DEF InCharge, Alive
      <4>5. QED
        BY <1>8, <4>4, FirstInstance
    <3>3. QED
      BY <3>1, <3>2
  <2>4. ASSUME NEW h \in Instances, Handed(h)'
        PROVE  \E e \in Instances : h < e /\ InCharge(e)'
    <3>1. CASE h = i
      BY <2>3, <3>1
    <3>2. CASE h # i
      <4>1. PICK e \in Instances : h < e /\ InCharge(e)
        BY <1>4, <1>16, <2>4, <3>2 DEF Chain, Handed
      <4>2. h \in Nat /\ i \in Nat /\ d \in Nat
        BY FirstInstance
      <4>3. QED
        BY <2>2, <2>3, <4>1, <4>2
    <3>3. QED
      BY <3>1, <3>2
  <2>5. QED
    BY <1>6, <1>7, <2>3, <2>4 DEF Chain
<1>17. QED
  BY <1>10, <1>12, <1>14, <1>15, <1>16

\* So does the end of the wait for it.
LEMMA GiveUpStep ==
  ASSUME TypeOK, Producing, Handovers, Exits, NEW i \in Instances, GiveUp(i)
  PROVE  TypeOK' /\ Producing' /\ Handovers' /\ (Chain => Chain') /\ (Unstopped => Unstopped') /\ Exits'
<1> DEFINE q == [proc[i] EXCEPT !.apply = Idle]
<1>1A. PICK c \in Instances : c = proc[i].apply.child
  BY DEF Handovers, GiveUp
<1>1. i < c /\ i # c /\ Parent(i, c) /\ proc[c].st # "none"
  BY <1>1A, FirstInstance DEF Handovers, GiveUp, Parent
<1>2. proc' = [[proc EXCEPT ![i] = q] EXCEPT ![c] = Ended(1)]
  BY <1>1A, Zenon DEF GiveUp, Candidate
<1>3. proc[i] \in Processes /\ proc \in [Instances -> Processes]
  BY DEF TypeOK
<1>4. q \in Processes /\ Ended(1) \in Processes
  BY <1>3, Fields, Ends DEF Processes
<1>5. /\ proc' \in [Instances -> Processes] /\ proc'[i] = q /\ proc'[c] = Ended(1)
      /\ \A j \in Instances : j # i /\ j # c => proc'[j] = proc[j]
  BY <1>1, <1>2, <1>3, <1>4
<1>6. /\ proc'[i].st = proc[i].st /\ proc'[i].active = proc[i].active
      /\ proc'[i].batch = proc[i].batch /\ proc'[i].apply = Idle
      /\ proc'[i].switched = proc[i].switched /\ proc'[i].term = proc[i].term
      /\ proc'[i].step = proc[i].step /\ proc'[i].code = proc[i].code
  BY <1>3, <1>5, Fields
<1> HIDE DEF q
<1>7. /\ proc'[c].st = "gone" /\ proc'[c].apply = Idle /\ proc'[c].code = 1
      /\ ~ proc'[c].active /\ ~ proc'[c].batch /\ ~ proc'[c].switched /\ ~ proc'[c].term
      /\ proc'[c].step = 0
  BY <1>5, Ends
<1>7A. Idle.stage = "idle"
  BY DEF Idle
<1>8. UNCHANGED <<ready, pointer, sup, stopping, failed, late>>
  BY DEF GiveUp
<1>9. TypeOK'
  BY <1>5, <1>8 DEF TypeOK
<1>10. Producing'
  <2>1. ASSUME NEW j \in Instances PROVE InStep(j)'
    <3>1. InStep(j)
      BY DEF Producing
    <3>2. QED
      BY <1>5, <1>6, <1>7, <3>1 DEF InStep, Alive
  <2>2. QED
    BY <1>8, <2>1 DEF Producing, DrainLosesNothing
<1>11. \A j, d \in Instances : Parent(j, d)' => Parent(j, d) /\ j # i
  BY <1>5, <1>6, <1>7, <1>7A DEF Parent
<1>12. Handovers'
  <2>1. \A j \in Instances : proc'[j].st = "none" <=> proc[j].st = "none"
    BY <1>1, <1>5, <1>6, <1>7
  <2>2. \A j \in Instances :
          proc'[j].apply.stage = "handover" => proc'[j].apply = proc[j].apply
    BY <1>5, <1>6, <1>7, <1>7A
  <2>3. \A j, k, d \in Instances : Parent(j, d)' /\ Parent(k, d)' => j = k
    BY <1>11 DEF Handovers
  <2>4. ready' \subseteq {j \in Instances : proc'[j].st \in {"up", "drain", "gone"}}
    BY <1>5, <1>6, <1>7, <1>8 DEF Handovers
  <2>5. \A j \in Instances :
          proc'[j].apply.stage = "handover" =>
            /\ proc'[j].apply.child \in Instances /\ j < proc'[j].apply.child
            /\ proc'[proc'[j].apply.child].st # "none"
    BY <2>1, <2>2 DEF Handovers
  <2>6. proc'[1].st # "none" /\ \A j, k \in Instances : j < k /\ proc'[j].st = "none" => proc'[k].st = "none"
    BY <2>1, FirstInstance DEF Handovers
  <2>7. QED
    BY <2>3, <2>4, <2>5, <2>6, Zenon DEF Handovers
<1>13. Chain => Chain'
  <2>1. \A d \in Instances : Awaited(d)' => Awaited(d)
    BY <1>11 DEF Awaited, Candidate, Parent
  <2>2. ~ InCharge(c)
    BY <1>1 DEF InCharge, Awaited, Candidate, Parent
  <2>3. \A d \in Instances : InCharge(d) => InCharge(d)'
    BY <1>5, <1>6, <1>8, <2>1, <2>2 DEF InCharge, Alive
  <2>4. \A d \in Instances : Handed(d)' => Handed(d)
    BY <1>5, <1>6, <1>7 DEF Handed
  <2>5. QED
    BY <1>8, <2>3, <2>4, ChargeKept
<1>14. Unstopped => Unstopped'
  BY <1>5, <1>6, <1>7 DEF Unstopped
<1>15. Exits'
  <2>1. c # 1
    BY <1>1, LastAssumption DEF Instances
  <2>2. proc'[1].code = proc[1].code
    BY <1>5, <1>6, <2>1, FirstInstance
  <2>3. \A d \in Instances : proc'[d].code # 0 => proc'[d].st = "gone"
    BY <1>5, <1>6, <1>7 DEF Exits
  <2>4. QED
    BY <1>8, <2>2, <2>3 DEF Exits, ContainerOutlivesHandover
<1>16. QED
  BY <1>9, <1>10, <1>12, <1>13, <1>14, <1>15

\* So does the stop of the container.
LEMMA StopStep ==
  ASSUME TypeOK, Producing, Handovers, Exits, Stop
  PROVE  TypeOK' /\ Producing' /\ Handovers' /\ Exits' /\ stopping'
<1> DEFINE r(i) == IF Alive(i) THEN [proc[i] EXCEPT !.term = TRUE] ELSE proc[i]
<1>1. proc' = [i \in Instances |-> r(i)]
  BY DEF Stop
<1>2. ASSUME NEW i \in Instances
      PROVE  /\ r(i) \in Processes
             /\ r(i).st = proc[i].st /\ r(i).active = proc[i].active
             /\ r(i).batch = proc[i].batch /\ r(i).apply = proc[i].apply
             /\ r(i).step = proc[i].step /\ r(i).code = proc[i].code
  <2>1. proc[i] \in Processes
    BY DEF TypeOK
  <2>2. QED
    BY <2>1, Fields DEF Processes
<1> HIDE DEF r
<1>3. /\ proc' \in [Instances -> Processes]
      /\ \A i \in Instances :
           /\ proc'[i].st = proc[i].st /\ proc'[i].active = proc[i].active
           /\ proc'[i].batch = proc[i].batch /\ proc'[i].apply = proc[i].apply
           /\ proc'[i].step = proc[i].step /\ proc'[i].code = proc[i].code
  BY <1>1, <1>2
<1>4. UNCHANGED <<ready, pointer, sup, failed, late>> /\ stopping' = TRUE
  BY DEF Stop
<1>5. TypeOK' /\ Producing'
  BY <1>3, <1>4 DEF TypeOK, Producing, DrainLosesNothing, InStep, Alive
<1>6. \A i, c \in Instances : Parent(i, c)' <=> Parent(i, c)
  BY <1>3 DEF Parent
<1>7. Handovers'
  <2>1. \A i \in Instances : proc'[i].st = "none" <=> proc[i].st = "none"
    BY <1>3
  <2>2. \A i \in Instances :
          proc'[i].apply.stage = "handover" =>
            proc[i].apply.stage = "handover" /\ proc'[i].apply = proc[i].apply
    BY <1>3
  <2>3. ready' \subseteq {i \in Instances : proc'[i].st \in {"up", "drain", "gone"}}
    BY <1>3, <1>4 DEF Handovers
  <2>4. QED
    BY <1>6, <2>1, <2>2, <2>3, FirstInstance DEF Handovers
<1>8. Exits'
  BY <1>3, <1>4 DEF Exits, ContainerOutlivesHandover
<1>9. QED
  BY <1>4, <1>5, <1>7, <1>8

\* The supervisor ends what is left: the container was stopped, an instance
\* crashed, or the first instance has not handed over.
LEMMA FirstEndsStep ==
  ASSUME TypeOK, Producing, Handovers, Exits, ~ stopping => Unstopped, FirstEnds
  PROVE  /\ TypeOK' /\ Producing' /\ Handovers' /\ Exits' /\ UNCHANGED <<stopping, failed>>
         /\ ~ stopping => Unstopped'
         /\ sup' # "exit" /\ Chain => Chain'
<1>1. UNCHANGED <<ready, pointer, stopping, failed, late>> /\ ~ Alive(1)
  BY DEF FirstEnds
<1>2. CASE ~ stopping /\ HandedOver(proc[1].code)
  <2>1. proc' = proc /\ sup' = "supervise"
    BY <1>2, Zenon DEF FirstEnds
  <2>2. \A i, c \in Instances : Parent(i, c)' <=> Parent(i, c)
    BY <2>1 DEF Parent
  <2>3. TypeOK' /\ Producing' /\ Handovers'
    BY <1>1, <2>1 DEF TypeOK, Producing, DrainLosesNothing, InStep, Alive, Handovers, Parent
  <2>4. \A c \in Instances : (InCharge(c) => InCharge(c)') /\ (Handed(c)' => Handed(c))
    BY <1>1, <2>1 DEF InCharge, Awaited, Candidate, Alive, Handed
  <2>5. Chain => Chain'
    BY <1>1, <2>4, ChargeKept
  <2>6. (~ stopping => Unstopped') /\ Exits'
    BY <1>1, <2>1 DEF Unstopped, Exits, ContainerOutlivesHandover
  <2>7. QED
    BY <1>1, <2>3, <2>5, <2>6
<1>3. CASE ~ (~ stopping /\ HandedOver(proc[1].code))
  <2> DEFINE r(i) == IF Alive(i) THEN Ended(1) ELSE proc[i]
  <2>1. proc' = [i \in Instances |-> r(i)] /\ sup' = "exit"
    BY <1>3, Zenon DEF FirstEnds
  <2>2. ASSUME NEW i \in Instances
        PROVE  /\ r(i) \in Processes
               /\ (r(i).st = "none") <=> (proc[i].st = "none")
               /\ r(i).st \in {"none", "gone", proc[i].st}
               /\ ~ r(i).active /\ ~ r(i).batch /\ r(i).apply = Idle /\ r(i).step = 0
               /\ r(i) = Ended(1) \/ (r(i) = proc[i] /\ ~ Alive(i))
    <3>1. proc[i] \in Processes /\ InStep(i)
      BY DEF TypeOK, Producing
    <3>2. CASE Alive(i)
      BY <3>2, Ends DEF Alive
    <3>3. CASE ~ Alive(i)
      BY <3>1, <3>3 DEF Alive, InStep, Processes
    <3>4. QED
      BY <3>2, <3>3
  <2> HIDE DEF r
  <2>3. /\ proc' \in [Instances -> Processes]
        /\ \A i \in Instances :
             /\ (proc'[i].st = "none") <=> (proc[i].st = "none")
             /\ proc'[i].st \in {"none", "gone", proc[i].st}
             /\ ~ proc'[i].active /\ ~ proc'[i].batch /\ proc'[i].apply = Idle
             /\ proc'[i].step = 0
             /\ proc'[i] = Ended(1) \/ (proc'[i] = proc[i] /\ ~ Alive(i))
    BY <2>1, <2>2
  <2>4. TypeOK' /\ Producing'
    BY <1>1, <2>1, <2>3 DEF TypeOK, Producing, DrainLosesNothing, InStep
  <2>5. \A i \in Instances : proc'[i].apply.stage = "idle"
    BY <2>3 DEF Idle
  <2>6. Handovers'
    <3>1. \A i, c \in Instances : ~ Parent(i, c)'
      BY <2>5 DEF Parent
    <3>2. ready' \subseteq {i \in Instances : proc'[i].st \in {"up", "drain", "gone"}}
      BY <1>1, <2>3 DEF Handovers
    <3>3. QED
      BY <2>3, <2>5, <3>1, <3>2, FirstInstance DEF Handovers
  <2>7. ~ stopping => Unstopped'
    BY <2>3, Ends DEF Unstopped, Alive
  <2>8. ~ stopping => proc'[1].code = 1
    <3>1. ~ stopping => proc[1].st = "gone" /\ proc[1].code = 1
      BY <1>1, <1>3, FirstInstance DEF Unstopped, Handovers, HandedOver, TypeOK, Processes, Alive
    <3>2. proc'[1] = Ended(1) \/ proc'[1] = proc[1]
      BY <2>3, FirstInstance
    <3>3. QED
      BY <3>1, <3>2, Ends
  <2>9. Exits'
    BY <1>1, <2>3, <2>8, Ends DEF Exits, ContainerOutlivesHandover
  <2>10. QED
    BY <1>1, <2>1, <2>4, <2>6, <2>7, <2>9
<1>4. QED
  BY <1>2, <1>3

-----------------------------------------------------------------------------
(* The invariant.                                                          *)

\* The invariant holds when the container starts.
LEMMA Initially == Init => IInv
<1> SUFFICES ASSUME Init PROVE IInv
  OBVIOUS
<1>1. \A st, code : /\ Process(st, code).st = st /\ Process(st, code).code = code
                    /\ Process(st, code).apply = Idle /\ Process(st, code).step = 0
                    /\ ~ Process(st, code).active /\ ~ Process(st, code).batch
                    /\ ~ Process(st, code).switched /\ ~ Process(st, code).term
  BY DEF Process
<1>2. Process("boot", 0) \in Processes /\ Absent \in Processes
  BY LastAssumption DEF Process, Absent, Processes, Updates, Idle
<1>3. /\ \A i \in Instances : proc[i] = IF i = 1 THEN Process("boot", 0) ELSE Absent
      /\ proc \in [Instances -> Processes]
  BY <1>2 DEF Init
<1>4. \A i \in Instances :
        /\ proc[i].st = IF i = 1 THEN "boot" ELSE "none"
        /\ proc[i].code = 0 /\ proc[i].apply = Idle /\ proc[i].step = 0
        /\ ~ proc[i].active /\ ~ proc[i].batch /\ ~ proc[i].switched /\ ~ proc[i].term
  BY <1>1, <1>3 DEF Absent
<1>5. ready = {} /\ pointer = 1 /\ sup = "wait" /\ stopping = FALSE /\ failed = FALSE /\ late = {}
  BY DEF Init
<1>6. TypeOK /\ Producing
  <2>1. TypeOK
    BY <1>3, <1>5, FirstInstance DEF TypeOK
  <2>2. ASSUME NEW i \in Instances PROVE InStep(i)
    BY <1>4 DEF InStep
  <2>3. QED
    BY <1>5, <2>1, <2>2 DEF Producing, DrainLosesNothing
<1>7. \A i \in Instances : proc[i].apply.stage = "idle"
  BY <1>4 DEF Idle
<1>8. Handovers
  <2>1. \A i, j \in Instances : i < j => proc[j].st = "none"
    <3>1. \A i, j \in Instances : i < j => j # 1
      BY LastAssumption DEF Instances
    <3>2. QED
      BY <1>4, <3>1
  <2>2. QED
    BY <1>4, <1>5, <1>7, <2>1, FirstInstance DEF Handovers, Parent
<1>9. Chain
  <2>1. InCharge(1)
    BY <1>4, <1>7, FirstInstance DEF InCharge, Awaited, Alive
  <2>2. \A i \in Instances : ~ Handed(i)
    BY <1>4 DEF Handed
  <2>3. QED
    BY <1>5, <2>1, <2>2, FirstInstance DEF Chain
<1>10. Unstopped /\ Exits
  BY <1>4, <1>5 DEF Unstopped, Exits, ContainerOutlivesHandover
<1>11. QED
  BY <1>6, <1>8, <1>9, <1>10 DEF IInv

\* A living instance keeps all of it.
LEMMA Keeps ==
  ASSUME IInv, NEW i \in Instances, Proceeds(i), InStep(i)', late' = {}
  PROVE  IInv'
<1>1. TypeOK' /\ UNCHANGED <<stopping, failed>>
  BY DEF IInv, TypeOK, Proceeds
<1>2. Producing'
  <2>1. ASSUME NEW j \in Instances, j # i PROVE InStep(j)'
    BY <2>1 DEF IInv, Producing, Proceeds, InStep, Alive
  <2>2. QED
    BY <2>1 DEF Producing, DrainLosesNothing
<1>3. Handovers' /\ (Chain => Chain') /\ (Unstopped => Unstopped') /\ Exits'
  BY ProceedsHandovers, ProceedsChain DEF IInv
<1>4. QED
  BY <1>1, <1>2, <1>3 DEF IInv, Proceeds

\* One that leaves keeps all but the chain, which the cases of its end settle.
LEMMA Loses ==
  ASSUME IInv, NEW i \in Instances, NEW code \in {0, 1, 75}, Leaves(i, code),
         InStep(i)', late' = {}, failed' \in BOOLEAN
  PROVE  TypeOK' /\ Producing' /\ Handovers'
<1>1. TypeOK'
  BY DEF IInv, TypeOK, Leaves
<1>2. Producing'
  <2>1. ASSUME NEW j \in Instances, j # i PROVE InStep(j)'
    BY <2>1 DEF IInv, Producing, Leaves, InStep, Alive
  <2>2. QED
    BY <2>1 DEF Producing, DrainLosesNothing
<1>3. QED
  BY <1>1, <1>2, LeavesHandovers DEF IInv

\* A step that touches nothing of it keeps the invariant.
LEMMA Stutters ==
  ASSUME IInv, UNCHANGED <<proc, ready, pointer, sup, stopping, failed, late>>
  PROVE  IInv'
<1>1. TypeOK' /\ Producing' /\ Handovers' /\ Exits'
  BY DEF IInv, TypeOK, Producing, DrainLosesNothing, InStep, Alive, Handovers, Parent, Exits,
         ContainerOutlivesHandover
<1>2. \A c \in Instances : (InCharge(c) => InCharge(c)') /\ (Handed(c)' => Handed(c))
  BY DEF InCharge, Awaited, Candidate, Alive, Handed
<1>3. (Chain => Chain') /\ (Unstopped => Unstopped')
  BY <1>2, ChargeKept DEF Unstopped
<1>4. QED
  BY <1>1, <1>3 DEF IInv

\* Every step keeps the invariant.
LEMMA Inductive == IInv /\ [Next]_vars => IInv'
<1> SUFFICES ASSUME IInv, [Next]_vars PROVE IInv'
  OBVIOUS
<1>1. TypeOK /\ Producing /\ Handovers /\ Exits
  BY DEF IInv
<1>2. ASSUME NEW i \in Instances,
             \/ Serve(i) \/ Accept(i) \/ RequestEnds(i) \/ BatchStarts(i) \/ BatchEnds(i)
             \/ Apply(i) \/ ApplyFails(i) \/ StartDrain(i)
      PROVE  IInv'
  <2>1. Proceeds(i) /\ InStep(i)' /\ late' = {}
    BY <1>1, <1>2, ServeProceeds, AcceptProceeds, RequestEndsProceeds, BatchStartsProceeds,
       BatchEndsProceeds, ApplyProceeds, ApplyFailsProceeds, StartDrainProceeds
  <2>2. QED
    BY <2>1, Keeps
<1>3. ASSUME NEW i \in Instances, NotifyReady(i) PROVE IInv'
  <2>1. TypeOK' /\ Producing'
    BY <1>1, <1>3 DEF NotifyReady, TypeOK, Producing, DrainLosesNothing, InStep, Alive
  <2>2. UNCHANGED <<sup, stopping, failed>>
    BY <1>3 DEF NotifyReady
  <2>3. QED
    BY <1>1, <1>3, <2>1, <2>2, NotifyStep DEF IInv
<1>4. ASSUME NEW i \in Instances, CollectSessions(i) PROVE IInv'
  <2>1. proc[i].step \in 0..7
    BY <1>1 DEF TypeOK, Processes
  <2>2. UNCHANGED <<proc, ready, pointer, sup, stopping, failed, late>>
    BY <1>1, <1>4, <2>1, StepsDone DEF CollectSessions, Given, Producing, DrainLosesNothing
  <2>3. QED
    BY <2>2, Stutters
<1>5. ASSUME NEW i \in Instances, Crash(i) PROVE IInv'
  <2>1. Leaves(i, 1) /\ InStep(i)' /\ late' = {} /\ failed' = (failed \/ InCharge(i))
    BY <1>1, <1>5, CrashLeaves
  <2>2. failed' \in BOOLEAN /\ UNCHANGED <<sup, stopping>>
    BY <1>1, <2>1 DEF TypeOK, Leaves
  <2>3. TypeOK' /\ Producing' /\ Handovers'
    BY <2>1, <2>2, Loses
  <2>4. (Chain /\ ~ InCharge(i) => Chain') /\ (Unstopped => Unstopped') /\ Exits'
    <3>1. 1 \in {0, 1, 75} /\ 1 # 75 /\ 1 # 0
      OBVIOUS
    <3>2. failed => failed'
      BY <2>1, Zenon
    <3>3. /\ Chain /\ ~ InCharge(i) /\ (1 = 75 => proc[i].switched) => Chain'
          /\ Unstopped /\ 1 # 0 => Unstopped'
          /\ Exits'
      BY <1>1, <2>1, <3>1, <3>2, LeavesChain
    <3>4. QED
      BY <3>1, <3>3
  <2>5. QED
    BY <2>1, <2>2, <2>3, <2>4 DEF IInv
<1>6. ASSUME NEW i \in Instances, DrainStep(i) PROVE IInv'
  <2>1. proc[i].step \in 0..7
    BY <1>1 DEF TypeOK, Processes
  <2>2. CASE proc[i].step < 7
    <3>1. Proceeds(i) /\ InStep(i)' /\ late' = {}
      BY <1>1, <1>6, <2>2, DrainProceeds
    <3>2. QED
      BY <3>1, Keeps
  <2>3. CASE proc[i].step = 7
    <3>1. PICK code \in {0, 75} : code = IF proc[i].switched THEN 75 ELSE 0
      OBVIOUS
    <3>2. /\ Leaves(i, code) /\ InStep(i)' /\ late' = {} /\ failed' = failed
          /\ proc[i].st = "drain" /\ (proc[i].switched <=> code = 75)
      BY <1>1, <1>6, <2>3, <3>1, DrainLeaves
    <3>3. failed' \in BOOLEAN /\ UNCHANGED <<sup, stopping>> /\ code \in {0, 1, 75}
      BY <1>1, <3>2 DEF TypeOK, Leaves
    <3>4. TypeOK' /\ Producing' /\ Handovers'
      BY <3>2, <3>3, Loses
    <3>5. /\ Chain /\ ~ InCharge(i) => Chain'
          /\ Unstopped /\ code # 0 => Unstopped'
          /\ Exits'
      BY <1>1, <3>2, <3>3, LeavesChain
    <3>6. ~ stopping => code # 0 /\ ~ InCharge(i) /\ Unstopped
      BY <3>2 DEF IInv, Unstopped, InCharge
    <3>7. QED
      BY <3>2, <3>3, <3>4, <3>5, <3>6 DEF IInv
  <2>4. QED
    BY <2>1, <2>2, <2>3
<1>7. ASSUME NEW i \in Instances, Switch(i) PROVE IInv'
  <2>1. UNCHANGED <<sup, stopping>> /\ (failed => failed')
    BY <1>7 DEF Switch
  <2>2. QED
    BY <1>1, <1>7, <2>1, SwitchStep DEF IInv
<1>8. ASSUME NEW i \in Instances, GiveUp(i) PROVE IInv'
  <2>1. UNCHANGED <<sup, stopping, failed>>
    BY <1>8 DEF GiveUp
  <2>2. QED
    BY <1>1, <1>8, <2>1, GiveUpStep DEF IInv
<1>9. ASSUME NEW i \in Instances, NEW c \in Instances, StartCandidate(i, c) PROVE IInv'
  <2>1. TypeOK' /\ UNCHANGED <<sup, stopping, failed>>
    BY <1>1, <1>9, CandidateStarts DEF TypeOK
  <2>2. QED
    BY <1>1, <1>9, <2>1, CandidateStep DEF IInv
<1>10. CASE Stop
  BY <1>1, <1>10, StopStep DEF IInv
<1>11. CASE FirstEnds
  <2>1. sup # "exit"
    BY <1>11 DEF FirstEnds
  <2>2. QED
    BY <1>1, <1>11, <2>1, FirstEndsStep DEF IInv
<1>12. CASE NoneLeft
  <2>1. UNCHANGED <<proc, ready, pointer, stopping, failed, late>> /\ sup' = "exit" /\ sup # "exit"
    BY <1>12 DEF NoneLeft
  <2>2. TypeOK' /\ Producing' /\ Handovers' /\ (Unstopped => Unstopped')
    BY <1>1, <2>1 DEF TypeOK, Producing, DrainLosesNothing, InStep, Alive, Handovers, Parent, Unstopped
  <2>3. ~ Chain
    BY <1>12 DEF NoneLeft, Chain, InCharge
  <2>4. Exits'
    BY <1>1, <2>1, <2>3 DEF IInv, Exits, ContainerOutlivesHandover
  <2>5. QED
    BY <2>1, <2>2, <2>4 DEF IInv
<1>13. CASE UNCHANGED vars
  BY <1>13, Stutters DEF vars
<1>14. QED
  BY <1>2, <1>3, <1>4, <1>5, <1>6, <1>7, <1>8, <1>9, <1>10, <1>11, <1>12, <1>13 DEF Next

\* It holds always.
LEMMA Always == Spec => []IInv
BY Initially, Inductive, PTL DEF Spec

(* What requests, batches and the collector still produce during a drain    *)
(* reaches ledger, pool and mirror: nothing comes after their Close.        *)
THEOREM Drains == Spec => []DrainLosesNothing
<1>1. IInv => DrainLosesNothing
  BY DEF IInv, Producing
<1>2. QED
  BY <1>1, Always, PTL

(* However updates succeed, fail or overlap, whichever candidates die       *)
(* before a switch to them and whichever instances die while they drain,    *)
(* some process accepts on the socket that runs the binary the pointer      *)
(* names or a later one: the last in charge of the chain of handovers.      *)
THEOREM Serves == Spec => []ServedThroughout
<1>1. IInv => ServedThroughout
  <2>1. SUFFICES ASSUME IInv, ~ stopping, ~ failed, sup # "exit", proc[1].st # "boot"
                 PROVE  \E i \in Instances : i >= pointer /\ Accepting(i)
    BY DEF ServedThroughout
  <2>2. TypeOK /\ Producing /\ Handovers /\ Chain /\ Unstopped
    BY <2>1 DEF IInv
  <2>3. PICK i \in Instances : pointer <= i /\ InCharge(i)
    BY <2>2 DEF Chain
  <2>4. proc[i].st # "boot"
    BY <2>1, <2>2, <2>3 DEF InCharge, Handovers
  <2>5. proc[i].st = "up"
    BY <2>2, <2>3, <2>4 DEF InCharge, Alive, Unstopped
  <2>6. proc[i].step = 0
    BY <2>2, <2>5 DEF Producing, InStep, TypeOK, Processes
  <2>7. Accepting(i)
    BY <2>5, <2>6, StepsDone DEF Accepting
  <2>8. i \in Nat /\ pointer \in Nat
    BY <2>2, FirstInstance DEF TypeOK
  <2>9. QED
    BY <2>3, <2>7, <2>8
<1>2. QED
  BY <1>1, Always, PTL

(* The supervisor never takes the first instance's exit after a handover    *)
(* for the end of the service.                                              *)
THEOREM Outlives == Spec => []ContainerOutlivesHandover
<1>1. IInv => ContainerOutlivesHandover
  BY DEF IInv, Exits
<1>2. QED
  BY <1>1, Always, PTL
=============================================================================
