----------------------------- MODULE HotUpdate -----------------------------
(***************************************************************************)
(* One container through hot updates: the supervisor that is its PID 1     *)
(* (docker-entrypoint.sh), the server processes, the update that starts a  *)
(* new one on the same listening socket (internal/hotupdate), and the      *)
(* drain of the old one (cmd/server: main.go, shutdown.go).                *)
(*                                                                         *)
(* Instance i runs binary i; instance 1 is started by the supervisor, each *)
(* other by a handover.  A process has at most one request and one         *)
(* scheduler batch at a time.  What they produce goes to three services,   *)
(* the usage ledger, the account pool and the store of the Redis mirror,   *)
(* each of which drops what it is given after its Close.                   *)
(* A definition named Faulty... precedes the one it is a mistake in.       *)
(***************************************************************************)
EXTENDS Naturals, Sequences, FiniteSets

CONSTANTS
  Last   \* bound: the last instance

ASSUME LastAssumption == Last \in Nat \ {0}

VARIABLES
  proc,     \* instance -> its process
  ready,    \* the instances that have written to their ready pipe
  pointer,  \* the binary "current" names
  sup,      \* the supervisor: "wait", "supervise" or "exit"
  stopping, \* the container was told to stop
  failed,   \* history: one in charge has crashed, or was never there when switched to
  late      \* history: services that were given something after their Close

vars == <<proc, ready, pointer, sup, stopping, failed, late>>

Instances == 1..Last
Idle == [stage |-> "idle", child |-> 0]

\* A process that does nothing.
Process(st, code) ==
  [st |-> st, active |-> FALSE, batch |-> FALSE, apply |-> Idle,
   switched |-> FALSE, term |-> FALSE, step |-> 0, code |-> code]

Absent == Process("none", 0)

Init ==
  /\ proc = [i \in Instances |-> IF i = 1 THEN Process("boot", 0) ELSE Absent]
  /\ ready = {} /\ pointer = 1
  /\ sup = "wait" /\ stopping = FALSE /\ failed = FALSE
  /\ late = {}

\* Services are closed before the last requests have ended.
FaultyDrainOrder == <<"background", "listeners", "usage", "pool", "connections", "batch", "sessions", "store">>

\* drainRuntime
DrainOrder == <<"background", "listeners", "connections", "batch", "sessions", "usage", "pool", "store">>

\* Instance i has done this step of its drain.
Done(i, what) == \E n \in 1..proc[i].step : DrainOrder[n] = what

Alive(i) == proc[i].st \in {"boot", "up", "drain"}
Accepting(i) == proc[i].st \in {"up", "drain"} /\ ~ Done(i, "listeners")

Candidate(i) == proc[i].apply.child
Awaited(c) == \E i \in Instances : proc[i].apply.stage = "handover" /\ Candidate(i) = c

\* The service depends on instance i: it is ready, nobody waits for it to
\* be, and it has not handed over.
InCharge(i) == Alive(i) /\ (i = 1 \/ i \in ready) /\ ~ Awaited(i) /\ ~ proc[i].switched

\* What a producer of instance i gives to closed services.
Given(i, services) == late' = late \cup {s \in services : Done(i, s)}

\* A process ends: its requests, batch and update go with it.
Ended(code) == Process("gone", code)
-----------------------------------------------------------------------------
\* main: the accept loop starts, then the parent is told.
Serve(i) ==
  /\ proc[i].st = "boot"
  /\ proc' = [proc EXCEPT ![i].st = "up"]
  /\ UNCHANGED <<ready, pointer, sup, stopping, failed, late>>

NotifyReady(i) ==
  /\ proc[i].st \in {"up", "drain"} /\ i \notin ready
  /\ ready' = ready \cup {i}
  /\ UNCHANGED <<proc, pointer, sup, stopping, failed, late>>

\* An instance fails at start or later.
Crash(i) ==
  /\ Alive(i)
  /\ proc' = [proc EXCEPT ![i] = Ended(1)]
  /\ failed' = (failed \/ InCharge(i))
  /\ UNCHANGED <<ready, pointer, sup, stopping, late>>

Accept(i) ==
  /\ Accepting(i) /\ ~ proc[i].active
  /\ proc' = [proc EXCEPT ![i].active = TRUE]
  /\ UNCHANGED <<ready, pointer, sup, stopping, failed, late>>

\* The request ends: usage, account state and binding are noted.
RequestEnds(i) ==
  /\ proc[i].active
  /\ proc' = [proc EXCEPT ![i].active = FALSE]
  /\ Given(i, {"usage", "pool", "store"})
  /\ UNCHANGED <<ready, pointer, sup, stopping, failed>>

BatchStarts(i) ==
  /\ proc[i].st \in {"up", "drain"} /\ ~ proc[i].batch /\ ~ Done(i, "background")
  /\ proc' = [proc EXCEPT ![i].batch = TRUE]
  /\ UNCHANGED <<ready, pointer, sup, stopping, failed, late>>

BatchEnds(i) ==
  /\ proc[i].batch
  /\ proc' = [proc EXCEPT ![i].batch = FALSE]
  /\ Given(i, {"pool", "store"})
  /\ UNCHANGED <<ready, pointer, sup, stopping, failed>>

\* The session router's collector deletes expired bindings in the mirror.
CollectSessions(i) ==
  /\ proc[i].st \in {"up", "drain"} /\ ~ Done(i, "sessions")
  /\ Given(i, {"store"})
  /\ UNCHANGED <<proc, ready, pointer, sup, stopping, failed>>
-----------------------------------------------------------------------------
\* Manager.Apply, called by a request on the management socket: one at a
\* time; it checks the release and downloads it.
Apply(i) ==
  /\ proc[i].active /\ proc[i].apply = Idle
  /\ proc' = [proc EXCEPT ![i].apply.stage = "download"]
  /\ UNCHANGED <<ready, pointer, sup, stopping, failed, late>>

\* No release, or one that is missing or damaged.
ApplyFails(i) ==
  /\ proc[i].apply.stage = "download"
  /\ proc' = [proc EXCEPT ![i].apply = Idle]
  /\ UNCHANGED <<ready, pointer, sup, stopping, failed, late>>

\* handover: a listener that is closed cannot be duplicated.
StartCandidate(i, c) ==
  /\ proc[i].apply.stage = "download" /\ ~ Done(i, "listeners")
  /\ proc[c].st = "none" /\ \A d \in 1..(c - 1) : proc[d].st # "none"
  /\ proc' = [proc EXCEPT ![i].apply = [stage |-> "handover", child |-> c], ![c].st = "boot"]
  /\ UNCHANGED <<ready, pointer, sup, stopping, failed, late>>

\* A handover is taken for the end of the service.
FaultyHandedOver(code) == FALSE

HandedOver(code) == code = 75

\* The candidate counts as ready once it runs.
FaultyReportedReady(c) == Alive(c)

ReportedReady(c) == c \in ready

\* The candidate is ready and the pointer written: OnSwitched.  Nothing
\* looks whether a candidate that said so is still there.
Switch(i) ==
  /\ proc[i].apply.stage = "handover" /\ ReportedReady(Candidate(i))
  /\ pointer' = Candidate(i)
  /\ proc' = [proc EXCEPT ![i].apply = Idle, ![i].switched = TRUE]
  /\ failed' = (failed \/ ~ (Alive(Candidate(i)) \/ HandedOver(proc[Candidate(i)].code)))
  /\ UNCHANGED <<ready, sup, stopping, late>>

\* The candidate died or is late, or the pointer cannot be written: it is
\* killed and this instance goes on.
GiveUp(i) ==
  /\ proc[i].apply.stage = "handover"
  /\ proc' = [proc EXCEPT ![i].apply = Idle, ![Candidate(i)] = Ended(1)]
  /\ UNCHANGED <<ready, pointer, sup, stopping, failed, late>>

\* main leaves its wait for a signal or for OnSwitched.
StartDrain(i) ==
  /\ proc[i].st = "up" /\ (proc[i].switched \/ proc[i].term)
  /\ proc' = [proc EXCEPT ![i].st = "drain"]
  /\ UNCHANGED <<ready, pointer, sup, stopping, failed, late>>

\* The next step of drainRuntime; closing the pool saves it, which writes
\* to the store.  The exit code tells a handover from a stop.
DrainStep(i) ==
  /\ proc[i].st = "drain"
  /\ LET next == proc[i].step + 1
         what == DrainOrder[next]
     IN
     /\ what = "connections" => ~ proc[i].active
     /\ what = "batch" => ~ proc[i].batch
     /\ IF what = "pool" THEN Given(i, {"store"}) ELSE UNCHANGED late
     /\ proc' = [proc EXCEPT ![i] =
          IF next < Len(DrainOrder) THEN [@ EXCEPT !.step = next]
          ELSE Ended(IF proc[i].switched THEN 75 ELSE 0)]
  /\ UNCHANGED <<ready, pointer, sup, stopping, failed>>
-----------------------------------------------------------------------------
\* The container is stopped: every process there is gets the signal.
Stop ==
  /\ ~ stopping /\ sup # "exit"
  /\ stopping' = TRUE
  /\ proc' = [i \in Instances |-> IF Alive(i) THEN [proc[i] EXCEPT !.term = TRUE] ELSE proc[i]]
  /\ UNCHANGED <<ready, pointer, sup, failed, late>>

\* The supervisor's wait for the first instance returns.
FirstEnds ==
  /\ sup = "wait" /\ ~ Alive(1)
  /\ stopping => \A i \in Instances : ~ Alive(i)
  /\ IF ~ stopping /\ HandedOver(proc[1].code)
     THEN sup' = "supervise" /\ UNCHANGED proc
     ELSE /\ sup' = "exit"
          /\ proc' = [i \in Instances |-> IF Alive(i) THEN Ended(1) ELSE proc[i]]
  /\ UNCHANGED <<ready, pointer, stopping, failed, late>>

\* After a handover it waits until no process is left.
NoneLeft ==
  /\ sup = "supervise" /\ \A i \in Instances : ~ Alive(i)
  /\ sup' = "exit"
  /\ UNCHANGED <<proc, ready, pointer, stopping, failed, late>>

Next ==
  \/ \E i \in Instances :
       \/ Serve(i) \/ NotifyReady(i) \/ Crash(i) \/ Accept(i) \/ RequestEnds(i)
       \/ BatchStarts(i) \/ BatchEnds(i) \/ CollectSessions(i)
       \/ Apply(i) \/ ApplyFails(i) \/ Switch(i) \/ GiveUp(i) \/ StartDrain(i) \/ DrainStep(i)
       \/ \E c \in Instances : StartCandidate(i, c)
  \/ Stop \/ FirstEnds \/ NoneLeft

Spec == Init /\ [][Next]_vars
-----------------------------------------------------------------------------
(* Updates never leave the socket without a process that accepts on it and *)
(* runs the binary "current" names or one started later, whether they       *)
(* succeed, fail or overlap, and whatever becomes of candidates that nobody *)
(* has switched to and of instances that drain; until the container ends,   *)
(* an instance in charge crashes, or a switch is made to a candidate that   *)
(* reported itself ready and has died since.                                *)
ServedThroughout ==
  ~ stopping /\ ~ failed /\ sup # "exit" /\ proc[1].st # "boot" =>
    \E i \in Instances : i >= pointer /\ Accepting(i)

(* What requests, batches and the collector still produce during a drain    *)
(* reaches ledger, pool and mirror before they close.                       *)
DrainLosesNothing == late = {}

(* The container ends when it is told to, when the first instance crashes   *)
(* or the service fails, never because the first left after a handover.     *)
ContainerOutlivesHandover ==
  sup = "exit" => stopping \/ failed \/ proc[1].code = 1
=============================================================================
