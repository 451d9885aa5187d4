---------------------------- MODULE MCSchedulerTasks ----------------------------
(* A day of two hours: check-in and activity in one, travel and the        *)
(* scripts in the other; the activity task runs in both.                   *)
EXTENDS SchedulerTasks

MCHours == [k \in Kinds |-> CASE k = "checkin" -> {1}
                              [] k = "activity" -> {0, 1}
                              [] OTHER -> {0}]
=============================================================================
