---------------------------- MODULE MirrorQueue ----------------------------
(***************************************************************************)
(* What the Redis mirror promises to the session router (the header of     *)
(* internal/redisstore/redisstore.go and the comments of Upstash): the     *)
(* writes of one key take effect one after another in the order they were  *)
(* submitted; one may fail, and a crash or a Close that times out may lose *)
(* the writes not yet made, but none overtakes another, and nothing is     *)
(* accepted once the store is closing.                                     *)
(***************************************************************************)
EXTENDS Sequences

CONSTANTS Keys, Uids, None

VARIABLES
  queue,   \* key -> the writes accepted and not yet made, oldest first
  remote,  \* key -> the value Redis holds, None when it holds none
  open     \* whether writes are accepted

Values == Uids \cup {None}

Init ==
  /\ queue = [k \in Keys |-> <<>>]
  /\ remote = [k \in Keys |-> None]
  /\ open = TRUE

Accept(k, v) ==
  /\ open
  /\ queue' = [queue EXCEPT ![k] = Append(@, v)]
  /\ UNCHANGED <<remote, open>>

\* The oldest write of k is carried out, or fails.
Make(k) ==
  /\ queue[k] # <<>>
  /\ queue' = [queue EXCEPT ![k] = Tail(@)]
  /\ \/ remote' = [remote EXCEPT ![k] = Head(queue[k])]
     \/ UNCHANGED remote
  /\ UNCHANGED open

\* Keys run out of time in Redis.
Expire(lapsed) ==
  /\ remote' = [k \in Keys |-> IF k \in lapsed THEN None ELSE remote[k]]
  /\ UNCHANGED <<queue, open>>

Close == open /\ open' = FALSE /\ UNCHANGED <<queue, remote>>

\* The process ends, cleanly or not, and another one starts.
Restart ==
  /\ queue' = [k \in Keys |-> <<>>]
  /\ open' = TRUE
  /\ UNCHANGED remote

Next ==
  \/ \E k \in Keys, v \in Values : Accept(k, v)
  \/ \E k \in Keys : Make(k)
  \/ \E lapsed \in SUBSET Keys : Expire(lapsed)
  \/ Close
  \/ Restart

Spec == Init /\ [][Next]_<<queue, remote, open>>
=============================================================================
