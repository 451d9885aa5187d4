------------------------ MODULE StickySession_proofs ------------------------
(***************************************************************************)
(* The sticky-session router, for any keys, accounts, requests and         *)
(* bounds: what the mirror was told last is the binding, and the requests  *)
(* of one session that resolve together hold one account.                  *)
(***************************************************************************)
EXTENDS StickySession, SequenceTheorems, TLAPS

Stages == {"idle", "fast", "touch", "mirror", "slow", "held", "set", "last"}

Requests == [pc : Stages, key : Keys \cup {None}, snap : SUBSET Uids, uid : Values]

Entries == [uid : Values, age : Nat]

TypeOK ==
  /\ entries \in [Keys -> Entries]
  /\ avail \subseteq Uids
  /\ req \in [Reqs -> Requests]
  /\ \A r \in Reqs : req[r].pc # "idle" => req[r].key \in Keys
  /\ \A r \in Reqs : req[r].pc \in {"touch", "mirror", "set"} => req[r].uid # None
  /\ gcDue \subseteq Keys
  /\ sent \in [Keys -> Values]
  /\ doubt \in [Keys -> {"none", "race", "orphan", "lost"}]
  /\ calm \in [Keys -> BOOLEAN]
  /\ queue \in [Keys -> Seq(Values)]
  /\ remote \in [Keys -> Values]
\* The request's write to the mirror is due.
Due(r, k) == req[r].key = k /\ req[r].pc \in {"set", "mirror", "last"}

\* A change without doubt is submitted, or has one write due, that of the binding.
Told ==
  \A k \in Keys : doubt[k] = "none" =>
    /\ ~ Pending(k) => sent[k] = entries[k].uid
    /\ k \in gcDue => entries[k].uid = None /\ \A r \in Reqs : ~ Due(r, k)
    /\ \A r \in Reqs : Due(r, k) =>
         req[r].uid = entries[k].uid /\ \A s \in Reqs \ {r} : ~ Due(s, k)

Holding(r) == req[r].pc \in {"touch", "set", "mirror", "held"} /\ req[r].uid # None

\* Without interference, what a request of the session holds is its binding,
\* and every request of it has seen the accounts that are available now.
Seeing(r, k) ==
  req[r].pc # "idle" /\ req[r].key = k /\ calm[k] =>
    /\ req[r].pc \in {"fast", "slow"} => req[r].snap = avail
    /\ Holding(r) => Live(k) /\ entries[k].uid = req[r].uid /\ req[r].uid \in avail

Together == \A r \in Reqs : \A k \in Keys : Seeing(r, k)

IInv == TypeOK /\ Told /\ Together

\* The last write that waits is the one submitted last; one that was made and
\* is still there is what Redis holds.
MirroredKey(k) ==
  /\ queue[k] # <<>> => queue[k][Len(queue[k])] = sent[k] /\ ~ made[k]
  /\ made[k] => remote[k] = sent[k]

Mirrored == made \in [Keys -> BOOLEAN] /\ \A k \in Keys : MirroredKey(k)

-----------------------------------------------------------------------------
(* What the steps change.                                                  *)

\* Request r is in another place, the others are where they were.
LEMMA Standing ==
  ASSUME TypeOK, NEW r \in Reqs, NEW pc \in Stages, NEW u \in Values, Goes(r, pc, u),
         pc # "idle" => req[r].pc # "idle"
  PROVE  /\ req' \in [Reqs -> Requests]
         /\ \A s \in Reqs : req'[s].pc # "idle" => req'[s].key \in Keys
         /\ req'[r] = [pc |-> pc, key |-> req[r].key, snap |-> {}, uid |-> u]
         /\ req'[r].pc = pc /\ req'[r].key = req[r].key /\ req'[r].uid = u
         /\ \A s \in Reqs \ {r} : req'[s] = req[s]
<1> DEFINE q == [pc |-> pc, key |-> req[r].key, snap |-> {}, uid |-> u]
<1>1. req[r].key \in Keys \cup {None}
  BY DEF TypeOK, Requests
<1>2. q \in Requests
  BY <1>1 DEF Requests
<1>3. q.pc = pc /\ q.key = req[r].key /\ q.uid = u
  OBVIOUS
<1>4. req' = [req EXCEPT ![r] = q]
  BY Zenon DEF Goes
<1> HIDE DEF q
<1>5. req' \in [Reqs -> Requests]
      /\ req'[r] = q /\ \A s \in Reqs \ {r} : req'[s] = req[s]
  BY <1>2, <1>4 DEF TypeOK
<1>6. \A s \in Reqs : req'[s].pc # "idle" => req'[s].key \in Keys
  BY <1>3, <1>5 DEF TypeOK
<1>7. QED
  BY <1>3, <1>5, <1>6 DEF q

\* The request's stage alone changes.
LEMMA Staged ==
  ASSUME TypeOK, NEW r \in Reqs, NEW pc \in Stages, req[r].pc # "idle",
         req' = [req EXCEPT ![r].pc = pc]
  PROVE  /\ req' \in [Reqs -> Requests]
         /\ \A s \in Reqs : req'[s].pc # "idle" => req'[s].key \in Keys
         /\ req'[r].pc = pc /\ req'[r].key = req[r].key /\ req'[r].uid = req[r].uid
         /\ req'[r].snap = req[r].snap
         /\ \A s \in Reqs \ {r} : req'[s] = req[s]
<1> DEFINE q == [req[r] EXCEPT !.pc = pc]
<1>1. req[r] \in Requests
  BY DEF TypeOK
<1>2. /\ q \in Requests
      /\ q.pc = pc /\ q.key = req[r].key /\ q.uid = req[r].uid /\ q.snap = req[r].snap
  BY <1>1 DEF Requests
<1>3. req' = [req EXCEPT ![r] = q]
  BY Zenon
<1> HIDE DEF q
<1>4. req' \in [Reqs -> Requests]
      /\ req'[r] = q /\ \A s \in Reqs \ {r} : req'[s] = req[s]
  BY <1>2, <1>3 DEF TypeOK
<1>5. \A s \in Reqs : req'[s].pc # "idle" => req'[s].key \in Keys
  BY <1>2, <1>4 DEF TypeOK
<1>6. QED
  BY <1>2, <1>4, <1>5

\* The request is over.
LEMMA Resting ==
  ASSUME TypeOK, NEW r \in Reqs, req' = [req EXCEPT ![r] = Rest]
  PROVE  /\ req' \in [Reqs -> Requests]
         /\ \A s \in Reqs : req'[s].pc # "idle" => req'[s].key \in Keys
         /\ req'[r].pc = "idle"
         /\ \A s \in Reqs \ {r} : req'[s] = req[s]
<1>1. Rest \in Requests
      /\ Rest.pc = "idle"
  BY DEF Rest, Stages, Values, Requests
<1>2. QED
  BY <1>1 DEF TypeOK

\* A write submitted is the last one of its key and of no other.
LEMMA Submitting ==
  ASSUME TypeOK, NEW k \in Keys, NEW v \in Values, Submit(k, v)
  PROVE  /\ queue' \in [Keys -> Seq(Values)] /\ remote' = remote
         /\ sent' \in [Keys -> Values] /\ sent'[k] = v
         /\ \A j \in Keys \ {k} : sent'[j] = sent[j]
<1>1. queue' = [queue EXCEPT ![k] = Append(queue[k], v)] /\ remote' = remote
  BY Zenon DEF Submit, Mirror!Accept
<1>2. Append(queue[k], v) \in Seq(Values)
  BY DEF TypeOK
<1>3. queue' \in [Keys -> Seq(Values)]
  BY <1>1, <1>2 DEF TypeOK
<1>4. QED
  BY <1>1, <1>3 DEF Submit, TypeOK

\* What is marked when the mirror may lag behind.
LEMMA Marking ==
  ASSUME TypeOK, NEW k \in Keys
  PROVE  /\ Marked(k) \in [Keys -> {"none", "race", "orphan", "lost"}]
         /\ Marked(k)[k] = "none" <=> ~ Pending(k)
         /\ \A j \in Keys \ {k} : Marked(k)[j] = doubt[j]
BY DEF Marked, TypeOK

\* A change of one entry leaves the others alone.
LEMMA Entry ==
  ASSUME TypeOK, NEW k \in Keys, NEW e \in Entries,
         entries' = [entries EXCEPT ![k] = e]
  PROVE  /\ entries' \in [Keys -> Entries]
         /\ entries'[k] = e /\ \A j \in Keys \ {k} : entries'[j] = entries[j]
BY DEF TypeOK

\* Values of the bindings.
LEMMA Bindings ==
  /\ Absent \in Entries /\ Absent.uid = None
  /\ \A u \in Values : /\ Fresh(u) \in Entries
                       /\ Fresh(u).uid = u /\ Fresh(u).age = 0
  /\ None \in Values /\ Uids \subseteq Values /\ None \notin Uids /\ TTL \in Nat
BY NamesAssumption, BoundAssumption DEF Absent, Fresh, Values, Entries

-----------------------------------------------------------------------------
(* What the mirror was told.                                               *)

\* A key is pending when somebody still owes it to the mirror.
LEMMA Dues ==
  ASSUME NEW k \in Keys
  PROVE  Pending(k) <=> k \in gcDue \/ \E r \in Reqs : Due(r, k)
BY DEF Pending, Due

\* Nothing is due or submitted that was not.
LEMMA ToldSame ==
  ASSUME TypeOK, Told, gcDue' = gcDue, sent' = sent,
         \A k \in Keys : doubt'[k] = "none" =>
            doubt[k] = "none" /\ entries'[k].uid = entries[k].uid,
         \A r \in Reqs : \A k \in Keys :
            (Due(r, k)' <=> Due(r, k)) /\ (Due(r, k) => req'[r].uid = req[r].uid)
  PROVE  Told'
<1>1. ASSUME NEW k \in Keys PROVE Pending(k)' <=> Pending(k)
  <2>1. Pending(k)' <=> k \in gcDue' \/ \E r \in Reqs : Due(r, k)'
    BY DEF Pending, Due
  <2>2. QED
    BY <2>1, Dues
<1>2. QED
  BY <1>1 DEF Told

\* The binding of k changes, and r will tell.
LEMMA ToldChange ==
  ASSUME TypeOK, Told, NEW r \in Reqs, NEW k \in Keys, NEW u \in Values,
         gcDue' = gcDue, doubt' = Marked(k),
         \A j \in Keys \ {k} : sent'[j] = sent[j] /\ entries'[j].uid = entries[j].uid,
         entries'[k].uid = u,
         req[r].key = k, req[r].pc \notin {"set", "mirror", "last"},
         req'[r].key = k, req'[r].pc \in {"set", "mirror", "last"}, req'[r].uid = u,
         \A s \in Reqs \ {r} : req'[s] = req[s]
  PROVE  Told'
<1>1. \A s \in Reqs : \A j \in Keys : s # r => (Due(s, j)' <=> Due(s, j))
  BY DEF Due
<1>2. \A j \in Keys : (Due(r, j)' <=> j = k) /\ ~ Due(r, j)
  BY DEF Due
<1>3. ASSUME NEW j \in Keys
      PROVE  Pending(j)' <=> j \in gcDue' \/ \E s \in Reqs : Due(s, j)'
  BY DEF Pending, Due
<1>4. ASSUME NEW j \in Keys, j # k, doubt'[j] = "none"
      PROVE  /\ ~ Pending(j)' => sent'[j] = entries'[j].uid
             /\ j \in gcDue' => entries'[j].uid = None /\ \A s \in Reqs : ~ Due(s, j)'
             /\ \A s \in Reqs : Due(s, j)' =>
                  req'[s].uid = entries'[j].uid /\ \A t \in Reqs \ {s} : ~ Due(t, j)'
  <2>1. doubt[j] = "none"
    BY <1>4, Marking
  <2>2. Pending(j)' <=> Pending(j)
    BY <1>1, <1>2, <1>3, <1>4, Dues
  <2>3. QED
    BY <1>1, <1>2, <1>4, <2>1, <2>2 DEF Told
<1>5. ASSUME doubt'[k] = "none"
      PROVE  /\ ~ Pending(k)' => sent'[k] = entries'[k].uid
             /\ k \in gcDue' => entries'[k].uid = None /\ \A s \in Reqs : ~ Due(s, k)'
             /\ \A s \in Reqs : Due(s, k)' =>
                  req'[s].uid = entries'[k].uid /\ \A t \in Reqs \ {s} : ~ Due(t, k)'
  <2>1. ~ Pending(k)
    BY <1>5, Marking
  <2>2. k \notin gcDue /\ \A s \in Reqs : ~ Due(s, k)
    BY <2>1, Dues
  <2>3. Pending(k)'
    BY <1>2, <1>3
  <2>4. QED
    BY <1>1, <1>2, <2>2, <2>3
<1>6. QED
  BY <1>4, <1>5 DEF Told

\* What was due of request r is submitted.
LEMMA ToldWrite ==
  ASSUME TypeOK, Told, NEW r \in Reqs, NEW k \in Keys, Due(r, k), Submit(k, req[r].uid),
         gcDue' = gcDue, doubt' = doubt, entries' = entries,
         req'[r].pc \notin {"set", "mirror", "last"},
         \A s \in Reqs \ {r} : req'[s] = req[s]
  PROVE  Told'
<1>1. \A s \in Reqs : \A j \in Keys : Due(s, j)' <=> s # r /\ Due(s, j)
  BY DEF Due
<1>2. req[r].uid \in Values
  BY DEF TypeOK, Requests
<1>3. sent'[k] = req[r].uid /\ \A j \in Keys \ {k} : sent'[j] = sent[j]
  BY <1>2, Submitting
<1>4. ASSUME NEW j \in Keys
      PROVE  Pending(j)' <=> j \in gcDue' \/ \E s \in Reqs : Due(s, j)'
  BY DEF Pending, Due
<1>5. \A j \in Keys : j # k => ~ Due(r, j)
  BY DEF Due
<1>6. ASSUME NEW j \in Keys, j # k PROVE Pending(j)' <=> Pending(j)
  BY <1>1, <1>4, <1>5, <1>6, Dues
<1>7. QED
  BY <1>1, <1>3, <1>6 DEF Told

-----------------------------------------------------------------------------
(* The requests of a session.                                              *)

\* The binding of k serves a request that is resolving, whoever asks.
Serving(k) == Live(k) /\ entries[k].uid \in avail

\* A step of one request keeps the calm requests of a session together.
LEMMA TogetherStep ==
  ASSUME TypeOK, Together, NEW r \in Reqs, avail' = avail,
         \A s \in Reqs \ {r} : req'[s] = req[s],
         \A k \in Keys : calm'[k] => calm[k],
         \A k \in Keys : calm'[k] /\ Serving(k) =>
            entries'[k].uid = entries[k].uid /\ Live(k)',
         \A k \in Keys : Seeing(r, k)'
  PROVE  Together'
<1>1. ASSUME NEW s \in Reqs, s # r, NEW k \in Keys
      PROVE  Seeing(s, k)'
  <2>1. req'[s] = req[s] /\ Seeing(s, k)
    BY <1>1 DEF Together
  <2>2. Holding(s)' <=> Holding(s)
    BY <2>1 DEF Holding
  <2>3. QED
    BY <2>1, <2>2 DEF Seeing, Serving
<1>2. QED
  BY <1>1 DEF Together

-----------------------------------------------------------------------------
(* The steps of a request.                                                 *)

\* A request that begins keeps the invariant.
LEMMA BeginStep ==
  ASSUME IInv, NEW r \in Reqs, NEW k \in Keys, Begin(r, k)
  PROVE  IInv'
<1> DEFINE q == [pc |-> "fast", key |-> k, snap |-> avail, uid |-> None]
<1>1. TypeOK /\ Told /\ Together
  BY DEF IInv
<1>2. q \in Requests
  BY <1>1, Bindings DEF TypeOK, Stages, Requests
<1>3. /\ q.pc = "fast" /\ q.key = k /\ q.snap = avail /\ q.uid = None
  OBVIOUS
<1>4. req' = [req EXCEPT ![r] = q] /\ req[r].pc = "idle"
  BY DEF Begin
<1> HIDE DEF q
<1>5. /\ req' \in [Reqs -> Requests]
      /\ req'[r] = q /\ \A s \in Reqs \ {r} : req'[s] = req[s]
  BY <1>1, <1>2, <1>4 DEF TypeOK
<1>6. /\ UNCHANGED <<queue, remote, open, entries, mu, avail, gcDue, sent, doubt>>
      /\ calm' = [calm EXCEPT ![k] = calm[k] \/ \A other \in Reqs : req[other].key # k]
  BY DEF Begin, redis, session, history, told
<1>7. TypeOK'
  BY <1>1, <1>3, <1>5, <1>6 DEF TypeOK
<1>8. Told'
  BY <1>1, <1>3, <1>4, <1>5, <1>6, ToldSame DEF Due
<1>9. Together'
  <2>1. /\ calm'[k] <=> calm[k] \/ \A other \in Reqs : req[other].key # k
        /\ \A j \in Keys \ {k} : calm'[j] = calm[j]
    BY <1>1, <1>6 DEF TypeOK
  <2>2. ASSUME NEW s \in Reqs, s # r, NEW j \in Keys PROVE Seeing(s, j)'
    <3>1. Seeing(s, j) /\ req'[s] = req[s]
      BY <1>1, <1>5, <2>2 DEF Together
    <3>2. req[s].key = j /\ calm'[j] => calm[j]
      BY <2>1
    <3>3. Holding(s)' <=> Holding(s)
      BY <3>1 DEF Holding
    <3>4. Live(j)' <=> Live(j)
      BY <1>6 DEF Live
    <3>5. QED
      BY <1>6, <3>1, <3>2, <3>3, <3>4 DEF Seeing
  <2>3. ASSUME NEW j \in Keys PROVE Seeing(r, j)'
    BY <1>3, <1>5, <1>6 DEF Seeing, Holding
  <2>4. QED
    BY <2>2, <2>3 DEF Together
<1>10. QED
  BY <1>7, <1>8, <1>9 DEF IInv

\* The look under the read lock keeps it.
LEMMA FastPathStep ==
  ASSUME IInv, NEW r \in Reqs, FastPath(r)
  PROVE  IInv'
<1>1. TypeOK /\ Told /\ Together
  BY DEF IInv
<1>2. /\ UNCHANGED <<queue, remote, open, entries, mu, avail, gcDue, sent, doubt, calm>>
      /\ req[r].pc = "fast" /\ req[r].key \in Keys
  BY <1>1 DEF FastPath, redis, session, history, told, TypeOK
<1>3. PICK k \in Keys : k = req[r].key
  BY <1>2
<1>4. entries[k].uid \in Values
  BY <1>1 DEF TypeOK, Entries
<1>5. CASE Live(k) /\ entries[k].uid \in req[r].snap
  <2>1. Goes(r, "touch", entries[k].uid)
    BY <1>3, <1>5 DEF FastPath
  <2>2. /\ req' \in [Reqs -> Requests]
        /\ \A s \in Reqs : req'[s].pc # "idle" => req'[s].key \in Keys
        /\ req'[r].pc = "touch" /\ req'[r].key = k /\ req'[r].uid = entries[k].uid
        /\ \A s \in Reqs \ {r} : req'[s] = req[s]
    BY ZenonT(60), <1>1, <1>2, <1>3, <1>4, <2>1, Standing DEF Stages
  <2>3. TypeOK'
    BY <1>1, <1>2, <1>5, <2>2 DEF TypeOK, Live
  <2>4. Told'
    BY <1>1, <1>2, <2>2, ToldSame DEF Due
  <2>5. \A j \in Keys : Live(j)' <=> Live(j)
    BY <1>2 DEF Live
  <2>6. \A j \in Keys : Seeing(r, j)'
    BY <1>1, <1>2, <1>3, <1>5, <2>2, <2>5 DEF Seeing, Together
  <2>7. Together'
    BY <1>1, <1>2, <2>2, <2>5, <2>6, TogetherStep DEF Serving
  <2>8. QED
    BY <2>3, <2>4, <2>7 DEF IInv
<1>6. CASE ~ (Live(k) /\ entries[k].uid \in req[r].snap)
  <2>1. req' = [req EXCEPT ![r].pc = "slow"]
    BY <1>3, <1>6 DEF FastPath
  <2>2. /\ req' \in [Reqs -> Requests]
        /\ \A s \in Reqs : req'[s].pc # "idle" => req'[s].key \in Keys
        /\ req'[r].pc = "slow" /\ req'[r].key = k /\ req'[r].snap = req[r].snap
        /\ \A s \in Reqs \ {r} : req'[s] = req[s]
    BY <1>1, <1>2, <1>3, <2>1, Staged DEF Stages
  <2>3. TypeOK'
    BY <1>1, <1>2, <2>2 DEF TypeOK
  <2>4. Told'
    BY <1>1, <1>2, <2>2, ToldSame DEF Due
  <2>5. \A j \in Keys : Live(j)' <=> Live(j)
    BY <1>2 DEF Live
  <2>6. \A j \in Keys : Seeing(r, j)'
    BY <1>1, <1>2, <1>3, <2>2 DEF Seeing, Together, Holding
  <2>7. Together'
    BY <1>1, <1>2, <2>2, <2>5, <2>6, TogetherStep DEF Serving
  <2>8. QED
    BY <2>3, <2>4, <2>7 DEF IInv
<1>7. QED
  BY <1>5, <1>6

\* The renewal of what it found keeps it.
LEMMA TouchStep ==
  ASSUME IInv, NEW r \in Reqs, Touch(r)
  PROVE  IInv'
<1>1. TypeOK /\ Told /\ Together
  BY DEF IInv
<1>2. /\ UNCHANGED <<queue, remote, open, mu, avail, gcDue, sent, calm>>
      /\ req[r].pc = "touch" /\ req[r].key \in Keys /\ req[r].uid \in Uids
  BY <1>1 DEF Touch, redis, told, TypeOK, Values, Requests
<1>3. PICK k \in Keys, u \in Uids : k = req[r].key /\ u = req[r].uid
  BY <1>2
<1>4. /\ entries' = [entries EXCEPT ![k] = Fresh(u)]
      /\ doubt' = Marked(k) /\ req' = [req EXCEPT ![r].pc = "mirror"]
  BY <1>3 DEF Touch
<1>5. /\ entries' \in [Keys -> Entries]
      /\ entries'[k] = Fresh(u) /\ \A j \in Keys \ {k} : entries'[j] = entries[j]
  BY <1>1, <1>4, Bindings, Entry
<1>6. /\ req' \in [Reqs -> Requests]
      /\ \A s \in Reqs : req'[s].pc # "idle" => req'[s].key \in Keys
      /\ req'[r].pc = "mirror" /\ req'[r].key = k /\ req'[r].uid = u
      /\ \A s \in Reqs \ {r} : req'[s] = req[s]
  BY <1>1, <1>2, <1>3, <1>4, Staged DEF Stages
<1>7. TypeOK'
  BY <1>1, <1>2, <1>4, <1>5, <1>6, Bindings, Marking DEF TypeOK
<1>8. Told'
  BY <1>1, <1>2, <1>3, <1>4, <1>5, <1>6, Bindings, ToldChange
<1>9. calm[k] /\ u # None => Live(k) /\ entries[k].uid = u /\ u \in avail
  BY <1>1, <1>2, <1>3 DEF Together, Seeing, Holding
<1>10. u # None => Live(k)'
  BY <1>5, Bindings DEF Live
<1>11. \A j \in Keys : Seeing(r, j)'
  BY <1>2, <1>5, <1>6, <1>9, <1>10, Bindings DEF Seeing, Holding
<1>12. \A j \in Keys : calm'[j] /\ Serving(j) =>
         entries'[j].uid = entries[j].uid /\ Live(j)'
  <2>1. \A j \in Keys \ {k} : Live(j)' <=> Live(j)
    BY <1>5 DEF Live
  <2>2. ASSUME calm[k], Serving(k) PROVE entries'[k].uid = entries[k].uid /\ Live(k)'
    BY <1>5, <1>9, <1>10, <2>2, Bindings DEF Serving, Live
  <2>3. QED
    BY <1>2, <1>5, <2>1, <2>2 DEF Serving
<1>13. Together'
  BY <1>1, <1>2, <1>6, <1>11, <1>12, TogetherStep
<1>14. QED
  BY <1>7, <1>8, <1>13 DEF IInv

\* The second look that finds a binding keeps it.
LEMMA SlowHitStep ==
  ASSUME IInv, NEW r \in Reqs, SlowHit(r)
  PROVE  IInv'
<1>1. TypeOK /\ Told /\ Together
  BY DEF IInv
<1>2. /\ UNCHANGED <<queue, remote, open, mu, avail, gcDue, sent, doubt, calm>>
      /\ req[r].pc = "slow" /\ req[r].key \in Keys
  BY <1>1 DEF SlowHit, redis, history, told, TypeOK
<1>3. PICK k \in Keys : k = req[r].key
  BY <1>2
<1>4. /\ Live(k) /\ entries[k].uid \in req[r].snap /\ entries[k] \in Entries
      /\ entries' = [entries EXCEPT ![k].age = 0] /\ Goes(r, "held", entries[k].uid)
  BY <1>1, <1>3 DEF SlowHit, Holds, TypeOK
<1> DEFINE e == [entries[k] EXCEPT !.age = 0]
<1>5. e \in Entries /\ e.uid = entries[k].uid /\ e.age = 0
  BY <1>4 DEF Entries
<1>6. entries' = [entries EXCEPT ![k] = e]
  BY <1>4, Zenon
<1> HIDE DEF e
<1>7. /\ entries' \in [Keys -> Entries] /\ entries'[k] = e
      /\ \A j \in Keys \ {k} : entries'[j] = entries[j]
  BY <1>1, <1>5, <1>6, Entry
<1>8. entries[k].uid \in Values
  BY <1>4 DEF Entries
<1>9. /\ req' \in [Reqs -> Requests]
      /\ \A s \in Reqs : req'[s].pc # "idle" => req'[s].key \in Keys
      /\ req'[r].pc = "held" /\ req'[r].key = k /\ req'[r].uid = entries[k].uid
      /\ \A s \in Reqs \ {r} : req'[s] = req[s]
  BY ZenonT(60), <1>1, <1>2, <1>3, <1>4, <1>8, Standing DEF Stages
<1>10. TypeOK'
  BY <1>1, <1>2, <1>7, <1>9 DEF TypeOK
<1>11. Told'
  BY <1>1, <1>2, <1>5, <1>7, <1>9, ToldSame DEF Due
<1>12. Live(k)' /\ \A j \in Keys \ {k} : Live(j)' <=> Live(j)
  BY <1>4, <1>5, <1>7, Bindings DEF Live
<1>13. calm[k] => req[r].snap = avail
  BY <1>1, <1>2, <1>3 DEF Together, Seeing
<1>14. \A j \in Keys : Seeing(r, j)'
  BY <1>2, <1>4, <1>5, <1>7, <1>9, <1>12, <1>13 DEF Seeing
<1>15. \A j \in Keys : calm'[j] /\ Serving(j) => entries'[j].uid = entries[j].uid /\ Live(j)'
  BY <1>5, <1>7, <1>12 DEF Serving
<1>16. Together'
  BY <1>1, <1>2, <1>9, <1>14, <1>15, TogetherStep
<1>17. QED
  BY <1>10, <1>11, <1>16 DEF IInv

\* The bindings with the one of k deleted, when it does not hold any more.
LEMMA Keeping ==
  ASSUME TypeOK, NEW k \in Keys
  PROVE  /\ Kept(k) \in [Keys -> Entries] /\ \A j \in Keys \ {k} : Kept(k)[j] = entries[j]
         /\ Kept(k)[k].uid \in {None, entries[k].uid}
         /\ ~ Live(k) => Kept(k) = entries
         /\ Live(k) => Kept(k)[k].uid = None
BY Bindings DEF Kept, TypeOK

\* The one that finds neither a binding nor an account keeps it.
LEMMA SlowNoneStep ==
  ASSUME IInv, NEW r \in Reqs, SlowNone(r)
  PROVE  IInv'
<1>1. TypeOK /\ Told /\ Together
  BY DEF IInv
<1>2. /\ UNCHANGED <<queue, remote, open, mu, avail, gcDue, sent, calm>>
      /\ req[r].pc = "slow" /\ req[r].key \in Keys
  BY <1>1 DEF SlowNone, redis, told, TypeOK
<1>3. PICK k \in Keys : k = req[r].key
  BY <1>2
<1>4. /\ avail = {} /\ entries' = Kept(k) /\ Goes(r, "held", None)
      /\ doubt' = [doubt EXCEPT ![k] = IF Live(k) /\ doubt[k] = "none" THEN "orphan" ELSE doubt[k]]
  BY <1>3, Zenon DEF SlowNone
<1>5. /\ entries' \in [Keys -> Entries] /\ \A j \in Keys \ {k} : entries'[j] = entries[j]
      /\ ~ Live(k) => entries' = entries
  BY <1>1, <1>4, Keeping
<1>6. /\ doubt' \in [Keys -> {"none", "race", "orphan", "lost"}]
      /\ \A j \in Keys \ {k} : doubt'[j] = doubt[j]
      /\ doubt'[k] = "none" => doubt[k] = "none" /\ ~ Live(k)
  BY <1>1, <1>4 DEF TypeOK
<1>7. /\ req' \in [Reqs -> Requests]
      /\ \A s \in Reqs : req'[s].pc # "idle" => req'[s].key \in Keys
      /\ req'[r].pc = "held" /\ req'[r].key = k /\ req'[r].uid = None
      /\ \A s \in Reqs \ {r} : req'[s] = req[s]
  BY ZenonT(60), <1>1, <1>2, <1>3, <1>4, Bindings, Standing DEF Stages
<1>8. TypeOK'
  BY <1>1, <1>2, <1>5, <1>6, <1>7 DEF TypeOK
<1>9. Told'
  <2>1. \A j \in Keys : doubt'[j] = "none" =>
          doubt[j] = "none" /\ entries'[j].uid = entries[j].uid
    BY <1>5, <1>6
  <2>2. QED
    BY <1>1, <1>2, <1>7, <2>1, ToldSame DEF Due
<1>10. Together'
  <2>1. \A j \in Keys : Seeing(r, j)' /\ ~ Serving(j)
    BY <1>4, <1>7 DEF Seeing, Holding, Serving
  <2>2. QED
    BY <1>1, <1>2, <1>7, <2>1, TogetherStep
<1>11. QED
  BY <1>8, <1>9, <1>10 DEF IInv

\* The allocation of an account keeps it.
LEMMA SlowAllocateStep ==
  ASSUME IInv, NEW r \in Reqs, SlowAllocate(r)
  PROVE  IInv'
<1>1. TypeOK /\ Told /\ Together
  BY DEF IInv
<1>2. /\ UNCHANGED <<avail, gcDue, calm>>
      /\ req[r].pc = "slow" /\ req[r].key \in Keys
  BY <1>1 DEF SlowAllocate, TypeOK
<1>3. PICK k \in Keys : k = req[r].key
  BY <1>2
<1>4. PICK u \in Candidates(Kept(k)) :
        /\ entries' = [Kept(k) EXCEPT ![k] = Fresh(u)] /\ Goes(r, "set", u)
        /\ IF Kept(k)[k].uid \notin {None, u} THEN Submit(k, None)
           ELSE UNCHANGED <<redis, told>>
  BY <1>3, Zenon DEF SlowAllocate
<1>5. doubt' = Marked(k) /\ ~ Holds(r)
  BY <1>3 DEF SlowAllocate
<1>6. u \in avail /\ u \in Uids /\ u \in Values
  BY <1>1, Bindings DEF Candidates, TypeOK
<1>7. /\ entries' \in [Keys -> Entries] /\ entries'[k] = Fresh(u)
      /\ \A j \in Keys \ {k} : entries'[j] = entries[j]
  BY <1>1, <1>4, <1>6, Keeping, Bindings
<1>8. /\ queue' \in [Keys -> Seq(Values)] /\ remote' = remote /\ sent' \in [Keys -> Values]
      /\ \A j \in Keys \ {k} : sent'[j] = sent[j]
  <2>1. CASE Submit(k, None)
    BY <1>1, <2>1, Bindings, Submitting
  <2>2. CASE UNCHANGED <<redis, told>>
    BY <1>1, <2>2 DEF redis, told, TypeOK
  <2>3. QED
    BY <1>4, <2>1, <2>2
<1>9. /\ req' \in [Reqs -> Requests]
      /\ \A s \in Reqs : req'[s].pc # "idle" => req'[s].key \in Keys
      /\ req'[r].pc = "set" /\ req'[r].key = k /\ req'[r].uid = u
      /\ \A s \in Reqs \ {r} : req'[s] = req[s]
  BY <1>1, <1>2, <1>3, <1>4, <1>6, Standing DEF Stages
<1>10. TypeOK'
  <2>1. u # None /\ doubt' \in [Keys -> {"none", "race", "orphan", "lost"}]
    BY <1>1, <1>5, <1>6, Bindings, Marking
  <2>2. QED
    BY <1>1, <1>2, <1>7, <1>8, <1>9, <2>1 DEF TypeOK
<1>11. Told'
  <2>1. \A j \in Keys \ {k} : sent'[j] = sent[j] /\ entries'[j].uid = entries[j].uid
    BY <1>7, <1>8
  <2>2. entries'[k].uid = u /\ gcDue' = gcDue
    BY <1>2, <1>6, <1>7, Bindings
  <2>3. req[r].key = k /\ req[r].pc \notin {"set", "mirror", "last"}
    BY <1>2, <1>3
  <2>4. /\ req'[r].key = k /\ req'[r].pc \in {"set", "mirror", "last"} /\ req'[r].uid = u
        /\ \A s \in Reqs \ {r} : req'[s] = req[s]
    BY <1>9
  <2>5. QED
    BY <1>1, <1>5, <1>6, <2>1, <2>2, <2>3, <2>4, ToldChange
<1>12. Live(k)' /\ \A j \in Keys \ {k} : Live(j)' <=> Live(j)
  BY <1>6, <1>7, Bindings DEF Live
<1>13. calm[k] => ~ Serving(k)
  BY <1>1, <1>2, <1>3, <1>5 DEF Together, Seeing, Serving, Holds
<1>14. \A j \in Keys : Seeing(r, j)'
  BY <1>2, <1>6, <1>7, <1>9, <1>12, Bindings DEF Seeing
<1>15. \A j \in Keys : calm'[j] /\ Serving(j) => entries'[j].uid = entries[j].uid /\ Live(j)'
  BY <1>2, <1>7, <1>12, <1>13 DEF Serving
<1>16. Together'
  BY <1>1, <1>2, <1>9, <1>14, <1>15, TogetherStep
<1>17. QED
  BY <1>10, <1>11, <1>16 DEF IInv

\* The two submissions of a resolution.
LEMMA SubmitStep ==
  ASSUME IInv, NEW r \in Reqs, SlowSet(r) \/ MirrorTouch(r)
  PROVE  IInv'
<1>1. TypeOK /\ Told /\ Together
  BY DEF IInv
<1>2. /\ UNCHANGED <<entries, avail, gcDue, doubt, calm>>
      /\ req[r].pc \in {"set", "mirror"} /\ req[r].key \in Keys /\ req[r].uid \in Values
  BY <1>1 DEF SlowSet, MirrorTouch, session, TypeOK, Requests
<1>3. PICK k \in Keys, u \in Values : k = req[r].key /\ u = req[r].uid
  BY <1>2
<1>4. Submit(k, u) /\ req' = [req EXCEPT ![r].pc = "held"]
  BY <1>3 DEF SlowSet, MirrorTouch
<1>5. /\ req' \in [Reqs -> Requests]
      /\ \A s \in Reqs : req'[s].pc # "idle" => req'[s].key \in Keys
      /\ req'[r].pc = "held" /\ req'[r].key = k /\ req'[r].uid = u
      /\ \A s \in Reqs \ {r} : req'[s] = req[s]
  BY <1>1, <1>2, <1>3, <1>4, Staged DEF Stages
<1>6. /\ queue' \in [Keys -> Seq(Values)] /\ remote' = remote /\ sent' \in [Keys -> Values]
  BY <1>1, <1>4, Submitting
<1>7. TypeOK'
  BY <1>1, <1>2, <1>5, <1>6 DEF TypeOK
<1>8. Told'
  <2>1. Due(r, k)
    BY <1>2, <1>3 DEF Due
  <2>2. Submit(k, req[r].uid)
    BY <1>3, <1>4
  <2>3. QED
    BY <1>1, <1>2, <1>5, <2>1, <2>2, ToldWrite
<1>9. \A j \in Keys : Live(j)' <=> Live(j)
  BY <1>2 DEF Live
<1>10. \A j \in Keys : Seeing(r, j)'
  BY ZenonT(60), <1>1, <1>2, <1>3, <1>5, <1>9 DEF Seeing, Holding, Together
<1>11. Together'
  BY <1>1, <1>2, <1>5, <1>9, <1>10, TogetherStep DEF Serving
<1>12. QED
  BY <1>7, <1>8, <1>11 DEF IInv

\* A rebinding keeps it.
LEMMA BindStep ==
  ASSUME IInv, NEW r \in Reqs, NEW u \in Uids, Bind(r, u)
  PROVE  IInv'
<1>1. TypeOK /\ Told /\ Together
  BY DEF IInv
<1>2. /\ UNCHANGED <<queue, remote, open, mu, avail, gcDue, sent>>
      /\ req[r].pc = "held" /\ req[r].key \in Keys
  BY <1>1 DEF Bind, redis, told, TypeOK
<1>3. PICK k \in Keys : k = req[r].key
  BY <1>2
<1>4. /\ entries' = [entries EXCEPT ![k] = Fresh(u)] /\ Goes(r, "last", u)
      /\ doubt' = Marked(k) /\ calm' = [calm EXCEPT ![k] = FALSE]
  BY <1>3 DEF Bind
<1>5. /\ entries' \in [Keys -> Entries] /\ entries'[k] = Fresh(u)
      /\ \A j \in Keys \ {k} : entries'[j] = entries[j]
  BY <1>1, <1>4, Bindings, Entry
<1>6. /\ req' \in [Reqs -> Requests]
      /\ \A s \in Reqs : req'[s].pc # "idle" => req'[s].key \in Keys
      /\ req'[r].pc = "last" /\ req'[r].key = k /\ req'[r].uid = u
      /\ \A s \in Reqs \ {r} : req'[s] = req[s]
  BY <1>1, <1>2, <1>3, <1>4, Bindings, Standing DEF Stages
<1>7. /\ calm' \in [Keys -> BOOLEAN] /\ ~ calm'[k]
      /\ \A j \in Keys \ {k} : calm'[j] = calm[j]
  BY <1>1, <1>4 DEF TypeOK
<1>8. TypeOK'
  <2>1. doubt' \in [Keys -> {"none", "race", "orphan", "lost"}]
    BY <1>1, <1>4, Marking
  <2>2. QED
    BY <1>1, <1>2, <1>5, <1>6, <1>7, <2>1 DEF TypeOK
<1>9. Told'
  BY <1>1, <1>2, <1>3, <1>4, <1>5, <1>6, Bindings, ToldChange
<1>10. \A j \in Keys : calm'[j] /\ Serving(j) => entries'[j].uid = entries[j].uid /\ Live(j)'
  BY <1>5, <1>7 DEF Serving, Live
<1>11. \A j \in Keys : Seeing(r, j)'
  BY <1>6, <1>7 DEF Seeing
<1>12. Together'
  <2>1. \A j \in Keys : calm'[j] => calm[j]
    BY <1>7
  <2>2. QED
    BY <1>1, <1>2, <1>6, <1>10, <1>11, <2>1, TogetherStep
<1>13. QED
  BY <1>8, <1>9, <1>12 DEF IInv

\* The end of a binding keeps it.
LEMMA UnbindStep ==
  ASSUME IInv, NEW r \in Reqs, Unbind(r)
  PROVE  IInv'
<1>1. TypeOK /\ Told /\ Together
  BY DEF IInv
<1>2. /\ UNCHANGED <<queue, remote, open, mu, avail, gcDue, sent>>
      /\ req[r].pc = "held" /\ req[r].key \in Keys
  BY <1>1 DEF Unbind, redis, told, TypeOK
<1>3. PICK k \in Keys : k = req[r].key
  BY <1>2
<1>4. calm' = [calm EXCEPT ![k] = FALSE]
  BY <1>3 DEF Unbind
<1>5. /\ calm' \in [Keys -> BOOLEAN] /\ ~ calm'[k]
      /\ \A j \in Keys \ {k} : calm'[j] = calm[j]
  BY <1>1, <1>4 DEF TypeOK
<1>6. entries' = [entries EXCEPT ![k] = IF req[r].uid # None THEN Absent ELSE entries[k]]
  BY <1>3, Zenon DEF Unbind
<1>7. /\ entries' \in [Keys -> Entries]
      /\ entries'[k] = IF req[r].uid # None THEN Absent ELSE entries[k]
      /\ \A j \in Keys \ {k} : entries'[j] = entries[j]
  <2>1. (IF req[r].uid # None THEN Absent ELSE entries[k]) \in Entries
    BY <1>1, Bindings DEF TypeOK
  <2>2. QED
    BY <1>1, <1>6, <2>1, Entry
<1>8. \A j \in Keys : calm'[j] /\ Serving(j) => entries'[j].uid = entries[j].uid /\ Live(j)'
  BY <1>5, <1>7 DEF Serving, Live
<1>9. \A j \in Keys : calm'[j] => calm[j]
  BY <1>5
<1>10. CASE req[r].uid # None /\ entries[k].uid # None
  <2>1. Goes(r, "last", None) /\ doubt' = Marked(k)
    BY <1>3, <1>10 DEF Unbind
  <2>2. /\ req' \in [Reqs -> Requests]
        /\ \A s \in Reqs : req'[s].pc # "idle" => req'[s].key \in Keys
        /\ req'[r].pc = "last" /\ req'[r].key = k /\ req'[r].uid = None
        /\ \A s \in Reqs \ {r} : req'[s] = req[s]
    BY ZenonT(60), <1>1, <1>2, <1>3, <2>1, Bindings, Standing DEF Stages
  <2>3. TypeOK'
    <3>1. doubt' \in [Keys -> {"none", "race", "orphan", "lost"}]
      BY <1>1, <2>1, Marking
    <3>2. QED
      BY ZenonT(60), <1>1, <1>2, <1>5, <1>7, <2>2, <3>1 DEF TypeOK
  <2>4. Told'
    BY <1>1, <1>2, <1>3, <1>7, <1>10, <2>1, <2>2, Bindings, ToldChange
  <2>5. Together'
    <3>1. \A j \in Keys : Seeing(r, j)'
      BY <1>5, <2>2 DEF Seeing
    <3>2. QED
      BY <1>1, <1>2, <1>8, <1>9, <2>2, <3>1, TogetherStep
  <2>6. QED
    BY <2>3, <2>4, <2>5 DEF IInv
<1>11. CASE ~ (req[r].uid # None /\ entries[k].uid # None)
  <2>1. req' = [req EXCEPT ![r] = Rest] /\ doubt' = doubt
    BY <1>3, <1>11 DEF Unbind
  <2>2. /\ req' \in [Reqs -> Requests]
        /\ \A s \in Reqs : req'[s].pc # "idle" => req'[s].key \in Keys
        /\ req'[r].pc = "idle"
        /\ \A s \in Reqs \ {r} : req'[s] = req[s]
    BY <1>1, <2>1, Resting
  <2>3. TypeOK'
    BY <1>1, <1>2, <1>5, <1>7, <2>1, <2>2 DEF TypeOK
  <2>4. Told'
    <3>1. \A j \in Keys : entries'[j].uid = entries[j].uid
      BY <1>7, <1>11, Bindings
    <3>2. QED
      BY <1>1, <1>2, <2>1, <2>2, <3>1, ToldSame DEF Due
  <2>5. Together'
    <3>1. \A j \in Keys : Seeing(r, j)'
      BY <2>2 DEF Seeing
    <3>2. QED
      BY <1>1, <1>2, <1>8, <1>9, <2>2, <3>1, TogetherStep
  <2>6. QED
    BY <2>3, <2>4, <2>5 DEF IInv
<1>12. QED
  BY <1>10, <1>11

\* So does a request that hands its change to the mirror.
LEMMA MirrorLastStep ==
  ASSUME IInv, NEW r \in Reqs, MirrorLast(r)
  PROVE  IInv'
<1>1. TypeOK /\ Told /\ Together
  BY DEF IInv
<1>2. /\ UNCHANGED <<entries, avail, gcDue, doubt, calm>>
      /\ req[r].pc = "last" /\ req[r].key \in Keys /\ req[r].uid \in Values
  BY <1>1 DEF MirrorLast, session, TypeOK, Requests
<1>3. PICK k \in Keys, u \in Values : k = req[r].key /\ u = req[r].uid
  BY <1>2
<1>4. Submit(k, u) /\ req' = [req EXCEPT ![r] = Rest]
  BY <1>3 DEF MirrorLast
<1>5. /\ req' \in [Reqs -> Requests]
      /\ \A s \in Reqs : req'[s].pc # "idle" => req'[s].key \in Keys
      /\ req'[r].pc = "idle"
      /\ \A s \in Reqs \ {r} : req'[s] = req[s]
  BY <1>1, <1>4, Resting
<1>6. /\ queue' \in [Keys -> Seq(Values)] /\ remote' = remote /\ sent' \in [Keys -> Values]
  BY <1>1, <1>4, Submitting
<1>7. TypeOK'
  BY <1>1, <1>2, <1>5, <1>6 DEF TypeOK
<1>8. Told'
  <2>1. Due(r, k) /\ Submit(k, req[r].uid)
    BY <1>2, <1>3, <1>4 DEF Due
  <2>2. QED
    BY <1>1, <1>2, <1>5, <2>1, ToldWrite
<1>9. \A j \in Keys : Live(j)' <=> Live(j)
  BY <1>2 DEF Live
<1>10. \A j \in Keys : Seeing(r, j)'
  BY <1>5 DEF Seeing
<1>11. Together'
  BY <1>1, <1>2, <1>5, <1>9, <1>10, TogetherStep DEF Serving
<1>12. QED
  BY <1>7, <1>8, <1>11 DEF IInv

-----------------------------------------------------------------------------
(* The other steps.                                                        *)

\* A step of no request keeps the calm requests of a session together.
LEMMA TogetherRest ==
  ASSUME Together, req' = req, avail' = avail, \A k \in Keys : calm'[k] => calm[k],
         \A k \in Keys : calm'[k] /\ Serving(k) =>
            entries'[k].uid = entries[k].uid /\ Live(k)'
  PROVE  Together'
<1>1. ASSUME NEW s \in Reqs, NEW k \in Keys PROVE Seeing(s, k)'
  <2>1. Seeing(s, k)
    BY DEF Together
  <2>2. Holding(s)' <=> Holding(s)
    BY DEF Holding
  <2>3. QED
    BY <2>1, <2>2 DEF Seeing, Serving
<1>2. QED
  BY <1>1 DEF Together

\* The collector keeps the invariant when it drops what has expired.
LEMMA CollectStep ==
  ASSUME IInv, Collect
  PROVE  IInv'
<1> DEFINE old == {k \in Keys : entries[k].uid # None /\ ~ Live(k)}
<1>1. TypeOK /\ Told /\ Together
  BY DEF IInv
<1>2. /\ UNCHANGED <<queue, remote, open, mu, avail, req, sent, calm>>
      /\ gcDue = {} /\ gcDue' = old
      /\ entries' = [k \in Keys |-> IF k \in old THEN Absent ELSE entries[k]]
      /\ doubt' = [k \in Keys |-> IF k \in old THEN Marked(k)[k] ELSE doubt[k]]
  BY DEF Collect, redis, told
<1>3. \A k \in Keys : k \in old => ~ Live(k)
  OBVIOUS
<1>4. old \subseteq Keys
  OBVIOUS
<1> HIDE DEF old
<1>5. entries' \in [Keys -> Entries]
  BY <1>1, <1>2, Bindings DEF TypeOK
<1>6. doubt' \in [Keys -> {"none", "race", "orphan", "lost"}]
  <2>1. \A k \in Keys : Marked(k)[k] \in {"none", "race", "orphan", "lost"}
    BY <1>1, Marking
  <2>2. QED
    BY <1>1, <1>2, <2>1 DEF TypeOK
<1>7. TypeOK'
  BY <1>1, <1>2, <1>4, <1>5, <1>6 DEF TypeOK
<1>8. \A r \in Reqs : \A k \in Keys : Due(r, k)' <=> Due(r, k)
  BY <1>2 DEF Due
<1>9. \A k \in Keys : Pending(k)' <=> k \in old \/ \E r \in Reqs : Due(r, k)
  <2>1. \A k \in Keys : Pending(k)' <=> k \in gcDue' \/ \E r \in Reqs : Due(r, k)'
    BY DEF Pending, Due
  <2>2. QED
    BY <1>2, <1>8, <2>1
<1>10. ASSUME NEW k \in Keys, doubt'[k] = "none"
       PROVE  /\ ~ Pending(k)' => sent'[k] = entries'[k].uid
              /\ k \in gcDue' => entries'[k].uid = None /\ \A r \in Reqs : ~ Due(r, k)'
              /\ \A r \in Reqs : Due(r, k)' =>
                   req'[r].uid = entries'[k].uid /\ \A s \in Reqs \ {r} : ~ Due(s, k)'
  <2>1. CASE k \in old
    <3>1. ~ Pending(k)
      BY <1>1, <1>2, <1>10, <2>1, Marking
    <3>2. \A r \in Reqs : ~ Due(r, k)
      BY <3>1, Dues
    <3>3. entries'[k].uid = None
      BY <1>2, <2>1, Bindings
    <3>4. QED
      BY <1>8, <1>9, <2>1, <3>2, <3>3
  <2>2. CASE k \notin old
    <3>1. doubt[k] = "none" /\ entries'[k] = entries[k]
      BY <1>2, <1>10, <2>2
    <3>2. Pending(k)' <=> Pending(k)
      BY <1>2, <1>9, <2>2, Dues
    <3>3. QED
      BY <1>1, <1>2, <1>8, <2>2, <3>1, <3>2 DEF Told
  <2>3. QED
    BY <2>1, <2>2
<1>11. Told'
  BY <1>10 DEF Told
<1>12. Together'
  <2>1. \A k \in Keys : Serving(k) => entries'[k].uid = entries[k].uid /\ Live(k)'
    BY <1>2, <1>3 DEF Serving, Live
  <2>2. QED
    BY <1>1, <1>2, <2>1, TogetherRest
<1>13. QED
  BY <1>7, <1>11, <1>12 DEF IInv

\* It keeps it when it hands to the mirror what it dropped.
LEMMA MirrorCollectedStep ==
  ASSUME IInv, NEW k \in Keys, MirrorCollected(k)
  PROVE  IInv'
<1>1. TypeOK /\ Told /\ Together
  BY DEF IInv
<1>2. /\ UNCHANGED <<entries, avail, req, doubt, calm>>
      /\ k \in gcDue /\ gcDue' = gcDue \ {k} /\ Submit(k, None)
  BY DEF MirrorCollected, session
<1>3. /\ queue' \in [Keys -> Seq(Values)] /\ remote' = remote /\ sent' \in [Keys -> Values]
      /\ sent'[k] = None /\ \A j \in Keys \ {k} : sent'[j] = sent[j]
  BY <1>1, <1>2, Bindings, Submitting
<1>4. TypeOK'
  BY <1>1, <1>2, <1>3 DEF TypeOK
<1>5. \A r \in Reqs : \A j \in Keys : Due(r, j)' <=> Due(r, j)
  BY <1>2 DEF Due
<1>6. \A j \in Keys : j # k => (Pending(j)' <=> Pending(j))
  <2>1. \A j \in Keys : Pending(j)' <=> j \in gcDue' \/ \E r \in Reqs : Due(r, j)'
    BY DEF Pending, Due
  <2>2. QED
    BY <1>2, <1>5, <2>1, Dues
<1>7. Told'
  BY <1>1, <1>2, <1>3, <1>5, <1>6 DEF Told
<1>8. Together'
  BY <1>1, <1>2, TogetherRest DEF Serving, Live
<1>9. QED
  BY <1>4, <1>7, <1>8 DEF IInv

\* Without calm nothing is said of the requests.
LEMMA Disturbed ==
  ASSUME \A k \in Keys : ~ calm'[k]
  PROVE  Together'
BY DEF Together, Seeing

\* So do the pool, the clock, the writes to Redis and the shutdown.
LEMMA EnvironmentStep ==
  ASSUME IInv, PoolChanges \/ Tick \/ Write \/ Meddle \/ Shutdown
  PROVE  IInv'
<1>1. TypeOK /\ Told /\ Together
  BY DEF IInv
<1>2. UNCHANGED <<req, gcDue, sent, doubt>>
  BY DEF PoolChanges, Tick, Write, Meddle, Shutdown, history, told
<1>3. /\ entries' \in [Keys -> Entries]
      /\ \A k \in Keys : entries'[k].uid = entries[k].uid
  <2>1. CASE entries' = entries
    BY <1>1, <2>1 DEF TypeOK
  <2>2. CASE Tick
    <3> DEFINE e(k) == IF entries[k].uid = None \/ entries[k].age > TTL
                       THEN entries[k] ELSE [entries[k] EXCEPT !.age = entries[k].age + 1]
    <3>1. entries' = [k \in Keys |-> e(k)]
      BY <2>2, Zenon DEF Tick
    <3>2. ASSUME NEW k \in Keys PROVE e(k) \in Entries /\ e(k).uid = entries[k].uid
      <4>1. entries[k] \in Entries
        BY <1>1 DEF TypeOK
      <4>2. QED
        BY <4>1 DEF Entries
    <3> HIDE DEF e
    <3>3. QED
      BY <3>1, <3>2
  <2>3. QED
    BY <2>1, <2>2 DEF PoolChanges, Write, Meddle, Shutdown, session
<1>4. /\ queue' \in [Keys -> Seq(Values)] /\ remote' \in [Keys -> Values]
  <2>1. CASE UNCHANGED <<queue, remote>>
    BY <1>1, <2>1 DEF TypeOK
  <2>2. CASE Tick
    BY <1>1, <2>2, Bindings DEF Tick, Mirror!Expire, TypeOK
  <2>3. CASE Write
    <3>1. PICK k \in Keys : Mirror!Make(k)
      BY <2>3 DEF Write
    <3>2. /\ queue[k] # <<>> /\ queue[k] \in Seq(Values)
          /\ queue' = [queue EXCEPT ![k] = Tail(queue[k])]
          /\ remote' = [remote EXCEPT ![k] = Head(queue[k])] \/ remote' = remote
      BY <1>1, <3>1, Zenon DEF Mirror!Make, TypeOK
    <3>3. Tail(queue[k]) \in Seq(Values) /\ Head(queue[k]) \in Values
      BY <3>2
    <3>4. QED
      BY <1>1, <3>2, <3>3 DEF TypeOK
  <2>4. CASE Meddle
    BY <1>1, <2>4 DEF Meddle, TypeOK
  <2>5. QED
    BY <2>1, <2>2, <2>3, <2>4 DEF PoolChanges, Shutdown, Mirror!Close, redis
<1>5. /\ avail' \subseteq Uids /\ calm' \in [Keys -> BOOLEAN]
      /\ \/ \A k \in Keys : ~ calm'[k]
         \/ UNCHANGED <<entries, avail, calm>>
  BY <1>1 DEF PoolChanges, Tick, Write, Meddle, Shutdown, session, TypeOK
<1>6. TypeOK'
  BY <1>1, <1>2, <1>3, <1>4, <1>5 DEF TypeOK
<1>7. Told'
  BY <1>1, <1>2, <1>3, ToldSame DEF Due
<1>8. Together'
  BY <1>1, <1>2, <1>5, Disturbed, TogetherRest DEF Serving, Live
<1>9. QED
  BY <1>6, <1>7, <1>8 DEF IInv

\* A restart holds what it read of Redis; the mirror was told what it was told.
LEMMA RestartStep ==
  ASSUME IInv, Mirrored, Restart
  PROVE  IInv'
<1>1. TypeOK
  BY DEF IInv
<1>2. PICK loaded \in SUBSET {k \in Keys : remote[k] # None} :
        /\ entries' = [k \in Keys |-> IF k \in loaded THEN Fresh(remote[k]) ELSE Absent]
        /\ doubt' = [k \in Keys |-> IF made[k] /\ (k \in loaded \/ remote[k] = None)
                                    THEN "none" ELSE "lost"]
        /\ queue' = [k \in Keys |-> <<>>] /\ UNCHANGED <<remote, avail, sent>>
        /\ req' = [r \in Reqs |-> Rest] /\ gcDue' = {} /\ calm' = [k \in Keys |-> FALSE]
  BY DEF Restart, Mirror!Restart, LoadFromStore, told
<1>3. Rest \in Requests /\ Rest.pc = "idle"
  BY DEF Rest, Requests, Stages, Values
<1>4. /\ entries' \in [Keys -> Entries]
      /\ \A k \in Keys : k \in loaded \/ remote[k] = None => entries'[k].uid = remote[k]
  BY <1>1, <1>2, Bindings DEF TypeOK
<1>10. \A k \in Keys : doubt'[k] = "none" => sent'[k] = entries'[k].uid
  BY <1>2, <1>4 DEF Mirrored, MirroredKey
<1>5. <<>> \in Seq(Values)
  OBVIOUS
<1>6. TypeOK'
  BY <1>1, <1>2, <1>3, <1>4, <1>5 DEF TypeOK
<1>7. Told'
  BY <1>2, <1>3, <1>10 DEF Told, Due
<1>8. Together'
  BY <1>2, Disturbed
<1>9. QED
  BY <1>6, <1>7, <1>8 DEF IInv

\* The last of a queue is the one that is made when no other waits.
LEMMA LastOf ==
  ASSUME NEW q \in Seq(Values), q # <<>>
  PROVE  /\ Len(q) = 1 => Tail(q) = <<>> /\ Head(q) = q[Len(q)]
         /\ Len(q) # 1 => Tail(q)[Len(Tail(q))] = q[Len(q)]
<1>1. Len(q) \in Nat \ {0}
  BY EmptySeq
<1>2. /\ Head(q) = q[1] /\ Tail(q) \in Seq(Values) /\ Len(Tail(q)) = Len(q) - 1
      /\ \A i \in 1 .. Len(Tail(q)) : Tail(q)[i] = q[i + 1]
  BY HeadTailProperties
<1>3. ASSUME Tail(q) # <<>> PROVE Len(q) # 1
  <2>1. Len(Tail(q)) \in Nat \ {0}
    BY <1>2, <1>3, EmptySeq
  <2>2. QED
    BY <1>1, <1>2, <2>1
<1>4. ASSUME Len(q) # 1 PROVE Tail(q)[Len(q) - 1] = q[Len(q)]
  <2>1. Len(q) - 1 \in 1 .. Len(Tail(q)) /\ Len(q) - 1 + 1 = Len(q)
    BY <1>1, <1>2, <1>4
  <2>2. QED
    BY <1>2, <2>1
<1>5. QED
  BY <1>2, <1>3, <1>4

\* No step makes a write that waits, or was made, another one than was submitted.
LEMMA MirroredStep ==
  ASSUME TypeOK, Mirrored, [Next]_vars
  PROVE  Mirrored'
<1>1. CASE UNCHANGED <<queue, remote, told>>
  BY <1>1 DEF Mirrored, MirroredKey, told
<1>2. ASSUME NEW k \in Keys, NEW v \in Values, Submit(k, v)
      PROVE  Mirrored'
  <2>1. /\ queue' = [queue EXCEPT ![k] = Append(queue[k], v)] /\ remote' = remote
        /\ sent' = [sent EXCEPT ![k] = v] /\ made' = [made EXCEPT ![k] = FALSE]
    BY <1>2, Zenon DEF Submit, Mirror!Accept
  <2>2. queue[k] \in Seq(Values)
    BY DEF TypeOK
  <2>3. \A j \in Keys \ {k} : MirroredKey(j)'
    BY <2>1 DEF Mirrored, MirroredKey, TypeOK
  <2>4. queue'[k] = Append(queue[k], v) /\ sent'[k] = v /\ made'[k] = FALSE
    BY <2>1 DEF TypeOK, Mirrored
  <2>5. Append(queue[k], v)[Len(Append(queue[k], v))] = v
    BY <2>2
  <2>6. MirroredKey(k)'
    BY <2>4, <2>5 DEF MirroredKey
  <2>7. made' \in [Keys -> BOOLEAN]
    BY <2>1 DEF Mirrored
  <2>8. QED
    BY <2>3, <2>6, <2>7 DEF Mirrored
<1>3. CASE Tick
  BY <1>3 DEF Tick, Mirror!Expire, Mirrored, MirroredKey, TypeOK
<1>4. CASE Write
  <2>1. PICK k \in Keys :
          /\ Mirror!Make(k)
          /\ made' = [made EXCEPT ![k] = Len(queue[k]) = 1 /\ remote'[k] = Head(queue[k])]
    BY <1>4 DEF Write
  <2>2. /\ queue[k] # <<>> /\ queue[k] \in Seq(Values) /\ sent' = sent
        /\ queue' = [queue EXCEPT ![k] = Tail(queue[k])]
        /\ \A j \in Keys \ {k} : remote'[j] = remote[j]
    BY <1>4, <2>1 DEF Mirror!Make, Write, TypeOK
  <2>3. \A j \in Keys \ {k} : MirroredKey(j)'
    BY <2>1, <2>2 DEF Mirrored, MirroredKey, TypeOK
  <2>4. queue'[k] = Tail(queue[k]) /\ (made'[k] <=> Len(queue[k]) = 1 /\ remote'[k] = Head(queue[k]))
    BY <2>1, <2>2 DEF Mirrored, TypeOK
  <2>5. queue[k][Len(queue[k])] = sent[k]
    BY <2>2 DEF Mirrored, MirroredKey
  <2>6. MirroredKey(k)'
    BY <2>2, <2>4, <2>5, LastOf DEF MirroredKey
  <2>8. made' \in [Keys -> BOOLEAN]
    BY <2>1 DEF Mirrored
  <2>9. QED
    BY <2>3, <2>6, <2>8 DEF Mirrored
<1>5. CASE Meddle
  BY <1>5 DEF Meddle, Mirrored, MirroredKey, TypeOK
<1>6. CASE Restart
  BY <1>6 DEF Restart, Mirror!Restart, told, Mirrored, MirroredKey
<1>7. ASSUME NEW r \in Reqs,
             \/ \E k \in Keys : Begin(r, k)
             \/ FastPath(r) \/ Touch(r) \/ MirrorTouch(r)
             \/ SlowHit(r) \/ SlowNone(r) \/ SlowAllocate(r) \/ SlowSet(r)
             \/ \E u \in Uids : Bind(r, u)
             \/ Unbind(r) \/ MirrorLast(r)
      PROVE  UNCHANGED <<queue, remote, told>> \/ \E k \in Keys, v \in Values : Submit(k, v)
  <2>1. req[r].uid \in Values /\ (req[r].pc # "idle" => req[r].key \in Keys)
    BY DEF TypeOK, Requests
  <2>2. CASE MirrorTouch(r) \/ SlowSet(r) \/ MirrorLast(r)
    <3>1. req[r].pc # "idle" /\ Submit(req[r].key, req[r].uid)
      BY <2>2 DEF MirrorTouch, SlowSet, MirrorLast
    <3>2. QED
      BY <2>1, <3>1
  <2>3. CASE SlowAllocate(r)
    <3>1. req[r].pc = "slow" /\ (Submit(req[r].key, None) \/ UNCHANGED <<redis, told>>)
      BY <2>3, Zenon DEF SlowAllocate
    <3>2. QED
      BY <2>1, <3>1, Bindings DEF redis
  <2>4. QED
    BY <1>7, <2>2, <2>3
    DEF Begin, FastPath, Touch, SlowHit, SlowNone, Bind, Unbind, redis, history
<1>8. QED
  BY <1>1, <1>2, <1>3, <1>4, <1>5, <1>6, <1>7, Bindings
  DEF Next, Collect, MirrorCollected, PoolChanges, Shutdown, Mirror!Close, redis, history, vars, told

\* The invariant holds at first.
LEMMA Initially == Init => IInv /\ Mirrored
<1> SUFFICES ASSUME Init PROVE IInv /\ Mirrored
  OBVIOUS
<1>1. /\ queue = [k \in Keys |-> <<>>] /\ remote = [k \in Keys |-> None]
      /\ entries = [k \in Keys |-> Absent] /\ avail = Uids
      /\ req = [r \in Reqs |-> Rest] /\ gcDue = {} /\ sent = [k \in Keys |-> None]
      /\ doubt = [k \in Keys |-> "none"] /\ calm = [k \in Keys |-> TRUE]
      /\ made = [k \in Keys |-> TRUE]
  BY DEF Init, Mirror!Init
<1>2. Rest \in Requests /\ Rest.pc = "idle"
  BY DEF Rest, Requests, Stages, Values
<1>3. <<>> \in Seq(Values)
  OBVIOUS
<1>4. TypeOK
  BY <1>1, <1>2, <1>3, Bindings DEF TypeOK
<1>5. Told
  BY <1>1, <1>2, Bindings DEF Told, Due
<1>6. Together
  BY <1>1, <1>2 DEF Together, Seeing
<1>7. Mirrored
  BY <1>1 DEF Mirrored, MirroredKey
<1>8. QED
  BY <1>4, <1>5, <1>6, <1>7 DEF IInv

\* Every step keeps it.
LEMMA Inductive == IInv /\ Mirrored /\ [Next]_vars => IInv' /\ Mirrored'
<1> SUFFICES ASSUME IInv, Mirrored, [Next]_vars PROVE IInv'
  BY MirroredStep DEF IInv
<1>1. ASSUME NEW r \in Reqs,
             \/ \E k \in Keys : Begin(r, k)
             \/ FastPath(r) \/ Touch(r) \/ MirrorTouch(r)
             \/ SlowHit(r) \/ SlowNone(r) \/ SlowAllocate(r) \/ SlowSet(r)
             \/ \E u \in Uids : Bind(r, u)
             \/ Unbind(r) \/ MirrorLast(r)
      PROVE  IInv'
  BY <1>1, BeginStep, FastPathStep, TouchStep, SubmitStep, SlowHitStep, SlowNoneStep,
     SlowAllocateStep, BindStep, UnbindStep, MirrorLastStep
<1>2. CASE Collect \/ \E k \in Keys : MirrorCollected(k)
  BY <1>2, CollectStep, MirrorCollectedStep
<1>3. CASE PoolChanges \/ Tick \/ Write \/ Meddle \/ Shutdown
  BY <1>3, EnvironmentStep
<1>4. CASE Restart
  BY <1>4, RestartStep
<1>5. CASE UNCHANGED vars
  <2>1. UNCHANGED <<queue, remote, entries, avail, req, gcDue, sent, doubt, calm>>
    BY <1>5 DEF vars
  <2>2. TypeOK'
    BY <2>1 DEF IInv, TypeOK
  <2>3. Told'
    BY <2>1, ToldSame DEF IInv, Due
  <2>4. Together'
    BY <2>1, TogetherRest DEF IInv, Serving, Live
  <2>5. QED
    BY <2>2, <2>3, <2>4 DEF IInv
<1>6. QED
  BY <1>1, <1>2, <1>3, <1>4, <1>5 DEF Next

\* It holds always.
LEMMA Always == Spec => []IInv
BY Initially, Inductive, PTL DEF Spec

(* What the mirror was told last of a key is the binding the router holds,  *)
(* once every change has been submitted: for any interleaving of the calls  *)
(* of r.mu and of the store, across crashes, writes of another process and  *)
(* restarts that read only a part, but for the three ways the code leaves   *)
(* open.                                                                    *)
THEOREM MirrorFollows == Spec => []SentIsBinding
<1>1. IInv => SentIsBinding
  BY DEF IInv, Told, SentIsBinding
<1>2. QED
  BY <1>1, Always, PTL

(* Requests of one session that resolve at the same time hold one account,  *)
(* for any number of requests, keys and accounts.                           *)
THEOREM OneAccount == Spec => []OneAccountPerSession
<1>1. IInv => OneAccountPerSession
  <2>1. SUFFICES ASSUME IInv, NEW r \in Reqs, NEW s \in Reqs, Holding(r), Holding(s),
                        req[r].key = req[s].key, calm[req[r].key]
                 PROVE  req[r].uid = req[s].uid
    BY DEF OneAccountPerSession, Holding
  <2>2. req[r].key \in Keys
    BY <2>1 DEF IInv, TypeOK, Holding
  <2>3. Seeing(r, req[r].key) /\ Seeing(s, req[r].key)
    BY <2>1, <2>2 DEF IInv, Together
  <2>4. QED
    BY <2>1, <2>3 DEF Seeing, Holding
<1>2. QED
  BY <1>1, Always, PTL
=============================================================================
