-------------------------- MODULE ChatStream_proofs --------------------------
(***************************************************************************)
(* Safety of one answer for any events, requests, bounds and custom tools: *)
(* what the writers keep of the upstream's stream, what the client has put *)
(* together, the verdict, the tool calls it is told to run, and the order  *)
(* of the events of the Responses API.                                     *)
(***************************************************************************)
EXTENDS ChatStream, TLAPS, SequenceTheorems, FiniteSetTheorems

-----------------------------------------------------------------------------
(* Types.                                                                  *)

Maps(D, T) == UNION {[S -> T] : S \in SUBSET D}

Texts == [TextKeys -> Pieces]
StreamCall == [id : Words, name : Words, args : Pieces, seen : BOOLEAN]
StreamType == [text : Texts, calls : Maps(Indexes, StreamCall), finish : Words,
               done : BOOLEAN, loop : Nat]

Codes == {"", "client_gone", "upstream_reasoning_loop", "upstream_error", "upstream_parse",
          "upstream_read_error", "upstream_truncated", "invalid_tool_arguments",
          "missing_tool_call", "empty_upstream", "parallel_tool_calls_violation",
          "invalid_tool_call", "tool_contract_violation", "response_format_violation"}
ChatCall == [id : Words, names : Seq(Words), args : Pieces]
ChatType == [text : Texts, calls : Maps(Indexes, ChatCall), finish : Words \cup {"stop"},
             error : Codes, dones : Nat, late : BOOLEAN]

\* Before the end nothing is confused, an announced item is open, and there
\* is no terminal event.
PartNames == TextKeys \cup {"args"}
ItemTypes == {"reasoning", "message", "function_call", "custom_tool_call"}
Item == {Allotted} \cup [type : ItemTypes, parts : Maps(PartNames, Pieces), open : {TRUE}]
Client == [items : Seq(Item), terminal : {""}, output : {<<>>}, confused : {FALSE}]
WriterCall == [out : Nat, id : Words \cup {"generated"}, name : Words, args : Pieces, sent : Nat,
               seen : BOOLEAN, opened : BOOLEAN, shown : BOOLEAN]
Writer == [text : Texts, calls : Maps(Indexes, WriterCall), order : Seq(Indexes),
           legacy : BOOLEAN, finish : Words, failure : Codes, sawDone : BOOLEAN,
           status : {""}, rs : Nat, rsOpen : BOOLEAN, msg : Nat, msgOpen : BOOLEAN,
           parts : SUBSET {"content", "refusal"}, lost : BOOLEAN, client : Client]

-----------------------------------------------------------------------------
(* Maps and sequences.                                                     *)

\* A partial map is a function on a part of its keys.
LEMMA MapsDef ==
  ASSUME NEW D, NEW T, NEW f
  PROVE  f \in Maps(D, T) <=>
           /\ DOMAIN f \subseteq D
           /\ f = [x \in DOMAIN f |-> f[x]]
           /\ \A x \in DOMAIN f : f[x] \in T
<1>1. ASSUME f \in Maps(D, T)
      PROVE  /\ DOMAIN f \subseteq D
             /\ f = [x \in DOMAIN f |-> f[x]]
             /\ \A x \in DOMAIN f : f[x] \in T
  BY <1>1 DEF Maps
<1>2. ASSUME DOMAIN f \subseteq D, f = [x \in DOMAIN f |-> f[x]], \A x \in DOMAIN f : f[x] \in T
      PROVE  f \in Maps(D, T)
  <2>1. f \in [DOMAIN f -> T]
    BY <1>2
  <2>2. QED
    BY <2>1, <1>2 DEF Maps
<1>3. QED
  BY <1>1, <1>2

\* The map with nothing in it is a map of any kind.
LEMMA EmptyMap ==
  ASSUME NEW D, NEW T
  PROVE  Empty \in Maps(D, T) /\ DOMAIN Empty = {}
<1>1. DOMAIN Empty = {} /\ Empty = [x \in DOMAIN Empty |-> Empty[x]]
  BY DEF Empty
<1>2. QED
  BY <1>1, MapsDef

\* A value put into a map gives a map of the same kind.
LEMMA PutType ==
  ASSUME NEW D, NEW T, NEW f \in Maps(D, T), NEW i \in D, NEW v \in T
  PROVE  Put(f, i, v) \in Maps(D, T)
<1>1. /\ DOMAIN f \subseteq D
      /\ \A x \in DOMAIN f : f[x] \in T
  BY MapsDef
<1>2. DOMAIN f \cup {i} \in SUBSET D /\ Put(f, i, v) \in [DOMAIN f \cup {i} -> T]
  BY <1>1 DEF Put
<1>3. QED
  BY <1>2 DEF Maps

\* No pieces are pieces.
LEMMA NoPieces == <<>> \in Pieces
BY DEF Pieces

\* What a whole message brings beyond its beginning completes it.
LEMMA AdditionCompletes ==
  ASSUME NEW old \in Pieces, NEW value \in Pieces, NEW whole \in BOOLEAN
  PROVE  /\ Addition(old, value, whole) \in Pieces
         /\ ~Disagrees(old, value, whole) =>
              old \o Addition(old, value, whole) = IF whole THEN value ELSE old \o value
<1>1. CASE ~whole
  BY <1>1 DEF Addition
<1>2. CASE whole
  <2>1. Len(old) \in Nat /\ Len(value) \in Nat /\ DOMAIN value = 1..Len(value)
    BY LenProperties DEF Pieces
  <2>2. Addition(old, value, whole) = SubSeq(value, Len(old) + 1, Len(value))
    BY <1>2 DEF Addition
  <2>3. \A i \in Len(old) + 1 .. Len(value) : value[i] \in Words
    BY <2>1, ElementOfSeq DEF Pieces
  <2>4. SubSeq(value, Len(old) + 1, Len(value)) \in Seq(Words)
    BY <2>1, <2>3, SubSeqProperties
  <2>5. ASSUME ~Disagrees(old, value, whole)
        PROVE  old \o SubSeq(value, Len(old) + 1, Len(value)) = value
    <3>1. IsPrefix(old, value)
      BY <2>5, <1>2 DEF Disagrees
    <3>2. Len(old) <= Len(value) /\ SubSeq(old, 1, Len(old)) = SubSeq(value, 1, Len(old))
      BY <3>1 DEF IsPrefix
    <3>3. SubSeq(old, 1, Len(old)) = old /\ SubSeq(value, 1, Len(value)) = value
      BY SubSeqFull DEF Pieces
    <3>4. SubSeq(value, 1, Len(old)) \o SubSeq(value, Len(old) + 1, Len(value))
            = SubSeq(value, 1, Len(value))
      <4>1. /\ 1 \in 1..Len(value)+1 /\ Len(old) \in 1-1..Len(value)
            /\ Len(value) \in Len(old)..Len(value)
        BY <2>1, <3>2
      <4>2. value \in Seq(Words)
        BY DEF Pieces
      <4>3. QED
        BY <4>1, <4>2, ConcatAdjacentSubSeq
    <3>5. QED
      BY <3>2, <3>3, <3>4
  <2>6. QED
    BY <1>2, <2>2, <2>4, <2>5 DEF Pieces
<1>3. QED
  BY <1>1, <1>2

-----------------------------------------------------------------------------
(* What the gateway keeps of the upstream's stream.                        *)

\* A call of which nothing is known.
LEMMA NoCallFields ==
  NoCall.id = "" /\ NoCall.name = "" /\ NoCall.args = <<>> /\ ~NoCall.seen
BY DEF NoCall

\* What is known of a call is a call.
LEMMA KnownType ==
  ASSUME NEW st \in StreamType, NEW i \in Indexes
  PROVE  Known(st, i) \in StreamCall
<1>1. NoCall \in StreamCall
  BY NoPieces, WordsAssumption DEF NoCall, StreamCall
<1>2. st.calls \in Maps(Indexes, StreamCall)
  BY DEF StreamType
<1>3. QED
  BY <1>1, <1>2, MapsDef DEF Known

\* A piece of a call belongs to one call; that of the old form to no other.
LEMMA PlaceOfCall ==
  ASSUME NEW st \in StreamType, NEW e \in Event, e.kind = "call", NEW i \in Places(st, e)
  PROVE  i \in Indexes /\ (i = Legacy <=> e.index = Legacy)
<1>1. DOMAIN st.calls \subseteq Indexes
  BY MapsDef DEF StreamType
<1>2. e.index \in Indexes
  BY DEF Event
<1>3. QED
  BY <1>1, <1>2 DEF Places

\* The three kinds of event and their fields.
LEMMA EventFields ==
  ASSUME NEW e \in Event
  PROVE  /\ e.kind \in {"text", "call", "finish"}
         /\ e.kind = "text" => e.key \in TextKeys /\ e.value \in Pieces /\ e.whole \in BOOLEAN
         /\ e.kind = "call" =>
              /\ e.index \in Indexes /\ e.id \in Words /\ e.name \in Words
              /\ e.has \in BOOLEAN /\ e.args \in Pieces /\ e.whole \in BOOLEAN
              /\ ~e.has => e.args = <<>>
              /\ e.index = Legacy => e.id = ""
         /\ e.kind = "finish" => e.reason \in Words \ {""}
BY DEF Event

\* Nothing added makes no difference, in whole messages either.
LEMMA NoAddition ==
  ASSUME NEW old \in Pieces, NEW whole
  PROVE  Addition(old, <<>>, whole) = <<>>
<1>1. Len(old) \in Nat /\ Len(<<>>) = 0
  BY LenProperties, EmptySeq DEF Pieces
<1>2. SubSeq(<<>>, Len(old) + 1, Len(<<>>)) = <<>>
  BY <1>1, SubSeqEmpty
<1>3. QED
  BY <1>2 DEF Addition

\* What an event makes of what is known of a call.
Gains(new, old, e, more) ==
  /\ new \in StreamCall
  /\ new.id = IF e.id # "" THEN e.id ELSE old.id
  /\ new.name = IF e.name # "" THEN e.name ELSE old.name
  /\ new.args = old.args \o more
  /\ new.seen <=> old.seen \/ e.has

\* Whether a loop is counted or not, it is counted in natural numbers.
LEMMA LoopType ==
  ASSUME NEW st \in StreamType, NEW e \in Event, NEW i
  PROVE  Loop(st, e, i) \in Nat
BY DEF Loop, StreamType

\* A text event adds to one text.
LEMMA ObserveText ==
  ASSUME NEW st \in StreamType, NEW e \in Event, e.kind = "text", NEW i
  PROVE  /\ Observe(st, e, i) \in StreamType
         /\ Observe(st, e, i).text =
              [st.text EXCEPT ![e.key] = @ \o Addition(st.text[e.key], e.value, e.whole)]
         /\ Observe(st, e, i).calls = st.calls
         /\ Observe(st, e, i).finish = st.finish
         /\ Observe(st, e, i).done = st.done
<1> DEFINE more == Addition(st.text[e.key], e.value, e.whole)
           seen == [st EXCEPT !.loop = Loop(st, e, i)]
<1>1. /\ e.key \in TextKeys /\ e.value \in Pieces /\ e.whole \in BOOLEAN
      /\ st.text \in Texts /\ st.text[e.key] \in Pieces
  BY EventFields DEF StreamType, Texts
<1>2. st.text[e.key] \o more \in Pieces
  BY <1>1, AdditionCompletes, ConcatProperties DEF Pieces
<1>3. [st.text EXCEPT ![e.key] = @ \o more] \in Texts
  BY <1>1, <1>2 DEF Texts
<1>4. seen \in StreamType /\ seen.text = st.text /\ seen.calls = st.calls
      /\ seen.finish = st.finish /\ seen.done = st.done
  BY LoopType DEF StreamType
<1>5. Observe(st, e, i) = [seen EXCEPT !.text = [st.text EXCEPT ![e.key] = @ \o more]]
  <2>1. Increment(st, e, i).value = more
    BY DEF Increment
  <2>2. Observe(st, e, i) = [seen EXCEPT !.text[e.key] = @ \o Increment(st, e, i).value]
    BY DEF Observe
  <2>3. QED
    BY <2>1, <2>2, <1>4 DEF StreamType
<1>6. QED
  BY <1>3, <1>4, <1>5 DEF StreamType

\* A finish event sets the finish reason.
LEMMA ObserveFinish ==
  ASSUME NEW st \in StreamType, NEW e \in Event, e.kind = "finish", NEW i
  PROVE  Observe(st, e, i) = [st EXCEPT !.finish = e.reason] /\ Observe(st, e, i) \in StreamType
<1>1. Observe(st, e, i) = [st EXCEPT !.finish = e.reason]
  BY DEF Observe
<1>2. QED
  BY <1>1, EventFields DEF StreamType

\* A call event adds to one call, or does nothing if it is no call.
LEMMA ObserveCall ==
  ASSUME NEW st \in StreamType, NEW e \in Event, e.kind = "call", NEW i \in Indexes
  PROVE  /\ Observe(st, e, i) \in StreamType
         /\ Observe(st, e, i).text = st.text
         /\ Observe(st, e, i).finish = st.finish
         /\ Observe(st, e, i).done = st.done
         /\ IsPlaceholder(st, e) => Observe(st, e, i) = st
         /\ ~IsPlaceholder(st, e) =>
              /\ DOMAIN Observe(st, e, i).calls = DOMAIN st.calls \cup {i}
              /\ Gains(Known(Observe(st, e, i), i), Known(st, i), e,
                       Addition(Known(st, i).args, e.args, e.whole))
              /\ \A j \in Indexes \ {i} : Known(Observe(st, e, i), j) = Known(st, j)
<1> DEFINE old == Known(st, i)
           more == Increment(st, e, i).args
           seen == [st EXCEPT !.loop = Loop(st, e, i)]
           newId == IF e.id # "" THEN e.id ELSE old.id
           newName == IF e.name # "" THEN e.name ELSE old.name
           newArgs == old.args \o (IF e.has THEN more ELSE <<>>)
           newSeen == old.seen \/ e.has
           new == [id |-> newId, name |-> newName, args |-> newArgs, seen |-> newSeen]
<1>1. /\ e.id \in Words /\ e.name \in Words /\ e.has \in BOOLEAN
      /\ e.args \in Pieces /\ e.whole \in BOOLEAN
      /\ ~e.has => e.args = <<>>
  BY EventFields
<1>2. old \in StreamCall /\ old.args \in Pieces
  BY KnownType DEF StreamCall
<1>3. more = Addition(old.args, e.args, e.whole)
  BY DEF Increment
<1>4. more \in Pieces /\ (~e.has => more = <<>>)
  <2> HIDE DEF old, more
  <2>1. Addition(old.args, e.args, e.whole) \in Pieces
    BY <1>1, <1>2, AdditionCompletes
  <2>2. ~e.has => Addition(old.args, e.args, e.whole) = <<>>
    BY <1>1, <1>2, NoAddition
  <2>3. QED
    BY <1>3, <2>1, <2>2
<1>5. /\ newId \in Words /\ newName \in Words /\ newSeen \in BOOLEAN
      /\ newArgs = old.args \o more /\ newArgs \in Pieces
  <2> HIDE DEF old, more
  <2>1. newArgs = old.args \o more
    BY <1>1, <1>4
  <2>2. old.args \o more \in Pieces
    BY <1>2, <1>4, ConcatProperties DEF Pieces
  <2>3. newId \in Words /\ newName \in Words /\ newSeen \in BOOLEAN
    BY <1>1, <1>2 DEF StreamCall
  <2>4. QED
    BY <2>1, <2>2, <2>3
<1>6. st.calls \in Maps(Indexes, StreamCall)
  BY DEF StreamType
<1>7. seen \in StreamType /\ seen.text = st.text /\ seen.calls = st.calls
      /\ seen.finish = st.finish /\ seen.done = st.done
  BY LoopType DEF StreamType
<1>8. CASE IsPlaceholder(st, e)
  BY <1>3, <1>8 DEF Observe
<1>9. CASE ~IsPlaceholder(st, e)
  <2>1. Observe(st, e, i) = [seen EXCEPT !.calls = Put(st.calls, i, new)]
    <3>1. Observe(st, e, i) = [seen EXCEPT !.calls = Put(@, i, new)]
      BY <1>9 DEF Observe
    <3> HIDE DEF new
    <3>2. QED
      BY <3>1, <1>7 DEF StreamType
  <2>2. Gains(new, old, e, more)
    <3>1. /\ newId = IF e.id # "" THEN e.id ELSE old.id
          /\ newName = IF e.name # "" THEN e.name ELSE old.name
          /\ newSeen <=> old.seen \/ e.has
      OBVIOUS
    <3> HIDE DEF newId, newName, newArgs, newSeen, old, more
    <3>2. new \in StreamCall /\ new.id = newId /\ new.name = newName /\ new.args = newArgs
          /\ new.seen = newSeen
      BY <1>5 DEF StreamCall
    <3>3. QED
      BY <1>5, <3>1, <3>2 DEF Gains
  <2> HIDE DEF new
  <2>3. /\ Put(st.calls, i, new) \in Maps(Indexes, StreamCall)
        /\ DOMAIN Put(st.calls, i, new) = DOMAIN st.calls \cup {i}
        /\ Put(st.calls, i, new)[i] = new
        /\ \A j \in DOMAIN st.calls : j # i => Put(st.calls, i, new)[j] = st.calls[j]
    <3>1. Put(st.calls, i, new) \in Maps(Indexes, StreamCall)
      BY <1>6, <2>2, PutType DEF Gains
    <3>2. QED
      BY <3>1 DEF Put
  <2>4. /\ Observe(st, e, i) \in StreamType
        /\ Observe(st, e, i).calls = Put(st.calls, i, new)
        /\ Observe(st, e, i).text = st.text
        /\ Observe(st, e, i).finish = st.finish
        /\ Observe(st, e, i).done = st.done
    BY <1>7, <2>1, <2>3 DEF StreamType
  <2>5. /\ Known(Observe(st, e, i), i) = new
        /\ \A j \in Indexes \ {i} : Known(Observe(st, e, i), j) = Known(st, j)
    BY <2>3, <2>4 DEF Known
  <2>6. QED
    BY <1>3, <1>9, <2>2, <2>3, <2>4, <2>5
<1>10. QED
  BY <1>8, <1>9

-----------------------------------------------------------------------------
(* What Stream writes of an event.                                         *)

\* The frames of deltas.
Frames ==
  [kind : {"text"}, key : TextKeys, value : Pieces]
  \cup [kind : {"call"}, index : Indexes, id : Words, name : Words, has : BOOLEAN, args : Pieces]

\* Nothing of call i has gone to the client.
Silent(st, i) == Known(st, i) = NoCall /\ (i = Legacy => i \notin DOMAIN st.calls)

\* The calls of which the name has gone out.
Names(st, n) == \A i \in Indexes : i \in n <=> i # Legacy /\ Known(st, i).name # ""

\* Text goes on as it is added.
LEMMA FrameOfText ==
  ASSUME NEW st \in StreamType, NEW e \in Event, e.kind = "text", NEW i, NEW n
  PROVE  /\ Frame(Increment(st, e, i), n) =
              [kind |-> "text", key |-> e.key,
               value |-> Addition(st.text[e.key], e.value, e.whole)]
         /\ Frame(Increment(st, e, i), n) \in Frames
         /\ Named(Increment(st, e, i), n) = n
<1>1. Addition(st.text[e.key], e.value, e.whole) \in Pieces /\ e.key \in TextKeys
  BY EventFields, AdditionCompletes DEF StreamType, Texts
<1>2. Increment(st, e, i) = [kind |-> "text", key |-> e.key,
                             value |-> Addition(st.text[e.key], e.value, e.whole)]
  BY DEF Increment
<1>3. QED
  BY <1>1, <1>2 DEF Frame, Named, Frames

\* A finish event writes nothing for now.
LEMMA FrameOfFinish ==
  ASSUME NEW st, NEW e \in Event, e.kind = "finish", NEW i, NEW n
  PROVE  Frame(Increment(st, e, i), n) = Nothing /\ Named(Increment(st, e, i), n) = n
BY DEF Increment, Frame, Named, Nothing

\* What goes out of a piece of a call makes the same of what is known of it
\* as the piece itself; a tool's name goes out once.
LEMMA FrameOfCall ==
  ASSUME NEW st \in StreamType, NEW e \in Event, e.kind = "call", NEW i \in Indexes,
         i = Legacy <=> e.index = Legacy, NEW n, Names(st, n),
         ~Contradicts(st, e, i), ~IsPlaceholder(st, e),
         NEW old, old = Known(st, i), NEW new, new = Known(Observe(st, e, i), i),
         NEW d, d = Frame(Increment(st, e, i), n)
  PROVE  /\ \/ /\ d = Nothing
               /\ new.id = old.id /\ new.name = old.name /\ new.args = old.args
               /\ i = Legacy => i \in DOMAIN st.calls
               /\ i # Legacy /\ old = NoCall => new = NoCall
            \/ /\ d \in Frames /\ d.kind = "call" /\ d.index = i
               /\ new.id = (IF d.id # "" THEN d.id ELSE old.id)
               /\ new.name = (IF d.name # "" THEN d.name ELSE old.name)
               /\ new.args = old.args \o d.args
               /\ d.name # "" /\ i # Legacy => old.name = ""
               /\ d.name # "" => old.name \in {"", d.name}
               /\ ~d.has => d.args = <<>>
               /\ i = Legacy => d.id = "" /\ (d.name # "" \/ d.args # <<>>)
         /\ Names(Observe(st, e, i), Named(Increment(st, e, i), n))
<1> DEFINE more == Addition(old.args, e.args, e.whole)
           delta == Increment(st, e, i)
           deltaId == IF e.whole /\ old.id # "" THEN "" ELSE e.id
           deltaName == IF e.whole /\ old.name # "" THEN "" ELSE e.name
           deltaHas == e.has /\ (~e.whole \/ more # <<>> \/ ~old.seen)
<1>1. /\ e.id \in Words /\ e.name \in Words /\ e.has \in BOOLEAN
      /\ e.args \in Pieces /\ e.whole \in BOOLEAN
      /\ ~e.has => e.args = <<>>
      /\ i = Legacy => e.id = ""
  BY EventFields
<1>2. old \in StreamCall /\ old.args \in Pieces
  BY KnownType DEF StreamCall
<1>3. more \in Pieces
  BY <1>1, <1>2, AdditionCompletes
<1>4. ~e.has => more = <<>>
  BY <1>1, <1>2, NoAddition
<1>a. delta = [kind |-> "call", index |-> i, id |-> deltaId, name |-> deltaName,
               has |-> deltaHas, args |-> more]
  BY DEF Increment
<1>b. /\ deltaId \in Words /\ deltaName \in Words /\ deltaHas \in BOOLEAN
      /\ deltaId = IF e.whole /\ old.id # "" THEN "" ELSE e.id
      /\ deltaName = IF e.whole /\ old.name # "" THEN "" ELSE e.name
      /\ deltaHas <=> e.has /\ (~e.whole \/ more # <<>> \/ ~old.seen)
  BY <1>1, <1>2, WordsAssumption DEF StreamCall
<1> HIDE DEF deltaId, deltaName, deltaHas
<1>5. /\ delta.kind = "call" /\ delta.index = i /\ delta.args = more
      /\ delta.id \in Words /\ delta.name \in Words /\ delta.has \in BOOLEAN
      /\ delta.id = IF e.whole /\ old.id # "" THEN "" ELSE e.id
      /\ delta.name = IF e.whole /\ old.name # "" THEN "" ELSE e.name
      /\ delta.has <=> e.has /\ (~e.whole \/ more # <<>> \/ ~old.seen)
      /\ delta = [kind |-> "call", index |-> i, id |-> delta.id, name |-> delta.name,
                  has |-> delta.has, args |-> more]
  <2> HIDE DEF more, delta
  <2>1. QED
    BY <1>a, <1>b
<1>6. /\ e.id # "" => old.id \in {"", e.id}
      /\ e.name # "" => old.name \in {"", e.name}
  BY DEF Contradicts
<1>7. /\ Gains(new, old, e, more)
      /\ new.id = IF e.id # "" THEN e.id ELSE old.id
      /\ new.name = IF e.name # "" THEN e.name ELSE old.name
      /\ new.args = old.args \o more
      /\ \A j \in Indexes \ {i} : Known(Observe(st, e, i), j) = Known(st, j)
  <2>1. /\ Gains(new, old, e, more)
        /\ \A j \in Indexes \ {i} : Known(Observe(st, e, i), j) = Known(st, j)
    BY ObserveCall
  <2>2. QED
    BY <2>1 DEF Gains
<1>8. i \in n <=> i # Legacy /\ old.name # ""
  BY DEF Names
<1> HIDE DEF more, delta
<1>9. delta.kind = "call" /\ delta.index = i
  BY <1>5
<1> DEFINE gName == IF delta.index \in n THEN "" ELSE delta.name
           g == [delta EXCEPT !.name = gName]
<1>c. gName \in Words /\ gName = IF i \in n THEN "" ELSE delta.name
  BY <1>5, WordsAssumption
<1> HIDE DEF gName
<1>10. /\ g.kind = "call" /\ g.index = i /\ g.id = delta.id
       /\ g.name = IF i \in n THEN "" ELSE delta.name
       /\ g.has = delta.has /\ g.args = more
       /\ g \in Frames
  <2>1. g = [kind |-> "call", index |-> i, id |-> deltaId, name |-> gName,
             has |-> deltaHas, args |-> more]
    BY <1>a
  <2> HIDE DEF g
  <2>2. QED
    BY <1>3, <1>a, <1>5, <1>c, <2>1 DEF Frames
<1> HIDE DEF g
<1>11. d = IF g.index = Legacy /\ g.name = "" /\ g.args = <<>> THEN Nothing
           ELSE IF g.index # Legacy /\ delta.id = "" /\ delta.name = "" /\ ~delta.has THEN Nothing
           ELSE g
  BY <1>9 DEF Frame, g, gName, delta
<1>12. old.args \o <<>> = old.args
  BY <1>2, ConcatEmptySeq DEF Pieces
<1>13. Names(Observe(st, e, i), Named(delta, n))
  <2>1. Named(delta, n) = IF i # Legacy /\ delta.name # "" THEN n \cup {i} ELSE n
    BY <1>9 DEF Named
  <2>2. new.name # "" <=> delta.name # "" \/ old.name # ""
    BY <1>5, <1>6, <1>7
  <2>3. QED
    BY <1>7, <2>1, <2>2 DEF Names
<1>14. CASE i = Legacy /\ g.name = "" /\ more = <<>>
  <2>1. d = Nothing
    BY <1>10, <1>11, <1>14
  <2>2. delta.name = "" /\ e.id = ""
    BY <1>1, <1>8, <1>10, <1>14
  <2>3. new.id = old.id /\ new.name = old.name /\ new.args = old.args
    BY <1>5, <1>6, <1>7, <1>12, <1>14, <2>2
  <2>4. Legacy \in DOMAIN st.calls
    <3>1. SUFFICES ASSUME Legacy \notin DOMAIN st.calls PROVE FALSE
      OBVIOUS
    <3>2. old.name = "" /\ old.args = <<>>
      BY <1>14, <3>1 DEF Known, NoCall
    <3>3. e.name = ""
      BY <1>5, <2>2, <3>2
    <3>4. e.args = <<>>
      <4>1. ~Disagrees(old.args, e.args, e.whole) => old.args \o more = IF e.whole THEN e.args ELSE old.args \o e.args
        BY <1>1, <1>2, AdditionCompletes, ZenonT(60) DEF more
      <4>2. ~e.has \/ ~Disagrees(old.args, e.args, e.whole)
        BY DEF Contradicts
      <4>3. old.args \o e.args = e.args
        BY <1>1, <3>2, ConcatEmptySeq DEF Pieces
      <4>4. QED
        BY <1>1, <1>12, <1>14, <3>2, <4>1, <4>2, <4>3
    <3>5. QED
      BY <1>14, <3>1, <3>3, <3>4 DEF IsPlaceholder
  <2>5. QED
    BY <1>13, <1>14, <2>1, <2>3, <2>4 DEF delta
<1>15. CASE i # Legacy /\ delta.id = "" /\ delta.name = "" /\ ~delta.has
  <2>1. d = Nothing
    BY <1>10, <1>11, <1>15
  <2>2. more = <<>>
    BY <1>4, <1>5, <1>15
  <2>3. new.id = old.id /\ new.name = old.name /\ new.args = old.args
    BY <1>5, <1>6, <1>7, <1>12, <1>15, <2>2
  <2>4. ASSUME old = NoCall PROVE new = NoCall
    <3>1. old.id = "" /\ old.name = "" /\ old.args = <<>> /\ ~old.seen
      BY <2>4, NoCallFields
    <3>2. ~e.has
      BY <1>1, <1>5, <1>15, <3>1
    <3>3. new \in StreamCall /\ ~new.seen
      BY <1>7, <3>1, <3>2 DEF Gains
    <3>4. new.id = "" /\ new.name = "" /\ new.args = <<>>
      BY <2>3, <3>1
    <3>5. new = [id |-> "", name |-> "", args |-> <<>>, seen |-> FALSE]
      BY <3>3, <3>4 DEF StreamCall
    <3>6. QED
      BY <3>5 DEF NoCall
  <2>5. QED
    BY <1>13, <1>15, <2>1, <2>3, <2>4 DEF delta
<1>16. CASE ~(i = Legacy /\ g.name = "" /\ more = <<>>)
            /\ ~(i # Legacy /\ delta.id = "" /\ delta.name = "" /\ ~delta.has)
  <2>1. d = g
    BY <1>10, <1>11, <1>16
  <2>2. d \in Frames /\ d.kind = "call" /\ d.index = i /\ d.args = more
    BY <1>10, <2>1
  <2>3. new.id = (IF d.id # "" THEN d.id ELSE old.id)
    BY <1>5, <1>6, <1>7, <1>10, <2>1
  <2>4. /\ new.name = (IF d.name # "" THEN d.name ELSE old.name)
        /\ d.name # "" /\ i # Legacy => old.name = ""
        /\ d.name # "" => old.name \in {"", d.name}
    BY <1>5, <1>6, <1>7, <1>8, <1>10, <2>1
  <2>5. /\ ~d.has => d.args = <<>>
        /\ i = Legacy => d.id = "" /\ (d.name # "" \/ d.args # <<>>)
    BY <1>1, <1>4, <1>5, <1>10, <1>16, <2>1
  <2>6. QED
    BY <1>7, <1>13, <2>2, <2>3, <2>4, <2>5 DEF delta
<1>17. QED
  BY <1>14, <1>15, <1>16

-----------------------------------------------------------------------------
(* The items of the Responses API.                                         *)

\* A new item stands behind the others.
LEMMA AppendItem ==
  ASSUME NEW its \in Seq(Item), NEW item \in Item, NEW n, n = Len(its) + 1
  PROVE  /\ Append(its, item) \in Seq(Item)
         /\ DOMAIN Append(its, item) = DOMAIN its \cup {n}
         /\ n \notin DOMAIN its /\ n \in Nat /\ n # 0 /\ 0 \notin DOMAIN its
         /\ DOMAIN its \subseteq Nat
         /\ Append(its, item)[n] = item
         /\ \A o \in DOMAIN its : Append(its, item)[o] = its[o]
<1>1. Len(its) \in Nat /\ DOMAIN its = 1..Len(its)
  BY LenProperties
<1>2. /\ Append(its, item) \in Seq(Item)
      /\ Len(Append(its, item)) = Len(its) + 1
      /\ \A o \in 1..Len(its) : Append(its, item)[o] = its[o]
      /\ Append(its, item)[Len(its) + 1] = item
  BY AppendProperties
<1>3. DOMAIN Append(its, item) = 1..Len(its) + 1
  BY <1>2, LenProperties
<1>4. 1..Len(its) + 1 = 1..Len(its) \cup {Len(its) + 1}
  BY <1>1
<1>5. QED
  BY <1>1, <1>2, <1>3, <1>4

\* An item is replaced where it stands.
LEMMA ExceptItem ==
  ASSUME NEW its \in Seq(Item), NEW out \in DOMAIN its, NEW item \in Item
  PROVE  /\ [its EXCEPT ![out] = item] \in Seq(Item)
         /\ DOMAIN [its EXCEPT ![out] = item] = DOMAIN its
         /\ [its EXCEPT ![out] = item][out] = item
         /\ \A o \in DOMAIN its : o # out => [its EXCEPT ![out] = item][o] = its[o]
<1>1. DOMAIN its = 1..Len(its)
  BY LenProperties
<1>2. [its EXCEPT ![out] = item] \in Seq(Item)
  BY <1>1, ExceptSeq
<1>3. QED
  BY <1>2

\* Places are numbers from one on.
LEMMA ItemPlaces ==
  ASSUME NEW its \in Seq(Item)
  PROVE  /\ DOMAIN its \subseteq Nat /\ 0 \notin DOMAIN its
         /\ \A o \in DOMAIN its : its[o] \in Item
<1>1. DOMAIN its = 1..Len(its) /\ Len(its) \in Nat
  BY LenProperties
<1>2. \A o \in DOMAIN its : its[o] \in Item
  BY <1>1, ElementOfSeq
<1>3. QED
  BY <1>1, <1>2

\* An event that fits puts what the client has in place of what it had.
LEMMA EmitFits ==
  ASSUME NEW r \in Writer, ~r.lost, NEW c \in Client, NEW fits, fits
  PROVE  Emit(r, c, fits) = [r EXCEPT !.client = c]
<1> DEFINE confused == c.confused \/ ~fits \/ r.client.terminal # ""
<1>1. r.client.terminal = "" /\ c.confused = FALSE
  BY DEF Writer, Client
<1>2. confused = FALSE
  BY <1>1
<1>3. Emit(r, c, fits) = [r EXCEPT !.client = [c EXCEPT !.confused = confused]]
  BY DEF Emit
<1> HIDE DEF confused
<1>4. [c EXCEPT !.confused = FALSE] = c
  BY DEF Client
<1>5. QED
  BY <1>2, <1>3, <1>4

\* After the client's connection is lost nothing is sent.
LEMMA EmitLost ==
  ASSUME NEW r, r.lost, NEW c, NEW fits
  PROVE  Emit(r, c, fits) = r
BY DEF Emit

\* The writer with another item in one place.
WithItem(r, out, item) ==
  [r EXCEPT !.client = [r.client EXCEPT !.items = [r.client.items EXCEPT ![out] = item]]]

\* The fields of the writer that are not the client's, but for the text.
SameCalls(r, s) ==
  /\ s.calls = r.calls /\ s.order = r.order /\ s.legacy = r.legacy
  /\ s.finish = r.finish /\ s.failure = r.failure /\ s.sawDone = r.sawDone
  /\ s.lost = r.lost
SamePlaces(r, s) ==
  s.rs = r.rs /\ s.rsOpen = r.rsOpen /\ s.msg = r.msg /\ s.msgOpen = r.msgOpen /\ s.parts = r.parts

Replaced(r, s, out, item) ==
  /\ s \in Writer /\ SameCalls(r, s) /\ SamePlaces(r, s) /\ s.text = r.text
  /\ s.client.items = [r.client.items EXCEPT ![out] = item]

\* It is a writer and differs in nothing else.
LEMMA WithItemType ==
  ASSUME NEW r \in Writer, NEW out \in DOMAIN r.client.items, NEW item \in Item
  PROVE  /\ Replaced(r, WithItem(r, out, item), out, item)
         /\ [r.client EXCEPT !.items = [r.client.items EXCEPT ![out] = item]] \in Client
<1>1. r.client \in Client /\ r.client.items \in Seq(Item)
  BY DEF Writer, Client
<1>2. [r.client.items EXCEPT ![out] = item] \in Seq(Item)
  BY <1>1, ExceptItem
<1> DEFINE its == [r.client.items EXCEPT ![out] = item]
           c == [r.client EXCEPT !.items = its]
<1> HIDE DEF its
<1>3. c \in Client /\ c.items = its
  BY <1>1, <1>2 DEF Client, its
<1> HIDE DEF c
<1>4. [r EXCEPT !.client = c] \in Writer /\ [r EXCEPT !.client = c].client = c
  BY <1>3 DEF Writer
<1>5. SameCalls(r, [r EXCEPT !.client = c]) /\ SamePlaces(r, [r EXCEPT !.client = c])
      /\ [r EXCEPT !.client = c].text = r.text
  BY DEF Writer, SameCalls, SamePlaces
<1>6. QED
  BY <1>3, <1>4, <1>5 DEF WithItem, Replaced, its, c

\* An event changes one item, or nothing when the client is lost.
Becomes(r, s, out, item) == IF r.lost THEN s = r ELSE Replaced(r, s, out, item)

\* Allotting a place changes no other.
LEMMA AllotType ==
  ASSUME NEW r \in Writer
  PROVE  /\ Allot(r) \in Writer
         /\ SameCalls(r, Allot(r)) /\ SamePlaces(r, Allot(r)) /\ Allot(r).text = r.text
         /\ Allot(r).client.items = Append(r.client.items, Allotted)
<1>1. r.client \in Client /\ r.client.items \in Seq(Item) /\ Allotted \in Item
  BY DEF Writer, Client, Item
<1> DEFINE its == Append(r.client.items, Allotted)
           c == [r.client EXCEPT !.items = its]
<1>2. its \in Seq(Item)
  BY <1>1, AppendItem
<1> HIDE DEF its
<1>3. c \in Client /\ c.items = its
  BY <1>1, <1>2 DEF Client
<1>4. Allot(r) = [r EXCEPT !.client = c]
  BY <1>1 DEF Allot, Writer, its
<1> HIDE DEF c
<1>5. [r EXCEPT !.client = c] \in Writer /\ [r EXCEPT !.client = c].client = c
  BY <1>3 DEF Writer
<1>6. SameCalls(r, [r EXCEPT !.client = c]) /\ SamePlaces(r, [r EXCEPT !.client = c])
      /\ [r EXCEPT !.client = c].text = r.text
  BY DEF Writer, SameCalls, SamePlaces
<1>7. QED
  BY <1>3, <1>4, <1>5, <1>6 DEF its

\* An allotted item is announced.
LEMMA AnnounceFits ==
  ASSUME NEW r \in Writer, NEW out \in DOMAIN r.client.items, NEW type \in ItemTypes,
         r.client.items[out] = Allotted
  PROVE  Becomes(r, Announce(r, out, type), out, Announced(type))
<1>1. Announced(type) \in Item
  BY EmptyMap DEF Announced, Item
<1>2. CASE r.lost
  BY <1>1, <1>2, EmitLost DEF Announce, Becomes
<1>3. CASE ~r.lost
  <2>1. [r.client EXCEPT !.items = [r.client.items EXCEPT ![out] = Announced(type)]] \in Client
    BY <1>1, WithItemType
  <2>2. Announce(r, out, type) =
          Emit(r, [r.client EXCEPT !.items = [r.client.items EXCEPT ![out] = Announced(type)]],
               r.client.items[out] = Allotted)
    BY DEF Announce, Writer, Client
  <2>3. QED
    <3> DEFINE fits == r.client.items[out] = Allotted
    <3> HIDE DEF fits
    <3>1. fits
      BY DEF fits
    <3>2. Announce(r, out, type) = WithItem(r, out, Announced(type))
      BY <1>3, <2>1, <2>2, <3>1, EmitFits DEF WithItem, fits
    <3>3. Replaced(r, WithItem(r, out, Announced(type)), out, Announced(type))
      BY <1>1, WithItemType
    <3>4. QED
      BY <1>3, <3>2, <3>3 DEF Becomes
<1>4. QED
  BY <1>2, <1>3

\* A part is added to an open item that has no such part.
LEMMA AddPartFits ==
  ASSUME NEW r \in Writer, NEW out \in DOMAIN r.client.items, NEW part \in PartNames,
         NEW item, item = r.client.items[out], item # Allotted, part \notin DOMAIN item.parts,
         NEW new, new = [item EXCEPT !.parts = Put(item.parts, part, <<>>)]
  PROVE  Becomes(r, AddPart(r, out, part), out, new)
<1>1. r.client.items \in Seq(Item)
  BY DEF Writer, Client
<1>2. item \in Item
  BY <1>1, ItemPlaces
<1>3. item \in [type : ItemTypes, parts : Maps(PartNames, Pieces), open : {TRUE}]
  BY <1>2 DEF Item
<1>4. Put(item.parts, part, <<>>) \in Maps(PartNames, Pieces)
  <2>1. item.parts \in Maps(PartNames, Pieces)
    BY <1>3
  <2>2. QED
    BY <2>1, NoPieces, PutType
<1>5. new \in Item
  BY <1>3, <1>4 DEF Item
<1>6. CASE r.lost
  BY <1>5, <1>6 DEF AddPart, Becomes
<1>7. CASE ~r.lost
  <2>1. [r.client EXCEPT !.items = [r.client.items EXCEPT ![out] = new]] \in Client
    BY <1>5, WithItemType
  <2>2. AddPart(r, out, part) =
          Emit(r, [r.client EXCEPT !.items = [r.client.items EXCEPT ![out] = new]],
               IsOpen(r, out) /\ part \notin DOMAIN r.client.items[out].parts)
    BY <1>1, <1>7 DEF AddPart, Writer, Client
  <2>3. IsOpen(r, out) /\ part \notin DOMAIN r.client.items[out].parts
    BY <1>3 DEF IsOpen
  <2> DEFINE c == [r.client EXCEPT !.items = [r.client.items EXCEPT ![out] = new]]
  <2>4. WithItem(r, out, new) = [r EXCEPT !.client = c]
    BY DEF WithItem
  <2> DEFINE fits == IsOpen(r, out) /\ part \notin DOMAIN r.client.items[out].parts
  <2>5. fits /\ c \in Client /\ AddPart(r, out, part) = Emit(r, c, fits)
    BY <2>1, <2>2, <2>3
  <2> HIDE DEF c, fits
  <2>6. Emit(r, c, fits) = [r EXCEPT !.client = c]
    BY <1>7, <2>5, EmitFits
  <2>7. QED
    <3>1. Replaced(r, WithItem(r, out, new), out, new)
      BY <1>5, WithItemType
    <3>2. AddPart(r, out, part) = WithItem(r, out, new)
      BY <2>4, <2>5, <2>6
    <3>3. QED
      BY <1>7, <3>1, <3>2 DEF Becomes
<1>8. QED
  BY <1>6, <1>7

\* A delta goes to a part of an open item.
LEMMA DeltaFits ==
  ASSUME NEW r \in Writer, NEW out \in DOMAIN r.client.items, NEW part, NEW value \in Pieces,
         NEW item, item = r.client.items[out], item # Allotted, part \in DOMAIN item.parts,
         NEW new,
         new = [item EXCEPT !.parts = [item.parts EXCEPT ![part] = item.parts[part] \o value]]
  PROVE  Becomes(r, Delta(r, out, part, value), out, new)
<1>1. r.client.items \in Seq(Item)
  BY DEF Writer, Client
<1>2. item \in Item
  BY <1>1, ItemPlaces
<1>3. item \in [type : ItemTypes, parts : Maps(PartNames, Pieces), open : {TRUE}]
  BY <1>2 DEF Item
<1>4. [item.parts EXCEPT ![part] = item.parts[part] \o value] \in Maps(PartNames, Pieces)
  <2>1. /\ DOMAIN item.parts \subseteq PartNames
        /\ \A x \in DOMAIN item.parts : item.parts[x] \in Pieces
    BY <1>3, MapsDef
  <2>2. item.parts[part] \o value \in Pieces
    BY <2>1, ConcatProperties DEF Pieces
  <2> DEFINE f == [item.parts EXCEPT ![part] = item.parts[part] \o value]
  <2>3. DOMAIN f \subseteq PartNames /\ f = [x \in DOMAIN f |-> f[x]]
    BY <2>1
  <2>4. \A x \in DOMAIN f : f[x] \in Pieces
    BY <2>1, <2>2
  <2> HIDE DEF f
  <2>5. f \in Maps(PartNames, Pieces)
    BY <2>3, <2>4, MapsDef
  <2>6. QED
    BY <2>5 DEF f
<1>5. new \in Item
  BY <1>3, <1>4 DEF Item
<1>6. CASE r.lost
  BY <1>5, <1>6 DEF Delta, Becomes
<1>7. CASE ~r.lost
  <2>1. [r.client EXCEPT !.items = [r.client.items EXCEPT ![out] = new]] \in Client
    BY <1>5, WithItemType
  <2>2. Delta(r, out, part, value) =
          Emit(r, [r.client EXCEPT !.items = [r.client.items EXCEPT ![out] = new]],
               IsOpen(r, out) /\ part \in DOMAIN r.client.items[out].parts)
    BY <1>1, <1>7 DEF Delta, Writer, Client
  <2>3. IsOpen(r, out) /\ part \in DOMAIN r.client.items[out].parts
    BY <1>3 DEF IsOpen
  <2> DEFINE c == [r.client EXCEPT !.items = [r.client.items EXCEPT ![out] = new]]
  <2>4. WithItem(r, out, new) = [r EXCEPT !.client = c]
    BY DEF WithItem
  <2> DEFINE fits == IsOpen(r, out) /\ part \in DOMAIN r.client.items[out].parts
  <2>5. fits /\ c \in Client /\ Delta(r, out, part, value) = Emit(r, c, fits)
    BY <2>1, <2>2, <2>3
  <2> HIDE DEF c, fits
  <2>6. Emit(r, c, fits) = [r EXCEPT !.client = c]
    BY <1>7, <2>5, EmitFits
  <2>7. QED
    <3>1. Replaced(r, WithItem(r, out, new), out, new)
      BY <1>5, WithItemType
    <3>2. QED
      BY <1>7, <2>4, <2>5, <2>6, <3>1, ZenonT(60) DEF Becomes
<1>8. QED
  BY <1>6, <1>7

-----------------------------------------------------------------------------
(* What the client of the Responses API has is what the writer keeps: every *)
(* place is that of the reasoning, the message or one call.                 *)

Reasoning(r) ==
  [type |-> "reasoning", parts |-> [p \in {"reasoning_content"} |-> r.text[p]], open |-> TRUE]
Message(r) == [type |-> "message", parts |-> MessageContent(r), open |-> TRUE]
Shown(call, args) ==
  [type |-> Type(call.name), open |-> TRUE,
   parts |-> IF IsCustom(call) THEN Empty ELSE [p \in {"args"} |-> args]]
CallItem(call) == IF call.opened THEN Shown(call, call.args) ELSE Allotted

ReasoningFits(r) ==
  IF r.rsOpen THEN r.rs \in DOMAIN r.client.items /\ r.client.items[r.rs] = Reasoning(r)
  ELSE r.rs = 0 /\ r.text["reasoning_content"] = <<>>
MessageFits(r) ==
  /\ IF r.msgOpen
     THEN r.msg \in DOMAIN r.client.items /\ r.msg # r.rs /\ r.client.items[r.msg] = Message(r)
     ELSE r.msg = 0 /\ r.parts = {}
  /\ \A p \in {"content", "refusal"} \ r.parts : r.text[p] = <<>>
Placed(r, call) ==
  call.out \in DOMAIN r.client.items /\ call.out # r.rs /\ call.out # r.msg
Sent(call) ==
  /\ call.shown = call.opened
  /\ call.sent = IF call.opened /\ ~IsCustom(call) THEN Len(call.args) ELSE 0
  /\ call.opened => call.name # ""
CallsFit(r) ==
  \A i \in DOMAIN r.calls :
    /\ Placed(r, r.calls[i]) /\ Sent(r.calls[i])
    /\ r.client.items[r.calls[i].out] = CallItem(r.calls[i])
    /\ r.calls[i].opened => i \in ReadyCalls(r)
Apart(r) ==
  \A i, j \in DOMAIN r.calls : r.calls[i].out = r.calls[j].out => i = j
Covered(r) ==
  \A o \in DOMAIN r.client.items :
    o = r.rs \/ o = r.msg \/ \E i \in DOMAIN r.calls : r.calls[i].out = o
Ordered(r) == DOMAIN r.calls = {r.order[k] : k \in DOMAIN r.order}
Fitting(r) ==
  /\ ReasoningFits(r) /\ MessageFits(r) /\ CallsFit(r)
  /\ Apart(r) /\ Covered(r) /\ Ordered(r)

Good(r) == r \in Writer /\ (~r.lost => Fitting(r))

\* It keeps calls.
LEMMA GoodCalls ==
  ASSUME NEW r, Good(r)
  PROVE  /\ r \in Writer /\ r.calls \in Maps(Indexes, WriterCall)
         /\ DOMAIN r.calls \subseteq Indexes
         /\ \A j \in DOMAIN r.calls : r.calls[j] \in WriterCall
<1>1. r \in Writer /\ r.calls \in Maps(Indexes, WriterCall)
  BY DEF Good, Writer
<1>2. QED
  BY <1>1, MapsDef

\* An item that was announced is none that was only allotted.
LEMMA AnnouncedItems ==
  ASSUME NEW r
  PROVE  Reasoning(r) # Allotted /\ Message(r) # Allotted
BY DEF Reasoning, Message, Allotted

\* What is done to other items does nothing to the calls.
LEMMA CallsStay ==
  ASSUME NEW r, NEW s, SameCalls(r, s), CallsFit(r), Apart(r), Ordered(r),
         \A i \in DOMAIN r.calls :
           Placed(s, r.calls[i]) /\ s.client.items[r.calls[i].out] = r.client.items[r.calls[i].out]
  PROVE  CallsFit(s) /\ Apart(s) /\ Ordered(s)
<1>1. s.calls = r.calls /\ s.order = r.order
  BY DEF SameCalls
<1>2. ReadyCalls(s) = ReadyCalls(r)
  BY <1>1 DEF ReadyCalls
<1>3. CallsFit(s)
  BY <1>1, <1>2 DEF CallsFit
<1>4. Apart(s) /\ Ordered(s)
  BY <1>1 DEF Apart, Ordered
<1>5. QED
  BY <1>3, <1>4

\* The reasoning item is opened, empty, in a place of its own.
LEMMA OpenReasoningFits ==
  ASSUME NEW r, Good(r), ~r.rsOpen, NEW s, s = OpenReasoning(r)
  PROVE  Good(s) /\ s.rsOpen /\ s.text = r.text /\ SameCalls(r, s)
<1> DEFINE n == Len(r.client.items) + 1
           a == Allot(r)
           s0 == [a EXCEPT !.rsOpen = TRUE, !.rs = n]
           s1 == Announce(s0, n, "reasoning")
           s2 == AddPart(s1, n, "reasoning_content")
<1>1. r \in Writer /\ r.client.items \in Seq(Item) /\ Allotted \in Item
  BY DEF Good, Writer, Client, Item
<1>2. /\ a \in Writer /\ a.client.items = Append(r.client.items, Allotted)
      /\ SameCalls(r, a) /\ SamePlaces(r, a) /\ a.text = r.text
  BY <1>1, AllotType
<1>3. s = s2
  BY DEF OpenReasoning, NextPlace
<1>4. /\ DOMAIN Append(r.client.items, Allotted) = DOMAIN r.client.items \cup {n}
      /\ n \notin DOMAIN r.client.items /\ n \in Nat /\ n # 0 /\ 0 \notin DOMAIN r.client.items
      /\ Append(r.client.items, Allotted)[n] = Allotted
      /\ \A o \in DOMAIN r.client.items :
           Append(r.client.items, Allotted)[o] = r.client.items[o]
  BY <1>1, AppendItem
<1> HIDE DEF a, n
<1>5. /\ s0 \in Writer /\ s0.client = a.client /\ s0.rsOpen /\ s0.rs = n
      /\ s0.text = r.text /\ SameCalls(r, s0)
      /\ s0.msg = r.msg /\ s0.msgOpen = r.msgOpen /\ s0.parts = r.parts
  BY <1>2, <1>4 DEF Writer, SameCalls, SamePlaces
<1> HIDE DEF s0
<1>6. n \in DOMAIN s0.client.items /\ s0.client.items[n] = Allotted
  BY <1>2, <1>4, <1>5
<1>7. Becomes(s0, s1, n, Announced("reasoning"))
  BY <1>5, <1>6, AnnounceFits DEF ItemTypes
<1>8. CASE r.lost
  <2>1. s0.lost
    BY <1>5, <1>8 DEF SameCalls
  <2>2. s2 = s0
    BY <1>7, <2>1 DEF AddPart, Becomes
  <2>3. QED
    BY <1>3, <1>5, <2>1, <2>2 DEF Good
<1>9. CASE ~r.lost
  <2> DEFINE first == Announced("reasoning")
             item == [first EXCEPT !.parts = Put(first.parts, "reasoning_content", <<>>)]
  <2>1. ~s0.lost
    BY <1>5, <1>9 DEF SameCalls
  <2>2. Replaced(s0, s1, n, first)
    BY <1>7, <2>1 DEF Becomes
  <2>3. /\ DOMAIN s1.client.items = DOMAIN s0.client.items
        /\ s1.client.items[n] = first
        /\ \A o \in DOMAIN s0.client.items : o # n => s1.client.items[o] = s0.client.items[o]
    BY <1>6, <2>2 DEF Replaced
  <2>4. first # Allotted /\ "reasoning_content" \notin DOMAIN first.parts
    BY EmptyMap DEF Announced, Allotted
  <2>6. Replaced(s1, s2, n, item)
    <3>1. "reasoning_content" \in PartNames /\ ~s1.lost /\ s1 \in Writer
      BY <2>1, <2>2 DEF PartNames, TextKeys, SameCalls, Replaced
    <3>2. n \in DOMAIN s1.client.items /\ first = s1.client.items[n]
      BY <1>6, <2>3
    <3> HIDE DEF first, s1
    <3>3. Becomes(s1, s2, n, item)
      BY <2>4, <3>1, <3>2, AddPartFits
    <3>4. QED
      BY <3>1, <3>3 DEF Becomes
  <2>7. item = [type |-> "reasoning", parts |-> [p \in {"reasoning_content"} |-> <<>>], open |-> TRUE]
    <3>1. first = [type |-> "reasoning", parts |-> Empty, open |-> TRUE]
      BY DEF Announced
    <3> DEFINE empty == [p \in {"reasoning_content"} |-> <<>>]
    <3>2. Put(Empty, "reasoning_content", <<>>) = empty
      BY EmptyMap DEF Put
    <3> HIDE DEF first, empty
    <3>3. item = [first EXCEPT !.parts = empty]
      BY <3>1, <3>2
    <3> HIDE DEF item
    <3>4. item = [type |-> "reasoning", parts |-> empty, open |-> TRUE]
      BY <3>1, <3>3
    <3>5. QED
      BY <3>4 DEF empty
  <2> HIDE DEF first, item, s1, s2
  <2>8. /\ DOMAIN s2.client.items = DOMAIN r.client.items \cup {n}
        /\ s2.client.items[n] = item
        /\ \A o \in DOMAIN r.client.items : s2.client.items[o] = r.client.items[o]
    BY SMTT(60), <1>2, <1>4, <1>5, <1>6, <2>2, <2>3, <2>6 DEF Replaced
  <2>9. SameCalls(r, s2) /\ s2.text = r.text /\ s2.rs = n /\ s2.rsOpen
        /\ s2.msg = r.msg /\ s2.msgOpen = r.msgOpen /\ s2.parts = r.parts
    BY <1>5, <2>2, <2>6 DEF SameCalls, SamePlaces, Replaced
  <2>10. Fitting(r) /\ r.rs = 0 /\ r.text["reasoning_content"] = <<>>
    BY <1>9 DEF Good, Fitting, ReasoningFits
  <2>11. ReasoningFits(s2)
    BY <2>7, <2>8, <2>9, <2>10 DEF ReasoningFits, Reasoning
  <2>12. MessageFits(s2)
    BY <1>4, <2>8, <2>9, <2>10 DEF Fitting, MessageFits, Message, MessageContent
  <2>13. CallsFit(s2) /\ Apart(s2) /\ Ordered(s2)
    <3>1. \A i \in DOMAIN r.calls :
            /\ Placed(s2, r.calls[i])
            /\ s2.client.items[r.calls[i].out] = r.client.items[r.calls[i].out]
      BY <1>4, <2>8, <2>9, <2>10 DEF Fitting, CallsFit, Placed
    <3>2. QED
      BY <2>9, <2>10, <3>1, CallsStay DEF Fitting
  <2>14. Covered(s2)
    BY <1>4, <2>8, <2>9, <2>10 DEF Fitting, Covered, SameCalls
  <2>15. QED
    BY <1>3, <2>6, <2>9, <2>11, <2>12, <2>13, <2>14 DEF Good, Fitting, Replaced
<1>10. QED
  BY <1>8, <1>9

\* The writer keeps a text as it grows.
TextAdded(r, s, key, value) ==
  /\ s \in Writer /\ SameCalls(r, s) /\ SamePlaces(r, s) /\ s.client = r.client
  /\ s.text = [r.text EXCEPT ![key] = r.text[key] \o value]

\* It remains a writer.
LEMMA AddText ==
  ASSUME NEW r \in Writer, NEW key \in TextKeys, NEW value \in Pieces,
         NEW s, s = [r EXCEPT !.text[key] = @ \o value]
  PROVE  TextAdded(r, s, key, value)
<1> DEFINE text == [r.text EXCEPT ![key] = r.text[key] \o value]
<1>1. r.text \in Texts
  BY DEF Writer
<1>2. r.text[key] \o value \in Pieces
  BY <1>1, ConcatProperties DEF Texts, Pieces
<1>3. text \in Texts
  BY <1>1, <1>2 DEF Texts
<1>4. s = [r EXCEPT !.text = text]
  BY DEF Writer
<1> HIDE DEF text
<1>5. /\ s \in Writer /\ SameCalls(r, s) /\ SamePlaces(r, s) /\ s.client = r.client
      /\ s.text = text
  BY <1>3, <1>4, ZenonT(60) DEF Writer, SameCalls, SamePlaces
<1>6. QED
  BY <1>5 DEF text, TextAdded

\* A delta of text is sent and kept.
TextGoes(r, s, key, value) ==
  Good(s) /\ SameCalls(r, s) /\ s.text = [r.text EXCEPT ![key] = r.text[key] \o value]

\* That of the reasoning opens its item if there is none.
LEMMA ReasoningDeltaFits ==
  ASSUME NEW r, Good(r), NEW value \in Pieces
  PROVE  TextGoes(r, ReasoningDelta(r, value), "reasoning_content", value)
<1> DEFINE key == "reasoning_content"
           o == OpenReasoning(r)
           t == [o EXCEPT !.text[key] = @ \o value]
           s == Delta(t, o.rs, key, value)
<1>1. s = ReasoningDelta(r, value)
  BY DEF ReasoningDelta
<1>2. Good(o) /\ o.rsOpen /\ o.text = r.text /\ SameCalls(r, o)
  <2>1. CASE r.rsOpen
    BY <2>1 DEF OpenReasoning, SameCalls
  <2>2. CASE ~r.rsOpen
    BY <2>2, OpenReasoningFits
  <2>3. QED
    BY <2>1, <2>2
<1>3. key \in TextKeys /\ o \in Writer /\ o.text \in Texts
  BY <1>2 DEF TextKeys, Good, Writer
<1> HIDE DEF o, key
<1>a. TextAdded(o, t, key, value)
  BY <1>3, AddText
<1>4. /\ t \in Writer /\ SameCalls(o, t) /\ SamePlaces(o, t) /\ t.client = o.client
      /\ t.text = [o.text EXCEPT ![key] = o.text[key] \o value]
  BY <1>a DEF TextAdded
<1>5. t.text[key] = o.text[key] \o value /\ \A k \in TextKeys : k # key => t.text[k] = o.text[k]
  BY <1>3, <1>4 DEF Texts
<1> HIDE DEF t
<1>6. CASE r.lost
  <2>1. t.lost /\ s = t
    BY <1>2, <1>4, <1>6 DEF SameCalls, Delta
  <2>2. QED
    BY <1>1, <1>2, <1>4, <2>1 DEF TextGoes, Good, SameCalls, key
<1>7. CASE ~r.lost
  <2> DEFINE out == o.rs
             item == o.client.items[out]
             new == [item EXCEPT !.parts = [item.parts EXCEPT ![key] = item.parts[key] \o value]]
  <2>1. ~o.lost /\ ~t.lost /\ Fitting(o)
    BY <1>2, <1>4, <1>7 DEF SameCalls, Good
  <2>2. out \in DOMAIN o.client.items /\ item = Reasoning(o)
    BY <1>2, <2>1 DEF Fitting, ReasoningFits
  <2>3. item # Allotted /\ key \in DOMAIN item.parts
    BY <2>2, AnnouncedItems DEF Reasoning, key
  <2> HIDE DEF out, item
  <2>6. Replaced(t, s, out, new)
    <3>1. out \in DOMAIN t.client.items /\ item = t.client.items[out]
      BY <1>4, <2>2 DEF item
    <3>2. Becomes(t, Delta(t, out, key, value), out, new)
      BY <1>4, <2>3, <3>1, DeltaFits
    <3>3. QED
      BY <2>1, <3>2 DEF out, Becomes
  <2>5. new = [type |-> "reasoning", parts |-> [p \in {key} |-> t.text[key]], open |-> TRUE]
    <3> DEFINE content == [p \in {key} |-> o.text[key]]
               more == [p \in {key} |-> t.text[key]]
    <3>1. item = [type |-> "reasoning", parts |-> content, open |-> TRUE]
      BY <2>2 DEF Reasoning, key
    <3>2. [content EXCEPT ![key] = content[key] \o value] = more
      BY <1>5
    <3> HIDE DEF content, more
    <3>3. item.parts = content
      BY <3>1
    <3>4. new = [item EXCEPT !.parts = more]
      BY <3>2, <3>3
    <3> HIDE DEF new
    <3>5. new = [type |-> "reasoning", parts |-> more, open |-> TRUE]
      BY <3>1, <3>4
    <3>6. QED
      BY <3>5 DEF more
  <2> HIDE DEF new
  <2>7. /\ DOMAIN s.client.items = DOMAIN o.client.items
        /\ s.client.items[out] = new
        /\ \A p \in DOMAIN o.client.items : p # out => s.client.items[p] = o.client.items[p]
    BY <1>4, <2>2, <2>6 DEF Replaced
  <2>8. s \in Writer /\ SameCalls(o, s) /\ SamePlaces(o, s) /\ s.text = t.text
    BY <1>4, <2>6 DEF Replaced, SameCalls, SamePlaces
  <2> HIDE DEF s
  <2>9. ReasoningFits(s)
    BY <1>2, <2>2, <2>5, <2>7, <2>8, ZenonT(60) DEF ReasoningFits, Reasoning, SamePlaces, out, key
  <2>10. MessageFits(s)
    <3>1. MessageFits(o) /\ o.msg # out
      <4>1. MessageFits(o)
        BY <2>1 DEF Fitting
      <4>2. o.msg # out
        <5>1. o.msgOpen => o.msg # o.rs
          BY <4>1 DEF MessageFits
        <5>2. ~o.msgOpen => o.msg = 0
          BY <4>1 DEF MessageFits
        <5>3. o.client.items \in Seq(Item)
          BY <1>3 DEF Writer, Client
        <5>4. 0 \notin DOMAIN o.client.items
          BY <5>3, ItemPlaces
        <5>5. QED
          BY <2>2, <5>1, <5>2, <5>4 DEF out
      <4>3. QED
        BY <4>1, <4>2
    <3>2. o.parts \subseteq {"content", "refusal"}
      BY <1>3 DEF Writer
    <3>3. \A p \in {"content", "refusal"} : s.text[p] = o.text[p]
      BY <1>5, <2>8 DEF TextKeys, key
    <3>4. MessageContent(s) = MessageContent(o)
      BY <2>8, <3>2, <3>3 DEF MessageContent, SamePlaces
    <3>5. Message(s) = Message(o)
      BY <3>4 DEF Message
    <3>6. QED
      BY <2>7, <2>8, <3>1, <3>2, <3>3, <3>5 DEF MessageFits, SamePlaces
  <2>11. CallsFit(s) /\ Apart(s) /\ Ordered(s)
    <3>1. \A i \in DOMAIN o.calls :
            /\ Placed(s, o.calls[i])
            /\ s.client.items[o.calls[i].out] = o.client.items[o.calls[i].out]
      BY <2>1, <2>7, <2>8 DEF Fitting, CallsFit, Placed, SamePlaces, out
    <3>2. QED
      BY <2>1, <2>8, <3>1, CallsStay DEF Fitting
  <2>12. Covered(s)
    BY <2>1, <2>7, <2>8 DEF Fitting, Covered, SameCalls, SamePlaces
  <2>13. QED
    BY <1>1, <1>2, <1>4, <2>8, <2>9, <2>10, <2>11, <2>12 DEF TextGoes, Good, Fitting, SameCalls, key
<1>8. QED
  BY <1>6, <1>7

\* The message item is opened, empty, in a place of its own.
LEMMA OpenMessageFits ==
  ASSUME NEW r, Good(r)
  PROVE  /\ Good(OpenMessage(r)) /\ OpenMessage(r).msgOpen
         /\ OpenMessage(r).text = r.text /\ SameCalls(r, OpenMessage(r))
<1> DEFINE n == Len(r.client.items) + 1
           a == Allot(r)
           s0 == [a EXCEPT !.msgOpen = TRUE, !.msg = n]
           first == Announced("message")
           s == Announce(s0, n, "message")
<1>1. CASE r.msgOpen
  BY <1>1 DEF OpenMessage, SameCalls
<1>2. CASE ~r.msgOpen
  <2>1. r \in Writer /\ r.client.items \in Seq(Item) /\ Allotted \in Item
    BY DEF Good, Writer, Client, Item
  <2>2. /\ a \in Writer /\ a.client.items = Append(r.client.items, Allotted)
        /\ SameCalls(r, a) /\ SamePlaces(r, a) /\ a.text = r.text
    BY <2>1, AllotType
  <2>3. s = OpenMessage(r)
    BY <1>2 DEF OpenMessage, NextPlace
  <2>4. /\ DOMAIN Append(r.client.items, Allotted) = DOMAIN r.client.items \cup {n}
        /\ n \notin DOMAIN r.client.items /\ n \in Nat /\ n # 0 /\ 0 \notin DOMAIN r.client.items
        /\ Append(r.client.items, Allotted)[n] = Allotted
        /\ \A o \in DOMAIN r.client.items :
             Append(r.client.items, Allotted)[o] = r.client.items[o]
    BY <2>1, AppendItem
  <2> HIDE DEF a, n
  <2>5. /\ s0 \in Writer /\ s0.client = a.client /\ s0.msgOpen /\ s0.msg = n
        /\ s0.text = r.text /\ SameCalls(r, s0)
        /\ s0.rs = r.rs /\ s0.rsOpen = r.rsOpen /\ s0.parts = r.parts
    BY <2>2, <2>4 DEF Writer, SameCalls, SamePlaces
  <2> HIDE DEF s0
  <2>6. n \in DOMAIN s0.client.items /\ s0.client.items[n] = Allotted
    BY <2>2, <2>4, <2>5
  <2>7. Becomes(s0, s, n, first)
    BY <2>5, <2>6, AnnounceFits DEF ItemTypes
  <2>8. CASE r.lost
    <3>1. s0.lost /\ s = s0
      BY <2>5, <2>7, <2>8 DEF SameCalls, Becomes
    <3>2. QED
      BY <2>3, <2>5, <3>1 DEF Good
  <2>9. CASE ~r.lost
    <3>1. Replaced(s0, s, n, first)
      BY <2>5, <2>7, <2>9 DEF Becomes, SameCalls
    <3>2. first = [type |-> "message", parts |-> Empty, open |-> TRUE]
      BY DEF Announced
    <3> HIDE DEF first, s
    <3>3. /\ DOMAIN s.client.items = DOMAIN r.client.items \cup {n}
          /\ s.client.items[n] = first
          /\ \A o \in DOMAIN r.client.items : s.client.items[o] = r.client.items[o]
      <4>1. s.client.items = [s0.client.items EXCEPT ![n] = first]
        BY <3>1 DEF Replaced
      <4>2. s0.client.items = Append(r.client.items, Allotted)
        BY <2>2, <2>5
      <4>3. QED
        BY <2>4, <2>6, <4>1, <4>2
    <3>4. SameCalls(r, s) /\ s.text = r.text /\ s.msg = n /\ s.msgOpen
          /\ s.rs = r.rs /\ s.rsOpen = r.rsOpen /\ s.parts = r.parts /\ s \in Writer
      BY <2>5, <3>1 DEF SameCalls, SamePlaces, Replaced
    <3>5. Fitting(r) /\ r.msg = 0 /\ r.parts = {}
      BY <1>2, <2>9 DEF Good, Fitting, MessageFits
    <3>6. ReasoningFits(s)
      BY <3>3, <3>4, <3>5 DEF Fitting, ReasoningFits, Reasoning
    <3>7. MessageFits(s)
      <4>1. MessageContent(s) = Empty
        BY <3>4, <3>5 DEF MessageContent, Empty
      <4>2. s.client.items[n] = Message(s)
        BY <3>2, <3>3, <4>1 DEF Message
      <4>3. s.msg # s.rs
        BY <2>4, <3>4, <3>5 DEF Fitting, ReasoningFits
      <4>4. QED
        BY <3>3, <3>4, <3>5, <4>2, <4>3 DEF Fitting, MessageFits
    <3>8. CallsFit(s) /\ Apart(s) /\ Ordered(s)
      <4>1. \A i \in DOMAIN r.calls :
              /\ Placed(s, r.calls[i])
              /\ s.client.items[r.calls[i].out] = r.client.items[r.calls[i].out]
        BY <2>4, <3>3, <3>4, <3>5 DEF Fitting, CallsFit, Placed
      <4>2. QED
        BY <3>4, <3>5, <4>1, CallsStay DEF Fitting
    <3>9. Covered(s)
      BY <2>4, <3>3, <3>4, <3>5 DEF Fitting, Covered, SameCalls
    <3>10. QED
      BY <2>3, <3>4, <3>6, <3>7, <3>8, <3>9 DEF Good, Fitting
  <2>10. QED
    BY <2>8, <2>9
<1>3. QED
  BY <1>1, <1>2

\* What the message item changes leaves the others as they are.
LEMMA MessageStays ==
  ASSUME NEW r, NEW s, r \in Writer, Fitting(r), r.msgOpen, SameCalls(r, s),
         s.rs = r.rs, s.rsOpen = r.rsOpen, s.msg = r.msg,
         s.text["reasoning_content"] = r.text["reasoning_content"],
         NEW item, s.client.items = [r.client.items EXCEPT ![r.msg] = item]
  PROVE  /\ ReasoningFits(s) /\ CallsFit(s) /\ Apart(s) /\ Covered(s) /\ Ordered(s)
         /\ r.msg \in DOMAIN s.client.items /\ s.msg # s.rs /\ s.client.items[r.msg] = item
<1>1. /\ r.msg \in DOMAIN r.client.items /\ r.msg # r.rs
  BY DEF Fitting, MessageFits
<1>2. /\ DOMAIN s.client.items = DOMAIN r.client.items /\ s.client.items[r.msg] = item
      /\ \A o \in DOMAIN r.client.items : o # r.msg => s.client.items[o] = r.client.items[o]
  BY <1>1
<1>3. ReasoningFits(s)
  <2>1. [p \in {"reasoning_content"} |-> s.text[p]] = [p \in {"reasoning_content"} |-> r.text[p]]
    OBVIOUS
  <2>2. Reasoning(s) = Reasoning(r)
    BY <2>1 DEF Reasoning
  <2>3. QED
    BY <1>1, <1>2, <2>2 DEF Fitting, ReasoningFits
<1>4. CallsFit(s) /\ Apart(s) /\ Ordered(s)
  <2>1. \A i \in DOMAIN r.calls :
          /\ Placed(s, r.calls[i])
          /\ s.client.items[r.calls[i].out] = r.client.items[r.calls[i].out]
    BY <1>2 DEF Fitting, CallsFit, Placed
  <2>2. QED
    BY <2>1, CallsStay DEF Fitting
<1>5. Covered(s)
  BY <1>2 DEF Fitting, Covered, SameCalls
<1>6. QED
  BY <1>1, <1>2, <1>3, <1>4, <1>5

\* A part of the message is opened, empty.
LEMMA EnsureMessagePartFits ==
  ASSUME NEW r, Good(r), NEW key \in {"content", "refusal"}
  PROVE  /\ Good(EnsureMessagePart(r, key))
         /\ EnsureMessagePart(r, key).msgOpen /\ key \in EnsureMessagePart(r, key).parts
         /\ EnsureMessagePart(r, key).text = r.text /\ SameCalls(r, EnsureMessagePart(r, key))
<1> DEFINE o == OpenMessage(r)
           t == [o EXCEPT !.parts = @ \cup {key}]
           s == AddPart(t, o.msg, key)
<1>1. Good(o) /\ o.msgOpen /\ o.text = r.text /\ SameCalls(r, o)
  BY OpenMessageFits
<1>2. CASE key \in o.parts
  <2>1. EnsureMessagePart(r, key) = o
    BY <1>2 DEF EnsureMessagePart
  <2>2. QED
    BY <1>1, <1>2, <2>1
<1>3. CASE key \notin o.parts
  <2>1. EnsureMessagePart(r, key) = s
    BY <1>3 DEF EnsureMessagePart
  <2> HIDE DEF o
  <2>2. /\ t \in Writer /\ SameCalls(o, t) /\ t.client = o.client /\ t.text = o.text
        /\ t.rs = o.rs /\ t.rsOpen = o.rsOpen /\ t.msg = o.msg /\ t.msgOpen
        /\ t.parts = o.parts \cup {key}
    BY <1>1 DEF Good, Writer, SameCalls
  <2> HIDE DEF t
  <2>3. CASE r.lost
    <3>1. t.lost /\ s = t
      BY <1>1, <2>2, <2>3 DEF SameCalls, AddPart
    <3>2. QED
      BY <1>1, <2>1, <2>2, <3>1 DEF Good, SameCalls
  <2>4. CASE ~r.lost
    <3> DEFINE item == o.client.items[o.msg]
               new == [item EXCEPT !.parts = Put(item.parts, key, <<>>)]
    <3>1. ~o.lost /\ ~t.lost /\ Fitting(o) /\ o \in Writer
      BY <1>1, <2>2, <2>4 DEF SameCalls, Good
    <3>2. o.msg \in DOMAIN o.client.items /\ item = Message(o)
      BY <1>1, <3>1 DEF Fitting, MessageFits
    <3>3. item # Allotted /\ item.parts = MessageContent(o) /\ key \notin DOMAIN item.parts
      BY <1>3, <3>2, AnnouncedItems DEF Message, MessageContent
    <3>4. Becomes(t, s, o.msg, new)
      <4>1. key \in PartNames /\ o.msg \in DOMAIN t.client.items /\ item = t.client.items[o.msg]
        BY <2>2, <3>2 DEF PartNames, TextKeys
      <4> HIDE DEF item
      <4>2. QED
        BY <2>2, <3>3, <4>1, AddPartFits
    <3>5. Replaced(t, s, o.msg, new)
      BY <3>1, <3>4 DEF Becomes
    <3>6. o.text[key] = <<>>
      BY <1>3, <3>1 DEF Fitting, MessageFits
    <3>7. Put(MessageContent(o), key, <<>>) = [p \in o.parts \cup {key} |-> o.text[p]]
      BY <1>3, <3>6 DEF MessageContent, Put
    <3>8. new = [type |-> "message", parts |-> [p \in o.parts \cup {key} |-> o.text[p]], open |-> TRUE]
      <4> DEFINE more == [p \in o.parts \cup {key} |-> o.text[p]]
                 had == MessageContent(o)
      <4>1. item = [type |-> "message", parts |-> had, open |-> TRUE]
        BY <3>2 DEF Message
      <4>2. Put(item.parts, key, <<>>) = more
        BY <3>3, <3>7
      <4> HIDE DEF more, had, item
      <4>3. new = [item EXCEPT !.parts = more]
        BY <4>2
      <4> HIDE DEF new
      <4>4. new = [type |-> "message", parts |-> more, open |-> TRUE]
        BY <4>1, <4>3
      <4>5. QED
        BY <4>4 DEF more
    <3> HIDE DEF new, s, item
    <3>9. /\ s \in Writer /\ SameCalls(o, s) /\ s.text = o.text
          /\ s.rs = o.rs /\ s.rsOpen = o.rsOpen /\ s.msg = o.msg /\ s.msgOpen
          /\ s.parts = o.parts \cup {key}
          /\ s.client.items = [o.client.items EXCEPT ![o.msg] = new]
      BY <2>2, <3>5 DEF Replaced, SameCalls, SamePlaces
    <3>10. /\ ReasoningFits(s) /\ CallsFit(s) /\ Apart(s) /\ Covered(s) /\ Ordered(s)
           /\ o.msg \in DOMAIN s.client.items /\ s.msg # s.rs /\ s.client.items[o.msg] = new
      BY <1>1, <3>1, <3>9, MessageStays
    <3>11. new = Message(s)
      BY <3>8, <3>9 DEF Message, MessageContent
    <3>12. MessageFits(s)
      BY <3>1, <3>9, <3>10, <3>11 DEF Fitting, MessageFits
    <3>13. QED
      BY <1>1, <2>1, <3>9, <3>10, <3>12 DEF Good, Fitting, SameCalls
  <2>5. QED
    BY <2>3, <2>4
<1>4. QED
  BY <1>2, <1>3

\* That of the answer or a refusal opens the message and its part.
LEMMA TextDeltaFits ==
  ASSUME NEW r, Good(r), NEW key \in {"content", "refusal"}, NEW value \in Pieces
  PROVE  TextGoes(r, TextDelta(r, key, value), key, value)
<1> DEFINE o == EnsureMessagePart(r, key)
           t == [o EXCEPT !.text[key] = @ \o value]
           s == Delta(t, o.msg, key, value)
<1>1. s = TextDelta(r, key, value)
  BY DEF TextDelta
<1>2. Good(o) /\ o.msgOpen /\ key \in o.parts /\ o.text = r.text /\ SameCalls(r, o)
  BY EnsureMessagePartFits
<1>3. key \in TextKeys /\ o \in Writer /\ o.text \in Texts
  BY <1>2 DEF TextKeys, Good, Writer
<1> HIDE DEF o
<1>4. TextAdded(o, t, key, value)
  BY <1>3, AddText
<1>5. /\ t \in Writer /\ SameCalls(o, t) /\ SamePlaces(o, t) /\ t.client = o.client
      /\ t.text = [o.text EXCEPT ![key] = o.text[key] \o value]
  BY <1>4 DEF TextAdded
<1>6. t.text[key] = o.text[key] \o value /\ \A k \in TextKeys : k # key => t.text[k] = o.text[k]
  BY <1>3, <1>5 DEF Texts
<1> HIDE DEF t
<1>7. CASE r.lost
  <2>1. t.lost /\ s = t
    BY <1>2, <1>5, <1>7 DEF SameCalls, Delta
  <2>2. QED
    BY <1>1, <1>2, <1>5, <2>1 DEF TextGoes, Good, SameCalls
<1>8. CASE ~r.lost
  <2> DEFINE item == o.client.items[o.msg]
             new == [item EXCEPT !.parts = [item.parts EXCEPT ![key] = item.parts[key] \o value]]
  <2>1. ~o.lost /\ ~t.lost /\ Fitting(o)
    BY <1>2, <1>5, <1>8 DEF SameCalls, Good
  <2>2. o.msg \in DOMAIN o.client.items /\ item = Message(o)
    BY <1>2, <2>1 DEF Fitting, MessageFits
  <2>3. item # Allotted /\ item.parts = MessageContent(o) /\ key \in DOMAIN item.parts
    BY <1>2, <2>2, AnnouncedItems DEF Message, MessageContent
  <2>4. Becomes(t, s, o.msg, new)
    <3>1. o.msg \in DOMAIN t.client.items /\ item = t.client.items[o.msg]
      BY <1>5, <2>2
    <3> HIDE DEF item
    <3>2. QED
      BY <1>5, <2>3, <3>1, DeltaFits
  <2>5. Replaced(t, s, o.msg, new)
    BY <2>1, <2>4 DEF Becomes
  <2>6. new = [type |-> "message", parts |-> [p \in o.parts |-> t.text[p]], open |-> TRUE]
    <3> DEFINE more == [p \in o.parts |-> t.text[p]]
               had == MessageContent(o)
    <3>1. item = [type |-> "message", parts |-> had, open |-> TRUE]
      BY <2>2 DEF Message
    <3>2. [had EXCEPT ![key] = had[key] \o value] = more
      <4>1. o.parts \subseteq TextKeys
        BY <1>3 DEF Writer, TextKeys
      <4>2. QED
        BY <1>2, <1>6, <4>1 DEF MessageContent
    <3> HIDE DEF more, had, item
    <3>3. item.parts = had
      BY <3>1
    <3>4. new = [item EXCEPT !.parts = more]
      BY <3>2, <3>3
    <3> HIDE DEF new
    <3>5. new = [type |-> "message", parts |-> more, open |-> TRUE]
      BY <3>1, <3>4
    <3>6. QED
      BY <3>5 DEF more
  <2> HIDE DEF new, s, item
  <2>7. /\ s \in Writer /\ SameCalls(o, s) /\ SamePlaces(o, s) /\ s.text = t.text
        /\ s.client.items = [o.client.items EXCEPT ![o.msg] = new]
    BY <1>5, <2>5 DEF Replaced, SameCalls, SamePlaces
  <2>8. /\ ReasoningFits(s) /\ CallsFit(s) /\ Apart(s) /\ Covered(s) /\ Ordered(s)
        /\ o.msg \in DOMAIN s.client.items /\ s.msg # s.rs /\ s.client.items[o.msg] = new
    <3>1. s.text["reasoning_content"] = o.text["reasoning_content"]
      BY <1>6, <2>7 DEF TextKeys
    <3>2. /\ s.rs = o.rs /\ s.rsOpen = o.rsOpen /\ s.msg = o.msg
      BY <2>7 DEF SamePlaces
    <3>3. QED
      BY <1>2, <1>3, <2>1, <2>7, <3>1, <3>2, MessageStays
  <2>9. new = Message(s)
    BY <2>6, <2>7 DEF Message, MessageContent, SamePlaces
  <2>10. MessageFits(s)
    <3>1. \A p \in {"content", "refusal"} \ o.parts : s.text[p] = o.text[p]
      BY <1>2, <1>6, <2>7 DEF TextKeys
    <3>2. QED
      BY <1>2, <2>1, <2>7, <2>8, <2>9, <3>1 DEF Fitting, MessageFits, SamePlaces
  <2>11. QED
    BY <1>1, <1>2, <1>5, <2>7, <2>8, <2>10 DEF TextGoes, Good, Fitting, SameCalls
<1>9. QED
  BY <1>7, <1>8

-----------------------------------------------------------------------------
(* The calls of the Responses API, between a piece that came and its event. *)

\* The first piece is piece one.
LEMMA FirstPiece == \A n : n = 0 => n + 1 = 1
OBVIOUS

\* What stands before a place of a sequence, and the place itself.
LEMMA PlacesBefore ==
  ASSUME NEW m \in Nat, NEW n \in 1..m
  PROVE  n \in 1..n /\ \A j \in 1..n : j \in 1..m
OBVIOUS

\* What the client has of a call and what has not been sent make the call.
Waits(call, item) ==
  /\ call.shown = call.opened
  /\ IF call.opened
     THEN /\ call.name # "" /\ (IsCustom(call) => call.sent = 0)
          /\ \E given \in Pieces :
               item = Shown(call, given) /\ (~IsCustom(call) => given \o Unsent(call) = call.args)
     ELSE item = Allotted /\ call.sent = 0
CallsWait(r) ==
  \A i \in DOMAIN r.calls :
    /\ Placed(r, r.calls[i]) /\ Waits(r.calls[i], r.client.items[r.calls[i].out])
    /\ r.calls[i].opened => i \in ReadyCalls(r)
Pending(r) ==
  /\ ReasoningFits(r) /\ MessageFits(r) /\ CallsWait(r)
  /\ Apart(r) /\ Covered(r) /\ Ordered(r)

\* The item of a call that is announced.
LEMMA ShownType ==
  ASSUME NEW call \in WriterCall, NEW args \in Pieces
  PROVE  Shown(call, args) \in Item /\ Shown(call, args) # Allotted
<1>1. Type(call.name) \in ItemTypes /\ Type(call.name) # ""
  BY DEF Type, ItemTypes
<1>2. (IF IsCustom(call) THEN Empty ELSE [p \in {"args"} |-> args]) \in Maps(PartNames, Pieces)
  <2>1. Empty \in Maps(PartNames, Pieces)
    BY EmptyMap
  <2>2. [p \in {"args"} |-> args] \in [{"args"} -> Pieces] /\ {"args"} \in SUBSET PartNames
    BY DEF PartNames
  <2>3. QED
    BY <2>1, <2>2 DEF Maps
<1>3. QED
  BY <1>1, <1>2 DEF Shown, Item, Allotted

\* The events of one call leave the client with the whole of it.
LEMMA ShowOne ==
  ASSUME NEW call \in WriterCall, NEW item \in Item, Waits(call, item), call.name # ""
  PROVE  /\ ShowFits(call, item) /\ ShownItem(call, item) = CallItem(ShowCall(call))
         /\ ShowCall(call) \in WriterCall /\ Sent(ShowCall(call)) /\ ShowCall(call).opened
         /\ CallItem(ShowCall(call)) \in Item
         /\ ShowCall(call).name = call.name /\ ShowCall(call).args = call.args
         /\ ShowCall(call).id = call.id /\ ShowCall(call).seen = call.seen
         /\ ShowCall(call).out = call.out
<1> DEFINE new == ShowCall(call)
           sent == IF IsCustom(call) THEN call.sent ELSE Len(call.args)
<1>1. call.args \in Seq(Words) /\ Len(call.args) \in Nat /\ call.sent \in Nat
  BY LenProperties DEF WriterCall, Pieces
<1>2. new = [call EXCEPT !.opened = TRUE, !.shown = TRUE, !.sent = sent] /\ sent \in Nat
  BY <1>1 DEF ShowCall
<1> HIDE DEF sent, new
<1>3. /\ new \in WriterCall /\ new.opened = TRUE /\ new.shown = TRUE /\ new.sent = sent
      /\ new.name = call.name /\ new.args = call.args /\ new.id = call.id
      /\ new.seen = call.seen /\ new.out = call.out
  BY <1>2 DEF WriterCall
<1>4. IsCustom(new) <=> IsCustom(call)
  BY <1>3 DEF IsCustom
<1>5. CallItem(new) = Shown(call, call.args)
  BY <1>3, <1>4 DEF CallItem, Shown
<1>6. IsCustom(call) => call.sent = 0
  BY DEF Waits
<1>7. Sent(new)
  BY <1>3, <1>4, <1>6 DEF Sent, sent
<1>8. Shown(call, call.args) \in Item
  BY <1>1, ShownType DEF Pieces
<1>9. ShowFits(call, item) /\ ShownItem(call, item) = Shown(call, call.args)
  <2>1. CASE IsCustom(call)
    <3>1. \A args : Shown(call, args) = Announced(Type(call.name))
      BY <2>1 DEF Shown, Announced
    <3>2. ShowFits(call, item)
      BY <2>1 DEF ShowFits, Waits
    <3>3. ShownItem(call, item) = IF call.opened THEN item ELSE Announced(Type(call.name))
      BY <2>1 DEF ShownItem
    <3>4. QED
      BY <3>1, <3>2, <3>3 DEF Waits
  <2>2. CASE ~IsCustom(call) /\ ~call.opened
    <3>1. ShowFits(call, item)
      BY <2>2 DEF ShowFits, Waits
    <3>2. Unsent(call) = call.args
      <4>1. call.sent = 0
        BY <2>2 DEF Waits
      <4>2. SubSeq(call.args, 1, Len(call.args)) = call.args
        BY <1>1, SubSeqFull
      <4>3. call.sent + 1 = 1
        BY <4>1, FirstPiece
      <4>4. QED
        BY <4>2, <4>3 DEF Unsent
    <3>3. <<>> \o Unsent(call) = call.args
      BY <1>1, <3>2, ConcatEmptySeq
    <3> DEFINE first == Announced(Type(call.name))
               parts == [p \in {"args"} |-> call.args]
    <3>4. ShownItem(call, item) = [first EXCEPT !.parts = Put(@, "args", <<>> \o Unsent(call))]
      BY <2>2 DEF ShownItem
    <3>5. first = [type |-> Type(call.name), parts |-> Empty, open |-> TRUE]
      BY DEF Announced
    <3>6. Put(Empty, "args", call.args) = parts
      BY EmptyMap DEF Put
    <3>7. Shown(call, call.args) = [type |-> Type(call.name), open |-> TRUE, parts |-> parts]
      BY <2>2 DEF Shown
    <3> HIDE DEF first, parts
    <3>8. ShownItem(call, item) = [first EXCEPT !.parts = parts]
      BY <3>3, <3>4, <3>5, <3>6
    <3>9. QED
      BY <3>1, <3>5, <3>7, <3>8
  <2>3. CASE ~IsCustom(call) /\ call.opened
    <3>1. PICK given \in Pieces :
            item = Shown(call, given) /\ given \o Unsent(call) = call.args
      BY <2>3 DEF Waits
    <3> DEFINE had == [p \in {"args"} |-> given]
               parts == [p \in {"args"} |-> call.args]
    <3>2. item = [type |-> Type(call.name), open |-> TRUE, parts |-> had]
      BY <2>3, <3>1 DEF Shown
    <3>3. Shown(call, call.args) = [type |-> Type(call.name), open |-> TRUE, parts |-> parts]
      BY <2>3 DEF Shown
    <3>4. had["args"] = given /\ "args" \in DOMAIN had /\ Put(had, "args", call.args) = parts
      BY DEF Put
    <3> HIDE DEF had, parts
    <3>5. item.parts = had /\ item.open
      BY <3>2
    <3>6. ShowFits(call, item)
      BY <2>3, <3>4, <3>5 DEF ShowFits
    <3>7. ShownItem(call, item) = [item EXCEPT !.parts = Put(@, "args", item.parts["args"] \o Unsent(call))]
      BY <2>3 DEF ShownItem
    <3>8. ShownItem(call, item) = [item EXCEPT !.parts = parts]
      BY <3>1, <3>4, <3>5, <3>7
    <3>9. QED
      BY <3>2, <3>3, <3>6, <3>8
  <2>4. QED
    BY <2>1, <2>2, <2>3
<1>10. QED
  BY <1>3, <1>5, <1>7, <1>8, <1>9 DEF new

\* Showing a call changes only what has gone out of it.
LEMMA ShowCallType ==
  ASSUME NEW call \in WriterCall, NEW new, new = ShowCall(call)
  PROVE  /\ new \in WriterCall /\ new.opened
         /\ new.name = call.name /\ new.args = call.args /\ new.id = call.id
         /\ new.seen = call.seen /\ new.out = call.out
<1> DEFINE sent == IF IsCustom(call) THEN call.sent ELSE Len(call.args)
<1>1. Len(call.args) \in Nat /\ call.sent \in Nat
  BY LenProperties DEF WriterCall, Pieces
<1>2. new = [call EXCEPT !.opened = TRUE, !.shown = TRUE, !.sent = sent] /\ sent \in Nat
  BY <1>1 DEF ShowCall
<1> HIDE DEF sent
<1>3. QED
  BY <1>2 DEF WriterCall

\* Sending what is ready changes nothing else of what the writer keeps.
FlushKeeps(r, s) ==
  /\ s.text = r.text /\ s.order = r.order /\ s.legacy = r.legacy /\ s.finish = r.finish
  /\ s.failure = r.failure /\ s.sawDone = r.sawDone /\ s.lost = r.lost
  /\ DOMAIN s.calls = DOMAIN r.calls
  /\ \A i \in DOMAIN r.calls :
       /\ s.calls[i].name = r.calls[i].name /\ s.calls[i].args = r.calls[i].args
       /\ s.calls[i].id = r.calls[i].id /\ s.calls[i].seen = r.calls[i].seen
       /\ i \in ReadyCalls(r) => s.calls[i].opened

\* It leaves the client with the whole of every call that is announced.
LEMMA FlushFits ==
  ASSUME NEW r, r \in Writer, ~r.lost => Pending(r), NEW s, s = FlushReadyCalls(r)
  PROVE  Good(s) /\ FlushKeeps(r, s)
<1> DEFINE S == ReadyCalls(r)
           its == ItemsOf(r, S, ShownItem)
           fits == \A i \in S : ShowFits(r.calls[i], r.client.items[r.calls[i].out])
           calls == [i \in DOMAIN r.calls |-> IF i \in S THEN ShowCall(r.calls[i]) ELSE r.calls[i]]
           e == Emit(r, [r.client EXCEPT !.items = its], fits)
<1>1. s = [e EXCEPT !.calls = calls]
  BY DEF FlushReadyCalls, ShowCalls
<1>2. /\ DOMAIN r.calls \subseteq Indexes /\ r.client.items \in Seq(Item) /\ r.client \in Client
      /\ \A i \in DOMAIN r.calls : r.calls[i] \in WriterCall
  BY MapsDef DEF Writer, Client
<1>3. \A i \in DOMAIN r.calls :
        /\ calls[i] \in WriterCall /\ (i \in S => calls[i].opened)
        /\ calls[i].name = r.calls[i].name /\ calls[i].args = r.calls[i].args
        /\ calls[i].id = r.calls[i].id /\ calls[i].seen = r.calls[i].seen
        /\ calls[i].out = r.calls[i].out
  <2> TAKE i \in DOMAIN r.calls
  <2>1. r.calls[i] \in WriterCall
    BY <1>2
  <2>2. CASE i \in S
    <3>1. calls[i] = ShowCall(r.calls[i])
      BY <2>2
    <3> HIDE DEF calls, S
    <3>2. QED
      BY <2>1, <2>2, <3>1, ShowCallType
  <2>3. CASE i \notin S
    BY <2>1, <2>3
  <2>4. QED
    BY <2>2, <2>3
<1>4. calls \in Maps(Indexes, WriterCall) /\ DOMAIN calls = DOMAIN r.calls
  <2>1. DOMAIN calls = DOMAIN r.calls /\ calls = [i \in DOMAIN calls |-> calls[i]]
    OBVIOUS
  <2> HIDE DEF calls
  <2>2. QED
    BY <1>2, <1>3, <2>1, MapsDef
<1>5. \A i \in DOMAIN r.calls : i \notin S => calls[i] = r.calls[i]
  OBVIOUS
<1>6. \A i \in DOMAIN r.calls : i \in S => calls[i] = ShowCall(r.calls[i])
  OBVIOUS
<1> HIDE DEF S, calls
<1>7. CASE r.lost
  <2>1. e = r
    BY <1>7, EmitLost
  <2>2. s = [r EXCEPT !.calls = calls]
    BY <1>1, <2>1
  <2>3. /\ s \in Writer /\ s.calls = calls /\ s.lost /\ s.text = r.text /\ s.order = r.order
        /\ s.legacy = r.legacy /\ s.finish = r.finish
        /\ s.failure = r.failure /\ s.sawDone = r.sawDone /\ s.lost = r.lost
    BY <1>4, <1>7, <2>2 DEF Writer
  <2>4. QED
    BY <1>3, <1>4, <2>3 DEF Good, FlushKeeps, S
<1>8. CASE ~r.lost
  <2>1. Pending(r) /\ S \subseteq DOMAIN r.calls
    BY <1>8 DEF Pending, Ordered, ReadyCalls, S
  <2>2. \A i \in DOMAIN r.calls :
          /\ r.calls[i].out \in DOMAIN r.client.items
          /\ r.client.items[r.calls[i].out] \in Item
          /\ Waits(r.calls[i], r.client.items[r.calls[i].out])
          /\ r.calls[i].opened => i \in S
    <3>1. \A i \in DOMAIN r.calls : r.calls[i].out \in DOMAIN r.client.items
      BY <2>1 DEF Pending, CallsWait, Placed
    <3>2. \A o \in DOMAIN r.client.items : r.client.items[o] \in Item
      BY <1>2, ItemPlaces
    <3>3. QED
      BY <2>1, <3>1, <3>2 DEF Pending, CallsWait, S
  <2>3. \A i \in S : r.calls[i].name # ""
    <3>1. \A i \in S : Ready(r.calls[i])
      <4>1. \A n \in DOMAIN r.order : n \in 1..n
        <5>1. DOMAIN r.order = 1..Len(r.order) /\ Len(r.order) \in Nat
          BY LenProperties DEF Writer
        <5>2. QED
          BY <5>1, PlacesBefore
      <4>2. QED
        BY <4>1 DEF S, ReadyCalls
    <3>2. QED
      BY <2>1, <2>2, <3>1 DEF Ready, Waits
  <2>4. \A i \in S :
          LET call == r.calls[i]
              item == r.client.items[call.out] IN
          /\ ShowFits(call, item) /\ ShownItem(call, item) = CallItem(calls[i])
          /\ Sent(calls[i]) /\ CallItem(calls[i]) \in Item
    <3> TAKE i \in S
    <3>1. /\ r.calls[i] \in WriterCall /\ r.client.items[r.calls[i].out] \in Item
          /\ Waits(r.calls[i], r.client.items[r.calls[i].out]) /\ r.calls[i].name # ""
          /\ calls[i] = ShowCall(r.calls[i])
      BY <1>2, <1>6, <2>1, <2>2, <2>3
    <3>2. QED
      BY <3>1, ShowOne
  <2>5. fits
    BY <2>4
  <2>6. /\ DOMAIN its = DOMAIN r.client.items
        /\ \A i \in S : its[r.calls[i].out] = CallItem(calls[i])
        /\ \A o \in DOMAIN r.client.items :
             (\A i \in S : r.calls[i].out # o) => its[o] = r.client.items[o]
    <3>1. DOMAIN its = DOMAIN r.client.items
      BY DEF ItemsOf
    <3>2. ASSUME NEW i \in S PROVE its[r.calls[i].out] = CallItem(calls[i])
      <4> DEFINE o == r.calls[i].out
                 owner == {j \in S : r.calls[j].out = o}
      <4>1. owner = {i}
        BY <2>1 DEF Pending, Apart
      <4>2. (CHOOSE j \in owner : TRUE) = i /\ owner # {}
        BY <4>1
      <4>3. o \in DOMAIN r.client.items
        BY <2>1, <2>2
      <4>4. its[o] = IF owner = {} THEN r.client.items[o]
                     ELSE ShownItem(r.calls[CHOOSE j \in owner : TRUE], r.client.items[o])
        BY <4>3 DEF ItemsOf
      <4> HIDE DEF owner, its
      <4>5. its[o] = ShownItem(r.calls[i], r.client.items[o])
        BY <4>2, <4>4
      <4>6. QED
        BY <2>4, <4>5
    <3>3. ASSUME NEW o \in DOMAIN r.client.items, \A i \in S : r.calls[i].out # o
          PROVE  its[o] = r.client.items[o]
      <4> DEFINE owner == {j \in S : r.calls[j].out = o}
      <4>1. owner = {}
        BY <3>3
      <4>2. its[o] = IF owner = {} THEN r.client.items[o]
                     ELSE ShownItem(r.calls[CHOOSE j \in owner : TRUE], r.client.items[o])
        BY DEF ItemsOf
      <4>3. QED
        BY <4>1, <4>2
    <3>4. QED
      BY <3>1, <3>2, <3>3
  <2>7. its \in Seq(Item)
    <3>1. PICK n \in Nat : r.client.items \in [1..n -> Item]
      BY <1>2, SeqDef
    <3>2. \A o \in DOMAIN r.client.items : its[o] \in Item
      BY <2>4, <2>6, <3>1
    <3>3. its = [o \in DOMAIN its |-> its[o]]
      BY DEF ItemsOf
    <3> HIDE DEF its
    <3>4. its \in [1..n -> Item]
      BY <2>6, <3>1, <3>2, <3>3
    <3>5. QED
      BY <3>4, SeqDef
  <2> HIDE DEF its, fits
  <2> DEFINE c == [r.client EXCEPT !.items = its]
  <2>8. c \in Client /\ c.items = its
    BY <1>2, <2>7 DEF Client
  <2> HIDE DEF c
  <2>9. e = [r EXCEPT !.client = c]
    BY <1>8, <2>5, <2>8, EmitFits DEF c
  <2>10. s = [r EXCEPT !.client = c, !.calls = calls]
    BY <1>1, <2>9 DEF Writer
  <2>11. /\ s \in Writer /\ s.calls = calls /\ s.client.items = its /\ s.text = r.text
         /\ s.order = r.order /\ s.legacy = r.legacy /\ s.finish = r.finish
         /\ s.failure = r.failure /\ s.sawDone = r.sawDone /\ s.lost = r.lost
         /\ SamePlaces(r, s)
    BY <1>4, <2>8, <2>10, ZenonT(60) DEF Writer, SamePlaces
  <2>12. FlushKeeps(r, s)
    BY <1>3, <1>4, <2>11 DEF FlushKeeps, S
  <2> HIDE DEF e
  <2>13. ReasoningFits(s)
    <3>1. r.rsOpen => its[r.rs] = r.client.items[r.rs] /\ r.rs \in DOMAIN r.client.items
      BY <2>1, <2>6 DEF Pending, ReasoningFits, CallsWait, Placed
    <3>2. Reasoning(s) = Reasoning(r)
      BY <2>11 DEF Reasoning
    <3>3. QED
      BY <2>1, <2>6, <2>11, <3>1, <3>2 DEF Pending, ReasoningFits, SamePlaces
  <2>14. MessageFits(s)
    <3>1. r.msgOpen => its[r.msg] = r.client.items[r.msg] /\ r.msg \in DOMAIN r.client.items
      BY <2>1, <2>6 DEF Pending, MessageFits, CallsWait, Placed
    <3>2. Message(s) = Message(r)
      BY <2>11 DEF Message, MessageContent, SamePlaces
    <3>3. QED
      BY <2>1, <2>6, <2>11, <3>1, <3>2 DEF Pending, MessageFits, SamePlaces
  <2>15. ReadyCalls(r) \subseteq ReadyCalls(s)
    <3>1. \A n \in DOMAIN r.order : r.order[n] \in DOMAIN r.calls
      BY <2>1 DEF Pending, Ordered
    <3>2. \A i \in DOMAIN r.calls : Ready(r.calls[i]) => Ready(calls[i])
      BY <1>3, <1>5 DEF Ready
    <3>3. DOMAIN r.order = 1..Len(r.order) /\ Len(r.order) \in Nat
      BY LenProperties DEF Writer
    <3>4. \A n \in DOMAIN r.order : \A j \in 1..n : j \in DOMAIN r.order
      BY <3>3, PlacesBefore
    <3>5. QED
      BY <2>11, <3>1, <3>2, <3>4 DEF ReadyCalls
  <2>16. CallsFit(s)
    <3> SUFFICES ASSUME NEW i \in DOMAIN r.calls
                 PROVE  /\ Placed(s, calls[i]) /\ Sent(calls[i])
                        /\ its[calls[i].out] = CallItem(calls[i])
                        /\ calls[i].opened => i \in ReadyCalls(s)
      BY <1>4, <2>11 DEF CallsFit
    <3>1. Placed(s, calls[i])
      BY <1>3, <2>1, <2>6, <2>11 DEF Pending, CallsWait, Placed, SamePlaces
    <3>2. CASE i \in S
      BY <1>3, <2>4, <2>6, <2>15, <3>1, <3>2 DEF S
    <3>3. CASE i \notin S
      <4>1. calls[i] = r.calls[i] /\ ~r.calls[i].opened
        BY <1>5, <2>2, <3>3
      <4>2. its[r.calls[i].out] = r.client.items[r.calls[i].out]
        BY <2>1, <2>2, <2>6, <3>3 DEF Pending, Apart
      <4>3. /\ r.client.items[r.calls[i].out] = Allotted
            /\ r.calls[i].shown = r.calls[i].opened /\ r.calls[i].sent = 0
        BY <2>2, <4>1 DEF Waits
      <4>4. QED
        BY <3>1, <4>1, <4>2, <4>3 DEF Sent, CallItem
    <3>4. QED
      BY <3>2, <3>3
  <2>17. Apart(s)
    BY <1>3, <1>4, <2>1, <2>11 DEF Pending, Apart
  <2>18. Covered(s)
    BY <1>3, <1>4, <2>1, <2>6, <2>11 DEF Pending, Covered, SamePlaces
  <2>19. Ordered(s)
    BY <1>4, <2>1, <2>11 DEF Pending, Ordered
  <2>20. QED
    BY <2>11, <2>12, <2>13, <2>14, <2>16, <2>17, <2>18, <2>19 DEF Good, Fitting
<1>9. QED
  BY <1>7, <1>8

\* What has not been sent of a text of which the beginning was.
LEMMA UnsentMore ==
  ASSUME NEW a \in Pieces, NEW b \in Pieces
  PROVE  SubSeq(a \o b, Len(a) + 1, Len(a \o b)) = b
<1>1. /\ a \in Seq(Words) /\ b \in Seq(Words)
      /\ Len(a) \in Nat /\ Len(b) \in Nat /\ Len(a \o b) = Len(a) + Len(b)
      /\ a \o b \in Seq(Words)
  BY LenProperties, ConcatProperties DEF Pieces
<1>2. CASE Len(b) = 0
  <2>1. b = <<>>
    BY <1>1, <1>2, EmptySeq
  <2>2. SubSeq(a \o b, Len(a) + 1, Len(a \o b)) = <<>>
    BY <1>1, <1>2, SubSeqEmpty
  <2>3. QED
    BY <2>1, <2>2
<1>3. CASE Len(b) # 0
  <2> DEFINE m == Len(a) + 1
             n == Len(a) + Len(b)
  <2>1. m \in Len(a)+1 .. Len(a)+Len(b) /\ n \in Len(a)+1 .. Len(a)+Len(b)
    BY <1>1, <1>3
  <2>2. m - Len(a) = 1 /\ n - Len(a) = Len(b)
    BY <1>1
  <2> HIDE DEF m, n
  <2>3. SubSeq(a \o b, m, n) = SubSeq(b, m - Len(a), n - Len(a))
    BY <1>1, <2>1, SubSeqOfConcat2
  <2>4. SubSeq(b, 1, Len(b)) = b
    BY <1>1, SubSeqFull
  <2>5. QED
    BY <1>1, <2>2, <2>3, <2>4 DEF m, n
<1>4. QED
  BY <1>2, <1>3

\* A piece of a call as the writer adds it, and what the call becomes by it.
CallPiece(d) ==
  d.id \in Words \cup {"generated"} /\ d.name \in Words /\ d.has \in BOOLEAN /\ d.args \in Pieces
Agrees(old, d) == d.name # "" => old.name \in {"", d.name}
Grown(old, new, d) ==
  /\ new \in WriterCall
  /\ new.id = (IF d.id # "" THEN d.id ELSE old.id)
  /\ new.name = (IF d.name # "" THEN d.name ELSE old.name)
  /\ new.args = old.args \o d.args
  /\ new.seen <=> old.seen \/ d.has
  /\ new.out = old.out /\ new.sent = old.sent
  /\ new.opened = old.opened /\ new.shown = old.shown

\* A call grows by a piece of it.
LEMMA CallGrows ==
  ASSUME NEW old \in WriterCall, NEW d, CallPiece(d), NEW new, new = CallAfter(old, d)
  PROVE  Grown(old, new, d)
<1> DEFINE id == IF d.id # "" THEN d.id ELSE old.id
           name == IF d.name # "" THEN d.name ELSE old.name
           args == old.args \o d.args
           seen == old.seen \/ d.has
<1>1. /\ id \in Words \cup {"generated"} /\ name \in Words /\ seen \in BOOLEAN
      /\ seen <=> old.seen \/ d.has
  BY DEF CallPiece, WriterCall
<1>2. args \in Pieces
  BY ConcatProperties DEF CallPiece, WriterCall, Pieces
<1>3. new = [old EXCEPT !.id = id, !.name = name, !.args = args, !.seen = seen]
  BY DEF CallAfter, WriterCall
<1>4. id = (IF d.id # "" THEN d.id ELSE old.id) /\ name = (IF d.name # "" THEN d.name ELSE old.name)
      /\ args = old.args \o d.args
  OBVIOUS
<1> HIDE DEF id, name, args, seen
<1>5. /\ new \in WriterCall /\ new.id = id /\ new.name = name /\ new.args = args
      /\ new.seen = seen /\ new.out = old.out /\ new.sent = old.sent
      /\ new.opened = old.opened /\ new.shown = old.shown
  BY <1>1, <1>2, <1>3, ZenonT(60) DEF WriterCall
<1>6. QED
  BY <1>1, <1>4, <1>5 DEF Grown

\* The client has what it had of the call.
LEMMA GrownWaits ==
  ASSUME NEW old \in WriterCall, NEW d, CallPiece(d), Agrees(old, d),
         NEW new, Grown(old, new, d), Sent(old)
  PROVE  Waits(new, CallItem(old)) /\ (Ready(old) => Ready(new))
<1>1. old.args \in Pieces /\ d.args \in Pieces
  BY DEF WriterCall, CallPiece
<1>2. old.name # "" => new.name = old.name
  BY DEF Grown, Agrees
<1>3. Ready(old) => Ready(new)
  BY DEF Ready, Grown, Agrees
<1>4. CASE old.opened
  <2>1. old.name # "" /\ new.name = old.name
    BY <1>2, <1>4 DEF Sent
  <2>2. IsCustom(new) <=> IsCustom(old)
    BY <2>1 DEF IsCustom
  <2>3. CallItem(old) = Shown(new, old.args)
    BY <1>4, <2>1, <2>2 DEF CallItem, Shown
  <2>4. IsCustom(new) => new.sent = 0
    BY <2>2 DEF Sent, Grown
  <2>5. ~IsCustom(new) => old.args \o Unsent(new) = new.args
    <3>1. ~IsCustom(new) => new.sent = Len(old.args)
      BY <1>4, <2>2 DEF Sent, Grown
    <3>2. new.args = old.args \o d.args
      BY DEF Grown
    <3>3. QED
      BY <1>1, <3>1, <3>2, UnsentMore DEF Unsent
  <2>6. new.opened /\ new.shown = new.opened /\ new.name # ""
    BY <1>4, <2>1 DEF Grown, Sent
  <2>7. QED
    BY <1>1, <1>3, <2>3, <2>4, <2>5, <2>6 DEF Waits
<1>5. CASE ~old.opened
  BY <1>3, <1>5 DEF Waits, CallItem, Grown, Sent
<1>6. QED
  BY <1>4, <1>5

\* Nothing is to be sent of a call of which the client has all.
LEMMA FittingWaits ==
  ASSUME NEW call \in WriterCall, Sent(call)
  PROVE  Waits(call, CallItem(call))
<1>1. call.args \in Pieces /\ call.args \in Seq(Words) /\ Len(call.args) \in Nat
  BY LenProperties DEF WriterCall, Pieces
<1>2. SubSeq(call.args, Len(call.args) + 1, Len(call.args)) = <<>>
  BY <1>1, SubSeqEmpty
<1>3. call.args \o <<>> = call.args
  BY <1>1, ConcatEmptySeq
<1>4. CASE call.opened
  <2>1. ~IsCustom(call) => call.args \o Unsent(call) = call.args
    BY <1>2, <1>3, <1>4 DEF Unsent, Sent
  <2>2. CallItem(call) = Shown(call, call.args)
    BY <1>4 DEF CallItem
  <2>3. QED
    BY <1>1, <1>4, <2>1, <2>2 DEF Waits, Sent
<1>5. CASE ~call.opened
  BY <1>5 DEF Waits, CallItem, Sent
<1>6. QED
  BY <1>4, <1>5

\* What the writer keeps of a call.
Kept(r, i) == IF i \in DOMAIN r.calls THEN r.calls[i] ELSE NewCallItem
SameEnd(r, s) ==
  /\ s.text = r.text /\ s.legacy = r.legacy /\ s.finish = r.finish
  /\ s.failure = r.failure /\ s.sawDone = r.sawDone /\ s.lost = r.lost
CallGoes(r, s, i, d) ==
  /\ Good(s) /\ SameEnd(r, s)
  /\ DOMAIN s.calls = DOMAIN r.calls \cup {i}
  /\ s.calls[i].name = (IF d.name # "" THEN d.name ELSE Kept(r, i).name)
  /\ s.calls[i].args = Kept(r, i).args \o d.args
  /\ \A j \in DOMAIN r.calls \ {i} :
       s.calls[j].name = r.calls[j].name /\ s.calls[j].args = r.calls[j].args

\* A piece of a call that has its place is kept, and sent if it can be.
LEMMA GrowFits ==
  ASSUME NEW r, Good(r), NEW i \in DOMAIN r.calls, NEW d, CallPiece(d), Agrees(r.calls[i], d),
         NEW t, t = [r EXCEPT !.calls = Put(@, i, CallAfter(r.calls[i], d))]
  PROVE  CallGoes(r, FlushReadyCalls(t), i, d)
<1> DEFINE new == CallAfter(r.calls[i], d)
           calls == Put(r.calls, i, new)
           s == FlushReadyCalls(t)
<1>1. /\ r \in Writer /\ r.calls \in Maps(Indexes, WriterCall) /\ i \in Indexes
      /\ \A j \in DOMAIN r.calls : r.calls[j] \in WriterCall
  <2>1. DOMAIN r.calls \subseteq Indexes
    BY GoodCalls
  <2>2. QED
    BY <2>1, GoodCalls
<1>2. Grown(r.calls[i], new, d)
  BY <1>1, CallGrows
<1> HIDE DEF new
<1>3. /\ calls \in Maps(Indexes, WriterCall) /\ DOMAIN calls = DOMAIN r.calls
      /\ calls[i] = new /\ \A j \in DOMAIN r.calls : j # i => calls[j] = r.calls[j]
  <2>1. calls \in Maps(Indexes, WriterCall)
    BY <1>1, <1>2, PutType DEF Grown
  <2>2. QED
    BY <2>1 DEF Put
<1>4. t = [r EXCEPT !.calls = calls]
  BY <1>1 DEF new, Writer
<1> HIDE DEF calls
<1>5. /\ t \in Writer /\ t.calls = calls /\ t.order = r.order /\ t.client = r.client
      /\ SameEnd(r, t) /\ SamePlaces(r, t)
  BY <1>1, <1>3, <1>4, ZenonT(60) DEF Writer, SameEnd, SamePlaces
<1>6. ASSUME ~r.lost PROVE Pending(t)
  <2>1. Fitting(r)
    BY <1>6 DEF Good
  <2>2. ReasoningFits(t)
    <3>1. Reasoning(t) = Reasoning(r)
      BY <1>5 DEF Reasoning, SameEnd
    <3>2. QED
      BY <1>5, <2>1, <3>1 DEF Fitting, ReasoningFits, SameEnd, SamePlaces
  <2>3. MessageFits(t)
    <3>1. Message(t) = Message(r)
      BY <1>5 DEF Message, MessageContent, SameEnd, SamePlaces
    <3>2. QED
      BY <1>5, <2>1, <3>1 DEF Fitting, MessageFits, SameEnd, SamePlaces
  <2>4. \A j \in DOMAIN r.calls :
          /\ Waits(calls[j], CallItem(r.calls[j])) /\ (Ready(r.calls[j]) => Ready(calls[j]))
          /\ calls[j].out = r.calls[j].out /\ calls[j].opened = r.calls[j].opened
    <3> TAKE j \in DOMAIN r.calls
    <3>1. Sent(r.calls[j]) /\ r.calls[j] \in WriterCall
      BY <1>1, <2>1 DEF Fitting, CallsFit
    <3>2. CASE j = i
      BY <1>2, <1>3, <3>1, <3>2, GrownWaits, ZenonT(60) DEF Grown
    <3>3. CASE j # i
      BY <1>3, <3>1, <3>3, FittingWaits
    <3>4. QED
      BY <3>2, <3>3
  <2>5. ReadyCalls(r) \subseteq ReadyCalls(t)
    <3>1. \A n \in DOMAIN r.order : r.order[n] \in DOMAIN r.calls
      BY <2>1 DEF Fitting, Ordered
    <3>2. DOMAIN r.order = 1..Len(r.order) /\ Len(r.order) \in Nat
      BY <1>1, LenProperties DEF Writer
    <3>3. \A n \in DOMAIN r.order : \A j \in 1..n : j \in DOMAIN r.order
      BY <3>2, PlacesBefore
    <3>4. QED
      BY <1>5, <2>4, <3>1, <3>3 DEF ReadyCalls
  <2>6. CallsWait(t)
    BY <1>3, <1>5, <2>1, <2>4, <2>5 DEF Fitting, CallsFit, CallsWait, Placed, SamePlaces
  <2>7. Apart(t) /\ Covered(t) /\ Ordered(t)
    BY <1>3, <1>5, <2>1, <2>4 DEF Fitting, Apart, Covered, Ordered, SamePlaces
  <2>8. QED
    BY <2>2, <2>3, <2>6, <2>7 DEF Pending
<1>7. Good(s) /\ FlushKeeps(t, s)
  BY <1>5, <1>6, FlushFits DEF SameEnd
<1> HIDE DEF s
<1>8. /\ s.calls[i].name = (IF d.name # "" THEN d.name ELSE r.calls[i].name)
      /\ s.calls[i].args = r.calls[i].args \o d.args
  BY <1>2, <1>3, <1>5, <1>7 DEF FlushKeeps, Grown
<1>9. \A j \in DOMAIN r.calls \ {i} :
        s.calls[j].name = r.calls[j].name /\ s.calls[j].args = r.calls[j].args
  BY <1>3, <1>5, <1>7 DEF FlushKeeps
<1>10. SameEnd(r, s) /\ DOMAIN s.calls = DOMAIN r.calls \cup {i}
  BY <1>3, <1>5, <1>7 DEF FlushKeeps, SameEnd
<1>11. QED
  BY <1>7, <1>8, <1>9, <1>10 DEF CallGoes, Kept, s

\* A call of which nothing was sent is one.
LEMMA EarlyCallType ==
  ASSUME NEW n \in Nat, NEW id \in Words, NEW args \in Pieces
  PROVE  [out |-> n, id |-> id, name |-> id, args |-> args, sent |-> 0,
          seen |-> FALSE, opened |-> FALSE, shown |-> FALSE] \in WriterCall
BY DEF WriterCall

\* A call that has only its place.
LEMMA NewCallType ==
  ASSUME NEW n \in Nat, NEW call, call = [NewCallItem EXCEPT !.out = n]
  PROVE  call \in WriterCall /\ call.out = n /\ Sent(call) /\ ~call.opened
<1> DEFINE none == ""
<1>1. /\ none \in Words
      /\ call = [out |-> n, id |-> none, name |-> none, args |-> <<>>, sent |-> 0,
                 seen |-> FALSE, opened |-> FALSE, shown |-> FALSE]
  BY WordsAssumption DEF NewCallItem
<1> HIDE DEF none
<1>2. call.out = n /\ call.sent = 0 /\ call.opened = FALSE /\ call.shown = FALSE
  BY <1>1
<1>3. call \in WriterCall
  BY <1>1, NoPieces, EarlyCallType
<1>4. Sent(call)
  <2>1. call.shown = call.opened
    BY <1>2
  <2>2. call.sent = IF call.opened /\ ~IsCustom(call) THEN Len(call.args) ELSE 0
    BY <1>2
  <2>3. ~call.opened
    BY <1>2
  <2>4. QED
    BY <2>1, <2>2, <2>3, Zenon DEF Sent
<1>5. QED
  BY <1>2, <1>3, <1>4

\* The place n was allotted to the call i, which is the m-th.
PlaceAdded(r, s, n, i, m) ==
  /\ SameEnd(r, s) /\ SamePlaces(r, s)
  /\ n # 0 /\ n \notin DOMAIN r.client.items
  /\ DOMAIN s.client.items = DOMAIN r.client.items \cup {n}
  /\ s.client.items[n] = Allotted
  /\ \A o \in DOMAIN r.client.items : s.client.items[o] = r.client.items[o]
  /\ i \notin DOMAIN r.calls /\ DOMAIN s.calls = DOMAIN r.calls \cup {i}
  /\ \A j \in DOMAIN r.calls : s.calls[j] = r.calls[j]
  /\ s.calls[i].out = n /\ Sent(s.calls[i]) /\ ~s.calls[i].opened
  /\ DOMAIN s.order = DOMAIN r.order \cup {m} /\ s.order[m] = i
  /\ \A k \in DOMAIN r.order : s.order[k] = r.order[k]
  /\ \A k \in DOMAIN r.order : \A j \in 1..k : j \in DOMAIN r.order

\* It fits then.
LEMMA PlaceFits ==
  ASSUME NEW r, Fitting(r), NEW s, NEW n, NEW i, NEW m, PlaceAdded(r, s, n, i, m)
  PROVE  Fitting(s)
<1> USE DEF PlaceAdded
<1>1. ReasoningFits(s) /\ r.rs # n
  <2>1. Reasoning(s) = Reasoning(r)
    BY DEF Reasoning, SameEnd
  <2>2. QED
    BY <2>1 DEF Fitting, ReasoningFits, SameEnd, SamePlaces
<1>2. MessageFits(s) /\ r.msg # n
  <2>1. Message(s) = Message(r)
    BY DEF Message, MessageContent, SameEnd, SamePlaces
  <2>2. QED
    BY <2>1 DEF Fitting, MessageFits, SameEnd, SamePlaces
<1>3. ReadyCalls(r) \subseteq ReadyCalls(s)
  <2>1. \A k \in DOMAIN r.order : r.order[k] \in DOMAIN r.calls
    BY DEF Fitting, Ordered
  <2>2. QED
    BY <2>1 DEF ReadyCalls
<1>4. CallsFit(s)
  <2> SUFFICES ASSUME NEW j \in DOMAIN s.calls
               PROVE  /\ Placed(s, s.calls[j]) /\ Sent(s.calls[j])
                      /\ s.client.items[s.calls[j].out] = CallItem(s.calls[j])
                      /\ s.calls[j].opened => j \in ReadyCalls(s)
    BY DEF CallsFit
  <2>1. CASE j = i
    BY <1>1, <1>2, <2>1 DEF Placed, CallItem, SamePlaces
  <2>2. CASE j # i
    BY <1>3, <2>2 DEF Fitting, CallsFit, Placed, SamePlaces
  <2>3. QED
    BY <2>1, <2>2
<1>5. Apart(s)
  BY DEF Fitting, CallsFit, Placed, Apart
<1>6. Covered(s)
  BY DEF Fitting, Covered, SamePlaces
<1>7. Ordered(s)
  BY DEF Fitting, Ordered
<1>8. QED
  BY <1>1, <1>2, <1>4, <1>5, <1>6, <1>7 DEF Fitting

\* A new call gets the next place, with nothing in it.
NewCall(r) == [NewCallItem EXCEPT !.out = NextPlace(r)]
WithNewCall(r, i) == [Allot(r) EXCEPT !.calls = Put(@, i, NewCall(r)), !.order = Append(@, i)]

\* The writer fits with it.
LEMMA NewCallFits ==
  ASSUME NEW r, Good(r), NEW i \in Indexes, i \notin DOMAIN r.calls,
         NEW call, call = NewCall(r), NEW s, s = WithNewCall(r, i)
  PROVE  /\ Good(s) /\ SameEnd(r, s) /\ s.calls = Put(r.calls, i, call)
         /\ i \in DOMAIN s.calls /\ s.calls[i] = call /\ call \in WriterCall
<1> DEFINE n == Len(r.client.items) + 1
           a == Allot(r)
           calls == Put(r.calls, i, call)
           order == Append(r.order, i)
<1>1. /\ r \in Writer /\ r.client.items \in Seq(Item) /\ Allotted \in Item
      /\ r.calls \in Maps(Indexes, WriterCall) /\ r.order \in Seq(Indexes)
  BY DEF Good, Writer, Client, Item
<1>2. /\ a \in Writer /\ a.client.items = Append(r.client.items, Allotted)
      /\ SameCalls(r, a) /\ SamePlaces(r, a) /\ a.text = r.text
  BY <1>1, AllotType
<1>3. /\ DOMAIN Append(r.client.items, Allotted) = DOMAIN r.client.items \cup {n}
      /\ n \notin DOMAIN r.client.items /\ n \in Nat /\ n # 0
      /\ Append(r.client.items, Allotted)[n] = Allotted
      /\ \A o \in DOMAIN r.client.items :
           Append(r.client.items, Allotted)[o] = r.client.items[o]
  BY <1>1, AppendItem
<1>4. call = [NewCallItem EXCEPT !.out = n]
  BY DEF NewCall, NextPlace
<1> HIDE DEF a, n
<1>5. call \in WriterCall /\ call.out = n /\ Sent(call) /\ ~call.opened
  BY <1>3, <1>4, NewCallType
<1>6. /\ calls \in Maps(Indexes, WriterCall) /\ DOMAIN calls = DOMAIN r.calls \cup {i}
      /\ calls[i] = call /\ \A j \in DOMAIN r.calls : calls[j] = r.calls[j]
  <2>1. calls \in Maps(Indexes, WriterCall)
    BY <1>1, <1>5, PutType
  <2>2. QED
    BY <2>1 DEF Put
<1>7. /\ order \in Seq(Indexes) /\ DOMAIN r.order = 1..Len(r.order) /\ Len(r.order) \in Nat
      /\ DOMAIN order = DOMAIN r.order \cup {Len(r.order) + 1}
      /\ order[Len(r.order) + 1] = i /\ \A k \in DOMAIN r.order : order[k] = r.order[k]
  <2>1. /\ order \in Seq(Indexes) /\ Len(order) = Len(r.order) + 1
        /\ order[Len(r.order) + 1] = i /\ \A k \in 1..Len(r.order) : order[k] = r.order[k]
    BY <1>1, AppendProperties
  <2>2. DOMAIN r.order = 1..Len(r.order) /\ Len(r.order) \in Nat /\ DOMAIN order = 1..Len(order)
    BY <1>1, <2>1, LenProperties
  <2> HIDE DEF order
  <2>3. QED
    BY <2>1, <2>2
<1>8. s = [a EXCEPT !.calls = calls, !.order = order]
  BY <1>2 DEF a, SameCalls, Writer, WithNewCall
<1> HIDE DEF calls, order
<1>9. /\ s \in Writer /\ s.calls = calls /\ s.order = order /\ s.client = a.client
      /\ SameEnd(r, s) /\ SamePlaces(r, s)
  BY <1>2, <1>6, <1>7, <1>8, ZenonT(60) DEF Writer, SameEnd, SamePlaces, SameCalls
<1>10. ASSUME ~r.lost PROVE Fitting(s)
  <2>1. Fitting(r)
    BY <1>10 DEF Good
  <2>2. /\ DOMAIN s.client.items = DOMAIN r.client.items \cup {n}
        /\ s.client.items[n] = Allotted
        /\ \A o \in DOMAIN r.client.items : s.client.items[o] = r.client.items[o]
    BY <1>2, <1>3, <1>9
  <2>3. \A k \in DOMAIN r.order : \A j \in 1..k : j \in DOMAIN r.order
    BY <1>7, PlacesBefore
  <2> DEFINE m == Len(r.order) + 1
  <2>4. /\ DOMAIN s.order = DOMAIN r.order \cup {m} /\ s.order[m] = i
        /\ \A k \in DOMAIN r.order : s.order[k] = r.order[k]
    BY <1>7, <1>9
  <2> HIDE DEF m
  <2>5. /\ DOMAIN s.calls = DOMAIN r.calls \cup {i}
        /\ \A j \in DOMAIN r.calls : s.calls[j] = r.calls[j]
        /\ s.calls[i].out = n /\ Sent(s.calls[i]) /\ ~s.calls[i].opened
    BY <1>5, <1>6, <1>9
  <2>6. SameEnd(r, s) /\ SamePlaces(r, s) /\ n # 0 /\ n \notin DOMAIN r.client.items
    BY <1>3, <1>9
  <2>7. PlaceAdded(r, s, n, i, m)
    BY <2>2, <2>3, <2>4, <2>5, <2>6, Zenon DEF PlaceAdded
  <2>8. QED
    BY <2>1, <2>7, PlaceFits
<1>11. QED
  BY <1>5, <1>6, <1>9, <1>10 DEF Good, SameEnd, calls

\* A piece of a call is kept, and sent if it can be.
LEMMA ToolCallDeltaFits ==
  ASSUME NEW r, Good(r), NEW d, NEW i \in Indexes, d.index = i, CallPiece(d), Agrees(Kept(r, i), d)
  PROVE  CallGoes(r, ToolCallDelta(r, d), i, d)
<1> DEFINE base == [NewCallItem EXCEPT !.out = NextPlace(r)]
           a == [Allot(r) EXCEPT !.calls = Put(@, i, base), !.order = Append(@, i)]
           kept(call) == [r EXCEPT !.calls = Put(@, i, CallAfter(call, d))]
<1>1. CASE i \in DOMAIN r.calls
  <2>1. ToolCallDelta(r, d) = FlushReadyCalls(kept(r.calls[i]))
    BY <1>1 DEF ToolCallDelta
  <2>2. Agrees(r.calls[i], d)
    BY <1>1 DEF Kept
  <2>3. QED
    BY <1>1, <2>1, <2>2, GrowFits
<1>2. CASE i \notin DOMAIN r.calls
  <2>1. /\ Good(a) /\ SameEnd(r, a) /\ a.calls = Put(r.calls, i, base)
        /\ i \in DOMAIN a.calls /\ a.calls[i] = base /\ base \in WriterCall
    <3>1. base = NewCall(r)
      BY DEF NewCall
    <3>2. a = WithNewCall(r, i)
      BY DEF WithNewCall, NewCall
    <3> HIDE DEF base, a
    <3>3. QED
      BY <1>2, <3>1, <3>2, NewCallFits
  <2>2. ToolCallDelta(r, d) =
          FlushReadyCalls([Allot(kept(base)) EXCEPT !.order = Append(@, i)])
    BY <1>2 DEF ToolCallDelta
  <2>3. base.name = "" /\ base.args = <<>> /\ NewCallItem.name = "" /\ NewCallItem.args = <<>>
    BY DEF NewCallItem
  <2>4. Put(a.calls, i, CallAfter(base, d)) = Put(r.calls, i, CallAfter(base, d))
    <3> DEFINE x == CallAfter(base, d)
               f == Put(r.calls, i, base)
    <3>1. DOMAIN f = DOMAIN r.calls \cup {i} /\ \A j \in DOMAIN r.calls : j # i => f[j] = r.calls[j]
      BY DEF Put
    <3> HIDE DEF x, f, base
    <3>2. Put(f, i, x) = Put(r.calls, i, x)
      BY <3>1 DEF Put
    <3>3. QED
      BY <2>1, <3>2 DEF x, f
  <2>5. [a EXCEPT !.calls = Put(@, i, CallAfter(base, d))]
          = [Allot(kept(base)) EXCEPT !.order = Append(@, i)]
    <3> DEFINE x == CallAfter(base, d)
               calls == Put(r.calls, i, x)
    <3>1. r \in Writer
      BY DEF Good
    <3>2. a = [Allot(r) EXCEPT !.calls = a.calls, !.order = Append(@, i)]
      BY <3>1 DEF Allot, Writer
    <3>3. [a EXCEPT !.calls = Put(@, i, x)] = [Allot(r) EXCEPT !.calls = calls, !.order = Append(@, i)]
      BY <2>4, <3>1 DEF Allot, Writer
    <3>4. Allot(kept(base)) = [Allot(r) EXCEPT !.calls = calls]
      BY <3>1 DEF Allot, Writer
    <3> HIDE DEF calls
    <3>5. [[Allot(r) EXCEPT !.calls = calls] EXCEPT !.order = Append(@, i)]
            = [Allot(r) EXCEPT !.calls = calls, !.order = Append(@, i)]
      BY <3>1 DEF Allot, Writer
    <3>6. QED
      BY <3>3, <3>4, <3>5
  <2>6. Agrees(base, d)
    BY <2>3 DEF Agrees
  <2> DEFINE t == [a EXCEPT !.calls = Put(@, i, CallAfter(base, d))]
             s == FlushReadyCalls(t)
  <2>7. CallGoes(a, s, i, d)
    <3> HIDE DEF a, base
    <3>1. t = [a EXCEPT !.calls = Put(@, i, CallAfter(a.calls[i], d))]
      BY <2>1
    <3> HIDE DEF t
    <3>2. QED
      BY <2>1, <2>6, <3>1, GrowFits
  <2>8. ToolCallDelta(r, d) = s
    BY <2>2, <2>5
  <2>9. /\ Kept(a, i).name = Kept(r, i).name /\ Kept(a, i).args = Kept(r, i).args
        /\ DOMAIN a.calls = DOMAIN r.calls \cup {i}
        /\ \A j \in DOMAIN r.calls : j # i => a.calls[j] = r.calls[j]
    <3> HIDE DEF a, base
    <3>1. QED
      BY <1>2, <2>1, <2>3 DEF Kept, Put
  <2> HIDE DEF s, a
  <2>10. SameEnd(r, s)
    BY <2>1, <2>7, Zenon DEF CallGoes, SameEnd
  <2>11. DOMAIN s.calls = DOMAIN r.calls \cup {i}
    <3>1. DOMAIN s.calls = DOMAIN a.calls \cup {i} /\ DOMAIN a.calls = DOMAIN r.calls \cup {i}
      BY <2>7, <2>9, Zenon DEF CallGoes
    <3>2. (DOMAIN r.calls \cup {i}) \cup {i} = DOMAIN r.calls \cup {i}
      OBVIOUS
    <3>3. QED
      BY <3>1, <3>2, Zenon
  <2>12. /\ s.calls[i].name = (IF d.name # "" THEN d.name ELSE Kept(r, i).name)
         /\ s.calls[i].args = Kept(r, i).args \o d.args
    BY <2>7, <2>9, Zenon DEF CallGoes
  <2>13. ASSUME NEW j \in DOMAIN r.calls \ {i}
         PROVE  s.calls[j].name = r.calls[j].name /\ s.calls[j].args = r.calls[j].args
    <3>1. a.calls[j] = r.calls[j] /\ j \in DOMAIN a.calls \ {i}
      BY <2>9, <2>13
    <3>2. QED
      BY <2>7, <3>1, Zenon DEF CallGoes
  <2>14. CallGoes(r, s, i, d)
    BY <2>7, <2>10, <2>11, <2>12, <2>13, Zenon DEF CallGoes
  <2>15. QED
    BY <2>8, <2>14, Zenon
<1>3. QED
  BY <1>1, <1>2

-----------------------------------------------------------------------------
(* What the Responses API's writer makes of a frame.                       *)

\* It hears a piece of text or of a call, or refuses the answer.
Heard(old, new, i, d) ==
  /\ DOMAIN new.calls = DOMAIN old.calls \cup {i}
  /\ new.calls[i].name = (IF d.name # "" THEN d.name ELSE Kept(old, i).name)
  /\ new.calls[i].args = Kept(old, i).args \o d.args
  /\ \A j \in DOMAIN old.calls \ {i} :
       new.calls[j].name = old.calls[j].name /\ new.calls[j].args = old.calls[j].args
SameState(r, s) == s.finish = r.finish /\ s.sawDone = r.sawDone /\ s.lost = r.lost
Hears(r, s, d) ==
  /\ Good(s) /\ SameState(r, s)
  /\ s.failure = "" =>
       /\ d.kind = "text" => /\ s.text = [r.text EXCEPT ![d.key] = r.text[d.key] \o d.value]
                             /\ s.calls = r.calls
       /\ d.kind = "call" => s.text = r.text /\ Heard(r, s, d.index, d)

\* What neither the client nor the calls see does not matter.
LEMMA FittingStays ==
  ASSUME NEW r, NEW s, s.text = r.text, s.client = r.client, s.calls = r.calls,
         s.order = r.order, SamePlaces(r, s), Fitting(r)
  PROVE  Fitting(s)
<1>1. Reasoning(s) = Reasoning(r) /\ Message(s) = Message(r)
  BY DEF Reasoning, Message, MessageContent, SamePlaces
<1>2. ReadyCalls(s) = ReadyCalls(r)
  BY DEF ReadyCalls
<1>3. QED
  BY <1>1, <1>2
     DEF Fitting, ReasoningFits, MessageFits, CallsFit, Placed, Apart, Covered, Ordered, SamePlaces

\* A piece of a call of either form.
LEMMA CallDeltaFits ==
  ASSUME NEW r, Good(r), NEW d \in Frames, d.kind = "call", Agrees(Kept(r, d.index), d)
  PROVE  Hears(r, CallDelta(r, d), d)
<1> DEFINE i == d.index
           mixed == IF i = Legacy THEN ~r.legacy /\ r.order # <<>> ELSE r.legacy
           refused == [r EXCEPT !.failure = "upstream_parse"]
           old == [r EXCEPT !.legacy = TRUE]
           piece == [d EXCEPT !.id = "generated"]
<1>1. /\ i \in Indexes /\ CallPiece(d)
      /\ CallPiece(piece) /\ piece.index = i /\ piece.name = d.name /\ piece.args = d.args
  BY DEF Frames, CallPiece
<1>2. CallDelta(r, d) = IF mixed THEN refused ELSE IF i = Legacy THEN ToolCallDelta(old, piece)
                        ELSE ToolCallDelta(r, d)
  BY DEF CallDelta
<1> HIDE DEF piece, mixed
<1>3. CASE mixed
  <2>1. CallDelta(r, d) = refused
    BY <1>2, <1>3
  <2>2. /\ refused \in Writer /\ SameState(r, refused) /\ refused.failure # ""
        /\ refused.text = r.text /\ refused.client = r.client /\ refused.calls = r.calls
        /\ refused.order = r.order /\ SamePlaces(r, refused)
    BY DEF Good, Writer, SameState, SamePlaces, Codes
  <2> HIDE DEF refused
  <2>3. Fitting(r) => Fitting(refused)
    BY <2>2, FittingStays
  <2>4. QED
    BY <2>1, <2>2, <2>3 DEF Hears, Good, SameState
<1>4. CASE ~mixed /\ i = Legacy
  <2>1. CallDelta(r, d) = ToolCallDelta(old, piece)
    BY <1>2, <1>4
  <2>2. /\ old \in Writer /\ SameState(r, old) /\ old.failure = r.failure
        /\ old.text = r.text /\ old.client = r.client /\ old.calls = r.calls
        /\ old.order = r.order /\ SamePlaces(r, old)
    BY DEF Good, Writer, SameState, SamePlaces
  <2> HIDE DEF old
  <2>3. Good(old)
    BY <2>2, FittingStays DEF Good, SameState
  <2>4. Kept(old, i) = Kept(r, i)
    BY <2>2 DEF Kept
  <2> HIDE DEF i
  <2>5. Agrees(Kept(old, i), piece)
    BY <1>1, <2>4 DEF Agrees, i
  <2>6. CallGoes(old, ToolCallDelta(old, piece), i, piece)
    BY <1>1, <2>3, <2>5, ToolCallDeltaFits
  <2>7. QED
    BY <1>1, <2>1, <2>2, <2>4, <2>6 DEF CallGoes, SameEnd, Hears, Heard, SameState, i
<1>5. CASE ~mixed /\ i # Legacy
  <2>1. CallDelta(r, d) = ToolCallDelta(r, d)
    BY <1>2, <1>5
  <2>2. CallGoes(r, ToolCallDelta(r, d), d.index, d)
    BY <1>1, ToolCallDeltaFits
  <2>3. QED
    BY <2>1, <2>2 DEF CallGoes, SameEnd, Hears, Heard, SameState
<1>6. QED
  BY <1>3, <1>4, <1>5

\* A frame of a delta.
LEMMA HandleFrameFits ==
  ASSUME NEW r, Good(r), ~r.sawDone, r.failure = "", NEW d \in Frames,
         d.kind = "call" => Agrees(Kept(r, d.index), d)
  PROVE  Hears(r, HandleFrame(r, d), d)
<1>1. CASE d.kind = "text"
  <2>1. d.key \in TextKeys /\ d.value \in Pieces
    BY <1>1 DEF Frames
  <2>2. HandleFrame(r, d) = IF d.value = <<>> THEN r
                            ELSE IF d.key = "reasoning_content" THEN ReasoningDelta(r, d.value)
                            ELSE TextDelta(r, d.key, d.value)
    BY <1>1 DEF HandleFrame
  <2>3. CASE d.value = <<>>
    <3>1. r.text \in Texts /\ r.text[d.key] \in Seq(Words)
      BY <2>1 DEF Good, Writer, Texts, Pieces
    <3>2. r.text[d.key] \o d.value = r.text[d.key]
      BY <2>3, <3>1, ConcatEmptySeq
    <3>3. [r.text EXCEPT ![d.key] = r.text[d.key]] = r.text
      BY <3>1 DEF Texts
    <3>4. QED
      BY <1>1, <2>2, <2>3, <3>2, <3>3 DEF Hears, SameState
  <2>4. CASE d.value # <<>> /\ d.key = "reasoning_content"
    <3>1. TextGoes(r, ReasoningDelta(r, d.value), "reasoning_content", d.value)
      BY <2>1, ReasoningDeltaFits
    <3>2. QED
      BY <1>1, <2>2, <2>4, <3>1 DEF TextGoes, Hears, SameCalls, SameState
  <2>5. CASE d.value # <<>> /\ d.key # "reasoning_content"
    <3>1. d.key \in {"content", "refusal"}
      BY <2>1, <2>5 DEF TextKeys
    <3>2. TextGoes(r, TextDelta(r, d.key, d.value), d.key, d.value)
      BY <2>1, <3>1, TextDeltaFits
    <3>3. QED
      BY <1>1, <2>2, <2>5, <3>2 DEF TextGoes, Hears, SameCalls, SameState
  <2>6. QED
    BY <2>3, <2>4, <2>5
<1>2. CASE d.kind = "call"
  <2>1. HandleFrame(r, d) = CallDelta(r, d)
    BY <1>2 DEF HandleFrame
  <2>2. QED
    BY <1>2, <2>1, CallDeltaFits
<1>3. QED
  BY <1>1, <1>2 DEF Frames

\* What the frames do that end a stream.
LEMMA EndFrames ==
  ASSUME NEW r, ~r.sawDone, NEW x
  PROVE  /\ HandleFrame(r, [kind |-> "error", code |-> x]) = [r EXCEPT !.failure = x]
         /\ HandleFrame(r, [kind |-> "done"]) = [r EXCEPT !.sawDone = TRUE]
         /\ r.failure # "" => HandleFrame(r, [kind |-> "finish", reason |-> x]) = r
         /\ r.failure = "" =>
              HandleFrame(r, [kind |-> "finish", reason |-> x]) = [r EXCEPT !.finish = x]
         /\ HandleFrame(r, [kind |-> "nothing"]) = r
<1>1. HandleFrame(r, [kind |-> "error", code |-> x]) = [r EXCEPT !.failure = x]
  BY DEF HandleFrame
<1>2. HandleFrame(r, [kind |-> "done"]) = [r EXCEPT !.sawDone = TRUE]
  BY DEF HandleFrame
<1>3. r.failure # "" => HandleFrame(r, [kind |-> "finish", reason |-> x]) = r
  BY DEF HandleFrame
<1>4. r.failure = "" => HandleFrame(r, [kind |-> "finish", reason |-> x]) = [r EXCEPT !.finish = x]
  BY DEF HandleFrame
<1>5. HandleFrame(r, [kind |-> "nothing"]) = r
  BY DEF HandleFrame
<1>6. QED
  BY <1>1, <1>2, <1>3, <1>4, <1>5

\* The client may be lost between any two frames.
LEMMA LoseFits ==
  ASSUME NEW r, Good(r), NEW b \in BOOLEAN, r.lost => b, NEW s, s = [r EXCEPT !.lost = b]
  PROVE  /\ Good(s) /\ s.lost = b /\ s.text = r.text /\ s.calls = r.calls /\ s.order = r.order
         /\ s.failure = r.failure /\ s.finish = r.finish /\ s.sawDone = r.sawDone
         /\ s.client = r.client
<1>1. /\ s \in Writer /\ s.lost = b /\ s.text = r.text /\ s.calls = r.calls
      /\ s.order = r.order /\ s.client = r.client /\ SamePlaces(r, s)
      /\ s.failure = r.failure /\ s.finish = r.finish /\ s.sawDone = r.sawDone
  BY DEF Good, Writer, SamePlaces
<1>2. Fitting(r) => Fitting(s)
  BY <1>1, FittingStays
<1>3. QED
  BY <1>1, <1>2 DEF Good

\* The client is lost for good.
LEMMA LoseAll ==
  ASSUME NEW r, Good(r), NEW s, s = [r EXCEPT !.lost = TRUE]
  PROVE  /\ Good(s) /\ s.lost = TRUE /\ s.text = r.text /\ s.calls = r.calls /\ s.order = r.order
         /\ s.failure = r.failure /\ s.finish = r.finish /\ s.sawDone = r.sawDone
         /\ s.client = r.client
<1>1. /\ s \in Writer /\ s.lost = TRUE /\ s.text = r.text /\ s.calls = r.calls
      /\ s.order = r.order /\ s.client = r.client /\ SamePlaces(r, s)
      /\ s.failure = r.failure /\ s.finish = r.finish /\ s.sawDone = r.sawDone
  BY DEF Good, Writer, SamePlaces
<1>2. Fitting(r) => Fitting(s)
  BY <1>1, FittingStays
<1>3. QED
  BY <1>1, <1>2 DEF Good

\* What the tail of the stream makes of the writer: how it ended is kept.
Ends(r, s) ==
  /\ Good(s) /\ s.text = r.text /\ s.calls = r.calls /\ s.order = r.order
  /\ IF Lost THEN s.lost /\ s.failure = r.failure /\ s.finish = r.finish
     ELSE /\ ~s.lost /\ s.sawDone
          /\ s.failure = (IF Code # "" THEN Code ELSE r.failure)
          /\ s.finish = (IF Code = "" /\ r.failure = "" /\ up.finish # "" THEN up.finish ELSE r.finish)

\* The tail ends the writer's stream.
LEMMA HandleEndFits ==
  ASSUME NEW r, Good(r), ~r.sawDone, r.lost => Lost, Code \in Codes, up.finish \in Words
  PROVE  Ends(r, HandleEnd(r))
<1>1. CASE Lost
  <2> DEFINE s == [r EXCEPT !.lost = TRUE]
  <2>1. s = [r EXCEPT !.lost = TRUE]
    OBVIOUS
  <2>2. HandleEnd(r) = s
    BY <1>1 DEF HandleEnd
  <2> HIDE DEF s
  <2>3. /\ Good(s) /\ s.lost = TRUE /\ s.text = r.text /\ s.calls = r.calls /\ s.order = r.order
        /\ s.failure = r.failure /\ s.finish = r.finish
    BY <2>1, LoseAll, ZenonT(60)
  <2>4. QED
    BY <1>1, <2>2, <2>3 DEF Ends
<1>2. CASE ~Lost
  <2> DEFINE a == [r EXCEPT !.lost = FALSE]
             s == HandleFrame(HandleFrame(a, LastFrame), DoneMark)
  <2>1. /\ Good(a) /\ a.text = r.text /\ a.calls = r.calls /\ a.order = r.order /\ ~a.lost
        /\ a.failure = r.failure /\ a.finish = r.finish /\ a.sawDone = r.sawDone
    BY <1>2, LoseFits, ZenonT(60)
  <2>2. HandleEnd(r) = s
    BY <1>2 DEF HandleEnd
  <2> DEFINE fail == IF Code # "" THEN Code ELSE r.failure
             fin == IF Code = "" /\ r.failure = "" /\ up.finish # "" THEN up.finish ELSE r.finish
             b == HandleFrame(a, LastFrame)
  <2> HIDE DEF a
  <2>3. b = [a EXCEPT !.failure = fail, !.finish = fin]
    <3>0. a = [a EXCEPT !.failure = a.failure] /\ a = [a EXCEPT !.finish = a.finish]
          /\ a = [a EXCEPT !.failure = a.failure, !.finish = a.finish]
      BY <2>1 DEF Good, Writer
    <3>1. CASE Code # ""
      <4>1. LastFrame = [kind |-> "error", code |-> Code]
        BY <3>1 DEF LastFrame, Err
      <4>2. b = [a EXCEPT !.failure = Code]
        BY <2>1, <4>1, EndFrames
      <4>3. QED
        BY <2>1, <3>1, <4>2, ZenonT(60) DEF Good, Writer
    <3>2. CASE Code = "" /\ up.finish # ""
      <4>1. LastFrame = [kind |-> "finish", reason |-> up.finish]
        BY <3>2 DEF LastFrame, Fin
      <4>2. b = IF a.failure # "" THEN a ELSE [a EXCEPT !.finish = up.finish]
        BY <2>1, <4>1, EndFrames
      <4>3. QED
        BY <2>1, <3>0, <3>2, <4>2, ZenonT(60) DEF Good, Writer
    <3>3. CASE Code = "" /\ up.finish = ""
      <4>1. LastFrame = [kind |-> "nothing"]
        BY <3>3 DEF LastFrame, Nothing
      <4>2. b = a
        BY <2>1, <4>1, EndFrames
      <4>3. QED
        BY <2>1, <3>0, <3>3, <4>2
    <3>4. QED
      BY <3>1, <3>2, <3>3
  <2>4. fail \in Codes /\ fin \in Words
    BY DEF Good, Writer
  <2> HIDE DEF fail, fin, b
  <2>5. /\ b \in Writer /\ b.text = a.text /\ b.calls = a.calls /\ b.order = a.order
        /\ ~b.lost /\ b.failure = fail /\ b.finish = fin /\ ~b.sawDone
        /\ b.client = a.client /\ SamePlaces(a, b)
    BY <2>1, <2>3, <2>4 DEF Good, Writer, SamePlaces
  <2>6. s = [b EXCEPT !.sawDone = TRUE]
    BY <2>5, EndFrames DEF DoneMark, b
  <2> HIDE DEF s
  <2>7. /\ s \in Writer /\ s.text = a.text /\ s.calls = a.calls /\ s.order = a.order
        /\ ~s.lost /\ s.failure = fail /\ s.finish = fin /\ s.sawDone
        /\ s.client = a.client /\ SamePlaces(a, s)
    BY <2>5, <2>6 DEF Writer, SamePlaces
  <2>8. Good(s)
    BY <2>1, <2>7, FittingStays DEF Good
  <2>9. QED
    BY <1>2, <2>1, <2>2, <2>7, <2>8 DEF Ends, fail, fin
<1>3. QED
  BY <1>1, <1>2

-----------------------------------------------------------------------------
(* What is asked of the whole answer.                                      *)

\* Whether it is complete does not depend on what has been sent of it.
SameOutcome(r, s) ==
  /\ s.text = r.text /\ s.order = r.order /\ s.finish = r.finish
  /\ s.failure = r.failure /\ s.sawDone = r.sawDone
  /\ DOMAIN s.calls = DOMAIN r.calls
  /\ \A i \in DOMAIN r.calls :
       /\ s.calls[i].name = r.calls[i].name /\ s.calls[i].args = r.calls[i].args
       /\ s.calls[i].seen = r.calls[i].seen
(* Two writers that say the same have the same failure.                    *)
LEMMA SameFailure ==
  ASSUME NEW r, NEW s, SameOutcome(r, s), NEW req
  PROVE  Failure(s, req) = Failure(r, req)
<1>1. /\ (\E i \in DOMAIN s.calls : s.calls[i].name = "" \/ ~Whole(s.calls[i]))
           <=> (\E i \in DOMAIN r.calls : r.calls[i].name = "" \/ ~Whole(r.calls[i]))
      /\ DOMAIN s.calls = DOMAIN r.calls /\ s.text = r.text
  BY DEF SameOutcome, Whole
<1>2. \A refusal \in BOOLEAN : PolicyViolated(req, s.calls, refusal) <=> PolicyViolated(req, r.calls, refusal)
  <2>1. (\E i \in DOMAIN s.calls : \/ s.calls[i].name \notin req.allowed
                                 \/ <<s.calls[i].name, s.calls[i].args>> \in req.unfit)
          <=> (\E i \in DOMAIN r.calls : \/ r.calls[i].name \notin req.allowed
                                       \/ <<r.calls[i].name, r.calls[i].args>> \in req.unfit)
    BY DEF SameOutcome
  <2>2. QED
    BY <1>1, <2>1, Zenon DEF PolicyViolated
<1>3. ContractViolation(req, s.calls, s.text) = ContractViolation(req, r.calls, r.text)
  BY <1>1, <1>2 DEF ContractViolation
<1>4. QED
  BY <1>3 DEF Failure, SameOutcome

\* It is one of the failures there are.
LEMMA FailureType ==
  ASSUME NEW r \in Writer, NEW req
  PROVE  Failure(r, req) \in Codes
<1>1. ContractViolation(req, r.calls, r.text) \in Codes
  BY DEF ContractViolation, Codes
<1>2. r.failure \in Codes
  BY DEF Writer
<1>3. QED
  BY <1>1, <1>2 DEF Failure, Codes

\* Every call gets an id, and nothing else.
LEMMA EnsureIdsFits ==
  ASSUME NEW r, Good(r), NEW e, e = EnsureIds(r)
  PROVE  /\ e \in Writer /\ (~r.lost => Pending(e)) /\ SameOutcome(r, e) /\ e.lost = r.lost
         /\ \A i \in DOMAIN e.calls : e.calls[i].id # ""
<1> DEFINE id(i) == IF r.calls[i].id = "" THEN "generated" ELSE r.calls[i].id
           new(i) == [r.calls[i] EXCEPT !.id = id(i)]
           calls == [i \in DOMAIN r.calls |-> new(i)]
<1>1. /\ r \in Writer /\ r.calls \in Maps(Indexes, WriterCall) /\ DOMAIN r.calls \subseteq Indexes
      /\ \A i \in DOMAIN r.calls : r.calls[i] \in WriterCall
  BY GoodCalls
<1>2. \A i \in DOMAIN r.calls : id(i) \in Words \cup {"generated"} /\ id(i) # ""
  BY <1>1 DEF WriterCall
<1>3. e = [r EXCEPT !.calls = calls]
  <2>1. \A i \in DOMAIN r.calls :
          [r.calls[i] EXCEPT !.id = IF @ = "" THEN "generated" ELSE @] = new(i)
    BY <1>1 DEF WriterCall
  <2>2. QED
    BY <2>1 DEF EnsureIds
<1> HIDE DEF id
<1>4. \A i \in DOMAIN r.calls :
        /\ new(i) \in WriterCall /\ new(i).id # "" /\ new(i).out = r.calls[i].out
        /\ new(i).name = r.calls[i].name /\ new(i).args = r.calls[i].args
        /\ new(i).sent = r.calls[i].sent /\ new(i).seen = r.calls[i].seen
        /\ new(i).opened = r.calls[i].opened /\ new(i).shown = r.calls[i].shown
  BY <1>1, <1>2 DEF WriterCall
<1>5. DOMAIN calls = DOMAIN r.calls /\ calls = [i \in DOMAIN calls |-> calls[i]]
      /\ \A i \in DOMAIN r.calls : calls[i] = new(i)
  OBVIOUS
<1> HIDE DEF calls, new
<1>6. calls \in Maps(Indexes, WriterCall)
  <2>1. DOMAIN calls \subseteq Indexes /\ \A i \in DOMAIN calls : calls[i] \in WriterCall
    BY <1>1, <1>4, <1>5, Zenon
  <2>2. QED
    BY <2>1, <1>5, MapsDef
<1>7. /\ e \in Writer /\ e.calls = calls /\ e.text = r.text /\ e.order = r.order
      /\ e.finish = r.finish /\ e.failure = r.failure /\ e.sawDone = r.sawDone
      /\ e.lost = r.lost /\ e.client = r.client /\ SamePlaces(r, e)
  BY <1>1, <1>3, <1>6 DEF Writer, SamePlaces
<1>8. SameOutcome(r, e) /\ \A i \in DOMAIN e.calls : e.calls[i].id # ""
  <2>1. DOMAIN e.calls = DOMAIN r.calls /\ \A i \in DOMAIN r.calls : e.calls[i] = new(i)
    BY <1>5, <1>7
  <2>2. \A i \in DOMAIN e.calls : e.calls[i].id # ""
    BY <1>4, <2>1, ZenonT(60)
  <2>3. \A i \in DOMAIN r.calls :
          /\ e.calls[i].name = r.calls[i].name /\ e.calls[i].args = r.calls[i].args
          /\ e.calls[i].seen = r.calls[i].seen
    BY <1>4, <2>1, Zenon
  <2>4. QED
    BY <1>7, <2>1, <2>2, <2>3, Zenon DEF SameOutcome
<1>9. ASSUME ~r.lost PROVE Pending(e)
  <2>1. Fitting(r)
    BY <1>9 DEF Good
  <2>2. ReasoningFits(e) /\ MessageFits(e)
    <3>1. Reasoning(e) = Reasoning(r) /\ Message(e) = Message(r)
      BY <1>7 DEF Reasoning, Message, MessageContent, SamePlaces
    <3>2. QED
      BY <1>7, <2>1, <3>1 DEF Fitting, ReasoningFits, MessageFits, SamePlaces
  <2>3. \A i \in DOMAIN r.calls : Waits(calls[i], CallItem(r.calls[i]))
    <3> TAKE i \in DOMAIN r.calls
    <3>1. Waits(r.calls[i], CallItem(r.calls[i]))
      BY <1>1, <2>1, FittingWaits DEF Fitting, CallsFit
    <3>2. /\ calls[i].name = r.calls[i].name /\ calls[i].args = r.calls[i].args
          /\ calls[i].sent = r.calls[i].sent /\ calls[i].opened = r.calls[i].opened
          /\ calls[i].shown = r.calls[i].shown
      BY <1>4, <1>5
    <3>3. Unsent(calls[i]) = Unsent(r.calls[i]) /\ (IsCustom(calls[i]) <=> IsCustom(r.calls[i]))
      BY <3>2 DEF Unsent, IsCustom
    <3>4. \A given : Shown(calls[i], given) = Shown(r.calls[i], given)
      BY <3>2, <3>3 DEF Shown
    <3>5. QED
      BY <3>1, <3>2, <3>3, <3>4 DEF Waits
  <2>4. ReadyCalls(r) \subseteq ReadyCalls(e)
    <3>1. \A n \in DOMAIN r.order : r.order[n] \in DOMAIN r.calls
      BY <2>1 DEF Fitting, Ordered
    <3>2. \A n \in DOMAIN r.order : \A j \in 1..n : j \in DOMAIN r.order
      <4>1. DOMAIN r.order = 1..Len(r.order) /\ Len(r.order) \in Nat
        BY <1>1, LenProperties DEF Writer
      <4>2. QED
        BY <4>1, PlacesBefore
    <3>3. \A i \in DOMAIN r.calls : Ready(r.calls[i]) => Ready(calls[i])
      BY <1>4, <1>5 DEF Ready
    <3>4. QED
      BY <1>7, <3>1, <3>2, <3>3 DEF ReadyCalls
  <2> DEFINE keeps(c, d) == c.out = d.out /\ (c.opened <=> d.opened)
  <2>8. /\ DOMAIN e.calls = DOMAIN r.calls
        /\ \A i \in DOMAIN r.calls : e.calls[i] = calls[i] /\ keeps(calls[i], r.calls[i])
    BY <1>4, <1>5, <1>7, ZenonT(60)
  <2>9. \A i \in DOMAIN r.calls : e.calls[i].out = r.calls[i].out /\ (e.calls[i].opened <=> r.calls[i].opened)
    BY <2>8
  <2>10. e.rs = r.rs /\ e.msg = r.msg /\ e.client = r.client /\ e.order = r.order
    BY <1>7 DEF SamePlaces
  <2> HIDE DEF keeps
  <2>5. CallsWait(e)
    <3>1. CallsFit(r)
      BY <2>1 DEF Fitting
    <3>2. ASSUME NEW i \in DOMAIN r.calls
          PROVE  /\ Placed(e, e.calls[i]) /\ Waits(e.calls[i], e.client.items[e.calls[i].out])
                 /\ e.calls[i].opened => i \in ReadyCalls(e)
      <4>1. /\ Placed(r, r.calls[i]) /\ r.client.items[r.calls[i].out] = CallItem(r.calls[i])
            /\ r.calls[i].opened => i \in ReadyCalls(r)
        BY <3>1, <3>2, Zenon DEF CallsFit
      <4>2. /\ Waits(calls[i], CallItem(r.calls[i])) /\ e.calls[i] = calls[i]
            /\ e.calls[i].out = r.calls[i].out /\ (e.calls[i].opened <=> r.calls[i].opened)
        BY <3>2, <2>3, <2>8, <2>9, Zenon
      <4>3. Placed(e, e.calls[i])
        BY <4>1, <4>2, <2>10, Zenon DEF Placed
      <4>4. Waits(e.calls[i], e.client.items[e.calls[i].out])
        BY <4>1, <4>2, <2>10, Zenon
      <4>5. e.calls[i].opened => i \in ReadyCalls(e)
        BY <4>1, <4>2, <2>4
      <4>6. QED
        BY <4>3, <4>4, <4>5
    <3>3. QED
      BY <3>2, <2>8, Zenon DEF CallsWait
  <2>6. Apart(e) /\ Covered(e) /\ Ordered(e)
    <3>1. DOMAIN e.calls = DOMAIN r.calls /\ \A i \in DOMAIN r.calls : e.calls[i].out = r.calls[i].out
      BY <2>8, <2>9
    <3>2. Apart(r) /\ Covered(r) /\ Ordered(r)
      BY <2>1 DEF Fitting
    <3>3. Apart(e)
      BY <3>1, <3>2, Zenon DEF Apart
    <3>4. Covered(e)
      BY <3>1, <3>2, <2>10, ZenonT(60) DEF Covered
    <3>5. Ordered(e)
      BY <3>1, <3>2, <2>10, ZenonT(60) DEF Ordered
    <3>6. QED
      BY <3>3, <3>4, <3>5
  <2>7. QED
    BY <2>2, <2>5, <2>6 DEF Pending
<1>10. QED
  BY <1>7, <1>8, <1>9

\* The check of the answer leaves a writer that says what it says, and the
\* client with every call of an answer that is complete.
Completes(r, s, req) ==
  /\ Good(s) /\ s.text = r.text /\ s.finish = r.finish /\ s.lost = r.lost
  /\ DOMAIN s.calls = DOMAIN r.calls
  /\ \A i \in DOMAIN r.calls :
       s.calls[i].name = r.calls[i].name /\ s.calls[i].args = r.calls[i].args
  /\ s.lost => s = r
  /\ ~s.lost =>
       /\ s.failure = Failure(r, req) /\ Failure(s, req) = Failure(r, req)
       /\ s.failure = "" /\ s.finish \notin Cut => \A i \in DOMAIN s.calls : s.calls[i].opened
(* Every writer that fits what was sent is completed so.                   *)
LEMMA CompletionErrorFits ==
  ASSUME NEW r, Good(r), NEW req
  PROVE  Completes(r, CompletionError(r, req), req)
<1> DEFINE f == Failure(r, req)
           s == CompletionError(r, req)
<1>1. s = IF r.lost THEN r
          ELSE IF f # "" \/ r.finish \in Cut THEN [r EXCEPT !.failure = f]
          ELSE FlushReadyCalls(EnsureIds(r))
  BY DEF CompletionError
<1>2. f \in Codes /\ (f = "" => r.failure = "") /\ (r.failure # "" => f = r.failure)
  <2>1. f \in Codes
    BY FailureType DEF Good
  <2>2. QED
    BY <2>1 DEF Failure
<1>3. CASE r.lost
  BY <1>1, <1>3 DEF Completes
<1>4. CASE ~r.lost /\ (f # "" \/ r.finish \in Cut)
  <2> DEFINE t == [r EXCEPT !.failure = f]
  <2>1. s = t
    BY <1>1, <1>4
  <2> HIDE DEF s, f
  <2>2. /\ t \in Writer /\ t.text = r.text /\ t.calls = r.calls /\ t.order = r.order
        /\ t.finish = r.finish /\ t.failure = f /\ t.sawDone = r.sawDone
        /\ t.lost = r.lost /\ t.client = r.client /\ SamePlaces(r, t)
    BY <1>2 DEF Good, Writer, SamePlaces
  <2> HIDE DEF t
  <2>3. Good(t)
    BY <2>2, FittingStays DEF Good
  <2>4. Failure(t, req) = f
    <3>1. CASE f # ""
      BY <2>2, <3>1 DEF Failure
    <3>2. CASE f = ""
      <4>1. SameOutcome(r, t)
        BY <1>2, <2>2, <3>2 DEF SameOutcome
      <4>2. QED
        BY <4>1, SameFailure DEF f
    <3>3. QED
      BY <3>1, <3>2
  <2>5. ~(t.failure = "" /\ t.finish \notin Cut)
    BY <1>4, <2>2
  <2>6. t.failure = Failure(r, req) /\ Failure(t, req) = Failure(r, req)
    BY <2>2, <2>4 DEF f
  <2>7. Completes(r, t, req)
    BY <1>4, <2>2, <2>3, <2>5, <2>6, Zenon DEF Completes
  <2>8. QED
    BY <2>1, <2>7 DEF s
<1>5. CASE ~r.lost /\ f = "" /\ r.finish \notin Cut
  <2> DEFINE e == EnsureIds(r)
             t == FlushReadyCalls(e)
  <2>1. s = t
    BY <1>1, <1>5
  <2>2. /\ e \in Writer /\ Pending(e) /\ SameOutcome(r, e) /\ ~e.lost /\ e.lost = r.lost
        /\ \A i \in DOMAIN e.calls : e.calls[i].id # ""
    BY <1>5, EnsureIdsFits
  <2> HIDE DEF e, f
  <2>3. Good(t) /\ FlushKeeps(e, t)
    BY <2>2, FlushFits
  <2> HIDE DEF t
  <2>4. SameOutcome(r, t)
    BY <2>2, <2>3 DEF SameOutcome, FlushKeeps
  <2>5. Failure(t, req) = f
    BY <2>4, SameFailure DEF f
  <2>6. \A i \in DOMAIN r.calls : r.calls[i].name # ""
    <3>1. ContractViolation(req, r.calls, r.text) = ""
      BY <1>2, <1>5 DEF f, Failure
    <3>2. QED
      BY <3>1 DEF ContractViolation
  <2>7. \A i \in DOMAIN t.calls : t.calls[i].opened
    <3>1. \A i \in DOMAIN e.calls : Ready(e.calls[i])
      BY <2>2, <2>6 DEF Ready, SameOutcome
    <3>2. DOMAIN e.order = 1..Len(e.order) /\ Len(e.order) \in Nat
      BY <2>2, LenProperties DEF Writer
    <3>3. \A n \in DOMAIN e.order : \A j \in 1..n : j \in DOMAIN e.order
      BY <3>2, PlacesBefore
    <3>4. \A i \in DOMAIN e.calls : i \in ReadyCalls(e)
      BY <2>2, <3>1, <3>3 DEF ReadyCalls, Pending, Ordered
    <3>5. QED
      BY <2>3, <3>4 DEF FlushKeeps
  <2>8. QED
    <3>1. /\ ~t.lost /\ t.text = r.text /\ t.finish = r.finish /\ DOMAIN t.calls = DOMAIN r.calls
      BY <2>2, <2>3, <2>4 DEF FlushKeeps, SameOutcome
    <3>2. \A i \in DOMAIN r.calls : t.calls[i].name = r.calls[i].name /\ t.calls[i].args = r.calls[i].args
      BY <2>4 DEF SameOutcome
    <3>3. t.failure = Failure(r, req)
      BY <1>2, <1>5, <2>4 DEF SameOutcome, f
    <3>4. Failure(t, req) = Failure(r, req)
      BY <2>5 DEF f
    <3>5. \A i \in DOMAIN t.calls : t.calls[i].opened
      BY <2>7
    <3>6. t.lost = r.lost
      BY <2>2, <2>3, Zenon DEF FlushKeeps
    <3>7. Completes(r, t, req)
      BY <2>3, <3>1, <3>2, <3>3, <3>4, <3>5, <3>6, Zenon DEF Completes
    <3>8. QED
      BY <2>1, <3>7 DEF s
<1>6. QED
  BY <1>3, <1>4, <1>5

-----------------------------------------------------------------------------
(* The end of the Responses API's stream.                                  *)

\* From the last check to the terminal event items are only closed.
LastItem == {Allotted} \cup [type : ItemTypes, parts : Maps(PartNames, Pieces), open : BOOLEAN]
LastClient == [items : Seq(LastItem), terminal : {""}, output : {<<>>}, confused : {FALSE}]
Statuses == {"failed", "incomplete", "completed"}
Closer == [text : Texts, calls : Maps(Indexes, WriterCall), order : Seq(Indexes),
           legacy : BOOLEAN, finish : Words, failure : Codes, sawDone : BOOLEAN,
           status : Statuses, rs : Nat, rsOpen : BOOLEAN, msg : Nat, msgOpen : BOOLEAN,
           parts : SUBSET {"content", "refusal"}, lost : BOOLEAN, client : LastClient]

\* The writer that knows how it ends.
LEMMA CloserType ==
  ASSUME NEW r \in Writer, NEW status \in Statuses, NEW t, t = [r EXCEPT !.status = status]
  PROVE  /\ t \in Closer /\ t.status = status /\ SameCalls(r, t) /\ SamePlaces(r, t)
         /\ t.text = r.text /\ t.client = r.client
<1>1. Item \subseteq LastItem
  BY DEF Item, LastItem
<1>2. \A its : its \in Seq(Item) => its \in Seq(LastItem)
  BY <1>1, SeqDef
<1>3. r.client \in LastClient
  BY <1>2 DEF Writer, Client, LastClient
<1>4. QED
  BY <1>3 DEF Writer, Closer, SameCalls, SamePlaces

\* A done event that fits closes its item and does nothing else.
Closes(r, s, out, item) ==
  /\ s \in Closer /\ SameCalls(r, s) /\ SamePlaces(r, s) /\ s.text = r.text /\ s.status = r.status
  /\ s.client.items = [r.client.items EXCEPT ![out] = item]

\* That of the reasoning or the message repeats what the client has.
LEMMA DoneSends ==
  ASSUME NEW r \in Closer, ~r.lost, NEW out \in DOMAIN r.client.items,
         NEW item, item = r.client.items[out], item # Allotted,
         NEW content \in Maps(PartNames, Pieces), DoneFits(item, content),
         NEW new, new = DoneItem(item, content)
  PROVE  Closes(r, Done(r, out, content), out, new)
<1> DEFINE its == [r.client.items EXCEPT ![out] = new]
           c == [r.client EXCEPT !.items = its]
           fits == DoneFits(r.client.items[out], content)
<1>1. r.client \in LastClient /\ r.client.items \in Seq(LastItem)
  BY DEF Closer, LastClient
<1>2. DOMAIN r.client.items = 1..Len(r.client.items)
  BY <1>1, LenProperties
<1>3. item \in [type : ItemTypes, parts : Maps(PartNames, Pieces), open : BOOLEAN]
  BY <1>1, <1>2, ElementOfSeq DEF LastItem
<1>4. new \in LastItem
  BY <1>3 DEF DoneItem, LastItem
<1>5. its \in Seq(LastItem)
  BY <1>1, <1>2, <1>4, ExceptSeq
<1>6. Done(r, out, content) = Emit(r, c, fits)
  <2>1. Done(r, out, content) =
          Emit(r, [r.client EXCEPT !.items[out] = DoneItem(@, content)], fits)
    BY DEF Done
  <2>2. [r.client EXCEPT !.items[out] = DoneItem(@, content)] = c
    BY <1>1 DEF LastClient
  <2>3. QED
    BY <2>1, <2>2
<1>7. fits
  OBVIOUS
<1> HIDE DEF its, fits
<1>8. c \in LastClient /\ c.items = its
  BY <1>1, <1>5 DEF LastClient
<1> HIDE DEF c
<1> DEFINE confused == c.confused \/ ~fits \/ r.client.terminal # ""
<1>9. confused = FALSE
  BY <1>1, <1>7, <1>8 DEF LastClient
<1>10. Emit(r, c, fits) = [r EXCEPT !.client = [c EXCEPT !.confused = confused]]
  BY DEF Emit
<1> HIDE DEF confused
<1>11. [c EXCEPT !.confused = FALSE] = c
  BY <1>8 DEF LastClient
<1>12. Done(r, out, content) = [r EXCEPT !.client = c]
  BY <1>6, <1>9, <1>10, <1>11
<1>13. Closes(r, [r EXCEPT !.client = c], out, new)
  <2>1. [r EXCEPT !.client = c] \in Closer /\ [r EXCEPT !.client = c].client = c
    BY <1>8 DEF Closer
  <2>2. /\ SameCalls(r, [r EXCEPT !.client = c]) /\ SamePlaces(r, [r EXCEPT !.client = c])
        /\ [r EXCEPT !.client = c].text = r.text /\ [r EXCEPT !.client = c].status = r.status
    BY DEF Closer, SameCalls, SamePlaces
  <2>3. QED
    BY <1>8, <2>1, <2>2 DEF Closes, its
<1>14. QED
  BY <1>12, <1>13

\* An item of which one thing changes.
LEMMA ChangedItem ==
  ASSUME NEW type, NEW parts, NEW open, NEW new
  PROVE  /\ [[type |-> type, parts |-> parts, open |-> open] EXCEPT !.open = new]
              = [type |-> type, parts |-> parts, open |-> new]
         /\ [[type |-> type, parts |-> parts, open |-> open] EXCEPT !.parts = new]
              = [type |-> type, parts |-> new, open |-> open]
<1>1. [[type |-> type, parts |-> parts, open |-> open] EXCEPT !.open = new]
        = [type |-> type, parts |-> parts, open |-> new]
  BY SMT
<1>2. [[type |-> type, parts |-> parts, open |-> open] EXCEPT !.parts = new]
        = [type |-> type, parts |-> new, open |-> open]
  BY SMT
<1>3. QED
  BY <1>1, <1>2

\* An item before and after its done event.
OpenItem(type, parts) == [type |-> type, parts |-> parts, open |-> TRUE]
ShutItem(type, parts) == [type |-> type, parts |-> parts, open |-> FALSE]
(* What becomes of an open item that is done.                              *)
LEMMA ClosingItem ==
  ASSUME NEW type, NEW parts, NEW content
  PROVE  /\ DoneItem(OpenItem(type, parts), content) = ShutItem(type, content)
         /\ [OpenItem(type, parts) EXCEPT !.open = FALSE] = ShutItem(type, parts)
<1> DEFINE yes == TRUE
           no == FALSE
           item == [type |-> type, parts |-> parts, open |-> yes]
           closed == [item EXCEPT !.open = no]
           shut == [type |-> type, parts |-> parts, open |-> no]
<1>1. closed = shut
  <2> HIDE DEF yes, no
  <2>1. QED
    BY ChangedItem
<1>2. [closed EXCEPT !.parts = content] = [type |-> type, parts |-> content, open |-> no]
  <2> HIDE DEF no, closed
  <2>1. [shut EXCEPT !.parts = content] = [type |-> type, parts |-> content, open |-> no]
    BY ChangedItem
  <2> HIDE DEF shut
  <2>2. QED
    BY <1>1, <2>1
<1>3. DoneItem(item, content) = [closed EXCEPT !.parts = content]
  BY DEF DoneItem
<1>4. QED
  BY <1>1, <1>2, <1>3 DEF OpenItem, ShutItem

\* The reasoning item is closed, if there is one.
ClosedReasoning(r, s) ==
  /\ s \in Closer /\ SameCalls(r, s) /\ s.text = r.text /\ s.status = r.status
  /\ s.rs = r.rs /\ s.msg = r.msg /\ s.msgOpen = r.msgOpen /\ s.parts = r.parts
  /\ s.client.items = IF r.rsOpen
                      THEN [r.client.items EXCEPT ![r.rs] = [Reasoning(r) EXCEPT !.open = FALSE]]
                      ELSE r.client.items

\* CloseReasoning does that.
LEMMA CloseReasoningFits ==
  ASSUME NEW r \in Closer, ~r.lost, ReasoningFits(r)
  PROVE  ClosedReasoning(r, CloseReasoning(r))
<1>1. CASE ~r.rsOpen
  BY <1>1 DEF CloseReasoning, ClosedReasoning, SameCalls
<1>2. CASE r.rsOpen
  <2> DEFINE content == [p \in {"reasoning_content"} |-> r.text[p]]
             item == Reasoning(r)
             new == [item EXCEPT !.open = FALSE]
             d == Done(r, r.rs, content)
  <2>1. CloseReasoning(r) = [d EXCEPT !.rsOpen = FALSE]
    BY <1>2 DEF CloseReasoning
  <2>2. r.rs \in DOMAIN r.client.items /\ item = r.client.items[r.rs] /\ item # Allotted
    BY <1>2, AnnouncedItems DEF ReasoningFits
  <2>3. content \in Maps(PartNames, Pieces)
    <3>1. r.text["reasoning_content"] \in Pieces /\ {"reasoning_content"} \in SUBSET PartNames
      BY DEF Closer, Texts, TextKeys, PartNames
    <3>2. content \in [{"reasoning_content"} -> Pieces]
      BY <3>1
    <3>3. QED
      BY <3>1, <3>2 DEF Maps
  <2>4. item = OpenItem("reasoning", content)
    BY DEF Reasoning, OpenItem
  <2> HIDE DEF content, item
  <2>5. DoneFits(item, content) /\ new = DoneItem(item, content)
    <3>1. DoneFits(item, content)
      BY <2>4 DEF DoneFits, OpenItem
    <3>2. QED
      BY <2>4, <3>1, ClosingItem
  <2>6. Closes(r, d, r.rs, new)
    BY <2>2, <2>3, <2>5, DoneSends
  <2> HIDE DEF new, d
  <2>7. QED
    BY <1>2, <2>1, <2>6, ZenonT(60) DEF Closes, ClosedReasoning, Closer, SameCalls, SamePlaces, new, item
<1>3. QED
  BY <1>1, <1>2

\* The message item is closed, if there is one.
ClosedMessage(r, s) ==
  /\ s \in Closer /\ SameCalls(r, s) /\ s.text = r.text /\ s.status = r.status
  /\ s.rs = r.rs /\ s.msg = r.msg /\ s.parts = r.parts
  /\ s.client.items = IF r.msgOpen
                      THEN [r.client.items EXCEPT ![r.msg] = [Message(r) EXCEPT !.open = FALSE]]
                      ELSE r.client.items

\* CloseMessage does that.
LEMMA CloseMessageFits ==
  ASSUME NEW r \in Closer, ~r.lost,
         r.msgOpen => r.msg \in DOMAIN r.client.items /\ r.client.items[r.msg] = Message(r)
  PROVE  ClosedMessage(r, CloseMessage(r))
<1>1. CASE ~r.msgOpen
  BY <1>1 DEF CloseMessage, ClosedMessage, SameCalls
<1>2. CASE r.msgOpen
  <2> DEFINE content == MessageContent(r)
             item == Message(r)
             new == [item EXCEPT !.open = FALSE]
             d == Done(r, r.msg, content)
  <2>1. CloseMessage(r) = [d EXCEPT !.msgOpen = FALSE]
    BY <1>2 DEF CloseMessage
  <2>2. r.msg \in DOMAIN r.client.items /\ item = r.client.items[r.msg] /\ item # Allotted
    BY <1>2, AnnouncedItems
  <2>3. content \in Maps(PartNames, Pieces)
    <3>1. r.parts \in SUBSET PartNames /\ \A p \in r.parts : r.text[p] \in Pieces
      BY DEF Closer, Texts, TextKeys, PartNames
    <3>2. content \in [r.parts -> Pieces]
      BY <3>1 DEF MessageContent
    <3>3. QED
      BY <3>1, <3>2 DEF Maps
  <2>4. item = OpenItem("message", content)
    BY DEF Message, OpenItem
  <2> HIDE DEF content, item
  <2>5. DoneFits(item, content) /\ new = DoneItem(item, content)
    <3>1. DoneFits(item, content)
      BY <2>4 DEF DoneFits, OpenItem
    <3>2. QED
      BY <2>4, <3>1, ClosingItem
  <2>6. Closes(r, d, r.msg, new)
    BY <2>2, <2>3, <2>5, DoneSends
  <2> HIDE DEF new, d
  <2>7. QED
    BY <1>2, <2>1, <2>6, ZenonT(60) DEF Closes, ClosedMessage, Closer, SameCalls, SamePlaces, new, item
<1>3. QED
  BY <1>1, <1>2

\* Both are closed and the calls are as they were.
TextsClosed(r, b, status) ==
  /\ b \in Closer /\ b.status = status /\ SameCalls(r, b) /\ b.text = r.text
  /\ b.rs = r.rs /\ b.msg = r.msg /\ b.parts = r.parts
  /\ DOMAIN b.client.items = DOMAIN r.client.items
  /\ r.rsOpen => b.client.items[r.rs] = [Reasoning(r) EXCEPT !.open = FALSE]
  /\ r.msgOpen => b.client.items[r.msg] = [Message(r) EXCEPT !.open = FALSE]
  /\ \A o \in DOMAIN r.client.items :
       o # r.rs /\ o # r.msg => b.client.items[o] = r.client.items[o]

\* First the reasoning is closed, then the message.
LEMMA CloseTextsFits ==
  ASSUME NEW r, r \in Writer, Fitting(r), ~r.lost, NEW status \in Statuses,
         NEW t, t = [r EXCEPT !.status = status]
  PROVE  TextsClosed(r, CloseMessage(CloseReasoning(t)), status)
<1> DEFINE a == CloseReasoning(t)
           b == CloseMessage(a)
<1>1. /\ t \in Closer /\ t.status = status /\ SameCalls(r, t) /\ SamePlaces(r, t)
      /\ t.text = r.text /\ t.client = r.client
  BY CloserType
<1>2. Reasoning(t) = Reasoning(r) /\ Message(t) = Message(r)
  BY <1>1 DEF Reasoning, Message, MessageContent, SamePlaces
<1>3. ReasoningFits(t) /\ ~t.lost
  BY <1>1, <1>2 DEF Fitting, ReasoningFits, SamePlaces, SameCalls
<1>4. ClosedReasoning(t, a)
  BY <1>1, <1>3, CloseReasoningFits
<1> HIDE DEF a
<1>5. 0 \notin DOMAIN r.client.items
  BY ItemPlaces DEF Writer, Client
<1>6. /\ r.rsOpen => r.rs \in DOMAIN r.client.items
      /\ r.msgOpen => r.msg \in DOMAIN r.client.items /\ r.msg # r.rs
                      /\ r.client.items[r.msg] = Message(r)
      /\ ~r.rsOpen => r.rs = 0
      /\ ~r.msgOpen => r.msg = 0
  BY DEF Fitting, ReasoningFits, MessageFits
<1>7. /\ DOMAIN a.client.items = DOMAIN r.client.items
      /\ r.rsOpen => a.client.items[r.rs] = [Reasoning(r) EXCEPT !.open = FALSE]
      /\ \A o \in DOMAIN r.client.items : o # r.rs => a.client.items[o] = r.client.items[o]
  BY <1>1, <1>2, <1>4, <1>5, <1>6 DEF ClosedReasoning, SamePlaces
<1>8. Message(a) = Message(r)
  BY <1>1, <1>4 DEF ClosedReasoning, Message, MessageContent, SamePlaces
<1>9. ClosedMessage(a, b)
  <2>1. a \in Closer /\ ~a.lost
    BY <1>3, <1>4 DEF ClosedReasoning, SameCalls
  <2>2. a.msgOpen => a.msg \in DOMAIN a.client.items /\ a.client.items[a.msg] = Message(a)
    BY <1>1, <1>4, <1>6, <1>7, <1>8 DEF ClosedReasoning, SamePlaces
  <2>3. QED
    BY <2>1, <2>2, CloseMessageFits
<1> HIDE DEF b
<1>10. /\ b \in Closer /\ b.status = status /\ SameCalls(r, b) /\ b.text = r.text
       /\ b.rs = r.rs /\ b.msg = r.msg /\ b.parts = r.parts
  BY <1>1, <1>4, <1>9 DEF ClosedReasoning, ClosedMessage, SameCalls, SamePlaces
<1>11. b.client.items = IF r.msgOpen
                        THEN [a.client.items EXCEPT ![r.msg] = [Message(r) EXCEPT !.open = FALSE]]
                        ELSE a.client.items
  BY <1>1, <1>4, <1>8, <1>9 DEF ClosedReasoning, ClosedMessage, SamePlaces
<1>12. /\ DOMAIN b.client.items = DOMAIN r.client.items
       /\ r.rsOpen => b.client.items[r.rs] = [Reasoning(r) EXCEPT !.open = FALSE]
       /\ r.msgOpen => b.client.items[r.msg] = [Message(r) EXCEPT !.open = FALSE]
       /\ \A o \in DOMAIN r.client.items :
            o # r.rs /\ o # r.msg => b.client.items[o] = r.client.items[o]
  BY <1>6, <1>7, <1>11
<1>13. QED
  BY <1>10, <1>12 DEF TextsClosed, b, a


\* What becomes of the item of a call: its done event says what it was sent.
DoneOne(call) == DoneItem(CallItem(call), CallContent(call))

\* The done event of an announced call fits.
LEMMA DoneOneFits ==
  ASSUME NEW call \in WriterCall, call.opened
  PROVE  /\ DoneFits(CallItem(call), CallContent(call))
         /\ DoneOne(call) = [type |-> Type(call.name), open |-> FALSE, parts |-> CallContent(call)]
         /\ DoneOne(call) \in LastItem
<1> DEFINE parts == IF IsCustom(call) THEN Empty ELSE [p \in {"args"} |-> call.args]
           content == CallContent(call)
<1>1. CallItem(call) = [type |-> Type(call.name), open |-> TRUE, parts |-> parts]
  BY DEF CallItem, Shown
<1>2. content = [p \in {"args"} |-> call.args] /\ DOMAIN Empty = {}
  BY EmptyMap DEF CallContent
<1>3. \A p \in DOMAIN parts : parts[p] = content[p]
  BY <1>2
<1>4. content \in Maps(PartNames, Pieces)
  <2>1. {"args"} \in SUBSET PartNames /\ content \in [{"args"} -> Pieces]
    BY <1>2 DEF PartNames, WriterCall
  <2>2. QED
    BY <2>1 DEF Maps
<1>5. Type(call.name) \in ItemTypes
  BY DEF Type, ItemTypes
<1> HIDE DEF parts, content
<1> DEFINE item == CallItem(call)
<1> HIDE DEF item
<1>6. item = [type |-> Type(call.name), parts |-> parts, open |-> TRUE]
  BY <1>1 DEF item
<1>7. DoneFits(item, content)
  BY <1>3, <1>6 DEF DoneFits
<1>8. DoneItem(item, content) = [type |-> Type(call.name), parts |-> content, open |-> FALSE]
  <2> DEFINE type == Type(call.name)
  <2>1. item = OpenItem(type, parts)
    BY <1>6 DEF OpenItem
  <2> HIDE DEF type
  <2>2. DoneItem(item, content) = ShutItem(type, content)
    BY <2>1, ClosingItem
  <2>3. QED
    BY <2>2 DEF ShutItem, type
<1>9. DoneItem(item, content) \in LastItem
  BY <1>4, <1>5, <1>8 DEF LastItem
<1>10. QED
  BY <1>7, <1>8, <1>9 DEF DoneOne, item, content

\* A writer with another client and other calls.
With(b, k, calls) == [b EXCEPT !.client = k, !.calls = calls]
(* The rest of it stays.                                                   *)
LEMMA WithFields ==
  ASSUME NEW b \in Closer, NEW k \in LastClient, NEW calls \in Maps(Indexes, WriterCall)
  PROVE  /\ With(b, k, calls) \in Closer
         /\ With(b, k, calls).calls = calls /\ With(b, k, calls).client = k
         /\ With(b, k, calls).text = b.text /\ With(b, k, calls).rs = b.rs
         /\ With(b, k, calls).msg = b.msg /\ With(b, k, calls).parts = b.parts
         /\ With(b, k, calls).lost = b.lost
BY DEF Closer, With

\* The announced calls are closed only in a complete answer.
CallsClosed(r, c, status) ==
  /\ c \in Closer /\ c.text = r.text /\ c.rs = r.rs /\ c.msg = r.msg /\ c.parts = r.parts
  /\ c.lost = r.lost /\ DOMAIN c.calls = DOMAIN r.calls
  /\ DOMAIN c.client.items = DOMAIN r.client.items
  /\ r.rsOpen => c.client.items[r.rs] = [Reasoning(r) EXCEPT !.open = FALSE]
  /\ r.msgOpen => c.client.items[r.msg] = [Message(r) EXCEPT !.open = FALSE]
  /\ \A i \in DOMAIN r.calls :
       /\ c.calls[i].out = r.calls[i].out /\ c.calls[i].args = r.calls[i].args
       /\ c.calls[i].shown = r.calls[i].shown /\ c.calls[i].name = r.calls[i].name
       /\ c.client.items[r.calls[i].out] =
            IF status = "completed" /\ r.calls[i].opened THEN DoneOne(r.calls[i])
            ELSE CallItem(r.calls[i])

\* closeCalls does that.
LEMMA CloseCallsFits ==
  ASSUME NEW r, r \in Writer, Fitting(r), ~r.lost, NEW status \in Statuses,
         NEW t, t = [r EXCEPT !.status = status]
  PROVE  CallsClosed(r, CloseCalls(t), status)
<1> DEFINE b == CloseMessage(CloseReasoning(t))
           S == DoneCalls(b)
           DoneCall(call, item) == DoneItem(item, CallContent(call))
           its == ItemsOf(b, S, DoneCall)
           fits == \A i \in S : DoneFits(b.client.items[b.calls[i].out], CallContent(b.calls[i]))
           e == Emit(b, [b.client EXCEPT !.items = its], fits)
           shut(i) == [b.calls[i] EXCEPT !.opened = FALSE]
           calls == [i \in DOMAIN b.calls |-> shut(i)]
           c == [e EXCEPT !.calls = calls]
<1>1. TextsClosed(r, b, status)
  BY CloseTextsFits
<1>2. CloseCalls(t) = c
  BY DEF CloseCalls
<1> HIDE DEF b
<1>3. /\ b \in Closer /\ b.status = status /\ b.calls = r.calls /\ ~b.lost
      /\ b.text = r.text /\ b.rs = r.rs /\ b.msg = r.msg /\ b.parts = r.parts
      /\ DOMAIN b.client.items = DOMAIN r.client.items
  BY <1>1 DEF TextsClosed, SameCalls
<1>4. /\ DOMAIN r.calls \subseteq Indexes /\ b.client \in LastClient
      /\ b.client.items \in Seq(LastItem)
      /\ \A i \in DOMAIN r.calls : r.calls[i] \in WriterCall
  <2>1. r.calls \in Maps(Indexes, WriterCall)
    BY DEF Writer
  <2>2. /\ DOMAIN r.calls \subseteq Indexes
        /\ \A i \in DOMAIN r.calls : r.calls[i] \in WriterCall
    BY <2>1, MapsDef
  <2>3. b.client \in LastClient
    BY <1>3 DEF Closer
  <2>4. QED
    BY <2>2, <2>3 DEF LastClient
<1>5. \A i \in DOMAIN r.calls :
        /\ shut(i) \in WriterCall /\ shut(i).out = r.calls[i].out /\ shut(i).args = r.calls[i].args
        /\ shut(i).shown = r.calls[i].shown /\ shut(i).name = r.calls[i].name
  BY <1>3, <1>4 DEF WriterCall
<1>6. DOMAIN calls = DOMAIN r.calls /\ calls = [i \in DOMAIN calls |-> calls[i]]
      /\ \A i \in DOMAIN r.calls : calls[i] = shut(i)
  BY <1>3
<1> HIDE DEF calls, shut
<1>7. calls \in Maps(Indexes, WriterCall)
  BY <1>4, <1>5, <1>6, MapsDef
<1>8. S = {i \in DOMAIN r.calls : status = "completed" /\ r.calls[i].opened}
  BY <1>3 DEF DoneCalls
<1> HIDE DEF S
<1>9. \A i \in DOMAIN r.calls :
        /\ r.calls[i].out \in DOMAIN r.client.items
        /\ r.calls[i].out # r.rs /\ r.calls[i].out # r.msg
        /\ b.client.items[r.calls[i].out] = CallItem(r.calls[i])
  BY <1>1 DEF Fitting, CallsFit, Placed, TextsClosed
<1>10. fits
  BY <1>3, <1>4, <1>8, <1>9, DoneOneFits
<1>11. \A i, j \in DOMAIN r.calls : r.calls[i].out = r.calls[j].out => i = j
  BY DEF Fitting, Apart
<1>12. /\ DOMAIN its = DOMAIN r.client.items
       /\ \A i \in S : its[r.calls[i].out] = DoneOne(r.calls[i])
       /\ \A o \in DOMAIN r.client.items :
            (\A i \in S : r.calls[i].out # o) => its[o] = b.client.items[o]
  <2>1. DOMAIN its = DOMAIN r.client.items
    BY <1>3 DEF ItemsOf
  <2>2. ASSUME NEW i \in S PROVE its[r.calls[i].out] = DoneOne(r.calls[i])
    <3> DEFINE o == r.calls[i].out
               owner == {j \in S : b.calls[j].out = o}
    <3>1. owner = {i} /\ i \in DOMAIN r.calls
      BY <1>3, <1>8, <1>11
    <3>2. (CHOOSE j \in owner : TRUE) = i /\ owner # {}
      BY <3>1
    <3>3. o \in DOMAIN b.client.items
      BY <1>3, <1>9, <3>1
    <3>4. its[o] = IF owner = {} THEN b.client.items[o]
                   ELSE DoneCall(b.calls[CHOOSE j \in owner : TRUE], b.client.items[o])
      BY <3>3 DEF ItemsOf
    <3> HIDE DEF owner, its
    <3>5. its[o] = DoneItem(b.client.items[o], CallContent(b.calls[i]))
      BY <3>2, <3>4
    <3>6. QED
      BY <1>3, <1>9, <3>1, <3>5 DEF DoneOne
  <2>3. ASSUME NEW o \in DOMAIN r.client.items, \A i \in S : r.calls[i].out # o
        PROVE  its[o] = b.client.items[o]
    <3> DEFINE owner == {j \in S : b.calls[j].out = o}
    <3>1. owner = {}
      BY <1>3, <2>3
    <3>2. its[o] = IF owner = {} THEN b.client.items[o]
                   ELSE DoneCall(b.calls[CHOOSE j \in owner : TRUE], b.client.items[o])
      BY <1>3 DEF ItemsOf
    <3>3. QED
      BY <3>1, <3>2
  <2>4. QED
    BY <2>1, <2>2, <2>3
<1>13. its \in Seq(LastItem)
  <2>1. PICK n \in Nat : b.client.items \in [1..n -> LastItem]
    BY <1>4, SeqDef
  <2>2. \A i \in S : DoneOne(r.calls[i]) \in LastItem
    BY <1>4, <1>8, DoneOneFits
  <2>3. \A o \in DOMAIN r.client.items : its[o] \in LastItem
    BY <1>3, <1>12, <2>1, <2>2
  <2>4. its = [o \in DOMAIN its |-> its[o]]
    BY DEF ItemsOf
  <2> HIDE DEF its
  <2>5. its \in [1..n -> LastItem]
    BY <1>3, <1>12, <2>1, <2>3, <2>4
  <2>6. QED
    BY <2>5, SeqDef
<1> HIDE DEF its, fits
<1> DEFINE k == [b.client EXCEPT !.items = its]
<1>14. k \in LastClient /\ k.items = its
  BY <1>4, <1>13 DEF LastClient
<1> HIDE DEF k
<1> DEFINE confused == k.confused \/ ~fits \/ b.client.terminal # ""
<1>15. confused = FALSE
  BY <1>4, <1>10, <1>14 DEF LastClient
<1>16. e = [b EXCEPT !.client = [k EXCEPT !.confused = confused]]
  BY <1>3 DEF Emit, k
<1> HIDE DEF confused, e
<1>17. [k EXCEPT !.confused = FALSE] = k
  BY <1>14 DEF LastClient
<1>18. c = [b EXCEPT !.client = k, !.calls = calls]
  <2>1. e = [b EXCEPT !.client = k]
    BY <1>15, <1>16, <1>17
  <2>2. QED
    BY <1>3, <2>1 DEF Closer
<1>19. /\ c \in Closer /\ c.calls = calls /\ c.client.items = its /\ c.text = r.text
       /\ c.rs = r.rs /\ c.msg = r.msg /\ c.parts = r.parts /\ c.lost = r.lost
  <2>1. b.lost = r.lost
    BY <1>1, Zenon DEF TextsClosed, SameCalls
  <2>2. c = With(b, k, calls)
    BY <1>18 DEF With
  <2> HIDE DEF c
  <2>3. /\ c \in Closer /\ c.calls = calls /\ c.client = k /\ c.text = b.text
        /\ c.rs = b.rs /\ c.msg = b.msg /\ c.parts = b.parts /\ c.lost = b.lost
    BY <1>3, <1>7, <1>14, <2>2, WithFields
  <2>4. QED
    BY <1>3, <1>14, <2>1, <2>3
<1> HIDE DEF c
<1>20. /\ r.rsOpen => its[r.rs] = [Reasoning(r) EXCEPT !.open = FALSE]
       /\ r.msgOpen => its[r.msg] = [Message(r) EXCEPT !.open = FALSE]
  <2>1. \A i \in S : r.calls[i].out # r.rs /\ r.calls[i].out # r.msg
    BY <1>8, <1>9
  <2>2. /\ r.rsOpen => r.rs \in DOMAIN r.client.items
        /\ r.msgOpen => r.msg \in DOMAIN r.client.items
    BY DEF Fitting, ReasoningFits, MessageFits
  <2>3. QED
    BY <1>1, <1>12, <2>1, <2>2 DEF TextsClosed
<1>21. \A i \in DOMAIN r.calls :
         its[r.calls[i].out] = IF status = "completed" /\ r.calls[i].opened
                               THEN DoneOne(r.calls[i]) ELSE CallItem(r.calls[i])
  <2> TAKE i \in DOMAIN r.calls
  <2>1. CASE i \in S
    BY <1>8, <1>12, <2>1
  <2>2. CASE i \notin S
    BY <1>8, <1>9, <1>11, <1>12, <2>2
  <2>3. QED
    BY <2>1, <2>2
<1>22. QED
  BY <1>2, <1>5, <1>6, <1>12, <1>19, <1>20, <1>21 DEF CallsClosed

\* How an answer ends, and what the client then has of an item.
FinalStatus(r, req) ==
  IF Failure(r, req) # "" THEN "failed" ELSE IF r.finish \in Cut THEN "incomplete" ELSE "completed"
ItemEnds(client, o) ==
  LET item == client.items[o] IN
  /\ item.type = "" <=> client.output[o] = NotListed
  /\ item.open => client.terminal # "completed"
  /\ \A p \in DOMAIN item.parts : item.parts[p] = client.output[o][p]
  /\ item.type \in {"function_call", "custom_tool_call"} /\ ~item.open
       => client.terminal = "completed"
CallEnds(r, s, i) ==
  LET o == s.calls[i].out IN
  /\ o \in DOMAIN s.client.items
  /\ s.client.items[o].type = Type(r.calls[i].name)
  /\ s.client.items[o].parts["args"] = r.calls[i].args
Finished(r, s, req) ==
  /\ ~s.client.confused
  /\ r.lost => s.client.terminal = "" /\ s.client.items = r.client.items
  /\ ~r.lost =>
       /\ s.client.terminal = FinalStatus(r, req)
       /\ \A o \in DOMAIN s.client.items : ItemEnds(s.client, o)
       /\ s.client.terminal = "completed" =>
            /\ s.text = r.text /\ DOMAIN s.calls = DOMAIN r.calls
            /\ \A i \in DOMAIN r.calls : CallEnds(r, s, i)

\* After the client is lost the end of the stream sends nothing.
LEMMA CloseLost ==
  ASSUME NEW t \in Closer, t.lost
  PROVE  CloseCalls(t).client = t.client /\ CloseCalls(t).lost
<1> DEFINE a == CloseReasoning(t)
           b == CloseMessage(a)
<1>1. a \in Closer /\ a.lost /\ a.client = t.client
  BY DEF CloseReasoning, Done, Closer
<1> HIDE DEF a
<1>2. b \in Closer /\ b.lost /\ b.client = t.client
  BY <1>1 DEF CloseMessage, Done, Closer
<1> HIDE DEF b
<1>3. CloseCalls(t) = [b EXCEPT !.calls = [i \in DOMAIN b.calls |-> [b.calls[i] EXCEPT !.opened = FALSE]]]
  BY <1>2 DEF CloseCalls, Emit, a, b
<1>4. QED
  BY <1>2, <1>3 DEF Closer

\* What is not listed has no content of any kind.
LEMMA NotListedDiffers ==
  ASSUME NEW S, "none" \notin S, NEW f, DOMAIN f = S
  PROVE  f # NotListed
BY DEF NotListed

\* The terminal event lists the items as the client has them.
LEMMA ItemsEnd ==
  ASSUME NEW r, r \in Writer, Fitting(r), ~r.lost, NEW status \in Statuses,
         status = "completed" => \A i \in DOMAIN r.calls : r.calls[i].opened,
         NEW c, CallsClosed(r, c, status),
         NEW client, client.items = c.client.items, client.output = OutputItems(c),
         client.terminal = status
  PROVE  /\ \A o \in DOMAIN client.items : ItemEnds(client, o)
         /\ status = "completed" =>
              \A i \in DOMAIN r.calls :
                /\ r.calls[i].out \in DOMAIN client.items
                /\ client.items[r.calls[i].out].type = Type(r.calls[i].name)
                /\ client.items[r.calls[i].out].parts["args"] = r.calls[i].args
<1> DEFINE its == r.client.items
           calls(o) == {i \in DOMAIN r.calls : c.calls[i].shown /\ c.calls[i].out = o}
<1>1. /\ DOMAIN client.items = DOMAIN its /\ DOMAIN c.calls = DOMAIN r.calls
      /\ c.text = r.text /\ c.rs = r.rs /\ c.msg = r.msg /\ c.parts = r.parts
      /\ \A i \in DOMAIN r.calls :
           /\ c.calls[i].out = r.calls[i].out /\ c.calls[i].args = r.calls[i].args
           /\ c.calls[i].shown = r.calls[i].opened
           /\ r.calls[i].out \in DOMAIN its /\ r.calls[i].out # r.rs /\ r.calls[i].out # r.msg
  BY ZenonT(60) DEF CallsClosed, Fitting, CallsFit, Placed, Sent
<1>2. \A o \in DOMAIN its :
        client.output[o] =
          IF calls(o) # {} THEN CallContent(c.calls[CHOOSE i \in calls(o) : TRUE])
          ELSE IF o = r.rs THEN [p \in {"reasoning_content"} |-> r.text[p]]
          ELSE IF o = r.msg THEN MessageContent(r)
          ELSE NotListed
  BY <1>1 DEF OutputItems, MessageContent
<1>3. ASSUME NEW i \in DOMAIN r.calls, r.calls[i].opened
      PROVE  /\ client.output[r.calls[i].out] = CallContent(r.calls[i])
             /\ client.items[r.calls[i].out] = IF status = "completed" THEN DoneOne(r.calls[i])
                                               ELSE CallItem(r.calls[i])
  <2>1. calls(r.calls[i].out) = {i}
    BY <1>1, <1>3 DEF Fitting, Apart
  <2>2. (CHOOSE j \in {i} : TRUE) = i
    OBVIOUS
  <2>3. CallContent(c.calls[i]) = CallContent(r.calls[i])
    BY <1>1 DEF CallContent
  <2> HIDE DEF calls
  <2>4. client.output[r.calls[i].out] = CallContent(r.calls[i])
    BY <1>1, <1>2, <2>1, <2>2, <2>3
  <2>5. QED
    BY <1>3, <2>4 DEF CallsClosed
<1>4. \A i \in DOMAIN r.calls : r.calls[i] \in WriterCall /\ Type(r.calls[i].name) # ""
  BY MapsDef DEF Writer, Type
<1>5. ASSUME NEW i \in DOMAIN r.calls, r.calls[i].opened
      PROVE  ItemEnds(client, r.calls[i].out)
  <2> DEFINE o == r.calls[i].out
             content == CallContent(r.calls[i])
             parts == IF IsCustom(r.calls[i]) THEN Empty ELSE [p \in {"args"} |-> r.calls[i].args]
  <2>1. client.output[o] = content /\ content # NotListed
    BY <1>3, <1>5, NotListedDiffers DEF CallContent
  <2>2. CASE status = "completed"
    <3>1. client.items[o] = [type |-> Type(r.calls[i].name), open |-> FALSE, parts |-> content]
      BY <1>3, <1>4, <1>5, <2>2, DoneOneFits
    <3> HIDE DEF o, content
    <3>2. /\ client.items[o].type = Type(r.calls[i].name) /\ client.items[o].open = FALSE
          /\ client.items[o].parts = content
      BY <3>1
    <3>3. client.items[o].type # ""
      BY <1>4, <3>2, Zenon
    <3>4. ItemEnds(client, o)
      BY <2>1, <2>2, <3>2, <3>3, Zenon DEF ItemEnds
    <3>5. QED
      BY <3>4 DEF o
  <2>3. CASE status # "completed"
    <3>1. client.items[o] = [type |-> Type(r.calls[i].name), open |-> TRUE, parts |-> parts]
      BY <1>3, <1>5, <2>3 DEF CallItem, Shown
    <3>2. \A p \in DOMAIN parts : parts[p] = content[p]
      BY EmptyMap DEF CallContent
    <3> HIDE DEF o, content, parts
    <3>3. /\ client.items[o].type = Type(r.calls[i].name) /\ client.items[o].open = TRUE
          /\ client.items[o].parts = parts
      BY <3>1
    <3>4. client.items[o].type # ""
      BY <1>4, <3>3, Zenon
    <3>5. ItemEnds(client, o)
      BY <2>1, <2>3, <3>2, <3>3, <3>4, Zenon DEF ItemEnds
    <3>6. QED
      BY <3>5 DEF o
  <2>4. QED
    BY <2>2, <2>3
<1>6. ASSUME NEW i \in DOMAIN r.calls, ~r.calls[i].opened
      PROVE  ItemEnds(client, r.calls[i].out)
  <2>1. calls(r.calls[i].out) = {}
    BY <1>1, <1>6 DEF Fitting, Apart
  <2>2. client.output[r.calls[i].out] = NotListed
    BY <1>1, <1>2, <2>1
  <2>3. client.items[r.calls[i].out] = Allotted
    BY <1>6 DEF CallsClosed, CallItem
  <2>4. Allotted.type = "" /\ Allotted.open = FALSE /\ DOMAIN Allotted.parts = {}
    BY EmptyMap DEF Allotted
  <2>5. QED
    BY <2>2, <2>3, <2>4 DEF ItemEnds
<1>7. 0 \notin DOMAIN its
  BY ItemPlaces DEF Writer, Client
<1>8. ASSUME r.rs \in DOMAIN its PROVE ItemEnds(client, r.rs)
  <2> DEFINE content == [p \in {"reasoning_content"} |-> r.text[p]]
             item == Reasoning(r)
  <2>1. r.rsOpen
    BY <1>7, <1>8 DEF Fitting, ReasoningFits
  <2>2. calls(r.rs) = {}
    BY <1>1
  <2>3. client.output[r.rs] = content /\ content # NotListed
    BY <1>2, <1>8, <2>2, NotListedDiffers
  <2>4. client.items[r.rs] = [item EXCEPT !.open = FALSE]
    BY <2>1 DEF CallsClosed
  <2>5. item = [type |-> "reasoning", parts |-> content, open |-> TRUE]
    BY DEF Reasoning
  <2> HIDE DEF content, item
  <2>6. client.items[r.rs] = [type |-> "reasoning", parts |-> content, open |-> FALSE]
    BY <2>4, <2>5
  <2>7. QED
    BY <2>3, <2>6 DEF ItemEnds
<1>9. ASSUME r.msg \in DOMAIN its PROVE ItemEnds(client, r.msg)
  <2> DEFINE content == MessageContent(r)
             item == Message(r)
  <2>1. r.msgOpen /\ r.msg # r.rs
    BY <1>7, <1>9 DEF Fitting, MessageFits
  <2>2. calls(r.msg) = {}
    BY <1>1
  <2>3. client.output[r.msg] = content /\ content # NotListed
    <3>1. "none" \notin r.parts /\ DOMAIN content = r.parts
      BY DEF Writer, MessageContent
    <3>2. client.output[r.msg] = content
      BY <1>2, <1>9, <2>1, <2>2
    <3> HIDE DEF content
    <3>3. QED
      BY <3>1, <3>2, NotListedDiffers
  <2>4. client.items[r.msg] = [item EXCEPT !.open = FALSE]
    BY <2>1 DEF CallsClosed
  <2>5. item = [type |-> "message", parts |-> content, open |-> TRUE]
    BY DEF Message
  <2> HIDE DEF content, item
  <2>6. client.items[r.msg] = [type |-> "message", parts |-> content, open |-> FALSE]
    BY <2>4, <2>5
  <2>7. QED
    BY <2>3, <2>6 DEF ItemEnds
<1>10. \A o \in DOMAIN client.items : ItemEnds(client, o)
  BY <1>1, <1>5, <1>6, <1>8, <1>9 DEF Fitting, Covered
<1>11. ASSUME status = "completed", NEW i \in DOMAIN r.calls
       PROVE  /\ r.calls[i].out \in DOMAIN client.items
              /\ client.items[r.calls[i].out].type = Type(r.calls[i].name)
              /\ client.items[r.calls[i].out].parts["args"] = r.calls[i].args
  <2> DEFINE content == CallContent(r.calls[i])
  <2>1. client.items[r.calls[i].out] = [type |-> Type(r.calls[i].name), open |-> FALSE, parts |-> content]
    BY <1>3, <1>4, <1>11, DoneOneFits
  <2>2. content["args"] = r.calls[i].args
    BY DEF CallContent
  <2> HIDE DEF content
  <2>3. QED
    BY <1>1, <2>1, <2>2
<1>12. QED
  BY <1>10, <1>11

\* FinishStream ends the stream as the answer ended.
LEMMA FinishStreamFits ==
  ASSUME NEW r0, Good(r0), NEW req
  PROVE  Finished(r0, FinishStream(r0, req), req)
<1> DEFINE r == CompletionError(r0, req)
           status == IF r.failure # "" THEN "failed" ELSE IF r.finish \in Cut THEN "incomplete"
                     ELSE "completed"
           t == [r EXCEPT !.status = status]
           c == CloseCalls(t)
           k == [c.client EXCEPT !.terminal = status, !.output = OutputItems(c)]
           s == FinishStream(r0, req)
<1>1. Completes(r0, r, req)
  BY CompletionErrorFits
<1>2. s = Emit(c, k, TRUE)
  BY DEF FinishStream
<1> HIDE DEF r, s
<1>3. r \in Writer /\ status \in Statuses
  BY <1>1 DEF Completes, Good, Statuses
<1> HIDE DEF status
<1>4. t \in Closer /\ SameCalls(r, t) /\ t.client = r.client
  BY <1>3, CloserType
<1>5. r.client \in Client
  BY <1>3 DEF Writer
<1>6. CASE r0.lost
  <2>1. r = r0 /\ t.lost
    BY <1>1, <1>4, <1>6 DEF Completes, SameCalls
  <2>2. c.client = t.client /\ c.lost
    BY <1>4, <2>1, CloseLost
  <2>3. s.client = r0.client
    BY <1>2, <1>4, <2>1, <2>2 DEF Emit
  <2>4. QED
    BY <1>5, <1>6, <2>1, <2>3 DEF Finished, Client, s
<1>7. CASE ~r0.lost
  <2>1. /\ ~r.lost /\ Fitting(r)
        /\ r.failure = Failure(r0, req) /\ r.finish = r0.finish /\ r.text = r0.text
        /\ DOMAIN r.calls = DOMAIN r0.calls
        /\ \A i \in DOMAIN r0.calls :
             r.calls[i].name = r0.calls[i].name /\ r.calls[i].args = r0.calls[i].args
        /\ r.failure = "" /\ r.finish \notin Cut => \A i \in DOMAIN r.calls : r.calls[i].opened
    BY <1>1, <1>7 DEF Completes, Good
  <2>2. status = FinalStatus(r0, req)
    BY <2>1 DEF status, FinalStatus
  <2>3. status = "completed" => \A i \in DOMAIN r.calls : r.calls[i].opened
    BY <2>1 DEF status
  <2>4. CallsClosed(r, c, status)
    BY <1>3, <2>1, CloseCallsFits
  <2> HIDE DEF c
  <2>5. /\ c \in Closer /\ ~c.lost /\ c.client \in LastClient /\ c.text = r.text
        /\ DOMAIN c.calls = DOMAIN r.calls
        /\ \A i \in DOMAIN r.calls : c.calls[i].out = r.calls[i].out
    BY <2>1, <2>4 DEF CallsClosed, Closer
  <2>6. k.items = c.client.items /\ k.output = OutputItems(c) /\ k.terminal = status
        /\ k.confused = FALSE
    BY <2>5 DEF LastClient
  <2> DEFINE confused == k.confused \/ ~TRUE \/ c.client.terminal # ""
             client == [k EXCEPT !.confused = confused]
  <2>7. confused = FALSE
    BY <2>5, <2>6 DEF LastClient
  <2>8. s = [c EXCEPT !.client = client]
    BY <1>2, <2>5 DEF Emit
  <2>9. /\ DOMAIN k = DOMAIN c.client /\ DOMAIN c.client = {"items", "terminal", "output", "confused"}
    BY <2>5 DEF LastClient
  <2> HIDE DEF k, confused
  <2>10. /\ client.items = c.client.items /\ client.output = OutputItems(c)
         /\ client.terminal = status /\ client.confused = FALSE
    BY <2>6, <2>7, <2>9
  <2> HIDE DEF client
  <2>11. s.client = client /\ s.text = c.text /\ s.calls = c.calls
    BY <2>5, <2>8 DEF Closer
  <2>12. /\ \A o \in DOMAIN client.items : ItemEnds(client, o)
         /\ status = "completed" =>
              \A i \in DOMAIN r.calls :
                /\ r.calls[i].out \in DOMAIN client.items
                /\ client.items[r.calls[i].out].type = Type(r.calls[i].name)
                /\ client.items[r.calls[i].out].parts["args"] = r.calls[i].args
    <3>1. ~r.lost /\ Fitting(r)
      BY <2>1, Zenon
    <3>2. QED
      BY <1>3, <2>3, <2>4, <2>10, <3>1, ItemsEnd
  <2>13. status = "completed" => \A i \in DOMAIN r0.calls : CallEnds(r0, s, i)
    <3>1. /\ DOMAIN r.calls = DOMAIN r0.calls
          /\ \A i \in DOMAIN r0.calls :
               r.calls[i].name = r0.calls[i].name /\ r.calls[i].args = r0.calls[i].args
      BY <2>1, Zenon
    <3>2. \A i \in DOMAIN r0.calls : s.calls[i].out = r.calls[i].out /\ s.client = client
      BY <2>5, <2>11, <3>1, Zenon
    <3>3. QED
      BY <2>12, <3>1, <3>2, Zenon DEF CallEnds
  <2> HIDE DEF s
  <2>14. Finished(r0, s, req)
    <3>1. s.client.confused = FALSE /\ s.client.terminal = status /\ s.client = client
      BY <2>10, <2>11
    <3>2. s.text = r0.text /\ DOMAIN s.calls = DOMAIN r0.calls
      BY <2>1, <2>5, <2>11, Zenon
    <3>3. QED
      BY <1>7, <2>2, <2>12, <2>13, <3>1, <3>2, Zenon DEF Finished
  <2>15. QED
    BY <2>14 DEF s
<1>8. QED
  BY <1>6, <1>7

-----------------------------------------------------------------------------
(* One event of the upstream and the frame that is written of it.          *)

\* Text, a piece of a call, or nothing for now.
TextStep(st, next, d) ==
  /\ next.calls = st.calls
  /\ d \in Frames /\ d.kind = "text" /\ next.text = [st.text EXCEPT ![d.key] = st.text[d.key] \o d.value]
QuietStep(st, next, d) == next.text = st.text /\ next.calls = st.calls /\ d = Nothing
CallStep(st, next, d, i) ==
  LET old == Known(st, i)
      new == Known(next, i) IN
  /\ next.text = st.text /\ i \in Indexes /\ DOMAIN next.calls = DOMAIN st.calls \cup {i}
  /\ \A j \in Indexes \ {i} : Known(next, j) = Known(st, j)
  /\ \/ /\ d = Nothing
        /\ new.id = old.id /\ new.name = old.name /\ new.args = old.args
        /\ i = Legacy => i \in DOMAIN st.calls
        /\ i # Legacy /\ old = NoCall => new = NoCall
     \/ /\ d \in Frames /\ d.kind = "call" /\ d.index = i
        /\ new.id = (IF d.id # "" THEN d.id ELSE old.id)
        /\ new.name = (IF d.name # "" THEN d.name ELSE old.name)
        /\ new.args = old.args \o d.args
        /\ d.name # "" /\ i # Legacy => old.name = ""
        /\ d.name # "" => old.name \in {"", d.name}
        /\ ~d.has => d.args = <<>>
        /\ i = Legacy => d.id = "" /\ (d.name # "" \/ d.args # <<>>)
Written(st, e, i, n) ==
  IF e.kind = "call" /\ IsPlaceholder(st, e) THEN Nothing ELSE Frame(Increment(st, e, i), n)
Steps(st, next, d, i) == TextStep(st, next, d) \/ QuietStep(st, next, d) \/ CallStep(st, next, d, i)

\* An event that contradicts nothing makes one of these steps.
LEMMA DataSteps ==
  ASSUME NEW st \in StreamType, NEW e \in Event, NEW i,
         i \in IF e.kind = "call" THEN Places(st, e) ELSE {"0"},
         NEW n, Names(st, n), ~Contradicts(st, e, i)
  PROVE  /\ Observe(st, e, i) \in StreamType
         /\ Steps(st, Observe(st, e, i), Written(st, e, i, n), i)
         /\ Names(Observe(st, e, i), Named(Increment(st, e, i), n))
         /\ Observe(st, e, i).done = st.done
<1> DEFINE next == Observe(st, e, i)
           d == Frame(Increment(st, e, i), n)
<1>1. CASE e.kind = "text"
  <2>1. /\ next \in StreamType /\ next.calls = st.calls /\ next.done = st.done
        /\ next.text = [st.text EXCEPT ![e.key] = @ \o Addition(st.text[e.key], e.value, e.whole)]
    BY <1>1, ObserveText, ZenonT(60)
  <2>2. /\ d = [kind |-> "text", key |-> e.key, value |-> Addition(st.text[e.key], e.value, e.whole)]
        /\ d \in Frames /\ Named(Increment(st, e, i), n) = n
    BY <1>1, FrameOfText
  <2>3. Written(st, e, i, n) = d
    BY <1>1 DEF Written
  <2>4. Names(next, n)
    BY <2>1 DEF Names, Known
  <2> HIDE DEF next, d
  <2>5. d.key = e.key /\ d.value = Addition(st.text[e.key], e.value, e.whole) /\ d.kind = "text"
    BY <2>2
  <2>6. TextStep(st, next, d)
    BY <2>1, <2>2, <2>5 DEF TextStep
  <2>7. QED
    BY <2>1, <2>2, <2>3, <2>4, <2>6 DEF Steps, next
<1>2. CASE e.kind = "finish"
  <2>1. next = [st EXCEPT !.finish = e.reason] /\ next \in StreamType
    BY <1>2, ObserveFinish
  <2>2. d = Nothing /\ Named(Increment(st, e, i), n) = n
    BY <1>2, FrameOfFinish
  <2>3. Written(st, e, i, n) = Nothing
    BY <1>2, <2>2 DEF Written
  <2>4. next.text = st.text /\ next.calls = st.calls /\ next.done = st.done
    BY <2>1 DEF StreamType
  <2>5. Names(next, n)
    BY <2>4 DEF Names, Known
  <2>6. QED
    BY <2>1, <2>2, <2>3, <2>4, <2>5 DEF Steps, QuietStep
<1>3. CASE e.kind = "call"
  <2>1. i \in Indexes /\ (i = Legacy <=> e.index = Legacy)
    BY <1>3, PlaceOfCall
  <2>2. next \in StreamType /\ next.text = st.text /\ next.done = st.done
    BY <1>3, <2>1, ObserveCall
  <2>3. CASE IsPlaceholder(st, e)
    <3>1. next = st
      BY <1>3, <2>1, <2>3, ObserveCall
    <3>2. Written(st, e, i, n) = Nothing
      BY <1>3, <2>3 DEF Written
    <3>3. i = Legacy
      BY <2>1, <2>3 DEF IsPlaceholder
    <3>4. Increment(st, e, i).index = i
      BY <1>3 DEF Increment
    <3>5. Named(Increment(st, e, i), n) = n
      BY <3>3, <3>4 DEF Named
    <3>6. QED
      BY <2>2, <3>1, <3>2, <3>5 DEF Steps, QuietStep
  <2>4. CASE ~IsPlaceholder(st, e)
    <3>1. /\ DOMAIN next.calls = DOMAIN st.calls \cup {i}
          /\ \A j \in Indexes \ {i} : Known(next, j) = Known(st, j)
      BY <1>3, <2>1, <2>4, ObserveCall
    <3>2. Written(st, e, i, n) = d
      BY <2>4 DEF Written
    <3> DEFINE old == Known(st, i)
               new == Known(next, i)
    <3>3. /\ \/ /\ d = Nothing
                /\ new.id = old.id /\ new.name = old.name /\ new.args = old.args
                /\ i = Legacy => i \in DOMAIN st.calls
                /\ i # Legacy /\ old = NoCall => new = NoCall
             \/ /\ d \in Frames /\ d.kind = "call" /\ d.index = i
                /\ new.id = (IF d.id # "" THEN d.id ELSE old.id)
                /\ new.name = (IF d.name # "" THEN d.name ELSE old.name)
                /\ new.args = old.args \o d.args
                /\ d.name # "" /\ i # Legacy => old.name = ""
                /\ d.name # "" => old.name \in {"", d.name}
                /\ ~d.has => d.args = <<>>
                /\ i = Legacy => d.id = "" /\ (d.name # "" \/ d.args # <<>>)
          /\ Names(next, Named(Increment(st, e, i), n))
      BY <1>3, <2>1, <2>4, FrameOfCall, ZenonT(60)
    <3> HIDE DEF next, d
    <3>4. CallStep(st, next, d, i)
      BY <2>1, <2>2, <3>1, <3>3 DEF CallStep
    <3>5. QED
      BY <2>2, <3>2, <3>3, <3>4 DEF Steps, next
  <2>5. QED
    BY <2>3, <2>4
<1>4. QED
  BY <1>1, <1>2, <1>3, EventFields

\* What a writer's client has of the stream: all of the calls it has, and
\* of the others there is nothing to have.
ChatHas(c, st) ==
  /\ c.text = st.text
  /\ \A i \in Indexes :
       IF i \in DOMAIN c.calls
       THEN i \in DOMAIN st.calls /\ c.calls[i] = CallView(st.calls[i])
       ELSE Silent(st, i)
HeldHas(h, st) ==
  /\ h.text = st.text
  /\ \A i \in Indexes :
       IF i \in DOMAIN h.calls
       THEN /\ i \in DOMAIN st.calls /\ h.calls[i].name = st.calls[i].name
            /\ h.calls[i].args = st.calls[i].args
       ELSE Silent(st, i)
CallHas(r, st, i) ==
  IF i \in DOMAIN r.calls
  THEN /\ i \in DOMAIN st.calls /\ r.calls[i].name = st.calls[i].name
       /\ r.calls[i].args = st.calls[i].args
  ELSE Silent(st, i)
WriterHas(r, st) == r.text = st.text /\ \A i \in Indexes : CallHas(r, st, i)

\* A piece of another call leaves a call as it was.
LEMMA OtherCalls ==
  ASSUME NEW st, NEW next, NEW d, NEW i, CallStep(st, next, d, i), NEW j \in Indexes, j # i
  PROVE  /\ (j \in DOMAIN next.calls) <=> (j \in DOMAIN st.calls)
         /\ j \in DOMAIN st.calls => next.calls[j] = st.calls[j]
         /\ Silent(st, j) => Silent(next, j)
<1>1. DOMAIN next.calls = DOMAIN st.calls \cup {i} /\ Known(next, j) = Known(st, j)
  BY DEF CallStep
<1>2. QED
  BY <1>1 DEF Known, Silent

\* What a writer has of another call it still has.
LEMMA OtherHas ==
  ASSUME NEW st, NEW next, NEW d, NEW i, CallStep(st, next, d, i), NEW j \in Indexes, j # i,
         NEW r, CallHas(r, st, j)
  PROVE  CallHas(r, next, j)
BY OtherCalls DEF CallHas

\* Two writers that keep the same of a call have the same of it.
LEMMA SameCallHas ==
  ASSUME NEW st, NEW j, NEW r, NEW s, CallHas(r, st, j),
         (j \in DOMAIN s.calls) <=> (j \in DOMAIN r.calls),
         j \in DOMAIN r.calls => s.calls[j].name = r.calls[j].name /\ s.calls[j].args = r.calls[j].args
  PROVE  CallHas(s, st, j)
BY DEF CallHas

\* A frame that is not written changes no call that has gone out.
LEMMA UnwrittenCall ==
  ASSUME NEW st, NEW next, NEW i \in Indexes, CallStep(st, next, Nothing, i)
  PROVE  /\ i \in DOMAIN next.calls
         /\ i \in DOMAIN st.calls =>
              /\ next.calls[i].id = st.calls[i].id /\ next.calls[i].name = st.calls[i].name
              /\ next.calls[i].args = st.calls[i].args
         /\ Silent(st, i) => Silent(next, i)
<1>1. Nothing \notin Frames
  BY DEF Nothing, Frames
<1>2. /\ DOMAIN next.calls = DOMAIN st.calls \cup {i}
      /\ Known(next, i).id = Known(st, i).id /\ Known(next, i).name = Known(st, i).name
      /\ Known(next, i).args = Known(st, i).args
      /\ i = Legacy => i \in DOMAIN st.calls
      /\ i # Legacy /\ Known(st, i) = NoCall => Known(next, i) = NoCall
  BY <1>1 DEF CallStep
<1>3. QED
  BY <1>2 DEF Known, Silent

\* The client of the chat API, while its stream is open.
Open(c) == c.finish = "" /\ c.error = "" /\ c.dones = 0 /\ ~c.late

\* Whether a frame comes after the end.
Late(c, kind) ==
  c.dones > 0 \/ (c.error # "" /\ kind # "done") \/ (c.finish # "" /\ kind \notin {"done", "nothing"})
(* While the stream is open none does.                                     *)
LEMMA OpenIsEarly ==
  ASSUME NEW c \in ChatType, Open(c)
  PROVE  /\ c.late = FALSE /\ c.dones = 0 /\ c.error = "" /\ c.finish = ""
         /\ \A kind : ~Late(c, kind)
<1>1. c.dones = 0 /\ c.error = "" /\ c.finish = "" /\ ~c.late
  BY Zenon DEF Open
<1>2. c.late = FALSE
  BY <1>1 DEF ChatType
<1>3. ~(c.dones > 0)
  <2>1. c.dones = 0
    BY <1>1, Zenon
  <2>2. QED
    BY <2>1
<1>4. \A kind : ~Late(c, kind)
  BY <1>1, <1>3, Zenon DEF Late
<1>5. QED
  BY <1>1, <1>2, <1>4, Zenon

\* It takes in a text.
LEMMA ReceiveText ==
  ASSUME NEW c \in ChatType, Open(c), NEW d \in Frames, d.kind = "text"
  PROVE  /\ Receive(c, d) \in ChatType /\ Open(Receive(c, d))
         /\ Receive(c, d).text = [c.text EXCEPT ![d.key] = c.text[d.key] \o d.value]
         /\ Receive(c, d).calls = c.calls
<1> DEFINE text == [c.text EXCEPT ![d.key] = c.text[d.key] \o d.value]
           late == Late(c, d.kind)
           got == [c EXCEPT !.text[d.key] = @ \o d.value]
           isLate == got.late \/ late
<1>1. d.key \in TextKeys /\ d.value \in Pieces /\ c.text \in Texts
  BY DEF Frames, ChatType
<1>2. c.text[d.key] \o d.value \in Pieces
  BY <1>1, ConcatProperties DEF Texts, Pieces
<1>3. text \in Texts
  BY <1>1, <1>2 DEF Texts
<1>4. got = [c EXCEPT !.text = text]
  BY DEF ChatType
<1>5. Receive(c, d) = [got EXCEPT !.late = isLate]
  BY DEF Receive, Late
<1>6. ~late
  BY OpenIsEarly
<1> HIDE DEF text, late, got
<1>7. /\ got \in ChatType /\ got.text = text /\ got.calls = c.calls
      /\ got.finish = "" /\ got.error = "" /\ got.dones = 0 /\ got.late = c.late
  BY <1>3, <1>4 DEF ChatType, Open
<1>8. isLate = FALSE
  BY <1>6, <1>7 DEF Open, ChatType
<1> HIDE DEF isLate
<1>9. QED
  BY <1>5, <1>7, <1>8 DEF ChatType, Open, text

\* It takes in a piece of a call.
Heeds(c, s, d) ==
  LET i == d.index
      old == IF i \in DOMAIN c.calls THEN c.calls[i] ELSE [id |-> "", names |-> <<>>, args |-> <<>>]
  IN  /\ s \in ChatType /\ Open(s) /\ s.text = c.text
      /\ DOMAIN s.calls = DOMAIN c.calls \cup {i}
      /\ \A j \in DOMAIN c.calls \ {i} : s.calls[j] = c.calls[j]
      /\ s.calls[i] \in ChatCall
      /\ s.calls[i].id = (IF d.id # "" THEN d.id ELSE old.id)
      /\ s.calls[i].names = IF d.name = "" THEN old.names
                            ELSE IF i = Legacy THEN <<d.name>> ELSE Append(old.names, d.name)
      /\ s.calls[i].args = old.args \o d.args

\* Receive does that.
LEMMA ReceiveCall ==
  ASSUME NEW c \in ChatType, Open(c), NEW d \in Frames, d.kind = "call"
  PROVE  Heeds(c, Receive(c, d), d)
<1> DEFINE i == d.index
           old == IF i \in DOMAIN c.calls THEN c.calls[i]
                  ELSE [id |-> "", names |-> <<>>, args |-> <<>>]
           id == IF d.id # "" THEN d.id ELSE old.id
           names == IF d.name = "" THEN old.names
                    ELSE IF i = Legacy THEN <<d.name>> ELSE Append(old.names, d.name)
           args == old.args \o d.args
           new == [id |-> id, names |-> names, args |-> args]
           calls == Put(c.calls, i, new)
           got == [c EXCEPT !.calls = calls]
           late == Late(c, d.kind)
           isLate == got.late \/ late
<1>1. /\ i \in Indexes /\ d.id \in Words /\ d.name \in Words /\ d.args \in Pieces
      /\ c.calls \in Maps(Indexes, ChatCall)
  BY DEF Frames, ChatType
<1>2. old \in ChatCall
  <2>1. i \in DOMAIN c.calls => c.calls[i] \in ChatCall
    BY <1>1, MapsDef
  <2>2. [id |-> "", names |-> <<>>, args |-> <<>>] \in ChatCall
    <3> DEFINE none == ""
    <3>1. none \in Words /\ <<>> \in Pieces /\ <<>> \in Seq(Words)
      BY NoPieces, WordsAssumption DEF Pieces
    <3> HIDE DEF none
    <3>2. [id |-> none, names |-> <<>>, args |-> <<>>] \in ChatCall
      BY <3>1 DEF ChatCall
    <3>3. QED
      BY <3>2, Zenon DEF none
  <2>3. QED
    BY <2>1, <2>2, Zenon
<1>3. Receive(c, d) = [got EXCEPT !.late = isLate]
  <2>1. Receive(c, d) = LET g == [c EXCEPT !.calls = Put(@, i, new)]
                        IN  [g EXCEPT !.late = @ \/ late]
    BY DEF Receive, Late
  <2>2. [c EXCEPT !.calls = Put(@, i, new)] = got
    BY DEF ChatType
  <2> HIDE DEF got, late
  <2>3. QED
    BY <2>1, <2>2
<1>4. ~late
  BY OpenIsEarly
<1> HIDE DEF old, late
<1>5. id \in Words /\ names \in Seq(Words) /\ args \in Pieces
  <2>1. id \in Words /\ old.names \in Seq(Words) /\ old.args \in Pieces
    BY <1>1, <1>2 DEF ChatCall
  <2>2. Append(old.names, d.name) \in Seq(Words) /\ <<d.name>> \in Seq(Words)
    <3>1. old.names \in Seq(Words)
      BY <1>2 DEF ChatCall
    <3>2. QED
      BY <1>1, <3>1, AppendProperties
  <2>3. args \in Pieces
    BY <1>1, <2>1, ConcatProperties DEF Pieces
  <2>4. QED
    BY <2>1, <2>2, <2>3
<1>6. /\ id = (IF d.id # "" THEN d.id ELSE old.id)
      /\ names = IF d.name = "" THEN old.names
                 ELSE IF i = Legacy THEN <<d.name>> ELSE Append(old.names, d.name)
      /\ args = old.args \o d.args
  OBVIOUS
<1> HIDE DEF id, names, args
<1>7. new \in ChatCall /\ new.id = id /\ new.names = names /\ new.args = args
  BY <1>5 DEF ChatCall
<1> HIDE DEF new
<1>8. /\ calls \in Maps(Indexes, ChatCall) /\ DOMAIN calls = DOMAIN c.calls \cup {i}
      /\ calls[i] = new /\ \A j \in DOMAIN c.calls \ {i} : calls[j] = c.calls[j]
  <2>1. calls \in Maps(Indexes, ChatCall)
    BY <1>1, <1>7, PutType
  <2>2. QED
    BY <2>1 DEF Put
<1> HIDE DEF calls
<1>9. /\ got \in ChatType /\ got.text = c.text /\ got.calls = calls
      /\ got.finish = "" /\ got.error = "" /\ got.dones = 0 /\ got.late = c.late
  BY <1>8 DEF ChatType, Open
<1> HIDE DEF got
<1>10. isLate = FALSE
  BY <1>4, <1>9 DEF Open, ChatType
<1> HIDE DEF isLate
<1> DEFINE s == Receive(c, d)
<1>11. s \in ChatType /\ Open(s) /\ s.text = c.text /\ s.calls = calls
  BY <1>3, <1>9, <1>10 DEF ChatType, Open
<1> HIDE DEF s
<1>12. Heeds(c, s, d)
  BY <1>6, <1>7, <1>8, <1>11 DEF Heeds, old
<1>13. QED
  BY <1>12 DEF s

\* Nothing is nothing to it.
LEMMA ReceiveNothing ==
  ASSUME NEW c \in ChatType, Open(c)
  PROVE  Receive(c, Nothing) = c
<1> DEFINE late == Late(c, Nothing.kind)
           isLate == c.late \/ late
<1>1. Receive(c, Nothing) = [c EXCEPT !.late = isLate]
  BY DEF Receive, Nothing, Late
<1>2. isLate = c.late
  BY OpenIsEarly
<1> HIDE DEF isLate
<1>3. [c EXCEPT !.late = c.late] = c
  BY DEF ChatType
<1>4. QED
  BY <1>1, <1>2, <1>3

\* It has what the frames written to it say.
LEMMA ChatSteps ==
  ASSUME NEW st \in StreamType, NEW next \in StreamType, NEW d, NEW i, Steps(st, next, d, i),
         NEW c \in ChatType, Open(c), ChatHas(c, st)
  PROVE  Receive(c, d) \in ChatType /\ Open(Receive(c, d)) /\ ChatHas(Receive(c, d), next)
<1>1. CASE TextStep(st, next, d)
  <2>1. /\ Receive(c, d) \in ChatType /\ Open(Receive(c, d)) /\ Receive(c, d).calls = c.calls
        /\ Receive(c, d).text = next.text
    <3>1. /\ d \in Frames /\ d.kind = "text" /\ c.text = st.text
          /\ next.text = [st.text EXCEPT ![d.key] = st.text[d.key] \o d.value]
      BY <1>1, Zenon DEF TextStep, ChatHas
    <3> DEFINE s == Receive(c, d)
    <3>2. s \in ChatType /\ Open(s) /\ s.calls = c.calls
      BY <3>1, ReceiveText
    <3>3. s.text = [c.text EXCEPT ![d.key] = c.text[d.key] \o d.value]
      BY <3>1, ReceiveText
    <3> HIDE DEF s
    <3>4. s.text = next.text
      BY <3>1, <3>3, Zenon
    <3>5. QED
      BY <3>2, <3>4 DEF s
  <2>2. QED
    BY <1>1, <2>1 DEF TextStep, ChatHas, Silent, Known
<1>2. CASE QuietStep(st, next, d)
  <2>1. Receive(c, d) = c
    BY <1>2, ReceiveNothing DEF QuietStep
  <2>2. QED
    BY <1>2, <2>1 DEF QuietStep, ChatHas, Silent, Known
<1>3. CASE CallStep(st, next, d, i)
  <2>1. i \in Indexes /\ next.text = st.text
    BY <1>3 DEF CallStep
  <2>2. \A j \in Indexes \ {i} :
          IF j \in DOMAIN c.calls
          THEN j \in DOMAIN next.calls /\ c.calls[j] = CallView(next.calls[j])
          ELSE Silent(next, j)
    BY <1>3, OtherCalls DEF ChatHas
  <2>3. IF i \in DOMAIN c.calls
        THEN i \in DOMAIN st.calls /\ c.calls[i] = CallView(st.calls[i])
        ELSE Silent(st, i)
    BY <2>1 DEF ChatHas
  <2>4. CASE d = Nothing
    <3>1. Receive(c, d) = c
      BY <2>4, ReceiveNothing
    <3>2. IF i \in DOMAIN c.calls
          THEN i \in DOMAIN next.calls /\ c.calls[i] = CallView(next.calls[i])
          ELSE Silent(next, i)
      <4>1. CallStep(st, next, Nothing, i)
        BY <1>3, <2>4
      <4>2. /\ i \in DOMAIN next.calls
            /\ i \in DOMAIN st.calls =>
                 /\ next.calls[i].id = st.calls[i].id /\ next.calls[i].name = st.calls[i].name
                 /\ next.calls[i].args = st.calls[i].args
            /\ Silent(st, i) => Silent(next, i)
        BY <2>1, <4>1, UnwrittenCall
      <4>3. i \in DOMAIN st.calls => CallView(next.calls[i]) = CallView(st.calls[i])
        BY <4>2, Zenon DEF CallView
      <4>4. QED
        BY <2>3, <4>2, <4>3
    <3>3. QED
      BY <2>1, <2>2, <3>1, <3>2 DEF ChatHas
  <2>5. CASE d # Nothing
    <3> DEFINE old == Known(st, i)
               new == Known(next, i)
               s == Receive(c, d)
    <3>1. /\ d \in Frames /\ d.kind = "call" /\ d.index = i
          /\ new.id = (IF d.id # "" THEN d.id ELSE old.id)
          /\ new.name = (IF d.name # "" THEN d.name ELSE old.name)
          /\ new.args = old.args \o d.args
          /\ d.name # "" /\ i # Legacy => old.name = ""
      BY <1>3, <2>5 DEF CallStep
    <3>2. i \in DOMAIN next.calls /\ next.calls[i] = new
      BY <1>3 DEF CallStep, Known
    <3>3. Heeds(c, s, d)
      BY <3>1, ReceiveCall
    <3> DEFINE had == IF i \in DOMAIN c.calls THEN c.calls[i]
                      ELSE [id |-> "", names |-> <<>>, args |-> <<>>]
    <3>4. had.id = old.id /\ had.args = old.args
          /\ had.names = IF old.name = "" THEN <<>> ELSE <<old.name>>
      <4>1. CASE i \in DOMAIN c.calls
        <5>1. had = CallView(old)
          BY <2>3, <4>1, Zenon DEF Known
        <5> HIDE DEF had, old
        <5>2. QED
          BY <5>1, Zenon DEF CallView
      <4>2. CASE i \notin DOMAIN c.calls
        <5>1. old = NoCall
          BY <2>3, <4>2 DEF Silent
        <5>2. QED
          BY <4>2, <5>1, NoCallFields
      <4>3. QED
        BY <4>1, <4>2
    <3>5. /\ s \in ChatType /\ Open(s) /\ s.text = c.text
          /\ DOMAIN s.calls = DOMAIN c.calls \cup {i}
          /\ \A j \in DOMAIN c.calls \ {i} : s.calls[j] = c.calls[j]
          /\ s.calls[i] \in ChatCall
          /\ s.calls[i].id = (IF d.id # "" THEN d.id ELSE had.id)
          /\ s.calls[i].names = IF d.name = "" THEN had.names
                                ELSE IF i = Legacy THEN <<d.name>> ELSE Append(had.names, d.name)
          /\ s.calls[i].args = had.args \o d.args
      BY <3>1, <3>3 DEF Heeds
    <3> HIDE DEF s, had, old, new
    <3>6. s.calls[i].id = new.id /\ s.calls[i].args = new.args
      BY <3>1, <3>4, <3>5
    <3>7. s.calls[i].names = IF new.name = "" THEN <<>> ELSE <<new.name>>
      <4>1. Append(<<>>, d.name) = <<d.name>>
        OBVIOUS
      <4>2. QED
        BY <3>1, <3>4, <3>5, <4>1
    <3>8. s.calls[i] = CallView(new)
      BY <3>5, <3>6, <3>7 DEF ChatCall, CallView
    <3>9. ChatHas(s, next)
      BY <2>1, <2>2, <3>2, <3>5, <3>8 DEF ChatHas
    <3>10. QED
      BY <3>5, <3>9 DEF s
  <2>6. QED
    BY <2>4, <2>5
<1>4. QED
  BY <1>1, <1>2, <1>3 DEF Steps

\* How the stream of the chat API ends: what it has stays, and is not late.
TellsEnd(c, s, d) ==
  /\ s \in ChatType /\ ~s.late /\ s.dones = 1 /\ s.text = c.text /\ s.calls = c.calls
  /\ s.error = (IF d.kind = "error" THEN d.code ELSE "")
  /\ s.finish = (IF d.kind = "finish" THEN d.reason ELSE "")
Tails == {Nothing} \cup [kind : {"error"}, code : Codes] \cup [kind : {"finish"}, reason : Words \cup {"stop"}]

\* The last frame and the end of the stream come once, and nothing later.
LEMMA ReceiveEnds ==
  ASSUME NEW c \in ChatType, Open(c), NEW d \in Tails
  PROVE  TellsEnd(c, ReceiveEnd(c, d), d)
<1> DEFINE error == IF d.kind = "error" THEN d.code ELSE ""
           finish == IF d.kind = "finish" THEN d.reason ELSE ""
           a == Receive(c, d)
           s == Receive(a, DoneMark)
<1>1. error \in Codes /\ finish \in Words \cup {"stop"}
      /\ error = (IF d.kind = "error" THEN d.code ELSE "")
      /\ finish = (IF d.kind = "finish" THEN d.reason ELSE "")
  <2>1. d.kind = "error" => d.code \in Codes
    BY DEF Tails, Nothing
  <2>2. d.kind = "finish" => d.reason \in Words \cup {"stop"}
    BY DEF Tails, Nothing
  <2>3. "" \in Codes /\ "" \in Words \cup {"stop"}
    BY WordsAssumption, Zenon DEF Codes
  <2>4. QED
    BY <2>1, <2>2, <2>3, Zenon
<1>2. a = [c EXCEPT !.error = error, !.finish = finish]
  <2>0. [c EXCEPT !.late = FALSE] = c /\ c.late = FALSE
    BY DEF ChatType, Open
  <2>1. CASE d = Nothing
    <3>1. a = c
      BY <2>1, ReceiveNothing
    <3>2. error = "" /\ finish = ""
      BY <2>1 DEF Nothing
    <3> HIDE DEF error, finish, a
    <3>3. [c EXCEPT !.error = "", !.finish = ""] = c
      BY DEF ChatType, Open
    <3>4. QED
      BY <3>1, <3>2, <3>3
  <2>2. CASE d \in [kind : {"error"}, code : Codes]
    <3> DEFINE got == [c EXCEPT !.error = d.code]
               late == got.late \/ Late(c, d.kind)
    <3>1. a = [got EXCEPT !.late = late]
      BY <2>2 DEF Receive, Late
    <3>2. late = FALSE
      <4>1. got.late = c.late
        BY DEF ChatType
      <4>2. QED
        BY <4>1, OpenIsEarly
    <3>3. error = d.code /\ finish = ""
      BY <2>2
    <3> HIDE DEF late, error, finish, a
    <3>4. QED
      BY <3>1, <3>2, <3>3 DEF ChatType, Open
  <2>3. CASE d \in [kind : {"finish"}, reason : Words \cup {"stop"}]
    <3> DEFINE got == [c EXCEPT !.finish = d.reason]
               late == got.late \/ Late(c, d.kind)
    <3>1. a = [got EXCEPT !.late = late]
      BY <2>3 DEF Receive, Late
    <3>2. late = FALSE
      <4>1. got.late = c.late
        BY DEF ChatType
      <4>2. QED
        BY <4>1, OpenIsEarly
    <3>3. error = "" /\ finish = d.reason
      BY <2>3
    <3> HIDE DEF late, error, finish, a
    <3>4. QED
      BY <3>1, <3>2, <3>3 DEF ChatType, Open
  <2>4. QED
    BY <2>1, <2>2, <2>3 DEF Tails
<1> HIDE DEF error, finish, a
<1>3. /\ a \in ChatType /\ a.late = FALSE /\ a.dones = 0 /\ a.text = c.text /\ a.calls = c.calls
      /\ a.error = error /\ a.finish = finish
  BY <1>1, <1>2 DEF ChatType, Open
<1>4. s = [a EXCEPT !.dones = 1]
  <2> DEFINE got == [a EXCEPT !.dones = @ + 1]
             late == got.late \/ (\/ a.dones > 0 \/ (a.error # "" /\ DoneMark.kind # "done")
                                  \/ (a.finish # "" /\ DoneMark.kind \notin {"done", "nothing"}))
  <2>1. s = [got EXCEPT !.late = late]
    BY DEF Receive, DoneMark
  <2>2. late = FALSE
    BY <1>3 DEF ChatType, DoneMark
  <2>3. got = [a EXCEPT !.dones = 1]
    BY <1>3 DEF ChatType
  <2> HIDE DEF late, got, s
  <2>4. QED
    BY <1>3, <2>1, <2>2, <2>3 DEF ChatType
<1>5. s = ReceiveEnd(c, d)
  BY DEF ReceiveEnd, a
<1> HIDE DEF s
<1>6. TellsEnd(c, s, d)
  BY <1>1, <1>3, <1>4 DEF ChatType, TellsEnd
<1>7. QED
  BY <1>5, <1>6

-----------------------------------------------------------------------------
(* What the contract writer keeps.                                         *)

HeldType == [st : StreamType, error : Codes, checked : BOOLEAN]
Holding(h) == h.error = "" /\ h.st.finish = "" /\ ~h.st.done

\* What the frame of a call says.
Sound(d) ==
  d.kind = "call" =>
    /\ ~d.has => d.args = <<>>
    /\ d.index = Legacy => d.id = "" /\ (d.name # "" \/ d.args # <<>>)
(* A frame of the answer is read as an event that says as much.            *)
LEMMA TextAsEvent ==
  ASSUME NEW d \in Frames, d.kind = "text"
  PROVE  /\ AsEvent(d) \in Event /\ AsEvent(d).kind = "text" /\ AsEvent(d).key = d.key
         /\ AsEvent(d).value = d.value /\ AsEvent(d).whole = FALSE
<1> DEFINE e == [kind |-> "text", key |-> d.key, value |-> d.value, whole |-> FALSE]
<1>1. AsEvent(d) = e
  BY DEF AsEvent
<1>2. d.key \in TextKeys /\ d.value \in Pieces
  BY DEF Frames
<1>3. e \in [kind : {"text"}, key : TextKeys, value : Pieces, whole : BOOLEAN]
  BY <1>2
<1>4. e.kind = "text" /\ e.key = d.key /\ e.value = d.value /\ e.whole = FALSE
  BY Zenon
<1> HIDE DEF e
<1>5. e \in Event
  BY <1>3, Zenon DEF Event
<1>6. QED
  BY <1>1, <1>4, <1>5, Zenon

\* So is the frame of a call.
LEMMA CallAsEvent ==
  ASSUME NEW d \in Frames, d.kind = "call", Sound(d)
  PROVE  /\ AsEvent(d) \in Event /\ AsEvent(d).kind = "call" /\ AsEvent(d).index = d.index
         /\ AsEvent(d).name = d.name /\ AsEvent(d).args = d.args /\ ~AsEvent(d).whole
<1> DEFINE e == [kind |-> "call", index |-> d.index, id |-> d.id, name |-> d.name,
                 has |-> d.has, args |-> d.args, whole |-> FALSE]
<1>1. AsEvent(d) = e
  BY DEF AsEvent
<1>2. /\ d.index \in Indexes /\ d.id \in Words /\ d.name \in Words
      /\ d.has \in BOOLEAN /\ d.args \in Pieces
  BY DEF Frames
<1>3. e \in [kind : {"call"}, index : Indexes, id : Words, name : Words,
             has : BOOLEAN, args : Pieces, whole : BOOLEAN]
  BY <1>2
<1>4. /\ e.kind = "call" /\ e.index = d.index /\ e.id = d.id /\ e.name = d.name
      /\ e.has = d.has /\ e.args = d.args /\ e.whole = FALSE
  BY Zenon
<1> HIDE DEF e
<1>5. (~e.has => e.args = <<>>) /\ (e.index = Legacy => e.id = "")
  <2>1. (~d.has => d.args = <<>>) /\ (d.index = Legacy => d.id = "")
    BY Zenon DEF Sound
  <2>2. QED
    BY <1>4, <2>1, Zenon
<1>6. e \in Event
  BY <1>3, <1>5, Zenon DEF Event
<1>7. QED
  BY <1>1, <1>4, <1>6, Zenon

\* An open writer adds it to what it has.
LEMMA RetainObserves ==
  ASSUME NEW h \in HeldType, Holding(h), NEW d \in Frames
  PROVE  Retain(h, d) = [h EXCEPT !.st = Observe(h.st, AsEvent(d), IF d.kind = "call" THEN d.index ELSE "0")]
<1>1. ~(h.st.done \/ h.error # "")
  BY Zenon DEF Holding
<1>2. d.kind # "error" /\ d.kind # "done"
  BY DEF Frames
<1>3. QED
  BY <1>1, <1>2 DEF Retain

\* It stays open as long as nothing ends it.
LEMMA HoldingStays ==
  ASSUME NEW h \in HeldType, Holding(h), NEW new \in StreamType,
         new.finish = h.st.finish, new.done = h.st.done, NEW s, s = [h EXCEPT !.st = new]
  PROVE  s \in HeldType /\ Holding(s) /\ s.checked = h.checked /\ s.st = new
<1>1. s \in HeldType /\ s.checked = h.checked /\ s.st = new /\ s.error = h.error
  BY DEF HeldType
<1>2. h.error = "" /\ h.st.finish = "" /\ ~h.st.done
  BY Zenon DEF Holding
<1>3. Holding(s)
  BY <1>1, <1>2, Zenon DEF Holding
<1>4. QED
  BY <1>1, <1>3, Zenon

\* It adds up the texts itself.
LEMMA RetainText ==
  ASSUME NEW h \in HeldType, Holding(h), NEW d \in Frames, d.kind = "text"
  PROVE  /\ Retain(h, d) \in HeldType /\ Holding(Retain(h, d)) /\ Retain(h, d).checked = h.checked
         /\ Retain(h, d).st.text = [h.st.text EXCEPT ![d.key] = h.st.text[d.key] \o d.value]
         /\ Retain(h, d).st.calls = h.st.calls
<1> DEFINE e == AsEvent(d)
           new == Observe(h.st, e, "0")
           s == Retain(h, d)
<1>1. h.st \in StreamType
  BY DEF HeldType
<1>2. e \in Event /\ e.kind = "text" /\ e.key = d.key /\ e.value = d.value /\ e.whole = FALSE
  BY TextAsEvent
<1>3. s = [h EXCEPT !.st = new]
  BY RetainObserves
<1> HIDE DEF e
<1>4. Addition(h.st.text[e.key], e.value, e.whole) = d.value
  BY <1>2 DEF Addition
<1> HIDE DEF s
<1>5. /\ new \in StreamType /\ new.calls = h.st.calls
      /\ new.finish = h.st.finish /\ new.done = h.st.done
  BY <1>1, <1>2, ObserveText, ZenonT(60)
<1>6. new.text = [h.st.text EXCEPT ![e.key] = @ \o Addition(h.st.text[e.key], e.value, e.whole)]
  BY <1>1, <1>2, ObserveText, ZenonT(60)
<1> HIDE DEF new
<1>7. new.text = [h.st.text EXCEPT ![d.key] = h.st.text[d.key] \o d.value]
  BY <1>2, <1>4, <1>6
<1>8. s \in HeldType /\ Holding(s) /\ s.checked = h.checked /\ s.st = new
  BY <1>3, <1>5, HoldingStays
<1>9. QED
  BY <1>5, <1>7, <1>8, Zenon DEF s

\* It adds up the calls itself.
LEMMA RetainCall ==
  ASSUME NEW h \in HeldType, Holding(h), NEW d \in Frames, d.kind = "call", Sound(d)
  PROVE  /\ Retain(h, d) \in HeldType /\ Holding(Retain(h, d)) /\ Retain(h, d).checked = h.checked
         /\ Retain(h, d).st.text = h.st.text
         /\ DOMAIN Retain(h, d).st.calls = DOMAIN h.st.calls \cup {d.index}
         /\ Retain(h, d).st.calls[d.index].name
              = (IF d.name # "" THEN d.name ELSE Known(h.st, d.index).name)
         /\ Retain(h, d).st.calls[d.index].args = Known(h.st, d.index).args \o d.args
         /\ \A j \in DOMAIN h.st.calls \ {d.index} : Retain(h, d).st.calls[j] = h.st.calls[j]
<1> DEFINE e == AsEvent(d)
           i == d.index
           new == Observe(h.st, e, i)
           s == Retain(h, d)
<1>1. h.st \in StreamType
  BY DEF HeldType
<1>2. /\ e \in Event /\ e.kind = "call" /\ e.index = i /\ e.name = d.name /\ e.args = d.args
      /\ ~e.whole
  BY CallAsEvent
<1>3. s = [h EXCEPT !.st = new]
  BY RetainObserves
<1>4. i \in Indexes
  BY DEF Frames
<1> HIDE DEF e, s
<1>5. ~IsPlaceholder(h.st, e)
  BY <1>2, Zenon DEF IsPlaceholder, Sound
<1> HIDE DEF i
<1>6. /\ new \in StreamType /\ new.text = h.st.text
      /\ new.finish = h.st.finish /\ new.done = h.st.done
      /\ DOMAIN new.calls = DOMAIN h.st.calls \cup {i}
      /\ Gains(Known(new, i), Known(h.st, i), e, Addition(Known(h.st, i).args, e.args, e.whole))
      /\ \A j \in Indexes \ {i} : Known(new, j) = Known(h.st, j)
  BY <1>1, <1>2, <1>4, <1>5, ObserveCall
<1> HIDE DEF new
<1>7. /\ Known(new, i).name = (IF d.name # "" THEN d.name ELSE Known(h.st, i).name)
      /\ Known(new, i).args = Known(h.st, i).args \o d.args
  <2>1. Addition(Known(h.st, i).args, e.args, e.whole) = d.args
    BY <1>2 DEF Addition
  <2>2. QED
    BY <1>2, <1>6, <2>1, Zenon DEF Gains
<1>8. DOMAIN h.st.calls \subseteq Indexes
  <2>1. h.st.calls \in Maps(Indexes, StreamCall)
    BY <1>1 DEF StreamType
  <2>2. QED
    BY <2>1, MapsDef
<1>9. \A j \in DOMAIN h.st.calls \ {i} : new.calls[j] = h.st.calls[j]
  BY <1>6, <1>8 DEF Known
<1>10. new.calls[i] = Known(new, i)
  BY <1>6 DEF Known
<1>11. s \in HeldType /\ Holding(s) /\ s.checked = h.checked /\ s.st = new
  BY <1>3, <1>6, HoldingStays
<1>12. QED
  BY <1>6, <1>7, <1>9, <1>10, <1>11, Zenon DEF i, s

\* Nothing is nothing to it.
LEMMA RetainNothing ==
  ASSUME NEW h \in HeldType
  PROVE  Retain(h, Nothing) = h
<1>1. Observe(h.st, Nothing, "0") = h.st
  BY DEF Observe, Nothing
<1>2. [h EXCEPT !.st = h.st] = h
  BY DEF HeldType
<1>3. Retain(h, Nothing) = h \/ Retain(h, Nothing) = [h EXCEPT !.st = Observe(@, Nothing, "0")]
  BY DEF Retain, AsEvent, Nothing
<1>4. QED
  BY <1>1, <1>2, <1>3

\* It has what the frames written to it say.
LEMMA RetainSteps ==
  ASSUME NEW st \in StreamType, NEW next \in StreamType, NEW d, NEW i, Steps(st, next, d, i),
         NEW h \in HeldType, Holding(h), HeldHas(h.st, st), NEW s, s = Retain(h, d)
  PROVE  s \in HeldType /\ Holding(s) /\ s.checked = h.checked /\ HeldHas(s.st, next)
<1>1. CASE TextStep(st, next, d)
  <2>1. /\ s \in HeldType /\ Holding(s) /\ s.checked = h.checked
        /\ s.st.calls = h.st.calls /\ s.st.text = next.text
    <3>1. /\ d \in Frames /\ d.kind = "text" /\ h.st.text = st.text
          /\ next.text = [st.text EXCEPT ![d.key] = st.text[d.key] \o d.value]
      BY <1>1, Zenon DEF TextStep, HeldHas
    <3>2. s \in HeldType /\ Holding(s) /\ s.checked = h.checked /\ s.st.calls = h.st.calls
      BY <3>1, RetainText
    <3>3. s.st.text = [h.st.text EXCEPT ![d.key] = h.st.text[d.key] \o d.value]
      BY <3>1, RetainText
    <3>4. QED
      BY <3>1, <3>2, <3>3, Zenon
  <2>2. QED
    BY <1>1, <2>1 DEF TextStep, HeldHas, Silent, Known
<1>2. CASE QuietStep(st, next, d)
  <2>1. s = h
    BY <1>2, RetainNothing DEF QuietStep
  <2>2. QED
    BY <1>2, <2>1 DEF QuietStep, HeldHas, Silent, Known
<1>3. CASE CallStep(st, next, d, i)
  <2>1. i \in Indexes /\ next.text = st.text
    BY <1>3 DEF CallStep
  <2>2. \A j \in Indexes \ {i} :
          IF j \in DOMAIN h.st.calls
          THEN /\ j \in DOMAIN next.calls /\ h.st.calls[j].name = next.calls[j].name
               /\ h.st.calls[j].args = next.calls[j].args
          ELSE Silent(next, j)
    BY <1>3, OtherCalls DEF HeldHas
  <2>3. IF i \in DOMAIN h.st.calls
        THEN /\ i \in DOMAIN st.calls /\ h.st.calls[i].name = st.calls[i].name
             /\ h.st.calls[i].args = st.calls[i].args
        ELSE Silent(st, i)
    BY <2>1 DEF HeldHas
  <2>4. CASE d = Nothing
    <3>1. s = h
      BY <2>4, RetainNothing
    <3>2. IF i \in DOMAIN h.st.calls
          THEN /\ i \in DOMAIN next.calls /\ h.st.calls[i].name = next.calls[i].name
               /\ h.st.calls[i].args = next.calls[i].args
          ELSE Silent(next, i)
      <4>1. CallStep(st, next, Nothing, i)
        BY <1>3, <2>4
      <4>2. /\ i \in DOMAIN next.calls
            /\ i \in DOMAIN st.calls => /\ next.calls[i].name = st.calls[i].name
                                        /\ next.calls[i].args = st.calls[i].args
            /\ Silent(st, i) => Silent(next, i)
        BY <2>1, <4>1, UnwrittenCall
      <4>3. QED
        BY <2>3, <4>2
    <3>3. QED
      BY <2>1, <2>2, <3>1, <3>2 DEF HeldHas
  <2>5. CASE d # Nothing
    <3>1. /\ d \in Frames /\ d.kind = "call" /\ d.index = i
          /\ Known(next, i).name = (IF d.name # "" THEN d.name ELSE Known(st, i).name)
          /\ Known(next, i).args = Known(st, i).args \o d.args
          /\ Sound(d)
      BY <1>3, <2>5, Zenon DEF CallStep, Sound
    <3>2. i \in DOMAIN next.calls /\ next.calls[i] = Known(next, i)
      BY <1>3 DEF CallStep, Known
    <3>3. /\ s \in HeldType /\ Holding(s) /\ s.checked = h.checked
          /\ s.st.text = h.st.text /\ DOMAIN s.st.calls = DOMAIN h.st.calls \cup {i}
          /\ s.st.calls[i].name = (IF d.name # "" THEN d.name ELSE Known(h.st, i).name)
          /\ s.st.calls[i].args = Known(h.st, i).args \o d.args
          /\ \A j \in DOMAIN h.st.calls \ {i} : s.st.calls[j] = h.st.calls[j]
      <4>1. d \in Frames /\ d.kind = "call" /\ Sound(d)
        BY <3>1, Zenon
      <4>2. /\ s \in HeldType /\ Holding(s) /\ s.checked = h.checked
            /\ s.st.text = h.st.text /\ DOMAIN s.st.calls = DOMAIN h.st.calls \cup {d.index}
            /\ s.st.calls[d.index].name = (IF d.name # "" THEN d.name ELSE Known(h.st, d.index).name)
            /\ s.st.calls[d.index].args = Known(h.st, d.index).args \o d.args
            /\ \A j \in DOMAIN h.st.calls \ {d.index} : s.st.calls[j] = h.st.calls[j]
        BY <4>1, RetainCall
      <4>3. QED
        BY <3>1, <4>2, Zenon
    <3>4. Known(h.st, i).name = Known(st, i).name /\ Known(h.st, i).args = Known(st, i).args
      BY <2>3 DEF Known, Silent
    <3>5. s.st.calls[i].name = next.calls[i].name /\ s.st.calls[i].args = next.calls[i].args
      BY <3>1, <3>2, <3>3, <3>4
    <3>6. QED
      BY <2>1, <2>2, <3>2, <3>3, <3>5 DEF HeldHas
  <2>6. QED
    BY <2>4, <2>5
<1>4. QED
  BY <1>1, <1>2, <1>3 DEF Steps

\* The tail of the stream is kept as it ended.
KeepsEnd(h, s) ==
  /\ s \in HeldType /\ s.st.text = h.st.text /\ s.st.calls = h.st.calls /\ s.checked = h.checked
  /\ s.error = Code /\ (Code = "" => s.st.finish = up.finish)

\* RetainEnd does that.
LEMMA RetainEnds ==
  ASSUME NEW h \in HeldType, Holding(h), ~Lost, Code \in Codes, up.finish \in Words
  PROVE  KeepsEnd(h, RetainEnd(h))
<1> DEFINE a == Retain(h, LastFrame)
           s == Retain(a, DoneMark)
<1>1. RetainEnd(h) = s
  BY DEF RetainEnd
<1>2. h.st \in StreamType
  BY DEF HeldType
<1>3. CASE Code # ""
  <2>1. LastFrame = [kind |-> "error", code |-> Code]
    BY <1>3 DEF LastFrame, Err
  <2>2. a = [h EXCEPT !.error = Code]
    BY <2>1 DEF Retain, Holding
  <2> HIDE DEF a
  <2>3. a \in HeldType /\ a.st = h.st /\ a.error = Code /\ a.checked = h.checked
    BY <2>2 DEF HeldType
  <2>4. s = a
    BY <1>3, <2>3 DEF Retain
  <2>5. QED
    BY <1>1, <1>3, <2>3, <2>4 DEF KeepsEnd
<1>4. CASE Code = ""
  <2>1. a \in HeldType /\ a.error = "" /\ a.st.text = h.st.text /\ a.st.calls = h.st.calls
        /\ a.checked = h.checked /\ a.st.finish = up.finish /\ ~a.st.done
    <3>1. CASE up.finish = ""
      <4>1. LastFrame = Nothing
        BY <1>4, <3>1 DEF LastFrame
      <4>2. a = h
        BY <4>1, RetainNothing
      <4>3. QED
        BY <3>1, <4>2 DEF Holding
    <3>2. CASE up.finish # ""
      <4> DEFINE e == [kind |-> "finish", reason |-> up.finish]
                 new == Observe(h.st, e, "0")
      <4>1. LastFrame = e
        BY <1>4, <3>2 DEF LastFrame, Fin
      <4>2. e \in Event /\ e.kind = "finish" /\ e.reason = up.finish
        BY <3>2 DEF Event
      <4>3. AsEvent(e) = e
        BY DEF AsEvent
      <4>4. a = [h EXCEPT !.st = new]
        BY <4>1, <4>3 DEF Retain, Holding
      <4> HIDE DEF e
      <4>5. new = [h.st EXCEPT !.finish = up.finish] /\ new \in StreamType
        BY <1>2, <4>2, ObserveFinish
      <4>6. new.text = h.st.text /\ new.calls = h.st.calls /\ new.finish = up.finish
            /\ new.done = h.st.done
        BY <1>2, <4>5 DEF StreamType
      <4> HIDE DEF new, a
      <4>7. QED
        BY <4>4, <4>5, <4>6 DEF HeldType, Holding
    <3>3. QED
      BY <3>1, <3>2
  <2> HIDE DEF a
  <2>2. s = [a EXCEPT !.st.done = TRUE]
    BY <2>1 DEF Retain, DoneMark
  <2>3. s \in HeldType /\ s.error = "" /\ s.st.text = a.st.text /\ s.st.calls = a.st.calls
        /\ s.checked = a.checked /\ s.st.finish = a.st.finish
    <3>1. a \in HeldType /\ a.error = ""
      BY <2>1, Zenon
    <3> HIDE DEF s
    <3>2. s \in HeldType /\ s.error = a.error /\ s.st.text = a.st.text /\ s.st.calls = a.st.calls
          /\ s.checked = a.checked /\ s.st.finish = a.st.finish
      <4>1. a \in HeldType
        BY <3>1, Zenon
      <4>2. QED
        BY <2>2, <4>1 DEF HeldType, StreamType
    <3>3. QED
      BY <3>1, <3>2, Zenon
  <2>4. QED
    BY <1>1, <1>4, <2>1, <2>3 DEF KeepsEnd
<1>5. QED
  BY <1>3, <1>4

-----------------------------------------------------------------------------
(* Each step of the model.                                                 *)

\* The frame with which nothing is written.
LEMMA NothingKind == Nothing.kind = "nothing"
BY DEF Nothing

\* The fields of a call item of which nothing is known.
LEMMA NewCallFields == NewCallItem.name = NoCall.name /\ NewCallItem.args = NoCall.args
BY Zenon DEF NewCallItem, NoCall

\* A call kept alike is known alike.
LEMMA KeptHas ==
  ASSUME NEW st, NEW r, NEW i, CallHas(r, st, i)
  PROVE  Kept(r, i).name = Known(st, i).name /\ Kept(r, i).args = Known(st, i).args
<1>1. CASE i \in DOMAIN r.calls
  <2>1. i \in DOMAIN st.calls /\ r.calls[i].name = st.calls[i].name /\ r.calls[i].args = st.calls[i].args
    BY <1>1 DEF CallHas
  <2>2. Kept(r, i) = r.calls[i] /\ Known(st, i) = st.calls[i]
    BY <1>1, <2>1 DEF Kept, Known
  <2>3. QED
    BY <2>1, <2>2
<1>2. CASE i \notin DOMAIN r.calls
  <2>1. Known(st, i) = NoCall
    BY <1>2 DEF CallHas, Silent
  <2>2. Kept(r, i) = NewCallItem
    BY <1>2 DEF Kept
  <2>3. QED
    BY <2>1, <2>2, NewCallFields
<1>3. QED
  BY <1>1, <1>2

(* A writer that is still listening. *)
Listens(r) == Good(r) /\ ~r.sawDone /\ r.failure = ""

\* It hears a piece of a call that agrees with what it keeps of it.
LEMMA CallHeard ==
  ASSUME NEW r, Listens(r), NEW d \in Frames, Agrees(Kept(r, d.index), d)
  PROVE  Hears(r, HandleFrame(r, d), d)
BY HandleFrameFits DEF Listens

\* What it keeps of the calls goes with them.
LEMMA WriterCallSteps ==
  ASSUME NEW st, NEW next, NEW d \in Frames, NEW i, CallStep(st, next, d, i), d.kind = "call", d # Nothing,
         NEW r, Listens(r), WriterHas(r, st),
         NEW s, s = HandleFrame(r, d)
  PROVE  Good(s) /\ SameState(r, s) /\ (s.failure = "" => WriterHas(s, next))
<1>1. /\ d.index = i /\ i \in Indexes /\ next.text = st.text
      /\ Known(next, i).name = (IF d.name # "" THEN d.name ELSE Known(st, i).name)
      /\ Known(next, i).args = Known(st, i).args \o d.args
      /\ d.name # "" => Known(st, i).name \in {"", d.name}
      /\ i \in DOMAIN next.calls /\ next.calls[i] = Known(next, i)
  BY DEF CallStep, Known
<1>2. CallHas(r, st, i)
  BY <1>1, Zenon DEF WriterHas
<1>3. Kept(r, i).name = Known(st, i).name /\ Kept(r, i).args = Known(st, i).args
  BY <1>2, KeptHas, Zenon
<1>4. Hears(r, s, d)
  <2>1. Agrees(Kept(r, d.index), d)
    <3>1. Agrees(Known(st, i), d)
      BY <1>1, Zenon DEF Agrees
    <3>2. QED
      BY <1>1, <1>3, <3>1, Zenon DEF Agrees
  <2>2. Hears(r, HandleFrame(r, d), d)
    BY <2>1, CallHeard, Zenon
  <2>3. QED
    BY <2>2, Zenon
<1>5. CASE s.failure = ""
  <2>1. /\ s.text = r.text /\ DOMAIN s.calls = DOMAIN r.calls \cup {i}
        /\ s.calls[i].name = next.calls[i].name /\ s.calls[i].args = next.calls[i].args
        /\ \A j \in DOMAIN r.calls \ {i} :
             s.calls[j].name = r.calls[j].name /\ s.calls[j].args = r.calls[j].args
    <3>1. Heard(r, s, d.index, d)
      BY <1>4, <1>5, Zenon DEF Hears
    <3>2. Heard(r, s, i, d)
      BY <1>1, <3>1, Zenon
    <3>3. s.calls[i].name = next.calls[i].name
      <4>1. s.calls[i].name = (IF d.name # "" THEN d.name ELSE Known(st, i).name)
        BY <1>3, <3>2, Zenon DEF Heard
      <4>2. QED
        BY <1>1, <4>1, Zenon
    <3>4. s.calls[i].args = next.calls[i].args
      BY <1>1, <1>3, <3>2, Zenon DEF Heard
    <3>5. s.text = r.text
      BY <1>4, <1>5, Zenon DEF Hears
    <3>6. QED
      BY <3>2, <3>3, <3>4, <3>5, Zenon DEF Heard
  <2>2. \A j \in Indexes \ {i} : CallHas(s, next, j)
    <3>1. \A j \in Indexes : CallHas(r, st, j)
      BY Zenon DEF WriterHas
    <3>2. ASSUME NEW j \in Indexes, j # i PROVE CallHas(s, next, j)
      <4>1. CallHas(r, next, j)
        BY <3>1, <3>2, OtherHas, Zenon
      <4>2. (j \in DOMAIN s.calls) <=> (j \in DOMAIN r.calls)
        BY <2>1, <3>2, Zenon
      <4>3. j \in DOMAIN r.calls => s.calls[j].name = r.calls[j].name /\ s.calls[j].args = r.calls[j].args
        BY <2>1, <3>2, Zenon
      <4>4. QED
        BY <4>1, <4>2, <4>3, SameCallHas, Zenon
    <3>3. QED
      BY <3>2
  <2>3. s.text = next.text
    BY <1>1, <2>1 DEF WriterHas, CallHas
  <2>4. WriterHas(s, next)
    BY <1>1, <2>1, <2>2, <2>3 DEF WriterHas, CallHas
  <2>5. QED
    BY <1>4, <2>4, Zenon DEF Hears
<1>6. QED
  BY <1>4, <1>5, Zenon DEF Hears

\* What the Responses API's writer keeps goes with the stream.
LEMMA WriterSteps ==
  ASSUME NEW st \in StreamType, NEW next \in StreamType, NEW d, NEW i, Steps(st, next, d, i),
         NEW r, Good(r), ~r.sawDone, r.failure = "" => WriterHas(r, st),
         NEW s, s = HandleFrame(r, d)
  PROVE  Good(s) /\ SameState(r, s) /\ (s.failure = "" => WriterHas(s, next))
<1>1. d = Nothing \/ (d \in Frames /\ d.kind \in {"text", "call"})
  BY DEF Steps, TextStep, QuietStep, CallStep
<1>2. d = Nothing => d.kind = "nothing"
  BY NothingKind, Zenon
<1>3. CASE r.failure # ""
  <2>1. s = r
    BY <1>1, <1>2, <1>3 DEF HandleFrame
  <2>2. QED
    BY <1>3, <2>1 DEF SameState
<1>4. CASE r.failure = "" /\ d = Nothing
  <2>1. s = r
    BY <1>2, <1>4 DEF HandleFrame
  <2>2. CASE QuietStep(st, next, d)
    BY <1>4, <2>1, <2>2 DEF SameState, WriterHas, CallHas, QuietStep, Silent, Known
  <2>3. CASE CallStep(st, next, d, i)
    <3>1. i \in Indexes /\ next.text = st.text
      BY <2>3 DEF CallStep
    <3>2. \A j \in Indexes \ {i} : CallHas(r, next, j)
      <4>1. \A j \in Indexes : CallHas(r, st, j)
        BY <1>4, Zenon DEF WriterHas
      <4>2. ASSUME NEW j \in Indexes, j # i PROVE CallHas(r, next, j)
        BY <2>3, <4>1, <4>2, OtherHas, Zenon
      <4>3. QED
        BY <4>2
    <3>3. IF i \in DOMAIN r.calls
          THEN /\ i \in DOMAIN st.calls /\ r.calls[i].name = st.calls[i].name
               /\ r.calls[i].args = st.calls[i].args
          ELSE Silent(st, i)
      BY <1>4, <3>1 DEF WriterHas, CallHas
    <3>4. IF i \in DOMAIN r.calls
          THEN /\ i \in DOMAIN next.calls /\ r.calls[i].name = next.calls[i].name
               /\ r.calls[i].args = next.calls[i].args
          ELSE Silent(next, i)
      BY <1>4, <2>3, <3>1, <3>3, UnwrittenCall
    <3>5. QED
      BY <1>4, <2>1, <3>1, <3>2, <3>4 DEF SameState, WriterHas, CallHas
  <2>4. QED
    BY <1>2, <1>4, <2>2, <2>3 DEF Steps, TextStep
<1>5. CASE r.failure = "" /\ d # Nothing /\ d.kind = "text"
  <2>1. d \in Frames /\ d.kind # "call"
    BY <1>1, <1>5
  <2>2. TextStep(st, next, d)
    BY <1>5, <2>1 DEF Steps, QuietStep, CallStep
  <2>3. Hears(r, s, d)
    BY <1>5, <2>1, HandleFrameFits
  <2>4. QED
    BY <1>5, <2>2, <2>3 DEF Hears, TextStep, WriterHas, CallHas, Silent, Known
<1>6. CASE r.failure = "" /\ d # Nothing /\ d.kind = "call"
  <2>1. CallStep(st, next, d, i) /\ d \in Frames
    BY <1>1, <1>6 DEF Steps, TextStep, QuietStep
  <2>2. Listens(r) /\ WriterHas(r, st)
    BY <1>6, Zenon DEF Listens
  <2>3. QED
    BY <1>6, <2>1, <2>2, WriterCallSteps, Zenon
<1>7. QED
  BY <1>1, <1>3, <1>4, <1>5, <1>6

(* What is there and what is added say the value together. *)
SaysAll(old, value, whole) ==
  old \o Addition(old, value, whole) = IF whole THEN value ELSE old \o value

\* So it is unless they disagree.
LEMMA AdditionSays ==
  \A old, value \in Pieces : \A whole \in BOOLEAN :
    ~Disagrees(old, value, whole) => SaysAll(old, value, whole)
BY AdditionCompletes DEF SaysAll

\* What the pieces say, and that the stream holds the same.
MeantType == [text : Texts, args : [Indexes -> Pieces]]
Same(m, st) == st.text = m.text /\ \A i \in Indexes : m.args[i] = Known(st, i).args

\* What the next piece says is again texts.
LEMMA MeaningType ==
  ASSUME meant \in MeantType, NEW e \in Event, NEW i, e.kind = "call" => i \in Indexes
  PROVE  Meaning(e, i) \in MeantType
<1>1. CASE e.kind = "text"
  <2>1. e.key \in TextKeys /\ e.value \in Pieces
    BY <1>1, EventFields
  <2> DEFINE value == Said(meant.text[e.key], e, e.value)
             text == [meant.text EXCEPT ![e.key] = value]
  <2>2. meant.text \in Texts /\ meant.text[e.key] \in Pieces
    BY <2>1 DEF MeantType, Texts
  <2>3. value \in Pieces
    BY <2>1, <2>2, ConcatProperties DEF Said, Pieces
  <2>4. Meaning(e, i) = [meant EXCEPT !.text = text]
    BY <1>1, <2>1 DEF Meaning, MeantType, Texts
  <2> HIDE DEF value
  <2>5. text \in Texts
    BY <2>2, <2>3 DEF Texts
  <2> HIDE DEF text
  <2>6. QED
    BY <2>4, <2>5 DEF MeantType
<1>2. CASE e.kind = "call" /\ e.has
  <2>1. i \in Indexes /\ e.args \in Pieces
    BY <1>2, EventFields
  <2> DEFINE value == Said(meant.args[i], e, e.args)
             args == [meant.args EXCEPT ![i] = value]
  <2>2. meant.args \in [Indexes -> Pieces] /\ meant.args[i] \in Pieces
    BY <2>1 DEF MeantType
  <2>3. value \in Pieces
    BY <2>1, <2>2, ConcatProperties DEF Said, Pieces
  <2>4. Meaning(e, i) = [meant EXCEPT !.args = args]
    BY <1>2, <2>1 DEF Meaning, MeantType
  <2> HIDE DEF value
  <2>5. args \in [Indexes -> Pieces]
    BY <2>2, <2>3
  <2> HIDE DEF args
  <2>6. QED
    BY <2>4, <2>5 DEF MeantType
<1>3. CASE ~(e.kind = "text") /\ ~(e.kind = "call" /\ e.has)
  BY <1>3 DEF Meaning
<1>4. QED
  BY <1>1, <1>2, <1>3

\* Adding up deltas and whole messages gives what they say.
LEMMA MeantSteps ==
  ASSUME meant \in MeantType, up \in StreamType, NEW e \in Event, NEW i,
         i \in IF e.kind = "call" THEN Places(up, e) ELSE {"0"},
         ~Contradicts(up, e, i), Same(meant, up)
  PROVE  Same(Meaning(e, i), Observe(up, e, i))
<1> DEFINE next == Observe(up, e, i)
<1>1. CASE e.kind = "text"
  <2>1. e.key \in TextKeys /\ e.value \in Pieces /\ e.whole \in BOOLEAN
    BY <1>1, EventFields
  <2> DEFINE value == Said(meant.text[e.key], e, e.value)
             more == Addition(up.text[e.key], e.value, e.whole)
  <2>2. up.text = meant.text /\ up.text \in Texts /\ up.text[e.key] \in Pieces
    BY <2>1 DEF Same, StreamType, Texts
  <2>3. ~Disagrees(up.text[e.key], e.value, e.whole)
    BY <1>1 DEF Contradicts
  <2>4. up.text[e.key] \o more = value
    <3> DEFINE old == up.text[e.key]
    <3>1. old \in Pieces /\ ~Disagrees(old, e.value, e.whole) /\ old = meant.text[e.key]
      BY <2>2, <2>3
    <3> HIDE DEF old
    <3>2. SaysAll(old, e.value, e.whole)
      BY <2>1, <3>1, AdditionSays, Zenon
    <3>3. QED
      BY <3>1, <3>2, Zenon DEF SaysAll, Said, old
  <2>5. /\ Meaning(e, i).text = [meant.text EXCEPT ![e.key] = value]
        /\ Meaning(e, i).args = meant.args
    BY <1>1, <2>1 DEF Meaning, MeantType, Texts
  <2> HIDE DEF value, more
  <2>6. /\ next.text = [up.text EXCEPT ![e.key] = up.text[e.key] \o more]
        /\ next.calls = up.calls
    BY <1>1, ObserveText, ZenonT(60) DEF more
  <2> HIDE DEF next
  <2>7. QED
    BY <2>2, <2>4, <2>5, <2>6 DEF Same, Known, next
<1>2. CASE e.kind = "finish"
  <2>1. next.text = up.text /\ next.calls = up.calls
    BY <1>2, ObserveFinish DEF StreamType
  <2>2. Meaning(e, i) = meant
    BY <1>2 DEF Meaning
  <2>3. QED
    BY <2>1, <2>2 DEF Same, Known
<1>3. CASE e.kind = "call"
  <2>1. i \in Indexes /\ (i = Legacy <=> e.index = Legacy)
    BY <1>3, PlaceOfCall
  <2>2. /\ e.args \in Pieces /\ e.whole \in BOOLEAN /\ e.has \in BOOLEAN
        /\ ~e.has => e.args = <<>>
    BY <1>3, EventFields
  <2> DEFINE old == Known(up, i)
             value == Said(old.args, e, e.args)
             more == Addition(old.args, e.args, e.whole)
  <2>3. old \in StreamCall /\ old.args \in Pieces /\ old.args = meant.args[i]
    BY <2>1, KnownType DEF Same, StreamCall
  <2>4. /\ e.has => /\ Meaning(e, i).args = [meant.args EXCEPT ![i] = value]
                    /\ Meaning(e, i).text = meant.text
        /\ ~e.has => Meaning(e, i) = meant
    BY <1>3, <2>1, <2>3 DEF Meaning, MeantType
  <2>5. e.has => old.args \o more = value
    <3>1. e.has => ~Disagrees(old.args, e.args, e.whole)
      BY <1>3 DEF Contradicts
    <3> HIDE DEF old
    <3>2. e.has => old.args \o Addition(old.args, e.args, e.whole)
                     = IF e.whole THEN e.args ELSE old.args \o e.args
      <4> DEFINE had == old.args
      <4>1. had \in Pieces /\ (e.has => ~Disagrees(had, e.args, e.whole))
        BY <2>3, <3>1
      <4> HIDE DEF had
      <4>2. e.has => SaysAll(had, e.args, e.whole)
        BY <2>2, <4>1, AdditionSays, Zenon
      <4>3. QED
        BY <4>2, Zenon DEF SaysAll, had
    <3>3. QED
      BY <3>2, Zenon DEF Said
  <2>6. ~e.has => old.args \o more = old.args
    <3>1. ~e.has => more = <<>>
      BY <2>2, <2>3, NoAddition
    <3>2. old.args \o <<>> = old.args
      BY <2>3, ConcatEmptySeq DEF Pieces
    <3>3. QED
      BY <3>1, <3>2
  <2>7. Known(next, i).args = old.args \o more /\ \A j \in Indexes \ {i} : Known(next, j) = Known(up, j)
    <3>1. CASE ~IsPlaceholder(up, e)
      BY <1>3, <2>1, <3>1, ObserveCall, ZenonT(60) DEF Gains
    <3>2. CASE IsPlaceholder(up, e)
      <4>1. e.args = <<>> /\ next = up
        BY <1>3, <2>1, <3>2, ObserveCall DEF IsPlaceholder
      <4>2. more = <<>>
        BY <2>3, <4>1, NoAddition
      <4>3. old.args \o <<>> = old.args
        BY <2>3, ConcatEmptySeq DEF Pieces
      <4>4. QED
        BY <4>1, <4>2, <4>3
    <3>3. QED
      BY <3>1, <3>2
  <2>8. next.text = up.text
    BY <1>3, <2>1, ObserveCall
  <2> HIDE DEF value, more, next
  <2>9. \A j \in Indexes : Meaning(e, i).args[j] = Known(next, j).args
    BY <2>1, <2>3, <2>4, <2>5, <2>6, <2>7 DEF Same, MeantType
  <2>10. QED
    BY <2>2, <2>4, <2>8, <2>9 DEF Same, next
<1>4. QED
  BY <1>1, <1>2, <1>3, EventFields

-----------------------------------------------------------------------------
(* What an answer that ended well has.                                     *)

\* How it may end.
LEMMA EndType ==
  ASSUME NEW st
  PROVE  End(st) \in {"", "upstream_truncated", "invalid_tool_arguments", "missing_tool_call",
                      "empty_upstream"}
BY DEF End

\* Stream's own error is one of the errors there are.
LEMMA CodeType ==
  ASSUME failure \in Codes
  PROVE  /\ Code \in Codes
         /\ Code = "" <=> failure = "" /\ End(up) = ""
BY EndType DEF Code, Codes

\* What is asked of an answer names one of the errors, too.
LEMMA ViolationType ==
  ASSUME NEW req, NEW message
  PROVE  JSONViolation(req, message) \in Codes
BY DEF JSONViolation, ContractViolation, Codes

\* Unless it was cut, its calls are whole.
LEMMA EndIsWhole ==
  ASSUME NEW st, End(st) = "", st.finish \notin Cut
  PROVE  \A i \in DOMAIN st.calls : Whole(st.calls[i])
BY DEF End

\* Then the message has all of it.
LEMMA AggregateAll ==
  ASSUME NEW st
  PROVE  /\ Aggregate(st).text = st.text
         /\ Aggregate(st).finish = IF st.finish = "" THEN "stop" ELSE st.finish
         /\ DOMAIN Aggregate(st).calls \subseteq DOMAIN st.calls
         /\ \A i \in DOMAIN Aggregate(st).calls : Aggregate(st).calls[i] = st.calls[i]
         /\ st.finish \notin Cut => Aggregate(st).calls = [i \in DOMAIN st.calls |-> st.calls[i]]
<1>1. ASSUME st.finish \notin Cut
      PROVE  Aggregate(st).calls = [i \in DOMAIN st.calls |-> st.calls[i]]
  <2>1. {i \in DOMAIN st.calls : st.finish \in Cut => Whole(st.calls[i])} = DOMAIN st.calls
    BY <1>1
  <2>2. QED
    BY <2>1 DEF Aggregate
<1>2. QED
  BY <1>1 DEF Aggregate

\* The message of an answer that was cut says so.
LEMMA AggregateCut ==
  ASSUME NEW st, Aggregate(st).finish \notin Cut
  PROVE  st.finish \notin Cut
<1>1. SUFFICES ASSUME st.finish \in Cut PROVE FALSE
  OBVIOUS
<1>2. st.finish # ""
  BY <1>1 DEF Cut
<1>3. Aggregate(st).finish = st.finish
  BY <1>2, AggregateAll
<1>4. QED
  BY <1>1, <1>3

\* A client that has nothing of a whole call has nothing to miss.
LEMMA WholeIsNotSilent ==
  ASSUME NEW st, End(st) = "", st.finish \notin Cut, NEW i \in DOMAIN st.calls
  PROVE  ~Silent(st, i)
<1>1. st.calls[i].seen
  BY EndIsWhole DEF Whole
<1>2. Known(st, i) = st.calls[i]
  BY DEF Known
<1>3. QED
  BY <1>1, <1>2, NoCallFields DEF Silent

\* What the request allows.
Permits(req, calls, text) ==
  /\ \A i \in DOMAIN calls : calls[i].name # ""
  /\ req.parallel \/ Cardinality(DOMAIN calls) <= 1
  /\ req.mode = "none" => Cardinality(DOMAIN calls) = 0
  /\ req.mode = "required" => Cardinality(DOMAIN calls) > 0 \/ text["refusal"] # <<>>
  /\ req.exact => Cardinality(DOMAIN calls) = 1 \/ (Cardinality(DOMAIN calls) = 0 /\ text["refusal"] # <<>>)
  /\ \A i \in DOMAIN calls :
       calls[i].name \in req.allowed /\ <<calls[i].name, calls[i].args>> \notin req.unfit
  /\ req.json /\ Cardinality(DOMAIN calls) = 0 => Len(text["content"]) = 1 \/ text["refusal"] # <<>>

\* A number of calls is none or some, and one at most or more.
LEMMA FewOrMany == \A n \in Nat : (n = 0 <=> ~(n > 0)) /\ (n <= 1 <=> ~(n > 1))
OBVIOUS

\* Nothing is wrong with such calls only.
LEMMA NoViolation ==
  ASSUME NEW req, NEW calls, DOMAIN calls \subseteq Indexes, NEW text,
         ContractViolation(req, calls, text) = ""
  PROVE  Permits(req, calls, text)
<1> DEFINE n == Cardinality(DOMAIN calls)
           refusal == text["refusal"] # <<>>
<1>1. n \in Nat /\ (n = 0 => DOMAIN calls = {})
  <2>1. IsFiniteSet({"0", "1", Legacy})
    <3>1. IsFiniteSet({})
      BY FS_EmptySet
    <3>2. IsFiniteSet({} \cup {"0"})
      BY <3>1, FS_AddElement
    <3>3. IsFiniteSet(({} \cup {"0"}) \cup {"1"})
      BY <3>2, FS_AddElement
    <3>4. IsFiniteSet((({} \cup {"0"}) \cup {"1"}) \cup {Legacy})
      BY <3>3, FS_AddElement
    <3>5. (({} \cup {"0"}) \cup {"1"}) \cup {Legacy} = {"0", "1", Legacy}
      OBVIOUS
    <3>6. QED
      BY <3>4, <3>5
  <2>2. IsFiniteSet(DOMAIN calls)
    BY <2>1, FS_Subset DEF Indexes
  <2>3. QED
    BY <2>2, FS_CardinalityType, FS_EmptySet
<1>2. /\ ~(~req.parallel /\ n > 1)
      /\ ~(\E i \in DOMAIN calls : calls[i].name = "" \/ ~Whole(calls[i]))
      /\ ~PolicyViolated(req, calls, refusal)
      /\ ~(n = 0 /\ ~refusal /\ FormatViolated(req, text["content"]))
  BY DEF ContractViolation
<1> HIDE DEF n
<1>3. (n = 0 <=> ~(n > 0)) /\ (n <= 1 <=> ~(n > 1))
  BY <1>1, FewOrMany, Zenon
<1>4. /\ ~(req.mode = "none" /\ n > 0)
      /\ ~(req.mode = "required" /\ n = 0 /\ ~refusal)
      /\ ~(req.exact /\ n # 1 /\ ~(n = 0 /\ refusal))
  BY <1>2, <1>3, Zenon DEF PolicyViolated, n
<1>5. \A i \in DOMAIN calls :
        calls[i].name \in req.allowed /\ <<calls[i].name, calls[i].args>> \notin req.unfit
  <2>1. ASSUME NEW i \in DOMAIN calls PROVE n # 0
    BY <1>1, <2>1
  <2>2. QED
    BY <1>2, <2>1, Zenon DEF PolicyViolated, n
<1>6. /\ req.parallel \/ n <= 1
      /\ req.mode = "none" => n = 0
      /\ req.mode = "required" => n > 0 \/ refusal
      /\ req.exact => n = 1 \/ (n = 0 /\ refusal)
      /\ req.json /\ n = 0 => Len(text["content"]) = 1 \/ refusal
  BY <1>2, <1>3, <1>4, Zenon DEF FormatViolated
<1>7. QED
  BY <1>2, <1>5, <1>6 DEF Permits, n

\* What a stream keeps of its calls is a function on places.
LEMMA CallsShape ==
  \A calls \in Maps(Indexes, StreamCall) :
    calls = [i \in DOMAIN calls |-> calls[i]] /\ DOMAIN calls \subseteq Indexes
BY MapsDef

\* The same for a message that is complete.
LEMMA MessagePermitted ==
  ASSUME NEW req, NEW st \in StreamType, st.finish \notin Cut, JSONViolation(req, Aggregate(st)) = ""
  PROVE  Permits(req, st.calls, st.text)
<1> DEFINE message == Aggregate(st)
<1>1. /\ message.text = st.text /\ message.calls = st.calls /\ message.finish \notin Cut
      /\ DOMAIN st.calls \subseteq Indexes
  <2>1. st.calls \in Maps(Indexes, StreamCall)
    BY DEF StreamType
  <2>2. st.calls = [i \in DOMAIN st.calls |-> st.calls[i]] /\ DOMAIN st.calls \subseteq Indexes
    BY <2>1, CallsShape, Zenon
  <2>3. "stop" \notin Cut
    BY DEF Cut
  <2>4. QED
    BY <2>2, <2>3, AggregateAll
<1> HIDE DEF message
<1>2. JSONViolation(req, message) = ""
  BY DEF message
<1>3. ContractViolation(req, message.calls, message.text) = ""
  BY <1>1, <1>2 DEF JSONViolation
<1>4. QED
  BY <1>1, <1>3, NoViolation

-----------------------------------------------------------------------------
(* The inductive invariant.                                                *)

TypeOK ==
  /\ request \in Requests /\ phase \in {"reading", "replying", "closing", "closed"}
  /\ up \in StreamType /\ named \subseteq Indexes /\ failure \in Codes
  /\ held \in HeldType /\ chat \in ChatType
  /\ verdict \in {"running", "success", "failed"}
  /\ gone \in BOOLEAN /\ cancelled \in BOOLEAN /\ quiet \in BOOLEAN
  /\ events \in Nat /\ meant \in MeantType

\* Until Stream is back no writer has seen an end.
Early == phase \in {"reading", "replying"}
Fresh ==
  /\ Early => Open(chat) /\ Holding(held) /\ ~held.checked /\ rw.finish = "" /\ ~rw.sawDone
  /\ Early /\ ~request.stream => chat = NewChat
  /\ phase = "reading" => failure = ""
  /\ failure = "client_gone" => gone

\* The Responses API's writer and its client agree until the answer ends.
WriterFits ==
  /\ phase # "closed" => Good(rw) /\ (rw.lost => gone)
  /\ ~Streams("responses") => rw = NewWriter

\* The verdict is given when Stream is back; a contract writer that was not
\* asked has an error to tell.
Ending ==
  /\ phase \in {"closing", "closed"} => (failure = "" => End(up) = "")
  /\ ~chat.late
  /\ phase = "closing" /\ ~gone =>
       /\ Streams("responses") => (verdict = "success" <=> Failure(rw, request) = "")
       /\ Streams("contract") /\ ~held.checked =>
            verdict = "failed" /\ held.error # "" /\ Open(chat)
       /\ ~Streams("responses") /\ ~(Streams("contract") /\ ~held.checked) =>
            (verdict = "success" <=> chat.error = "") /\ chat.dones = 1

\* The stream's record holds what the pieces say, and the writers have it.
MeantAgrees == failure = "" => Same(meant, up)
NamesOut == request.stream => Names(up, named)
ChatAgrees ==
  request.stream /\ request.sink # "responses" /\ (~gone \/ chat.dones # 0) => ChatHas(chat, up)
HeldAgrees == Streams("contract") /\ ~gone /\ Early => HeldHas(held.st, up)
WriterAgrees ==
  Streams("responses") /\ phase # "closed" /\ rw.failure = "" =>
    /\ WriterHas(rw, up)
    /\ phase = "closing" /\ ~rw.lost => failure = "" /\ rw.finish = up.finish

\* Who was told that all is well was told so of a whole answer.
Told ==
  phase \in {"closing", "closed"} /\ ~Streams("responses") /\ chat.dones # 0 /\ chat.error = "" =>
    /\ failure = "" /\ End(up) = ""
    /\ ~request.stream =>
         /\ chat.text = up.text
         /\ chat.calls = [i \in DOMAIN Aggregate(up).calls |-> CallView(up.calls[i])]

Inv ==
  /\ TypeOK /\ Fresh /\ WriterFits /\ Ending
  /\ MeantAgrees /\ NamesOut /\ ChatAgrees /\ HeldAgrees /\ WriterAgrees /\ Told

\* A request names its writer.
LEMMA Sinks ==
  ASSUME request \in Requests
  PROVE  request.sink \in {"chat", "contract", "responses"} /\ request.stream \in BOOLEAN
BY RequestsAssumption

\* Nothing has been said yet.
LEMMA NewStreamType ==
  /\ NewStream \in StreamType /\ DOMAIN NewStream.calls = {} /\ NewStream.finish = ""
  /\ NewStream.text = [k \in TextKeys |-> <<>>] /\ ~NewStream.done
  /\ \A i \in Indexes : Known(NewStream, i) = NoCall
<1>1. [k \in TextKeys |-> <<>>] \in Texts
  BY NoPieces DEF Texts
<1>2. Empty \in Maps(Indexes, StreamCall) /\ DOMAIN Empty = {}
  BY EmptyMap
<1> HIDE DEF Empty
<1>3. 0 \in Nat /\ "" \in Words
  BY WordsAssumption
<1>4. QED
  BY <1>1, <1>2, <1>3 DEF NewStream, StreamType, Known

\* Nothing has been heard yet.
LEMMA NewWriterFits == Good(NewWriter) /\ ~NewWriter.lost /\ NewWriter.client.items = <<>>
<1>1. [k \in TextKeys |-> <<>>] \in Texts /\ \A k \in TextKeys : [j \in TextKeys |-> <<>>][k] = <<>>
  BY NoPieces DEF Texts
<1>2. Empty \in Maps(Indexes, WriterCall) /\ DOMAIN Empty = {}
  BY EmptyMap
<1>3. NewClient \in Client /\ NewClient.items = <<>>
  <2>1. <<>> \in Seq(Item)
    BY EmptySeq
  <2>2. QED
    BY <2>1 DEF NewClient, Client
<1>4. <<>> \in Seq(Indexes) /\ DOMAIN <<>> = {}
  BY EmptySeq
<1> HIDE DEF Empty
<1>5. NewWriter \in Writer
  <2>1. 0 \in Nat /\ "" \in Words /\ "" \in Codes
    BY WordsAssumption DEF Codes
  <2> HIDE DEF NewClient
  <2>2. QED
    BY <1>1, <1>2, <1>3, <1>4, <2>1 DEF NewWriter, Writer
<1>6. /\ ~NewWriter.rsOpen /\ NewWriter.rs = 0 /\ ~NewWriter.msgOpen /\ NewWriter.msg = 0
      /\ NewWriter.parts = {} /\ NewWriter.text = [k \in TextKeys |-> <<>>]
      /\ NewWriter.calls = Empty /\ NewWriter.order = <<>> /\ ~NewWriter.lost
      /\ NewWriter.client = NewClient
  BY DEF NewWriter
<1>7. ReasoningFits(NewWriter) /\ MessageFits(NewWriter)
  BY <1>1, <1>6 DEF ReasoningFits, MessageFits, TextKeys
<1>8. CallsFit(NewWriter) /\ Apart(NewWriter) /\ Ordered(NewWriter)
  BY <1>2, <1>4, <1>6 DEF CallsFit, Apart, Ordered
<1>9. Covered(NewWriter)
  BY <1>3, <1>4, <1>6 DEF Covered
<1>10. QED
  BY <1>3, <1>5, <1>6, <1>7, <1>8, <1>9 DEF Good, Fitting

\* The chat client has nothing yet, which is all there is.
LEMMA NewChatHas ==
  NewChat \in ChatType /\ Open(NewChat) /\ ChatHas(NewChat, NewStream)
<1>1. [k \in TextKeys |-> <<>>] \in Texts
  BY NoPieces DEF Texts
<1>2. Empty \in Maps(Indexes, ChatCall) /\ DOMAIN Empty = {}
  BY EmptyMap
<1> HIDE DEF Empty
<1>3. 0 \in Nat /\ "" \in Words /\ "" \in Codes
  BY WordsAssumption DEF Codes
<1>4. NewChat \in ChatType /\ Open(NewChat) /\ NewChat.text = NewStream.text /\ NewChat.calls = Empty
  BY <1>1, <1>2, <1>3, NewStreamType DEF NewChat, ChatType, Open
<1>5. QED
  BY <1>2, <1>4, NewStreamType DEF ChatHas, Silent

\* Before the first event.
LEMMA InitInv == Init => Inv
<1> SUFFICES ASSUME Init PROVE Inv
  OBVIOUS
<1>1. /\ request \in Requests /\ phase = "reading" /\ up = NewStream /\ named = {}
      /\ failure = "" /\ held = NewHeld /\ rw = NewWriter /\ chat = NewChat
      /\ verdict = "running" /\ gone = FALSE /\ cancelled = FALSE /\ quiet = FALSE /\ events = 0
      /\ meant = [text |-> NewStream.text, args |-> [i \in Indexes |-> <<>>]]
  BY DEF Init
<1>2. meant \in MeantType /\ Same(meant, up)
  <2>1. NewStream.text \in Texts
    BY NewStreamType DEF StreamType
  <2>2. meant.text = NewStream.text /\ meant.args = [i \in Indexes |-> <<>>]
    BY <1>1
  <2>3. meant \in MeantType
    BY <1>1, <2>1, NoPieces DEF MeantType
  <2>4. QED
    BY <1>1, <2>2, <2>3, NewStreamType, NoCallFields DEF Same
<1>3. /\ held \in HeldType /\ Holding(held) /\ ~held.checked /\ held.st = NewStream
  <2>1. "" \in Codes
    BY DEF Codes
  <2> HIDE DEF NewStream
  <2>2. QED
    BY <1>1, <2>1, NewStreamType DEF NewHeld, HeldType, Holding
<1>4. TypeOK
  <2>1. 0 \in Nat /\ "" \in Codes /\ "running" \in {"running", "success", "failed"}
    BY DEF Codes
  <2>2. QED
    BY <1>1, <1>2, <1>3, <2>1, NewStreamType, NewChatHas DEF TypeOK
<1>5. Fresh
  <2>1. NewWriter.finish = "" /\ ~NewWriter.sawDone
    BY DEF NewWriter
  <2>2. QED
    BY <1>1, <1>3, <2>1, NewChatHas DEF Fresh
<1>6. WriterFits
  BY <1>1, NewWriterFits DEF WriterFits
<1>7. Ending /\ Told
  BY <1>1, NewChatHas DEF Ending, Told, Open
<1>8. NamesOut
  BY <1>1, NewStreamType, NoCallFields DEF NamesOut, Names
<1>9. ChatAgrees
  BY <1>1, NewChatHas DEF ChatAgrees
<1>10. HeldAgrees
  BY <1>1, <1>3, NewStreamType DEF HeldAgrees, HeldHas, Silent
<1>11. WriterAgrees
  <2>1. NewWriter.text = [k \in TextKeys |-> <<>>] /\ NewWriter.calls = Empty
    BY DEF NewWriter
  <2>2. DOMAIN Empty = {}
    BY EmptyMap
  <2> HIDE DEF Empty
  <2>3. WriterHas(NewWriter, NewStream)
    BY <2>1, <2>2, NewStreamType DEF WriterHas, CallHas, Silent
  <2>4. QED
    BY <1>1, <2>3 DEF WriterAgrees
<1>12. QED
  BY <1>2, <1>4, <1>5, <1>6, <1>7, <1>8, <1>9, <1>10, <1>11 DEF Inv, MeantAgrees

\* What neither the text nor the calls concerns leaves the writers with all.
LEMMA StreamStays ==
  ASSUME NEW st, NEW next, next.text = st.text, next.calls = st.calls
  PROVE  /\ \A c : ChatHas(c, st) => ChatHas(c, next)
         /\ \A h : HeldHas(h, st) => HeldHas(h, next)
         /\ \A r : WriterHas(r, st) => WriterHas(r, next)
         /\ \A n : Names(st, n) => Names(next, n)
         /\ \A m : Same(m, st) => Same(m, next)
<1>1. \A i : Known(next, i) = Known(st, i) /\ (Silent(st, i) <=> Silent(next, i))
  BY DEF Known, Silent
<1>2. \A c : ChatHas(c, st) => ChatHas(c, next)
  BY <1>1 DEF ChatHas
<1>3. \A h : HeldHas(h, st) => HeldHas(h, next)
  BY <1>1 DEF HeldHas
<1>4. \A r : WriterHas(r, st) => WriterHas(r, next)
  BY <1>1 DEF WriterHas, CallHas
<1>5. (\A n : Names(st, n) => Names(next, n)) /\ (\A m : Same(m, st) => Same(m, next))
  BY <1>1 DEF Names, Same
<1>6. QED
  BY <1>2, <1>3, <1>4, <1>5

\* The end of the body, and an error in it.
LEMMA EndOfBodyInv ==
  ASSUME Inv, NEW how \in Ended, EndOfBody(how)
  PROVE  Inv'
<1>1. /\ phase = "reading" /\ phase' = "replying"
      /\ up' = [up EXCEPT !.done = (how = "done")]
      /\ failure' = IF how \in {"done", "eof"} THEN "" ELSE how
      /\ UNCHANGED <<request, named, held, rw, chat, verdict, gone, cancelled, quiet, events, meant>>
  BY DEF EndOfBody, Stop
<1>2. TypeOK /\ Fresh /\ WriterFits /\ Ending
  BY DEF Inv
<1>3. /\ up' \in StreamType /\ up'.text = up.text /\ up'.calls = up.calls
  <2>1. (how = "done") \in BOOLEAN
    OBVIOUS
  <2>2. QED
    BY <1>1, <1>2, <2>1 DEF TypeOK, StreamType
<1>4. failure' \in Codes /\ failure' # "client_gone" /\ failure = ""
  BY <1>1, <1>2 DEF Ended, Codes, Fresh
<1>5. TypeOK'
  BY <1>1, <1>2, <1>3, <1>4 DEF TypeOK
<1>6. Fresh'
  BY <1>1, <1>2, <1>4 DEF Fresh, Early
<1>7. WriterFits'
  BY <1>1, <1>2 DEF WriterFits, Streams
<1>8. Ending' /\ Told'
  BY <1>1, <1>2 DEF Ending, Told
<1>9. /\ \A c : ChatHas(c, up) => ChatHas(c, up')
      /\ \A h : HeldHas(h, up) => HeldHas(h, up')
      /\ \A r : WriterHas(r, up) => WriterHas(r, up')
      /\ \A n : Names(up, n) => Names(up', n)
      /\ \A m : Same(m, up) => Same(m, up')
  BY <1>3, StreamStays
<1>10. MeantAgrees' /\ NamesOut'
  BY <1>1, <1>4, <1>9 DEF Inv, MeantAgrees, NamesOut
<1>11. ChatAgrees'
  BY <1>1, <1>9 DEF Inv, ChatAgrees
<1>12. HeldAgrees'
  BY <1>1, <1>9 DEF Inv, HeldAgrees, Streams, Early
<1>13. WriterAgrees'
  BY <1>1, <1>9 DEF Inv, WriterAgrees, Streams
<1>14. QED
  BY <1>5, <1>6, <1>7, <1>8, <1>10, <1>11, <1>12, <1>13 DEF Inv

\* The call is cut off.
LEMMA CutOffInv ==
  ASSUME Inv, CutOff
  PROVE  Inv'
<1>1. /\ phase = "reading" /\ phase' = "replying" /\ failure' = "upstream_read_error"
      /\ UNCHANGED <<request, up, named, held, rw, chat, verdict, gone, cancelled, quiet, events, meant>>
  BY DEF CutOff, Stop
<1>2. TypeOK /\ Fresh /\ WriterFits /\ Ending
  BY DEF Inv
<1>3. TypeOK'
  BY <1>1, <1>2 DEF TypeOK, Codes
<1>4. Fresh'
  BY <1>1, <1>2 DEF Fresh, Early
<1>5. WriterFits'
  BY <1>1, <1>2 DEF WriterFits, Streams
<1>6. Ending' /\ Told'
  BY <1>1, <1>2 DEF Ending, Told
<1>7. MeantAgrees' /\ NamesOut' /\ ChatAgrees'
  BY <1>1 DEF Inv, MeantAgrees, NamesOut, ChatAgrees
<1>8. HeldAgrees'
  BY <1>1 DEF Inv, HeldAgrees, Streams, Early
<1>9. WriterAgrees'
  BY <1>1 DEF Inv, WriterAgrees, Streams
<1>10. QED
  BY <1>3, <1>4, <1>5, <1>6, <1>7, <1>8, <1>9 DEF Inv

\* A comment cannot be written: the client is gone.
Unwritten == Comment /\ gone /\ failure' = "client_gone" /\ phase' = "replying"

\* That ends the reading, with an error nobody is there to see.
LEMMA UnwrittenInv ==
  ASSUME Inv, Unwritten
  PROVE  Inv'
<1>1. /\ phase = "reading" /\ phase' = "replying" /\ failure' = "client_gone" /\ gone /\ quiet' = FALSE
      /\ UNCHANGED <<request, up, named, held, rw, chat, verdict, gone, cancelled, events, meant>>
  BY DEF Unwritten, Comment, Stop
<1>2. TypeOK /\ Fresh /\ WriterFits /\ Ending
  BY DEF Inv
<1>3. TypeOK'
  BY <1>1, <1>2 DEF TypeOK, Codes
<1>4. Fresh'
  BY <1>1, <1>2 DEF Fresh, Early
<1>5. WriterFits'
  BY <1>1, <1>2 DEF WriterFits, Streams
<1>6. Ending' /\ Told'
  BY <1>1, <1>2 DEF Ending, Told
<1>7. MeantAgrees' /\ NamesOut' /\ ChatAgrees'
  BY <1>1 DEF Inv, MeantAgrees, NamesOut, ChatAgrees
<1>8. HeldAgrees'
  BY <1>1 DEF Inv, HeldAgrees, Streams, Early
<1>9. WriterAgrees'
  BY <1>1 DEF Inv, WriterAgrees, Streams
<1>10. QED
  BY <1>3, <1>4, <1>5, <1>6, <1>7, <1>8, <1>9 DEF Inv

\* The monitor looks, the client stalls or disconnects, a line without data
\* is read, or nothing happens.
Looks ==
  /\ Watch \/ Stall \/ Disconnect \/ Comment \/ UNCHANGED vars
  /\ failure' = failure /\ phase' = phase

\* What neither reads nor writes any of the answer leaves the invariant.
LEMMA LookInv ==
  ASSUME Inv, Looks
  PROVE  Inv'
<1>1. UNCHANGED <<request, phase, up, named, failure, held, rw, chat, verdict, events, meant>>
  BY DEF Looks, Watch, Stall, Disconnect, Comment, Stop, vars
<1>2. (gone => gone') /\ gone' \in BOOLEAN /\ cancelled' \in BOOLEAN /\ quiet' \in BOOLEAN
  BY DEF Looks, Watch, Stall, Disconnect, Comment, Stop, vars, Inv, TypeOK
<1>3. TypeOK /\ Fresh /\ WriterFits /\ Ending /\ Told
  BY DEF Inv
<1>4. TypeOK'
  BY <1>1, <1>2, <1>3 DEF TypeOK
<1>5. Fresh'
  BY <1>1, <1>2, <1>3 DEF Fresh, Early
<1>6. WriterFits'
  BY <1>1, <1>2, <1>3 DEF WriterFits, Streams
<1>7. Ending'
  BY <1>1, <1>2, <1>3 DEF Ending, Streams
<1>8. Told'
  BY <1>1, <1>3 DEF Told, Streams
<1>9. MeantAgrees' /\ NamesOut' /\ ChatAgrees'
  BY <1>1, <1>2 DEF Inv, MeantAgrees, NamesOut, ChatAgrees
<1>10. HeldAgrees'
  BY <1>1, <1>2 DEF Inv, HeldAgrees, Streams, Early
<1>11. WriterAgrees'
  BY <1>1 DEF Inv, WriterAgrees, Streams
<1>12. QED
  BY <1>4, <1>5, <1>6, <1>7, <1>8, <1>9, <1>10, <1>11 DEF Inv

\* What the client and the writers have after a frame was written.
ChatGoes(c, st) == c \in ChatType /\ Open(c) /\ (~gone /\ request.sink # "responses" => ChatHas(c, st))
HeldGoes(h, st) ==
  /\ h \in HeldType /\ Holding(h) /\ ~h.checked
  /\ ~gone /\ Streams("contract") => HeldHas(h.st, st)
WriterGoes(r, st) ==
  /\ Good(r) /\ (r.lost => gone) /\ r.finish = "" /\ ~r.sawDone
  /\ ~Streams("responses") => r = NewWriter
  /\ Streams("responses") /\ r.failure = "" => WriterHas(r, st)

\* Each takes the frame in.
LEMMA WriteGoes ==
  ASSUME request \in Requests, request.stream, gone \in BOOLEAN,
         NEW st \in StreamType, NEW next \in StreamType, NEW d, NEW i, Steps(st, next, d, i),
         ChatGoes(chat, st), HeldGoes(held, st), WriterGoes(rw, st), Write(d)
  PROVE  ChatGoes(chat', next) /\ HeldGoes(held', next) /\ WriterGoes(rw', next)
<1>1. d = Nothing \/ Passes(d)
  BY DEF Steps, TextStep, QuietStep, CallStep, Passes
<1>2. ChatGoes(chat', next)
  <2>1. CASE ~gone /\ (Streams("chat") \/ (Streams("contract") /\ Passes(d)))
    <3>1. chat' = Receive(chat, d) /\ request.sink # "responses"
      BY <2>1 DEF Write, Streams
    <3>2. ChatHas(chat, st) /\ chat \in ChatType /\ Open(chat)
      BY <2>1, <3>1 DEF ChatGoes
    <3>3. Receive(chat, d) \in ChatType /\ Open(Receive(chat, d)) /\ ChatHas(Receive(chat, d), next)
      BY <3>2, ChatSteps
    <3>4. QED
      BY <3>1, <3>3 DEF ChatGoes
  <2>2. CASE ~gone /\ Streams("contract") /\ ~Passes(d)
    <3>1. chat' = chat /\ d = Nothing
      BY <1>1, <2>2 DEF Write, Streams
    <3>2. ChatHas(chat, st) /\ chat \in ChatType /\ Open(chat)
      BY <2>2 DEF ChatGoes, Streams
    <3>3. Receive(chat, d) = chat
      BY <3>1, <3>2, ReceiveNothing
    <3>4. ChatHas(Receive(chat, d), next)
      BY <3>2, ChatSteps
    <3>5. QED
      BY <3>1, <3>2, <3>3, <3>4 DEF ChatGoes
  <2>3. CASE gone \/ Streams("responses")
    <3>1. chat' = chat
      BY <2>3 DEF Write, Streams
    <3>2. QED
      BY <2>3, <3>1 DEF ChatGoes, Streams
  <2>4. QED
    BY <2>1, <2>2, <2>3, Sinks DEF Streams
<1>3. HeldGoes(held', next)
  <2>1. CASE ~gone /\ Streams("contract")
    <3>1. held' = Retain(held, d)
      BY <2>1 DEF Write
    <3>2. held \in HeldType /\ Holding(held) /\ ~held.checked /\ HeldHas(held.st, st)
      BY <2>1 DEF HeldGoes
    <3>3. /\ held' \in HeldType /\ Holding(held') /\ held'.checked = held.checked
          /\ HeldHas(held'.st, next)
      BY <3>1, <3>2, RetainSteps
    <3>4. QED
      BY <3>2, <3>3 DEF HeldGoes
  <2>2. CASE ~(~gone /\ Streams("contract"))
    <3>1. held' = held
      BY <2>2 DEF Write
    <3>2. QED
      BY <2>2, <3>1 DEF HeldGoes
  <2>3. QED
    BY <2>1, <2>2
<1>4. WriterGoes(rw', next)
  <2>1. CASE Streams("responses")
    <3> DEFINE r == [rw EXCEPT !.lost = gone]
    <3>1. rw' = HandleFrame(r, d)
      BY <2>1 DEF Write
    <3>2. /\ Good(r) /\ r.lost = gone /\ r.text = rw.text /\ r.calls = rw.calls
          /\ r.failure = rw.failure /\ r.finish = rw.finish /\ r.sawDone = rw.sawDone
      <4>1. Good(rw) /\ (rw.lost => gone)
        BY Zenon DEF WriterGoes
      <4>2. QED
        BY <4>1, LoseFits, ZenonT(60)
    <3> HIDE DEF r
    <3>3. r.failure = "" => WriterHas(r, st)
      BY <2>1, <3>2 DEF WriterGoes, WriterHas, CallHas
    <3>4. ~r.sawDone /\ r.finish = ""
      BY <3>2 DEF WriterGoes
    <3>5. Good(rw') /\ SameState(r, rw') /\ (rw'.failure = "" => WriterHas(rw', next))
      BY <3>1, <3>2, <3>3, <3>4, WriterSteps
    <3>6. QED
      BY <2>1, <3>2, <3>4, <3>5 DEF WriterGoes, SameState
  <2>2. CASE ~Streams("responses")
    <3>1. rw' = rw
      BY <2>2 DEF Write
    <3>2. QED
      BY <2>2, <3>1 DEF WriterGoes
  <2>3. QED
    BY <2>1, <2>2
<1>5. QED
  BY <1>2, <1>3, <1>4

\* A frame that contradicts what was said ends the stream and is not written.
LEMMA RefusedInv ==
  ASSUME Inv, NEW e \in Event, NEW i, Data(e, i), Contradicts(up, e, i)
  PROVE  Inv'
<1>1. /\ phase = "reading" /\ phase' = "replying" /\ failure' = "upstream_parse"
      /\ events' = events + 1 /\ quiet' = FALSE /\ meant' = Meaning(e, i)
      /\ i \in IF e.kind = "call" THEN Places(up, e) ELSE {"0"}
      /\ UNCHANGED <<request, up, named, held, rw, chat, verdict, gone, cancelled>>
  BY DEF Data, Stop
<1>2. TypeOK /\ Fresh /\ WriterFits /\ Ending
  BY DEF Inv
<1>3. meant' \in MeantType
  <2>1. e.kind = "call" => i \in Indexes
    BY <1>1, <1>2, PlaceOfCall DEF TypeOK
  <2>2. QED
    BY <1>1, <1>2, <2>1, MeaningType DEF TypeOK
<1>4. TypeOK'
  <2>1. events' \in Nat
    <3>1. events' = events + 1 /\ events \in Nat
      BY <1>1, <1>2 DEF TypeOK
    <3>2. QED
      BY <3>1
  <2>2. failure' \in Codes
    BY <1>1 DEF Codes
  <2>3. QED
    BY <1>1, <1>2, <1>3, <2>1, <2>2 DEF TypeOK
<1>5. Fresh'
  BY <1>1, <1>2 DEF Fresh, Early
<1>6. WriterFits'
  BY <1>1, <1>2 DEF WriterFits, Streams
<1>7. Ending' /\ Told'
  BY <1>1, <1>2 DEF Ending, Told
<1>8. MeantAgrees' /\ NamesOut' /\ ChatAgrees'
  BY <1>1 DEF Inv, MeantAgrees, NamesOut, ChatAgrees
<1>9. HeldAgrees'
  BY <1>1 DEF Inv, HeldAgrees, Streams, Early
<1>10. WriterAgrees'
  BY <1>1 DEF Inv, WriterAgrees, Streams
<1>11. QED
  BY <1>4, <1>5, <1>6, <1>7, <1>8, <1>9, <1>10 DEF Inv

\* While the body is read, the writers have what the stream has.
LEMMA ReadingGoes ==
  ASSUME Inv, phase = "reading", request.stream
  PROVE  ChatGoes(chat, up) /\ HeldGoes(held, up) /\ WriterGoes(rw, up)
<1>1. TypeOK /\ Fresh /\ WriterFits
  BY DEF Inv
<1>2. ChatGoes(chat, up)
  BY <1>1 DEF Inv, TypeOK, Fresh, Early, ChatAgrees, ChatGoes
<1>3. HeldGoes(held, up)
  BY <1>1 DEF Inv, TypeOK, Fresh, Early, HeldAgrees, HeldGoes
<1>4. WriterGoes(rw, up)
  BY <1>1 DEF Inv, TypeOK, Fresh, Early, WriterFits, WriterAgrees, WriterGoes
<1>5. QED
  BY <1>2, <1>3, <1>4

\* A frame that fits is taken in.
LEMMA TakenInv ==
  ASSUME Inv, NEW e \in Event, NEW i, Data(e, i), ~Contradicts(up, e, i)
  PROVE  Inv'
<1> DEFINE next == Observe(up, e, i)
           delta == Increment(up, e, i)
           placeholder == e.kind = "call" /\ IsPlaceholder(up, e)
           code == IF gone /\ request.stream THEN "client_gone"
                   ELSE IF IsLooping(next) THEN "upstream_reasoning_loop" ELSE ""
<1>1. /\ phase = "reading" /\ events' = events + 1 /\ quiet' = FALSE /\ meant' = Meaning(e, i)
      /\ i \in IF e.kind = "call" THEN Places(up, e) ELSE {"0"}
      /\ up' = next /\ failure' = code
      /\ named' = (IF request.stream THEN Named(delta, named) ELSE named)
      /\ request.stream /\ ~placeholder => Write(Frame(delta, named))
      /\ ~(request.stream /\ ~placeholder) => UNCHANGED <<held, rw, chat>>
      /\ phase' = (IF code = "" THEN phase ELSE "replying")
      /\ UNCHANGED <<request, verdict, gone, cancelled>>
  BY DEF Data
<1>2. TypeOK /\ Fresh /\ WriterFits /\ Ending
  BY DEF Inv
<1>3. code \in {"", "client_gone", "upstream_reasoning_loop"} /\ (code = "client_gone" => gone)
  OBVIOUS
<1> HIDE DEF code
<1>4. phase' \in {"reading", "replying"} /\ failure' \in Codes /\ (phase' = "reading" => failure' = "")
  BY <1>1, <1>3 DEF Codes
<1>5. e.kind = "call" => i \in Indexes
  BY <1>1, <1>2, PlaceOfCall DEF TypeOK
<1>6. meant' \in MeantType /\ Same(meant', up')
  <2>1. meant \in MeantType /\ up \in StreamType /\ Same(meant, up)
    BY <1>1, <1>2 DEF TypeOK, Fresh, Inv, MeantAgrees
  <2>2. meant' \in MeantType
    BY <1>1, <1>5, <2>1, MeaningType
  <2>3. Same(Meaning(e, i), next)
    BY <1>1, <2>1, MeantSteps
  <2>4. QED
    BY <1>1, <2>2, <2>3
<1>7. up' \in StreamType
  <2>1. next \in StreamType
    BY <1>1, <1>2, <1>5, ObserveText, ObserveFinish, ObserveCall, EventFields DEF TypeOK
  <2>2. QED
    BY <1>1, <2>1
<1>8. CASE request.stream
  <2>1. Names(up, named)
    BY <1>8 DEF Inv, NamesOut
  <2>2. /\ Steps(up, next, Written(up, e, i, named), i)
        /\ Names(next, Named(delta, named))
    BY <1>1, <1>2, <2>1, DataSteps DEF TypeOK
  <2>3. ChatGoes(chat, up) /\ HeldGoes(held, up) /\ WriterGoes(rw, up)
    BY <1>1, <1>8, ReadingGoes
  <2>4. ChatGoes(chat', up') /\ HeldGoes(held', up') /\ WriterGoes(rw', up')
    <3>1. CASE placeholder
      <4>1. next = up
        BY <1>2, <1>5, <3>1, ObserveCall DEF TypeOK
      <4>2. QED
        BY <1>1, <2>3, <3>1, <4>1
    <3>2. CASE ~placeholder
      <4>1. Written(up, e, i, named) = Frame(delta, named)
        BY <3>2 DEF Written
      <4>2. Write(Frame(delta, named))
        BY <1>1, <1>8, <3>2
      <4>3. request \in Requests /\ gone \in BOOLEAN /\ up \in StreamType /\ next \in StreamType
        BY <1>1, <1>2, <1>7 DEF TypeOK
      <4> HIDE DEF next, delta, placeholder
      <4>4. ChatGoes(chat', next) /\ HeldGoes(held', next) /\ WriterGoes(rw', next)
        BY <1>8, <2>2, <2>3, <4>1, <4>2, <4>3, WriteGoes
      <4>5. QED
        BY <1>1, <4>4
    <3>3. QED
      BY <3>1, <3>2
  <2>5. named' = Named(delta, named) /\ named' \subseteq Indexes
    <3>1. e.kind = "call" => delta.index = i
      BY DEF Increment
    <3>2. e.kind # "call" => delta.kind # "call"
      BY DEF Increment, Nothing
    <3>3. named \subseteq Indexes
      BY <1>2 DEF TypeOK
    <3>4. named' = Named(delta, named)
      BY <1>1, <1>8
    <3> HIDE DEF delta
    <3>5. QED
      BY <1>5, <3>1, <3>2, <3>3, <3>4 DEF Named
  <2> HIDE DEF next, delta, placeholder
  <2>6. TypeOK'
    <3>1. events' \in Nat
      <4>1. events' = events + 1
        BY <1>1
      <4>2. events \in Nat
        BY <1>2 DEF TypeOK
      <4>3. QED
        BY <4>1, <4>2
    <3>2. QED
      BY <1>1, <1>2, <1>4, <1>6, <1>7, <2>4, <2>5, <3>1 DEF TypeOK, ChatGoes, HeldGoes
  <2>7. Fresh'
    BY <1>1, <1>3, <1>4, <1>8, <2>4 DEF Fresh, ChatGoes, HeldGoes, WriterGoes
  <2>8. WriterFits'
    BY <1>1, <2>4 DEF WriterFits, WriterGoes, Streams
  <2>9. Ending' /\ Told'
    BY <1>4, <2>4 DEF Ending, Told, ChatGoes, Open
  <2>10. MeantAgrees' /\ NamesOut'
    BY <1>1, <1>6, <2>2, <2>5 DEF MeantAgrees, NamesOut
  <2>11. ChatAgrees'
    BY <1>1, <2>4 DEF ChatAgrees, ChatGoes, Open
  <2>12. HeldAgrees' /\ WriterAgrees'
    BY <1>1, <1>4, <2>4 DEF HeldAgrees, WriterAgrees, HeldGoes, WriterGoes, Streams
  <2>13. QED
    BY <2>6, <2>7, <2>8, <2>9, <2>10, <2>11, <2>12 DEF Inv
<1>9. CASE ~request.stream
  <2>1. UNCHANGED <<held, rw, chat>> /\ named' = named /\ ~request'.stream
    BY <1>1, <1>9
  <2> HIDE DEF next, delta, placeholder
  <2>2. TypeOK'
    <3>1. events' \in Nat
      <4>1. events' = events + 1
        BY <1>1
      <4>2. events \in Nat
        BY <1>2 DEF TypeOK
      <4>3. QED
        BY <4>1, <4>2
    <3>2. QED
      BY <1>1, <1>2, <1>4, <1>6, <1>7, <2>1, <3>1 DEF TypeOK
  <2>3. Fresh'
    BY <1>1, <1>2, <1>3, <1>4, <2>1 DEF Fresh, Early
  <2>4. WriterFits'
    BY <1>1, <1>2, <2>1 DEF WriterFits, Streams
  <2>5. Ending' /\ Told'
    BY <1>2, <1>4, <2>1 DEF Ending, Told
  <2>6. MeantAgrees' /\ NamesOut' /\ ChatAgrees' /\ HeldAgrees' /\ WriterAgrees'
    BY <1>6, <2>1 DEF MeantAgrees, NamesOut, ChatAgrees, HeldAgrees, WriterAgrees, Streams
  <2>7. QED
    BY <2>2, <2>3, <2>4, <2>5, <2>6 DEF Inv
<1>10. QED
  BY <1>8, <1>9

\* What all the answers of a stream have in common when Stream is back.
LEMMA Returned ==
  ASSUME Inv, NEW sink, Return(sink)
  PROVE  /\ phase = "replying" /\ phase' = "closing" /\ failure' = Code
         /\ UNCHANGED <<request, up, named, gone, cancelled, quiet, events, meant>>
         /\ request.stream /\ request.sink = sink /\ request \in Requests
         /\ Code \in Codes /\ (Code = "" <=> failure = "" /\ End(up) = "")
         /\ Fresh'
         /\ up \in StreamType /\ up.finish \in Words
         /\ (Lost <=> gone) /\ gone \in BOOLEAN
         /\ chat \in ChatType /\ Open(chat) /\ held \in HeldType /\ Holding(held) /\ ~held.checked
         /\ Good(rw) /\ ~rw.sawDone /\ rw.finish = "" /\ (rw.lost => gone)
         /\ MeantAgrees' /\ NamesOut'
<1>1. TypeOK /\ Fresh /\ WriterFits /\ MeantAgrees /\ NamesOut
  BY DEF Inv
<1>2. /\ phase = "replying" /\ phase' = "closing" /\ failure' = Code
      /\ UNCHANGED <<request, up, named, gone, cancelled, quiet, events, meant>>
      /\ request.stream /\ request.sink = sink
  BY DEF Return, Streams
<1>3. Code \in Codes /\ (Code = "" <=> failure = "" /\ End(up) = "")
  BY <1>1, CodeType DEF TypeOK
<1>4. MeantAgrees' /\ NamesOut'
  BY <1>1, <1>2, <1>3 DEF MeantAgrees, NamesOut
<1>5. /\ request \in Requests /\ up \in StreamType /\ up.finish \in Words /\ gone \in BOOLEAN
      /\ chat \in ChatType /\ held \in HeldType
  BY <1>1 DEF TypeOK, StreamType
<1>6. /\ Open(chat) /\ Holding(held) /\ ~held.checked /\ ~rw.sawDone /\ rw.finish = ""
      /\ (failure = "client_gone" => gone)
  BY <1>1, <1>2 DEF Fresh, Early
<1>7. (Lost <=> gone) /\ Fresh'
  <2>1. Code = "client_gone" => failure = "client_gone"
    BY EndType DEF Code
  <2>2. QED
    BY <1>2, <1>6, <2>1 DEF Lost, Fresh, Early
<1>8. Good(rw) /\ (rw.lost => gone)
  BY <1>1, <1>2 DEF WriterFits
<1>9. QED
  BY <1>2, <1>3, <1>4, <1>5, <1>6, <1>7, <1>8

\* Any verdict is one.
LEMMA VerdictType ==
  ASSUME NEW b
  PROVE  (IF b THEN "success" ELSE "failed") \in {"running", "success", "failed"}
OBVIOUS

\* Stream's return keeps the types of what it does not set.
LEMMA ReturnType ==
  ASSUME Inv, UNCHANGED <<request, up, named, gone, cancelled, quiet, events, meant>>,
         phase' \in {"closing", "closed"}, failure' \in Codes, held' \in HeldType, chat' \in ChatType,
         verdict' \in {"running", "success", "failed"}
  PROVE  TypeOK'
<1>1. /\ request \in Requests /\ up \in StreamType /\ named \subseteq Indexes
      /\ gone \in BOOLEAN /\ cancelled \in BOOLEAN /\ quiet \in BOOLEAN
      /\ events \in Nat /\ meant \in MeantType
  BY DEF Inv, TypeOK
<1>2. /\ request' \in Requests /\ up' \in StreamType /\ named' \subseteq Indexes
      /\ gone' \in BOOLEAN /\ cancelled' \in BOOLEAN /\ quiet' \in BOOLEAN
      /\ events' \in Nat /\ meant' \in MeantType
  BY <1>1
<1>3. phase' \in {"reading", "replying", "closing", "closed"}
  OBVIOUS
<1>4. QED
  BY <1>2, <1>3 DEF TypeOK

\* The last frame is an error, a finish reason, or none.
LEMMA LastFrameType ==
  ASSUME Code \in Codes, up.finish \in Words
  PROVE  /\ LastFrame \in Tails
         /\ LastFrame.kind = "error" <=> Code # ""
         /\ Code # "" => LastFrame.code = Code
         /\ LastFrame.kind = "finish" => LastFrame.reason = up.finish
BY DEF LastFrame, Tails, Err, Fin, Nothing

\* Stream is back, for a client of the chat API.
LEMMA ReplyChatInv ==
  ASSUME Inv, ReplyChat
  PROVE  Inv'
<1>1. /\ phase = "replying" /\ phase' = "closing" /\ failure' = Code
      /\ UNCHANGED <<request, up, named, gone, cancelled, quiet, events, meant>>
      /\ request.stream /\ request.sink = "chat"
      /\ Code \in Codes /\ (Code = "" <=> failure = "" /\ End(up) = "")
      /\ up.finish \in Words /\ (Lost <=> gone)
      /\ chat \in ChatType /\ Open(chat) /\ Fresh' /\ MeantAgrees' /\ NamesOut'
  BY Returned DEF ReplyChat
<1>2. /\ chat' = (IF Lost THEN chat ELSE ReceiveEnd(chat, LastFrame))
      /\ verdict' = (IF Code = "" /\ ~Lost THEN "success" ELSE "failed")
      /\ UNCHANGED <<held, rw>>
  BY DEF ReplyChat
<1>3. ~gone => TellsEnd(chat, chat', LastFrame)
  BY <1>1, <1>2, LastFrameType, ReceiveEnds
<1>4. gone => chat' = chat
  BY <1>1, <1>2
<1>5. /\ chat' \in ChatType /\ ~chat'.late /\ chat'.text = chat.text /\ chat'.calls = chat.calls
      /\ gone => chat'.dones = 0
      /\ ~gone => chat'.dones = 1 /\ (chat'.error = "" <=> Code = "")
  BY <1>1, <1>3, <1>4, LastFrameType DEF TellsEnd, Open
<1>6. TypeOK'
  <2>1. verdict' \in {"running", "success", "failed"}
    BY <1>2, VerdictType
  <2>2. /\ phase' = "closing" /\ failure' \in Codes
        /\ UNCHANGED <<request, up, named, gone, cancelled, quiet, events, meant, held>>
    BY <1>1, <1>2
  <2>3. held' \in HeldType
    BY <2>2 DEF Inv, TypeOK
  <2>4. QED
    BY <1>5, <2>1, <2>2, <2>3, ReturnType
<1>8. WriterFits'
  BY <1>1, <1>2 DEF Inv, WriterFits, Streams
<1>9. Ending'
  <2>1. verdict' = "success" <=> Code = "" /\ ~gone
    BY <1>1, <1>2
  <2>2. QED
    BY <1>1, <1>5, <2>1 DEF Ending, Streams
<1>10. Told'
  BY <1>1, <1>5 DEF Told
<1>11. ChatAgrees'
  BY <1>1, <1>5 DEF Inv, ChatAgrees, ChatHas
<1>12. HeldAgrees' /\ WriterAgrees'
  BY <1>1 DEF HeldAgrees, WriterAgrees, Streams
<1>13. QED
  BY <1>1, <1>6, <1>8, <1>9, <1>10, <1>11, <1>12 DEF Inv

\* What the contract writer ends with is one of the ends there are.
LEMMA ContractFrameType ==
  ASSUME NEW h \in HeldType
  PROVE  /\ ContractError(h) \in Codes /\ ContractFrame(h) \in Tails
         /\ ContractFrame(h).kind = "error" <=> ContractError(h) # ""
         /\ ContractError(h) # "" => ContractFrame(h).code = ContractError(h)
         /\ ContractFrame(h).kind = "finish" => ContractFrame(h).reason = Aggregate(h.st).finish
<1>1. h.error \in Codes /\ End(h.st) \in Codes /\ JSONViolation(request, Aggregate(h.st)) \in Codes
  BY EndType, ViolationType DEF HeldType, Codes
<1>2. ContractError(h) \in Codes
  BY <1>1 DEF ContractError
<1>3. Aggregate(h.st).finish \in Words \cup {"stop"}
  BY AggregateAll DEF HeldType, StreamType
<1>4. QED
  BY <1>2, <1>3 DEF ContractFrame, Tails, Err, Fin

\* Stream is back, for a request with a contract: its writer is asked whether
\* the answer is complete, if Stream says so.
LEMMA ReplyContractInv ==
  ASSUME Inv, ReplyContract
  PROVE  Inv'
<1> DEFINE h == RetainEnd(held)
           asked == Code = "" /\ ~Lost
<1>1. /\ phase = "replying" /\ phase' = "closing" /\ failure' = Code
      /\ UNCHANGED <<request, up, named, gone, cancelled, quiet, events, meant>>
      /\ request.stream /\ request.sink = "contract"
      /\ Code \in Codes /\ (Code = "" <=> failure = "" /\ End(up) = "")
      /\ up.finish \in Words /\ (Lost <=> gone)
      /\ chat \in ChatType /\ Open(chat) /\ Fresh' /\ MeantAgrees' /\ NamesOut'
      /\ held \in HeldType /\ Holding(held) /\ ~held.checked
  BY Returned DEF ReplyContract
<1>2. /\ held' = (IF asked THEN [h EXCEPT !.checked = TRUE] ELSE h)
      /\ chat' = (IF asked THEN ReceiveEnd(chat, ContractFrame(h)) ELSE chat)
      /\ verdict' = (IF asked /\ ContractError(h) = "" THEN "success" ELSE "failed")
      /\ rw' = rw
  BY DEF ReplyContract
<1>3. gone => h = held
  BY <1>1 DEF RetainEnd
<1>4. ~gone => KeepsEnd(held, h)
  BY <1>1, RetainEnds
<1>5. h \in HeldType /\ ~h.checked
  BY <1>1, <1>3, <1>4 DEF KeepsEnd
<1>6. ~gone => h.error = Code
  BY <1>4 DEF KeepsEnd
<1>7. asked <=> Code = "" /\ ~gone
  BY <1>1
<1> HIDE DEF h, asked
<1>8. asked => TellsEnd(chat, chat', ContractFrame(h))
  BY <1>1, <1>2, <1>5, ContractFrameType, ReceiveEnds
<1>9. /\ chat' \in ChatType /\ ~chat'.late /\ chat'.text = chat.text /\ chat'.calls = chat.calls
      /\ ~asked => chat' = chat
      /\ asked => chat'.dones = 1 /\ (chat'.error = "" <=> ContractError(h) = "")
  <2>1. /\ ContractFrame(h).kind = "error" <=> ContractError(h) # ""
        /\ ContractError(h) # "" => ContractFrame(h).code = ContractError(h)
    BY <1>5, ContractFrameType
  <2>2. CASE asked
    BY <1>8, <2>1, <2>2 DEF TellsEnd
  <2>3. CASE ~asked
    BY <1>1, <1>2, <2>3 DEF Open
  <2>4. QED
    BY <2>2, <2>3
<1>10. held' \in HeldType /\ (held'.checked <=> asked) /\ (~asked => held' = h)
  <2>1. CASE asked
    BY <1>2, <1>5, <2>1 DEF HeldType
  <2>2. CASE ~asked
    BY <1>2, <1>5, <2>2
  <2>3. QED
    BY <2>1, <2>2
<1>11. TypeOK'
  <2>1. verdict' \in {"running", "success", "failed"}
    BY <1>2, VerdictType
  <2>2. /\ phase' = "closing" /\ failure' \in Codes
        /\ UNCHANGED <<request, up, named, gone, cancelled, quiet, events, meant>>
        /\ chat' \in ChatType /\ held' \in HeldType
    BY <1>1, <1>9, <1>10
  <2>3. QED
    BY <2>1, <2>2, ReturnType
<1>13. WriterFits'
  BY <1>1, <1>2 DEF Inv, WriterFits, Streams
<1>14. Ending'
  <2>1. verdict' = "success" <=> asked /\ ContractError(h) = ""
    BY <1>2
  <2>2. verdict' # "success" => verdict' = "failed"
    BY <1>2
  <2>3. ~asked /\ ~gone => held'.error # ""
    BY <1>6, <1>7, <1>10
  <2>4. ~Streams("responses")' /\ Streams("contract")'
    BY <1>1 DEF Streams
  <2>5. ~gone /\ ~held'.checked => verdict' = "failed" /\ held'.error # "" /\ Open(chat)'
    BY <1>1, <1>9, <1>10, <2>1, <2>2, <2>3
  <2>6. held'.checked => (verdict' = "success" <=> chat'.error = "") /\ chat'.dones = 1
    BY <1>9, <1>10, <2>1
  <2>7. QED
    BY <1>1, <1>9, <2>4, <2>5, <2>6 DEF Ending
<1>15. Told'
  BY <1>1, <1>7, <1>9 DEF Told, Open
<1>16. ChatAgrees'
  <2>1. chat'.dones # 0 => ~gone
    BY <1>1, <1>7, <1>9 DEF Open
  <2>2. QED
    BY <1>1, <1>9, <2>1 DEF Inv, ChatAgrees, ChatHas
<1>17. HeldAgrees' /\ WriterAgrees'
  BY <1>1 DEF HeldAgrees, WriterAgrees, Streams, Early
<1>18. QED
  BY <1>1, <1>11, <1>13, <1>14, <1>15, <1>16, <1>17 DEF Inv

\* Stream is back, for the Responses API.
LEMMA ReplyResponsesInv ==
  ASSUME Inv, ReplyResponses
  PROVE  Inv'
<1> DEFINE r == HandleEnd(rw)
           asked == Code = "" /\ ~Lost
           checked == CompletionError(r, request)
<1>1. /\ phase = "replying" /\ phase' = "closing" /\ failure' = Code
      /\ UNCHANGED <<request, up, named, gone, cancelled, quiet, events, meant>>
      /\ request.stream /\ request.sink = "responses"
      /\ Code \in Codes /\ (Code = "" <=> failure = "" /\ End(up) = "")
      /\ up.finish \in Words /\ (Lost <=> gone) /\ gone \in BOOLEAN
      /\ chat \in ChatType /\ Open(chat) /\ Fresh' /\ MeantAgrees' /\ NamesOut'
      /\ Good(rw) /\ ~rw.sawDone /\ rw.finish = "" /\ (rw.lost => gone)
  BY Returned DEF ReplyResponses
<1>2. /\ rw' = (IF asked THEN checked ELSE r)
      /\ verdict' = (IF asked /\ checked.failure = "" THEN "success" ELSE "failed")
      /\ UNCHANGED <<held, chat>>
  BY DEF ReplyResponses
<1>3. Ends(rw, r)
  BY <1>1, HandleEndFits
<1>4. asked <=> Code = "" /\ ~gone
  BY <1>1
<1> HIDE DEF r
<1>5. Good(r) /\ Completes(r, checked, request)
  BY <1>3, CompletionErrorFits DEF Ends
<1> HIDE DEF asked, checked
<1>6. /\ r.text = rw.text /\ r.calls = rw.calls
      /\ gone => r.lost /\ r.failure = rw.failure
      /\ ~gone => /\ ~r.lost
                  /\ r.failure = (IF Code # "" THEN Code ELSE rw.failure)
                  /\ r.finish = (IF Code = "" /\ rw.failure = "" /\ up.finish # "" THEN up.finish
                                 ELSE rw.finish)
  BY <1>1, <1>3 DEF Ends
<1>7. asked => rw' = checked /\ ~gone /\ Code = "" /\ ~r.lost
  BY <1>2, <1>4, <1>6
<1>8. ~asked => rw' = r /\ (gone \/ Code # "")
  BY <1>2, <1>4
<1>9. asked => /\ ~rw'.lost /\ rw'.failure = Failure(r, request)
               /\ Failure(rw', request) = rw'.failure
               /\ rw'.text = r.text /\ rw'.finish = r.finish /\ DOMAIN rw'.calls = DOMAIN r.calls
               /\ \A i \in DOMAIN r.calls :
                    rw'.calls[i].name = r.calls[i].name /\ rw'.calls[i].args = r.calls[i].args
  BY <1>5, <1>7 DEF Completes
<1>10. Good(rw') /\ (rw'.lost => gone)
  BY <1>5, <1>6, <1>7, <1>8, <1>9 DEF Completes
<1>11. /\ rw'.text = rw.text /\ DOMAIN rw'.calls = DOMAIN rw.calls
       /\ \A i \in DOMAIN rw.calls :
            rw'.calls[i].name = rw.calls[i].name /\ rw'.calls[i].args = rw.calls[i].args
  BY <1>6, <1>8, <1>9
<1>12. verdict' = "success" <=> asked /\ rw'.failure = ""
  BY <1>2
<1>13. ~gone => (verdict' = "success" <=> Failure(rw', request) = "")
  <2>1. ASSUME ~asked, ~gone
        PROVE  Failure(rw', request) # ""
    <3>1. rw'.failure # ""
      BY <1>6, <1>8, <2>1
    <3>2. QED
      BY <3>1 DEF Failure
  <2>2. QED
    BY <1>9, <1>12, <2>1
<1>14. rw'.failure = "" => /\ rw.failure = ""
                           /\ ~rw'.lost => Code = "" /\ rw'.finish = up.finish
  <2>1. ASSUME asked, rw'.failure = ""
        PROVE  rw.failure = "" /\ Code = "" /\ rw'.finish = up.finish
    <3>1. r.failure = ""
      BY <1>9, <2>1 DEF Failure
    <3>2. QED
      BY <1>1, <1>6, <1>7, <1>9, <2>1, <3>1
  <2>2. ASSUME ~asked, rw'.failure = ""
        PROVE  rw.failure = "" /\ rw'.lost
    BY <1>6, <1>8, <2>2
  <2>3. QED
    BY <2>1, <2>2
<1>15. TypeOK'
  <2>1. verdict' \in {"running", "success", "failed"}
    BY <1>2, VerdictType
  <2>2. held' \in HeldType /\ chat' \in ChatType
    BY <1>1, <1>2 DEF Inv, TypeOK
  <2>3. QED
    BY <1>1, <2>1, <2>2, ReturnType
<1>16. WriterFits'
  BY <1>1, <1>10 DEF WriterFits, Streams
<1>17. Ending'
  BY <1>1, <1>2, <1>13 DEF Ending, Streams, Open
<1>18. Told' /\ ChatAgrees' /\ HeldAgrees'
  BY <1>1 DEF Told, ChatAgrees, HeldAgrees, Streams
<1>19. WriterAgrees'
  <2>1. rw.failure = "" => WriterHas(rw, up)
    BY <1>1 DEF Inv, WriterAgrees, Streams
  <2>2. rw'.failure = "" => WriterHas(rw', up')
    BY <1>1, <1>11, <1>14, <2>1 DEF WriterHas, CallHas
  <2>3. QED
    BY <1>1, <1>14, <2>2 DEF WriterAgrees
<1>20. QED
  BY <1>1, <1>15, <1>16, <1>17, <1>18, <1>19 DEF Inv

\* The message of a request that does not stream.
MessageOf(c, st) ==
  /\ c.text = st.text /\ c.finish = Aggregate(st).finish
  /\ c.calls = [i \in DOMAIN Aggregate(st).calls |-> CallView(st.calls[i])]

\* It is what a chat client may have.
LEMMA AnswerType ==
  ASSUME chat = NewChat, up \in StreamType, NEW code \in Codes, gone \in BOOLEAN
  PROVE  /\ Answer(code) \in ChatType /\ ~Answer(code).late
         /\ gone => Answer(code) = chat
         /\ ~gone => Answer(code).dones = 1 /\ Answer(code).error = code
         /\ ~gone /\ code # "" => Answer(code).finish = ""
         /\ ~gone /\ code = "" => MessageOf(Answer(code), up)
<1>1. chat \in ChatType /\ Open(chat)
  BY NewChatHas
<1>2. CASE gone
  BY <1>1, <1>2 DEF Answer, Open
<1>3. CASE ~gone /\ code # ""
  <2>1. Answer(code) = [chat EXCEPT !.error = code, !.dones = 1]
    BY <1>3 DEF Answer
  <2>2. 1 \in Nat
    OBVIOUS
  <2>3. QED
    BY <1>1, <1>3, <2>1, <2>2 DEF ChatType, Open
<1>4. CASE ~gone /\ code = ""
  <2> DEFINE calls == [i \in DOMAIN Aggregate(up).calls |-> CallView(up.calls[i])]
             finish == Aggregate(up).finish
  <2>1. Answer(code) = [chat EXCEPT !.text = up.text, !.finish = finish, !.dones = 1, !.calls = calls]
    BY <1>4 DEF Answer, CallView
  <2>2. calls \in Maps(Indexes, ChatCall)
    <3>1. up.calls \in Maps(Indexes, StreamCall)
      BY DEF StreamType
    <3>2. /\ DOMAIN up.calls \subseteq Indexes /\ DOMAIN Aggregate(up).calls \subseteq DOMAIN up.calls
          /\ \A i \in DOMAIN up.calls : up.calls[i] \in StreamCall
      BY <3>1, MapsDef, AggregateAll
    <3>3. \A call \in StreamCall : CallView(call) \in ChatCall
      <4>1. TAKE call \in StreamCall
      <4>2. <<>> \in Seq(Words) /\ <<call.name>> \in Seq(Words)
        BY EmptySeq DEF StreamCall
      <4>3. QED
        BY <4>2 DEF CallView, ChatCall, StreamCall
    <3>4. \A i \in DOMAIN calls : calls[i] \in ChatCall
      BY <3>2, <3>3
    <3>5. DOMAIN calls \subseteq Indexes /\ calls = [i \in DOMAIN calls |-> calls[i]]
      BY <3>2
    <3> HIDE DEF calls
    <3>6. QED
      BY <3>4, <3>5, MapsDef
  <2>3. finish \in Words \cup {"stop"} /\ up.text \in Texts
    BY AggregateAll DEF StreamType
  <2>4. 1 \in Nat
    OBVIOUS
  <2> HIDE DEF calls, finish
  <2>5. /\ Answer(code) \in ChatType /\ Answer(code).text = up.text /\ Answer(code).finish = finish
        /\ Answer(code).dones = 1 /\ Answer(code).calls = calls
        /\ Answer(code).error = "" /\ ~Answer(code).late
    BY <1>1, <2>1, <2>2, <2>3, <2>4 DEF ChatType, Open
  <2>6. QED
    BY <1>4, <2>5 DEF MessageOf, calls, finish
<1>5. QED
  BY <1>2, <1>3, <1>4

\* The upstream is read, for a request that does not stream.
LEMMA ReplyJSONInv ==
  ASSUME Inv, ReplyJSON
  PROVE  Inv'
<1> DEFINE read == IF failure # "" THEN failure ELSE End(up)
           code == IF read # "" THEN read
                   ELSE IF request.sink = "chat" THEN "" ELSE JSONViolation(request, Aggregate(up))
<1>1. /\ phase = "replying" /\ ~request.stream /\ phase' = "closing" /\ failure' = code
      /\ chat' = Answer(code)
      /\ verdict' = (IF code = "" THEN "success" ELSE "failed")
      /\ UNCHANGED <<request, up, named, held, rw, gone, cancelled, quiet, events, meant>>
  BY DEF ReplyJSON
<1>2. TypeOK /\ Fresh /\ WriterFits /\ MeantAgrees
  BY DEF Inv
<1>3. code \in Codes
  BY <1>2, EndType, ViolationType DEF TypeOK, Codes
<1>4. code = "" => failure = "" /\ End(up) = ""
  OBVIOUS
<1>5. code = "client_gone" => failure = "client_gone"
  <2>1. JSONViolation(request, Aggregate(up)) # "client_gone"
    BY DEF JSONViolation, ContractViolation
  <2>2. QED
    BY <2>1, EndType
<1> HIDE DEF code, read
<1>6. chat = NewChat /\ up \in StreamType /\ gone \in BOOLEAN
  BY <1>1, <1>2 DEF Fresh, Early, TypeOK
<1>7. /\ chat' \in ChatType /\ ~chat'.late
      /\ gone => chat' = chat
      /\ ~gone => chat'.dones = 1 /\ chat'.error = code
      /\ ~gone /\ code = "" => MessageOf(chat', up)
  BY <1>1, <1>3, <1>6, AnswerType
<1>8. gone => chat'.dones = 0
  BY <1>6, <1>7, NewChatHas DEF Open
<1>9. TypeOK'
  <2>1. verdict' \in {"running", "success", "failed"}
    BY <1>1, VerdictType
  <2>2. held' \in HeldType
    BY <1>1, <1>2 DEF TypeOK
  <2>3. QED
    BY <1>1, <1>3, <1>7, <2>1, <2>2, ReturnType
<1>10. Fresh'
  BY <1>1, <1>2, <1>5 DEF Fresh, Early
<1>11. WriterFits'
  BY <1>1, <1>2 DEF WriterFits, Streams
<1>12. Ending'
  <2>1. verdict' = "success" <=> code = ""
    BY <1>1
  <2>2. QED
    BY <1>1, <1>4, <1>7, <2>1 DEF Ending, Streams
<1>13. Told'
  <2>1. chat'.dones # 0 /\ chat'.error = "" => ~gone /\ code = ""
    BY <1>6, <1>7, <1>8
  <2>2. QED
    BY <1>1, <1>4, <1>7, <2>1 DEF Told, MessageOf
<1>14. MeantAgrees'
  BY <1>1, <1>2, <1>4 DEF MeantAgrees
<1>15. NamesOut' /\ ChatAgrees' /\ HeldAgrees' /\ WriterAgrees'
  BY <1>1 DEF NamesOut, ChatAgrees, HeldAgrees, WriterAgrees, Streams
<1>16. QED
  BY <1>9, <1>10, <1>11, <1>12, <1>13, <1>14, <1>15 DEF Inv

\* What the ends of all answers have in common.
LEMMA Finishes ==
  ASSUME Inv, Finish
  PROVE  /\ phase = "closing" /\ phase' = "closed"
         /\ UNCHANGED <<request, up, named, failure, verdict, gone, cancelled, quiet, events, meant>>
         /\ Fresh' /\ MeantAgrees' /\ NamesOut' /\ HeldAgrees' /\ WriterAgrees'
         /\ held' \in HeldType /\ chat' \in ChatType => TypeOK'
<1>1. /\ phase = "closing" /\ phase' = "closed"
      /\ UNCHANGED <<request, up, named, failure, verdict, gone, cancelled, quiet, events, meant>>
  BY DEF Finish
<1>2. Fresh'
  BY <1>1 DEF Inv, Fresh, Early
<1>3. MeantAgrees' /\ NamesOut'
  BY <1>1 DEF Inv, MeantAgrees, NamesOut
<1>4. HeldAgrees' /\ WriterAgrees'
  BY <1>1 DEF HeldAgrees, WriterAgrees, Early
<1>5. ASSUME held' \in HeldType, chat' \in ChatType
      PROVE  TypeOK'
  <2>1. failure' \in Codes /\ verdict' \in {"running", "success", "failed"}
    BY <1>1 DEF Inv, TypeOK
  <2>2. QED
    BY <1>1, <1>5, <2>1, ReturnType
<1>6. QED
  BY <1>1, <1>2, <1>3, <1>4, <1>5

\* The end of a chat answer, or of one that does not stream.
LEMMA FinishChatInv ==
  ASSUME Inv, FinishChat
  PROVE  Inv'
<1>1. /\ phase = "closing" /\ phase' = "closed"
      /\ UNCHANGED <<request, up, named, failure, verdict, gone, cancelled, quiet, events, meant>>
      /\ Fresh' /\ MeantAgrees' /\ NamesOut' /\ HeldAgrees' /\ WriterAgrees'
      /\ held' \in HeldType /\ chat' \in ChatType => TypeOK'
  BY Finishes DEF FinishChat
<1>2. UNCHANGED <<held, chat, rw>>
  BY DEF FinishChat
<1>3. TypeOK'
  <2>1. held' \in HeldType /\ chat' \in ChatType
    BY <1>2 DEF Inv, TypeOK
  <2>2. QED
    BY <1>1, <2>1
<1>4. WriterFits' /\ Ending' /\ Told'
  BY <1>1, <1>2 DEF Inv, WriterFits, Ending, Told, Streams
<1>5. ChatAgrees'
  BY <1>1, <1>2 DEF Inv, ChatAgrees
<1>6. QED
  BY <1>1, <1>3, <1>4, <1>5 DEF Inv

\* What the contract writer ends with if it was not asked.
LEMMA FinishContractEnds ==
  ASSUME Inv, FinishContract
  PROVE  /\ held' \in HeldType /\ chat' \in ChatType /\ ~chat'.late
         /\ chat'.text = chat.text /\ chat'.calls = chat.calls /\ rw' = rw
         /\ \/ chat' = chat /\ (held.checked \/ gone)
            \/ ~gone /\ ~held.checked /\ chat'.error # "" /\ chat'.finish = "" /\ chat'.dones = 1
<1>1. /\ phase = "closing" /\ request.stream /\ request.sink = "contract"
      /\ chat' = (IF held.checked \/ Lost THEN chat ELSE ReceiveEnd(chat, ContractFrame(held)))
      /\ held' = [held EXCEPT !.checked = TRUE] /\ rw' = rw
  BY DEF FinishContract, Finish, Streams
<1>2. /\ held \in HeldType /\ chat \in ChatType /\ gone \in BOOLEAN /\ ~chat.late
      /\ (Lost <=> gone)
  BY DEF Inv, TypeOK, Ending, Fresh, Lost
<1>3. held' \in HeldType
  BY <1>1, <1>2 DEF HeldType
<1>4. CASE held.checked \/ Lost
  BY <1>1, <1>2, <1>3, <1>4
<1>5. CASE ~held.checked /\ ~Lost
  <2>1. held.error # "" /\ Open(chat)
    BY <1>1, <1>2, <1>5 DEF Inv, Ending, Streams
  <2>2. ContractError(held) # ""
    BY <2>1 DEF ContractError
  <2>3. /\ ContractFrame(held) \in Tails /\ ContractFrame(held).kind = "error"
        /\ ContractFrame(held).code # ""
    BY <1>2, <2>2, ContractFrameType
  <2>4. TellsEnd(chat, chat', ContractFrame(held))
    BY <1>1, <1>2, <1>5, <2>1, <2>3, ReceiveEnds
  <2>5. QED
    BY <1>1, <1>2, <1>3, <1>5, <2>3, <2>4 DEF TellsEnd
<1>6. QED
  BY <1>4, <1>5

\* The end of an answer with a contract.
LEMMA FinishContractInv ==
  ASSUME Inv, FinishContract
  PROVE  Inv'
<1>1. /\ phase = "closing" /\ phase' = "closed"
      /\ UNCHANGED <<request, up, named, failure, verdict, gone, cancelled, quiet, events, meant>>
      /\ Fresh' /\ MeantAgrees' /\ NamesOut' /\ HeldAgrees' /\ WriterAgrees'
      /\ held' \in HeldType /\ chat' \in ChatType => TypeOK'
  BY Finishes DEF FinishContract
<1>2. /\ held' \in HeldType /\ chat' \in ChatType /\ ~chat'.late
      /\ chat'.text = chat.text /\ chat'.calls = chat.calls /\ rw' = rw
      /\ \/ chat' = chat /\ (held.checked \/ gone)
         \/ ~gone /\ ~held.checked /\ chat'.error # "" /\ chat'.finish = "" /\ chat'.dones = 1
  BY FinishContractEnds
<1>3. WriterFits' /\ Ending'
  BY <1>1, <1>2 DEF Inv, WriterFits, Ending, Streams
<1>4. Told'
  BY <1>1, <1>2 DEF Inv, Told, Streams
<1>5. ChatAgrees'
  BY <1>1, <1>2 DEF Inv, ChatAgrees, ChatHas
<1>6. QED
  BY <1>1, <1>2, <1>3, <1>4, <1>5 DEF Inv

\* The end of an answer of the Responses API.
LEMMA FinishResponsesInv ==
  ASSUME Inv, FinishResponses
  PROVE  Inv'
<1>1. /\ phase = "closing" /\ phase' = "closed"
      /\ UNCHANGED <<request, up, named, failure, verdict, gone, cancelled, quiet, events, meant>>
      /\ Fresh' /\ MeantAgrees' /\ NamesOut' /\ HeldAgrees' /\ WriterAgrees'
      /\ held' \in HeldType /\ chat' \in ChatType => TypeOK'
  BY Finishes DEF FinishResponses
<1>2. UNCHANGED <<held, chat>> /\ request.stream /\ request.sink = "responses"
  BY DEF FinishResponses, Streams
<1>3. TypeOK'
  <2>1. held' \in HeldType /\ chat' \in ChatType
    BY <1>2 DEF Inv, TypeOK
  <2>2. QED
    BY <1>1, <2>1
<1>4. WriterFits' /\ Ending' /\ Told' /\ ChatAgrees'
  BY <1>1, <1>2 DEF Inv, WriterFits, Ending, Told, ChatAgrees, Streams
<1>5. QED
  BY <1>1, <1>3, <1>4 DEF Inv

\* A comment is passed on or not written.
LEMMA LooksOrNot ==
  ASSUME Watch \/ Stall \/ Disconnect \/ Comment \/ Closed \/ UNCHANGED vars
  PROVE  Looks \/ Unwritten
<1>1. CASE Watch \/ Stall \/ Disconnect \/ Closed \/ UNCHANGED vars
  BY <1>1 DEF Looks, Watch, Stall, Disconnect, Closed, vars
<1>2. CASE Comment
  BY <1>2 DEF Looks, Unwritten, Comment, Stop
<1>3. QED
  BY <1>1, <1>2

\* Every step keeps the invariant.
LEMMA NextInv ==
  ASSUME Inv, [Next]_vars
  PROVE  Inv'
<1>1. ASSUME NEW e \in Events, NEW i \in Indexes, Data(e, i)
      PROVE  Inv'
  <2>1. e \in Event
    BY EventsAssumption
  <2>2. QED
    BY <1>1, <2>1, RefusedInv, TakenInv
<1>2. ASSUME NEW how \in Ended, EndOfBody(how)
      PROVE  Inv'
  BY <1>2, EndOfBodyInv
<1>3. CASE CutOff
  BY <1>3, CutOffInv
<1>4. CASE Watch \/ Stall \/ Disconnect \/ Comment \/ Closed \/ UNCHANGED vars
  <2>1. Looks \/ Unwritten
    BY <1>4, LooksOrNot
  <2>2. QED
    BY <2>1, LookInv, UnwrittenInv
<1>5. CASE ReplyChat \/ ReplyContract \/ ReplyResponses \/ ReplyJSON
  BY <1>5, ReplyChatInv, ReplyContractInv, ReplyResponsesInv, ReplyJSONInv
<1>6. CASE FinishChat \/ FinishContract \/ FinishResponses
  BY <1>6, FinishChatInv, FinishContractInv, FinishResponsesInv
<1>7. QED
  BY <1>1, <1>2, <1>3, <1>4, <1>5, <1>6 DEF Next

-----------------------------------------------------------------------------
(* The properties.                                                         *)

\* A client has been told to run the tools of the answer, and it may.
CallDone(item) == item.type \in {"function_call", "custom_tool_call"} /\ ~item.open
ToldToRun ==
  \/ ~Streams("responses") /\ chat.finish \notin Cut \cup {""}
  \/ \E o \in DOMAIN rw.client.items : CallDone(rw.client.items[o])
MayRun ==
  /\ failure = "" /\ \A i \in DOMAIN up.calls : Whole(up.calls[i])
  /\ request.sink # "chat" => Permits(request, up.calls, meant.text)

\* That is what ToolsAreWhole says.
LEMMA ToolsDef ==
  (ToolsAreWhole <=> (ToldToRun => MayRun)) /\ (ToolsAreWhole' <=> (ToldToRun' => MayRun'))
BY DEF ToolsAreWhole, ToldToRun, MayRun, CallDone, Permits

\* No call is done while the answer goes on.
LEMMA NothingDone ==
  ASSUME NEW r, Good(r), NEW o \in DOMAIN r.client.items
  PROVE  ~CallDone(r.client.items[o])
<1>1. r.client.items \in Seq(Item)
  BY DEF Good, Writer, Client
<1>2. r.client.items[o] \in Item
  BY <1>1, ItemPlaces
<1>3. CASE r.client.items[o] = Allotted
  <2>1. Allotted.type = ""
    BY DEF Allotted
  <2>2. QED
    BY <1>3, <2>1 DEF CallDone
<1>4. CASE r.client.items[o] \in [type : ItemTypes, parts : Maps(PartNames, Pieces), open : {TRUE}]
  BY <1>4 DEF CallDone
<1>5. QED
  BY <1>2, <1>3, <1>4 DEF Item

\* What a writer knows of the calls of a whole answer are its calls.
LEMMA SameKeys ==
  ASSUME up \in StreamType, End(up) = "", up.finish \notin Cut,
         NEW calls, DOMAIN calls \subseteq Indexes,
         \A i \in Indexes : IF i \in DOMAIN calls THEN i \in DOMAIN up.calls ELSE Silent(up, i)
  PROVE  DOMAIN calls = DOMAIN up.calls
<1>1. DOMAIN up.calls \subseteq Indexes
  <2>1. up.calls \in Maps(Indexes, StreamCall)
    BY DEF StreamType
  <2>2. QED
    BY <2>1, MapsDef, ZenonT(60)
<1>2. \A i \in DOMAIN up.calls : ~Silent(up, i)
  BY WholeIsNotSilent
<1>3. QED
  BY <1>1, <1>2

\* What the request allows depends on no more than the names and arguments.
LEMMA PermitsSame ==
  ASSUME NEW req, NEW a, NEW b, NEW text, DOMAIN a = DOMAIN b,
         \A i \in DOMAIN a : a[i].name = b[i].name /\ a[i].args = b[i].args, Permits(req, a, text)
  PROVE  Permits(req, b, text)
BY DEF Permits

\* Before Stream is back nobody is told to run anything.
LEMMA EarlyTools ==
  ASSUME Inv, Early
  PROVE  ToolsAreWhole
<1>1. chat.finish = "" /\ Good(rw)
  BY DEF Inv, Fresh, WriterFits, Early, Open
<1>2. ~ToldToRun
  BY <1>1, NothingDone DEF ToldToRun
<1>3. QED
  BY <1>2, ToolsDef

\* A chat client is told so by the finish frame.
LEMMA ReplyChatTools ==
  ASSUME Inv, ReplyChat
  PROVE  ToolsAreWhole'
<1>1. /\ failure' = Code /\ UNCHANGED <<request, up, meant>>
      /\ request.stream /\ request.sink = "chat" /\ request \in Requests
      /\ Code \in Codes /\ (Code = "" <=> failure = "" /\ End(up) = "")
      /\ up.finish \in Words /\ chat \in ChatType /\ Open(chat) /\ Good(rw)
  BY Returned DEF ReplyChat
<1>2. chat' = (IF Lost THEN chat ELSE ReceiveEnd(chat, LastFrame)) /\ rw' = rw
  BY DEF ReplyChat
<1>3. SUFFICES ASSUME ToldToRun' PROVE MayRun'
  BY ToolsDef
<1>4. chat'.finish \notin Cut \cup {""}
  BY <1>1, <1>2, <1>3, NothingDone DEF ToldToRun
<1>5. ~Lost
  BY <1>1, <1>2, <1>4 DEF Open
<1>6. TellsEnd(chat, chat', LastFrame)
  BY <1>1, <1>2, <1>5, LastFrameType, ReceiveEnds
<1>7. chat'.finish = up.finish /\ Code = ""
  BY <1>1, <1>4, <1>6, LastFrameType DEF TellsEnd
<1>8. \A i \in DOMAIN up.calls : Whole(up.calls[i])
  BY <1>1, <1>4, <1>7, EndIsWhole
<1>9. QED
  BY <1>1, <1>7, <1>8 DEF MayRun

\* The client of a request with a contract is told so by its writer.
LEMMA ReplyContractTools ==
  ASSUME Inv, ReplyContract
  PROVE  ToolsAreWhole'
<1> DEFINE h == RetainEnd(held)
           asked == Code = "" /\ ~Lost
<1>1. /\ phase = "replying" /\ failure' = Code /\ UNCHANGED <<request, up, meant>>
      /\ request.stream /\ request.sink = "contract" /\ request \in Requests
      /\ Code \in Codes /\ (Code = "" <=> failure = "" /\ End(up) = "")
      /\ up \in StreamType /\ up.finish \in Words /\ (Lost <=> gone)
      /\ chat \in ChatType /\ Open(chat) /\ Good(rw)
      /\ held \in HeldType /\ Holding(held)
  BY Returned DEF ReplyContract
<1>2. chat' = (IF asked THEN ReceiveEnd(chat, ContractFrame(h)) ELSE chat) /\ rw' = rw
  BY DEF ReplyContract
<1>3. SUFFICES ASSUME ToldToRun' PROVE MayRun'
  BY ToolsDef
<1>4. chat'.finish \notin Cut \cup {""}
  BY <1>1, <1>2, <1>3, NothingDone DEF ToldToRun
<1>5. asked
  BY <1>1, <1>2, <1>4 DEF Open
<1>6. ~gone /\ Code = ""
  BY <1>1, <1>5
<1>7. KeepsEnd(held, h)
  BY <1>1, <1>6, RetainEnds
<1>8. /\ h \in HeldType /\ h.st \in StreamType /\ h.st.text = held.st.text
      /\ h.st.calls = held.st.calls /\ h.st.finish = up.finish
  BY <1>6, <1>7 DEF KeepsEnd, HeldType
<1> HIDE DEF h, asked
<1>9. TellsEnd(chat, chat', ContractFrame(h))
  BY <1>1, <1>2, <1>5, <1>8, ContractFrameType, ReceiveEnds
<1>10. ContractError(h) = "" /\ chat'.finish = Aggregate(h.st).finish
  BY <1>4, <1>8, <1>9, ContractFrameType DEF TellsEnd
<1>11. up.finish \notin Cut
  BY <1>4, <1>8, <1>10, AggregateCut
<1>12. Permits(request, h.st.calls, h.st.text)
  <2>1. JSONViolation(request, Aggregate(h.st)) = ""
    BY <1>10 DEF ContractError
  <2>2. QED
    BY <1>8, <1>11, <2>1, MessagePermitted
<1>13. HeldHas(held.st, up)
  BY <1>1, <1>6 DEF Inv, HeldAgrees, Streams, Early
<1>14. DOMAIN h.st.calls = DOMAIN up.calls
  <2>1. h.st.calls \in Maps(Indexes, StreamCall)
    BY <1>8 DEF StreamType
  <2>2. DOMAIN h.st.calls \subseteq Indexes
    BY <2>1, MapsDef
  <2>3. \A i \in Indexes :
          IF i \in DOMAIN h.st.calls THEN i \in DOMAIN up.calls ELSE Silent(up, i)
    BY <1>8, <1>13 DEF HeldHas
  <2>4. QED
    BY <1>1, <1>6, <1>11, <2>2, <2>3, SameKeys
<1>15. \A i \in DOMAIN h.st.calls :
         h.st.calls[i].name = up.calls[i].name /\ h.st.calls[i].args = up.calls[i].args
  <2>1. h.st.calls \in Maps(Indexes, StreamCall)
    BY <1>8 DEF StreamType
  <2>2. DOMAIN h.st.calls \subseteq Indexes
    BY <2>1, MapsDef
  <2>3. QED
    BY <1>8, <1>13, <2>2 DEF HeldHas
<1>16. meant.text = h.st.text
  BY <1>1, <1>6, <1>8, <1>13 DEF Inv, MeantAgrees, Same, HeldHas
<1>17. Permits(request, up.calls, meant.text)
  BY <1>12, <1>14, <1>15, <1>16, PermitsSame
<1>18. \A i \in DOMAIN up.calls : Whole(up.calls[i])
  BY <1>1, <1>6, <1>11, EndIsWhole
<1>19. QED
  BY <1>1, <1>6, <1>17, <1>18 DEF MayRun

\* A request that does not stream is told so by its message.
LEMMA ReplyJSONTools ==
  ASSUME Inv, ReplyJSON
  PROVE  ToolsAreWhole'
<1> DEFINE read == IF failure # "" THEN failure ELSE End(up)
           code == IF read # "" THEN read
                   ELSE IF request.sink = "chat" THEN "" ELSE JSONViolation(request, Aggregate(up))
<1>1. /\ phase = "replying" /\ ~request.stream /\ failure' = code /\ chat' = Answer(code)
      /\ UNCHANGED <<request, up, rw, meant>>
  BY DEF ReplyJSON
<1>2. TypeOK /\ Fresh /\ WriterFits /\ MeantAgrees
  BY DEF Inv
<1>3. code \in Codes
  BY <1>2, EndType, ViolationType DEF TypeOK, Codes
<1>4. code = "" => /\ failure = "" /\ End(up) = ""
                   /\ request.sink # "chat" => JSONViolation(request, Aggregate(up)) = ""
  OBVIOUS
<1> HIDE DEF code, read
<1>5. chat = NewChat /\ up \in StreamType /\ gone \in BOOLEAN /\ Good(rw)
  BY <1>1, <1>2 DEF Fresh, Early, TypeOK, WriterFits
<1>6. SUFFICES ASSUME ToldToRun' PROVE MayRun'
  BY ToolsDef
<1>7. chat'.finish \notin Cut \cup {""}
  BY <1>1, <1>5, <1>6, NothingDone DEF ToldToRun
<1>8. ~gone /\ code = "" /\ chat'.finish = Aggregate(up).finish
  <2>1. /\ gone => chat'.finish = ""
        /\ ~gone /\ code # "" => chat'.finish = ""
        /\ ~gone /\ code = "" => chat'.finish = Aggregate(up).finish
    BY <1>1, <1>3, <1>5, AnswerType, NewChatHas DEF MessageOf, Open
  <2>2. QED
    BY <1>7, <2>1
<1>9. up.finish \notin Cut
  BY <1>7, <1>8, AggregateCut
<1>10. \A i \in DOMAIN up.calls : Whole(up.calls[i])
  BY <1>4, <1>8, <1>9, EndIsWhole
<1>11. request.sink # "chat" => Permits(request, up.calls, up.text)
  BY <1>4, <1>5, <1>8, <1>9, MessagePermitted
<1>12. up.text = meant.text
  BY <1>2, <1>4, <1>8 DEF MeantAgrees, Same
<1>13. QED
  BY <1>1, <1>8, <1>10, <1>11, <1>12 DEF MayRun

\* What of an answer of the Responses API was told complete.
LEMMA FinishResponsesEnds ==
  ASSUME Inv, FinishResponses
  PROVE  \E r : /\ Good(r) /\ Finished(r, rw', request) /\ (r.lost <=> gone)
                /\ r.text = rw.text /\ r.calls = rw.calls /\ r.client = rw.client
                /\ Failure(r, request) = Failure(rw, request)
                /\ ~r.lost /\ Failure(r, request) = "" =>
                     /\ WriterHas(r, up) /\ failure = "" /\ End(up) = "" /\ r.finish = up.finish
<1> DEFINE r == [rw EXCEPT !.lost = rw.lost \/ gone]
<1>1. phase = "closing" /\ Streams("responses") /\ rw' = FinishStream(r, request)
  BY DEF FinishResponses, Finish
<1>2. Good(rw) /\ (rw.lost => gone) /\ gone \in BOOLEAN
  BY <1>1 DEF Inv, WriterFits, TypeOK
<1>3. rw \in Writer
  BY <1>2 DEF Good
<1>4. (rw.lost \/ gone) \in BOOLEAN /\ rw.lost \in BOOLEAN
  BY <1>3 DEF Writer
<1>5. /\ Good(r) /\ r.lost = (rw.lost \/ gone) /\ r.text = rw.text /\ r.calls = rw.calls
      /\ r.order = rw.order /\ r.failure = rw.failure /\ r.finish = rw.finish
      /\ r.sawDone = rw.sawDone /\ r.client = rw.client
  BY <1>2, <1>4, LoseFits
<1> HIDE DEF r
<1>6. Finished(r, rw', request)
  BY <1>1, <1>5, FinishStreamFits
<1>7. Failure(r, request) = Failure(rw, request)
  BY <1>5, SameFailure DEF SameOutcome
<1>8. r.lost <=> gone
  BY <1>2, <1>5
<1>9. ASSUME ~r.lost, Failure(r, request) = ""
      PROVE  /\ WriterHas(r, up) /\ failure = "" /\ End(up) = "" /\ r.finish = up.finish
  <2>1. rw.failure = "" /\ ~rw.lost
    BY <1>5, <1>7, <1>9 DEF Failure
  <2>2. WriterHas(rw, up) /\ failure = "" /\ rw.finish = up.finish
    BY <1>1, <2>1 DEF Inv, WriterAgrees
  <2>3. End(up) = ""
    BY <1>1, <2>2 DEF Inv, Ending
  <2>4. QED
    BY <1>5, <2>2, <2>3 DEF WriterHas, CallHas
<1>10. QED
  BY <1>5, <1>6, <1>7, <1>8, <1>9

\* A client of the Responses API is told so by the done event of a call.
LEMMA FinishResponsesTools ==
  ASSUME Inv, FinishResponses
  PROVE  ToolsAreWhole'
<1>1. /\ phase = "closing" /\ Streams("responses") /\ UNCHANGED <<request, up, failure, meant>>
      /\ chat' = chat
  BY DEF FinishResponses, Finish
<1>2. PICK r : /\ Good(r) /\ Finished(r, rw', request) /\ (r.lost <=> gone)
               /\ r.text = rw.text /\ r.calls = rw.calls /\ r.client = rw.client
               /\ Failure(r, request) = Failure(rw, request)
               /\ ~r.lost /\ Failure(r, request) = "" =>
                    /\ WriterHas(r, up) /\ failure = "" /\ End(up) = "" /\ r.finish = up.finish
  BY FinishResponsesEnds
<1>3. SUFFICES ASSUME ToldToRun' PROVE MayRun'
  BY ToolsDef
<1>4. PICK o \in DOMAIN rw'.client.items : CallDone(rw'.client.items[o])
  BY <1>1, <1>3 DEF ToldToRun, Streams
<1>5. ~r.lost
  BY <1>2, <1>4, NothingDone DEF Finished
<1>6. rw'.client.terminal = "completed"
  BY <1>2, <1>4, <1>5 DEF Finished, ItemEnds, CallDone
<1>7. Failure(r, request) = "" /\ r.finish \notin Cut
  BY <1>2, <1>5, <1>6 DEF Finished, FinalStatus
<1>8. WriterHas(r, up) /\ failure = "" /\ End(up) = "" /\ up.finish \notin Cut
  BY <1>2, <1>5, <1>7
<1>9. DOMAIN r.calls \subseteq Indexes
  <2>1. r.calls \in Maps(Indexes, WriterCall)
    BY <1>2 DEF Good, Writer
  <2>2. QED
    BY <2>1, MapsDef
<1>10. Permits(request, r.calls, r.text)
  <2>1. ContractViolation(request, r.calls, r.text) = ""
    BY <1>7 DEF Failure
  <2>2. QED
    BY <1>9, <2>1, NoViolation
<1>11. up \in StreamType /\ Same(meant, up)
  BY <1>8 DEF Inv, TypeOK, MeantAgrees
<1>12. DOMAIN r.calls = DOMAIN up.calls
  BY <1>8, <1>9, <1>11, SameKeys DEF WriterHas, CallHas
<1>13. /\ \A i \in DOMAIN r.calls :
            r.calls[i].name = up.calls[i].name /\ r.calls[i].args = up.calls[i].args
       /\ r.text = meant.text
  BY <1>8, <1>9, <1>11 DEF WriterHas, CallHas, Same
<1>14. Permits(request, up.calls, meant.text)
  BY <1>10, <1>12, <1>13, PermitsSame
<1>15. \A i \in DOMAIN up.calls : Whole(up.calls[i])
  BY <1>8, EndIsWhole
<1>16. QED
  BY <1>1, <1>8, <1>14, <1>15 DEF MayRun

\* No step tells a client to run what it may not.
LEMMA ToolsStep ==
  ASSUME Inv, Inv', ToolsAreWhole, [Next]_vars
  PROVE  ToolsAreWhole'
<1>1. ASSUME Early' PROVE ToolsAreWhole'
  <2>1. chat'.finish = "" /\ Good(rw')
    BY <1>1 DEF Inv, Fresh, WriterFits, Early, Open
  <2>2. ~ToldToRun'
    BY <2>1, NothingDone DEF ToldToRun
  <2>3. QED
    BY <2>2, ToolsDef
<1>2. ASSUME UNCHANGED <<request, up, failure, meant, chat, rw>>
      PROVE  ToolsAreWhole'
  <2>1. (ToldToRun' <=> ToldToRun) /\ (MayRun' <=> MayRun)
    BY <1>2 DEF ToldToRun, MayRun, Streams
  <2>2. QED
    BY <2>1, ToolsDef
<1>3. ASSUME NEW e \in Events, NEW i \in Indexes, Data(e, i)
      PROVE  Early'
  BY <1>3 DEF Data, Stop, Early
<1>4. ASSUME NEW how \in Ended, EndOfBody(how)
      PROVE  Early'
  BY <1>4 DEF EndOfBody, Stop, Early
<1>5. CASE CutOff \/ Comment
  BY <1>1, <1>5 DEF CutOff, Comment, Stop, Early
<1>6. CASE Watch \/ Stall \/ Disconnect \/ Closed \/ FinishChat \/ UNCHANGED vars
  BY <1>2, <1>6 DEF Watch, Stall, Disconnect, Closed, FinishChat, Finish, vars
<1>7. CASE ReplyResponses
  <2>1. Streams("responses")' /\ Good(rw')
    BY <1>7 DEF ReplyResponses, Return, Streams, Inv, WriterFits
  <2>2. ~ToldToRun'
    BY <2>1, NothingDone DEF ToldToRun
  <2>3. QED
    BY <2>2, ToolsDef
<1>8. CASE FinishContract
  <2>1. /\ rw' = rw
        /\ chat' = chat \/ chat'.finish = ""
    BY <1>8, FinishContractEnds
  <2>2. UNCHANGED <<request, up, failure, meant>>
    BY <1>8 DEF FinishContract, Finish
  <2>3. ToldToRun' => ToldToRun
    BY <2>1, <2>2 DEF ToldToRun, Streams
  <2>4. MayRun' <=> MayRun
    BY <2>2 DEF MayRun
  <2>5. QED
    BY <2>3, <2>4, ToolsDef
<1>9. CASE ReplyChat \/ ReplyContract \/ ReplyJSON \/ FinishResponses
  BY <1>9, ReplyChatTools, ReplyContractTools, ReplyJSONTools, FinishResponsesTools
<1>10. QED
  BY <1>1, <1>3, <1>4, <1>5, <1>6, <1>7, <1>8, <1>9 DEF Next

\* The events of an answer that goes on fit, and so do the last ones.
LEMMA FitsStep ==
  ASSUME Inv, Inv', StreamFits, [Next]_vars
  PROVE  StreamFits'
<1>1. ~chat'.late
  BY DEF Inv, Ending
<1>2. ASSUME phase' # "closed"
      PROVE  StreamFits'
  <2>1. Good(rw')
    BY <1>2 DEF Inv, WriterFits
  <2>2. rw'.client.confused = FALSE /\ rw'.client.terminal = ""
    BY <2>1 DEF Good, Writer, Client
  <2>3. QED
    BY <1>1, <2>2 DEF StreamFits
<1>3. ASSUME rw' = rw
      PROVE  StreamFits'
  BY <1>1, <1>3 DEF StreamFits
<1>4. CASE FinishResponses
  <2>1. PICK r : Finished(r, rw', request)
    BY <1>4, FinishResponsesEnds
  <2>2. ~rw'.client.confused
    BY <2>1 DEF Finished
  <2>3. CASE r.lost
    BY <1>1, <2>1, <2>2, <2>3 DEF Finished, StreamFits
  <2>4. CASE ~r.lost
    <3>1. \A o \in DOMAIN rw'.client.items : ItemEnds(rw'.client, o)
      BY <2>1, <2>4 DEF Finished
    <3>2. ASSUME NEW o \in DOMAIN rw'.client.items
          PROVE  LET item == rw'.client.items[o] IN
                 /\ (item.type = "") = (rw'.client.output[o] = NotListed)
                 /\ item.open => rw'.client.terminal # "completed"
                 /\ \A p \in DOMAIN item.parts : item.parts[p] = rw'.client.output[o][p]
      BY <3>1, <3>2 DEF ItemEnds
    <3>3. QED
      BY <1>1, <2>2, <3>2 DEF StreamFits
  <2>5. QED
    BY <2>3, <2>4
<1>5. CASE FinishChat \/ FinishContract
  BY <1>3, <1>5 DEF FinishChat, FinishContract
<1>6. CASE Closed \/ UNCHANGED vars
  BY <1>3, <1>6 DEF Closed, vars
<1>7. CASE \E e \in Events : \E i \in Indexes : Data(e, i)
  BY <1>2, <1>7 DEF Data, Stop
<1>8. CASE \E how \in Ended : EndOfBody(how)
  BY <1>2, <1>8 DEF EndOfBody, Stop
<1>9. CASE CutOff \/ Comment \/ Watch \/ Stall \/ Disconnect
  BY <1>2, <1>9 DEF CutOff, Comment, Stop, Watch, Stall, Disconnect
<1>10. CASE ReplyChat \/ ReplyContract \/ ReplyResponses \/ ReplyJSON
  BY <1>2, <1>10 DEF ReplyChat, ReplyContract, ReplyResponses, ReplyJSON, Return
<1>11. QED
  BY <1>4, <1>5, <1>6, <1>7, <1>8, <1>9, <1>10 DEF Next

\* Which steps close an answer.
LEMMA ClosingSteps ==
  ASSUME [Next]_vars, phase' = "closed"
  PROVE  FinishChat \/ FinishContract \/ FinishResponses \/ UNCHANGED vars
<1>1. CASE \E e \in Events : \E i \in Indexes : Data(e, i)
  BY <1>1 DEF Data, Stop
<1>2. CASE \E how \in Ended : EndOfBody(how)
  BY <1>2 DEF EndOfBody, Stop
<1>3. CASE CutOff \/ Comment \/ Watch \/ Stall \/ Disconnect
  BY <1>3 DEF CutOff, Comment, Stop, Watch, Stall, Disconnect
<1>4. CASE ReplyChat \/ ReplyContract \/ ReplyResponses \/ ReplyJSON
  BY <1>4 DEF ReplyChat, ReplyContract, ReplyResponses, ReplyJSON, Return
<1>5. QED
  BY <1>1, <1>2, <1>3, <1>4 DEF Next, Closed

\* The verdict that was given is what the client is told.
LEMMA VerdictStep ==
  ASSUME Inv, VerdictIsSeen, [Next]_vars
  PROVE  VerdictIsSeen'
<1>1. SUFFICES ASSUME phase' = "closed" PROVE VerdictIsSeen'
  BY DEF VerdictIsSeen
<1>2. CASE FinishChat
  <2>1. /\ phase = "closing" /\ UNCHANGED <<request, verdict, gone, chat>>
        /\ request.sink = "chat" \/ ~request.stream
    BY <1>2 DEF FinishChat, Finish
  <2>2. ~gone => (verdict = "success" <=> chat.error = "") /\ chat.dones = 1
    BY <2>1 DEF Inv, Ending, Streams
  <2>3. ~Streams("responses")'
    BY <2>1 DEF Streams
  <2>4. Succeeded' <=> chat.error = "" /\ chat.dones = 1
    BY <2>1, <2>3 DEF Succeeded
  <2>5. ~gone => ((verdict' = "success") <=> Succeeded')
    BY <2>1, <2>2, <2>4
  <2>6. QED
    BY <2>1, <2>2, <2>3, <2>5 DEF VerdictIsSeen, Succeeded
<1>3. CASE FinishContract
  <2>1. /\ phase = "closing" /\ UNCHANGED <<request, verdict, gone>> /\ Streams("contract")
    BY <1>3 DEF FinishContract, Finish
  <2>2. \/ chat' = chat /\ (held.checked \/ gone)
        \/ ~gone /\ ~held.checked /\ chat'.error # "" /\ chat'.dones = 1
    BY <1>3, FinishContractEnds
  <2>3. ~Streams("responses")' /\ ~Streams("responses")
    BY <2>1 DEF Streams
  <2>4. Succeeded' <=> chat'.error = "" /\ chat'.dones = 1
    BY <2>3 DEF Succeeded
  <2>5. ~gone => (verdict = "success" <=> chat'.error = "") /\ chat'.dones = 1
    <3>1. CASE held.checked
      BY <2>1, <2>2, <2>3, <3>1 DEF Inv, Ending
    <3>2. CASE ~held.checked /\ ~gone
      <4>1. verdict # "success"
        BY <2>1, <3>2 DEF Inv, Ending
      <4>2. QED
        BY <2>2, <3>2, <4>1
    <3>3. QED
      BY <3>1, <3>2
  <2>6. ~gone => ((verdict' = "success") <=> Succeeded')
    BY <2>1, <2>4, <2>5
  <2>7. QED
    BY <2>1, <2>3, <2>5, <2>6 DEF VerdictIsSeen, Succeeded
<1>4. CASE FinishResponses
  <2>1. /\ phase = "closing" /\ UNCHANGED <<request, verdict, gone>> /\ Streams("responses")
    BY <1>4 DEF FinishResponses, Finish
  <2>2. PICK r : /\ Finished(r, rw', request) /\ (r.lost <=> gone)
                 /\ Failure(r, request) = Failure(rw, request)
    BY <1>4, FinishResponsesEnds
  <2>3. ~gone => (verdict = "success" <=> Failure(r, request) = "")
    BY <2>1, <2>2 DEF Inv, Ending
  <2>4. ~gone => rw'.client.terminal = FinalStatus(r, request)
    BY <2>2 DEF Finished
  <2>5. Streams("responses")'
    BY <2>1 DEF Streams
  <2>6. /\ FinalStatus(r, request) # ""
        /\ FinalStatus(r, request) \in {"completed", "incomplete"} <=> Failure(r, request) = ""
    BY DEF FinalStatus
  <2>7. ~gone => (verdict' = "success" <=> rw'.client.terminal \in {"completed", "incomplete"})
    BY <2>1, <2>3, <2>4, <2>6
  <2>8. Succeeded' = (rw'.client.terminal \in {"completed", "incomplete"})
    BY <2>5 DEF Succeeded
  <2>9. ~gone => ((verdict' = "success") = Succeeded')
    BY <2>7, <2>8
  <2>10. ~gone => rw'.client.terminal # ""
    BY <2>4, <2>6
  <2>11. QED
    BY <2>1, <2>5, <2>9, <2>10 DEF VerdictIsSeen
<1>5. CASE UNCHANGED vars
  BY <1>5 DEF VerdictIsSeen, Succeeded, Streams, vars
<1>6. QED
  BY <1>1, <1>2, <1>3, <1>4, <1>5, ClosingSteps

\* The calls of the stream and of the chat client are maps.
LEMMA CallMaps ==
  ASSUME Inv
  PROVE  /\ DOMAIN up.calls \subseteq Indexes /\ up.calls = [i \in DOMAIN up.calls |-> up.calls[i]]
         /\ DOMAIN chat.calls \subseteq Indexes
         /\ chat.calls = [i \in DOMAIN chat.calls |-> chat.calls[i]]
<1>1. up.calls \in Maps(Indexes, StreamCall) /\ chat.calls \in Maps(Indexes, ChatCall)
  BY DEF Inv, TypeOK, StreamType, ChatType
<1>2. QED
  BY <1>1, MapsDef

\* Who has got one end has got an end.
LEMMA OneEnd ==
  ASSUME NEW n, n = 1
  PROVE  n # 0
OBVIOUS

\* The message of an answer that was not cut is all of it.
LEMMA WholeAnswer ==
  ASSUME Inv, failure = "", End(up) = "", up.finish \notin Cut
  PROVE  /\ Aggregate(up).text = up.text
         /\ Aggregate(up).calls = up.calls /\ up.calls = [i \in DOMAIN up.calls |-> up.calls[i]]
         /\ DOMAIN up.calls \subseteq Indexes
         /\ up.text = meant.text /\ \A i \in DOMAIN up.calls : up.calls[i].args = meant.args[i]
<1>1. up \in StreamType /\ Same(meant, up)
  BY DEF Inv, TypeOK, MeantAgrees
<1>2. DOMAIN up.calls \subseteq Indexes /\ up.calls = [i \in DOMAIN up.calls |-> up.calls[i]]
  BY CallMaps
<1>3. Aggregate(up).text = up.text /\ Aggregate(up).calls = up.calls
  BY <1>2, AggregateAll
<1>4. up.text = meant.text /\ \A i \in DOMAIN up.calls : up.calls[i].args = meant.args[i]
  BY <1>1, <1>2 DEF Same, Known
<1>5. QED
  BY <1>2, <1>3, <1>4

\* A chat client that was told so has the whole answer.
LEMMA ChatAnswer ==
  ASSUME Inv, request.sink # "responses" \/ ~request.stream, phase = "closing",
         chat.error = "", chat.dones = 1, up.finish \notin Cut
  PROVE  /\ failure = "" /\ End(up) = ""
         /\ chat.text = Aggregate(up).text
         /\ chat.calls = [i \in DOMAIN Aggregate(up).calls |-> CallView(Aggregate(up).calls[i])]
<1>1. ~Streams("responses")
  BY DEF Streams
<1>2. /\ failure = "" /\ End(up) = ""
      /\ ~request.stream =>
           /\ chat.text = up.text
           /\ chat.calls = [i \in DOMAIN Aggregate(up).calls |-> CallView(up.calls[i])]
  <2>1. chat.dones # 0
    BY OneEnd
  <2>2. QED
    BY <1>1, <2>1 DEF Inv, Told
<1>3. Aggregate(up).text = up.text /\ Aggregate(up).calls = up.calls
  BY <1>2, WholeAnswer
<1>4. CASE ~request.stream
  BY <1>2, <1>3, <1>4
<1>5. CASE request.stream
  <2>1. chat.dones # 0
    BY OneEnd
  <2>2. ChatHas(chat, up) /\ up \in StreamType
    BY <1>5, <2>1 DEF Inv, ChatAgrees, TypeOK
  <2>3. DOMAIN chat.calls \subseteq Indexes /\ chat.calls = [i \in DOMAIN chat.calls |-> chat.calls[i]]
    BY CallMaps
  <2>4. DOMAIN chat.calls = DOMAIN up.calls
    BY <1>2, <2>2, <2>3, SameKeys DEF ChatHas
  <2>5. \A i \in DOMAIN chat.calls : chat.calls[i] = CallView(up.calls[i])
    BY <2>2, <2>3 DEF ChatHas
  <2>6. chat.calls = [i \in DOMAIN up.calls |-> CallView(up.calls[i])]
    BY <2>3, <2>4, <2>5
  <2>7. QED
    BY <1>2, <1>3, <2>2, <2>6 DEF ChatHas
<1>6. QED
  BY <1>4, <1>5, Sinks DEF Inv, TypeOK

\* A client that is told that its answer is complete has all of it.
LEMMA SameStep ==
  ASSUME Inv, SameAnswer, [Next]_vars
  PROVE  SameAnswer'
<1> DEFINE message == Aggregate(up)
<1>1. CASE UNCHANGED vars
  BY <1>1 DEF SameAnswer, Succeeded, Streams, vars
<1>2. CASE phase' # "closed"
  BY <1>2 DEF SameAnswer
<1>3. ASSUME phase' = "closed", phase = "closing", UNCHANGED <<request, up, meant>>,
             request.sink # "responses" \/ ~request.stream,
             chat' = chat \/ chat'.error # ""
      PROVE  SameAnswer'
  <2>1. SUFFICES ASSUME Succeeded', up.finish \notin Cut PROVE SameAnswer'
    BY <1>3 DEF SameAnswer
  <2>2. ~Streams("responses")'
    BY <1>3 DEF Streams
  <2>3. chat' = chat /\ chat.error = "" /\ chat.dones = 1
    BY <1>3, <2>1, <2>2 DEF Succeeded
  <2>4. /\ failure = "" /\ End(up) = "" /\ chat.text = message.text
        /\ chat.calls = [i \in DOMAIN message.calls |-> CallView(message.calls[i])]
    BY <1>3, <2>1, <2>3, ChatAnswer
  <2>5. /\ message.text = meant.text
        /\ \A i \in DOMAIN message.calls : message.calls[i].args = meant.args[i]
    BY <2>1, <2>4, WholeAnswer
  <2>6. up' = up /\ meant' = meant
    BY <1>3
  <2> HIDE DEF message
  <2>7. message = Aggregate(up')
    BY <2>6 DEF message
  <2>8. QED
    BY <2>2, <2>3, <2>4, <2>5, <2>6, <2>7 DEF SameAnswer
<1>4. CASE FinishChat
  BY <1>3, <1>4 DEF FinishChat, Finish
<1>5. CASE FinishContract
  <2>1. chat' = chat \/ chat'.error # ""
    BY <1>5, FinishContractEnds
  <2>2. QED
    BY <1>3, <1>5, <2>1 DEF FinishContract, Finish, Streams
<1>6. CASE FinishResponses
  <2>1. SUFFICES ASSUME Succeeded', up.finish \notin Cut PROVE SameAnswer'
    BY <1>6 DEF SameAnswer, FinishResponses, Finish
  <2>2. /\ Streams("responses") /\ Streams("responses")' /\ UNCHANGED <<up, meant>>
    BY <1>6 DEF FinishResponses, Finish, Streams
  <2>3. PICK r : /\ Good(r) /\ Finished(r, rw', request)
                 /\ ~r.lost /\ Failure(r, request) = "" =>
                      /\ WriterHas(r, up) /\ failure = "" /\ End(up) = "" /\ r.finish = up.finish
    BY <1>6, FinishResponsesEnds
  <2>4. rw'.client.terminal \in {"completed", "incomplete"}
    BY <2>1, <2>2 DEF Succeeded
  <2>5. ~r.lost /\ rw'.client.terminal = FinalStatus(r, request)
    BY <2>3, <2>4 DEF Finished
  <2>6. Failure(r, request) = ""
    BY <2>4, <2>5 DEF FinalStatus
  <2>7. /\ WriterHas(r, up) /\ failure = "" /\ End(up) = "" /\ r.finish \notin Cut
    BY <2>1, <2>3, <2>5, <2>6
  <2>8. rw'.client.terminal = "completed"
    BY <2>5, <2>6, <2>7 DEF FinalStatus
  <2>9. /\ rw'.text = r.text /\ DOMAIN rw'.calls = DOMAIN r.calls
        /\ \A i \in DOMAIN r.calls : CallEnds(r, rw', i)
    BY <2>3, <2>5, <2>8 DEF Finished
  <2>10. /\ message.text = up.text /\ message.calls = up.calls
         /\ up.text = meant.text /\ \A i \in DOMAIN up.calls : up.calls[i].args = meant.args[i]
    BY <2>1, <2>7, WholeAnswer
  <2>11. DOMAIN r.calls \subseteq Indexes
    <3>1. r.calls \in Maps(Indexes, WriterCall)
      BY <2>3 DEF Good, Writer
    <3>2. QED
      BY <3>1, MapsDef
  <2>12. DOMAIN r.calls = DOMAIN up.calls
    BY <2>1, <2>7, <2>11, SameKeys DEF WriterHas, CallHas, Inv, TypeOK
  <2>13. \A i \in DOMAIN r.calls :
           r.calls[i].name = up.calls[i].name /\ r.calls[i].args = up.calls[i].args
    BY <2>7, <2>11 DEF WriterHas, CallHas
  <2>14. \A i \in DOMAIN rw'.calls :
           LET o == rw'.calls[i].out IN
           /\ o \in DOMAIN rw'.client.items
           /\ rw'.client.items[o].type = Type(message.calls[i].name)
           /\ rw'.client.items[o].parts["args"] = message.calls[i].args
    BY <2>9, <2>10, <2>13 DEF CallEnds
  <2>15. rw'.text = message.text /\ DOMAIN rw'.calls = DOMAIN message.calls
    BY <2>7, <2>9, <2>10, <2>12 DEF WriterHas, CallHas
  <2> HIDE DEF message
  <2>16. message = Aggregate(up')
    BY <2>2 DEF message
  <2>17. QED
    BY <2>2, <2>10, <2>14, <2>15, <2>16 DEF SameAnswer
<1>7. QED
  BY <1>1, <1>2, <1>4, <1>5, <1>6, ClosingSteps

\* At first all four hold.
LEMMA InitSafe == Init => ToolsAreWhole /\ StreamFits /\ VerdictIsSeen /\ SameAnswer
<1> SUFFICES ASSUME Init PROVE ToolsAreWhole /\ StreamFits /\ VerdictIsSeen /\ SameAnswer
  OBVIOUS
<1>1. phase = "reading" /\ Inv
  BY InitInv DEF Init
<1>2. ToolsAreWhole
  BY <1>1, EarlyTools DEF Early
<1>3. StreamFits
  <2>1. Good(rw) /\ ~chat.late
    BY <1>1 DEF Inv, WriterFits, Ending
  <2>2. rw.client.confused = FALSE /\ rw.client.terminal = ""
    BY <2>1 DEF Good, Writer, Client
  <2>3. QED
    BY <2>1, <2>2 DEF StreamFits
<1>4. VerdictIsSeen /\ SameAnswer
  BY <1>1 DEF VerdictIsSeen, SameAnswer
<1>5. QED
  BY <1>2, <1>3, <1>4

\* Every state of every answer satisfies the invariant: the state variables
\* have their types, what the three writers keep agrees with what the gateway
\* knows of the upstream's stream, and that is what the pieces say
\* (internal/upstream/sse.go, chat_output_contract.go, responses.go).
THEOREM Invariant == Spec => []Inv
<1>1. Inv /\ [Next]_vars => Inv'
  BY NextInv
<1>2. QED
  BY <1>1, InitInv, PTL DEF Spec

\* No client is told to run a tool whose arguments are not all there, or
\* that its request forbids, by any of the three writers and by the message
\* of a request that does not stream.
THEOREM ToolsWhole == Spec => []ToolsAreWhole
<1>1. Inv /\ Inv' /\ ToolsAreWhole /\ [Next]_vars => ToolsAreWhole'
  BY ToolsStep
<1>2. QED
  BY <1>1, Invariant, InitSafe, PTL DEF Spec

\* Items are announced before their deltas and once, done events repeat the
\* deltas, nothing follows the end, and the terminal response lists what was
\* announced with what was sent of it.
THEOREM EventsFit == Spec => []StreamFits
<1>1. Inv /\ Inv' /\ StreamFits /\ [Next]_vars => StreamFits'
  BY FitsStep
<1>2. QED
  BY <1>1, Invariant, InitSafe, PTL DEF Spec

\* The account is credited with a success exactly when a client that is still
\* there was told of one, and every answer ends once.
THEOREM VerdictSeen == Spec => []VerdictIsSeen
<1>1. Inv /\ VerdictIsSeen /\ [Next]_vars => VerdictIsSeen'
  BY VerdictStep
<1>2. QED
  BY <1>1, Invariant, InitSafe, PTL DEF Spec

\* A client that was told that its answer is complete has put together exactly
\* what the upstream said: nothing is missing and nothing is there twice,
\* however deltas and whole messages were mixed.
THEOREM AnswerSame == Spec => []SameAnswer
<1>1. Inv /\ SameAnswer /\ [Next]_vars => SameAnswer'
  BY SameStep
<1>2. QED
  BY <1>1, Invariant, InitSafe, PTL DEF Spec
=============================================================================
