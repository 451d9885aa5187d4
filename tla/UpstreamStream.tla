-------------------------- MODULE UpstreamStream --------------------------
(***************************************************************************)
(* What the gateway knows of one upstream answer while it reads its event  *)
(* stream (internal/upstream/sse.go: streamState, streamChoice), as pure   *)
(* operators over a record.  Stream and Aggregate share all of it.         *)
(*                                                                         *)
(* An event is one thing a frame can bring: a piece of text, a piece of    *)
(* one tool call, a finish reason; "whole" marks the pieces of a complete  *)
(* message, which repeat what the deltas already brought.  A frame that    *)
(* brings several is several events.  Frames of a wrong shape are one      *)
(* event, which ChatStream adds.  There is one choice.                     *)
(*                                                                         *)
(* Texts are sequences of pieces.  The arguments of a call are JSON when   *)
(* they are <<"{", "}">>.  The old function_call is the call of index      *)
(* Legacy.  The repeated lines the reasoning guard looks for are reasoning *)
(* pieces without any progress in between.                                 *)
(***************************************************************************)
EXTENDS Integers, Sequences, SequencesExt, FiniteSets

CONSTANTS
  Words,      \* the strings upstream sends as ids, names, reasons and pieces
  LoopLimit   \* bound: reasoning pieces without progress that make a loop

ASSUME WordsAssumption == "" \in Words
ASSUME LoopAssumption == LoopLimit \in Nat \ {0}

TextKeys == {"content", "reasoning_content", "refusal"}
Legacy == "legacy"
Indexes == {"0", "1", Legacy}     \* of the calls of one answer
Cut == {"length", "content_filter"}        \* the model did not get to its end
ToolFinish == {"tool_calls", "function_call"}

NoCall == [id |-> "", name |-> "", args |-> <<>>, seen |-> FALSE]
Empty == [x \in {} |-> <<>>]              \* the map with nothing in it
NewStream == [text |-> [k \in TextKeys |-> <<>>], calls |-> Empty,
              finish |-> "", done |-> FALSE, loop |-> 0]
Nothing == [kind |-> "nothing"]

(* The events there are.  A call without the field has no arguments, and   *)
(* function_call has no id; a finish reason is not empty.                  *)
Pieces == Seq(Words)
Event ==
  [kind : {"text"}, key : TextKeys, value : Pieces, whole : BOOLEAN]
  \cup {e \in [kind : {"call"}, index : Indexes, id : Words, name : Words,
               has : BOOLEAN, args : Pieces, whole : BOOLEAN] :
         (~e.has => e.args = <<>>) /\ (e.index = Legacy => e.id = "")}
  \cup [kind : {"finish"}, reason : Words \ {""}]

Truncated(args) == args \notin {<<>>, <<"{", "}">>}
Known(st, i) == IF i \in DOMAIN st.calls THEN st.calls[i] ELSE NoCall
Put(f, i, v) == [x \in DOMAIN f \cup {i} |-> IF x = i THEN v ELSE f[x]]

---------------------------------------------------------------------------
(* streamText.append: a whole message must repeat what was sent and brings *)
(* only the rest.                                                          *)
FaultyAddition(old, value, whole) == value
Addition(old, value, whole) ==
  IF whole THEN SubSeq(value, Len(old) + 1, Len(value)) ELSE value
Disagrees(old, value, whole) == whole /\ ~IsPrefix(old, value)

(* A call of a whole message is found by its id, wherever it was before.   *)
Places(st, e) ==
  LET same == {i \in DOMAIN st.calls \ {Legacy} : st.calls[i].id = e.id}
  IN  IF e.whole /\ e.index # Legacy /\ e.id # "" /\ same # {} THEN same ELSE {e.index}

(* The empty function_call every frame of the upstream carries is no call. *)
IsPlaceholder(st, e) ==
  e.index = Legacy /\ Legacy \notin DOMAIN st.calls /\ e.name = "" /\ e.args = <<>>

(* What makes a frame contradict the ones before it.                       *)
Contradicts(st, e, i) ==
  CASE e.kind = "text" -> Disagrees(st.text[e.key], e.value, e.whole)
    [] e.kind = "call" ->
         LET old == Known(st, i) IN
         \/ e.id # "" /\ old.id \notin {"", e.id}
         \/ e.name # "" /\ old.name \notin {"", e.name}
         \/ e.has /\ Disagrees(old.args, e.args, e.whole)
    [] OTHER -> FALSE

(* The increment that goes downstream instead of the frame's own content.  *)
Increment(st, e, i) ==
  CASE e.kind = "text" ->
         [kind |-> "text", key |-> e.key, value |-> Addition(st.text[e.key], e.value, e.whole)]
    [] e.kind = "call" ->
         LET old == Known(st, i)
             more == Addition(old.args, e.args, e.whole) IN
         [kind |-> "call", index |-> i,
          id |-> IF e.whole /\ old.id # "" THEN "" ELSE e.id,
          name |-> IF e.whole /\ old.name # "" THEN "" ELSE e.name,
          has |-> e.has /\ (~e.whole \/ more # <<>> \/ ~old.seen),
          args |-> more]
    [] OTHER -> Nothing

(* Something new for the user, which shows that the model is not looping.  *)
Progress(st, e, i) ==
  CASE e.kind = "text" -> e.key # "reasoning_content" /\ Increment(st, e, i).value # <<>>
    [] e.kind = "call" -> LET old == Known(st, i) IN
         \/ e.id \notin {"", old.id} \/ e.name \notin {"", old.name}
         \/ Increment(st, e, i).args # <<>>
    [] OTHER -> FALSE

Loop(st, e, i) ==
  IF Progress(st, e, i) THEN 0
  ELSE IF e.kind = "text" /\ e.key = "reasoning_content" /\ Increment(st, e, i).value # <<>>
       THEN st.loop + 1 ELSE st.loop
IsLooping(st) == st.loop >= LoopLimit

(* streamState.observe of an event that contradicts nothing.               *)
Observe(st, e, i) ==
  LET old == Known(st, i)
      seen == [st EXCEPT !.loop = Loop(st, e, i)]
  IN  CASE e.kind = "text" -> [seen EXCEPT !.text[e.key] = @ \o Increment(st, e, i).value]
        [] e.kind = "call" /\ ~IsPlaceholder(st, e) ->
             [seen EXCEPT !.calls = Put(@, i,
                [id |-> IF e.id # "" THEN e.id ELSE old.id,
                 name |-> IF e.name # "" THEN e.name ELSE old.name,
                 args |-> old.args \o (IF e.has THEN Increment(st, e, i).args ELSE <<>>),
                 seen |-> old.seen \/ e.has])]
        [] e.kind = "finish" -> [st EXCEPT !.finish = e.reason]
        [] OTHER -> st

---------------------------------------------------------------------------
Whole(call) == call.seen /\ ~Truncated(call.args)
HasOutput(st) == DOMAIN st.calls # {} \/ \E k \in TextKeys : st.text[k] # <<>>

(* streamState.end, after DONE or the end of the body; "" when all is well.*)
End(st) ==
  IF HasOutput(st) /\ ~st.done /\ st.finish = "" THEN "upstream_truncated"
  ELSE IF st.finish \notin Cut /\ \E i \in DOMAIN st.calls : ~Whole(st.calls[i])
       THEN "invalid_tool_arguments"
  ELSE IF st.finish \in ToolFinish /\ DOMAIN st.calls = {} THEN "missing_tool_call"
  ELSE IF ~HasOutput(st) /\ st.finish = "" THEN "empty_upstream" ELSE ""

(* streamChoice.aggregate: the message of a request that does not stream.  *)
Aggregate(st) ==
  LET kept == {i \in DOMAIN st.calls : st.finish \in Cut => Whole(st.calls[i])}
  IN  [text |-> st.text, calls |-> [i \in kept |-> st.calls[i]],
       finish |-> IF st.finish = "" THEN "stop" ELSE st.finish]

---------------------------------------------------------------------------
(* What of an increment Stream writes: a tool's name goes out once, though *)
(* the upstream may repeat it, and empty pieces are left out of the frame. *)
Frame(delta, named) ==
  IF delta.kind # "call" THEN delta
  ELSE LET d == [delta EXCEPT !.name = IF delta.index \in named THEN "" ELSE @]
       IN  IF d.index = Legacy /\ d.name = "" /\ d.args = <<>> THEN Nothing
           ELSE IF d.index # Legacy /\ delta.id = "" /\ delta.name = "" /\ ~delta.has THEN Nothing
           ELSE d
Named(delta, named) ==
  IF delta.kind = "call" /\ delta.index # Legacy /\ delta.name # ""
  THEN named \cup {delta.index} ELSE named
=============================================================================
