-------------------------- MODULE ResponsesStream --------------------------
(***************************************************************************)
(* How the chat stream becomes the events of the Responses API             *)
(* (internal/server/responses.go: responsesWriter), as pure operators over *)
(* one record: the writer's own fields and, in "client", what a client has *)
(* put together from the events sent to it: the items announced, what they *)
(* contain, which are done, and the terminal event.  An event that does    *)
(* not fit what the client has (a delta of an item not announced or done,  *)
(* anything after the terminal event) sets client.confused.                *)
(***************************************************************************)
EXTENDS UpstreamStream

CONSTANT CustomTools   \* tools whose input is free text, bridged as functions

(* An item's place in the output is allotted when its first piece comes,   *)
(* which may be before it is announced.                                    *)
Allotted == [type |-> "", parts |-> Empty, open |-> FALSE]
Announced(type) == [type |-> type, parts |-> Empty, open |-> TRUE]
NewClient == [items |-> <<>>, terminal |-> "", output |-> <<>>, confused |-> FALSE]
NewCallItem == [out |-> 0, id |-> "", name |-> "", args |-> <<>>, sent |-> 0,
                seen |-> FALSE, opened |-> FALSE, shown |-> FALSE]
NewWriter ==
  [text |-> [k \in TextKeys |-> <<>>], calls |-> Empty, order |-> <<>>, legacy |-> FALSE,
   finish |-> "", failure |-> "", sawDone |-> FALSE, status |-> "",
   rs |-> 0, rsOpen |-> FALSE, msg |-> 0, msgOpen |-> FALSE, parts |-> {},
   lost |-> FALSE, client |-> NewClient]

---------------------------------------------------------------------------
(* The events.  Nothing is sent once a write has failed.                   *)
Emit(r, client, fits) ==
  IF r.lost THEN r
  ELSE [r EXCEPT !.client = [client EXCEPT !.confused = @ \/ ~fits \/ r.client.terminal # ""]]

IsOpen(r, out) == r.client.items[out].open

NextPlace(r) == Len(r.client.items) + 1
Allot(r) == [r EXCEPT !.client.items = Append(@, Allotted)]
Announce(r, out, type) ==
  Emit(r, [r.client EXCEPT !.items[out] = Announced(type)], r.client.items[out] = Allotted)
AddPart(r, out, part) ==
  IF r.lost THEN r
  ELSE Emit(r, [r.client EXCEPT !.items[out].parts = Put(@, part, <<>>)],
            IsOpen(r, out) /\ part \notin DOMAIN r.client.items[out].parts)
Delta(r, out, part, value) ==
  IF r.lost THEN r
  ELSE Emit(r, [r.client EXCEPT !.items[out].parts[part] = @ \o value],
            IsOpen(r, out) /\ part \in DOMAIN r.client.items[out].parts)
(* The done event repeats the item: it must say what the deltas said.      *)
DoneItem(item, content) == [item EXCEPT !.open = FALSE, !.parts = content]
DoneFits(item, content) == item.open /\ \A p \in DOMAIN item.parts : item.parts[p] = content[p]
Done(r, out, content) ==
  IF r.lost THEN r
  ELSE Emit(r, [r.client EXCEPT !.items[out] = DoneItem(@, content)],
            DoneFits(r.client.items[out], content))

(* The items of the calls S become what New makes of a call and its item.  *)
ItemsOf(r, S, New(_, _)) ==
  [o \in DOMAIN r.client.items |->
     LET owner == {i \in S : r.calls[i].out = o}
     IN  IF owner = {} THEN r.client.items[o]
         ELSE New(r.calls[CHOOSE i \in owner : TRUE], r.client.items[o])]

---------------------------------------------------------------------------
(* Text, refusal and reasoning.                                            *)
OpenReasoning(r) ==
  IF r.rsOpen THEN r
  ELSE AddPart(Announce([Allot(r) EXCEPT !.rsOpen = TRUE, !.rs = NextPlace(r)], NextPlace(r), "reasoning"),
               NextPlace(r), "reasoning_content")
ReasoningDelta(r, value) ==
  LET o == OpenReasoning(r)
  IN  Delta([o EXCEPT !.text["reasoning_content"] = @ \o value], o.rs, "reasoning_content", value)

OpenMessage(r) ==
  IF r.msgOpen THEN r
  ELSE Announce([Allot(r) EXCEPT !.msgOpen = TRUE, !.msg = NextPlace(r)], NextPlace(r), "message")
EnsureMessagePart(r, key) ==
  LET o == OpenMessage(r)
  IN  IF key \in o.parts THEN o ELSE AddPart([o EXCEPT !.parts = @ \cup {key}], o.msg, key)
TextDelta(r, key, value) ==
  LET o == EnsureMessagePart(r, key)
  IN  Delta([o EXCEPT !.text[key] = @ \o value], o.msg, key, value)

---------------------------------------------------------------------------
(* Tool calls.  An item is announced when its name and id are known, in    *)
(* the order the calls first appeared; arguments that came early follow    *)
(* once.  Custom tools have no argument deltas.                            *)
Type(name) == IF name \in CustomTools THEN "custom_tool_call" ELSE "function_call"

IsCustom(call) == call.name \in CustomTools
Unsent(call) == SubSeq(call.args, call.sent + 1, Len(call.args))

ShownItem(call, item) ==
  LET args == IF call.opened THEN item.parts["args"] ELSE <<>>
  IN  CASE IsCustom(call) -> IF call.opened THEN item ELSE Announced(Type(call.name))
        [] OTHER -> [(IF call.opened THEN item ELSE Announced(Type(call.name)))
                      EXCEPT !.parts = Put(@, "args", args \o Unsent(call))]
ShowFits(call, item) ==
  IF call.opened
  THEN IsCustom(call) \/ Unsent(call) = <<>> \/ (item.open /\ "args" \in DOMAIN item.parts)
  ELSE item = Allotted
ShowCall(call) ==
  [call EXCEPT !.opened = TRUE, !.shown = TRUE,
               !.sent = IF IsCustom(call) THEN @ ELSE Len(call.args)]
ShowCalls(r, S) ==
  [Emit(r, [r.client EXCEPT !.items = ItemsOf(r, S, ShownItem)],
        \A i \in S : ShowFits(r.calls[i], r.client.items[r.calls[i].out]))
     EXCEPT !.calls = [i \in DOMAIN r.calls |-> IF i \in S THEN ShowCall(r.calls[i]) ELSE r.calls[i]]]

(* The calls up to the first that still lacks its name or id.              *)
Ready(call) == call.opened \/ (call.name # "" /\ call.id # "")
ReadyCalls(r) ==
  {r.order[k] : k \in {n \in DOMAIN r.order : \A j \in 1..n : Ready(r.calls[r.order[j]])}}
FlushReadyCalls(r) == ShowCalls(r, ReadyCalls(r))

(* The frames come from Stream, which has refused a change of name or id.  *)
CallAfter(call, d) ==
  [call EXCEPT !.id = IF d.id # "" THEN d.id ELSE @, !.name = IF d.name # "" THEN d.name ELSE @,
               !.args = @ \o d.args, !.seen = @ \/ d.has]
FaultyToolCallDelta(r, d) ==
  LET new == d.index \notin DOMAIN r.calls
      call == IF new THEN [NewCallItem EXCEPT !.out = NextPlace(r)] ELSE [r.calls[d.index] EXCEPT !.sent = 0]
      kept == [r EXCEPT !.calls = Put(@, d.index, CallAfter(call, d))]
  IN  FlushReadyCalls(IF new THEN [Allot(kept) EXCEPT !.order = Append(@, d.index)] ELSE kept)
ToolCallDelta(r, d) ==
  LET new == d.index \notin DOMAIN r.calls
      call == IF new THEN [NewCallItem EXCEPT !.out = NextPlace(r)] ELSE r.calls[d.index]
      kept == [r EXCEPT !.calls = Put(@, d.index, CallAfter(call, d))]
  IN  FlushReadyCalls(IF new THEN [Allot(kept) EXCEPT !.order = Append(@, d.index)] ELSE kept)

(* Old and new forms of a call in one answer are refused.                  *)
CallDelta(r, d) ==
  LET mixed == IF d.index = Legacy THEN ~r.legacy /\ r.order # <<>> ELSE r.legacy
  IN  IF mixed THEN [r EXCEPT !.failure = "upstream_parse"]
      ELSE IF d.index = Legacy
           THEN ToolCallDelta([r EXCEPT !.legacy = TRUE], [d EXCEPT !.id = "generated"])
           ELSE ToolCallDelta(r, d)

(* handleFrame and handleChunk of one frame of the chat stream.            *)
HandleFrame(r, d) ==
  IF r.sawDone \/ (r.failure # "" /\ d.kind \notin {"error", "done"}) THEN r
  ELSE CASE d.kind = "error" -> [r EXCEPT !.failure = d.code]
         [] d.kind = "done" -> [r EXCEPT !.sawDone = TRUE]
         [] d.kind = "finish" -> [r EXCEPT !.finish = d.reason]
         [] d.kind = "call" -> CallDelta(r, d)
         [] d.kind = "text" -> IF d.value = <<>> THEN r
                               ELSE IF d.key = "reasoning_content" THEN ReasoningDelta(r, d.value)
                               ELSE TextDelta(r, d.key, d.value)
         [] OTHER -> r

---------------------------------------------------------------------------
(* What the request demands of the answer: the tool policy and the format. *)
(* A strict schema is the set of what it refuses, as names with arguments. *)
(* A request asks for JSON text or for any; one piece is one JSON value.   *)
PolicyViolated(req, calls, refusal) ==
  LET n == Cardinality(DOMAIN calls)
  IN  /\ ~(refusal /\ n = 0)
      /\ \/ req.mode = "none" /\ n > 0
         \/ req.mode = "required" /\ n = 0
         \/ req.exact /\ n # 1
         \/ \E i \in DOMAIN calls :
              \/ calls[i].name \notin req.allowed
              \/ <<calls[i].name, calls[i].args>> \in req.unfit
FormatViolated(req, text) == req.json /\ Len(text) # 1

(* What an answer with these calls, text and refusal violates, if it is    *)
(* not cut.  The streaming and the JSON path ask it in this order.         *)
ContractViolation(req, calls, text) ==
  LET n == Cardinality(DOMAIN calls)
      refusal == text["refusal"] # <<>>
  IN  IF ~req.parallel /\ n > 1 THEN "parallel_tool_calls_violation"
      ELSE IF \E i \in DOMAIN calls : calls[i].name = "" \/ ~Whole(calls[i]) THEN "invalid_tool_call"
      ELSE IF PolicyViolated(req, calls, refusal) THEN "tool_contract_violation"
      ELSE IF n = 0 /\ ~refusal /\ FormatViolated(req, text["content"])
           THEN "response_format_violation" ELSE ""

(* validateJSONCompletion of an aggregated message.                        *)
JSONViolation(req, message) ==
  LET calls == message.calls IN
  IF message.finish \in Cut THEN ""
  ELSE IF Legacy \in DOMAIN calls /\ DOMAIN calls # {Legacy} THEN "upstream_parse"
  ELSE IF message.finish \in ToolFinish /\ DOMAIN calls = {} THEN "missing_tool_call"
  ELSE ContractViolation(req, calls, message.text)

(* CompletionError: the handler asks before it counts a success, and the   *)
(* writer again before the terminal event.                                 *)
Failure(r, req) ==
  IF r.failure # "" THEN r.failure
  ELSE IF ~r.sawDone /\ r.finish = "" THEN "upstream_truncated"
  ELSE IF r.finish \in ToolFinish /\ r.order = <<>> THEN "missing_tool_call"
  ELSE IF r.finish \in Cut THEN ""
  ELSE ContractViolation(req, r.calls, r.text)
EnsureIds(r) ==
  [r EXCEPT !.calls = [i \in DOMAIN r.calls |->
     [r.calls[i] EXCEPT !.id = IF @ = "" THEN "generated" ELSE @]]]
CompletionError(r, req) ==
  LET f == Failure(r, req)
  IN  IF r.lost THEN r
      ELSE IF f # "" \/ r.finish \in Cut THEN [r EXCEPT !.failure = f]
      ELSE FlushReadyCalls(EnsureIds(r))

---------------------------------------------------------------------------
(* The end of the stream.                                                  *)
MessageContent(r) == [p \in r.parts |-> r.text[p]]
CallContent(call) == [p \in {"args"} |-> call.args]

NotListed == [none |-> <<>>]

CloseReasoning(r) ==
  IF ~r.rsOpen THEN r
  ELSE [Done(r, r.rs, [p \in {"reasoning_content"} |-> r.text[p]]) EXCEPT !.rsOpen = FALSE]
CloseMessage(r) ==
  IF ~r.msgOpen THEN r ELSE [Done(r, r.msg, MessageContent(r)) EXCEPT !.msgOpen = FALSE]

(* A client may run a tool on the done event of its call: it is sent only  *)
(* when the response is complete.                                          *)
FaultyDoneCalls(r) == {i \in DOMAIN r.calls : r.calls[i].opened}
DoneCalls(r) == {i \in DOMAIN r.calls : r.status = "completed" /\ r.calls[i].opened}
CloseCalls(r0) ==
  LET r == CloseMessage(CloseReasoning(r0))
      DoneCall(call, item) == DoneItem(item, CallContent(call))
  IN  [Emit(r, [r.client EXCEPT !.items = ItemsOf(r, DoneCalls(r), DoneCall)],
            \A i \in DoneCalls(r) : DoneFits(r.client.items[r.calls[i].out], CallContent(r.calls[i])))
         EXCEPT !.calls = [i \in DOMAIN r.calls |-> [r.calls[i] EXCEPT !.opened = FALSE]]]

(* The items of the terminal event's response.                             *)
OutputItems(r) ==
  LET calls(o) == {i \in DOMAIN r.calls : r.calls[i].shown /\ r.calls[i].out = o}
  IN  [o \in DOMAIN r.client.items |->
         IF calls(o) # {} THEN CallContent(r.calls[CHOOSE i \in calls(o) : TRUE])
         ELSE IF o = r.rs THEN [p \in {"reasoning_content"} |-> r.text[p]]
         ELSE IF o = r.msg THEN MessageContent(r)
         ELSE NotListed]

FinishStream(r0, req) ==
  LET r == CompletionError(r0, req)
      status == IF r.failure # "" THEN "failed"
                ELSE IF r.finish \in Cut THEN "incomplete" ELSE "completed"
      c == CloseCalls([r EXCEPT !.status = status])
  IN  Emit(c, [c.client EXCEPT !.terminal = status, !.output = OutputItems(c)], TRUE)
=============================================================================
