----------------------------- MODULE ChatStream -----------------------------
(***************************************************************************)
(* One successful chat call from the upstream's first byte to the client's *)
(* last (internal/upstream/sse.go: Stream, Aggregate; idle.go; the end of  *)
(* the handler's loop; chat_output_contract.go; responses.go).  The frames *)
(* the upstream sends reach the client through one of three writers:       *)
(*   "chat"       the client gets what Stream writes;                      *)
(*   "contract"   a request with a tool policy: finish, error and DONE are *)
(*                kept back until the whole answer has been checked;       *)
(*   "responses"  the Responses API, see ResponsesStream.                  *)
(* A request that does not stream gets the aggregated message as JSON.     *)
(*                                                                         *)
(* The reads, the translation and the writes of one frame happen in one    *)
(* goroutine and are one action.  Between any two the client may stop      *)
(* reading, which blocks the next write, for the server sets no time limit *)
(* on one, or disconnect, which fails it; the upstream may stop at any     *)
(* point, stay silent, or keep the connection alive with comments; a       *)
(* second goroutine cuts off a body that has been silent too long.         *)
(***************************************************************************)
EXTENDS ResponsesStream

CONSTANTS
  Requests,    \* what the client asks of the answer
  Events,      \* what an upstream frame may bring, see UpstreamStream
  MaxEvents    \* bound: upstream events of one answer

ASSUME EventsAssumption == MaxEvents \in Nat /\ Events \subseteq Event
ASSUME RequestsAssumption ==
  Requests \subseteq [sink : {"chat", "contract", "responses"}, stream : BOOLEAN, json : BOOLEAN,
                     parallel : BOOLEAN, mode : {"auto", "none", "required"}, exact : BOOLEAN,
                     allowed : SUBSET Words, unfit : SUBSET (Words \X Seq(Words))]

VARIABLES
  request,
  phase,      \* reading -> replying (Stream is back) -> closing (deferred finish) -> closed
  up,         \* UpstreamStream's record
  named,      \* toolCallSeen: calls whose name has gone out
  failure,    \* the error Stream or Aggregate ends with
  held,       \* contract: what it would aggregate from the frames it let pass
  rw,         \* responses: ResponsesStream's record
  chat,       \* what a chat client has put together
  verdict,    \* the handler's: running, success (NoteSuccess) or failed
  stalled,    \* the client has stopped reading for good, but stays connected
  gone,       \* the client has disconnected
  cancelled,  \* the context of the upstream call is done
  quiet,      \* nothing was read since the monitor's last look
  events,
  meant       \* history: the texts the upstream's pieces add up to

vars == <<meant, request, phase, up, named, failure, held, rw, chat, verdict, stalled, gone, cancelled, quiet, events>>

NewHeld == [st |-> NewStream, error |-> "", checked |-> FALSE]
NewChat == [text |-> [k \in TextKeys |-> <<>>], calls |-> Empty, finish |-> "",
            error |-> "", dones |-> 0, late |-> FALSE]

Init ==
  /\ request \in Requests
  /\ phase = "reading" /\ up = NewStream /\ named = {} /\ failure = ""
  /\ held = NewHeld /\ rw = NewWriter /\ chat = NewChat
  /\ verdict = "running" /\ stalled = FALSE /\ gone = FALSE /\ cancelled = FALSE /\ quiet = FALSE /\ events = 0
  /\ meant = [text |-> NewStream.text, args |-> [i \in Indexes |-> <<>>]]

Streams(sink) == request.stream /\ request.sink = sink

---------------------------------------------------------------------------
(* The client of the chat API adds up what it is sent.  A tool's name is   *)
(* appended, as the official client does, that of the old form replaced.   *)
Receive(c, d) ==
  LET late == c.dones > 0 \/ (c.error # "" /\ d.kind # "done")
                \/ (c.finish # "" /\ d.kind \notin {"done", "nothing"})
      call == IF d.kind = "call" THEN
                IF d.index \in DOMAIN c.calls THEN c.calls[d.index]
                ELSE [id |-> "", names |-> <<>>, args |-> <<>>]
              ELSE Nothing
      got == CASE d.kind = "text" -> [c EXCEPT !.text[d.key] = @ \o d.value]
               [] d.kind = "call" -> [c EXCEPT !.calls = Put(@, d.index,
                    [id |-> IF d.id # "" THEN d.id ELSE call.id,
                     names |-> IF d.name = "" THEN call.names
                               ELSE IF d.index = Legacy THEN <<d.name>>
                               ELSE Append(call.names, d.name),
                     args |-> call.args \o d.args])]
               [] d.kind = "finish" -> [c EXCEPT !.finish = d.reason]
               [] d.kind = "error" -> [c EXCEPT !.error = d.code]
               [] d.kind = "done" -> [c EXCEPT !.dones = @ + 1]
               [] OTHER -> c
  IN  [got EXCEPT !.late = @ \/ late]

Fin(reason) == [kind |-> "finish", reason |-> reason]
Err(code) == [kind |-> "error", code |-> code]
DoneMark == [kind |-> "done"]

(* chatContractWriter.frame: deltas pass, all that ends an answer is kept. *)
(* The writer later aggregates the frames as it received them: held.st is  *)
(* that aggregation, one frame at a time.                                  *)
Passes(d) == d.kind \in {"text", "call"}
AsEvent(d) ==
  CASE d.kind = "text" -> [kind |-> "text", key |-> d.key, value |-> d.value, whole |-> FALSE]
    [] d.kind = "call" -> [kind |-> "call", index |-> d.index, id |-> d.id, name |-> d.name,
                           has |-> d.has, args |-> d.args, whole |-> FALSE]
    [] OTHER -> d
Retain(h, d) ==
  IF h.st.done \/ h.error # "" THEN h
  ELSE CASE d.kind = "error" -> [h EXCEPT !.error = d.code]
         [] d.kind = "done" -> [h EXCEPT !.st.done = TRUE]
         [] OTHER -> [h EXCEPT !.st = Observe(@, AsEvent(d),
                                              IF d.kind = "call" THEN d.index ELSE "0")]

(* Writing the frame d to the request's writer.                            *)
Write(d) ==
  /\ chat' = IF ~gone /\ (Streams("chat") \/ (Streams("contract") /\ Passes(d)))
             THEN Receive(chat, d) ELSE chat
  /\ held' = IF ~gone /\ Streams("contract") THEN Retain(held, d) ELSE held
  /\ rw' = IF Streams("responses") THEN HandleFrame([rw EXCEPT !.lost = gone], d) ELSE rw

---------------------------------------------------------------------------
(* The upstream.                                                           *)

Stop(code) ==
  /\ phase' = "replying" /\ failure' = code
  /\ UNCHANGED <<request, named, held, rw, chat, verdict, stalled, gone, cancelled>>

(* A delta goes on, a whole message says what there is in all.             *)
Said(old, e, value) == IF e.whole THEN value ELSE old \o value
Meaning(e, i) ==
  CASE e.kind = "text" -> [meant EXCEPT !.text[e.key] = Said(@, e, e.value)]
    [] e.kind = "call" /\ e.has -> [meant EXCEPT !.args[i] = Said(@, e, e.args)]
    [] OTHER -> meant

(* One data frame.  A frame that contradicts earlier ones ends the stream  *)
(* before it is written, a reasoning loop after; a write error at once.    *)
Data(e, i) ==
  LET delta == Increment(up, e, i)
      next == Observe(up, e, i)
      code == IF gone /\ request.stream THEN "client_gone"
              ELSE IF IsLooping(next) THEN "upstream_reasoning_loop" ELSE ""
  IN
  /\ phase = "reading" /\ events < MaxEvents /\ (request.stream => ~stalled)
  /\ i \in IF e.kind = "call" THEN Places(up, e) ELSE {"0"}
  /\ events' = events + 1 /\ quiet' = FALSE /\ meant' = Meaning(e, i)
  /\ IF Contradicts(up, e, i)
     THEN Stop("upstream_parse") /\ UNCHANGED up
     ELSE /\ up' = next
          /\ named' = IF request.stream THEN Named(delta, named) ELSE named
          /\ IF request.stream /\ ~(e.kind = "call" /\ IsPlaceholder(up, e))
             THEN Write(Frame(delta, named))
             ELSE UNCHANGED <<held, rw, chat>>
          /\ failure' = code /\ phase' = IF code = "" THEN phase ELSE "replying"
          /\ UNCHANGED <<request, verdict, stalled, gone, cancelled>>

(* A line that carries no data: it counts as read, and a comment is passed *)
(* on, except by the Responses API's writer.                               *)
Comment ==
  LET passes == request.stream /\ request.sink # "responses" IN
  /\ phase = "reading" /\ (passes => ~stalled)
  /\ quiet' = FALSE
  /\ IF passes /\ gone THEN Stop("client_gone")
     ELSE UNCHANGED <<request, phase, named, failure, held, rw, chat, verdict, stalled, gone, cancelled>>
  /\ UNCHANGED <<up, events, meant>>

(* [DONE], the end of the body, an error event, a frame that is not what   *)
(* it should be, a failed read.                                            *)
Ended == {"done", "eof", "upstream_error", "upstream_parse", "upstream_read_error"}
EndOfBody(how) ==
  /\ phase = "reading"
  /\ up' = [up EXCEPT !.done = (how = "done")]
  /\ Stop(IF how \in {"done", "eof"} THEN "" ELSE how)
  /\ UNCHANGED <<quiet, events, meant>>

(* A read on a cancelled context fails.                                    *)
CutOff ==
  /\ phase = "reading" /\ cancelled
  /\ Stop("upstream_read_error")
  /\ UNCHANGED <<up, quiet, events, meant>>

(* The idle monitor looks from time to time, and cancels the call when     *)
(* nothing was read for as long as it tolerates.                           *)
FaultyWatch ==
  /\ phase = "reading" /\ ~cancelled
  /\ quiet' = TRUE
  /\ UNCHANGED <<request, phase, up, named, failure, held, rw, chat, verdict, stalled, gone, cancelled, events, meant>>
Watch ==
  /\ phase = "reading" /\ ~cancelled
  /\ quiet' = TRUE /\ cancelled' = quiet
  /\ UNCHANGED <<request, phase, up, named, failure, held, rw, chat, verdict, stalled, gone, events, meant>>

Stall ==
  /\ ~gone /\ ~stalled /\ phase # "closed"
  /\ stalled' = TRUE
  /\ UNCHANGED <<request, phase, up, named, failure, held, rw, chat, verdict, gone, cancelled, quiet, events, meant>>

Disconnect ==
  /\ ~gone /\ phase # "closed"
  /\ gone' = TRUE /\ stalled' = FALSE /\ cancelled' = TRUE
  /\ UNCHANGED <<request, phase, up, named, failure, held, rw, chat, verdict, quiet, events, meant>>

---------------------------------------------------------------------------
(* chatContractWriter.CompletionError: what it ends the answer with.       *)
ContractError(h) ==
  IF h.error # "" THEN h.error
  ELSE IF End(h.st) # "" THEN End(h.st)
  ELSE JSONViolation(request, Aggregate(h.st))
ContractFrame(h) ==
  IF ContractError(h) # "" THEN Err(ContractError(h)) ELSE Fin(Aggregate(h.st).finish)

(* Stream returns; the handler asks the writer whether the answer is       *)
(* complete before it counts the success.  Code is how Stream ended.       *)
Code == IF failure # "" THEN failure ELSE End(up)
Lost == gone \/ failure = "client_gone"

(* The tail of Stream: the error, or the finish frame that was held back,  *)
(* if there is one, and one DONE.                                          *)
LastFrame == IF Code # "" THEN Err(Code) ELSE IF up.finish # "" THEN Fin(up.finish) ELSE Nothing
ReceiveEnd(c, d) == Receive(Receive(c, d), DoneMark)
RetainEnd(h) == IF Lost THEN h ELSE Retain(Retain(h, LastFrame), DoneMark)
HandleEnd(r) ==
  IF Lost THEN [r EXCEPT !.lost = TRUE]
  ELSE HandleFrame(HandleFrame([r EXCEPT !.lost = FALSE], LastFrame), DoneMark)

Return(sink) ==
  /\ phase = "replying" /\ Streams(sink) /\ ~stalled
  /\ phase' = "closing" /\ failure' = Code
  /\ UNCHANGED <<request, up, named, stalled, gone, cancelled, quiet, events, meant>>

ReplyChat ==
  /\ Return("chat")
  /\ chat' = IF Lost THEN chat ELSE ReceiveEnd(chat, LastFrame)
  /\ verdict' = IF Code = "" /\ ~Lost THEN "success" ELSE "failed"
  /\ UNCHANGED <<held, rw>>

ReplyContract ==
  LET h == RetainEnd(held)
      asked == Code = "" /\ ~Lost
  IN
  /\ Return("contract")
  /\ held' = IF asked THEN [h EXCEPT !.checked = TRUE] ELSE h
  /\ chat' = IF asked THEN ReceiveEnd(chat, ContractFrame(h)) ELSE chat
  /\ verdict' = IF asked /\ ContractError(h) = "" THEN "success" ELSE "failed"
  /\ UNCHANGED rw

FaultyReplyResponses ==
  /\ Return("responses")
  /\ rw' = HandleEnd(rw)
  /\ verdict' = IF Code = "" /\ ~Lost THEN "success" ELSE "failed"
  /\ UNCHANGED <<held, chat>>
ReplyResponses ==
  LET r == HandleEnd(rw)
      asked == Code = "" /\ ~Lost
      checked == CompletionError(r, request)
  IN
  /\ Return("responses")
  /\ rw' = IF asked THEN checked ELSE r
  /\ verdict' = IF asked /\ checked.failure = "" THEN "success" ELSE "failed"
  /\ UNCHANGED <<held, chat>>

(* The same for a request that does not stream: the message is validated   *)
(* and answered as JSON; the Responses writer keeps it for its finish.     *)
Answer(code) ==
  IF gone THEN chat
  ELSE IF code # "" THEN [chat EXCEPT !.error = code, !.dones = 1]
  ELSE [chat EXCEPT !.text = up.text, !.finish = Aggregate(up).finish, !.dones = 1,
                    !.calls = [i \in DOMAIN Aggregate(up).calls |->
                                 [id |-> up.calls[i].id, args |-> up.calls[i].args,
                                  names |-> IF up.calls[i].name = "" THEN <<>> ELSE <<up.calls[i].name>>]]]
ReplyJSON ==
  LET read == IF failure # "" THEN failure ELSE End(up)
      code == IF read # "" THEN read
              ELSE IF request.sink = "chat" THEN "" ELSE JSONViolation(request, Aggregate(up))
  IN
  /\ phase = "replying" /\ ~request.stream /\ ~stalled
  /\ phase' = "closing" /\ failure' = code
  /\ chat' = Answer(code)
  /\ verdict' = IF code = "" THEN "success" ELSE "failed"
  /\ UNCHANGED <<request, up, named, held, rw, stalled, gone, cancelled, quiet, events, meant>>

(* The deferred finish of the writers: the contract writer ends an answer  *)
(* the handler did not ask about, the Responses writer sends the rest.     *)
Finish ==
  /\ phase = "closing" /\ phase' = "closed"
  /\ UNCHANGED <<request, up, named, failure, verdict, stalled, gone, cancelled, quiet, events, meant>>

FinishChat ==
  /\ Finish /\ (request.sink = "chat" \/ ~request.stream)
  /\ UNCHANGED <<held, chat, rw>>
FinishContract ==
  /\ Finish /\ Streams("contract") /\ (held.checked \/ ~stalled)
  /\ chat' = IF held.checked \/ Lost THEN chat ELSE ReceiveEnd(chat, ContractFrame(held))
  /\ held' = [held EXCEPT !.checked = TRUE]
  /\ UNCHANGED rw
FinishResponses ==
  /\ Finish /\ Streams("responses") /\ ~stalled
  /\ rw' = FinishStream([rw EXCEPT !.lost = @ \/ gone], request)
  /\ UNCHANGED <<held, chat>>

---------------------------------------------------------------------------
Closed == phase = "closed" /\ UNCHANGED vars

Next ==
  \/ \E e \in Events : \E i \in Indexes : Data(e, i)
  \/ \E how \in Ended : EndOfBody(how)
  \/ Comment \/ CutOff \/ Watch \/ Stall \/ Disconnect
  \/ ReplyChat \/ ReplyContract \/ ReplyResponses \/ ReplyJSON
  \/ FinishChat \/ FinishContract \/ FinishResponses
  \/ Closed

Spec == Init /\ [][Next]_vars

(* The monitor's ticker and the request's own goroutine run on while no    *)
(* write blocks; nothing is assumed of the upstream or the client.  The    *)
(* writers run in the same goroutine: StreamCloses is stated for the       *)
(* answers they leave alone.                                               *)
FairSpec ==
  /\ Spec
  /\ WF_vars(Watch) /\ WF_vars(CutOff)
  /\ WF_vars(ReplyChat) /\ WF_vars(ReplyJSON) /\ WF_vars(FinishChat)

---------------------------------------------------------------------------
CallView(call) == [id |-> call.id, names |-> IF call.name = "" THEN <<>> ELSE <<call.name>>,
                   args |-> call.args]
Succeeded ==
  IF Streams("responses") THEN rw.client.terminal \in {"completed", "incomplete"}
  ELSE chat.error = "" /\ chat.dones = 1

(* A client that was told its answer is complete has put together exactly  *)
(* what the upstream said, and the message that a request without          *)
(* streaming gets: no piece is missing, none is there twice, however       *)
(* deltas and whole messages were mixed, and a tool has its name once      *)
(* (Stream, stripToolCallNames, responsesWriter).                          *)
SameAnswer ==
  phase = "closed" /\ Succeeded /\ up.finish \notin Cut =>
    LET message == Aggregate(up) IN
    /\ message.text = meant.text
    /\ \A i \in DOMAIN message.calls : message.calls[i].args = meant.args[i]
    /\ IF Streams("responses")
       THEN /\ rw.text = message.text
            /\ DOMAIN rw.calls = DOMAIN message.calls
            /\ \A i \in DOMAIN rw.calls :
                 LET o == rw.calls[i].out IN
                 /\ o \in DOMAIN rw.client.items
                 /\ rw.client.items[o].type = Type(message.calls[i].name)
                 /\ rw.client.items[o].parts["args"] = message.calls[i].args
       ELSE /\ chat.text = message.text
            /\ chat.calls = [i \in DOMAIN message.calls |-> CallView(message.calls[i])]

(* The account is credited with a success exactly when the client, if it   *)
(* is still there, was told of one; every answer ends once.                *)
VerdictIsSeen ==
  phase = "closed" /\ ~gone =>
    /\ (verdict = "success") = Succeeded
    /\ IF Streams("responses") THEN rw.client.terminal # ""
       ELSE chat.dones = 1

(* No client is told to run a tool whose arguments are not all there, or   *)
(* that its request forbids: a finish marker or the done event of a call   *)
(* comes only after the upstream ended well, with every call whole, as     *)
(* many of them as the request allows, and all of tools it chose, with     *)
(* arguments their strict schemas accept (end, chatContractWriter,         *)
(* responsesWriter.closeCalls).                                            *)
ToolsAreWhole ==
  LET ended == \/ ~Streams("responses") /\ chat.finish \notin Cut \cup {""}
               \/ \E o \in DOMAIN rw.client.items :
                    /\ rw.client.items[o].type \in {"function_call", "custom_tool_call"}
                    /\ ~rw.client.items[o].open
      n == Cardinality(DOMAIN up.calls)
  IN  ended =>
        /\ failure = ""
        /\ \A i \in DOMAIN up.calls : Whole(up.calls[i])
        /\ request.sink # "chat" =>
             /\ \A i \in DOMAIN up.calls : up.calls[i].name # ""
             /\ request.parallel \/ n <= 1
             /\ request.mode = "none" => n = 0
             /\ request.mode = "required" => n > 0 \/ meant.text["refusal"] # <<>>
             /\ request.exact => n = 1 \/ (n = 0 /\ meant.text["refusal"] # <<>>)
             /\ \A i \in DOMAIN up.calls :
                  /\ up.calls[i].name \in request.allowed
                  /\ <<up.calls[i].name, up.calls[i].args>> \notin request.unfit
             /\ request.json /\ n = 0 => Len(meant.text["content"]) = 1
                                        \/ meant.text["refusal"] # <<>>

(* The events of a Responses stream and the frames of a chat stream fit    *)
(* together: items are announced before their deltas and once, done events *)
(* repeat the deltas, nothing follows the end, and the terminal response   *)
(* lists the announced items with what was sent of them.                   *)
StreamFits ==
  /\ ~rw.client.confused /\ ~chat.late
  /\ rw.client.terminal # "" =>
       \A o \in DOMAIN rw.client.items :
         LET item == rw.client.items[o] IN
         /\ (item.type = "") = (rw.client.output[o] = NotListed)
         /\ item.open => rw.client.terminal # "completed"
         /\ \A p \in DOMAIN item.parts : item.parts[p] = rw.client.output[o][p]

(* A call can only be kept open from outside: it comes to its end, and its *)
(* account is released, unless the upstream sends keep-alive comments for  *)
(* ever, each before the idle monitor has run out, or the client stops     *)
(* reading for good without disconnecting (monitorBody, and the server     *)
(* without a write timeout).  Data cannot go on for ever here (MaxEvents), *)
(* and the idle time is positive, as normalize makes it.                   *)
StreamCloses ==
  request.sink = "chat" \/ ~request.stream =>
    <>(phase = "closed") \/ []<><<Comment>>_vars \/ <>[]stalled
=============================================================================
