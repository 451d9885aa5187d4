---------------------------- MODULE MCChatStream ----------------------------
(* Finite instances of ChatStream for TLC.                                  *)
EXTENDS ChatStream

Text(key, value, whole) == [kind |-> "text", key |-> key, value |-> value, whole |-> whole]
Call(index, id, name, has, args, whole) ==
  [kind |-> "call", index |-> index, id |-> id, name |-> name, has |-> has, args |-> args, whole |-> whole]
Finishes == {[kind |-> "finish", reason |-> r] : r \in {"stop", "length", "tool_calls"}}

MCWords == {"", "A", "B", "f", "p", "x", "{", "}", "stop", "length", "tool_calls"}
MCEvents == Finishes \cup
  { Text("content", <<"x">>, FALSE),
    Text("content", <<"x", "x">>, TRUE),
    Text("reasoning_content", <<"x">>, FALSE),
    Text("refusal", <<"x">>, FALSE),
    Call("0", "A", "f", FALSE, <<>>, FALSE),
    Call("0", "", "f", TRUE, <<"{">>, FALSE),
    Call("0", "", "", TRUE, <<"}">>, FALSE),
    Call("0", "A", "f", TRUE, <<"{", "}">>, TRUE),
    Call("1", "", "", TRUE, <<"{", "}">>, FALSE),
    Call("1", "B", "f", FALSE, <<>>, FALSE),
    Call("0", "B", "p", TRUE, <<"{", "}">>, TRUE),
    Call(Legacy, "", "f", TRUE, <<"{", "}">>, FALSE),
    Call(Legacy, "", "", TRUE, <<>>, FALSE) }

\* A request that asks nothing of the tools; one for several calls or for one
\* at most, in JSON or not.
Request(sink, stream, parallel, json) ==
  [sink |-> sink, stream |-> stream, parallel |-> parallel, json |-> json,
   mode |-> "auto", exact |-> FALSE, allowed |-> MCWords, unfit |-> {}]
\* Tools of both kinds: the schema of f asks for an argument, only f is
\* allowed, f is the tool that was named.
Strict(req) == [req EXCEPT !.unfit = {<<"f", <<"{", "}">>>>}]
Allowed(req) == [req EXCEPT !.allowed = {"f"}]
Chosen(req) == [Allowed(req) EXCEPT !.mode = "required", !.exact = TRUE]
MCRequests ==
  { Request("chat", TRUE, TRUE, FALSE),
    Strict(Request("contract", TRUE, FALSE, TRUE)),
    [Request("contract", TRUE, TRUE, FALSE) EXCEPT !.mode = "none"],
    Request("responses", TRUE, TRUE, FALSE),
    Chosen(Request("responses", TRUE, TRUE, FALSE)),
    Allowed(Request("responses", FALSE, TRUE, TRUE)) }
=============================================================================
