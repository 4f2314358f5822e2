------------------------------ MODULE Transcripts ------------------------------
(***************************************************************************)
(* How the conversation that a client sends is read: parse.ts of the three *)
(* protocols, as far as messages and tool results go, and the keys by      *)
(* which an ordinary turn finds the agent of the turn before it            *)
(* (cursor-agent-turn.ts).  Digests are the values they are taken of;      *)
(* model, tools, policy and tenant are those of the turn before.           *)
(***************************************************************************)
EXTENDS Integers, Sequences, SequencesExt, FiniteSets

Message(role, blocks) == [role |-> role, blocks |-> blocks]
Said(text)            == <<[kind |-> "text", of |-> <<text>>]>>
ResultOf(id)          == [kind |-> "tool_result", of |-> <<id>>]

\* An item of a request: a message of Messages or Chat, or an input item of Responses.
Item(type, blocks) == [type |-> type, blocks |-> blocks]

\* parseMessage and parseCompatibilityToolMessage: a tool message becomes a message of its own.
ParseMessages(items) ==
  [n \in 1..Len(items) |->
     Message(IF items[n].type = "assistant" THEN "assistant" ELSE "user", items[n].blocks)]

NonEmpty(role, blocks) == IF blocks = <<>> THEN <<>> ELSE <<Message(role, blocks)>>

\* parseChatCompletionsRequest gathers tool messages that follow each other into one.
ChatItem(p, item) ==
  IF item.type = "tool" THEN [p EXCEPT !.results = @ \o item.blocks]
  ELSE [messages |-> p.messages \o NonEmpty("user", p.results)
                                \o <<Message(item.type, item.blocks)>>,
        results |-> <<>>]

ParseChat(items) ==
  LET p == FoldLeft(ChatItem, [messages |-> <<>>, results |-> <<>>], items)
  IN  p.messages \o NonEmpty("user", p.results)

\* parseInput of Responses: results and assistant items wait for the next item of
\* another sort, and a message ends both.
FlushAssistant(p) == [p EXCEPT !.messages = @ \o NonEmpty("assistant", p.assistant), !.assistant = <<>>]
FlushResults(p)   == [p EXCEPT !.messages = @ \o NonEmpty("user", p.results), !.results = <<>>]

\* (mutant: a message is put before the assistant items that wait)
ResponsesItemLate(p, item) ==
  CASE item.type = "tool" -> [FlushAssistant(p) EXCEPT !.results = @ \o item.blocks]
    [] item.type \in {"reasoning", "function_call"} ->
         [FlushResults(p) EXCEPT !.assistant = @ \o item.blocks]
    [] OTHER -> LET q == FlushResults(p)
                IN  [q EXCEPT !.messages = Append(@, Message(item.type, item.blocks))]

ResponsesItem(p, item) ==
  CASE item.type = "tool" -> [FlushAssistant(p) EXCEPT !.results = @ \o item.blocks]
    [] item.type \in {"reasoning", "function_call"} ->
         [FlushResults(p) EXCEPT !.assistant = @ \o item.blocks]
    [] OTHER -> LET q == FlushAssistant(FlushResults(p))
                IN  [q EXCEPT !.messages = Append(@, Message(item.type, item.blocks))]

ParseResponses(items) ==
  LET p == FoldLeft(ResponsesItem, [messages |-> <<>>, results |-> <<>>, assistant |-> <<>>], items)
  IN  FlushAssistant(FlushResults(p)).messages

Parse(proto, items) ==
  CASE proto = "messages"  -> ParseMessages(items)
    [] proto = "chat"      -> ParseChat(items)
    [] proto = "responses" -> ParseResponses(items)

-----------------------------------------------------------------------------
(* Tool results *)

Rejected == <<"rejected">>
Nothing  == <<>>

\* parseContinuation: the calls that one message answers; text beside results is refused.
ContinuationOf(message) ==
  LET of == DOMAIN message.blocks
      IsResult(n) == message.blocks[n].kind = "tool_result"
  IN  CASE \A n \in of : ~IsResult(n) -> Nothing
        [] \A n \in of : IsResult(n)  -> [n \in of |-> message.blocks[n].of[1]]
        [] OTHER                      -> Rejected

IsUser(m) == m.role = "user"

LastUser(messages) == SelectLastInSeq(messages, IsUser)

\* (mutant: results that further text follows are still a continuation)
ContinuationAnywhere(proto, messages) ==
  LET n == SelectLastInSeq(messages, LAMBDA m : IsUser(m) /\ ContinuationOf(m) # Nothing)
  IN  IF n = 0 THEN Nothing ELSE ContinuationOf(messages[n])

\* Chat looks at the last user message; the others look at the last message.
Continuation(proto, messages) ==
  LET last == IF proto = "chat" THEN LastUser(messages) ELSE Len(messages)
  IN  IF last = 0 \/ ~IsUser(messages[last]) THEN Nothing ELSE ContinuationOf(messages[last])

-----------------------------------------------------------------------------
(* Ordinary turns *)

ParentOf(messages, before) ==
  LET n == SelectLastInSeq(SubSeq(messages, 1, before - 1), LAMBDA m : m.role = "assistant")
  IN  IF n = 0 THEN <<>> ELSE messages[n].blocks

TurnIndex(messages) == Cardinality({n \in 1..Len(messages) : IsUser(messages[n])})

\* cursorAgentTurnLineageKey of a request
LineageKey(messages) ==
  LET u == LastUser(messages)
  IN  [history |-> SubSeq(messages, 1, u - 1), parent |-> ParentOf(messages, u),
       turnIndex |-> TurnIndex(messages)]

\* nextCursorAgentTurnLineageKey: the key under which the agent of a turn is found again.
NextLineageKey(messages, answer) ==
  [history |-> Append(SubSeq(messages, 1, LastUser(messages)), Message("assistant", answer)),
   parent |-> answer, turnIndex |-> TurnIndex(messages) + 1]

-----------------------------------------------------------------------------
(* What a client sends *)

\* An answer goes back as one assistant message, or as one item for each of its blocks.
EchoItems(proto, answer) ==
  IF proto # "responses" THEN <<Item("assistant", answer)>>
  ELSE [n \in 1..Len(answer) |->
          Item(CASE answer[n].kind = "thinking" -> "reasoning"
                 [] answer[n].kind = "tool_use" -> "function_call"
                 [] OTHER                       -> "assistant", <<answer[n]>>)]

\* Results: the blocks of one user message, or an item for each call.
ResultItems(proto, ids) ==
  IF proto = "messages" THEN <<Item("user", [n \in 1..Len(ids) |-> ResultOf(ids[n])])>>
  ELSE [n \in 1..Len(ids) |-> Item("tool", <<ResultOf(ids[n])>>)]
=============================================================================
