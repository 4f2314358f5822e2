-------------------------------- MODULE Writers --------------------------------
(***************************************************************************)
(* The three response writers: anthropic/writer.ts, openai-chat/writer.ts  *)
(* and openai-responses/writer.ts.  A writer is a record w; deltas and the *)
(* boundary of its segment change it, and w.frames is what the client      *)
(* reads.  The frames of the protocols are cut down to those below; a      *)
(* block is a content block of Messages and an output item of Responses,   *)
(* and a choice of Chat has none.                                          *)
(***************************************************************************)
EXTENDS Integers, Sequences, SequencesExt

Protocols == {"messages", "chat", "responses"}
Kinds     == {"thinking", "text"}

\* A block of an answer: the fragments of a text, or a tool call.
Block(kind, of) == [kind |-> kind, of |-> of]
Call(id)        == Block("tool_use", <<id>>)
IsCall(b)       == b.kind = "tool_use"

\* start: headers and the first frames; open, delta, close: of block i; end: the frame
\* that says why the message ended; error: the frame of a failure.
Frame(ev, i, kind, of) == [ev |-> ev, i |-> i, kind |-> kind, of |-> of]
Plain(ev)              == Frame(ev, 0, "none", <<>>)

NewWriter(proto, stream) ==
  [proto |-> proto, stream |-> stream, started |-> FALSE, next |-> 0,
   index |-> [k \in Kinds |-> 0],   \* the last block of each kind; 0: none was emitted
   open |-> {}, frames |-> <<>>, body |-> <<>>, status |-> "waits"]

Live(w) == w.status = "waits"

Put(w, frame) == [w EXCEPT !.frames = Append(@, frame)]

EnsureStart(w) == IF w.started THEN w ELSE Put([w EXCEPT !.started = TRUE], Plain("start"))

-----------------------------------------------------------------------------
(* Blocks *)

Emitted(w, k) == w.index[k] # 0

Close(w, k) ==
  IF k \in w.open THEN Put([w EXCEPT !.open = @ \ {k}], Frame("close", w.index[k], k, <<>>))
  ELSE w

CloseAll(w) == Close(Close(w, "thinking"), "text")

NewBlock(w, k) ==
  LET i == w.next + 1
  IN  Put([w EXCEPT !.next = i, !.index[k] = i, !.open = @ \cup {k}], Frame("open", i, k, <<>>))

\* (mutant: the block of the other kind is not closed)
EnsureBlockOpen(w, k) ==
  IF w.proto = "chat" THEN [w EXCEPT !.index[k] = 1]
  ELSE IF Emitted(w, k) /\ k \in w.open THEN w ELSE NewBlock(w, k)

\* Messages has one open block and starts another whenever the kind changes; Responses
\* has one item of each kind and leaves both open; Chat has flags.
EnsureBlock(w, k) ==
  CASE w.proto = "messages"  -> IF k \in w.open THEN w ELSE NewBlock(CloseAll(w), k)
    [] w.proto = "responses" -> IF Emitted(w, k) THEN w ELSE NewBlock(w, k)
    [] w.proto = "chat"      -> [w EXCEPT !.index[k] = 1]

\* onThinking and onText
OnDelta(w, k, of) ==
  IF ~w.stream \/ ~Live(w) THEN w
  ELSE LET b == EnsureBlock(EnsureStart(w), k) IN Put(b, Frame("delta", b.index[k], k, of))

\* One call: a block of its own, or an element of the one tool_calls chunk.
EmitCall(w, b) ==
  LET i == w.next + 1
  IN  IF w.proto = "chat" THEN Put(w, Frame("delta", 0, "tool_use", b.of))
      ELSE Put(Put(Put([w EXCEPT !.next = i], Frame("open", i, "tool_use", <<>>)),
                   Frame("delta", i, "tool_use", b.of)),
               Frame("close", i, "tool_use", <<>>))

-----------------------------------------------------------------------------
(* The end of the segment *)

\* What the deltas did not bring, because the text came only with the result of the run
\* or because the answer is replayed.
EmitMissing(w, blocks) ==
  FoldLeft(LAMBDA v, b : IF IsCall(b) \/ Emitted(v, b.kind) THEN v ELSE OnDelta(v, b.kind, b.of),
           w, blocks)

EmitCalls(w, blocks) ==
  FoldLeft(LAMBDA v, b : IF IsCall(b) THEN EmitCall(v, b) ELSE v, w, blocks)

\* emitRemaining, and the loop of the Messages writer and of writeCompletedTurn, which
\* close what is open before rather than after the missing blocks: the frames are the same.
EmitRemaining(w, blocks) == EmitCalls(CloseAll(EmitMissing(w, blocks)), blocks)

Finish(w, blocks) ==
  IF ~w.stream THEN [w EXCEPT !.body = blocks, !.status = "finished"]
  ELSE [Put(EmitRemaining(EnsureStart(w), blocks), Plain("end")) EXCEPT !.status = "finished"]

\* A failure before the first frame is a JSON error with its own status.
Fail(w) ==
  LET failed == [w EXCEPT !.status = "failed"]
  IN  IF ~w.started THEN failed
      ELSE CASE w.proto = "messages"  -> Put(Put(CloseAll(failed), Plain("end")), Plain("error"))
             [] w.proto = "chat"      -> Put(Put(failed, Plain("error")), Plain("end"))
             [] w.proto = "responses" -> Put(failed, Plain("error"))

-----------------------------------------------------------------------------
(* What a client reads *)

\* A block begins where it is opened, and a delta goes to the block that it names.
ReadFrame(blocks, f) ==
  CASE f.ev = "open"  -> Append(blocks, Block(f.kind, <<>>))
    [] f.ev = "delta" -> [blocks EXCEPT ![f.i].of = @ \o f.of]
    [] OTHER          -> blocks

BlocksRead(frames) == FoldLeft(ReadFrame, <<>>, frames)

\* The message of a chat has a field for each kind, and one for the calls.
ReadChunk(message, f) ==
  IF f.ev # "delta" THEN message
  ELSE IF f.kind = "tool_use" THEN [message EXCEPT !.calls = Append(@, Block("tool_use", f.of))]
  ELSE [message EXCEPT !.texts[f.kind] = @ \o f.of]

FieldsRead(frames) ==
  FoldLeft(ReadChunk, [texts |-> [k \in Kinds |-> <<>>], calls |-> <<>>], frames)

NonEmptyBlock(k, of) == IF of = <<>> THEN <<>> ELSE <<Block(k, of)>>

\* The answer as a client puts it together: block by block, or the fields of the message.
Assembled(w) ==
  IF ~w.stream THEN w.body
  ELSE IF w.proto # "chat" THEN BlocksRead(w.frames)
  ELSE LET message == FieldsRead(w.frames)
       IN  NonEmptyBlock("thinking", message.texts["thinking"])
             \o NonEmptyBlock("text", message.texts["text"]) \o message.calls
=============================================================================
