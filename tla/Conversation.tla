----------------------------- MODULE Conversation -----------------------------
(***************************************************************************)
(* One response segment and all that read it: the deltas of the run, its   *)
(* boundary, clients that join late or ask again in any protocol, and what *)
(* each of them may send back (event-pump.ts attach, ingestDelta,          *)
(* flushToolBatch, publish; run-coordinator.ts drive, applyBoundary,       *)
(* replays; what cursor-runtime.ts and sand-runtime.ts pass on of a run).  *)
(* Who may join is in ToolSession and OrdinaryTurns.                       *)
(*                                                                         *)
(* A fragment is known by its number, that of the delta which brings it.   *)
(* The SDK sends no text while it waits for the results of a published     *)
(* batch.                                                                  *)
(***************************************************************************)
EXTENDS Writers, Transcripts

CONSTANTS
  Clients,
  Calls,                  \* tool use ids
  Hello, More,            \* what the user says first, and then
  MaxDeltas               \* bound

VARIABLES
  runtime,    \* what drives the agent
  made,       \* the kinds of the fragments that the run has made
  early,      \* createDeltaBridge: the fragments that came before send returned
  history,    \* EventPump.deltaHistory: the fragments that the pump has heard
  batch,      \* EventPump.openBatch
  phase,      \* sending, running, or the type of the published boundary
  answer,     \* the blocks of the boundary's turn, which are also what is recorded
  applied,    \* the boundary was applied, so that its answer can be replayed
  writer      \* the response of each client

vars == <<runtime, made, early, history, batch, phase, answer, applied, writer>>

\* bindAgent: the Sand profile with a session token is driven by the gateway itself.
Runtimes == {"sdk", "sand"}

NoWriter == [NewWriter("chat", FALSE) EXCEPT !.status = "none"]

Init ==
  /\ runtime \in Runtimes /\ made = <<>> /\ early = <<>> /\ history = <<>>
  /\ batch = <<>> /\ phase = "sending" /\ answer = <<>> /\ applied = FALSE
  /\ writer = [c \in Clients |-> NoWriter]

-----------------------------------------------------------------------------
(* The run *)

\* The fragments ns, of these kinds, are given to a writer.
Deltas(w, kinds, ns) == FoldLeft(LAMBDA v, n : OnDelta(v, kinds[n], <<n>>), w, ns)

\* ingestDelta and handle: the pump keeps fragments and gives them to its sinks.
Ingest(ns) ==
  /\ history' = history \o ns
  /\ writer' = [c \in Clients |-> Deltas(writer[c], made', ns)]

\* Before there is a pump deltas wait for it.
Bridge(n) ==
  IF phase = "sending" THEN early' = Append(early, n) /\ UNCHANGED <<history, writer>>
  ELSE Ingest(<<n>>) /\ UNCHANGED early

\* The run calls onDelta.
Delta(k) ==
  /\ phase \in {"sending", "running"} /\ Len(made) < MaxDeltas
  /\ made' = Append(made, k)
  /\ Bridge(Len(made) + 1)
  /\ UNCHANGED <<runtime, batch, phase, answer, applied>>

SendReturns ==
  /\ phase = "sending" /\ phase' = "running"
  /\ UNCHANGED made /\ Ingest(early) /\ early' = <<>>
  /\ UNCHANGED <<runtime, batch, answer, applied>>

\* A direct run calls no tools.
CallTool(id) ==
  /\ phase = "running" /\ runtime = "sdk" /\ \A n \in 1..Len(batch) : batch[n] # id
  /\ batch' = Append(batch, id)
  /\ UNCHANGED <<runtime, made, early, history, phase, answer, applied, writer>>

\* Every fragment is also an event of the run's stream.  The adapter of the SDK leaves
\* those out when there is a sink for deltas, and the driver always gives it one; a
\* direct run keeps all for the end of its response.
Fragments == [n \in 1..Len(made) |-> n]
SdkEvents(hasDeltaSink) == IF hasDeltaSink THEN <<>> ELSE Fragments
SandEvents == Fragments
StreamEvents == IF runtime = "sdk" THEN SdkEvents(TRUE) ELSE SandEvents

\* (mutant: what the stream repeats is taken for new)
HandleAll(events) == events

\* handle: once a delta was seen the pump ignores what the stream says.
Handle(events) == IF history # <<>> THEN <<>> ELSE events

StreamEnds == UNCHANGED made /\ Ingest(Handle(StreamEvents))

OfKind(k, kinds, ns) == FoldLeft(LAMBDA s, n : IF kinds[n] = k THEN Append(s, n) ELSE s, <<>>, ns)

\* EventPump.text and thinking
Text(k) == OfKind(k, made, history')

Publish(type, blocks) ==
  /\ phase = "running"
  /\ phase' = type /\ answer' = blocks
  /\ UNCHANGED <<runtime, made, early, applied>>

\* The settle time is over.
FlushToolBatch ==
  /\ batch # <<>> /\ batch' = <<>>
  /\ UNCHANGED <<history, writer>>
  /\ Publish("tools", NonEmptyBlock("thinking", Text("thinking"))
                      \o NonEmptyBlock("text", Text("text"))
                      \o [n \in 1..Len(batch) |-> Call(batch[n])])

\* The text of the result that wait gives, when it has one: what was streamed, or the
\* text of an SDK run that streamed none, as fragment 0.
ResultTexts ==
  LET streamed == OfKind("text", made, Fragments)
  IN  {streamed} \cup (IF runtime = "sdk" THEN {<<>>} ELSE {})
        \cup (IF runtime = "sdk" /\ streamed = <<>> THEN {<<0>>} ELSE {})

\* The run is over.  An answer with nothing in it is a failure.
RunEnds(result) ==
  /\ batch = <<>> /\ StreamEnds
  /\ LET text   == IF result = <<>> THEN Text("text") ELSE result
         blocks == NonEmptyBlock("thinking", Text("thinking")) \o NonEmptyBlock("text", text)
     IN  Publish(IF blocks = <<>> THEN "error" ELSE "final", blocks)
  /\ UNCHANGED batch

RunFails == StreamEnds /\ Publish("error", <<>>) /\ UNCHANGED batch

-----------------------------------------------------------------------------
(* The clients *)

SetWriter(c, w) ==
  /\ writer' = [writer EXCEPT ![c] = w]
  /\ UNCHANGED <<runtime, made, early, history, batch, phase, answer>>

\* attach gives a client that joins late the deltas so far.
CatchUp(w) == Deltas(w, made, history)

Attach(c, proto, stream) ==
  /\ writer[c].status = "none" /\ phase # "sending" /\ ~applied
  /\ SetWriter(c, CatchUp(NewWriter(proto, stream))) /\ UNCHANGED applied

\* The waiter of a client wakes up, and the first one applies the boundary.
Answer(c) ==
  /\ Live(writer[c]) /\ phase \notin {"sending", "running"}
  /\ SetWriter(c, IF phase = "error" THEN Fail(writer[c]) ELSE Finish(writer[c], answer))
  /\ applied' = TRUE

\* The same request again, after the answer was recorded.
Replay(c, proto, stream) ==
  /\ writer[c].status = "none" /\ applied /\ phase # "error"
  /\ SetWriter(c, Finish(NewWriter(proto, stream), answer)) /\ UNCHANGED applied

\* The connection is lost: nothing more is written to it.
Leave(c) ==
  /\ Live(writer[c])
  /\ SetWriter(c, [writer[c] EXCEPT !.status = "gone"]) /\ UNCHANGED applied

Next ==
  \/ \E k \in Kinds : Delta(k)
  \/ \E id \in Calls : CallTool(id)
  \/ SendReturns \/ FlushToolBatch \/ RunFails \/ \E result \in ResultTexts : RunEnds(result)
  \/ \E c \in Clients :
       \/ Answer(c) \/ Leave(c)
       \/ \E proto \in Protocols, stream \in BOOLEAN :
            Attach(c, proto, stream) \/ Replay(c, proto, stream)

Spec == Init /\ [][Next]_vars

-----------------------------------------------------------------------------
(* Properties *)

Finished(c) == writer[c].status = "finished"

Has(blocks, k) == \E n \in 1..Len(blocks) : blocks[n].kind = k

FragmentsOf(blocks, k) ==
  FoldLeft(LAMBDA s, b : IF b.kind = k THEN s \o b.of ELSE s, <<>>, blocks)

\* The fragments of an answer: what the run made, or a text that came with the result only.
Made(k) ==
  LET streamed == OfKind(k, made, Fragments)
  IN  IF k = "text" /\ streamed = <<>> THEN {<<>>, <<0>>} ELSE {streamed}

\* Whenever a client joined, whatever it missed and whether it is streamed to or not, it
\* reads each fragment that the run made, by delta, by stream event or with its result,
\* and each call, once and in order; and so does who is given the recorded answer later.
AnswersAreWhole ==
  \A c \in Clients : Finished(c) =>
    LET read == Assembled(writer[c])
    IN  /\ \A k \in Kinds : FragmentsOf(read, k) \in Made(k)
        /\ \A k \in Kinds \cup {"tool_use"} : FragmentsOf(read, k) = FragmentsOf(answer, k)

At(w, ev, i) == {n \in 1..Len(w.frames) : w.frames[n].ev = ev /\ w.frames[n].i = i}

BlockNests(w, i) ==
  LET starts == At(w, "open", i)  stops == At(w, "close", i)
  IN  /\ Cardinality(starts) = 1 /\ Cardinality(stops) <= 1
      /\ \A n \in At(w, "delta", i) : (\A o \in starts : o < n) /\ (\A x \in stops : n < x)

OneAtATime(w) ==
  \A i, j \in 1..w.next : i < j =>
    \A o \in At(w, "open", j) : \E x \in At(w, "close", i) : x < o

\* The end, after which there is nothing but the error of a failure, finds no block open.
EndsOnce(w) ==
  LET ends == At(w, "end", 0)
  IN  /\ Cardinality(ends) <= 1
      /\ \A e \in ends, n \in 1..Len(w.frames) : n > e => w.frames[n].ev = "error"
      /\ ends # {} => \A i \in 1..w.next : w.proto # "chat" => At(w, "close", i) # {}

\* Blocks are numbered without a gap, what belongs to a block is between its start and its
\* one stop, Messages has one block open at a time, and the end comes once, when all are
\* closed.  A Responses stream that fails leaves its items open and has no end.
FramesNest ==
  \A c \in Clients :
    /\ \A i \in 1..writer[c].next : writer[c].proto # "chat" => BlockNests(writer[c], i)
    /\ writer[c].proto = "messages" => OneAtATime(writer[c])
    /\ EndsOnce(writer[c])

\* The request that asked for the answer, and the one that goes on from what c read.
Asked(proto) == <<Item("user", Said(Hello))>>
Sends(c, tail) ==
  Parse(writer[c].proto, Asked(writer[c].proto)
                         \o EchoItems(writer[c].proto, Assembled(writer[c])) \o tail)

FindsItsAgent(c) ==
  LineageKey(Sends(c, <<Item("user", Said(More))>>))
    = NextLineageKey(Parse(writer[c].proto, Asked(writer[c].proto)), answer)

\* Thinking and text came in turns, so that a Messages stream has several blocks of a kind.
Interleaved == \E n \in 1..Len(made) - 1 : made[n] = "text" /\ made[n + 1] = "thinking"

\* A client that sends back the answer it read, streamed or not, and a new message finds
\* the agent of the turn before.  Two sorts of answers are not found again: those whose
\* kinds alternate, in a Messages stream, and those with thinking and text, in Responses.
EchoFindsItsAgent ==
  \A c \in Clients :
    (Finished(c) /\ phase = "final"
     /\ (writer[c].proto = "messages" => ~Interleaved \/ ~writer[c].stream)
     /\ (writer[c].proto = "responses" => ~Has(answer, "thinking") \/ ~Has(answer, "text")))
    => FindsItsAgent(c)

\* Without the exceptions.
EveryEchoFindsItsAgent ==
  \A c \in Clients : Finished(c) /\ phase = "final" => FindsItsAgent(c)

\* The results of a batch go to exactly its calls, however the answer was read and in
\* whatever order they come, and results with text after them, or beside them, do not
\* count as results only, so that the text is not lost.
ResultsContinueTheirBatch ==
  \A c \in Clients : Finished(c) /\ phase = "tools" =>
    LET ids     == FragmentsOf(answer, "tool_use")
        proto   == writer[c].proto
        results == ResultItems(proto, Reverse(ids))
        remark  == Item("user", Said(More))
        beside  == <<Item("user", Append(results[1].blocks, Said(More)[1]))>>
    IN  /\ Continuation(proto, Sends(c, results)) = Reverse(ids)
        /\ Continuation(proto, Sends(c, Append(results, remark))) = Nothing
        /\ proto = "messages" => Continuation(proto, Sends(c, beside)) = Rejected
=============================================================================
