-------------------------- MODULE Conversation_proofs --------------------------
(***************************************************************************)
(* Theorems about Conversation, for every set of clients and calls and any *)
(* number of deltas: frames nest, a client reads the whole answer, and     *)
(* what it sends back finds its agent or continues its batch.              *)
(*                                                                         *)
(* The first half says what the writers do with one delta and with all of  *)
(* them, and what a client makes of the frames.  The invariant follows     *)
(* each response: it is well formed, it was given what the pump has heard, *)
(* and when it is finished the client reads the answer.  The second half   *)
(* says what the parsers and the keys make of an answer that comes back.   *)
(*                                                                         *)
(* The folds of the model are taken one step at a time by way of           *)
(* LeftFolds, and what holds of every sequence by induction over a set of  *)
(* sequences, because the provers cannot apply a theorem to an operator.   *)
(***************************************************************************)

EXTENDS Conversation, SequenceTheorems, FiniteSetTheorems, WellFoundedInduction, TLAPS

-----------------------------------------------------------------------------
(* The folds of the model, one step at a time *)

DeltaStep(kinds, w, n) == OnDelta(w, kinds[n], <<n>>)
DeltasFold == INSTANCE LeftFolds WITH op <- DeltaStep

MissingStep(p, w, b) == IF IsCall(b) \/ Emitted(w, b.kind) THEN w ELSE OnDelta(w, b.kind, b.of)
MissingFold == INSTANCE LeftFolds WITH op <- MissingStep

CallStep(p, w, b) == IF IsCall(b) THEN EmitCall(w, b) ELSE w
CallsFold == INSTANCE LeftFolds WITH op <- CallStep

FrameStep(p, blocks, f) == ReadFrame(blocks, f)
FramesFold == INSTANCE LeftFolds WITH op <- FrameStep

ChunkStep(p, message, f) == ReadChunk(message, f)
ChunksFold == INSTANCE LeftFolds WITH op <- ChunkStep

FragmentStep(k, s, b) == IF b.kind = k THEN s \o b.of ELSE s
FragmentsFold == INSTANCE LeftFolds WITH op <- FragmentStep

KindStep(p, s, n) == IF p[2][n] = p[1] THEN Append(s, n) ELSE s
KindsFold == INSTANCE LeftFolds WITH op <- KindStep

ChatStep(p, q, item) == ChatItem(q, item)
ChatFold == INSTANCE LeftFolds WITH op <- ChatStep

ResponsesStep(p, q, item) == ResponsesItem(q, item)
ResponsesFold == INSTANCE LeftFolds WITH op <- ResponsesStep

\* Induction on a number, for the numbers in a set.
LEMMA NumberInduction ==
  \A T : 0 \in T /\ (\A n \in Nat : n \in T => n + 1 \in T) => Nat \subseteq T
<1> SUFFICES ASSUME NEW T, 0 \in T, \A n \in Nat : n \in T => n + 1 \in T
             PROVE  Nat \subseteq T
  OBVIOUS
<1> DEFINE less == {q \in Nat \X Nat : q[1] < q[2]}
           bad  == Nat \ T
<1>1. IsWellFoundedOn(less, Nat)
  BY NatLessThanWellFounded DEF OpToRel
<1>2. SUFFICES ASSUME bad # {} PROVE FALSE
  OBVIOUS
<1>3. bad \subseteq Nat
  OBVIOUS
<1>4. PICK m \in bad : \A q \in bad : ~(<<q, m>> \in less)
  <2> HIDE DEF less, bad
  <2> QED BY <1>1, <1>2, <1>3, WFMin
<1>5. m \in Nat /\ m # 0
  OBVIOUS
<1>6. m - 1 \in Nat /\ <<m - 1, m>> \in less
  BY <1>5
<1>7. m - 1 \in T
  BY <1>4, <1>6
<1> QED BY <1>5, <1>6, <1>7

\* A sequence with something in it is a shorter one and a last element.
LEMMA FrontAndLast ==
  ASSUME NEW S, NEW s \in Seq(S), Len(s) > 0
  PROVE  /\ SubSeq(s, 1, Len(s) - 1) \in Seq(S) /\ s[Len(s)] \in S
         /\ Len(SubSeq(s, 1, Len(s) - 1)) = Len(s) - 1
         /\ s = Append(SubSeq(s, 1, Len(s) - 1), s[Len(s)])
<1> DEFINE n == Len(s) - 1
           r == SubSeq(s, 1, n)
<1>1. n \in Nat /\ Len(s) = n + 1 /\ n + 1 \in 1..Len(s) /\ s[n + 1] \in S
  OBVIOUS
<1>2. r \in Seq(S) /\ Len(r) = n /\ \A i \in 1..n : r[i] = s[i]
  BY <1>1
<1> HIDE DEF r, n
<1>3. Append(r, s[n + 1]) \in Seq(S) /\ Len(Append(r, s[n + 1])) = n + 1
  BY <1>1, <1>2
<1>4. ASSUME NEW i \in 1..(n + 1) PROVE Append(r, s[n + 1])[i] = s[i]
  BY <1>1, <1>2
<1>5. Append(r, s[n + 1]) = s
  BY <1>1, <1>3, <1>4
<1> QED BY <1>1, <1>2, <1>5 DEF r, n

\* Induction on a sequence, for the sequences in a set.
LEMMA SequenceInduction ==
  ASSUME NEW S, NEW T, <<>> \in T,
         \A s \in Seq(S), x \in S : s \in T => Append(s, x) \in T
  PROVE  Seq(S) \subseteq T
<1> DEFINE ok == {n \in Nat : \A s \in Seq(S) : Len(s) = n => s \in T}
<1>1. 0 \in ok
  <2>1. ASSUME NEW s \in Seq(S), Len(s) = 0 PROVE s = <<>>
    BY <2>1
  <2> QED BY <2>1
<1>2. ASSUME NEW n \in Nat, n \in ok PROVE n + 1 \in ok
  <2>1. ASSUME NEW s \in Seq(S), Len(s) = n + 1 PROVE s \in T
    <3> DEFINE r == SubSeq(s, 1, Len(s) - 1)
    <3>1. r \in Seq(S) /\ s[Len(s)] \in S /\ Len(r) = n /\ s = Append(r, s[Len(s)])
      BY <2>1, FrontAndLast
    <3> HIDE DEF r
    <3>2. r \in T
      BY <1>2, <3>1
    <3> QED BY <3>1, <3>2
  <2> QED BY <2>1
<1>3. Nat \subseteq ok
  <2> HIDE DEF ok
  <2> QED BY <1>1, <1>2, NumberInduction
<1> QED BY <1>3

\* Deltas that are given to a writer.
LEMMA DeltasNone ==
  ASSUME NEW w, NEW kinds
  PROVE  Deltas(w, kinds, <<>>) = w
<1>1. DeltasFold!Fold(kinds, w, <<>>) = Deltas(w, kinds, <<>>)
  BY DEF Deltas, DeltaStep, FoldLeft, MapThenFoldSet, Max,
         DeltasFold!Fold, DeltasFold!Greatest
<1>2. DeltasFold!Fold(kinds, w, <<>>) = w
  BY NumberInduction, DeltasFold!FoldEmpty DEF DeltasFold!Induction
<1> QED BY <1>1, <1>2

\* And one more.
LEMMA DeltasMore ==
  ASSUME NEW w, NEW kinds, NEW S, NEW ns \in Seq(S), NEW n \in S
  PROVE  Deltas(w, kinds, Append(ns, n)) = OnDelta(Deltas(w, kinds, ns), kinds[n], <<n>>)
<1>1. ASSUME NEW t PROVE DeltasFold!Fold(kinds, w, t) = Deltas(w, kinds, t)
  BY DEF Deltas, DeltaStep, FoldLeft, MapThenFoldSet, Max,
         DeltasFold!Fold, DeltasFold!Greatest
<1>2. DeltasFold!Fold(kinds, w, Append(ns, n))
        = DeltaStep(kinds, DeltasFold!Fold(kinds, w, ns), n)
  BY NumberInduction, DeltasFold!FoldAppend DEF DeltasFold!Induction
<1> QED BY <1>1, <1>2 DEF DeltaStep

\* Blocks of an answer of which the missing ones are written.
LEMMA MissingNone ==
  ASSUME NEW w
  PROVE  EmitMissing(w, <<>>) = w
<1>1. MissingFold!Fold(0, w, <<>>) = EmitMissing(w, <<>>)
  BY DEF EmitMissing, MissingStep, FoldLeft, MapThenFoldSet, Max,
         MissingFold!Fold, MissingFold!Greatest
<1>2. MissingFold!Fold(0, w, <<>>) = w
  BY NumberInduction, MissingFold!FoldEmpty DEF MissingFold!Induction
<1> QED BY <1>1, <1>2

\* And one more.
LEMMA MissingMore ==
  ASSUME NEW w, NEW S, NEW bs \in Seq(S), NEW b \in S
  PROVE  LET v == EmitMissing(w, bs)
         IN  EmitMissing(w, Append(bs, b))
               = IF IsCall(b) \/ Emitted(v, b.kind) THEN v ELSE OnDelta(v, b.kind, b.of)
<1>1. ASSUME NEW t PROVE MissingFold!Fold(0, w, t) = EmitMissing(w, t)
  BY DEF EmitMissing, MissingStep, FoldLeft, MapThenFoldSet, Max,
         MissingFold!Fold, MissingFold!Greatest
<1>2. MissingFold!Fold(0, w, Append(bs, b))
        = MissingStep(0, MissingFold!Fold(0, w, bs), b)
  BY NumberInduction, MissingFold!FoldAppend DEF MissingFold!Induction
<1> QED BY <1>1, <1>2 DEF MissingStep

\* Blocks of an answer of which the calls are written.
LEMMA CallsNone ==
  ASSUME NEW w
  PROVE  EmitCalls(w, <<>>) = w
<1>1. CallsFold!Fold(0, w, <<>>) = EmitCalls(w, <<>>)
  BY DEF EmitCalls, CallStep, FoldLeft, MapThenFoldSet, Max,
         CallsFold!Fold, CallsFold!Greatest
<1>2. CallsFold!Fold(0, w, <<>>) = w
  BY NumberInduction, CallsFold!FoldEmpty DEF CallsFold!Induction
<1> QED BY <1>1, <1>2

\* And one more.
LEMMA CallsMore ==
  ASSUME NEW w, NEW S, NEW bs \in Seq(S), NEW b \in S
  PROVE  EmitCalls(w, Append(bs, b))
           = IF IsCall(b) THEN EmitCall(EmitCalls(w, bs), b) ELSE EmitCalls(w, bs)
<1>1. ASSUME NEW t PROVE CallsFold!Fold(0, w, t) = EmitCalls(w, t)
  BY DEF EmitCalls, CallStep, FoldLeft, MapThenFoldSet, Max,
         CallsFold!Fold, CallsFold!Greatest
<1>2. CallsFold!Fold(0, w, Append(bs, b))
        = CallStep(0, CallsFold!Fold(0, w, bs), b)
  BY NumberInduction, CallsFold!FoldAppend DEF CallsFold!Induction
<1> QED BY <1>1, <1>2 DEF CallStep

\* Frames that a client reads one by one.
LEMMA FramesSteps ==
  /\ BlocksRead(<<>>) = <<>>
  /\ \A S : \A fs \in Seq(S), f \in S :
       BlocksRead(Append(fs, f))
           = ReadFrame(BlocksRead(fs), f)
<1>1. ASSUME NEW t PROVE FramesFold!Fold(0, <<>>, t) = BlocksRead(t)
  BY DEF BlocksRead, FrameStep, FoldLeft, MapThenFoldSet, Max,
         FramesFold!Fold, FramesFold!Greatest
<1>2. FramesFold!Fold(0, <<>>, <<>>) = <<>>
  BY NumberInduction, FramesFold!FoldEmpty DEF FramesFold!Induction
<1>3. ASSUME NEW S, NEW fs \in Seq(S), NEW f \in S
      PROVE  FramesFold!Fold(0, <<>>, Append(fs, f))
               = FrameStep(0, FramesFold!Fold(0, <<>>, fs), f)
  BY NumberInduction, FramesFold!FoldAppend DEF FramesFold!Induction
<1> QED BY <1>1, <1>2, <1>3 DEF FrameStep

\* Chunks that a chat client reads one by one.
LEMMA ChunksSteps ==
  /\ FieldsRead(<<>>) = [texts |-> [k \in Kinds |-> <<>>], calls |-> <<>>]
  /\ \A S : \A fs \in Seq(S), f \in S :
       FieldsRead(Append(fs, f))
           = ReadChunk(FieldsRead(fs), f)
<1>1. ASSUME NEW t
      PROVE  ChunksFold!Fold(0, [texts |-> [k \in Kinds |-> <<>>], calls |-> <<>>], t) = FieldsRead(t)
  BY DEF FieldsRead, ChunkStep, FoldLeft, MapThenFoldSet, Max,
         ChunksFold!Fold, ChunksFold!Greatest
<1>2. ChunksFold!Fold(0, [texts |-> [k \in Kinds |-> <<>>], calls |-> <<>>], <<>>)
        = [texts |-> [k \in Kinds |-> <<>>], calls |-> <<>>]
  BY NumberInduction, ChunksFold!FoldEmpty DEF ChunksFold!Induction
<1>3. ASSUME NEW S, NEW fs \in Seq(S), NEW f \in S
      PROVE  ChunksFold!Fold(0, [texts |-> [k \in Kinds |-> <<>>], calls |-> <<>>], Append(fs, f))
               = ChunkStep(0, ChunksFold!Fold(0, [texts |-> [k \in Kinds |-> <<>>], calls |-> <<>>], fs), f)
  BY NumberInduction, ChunksFold!FoldAppend DEF ChunksFold!Induction
<1> QED BY <1>1, <1>2, <1>3 DEF ChunkStep

\* The fragments of one kind, block by block.
LEMMA FragmentsSteps ==
  ASSUME NEW k
  PROVE  /\ FragmentsOf(<<>>, k) = <<>>
         /\ \A S : \A bs \in Seq(S), b \in S :
              FragmentsOf(Append(bs, b), k)
                  = IF b.kind = k THEN FragmentsOf(bs, k) \o b.of ELSE FragmentsOf(bs, k)
<1>1. ASSUME NEW t PROVE FragmentsFold!Fold(k, <<>>, t) = FragmentsOf(t, k)
  BY DEF FragmentsOf, FragmentStep, FoldLeft, MapThenFoldSet, Max,
         FragmentsFold!Fold, FragmentsFold!Greatest
<1>2. FragmentsFold!Fold(k, <<>>, <<>>) = <<>>
  BY NumberInduction, FragmentsFold!FoldEmpty DEF FragmentsFold!Induction
<1>3. ASSUME NEW S, NEW bs \in Seq(S), NEW b \in S
      PROVE  FragmentsFold!Fold(k, <<>>, Append(bs, b))
               = FragmentStep(k, FragmentsFold!Fold(k, <<>>, bs), b)
  BY NumberInduction, FragmentsFold!FoldAppend DEF FragmentsFold!Induction
<1> QED BY <1>1, <1>2, <1>3 DEF FragmentStep

\* The fragments of one kind.
LEMMA KindNone ==
  ASSUME NEW k, NEW kinds
  PROVE  OfKind(k, kinds, <<>>) = <<>>
<1>1. KindsFold!Fold(<<k, kinds>>, <<>>, <<>>) = OfKind(k, kinds, <<>>)
  BY DEF OfKind, KindStep, FoldLeft, MapThenFoldSet, Max,
         KindsFold!Fold, KindsFold!Greatest
<1>2. KindsFold!Fold(<<k, kinds>>, <<>>, <<>>) = <<>>
  BY NumberInduction, KindsFold!FoldEmpty DEF KindsFold!Induction
<1> QED BY <1>1, <1>2

\* And one more.
LEMMA KindMore ==
  ASSUME NEW k, NEW kinds, NEW S, NEW ns \in Seq(S), NEW n \in S
  PROVE  OfKind(k, kinds, Append(ns, n))
           = IF kinds[n] = k THEN Append(OfKind(k, kinds, ns), n) ELSE OfKind(k, kinds, ns)
<1>1. ASSUME NEW t PROVE KindsFold!Fold(<<k, kinds>>, <<>>, t) = OfKind(k, kinds, t)
  BY DEF OfKind, KindStep, FoldLeft, MapThenFoldSet, Max,
         KindsFold!Fold, KindsFold!Greatest
<1>2. KindsFold!Fold(<<k, kinds>>, <<>>, Append(ns, n))
        = KindStep(<<k, kinds>>, KindsFold!Fold(<<k, kinds>>, <<>>, ns), n)
  BY NumberInduction, KindsFold!FoldAppend DEF KindsFold!Induction
<1> QED BY <1>1, <1>2 DEF KindStep

-----------------------------------------------------------------------------
(* What the writers hold *)

\* What is said in a block: fragments, or the id of a call.
Values   == Nat \cup Calls
BlockSet == [kind : Kinds \cup {"tool_use"}, of : Seq(Values)]
FrameSet == [ev : {"start", "open", "delta", "close", "end", "error"}, i : Nat,
             kind : Kinds \cup {"tool_use", "none"}, of : Seq(Values)]
WriterSet ==
  [proto : Protocols, stream : BOOLEAN, started : BOOLEAN, next : Nat, index : [Kinds -> Nat],
   open : SUBSET Kinds, frames : Seq(FrameSet), body : Seq(BlockSet),
   status : {"none", "waits", "finished", "failed", "gone"}]

\* What a frame more does to a writer.
LEMMA PutIs ==
  ASSUME NEW w \in WriterSet, NEW f \in FrameSet
  PROVE  LET v == Put(w, f)
             N == Len(w.frames)
         IN  /\ v \in WriterSet
             /\ v.proto = w.proto /\ v.stream = w.stream /\ v.started = w.started
             /\ v.next = w.next /\ v.index = w.index /\ v.open = w.open
             /\ v.body = w.body /\ v.status = w.status
             /\ v.frames = Append(w.frames, f)
             /\ N \in Nat /\ DOMAIN w.frames = 1..N /\ DOMAIN v.frames = 1..(N + 1)
             /\ v.frames[N + 1] = f /\ \A n \in 1..N : v.frames[n] = w.frames[n]
<1> DEFINE v == Put(w, f)
           N == Len(w.frames)
<1>1. w.frames \in Seq(FrameSet)
  BY DEF WriterSet
<1>2. /\ Append(w.frames, f) \in Seq(FrameSet) /\ N \in Nat /\ DOMAIN w.frames = 1..N
      /\ DOMAIN Append(w.frames, f) = 1..(N + 1) /\ Append(w.frames, f)[N + 1] = f
      /\ \A n \in 1..N : Append(w.frames, f)[n] = w.frames[n]
  BY <1>1
<1>3. v = [w EXCEPT !.frames = Append(w.frames, f)]
  BY DEF Put
<1>4. /\ v \in WriterSet
      /\ v.proto = w.proto /\ v.stream = w.stream /\ v.started = w.started
      /\ v.next = w.next /\ v.index = w.index /\ v.open = w.open
      /\ v.body = w.body /\ v.status = w.status
      /\ v.frames = Append(w.frames, f)
  BY <1>2, <1>3 DEF WriterSet
<1> QED BY <1>2, <1>4

\* The frames that the writers make.
LEMMA FrameTypes ==
  ASSUME NEW i \in Nat, NEW k \in Kinds \cup {"tool_use", "none"}, NEW of \in Seq(Values)
  PROVE  /\ Frame("open", i, k, <<>>) \in FrameSet /\ Frame("close", i, k, <<>>) \in FrameSet
         /\ Frame("delta", i, k, of) \in FrameSet
         /\ Plain("start") \in FrameSet /\ Plain("end") \in FrameSet /\ Plain("error") \in FrameSet
<1>1. <<>> \in Seq(Values) /\ 0 \in Nat
  OBVIOUS
<1> QED BY <1>1 DEF FrameSet, Frame, Plain

-----------------------------------------------------------------------------
(* How the blocks of a stream nest *)

OfABlock == {"open", "delta", "close"}

\* Frame o is the one that opens block i, and the first frame of it.
Opens(w, i, o) ==
  /\ w.frames[o].ev = "open" /\ w.frames[o].i = i
  /\ \A n \in DOMAIN w.frames : w.frames[n].ev \in OfABlock /\ w.frames[n].i = i =>
       o <= n /\ (w.frames[n].ev = "open" => n = o)

Closed(w, i) == \E x \in DOMAIN w.frames : w.frames[x].ev = "close" /\ w.frames[x].i = i

\* A frame belongs to a block that there is, every block was opened by its first frame, its
\* last frame is its stop if it has one, and those without are the open ones.
Numbered(w) ==
  \A n \in DOMAIN w.frames : w.frames[n].ev \in OfABlock => w.frames[n].i \in 1..w.next
Opened(w) == \A i \in 1..w.next : \E o \in DOMAIN w.frames : Opens(w, i, o)
StopsLast(w) ==
  \A m, n \in DOMAIN w.frames :
    w.frames[m].ev = "close" /\ w.frames[n].ev \in OfABlock /\ w.frames[m].i = w.frames[n].i =>
      n <= m
Accounted(w) ==
  \A i \in 1..w.next : Closed(w, i) <=> \A k \in w.open : w.index[k] # i
OpenAt(w) ==
  \A k \in w.open : w.index[k] \in 1..w.next /\ \A l \in w.open : w.index[k] = w.index[l] => k = l

\* Messages: only the last block is open, and each was opened when those before were closed.
LastIsOpen(w) == \A k \in w.open : w.index[k] = w.next
InTurn(w) ==
  \A i, j \in 1..w.next : i < j =>
    \A o \in DOMAIN w.frames : w.frames[o].ev = "open" /\ w.frames[o].i = j =>
      \E x \in DOMAIN w.frames : x < o /\ w.frames[x].ev = "close" /\ w.frames[x].i = i

Nest(w) ==
  /\ Numbered(w) /\ Opened(w) /\ StopsLast(w) /\ Accounted(w) /\ OpenAt(w)
  /\ w.proto = "messages" => LastIsOpen(w) /\ InTurn(w)

\* A frame that belongs to no block.
LEMMA PutPlain ==
  ASSUME NEW w \in WriterSet, Nest(w), NEW f \in FrameSet, f.ev \notin OfABlock
  PROVE  Nest(Put(w, f))
<1> DEFINE v == Put(w, f)
           N == Len(w.frames)
<1>1. /\ v.proto = w.proto /\ v.next = w.next /\ v.index = w.index /\ v.open = w.open
      /\ N \in Nat /\ DOMAIN w.frames = 1..N /\ DOMAIN v.frames = 1..(N + 1)
      /\ v.frames[N + 1] = f /\ \A n \in 1..N : v.frames[n] = w.frames[n]
  BY PutIs
<1> HIDE DEF v, N
<1>2. \A n \in DOMAIN v.frames : v.frames[n].ev \in OfABlock =>
        n \in DOMAIN w.frames /\ v.frames[n] = w.frames[n]
  BY <1>1
<1>3. \A n \in DOMAIN w.frames : n \in DOMAIN v.frames /\ v.frames[n] = w.frames[n]
  BY <1>1
<1>4. Numbered(v)
  BY <1>1, <1>2 DEF Nest, Numbered
<1>5. ASSUME NEW i \in 1..v.next PROVE \E o \in DOMAIN v.frames : Opens(v, i, o)
  <2>1. PICK o \in DOMAIN w.frames : Opens(w, i, o)
    BY <1>1 DEF Nest, Opened
  <2>2. Opens(v, i, o) /\ o \in DOMAIN v.frames
    BY <1>2, <1>3, <2>1 DEF Opens
  <2> QED BY <2>2
<1>6. StopsLast(v)
  BY <1>2 DEF Nest, StopsLast, OfABlock
<1>7. \A i : Closed(v, i) <=> Closed(w, i)
  BY <1>2, <1>3 DEF Closed, OfABlock
<1>8. Accounted(v) /\ OpenAt(v) /\ (v.proto = "messages" => LastIsOpen(v))
  BY <1>1, <1>7 DEF Nest, Accounted, OpenAt, LastIsOpen
<1>9. ASSUME v.proto = "messages" PROVE InTurn(v)
  <2>1. InTurn(w)
    BY <1>1, <1>9 DEF Nest
  <2>2. ASSUME NEW i \in 1..v.next, NEW j \in 1..v.next, i < j, NEW o \in DOMAIN v.frames,
               v.frames[o].ev = "open", v.frames[o].i = j
        PROVE  \E x \in DOMAIN v.frames : x < o /\ v.frames[x].ev = "close" /\ v.frames[x].i = i
    <3>1. o \in DOMAIN w.frames /\ v.frames[o] = w.frames[o]
      BY <1>2, <2>2 DEF OfABlock
    <3>2. PICK x \in DOMAIN w.frames : x < o /\ w.frames[x].ev = "close" /\ w.frames[x].i = i
      BY <1>1, <2>1, <2>2, <3>1 DEF InTurn
    <3> QED BY <1>3, <3>2
  <2> QED BY <2>2 DEF InTurn
<1> QED BY <1>4, <1>5, <1>6, <1>8, <1>9 DEF Nest, Opened, v

\* A delta of an open block.
LEMMA PutDelta ==
  ASSUME NEW w \in WriterSet, Nest(w), NEW k \in w.open, NEW f \in FrameSet,
         f.ev = "delta", f.i = w.index[k]
  PROVE  Nest(Put(w, f))
<1> DEFINE v == Put(w, f)
           N == Len(w.frames)
<1>1. /\ v.proto = w.proto /\ v.next = w.next /\ v.index = w.index /\ v.open = w.open
      /\ N \in Nat /\ DOMAIN w.frames = 1..N /\ DOMAIN v.frames = 1..(N + 1)
      /\ v.frames[N + 1] = f /\ \A n \in 1..N : v.frames[n] = w.frames[n]
  BY PutIs
<1> HIDE DEF v, N
<1>2. /\ N + 1 \in DOMAIN v.frames /\ v.frames[N + 1] = f /\ N + 1 \notin DOMAIN w.frames
      /\ \A n \in DOMAIN v.frames : n = N + 1 \/ n \in DOMAIN w.frames
  BY <1>1
<1>3. \A n \in DOMAIN w.frames : n \in DOMAIN v.frames /\ v.frames[n] = w.frames[n] /\ n < N + 1
  BY <1>1
<1>4. f.i \in 1..w.next /\ ~Closed(w, f.i)
  BY DEF Nest, OpenAt, Accounted
<1>5. Numbered(v)
  BY <1>1, <1>2, <1>3, <1>4 DEF Nest, Numbered
<1>6. ASSUME NEW i \in 1..v.next PROVE \E o \in DOMAIN v.frames : Opens(v, i, o)
  <2>1. PICK o \in DOMAIN w.frames : Opens(w, i, o)
    BY <1>1 DEF Nest, Opened
  <2>2. o < N + 1 /\ N + 1 \in Nat /\ o \in Nat
    BY <1>1, <1>3
  <2>3. Opens(v, i, o) /\ o \in DOMAIN v.frames
    BY <1>2, <1>3, <2>1, <2>2 DEF Opens, OfABlock
  <2> QED BY <2>3
<1>7. StopsLast(v)
  <2>1. ASSUME NEW m \in DOMAIN v.frames, NEW n \in DOMAIN v.frames, v.frames[m].ev = "close",
               v.frames[n].ev \in OfABlock, v.frames[m].i = v.frames[n].i
        PROVE  n <= m
    <3>1. m \in DOMAIN w.frames /\ v.frames[m] = w.frames[m]
      BY <1>2, <1>3, <2>1
    <3>2. n \in DOMAIN w.frames /\ v.frames[n] = w.frames[n]
      BY <1>2, <1>3, <1>4, <2>1, <3>1 DEF Closed
    <3> QED BY <2>1, <3>1, <3>2 DEF Nest, StopsLast
  <2> QED BY <2>1 DEF StopsLast
<1>8. \A i : Closed(v, i) <=> Closed(w, i)
  BY <1>2, <1>3 DEF Closed
<1>9. Accounted(v) /\ OpenAt(v) /\ (v.proto = "messages" => LastIsOpen(v))
  BY <1>1, <1>8 DEF Nest, Accounted, OpenAt, LastIsOpen
<1>10. ASSUME v.proto = "messages" PROVE InTurn(v)
  <2>1. InTurn(w)
    BY <1>1, <1>10 DEF Nest
  <2>2. ASSUME NEW i \in 1..v.next, NEW j \in 1..v.next, i < j, NEW o \in DOMAIN v.frames,
               v.frames[o].ev = "open", v.frames[o].i = j
        PROVE  \E x \in DOMAIN v.frames : x < o /\ v.frames[x].ev = "close" /\ v.frames[x].i = i
    <3>1. o \in DOMAIN w.frames /\ v.frames[o] = w.frames[o]
      BY <1>2, <1>3, <2>2
    <3>2. PICK x \in DOMAIN w.frames : x < o /\ w.frames[x].ev = "close" /\ w.frames[x].i = i
      BY <1>1, <2>1, <2>2, <3>1 DEF InTurn
    <3> QED BY <1>3, <3>2
  <2> QED BY <2>2 DEF InTurn
<1> QED BY <1>5, <1>6, <1>7, <1>9, <1>10 DEF Nest, Opened, v

\* A block more.
LEMMA NewBlockNests ==
  ASSUME NEW w \in WriterSet, Nest(w), NEW k \in Kinds, k \notin w.open,
         w.proto = "messages" => w.open = {}
  PROVE  LET v == NewBlock(w, k)
         IN  /\ v \in WriterSet /\ Nest(v)
             /\ v.proto = w.proto /\ v.stream = w.stream /\ v.started = w.started
             /\ v.next = w.next + 1 /\ v.index = [w.index EXCEPT ![k] = w.next + 1]
             /\ v.open = w.open \cup {k} /\ v.body = w.body /\ v.status = w.status
             /\ v.frames = Append(w.frames, Frame("open", w.next + 1, k, <<>>))
<1> DEFINE i == w.next + 1
           u == [w EXCEPT !.next = i, !.index[k] = i, !.open = @ \cup {k}]
           f == Frame("open", i, k, <<>>)
           v == NewBlock(w, k)
           N == Len(w.frames)
<1>1. /\ u \in WriterSet /\ u.proto = w.proto /\ u.stream = w.stream /\ u.started = w.started
      /\ u.next = i /\ u.index = [w.index EXCEPT ![k] = i]
      /\ u.open = w.open \cup {k} /\ u.body = w.body /\ u.status = w.status
      /\ u.frames = w.frames /\ i \in Nat /\ w.next \in Nat
  <2>1. w.next \in Nat /\ w.index \in [Kinds -> Nat] /\ w.open \in SUBSET Kinds
    BY DEF WriterSet
  <2>2. i \in Nat /\ [w.index EXCEPT ![k] = i] \in [Kinds -> Nat] /\ w.open \cup {k} \in SUBSET Kinds
    BY <2>1
  <2> HIDE DEF i
  <2>3. u = [w EXCEPT !.next = i, !.index = [w.index EXCEPT ![k] = i], !.open = w.open \cup {k}]
    BY DEF WriterSet
  <2>4. u \in WriterSet
    BY <2>2, <2>3 DEF WriterSet
  <2> QED BY <2>1, <2>2, <2>3, <2>4 DEF WriterSet
<1>2. f \in FrameSet /\ f.ev = "open" /\ f.i = i
  <2>1. f \in FrameSet
    <3>1. k \in Kinds \cup {"tool_use", "none"} /\ <<>> \in Seq(Values)
      OBVIOUS
    <3> QED BY <1>1, <3>1, FrameTypes
  <2> QED BY <2>1 DEF Frame
<1>3. v = Put(u, f)
  BY DEF NewBlock
<1> HIDE DEF u, f, v
<1>4. /\ v \in WriterSet /\ v.proto = w.proto /\ v.stream = w.stream /\ v.started = w.started
      /\ v.next = i /\ v.index = [w.index EXCEPT ![k] = i]
      /\ v.open = w.open \cup {k} /\ v.body = w.body /\ v.status = w.status
      /\ v.frames = Append(w.frames, f)
      /\ N \in Nat /\ DOMAIN w.frames = 1..N /\ DOMAIN v.frames = 1..(N + 1)
      /\ v.frames[N + 1] = f /\ \A n \in 1..N : v.frames[n] = w.frames[n]
  <2>1. LET x == Put(u, f)
           M == Len(u.frames)
       IN  /\ x \in WriterSet
           /\ x.proto = u.proto /\ x.stream = u.stream /\ x.started = u.started
           /\ x.next = u.next /\ x.index = u.index /\ x.open = u.open
           /\ x.body = u.body /\ x.status = u.status
           /\ x.frames = Append(u.frames, f)
           /\ M \in Nat /\ DOMAIN u.frames = 1..M /\ DOMAIN x.frames = 1..(M + 1)
           /\ x.frames[M + 1] = f /\ \A n \in 1..M : x.frames[n] = u.frames[n]
    BY <1>1, <1>2, PutIs
  <2> QED BY <1>1, <1>3, <2>1
<1> HIDE DEF N
<1>5. /\ N + 1 \in DOMAIN v.frames /\ v.frames[N + 1] = f /\ N + 1 \notin DOMAIN w.frames
      /\ \A n \in DOMAIN v.frames : n = N + 1 \/ n \in DOMAIN w.frames
  BY <1>4
<1>6. \A n \in DOMAIN w.frames : n \in DOMAIN v.frames /\ v.frames[n] = w.frames[n] /\ n < N + 1
  BY <1>4
<1>7. \A n \in DOMAIN w.frames : w.frames[n].ev \in OfABlock => w.frames[n].i \in 1..w.next
  BY DEF Nest, Numbered
<1>8. i \notin 1..w.next /\ 1..w.next \subseteq 1..i /\ i \in 1..i /\ \A j \in 1..i : j # i => j \in 1..w.next
  BY <1>1
<1>9. Numbered(v)
  BY <1>2, <1>4, <1>5, <1>6, <1>7, <1>8 DEF Numbered
<1>10. ASSUME NEW j \in 1..v.next PROVE \E o \in DOMAIN v.frames : Opens(v, j, o)
  <2>1. CASE j = i
    <3>1. \A n \in DOMAIN v.frames : v.frames[n].ev \in OfABlock /\ v.frames[n].i = i => n = N + 1
      BY <1>5, <1>6, <1>7, <1>8
    <3>2. N + 1 <= N + 1
      BY <1>4
    <3> QED BY <1>2, <1>5, <2>1, <3>1, <3>2 DEF Opens
  <2>2. CASE j # i
    <3>1. j \in 1..w.next
      BY <1>4, <1>8, <2>2
    <3>2. PICK o \in DOMAIN w.frames : Opens(w, j, o)
      BY <3>1 DEF Nest, Opened
    <3>3. Opens(v, j, o) /\ o \in DOMAIN v.frames
      BY <1>2, <1>5, <1>6, <2>2, <3>2 DEF Opens
    <3> QED BY <3>3
  <2> QED BY <2>1, <2>2
<1>11. \A j : Closed(v, j) <=> Closed(w, j)
  BY <1>2, <1>5, <1>6 DEF Closed
<1>12. ~Closed(w, i)
  BY <1>7, <1>8 DEF Closed, OfABlock
<1>13. StopsLast(v)
  <2>1. ASSUME NEW m \in DOMAIN v.frames, NEW n \in DOMAIN v.frames, v.frames[m].ev = "close",
               v.frames[n].ev \in OfABlock, v.frames[m].i = v.frames[n].i
        PROVE  n <= m
    <3>1. m \in DOMAIN w.frames /\ v.frames[m] = w.frames[m]
      BY <1>2, <1>5, <1>6, <2>1
    <3>2. w.frames[m].i # i
      BY <1>12, <2>1, <3>1 DEF Closed
    <3>3. n \in DOMAIN w.frames /\ v.frames[n] = w.frames[n]
      BY <1>2, <1>5, <1>6, <2>1, <3>1, <3>2
    <3> QED BY <2>1, <3>1, <3>3 DEF Nest, StopsLast
  <2> QED BY <2>1 DEF StopsLast
<1>14. /\ v.index[k] = i /\ \A l \in w.open : l # k /\ v.index[l] = w.index[l]
       /\ \A l \in w.open : v.index[l] \in 1..w.next
  <2>1. w.open \subseteq Kinds /\ w.index \in [Kinds -> Nat]
    BY DEF WriterSet
  <2>2. \A l \in w.open : w.index[l] \in 1..w.next
    BY DEF Nest, OpenAt
  <2> QED BY <1>4, <2>1, <2>2
<1>15. Accounted(v)
  <2>1. ASSUME NEW j \in 1..v.next
        PROVE  Closed(v, j) <=> \A l \in v.open : v.index[l] # j
    <3>1. CASE j = i
      BY <1>4, <1>11, <1>12, <1>14, <3>1
    <3>2. CASE j # i
      <4>1. j \in 1..w.next
        BY <1>4, <1>8, <3>2
      <4>2. Closed(w, j) <=> \A l \in w.open : w.index[l] # j
        BY <4>1 DEF Nest, Accounted
      <4> QED BY <1>4, <1>11, <1>14, <3>2, <4>2
    <3> QED BY <3>1, <3>2
  <2> QED BY <2>1 DEF Accounted
<1>16. OpenAt(v)
  <2>1. \A l, m \in w.open : w.index[l] = w.index[m] => l = m
    BY DEF Nest, OpenAt
  <2> QED BY <1>4, <1>8, <1>14, <2>1 DEF OpenAt
<1>17. ASSUME v.proto = "messages" PROVE LastIsOpen(v) /\ InTurn(v)
  <2>1. w.open = {} /\ InTurn(w)
    BY <1>4, <1>17 DEF Nest
  <2>2. LastIsOpen(v)
    BY <1>4, <1>14, <2>1 DEF LastIsOpen
  <2>3. ASSUME NEW h \in 1..v.next, NEW j \in 1..v.next, h < j, NEW o \in DOMAIN v.frames,
               v.frames[o].ev = "open", v.frames[o].i = j
        PROVE  \E x \in DOMAIN v.frames : x < o /\ v.frames[x].ev = "close" /\ v.frames[x].i = h
    <3>1. h \in 1..w.next
      BY <1>1, <1>4, <2>3
    <3>2. CASE j = i
      <4>1. o = N + 1
        BY <1>5, <1>6, <1>7, <1>8, <2>3, <3>2 DEF OfABlock
      <4>2. Closed(w, h)
        BY <2>1, <3>1 DEF Nest, Accounted
      <4> QED BY <1>6, <4>1, <4>2 DEF Closed
    <3>3. CASE j # i
      <4>1. j \in 1..w.next
        BY <1>4, <1>8, <3>3
      <4>2. o \in DOMAIN w.frames /\ v.frames[o] = w.frames[o]
        BY <1>2, <1>5, <1>6, <2>3, <3>3
      <4>3. PICK x \in DOMAIN w.frames : x < o /\ w.frames[x].ev = "close" /\ w.frames[x].i = h
        BY <2>1, <2>3, <3>1, <4>1, <4>2 DEF InTurn
      <4> QED BY <1>6, <4>3
    <3> QED BY <3>2, <3>3
  <2> QED BY <2>2, <2>3 DEF InTurn
<1>18. Nest(v)
  BY <1>9, <1>10, <1>13, <1>15, <1>16, <1>17 DEF Nest, Opened
<1> QED BY <1>4, <1>18 DEF v, f

\* The stop of an open block.
LEMMA CloseNests ==
  ASSUME NEW w \in WriterSet, Nest(w), NEW k \in Kinds
  PROVE  LET v == Close(w, k)
         IN  /\ v \in WriterSet /\ Nest(v)
             /\ v.proto = w.proto /\ v.stream = w.stream /\ v.started = w.started
             /\ v.next = w.next /\ v.index = w.index /\ v.open = w.open \ {k}
             /\ v.body = w.body /\ v.status = w.status
             /\ v.frames = IF k \in w.open
                             THEN Append(w.frames, Frame("close", w.index[k], k, <<>>))
                             ELSE w.frames
<1>1. CASE k \notin w.open
  <2>1. Close(w, k) = w /\ w.open \ {k} = w.open
    BY <1>1 DEF Close
  <2> QED BY <1>1, <2>1
<1>2. CASE k \in w.open
  <2> DEFINE i == w.index[k]
             u == [w EXCEPT !.open = @ \ {k}]
             f == Frame("close", i, k, <<>>)
             v == Close(w, k)
             N == Len(w.frames)
  <2>1. /\ u \in WriterSet /\ u.proto = w.proto /\ u.stream = w.stream /\ u.started = w.started
        /\ u.next = w.next /\ u.index = w.index
        /\ u.open = w.open \ {k} /\ u.body = w.body /\ u.status = w.status
        /\ u.frames = w.frames /\ i \in Nat
    BY DEF WriterSet
  <2>2. f \in FrameSet /\ f.ev = "close" /\ f.i = i
    <3>1. f \in FrameSet
      <4>1. k \in Kinds \cup {"tool_use", "none"} /\ <<>> \in Seq(Values)
        OBVIOUS
      <4> QED BY <2>1, <4>1, FrameTypes
    <3> QED BY <3>1 DEF Frame
  <2>3. v = Put(u, f)
    BY <1>2 DEF Close
  <2> HIDE DEF u, f, v
  <2>4. /\ v \in WriterSet /\ v.proto = w.proto /\ v.stream = w.stream /\ v.started = w.started
        /\ v.next = w.next /\ v.index = w.index
        /\ v.open = w.open \ {k} /\ v.body = w.body /\ v.status = w.status
        /\ v.frames = Append(w.frames, f)
        /\ N \in Nat /\ DOMAIN w.frames = 1..N /\ DOMAIN v.frames = 1..(N + 1)
        /\ v.frames[N + 1] = f /\ \A n \in 1..N : v.frames[n] = w.frames[n]
    <3>1. LET x == Put(u, f)
             M == Len(u.frames)
         IN  /\ x \in WriterSet
             /\ x.proto = u.proto /\ x.stream = u.stream /\ x.started = u.started
             /\ x.next = u.next /\ x.index = u.index /\ x.open = u.open
             /\ x.body = u.body /\ x.status = u.status
             /\ x.frames = Append(u.frames, f)
             /\ M \in Nat /\ DOMAIN u.frames = 1..M /\ DOMAIN x.frames = 1..(M + 1)
             /\ x.frames[M + 1] = f /\ \A n \in 1..M : x.frames[n] = u.frames[n]
      BY <2>1, <2>2, PutIs
    <3> QED BY <2>1, <2>3, <3>1
  <2> HIDE DEF N
  <2>5. /\ N + 1 \in DOMAIN v.frames /\ v.frames[N + 1] = f /\ N + 1 \notin DOMAIN w.frames
        /\ \A n \in DOMAIN v.frames : n = N + 1 \/ n \in DOMAIN w.frames
    BY <2>4
  <2>6. \A n \in DOMAIN w.frames : n \in DOMAIN v.frames /\ v.frames[n] = w.frames[n] /\ n < N + 1
    BY <2>4
  <2>7. /\ i \in 1..w.next /\ ~Closed(w, i)
        /\ \A l \in w.open : w.index[l] = i => l = k
    BY <1>2 DEF Nest, OpenAt, Accounted
  <2> HIDE DEF i
  <2>8. Numbered(v)
    BY <2>2, <2>4, <2>5, <2>6, <2>7 DEF Nest, Numbered
  <2>9. ASSUME NEW j \in 1..v.next PROVE \E o \in DOMAIN v.frames : Opens(v, j, o)
    <3>1. PICK o \in DOMAIN w.frames : Opens(w, j, o)
      BY <2>4 DEF Nest, Opened
    <3>2. o < N + 1 /\ N + 1 \in Nat /\ o \in Nat
      BY <2>4, <2>6
    <3>3. Opens(v, j, o) /\ o \in DOMAIN v.frames
      BY <2>2, <2>5, <2>6, <3>1, <3>2 DEF Opens
    <3> QED BY <3>3
  <2>10. \A j : Closed(v, j) <=> Closed(w, j) \/ j = i
    BY <2>2, <2>5, <2>6 DEF Closed
  <2>11. StopsLast(v)
    <3>1. ASSUME NEW m \in DOMAIN v.frames, NEW n \in DOMAIN v.frames, v.frames[m].ev = "close",
                 v.frames[n].ev \in OfABlock, v.frames[m].i = v.frames[n].i
          PROVE  n <= m
      <4>1. CASE m = N + 1
        BY <2>4, <4>1
      <4>2. CASE m # N + 1
        <5>1. m \in DOMAIN w.frames /\ v.frames[m] = w.frames[m]
          BY <2>5, <2>6, <4>2
        <5>2. w.frames[m].i # i
          BY <2>7, <3>1, <5>1 DEF Closed
        <5>3. n \in DOMAIN w.frames /\ v.frames[n] = w.frames[n]
          BY <2>2, <2>5, <2>6, <3>1, <5>1, <5>2
        <5> QED BY <3>1, <5>1, <5>3 DEF Nest, StopsLast
      <4> QED BY <4>1, <4>2
    <3> QED BY <3>1 DEF StopsLast
  <2>12. Accounted(v)
    <3>1. ASSUME NEW j \in 1..v.next
          PROVE  Closed(v, j) <=> \A l \in v.open : v.index[l] # j
      <4>1. Closed(w, j) <=> \A l \in w.open : w.index[l] # j
        BY <2>4 DEF Nest, Accounted
      <4> QED BY <2>4, <2>7, <2>10, <4>1 DEF i
    <3> QED BY <3>1 DEF Accounted
  <2>13. OpenAt(v) /\ (v.proto = "messages" => LastIsOpen(v))
    BY <2>4 DEF Nest, OpenAt, LastIsOpen
  <2>14. ASSUME v.proto = "messages" PROVE InTurn(v)
    <3>1. InTurn(w)
      BY <2>4, <2>14 DEF Nest
    <3>2. ASSUME NEW h \in 1..v.next, NEW j \in 1..v.next, h < j, NEW o \in DOMAIN v.frames,
                 v.frames[o].ev = "open", v.frames[o].i = j
          PROVE  \E x \in DOMAIN v.frames : x < o /\ v.frames[x].ev = "close" /\ v.frames[x].i = h
      <4>1. o \in DOMAIN w.frames /\ v.frames[o] = w.frames[o]
        BY <2>2, <2>5, <2>6, <3>2
      <4>2. PICK x \in DOMAIN w.frames : x < o /\ w.frames[x].ev = "close" /\ w.frames[x].i = h
        BY <2>4, <3>1, <3>2, <4>1 DEF InTurn
      <4> QED BY <2>6, <4>2
    <3> QED BY <3>2 DEF InTurn
  <2>15. Nest(v)
    BY <2>8, <2>9, <2>11, <2>12, <2>13, <2>14 DEF Nest, Opened
  <2> QED BY <1>2, <2>4, <2>15 DEF v, f, i
<1> QED BY <1>1, <1>2

\* One frame more.
LEMMA Grows ==
  ASSUME NEW S, NEW s \in Seq(S), NEW x \in S
  PROVE  /\ Append(s, x) \in Seq(S) /\ Len(s) \in Nat /\ Len(Append(s, x)) = Len(s) + 1
         /\ Append(s, x)[Len(s) + 1] = x /\ \A n \in 1..Len(s) : Append(s, x)[n] = s[n]
         /\ DOMAIN Append(s, x) = 1..(Len(s) + 1)
OBVIOUS

\* Three frames more.
LEMMA ThreeMore ==
  ASSUME NEW S, NEW s \in Seq(S), NEW f \in S, NEW g \in S, NEW h \in S
  PROVE  LET t == Append(Append(Append(s, f), g), h)
             N == Len(s)
         IN  /\ DOMAIN t = 1..(N + 3) /\ t[N + 1] = f /\ t[N + 2] = g /\ t[N + 3] = h
             /\ \A n \in 1..N : t[n] = s[n]
<1> DEFINE p == Append(s, f)
           q == Append(p, g)
           t == Append(q, h)
<1>1. PICK M \in Nat : M = Len(s)
  OBVIOUS
<1>2. p \in Seq(S) /\ Len(p) = M + 1 /\ p[M + 1] = f /\ \A n \in 1..M : p[n] = s[n]
  <2>1. /\ p \in Seq(S) /\ Len(s) \in Nat /\ Len(p) = Len(s) + 1
        /\ p[Len(s) + 1] = f /\ \A n \in 1..Len(s) : p[n] = s[n]
    BY Grows
  <2> QED BY ONLY <1>1, <2>1
<1> HIDE DEF p
<1>3. q \in Seq(S) /\ Len(q) = M + 2 /\ q[M + 2] = g /\ \A n \in 1..(M + 1) : q[n] = p[n]
  <2>1. /\ q \in Seq(S) /\ Len(p) \in Nat /\ Len(q) = Len(p) + 1
        /\ q[Len(p) + 1] = g /\ \A n \in 1..Len(p) : q[n] = p[n]
    BY <1>2, Grows
  <2> QED BY <1>2, <2>1
<1> HIDE DEF q
<1>4. DOMAIN t = 1..(M + 3) /\ t[M + 3] = h /\ \A n \in 1..(M + 2) : t[n] = q[n]
  <2>1. /\ t \in Seq(S) /\ Len(q) \in Nat /\ Len(t) = Len(q) + 1
        /\ t[Len(q) + 1] = h /\ DOMAIN t = 1..(Len(q) + 1)
        /\ \A n \in 1..Len(q) : t[n] = q[n]
    BY <1>3, Grows
  <2>2. (M + 2) + 1 = M + 3
    OBVIOUS
  <2> QED BY <1>3, <2>1, <2>2
<1> HIDE DEF t
<1>5. t[M + 1] = f /\ t[M + 2] = g /\ \A n \in 1..M : t[n] = s[n]
  <2>1. M + 1 \in 1..(M + 1) /\ M + 1 \in 1..(M + 2) /\ M + 2 \in 1..(M + 2)
    OBVIOUS
  <2>2. \A n \in 1..M : n \in 1..(M + 1) /\ n \in 1..(M + 2)
    OBVIOUS
  <2> QED BY <1>2, <1>3, <1>4, <2>1, <2>2
<1> QED BY <1>1, <1>4, <1>5 DEF p, q, t

\* A call of its own, when nothing is open.
LEMMA EmitCallNests ==
  ASSUME NEW w \in WriterSet, Nest(w), w.open = {}, w.proto # "chat",
         NEW b \in BlockSet
  PROVE  LET v == EmitCall(w, b)
             i == w.next + 1
         IN  /\ v \in WriterSet /\ Nest(v)
             /\ v.proto = w.proto /\ v.stream = w.stream /\ v.started = w.started
             /\ v.next = i /\ v.index = w.index /\ v.open = {}
             /\ v.body = w.body /\ v.status = w.status
             /\ v.frames = Append(Append(Append(w.frames, Frame("open", i, "tool_use", <<>>)),
                                         Frame("delta", i, "tool_use", b.of)),
                                  Frame("close", i, "tool_use", <<>>))
<1> DEFINE i == w.next + 1
           u == [w EXCEPT !.next = i]
           f == Frame("open", i, "tool_use", <<>>)
           g == Frame("delta", i, "tool_use", b.of)
           h == Frame("close", i, "tool_use", <<>>)
           v == EmitCall(w, b)
           N == Len(w.frames)
<1>1. /\ u \in WriterSet /\ u.proto = w.proto /\ u.stream = w.stream /\ u.started = w.started
      /\ u.next = i /\ u.index = w.index /\ u.open = {} /\ u.body = w.body
      /\ u.status = w.status /\ u.frames = w.frames /\ i \in Nat /\ w.next \in Nat
  <2>1. i \in Nat /\ w.next \in Nat
    BY DEF WriterSet
  <2> HIDE DEF i
  <2> QED BY <2>1 DEF WriterSet
<1>2. f \in FrameSet /\ g \in FrameSet /\ h \in FrameSet
  <2>1. b.of \in Seq(Values) /\ "tool_use" \in Kinds \cup {"tool_use", "none"} /\ <<>> \in Seq(Values)
    BY DEF BlockSet
  <2> QED BY <1>1, <2>1, FrameTypes
<1>3. /\ f.ev = "open" /\ f.i = i /\ g.ev = "delta" /\ g.i = i /\ h.ev = "close" /\ h.i = i
  BY DEF Frame
<1>4. v = Put(Put(Put(u, f), g), h)
  BY DEF EmitCall
<1> HIDE DEF u, f, g, h, v
<1>5. /\ v \in WriterSet /\ v.proto = w.proto /\ v.stream = w.stream /\ v.started = w.started
      /\ v.next = i /\ v.index = w.index /\ v.open = {} /\ v.body = w.body
      /\ v.status = w.status
      /\ v.frames = Append(Append(Append(w.frames, f), g), h)
      /\ N \in Nat /\ DOMAIN w.frames = 1..N /\ DOMAIN v.frames = 1..(N + 3)
      /\ v.frames[N + 1] = f /\ v.frames[N + 2] = g /\ v.frames[N + 3] = h
      /\ \A n \in 1..N : v.frames[n] = w.frames[n]
  <2> DEFINE x == Put(u, f)
             y == Put(x, g)
  <2>1. LET M == Len(u.frames)
        IN  /\ x \in WriterSet
            /\ x.proto = u.proto /\ x.stream = u.stream /\ x.started = u.started
            /\ x.next = u.next /\ x.index = u.index /\ x.open = u.open
            /\ x.body = u.body /\ x.status = u.status
            /\ x.frames = Append(u.frames, f) /\ M \in Nat /\ DOMAIN u.frames = 1..M
    <3>1. PICK a \in WriterSet, d \in FrameSet : a = u /\ d = f
      BY <1>1, <1>2
    <3>2. PICK c : c = Put(a, d)
      OBVIOUS
    <3>3. /\ c \in WriterSet
          /\ c.proto = a.proto /\ c.stream = a.stream /\ c.started = a.started
          /\ c.next = a.next /\ c.index = a.index /\ c.open = a.open
          /\ c.body = a.body /\ c.status = a.status
          /\ c.frames = Append(a.frames, d) /\ Len(a.frames) \in Nat /\ DOMAIN a.frames = 1..Len(a.frames)
      BY <3>2, PutIs
    <3> QED BY <3>1, <3>2, <3>3
  <2> HIDE DEF x
  <2>2. /\ y \in WriterSet
        /\ y.proto = x.proto /\ y.stream = x.stream /\ y.started = x.started
        /\ y.next = x.next /\ y.index = x.index /\ y.open = x.open
        /\ y.body = x.body /\ y.status = x.status
        /\ y.frames = Append(x.frames, g)
    <3>1. PICK a \in WriterSet, d \in FrameSet : a = x /\ d = g
      BY <1>2, <2>1
    <3>2. PICK c : c = Put(a, d)
      OBVIOUS
    <3>3. /\ c \in WriterSet
          /\ c.proto = a.proto /\ c.stream = a.stream /\ c.started = a.started
          /\ c.next = a.next /\ c.index = a.index /\ c.open = a.open
          /\ c.body = a.body /\ c.status = a.status /\ c.frames = Append(a.frames, d)
      BY <3>2, PutIs
    <3> QED BY <3>1, <3>2, <3>3
  <2> HIDE DEF y
  <2>3. v = Put(y, h)
    BY <1>4 DEF x, y
  <2>4. LET z == Put(y, h)
        IN  /\ z \in WriterSet
            /\ z.proto = y.proto /\ z.stream = y.stream /\ z.started = y.started
            /\ z.next = y.next /\ z.index = y.index /\ z.open = y.open
            /\ z.body = y.body /\ z.status = y.status
            /\ z.frames = Append(y.frames, h)
    <3>1. PICK a \in WriterSet, d \in FrameSet : a = y /\ d = h
      BY <1>2, <2>2
    <3>2. PICK c : c = Put(a, d)
      OBVIOUS
    <3>3. /\ c \in WriterSet
          /\ c.proto = a.proto /\ c.stream = a.stream /\ c.started = a.started
          /\ c.next = a.next /\ c.index = a.index /\ c.open = a.open
          /\ c.body = a.body /\ c.status = a.status /\ c.frames = Append(a.frames, d)
      BY <3>2, PutIs
    <3> QED BY <3>1, <3>2, <3>3
  <2>5. v.frames = Append(Append(Append(w.frames, f), g), h)
    BY <1>1, <2>1, <2>2, <2>3, <2>4
  <2>6. N \in Nat /\ DOMAIN w.frames = 1..N /\ w.frames \in Seq(FrameSet)
    BY <1>1, <2>1 DEF WriterSet
  <2>7. /\ DOMAIN v.frames = 1..(N + 3)
        /\ v.frames[N + 1] = f /\ v.frames[N + 2] = g /\ v.frames[N + 3] = h
        /\ \A n \in 1..N : v.frames[n] = w.frames[n]
    <3>1. PICK s \in Seq(FrameSet) : s = w.frames
      BY <2>6
    <3>2. PICK t : t = v.frames
      OBVIOUS
    <3>3. /\ f \in FrameSet /\ g \in FrameSet /\ h \in FrameSet
          /\ N = Len(s) /\ t = Append(Append(Append(s, f), g), h)
      BY <1>2, <2>5, <2>6, <3>1, <3>2
    <3>4. /\ DOMAIN t = 1..(N + 3) /\ t[N + 1] = f /\ t[N + 2] = g /\ t[N + 3] = h
          /\ \A n \in 1..N : t[n] = s[n]
      BY ONLY s \in Seq(FrameSet), <3>3, ThreeMore
    <3> QED BY ONLY <3>1, <3>2, <3>4
  <2> QED BY <1>1, <2>1, <2>2, <2>3, <2>4, <2>5, <2>6, <2>7
<1> HIDE DEF N
<1>6. \A n \in DOMAIN v.frames :
        \/ n \in DOMAIN w.frames /\ v.frames[n] = w.frames[n]
        \/ n \in {N + 1, N + 2, N + 3} /\ n \notin DOMAIN w.frames /\ v.frames[n].i = i
  <2>1. /\ N \in Nat /\ DOMAIN v.frames = 1..(N + 3) /\ DOMAIN w.frames = 1..N
        /\ v.frames[N + 1] = f /\ v.frames[N + 2] = g /\ v.frames[N + 3] = h
        /\ \A n \in 1..N : v.frames[n] = w.frames[n]
    BY <1>5
  <2>2. f.i = i /\ g.i = i /\ h.i = i
    BY <1>3
  <2>3. /\ \A n \in 1..(N + 3) : n \in 1..N \/ n = N + 1 \/ n = N + 2 \/ n = N + 3
        /\ N + 1 \notin 1..N /\ N + 2 \notin 1..N /\ N + 3 \notin 1..N
    BY ONLY <2>1
  <2> QED BY ONLY <2>1, <2>2, <2>3
<1>7. \A n \in DOMAIN w.frames : n \in DOMAIN v.frames /\ v.frames[n] = w.frames[n] /\ n < N + 1
  BY <1>5
<1>8. \A n \in DOMAIN w.frames : w.frames[n].ev \in OfABlock => w.frames[n].i \in 1..w.next
  BY DEF Nest, Numbered
<1>9. i \notin 1..w.next /\ 1..w.next \subseteq 1..i /\ i \in 1..i /\ \A j \in 1..i : j # i => j \in 1..w.next
  BY <1>1
<1> HIDE DEF i
<1>10. N + 1 \in DOMAIN v.frames /\ N + 2 \in DOMAIN v.frames /\ N + 3 \in DOMAIN v.frames
  BY <1>5
<1>11. Numbered(v)
  BY <1>5, <1>6, <1>8, <1>9 DEF Numbered
<1>12. \A n \in DOMAIN v.frames : v.frames[n].ev \in OfABlock /\ v.frames[n].i = i =>
         n \in {N + 1, N + 2, N + 3}
  BY <1>6, <1>8, <1>9
<1>13. ASSUME NEW j \in 1..v.next PROVE \E o \in DOMAIN v.frames : Opens(v, j, o)
  <2>1. CASE j = i
    <3>1. ASSUME NEW n \in DOMAIN v.frames, v.frames[n].ev \in OfABlock, v.frames[n].i = i
          PROVE  N + 1 <= n /\ (v.frames[n].ev = "open" => n = N + 1)
      <4>1. n \in {N + 1, N + 2, N + 3}
        BY <1>12, <3>1
      <4> QED BY <1>3, <1>5, <4>1
    <3>2. v.frames[N + 1].ev = "open" /\ v.frames[N + 1].i = i
      BY <1>3, <1>5
    <3> QED BY <1>10, <2>1, <3>1, <3>2 DEF Opens
  <2>2. CASE j # i
    <3>1. PICK o \in DOMAIN w.frames : Opens(w, j, o)
      BY <1>5, <1>9, <2>2 DEF Nest, Opened
    <3>2. o \in DOMAIN v.frames /\ Opens(v, j, o)
      BY <1>6, <1>7, <2>2, <3>1 DEF Opens
    <3> QED BY <3>2
  <2> QED BY <2>1, <2>2
<1>14. \A j : Closed(v, j) <=> Closed(w, j) \/ j = i
  <2>1. \A j : Closed(w, j) => Closed(v, j)
    BY <1>7 DEF Closed
  <2>2. Closed(v, i)
    BY <1>3, <1>5, <1>10 DEF Closed
  <2>3. \A j : Closed(v, j) => Closed(w, j) \/ j = i
    BY <1>6 DEF Closed
  <2> QED BY <2>1, <2>2, <2>3
<1>15. StopsLast(v)
  <2>1. ASSUME NEW m \in DOMAIN v.frames, NEW n \in DOMAIN v.frames, v.frames[m].ev = "close",
               v.frames[n].ev \in OfABlock, v.frames[m].i = v.frames[n].i
        PROVE  n <= m
    <3>1. CASE v.frames[m].i = i
      <4>1. m \in {N + 1, N + 2, N + 3} /\ n \in {N + 1, N + 2, N + 3}
        BY <1>12, <2>1, <3>1 DEF OfABlock
      <4>2. m = N + 3
        BY <1>3, <1>5, <2>1, <4>1
      <4> QED BY <1>5, <4>1, <4>2
    <3>2. CASE v.frames[m].i # i
      <4>1. m \in DOMAIN w.frames /\ v.frames[m] = w.frames[m] /\ n \in DOMAIN w.frames
             /\ v.frames[n] = w.frames[n]
        BY <1>6, <2>1, <3>2
      <4> QED BY <2>1, <4>1 DEF Nest, StopsLast
    <3> QED BY <3>1, <3>2
  <2> QED BY <2>1 DEF StopsLast
<1>16. \A j \in 1..w.next : Closed(w, j)
  BY DEF Nest, Accounted
<1>17. Accounted(v) /\ OpenAt(v) /\ LastIsOpen(v)
  BY <1>5, <1>9, <1>14, <1>16 DEF Accounted, OpenAt, LastIsOpen
<1>18. ASSUME v.proto = "messages" PROVE InTurn(v)
  <2>1. InTurn(w)
    BY <1>5, <1>18 DEF Nest
  <2>2. ASSUME NEW l \in 1..v.next, NEW j \in 1..v.next, l < j, NEW o \in DOMAIN v.frames,
               v.frames[o].ev = "open", v.frames[o].i = j
        PROVE  \E x \in DOMAIN v.frames : x < o /\ v.frames[x].ev = "close" /\ v.frames[x].i = l
    <3>1. l \in 1..w.next
      BY <1>1, <1>5, <2>2 DEF i
    <3>2. CASE j = i
      <4>1. o \in {N + 1, N + 2, N + 3}
        BY <1>12, <2>2, <3>2 DEF OfABlock
      <4>2. o >= N + 1 /\ o \in Nat
        BY <1>5, <4>1
      <4>3. Closed(w, l)
        BY <1>16, <3>1
      <4>4. PICK x \in DOMAIN w.frames : w.frames[x].ev = "close" /\ w.frames[x].i = l
        BY <4>3 DEF Closed
      <4>5. x \in Nat /\ x < N + 1
        BY <1>5, <1>7
      <4> QED BY <1>5, <1>7, <4>2, <4>4, <4>5
    <3>3. CASE j # i
      <4>1. j \in 1..w.next
        BY <1>5, <1>9, <3>3
      <4>2. o \in DOMAIN w.frames /\ v.frames[o] = w.frames[o]
        BY <1>6, <2>2, <3>3
      <4>3. PICK x \in DOMAIN w.frames : x < o /\ w.frames[x].ev = "close" /\ w.frames[x].i = l
        BY <2>1, <2>2, <3>1, <4>1, <4>2 DEF InTurn
      <4> QED BY <1>7, <4>3
    <3> QED BY <3>2, <3>3
  <2> QED BY <2>2 DEF InTurn
<1>19. Nest(v)
  BY <1>11, <1>13, <1>15, <1>17, <1>18 DEF Nest, Opened
<1> QED BY <1>5, <1>19 DEF v, f, g, h, i

-----------------------------------------------------------------------------
(* The writers as a whole *)

NoEnd(w) == \A n \in DOMAIN w.frames : w.frames[n].ev # "end"

\* Frame e is the end: no block is open, and only an error follows.
EndsAt(w, e) ==
  /\ w.frames[e].ev = "end" /\ w.frames[e].i = 0
  /\ \A n \in DOMAIN w.frames :
       (n > e => w.frames[n].ev = "error") /\ (n < e => w.frames[n].ev # "end")
  /\ w.proto # "chat" => w.open = {}

Over == {"finished", "failed"}

Shaped(w) == IF w.proto = "chat" THEN w.next = 0 /\ w.open = {} ELSE Nest(w)

Unended(w) == w \in WriterSet /\ Shaped(w) /\ NoEnd(w)

\* What every response is at any time.
WellFormed(w) ==
  /\ w \in WriterSet /\ Shaped(w)
  /\ NoEnd(w) \/ (w.status \in Over /\ \E e \in DOMAIN w.frames : EndsAt(w, e))

\* Responses leaves the item of a kind open until the end.
EmittedIsOpen(w) ==
  w.proto = "responses" => \A k \in Kinds : Emitted(w, k) => k \in w.open

\* A writer that takes deltas, and one that takes calls.
Streaming(w) == Unended(w) /\ Live(w) /\ w.stream /\ EmittedIsOpen(w)
Ending(w)    == Unended(w) /\ Live(w) /\ w.stream /\ w.open = {}

SameClient(w, v) ==
  v.proto = w.proto /\ v.stream = w.stream /\ v.body = w.body /\ v.status = w.status

\* A frame more keeps a live writer without an end.
LEMMA PutNoEnd ==
  ASSUME NEW w \in WriterSet, NoEnd(w), NEW f \in FrameSet, f.ev # "end"
  PROVE  NoEnd(Put(w, f))
<1> DEFINE v == Put(w, f)
           N == Len(w.frames)
<1>1. /\ DOMAIN w.frames = 1..N /\ DOMAIN v.frames = 1..(N + 1) /\ N \in Nat
      /\ v.frames[N + 1] = f /\ \A n \in 1..N : v.frames[n] = w.frames[n]
  BY PutIs
<1> HIDE DEF v, N
<1>2. \A n \in DOMAIN v.frames : n = N + 1 \/ n \in DOMAIN w.frames
  BY <1>1
<1>3. NoEnd(v)
  BY <1>1, <1>2 DEF NoEnd
<1> QED BY <1>3 DEF v

\* The first frames.
LEMMA EnsureStartKeeps ==
  ASSUME NEW w, Unended(w)
  PROVE  LET v == EnsureStart(w)
         IN  /\ Unended(v) /\ SameClient(w, v) /\ v.started
             /\ v.next = w.next /\ v.index = w.index /\ v.open = w.open
             /\ v.frames = IF w.started THEN w.frames ELSE Append(w.frames, Plain("start"))
<1>1. CASE w.started
  BY <1>1 DEF EnsureStart, SameClient
<1>2. CASE ~w.started
  <2> DEFINE u == [w EXCEPT !.started = TRUE]
             f == Plain("start")
             v == Put(u, f)
  <2>1. w \in WriterSet /\ Shaped(w) /\ NoEnd(w)
    BY DEF Unended
  <2>2. /\ u \in WriterSet /\ SameClient(w, u) /\ u.started
        /\ u.next = w.next /\ u.index = w.index /\ u.open = w.open /\ u.frames = w.frames
    BY <2>1 DEF WriterSet, SameClient
  <2>3. f \in FrameSet /\ f.ev = "start"
    <3>1. "none" \in Kinds \cup {"tool_use", "none"} /\ 0 \in Nat /\ <<>> \in Seq(Values)
      OBVIOUS
    <3>2. f \in FrameSet
      BY <3>1, FrameTypes
    <3> QED BY <3>2 DEF Plain, Frame
  <2>4. EnsureStart(w) = v
    BY <1>2 DEF EnsureStart
  <2> HIDE DEF u, f
  <2>5. NoEnd(u)
    BY <2>1, <2>2 DEF NoEnd
  <2>6. NoEnd(v)
    BY <2>2, <2>3, <2>5, PutNoEnd
  <2>7. /\ v \in WriterSet /\ v.proto = u.proto /\ v.stream = u.stream /\ v.started = u.started
        /\ v.next = u.next /\ v.index = u.index /\ v.open = u.open
        /\ v.body = u.body /\ v.status = u.status /\ v.frames = Append(u.frames, f)
    BY <2>2, <2>3, PutIs
  <2>8. Shaped(v)
    <3>1. CASE w.proto = "chat"
      BY <2>1, <2>2, <2>7, <3>1 DEF Shaped, SameClient
    <3>2. CASE w.proto # "chat"
      <4>1. Nest(w) /\ u.proto = w.proto
        BY <2>1, <2>2, <3>2 DEF Shaped, SameClient
      <4>2. Nest(u)
        BY <2>2, <4>1 DEF Nest, Numbered, Opened, Opens, StopsLast, Accounted, Closed, OpenAt,
                          LastIsOpen, InTurn
      <4>3. Nest(v)
        BY <2>2, <2>3, <4>2, PutPlain DEF OfABlock
      <4> QED BY <2>7, <3>2, <4>1, <4>3 DEF Shaped
    <3> QED BY <3>1, <3>2
  <2> QED BY <1>2, <2>2, <2>4, <2>6, <2>7, <2>8 DEF Unended, SameClient, f
<1> QED BY <1>1, <1>2

\* The stop of a block, or nothing.
LEMMA CloseKeeps ==
  ASSUME NEW w, Unended(w), NEW k \in Kinds
  PROVE  LET v == Close(w, k)
         IN  /\ Unended(v) /\ SameClient(w, v) /\ v.started = w.started
             /\ v.next = w.next /\ v.index = w.index /\ v.open = w.open \ {k}
             /\ v.frames = IF k \in w.open
                             THEN Append(w.frames, Frame("close", w.index[k], k, <<>>))
                             ELSE w.frames
<1>1. w \in WriterSet /\ Shaped(w) /\ NoEnd(w)
  BY DEF Unended
<1>2. CASE k \notin w.open
  <2>1. Close(w, k) = w /\ w.open \ {k} = w.open
    BY <1>2 DEF Close
  <2> QED BY <1>2, <2>1 DEF SameClient
<1>3. CASE k \in w.open
  <2> DEFINE v == Close(w, k)
             f == Frame("close", w.index[k], k, <<>>)
  <2>1. w.proto # "chat" /\ Nest(w)
    BY <1>1, <1>3 DEF Shaped
  <2>2. /\ v \in WriterSet /\ Nest(v)
        /\ v.proto = w.proto /\ v.stream = w.stream /\ v.started = w.started
        /\ v.next = w.next /\ v.index = w.index /\ v.open = w.open \ {k}
        /\ v.body = w.body /\ v.status = w.status
        /\ v.frames = Append(w.frames, f)
    BY <1>1, <1>3, <2>1, CloseNests
  <2>3. f.ev # "end" /\ w.frames \in Seq(FrameSet) /\ f \in FrameSet
    <3>1. w.index[k] \in Nat /\ k \in Kinds \cup {"tool_use", "none"} /\ <<>> \in Seq(Values)
      BY <1>1 DEF WriterSet
    <3>2. f \in FrameSet
      BY <3>1, FrameTypes
    <3>3. f.ev # "end"
      BY DEF Frame
    <3> QED BY <1>1, <3>2, <3>3 DEF WriterSet
  <2> HIDE DEF v, f
  <2>4. NoEnd(v)
    BY <1>1, <2>2, <2>3 DEF NoEnd
  <2> QED BY <1>3, <2>1, <2>2, <2>4 DEF Unended, Shaped, SameClient, v, f
<1> QED BY <1>2, <1>3

\* The stop of all.
LEMMA CloseAllKeeps ==
  ASSUME NEW w, Unended(w)
  PROVE  LET v == CloseAll(w)
         IN  /\ Unended(v) /\ SameClient(w, v) /\ v.started = w.started
             /\ v.next = w.next /\ v.index = w.index /\ v.open = {}
<1> DEFINE u == Close(w, "thinking")
           v == Close(u, "text")
<1>1. "thinking" \in Kinds /\ "text" \in Kinds
  BY DEF Kinds
<1>2. /\ Unended(u) /\ SameClient(w, u) /\ u.started = w.started
      /\ u.next = w.next /\ u.index = w.index /\ u.open = w.open \ {"thinking"}
  BY <1>1, CloseKeeps
<1> HIDE DEF u
<1>3. /\ Unended(v) /\ SameClient(u, v) /\ v.started = u.started
      /\ v.next = u.next /\ v.index = u.index /\ v.open = u.open \ {"text"}
  BY <1>1, <1>2, CloseKeeps
<1>4. w.open \subseteq Kinds
  BY DEF Unended, WriterSet
<1>5. v.open = {}
  BY <1>2, <1>3, <1>4 DEF Kinds
<1> QED BY <1>2, <1>3, <1>5 DEF CloseAll, SameClient, u

\* The block that a delta goes to.
LEMMA EnsureBlockKeeps ==
  ASSUME NEW w, Streaming(w), NEW k \in Kinds
  PROVE  LET v == EnsureBlock(w, k)
         IN  /\ Streaming(v) /\ SameClient(w, v) /\ v.started = w.started
             /\ v.proto # "chat" => k \in v.open
             /\ \A l \in Kinds : Emitted(v, l) <=> l = k \/ Emitted(w, l)
<1> DEFINE v == EnsureBlock(w, k)
<1>1. w \in WriterSet /\ Shaped(w) /\ NoEnd(w) /\ Live(w) /\ w.stream /\ EmittedIsOpen(w) /\ Unended(w)
  BY DEF Streaming, Unended
<1>2. w.proto \in Protocols /\ w.open \subseteq Kinds /\ w.index \in [Kinds -> Nat] /\ w.next \in Nat
  BY <1>1 DEF WriterSet
<1>3. CASE w.proto = "chat"
  <2>1. v = [w EXCEPT !.index = [w.index EXCEPT ![k] = 1]]
    BY <1>3 DEF EnsureBlock
  <2>2. [w.index EXCEPT ![k] = 1] \in [Kinds -> Nat]
    BY <1>2
  <2>3. /\ v \in WriterSet /\ SameClient(w, v) /\ v.started = w.started
        /\ v.index = [w.index EXCEPT ![k] = 1] /\ v.frames = w.frames
        /\ v.next = w.next /\ v.open = w.open
    BY <1>1, <2>1, <2>2 DEF WriterSet, SameClient
  <2> HIDE DEF v
  <2>4. Streaming(v)
    BY <1>1, <1>3, <2>3 DEF Streaming, Unended, Shaped, NoEnd, Live, EmittedIsOpen, SameClient
  <2>5. \A l \in Kinds : Emitted(v, l) <=> l = k \/ Emitted(w, l)
    BY <1>2, <2>3 DEF Emitted
  <2>6. v.proto = "chat"
    BY <1>3, <2>3 DEF SameClient
  <2> QED BY <2>3, <2>4, <2>5, <2>6 DEF v
<1>4. ASSUME w.proto # "chat", k \in w.open
      PROVE  v = w /\ Emitted(w, k)
  <2>1. w.index[k] \in 1..w.next
    BY <1>1, <1>4 DEF Shaped, Nest, OpenAt
  <2>2. Emitted(w, k)
    BY <2>1 DEF Emitted
  <2> QED BY <1>2, <1>4, <2>2 DEF EnsureBlock, Protocols
<1>5. ASSUME NEW u, Unended(u), SameClient(w, u), u.started = w.started, u.index = w.index,
             w.proto # "chat", k \notin u.open, w.proto = "messages" => u.open = {},
             w.proto = "responses" => u.open = w.open,
             v = NewBlock(u, k)
      PROVE  /\ Streaming(v) /\ SameClient(w, v) /\ v.started = w.started /\ k \in v.open
             /\ \A l \in Kinds : Emitted(v, l) <=> l = k \/ Emitted(w, l)
  <2>1. u \in WriterSet /\ Nest(u) /\ NoEnd(u) /\ u.proto = w.proto
    BY <1>5 DEF Unended, Shaped, SameClient
  <2> DEFINE f == Frame("open", u.next + 1, k, <<>>)
  <2>2. /\ v \in WriterSet /\ Nest(v)
        /\ v.proto = u.proto /\ v.stream = u.stream /\ v.started = u.started
        /\ v.next = u.next + 1 /\ v.index = [u.index EXCEPT ![k] = u.next + 1]
        /\ v.open = u.open \cup {k} /\ v.body = u.body /\ v.status = u.status
        /\ v.frames = Append(u.frames, f)
    BY <1>5, <2>1, NewBlockNests
  <2>3. u.next \in Nat /\ u.frames \in Seq(FrameSet) /\ v.frames \in Seq(FrameSet)
    BY <2>1, <2>2 DEF WriterSet
  <2>4. f.ev # "end"
    BY DEF Frame
  <2> HIDE DEF f, v
  <2>5. NoEnd(v)
    <3>1. ASSUME NEW n \in DOMAIN v.frames
          PROVE  v.frames[n] = f \/ (n \in DOMAIN u.frames /\ v.frames[n] = u.frames[n])
      <4>1. f \in FrameSet
        <5>1. u.next + 1 \in Nat /\ k \in Kinds \cup {"tool_use", "none"} /\ <<>> \in Seq(Values)
          BY <2>3
        <5> QED BY <5>1, FrameTypes DEF f
      <4> QED BY <2>2, <2>3, <4>1
    <3> QED BY <2>1, <2>4, <3>1 DEF NoEnd
  <2>6. \A l \in Kinds : Emitted(v, l) <=> l = k \/ Emitted(w, l)
    <3>1. u.next + 1 # 0 /\ v.index = [w.index EXCEPT ![k] = u.next + 1]
      BY <1>5, <2>2, <2>3
    <3> QED BY <1>2, <3>1 DEF Emitted
  <2>7. SameClient(w, v) /\ v.started = w.started
    BY <1>5, <2>2 DEF SameClient
  <2>8. Live(v) /\ v.stream /\ v.proto = w.proto
    BY <1>1, <2>7 DEF Live, SameClient
  <2>9. EmittedIsOpen(v)
    BY <1>1, <1>5, <2>2, <2>6, <2>8 DEF EmittedIsOpen
  <2>10. Streaming(v)
    BY <1>5, <2>2, <2>5, <2>8, <2>9 DEF Streaming, Unended, Shaped
  <2> QED BY <2>2, <2>6, <2>7, <2>10
<1>6. CASE w.proto = "messages" /\ k \notin w.open
  <2> DEFINE u == CloseAll(w)
  <2>1. /\ Unended(u) /\ SameClient(w, u) /\ u.started = w.started
        /\ u.next = w.next /\ u.index = w.index /\ u.open = {}
    BY <1>1, CloseAllKeeps
  <2>2. v = NewBlock(u, k)
    BY <1>6 DEF EnsureBlock
  <2> HIDE DEF u, v
  <2>3. Streaming(v) /\ SameClient(w, v) /\ v.started = w.started /\ k \in v.open
          /\ \A l \in Kinds : Emitted(v, l) <=> l = k \/ Emitted(w, l)
    BY <1>5, <1>6, <2>1, <2>2
  <2> QED BY <2>3 DEF v
<1>7. CASE w.proto = "responses" /\ k \notin w.open
  <2>1. v = NewBlock(w, k)
    BY <1>1, <1>7 DEF EnsureBlock, EmittedIsOpen
  <2>2. SameClient(w, w)
    BY DEF SameClient
  <2> HIDE DEF v
  <2>3. Streaming(v) /\ SameClient(w, v) /\ v.started = w.started /\ k \in v.open
          /\ \A l \in Kinds : Emitted(v, l) <=> l = k \/ Emitted(w, l)
    BY <1>1, <1>5, <1>7, <2>1, <2>2
  <2> QED BY <2>3 DEF v
<1>8. CASE w.proto # "chat" /\ k \in w.open
  BY <1>1, <1>4, <1>8 DEF SameClient
<1> QED BY <1>2, <1>3, <1>6, <1>7, <1>8 DEF Protocols

\* A delta.
LEMMA OnDeltaKeeps ==
  ASSUME NEW w, Streaming(w), NEW k \in Kinds, NEW of \in Seq(Values)
  PROVE  LET v == OnDelta(w, k, of)
         IN  /\ Streaming(v) /\ SameClient(w, v)
             /\ \A l \in Kinds : Emitted(v, l) <=> l = k \/ Emitted(w, l)
<1> DEFINE u == EnsureStart(w)
           b == EnsureBlock(u, k)
           f == Frame("delta", b.index[k], k, of)
           v == OnDelta(w, k, of)
<1>1. Unended(w) /\ Live(w) /\ w.stream /\ EmittedIsOpen(w)
  BY DEF Streaming
<1>2. /\ Unended(u) /\ SameClient(w, u) /\ u.started
      /\ u.next = w.next /\ u.index = w.index /\ u.open = w.open
  BY <1>1, EnsureStartKeeps
<1>3. v = Put(b, f)
  BY <1>1 DEF OnDelta
<1> HIDE DEF u
<1>4. Streaming(u) /\ \A l \in Kinds : Emitted(u, l) <=> Emitted(w, l)
  BY <1>1, <1>2 DEF Streaming, Live, EmittedIsOpen, Emitted, SameClient
<1>5. /\ Streaming(b) /\ SameClient(u, b) /\ b.started = u.started
      /\ b.proto # "chat" => k \in b.open
      /\ \A l \in Kinds : Emitted(b, l) <=> l = k \/ Emitted(u, l)
  BY <1>4, EnsureBlockKeeps
<1> HIDE DEF b, v
<1>6. b \in WriterSet /\ Shaped(b) /\ NoEnd(b) /\ Live(b) /\ b.stream /\ EmittedIsOpen(b)
  BY <1>5 DEF Streaming, Unended
<1>7. f \in FrameSet /\ f.ev = "delta" /\ f.i = b.index[k]
  <2>1. b.index[k] \in Nat /\ k \in Kinds \cup {"tool_use", "none"}
    BY <1>6 DEF WriterSet
  <2>2. f \in FrameSet
    BY <2>1, FrameTypes
  <2> QED BY <2>2 DEF Frame
<1> HIDE DEF f
<1>8. /\ v \in WriterSet /\ v.proto = b.proto /\ v.stream = b.stream
      /\ v.next = b.next /\ v.index = b.index /\ v.open = b.open
      /\ v.body = b.body /\ v.status = b.status
  BY <1>3, <1>6, <1>7, PutIs
<1>9. NoEnd(v)
  BY <1>3, <1>6, <1>7, PutNoEnd
<1>10. Shaped(v)
  <2>1. CASE b.proto = "chat"
    BY <1>6, <1>8, <2>1 DEF Shaped
  <2>2. CASE b.proto # "chat"
    <3>1. Nest(b) /\ k \in b.open
      BY <1>5, <1>6, <2>2 DEF Shaped
    <3>2. Nest(v)
      BY <1>3, <1>6, <1>7, <3>1, PutDelta
    <3> QED BY <1>8, <2>2, <3>2 DEF Shaped
  <2> QED BY <2>1, <2>2
<1>11. \A l \in Kinds : Emitted(v, l) <=> l = k \/ Emitted(w, l)
  BY <1>4, <1>5, <1>8 DEF Emitted
<1>12. SameClient(w, v)
  BY <1>2, <1>5, <1>8 DEF SameClient
<1>13. Streaming(v)
  BY <1>6, <1>8, <1>9, <1>10 DEF Streaming, Unended, Live, EmittedIsOpen, Emitted
<1> QED BY <1>11, <1>12, <1>13 DEF v

-----------------------------------------------------------------------------
(* What blocks say *)

\* Texts that are put together.
LEMMA Texts ==
  ASSUME NEW r \in Seq(Values), NEW s \in Seq(Values), NEW t \in Seq(Values)
  PROVE  /\ r \o s \in Seq(Values) /\ (r \o s) \o t = r \o (s \o t)
         /\ r \o <<>> = r /\ <<>> \o r = r /\ <<>> \in Seq(Values)
<1>1. (r \o s) \o t = r \o (s \o t)
  BY ConcatAssociative
<1>2. r \o <<>> = r /\ <<>> \o r = r
  BY ConcatEmptySeq
<1> QED BY <1>1, <1>2

\* The same of all texts.
LEMMA TextsJoin ==
  \A r, s, t \in Seq(Values) : (r \o s) \o t = r \o (s \o t)
BY Texts

\* The fragments of a kind: none, those of one block, and those of a block more.
LEMMA FragmentsAre ==
  ASSUME NEW k
  PROVE  /\ FragmentsOf(<<>>, k) = <<>>
         /\ \A b \in BlockSet : FragmentsOf(<<b>>, k) = IF b.kind = k THEN b.of ELSE <<>>
         /\ \A s \in Seq(BlockSet), b \in BlockSet :
              FragmentsOf(Append(s, b), k)
                = IF b.kind = k THEN FragmentsOf(s, k) \o b.of ELSE FragmentsOf(s, k)
         /\ \A s \in Seq(BlockSet) : FragmentsOf(s, k) \in Seq(Values)
<1>1. FragmentsOf(<<>>, k) = <<>>
  BY FragmentsSteps
<1>2. \A s \in Seq(BlockSet), b \in BlockSet :
        FragmentsOf(Append(s, b), k)
          = IF b.kind = k THEN FragmentsOf(s, k) \o b.of ELSE FragmentsOf(s, k)
  BY FragmentsSteps
<1>3. ASSUME NEW b \in BlockSet
      PROVE  FragmentsOf(<<b>>, k) = IF b.kind = k THEN b.of ELSE <<>>
  <2>1. <<b>> = Append(<<>>, b) /\ <<>> \in Seq(BlockSet)
    OBVIOUS
  <2>2. FragmentsOf(<<b>>, k) = IF b.kind = k THEN <<>> \o b.of ELSE <<>>
    BY <1>1, <1>2, <2>1
  <2>3. b.of \in Seq(Values)
    BY DEF BlockSet
  <2>4. <<>> \o b.of = b.of
    BY <2>3, ConcatEmptySeq
  <2> QED BY <2>2, <2>4
<1> DEFINE T == {s \in Seq(BlockSet) : FragmentsOf(s, k) \in Seq(Values)}
<1>4. <<>> \in T
  <2>1. <<>> \in Seq(Values) /\ <<>> \in Seq(BlockSet)
    OBVIOUS
  <2> QED BY <1>1, <2>1
<1>5. ASSUME NEW s \in Seq(BlockSet), NEW b \in BlockSet, s \in T
      PROVE  Append(s, b) \in T
  <2>1. b.of \in Seq(Values) /\ Append(s, b) \in Seq(BlockSet) /\ FragmentsOf(s, k) \in Seq(Values)
    BY <1>5 DEF BlockSet
  <2>2. FragmentsOf(s, k) \o b.of \in Seq(Values)
    BY <2>1
  <2> QED BY <1>2, <2>1, <2>2
<1> HIDE DEF T
<1>6. Seq(BlockSet) \subseteq T
  BY <1>4, <1>5, SequenceInduction
<1>7. \A s \in Seq(BlockSet) : FragmentsOf(s, k) \in Seq(Values)
  BY <1>6 DEF T
<1> QED BY <1>1, <1>2, <1>3, <1>7

\* No block of a kind has no fragments of it.
LEMMA NoFragments ==
  ASSUME NEW k
  PROVE  \A s \in Seq(BlockSet) :
           (\A n \in DOMAIN s : s[n].kind # k) => FragmentsOf(s, k) = <<>>
<1> DEFINE T == {s \in Seq(BlockSet) :
                   (\A n \in DOMAIN s : s[n].kind # k) => FragmentsOf(s, k) = <<>>}
<1>1. <<>> \in T
  BY FragmentsAre
<1>2. ASSUME NEW s \in Seq(BlockSet), NEW b \in BlockSet, s \in T
      PROVE  Append(s, b) \in T
  <2>1. Append(s, b) \in Seq(BlockSet)
    OBVIOUS
  <2>2. ASSUME \A n \in DOMAIN Append(s, b) : Append(s, b)[n].kind # k
        PROVE  FragmentsOf(Append(s, b), k) = <<>>
    <3>1. /\ Len(s) + 1 \in DOMAIN Append(s, b) /\ Append(s, b)[Len(s) + 1] = b
          /\ \A n \in DOMAIN s : n \in DOMAIN Append(s, b) /\ Append(s, b)[n] = s[n]
      OBVIOUS
    <3>2. b.kind # k /\ \A n \in DOMAIN s : s[n].kind # k
      BY <2>2, <3>1
    <3>3. FragmentsOf(s, k) = <<>>
      BY <1>2, <3>2
    <3>4. FragmentsOf(Append(s, b), k) = FragmentsOf(s, k)
      BY <3>2, FragmentsAre
    <3> QED BY <3>3, <3>4
  <2> QED BY <2>1, <2>2
<1> HIDE DEF T
<1>3. Seq(BlockSet) \subseteq T
  BY <1>1, <1>2, SequenceInduction
<1> QED BY <1>3 DEF T

\* The fragments of two sequences of blocks.
LEMMA FragmentsConcat ==
  ASSUME NEW k, NEW s \in Seq(BlockSet)
  PROVE  \A t \in Seq(BlockSet) :
           FragmentsOf(s \o t, k) = FragmentsOf(s, k) \o FragmentsOf(t, k)
<1> DEFINE T == {t \in Seq(BlockSet) :
                   FragmentsOf(s \o t, k) = FragmentsOf(s, k) \o FragmentsOf(t, k)}
<1>1. <<>> \in T
  <2>1. FragmentsOf(<<>>, k) = <<>> /\ FragmentsOf(s, k) \in Seq(Values)
    BY FragmentsAre
  <2>2. s \o <<>> = s /\ FragmentsOf(s, k) \o <<>> = FragmentsOf(s, k)
    BY <2>1, ConcatEmptySeq
  <2> QED BY <2>1, <2>2
<1>2. ASSUME NEW t \in Seq(BlockSet), NEW b \in BlockSet, t \in T
      PROVE  Append(t, b) \in T
  <2>1. s \o t \in Seq(BlockSet) /\ Append(t, b) \in Seq(BlockSet)
         /\ s \o Append(t, b) = Append(s \o t, b) /\ b.of \in Seq(Values)
    BY DEF BlockSet
  <2>2. /\ FragmentsOf(Append(s \o t, b), k)
             = IF b.kind = k THEN FragmentsOf(s \o t, k) \o b.of ELSE FragmentsOf(s \o t, k)
        /\ FragmentsOf(Append(t, b), k)
             = IF b.kind = k THEN FragmentsOf(t, k) \o b.of ELSE FragmentsOf(t, k)
        /\ FragmentsOf(s, k) \in Seq(Values) /\ FragmentsOf(t, k) \in Seq(Values)
    BY <2>1, FragmentsAre
  <2>3. FragmentsOf(s \o t, k) = FragmentsOf(s, k) \o FragmentsOf(t, k)
    BY <1>2
  <2>4. (FragmentsOf(s, k) \o FragmentsOf(t, k)) \o b.of
          = FragmentsOf(s, k) \o (FragmentsOf(t, k) \o b.of)
    <3> DEFINE p == FragmentsOf(s, k)
               q == FragmentsOf(t, k)
               z == b.of
    <3>1. p \in Seq(Values) /\ q \in Seq(Values) /\ z \in Seq(Values)
      BY <2>1, <2>2
    <3> HIDE DEF p, q, z
    <3>2. (p \o q) \o z = p \o (q \o z)
      BY <3>1, TextsJoin
    <3> QED BY <3>2 DEF p, q, z
  <2>5. FragmentsOf(s \o Append(t, b), k) = FragmentsOf(s, k) \o FragmentsOf(Append(t, b), k)
    BY <2>1, <2>2, <2>3, <2>4, ZenonT(40)
  <2> QED BY <2>1, <2>5
<1> HIDE DEF T
<1>3. Seq(BlockSet) \subseteq T
  BY <1>1, <1>2, SequenceInduction
<1> QED BY <1>3 DEF T

\* Block i says x more.
SaysMore(s, i, x) == [s EXCEPT ![i].of = @ \o x]

\* A delta of the last block of a kind is at the end of the fragments of that kind, and
\* changes no other kind.
LEMMA FragmentsGrow ==
  ASSUME NEW x \in Seq(Values)
  PROVE  \A s \in Seq(BlockSet) : \A i \in DOMAIN s :
           LET t == SaysMore(s, i, x)
               k == s[i].kind
           IN  /\ t \in Seq(BlockSet) /\ Len(t) = Len(s)
               /\ t[i] = Block(k, s[i].of \o x)
               /\ \A n \in DOMAIN s : n # i => t[n] = s[n]
               /\ \A l : l # k => FragmentsOf(t, l) = FragmentsOf(s, l)
               /\ (\A n \in (i + 1)..Len(s) : s[n].kind # k) =>
                    FragmentsOf(t, k) = FragmentsOf(s, k) \o x
<1> DEFINE G(s) == \A i \in DOMAIN s :
             LET t == SaysMore(s, i, x)
                 k == s[i].kind
             IN  /\ \A l : l # k => FragmentsOf(t, l) = FragmentsOf(s, l)
                 /\ (\A n \in (i + 1)..Len(s) : s[n].kind # k) =>
                      FragmentsOf(t, k) = FragmentsOf(s, k) \o x
           T == {s \in Seq(BlockSet) : G(s)}
<1>1. ASSUME NEW b \in BlockSet PROVE [b EXCEPT !.of = b.of \o x] = Block(b.kind, b.of \o x)
                                      /\ Block(b.kind, b.of \o x) \in BlockSet
  <2> DEFINE y == b.of \o x
  <2>1. y \in Seq(Values)
    BY DEF BlockSet
  <2> HIDE DEF y
  <2>2. [b EXCEPT !.of = y] = Block(b.kind, y)
    BY DEF BlockSet, Block
  <2>3. Block(b.kind, y) \in BlockSet
    BY <2>1 DEF BlockSet, Block
  <2> QED BY <2>2, <2>3 DEF y
<1>2. ASSUME NEW s \in Seq(BlockSet), NEW i \in DOMAIN s
      PROVE  LET t == SaysMore(s, i, x)
                 k == s[i].kind
             IN  /\ t \in Seq(BlockSet) /\ Len(t) = Len(s) /\ DOMAIN t = DOMAIN s
                 /\ t[i] = Block(k, s[i].of \o x)
                 /\ \A n \in DOMAIN s : n # i => t[n] = s[n]
  <2> DEFINE c == Block(s[i].kind, s[i].of \o x)
  <2>1. SaysMore(s, i, x) = [s EXCEPT ![i] = c] /\ c \in BlockSet
    <3>1. s[i] \in BlockSet
      OBVIOUS
    <3>2. [s[i] EXCEPT !.of = s[i].of \o x] = c /\ c \in BlockSet
      BY <1>1, <3>1
    <3> QED BY <3>2 DEF SaysMore
  <2> HIDE DEF c
  <2>2. DOMAIN s = 1..Len(s) /\ Len(s) \in Nat
    OBVIOUS
  <2>3. [s EXCEPT ![i] = c] \in Seq(BlockSet) /\ Len([s EXCEPT ![i] = c]) = Len(s)
    BY <2>1, <2>2
  <2> QED BY <2>1, <2>2, <2>3 DEF c
<1>3. <<>> \in T
  OBVIOUS
<1>4. ASSUME NEW s \in Seq(BlockSet), NEW b \in BlockSet, s \in T
      PROVE  Append(s, b) \in T
  <2> DEFINE u == Append(s, b)
             N == Len(s)
  <2>1. /\ u \in Seq(BlockSet) /\ N \in Nat /\ DOMAIN s = 1..N /\ DOMAIN u = 1..(N + 1)
        /\ Len(u) = N + 1 /\ u[N + 1] = b /\ \A n \in 1..N : u[n] = s[n]
    OBVIOUS
  <2> HIDE DEF u, N
  <2>2. ASSUME NEW i \in DOMAIN u
        PROVE  LET t == SaysMore(u, i, x)
                   k == u[i].kind
               IN  /\ \A l : l # k => FragmentsOf(t, l) = FragmentsOf(u, l)
                   /\ (\A n \in (i + 1)..Len(u) : u[n].kind # k) =>
                        FragmentsOf(t, k) = FragmentsOf(u, k) \o x
    <3> DEFINE t == SaysMore(u, i, x)
               k == u[i].kind
    <3>1. /\ t \in Seq(BlockSet) /\ Len(t) = Len(u) /\ DOMAIN t = DOMAIN u
          /\ t[i] = Block(k, u[i].of \o x)
          /\ \A n \in DOMAIN u : n # i => t[n] = u[n]
      BY <1>2, <2>1
    <3> HIDE DEF t
    <3>2. ASSUME NEW l
          PROVE  FragmentsOf(u, l) = IF b.kind = l THEN FragmentsOf(s, l) \o b.of ELSE FragmentsOf(s, l)
      BY FragmentsAre DEF u
    <3>3. CASE i = N + 1
      <4> DEFINE c == Block(b.kind, b.of \o x)
      <4>1. c \in BlockSet /\ k = b.kind
        BY <1>1, <2>1, <3>3
      <4>2. t = Append(s, c)
        <5>1. t[N + 1] = c /\ \A n \in 1..N : t[n] = s[n]
          BY <2>1, <3>1, <3>3
        <5>2. Len(Append(s, c)) = N + 1 /\ Append(s, c)[N + 1] = c
               /\ \A n \in 1..N : Append(s, c)[n] = s[n]
          BY <4>1 DEF N
        <5>3. Append(s, c) \in Seq(BlockSet)
          BY <4>1
        <5> HIDE DEF c
        <5> QED BY <2>1, <3>1, <5>1, <5>2, <5>3
      <4>3. c.kind = k /\ c.of = b.of \o x /\ b.of \in Seq(Values)
        BY <4>1 DEF Block, BlockSet
      <4> HIDE DEF c, k
      <4>4. \A l : FragmentsOf(t, l) = IF c.kind = l THEN FragmentsOf(s, l) \o c.of ELSE FragmentsOf(s, l)
        BY <4>1, <4>2, FragmentsAre
      <4>5. \A l : l # k => FragmentsOf(t, l) = FragmentsOf(u, l)
        BY <3>2, <4>1, <4>3, <4>4
      <4>6. FragmentsOf(t, k) = FragmentsOf(u, k) \o x
        <5>1. FragmentsOf(s, k) \in Seq(Values)
          BY FragmentsAre
        <5>2. FragmentsOf(s, k) \o (b.of \o x) = (FragmentsOf(s, k) \o b.of) \o x
          <6> DEFINE p == FragmentsOf(s, k)
                     z == b.of
          <6>1. p \in Seq(Values) /\ z \in Seq(Values)
            BY <4>3, <5>1
          <6> HIDE DEF p, z
          <6>2. (p \o z) \o x = p \o (z \o x)
            BY <6>1, Texts
          <6> QED BY <6>2 DEF p, z
        <5> QED BY <3>2, <4>1, <4>3, <4>4, <5>2
      <4> QED BY <4>5, <4>6 DEF t, k
    <3>4. CASE i # N + 1
      <4> DEFINE r == SaysMore(s, i, x)
      <4>1. i \in DOMAIN s /\ u[i] = s[i] /\ k = s[i].kind
        BY <2>1, <3>4
      <4>2. /\ r \in Seq(BlockSet) /\ Len(r) = N /\ DOMAIN r = DOMAIN s
            /\ r[i] = Block(k, s[i].of \o x) /\ \A n \in DOMAIN s : n # i => r[n] = s[n]
        BY <1>2, <4>1 DEF N
      <4>3. /\ \A l : l # k => FragmentsOf(r, l) = FragmentsOf(s, l)
            /\ (\A n \in (i + 1)..N : s[n].kind # k) => FragmentsOf(r, k) = FragmentsOf(s, k) \o x
        BY <1>4, <4>1 DEF N
      <4> HIDE DEF r, k
      <4>4. t = Append(r, b)
        <5>1. Append(r, b) \in Seq(BlockSet) /\ Len(Append(r, b)) = N + 1 /\ Append(r, b)[N + 1] = b
               /\ \A n \in 1..N : Append(r, b)[n] = r[n]
          BY <4>2
        <5>2. t[N + 1] = b
          BY <2>1, <3>1, <3>4
        <5>3. ASSUME NEW n \in 1..N PROVE t[n] = r[n]
          <6>1. n \in DOMAIN u /\ n \in DOMAIN s /\ u[n] = s[n]
            BY <2>1
          <6>2. t[i] = r[i]
            BY <3>1, <4>1, <4>2 DEF k
          <6> QED BY <3>1, <4>2, <6>1, <6>2
        <5> QED BY <2>1, <3>1, <5>1, <5>2, <5>3
      <4>5. ASSUME NEW l
            PROVE  FragmentsOf(t, l) = IF b.kind = l THEN FragmentsOf(r, l) \o b.of ELSE FragmentsOf(r, l)
        BY <4>2, <4>4, FragmentsAre
      <4>6. \A l : l # k => FragmentsOf(t, l) = FragmentsOf(u, l)
        BY <3>2, <4>3, <4>5
      <4>7. ASSUME \A n \in (i + 1)..Len(u) : u[n].kind # k
            PROVE  FragmentsOf(t, k) = FragmentsOf(u, k) \o x
        <5>1. N + 1 \in (i + 1)..Len(u) /\ \A n \in (i + 1)..N : n \in (i + 1)..Len(u) /\ u[n] = s[n]
          BY <2>1, <4>1
        <5>2. b.kind # k /\ \A n \in (i + 1)..N : s[n].kind # k
          BY <2>1, <4>7, <5>1
        <5> QED BY <3>2, <4>3, <4>5, <5>2
      <4> QED BY <4>6, <4>7 DEF t, k
    <3> QED BY <3>3, <3>4
  <2>3. G(u)
    BY <2>2
  <2> QED BY <2>1, <2>3 DEF u
<1> HIDE DEF G, T
<1>5. Seq(BlockSet) \subseteq T
  BY <1>3, <1>4, SequenceInduction
<1> QED BY <1>2, <1>5 DEF T, G

\* A block that is there when it has something to say.
LEMMA OneBlock ==
  ASSUME NEW k \in Kinds, NEW x \in Seq(Values)
  PROVE  /\ NonEmptyBlock(k, x) \in Seq(BlockSet)
         /\ FragmentsOf(NonEmptyBlock(k, x), k) = x
         /\ \A l : l # k => FragmentsOf(NonEmptyBlock(k, x), l) = <<>>
         /\ x = <<>> => NonEmptyBlock(k, x) = <<>>
         /\ x # <<>> => NonEmptyBlock(k, x) = <<Block(k, x)>>
<1>1. Block(k, x) \in BlockSet /\ Block(k, x).kind = k /\ Block(k, x).of = x
  BY DEF Block, BlockSet
<1>2. \A l : FragmentsOf(<<Block(k, x)>>, l) = IF k = l THEN x ELSE <<>>
  BY <1>1, FragmentsAre
<1>3. \A l : FragmentsOf(<<>>, l) = <<>>
  BY FragmentsAre
<1>4. <<Block(k, x)>> \in Seq(BlockSet) /\ <<>> \in Seq(BlockSet)
  BY <1>1
<1> QED BY <1>2, <1>3, <1>4 DEF NonEmptyBlock

-----------------------------------------------------------------------------
(* What a client reads of a stream *)

Blocks(w) == BlocksRead(w.frames)
Fields(w) == FieldsRead(w.frames)

CallSet    == {b \in BlockSet : IsCall(b)}
MessageSet == [texts : [Kinds -> Seq(Values)], calls : Seq(CallSet)]

\* The client counts as many blocks as the writer, and an open block is the last of its kind.
BlockWise(w) ==
  /\ Blocks(w) \in Seq(BlockSet) /\ Len(Blocks(w)) = w.next
  /\ \A k \in w.open : Blocks(w)[w.index[k]].kind = k
  /\ \A k \in w.open : \A n \in (w.index[k] + 1)..w.next : Blocks(w)[n].kind # k

Readable(w) == IF w.proto = "chat" THEN Fields(w) \in MessageSet ELSE BlockWise(w)

\* While there are deltas the last block is open.
LastStays(w) == w.proto # "chat" /\ w.next # 0 => \E k \in w.open : w.index[k] = w.next

\* The fragments of a kind that were read.
Read(w, k) ==
  IF w.proto # "chat" THEN FragmentsOf(Blocks(w), k)
  ELSE IF k \in Kinds THEN Fields(w).texts[k] ELSE FragmentsOf(Fields(w).calls, k)

\* One frame more.
LEMMA ReadMore ==
  ASSUME NEW fs \in Seq(FrameSet), NEW f \in FrameSet
  PROVE  LET gs == Append(fs, f)
         IN  /\ f.ev \notin {"open", "delta"} => BlocksRead(gs) = BlocksRead(fs)
             /\ f.ev = "open" => BlocksRead(gs) = Append(BlocksRead(fs), Block(f.kind, <<>>))
             /\ f.ev = "delta" => BlocksRead(gs) = SaysMore(BlocksRead(fs), f.i, f.of)
             /\ f.ev # "delta" => FieldsRead(gs) = FieldsRead(fs)
             /\ f.ev = "delta" /\ f.kind # "tool_use" =>
                  FieldsRead(gs) = [FieldsRead(fs) EXCEPT !.texts[f.kind] = @ \o f.of]
             /\ f.ev = "delta" /\ f.kind = "tool_use" =>
                  FieldsRead(gs)
                    = [FieldsRead(fs) EXCEPT !.calls = Append(@, Block("tool_use", f.of))]
<1>1. BlocksRead(Append(fs, f)) = ReadFrame(BlocksRead(fs), f)
  BY FramesSteps
<1>2. FieldsRead(Append(fs, f)) = ReadChunk(FieldsRead(fs), f)
  BY ChunksSteps
<1> DEFINE gs == Append(fs, f)
<1> HIDE DEF gs
<1>3. f.ev \notin {"open", "delta"} => BlocksRead(gs) = BlocksRead(fs)
  BY <1>1 DEF ReadFrame, gs
<1>4. f.ev = "open" => BlocksRead(gs) = Append(BlocksRead(fs), Block(f.kind, <<>>))
  BY <1>1 DEF ReadFrame, gs
<1>5. f.ev = "delta" => BlocksRead(gs) = SaysMore(BlocksRead(fs), f.i, f.of)
  BY <1>1 DEF ReadFrame, SaysMore, gs
<1>6. f.ev # "delta" => FieldsRead(gs) = FieldsRead(fs)
  BY <1>2 DEF ReadChunk, gs
<1>7. f.ev = "delta" /\ f.kind # "tool_use" =>
        FieldsRead(gs) = [FieldsRead(fs) EXCEPT !.texts[f.kind] = @ \o f.of]
  BY <1>2 DEF ReadChunk, gs
<1>8. f.ev = "delta" /\ f.kind = "tool_use" =>
        FieldsRead(gs) = [FieldsRead(fs) EXCEPT !.calls = Append(@, Block("tool_use", f.of))]
  BY <1>2 DEF ReadChunk, gs
<1> QED BY <1>3, <1>4, <1>5, <1>6, <1>7, <1>8 DEF gs

\* The first frames are not read.
LEMMA EnsureStartReads ==
  ASSUME NEW w, Unended(w)
  PROVE  LET v == EnsureStart(w)
         IN  /\ Blocks(v) = Blocks(w) /\ Fields(v) = Fields(w)
             /\ Readable(w) => Readable(v)
<1> DEFINE v == EnsureStart(w)
           f == Plain("start")
<1>1. /\ Unended(v) /\ SameClient(w, v)
      /\ v.next = w.next /\ v.index = w.index /\ v.open = w.open
      /\ v.frames = IF w.started THEN w.frames ELSE Append(w.frames, f)
  BY EnsureStartKeeps
<1>2. w.frames \in Seq(FrameSet)
  BY DEF Unended, WriterSet
<1>3. f \in FrameSet /\ f.ev = "start"
  <2>1. "none" \in Kinds \cup {"tool_use", "none"} /\ 0 \in Nat /\ <<>> \in Seq(Values)
    OBVIOUS
  <2>2. f \in FrameSet
    BY <2>1, FrameTypes
  <2> QED BY <2>2 DEF Plain, Frame
<1> HIDE DEF v, f
<1>4. BlocksRead(Append(w.frames, f)) = BlocksRead(w.frames)
       /\ FieldsRead(Append(w.frames, f)) = FieldsRead(w.frames)
  BY <1>2, <1>3, ReadMore
<1>5. Blocks(v) = Blocks(w) /\ Fields(v) = Fields(w)
  BY <1>1, <1>4 DEF Blocks, Fields
<1>6. Readable(w) => Readable(v)
  BY <1>1, <1>5 DEF Readable, BlockWise, SameClient
<1> QED BY <1>5, <1>6 DEF v

\* The stop of a block is not read.
LEMMA CloseReads ==
  ASSUME NEW w, Unended(w), NEW k \in Kinds
  PROVE  LET v == Close(w, k)
         IN  /\ Blocks(v) = Blocks(w) /\ Fields(v) = Fields(w)
             /\ Readable(w) => Readable(v)
<1> DEFINE v == Close(w, k)
           f == Frame("close", w.index[k], k, <<>>)
<1>1. /\ Unended(v) /\ SameClient(w, v)
      /\ v.next = w.next /\ v.index = w.index /\ v.open = w.open \ {k}
      /\ v.frames = IF k \in w.open THEN Append(w.frames, f) ELSE w.frames
  BY CloseKeeps
<1>2. w.frames \in Seq(FrameSet)
  BY DEF Unended, WriterSet
<1>3. f \in FrameSet /\ f.ev = "close"
  <2>1. w.index[k] \in Nat /\ k \in Kinds \cup {"tool_use", "none"} /\ <<>> \in Seq(Values)
    BY DEF Unended, WriterSet
  <2>2. f \in FrameSet
    BY <2>1, FrameTypes
  <2> QED BY <2>2 DEF Frame
<1> HIDE DEF v, f
<1>4. BlocksRead(Append(w.frames, f)) = BlocksRead(w.frames)
       /\ FieldsRead(Append(w.frames, f)) = FieldsRead(w.frames)
  BY <1>2, <1>3, ReadMore
<1>5. Blocks(v) = Blocks(w) /\ Fields(v) = Fields(w)
  BY <1>1, <1>4 DEF Blocks, Fields
<1>6. Readable(w) => Readable(v)
  BY <1>1, <1>5 DEF Readable, BlockWise, SameClient
<1> QED BY <1>5, <1>6 DEF v

\* Nor are the stops of all.
LEMMA CloseAllReads ==
  ASSUME NEW w, Unended(w)
  PROVE  LET v == CloseAll(w)
         IN  /\ Blocks(v) = Blocks(w) /\ Fields(v) = Fields(w)
             /\ Readable(w) => Readable(v)
<1> DEFINE u == Close(w, "thinking")
           v == Close(u, "text")
<1>1. "thinking" \in Kinds /\ "text" \in Kinds
  BY DEF Kinds
<1>2. Blocks(u) = Blocks(w) /\ Fields(u) = Fields(w) /\ (Readable(w) => Readable(u))
  BY <1>1, CloseReads
<1>3. Unended(u)
  BY <1>1, CloseKeeps
<1> HIDE DEF u
<1>4. Blocks(v) = Blocks(u) /\ Fields(v) = Fields(u) /\ (Readable(u) => Readable(v))
  BY <1>1, <1>3, CloseReads
<1> QED BY <1>2, <1>4 DEF CloseAll, u

\* A new block says nothing yet.
LEMMA NewBlockReads ==
  ASSUME NEW w \in WriterSet, Nest(w), NEW k \in Kinds, k \notin w.open,
         w.proto = "messages" => w.open = {}, BlockWise(w)
  PROVE  LET v == NewBlock(w, k)
         IN  BlockWise(v) /\ Blocks(v) = Append(Blocks(w), Block(k, <<>>))
<1> DEFINE v == NewBlock(w, k)
           f == Frame("open", w.next + 1, k, <<>>)
           b == Block(k, <<>>)
<1>1. /\ v.next = w.next + 1 /\ v.index = [w.index EXCEPT ![k] = w.next + 1]
      /\ v.open = w.open \cup {k} /\ v.frames = Append(w.frames, f)
  BY NewBlockNests
<1>2. /\ w.frames \in Seq(FrameSet) /\ w.next \in Nat /\ w.index \in [Kinds -> Nat]
      /\ w.open \subseteq Kinds
  BY DEF WriterSet
<1>3. f \in FrameSet /\ f.ev = "open" /\ f.kind = k
  <2>1. w.next + 1 \in Nat /\ k \in Kinds \cup {"tool_use", "none"} /\ <<>> \in Seq(Values)
    BY <1>2
  <2>2. f \in FrameSet
    BY <2>1, FrameTypes
  <2> QED BY <2>2 DEF Frame
<1>4. b \in BlockSet /\ b.kind = k
  BY DEF BlockSet, Block
<1> HIDE DEF v, f
<1>5. Blocks(v) = Append(Blocks(w), b)
  <2>1. BlocksRead(Append(w.frames, f)) = Append(BlocksRead(w.frames), Block(f.kind, <<>>))
    BY <1>2, <1>3, ReadMore
  <2> QED BY <1>1, <1>3, <2>1 DEF Blocks, b
<1> HIDE DEF b
<1>6. Blocks(w) \in Seq(BlockSet) /\ Len(Blocks(w)) = w.next
  BY DEF BlockWise
<1>7. /\ Blocks(v) \in Seq(BlockSet) /\ Len(Blocks(v)) = v.next
      /\ Blocks(v)[w.next + 1] = b /\ \A n \in 1..w.next : Blocks(v)[n] = Blocks(w)[n]
  BY <1>1, <1>2, <1>4, <1>5, <1>6
<1>8. ASSUME NEW l \in v.open
      PROVE  /\ Blocks(v)[v.index[l]].kind = l
             /\ \A n \in (v.index[l] + 1)..v.next : Blocks(v)[n].kind # l
  <2>1. CASE l = k
    BY <1>1, <1>2, <1>4, <1>7, <2>1
  <2>2. CASE l # k
    <3>1. l \in w.open /\ v.index[l] = w.index[l]
      BY <1>1, <1>2, <1>8, <2>2
    <3>2. w.index[l] \in 1..w.next
      BY <3>1 DEF Nest, OpenAt
    <3>3. Blocks(w)[w.index[l]].kind = l /\ \A n \in (w.index[l] + 1)..w.next : Blocks(w)[n].kind # l
      BY <3>1 DEF BlockWise
    <3>4. Blocks(v)[v.index[l]].kind = l
      BY <1>7, <3>1, <3>2, <3>3
    <3>5. ASSUME NEW n \in (v.index[l] + 1)..v.next PROVE Blocks(v)[n].kind # l
      <4>1. n = w.next + 1 \/ (n \in (w.index[l] + 1)..w.next /\ n \in 1..w.next)
        BY <1>1, <1>2, <3>1, <3>2
      <4> QED BY <1>4, <1>7, <2>2, <3>3, <4>1
    <3> QED BY <3>4, <3>5
  <2> QED BY <2>1, <2>2
<1>9. BlockWise(v)
  BY <1>7, <1>8 DEF BlockWise
<1> QED BY <1>5, <1>9 DEF v, b

\* The block that a delta goes to.
LEMMA EnsureBlockReads ==
  ASSUME NEW w, Streaming(w), w.proto # "chat", BlockWise(w), NEW k \in Kinds
  PROVE  LET v == EnsureBlock(w, k)
         IN  /\ BlockWise(v)
             /\ k \in w.open => v = w
             /\ k \notin w.open =>
                  /\ Blocks(v) = Append(Blocks(w), Block(k, <<>>))
                  /\ v.next = w.next + 1 /\ v.index[k] = w.next + 1
<1> DEFINE v == EnsureBlock(w, k)
<1>1. /\ w \in WriterSet /\ Nest(w) /\ NoEnd(w) /\ Unended(w) /\ EmittedIsOpen(w)
      /\ w.proto \in Protocols /\ w.index \in [Kinds -> Nat]
  BY DEF Streaming, Unended, Shaped, WriterSet
<1>2. CASE k \in w.open
  <2>1. w.index[k] \in 1..w.next
    BY <1>1, <1>2 DEF Nest, OpenAt
  <2>2. Emitted(w, k)
    BY <2>1 DEF Emitted
  <2>3. v = w
    BY <1>1, <1>2, <2>2 DEF EnsureBlock, Protocols
  <2> QED BY <1>2, <2>3
<1>3. ASSUME NEW u \in WriterSet, Nest(u), BlockWise(u), Blocks(u) = Blocks(w), u.next = w.next,
             u.index = w.index, k \notin u.open, u.proto = "messages" => u.open = {},
             v = NewBlock(u, k)
      PROVE  /\ BlockWise(v) /\ Blocks(v) = Append(Blocks(w), Block(k, <<>>))
             /\ v.next = w.next + 1 /\ v.index[k] = w.next + 1
  <2>1. BlockWise(v) /\ Blocks(v) = Append(Blocks(u), Block(k, <<>>))
    BY <1>3, NewBlockReads
  <2>2. v.next = u.next + 1 /\ v.index = [u.index EXCEPT ![k] = u.next + 1]
    BY <1>3, NewBlockNests
  <2> HIDE DEF v
  <2> QED BY <1>1, <1>3, <2>1, <2>2
<1>4. CASE w.proto = "messages" /\ k \notin w.open
  <2> DEFINE u == CloseAll(w)
  <2>1. /\ Unended(u) /\ SameClient(w, u) /\ u.next = w.next /\ u.index = w.index /\ u.open = {}
    BY <1>1, CloseAllKeeps
  <2>2. Blocks(u) = Blocks(w) /\ (Readable(w) => Readable(u))
    BY <1>1, CloseAllReads
  <2>3. v = NewBlock(u, k)
    BY <1>4 DEF EnsureBlock
  <2> HIDE DEF u, v
  <2>4. u \in WriterSet /\ Nest(u) /\ BlockWise(u)
    BY <1>4, <2>1, <2>2 DEF Unended, Shaped, Readable, SameClient
  <2>5. /\ BlockWise(v) /\ Blocks(v) = Append(Blocks(w), Block(k, <<>>))
        /\ v.next = w.next + 1 /\ v.index[k] = w.next + 1
    BY <1>3, <2>1, <2>2, <2>3, <2>4
  <2> QED BY <1>4, <2>5 DEF v
<1>5. CASE w.proto = "responses" /\ k \notin w.open
  <2>1. v = NewBlock(w, k)
    BY <1>1, <1>5 DEF EnsureBlock, EmittedIsOpen
  <2> HIDE DEF v
  <2>2. /\ BlockWise(v) /\ Blocks(v) = Append(Blocks(w), Block(k, <<>>))
        /\ v.next = w.next + 1 /\ v.index[k] = w.next + 1
    BY <1>1, <1>3, <1>5, <2>1
  <2> QED BY <1>5, <2>2 DEF v
<1> QED BY <1>1, <1>2, <1>4, <1>5 DEF Protocols

\* A delta goes to the open block of its kind, or begins one.
LEMMA OnDeltaReads ==
  ASSUME NEW w, Streaming(w), Readable(w), LastStays(w), NEW k \in Kinds, NEW of \in Seq(Values)
  PROVE  LET v == OnDelta(w, k, of)
         IN  /\ Readable(v) /\ LastStays(v)
             /\ w.proto = "chat" => Fields(v) = [Fields(w) EXCEPT !.texts[k] = @ \o of]
             /\ w.proto # "chat" =>
                  Blocks(v) = IF k \in w.open THEN SaysMore(Blocks(w), w.index[k], of)
                              ELSE Append(Blocks(w), Block(k, of))
<1> DEFINE u == EnsureStart(w)
           b == EnsureBlock(u, k)
           f == Frame("delta", b.index[k], k, of)
           v == OnDelta(w, k, of)
<1>1. Unended(w) /\ Live(w) /\ w.stream /\ EmittedIsOpen(w) /\ w \in WriterSet
  BY DEF Streaming, Unended
<1>2. /\ Unended(u) /\ SameClient(w, u)
      /\ u.next = w.next /\ u.index = w.index /\ u.open = w.open
  BY <1>1, EnsureStartKeeps
<1>3. v = Put(b, f)
  BY <1>1 DEF OnDelta
<1>4. Blocks(u) = Blocks(w) /\ Fields(u) = Fields(w) /\ Readable(u)
  BY <1>1, EnsureStartReads
<1> HIDE DEF u
<1>5. Streaming(u) /\ u.proto = w.proto
  BY <1>1, <1>2 DEF Streaming, Live, EmittedIsOpen, Emitted, SameClient
<1>6. Streaming(b) /\ SameClient(u, b) /\ (b.proto # "chat" => k \in b.open)
  BY <1>5, EnsureBlockKeeps
<1>7. CASE w.proto = "chat"
  <2>1. b = [u EXCEPT !.index = [u.index EXCEPT ![k] = 1]] /\ u \in WriterSet
    BY <1>2, <1>5, <1>7 DEF EnsureBlock, Unended
  <2>2. b.frames = u.frames
    BY <2>1 DEF WriterSet
  <2>3. Fields(b) = Fields(u) /\ b.frames \in Seq(FrameSet) /\ b.index[k] \in Nat /\ b \in WriterSet
    BY <1>6, <2>2 DEF Fields, Streaming, Unended, WriterSet
  <2> HIDE DEF b, v
  <2>4. f \in FrameSet /\ f.ev = "delta" /\ f.kind = k /\ f.of = of /\ k # "tool_use"
    <3>1. b.index[k] \in Nat /\ k \in Kinds \cup {"tool_use", "none"}
      BY <2>3
    <3>2. f \in FrameSet
      BY <3>1, FrameTypes
    <3> QED BY <3>2 DEF Frame, Kinds
  <2> HIDE DEF f
  <2>5. FieldsRead(Append(b.frames, f)) = [FieldsRead(b.frames) EXCEPT !.texts[f.kind] = @ \o f.of]
    BY <2>3, <2>4, ReadMore
  <2>6. v.frames = Append(b.frames, f) /\ v.proto = b.proto
    BY <1>3, <2>3, <2>4, PutIs
  <2>7. Fields(v) = [Fields(w) EXCEPT !.texts[k] = @ \o of]
    BY <1>4, <2>3, <2>4, <2>5, <2>6 DEF Fields
  <2>8. v.proto = "chat"
    BY <1>5, <1>6, <1>7, <2>6 DEF SameClient
  <2>9. Fields(w) \in MessageSet
    BY <1>7 DEF Readable
  <2>10. Fields(v) \in MessageSet
    <3> DEFINE x == Fields(w).texts[k] \o of
    <3>1. x \in Seq(Values)
      BY <2>9 DEF MessageSet
    <3>2. Fields(v) = [Fields(w) EXCEPT !.texts = [Fields(w).texts EXCEPT ![k] = x]]
      BY <2>7
    <3> HIDE DEF x
    <3>3. [Fields(w).texts EXCEPT ![k] = x] \in [Kinds -> Seq(Values)]
      BY <2>9, <3>1 DEF MessageSet
    <3> QED BY <2>9, <3>2, <3>3 DEF MessageSet
  <2>11. Readable(v) /\ LastStays(v)
    BY <2>8, <2>10 DEF Readable, LastStays
  <2> QED BY <1>7, <2>7, <2>11 DEF v
<1>8. CASE w.proto # "chat"
  <2>1. BlockWise(u) /\ u.proto # "chat"
    BY <1>4, <1>5, <1>8 DEF Readable
  <2>2. /\ BlockWise(b)
        /\ k \in u.open => b = u
        /\ k \notin u.open =>
             /\ Blocks(b) = Append(Blocks(u), Block(k, <<>>))
             /\ b.next = u.next + 1 /\ b.index[k] = u.next + 1
    BY <1>5, <2>1, EnsureBlockReads
  <2> HIDE DEF b, v
  <2>3. /\ b \in WriterSet /\ Nest(b) /\ k \in b.open /\ b.proto # "chat"
        /\ b.frames \in Seq(FrameSet) /\ b.index \in [Kinds -> Nat] /\ b.next \in Nat
    BY <1>5, <1>6, <1>8 DEF Streaming, Unended, Shaped, SameClient, WriterSet
  <2>4. f \in FrameSet /\ f.ev = "delta" /\ f.i = b.index[k] /\ f.of = of
    <3>1. b.index[k] \in Nat /\ k \in Kinds \cup {"tool_use", "none"}
      BY <2>3
    <3>2. f \in FrameSet
      BY <3>1, FrameTypes
    <3> QED BY <3>2 DEF Frame
  <2> HIDE DEF f
  <2>5. /\ v.proto = b.proto /\ v.next = b.next /\ v.index = b.index /\ v.open = b.open
        /\ v.frames = Append(b.frames, f)
    BY <1>3, <2>3, <2>4, PutIs
  <2>6. Blocks(v) = SaysMore(Blocks(b), b.index[k], of)
    <3>1. BlocksRead(Append(b.frames, f)) = SaysMore(BlocksRead(b.frames), f.i, f.of)
      BY <2>3, <2>4, ReadMore
    <3> QED BY <2>4, <2>5, <3>1 DEF Blocks
  <2>7. /\ Blocks(b) \in Seq(BlockSet) /\ b.index[k] \in DOMAIN Blocks(b)
        /\ Len(Blocks(b)) = b.next /\ DOMAIN Blocks(b) = 1..b.next
        /\ Blocks(b)[b.index[k]].kind = k
    <3>1. b.index[k] \in 1..b.next
      BY <2>3 DEF Nest, OpenAt
    <3>2. Blocks(b) \in Seq(BlockSet) /\ Len(Blocks(b)) = b.next
      BY <2>2 DEF BlockWise
    <3> QED BY <2>2, <2>3, <3>1, <3>2 DEF BlockWise
  <2>8. /\ Blocks(v) \in Seq(BlockSet) /\ Len(Blocks(v)) = b.next
        /\ Blocks(v)[b.index[k]] = Block(k, Blocks(b)[b.index[k]].of \o of)
        /\ \A n \in 1..b.next : n # b.index[k] => Blocks(v)[n] = Blocks(b)[n]
    BY <2>6, <2>7, FragmentsGrow
  <2>9. \A n \in 1..b.next : Blocks(v)[n].kind = Blocks(b)[n].kind
    BY <2>7, <2>8 DEF Block
  <2>10. BlockWise(v)
    <3>1. \A l \in b.open : b.index[l] \in 1..b.next
      BY <2>3 DEF Nest, OpenAt
    <3>2. \A l \in v.open : Blocks(v)[v.index[l]].kind = l
      BY <2>2, <2>5, <2>9, <3>1 DEF BlockWise
    <3>3. ASSUME NEW l \in v.open, NEW n \in (v.index[l] + 1)..v.next PROVE Blocks(v)[n].kind # l
      <4>1. n \in 1..b.next /\ n \in (b.index[l] + 1)..b.next /\ l \in b.open
        BY <2>3, <2>5, <3>1, <3>3
      <4> QED BY <2>2, <2>9, <4>1 DEF BlockWise
    <3> QED BY <2>5, <2>8, <3>2, <3>3 DEF BlockWise
  <2>11. CASE k \in w.open
    <3>1. b = u /\ k \in u.open
      BY <1>2, <2>2, <2>11
    <3>2. Blocks(v) = SaysMore(Blocks(w), w.index[k], of)
      BY <1>2, <1>4, <2>6, <3>1
    <3>3. LastStays(v)
      BY <1>2, <1>8, <2>5, <3>1 DEF LastStays
    <3> QED BY <1>8, <2>3, <2>5, <2>10, <2>11, <3>2, <3>3 DEF Readable, v
  <2>12. CASE k \notin w.open
    <3>1. /\ Blocks(b) = Append(Blocks(w), Block(k, <<>>)) /\ b.index[k] = w.next + 1
          /\ b.next = w.next + 1
      BY <1>2, <1>4, <2>2, <2>12
    <3>2. Blocks(w) \in Seq(BlockSet) /\ Len(Blocks(w)) = w.next /\ w.next \in Nat
      BY <1>1, <1>8 DEF Readable, BlockWise, WriterSet
    <3> DEFINE c == Block(k, <<>>)
               d == Block(k, of)
    <3>3. c \in BlockSet /\ d \in BlockSet /\ c.of = <<>>
      BY DEF Block, BlockSet
    <3>4. Append(Blocks(w), c)[w.next + 1] = c
      BY <3>2
    <3>5. Block(k, c.of \o of) = d
      <4>1. <<>> \o of = of
        BY Texts
      <4> QED BY <3>3, <4>1
    <3>6. Blocks(v)[w.next + 1] = d
      BY <2>8, <3>1, <3>4, <3>5
    <3> HIDE DEF c, d
    <3>7. \A n \in 1..w.next : Blocks(v)[n] = Blocks(w)[n]
      BY <2>8, <3>1, <3>2, <3>3 DEF c
    <3>8. Append(Blocks(w), d) \in Seq(BlockSet) /\ Len(Append(Blocks(w), d)) = w.next + 1
           /\ Append(Blocks(w), d)[w.next + 1] = d
           /\ \A n \in 1..w.next : Append(Blocks(w), d)[n] = Blocks(w)[n]
      BY <3>2, <3>3
    <3>9. Blocks(v) = Append(Blocks(w), d)
      BY <2>8, <3>1, <3>2, <3>6, <3>7, <3>8, SeqEqual
    <3>10. LastStays(v)
      BY <2>3, <2>5, <3>1 DEF LastStays
    <3> QED BY <1>8, <2>3, <2>5, <2>10, <2>12, <3>9, <3>10 DEF Readable, v, d
  <2> QED BY <2>11, <2>12
<1> QED BY <1>7, <1>8

\* So the client reads it after what it read of that kind, and of the others what it read.
LEMMA OnDeltaSays ==
  ASSUME NEW w, Streaming(w), Readable(w), LastStays(w), NEW k \in Kinds, NEW of \in Seq(Values)
  PROVE  LET v == OnDelta(w, k, of)
         IN  /\ \A l \in Kinds \cup {"tool_use"} :
                  Read(v, l) = IF l = k THEN Read(w, l) \o of ELSE Read(w, l)
             /\ w.proto = "chat" => Fields(v).calls = Fields(w).calls
<1> DEFINE v == OnDelta(w, k, of)
<1>1. /\ w.proto = "chat" => Fields(v) = [Fields(w) EXCEPT !.texts[k] = @ \o of]
      /\ w.proto # "chat" =>
           Blocks(v) = IF k \in w.open THEN SaysMore(Blocks(w), w.index[k], of)
                       ELSE Append(Blocks(w), Block(k, of))
  BY OnDeltaReads
<1>2. v.proto = w.proto
  BY OnDeltaKeeps DEF SameClient
<1> HIDE DEF v
<1>3. CASE w.proto = "chat"
  <2>1. Fields(w) \in MessageSet
    BY <1>3 DEF Readable
  <2>2. /\ Fields(v).calls = Fields(w).calls
        /\ Fields(v).texts = [Fields(w).texts EXCEPT ![k] = Fields(w).texts[k] \o of]
    BY <1>1, <1>3, <2>1 DEF MessageSet
  <2>3. DOMAIN Fields(w).texts = Kinds
    BY <2>1 DEF MessageSet
  <2>4. ASSUME NEW l \in Kinds \cup {"tool_use"}
        PROVE  Read(v, l) = IF l = k THEN Read(w, l) \o of ELSE Read(w, l)
    BY <1>2, <1>3, <2>2, <2>3 DEF Read
  <2> QED BY <2>2, <2>4 DEF v
<1>4. CASE w.proto # "chat"
  <2>1. BlockWise(w) /\ Blocks(w) \in Seq(BlockSet) /\ w.next = Len(Blocks(w))
    BY <1>4 DEF Readable, BlockWise
  <2>2. CASE k \in w.open
    <3> DEFINE i == w.index[k]
    <3>1. i \in 1..w.next
      BY <1>4, <2>2 DEF Streaming, Unended, Shaped, Nest, OpenAt
    <3>2. Blocks(w)[i].kind = k /\ \A n \in (i + 1)..Len(Blocks(w)) : Blocks(w)[n].kind # k
      BY <2>1, <2>2 DEF BlockWise
    <3>3. i \in DOMAIN Blocks(w) /\ Blocks(v) = SaysMore(Blocks(w), i, of)
      BY <1>1, <1>4, <2>1, <2>2, <3>1
    <3> HIDE DEF i
    <3>4. /\ \A l : l # k => FragmentsOf(Blocks(v), l) = FragmentsOf(Blocks(w), l)
          /\ FragmentsOf(Blocks(v), k) = FragmentsOf(Blocks(w), k) \o of
      <4>1. PICK s \in Seq(BlockSet) : s = Blocks(w)
        BY <2>1
      <4>2. /\ \A l : l # s[i].kind => FragmentsOf(SaysMore(s, i, of), l) = FragmentsOf(s, l)
            /\ (\A n \in (i + 1)..Len(s) : s[n].kind # s[i].kind) =>
                 FragmentsOf(SaysMore(s, i, of), s[i].kind) = FragmentsOf(s, s[i].kind) \o of
        BY <3>3, <4>1, FragmentsGrow
      <4> QED BY <3>2, <3>3, <4>1, <4>2
    <3>5. \A l \in Kinds \cup {"tool_use"} :
            Read(v, l) = IF l = k THEN Read(w, l) \o of ELSE Read(w, l)
      BY <1>2, <1>4, <3>4 DEF Read
    <3> QED BY <1>4, <3>5 DEF v
  <2>3. CASE k \notin w.open
    <3>1. Blocks(v) = Append(Blocks(w), Block(k, of))
      BY <1>1, <1>4, <2>3
    <3>2. Block(k, of) \in BlockSet /\ Block(k, of).kind = k /\ Block(k, of).of = of
      BY DEF BlockSet, Block
    <3>3. ASSUME NEW l
          PROVE  FragmentsOf(Blocks(v), l)
                   = IF l = k THEN FragmentsOf(Blocks(w), l) \o of ELSE FragmentsOf(Blocks(w), l)
      <4>1. PICK s \in Seq(BlockSet) : s = Blocks(w)
        BY <2>1
      <4>2. PICK c \in BlockSet : c = Block(k, of)
        BY <3>2
      <4>3. FragmentsOf(Append(s, c), l) = IF c.kind = l THEN FragmentsOf(s, l) \o c.of ELSE FragmentsOf(s, l)
        BY FragmentsAre
      <4> QED BY <3>1, <3>2, <4>1, <4>2, <4>3
    <3>4. \A l \in Kinds \cup {"tool_use"} :
            Read(v, l) = IF l = k THEN Read(w, l) \o of ELSE Read(w, l)
      BY <1>2, <1>4, <3>3 DEF Read
    <3> QED BY <1>4, <3>4 DEF v
  <2> QED BY <2>2, <2>3
<1> QED BY <1>3, <1>4

\* Sequences of one and two.
LEMMA OneAndTwo ==
  ASSUME NEW a, NEW b, NEW c
  PROVE  /\ <<>> \o <<>> = <<>> /\ <<>> \o <<a>> = <<a>> /\ <<a>> \o <<>> = <<a>>
         /\ <<a>> \o <<b>> = <<a, b>> /\ Append(<<>>, a) = <<a>> /\ Append(<<a>>, b) = <<a, b>>
         /\ <<a, b>> \o <<c>> = <<a, b, c>>
         /\ [<<a>> EXCEPT ![1] = b] = <<b>> /\ [<<a, b>> EXCEPT ![2] = c] = <<a, c>>
<1> DEFINE S == {a, b, c}
<1>1. /\ <<>> \in Seq(S) /\ <<a>> \in Seq(S) /\ <<b>> \in Seq(S) /\ <<a, b>> \in Seq(S)
      /\ <<a, c>> \in Seq(S) /\ <<c>> \in Seq(S)
  OBVIOUS
<1>2. <<>> \o <<>> = <<>> /\ <<>> \o <<a>> = <<a>> /\ <<a>> \o <<>> = <<a>>
  BY <1>1, ConcatEmptySeq
<1> HIDE DEF S
<1>3. Append(<<>>, a) = <<a>> /\ Append(<<a>>, b) = <<a, b>>
  <2>1. Append(<<>>, a) = <<a>>
    OBVIOUS
  <2>2. /\ Append(<<a>>, b) \in Seq(S) /\ Len(Append(<<a>>, b)) = 2 /\ Len(<<a, b>>) = 2
        /\ Append(<<a>>, b)[1] = a /\ Append(<<a>>, b)[2] = b
        /\ <<a, b>>[1] = a /\ <<a, b>>[2] = b
    BY <1>1 DEF S
  <2>3. \A i \in 1..2 : Append(<<a>>, b)[i] = <<a, b>>[i]
    <3>1. \A i \in 1..2 : i = 1 \/ i = 2
      OBVIOUS
    <3> QED BY <2>2, <3>1
  <2> QED BY <1>1, <2>1, <2>2, <2>3, SeqEqual
<1>4. <<a>> \o <<b>> = <<a, b>> /\ <<a, b>> \o <<c>> = <<a, b, c>>
  <2>1. Len(<<a>>) = 1 /\ Len(<<b>>) = 1 /\ Len(<<a, b>>) = 2 /\ Len(<<c>>) = 1 /\ Len(<<a, b, c>>) = 3
    OBVIOUS
  <2>2. /\ <<a>>[1] = a /\ <<b>>[1] = b /\ <<a, b>>[1] = a /\ <<a, b>>[2] = b /\ <<c>>[1] = c
        /\ <<a, b, c>>[1] = a /\ <<a, b, c>>[2] = b /\ <<a, b, c>>[3] = c
    OBVIOUS
  <2>3. <<a>> \o <<b>> = <<a, b>>
    <3>1. /\ <<a>> \o <<b>> \in Seq(S) /\ Len(<<a>> \o <<b>>) = 2
          /\ (<<a>> \o <<b>>)[1] = a /\ (<<a>> \o <<b>>)[2] = b
      BY <1>1, <2>1, <2>2, ConcatProperties
    <3>2. \A i \in 1..2 : (<<a>> \o <<b>>)[i] = <<a, b>>[i]
      <4>1. \A i \in 1..2 : i = 1 \/ i = 2
        OBVIOUS
      <4> QED BY <2>2, <3>1, <4>1
    <3> QED BY <1>1, <2>1, <3>1, <3>2, SeqEqual
  <2>4. <<a, b>> \o <<c>> = <<a, b, c>>
    <3>1. /\ <<a, b>> \o <<c>> \in Seq(S) /\ Len(<<a, b>> \o <<c>>) = 3
          /\ (<<a, b>> \o <<c>>)[1] = a /\ (<<a, b>> \o <<c>>)[2] = b /\ (<<a, b>> \o <<c>>)[3] = c
      BY <1>1, <2>1, <2>2, ConcatProperties
    <3>2. \A i \in 1..3 : (<<a, b>> \o <<c>>)[i] = <<a, b, c>>[i]
      <4>1. \A i \in 1..3 : i = 1 \/ i = 2 \/ i = 3
        OBVIOUS
      <4> QED BY <2>2, <3>1, <4>1
    <3>3. <<a, b, c>> \in Seq(S)
      BY DEF S
    <3> QED BY <2>1, <3>1, <3>2, <3>3, SeqEqual
  <2> QED BY <2>3, <2>4
<1>5. [<<a>> EXCEPT ![1] = b] = <<b>>
  <2>1. [<<a>> EXCEPT ![1] = b] \in Seq(S) /\ Len([<<a>> EXCEPT ![1] = b]) = 1
    BY <1>1, ExceptSeq
  <2>2. [<<a>> EXCEPT ![1] = b][1] = b /\ <<b>>[1] = b /\ Len(<<b>>) = 1
    BY <1>1
  <2> QED BY <1>1, <2>1, <2>2, SeqEqual
<1>6. [<<a, b>> EXCEPT ![2] = c] = <<a, c>>
  <2>1. [<<a, b>> EXCEPT ![2] = c] \in Seq(S) /\ Len([<<a, b>> EXCEPT ![2] = c]) = 2
    BY <1>1, ExceptSeq
  <2>2. /\ [<<a, b>> EXCEPT ![2] = c][1] = a /\ [<<a, b>> EXCEPT ![2] = c][2] = c
        /\ <<a, c>>[1] = a /\ <<a, c>>[2] = c /\ Len(<<a, c>>) = 2
    BY <1>1
  <2> QED BY <1>1, <2>1, <2>2, SeqEqual
<1> QED BY <1>2, <1>3, <1>4, <1>5, <1>6

\* An answer of thinking and text has a block for each that is there.
LEMMA AnswerIs ==
  ASSUME NEW T \in Seq(Values), NEW X \in Seq(Values)
  PROVE  LET B == NonEmptyBlock("thinking", T) \o NonEmptyBlock("text", X)
         IN  /\ T = <<>> /\ X = <<>> => B = <<>>
             /\ T # <<>> /\ X = <<>> => B = <<Block("thinking", T)>>
             /\ T = <<>> /\ X # <<>> => B = <<Block("text", X)>>
             /\ T # <<>> /\ X # <<>> => B = <<Block("thinking", T), Block("text", X)>>
<1>1. PICK th, tx : th = Block("thinking", T) /\ tx = Block("text", X)
  OBVIOUS
<1>2. /\ NonEmptyBlock("thinking", T) = IF T = <<>> THEN <<>> ELSE <<th>>
      /\ NonEmptyBlock("text", X) = IF X = <<>> THEN <<>> ELSE <<tx>>
  BY <1>1 DEF NonEmptyBlock
<1>3. <<>> \o <<>> = <<>> /\ <<>> \o <<tx>> = <<tx>> /\ <<th>> \o <<>> = <<th>>
       /\ <<th>> \o <<tx>> = <<th, tx>>
  BY OneAndTwo
<1> QED BY <1>1, <1>2, <1>3

\* The only or the last block of an answer says more.
LEMMA LastSaysMore ==
  ASSUME NEW c, NEW k, NEW T, NEW of
  PROVE  /\ SaysMore(<<Block(k, T)>>, 1, of) = <<Block(k, T \o of)>>
         /\ SaysMore(<<c, Block(k, T)>>, 2, of) = <<c, Block(k, T \o of)>>
<1>1. PICK b : b = Block(k, T)
  OBVIOUS
<1>2. PICK y : y = T \o of
  OBVIOUS
<1> DEFINE d == Block(k, y)
<1>3. b.of = T /\ [b EXCEPT !.of = y] = d
  BY <1>1 DEF Block
<1> HIDE DEF d
<1>4. <<b>>[1] = b /\ <<c, b>>[2] = b
  OBVIOUS
<1>5. SaysMore(<<b>>, 1, of) = [<<b>> EXCEPT ![1] = d]
       /\ SaysMore(<<c, b>>, 2, of) = [<<c, b>> EXCEPT ![2] = d]
  BY <1>2, <1>3, <1>4 DEF SaysMore
<1>6. [<<b>> EXCEPT ![1] = d] = <<d>> /\ [<<c, b>> EXCEPT ![2] = d] = <<c, d>>
  BY OneAndTwo
<1> QED BY <1>1, <1>2, <1>5, <1>6 DEF d

\* The only block.
LEMMA OneSaysMore ==
  ASSUME NEW k, NEW T, NEW of
  PROVE  SaysMore(<<Block(k, T)>>, 1, of) = <<Block(k, T \o of)>>
<1>1. PICK c : c = Block(k, T)
  OBVIOUS
<1>2. /\ SaysMore(<<Block(k, T)>>, 1, of) = <<Block(k, T \o of)>>
      /\ SaysMore(<<c, Block(k, T)>>, 2, of) = <<c, Block(k, T \o of)>>
  BY ONLY LastSaysMore
<1> QED BY <1>2

\* The blocks of a stream are those of an answer, with thinking before text.
InOrder(w) ==
  w.proto # "chat" =>
    Blocks(w) = NonEmptyBlock("thinking", Read(w, "thinking")) \o NonEmptyBlock("text", Read(w, "text"))

\* They stay so unless thinking comes after text.
LEMMA OnDeltaOrders ==
  ASSUME NEW w, Streaming(w), Readable(w), LastStays(w), NEW k \in Kinds, NEW of \in Seq(Values),
         InOrder(w), of # <<>>, k = "thinking" => Read(w, "text") = <<>>
  PROVE  InOrder(OnDelta(w, k, of))
<1> SUFFICES ASSUME w.proto # "chat" PROVE InOrder(OnDelta(w, k, of))
  <2>1. OnDelta(w, k, of).proto = w.proto
    BY OnDeltaKeeps DEF SameClient
  <2> QED BY <2>1 DEF InOrder
<1>1. PICK v : v = OnDelta(w, k, of)
  OBVIOUS
<1>2. BlockWise(w) /\ Blocks(w) \in Seq(BlockSet) /\ Len(Blocks(w)) = w.next
  BY DEF Readable, BlockWise
<1>3. PICK B \in Seq(BlockSet) : B = Blocks(w)
  BY <1>2
<1>4. PICK T \in Seq(Values), X \in Seq(Values) : T = Read(w, "thinking") /\ X = Read(w, "text")
  BY <1>2, FragmentsAre DEF Read
<1>5. Blocks(v) = IF k \in w.open THEN SaysMore(B, w.index[k], of) ELSE Append(B, Block(k, of))
  BY <1>1, <1>3, OnDeltaReads
<1>6. /\ Read(v, "thinking") = IF k = "thinking" THEN T \o of ELSE T
      /\ Read(v, "text") = IF k = "text" THEN X \o of ELSE X
  <2>1. "thinking" \in Kinds \cup {"tool_use"} /\ "text" \in Kinds \cup {"tool_use"}
    BY DEF Kinds
  <2>2. \A l \in Kinds \cup {"tool_use"} :
          Read(v, l) = IF l = k THEN Read(w, l) \o of ELSE Read(w, l)
    <3>1. \A l \in Kinds \cup {"tool_use"} :
            Read(OnDelta(w, k, of), l) = IF l = k THEN Read(w, l) \o of ELSE Read(w, l)
      BY OnDeltaSays
    <3> QED BY ONLY <1>1, <3>1
  <2>3. /\ Read(v, "thinking") = IF "thinking" = k THEN Read(w, "thinking") \o of
                                                  ELSE Read(w, "thinking")
        /\ Read(v, "text") = IF "text" = k THEN Read(w, "text") \o of ELSE Read(w, "text")
    BY ONLY <2>1, <2>2
  <2> QED BY ONLY <1>4, <2>3
<1>7. B = NonEmptyBlock("thinking", T) \o NonEmptyBlock("text", X)
  BY <1>3, <1>4 DEF InOrder
<1>8. PICK th, tx : th = Block("thinking", T) /\ tx = Block("text", X)
  OBVIOUS
<1>9. th.kind = "thinking" /\ tx.kind = "text"
  BY <1>8 DEF Block
<1>10. /\ T = <<>> /\ X = <<>> => B = <<>>
       /\ T # <<>> /\ X = <<>> => B = <<th>>
       /\ T = <<>> /\ X # <<>> => B = <<tx>>
       /\ T # <<>> /\ X # <<>> => B = <<th, tx>>
  BY <1>7, <1>8, AnswerIs
<1>11. /\ Len(<<>>) = 0 /\ Len(<<th>>) = 1 /\ Len(<<tx>>) = 1 /\ Len(<<th, tx>>) = 2
       /\ <<th>>[1] = th /\ <<tx>>[1] = tx /\ <<th, tx>>[2] = tx
  OBVIOUS
<1>12. PICK N : N = w.next
  OBVIOUS
<1>13. \A l \in w.open : w.index[l] \in 1..N /\ B[w.index[l]].kind = l
  <2>1. \A l \in w.open : w.index[l] \in 1..N
    BY <1>12 DEF Streaming, Unended, Shaped, Nest, OpenAt
  <2> QED BY <1>2, <1>3, <2>1 DEF BlockWise
<1>14. Len(B) = N /\ (N # 0 => \E l \in w.open : w.index[l] = N)
  BY <1>2, <1>3, <1>12 DEF LastStays
<1>15. T \o of \in Seq(Values) /\ X \o of \in Seq(Values) /\ T \o of # <<>> /\ X \o of # <<>>
  OBVIOUS
<1>16. (T = <<>> => T \o of = of) /\ (X = <<>> => X \o of = of)
  BY Texts
<1>17. CASE k = "thinking"
  <2>1. X = <<>>
    BY <1>4, <1>17
  <2>2. Blocks(v) = <<Block("thinking", T \o of)>>
    <3>1. CASE T = <<>>
      <4>1. B = <<>> /\ N = 0
        BY <1>10, <1>11, <1>14, <2>1, <3>1
      <4>2. k \notin w.open
        BY <1>13, <4>1
      <4>3. Blocks(v) = Append(<<>>, Block("thinking", of))
        BY <1>5, <1>17, <4>1, <4>2
      <4> QED BY <1>16, <3>1, <4>3, OneAndTwo
    <3>2. CASE T # <<>>
      <4>1. B = <<th>> /\ N = 1
        BY <1>10, <1>11, <1>14, <2>1, <3>2
      <4>2. PICK l \in w.open : w.index[l] = 1
        BY <1>14, <4>1
      <4>3. l = k
        BY <1>9, <1>11, <1>13, <1>17, <4>1, <4>2
      <4>4. Blocks(v) = SaysMore(<<th>>, 1, of)
        BY <1>5, <4>1, <4>2, <4>3
      <4>5. SaysMore(<<th>>, 1, of) = <<Block("thinking", T \o of)>>
        <5>1. SaysMore(<<Block("thinking", T)>>, 1, of) = <<Block("thinking", T \o of)>>
          BY ONLY OneSaysMore
        <5> QED BY ONLY <1>8, <5>1
      <4> QED BY ONLY <4>4, <4>5
    <3> QED BY <3>1, <3>2
  <2>3. NonEmptyBlock("thinking", T \o of) \o NonEmptyBlock("text", X) = <<Block("thinking", T \o of)>>
    BY <1>15, <2>1, AnswerIs
  <2>4. v.proto # "chat" => Blocks(v) = NonEmptyBlock("thinking", Read(v, "thinking"))
                                           \o NonEmptyBlock("text", Read(v, "text"))
    BY <1>6, <1>17, <2>2, <2>3
  <2> QED BY <1>1, <2>4 DEF InOrder
<1>18. CASE k = "text"
  <2>1. Blocks(v) = IF T = <<>> THEN <<Block("text", X \o of)>> ELSE <<th, Block("text", X \o of)>>
    <3>1. CASE X = <<>>
      <4>1. k \notin w.open
        BY <1>9, <1>10, <1>11, <1>13, <1>14, <1>18, <3>1
      <4>2. Blocks(v) = Append(B, Block("text", X \o of))
        BY <1>5, <1>16, <1>18, <3>1, <4>1
      <4>3. Append(<<>>, Block("text", X \o of)) = <<Block("text", X \o of)>>
             /\ Append(<<th>>, Block("text", X \o of)) = <<th, Block("text", X \o of)>>
        BY OneAndTwo
      <4> QED BY <1>10, <3>1, <4>2, <4>3
    <3>2. CASE X # <<>>
      <4>1. N # 0 /\ B[N] = tx /\ (IF T = <<>> THEN B = <<tx>> /\ N = 1 ELSE B = <<th, tx>> /\ N = 2)
        <5>1. CASE T = <<>>
          <6>1. B = <<tx>> /\ N = 1
            BY <1>10, <1>11, <1>14, <3>2, <5>1
          <6> QED BY <1>11, <5>1, <6>1
        <5>2. CASE T # <<>>
          <6>1. B = <<th, tx>> /\ N = 2
            BY <1>10, <1>11, <1>14, <3>2, <5>2
          <6> QED BY <1>11, <5>2, <6>1
        <5> QED BY <5>1, <5>2
      <4>2. PICK l \in w.open : w.index[l] = N
        BY <1>14, <4>1
      <4>3. l = k
        BY <1>9, <1>13, <1>18, <4>1, <4>2
      <4>4. Blocks(v) = SaysMore(B, N, of)
        BY <1>5, <4>2, <4>3
      <4>5. SaysMore(<<tx>>, 1, of) = <<Block("text", X \o of)>>
             /\ SaysMore(<<th, tx>>, 2, of) = <<th, Block("text", X \o of)>>
        BY <1>8, LastSaysMore
      <4> QED BY <4>1, <4>4, <4>5
    <3> QED BY <3>1, <3>2
  <2>2. NonEmptyBlock("thinking", T) \o NonEmptyBlock("text", X \o of)
          = IF T = <<>> THEN <<Block("text", X \o of)>> ELSE <<th, Block("text", X \o of)>>
    BY <1>8, <1>15, AnswerIs
  <2>3. v.proto # "chat" => Blocks(v) = NonEmptyBlock("thinking", Read(v, "thinking"))
                                           \o NonEmptyBlock("text", Read(v, "text"))
    BY <1>6, <1>18, <2>1, <2>2
  <2> QED BY <1>1, <2>3 DEF InOrder
<1> QED BY <1>17, <1>18 DEF Kinds

-----------------------------------------------------------------------------
(* Fragments that are given one by one *)

\* The fragments of a kind, one by one.
LEMMA KindsAre ==
  ASSUME NEW k, NEW kinds
  PROVE  /\ OfKind(k, kinds, <<>>) = <<>>
         /\ \A ns \in Seq(Nat), n \in Nat :
              OfKind(k, kinds, Append(ns, n))
                = IF kinds[n] = k THEN Append(OfKind(k, kinds, ns), n) ELSE OfKind(k, kinds, ns)
         /\ \A ns \in Seq(Nat) : OfKind(k, kinds, ns) \in Seq(Nat)
<1>1. OfKind(k, kinds, <<>>) = <<>>
  BY KindNone
<1>2. \A ns \in Seq(Nat), n \in Nat :
        OfKind(k, kinds, Append(ns, n))
          = IF kinds[n] = k THEN Append(OfKind(k, kinds, ns), n) ELSE OfKind(k, kinds, ns)
  BY KindMore
<1> DEFINE T == {ns \in Seq(Nat) : OfKind(k, kinds, ns) \in Seq(Nat)}
<1>3. <<>> \in T
  <2>1. <<>> \in Seq(Nat)
    OBVIOUS
  <2> QED BY <1>1, <2>1
<1>4. ASSUME NEW ns \in Seq(Nat), NEW n \in Nat, ns \in T
      PROVE  Append(ns, n) \in T
  <2>1. PICK s \in Seq(Nat) : s = OfKind(k, kinds, ns)
    BY <1>4
  <2>2. Append(s, n) \in Seq(Nat) /\ Append(ns, n) \in Seq(Nat)
    OBVIOUS
  <2> QED BY <1>2, <2>1, <2>2
<1> HIDE DEF T
<1>5. Seq(Nat) \subseteq T
  BY <1>3, <1>4, SequenceInduction
<1>6. \A ns \in Seq(Nat) : OfKind(k, kinds, ns) \in Seq(Nat)
  BY <1>5 DEF T
<1> QED BY <1>1, <1>2, <1>6

\* One more, and what is known of the others.
LEMMA OneMore ==
  ASSUME NEW S, NEW ns \in Seq(S), NEW n \in S
  PROVE  /\ Append(ns, n) \in Seq(S) /\ DOMAIN ns \subseteq DOMAIN Append(ns, n)
         /\ Len(ns) + 1 \in DOMAIN Append(ns, n) /\ Append(ns, n)[Len(ns) + 1] = n
         /\ \A m \in DOMAIN ns : Append(ns, n)[m] = ns[m] /\ m < Len(ns) + 1
         /\ Len(ns) \in Nat /\ \A m \in DOMAIN Append(ns, n) : m = Len(ns) + 1 \/ m \in DOMAIN ns
OBVIOUS

\* No fragment of a kind.
LEMMA NoneOfKind ==
  ASSUME NEW k, NEW kinds
  PROVE  \A ns \in Seq(Nat) :
           (\A m \in DOMAIN ns : kinds[ns[m]] # k) => OfKind(k, kinds, ns) = <<>>
<1> DEFINE T == {ns \in Seq(Nat) :
                   (\A m \in DOMAIN ns : kinds[ns[m]] # k) => OfKind(k, kinds, ns) = <<>>}
<1>1. <<>> \in T
  BY KindsAre
<1>2. ASSUME NEW ns \in Seq(Nat), NEW n \in Nat, ns \in T
      PROVE  Append(ns, n) \in T
  <2>1. PICK t \in Seq(Nat) : t = Append(ns, n)
    BY OneMore
  <2>2. /\ DOMAIN ns \subseteq DOMAIN t /\ Len(ns) + 1 \in DOMAIN t /\ t[Len(ns) + 1] = n
        /\ \A m \in DOMAIN ns : t[m] = ns[m]
    BY <2>1, OneMore
  <2>3. ASSUME \A m \in DOMAIN t : kinds[t[m]] # k
        PROVE  OfKind(k, kinds, t) = <<>>
    <3>1. kinds[n] # k /\ \A m \in DOMAIN ns : kinds[ns[m]] # k
      BY <2>2, <2>3
    <3>2. OfKind(k, kinds, ns) = <<>>
      BY <1>2, <3>1
    <3>3. OfKind(k, kinds, t) = OfKind(k, kinds, ns)
      BY <2>1, <3>1, KindMore
    <3> QED BY <3>2, <3>3
  <2> QED BY <2>1, <2>3
<1> HIDE DEF T
<1>3. Seq(Nat) \subseteq T
  BY <1>1, <1>2, SequenceInduction
<1> QED BY <1>3 DEF T

\* Only the kinds of the fragments that are given count.
LEMMA KindsAgree ==
  ASSUME NEW k, NEW kinds, NEW others
  PROVE  \A ns \in Seq(Nat) :
           (\A m \in DOMAIN ns : kinds[ns[m]] = others[ns[m]]) =>
             OfKind(k, kinds, ns) = OfKind(k, others, ns)
<1> DEFINE T == {ns \in Seq(Nat) :
                   (\A m \in DOMAIN ns : kinds[ns[m]] = others[ns[m]]) =>
                     OfKind(k, kinds, ns) = OfKind(k, others, ns)}
<1>1. <<>> \in T
  BY KindsAre
<1>2. ASSUME NEW ns \in Seq(Nat), NEW n \in Nat, ns \in T
      PROVE  Append(ns, n) \in T
  <2>1. PICK t \in Seq(Nat) : t = Append(ns, n)
    BY OneMore
  <2>2. /\ DOMAIN ns \subseteq DOMAIN t /\ Len(ns) + 1 \in DOMAIN t /\ t[Len(ns) + 1] = n
        /\ \A m \in DOMAIN ns : t[m] = ns[m]
    BY <2>1, OneMore
  <2>3. ASSUME \A m \in DOMAIN t : kinds[t[m]] = others[t[m]]
        PROVE  OfKind(k, kinds, t) = OfKind(k, others, t)
    <3>1. kinds[n] = others[n] /\ \A m \in DOMAIN ns : kinds[ns[m]] = others[ns[m]]
      BY <2>2, <2>3
    <3>2. OfKind(k, kinds, ns) = OfKind(k, others, ns)
      BY <1>2, <3>1
    <3>3. CASE kinds[n] = k
      <4>1. OfKind(k, kinds, t) = Append(OfKind(k, kinds, ns), n)
        BY <2>1, <3>3, KindMore
      <4>2. OfKind(k, others, t) = Append(OfKind(k, others, ns), n)
        BY <2>1, <3>1, <3>3, KindMore, ZenonT(40)
      <4> QED BY <3>2, <4>1, <4>2
    <3>4. CASE kinds[n] # k
      <4>1. OfKind(k, kinds, t) = OfKind(k, kinds, ns)
        BY <2>1, <3>4, KindMore
      <4>2. OfKind(k, others, t) = OfKind(k, others, ns)
        BY <2>1, <3>1, <3>4, KindMore
      <4> QED BY <3>2, <4>1, <4>2
    <3> QED BY <3>3, <3>4
  <2> QED BY <2>1, <2>3
<1> HIDE DEF T
<1>3. Seq(Nat) \subseteq T
  BY <1>1, <1>2, SequenceInduction
<1> QED BY <1>3 DEF T

\* A response that takes deltas and that was given no call.
Holds(w) ==
  /\ Streaming(w) /\ Readable(w) /\ LastStays(w)
  /\ \A k \in Kinds : Emitted(w, k) <=> Read(w, k) # <<>>
  /\ Read(w, "tool_use") = <<>> /\ (w.proto = "chat" => Fields(w).calls = <<>>)

\* In these fragments no thinking comes after text.
Sorted(kinds, ns) ==
  \A m, n \in DOMAIN ns : m < n /\ kinds[ns[n]] = "thinking" => kinds[ns[m]] = "thinking"

\* A response that was given exactly these fragments.
Follows(w, kinds, ns) ==
  /\ Holds(w) /\ \A k \in Kinds : Read(w, k) = OfKind(k, kinds, ns)
  /\ Sorted(kinds, ns) => InOrder(w)

\* What is read is a sequence.
LEMMA ReadType ==
  ASSUME NEW w, Readable(w), NEW k \in Kinds \cup {"tool_use"}
  PROVE  Read(w, k) \in Seq(Values)
<1>1. CASE w.proto # "chat"
  <2>1. Blocks(w) \in Seq(BlockSet)
    BY <1>1 DEF Readable, BlockWise
  <2> QED BY <1>1, <2>1, FragmentsAre DEF Read
<1>2. CASE w.proto = "chat"
  <2>1. Fields(w).texts \in [Kinds -> Seq(Values)] /\ Fields(w).calls \in Seq(CallSet)
    BY <1>2 DEF Readable, MessageSet
  <2>2. CASE k \in Kinds
    BY <1>2, <2>1, <2>2 DEF Read
  <2>3. CASE k \notin Kinds
    <3>1. CallSet \subseteq BlockSet
      BY DEF CallSet
    <3>2. Fields(w).calls \in Seq(BlockSet)
      BY <2>1, <3>1, SeqMonotonic
    <3> QED BY <1>2, <2>3, <3>2, FragmentsAre DEF Read
  <2> QED BY <2>2, <2>3
<1> QED BY <1>1, <1>2

\* A delta with something in it.
LEMMA OnDeltaHolds ==
  ASSUME NEW w, Holds(w), NEW k \in Kinds, NEW of \in Seq(Values), of # <<>>
  PROVE  LET v == OnDelta(w, k, of)
         IN  /\ Holds(v) /\ SameClient(w, v)
             /\ \A l \in Kinds : Read(v, l) = IF l = k THEN Read(w, l) \o of ELSE Read(w, l)
             /\ InOrder(w) /\ (k = "thinking" => Read(w, "text") = <<>>) => InOrder(v)
<1>1. PICK v : v = OnDelta(w, k, of)
  OBVIOUS
<1>2. Streaming(w) /\ Readable(w) /\ LastStays(w)
  BY DEF Holds
<1>3. /\ Streaming(v) /\ SameClient(w, v)
      /\ \A l \in Kinds : Emitted(v, l) <=> l = k \/ Emitted(w, l)
  BY <1>1, <1>2, OnDeltaKeeps
<1>4. Readable(v) /\ LastStays(v)
  BY <1>1, <1>2, OnDeltaReads
<1>5. /\ \A l \in Kinds \cup {"tool_use"} : Read(v, l) = IF l = k THEN Read(w, l) \o of ELSE Read(w, l)
      /\ w.proto = "chat" => Fields(v).calls = Fields(w).calls
  BY <1>1, <1>2, OnDeltaSays
<1>6. ASSUME NEW l \in Kinds PROVE Emitted(v, l) <=> Read(v, l) # <<>>
  <2>1. PICK r \in Seq(Values) : r = Read(w, l)
    BY <1>2, ReadType
  <2>2. r \o of # <<>>
    OBVIOUS
  <2>3. Emitted(w, l) <=> r # <<>>
    BY <2>1 DEF Holds
  <2>4. Read(v, l) = IF l = k THEN r \o of ELSE r
    BY <1>5, <2>1
  <2> QED BY <1>3, <2>2, <2>3, <2>4
<1>7. Read(v, "tool_use") = <<>>
  <2>1. "tool_use" # k
    BY DEF Kinds
  <2>2. Read(v, "tool_use") = Read(w, "tool_use")
    BY <1>5, <2>1
  <2> QED BY <2>2 DEF Holds
<1>8. v.proto = "chat" => Fields(v).calls = <<>>
  BY <1>3, <1>5 DEF Holds, SameClient
<1>9. Holds(v)
  BY <1>3, <1>4, <1>6, <1>7, <1>8 DEF Holds
<1>10. InOrder(w) /\ (k = "thinking" => Read(w, "text") = <<>>) => InOrder(v)
  BY <1>1, <1>2, OnDeltaOrders
<1> QED BY <1>1, <1>3, <1>5, <1>9, <1>10

\* One fragment more.
LEMMA FollowsMore ==
  ASSUME NEW w, NEW kinds, NEW ns \in Seq(Nat), NEW n \in Nat, Follows(w, kinds, ns),
         kinds[n] \in Kinds
  PROVE  LET v == OnDelta(w, kinds[n], <<n>>)
         IN  Follows(v, kinds, Append(ns, n)) /\ SameClient(w, v)
<1>1. PICK v : v = OnDelta(w, kinds[n], <<n>>)
  OBVIOUS
<1>2. PICK t \in Seq(Nat) : t = Append(ns, n)
  BY OneMore
<1>3. <<n>> \in Seq(Values) /\ <<n>> # <<>>
  BY DEF Values
<1>4. /\ Holds(v) /\ SameClient(w, v)
      /\ \A l \in Kinds : Read(v, l) = IF l = kinds[n] THEN Read(w, l) \o <<n>> ELSE Read(w, l)
      /\ InOrder(w) /\ (kinds[n] = "thinking" => Read(w, "text") = <<>>) => InOrder(v)
  BY <1>1, <1>3, OnDeltaHolds DEF Follows
<1>5. ASSUME NEW l \in Kinds PROVE Read(v, l) = OfKind(l, kinds, t)
  <2>1. PICK s \in Seq(Nat) : s = OfKind(l, kinds, ns)
    BY KindsAre
  <2>2. s \o <<n>> = Append(s, n)
    OBVIOUS
  <2>3. Read(w, l) = s
    BY <2>1 DEF Follows
  <2>4. CASE kinds[n] = l
    <3>1. OfKind(l, kinds, t) = Append(s, n)
      BY <1>2, <2>1, <2>4, KindMore
    <3> QED BY <1>4, <2>2, <2>3, <2>4, <3>1
  <2>5. CASE kinds[n] # l
    <3>1. OfKind(l, kinds, t) = s
      BY <1>2, <2>1, <2>5, KindMore
    <3> QED BY <1>4, <2>3, <2>5, <3>1
  <2> QED BY <2>4, <2>5
<1>6. ASSUME Sorted(kinds, t) PROVE InOrder(v)
  <2>1. /\ DOMAIN ns \subseteq DOMAIN t /\ Len(ns) + 1 \in DOMAIN t /\ t[Len(ns) + 1] = n
        /\ \A m \in DOMAIN ns : t[m] = ns[m] /\ m < Len(ns) + 1
    BY <1>2, OneMore
  <2>2. Sorted(kinds, ns)
    BY <1>6, <2>1 DEF Sorted
  <2>3. ASSUME kinds[n] = "thinking" PROVE Read(w, "text") = <<>>
    <3>1. \A m \in DOMAIN ns : kinds[ns[m]] = "thinking"
      BY <1>6, <2>1, <2>3 DEF Sorted
    <3>2. OfKind("text", kinds, ns) = <<>>
      BY <3>1, NoneOfKind
    <3> QED BY <3>2 DEF Follows, Kinds
  <2> QED BY <1>4, <2>2, <2>3 DEF Follows
<1> QED BY <1>1, <1>2, <1>4, <1>5, <1>6 DEF Follows

\* All fragments, from the first.
LEMMA DeltasFollow ==
  ASSUME NEW w, NEW kinds \in Seq(Kinds), Follows(w, kinds, <<>>)
  PROVE  \A ns \in Seq(DOMAIN kinds) :
           Follows(Deltas(w, kinds, ns), kinds, ns) /\ SameClient(w, Deltas(w, kinds, ns))
<1> DEFINE T == {ns \in Seq(DOMAIN kinds) :
                   Follows(Deltas(w, kinds, ns), kinds, ns) /\ SameClient(w, Deltas(w, kinds, ns))}
<1>1. <<>> \in T
  <2>1. Deltas(w, kinds, <<>>) = w
    BY DeltasNone
  <2>2. <<>> \in Seq(DOMAIN kinds)
    OBVIOUS
  <2> QED BY <2>1, <2>2 DEF SameClient
<1>2. ASSUME NEW ns \in Seq(DOMAIN kinds), NEW n \in DOMAIN kinds, ns \in T
      PROVE  Append(ns, n) \in T
  <2>1. DOMAIN kinds \subseteq Nat /\ kinds[n] \in Kinds
    OBVIOUS
  <2>2. ns \in Seq(Nat) /\ n \in Nat
    BY <2>1, SeqMonotonic
  <2>3. PICK v : v = Deltas(w, kinds, ns)
    OBVIOUS
  <2>4. Follows(v, kinds, ns) /\ SameClient(w, v)
    BY <1>2, <2>3
  <2>5. Deltas(w, kinds, Append(ns, n)) = OnDelta(v, kinds[n], <<n>>)
    BY <2>2, <2>3, DeltasMore
  <2>6. Follows(OnDelta(v, kinds[n], <<n>>), kinds, Append(ns, n))
         /\ SameClient(v, OnDelta(v, kinds[n], <<n>>))
    BY <2>1, <2>2, <2>4, FollowsMore
  <2>7. SameClient(w, OnDelta(v, kinds[n], <<n>>))
    BY <2>4, <2>6 DEF SameClient
  <2>8. Append(ns, n) \in Seq(DOMAIN kinds)
    BY OneMore
  <2> QED BY <2>5, <2>6, <2>7, <2>8
<1> HIDE DEF T
<1>3. Seq(DOMAIN kinds) \subseteq T
  BY <1>1, <1>2, SequenceInduction
<1> QED BY <1>3 DEF T

\* A response that is not streamed, or that is over, takes no deltas.
LEMMA DeltasInert ==
  ASSUME NEW w, ~w.stream \/ ~Live(w), NEW kinds
  PROVE  \A ns \in Seq(Nat) : Deltas(w, kinds, ns) = w
<1> DEFINE T == {ns \in Seq(Nat) : Deltas(w, kinds, ns) = w}
<1>1. <<>> \in T
  <2>1. <<>> \in Seq(Nat)
    OBVIOUS
  <2> QED BY <2>1, DeltasNone
<1>2. ASSUME NEW ns \in Seq(Nat), NEW n \in Nat, ns \in T
      PROVE  Append(ns, n) \in T
  <2>1. Deltas(w, kinds, Append(ns, n)) = OnDelta(Deltas(w, kinds, ns), kinds[n], <<n>>)
    BY DeltasMore
  <2>2. OnDelta(w, kinds[n], <<n>>) = w
    BY DEF OnDelta
  <2>3. Append(ns, n) \in Seq(Nat)
    BY OneMore
  <2> QED BY <1>2, <2>1, <2>2, <2>3
<1> HIDE DEF T
<1>3. Seq(Nat) \subseteq T
  BY <1>1, <1>2, SequenceInduction
<1> QED BY <1>3 DEF T

-----------------------------------------------------------------------------
(* The end of a response *)

\* An answer has at most one block of each kind, and none that says nothing.
Tidy(blocks) ==
  /\ \A n \in DOMAIN blocks : blocks[n].of # <<>>
  /\ \A m, n \in DOMAIN blocks :
       blocks[m].kind = blocks[n].kind /\ blocks[m].kind \in Kinds => m = n

\* Its thinking is before its text.
Arranged(blocks) ==
  \A m, n \in DOMAIN blocks : m < n /\ blocks[n].kind = "thinking" => blocks[m].kind # "text"

\* Of an answer v has what w had, and what w had nothing of.
Completes(w, v, blocks) ==
  /\ \A k \in Kinds :
       Read(v, k) = IF Read(w, k) # <<>> THEN Read(w, k) ELSE FragmentsOf(blocks, k)
  /\ InOrder(w) /\ Arranged(blocks)
     /\ (FragmentsOf(blocks, "thinking") = <<>> \/ Read(w, "thinking") # <<>> \/ Read(w, "text") = <<>>)
     => InOrder(v)

\* What the deltas did not bring.
LEMMA MissingReads ==
  ASSUME NEW w, Holds(w)
  PROVE  \A bs \in Seq(BlockSet) : Tidy(bs) =>
           LET v == EmitMissing(w, bs)
           IN  Holds(v) /\ SameClient(w, v) /\ Completes(w, v, bs)
<1> DEFINE T == {bs \in Seq(BlockSet) : Tidy(bs) =>
                   /\ Holds(EmitMissing(w, bs)) /\ SameClient(w, EmitMissing(w, bs))
                   /\ Completes(w, EmitMissing(w, bs), bs)}
<1>1. <<>> \in T
  <2>1. EmitMissing(w, <<>>) = w /\ <<>> \in Seq(BlockSet)
    BY MissingNone
  <2>2. SameClient(w, w)
    BY DEF SameClient
  <2>3. Completes(w, w, <<>>)
    BY FragmentsAre DEF Completes
  <2> QED BY <2>1, <2>2, <2>3
<1>2. ASSUME NEW bs \in Seq(BlockSet), NEW b \in BlockSet, bs \in T
      PROVE  Append(bs, b) \in T
  <2>1. PICK t \in Seq(BlockSet) : t = Append(bs, b)
    BY OneMore
  <2>2. /\ DOMAIN bs \subseteq DOMAIN t /\ Len(bs) + 1 \in DOMAIN t /\ t[Len(bs) + 1] = b
        /\ \A m \in DOMAIN bs : t[m] = bs[m] /\ m < Len(bs) + 1
    BY <2>1, OneMore
  <2>3. PICK u : u = EmitMissing(w, bs)
    OBVIOUS
  <2>4. PICK v : v = EmitMissing(w, t)
    OBVIOUS
  <2>5. v = IF IsCall(b) \/ Emitted(u, b.kind) THEN u ELSE OnDelta(u, b.kind, b.of)
    BY <2>1, <2>3, <2>4, MissingMore
  <2>6. \A k : FragmentsOf(t, k) = IF b.kind = k THEN FragmentsOf(bs, k) \o b.of ELSE FragmentsOf(bs, k)
    BY <2>1, FragmentsAre
  <2>7. ASSUME Tidy(t)
        PROVE  Holds(v) /\ SameClient(w, v) /\ Completes(w, v, t)
    <3>1. Tidy(bs) /\ b.of # <<>> /\ (Arranged(t) => Arranged(bs))
      BY <2>2, <2>7 DEF Tidy, Arranged
    <3>2. Holds(u) /\ SameClient(w, u) /\ Completes(w, u, bs)
      BY <1>2, <2>3, <3>1
    <3>3. CASE IsCall(b)
      <4>1. v = u /\ \A k \in Kinds : FragmentsOf(t, k) = FragmentsOf(bs, k)
        BY <2>5, <2>6, <3>3 DEF IsCall, Kinds
      <4>2. "thinking" \in Kinds
        BY DEF Kinds
      <4>3. Completes(w, v, t)
        BY <3>1, <3>2, <4>1, <4>2 DEF Completes
      <4> QED BY <3>2, <4>1, <4>3
    <3>4. CASE ~IsCall(b)
      <4> DEFINE k == b.kind
      <4>1. k \in Kinds /\ b.of \in Seq(Values)
        BY <3>4 DEF IsCall, BlockSet
      <4>2. \A m \in DOMAIN bs : bs[m].kind # k
        BY <2>2, <2>7, <4>1 DEF Tidy
      <4>3. FragmentsOf(bs, k) = <<>>
        BY <4>2, NoFragments
      <4>4. FragmentsOf(t, k) = b.of
        <5>1. <<>> \o b.of = b.of
          BY <4>1, Texts
        <5> QED BY <2>6, <4>3, <5>1
      <4>5. \A l : l # k => FragmentsOf(t, l) = FragmentsOf(bs, l)
        BY <2>6
      <4> HIDE DEF k
      <4>6. Read(u, k) = Read(w, k)
        BY <3>2, <4>1, <4>3 DEF Completes
      <4>7. Emitted(u, k) <=> Read(w, k) # <<>>
        BY <3>2, <4>1, <4>6 DEF Holds
      <4>8. CASE Emitted(u, k)
        <5>1. v = u
          BY <2>5, <4>8 DEF k
        <5>2. \A l \in Kinds : Read(v, l) = IF Read(w, l) # <<>> THEN Read(w, l) ELSE FragmentsOf(t, l)
          BY <3>2, <4>5, <4>6, <4>7, <4>8, <5>1 DEF Completes
        <5>3. ASSUME InOrder(w), Arranged(t),
                     FragmentsOf(t, "thinking") = <<>> \/ Read(w, "thinking") # <<>> \/ Read(w, "text") = <<>>
              PROVE  InOrder(v)
          <6>1. FragmentsOf(bs, "thinking") = <<>> \/ Read(w, "thinking") # <<>> \/ Read(w, "text") = <<>>
            BY <4>3, <4>5, <5>3
          <6> QED BY <3>1, <3>2, <5>1, <5>3, <6>1 DEF Completes
        <5> QED BY <3>2, <5>1, <5>2, <5>3 DEF Completes
      <4>9. CASE ~Emitted(u, k)
        <5>1. v = OnDelta(u, k, b.of)
          BY <2>5, <3>4, <4>9 DEF k
        <5>2. /\ Holds(v) /\ SameClient(u, v)
              /\ \A l \in Kinds : Read(v, l) = IF l = k THEN Read(u, l) \o b.of ELSE Read(u, l)
              /\ InOrder(u) /\ (k = "thinking" => Read(u, "text") = <<>>) => InOrder(v)
          BY <3>1, <3>2, <4>1, <5>1, OnDeltaHolds
        <5>3. Read(w, k) = <<>> /\ Read(v, k) = b.of
          <6>1. Read(w, k) = <<>> /\ Read(u, k) = <<>>
            BY <4>6, <4>7, <4>9
          <6>2. <<>> \o b.of = b.of
            BY <4>1, Texts
          <6> QED BY <4>1, <5>2, <6>1, <6>2
        <5>4. \A l \in Kinds : Read(v, l) = IF Read(w, l) # <<>> THEN Read(w, l) ELSE FragmentsOf(t, l)
          BY <3>2, <4>4, <4>5, <5>2, <5>3 DEF Completes
        <5>5. ASSUME InOrder(w), Arranged(t),
                     FragmentsOf(t, "thinking") = <<>> \/ Read(w, "thinking") # <<>> \/ Read(w, "text") = <<>>
              PROVE  InOrder(v)
          <6>1. FragmentsOf(bs, "thinking") = <<>> \/ Read(w, "thinking") # <<>> \/ Read(w, "text") = <<>>
            BY <4>3, <4>5, <5>5
          <6>2. InOrder(u)
            BY <3>1, <3>2, <5>5, <6>1 DEF Completes
          <6>3. ASSUME k = "thinking" PROVE Read(u, "text") = <<>>
            <7>1. Read(w, "text") = <<>>
              BY <3>1, <4>4, <5>3, <5>5, <6>3
            <7>2. \A m \in DOMAIN bs : bs[m].kind # "text"
              BY <2>2, <5>5, <6>3 DEF Arranged, k
            <7>3. FragmentsOf(bs, "text") = <<>>
              BY <7>2, NoFragments
            <7>4. "text" \in Kinds
              BY DEF Kinds
            <7> QED BY <3>2, <7>1, <7>3, <7>4 DEF Completes
          <6> QED BY <5>2, <6>2, <6>3
        <5>6. SameClient(w, v)
          BY <3>2, <5>2 DEF SameClient
        <5> QED BY <5>2, <5>4, <5>5, <5>6 DEF Completes
      <4> QED BY <4>8, <4>9
    <3> QED BY <3>3, <3>4
  <2> QED BY <2>1, <2>4, <2>7
<1> HIDE DEF T
<1>3. Seq(BlockSet) \subseteq T
  BY <1>1, <1>2, SequenceInduction
<1> QED BY <1>3 DEF T

\* One call.
LEMMA EmitCallReads ==
  ASSUME NEW w, Ending(w), Readable(w), NEW b \in BlockSet, IsCall(b)
  PROVE  LET v == EmitCall(w, b)
         IN  /\ Ending(v) /\ Readable(v) /\ SameClient(w, v)
             /\ \A k \in Kinds : Read(v, k) = Read(w, k)
             /\ Read(v, "tool_use") = Read(w, "tool_use") \o b.of
<1>1. w \in WriterSet /\ Shaped(w) /\ NoEnd(w) /\ Live(w) /\ w.stream /\ w.open = {}
       /\ w.frames \in Seq(FrameSet) /\ w.next \in Nat
  BY DEF Ending, Unended, WriterSet
<1>2. b.of \in Seq(Values) /\ "tool_use" \in Kinds \cup {"tool_use", "none"} /\ "tool_use" \notin Kinds
  BY DEF BlockSet, Kinds
<1>3. PICK c \in BlockSet : c = Block("tool_use", b.of)
  BY <1>2 DEF BlockSet, Block
<1>4. c.kind = "tool_use" /\ c.of = b.of /\ IsCall(c)
  BY <1>3 DEF Block, IsCall
<1>5. CASE w.proto = "chat"
  <2>1. PICK f : f = Frame("delta", 0, "tool_use", b.of)
    OBVIOUS
  <2>2. f \in FrameSet /\ f.ev = "delta" /\ f.kind = "tool_use" /\ f.of = b.of
    <3>1. 0 \in Nat
      OBVIOUS
    <3>2. f \in FrameSet
      BY <1>2, <2>1, <3>1, FrameTypes
    <3> QED BY <2>1, <3>2 DEF Frame
  <2>3. PICK v : v = EmitCall(w, b)
    OBVIOUS
  <2>4. v = Put(w, f)
    BY <1>5, <2>1, <2>3 DEF EmitCall
  <2>5. /\ v \in WriterSet /\ v.proto = w.proto /\ v.stream = w.stream
        /\ v.next = w.next /\ v.open = w.open /\ v.body = w.body /\ v.status = w.status
        /\ v.frames = Append(w.frames, f)
    BY <1>1, <2>2, <2>4, PutIs
  <2>6. NoEnd(v)
    BY <1>1, <2>2, <2>4, PutNoEnd
  <2>7. Ending(v) /\ SameClient(w, v)
    BY <1>1, <1>5, <2>5, <2>6 DEF Ending, Unended, Shaped, Live, SameClient
  <2>8. Fields(v) = [Fields(w) EXCEPT !.calls = Append(Fields(w).calls, c)]
    <3>1. FieldsRead(Append(w.frames, f))
            = [FieldsRead(w.frames) EXCEPT !.calls = Append(@, Block("tool_use", f.of))]
      BY <1>1, <2>2, ReadMore
    <3> QED BY <1>3, <2>2, <2>5, <3>1 DEF Fields
  <2>9. Fields(w) \in MessageSet /\ Fields(w).calls \in Seq(CallSet) /\ c \in CallSet
    BY <1>4, <1>5 DEF Readable, MessageSet, CallSet
  <2>10. PICK s \in Seq(CallSet) : s = Fields(w).calls
    BY <2>9
  <2>11. Append(s, c) \in Seq(CallSet) /\ s \in Seq(BlockSet)
    <3>1. CallSet \subseteq BlockSet
      BY DEF CallSet
    <3>2. s \in Seq(BlockSet)
      BY <3>1, SeqMonotonic
    <3> QED BY <2>9, <3>2, OneMore
  <2>12. /\ Fields(v) \in MessageSet /\ Fields(v).texts = Fields(w).texts
         /\ Fields(v).calls = Append(s, c)
    BY <2>8, <2>9, <2>10, <2>11 DEF MessageSet
  <2>13. FragmentsOf(Append(s, c), "tool_use") = FragmentsOf(s, "tool_use") \o b.of
    <3>1. \A k : FragmentsOf(Append(s, c), k)
                   = IF c.kind = k THEN FragmentsOf(s, k) \o c.of ELSE FragmentsOf(s, k)
      BY <2>11, FragmentsAre
    <3> QED BY <1>4, <3>1
  <2>14. Readable(v) /\ v.proto = "chat"
    BY <1>5, <2>5, <2>12 DEF Readable
  <2>15. /\ \A k \in Kinds : Read(v, k) = Read(w, k)
         /\ Read(v, "tool_use") = Read(w, "tool_use") \o b.of
    BY <1>2, <1>5, <2>10, <2>12, <2>13, <2>14 DEF Read
  <2> QED BY <2>3, <2>7, <2>14, <2>15
<1>6. CASE w.proto # "chat"
  <2> DEFINE i == w.next + 1
  <2>1. PICK f, g, h : /\ f = Frame("open", i, "tool_use", <<>>) /\ g = Frame("delta", i, "tool_use", b.of)
                       /\ h = Frame("close", i, "tool_use", <<>>)
    OBVIOUS
  <2>2. i \in Nat
    BY <1>1
  <2> HIDE DEF i
  <2>3. f \in FrameSet /\ g \in FrameSet /\ h \in FrameSet
    BY <1>2, <2>1, <2>2, FrameTypes
  <2>4. /\ f.ev = "open" /\ f.kind = "tool_use" /\ g.ev = "delta" /\ g.i = i /\ g.of = b.of
        /\ h.ev = "close" /\ f.ev # "end" /\ g.ev # "end" /\ h.ev # "end"
    BY <2>1 DEF Frame
  <2>5. PICK v : v = EmitCall(w, b)
    OBVIOUS
  <2>6. Nest(w)
    BY <1>1, <1>6 DEF Shaped
  <2>7. /\ v \in WriterSet /\ Nest(v)
        /\ v.proto = w.proto /\ v.stream = w.stream /\ v.started = w.started
        /\ v.next = i /\ v.index = w.index /\ v.open = {}
        /\ v.body = w.body /\ v.status = w.status
        /\ v.frames = Append(Append(Append(w.frames, f), g), h)
    BY <1>1, <1>6, <2>1, <2>5, <2>6, EmitCallNests DEF i
  <2>8. PICK x \in Seq(FrameSet) : x = Append(w.frames, f)
    BY <1>1, <2>3, OneMore
  <2>9. PICK y \in Seq(FrameSet) : y = Append(x, g)
    BY <2>3, OneMore
  <2>10. v.frames = Append(y, h)
    BY <2>7, <2>8, <2>9
  <2>11. NoEnd(v)
    <3>1. \A n \in DOMAIN x : x[n].ev # "end"
      BY <1>1, <2>4, <2>8, OneMore DEF NoEnd
    <3>2. \A n \in DOMAIN y : y[n].ev # "end"
      BY <2>3, <2>4, <2>9, <3>1, OneMore
    <3>3. \A n \in DOMAIN v.frames : v.frames[n].ev # "end"
      BY <2>3, <2>4, <2>10, <3>2, OneMore
    <3> QED BY <3>3 DEF NoEnd
  <2>12. Ending(v) /\ SameClient(w, v)
    BY <1>1, <1>6, <2>7, <2>11 DEF Ending, Unended, Shaped, Live, SameClient
  <2>13. Blocks(w) \in Seq(BlockSet) /\ Len(Blocks(w)) = w.next
    BY <1>6 DEF Readable, BlockWise
  <2>14. PICK B \in Seq(BlockSet) : B = Blocks(w)
    BY <2>13
  <2>15. PICK e \in BlockSet : e = Block("tool_use", <<>>)
    <3>1. <<>> \in Seq(Values)
      OBVIOUS
    <3> QED BY <3>1 DEF BlockSet, Block
  <2>16. e.kind = "tool_use" /\ e.of = <<>>
    BY <2>15 DEF Block
  <2>17. BlocksRead(x) = Append(B, e)
    <3>1. BlocksRead(Append(w.frames, f)) = Append(BlocksRead(w.frames), Block(f.kind, <<>>))
      BY <1>1, <2>3, <2>4, ReadMore
    <3> QED BY <2>4, <2>8, <2>14, <2>15, <3>1 DEF Blocks
  <2>18. BlocksRead(y) = SaysMore(Append(B, e), i, b.of)
    <3>1. /\ x \in Seq(FrameSet) /\ g \in FrameSet /\ y = Append(x, g)
          /\ g.ev = "delta" /\ g.i = i /\ g.of = b.of
      BY <2>3, <2>4, <2>9
    <3>2. BlocksRead(Append(x, g)) = SaysMore(BlocksRead(x), g.i, g.of)
      BY <3>1, ReadMore
    <3> QED BY <2>17, <3>1, <3>2
  <2>19. Blocks(v) = SaysMore(Append(B, e), i, b.of)
    <3>1. BlocksRead(Append(y, h)) = BlocksRead(y)
      BY <2>3, <2>4, ReadMore
    <3> QED BY <2>10, <2>18, <3>1 DEF Blocks
  <2>20. SaysMore(Append(B, e), i, b.of) = Append(B, c)
    <3>1. PICK s \in Seq(BlockSet) : s = Append(B, e)
      BY OneMore
    <3>2. Len(s) = i /\ i \in DOMAIN s /\ s[i] = e /\ \A n \in 1..w.next : s[n] = B[n] /\ n \in DOMAIN s /\ n # i
      BY <1>1, <2>13, <2>14, <3>1 DEF i
    <3>3. PICK r \in Seq(BlockSet) : r = SaysMore(s, i, b.of)
      BY <1>2, <3>2, FragmentsGrow
    <3>4. /\ Len(r) = Len(s) /\ r[i] = Block("tool_use", e.of \o b.of)
          /\ \A n \in DOMAIN s : n # i => r[n] = s[n]
      <4>1. PICK z \in Seq(Values) : z = b.of
        BY <1>2
      <4>2. r = SaysMore(s, i, z) /\ i \in DOMAIN s
        BY <3>2, <3>3, <4>1
      <4>3. /\ Len(r) = Len(s) /\ r[i] = Block(s[i].kind, s[i].of \o z)
            /\ \A n \in DOMAIN s : n # i => r[n] = s[n]
        BY <4>2, FragmentsGrow
      <4> QED BY <2>16, <3>2, <4>1, <4>3
    <3>5. e.of \o b.of = b.of
      BY <1>2, <2>16, Texts
    <3>6. r[i] = c /\ \A n \in 1..w.next : r[n] = B[n]
      BY <1>3, <3>2, <3>4, <3>5
    <3>7. /\ Append(B, c) \in Seq(BlockSet) /\ Len(Append(B, c)) = i /\ Append(B, c)[i] = c
          /\ \A n \in 1..w.next : Append(B, c)[n] = B[n]
      BY <1>1, <2>13, <2>14 DEF i
    <3>8. \A n \in 1..i : n = i \/ n \in 1..w.next
      BY <1>1 DEF i
    <3>9. \A n \in 1..Len(r) : r[n] = Append(B, c)[n]
      BY <3>2, <3>4, <3>6, <3>7, <3>8
    <3>10. r = Append(B, c)
      BY <3>2, <3>4, <3>7, <3>9, SeqEqual
    <3> QED BY <3>1, <3>3, <3>10
  <2>21. Blocks(v) = Append(B, c)
    BY <2>19, <2>20
  <2>22. BlockWise(v)
    <3>1. Append(B, c) \in Seq(BlockSet) /\ Len(Append(B, c)) = i
      BY <2>13, <2>14 DEF i
    <3> QED BY <2>7, <2>21, <3>1 DEF BlockWise
  <2>23. \A k : FragmentsOf(Append(B, c), k)
                  = IF c.kind = k THEN FragmentsOf(B, k) \o c.of ELSE FragmentsOf(B, k)
    BY FragmentsAre
  <2>24. /\ \A k \in Kinds : Read(v, k) = Read(w, k)
         /\ Read(v, "tool_use") = Read(w, "tool_use") \o b.of
    BY <1>2, <1>4, <1>6, <2>7, <2>14, <2>21, <2>23 DEF Read
  <2>25. Readable(v)
    BY <1>6, <2>7, <2>22 DEF Readable
  <2> QED BY <2>5, <2>12, <2>24, <2>25
<1> QED BY <1>5, <1>6

\* All calls of an answer.
LEMMA CallsRead ==
  ASSUME NEW w, Ending(w), Readable(w)
  PROVE  \A bs \in Seq(BlockSet) :
           LET v == EmitCalls(w, bs)
           IN  /\ Ending(v) /\ Readable(v) /\ SameClient(w, v)
               /\ \A k \in Kinds : Read(v, k) = Read(w, k)
               /\ Read(v, "tool_use") = Read(w, "tool_use") \o FragmentsOf(bs, "tool_use")
               /\ (\A n \in DOMAIN bs : ~IsCall(bs[n])) => v = w
<1> DEFINE Good(v, bs) ==
             /\ Ending(v) /\ Readable(v) /\ SameClient(w, v)
             /\ \A k \in Kinds : Read(v, k) = Read(w, k)
             /\ Read(v, "tool_use") = Read(w, "tool_use") \o FragmentsOf(bs, "tool_use")
             /\ (\A n \in DOMAIN bs : ~IsCall(bs[n])) => v = w
           T == {bs \in Seq(BlockSet) : Good(EmitCalls(w, bs), bs)}
<1>1. PICK r \in Seq(Values) : r = Read(w, "tool_use")
  BY ReadType
<1>2. <<>> \in T
  <2>1. EmitCalls(w, <<>>) = w /\ <<>> \in Seq(BlockSet)
    BY CallsNone
  <2>2. r \o FragmentsOf(<<>>, "tool_use") = r
    BY FragmentsAre, Texts
  <2>3. Good(w, <<>>)
    BY <1>1, <2>2 DEF SameClient
  <2> QED BY <2>1, <2>3
<1>3. ASSUME NEW bs \in Seq(BlockSet), NEW b \in BlockSet, bs \in T
      PROVE  Append(bs, b) \in T
  <2>1. PICK t \in Seq(BlockSet) : t = Append(bs, b)
    BY OneMore
  <2>2. PICK u : u = EmitCalls(w, bs)
    OBVIOUS
  <2>3. PICK v : v = EmitCalls(w, t)
    OBVIOUS
  <2>4. v = IF IsCall(b) THEN EmitCall(u, b) ELSE u
    BY <2>1, <2>2, <2>3, CallsMore
  <2>5. Good(u, bs)
    BY <1>3, <2>2
  <2>6. /\ DOMAIN bs \subseteq DOMAIN t /\ Len(bs) + 1 \in DOMAIN t /\ t[Len(bs) + 1] = b
        /\ \A m \in DOMAIN bs : t[m] = bs[m]
    BY <2>1, OneMore
  <2>7. FragmentsOf(t, "tool_use") = IF b.kind = "tool_use" THEN FragmentsOf(bs, "tool_use") \o b.of
                                     ELSE FragmentsOf(bs, "tool_use")
    BY <2>1, FragmentsAre
  <2>8. CASE ~IsCall(b)
    <3>1. v = u /\ FragmentsOf(t, "tool_use") = FragmentsOf(bs, "tool_use")
      BY <2>4, <2>7, <2>8 DEF IsCall
    <3>2. (\A n \in DOMAIN t : ~IsCall(t[n])) => \A n \in DOMAIN bs : ~IsCall(bs[n])
      BY <2>6
    <3>3. Good(v, t)
      BY <2>5, <3>1, <3>2
    <3> QED BY <2>1, <2>3, <3>3
  <2>9. CASE IsCall(b)
    <3>1. /\ Ending(v) /\ Readable(v) /\ SameClient(u, v)
          /\ \A k \in Kinds : Read(v, k) = Read(u, k)
          /\ Read(v, "tool_use") = Read(u, "tool_use") \o b.of
      BY <2>4, <2>5, <2>9, EmitCallReads
    <3>2. PICK q \in Seq(Values) : q = FragmentsOf(bs, "tool_use")
      BY FragmentsAre
    <3>3. PICK z \in Seq(Values) : z = b.of
      BY DEF BlockSet
    <3>4. (r \o q) \o z = r \o (q \o z)
      BY TextsJoin
    <3>5. FragmentsOf(t, "tool_use") = q \o z
      BY <2>7, <2>9, <3>2, <3>3 DEF IsCall
    <3>6. Read(u, "tool_use") = r \o q
      BY <1>1, <2>5, <3>2
    <3>7. Read(v, "tool_use") = r \o FragmentsOf(t, "tool_use")
      BY <3>1, <3>3, <3>4, <3>5, <3>6
    <3>8. ~\A n \in DOMAIN t : ~IsCall(t[n])
      BY <2>6, <2>9
    <3>9. SameClient(w, v)
      BY <2>5, <3>1 DEF SameClient
    <3>10. Good(v, t)
      BY <1>1, <2>5, <3>1, <3>7, <3>8, <3>9
    <3> QED BY <2>1, <2>3, <3>10
  <2> QED BY <2>8, <2>9
<1> HIDE DEF T, Good
<1>4. Seq(BlockSet) \subseteq T
  BY <1>2, <1>3, SequenceInduction
<1> QED BY <1>4 DEF T, Good

\* Nothing but the status and the body differs.
LEMMA LooksSame ==
  ASSUME NEW w, NEW v, v.proto = w.proto, v.next = w.next, v.index = w.index, v.open = w.open,
         v.frames = w.frames
  PROVE  /\ Shaped(v) <=> Shaped(w)
         /\ NoEnd(v) <=> NoEnd(w)
         /\ \A e : EndsAt(v, e) <=> EndsAt(w, e)
<1>1. Numbered(v) <=> Numbered(w)
  BY DEF Numbered
<1>2. Opened(v) <=> Opened(w)
  BY DEF Opened, Opens
<1>3. StopsLast(v) <=> StopsLast(w)
  BY DEF StopsLast
<1>4. Accounted(v) <=> Accounted(w)
  BY DEF Accounted, Closed
<1>5. (OpenAt(v) <=> OpenAt(w)) /\ (LastIsOpen(v) <=> LastIsOpen(w)) /\ (InTurn(v) <=> InTurn(w))
  BY DEF OpenAt, LastIsOpen, InTurn
<1>6. Nest(v) <=> Nest(w)
  BY <1>1, <1>2, <1>3, <1>4, <1>5 DEF Nest
<1> QED BY <1>6 DEF Shaped, NoEnd, EndsAt

\* The same was read.
LEMMA ReadsSame ==
  ASSUME NEW w, NEW v, v.proto = w.proto, Blocks(v) = Blocks(w), Fields(v) = Fields(w)
  PROVE  /\ \A k : Read(v, k) = Read(w, k)
         /\ InOrder(w) => InOrder(v)
<1>1. \A k : Read(v, k) = Read(w, k)
  BY DEF Read
<1>2. Read(v, "thinking") = Read(w, "thinking") /\ Read(v, "text") = Read(w, "text")
  BY <1>1
<1>3. InOrder(w) => InOrder(v)
  BY <1>2 DEF InOrder
<1> QED BY <1>1, <1>3

\* What a client makes out does not hang on what is still owed to it.
LEMMA ReadableSame ==
  ASSUME NEW w, NEW v, v.proto = w.proto, Blocks(v) = Blocks(w), Fields(v) = Fields(w),
         v.next = w.next, v.index = w.index, v.open = w.open, Readable(w)
  PROVE  Readable(v)
BY DEF Readable, BlockWise

\* A frame that belongs to no block.
LEMMA PlainKeeps ==
  ASSUME NEW w \in WriterSet, Shaped(w), NEW ev \in {"start", "end", "error"}
  PROVE  LET v == Put(w, Plain(ev))
         IN  /\ v \in WriterSet /\ Shaped(v)
             /\ v.proto = w.proto /\ v.stream = w.stream /\ v.status = w.status
             /\ v.next = w.next /\ v.index = w.index /\ v.open = w.open
             /\ Blocks(v) = Blocks(w) /\ Fields(v) = Fields(w)
             /\ Len(v.frames) = Len(w.frames) + 1
<1> DEFINE v == Put(w, Plain(ev))
<1>1. PICK f : f = Plain(ev)
  OBVIOUS
<1>2. f \in FrameSet /\ f.ev = ev /\ f.ev \notin OfABlock /\ f.ev \notin {"open", "delta"}
  <2>1. "none" \in Kinds \cup {"tool_use", "none"} /\ 0 \in Nat /\ <<>> \in Seq(Values)
    OBVIOUS
  <2>2. f \in FrameSet
    BY <1>1, <2>1, FrameTypes
  <2> QED BY <1>1, <2>2 DEF Plain, Frame, OfABlock
<1>3. v = Put(w, f)
  BY <1>1
<1> HIDE DEF v
<1>4. /\ v \in WriterSet
      /\ v.proto = w.proto /\ v.stream = w.stream /\ v.status = w.status
      /\ v.next = w.next /\ v.index = w.index /\ v.open = w.open
      /\ v.frames = Append(w.frames, f)
  BY <1>2, <1>3, PutIs
<1> w.frames \in Seq(FrameSet)
  BY DEF WriterSet
<1>5. Shaped(v)
  <2>1. Nest(w) => Nest(v)
    BY <1>2, <1>3, PutPlain
  <2> QED BY <1>4, <2>1 DEF Shaped
<1>6. Blocks(v) = Blocks(w) /\ Fields(v) = Fields(w)
  <2>1. BlocksRead(Append(w.frames, f)) = BlocksRead(w.frames)
    BY <1>2, <1>4, ReadMore
  <2>2. FieldsRead(Append(w.frames, f)) = FieldsRead(w.frames)
    BY <1>2, <1>4, ReadMore
  <2> QED BY <1>4, <2>1, <2>2 DEF Blocks, Fields
<1>7. Len(v.frames) = Len(w.frames) + 1
  BY <1>2, <1>4
<1> QED BY <1>4, <1>5, <1>6, <1>7 DEF v

\* The end of a response.
LEMMA EndEnds ==
  ASSUME NEW w, Unended(w), w.proto # "chat" => w.open = {}
  PROVE  LET v == Put(w, Plain("end"))
         IN  Len(v.frames) \in DOMAIN v.frames /\ EndsAt(v, Len(v.frames))
<1> DEFINE v == Put(w, Plain("end"))
           N == Len(w.frames)
<1>1. w \in WriterSet /\ NoEnd(w)
  BY DEF Unended
<1>2. PICK f \in FrameSet : f = Plain("end") /\ f.ev = "end" /\ f.i = 0
  <2>1. "none" \in Kinds \cup {"tool_use", "none"} /\ 0 \in Nat /\ <<>> \in Seq(Values)
    OBVIOUS
  <2> QED BY <2>1, FrameTypes DEF Plain, Frame
<1>3. /\ DOMAIN w.frames = 1..N /\ DOMAIN v.frames = 1..(N + 1) /\ N \in Nat
      /\ v.frames[N + 1] = f /\ \A n \in 1..N : v.frames[n] = w.frames[n]
      /\ v.proto = w.proto /\ v.open = w.open /\ v.frames = Append(w.frames, f)
  BY <1>1, <1>2, PutIs
<1>4. Len(v.frames) = N + 1
  <2>1. w.frames \in Seq(FrameSet)
    BY <1>1 DEF WriterSet
  <2> QED BY <1>3, <2>1
<1> HIDE DEF v, N
<1>5. \A n \in DOMAIN v.frames : ~(n > N + 1) /\ (n < N + 1 => v.frames[n].ev # "end")
  <2>1. ASSUME NEW n \in DOMAIN v.frames PROVE ~(n > N + 1) /\ (n < N + 1 => n \in 1..N)
    BY <1>3
  <2> QED BY <1>1, <1>3, <2>1 DEF NoEnd
<1>6. EndsAt(v, N + 1)
  BY <1>2, <1>3, <1>5 DEF EndsAt
<1> QED BY <1>3, <1>4, <1>6 DEF v

\* Only an error may follow.
LEMMA ErrorAfterEnd ==
  ASSUME NEW w \in WriterSet, NEW e \in DOMAIN w.frames, EndsAt(w, e)
  PROVE  LET v == Put(w, Plain("error")) IN e \in DOMAIN v.frames /\ EndsAt(v, e)
<1> DEFINE v == Put(w, Plain("error"))
           N == Len(w.frames)
<1>1. PICK f \in FrameSet : f = Plain("error") /\ f.ev = "error"
  <2>1. "none" \in Kinds \cup {"tool_use", "none"} /\ 0 \in Nat /\ <<>> \in Seq(Values)
    OBVIOUS
  <2> QED BY <2>1, FrameTypes DEF Plain, Frame
<1>2. /\ DOMAIN w.frames = 1..N /\ DOMAIN v.frames = 1..(N + 1) /\ N \in Nat
      /\ v.frames[N + 1] = f /\ \A n \in 1..N : v.frames[n] = w.frames[n]
      /\ v.proto = w.proto /\ v.open = w.open
  BY <1>1, PutIs
<1> HIDE DEF v, N
<1>3. ASSUME NEW n \in DOMAIN v.frames
      PROVE  (n > e => v.frames[n].ev = "error") /\ (n < e => v.frames[n].ev # "end")
  <2>1. n = N + 1 \/ n \in 1..N
    BY <1>2
  <2>2. CASE n = N + 1
    BY <1>1, <1>2, <2>2
  <2>3. CASE n \in 1..N
    BY <1>2, <2>3 DEF EndsAt
  <2> QED BY <2>1, <2>2, <2>3
<1>4. e \in 1..N
  BY <1>2
<1>5. e \in DOMAIN v.frames /\ v.frames[e] = w.frames[e]
  BY <1>2, <1>4
<1>6. EndsAt(v, e)
  BY <1>2, <1>3, <1>5 DEF EndsAt
<1> QED BY <1>5, <1>6 DEF v

\* A status more.
LEMMA StatusIs ==
  ASSUME NEW w \in WriterSet, NEW st \in {"none", "waits", "finished", "failed", "gone"}
  PROVE  LET v == [w EXCEPT !.status = st]
         IN  /\ v \in WriterSet /\ v.status = st
             /\ v.proto = w.proto /\ v.stream = w.stream /\ v.started = w.started
             /\ v.next = w.next /\ v.index = w.index /\ v.open = w.open
             /\ v.frames = w.frames /\ v.body = w.body
             /\ Shaped(w) => Shaped(v)
             /\ NoEnd(w) => NoEnd(v)
             /\ \A e : EndsAt(w, e) => EndsAt(v, e)
             /\ Blocks(v) = Blocks(w) /\ Fields(v) = Fields(w)
<1> DEFINE v == [w EXCEPT !.status = st]
<1>1. /\ v \in WriterSet /\ v.status = st
      /\ v.proto = w.proto /\ v.stream = w.stream /\ v.started = w.started
      /\ v.next = w.next /\ v.index = w.index /\ v.open = w.open
      /\ v.frames = w.frames /\ v.body = w.body
  BY DEF WriterSet
<1> HIDE DEF v
<1>2. /\ Shaped(w) => Shaped(v)
      /\ NoEnd(w) => NoEnd(v)
      /\ \A e : EndsAt(w, e) => EndsAt(v, e)
  BY <1>1, LooksSame
<1>3. Blocks(v) = Blocks(w) /\ Fields(v) = Fields(w)
  BY <1>1 DEF Blocks, Fields
<1> QED BY <1>1, <1>2, <1>3 DEF v

\* A failure.
LEMMA FailKeeps ==
  ASSUME NEW w, Unended(w)
  PROVE  WellFormed(Fail(w)) /\ Fail(w).status = "failed"
<1>1. PICK u : u = [w EXCEPT !.status = "failed"]
  OBVIOUS
<1>2. Unended(u) /\ u.status = "failed" /\ u.proto = w.proto /\ u \in WriterSet
  BY <1>1, StatusIs DEF Unended
<1>3. Shaped(u) /\ NoEnd(u) /\ u.proto \in Protocols /\ "failed" \in Over
  BY <1>2 DEF Unended, WriterSet, Over
<1>4. CASE ~w.started
  <2>1. Fail(w) = u
    BY <1>1, <1>4 DEF Fail
  <2> QED BY <1>2, <1>3, <2>1 DEF WellFormed
<1>5. CASE w.started /\ w.proto = "messages"
  <2>1. PICK c : c = CloseAll(u)
    OBVIOUS
  <2>2. Unended(c) /\ c.open = {} /\ c.status = "failed" /\ c \in WriterSet /\ Shaped(c)
    BY <1>2, <2>1, CloseAllKeeps DEF SameClient, Unended
  <2>3. PICK p : p = Put(c, Plain("end"))
    OBVIOUS
  <2>4. p \in WriterSet /\ Shaped(p) /\ p.status = "failed"
    BY <2>2, <2>3, PlainKeeps
  <2>5. PICK e \in DOMAIN p.frames : EndsAt(p, e)
    BY <2>2, <2>3, EndEnds
  <2>6. PICK v : v = Put(p, Plain("error"))
    OBVIOUS
  <2>7. v \in WriterSet /\ Shaped(v) /\ v.status = "failed"
    BY <2>4, <2>6, PlainKeeps
  <2>8. e \in DOMAIN v.frames /\ EndsAt(v, e)
    BY <2>4, <2>5, <2>6, ErrorAfterEnd
  <2>9. Fail(w) = v
    BY <1>1, <1>5, <2>1, <2>3, <2>6 DEF Fail
  <2> QED BY <1>3, <2>7, <2>8, <2>9 DEF WellFormed
<1>6. CASE w.started /\ w.proto # "messages"
  <2>1. PICK p : p = Put(u, Plain("error"))
    OBVIOUS
  <2>2. p \in WriterSet /\ Shaped(p) /\ p.status = "failed" /\ p.proto = w.proto
    BY <1>2, <1>3, <2>1, PlainKeeps
  <2>3. NoEnd(p)
    <3>1. PICK f \in FrameSet : f = Plain("error") /\ f.ev # "end"
      <4>1. "none" \in Kinds \cup {"tool_use", "none"} /\ 0 \in Nat /\ <<>> \in Seq(Values)
        OBVIOUS
      <4> QED BY <4>1, FrameTypes DEF Plain, Frame
    <3> QED BY <1>2, <1>3, <2>1, <3>1, PutNoEnd
  <2>4. CASE w.proto = "responses"
    <3>1. Fail(w) = p
      BY <1>1, <1>6, <2>1, <2>4 DEF Fail
    <3> QED BY <2>2, <2>3, <3>1 DEF WellFormed
  <2>5. CASE w.proto = "chat"
    <3>1. PICK v : v = Put(p, Plain("end"))
      OBVIOUS
    <3>2. v \in WriterSet /\ Shaped(v) /\ v.status = "failed"
      BY <2>2, <3>1, PlainKeeps
    <3>3. PICK e \in DOMAIN v.frames : EndsAt(v, e)
      BY <2>2, <2>3, <2>5, <3>1, EndEnds DEF Unended
    <3>4. Fail(w) = v
      BY <1>1, <1>6, <2>1, <2>5, <3>1 DEF Fail
    <3> QED BY <1>3, <3>2, <3>3, <3>4 DEF WellFormed
  <2> QED BY <1>2, <1>3, <1>6, <2>4, <2>5 DEF Protocols
<1> QED BY <1>4, <1>5, <1>6

\* A response that is not streamed has the blocks of the answer.
LEMMA FinishWhole ==
  ASSUME NEW w, Unended(w), ~w.stream, NEW bs \in Seq(BlockSet)
  PROVE  LET v == Finish(w, bs)
         IN  /\ WellFormed(v) /\ v.status = "finished" /\ v.proto = w.proto /\ ~v.stream
             /\ v.body = bs
<1>1. PICK v : v = [w EXCEPT !.body = bs, !.status = "finished"]
  OBVIOUS
<1>2. Finish(w, bs) = v
  BY <1>1 DEF Finish
<1>3. w \in WriterSet /\ Shaped(w) /\ NoEnd(w)
  BY DEF Unended
<1>4. /\ v \in WriterSet /\ v.status = "finished" /\ v.body = bs
      /\ v.proto = w.proto /\ v.stream = w.stream
      /\ v.next = w.next /\ v.index = w.index /\ v.open = w.open /\ v.frames = w.frames
  BY <1>1, <1>3 DEF WriterSet
<1>5. Shaped(v) /\ NoEnd(v)
  BY <1>3, <1>4, LooksSame
<1> QED BY <1>2, <1>4, <1>5 DEF WellFormed

\* A response that is streamed has what the deltas brought and, of what they did not bring,
\* what the answer has; and the calls of the answer.
LEMMA FinishReads ==
  ASSUME NEW w, Holds(w), NEW bs \in Seq(BlockSet), Tidy(bs)
  PROVE  LET v == Finish(w, bs)
         IN  /\ WellFormed(v) /\ v.status = "finished" /\ v.proto = w.proto /\ v.stream
             /\ Readable(v)
             /\ \A k \in Kinds :
                  Read(v, k) = IF Read(w, k) # <<>> THEN Read(w, k) ELSE FragmentsOf(bs, k)
             /\ Read(v, "tool_use") = FragmentsOf(bs, "tool_use")
             /\ (\A n \in DOMAIN bs : ~IsCall(bs[n])) =>
                  /\ v.proto = "chat" => Fields(v).calls = <<>>
                  /\ InOrder(w) /\ Arranged(bs)
                     /\ (FragmentsOf(bs, "thinking") = <<>> \/ Read(w, "thinking") # <<>>
                           \/ Read(w, "text") = <<>>)
                     => InOrder(v)
<1> DEFINE Late == FragmentsOf(bs, "thinking") = <<>> \/ Read(w, "thinking") # <<>>
                     \/ Read(w, "text") = <<>>
<1>1. /\ Streaming(w) /\ Readable(w) /\ LastStays(w)
      /\ Unended(w) /\ Live(w) /\ w.stream /\ EmittedIsOpen(w)
      /\ \A k \in Kinds : Emitted(w, k) <=> Read(w, k) # <<>>
      /\ Read(w, "tool_use") = <<>> /\ (w.proto = "chat" => Fields(w).calls = <<>>)
  BY DEF Holds, Streaming
<1>2. PICK s : s = EnsureStart(w)
  OBVIOUS
<1>3. /\ Unended(s) /\ SameClient(w, s)
      /\ s.next = w.next /\ s.index = w.index /\ s.open = w.open
  BY <1>1, <1>2, EnsureStartKeeps
<1>4. Blocks(s) = Blocks(w) /\ Fields(s) = Fields(w) /\ Readable(s)
  BY <1>1, <1>2, EnsureStartReads
<1>5. s.proto = w.proto /\ s.stream = w.stream /\ s.status = w.status
  BY <1>3 DEF SameClient
<1>6. (\A k : Read(s, k) = Read(w, k)) /\ (InOrder(w) => InOrder(s))
  BY <1>4, <1>5, ReadsSame
<1>7. Holds(s)
  <2>1. EmittedIsOpen(s) /\ LastStays(s) /\ \A k \in Kinds : Emitted(s, k) <=> Emitted(w, k)
    BY <1>1, <1>3, <1>5 DEF EmittedIsOpen, LastStays, Emitted
  <2>2. Streaming(s)
    BY <1>1, <1>3, <1>5, <2>1 DEF Streaming, Live
  <2> QED BY <1>1, <1>4, <1>5, <1>6, <2>1, <2>2 DEF Holds
<1>8. PICK m : m = EmitMissing(s, bs)
  OBVIOUS
<1>9. Holds(m) /\ SameClient(s, m) /\ Completes(s, m, bs)
  BY <1>7, <1>8, MissingReads
<1>10. /\ \A k \in Kinds : Read(m, k) = IF Read(w, k) # <<>> THEN Read(w, k) ELSE FragmentsOf(bs, k)
       /\ InOrder(w) /\ Arranged(bs) /\ Late => InOrder(m)
  BY <1>6, <1>9 DEF Completes
<1>11. /\ Unended(m) /\ Live(m) /\ m.stream /\ Readable(m) /\ m.proto = w.proto
       /\ Read(m, "tool_use") = <<>> /\ (m.proto = "chat" => Fields(m).calls = <<>>)
  BY <1>5, <1>9 DEF Holds, Streaming, SameClient
<1>12. PICK c : c = CloseAll(m)
  OBVIOUS
<1>13. Unended(c) /\ SameClient(m, c) /\ c.open = {}
  BY <1>11, <1>12, CloseAllKeeps
<1>14. Blocks(c) = Blocks(m) /\ Fields(c) = Fields(m) /\ Readable(c)
  BY <1>11, <1>12, CloseAllReads
<1>15. Ending(c) /\ c.proto = w.proto
  BY <1>11, <1>13 DEF Ending, SameClient, Live
<1>16. (\A k : Read(c, k) = Read(m, k)) /\ (InOrder(m) => InOrder(c))
  BY <1>11, <1>14, <1>15, ReadsSame
<1>17. PICK e : e = EmitCalls(c, bs)
  OBVIOUS
<1>18. /\ Ending(e) /\ Readable(e) /\ SameClient(c, e)
       /\ \A k \in Kinds : Read(e, k) = Read(c, k)
       /\ Read(e, "tool_use") = Read(c, "tool_use") \o FragmentsOf(bs, "tool_use")
       /\ (\A n \in DOMAIN bs : ~IsCall(bs[n])) => e = c
  BY <1>14, <1>15, <1>17, CallsRead
<1>19. Unended(e) /\ Live(e) /\ e.stream /\ e.open = {} /\ e.proto = w.proto
       /\ e \in WriterSet /\ Shaped(e)
  BY <1>15, <1>18 DEF Ending, SameClient, Unended
<1>20. PICK p : p = Put(e, Plain("end"))
  OBVIOUS
<1>21. /\ p \in WriterSet /\ Shaped(p)
       /\ p.proto = e.proto /\ p.stream = e.stream
       /\ p.next = e.next /\ p.index = e.index /\ p.open = e.open
       /\ Blocks(p) = Blocks(e) /\ Fields(p) = Fields(e)
  BY <1>19, <1>20, PlainKeeps
<1>22. PICK x \in DOMAIN p.frames : EndsAt(p, x)
  BY <1>19, <1>20, EndEnds
<1>23. PICK v : v = [p EXCEPT !.status = "finished"]
  OBVIOUS
<1>24. /\ v \in WriterSet /\ v.status = "finished" /\ v.proto = p.proto /\ v.stream = p.stream
       /\ v.next = p.next /\ v.index = p.index /\ v.open = p.open
       /\ v.frames = p.frames /\ Shaped(v) /\ EndsAt(v, x)
       /\ Blocks(v) = Blocks(p) /\ Fields(v) = Fields(p)
  BY <1>21, <1>22, <1>23, StatusIs
<1>25. Finish(w, bs) = v
  BY <1>1, <1>2, <1>8, <1>12, <1>17, <1>20, <1>23 DEF Finish, EmitRemaining
<1>26. WellFormed(v)
  BY <1>22, <1>24 DEF WellFormed, Over
<1>27. v.proto = w.proto /\ v.stream /\ Blocks(v) = Blocks(e) /\ Fields(v) = Fields(e)
       /\ v.next = e.next /\ v.index = e.index /\ v.open = e.open
  BY <1>19, <1>21, <1>24
<1>28. Readable(v)
  BY <1>18, <1>19, <1>27, ReadableSame
<1>29. (\A k : Read(v, k) = Read(e, k)) /\ (InOrder(e) => InOrder(v))
  BY <1>19, <1>27, ReadsSame
<1>30. \A k \in Kinds : Read(v, k) = IF Read(w, k) # <<>> THEN Read(w, k) ELSE FragmentsOf(bs, k)
  BY <1>10, <1>16, <1>18, <1>29
<1>31. Read(v, "tool_use") = FragmentsOf(bs, "tool_use")
  <2>1. PICK q \in Seq(Values) : q = FragmentsOf(bs, "tool_use")
    BY FragmentsAre
  <2>2. <<>> \o q = q
    BY Texts
  <2> QED BY <1>11, <1>16, <1>18, <1>29, <2>1, <2>2
<1>32. ASSUME \A n \in DOMAIN bs : ~IsCall(bs[n])
       PROVE  /\ v.proto = "chat" => Fields(v).calls = <<>>
              /\ InOrder(w) /\ Arranged(bs) /\ Late => InOrder(v)
  <2>1. e = c
    BY <1>18, <1>32
  <2>2. v.proto = "chat" => Fields(v).calls = <<>>
    BY <1>11, <1>14, <1>27, <2>1
  <2>3. InOrder(w) /\ Arranged(bs) /\ Late => InOrder(v)
    BY <1>10, <1>16, <1>29, <2>1
  <2> QED BY <2>2, <2>3
<1> QED BY <1>24, <1>25, <1>26, <1>27, <1>28, <1>30, <1>31, <1>32

-----------------------------------------------------------------------------
(* Answers *)

\* Two sequences, one after the other.
LEMMA Joined ==
  ASSUME NEW S, NEW s \in Seq(S), NEW t \in Seq(S)
  PROVE  /\ s \o t \in Seq(S) /\ Len(s) \in Nat /\ Len(t) \in Nat /\ Len(s \o t) = Len(s) + Len(t)
         /\ \A n \in 1..Len(s) : (s \o t)[n] = s[n]
         /\ \A n \in 1..Len(s \o t) : n > Len(s) => n - Len(s) \in 1..Len(t) /\ (s \o t)[n] = t[n - Len(s)]
OBVIOUS

CallsOf(ids) == [n \in 1..Len(ids) |-> Call(ids[n])]

\* A block of each kind that says something, and calls.
AnswerOf(t, x, cs) == NonEmptyBlock("thinking", t) \o NonEmptyBlock("text", x) \o cs

\* What such an answer says.
LEMMA AnswerReads ==
  ASSUME NEW t \in Seq(Values), NEW x \in Seq(Values), NEW cs \in Seq(CallSet)
  PROVE  LET A == AnswerOf(t, x, cs)
         IN  /\ A \in Seq(BlockSet)
             /\ FragmentsOf(A, "thinking") = t /\ FragmentsOf(A, "text") = x
             /\ FragmentsOf(A, "tool_use") = FragmentsOf(cs, "tool_use")
<1> "thinking" \in Kinds /\ "text" \in Kinds
  BY DEF Kinds
<1>1. PICK a \in Seq(BlockSet) :
        /\ a = NonEmptyBlock("thinking", t)
        /\ FragmentsOf(a, "thinking") = t /\ \A l : l # "thinking" => FragmentsOf(a, l) = <<>>
  BY OneBlock
<1>2. PICK b \in Seq(BlockSet) :
        /\ b = NonEmptyBlock("text", x)
        /\ FragmentsOf(b, "text") = x /\ \A l : l # "text" => FragmentsOf(b, l) = <<>>
  BY OneBlock
<1>3. cs \in Seq(BlockSet)
  <2>1. CallSet \subseteq BlockSet
    BY DEF CallSet
  <2> QED BY <2>1, SeqMonotonic
<1>4. \A k \in Kinds : FragmentsOf(cs, k) = <<>>
  <2>1. \A n \in DOMAIN cs : cs[n].kind = "tool_use"
    BY DEF CallSet, IsCall
  <2>2. \A k \in Kinds : \A n \in DOMAIN cs : cs[n].kind # k
    BY <2>1 DEF Kinds
  <2> QED BY <1>3, <2>2, NoFragments
<1>5. PICK d \in Seq(BlockSet) : d = a \o b
  BY Joined
<1>6. PICK A \in Seq(BlockSet) : A = d \o cs
  BY <1>3, Joined
<1>7. \A k : FragmentsOf(d, k) = FragmentsOf(a, k) \o FragmentsOf(b, k)
  BY <1>5, FragmentsConcat
<1>8. \A k : FragmentsOf(A, k) = FragmentsOf(d, k) \o FragmentsOf(cs, k)
  BY <1>3, <1>6, FragmentsConcat
<1>9. PICK z \in Seq(Values) : z = FragmentsOf(cs, "tool_use")
  BY <1>3, FragmentsAre
<1>10. t \o <<>> = t /\ <<>> \o x = x /\ x \o <<>> = x /\ <<>> \o z = z /\ <<>> \o <<>> = <<>>
  BY ConcatEmptySeq, Texts
<1>11. FragmentsOf(d, "thinking") = t /\ FragmentsOf(d, "text") = x /\ FragmentsOf(d, "tool_use") = <<>>
  BY <1>1, <1>2, <1>7, <1>10
<1>12. FragmentsOf(A, "thinking") = t /\ FragmentsOf(A, "text") = x /\ FragmentsOf(A, "tool_use") = z
  BY <1>4, <1>8, <1>9, <1>10, <1>11
<1>13. A = AnswerOf(t, x, cs)
  BY <1>1, <1>2, <1>5, <1>6 DEF AnswerOf
<1> QED BY <1>9, <1>12, <1>13

\* The block of each kind is at its place.
LEMMA AnswerTidy ==
  ASSUME NEW t \in Seq(Values), NEW x \in Seq(Values), NEW cs \in Seq(CallSet),
         \A n \in DOMAIN cs : cs[n].of # <<>>
  PROVE  LET A == AnswerOf(t, x, cs)
         IN  Tidy(A) /\ Arranged(A) /\ (cs = <<>> => \A n \in DOMAIN A : ~IsCall(A[n]))
<1>1. PICK th, tx : th = Block("thinking", t) /\ tx = Block("text", x)
  OBVIOUS
<1>2. th.kind = "thinking" /\ th.of = t /\ tx.kind = "text" /\ tx.of = x
  BY <1>1 DEF Block
<1>3. th \in BlockSet /\ tx \in BlockSet
  BY <1>1 DEF Block, BlockSet, Kinds
<1>4. \A n \in DOMAIN cs : cs[n].kind = "tool_use"
  BY DEF CallSet, IsCall
<1>5. cs \in Seq(BlockSet)
  <2>1. CallSet \subseteq BlockSet
    BY DEF CallSet
  <2> QED BY <2>1, SeqMonotonic
<1>6. PICK d : d = NonEmptyBlock("thinking", t) \o NonEmptyBlock("text", x)
  OBVIOUS
<1>7. /\ t = <<>> /\ x = <<>> => d = <<>>
      /\ t # <<>> /\ x = <<>> => d = <<th>>
      /\ t = <<>> /\ x # <<>> => d = <<tx>>
      /\ t # <<>> /\ x # <<>> => d = <<th, tx>>
  BY <1>1, <1>6, AnswerIs
<1>8. d \in Seq(BlockSet)
  <2>1. <<>> \in Seq(BlockSet) /\ <<th>> \in Seq(BlockSet) /\ <<tx>> \in Seq(BlockSet)
         /\ <<th, tx>> \in Seq(BlockSet)
    BY <1>3
  <2> QED BY <1>7, <2>1
<1>9. /\ \A n \in 1..Len(d) : d[n].of # <<>> /\ d[n].kind \in Kinds
      /\ \A m, n \in 1..Len(d) : m < n => d[m].kind = "thinking" /\ d[n].kind = "text"
  <2>1. CASE t = <<>> /\ x = <<>>
    BY <1>7, <2>1
  <2>2. CASE t # <<>> /\ x = <<>>
    <3>1. d = <<th>> /\ Len(d) = 1 /\ d[1] = th
      BY <1>7, <2>2
    <3>2. \A n \in 1..Len(d) : n = 1
      BY <3>1
    <3>3. \A m, n \in 1..Len(d) : ~(m < n)
      BY <3>1
    <3> QED BY <1>2, <2>2, <3>1, <3>2, <3>3 DEF Kinds
  <2>3. CASE t = <<>> /\ x # <<>>
    <3>1. d = <<tx>> /\ Len(d) = 1 /\ d[1] = tx
      BY <1>7, <2>3
    <3>2. \A n \in 1..Len(d) : n = 1
      BY <3>1
    <3>3. \A m, n \in 1..Len(d) : ~(m < n)
      BY <3>1
    <3> QED BY <1>2, <2>3, <3>1, <3>2, <3>3 DEF Kinds
  <2>4. CASE t # <<>> /\ x # <<>>
    <3>1. d = <<th, tx>> /\ Len(d) = 2 /\ d[1] = th /\ d[2] = tx
      BY <1>7, <2>4
    <3>2. \A n \in 1..Len(d) : n = 1 \/ n = 2
      BY <3>1
    <3>3. \A m, n \in 1..Len(d) : m < n => m = 1 /\ n = 2
      BY <3>1
    <3> QED BY <1>2, <2>4, <3>1, <3>2, <3>3 DEF Kinds
  <2> QED BY <2>1, <2>2, <2>3, <2>4
<1>10. PICK A \in Seq(BlockSet) : A = d \o cs
  BY <1>5, <1>8, Joined
<1>11. AnswerOf(t, x, cs) = A
  BY <1>6, <1>10 DEF AnswerOf
<1> DEFINE N == Len(d)
<1>12. /\ N \in Nat /\ Len(A) = N + Len(cs) /\ Len(cs) \in Nat
       /\ \A n \in 1..N : A[n] = d[n]
       /\ \A n \in 1..Len(A) : n > N => n - N \in 1..Len(cs) /\ A[n] = cs[n - N]
  BY <1>5, <1>8, <1>10, Joined
<1> HIDE DEF N
<1>13. \A n \in DOMAIN A : n \in 1..Len(A) /\ n \in Nat /\ (n \in 1..N \/ n > N)
  BY <1>12
<1>14. \A n \in DOMAIN A : n > N => A[n].kind = "tool_use" /\ A[n].of # <<>>
  <2>1. \A n \in DOMAIN A : n > N => n - N \in DOMAIN cs /\ A[n] = cs[n - N]
    BY <1>12, <1>13
  <2> QED BY <1>4, <2>1
<1>15. \A n \in 1..N : A[n].of # <<>> /\ A[n].kind \in Kinds
  BY <1>9, <1>12 DEF N
<1>16. \A m, n \in 1..N : m < n => A[m].kind = "thinking" /\ A[n].kind = "text"
  BY <1>9, <1>12 DEF N
<1>17. "tool_use" \notin Kinds
  BY DEF Kinds
<1>18. Tidy(A)
  <2>1. \A n \in DOMAIN A : A[n].of # <<>>
    BY <1>13, <1>14, <1>15
  <2>2. ASSUME NEW m \in DOMAIN A, NEW n \in DOMAIN A, A[m].kind = A[n].kind, A[m].kind \in Kinds
        PROVE  m = n
    <3>1. m \in 1..N /\ n \in 1..N
      BY <1>13, <1>14, <1>17, <2>2
    <3>2. ~(m < n) /\ ~(n < m)
      BY <1>16, <2>2, <3>1
    <3> QED BY <1>12, <3>1, <3>2
  <2> QED BY <2>1, <2>2 DEF Tidy
<1>19. Arranged(A)
  <2>1. ASSUME NEW m \in DOMAIN A, NEW n \in DOMAIN A, m < n, A[n].kind = "thinking"
        PROVE  A[m].kind # "text"
    <3>1. n \in 1..N
      BY <1>13, <1>14, <2>1
    <3>2. m \in 1..N
      BY <1>12, <1>13, <2>1, <3>1
    <3> QED BY <1>16, <2>1, <3>1, <3>2
  <2> QED BY <2>1 DEF Arranged
<1>20. ASSUME cs = <<>>, NEW n \in DOMAIN A PROVE ~IsCall(A[n])
  <2>1. n \in 1..N
    BY <1>12, <1>13, <1>20
  <2> QED BY <1>15, <1>17, <2>1 DEF IsCall
<1> QED BY <1>11, <1>18, <1>19, <1>20

\* The calls of a batch.
LEMMA CallsAre ==
  \A ids \in Seq(Calls) :
    /\ CallsOf(ids) \in Seq(CallSet) /\ FragmentsOf(CallsOf(ids), "tool_use") = ids
    /\ \A n \in DOMAIN CallsOf(ids) : CallsOf(ids)[n].of # <<>>
<1>1. ASSUME NEW id \in Calls
      PROVE  /\ Call(id) \in CallSet /\ Call(id) \in BlockSet
             /\ Call(id).of = <<id>> /\ Call(id).kind = "tool_use"
             /\ <<id>> # <<>>
  <2>1. <<id>> \in Seq(Values) /\ <<id>> # <<>>
    BY DEF Values
  <2> QED BY <2>1 DEF Call, Block, CallSet, BlockSet, IsCall
<1>2. ASSUME NEW ids \in Seq(Calls)
      PROVE  /\ CallsOf(ids) \in Seq(CallSet) /\ Len(CallsOf(ids)) = Len(ids)
             /\ \A n \in 1..Len(ids) : CallsOf(ids)[n] = Call(ids[n]) /\ CallsOf(ids)[n].of # <<>>
  <2>1. \A n \in 1..Len(ids) : ids[n] \in Calls
    OBVIOUS
  <2>2. \A n \in 1..Len(ids) : Call(ids[n]) \in CallSet /\ Call(ids[n]).of # <<>>
    BY <1>1, <2>1
  <2>3. Len(ids) \in Nat
    OBVIOUS
  <2> QED BY <2>2, <2>3 DEF CallsOf
<1> DEFINE T == {ids \in Seq(Calls) : FragmentsOf(CallsOf(ids), "tool_use") = ids}
<1>3. <<>> \in T
  <2>1. CallsOf(<<>>) = <<>> /\ <<>> \in Seq(Calls)
    BY DEF CallsOf
  <2> QED BY <2>1, FragmentsAre
<1>4. ASSUME NEW ids \in Seq(Calls), NEW id \in Calls, ids \in T
      PROVE  Append(ids, id) \in T
  <2>1. PICK js \in Seq(Calls) : js = Append(ids, id)
    BY OneMore
  <2>2. PICK cs \in Seq(CallSet) : cs = CallsOf(ids)
    BY <1>2
  <2>3. PICK ds \in Seq(CallSet) : ds = CallsOf(js)
    BY <1>2
  <2>4. PICK b \in CallSet : b = Call(id) /\ b \in BlockSet /\ b.of = <<id>> /\ b.kind = "tool_use"
    BY <1>1
  <2>5. ds = Append(cs, b)
    <3>1. Len(js) = Len(ids) + 1 /\ js[Len(ids) + 1] = id /\ \A n \in 1..Len(ids) : js[n] = ids[n]
      BY <2>1
    <3>2. Len(ids) \in Nat /\ Len(cs) = Len(ids) /\ \A n \in 1..Len(ids) : cs[n] = Call(ids[n])
      BY <1>2, <2>2
    <3>3. Len(ds) = Len(js) /\ \A n \in 1..Len(js) : ds[n] = Call(js[n])
      BY <1>2, <2>3
    <3>4. PICK es \in Seq(CallSet) : es = Append(cs, b)
      BY OneMore
    <3>5. Len(es) = Len(ids) + 1 /\ es[Len(ids) + 1] = b /\ \A n \in 1..Len(ids) : es[n] = cs[n]
      BY <3>2, <3>4
    <3>6. \A n \in 1..Len(es) : n = Len(ids) + 1 \/ n \in 1..Len(ids)
      BY <3>2, <3>5
    <3>7. Len(es) = Len(ds) /\ \A n \in 1..Len(es) : es[n] = ds[n]
      BY <2>4, <3>1, <3>2, <3>3, <3>5, <3>6
    <3>8. es = ds
      BY <3>7, SeqEqual
    <3> QED BY <3>4, <3>8
  <2>6. cs \in Seq(BlockSet)
    <3>1. CallSet \subseteq BlockSet
      BY DEF CallSet
    <3> QED BY <3>1, SeqMonotonic
  <2>7. \A k : FragmentsOf(Append(cs, b), k)
               = IF b.kind = k THEN FragmentsOf(cs, k) \o b.of ELSE FragmentsOf(cs, k)
    BY <2>4, <2>6, FragmentsAre
  <2>8. FragmentsOf(ds, "tool_use") = ids \o <<id>>
    BY <1>4, <2>2, <2>4, <2>5, <2>7
  <2>9. ids \o <<id>> = Append(ids, id)
    OBVIOUS
  <2> QED BY <2>1, <2>3, <2>8, <2>9
<1> HIDE DEF T
<1>5. Seq(Calls) \subseteq T
  BY <1>3, <1>4, SequenceInduction
<1>6. ASSUME NEW ids \in Seq(Calls)
      PROVE  \A n \in DOMAIN CallsOf(ids) : CallsOf(ids)[n].of # <<>>
  <2>1. DOMAIN CallsOf(ids) = 1..Len(ids)
    BY DEF CallsOf
  <2> QED BY <1>2, <2>1
<1> QED BY <1>2, <1>5, <1>6 DEF T

\* What a client puts together of a stream says what it read.
LEMMA AssembledReads ==
  ASSUME NEW w, Readable(w), w.stream
  PROVE  /\ Assembled(w) \in Seq(BlockSet)
         /\ \A k \in Kinds \cup {"tool_use"} : FragmentsOf(Assembled(w), k) = Read(w, k)
         /\ InOrder(w) /\ (w.proto = "chat" => Fields(w).calls = <<>>) =>
              Assembled(w) = AnswerOf(Read(w, "thinking"), Read(w, "text"), <<>>)
<1>1. Read(w, "thinking") \in Seq(Values) /\ Read(w, "text") \in Seq(Values)
  BY ReadType DEF Kinds
<1>2. PICK t \in Seq(Values), x \in Seq(Values) : t = Read(w, "thinking") /\ x = Read(w, "text")
  BY <1>1
<1>3. AnswerOf(t, x, <<>>) = NonEmptyBlock("thinking", t) \o NonEmptyBlock("text", x)
  <2>1. "thinking" \in Kinds /\ "text" \in Kinds
    BY DEF Kinds
  <2>2. NonEmptyBlock("thinking", t) \in Seq(BlockSet) /\ NonEmptyBlock("text", x) \in Seq(BlockSet)
    BY <2>1, OneBlock
  <2>3. PICK d \in Seq(BlockSet) : d = NonEmptyBlock("thinking", t) \o NonEmptyBlock("text", x)
    BY <2>2, Joined
  <2>4. d \o <<>> = d
    BY ConcatEmptySeq
  <2> QED BY <2>3, <2>4 DEF AnswerOf
<1>4. CASE w.proto # "chat"
  <2>1. Assembled(w) = Blocks(w) /\ Blocks(w) \in Seq(BlockSet)
    BY <1>4 DEF Assembled, Blocks, Readable, BlockWise
  <2>2. \A k : FragmentsOf(Assembled(w), k) = Read(w, k)
    BY <1>4, <2>1 DEF Read
  <2>3. InOrder(w) => Assembled(w) = AnswerOf(t, x, <<>>)
    BY <1>2, <1>3, <1>4, <2>1 DEF InOrder
  <2> QED BY <1>2, <2>1, <2>2, <2>3
<1>5. CASE w.proto = "chat"
  <2>1. PICK f \in MessageSet : f = Fields(w)
    BY <1>5 DEF Readable
  <2>2. PICK cs \in Seq(CallSet) : cs = f.calls
    BY DEF MessageSet
  <2>3. f.texts["thinking"] = t /\ f.texts["text"] = x
    BY <1>2, <1>5, <2>1 DEF Read, Kinds
  <2>4. Assembled(w) = AnswerOf(t, x, cs)
    BY <1>5, <2>1, <2>2, <2>3 DEF Assembled, Fields, AnswerOf
  <2>5. "tool_use" \notin Kinds
    BY DEF Kinds
  <2>6. Read(w, "tool_use") = FragmentsOf(cs, "tool_use")
    BY <1>5, <2>1, <2>2, <2>5 DEF Read
  <2>7. PICK A \in Seq(BlockSet) :
          /\ A = AnswerOf(t, x, cs)
          /\ FragmentsOf(A, "thinking") = t /\ FragmentsOf(A, "text") = x
          /\ FragmentsOf(A, "tool_use") = FragmentsOf(cs, "tool_use")
    BY AnswerReads
  <2>8. \A k \in Kinds \cup {"tool_use"} : FragmentsOf(A, k) = Read(w, k)
    BY <1>2, <2>6, <2>7 DEF Kinds
  <2>9. Fields(w).calls = <<>> => A = AnswerOf(t, x, <<>>)
    BY <2>1, <2>2, <2>7
  <2> QED BY <1>2, <1>5, <2>4, <2>7, <2>8, <2>9
<1> QED BY <1>4, <1>5

-----------------------------------------------------------------------------
(* The inductive invariant *)

Upto(N) == [n \in 1..N |-> n]

TypeOK ==
  /\ runtime \in Runtimes /\ made \in Seq(Kinds) /\ early \in Seq(Nat) /\ history \in Seq(Nat)
  /\ batch \in Seq(Calls) /\ phase \in {"sending", "running", "tools", "final", "error"}
  /\ answer \in Seq(BlockSet) /\ applied \in BOOLEAN
  /\ writer = [c \in Clients |-> writer[c]]

\* Fragments wait for the pump, and then it has heard all of them.
AllHeard ==
  IF phase = "sending" THEN early = Fragments /\ history = <<>>
  ELSE early = <<>> /\ history = Fragments

Published == {"tools", "final"}

\* The published answer has what was made, its calls are those of a batch, and it is not empty.
AnswerIsMade ==
  phase \in Published =>
    LET t   == FragmentsOf(answer, "thinking")
        x   == FragmentsOf(answer, "text")
        ids == FragmentsOf(answer, "tool_use")
    IN  /\ t \in Made("thinking") /\ x \in Made("text") /\ ids \in Seq(Calls)
        /\ answer = AnswerOf(t, x, CallsOf(ids))
        /\ phase = "final" => ids = <<>> /\ answer # <<>>
        /\ phase = "tools" => ids # <<>>

\* A response that takes deltas was given all of them.
IsGiven(w, ph, kinds, ns) ==
  Live(w) => ph # "sending" /\ (w.stream => Follows(w, kinds, ns))

\* From one that was finished the client reads the answer, block by block unless kinds
\* took turns.
IsWhole(w, ph, kinds, blocks) ==
  w.status = "finished" =>
    /\ ph \in Published /\ Assembled(w) \in Seq(BlockSet)
    /\ \A k \in Kinds \cup {"tool_use"} : FragmentsOf(Assembled(w), k) = FragmentsOf(blocks, k)
    /\ ph = "final" /\ (~w.stream \/ w.proto = "chat" \/ Sorted(kinds, Upto(Len(kinds)))) =>
         Assembled(w) = blocks

IsServed(w, ph, kinds, ns, blocks) ==
  WellFormed(w) /\ IsGiven(w, ph, kinds, ns) /\ IsWhole(w, ph, kinds, blocks)

IInv ==
  /\ TypeOK /\ AllHeard /\ AnswerIsMade
  /\ applied => phase \notin {"sending", "running"}
  /\ \A c \in Clients : IsServed(writer[c], phase, made, history, answer)

\* All fragments so far, and one more.
LEMMA UptoIs ==
  ASSUME NEW N \in Nat
  PROVE  /\ Upto(N) \in Seq(1..N) /\ Upto(N) \in Seq(Nat) /\ Len(Upto(N)) = N
         /\ \A n \in 1..N : Upto(N)[n] = n
         /\ Upto(N + 1) = Append(Upto(N), N + 1)
<1>1. ASSUME NEW M \in Nat
      PROVE  /\ Upto(M) \in Seq(1..M) /\ Upto(M) \in Seq(Nat) /\ Len(Upto(M)) = M
             /\ \A n \in 1..M : Upto(M)[n] = n
  BY DEF Upto
<1>2. PICK s \in Seq(Nat) : s = Upto(N)
  BY <1>1
<1>3. PICK t \in Seq(Nat) : t = Upto(N + 1)
  BY <1>1
<1>4. PICK u \in Seq(Nat) : u = Append(s, N + 1)
  <2>1. N + 1 \in Nat
    OBVIOUS
  <2> QED BY <2>1, OneMore
<1>5. Len(s) = N /\ \A n \in 1..N : s[n] = n
  BY <1>1, <1>2
<1>6. Len(t) = N + 1 /\ \A n \in 1..(N + 1) : t[n] = n
  <2>1. N + 1 \in Nat
    OBVIOUS
  <2>2. Len(Upto(N + 1)) = N + 1 /\ \A n \in 1..(N + 1) : Upto(N + 1)[n] = n
    BY ONLY <2>1, <1>1
  <2> QED BY ONLY <1>3, <2>2
<1>7. Len(u) = N + 1 /\ u[N + 1] = N + 1 /\ \A n \in 1..N : u[n] = s[n]
  <2>1. N + 1 \in Nat /\ DOMAIN s = 1..N
    BY <1>5
  <2>2. /\ Len(Append(s, N + 1)) = Len(s) + 1 /\ Append(s, N + 1)[Len(s) + 1] = N + 1
        /\ \A n \in DOMAIN s : Append(s, N + 1)[n] = s[n]
    BY <2>1, OneMore
  <2> QED BY ONLY <1>4, <1>5, <2>1, <2>2
<1>8. \A n \in 1..Len(t) : n = N + 1 \/ n \in 1..N
  BY <1>6
<1>9. Len(t) = Len(u) /\ \A n \in 1..Len(t) : t[n] = u[n]
  BY <1>5, <1>6, <1>7, <1>8
<1>10. t = u
  BY <1>9, SeqEqual
<1> QED BY <1>1, <1>2, <1>3, <1>4, <1>10

\* A response that begins.
LEMMA NewWriterIs ==
  ASSUME NEW proto \in Protocols, NEW stream \in BOOLEAN
  PROVE  LET w == NewWriter(proto, stream)
         IN  /\ Unended(w) /\ Live(w) /\ w.proto = proto /\ w.stream = stream
             /\ stream => \A kinds : Follows(w, kinds, <<>>)
<1>1. PICK w : w = NewWriter(proto, stream)
  OBVIOUS
<1>2. /\ w.proto = proto /\ w.stream = stream /\ w.next = 0 /\ w.open = {} /\ w.frames = <<>>
      /\ w.status = "waits" /\ \A k \in Kinds : w.index[k] = 0
  BY <1>1 DEF NewWriter
<1>3. w \in WriterSet
  <2>1. <<>> \in Seq(FrameSet) /\ <<>> \in Seq(BlockSet) /\ 0 \in Nat
    OBVIOUS
  <2>2. [k \in Kinds |-> 0] \in [Kinds -> Nat]
    BY <2>1
  <2> QED BY <1>1, <2>1, <2>2 DEF NewWriter, WriterSet
<1>4. DOMAIN w.frames = {} /\ 1..w.next = {}
  BY <1>2
<1>5. Nest(w)
  BY <1>2, <1>4 DEF Nest, Numbered, Opened, StopsLast, Accounted, OpenAt, LastIsOpen, InTurn
<1>6. Unended(w) /\ Live(w)
  BY <1>2, <1>3, <1>4, <1>5 DEF Unended, Shaped, NoEnd, Live
<1>7. ASSUME stream, NEW kinds PROVE Follows(w, kinds, <<>>)
  <2>1. EmittedIsOpen(w) /\ \A k \in Kinds : ~Emitted(w, k)
    BY <1>2 DEF EmittedIsOpen, Emitted
  <2>2. Streaming(w)
    BY <1>2, <1>6, <1>7, <2>1 DEF Streaming
  <2>3. Blocks(w) = <<>> /\ Fields(w) = [texts |-> [k \in Kinds |-> <<>>], calls |-> <<>>]
    BY <1>2, FramesSteps, ChunksSteps DEF Blocks, Fields
  <2>4. Readable(w)
    <3>1. <<>> \in Seq(Values) /\ <<>> \in Seq(CallSet) /\ <<>> \in Seq(BlockSet) /\ Len(<<>>) = 0
      OBVIOUS
    <3>2. Fields(w) \in MessageSet
      BY <2>3, <3>1 DEF MessageSet
    <3>3. BlockWise(w)
      BY <1>2, <2>3, <3>1 DEF BlockWise
    <3> QED BY <3>2, <3>3 DEF Readable
  <2>5. \A k \in Kinds \cup {"tool_use"} : Read(w, k) = <<>>
    <3>1. \A k : FragmentsOf(<<>>, k) = <<>>
      BY FragmentsAre
    <3> QED BY <2>3, <3>1 DEF Read
  <2>6. LastStays(w)
    BY <1>2 DEF LastStays
  <2>7. Holds(w)
    <3>1. Fields(w).calls = <<>>
      BY <2>3
    <3> QED BY <2>1, <2>2, <2>4, <2>5, <2>6, <3>1 DEF Holds
  <2>8. InOrder(w)
    <3>1. <<>> \in Seq(Values) /\ "thinking" \in Kinds /\ "text" \in Kinds
      BY DEF Kinds
    <3>2. NonEmptyBlock("thinking", <<>>) \o NonEmptyBlock("text", <<>>) = <<>>
      BY <3>1, AnswerIs
    <3> QED BY <2>3, <2>5, <3>1, <3>2 DEF InOrder
  <2>9. \A k : OfKind(k, kinds, <<>>) = <<>>
    BY KindsAre
  <2> QED BY <2>5, <2>7, <2>8, <2>9 DEF Follows
<1> QED BY <1>1, <1>2, <1>6, <1>7

\* What is known of the published answer.
LEMMA AnswerParts ==
  ASSUME AnswerIsMade, phase \in Published, answer \in Seq(BlockSet)
  PROVE  /\ Tidy(answer) /\ Arranged(answer)
         /\ \A k \in Kinds : FragmentsOf(answer, k) \in Made(k)
         /\ phase = "final" =>
              /\ answer = AnswerOf(FragmentsOf(answer, "thinking"), FragmentsOf(answer, "text"), <<>>)
              /\ \A n \in DOMAIN answer : ~IsCall(answer[n])
<1>1. PICK t \in Seq(Values), x \in Seq(Values) :
        t = FragmentsOf(answer, "thinking") /\ x = FragmentsOf(answer, "text")
  BY FragmentsAre
<1>2. PICK ids \in Seq(Calls) : ids = FragmentsOf(answer, "tool_use")
  BY DEF AnswerIsMade
<1>3. answer = AnswerOf(t, x, CallsOf(ids)) /\ (phase = "final" => ids = <<>>)
      /\ t \in Made("thinking") /\ x \in Made("text")
  BY <1>1, <1>2 DEF AnswerIsMade
<1>4. PICK cs \in Seq(CallSet) : cs = CallsOf(ids) /\ \A n \in DOMAIN cs : cs[n].of # <<>>
  BY CallsAre
<1>5. /\ Tidy(answer) /\ Arranged(answer)
      /\ cs = <<>> => \A n \in DOMAIN answer : ~IsCall(answer[n])
  BY <1>3, <1>4, AnswerTidy
<1>6. ids = <<>> => cs = <<>>
  BY <1>4 DEF CallsOf
<1> QED BY <1>1, <1>3, <1>4, <1>5, <1>6 DEF Kinds

\* A response that was given nothing yet or everything, and that is finished with the answer.
LEMMA FinishIsWhole ==
  ASSUME AnswerIsMade, phase \in Published, answer \in Seq(BlockSet), made \in Seq(Kinds),
         NEW w, Unended(w), NEW ns \in {<<>>, Fragments},
         w.stream => Follows(w, made, ns)
  PROVE  LET v == Finish(w, answer)
         IN  v.status = "finished" /\ WellFormed(v) /\ IsWhole(v, phase, made, answer)
<1>1. PICK v : v = Finish(w, answer)
  OBVIOUS
<1>2. CASE ~w.stream
  <2>1. WellFormed(v) /\ v.status = "finished" /\ ~v.stream /\ v.body = answer
    BY <1>1, <1>2, FinishWhole
  <2>2. Assembled(v) = answer
    BY <2>1 DEF Assembled
  <2>3. IsWhole(v, phase, made, answer)
    BY <2>2 DEF IsWhole
  <2> QED BY <1>1, <2>1, <2>3
<1>3. CASE w.stream
  <2>1. /\ Tidy(answer) /\ Arranged(answer)
        /\ \A k \in Kinds : FragmentsOf(answer, k) \in Made(k)
        /\ phase = "final" =>
             /\ answer = AnswerOf(FragmentsOf(answer, "thinking"), FragmentsOf(answer, "text"), <<>>)
             /\ \A n \in DOMAIN answer : ~IsCall(answer[n])
    BY AnswerParts
  <2>2. /\ Holds(w) /\ \A k \in Kinds : Read(w, k) = OfKind(k, made, ns)
        /\ Sorted(made, ns) => InOrder(w)
    BY <1>3 DEF Follows
  <2> DEFINE Late == FragmentsOf(answer, "thinking") = <<>> \/ Read(w, "thinking") # <<>>
                       \/ Read(w, "text") = <<>>
  <2>3. /\ WellFormed(v) /\ v.status = "finished" /\ v.proto = w.proto /\ v.stream
        /\ Readable(v)
        /\ \A k \in Kinds :
             Read(v, k) = IF Read(w, k) # <<>> THEN Read(w, k) ELSE FragmentsOf(answer, k)
        /\ Read(v, "tool_use") = FragmentsOf(answer, "tool_use")
        /\ (\A n \in DOMAIN answer : ~IsCall(answer[n])) =>
             /\ v.proto = "chat" => Fields(v).calls = <<>>
             /\ InOrder(w) /\ Arranged(answer) /\ Late => InOrder(v)
    BY <1>1, <2>1, <2>2, FinishReads
  <2>4. \A k : OfKind(k, made, <<>>) = <<>>
    BY KindsAre
  <2>5. ASSUME NEW k \in Kinds PROVE Read(v, k) = FragmentsOf(answer, k)
    <3>1. CASE Read(w, k) = <<>>
      BY <2>3, <3>1
    <3>2. CASE Read(w, k) # <<>>
      <4>1. Read(w, k) = OfKind(k, made, Fragments)
        BY <2>2, <2>4, <3>2
      <4>2. FragmentsOf(answer, k) = OfKind(k, made, Fragments)
        BY <2>1, <3>2, <4>1 DEF Made
      <4> QED BY <2>3, <3>2, <4>1, <4>2
    <3> QED BY <3>1, <3>2
  <2>6. \A k \in Kinds \cup {"tool_use"} : Read(v, k) = FragmentsOf(answer, k)
    BY <2>3, <2>5
  <2>7. /\ Assembled(v) \in Seq(BlockSet)
        /\ \A k \in Kinds \cup {"tool_use"} : FragmentsOf(Assembled(v), k) = Read(v, k)
        /\ InOrder(v) /\ (v.proto = "chat" => Fields(v).calls = <<>>) =>
             Assembled(v) = AnswerOf(Read(v, "thinking"), Read(v, "text"), <<>>)
    BY <2>3, AssembledReads
  <2>8. "thinking" \in Kinds /\ "text" \in Kinds
    BY DEF Kinds
  <2>9. Late
    <3>1. CASE ns = <<>>
      BY <2>2, <2>4, <2>8, <3>1
    <3>2. CASE ns = Fragments
      <4>1. FragmentsOf(answer, "thinking") = OfKind("thinking", made, Fragments)
        BY <2>1, <2>8 DEF Made
      <4> QED BY <2>2, <2>8, <3>2, <4>1
    <3> QED BY <3>1, <3>2
  <2> HIDE DEF Late
  <2>10. Fragments = Upto(Len(made))
    BY DEF Fragments, Upto
  <2>11. ASSUME phase = "final", v.proto = "chat" \/ Sorted(made, Upto(Len(made)))
         PROVE  Assembled(v) = answer
    <3>1. InOrder(w)
      <4>1. CASE w.proto = "chat"
        BY <4>1 DEF InOrder
      <4>2. CASE w.proto # "chat"
        <5>1. Sorted(made, <<>>)
          BY DEF Sorted
        <5> QED BY <2>2, <2>3, <2>10, <2>11, <4>2, <5>1
      <4> QED BY <4>1, <4>2
    <3>2. InOrder(v) /\ (v.proto = "chat" => Fields(v).calls = <<>>)
      BY <2>1, <2>3, <2>9, <2>11, <3>1
    <3> QED BY <2>1, <2>6, <2>7, <2>8, <2>11, <3>2
  <2>12. IsWhole(v, phase, made, answer)
    BY <2>3, <2>6, <2>7, <2>11 DEF IsWhole
  <2> QED BY <1>1, <2>3, <2>12
<1> QED BY <1>2, <1>3

-----------------------------------------------------------------------------
(* Every action keeps the invariant *)

\* The number of a fragment never changes its kind.
LEMMA FollowsStill ==
  ASSUME NEW kinds \in Seq(Kinds), NEW k \in Kinds, NEW w, Follows(w, kinds, Upto(Len(kinds)))
  PROVE  Follows(w, Append(kinds, k), Upto(Len(kinds)))
<1>1. PICK more \in Seq(Kinds) : more = Append(kinds, k)
  BY OneMore
<1>2. Len(kinds) \in Nat
  OBVIOUS
<1>3. PICK ns \in Seq(Nat) : ns = Upto(Len(kinds)) /\ Len(ns) = Len(kinds)
                         /\ \A n \in 1..Len(kinds) : ns[n] = n
  BY <1>2, UptoIs
<1>4. \A n \in 1..Len(kinds) : more[n] = kinds[n]
  BY <1>1
<1>5. DOMAIN ns = 1..Len(kinds)
  BY <1>3
<1>6. \A m \in DOMAIN ns : kinds[ns[m]] = more[ns[m]]
  BY <1>3, <1>4, <1>5
<1>7. \A l : OfKind(l, kinds, ns) = OfKind(l, more, ns)
  BY <1>6, KindsAgree
<1>8. Sorted(more, ns) => Sorted(kinds, ns)
  BY <1>6 DEF Sorted
<1>9. Follows(w, kinds, ns)
  BY <1>3
<1>10. Follows(w, more, ns)
  BY <1>7, <1>8, <1>9 DEF Follows
<1> QED BY <1>1, <1>3, <1>10

\* One fragment.
LEMMA OneDelta ==
  ASSUME NEW w, NEW kinds, NEW n \in Nat
  PROVE  Deltas(w, kinds, <<n>>) = OnDelta(w, kinds[n], <<n>>)
<1>1. PICK e \in Seq(Nat) : e = <<>>
  <2>1. <<>> \in Seq(Nat)
    OBVIOUS
  <2> QED BY <2>1
<1>2. Append(e, n) = <<n>>
  BY <1>1, OneAndTwo
<1>3. Deltas(w, kinds, Append(e, n)) = OnDelta(Deltas(w, kinds, e), kinds[n], <<n>>)
  BY DeltasMore
<1>4. Deltas(w, kinds, e) = w
  BY <1>1, DeltasNone
<1> QED BY <1>2, <1>3, <1>4

\* A response, when the run makes one more fragment.
LEMMA OneDeltaServed ==
  ASSUME NEW kinds \in Seq(Kinds), NEW k \in Kinds, NEW blocks, NEW w,
         IsServed(w, "running", kinds, Upto(Len(kinds)), blocks)
  PROVE  IsServed(Deltas(w, Append(kinds, k), <<Len(kinds) + 1>>), "running",
                  Append(kinds, k), Upto(Len(kinds) + 1), blocks)
<1> DEFINE n == Len(kinds) + 1
<1>1. n \in Nat /\ Len(kinds) \in Nat
  OBVIOUS
<1>2. PICK more : more = Append(kinds, k)
  OBVIOUS
<1>3. more[n] = k
  BY <1>2
<1>4. PICK ns \in Seq(Nat) : ns = Upto(Len(kinds)) /\ Upto(n) = Append(ns, n)
  BY <1>1, UptoIs
<1> HIDE DEF n
<1>5. <<n>> \in Seq(Nat)
  BY <1>1
<1>6. WellFormed(w) /\ IsGiven(w, "running", kinds, ns) /\ w.status # "finished"
  BY <1>4 DEF IsServed, IsWhole, Published
<1>7. PICK v : v = Deltas(w, more, <<n>>)
  OBVIOUS
<1>8. CASE ~w.stream \/ ~Live(w)
  <2>1. v = w
    BY <1>5, <1>7, <1>8, DeltasInert
  <2>2. IsGiven(w, "running", more, Upto(n)) /\ IsWhole(w, "running", more, blocks)
    BY <1>6, <1>8 DEF IsGiven, IsWhole
  <2> QED BY <1>2, <1>6, <1>7, <2>1, <2>2 DEF IsServed, n
<1>9. CASE w.stream /\ Live(w)
  <2>1. Follows(w, kinds, ns)
    BY <1>6, <1>9 DEF IsGiven
  <2>2. Follows(w, more, ns)
    BY <1>2, <1>4, <2>1, FollowsStill
  <2>3. v = OnDelta(w, k, <<n>>)
    BY <1>1, <1>3, <1>7, OneDelta
  <2>4. Follows(v, more, Append(ns, n)) /\ SameClient(w, v)
    BY <1>1, <1>3, <2>2, <2>3, FollowsMore
  <2>5. Unended(v) /\ v.status # "finished"
    BY <1>6, <2>4 DEF Follows, Holds, Streaming, SameClient
  <2>6. WellFormed(v) /\ IsGiven(v, "running", more, Upto(n)) /\ IsWhole(v, "running", more, blocks)
    BY <1>4, <2>4, <2>5 DEF WellFormed, Unended, IsGiven, IsWhole
  <2> QED BY <1>2, <1>7, <2>6 DEF IsServed, n
<1> QED BY <1>8, <1>9

\* Before there is a pump no client waits, and none has an answer before it is published.
LEMMA NobodyYet ==
  ASSUME NEW w, NEW ph \in {"sending", "running"}, NEW kinds, NEW ns, NEW blocks,
         IsServed(w, ph, kinds, ns, blocks)
  PROVE  /\ w.status # "finished" /\ WellFormed(w) /\ (ph = "sending" => ~Live(w))
         /\ \A q, x, y, z : ~Live(w) => IsServed(w, q, x, y, z)
         /\ \A q, z : q # "sending" => IsServed(w, q, kinds, ns, z)
BY DEF IsServed, IsGiven, IsWhole, Published

\* The invariant holds at the start.
LEMMA InitIs ==
  ASSUME Init
  PROVE  IInv
<1>1. Fragments = <<>>
  BY DEF Init, Fragments
<1>2. TypeOK /\ AllHeard /\ AnswerIsMade
  <2>1. writer = [c \in Clients |-> writer[c]]
    BY DEF Init
  <2>2. <<>> \in Seq(Kinds) /\ <<>> \in Seq(Nat) /\ <<>> \in Seq(Calls) /\ <<>> \in Seq(BlockSet)
    OBVIOUS
  <2>3. TypeOK
    BY <2>1, <2>2 DEF Init, TypeOK
  <2> QED BY <1>1, <2>3 DEF Init, AllHeard, AnswerIsMade, Published
<1>3. PICK w : w = NoWriter
  OBVIOUS
<1>4. PICK u : u = NewWriter("chat", FALSE)
  OBVIOUS
<1>5. Unended(u) /\ u.proto = "chat"
  BY <1>4, NewWriterIs DEF Protocols
<1>6. w = [u EXCEPT !.status = "none"]
  BY <1>3, <1>4 DEF NoWriter
<1>7. w \in WriterSet /\ Shaped(w) /\ NoEnd(w) /\ w.status = "none"
  BY <1>5, <1>6, StatusIs DEF Unended
<1>8. \A p, k, n, b : IsServed(w, p, k, n, b)
  BY <1>7 DEF IsServed, WellFormed, IsGiven, IsWhole, Live
<1>9. \A c \in Clients : writer[c] = w
  BY <1>3 DEF Init
<1> QED BY <1>2, <1>8, <1>9 DEF IInv, Init

\* A delta keeps the invariant: the clients that are there are written to, the others wait.
LEMMA DeltaIs ==
  ASSUME IInv, NEW k \in Kinds, Delta(k)
  PROVE  IInv'
<1>1. /\ runtime \in Runtimes /\ made \in Seq(Kinds) /\ early \in Seq(Nat) /\ history \in Seq(Nat)
      /\ batch \in Seq(Calls) /\ phase \in {"sending", "running"}
      /\ answer \in Seq(BlockSet) /\ applied = FALSE
      /\ writer = [c \in Clients |-> writer[c]] /\ AllHeard
      /\ \A c \in Clients : IsServed(writer[c], phase, made, history, answer)
  BY DEF IInv, TypeOK, Delta
<1>2. /\ made' = Append(made, k) /\ runtime' = runtime /\ batch' = batch /\ phase' = phase
      /\ answer' = answer /\ applied' = applied /\ Bridge(Len(made) + 1)
  BY DEF Delta
<1> DEFINE N == Len(made)
<1>3. N \in Nat /\ N + 1 \in Nat /\ made' \in Seq(Kinds) /\ Len(made') = N + 1
  BY <1>1, <1>2
<1>4. Fragments = Upto(N) /\ Fragments' = Upto(N + 1)
  BY <1>3 DEF Fragments, Upto
<1> HIDE DEF N
<1>5. /\ Upto(N + 1) = Append(Upto(N), N + 1) /\ Upto(N) \in Seq(Nat) /\ Upto(N + 1) \in Seq(Nat)
  BY <1>3, UptoIs
<1>6. AnswerIsMade'
  BY <1>1, <1>2 DEF AnswerIsMade, Published
<1>7. CASE phase = "sending"
  <2>1. early' = Append(early, N + 1) /\ history' = history /\ writer' = writer
    BY <1>2, <1>7 DEF Bridge, N
  <2>2. AllHeard'
    BY <1>1, <1>2, <1>4, <1>5, <1>7, <2>1 DEF AllHeard
  <2>3. TypeOK'
    <3>1. early' \in Seq(Nat)
      BY <1>3, <1>1, <2>1
    <3> QED BY <1>1, <1>2, <1>3, <2>1, <3>1 DEF TypeOK
  <2>4. ASSUME NEW c \in Clients
        PROVE  IsServed(writer'[c], phase', made', history', answer')
    BY <1>1, <1>2, <1>7, <2>1, NobodyYet
  <2> QED BY <1>1, <1>2, <1>6, <2>2, <2>3, <2>4 DEF IInv
<1>8. CASE phase = "running"
  <2>1. /\ early' = early /\ history' = history \o <<N + 1>>
        /\ writer' = [c \in Clients |-> Deltas(writer[c], made', <<N + 1>>)]
    BY <1>2, <1>8 DEF Bridge, Ingest, N
  <2>2. history = Upto(N) /\ early = <<>>
    BY <1>1, <1>4, <1>8 DEF AllHeard
  <2>3. history' = Upto(N + 1)
    <3>1. history \o <<N + 1>> = Append(history, N + 1)
      BY <1>1, <1>3
    <3> QED BY <1>5, <2>1, <2>2, <3>1
  <2>4. AllHeard'
    BY <1>2, <1>4, <1>8, <2>1, <2>2, <2>3 DEF AllHeard
  <2>5. TypeOK'
    <3>1. writer' = [c \in Clients |-> writer'[c]]
      BY <2>1
    <3> QED BY <1>1, <1>2, <1>3, <1>5, <2>1, <2>3, <3>1 DEF TypeOK
  <2>6. ASSUME NEW c \in Clients
        PROVE  IsServed(writer'[c], phase', made', history', answer')
    <3>1. IsServed(writer[c], "running", made, Upto(N), answer)
      BY <1>1, <1>8, <2>2
    <3>2. IsServed(Deltas(writer[c], Append(made, k), <<N + 1>>), "running",
                   Append(made, k), Upto(N + 1), answer)
      BY <1>1, <3>1, OneDeltaServed DEF N
    <3>3. writer'[c] = Deltas(writer[c], Append(made, k), <<N + 1>>)
      BY <1>2, <2>1
    <3> QED BY <1>2, <1>8, <2>3, <3>2, <3>3
  <2> QED BY <1>1, <1>2, <1>6, <2>4, <2>5, <2>6 DEF IInv
<1> QED BY <1>1, <1>7, <1>8

\* The send returning keeps it: what came early is now what the run heard.
LEMMA SendReturnsIs ==
  ASSUME IInv, SendReturns
  PROVE  IInv'
<1>1. /\ runtime \in Runtimes /\ made \in Seq(Kinds) /\ early \in Seq(Nat) /\ history \in Seq(Nat)
      /\ batch \in Seq(Calls) /\ phase = "sending"
      /\ answer \in Seq(BlockSet) /\ applied = FALSE
      /\ writer = [c \in Clients |-> writer[c]]
      /\ early = Fragments /\ history = <<>>
      /\ \A c \in Clients : IsServed(writer[c], phase, made, history, answer)
  BY DEF IInv, TypeOK, AllHeard, SendReturns
<1>2. /\ made' = made /\ runtime' = runtime /\ batch' = batch /\ phase' = "running"
      /\ answer' = answer /\ applied' = applied /\ early' = <<>>
      /\ history' = history \o early
      /\ writer' = [c \in Clients |-> Deltas(writer[c], made', early)]
  BY DEF SendReturns, Ingest
<1>3. Fragments' = Fragments
  BY <1>2 DEF Fragments
<1>4. history' = Fragments
  <2>1. <<>> \o early = early
    BY <1>1, ConcatEmptySeq
  <2> QED BY <1>1, <1>2, <2>1
<1>5. AllHeard' /\ AnswerIsMade'
  BY <1>2, <1>3, <1>4 DEF AllHeard, AnswerIsMade, Published
<1>6. TypeOK'
  <2>1. <<>> \in Seq(Nat) /\ history' \in Seq(Nat)
    BY <1>1, <1>4
  <2>2. writer' = [c \in Clients |-> writer'[c]]
    BY <1>2
  <2> QED BY <1>1, <1>2, <2>1, <2>2 DEF TypeOK
<1>7. ASSUME NEW c \in Clients
      PROVE  IsServed(writer'[c], phase', made', history', answer')
  <2>1. ~Live(writer[c]) /\ \A q, x, y, z : IsServed(writer[c], q, x, y, z)
    BY <1>1, NobodyYet
  <2>2. writer'[c] = writer[c]
    BY <1>1, <1>2, <2>1, DeltasInert
  <2> QED BY <2>1, <2>2
<1> QED BY <1>1, <1>2, <1>5, <1>6, <1>7 DEF IInv

\* A call keeps it: nothing is written before the batch is published.
LEMMA CallToolIs ==
  ASSUME IInv, NEW id \in Calls, CallTool(id)
  PROVE  IInv'
<1>1. /\ runtime' = runtime /\ made' = made /\ early' = early /\ history' = history /\ phase' = phase
      /\ answer' = answer /\ applied' = applied /\ writer' = writer /\ batch' = Append(batch, id)
      /\ phase = "running"
  BY DEF CallTool
<1>2. TypeOK /\ AllHeard /\ (applied => phase \notin {"sending", "running"})
      /\ \A c \in Clients : IsServed(writer[c], phase, made, history, answer)
  BY DEF IInv
<1>3. TypeOK'
  <2>1. batch \in Seq(Calls)
    BY <1>2 DEF TypeOK
  <2>2. batch' \in Seq(Calls)
    BY <1>1, <2>1, OneMore
  <2> QED BY <1>1, <1>2, <2>2 DEF TypeOK
<1>4. AllHeard' /\ AnswerIsMade'
  BY <1>1, <1>2 DEF AllHeard, AnswerIsMade, Fragments, Published
<1> QED BY <1>1, <1>2, <1>3, <1>4 DEF IInv

\* What the run's stream adds at its end is nothing.
LEMMA StreamAddsNothing ==
  ASSUME IInv, phase = "running", StreamEnds
  PROVE  /\ made' = made /\ history' = history
         /\ \A c \in Clients : writer'[c] = writer[c]
         /\ writer' = [c \in Clients |-> writer'[c]]
<1>1. history = Fragments /\ history \in Seq(Nat) /\ made \in Seq(Kinds)
  BY DEF IInv, AllHeard, TypeOK
<1>2. Handle(StreamEvents) = <<>>
  <2>1. StreamEvents \in {<<>>, Fragments}
    BY DEF StreamEvents, SdkEvents, SandEvents
  <2> QED BY <1>1, <2>1 DEF Handle
<1>3. /\ made' = made /\ history' = history \o <<>>
      /\ writer' = [c \in Clients |-> Deltas(writer[c], made', <<>>)]
  BY <1>2 DEF StreamEnds, Ingest
<1>4. history \o <<>> = history
  BY <1>1, ConcatEmptySeq
<1>5. \A c \in Clients : writer'[c] = writer[c]
  BY <1>3, DeltasNone
<1> QED BY <1>3, <1>4, <1>5

\* The fragments of the segment are those of the answer, whatever its boundary.
LEMMA BoundaryIs ==
  ASSUME IInv, phase = "running", history' = history, made' = made, early' = early,
         runtime' = runtime, applied' = applied, batch' \in Seq(Calls),
         phase' \in {"tools", "final", "error"}, answer' \in Seq(BlockSet), AnswerIsMade',
         \A c \in Clients : writer'[c] = writer[c], writer' = [c \in Clients |-> writer'[c]]
  PROVE  IInv'
<1>1. TypeOK /\ AllHeard /\ applied = FALSE
      /\ \A c \in Clients : IsServed(writer[c], phase, made, history, answer)
  BY DEF IInv, TypeOK
<1>2. TypeOK'
  BY <1>1 DEF TypeOK
<1>3. AllHeard'
  BY <1>1 DEF AllHeard, Fragments
<1>4. ASSUME NEW c \in Clients
      PROVE  IsServed(writer'[c], phase', made', history', answer')
  BY <1>1, NobodyYet
<1> QED BY <1>1, <1>2, <1>3, <1>4 DEF IInv

\* A text of fragments.
LEMMA TextsAre ==
  ASSUME IInv, phase = "running"
  PROVE  /\ \A k \in Kinds : OfKind(k, made, history) \in Seq(Values)
         /\ history = Fragments
<1>1. history \in Seq(Nat) /\ history = Fragments
  BY DEF IInv, TypeOK, AllHeard
<1>2. \A k : OfKind(k, made, history) \in Seq(Nat)
  BY <1>1, KindsAre
<1>3. Seq(Nat) \subseteq Seq(Values)
  <2>1. Nat \subseteq Values
    BY DEF Values
  <2> QED BY <2>1, SeqMonotonic
<1> QED BY <1>1, <1>2, <1>3

\* Publishing a batch keeps it: every client that is there is owed nothing more.
LEMMA FlushToolBatchIs ==
  ASSUME IInv, FlushToolBatch
  PROVE  IInv'
<1>1. /\ phase = "running" /\ phase' = "tools" /\ runtime' = runtime /\ made' = made /\ early' = early
      /\ applied' = applied /\ history' = history /\ writer' = writer /\ batch # <<>> /\ batch' = <<>>
      /\ answer' = NonEmptyBlock("thinking", Text("thinking")) \o NonEmptyBlock("text", Text("text"))
                     \o [n \in 1..Len(batch) |-> Call(batch[n])]
  BY DEF FlushToolBatch, Publish
<1>2. batch \in Seq(Calls) /\ writer = [c \in Clients |-> writer[c]]
  BY DEF IInv, TypeOK
<1>3. PICK t \in Seq(Values), x \in Seq(Values) :
        t = OfKind("thinking", made, history) /\ x = OfKind("text", made, history)
  BY <1>1, TextsAre DEF Kinds
<1>4. t = Text("thinking") /\ x = Text("text")
  BY <1>1, <1>3 DEF Text
<1>5. PICK cs \in Seq(CallSet) : cs = CallsOf(batch) /\ FragmentsOf(cs, "tool_use") = batch
  BY <1>2, CallsAre
<1>6. PICK A \in Seq(BlockSet) :
        /\ A = AnswerOf(t, x, cs)
        /\ FragmentsOf(A, "thinking") = t /\ FragmentsOf(A, "text") = x
        /\ FragmentsOf(A, "tool_use") = FragmentsOf(cs, "tool_use")
  BY AnswerReads
<1>7. answer' = A
  BY <1>1, <1>4, <1>5, <1>6 DEF AnswerOf, CallsOf
<1>8. Fragments' = Fragments /\ history = Fragments
  BY <1>1, TextsAre DEF Fragments
<1>9. t \in Made("thinking")' /\ x \in Made("text")'
  BY <1>1, <1>3, <1>8 DEF Made
<1>10. AnswerIsMade'
  BY <1>1, <1>2, <1>5, <1>6, <1>7, <1>9 DEF AnswerIsMade
<1>11. <<>> \in Seq(Calls)
  OBVIOUS
<1> QED BY <1>1, <1>2, <1>7, <1>10, <1>11, BoundaryIs

\* A failing run keeps it.
LEMMA RunFailsIs ==
  ASSUME IInv, RunFails
  PROVE  IInv'
<1>1. /\ phase = "running" /\ phase' = "error" /\ runtime' = runtime /\ early' = early
      /\ applied' = applied /\ batch' = batch /\ answer' = <<>> /\ StreamEnds
  BY DEF RunFails, Publish
<1>2. batch \in Seq(Calls) /\ <<>> \in Seq(BlockSet)
  BY DEF IInv, TypeOK
<1>3. AnswerIsMade'
  BY <1>1 DEF AnswerIsMade, Published
<1> QED BY <1>1, <1>2, <1>3, StreamAddsNothing, BoundaryIs

\* The end of a run keeps it: what the deltas missed is in the answer.
LEMMA RunEndsIs ==
  ASSUME IInv, NEW result \in ResultTexts, RunEnds(result)
  PROVE  IInv'
<1> DEFINE y      == IF result = <<>> THEN Text("text") ELSE result
           blocks == NonEmptyBlock("thinking", Text("thinking")) \o NonEmptyBlock("text", y)
<1>1. /\ phase = "running" /\ phase' = (IF blocks = <<>> THEN "error" ELSE "final")
      /\ runtime' = runtime /\ early' = early /\ answer' = blocks
      /\ applied' = applied /\ batch = <<>> /\ batch' = batch /\ StreamEnds
  BY DEF RunEnds, Publish
<1>2. /\ made' = made /\ history' = history
      /\ \A c \in Clients : writer'[c] = writer[c]
      /\ writer' = [c \in Clients |-> writer'[c]]
  BY <1>1, StreamAddsNothing
<1>3. PICK t \in Seq(Values), s \in Seq(Values) :
        t = OfKind("thinking", made, history) /\ s = OfKind("text", made, history)
  BY <1>1, TextsAre DEF Kinds
<1>4. t = Text("thinking") /\ s = Text("text")
  BY <1>2, <1>3 DEF Text
<1>5. Fragments' = Fragments /\ history = Fragments
  BY <1>1, <1>2, TextsAre DEF Fragments
<1>6. result \in {s, <<>>} \/ (result = <<0>> /\ s = <<>>)
  BY <1>3, <1>5 DEF ResultTexts
<1>7. PICK x \in Seq(Values) : x = y
  <2>1. <<0>> \in Seq(Values)
    BY DEF Values
  <2> QED BY <1>4, <1>6, <2>1
<1>8. x = s \/ (x = <<0>> /\ s = <<>>)
  BY <1>4, <1>6, <1>7
<1>9. t \in Made("thinking")' /\ x \in Made("text")'
  BY <1>2, <1>3, <1>5, <1>8 DEF Made
<1>10. PICK A \in Seq(BlockSet) :
         /\ A = AnswerOf(t, x, <<>>)
         /\ FragmentsOf(A, "thinking") = t /\ FragmentsOf(A, "text") = x
         /\ FragmentsOf(A, "tool_use") = <<>>
  <2>1. PICK cs \in Seq(CallSet) : cs = <<>>
    <3>1. <<>> \in Seq(CallSet)
      OBVIOUS
    <3> QED BY <3>1
  <2>2. FragmentsOf(cs, "tool_use") = <<>>
    BY <2>1, FragmentsAre
  <2>3. PICK A \in Seq(BlockSet) :
          /\ A = AnswerOf(t, x, cs)
          /\ FragmentsOf(A, "thinking") = t /\ FragmentsOf(A, "text") = x
          /\ FragmentsOf(A, "tool_use") = FragmentsOf(cs, "tool_use")
    BY AnswerReads
  <2> QED BY <2>1, <2>2, <2>3
<1>11. answer' = A
  <2>1. "thinking" \in Kinds /\ "text" \in Kinds
    BY DEF Kinds
  <2>2. NonEmptyBlock("thinking", t) \in Seq(BlockSet) /\ NonEmptyBlock("text", x) \in Seq(BlockSet)
    BY <2>1, OneBlock
  <2>3. PICK d \in Seq(BlockSet) : d = NonEmptyBlock("thinking", t) \o NonEmptyBlock("text", x)
    BY <2>2, Joined
  <2>4. d \o <<>> = d
    BY ConcatEmptySeq
  <2> QED BY <1>1, <1>4, <1>7, <1>10, <2>3, <2>4 DEF AnswerOf
<1>12. phase' = IF answer' = <<>> THEN "error" ELSE "final"
  BY <1>1
<1> HIDE DEF y, blocks
<1>13. CallsOf(<<>>) = <<>> /\ <<>> \in Seq(Calls)
  BY DEF CallsOf
<1>14. AnswerIsMade'
  BY <1>9, <1>10, <1>11, <1>12, <1>13 DEF AnswerIsMade, Published
<1> QED BY <1>1, <1>2, <1>11, <1>12, <1>13, <1>14, BoundaryIs

\* One response changes.
LEMMA OneServed ==
  ASSUME IInv, NEW c \in Clients, NEW v, SetWriter(c, v),
         IsServed(v, phase, made, history, answer),
         applied' \in BOOLEAN, applied' => phase \notin {"sending", "running"}
  PROVE  IInv'
<1>1. /\ runtime' = runtime /\ made' = made /\ early' = early /\ history' = history
      /\ batch' = batch /\ phase' = phase /\ answer' = answer
      /\ writer' = [writer EXCEPT ![c] = v]
  BY DEF SetWriter
<1>2. TypeOK /\ AllHeard /\ AnswerIsMade
      /\ \A d \in Clients : IsServed(writer[d], phase, made, history, answer)
  BY DEF IInv
<1>3. writer = [d \in Clients |-> writer[d]]
  BY <1>2 DEF TypeOK
<1>4. writer' = [d \in Clients |-> IF d = c THEN v ELSE writer[d]]
  BY <1>1, <1>3
<1>5. TypeOK'
  <2>1. writer' = [d \in Clients |-> writer'[d]]
    BY <1>4
  <2> QED BY <1>1, <1>2, <2>1 DEF TypeOK
<1>6. AllHeard' /\ AnswerIsMade'
  <2>1. Fragments' = Fragments /\ \A k : Made(k)' = Made(k)
    BY <1>1 DEF Fragments, Made
  <2> QED BY <1>1, <1>2, <2>1 DEF AllHeard, AnswerIsMade
<1>7. ASSUME NEW d \in Clients
      PROVE  IsServed(writer'[d], phase', made', history', answer')
  BY <1>1, <1>2, <1>4
<1> QED BY <1>1, <1>5, <1>6, <1>7 DEF IInv

\* A client that joins keeps it: it is brought up to what was heard so far.
LEMMA AttachIs ==
  ASSUME IInv, NEW c \in Clients, NEW proto \in Protocols, NEW stream \in BOOLEAN,
         Attach(c, proto, stream)
  PROVE  IInv'
<1>1. /\ phase # "sending" /\ applied = FALSE /\ applied' = applied
      /\ SetWriter(c, CatchUp(NewWriter(proto, stream)))
  BY DEF Attach, IInv, TypeOK
<1>2. PICK w : w = NewWriter(proto, stream)
  OBVIOUS
<1>3. /\ Unended(w) /\ Live(w) /\ w.stream = stream
      /\ stream => \A kinds : Follows(w, kinds, <<>>)
  BY <1>2, NewWriterIs
<1>4. made \in Seq(Kinds) /\ history \in Seq(Nat) /\ history = Fragments
  BY <1>1 DEF IInv, TypeOK, AllHeard
<1>5. history \in Seq(DOMAIN made)
  <2>1. Len(made) \in Nat /\ DOMAIN made = 1..Len(made)
    BY <1>4
  <2>2. history = Upto(Len(made))
    BY <1>4 DEF Fragments, Upto
  <2> QED BY <2>1, <2>2, UptoIs
<1>6. PICK v : v = Deltas(w, made, history)
  OBVIOUS
<1>7. IsServed(v, phase, made, history, answer)
  <2>1. CASE stream
    <3>1. Follows(v, made, history) /\ SameClient(w, v)
      BY <1>3, <1>4, <1>5, <1>6, <2>1, DeltasFollow
    <3>2. Unended(v) /\ v.status = "waits"
      BY <1>3, <3>1 DEF Follows, Holds, Streaming, Live, SameClient
    <3> QED BY <1>1, <3>1, <3>2 DEF IsServed, WellFormed, Unended, IsGiven, IsWhole
  <2>2. CASE ~stream
    <3>1. v = w
      BY <1>3, <1>4, <1>6, <2>2, DeltasInert
    <3> QED BY <1>1, <1>3, <2>2, <3>1 DEF IsServed, WellFormed, Unended, IsGiven, IsWhole, Live
  <2> QED BY <2>1, <2>2
<1>8. SetWriter(c, v)
  BY <1>1, <1>2, <1>6 DEF CatchUp
<1> QED BY <1>1, <1>7, <1>8, OneServed

\* Writing the answer keeps it.
LEMMA AnswerActionIs ==
  ASSUME IInv, NEW c \in Clients, Answer(c)
  PROVE  IInv'
<1>1. PICK w : w = writer[c]
  OBVIOUS
<1>2. /\ Live(w) /\ phase \notin {"sending", "running"} /\ applied' = TRUE
      /\ SetWriter(c, IF phase = "error" THEN Fail(w) ELSE Finish(w, answer))
  BY <1>1 DEF Answer
<1>3. /\ WellFormed(w) /\ IsGiven(w, phase, made, history)
  BY <1>1 DEF IInv, IsServed
<1>4. Unended(w)
  BY <1>2, <1>3 DEF WellFormed, Unended, Live, Over
<1>5. /\ made \in Seq(Kinds) /\ answer \in Seq(BlockSet) /\ AnswerIsMade /\ history = Fragments
      /\ phase \in {"sending", "running", "tools", "final", "error"}
  BY <1>2 DEF IInv, TypeOK, AllHeard
<1>6. CASE phase = "error"
  <2>1. PICK v : v = Fail(w)
    OBVIOUS
  <2>2. WellFormed(v) /\ v.status = "failed"
    BY <1>4, <2>1, FailKeeps
  <2>3. IsServed(v, phase, made, history, answer)
    BY <2>2 DEF IsServed, IsGiven, IsWhole, Live
  <2> QED BY <1>2, <1>6, <2>1, <2>3, OneServed
<1>7. CASE phase # "error"
  <2>1. PICK v : v = Finish(w, answer)
    OBVIOUS
  <2>2. phase \in Published
    BY <1>2, <1>5, <1>7 DEF Published
  <2>3. w.stream => Follows(w, made, Fragments)
    BY <1>2, <1>3, <1>5 DEF IsGiven
  <2>4. v.status = "finished" /\ WellFormed(v) /\ IsWhole(v, phase, made, answer)
    BY <1>4, <1>5, <2>1, <2>2, <2>3, FinishIsWhole
  <2>5. IsServed(v, phase, made, history, answer)
    BY <2>4 DEF IsServed, IsGiven, Live
  <2> QED BY <1>2, <1>7, <2>1, <2>5, OneServed
<1> QED BY <1>6, <1>7

\* Giving the recorded answer to a later request keeps it.
LEMMA ReplayIs ==
  ASSUME IInv, NEW c \in Clients, NEW proto \in Protocols, NEW stream \in BOOLEAN,
         Replay(c, proto, stream)
  PROVE  IInv'
<1>1. /\ applied /\ phase # "error" /\ applied' = applied
      /\ SetWriter(c, Finish(NewWriter(proto, stream), answer))
  BY DEF Replay
<1>2. PICK w : w = NewWriter(proto, stream)
  OBVIOUS
<1>3. Unended(w) /\ (w.stream => Follows(w, made, <<>>))
  BY <1>2, NewWriterIs
<1>4. /\ made \in Seq(Kinds) /\ answer \in Seq(BlockSet) /\ AnswerIsMade /\ applied \in BOOLEAN
      /\ phase \in Published /\ phase \notin {"sending", "running"}
  BY <1>1 DEF IInv, TypeOK, Published
<1>5. PICK v : v = Finish(w, answer)
  OBVIOUS
<1>6. v.status = "finished" /\ WellFormed(v) /\ IsWhole(v, phase, made, answer)
  BY <1>3, <1>4, <1>5, FinishIsWhole
<1>7. IsServed(v, phase, made, history, answer)
  BY <1>6 DEF IsServed, IsGiven, Live
<1> QED BY <1>1, <1>2, <1>4, <1>5, <1>7, OneServed

\* A client that leaves keeps it: it is owed nothing.
LEMMA LeaveIs ==
  ASSUME IInv, NEW c \in Clients, Leave(c)
  PROVE  IInv'
<1>1. PICK w : w = writer[c]
  OBVIOUS
<1>2. PICK v : v = [w EXCEPT !.status = "gone"]
  OBVIOUS
<1>3. Live(w) /\ applied' = applied /\ SetWriter(c, v)
  BY <1>1, <1>2 DEF Leave
<1>4. WellFormed(w) /\ applied \in BOOLEAN /\ (applied => phase \notin {"sending", "running"})
  BY <1>1 DEF IInv, IsServed, TypeOK
<1>5. w \in WriterSet /\ Shaped(w) /\ NoEnd(w)
  BY <1>3, <1>4 DEF WellFormed, Live, Over
<1>6. v \in WriterSet /\ Shaped(v) /\ NoEnd(v) /\ v.status = "gone"
  BY <1>2, <1>5, StatusIs
<1>7. IsServed(v, phase, made, history, answer)
  BY <1>6 DEF IsServed, WellFormed, IsGiven, IsWhole, Live
<1> QED BY <1>3, <1>4, <1>7, OneServed

\* Every state is typed, and every response has been given what it should and is well formed.
THEOREM Invariance == Spec => []IInv
<1>1. Init => IInv
  BY InitIs
<1>2. ASSUME IInv, [Next]_vars PROVE IInv'
  <2>1. ASSUME NEW k \in Kinds, Delta(k) PROVE IInv'
    BY <1>2, <2>1, DeltaIs
  <2>2. ASSUME NEW id \in Calls, CallTool(id) PROVE IInv'
    BY <1>2, <2>2, CallToolIs
  <2>3. ASSUME SendReturns PROVE IInv'
    BY <1>2, <2>3, SendReturnsIs
  <2>4. ASSUME FlushToolBatch PROVE IInv'
    BY <1>2, <2>4, FlushToolBatchIs
  <2>5. ASSUME RunFails PROVE IInv'
    BY <1>2, <2>5, RunFailsIs
  <2>6. ASSUME NEW result \in ResultTexts, RunEnds(result) PROVE IInv'
    BY <1>2, <2>6, RunEndsIs
  <2>7. ASSUME NEW c \in Clients, Answer(c) PROVE IInv'
    BY <1>2, <2>7, AnswerActionIs
  <2>8. ASSUME NEW c \in Clients, Leave(c) PROVE IInv'
    BY <1>2, <2>8, LeaveIs
  <2>9. ASSUME NEW c \in Clients, NEW proto \in Protocols, NEW stream \in BOOLEAN,
               Attach(c, proto, stream)
        PROVE  IInv'
    BY <1>2, <2>9, AttachIs
  <2>10. ASSUME NEW c \in Clients, NEW proto \in Protocols, NEW stream \in BOOLEAN,
                Replay(c, proto, stream)
         PROVE  IInv'
    BY <1>2, <2>10, ReplayIs
  <2>11. ASSUME UNCHANGED vars PROVE IInv'
    BY <1>2, <2>11 DEF vars, IInv, TypeOK, AllHeard, AnswerIsMade, Fragments, Made
  <2> QED BY <1>2, <2>1, <2>2, <2>3, <2>4, <2>5, <2>6, <2>7, <2>8, <2>9, <2>10, <2>11 DEF Next
<1> QED BY <1>1, <1>2, PTL DEF Spec

-----------------------------------------------------------------------------
(* The frames nest *)

\* The frames of a response whose blocks nest.
LEMMA BlocksNest ==
  ASSUME NEW w \in WriterSet, Nest(w), NEW i \in 1..w.next
  PROVE  BlockNests(w, i)
<1>1. w.frames \in Seq(FrameSet) /\ DOMAIN w.frames = 1..Len(w.frames)
  BY DEF WriterSet
<1>2. PICK o \in DOMAIN w.frames : Opens(w, i, o)
  BY DEF Nest, Opened
<1> DEFINE starts == At(w, "open", i)
           stops  == At(w, "close", i)
<1>3. \A ev, n : n \in At(w, ev, i) <=> n \in DOMAIN w.frames /\ w.frames[n].ev = ev /\ w.frames[n].i = i
  BY <1>1 DEF At
<1>4. starts = {o}
  BY <1>2, <1>3 DEF Opens, OfABlock
<1>5. \A x, y \in stops : x = y
  <2>1. ASSUME NEW x \in stops, NEW y \in stops PROVE x = y
    <3>1. x <= y /\ y <= x /\ x \in Nat /\ y \in Nat
      BY <1>1, <1>3 DEF Nest, StopsLast, OfABlock
    <3> QED BY <3>1
  <2> QED BY <2>1
<1>6. ASSUME NEW n \in At(w, "delta", i) PROVE (\A a \in starts : a < n) /\ (\A x \in stops : n < x)
  <2>1. n \in DOMAIN w.frames /\ w.frames[n].ev = "delta" /\ w.frames[n].i = i /\ n \in Nat
    BY <1>1, <1>3
  <2>2. o < n
    <3>1. o <= n /\ o # n /\ o \in Nat
      BY <1>1, <1>2, <2>1 DEF Opens, OfABlock
    <3> QED BY <2>1, <3>1
  <2>3. ASSUME NEW x \in stops PROVE n < x
    <3>1. n <= x /\ n # x /\ x \in Nat
      BY <1>1, <1>3, <2>1 DEF Nest, StopsLast, OfABlock
    <3> QED BY <2>1, <3>1
  <2> QED BY <1>4, <2>2, <2>3
<1> HIDE DEF starts, stops
<1>7. Cardinality(starts) = 1
  BY <1>4, FS_Singleton
<1>8. Cardinality(stops) <= 1
  <2>1. CASE stops = {}
    <3>1. Cardinality(stops) = 0
      BY <2>1, FS_EmptySet
    <3> QED BY <3>1
  <2>2. CASE stops # {}
    <3>1. PICK x \in stops : TRUE
      BY <2>2
    <3>2. stops = {x}
      BY <1>5, <3>1
    <3>3. Cardinality(stops) = 1
      BY <3>2, FS_Singleton
    <3> QED BY <3>3
  <2> QED BY <2>1, <2>2
<1> QED BY <1>6, <1>7, <1>8 DEF BlockNests, starts, stops

\* The end of a response that is well formed.
LEMMA EndsAreOnce ==
  ASSUME NEW w, WellFormed(w)
  PROVE  EndsOnce(w)
<1>1. w \in WriterSet /\ Shaped(w)
  BY DEF WellFormed
<1>2. w.frames \in Seq(FrameSet) /\ DOMAIN w.frames = 1..Len(w.frames)
  BY <1>1 DEF WriterSet
<1> DEFINE ends == At(w, "end", 0)
<1>3. \A ev, i, n : n \in At(w, ev, i) <=> n \in DOMAIN w.frames /\ w.frames[n].ev = ev /\ w.frames[n].i = i
  BY <1>2 DEF At
<1>4. CASE NoEnd(w)
  <2>1. ends = {}
    BY <1>3, <1>4 DEF NoEnd
  <2> HIDE DEF ends
  <2>2. Cardinality(ends) = 0
    BY <2>1, FS_EmptySet
  <2> QED BY <2>1, <2>2 DEF EndsOnce, ends
<1>5. CASE ~NoEnd(w)
  <2>1. PICK e \in DOMAIN w.frames : EndsAt(w, e)
    BY <1>5 DEF WellFormed
  <2>2. ASSUME NEW n \in ends PROVE n = e
    <3>1. n \in DOMAIN w.frames /\ w.frames[n].ev = "end" /\ n \in Nat /\ e \in Nat
      BY <1>2, <1>3
    <3>2. ~(n > e) /\ ~(n < e)
      BY <2>1, <3>1 DEF EndsAt
    <3> QED BY <3>1, <3>2
  <2>3. e \in ends
    BY <1>3, <2>1 DEF EndsAt
  <2>4. ASSUME w.proto # "chat", NEW i \in 1..w.next PROVE At(w, "close", i) # {}
    <3>1. Nest(w) /\ w.open = {}
      BY <1>1, <2>1, <2>4 DEF Shaped, EndsAt
    <3>2. Closed(w, i)
      BY <3>1 DEF Nest, Accounted
    <3>3. PICK x \in DOMAIN w.frames : w.frames[x].ev = "close" /\ w.frames[x].i = i
      BY <3>2 DEF Closed
    <3> QED BY <1>3, <3>3
  <2>5. \A n \in 1..Len(w.frames) : n > e => w.frames[n].ev = "error"
    BY <1>2, <2>1 DEF EndsAt
  <2> HIDE DEF ends
  <2>6. ends = {e}
    BY <2>2, <2>3
  <2>7. Cardinality(ends) = 1
    BY <2>6, FS_Singleton
  <2> QED BY <2>4, <2>5, <2>6, <2>7 DEF EndsOnce, ends
<1> QED BY <1>4, <1>5

\* Blocks are numbered without a gap, what belongs to a block is between its start and its
\* one stop, Messages has one block open at a time, and the end comes once, for every number
\* of clients, calls and fragments, however clients join and leave.
THEOREM FramesAlwaysNest == Spec => []FramesNest
<1>1. ASSUME IInv PROVE FramesNest
  <2>1. ASSUME NEW c \in Clients
        PROVE  /\ \A i \in 1..writer[c].next : writer[c].proto # "chat" => BlockNests(writer[c], i)
               /\ writer[c].proto = "messages" => OneAtATime(writer[c])
               /\ EndsOnce(writer[c])
    <3>1. PICK w : w = writer[c]
      OBVIOUS
    <3>2. WellFormed(w) /\ w \in WriterSet /\ Shaped(w)
      BY <1>1, <3>1 DEF IInv, IsServed, WellFormed
    <3>3. ASSUME NEW i \in 1..w.next, w.proto # "chat" PROVE BlockNests(w, i)
      BY <3>2, <3>3, BlocksNest DEF Shaped
    <3>4. ASSUME w.proto = "messages" PROVE OneAtATime(w)
      <4>1. InTurn(w)
        BY <3>2, <3>4 DEF Shaped, Nest
      <4>2. DOMAIN w.frames = 1..Len(w.frames)
        BY <3>2 DEF WriterSet
      <4> QED BY <4>1, <4>2 DEF OneAtATime, InTurn, At
    <3>5. EndsOnce(w)
      BY <3>2, EndsAreOnce
    <3> QED BY <3>1, <3>3, <3>4, <3>5
  <2> QED BY <2>1 DEF FramesNest
<1> QED BY <1>1, Invariance, PTL

-----------------------------------------------------------------------------
(* Answers are whole *)

\* Whenever a client joined, whatever it missed and whether it is streamed to or not, it
\* reads each fragment that the run made and each call once and in order.
THEOREM AnswersAreAlwaysWhole == Spec => []AnswersAreWhole
<1>1. ASSUME IInv PROVE AnswersAreWhole
  <2>1. ASSUME NEW c \in Clients, Finished(c)
        PROVE  LET read == Assembled(writer[c])
               IN  /\ \A k \in Kinds : FragmentsOf(read, k) \in Made(k)
                   /\ \A k \in Kinds \cup {"tool_use"} : FragmentsOf(read, k) = FragmentsOf(answer, k)
    <3>1. IsWhole(writer[c], phase, made, answer) /\ AnswerIsMade /\ answer \in Seq(BlockSet)
      BY <1>1 DEF IInv, TypeOK, IsServed
    <3>2. /\ phase \in Published
          /\ \A k \in Kinds \cup {"tool_use"} : FragmentsOf(Assembled(writer[c]), k) = FragmentsOf(answer, k)
      BY <2>1, <3>1 DEF IsWhole, Finished
    <3>3. \A k \in Kinds : FragmentsOf(answer, k) \in Made(k)
      BY <3>1, <3>2, AnswerParts
    <3> QED BY <3>2, <3>3
  <2> QED BY <2>1 DEF AnswersAreWhole
<1> QED BY <1>1, Invariance, PTL

-----------------------------------------------------------------------------
(* What the parsers make of a request *)

ChatStart    == [messages |-> <<>>, results |-> <<>>]
ChatRead(items) == FoldLeft(ChatItem, ChatStart, items)

\* The reading of no item of Chat Completions,
LEMMA ChatNone == ChatRead(<<>>) = ChatStart
<1>1. ChatFold!Fold(0, ChatStart, <<>>) = ChatRead(<<>>)
  BY DEF ChatRead, ChatStep, FoldLeft, MapThenFoldSet, Max,
         ChatFold!Fold, ChatFold!Greatest
<1>2. ChatFold!Fold(0, ChatStart, <<>>) = ChatStart
  BY NumberInduction, ChatFold!FoldEmpty DEF ChatFold!Induction
<1> QED BY <1>1, <1>2

\* of one item more,
LEMMA ChatMore ==
  ASSUME NEW S, NEW s \in Seq(S), NEW x \in S
  PROVE  ChatRead(Append(s, x)) = ChatItem(ChatRead(s), x)
<1>1. ASSUME NEW t PROVE ChatFold!Fold(0, ChatStart, t) = ChatRead(t)
  BY DEF ChatRead, ChatStep, FoldLeft, MapThenFoldSet, Max,
         ChatFold!Fold, ChatFold!Greatest
<1>2. ChatFold!Fold(0, ChatStart, Append(s, x)) = ChatStep(0, ChatFold!Fold(0, ChatStart, s), x)
  BY NumberInduction, ChatFold!FoldAppend DEF ChatFold!Induction
<1> QED BY <1>1, <1>2 DEF ChatStep

ResponsesStart == [messages |-> <<>>, results |-> <<>>, assistant |-> <<>>]
ResponsesRead(items) == FoldLeft(ResponsesItem, ResponsesStart, items)

\* of no item of Responses,
LEMMA ResponsesNone == ResponsesRead(<<>>) = ResponsesStart
<1>1. ResponsesFold!Fold(0, ResponsesStart, <<>>) = ResponsesRead(<<>>)
  BY DEF ResponsesRead, ResponsesStep, FoldLeft, MapThenFoldSet, Max,
         ResponsesFold!Fold, ResponsesFold!Greatest
<1>2. ResponsesFold!Fold(0, ResponsesStart, <<>>) = ResponsesStart
  BY NumberInduction, ResponsesFold!FoldEmpty DEF ResponsesFold!Induction
<1> QED BY <1>1, <1>2

\* and of one item more.
LEMMA ResponsesMore ==
  ASSUME NEW S, NEW s \in Seq(S), NEW x \in S
  PROVE  ResponsesRead(Append(s, x)) = ResponsesItem(ResponsesRead(s), x)
<1>1. ASSUME NEW t PROVE ResponsesFold!Fold(0, ResponsesStart, t) = ResponsesRead(t)
  BY DEF ResponsesRead, ResponsesStep, FoldLeft, MapThenFoldSet, Max,
         ResponsesFold!Fold, ResponsesFold!Greatest
<1>2. ResponsesFold!Fold(0, ResponsesStart, Append(s, x))
        = ResponsesStep(0, ResponsesFold!Fold(0, ResponsesStart, s), x)
  BY NumberInduction, ResponsesFold!FoldAppend DEF ResponsesFold!Induction
<1> QED BY <1>1, <1>2 DEF ResponsesStep

\* An item after others.
LEMMA AppendIs ==
  ASSUME NEW S, NEW s \in Seq(S), NEW x \in S
  PROVE  s \o <<x>> = Append(s, x)
OBVIOUS

\* A pair and a third.
LEMMA Three ==
  ASSUME NEW a, NEW b, NEW c
  PROVE  <<a, b>> \o <<c>> = <<a, b, c>> /\ Append(<<a, b>>, c) = <<a, b, c>>
<1>1. /\ <<>> \o <<>> = <<>> /\ <<>> \o <<a>> = <<a>> /\ <<a>> \o <<>> = <<a>>
      /\ <<a>> \o <<b>> = <<a, b>> /\ Append(<<>>, a) = <<a>> /\ Append(<<a>>, b) = <<a, b>>
      /\ <<a, b>> \o <<c>> = <<a, b, c>>
      /\ [<<a>> EXCEPT ![1] = b] = <<b>> /\ [<<a, b>> EXCEPT ![2] = c] = <<a, c>>
  BY OneAndTwo
<1>2. <<a, b>> \in Seq({a, b, c}) /\ c \in {a, b, c}
  OBVIOUS
<1>3. PICK s \in Seq({a, b, c}) : s = <<a, b>>
  BY <1>2
<1>4. s \o <<c>> = Append(s, c)
  BY <1>2, AppendIs
<1> QED BY <1>1, <1>3, <1>4

\* Small requests, item by item.
LEMMA FewItems ==
  ASSUME NEW a, NEW b, NEW c
  PROVE  /\ ChatRead(<<a>>) = ChatItem(ChatStart, a)
         /\ ChatRead(<<a, b, c>>) = ChatItem(ChatItem(ChatItem(ChatStart, a), b), c)
         /\ ResponsesRead(<<a>>) = ResponsesItem(ResponsesStart, a)
         /\ ResponsesRead(<<a, b, c>>) = ResponsesItem(ResponsesItem(ResponsesItem(ResponsesStart, a), b), c)
<1>1. PICK S : S = {a, b, c}
  OBVIOUS
<1>2. a \in S /\ b \in S /\ c \in S
  BY <1>1
<1>3. PICK s0 \in Seq(S) : s0 = <<>>
  <2>1. <<>> \in Seq(S)
    OBVIOUS
  <2> QED BY <2>1
<1>4. PICK s1 \in Seq(S) : s1 = Append(s0, a)
  BY <1>2, OneMore
<1>5. PICK s2 \in Seq(S) : s2 = Append(s1, b)
  BY <1>2, OneMore
<1>6. PICK s3 \in Seq(S) : s3 = Append(s2, c)
  BY <1>2, OneMore
<1>7. s1 = <<a>> /\ s2 = <<a, b>>
  <2>1. s1 = <<a>>
    BY <1>3, <1>4, OneAndTwo
  <2>2. Append(<<a>>, b) = <<a, b>>
    BY OneAndTwo
  <2> QED BY <1>5, <2>1, <2>2
<1>8. s3 = <<a, b, c>>
  <2>1. s2 \o <<c>> = Append(s2, c)
    BY <1>2, AppendIs
  <2>2. <<a, b>> \o <<c>> = <<a, b, c>>
    BY Three
  <2> QED BY <1>6, <1>7, <2>1, <2>2
<1>9. /\ ChatRead(s1) = ChatItem(ChatRead(s0), a)
      /\ ResponsesRead(s1) = ResponsesItem(ResponsesRead(s0), a)
  BY <1>2, <1>4, ChatMore, ResponsesMore
<1>10. /\ ChatRead(s2) = ChatItem(ChatRead(s1), b)
       /\ ResponsesRead(s2) = ResponsesItem(ResponsesRead(s1), b)
  BY <1>2, <1>5, ChatMore, ResponsesMore
<1>11. /\ ChatRead(s3) = ChatItem(ChatRead(s2), c)
       /\ ResponsesRead(s3) = ResponsesItem(ResponsesRead(s2), c)
  BY <1>2, <1>6, ChatMore, ResponsesMore
<1> QED BY <1>3, <1>7, <1>8, <1>9, <1>10, <1>11, ChatNone, ResponsesNone

\* The reading of one item and of three, in Chat Completions,
LEMMA FewChatItems ==
  ASSUME NEW a, NEW b, NEW c
  PROVE  /\ ChatRead(<<a>>) = ChatItem(ChatStart, a)
         /\ ChatRead(<<a, b, c>>) = ChatItem(ChatItem(ChatItem(ChatStart, a), b), c)
BY FewItems

\* and in Responses.
LEMMA FewResponsesItems ==
  ASSUME NEW a, NEW b, NEW c
  PROVE  /\ ResponsesRead(<<a>>) = ResponsesItem(ResponsesStart, a)
         /\ ResponsesRead(<<a, b, c>>) = ResponsesItem(ResponsesItem(ResponsesItem(ResponsesStart, a), b), c)
BY FewItems

\* Requests of Messages.
LEMMA FewMessages ==
  ASSUME NEW a, NEW b, NEW c
  PROVE  LET M(i) == Message(IF i.type = "assistant" THEN "assistant" ELSE "user", i.blocks)
         IN  /\ ParseMessages(<<a>>) = <<M(a)>>
             /\ ParseMessages(<<a, b, c>>) = <<M(a), M(b), M(c)>>
<1> DEFINE M(i) == Message(IF i.type = "assistant" THEN "assistant" ELSE "user", i.blocks)
<1>1. ParseMessages(<<a>>) = <<M(a)>>
  <2>1. ParseMessages(<<a>>) = [n \in 1..1 |-> M(<<a>>[n])]
    BY DEF ParseMessages
  <2>2. \A n \in 1..1 : M(<<a>>[n]) = M(a)
    OBVIOUS
  <2> HIDE DEF M
  <2>3. [n \in 1..1 |-> M(<<a>>[n])] = <<M(a)>>
    BY <2>2
  <2> QED BY <2>1, <2>3
<1>2. ParseMessages(<<a, b, c>>) = <<M(a), M(b), M(c)>>
  <2>1. ParseMessages(<<a, b, c>>) = [n \in 1..3 |-> M(<<a, b, c>>[n])]
    BY DEF ParseMessages
  <2> HIDE DEF M
  <2>2. [n \in 1..3 |-> M(<<a, b, c>>[n])] = <<M(a), M(b), M(c)>>
    OBVIOUS
  <2> QED BY <2>1, <2>2
<1> QED BY <1>1, <1>2

-----------------------------------------------------------------------------
(* The keys of turns *)

\* The greatest of a set of indices.
LEMMA GreatestIs ==
  ASSUME NEW T \in SUBSET Nat, NEW m \in T, \A x \in T : x <= m
  PROVE  Max(T) = m
<1>1. \A x \in T : m >= x
  OBVIOUS
<1>2. ASSUME NEW q \in T, \A x \in T : q >= x PROVE q = m
  <2>1. q >= m /\ m >= q /\ q \in Nat /\ m \in Nat
    BY <1>1, <1>2
  <2> QED BY <2>1
<1> QED BY <1>1, <1>2, Zenon DEF Max

\* The last message of a user, when it is the last of all.
LEMMA LastUserIsLast ==
  ASSUME NEW S, NEW ms \in Seq(S), Len(ms) # 0, ms[Len(ms)].role = "user"
  PROVE  LastUser(ms) = Len(ms)
<1> DEFINE I == {i \in 1..Len(ms) : IsUser(ms[i])}
<1>1. Len(ms) \in Nat /\ Len(ms) \in 1..Len(ms)
  OBVIOUS
<1>2. Len(ms) \in I /\ I \subseteq Nat /\ \A x \in I : x <= Len(ms)
  BY <1>1 DEF IsUser
<1>3. LastUser(ms) = IF I # {} THEN Max(I) ELSE 0
  BY DEF LastUser, SelectLastInSeq
<1> HIDE DEF I
<1>4. Max(I) = Len(ms)
  BY <1>2, GreatestIs
<1> QED BY <1>2, <1>3, <1>4

\* A turn is found again when the messages of the next request are those of the first one, its
\* answer and a message more.
LEMMA NextTurnIsFound ==
  ASSUME NEW a, NEW b, NEW c, a.role = "user", c.role = "user", NEW blocks, b = Message("assistant", blocks)
  PROVE  LineageKey(<<a, b, c>>) = NextLineageKey(<<a>>, blocks)
<1>1. b.role = "assistant" /\ b.blocks = blocks
  BY DEF Message
<1> DEFINE S == {a, b, c}
<1>2. /\ <<a, b, c>> \in Seq(S) /\ Len(<<a, b, c>>) = 3 /\ <<a, b, c>>[3] = c /\ <<a, b, c>>[1] = a
      /\ <<a, b, c>>[2] = b /\ <<a>> \in Seq(S) /\ Len(<<a>>) = 1 /\ <<a>>[1] = a
      /\ <<a, b>> \in Seq(S) /\ Len(<<a, b>>) = 2 /\ <<a, b>>[1] = a /\ <<a, b>>[2] = b
  OBVIOUS
<1>11. /\ Len(<<a, b, c>>) # 0 /\ <<a, b, c>>[Len(<<a, b, c>>)].role = "user"
       /\ Len(<<a>>) # 0 /\ <<a>>[Len(<<a>>)].role = "user"
  BY <1>2
<1> HIDE DEF S
<1>3. LastUser(<<a, b, c>>) = 3 /\ LastUser(<<a>>) = 1
  <2>1. PICK s \in Seq(S) : s = <<a, b, c>>
    BY <1>2
  <2>2. LastUser(s) = 3
    BY <1>2, <1>11, <2>1, LastUserIsLast
  <2>3. PICK r \in Seq(S) : r = <<a>>
    BY <1>2
  <2>4. LastUser(r) = 1
    BY <1>2, <1>11, <2>3, LastUserIsLast
  <2> QED BY <2>1, <2>2, <2>3, <2>4
<1>4. SubSeq(<<a, b, c>>, 1, 2) = <<a, b>> /\ SubSeq(<<a>>, 1, 1) = <<a>>
  <2>1. PICK s \in Seq(S) : s = <<a, b, c>>
    BY <1>2
  <2>2. PICK t \in Seq(S) : t = <<a>>
    BY <1>2
  <2>3. PICK r \in Seq(S) : r = <<a, b>>
    BY <1>2
  <2>4. Len(s) = 3 /\ Len(t) = 1 /\ Len(r) = 2 /\ s[1] = r[1] /\ s[2] = r[2]
    BY <1>2, <2>1, <2>2, <2>3
  <2>5. PICK u \in Seq(S) : u = SubSeq(s, 1, 2) /\ Len(u) = 2 /\ u[1] = s[1] /\ u[2] = s[2]
    BY <2>4
  <2>6. PICK v \in Seq(S) : v = SubSeq(t, 1, 1) /\ Len(v) = 1 /\ v[1] = t[1]
    BY <2>4
  <2>7. u = r
    <3>1. \A n \in 1..Len(u) : n = 1 \/ n = 2
      BY <2>5
    <3> QED BY <2>4, <2>5, <3>1, SeqEqual
  <2>8. v = t
    <3>1. \A n \in 1..Len(v) : n = 1
      BY <2>6
    <3> QED BY <2>4, <2>6, <3>1, SeqEqual
  <2> QED BY <2>1, <2>2, <2>3, <2>5, <2>6, <2>7, <2>8
<1>5. Append(<<a>>, b) = <<a, b>>
  BY OneAndTwo
<1>6. ParentOf(<<a, b, c>>, 3) = blocks
  <2> DEFINE I == {i \in 1..Len(<<a, b>>) : <<a, b>>[i].role = "assistant"}
  <2>1. \A i \in 1..2 : i = 1 \/ i = 2
    OBVIOUS
  <2>2. I = {2}
    BY <1>1, <1>2, <2>1
  <2> HIDE DEF I
  <2>3. Max(I) = 2
    <3>1. I \in SUBSET Nat /\ 2 \in I /\ \A x \in I : x <= 2
      BY <2>2
    <3> QED BY <3>1, GreatestIs
  <2>4. SelectLastInSeq(<<a, b>>, LAMBDA m : m.role = "assistant") = IF I # {} THEN Max(I) ELSE 0
    BY DEF SelectLastInSeq, I
  <2>5. SelectLastInSeq(<<a, b>>, LAMBDA m : m.role = "assistant") = 2
    BY <2>2, <2>3, <2>4
  <2>6. ParentOf(<<a, b, c>>, 3)
          = LET n == SelectLastInSeq(<<a, b>>, LAMBDA m : m.role = "assistant")
            IN  IF n = 0 THEN <<>> ELSE <<a, b, c>>[n].blocks
    <3>1. 3 - 1 = 2
      OBVIOUS
    <3> QED BY <1>4, <3>1 DEF ParentOf
  <2> QED BY <1>1, <1>2, <2>5, <2>6
<1>7. TurnIndex(<<a>>) = 1
  <2>1. {n \in 1..Len(<<a>>) : IsUser(<<a>>[n])} = {1}
    BY <1>2 DEF IsUser
  <2>2. Cardinality({1}) = 1
    BY FS_Singleton
  <2> QED BY <2>1, <2>2 DEF TurnIndex
<1>8. TurnIndex(<<a, b, c>>) = 2
  <2>1. \A n \in 1..3 : n = 1 \/ n = 2 \/ n = 3
    OBVIOUS
  <2>2. {n \in 1..Len(<<a, b, c>>) : IsUser(<<a, b, c>>[n])} = {1} \cup {3}
    BY <1>1, <1>2, <2>1 DEF IsUser
  <2>3. Cardinality({1}) = 1 /\ IsFiniteSet({1})
    BY FS_Singleton
  <2>4. Cardinality({1} \cup {3}) = 2
    BY <2>3, FS_AddElement
  <2> QED BY <2>2, <2>4 DEF TurnIndex
<1>12. 3 - 1 = 2 /\ 1 + 1 = 2
  OBVIOUS
<1>9. LineageKey(<<a, b, c>>) = [history |-> <<a, b>>, parent |-> blocks, turnIndex |-> 2]
  BY <1>3, <1>4, <1>6, <1>8, <1>12 DEF LineageKey
<1>10. NextLineageKey(<<a>>, blocks) = [history |-> <<a, b>>, parent |-> blocks, turnIndex |-> 2]
  BY <1>12, <1>3, <1>4, <1>5, <1>7 DEF NextLineageKey
<1> QED BY <1>9, <1>10

-----------------------------------------------------------------------------
(* Requests and messages *)

Words     == Values \cup {Hello, More}
PartSet   == [kind : Kinds \cup {"tool_use", "tool_result"}, of : Seq(Words)]
ItemTypes == {"user", "assistant", "reasoning", "function_call", "tool"}
ItemSet   == [type : ItemTypes, blocks : Seq(PartSet)]
TurnSet   == [role : ItemTypes, blocks : Seq(PartSet)]

\* What is in a request.
LEMMA PartsAre ==
  /\ \A t \in ItemTypes, b \in Seq(PartSet) :
       /\ Item(t, b) \in ItemSet /\ Item(t, b).type = t /\ Item(t, b).blocks = b
       /\ Message(t, b) \in TurnSet /\ Message(t, b).role = t /\ Message(t, b).blocks = b
  /\ Seq(BlockSet) \subseteq Seq(PartSet)
  /\ Said(Hello) \in Seq(PartSet) /\ Said(More) \in Seq(PartSet) /\ Said(More)[1] \in PartSet
  /\ \A id \in Calls : ResultOf(id) \in PartSet
<1>1. BlockSet \subseteq PartSet
  <2>1. Seq(Values) \subseteq Seq(Words)
    <3>1. Values \subseteq Words
      BY DEF Words
    <3> QED BY <3>1, SeqMonotonic
  <2> QED BY <2>1 DEF BlockSet, PartSet
<1>2. ASSUME NEW v \in {Hello, More} PROVE Said(v) \in Seq(PartSet) /\ Said(v)[1] \in PartSet
  <2>1. <<v>> \in Seq(Words)
    BY <1>2 DEF Words
  <2>2. [kind |-> "text", of |-> <<v>>] \in PartSet
    BY <2>1 DEF PartSet, Kinds
  <2> QED BY <2>2 DEF Said
<1>3. ASSUME NEW id \in Calls PROVE ResultOf(id) \in PartSet
  <2>1. <<id>> \in Seq(Words)
    BY <1>3 DEF Words, Values
  <2> QED BY <2>1 DEF PartSet, ResultOf
<1>4. Seq(BlockSet) \subseteq Seq(PartSet)
  BY <1>1, SeqMonotonic
<1>5. ASSUME NEW t \in ItemTypes, NEW b \in Seq(PartSet)
      PROVE  /\ Item(t, b) \in ItemSet /\ Item(t, b).type = t /\ Item(t, b).blocks = b
             /\ Message(t, b) \in TurnSet /\ Message(t, b).role = t /\ Message(t, b).blocks = b
  BY DEF Item, Message, ItemSet, TurnSet
<1> QED BY <1>2, <1>3, <1>4, <1>5

\* A message, if there is something to say.
LEMMA NonEmptyIs ==
  ASSUME NEW t \in ItemTypes, NEW b \in Seq(PartSet)
  PROVE  /\ NonEmpty(t, b) \in Seq(TurnSet)
         /\ b = <<>> => NonEmpty(t, b) = <<>>
         /\ b # <<>> => NonEmpty(t, b) = <<Message(t, b)>>
<1>1. PICK m \in TurnSet : m = Message(t, b)
  BY PartsAre
<1>2. <<m>> \in Seq(TurnSet) /\ <<>> \in Seq(TurnSet)
  OBVIOUS
<1> QED BY <1>1, <1>2 DEF NonEmpty

-----------------------------------------------------------------------------
(* The parser of Chat, item by item *)

ChatSet == [messages : Seq(TurnSet), results : Seq(PartSet)]

\* An item of Chat Completions: results wait for a message, and come before it.
LEMMA ChatItemIs ==
  ASSUME NEW p \in ChatSet, NEW item \in ItemSet
  PROVE  LET q == ChatItem(p, item)
         IN  /\ q \in ChatSet
             /\ item.type = "tool" => q.messages = p.messages /\ q.results = p.results \o item.blocks
             /\ item.type # "tool" =>
                  /\ q.messages = (p.messages \o NonEmpty("user", p.results))
                                    \o <<Message(item.type, item.blocks)>>
                  /\ q.results = <<>>
<1>1. /\ p.messages \in Seq(TurnSet) /\ p.results \in Seq(PartSet)
      /\ item.blocks \in Seq(PartSet) /\ item.type \in ItemTypes
  BY DEF ChatSet, ItemSet
<1>2. PICK rs \in Seq(PartSet) : rs = p.results \o item.blocks
  BY <1>1, Joined
<1>3. CASE item.type = "tool"
  <2>1. ChatItem(p, item) = [p EXCEPT !.results = rs]
    BY <1>2, <1>3 DEF ChatItem
  <2> QED BY <1>2, <1>3, <2>1 DEF ChatSet
<1>4. CASE item.type # "tool"
  <2>1. PICK m \in TurnSet : m = Message(item.type, item.blocks)
    BY <1>1, PartsAre
  <2>2. "user" \in ItemTypes
    BY DEF ItemTypes
  <2>3. PICK u \in Seq(TurnSet) : u = NonEmpty("user", p.results)
    BY <1>1, <2>2, NonEmptyIs
  <2>4. PICK e \in Seq(TurnSet) : e = <<m>>
    <3>1. <<m>> \in Seq(TurnSet)
      OBVIOUS
    <3> QED BY <3>1
  <2>5. PICK a \in Seq(TurnSet) : a = p.messages \o u
    BY <1>1, Joined
  <2>6. PICK b \in Seq(TurnSet) : b = a \o e
    BY Joined
  <2>7. ChatItem(p, item) = [messages |-> b, results |-> <<>>]
    BY <1>4, <2>1, <2>3, <2>4, <2>5, <2>6 DEF ChatItem
  <2>8. <<>> \in Seq(PartSet)
    OBVIOUS
  <2>9. ChatItem(p, item) \in ChatSet /\ ChatItem(p, item).messages = b /\ ChatItem(p, item).results = <<>>
    BY <2>7, <2>8 DEF ChatSet
  <2> QED BY <1>4, <2>1, <2>3, <2>4, <2>5, <2>6, <2>9
<1> QED BY <1>3, <1>4

\* Without results nothing waits for a message.
LEMMA ChatReads ==
  \A items \in Seq(ItemSet) :
    /\ ChatRead(items) \in ChatSet
    /\ (\A n \in DOMAIN items : items[n].type # "tool") => ChatRead(items).results = <<>>
<1> DEFINE NoTools(items) == \A n \in DOMAIN items : items[n].type # "tool"
           T == {items \in Seq(ItemSet) : ChatRead(items) \in ChatSet
                                           /\ (NoTools(items) => ChatRead(items).results = <<>>)}
<1>1. <<>> \in T
  <2>1. <<>> \in Seq(ItemSet) /\ <<>> \in Seq(TurnSet) /\ <<>> \in Seq(PartSet)
    OBVIOUS
  <2>2. ChatStart \in ChatSet /\ ChatStart.results = <<>>
    BY <2>1 DEF ChatStart, ChatSet
  <2> QED BY <2>1, <2>2, ChatNone
<1>2. ASSUME NEW s \in Seq(ItemSet), NEW x \in ItemSet, s \in T
      PROVE  Append(s, x) \in T
  <2>8. /\ Append(s, x) \in Seq(ItemSet) /\ DOMAIN s \subseteq DOMAIN Append(s, x)
        /\ Len(s) + 1 \in DOMAIN Append(s, x) /\ Append(s, x)[Len(s) + 1] = x
    BY OneMore
  <2>1. PICK t \in Seq(ItemSet) :
          t = Append(s, x) /\ DOMAIN s \subseteq DOMAIN t /\ Len(s) + 1 \in DOMAIN t /\ t[Len(s) + 1] = x
    BY <2>8
  <2>2. ChatRead(t) = ChatItem(ChatRead(s), x)
    BY <2>1, ChatMore
  <2>3. PICK p \in ChatSet : p = ChatRead(s)
    BY <1>2
  <2>4. ChatRead(t) \in ChatSet /\ (x.type # "tool" => ChatRead(t).results = <<>>)
    BY <2>2, <2>3, ChatItemIs
  <2>5. NoTools(t) => x.type # "tool"
    BY <2>1
  <2> HIDE DEF NoTools
  <2> QED BY <2>1, <2>4, <2>5
<1> HIDE DEF T
<1>3. Seq(ItemSet) \subseteq T
  BY <1>1, <1>2, SequenceInduction
<1> QED BY <1>3 DEF T

-----------------------------------------------------------------------------
(* The parser of Responses, item by item *)

InputSet == [messages : Seq(TurnSet), results : Seq(PartSet), assistant : Seq(PartSet)]

\* What a flush does.
LEMMA FlushIs ==
  ASSUME NEW p \in InputSet
  PROVE  /\ FlushAssistant(p) \in InputSet /\ FlushAssistant(p).assistant = <<>>
         /\ FlushAssistant(p).messages = p.messages \o NonEmpty("assistant", p.assistant)
         /\ FlushAssistant(p).results = p.results
         /\ FlushResults(p) \in InputSet /\ FlushResults(p).results = <<>>
         /\ FlushResults(p).messages = p.messages \o NonEmpty("user", p.results)
         /\ FlushResults(p).assistant = p.assistant
<1>1. p.messages \in Seq(TurnSet) /\ p.results \in Seq(PartSet) /\ p.assistant \in Seq(PartSet)
  BY DEF InputSet
<1>2. "user" \in ItemTypes /\ "assistant" \in ItemTypes
  BY DEF ItemTypes
<1>3. PICK u \in Seq(TurnSet), a \in Seq(TurnSet) :
        u = NonEmpty("user", p.results) /\ a = NonEmpty("assistant", p.assistant)
  BY <1>1, <1>2, NonEmptyIs
<1>4. PICK x \in Seq(TurnSet), y \in Seq(TurnSet) : x = p.messages \o u /\ y = p.messages \o a
  BY <1>1, Joined
<1>5. PICK e \in Seq(PartSet) : e = <<>>
  <2>1. <<>> \in Seq(PartSet)
    OBVIOUS
  <2> QED BY <2>1
<1>6. FlushResults(p) = [p EXCEPT !.messages = x, !.results = e]
  BY <1>3, <1>4, <1>5 DEF FlushResults
<1>7. FlushAssistant(p) = [p EXCEPT !.messages = y, !.assistant = e]
  BY <1>3, <1>4, <1>5 DEF FlushAssistant
<1>8. PICK v : v = [p EXCEPT !.messages = x, !.results = e]
  OBVIOUS
<1>9. v \in InputSet /\ v.messages = x /\ v.results = e /\ v.assistant = p.assistant
  BY <1>8 DEF InputSet
<1>10. PICK w : w = [p EXCEPT !.messages = y, !.assistant = e]
  OBVIOUS
<1>11. w \in InputSet /\ w.messages = y /\ w.assistant = e /\ w.results = p.results
  BY <1>10 DEF InputSet
<1> QED BY <1>3, <1>4, <1>5, <1>6, <1>7, <1>8, <1>9, <1>10, <1>11

\* An item of Responses: calls wait for the answer's end, results for a message.
LEMMA ResponsesItemIs ==
  ASSUME NEW p \in InputSet, NEW item \in ItemSet
  PROVE  LET q == ResponsesItem(p, item)
         IN  /\ q \in InputSet
             /\ item.type = "tool" =>
                  /\ q.messages = p.messages \o NonEmpty("assistant", p.assistant)
                  /\ q.results = p.results \o item.blocks /\ q.assistant = <<>>
             /\ item.type \in {"reasoning", "function_call"} =>
                  /\ q.messages = p.messages \o NonEmpty("user", p.results)
                  /\ q.results = <<>> /\ q.assistant = p.assistant \o item.blocks
             /\ item.type \in {"user", "assistant"} =>
                  /\ q.messages = Append((p.messages \o NonEmpty("user", p.results))
                                           \o NonEmpty("assistant", p.assistant),
                                         Message(item.type, item.blocks))
                  /\ q.results = <<>> /\ q.assistant = <<>>
<1>1. /\ p.messages \in Seq(TurnSet) /\ p.results \in Seq(PartSet) /\ p.assistant \in Seq(PartSet)
      /\ item.blocks \in Seq(PartSet) /\ item.type \in ItemTypes
  BY DEF InputSet, ItemSet
<1>2. PICK r \in InputSet :
        /\ r = FlushResults(p) /\ r.results = <<>> /\ r.assistant = p.assistant
        /\ r.messages = p.messages \o NonEmpty("user", p.results)
  BY FlushIs
<1>3. PICK a \in InputSet :
        /\ a = FlushAssistant(p) /\ a.assistant = <<>> /\ a.results = p.results
        /\ a.messages = p.messages \o NonEmpty("assistant", p.assistant)
  BY FlushIs
<1>4. PICK b \in InputSet :
        /\ b = FlushAssistant(r) /\ b.assistant = <<>> /\ b.results = r.results
        /\ b.messages = r.messages \o NonEmpty("assistant", r.assistant)
  BY FlushIs
<1>5. CASE item.type = "tool"
  <2>1. PICK rs \in Seq(PartSet) : rs = p.results \o item.blocks
    BY <1>1, Joined
  <2>2. ResponsesItem(p, item) = [a EXCEPT !.results = rs]
    BY <1>3, <1>5, <2>1 DEF ResponsesItem
  <2>3. PICK q : q = [a EXCEPT !.results = rs]
    OBVIOUS
  <2>4. q \in InputSet /\ q.messages = a.messages /\ q.results = rs /\ q.assistant = a.assistant
    BY <2>3 DEF InputSet
  <2> QED BY <1>3, <1>5, <2>1, <2>2, <2>3, <2>4
<1>6. CASE item.type \in {"reasoning", "function_call"}
  <2>1. PICK as \in Seq(PartSet) : as = p.assistant \o item.blocks
    BY <1>1, Joined
  <2>2. ResponsesItem(p, item) = [r EXCEPT !.assistant = as]
    BY <1>2, <1>6, <2>1 DEF ResponsesItem
  <2>3. PICK q : q = [r EXCEPT !.assistant = as]
    OBVIOUS
  <2>4. q \in InputSet /\ q.messages = r.messages /\ q.results = r.results /\ q.assistant = as
    BY <2>3 DEF InputSet
  <2> QED BY <1>2, <1>6, <2>1, <2>2, <2>3, <2>4
<1>7. CASE item.type \in {"user", "assistant"}
  <2>1. PICK m \in TurnSet : m = Message(item.type, item.blocks)
    BY <1>1, PartsAre
  <2>2. b.messages \in Seq(TurnSet)
    BY DEF InputSet
  <2>3. PICK ms \in Seq(TurnSet) : ms = Append(b.messages, m)
    BY <2>2, OneMore
  <2>4. ResponsesItem(p, item) = [b EXCEPT !.messages = ms]
    BY <1>2, <1>4, <1>7, <2>1, <2>3 DEF ResponsesItem
  <2>5. PICK q : q = [b EXCEPT !.messages = ms]
    OBVIOUS
  <2>6. q \in InputSet /\ q.messages = ms /\ q.results = b.results /\ q.assistant = b.assistant
    BY <2>5 DEF InputSet
  <2> QED BY <1>2, <1>4, <1>7, <2>1, <2>3, <2>4, <2>5, <2>6
<1> QED BY <1>1, <1>5, <1>6, <1>7 DEF ItemTypes

\* Without results no result waits for a message.
LEMMA ResponsesReads ==
  \A items \in Seq(ItemSet) :
    /\ ResponsesRead(items) \in InputSet
    /\ (\A n \in DOMAIN items : items[n].type # "tool") => ResponsesRead(items).results = <<>>
<1> DEFINE NoTools(items) == \A n \in DOMAIN items : items[n].type # "tool"
           T == {items \in Seq(ItemSet) : ResponsesRead(items) \in InputSet
                                           /\ (NoTools(items) => ResponsesRead(items).results = <<>>)}
<1>1. <<>> \in T
  <2>1. <<>> \in Seq(ItemSet) /\ <<>> \in Seq(TurnSet) /\ <<>> \in Seq(PartSet)
    OBVIOUS
  <2>2. ResponsesStart \in InputSet /\ ResponsesStart.results = <<>>
    BY <2>1 DEF ResponsesStart, InputSet
  <2> QED BY <2>1, <2>2, ResponsesNone
<1>2. ASSUME NEW s \in Seq(ItemSet), NEW x \in ItemSet, s \in T
      PROVE  Append(s, x) \in T
  <2>8. /\ Append(s, x) \in Seq(ItemSet) /\ DOMAIN s \subseteq DOMAIN Append(s, x)
        /\ Len(s) + 1 \in DOMAIN Append(s, x) /\ Append(s, x)[Len(s) + 1] = x
    BY OneMore
  <2>1. PICK t \in Seq(ItemSet) :
          t = Append(s, x) /\ DOMAIN s \subseteq DOMAIN t /\ Len(s) + 1 \in DOMAIN t /\ t[Len(s) + 1] = x
    BY <2>8
  <2>2. ResponsesRead(t) = ResponsesItem(ResponsesRead(s), x)
    BY <2>1, ResponsesMore
  <2>3. PICK p \in InputSet : p = ResponsesRead(s)
    BY <1>2
  <2>4. PICK q \in InputSet :
          /\ q = ResponsesItem(p, x)
          /\ x.type \in {"reasoning", "function_call"} => q.results = <<>>
          /\ x.type \in {"user", "assistant"} => q.results = <<>>
    BY ResponsesItemIs
  <2>5. x.type \in ItemTypes
    BY DEF ItemSet
  <2>6. x.type # "tool" => q.results = <<>>
    BY <2>4, <2>5 DEF ItemTypes
  <2>7. NoTools(t) => x.type # "tool"
    BY <2>1
  <2> HIDE DEF NoTools
  <2> QED BY <2>1, <2>2, <2>3, <2>4, <2>6, <2>7
<1> HIDE DEF T
<1>3. Seq(ItemSet) \subseteq T
  BY <1>1, <1>2, SequenceInduction
<1> QED BY <1>3 DEF T

-----------------------------------------------------------------------------
(* Tool results in a request *)

\* The results of calls as blocks of one message, and as items.
Marks(r)     == [n \in 1..Len(r) |-> ResultOf(r[n])]
ToolItems(r) == [n \in 1..Len(r) |-> Item("tool", <<ResultOf(r[n])>>)]

\* A sequence mapped by a function.
LEMMA Mapped ==
  ASSUME NEW A, NEW B, NEW f \in [A -> B]
  PROVE  \A r \in Seq(A) :
           LET M(s) == [n \in 1..Len(s) |-> f[s[n]]]
           IN  /\ M(r) \in Seq(B) /\ Len(M(r)) = Len(r) /\ Len(r) \in Nat
               /\ \A n \in 1..Len(r) : M(r)[n] = f[r[n]]
               /\ \A x \in A : M(Append(r, x)) = Append(M(r), f[x])
<1> DEFINE M(s) == [n \in 1..Len(s) |-> f[s[n]]]
<1>1. ASSUME NEW r \in Seq(A)
      PROVE  /\ M(r) \in Seq(B) /\ Len(M(r)) = Len(r) /\ Len(r) \in Nat
             /\ \A n \in 1..Len(r) : M(r)[n] = f[r[n]]
  <2>1. \A n \in 1..Len(r) : f[r[n]] \in B
    OBVIOUS
  <2>2. Len(r) \in Nat
    OBVIOUS
  <2> QED BY <2>1, <2>2
<1>2. ASSUME NEW r \in Seq(A), NEW x \in A
      PROVE  M(Append(r, x)) = Append(M(r), f[x])
  <2>1. PICK s \in Seq(A) : s = Append(r, x)
    BY OneMore
  <2>2. Len(r) \in Nat /\ Len(s) = Len(r) + 1 /\ s[Len(r) + 1] = x /\ \A n \in 1..Len(r) : s[n] = r[n]
    BY <2>1
  <2>3. PICK m \in Seq(B) : m = M(r) /\ Len(m) = Len(r) /\ \A n \in 1..Len(r) : m[n] = f[r[n]]
    BY <1>1
  <2>4. PICK k \in Seq(B) : k = M(s) /\ Len(k) = Len(s) /\ \A n \in 1..Len(s) : k[n] = f[s[n]]
    BY <1>1
  <2> HIDE DEF M
  <2>5. f[x] \in B
    OBVIOUS
  <2>6. PICK a \in Seq(B) : a = Append(m, f[x])
    BY <2>5, OneMore
  <2>7. Len(a) = Len(r) + 1 /\ a[Len(r) + 1] = f[x] /\ \A n \in 1..Len(r) : a[n] = m[n]
    BY <2>2, <2>3, <2>5, <2>6
  <2>8. \A n \in 1..Len(k) : n = Len(r) + 1 \/ n \in 1..Len(r)
    BY <2>2, <2>4
  <2>9. Len(k) = Len(a) /\ \A n \in 1..Len(k) : k[n] = a[n]
    BY <2>2, <2>3, <2>4, <2>7, <2>8
  <2>10. k = a
    BY <2>9, SeqEqual
  <2> QED BY <2>1, <2>3, <2>4, <2>6, <2>10
<1> QED BY <1>1, <1>2

\* A sequence after another, and one element more.
LEMMA ConcatAppend ==
  ASSUME NEW S, NEW s \in Seq(S), NEW t \in Seq(S), NEW x \in S
  PROVE  s \o Append(t, x) = Append(s \o t, x) /\ s \o <<>> = s
<1>1. PICK e \in Seq(S) : e = <<x>>
  <2>1. <<x>> \in Seq(S)
    OBVIOUS
  <2> QED BY <2>1
<1>2. PICK u \in Seq(S) : u = s \o t
  BY Joined
<1>3. t \o e = Append(t, x) /\ u \o e = Append(u, x)
  BY <1>1, AppendIs
<1>4. (s \o t) \o e = s \o (t \o e)
  BY ConcatAssociative
<1>5. s \o <<>> = s
  BY ConcatEmptySeq
<1> QED BY <1>2, <1>3, <1>4, <1>5

\* The results of calls, one for each call and in the same order,
LEMMA MarksAre ==
  \A r \in Seq(Calls) :
    /\ Marks(r) \in Seq(PartSet) /\ Len(Marks(r)) = Len(r) /\ Len(r) \in Nat
    /\ \A n \in 1..Len(r) : Marks(r)[n] = ResultOf(r[n])
    /\ \A id \in Calls : Marks(Append(r, id)) = Append(Marks(r), ResultOf(id))
<1> DEFINE f == [id \in Calls |-> ResultOf(id)]
<1>1. f \in [Calls -> PartSet] /\ \A id \in Calls : f[id] = ResultOf(id)
  BY PartsAre
<1>2. ASSUME NEW r \in Seq(Calls) PROVE Marks(r) = [n \in 1..Len(r) |-> f[r[n]]]
  <2>1. \A n \in 1..Len(r) : r[n] \in Calls
    OBVIOUS
  <2>2. \A n \in 1..Len(r) : f[r[n]] = ResultOf(r[n])
    BY <1>1, <2>1
  <2> HIDE DEF f
  <2> QED BY <2>2 DEF Marks
<1> HIDE DEF f
<1>3. ASSUME NEW r \in Seq(Calls), NEW id \in Calls
      PROVE  Marks(Append(r, id)) = Append(Marks(r), ResultOf(id))
  <2>1. PICK s \in Seq(Calls) : s = Append(r, id)
    BY OneMore
  <2>2. [n \in 1..Len(Append(r, id)) |-> f[Append(r, id)[n]]]
          = Append([n \in 1..Len(r) |-> f[r[n]]], f[id])
    BY <1>1, Mapped
  <2>3. Marks(s) = [n \in 1..Len(s) |-> f[s[n]]] /\ Marks(r) = [n \in 1..Len(r) |-> f[r[n]]]
    BY <1>2
  <2> QED BY <1>1, <2>1, <2>2, <2>3
<1>4. ASSUME NEW r \in Seq(Calls)
      PROVE  /\ Marks(r) \in Seq(PartSet) /\ Len(Marks(r)) = Len(r) /\ Len(r) \in Nat
             /\ \A n \in 1..Len(r) : Marks(r)[n] = ResultOf(r[n])
  <2>1. \A n \in 1..Len(r) : r[n] \in Calls
    OBVIOUS
  <2>2. \A n \in 1..Len(r) : ResultOf(r[n]) \in PartSet
    BY <2>1, PartsAre
  <2>3. Len(r) \in Nat
    OBVIOUS
  <2> QED BY <2>2, <2>3 DEF Marks
<1> QED BY <1>3, <1>4

\* and the items that bring them, one by one.
LEMMA ToolItemsAre ==
  \A r \in Seq(Calls) :
    /\ ToolItems(r) \in Seq(ItemSet)
    /\ \A id \in Calls : ToolItems(Append(r, id)) = Append(ToolItems(r), Item("tool", <<ResultOf(id)>>))
<1> DEFINE f == [id \in Calls |-> Item("tool", <<ResultOf(id)>>)]
<1>1. f \in [Calls -> ItemSet] /\ \A id \in Calls : f[id] = Item("tool", <<ResultOf(id)>>)
  <2>1. ASSUME NEW id \in Calls PROVE Item("tool", <<ResultOf(id)>>) \in ItemSet
    <3>1. <<ResultOf(id)>> \in Seq(PartSet)
      BY PartsAre
    <3>2. "tool" \in ItemTypes
      BY DEF ItemTypes
    <3> QED BY <3>1, <3>2, PartsAre
  <2> QED BY <2>1
<1>2. ASSUME NEW r \in Seq(Calls) PROVE ToolItems(r) = [n \in 1..Len(r) |-> f[r[n]]]
  <2>1. \A n \in 1..Len(r) : r[n] \in Calls
    OBVIOUS
  <2>2. \A n \in 1..Len(r) : f[r[n]] = Item("tool", <<ResultOf(r[n])>>)
    BY <1>1, <2>1
  <2> HIDE DEF f
  <2> QED BY <2>2 DEF ToolItems
<1> HIDE DEF f
<1>3. ASSUME NEW r \in Seq(Calls), NEW id \in Calls
      PROVE  ToolItems(Append(r, id)) = Append(ToolItems(r), Item("tool", <<ResultOf(id)>>))
  <2>1. PICK s \in Seq(Calls) : s = Append(r, id)
    BY OneMore
  <2>2. [n \in 1..Len(Append(r, id)) |-> f[Append(r, id)[n]]]
          = Append([n \in 1..Len(r) |-> f[r[n]]], f[id])
    BY <1>1, Mapped
  <2>3. ToolItems(s) = [n \in 1..Len(s) |-> f[s[n]]] /\ ToolItems(r) = [n \in 1..Len(r) |-> f[r[n]]]
    BY <1>2
  <2> QED BY <1>1, <2>1, <2>2, <2>3
<1>4. ASSUME NEW r \in Seq(Calls) PROVE ToolItems(r) \in Seq(ItemSet)
  <2>1. [n \in 1..Len(r) |-> f[r[n]]] \in Seq(ItemSet)
    BY <1>1, Mapped
  <2> QED BY <1>2, <2>1
<1> QED BY <1>3, <1>4

\* Results at the end of a request are gathered.
LEMMA ChatTools ==
  ASSUME NEW pre \in Seq(ItemSet), ChatRead(pre).results = <<>>
  PROVE  \A r \in Seq(Calls) :
           LET p == ChatRead(pre \o ToolItems(r)) IN p \in ChatSet /\ p.results = Marks(r)
<1> DEFINE Now(r) == ChatRead(pre \o ToolItems(r))
           T == {r \in Seq(Calls) : Now(r) \in ChatSet /\ Now(r).results = Marks(r)}
<1>1. <<>> \in T
  <2>1. ToolItems(<<>>) = <<>> /\ Marks(<<>>) = <<>> /\ <<>> \in Seq(Calls)
    BY DEF ToolItems, Marks
  <2>2. pre \o <<>> = pre
    BY ConcatEmptySeq
  <2>3. ChatRead(pre) \in ChatSet
    BY ChatReads
  <2> QED BY <2>1, <2>2, <2>3
<1>2. ASSUME NEW r \in Seq(Calls), NEW id \in Calls, r \in T
      PROVE  Append(r, id) \in T
  <2>1. PICK part \in PartSet : part = ResultOf(id)
    BY PartsAre
  <2>2. PICK i \in ItemSet : i = Item("tool", <<part>>) /\ i.type = "tool" /\ i.blocks = <<part>>
    <3>1. "tool" \in ItemTypes /\ <<part>> \in Seq(PartSet)
      BY DEF ItemTypes
    <3> QED BY <3>1, PartsAre
  <2>3. PICK t \in Seq(ItemSet) : t = ToolItems(r) /\ ToolItems(Append(r, id)) = Append(t, i)
    BY <2>1, <2>2, ToolItemsAre
  <2>4. PICK s \in Seq(ItemSet) : s = pre \o t
    BY Joined
  <2>5. pre \o Append(t, i) = Append(s, i)
    BY <2>4, ConcatAppend
  <2>6. PICK p \in ChatSet : p = ChatRead(s) /\ p.results = Marks(r)
    BY <1>2, <2>3, <2>4
  <2>7. PICK q \in ChatSet : q = ChatItem(p, i) /\ q.results = p.results \o i.blocks
    BY <2>2, ChatItemIs
  <2>8. ChatRead(Append(s, i)) = q
    BY <2>6, <2>7, ChatMore
  <2>9. Marks(r) \in Seq(PartSet) /\ Marks(Append(r, id)) = Append(Marks(r), part)
    BY <2>1, MarksAre
  <2>10. Marks(r) \o <<part>> = Append(Marks(r), part)
    BY <2>9, AppendIs
  <2>11. Append(r, id) \in Seq(Calls)
    BY OneMore
  <2> QED BY <2>2, <2>3, <2>5, <2>6, <2>7, <2>8, <2>9, <2>10, <2>11
<1> HIDE DEF T
<1>3. Seq(Calls) \subseteq T
  BY <1>1, <1>2, SequenceInduction
<1> QED BY <1>3 DEF T

\* Results at the end of a request of Responses wait together, and close the answer before.
LEMMA ResponsesTools ==
  ASSUME NEW pre \in Seq(ItemSet), ResponsesRead(pre).results = <<>>
  PROVE  \A r \in Seq(Calls) :
           LET p == ResponsesRead(pre \o ToolItems(r))
           IN  p \in InputSet /\ p.results = Marks(r) /\ (r # <<>> => p.assistant = <<>>)
<1> DEFINE Now(r) == ResponsesRead(pre \o ToolItems(r))
           T == {r \in Seq(Calls) : Now(r) \in InputSet /\ Now(r).results = Marks(r)
                                     /\ (r # <<>> => Now(r).assistant = <<>>)}
<1>1. <<>> \in T
  <2>1. ToolItems(<<>>) = <<>> /\ Marks(<<>>) = <<>> /\ <<>> \in Seq(Calls)
    BY DEF ToolItems, Marks
  <2>2. pre \o <<>> = pre
    BY ConcatEmptySeq
  <2>3. ResponsesRead(pre) \in InputSet
    BY ResponsesReads
  <2> QED BY <2>1, <2>2, <2>3
<1>2. ASSUME NEW r \in Seq(Calls), NEW id \in Calls, r \in T
      PROVE  Append(r, id) \in T
  <2>1. PICK part \in PartSet : part = ResultOf(id)
    BY PartsAre
  <2>2. PICK i \in ItemSet : i = Item("tool", <<part>>) /\ i.type = "tool" /\ i.blocks = <<part>>
    <3>1. "tool" \in ItemTypes /\ <<part>> \in Seq(PartSet)
      BY DEF ItemTypes
    <3> QED BY <3>1, PartsAre
  <2>3. PICK t \in Seq(ItemSet) : t = ToolItems(r) /\ ToolItems(Append(r, id)) = Append(t, i)
    BY <2>1, <2>2, ToolItemsAre
  <2>4. PICK s \in Seq(ItemSet) : s = pre \o t
    BY Joined
  <2>5. pre \o Append(t, i) = Append(s, i)
    BY <2>4, ConcatAppend
  <2>6. PICK p \in InputSet : p = ResponsesRead(s) /\ p.results = Marks(r)
    BY <1>2, <2>3, <2>4
  <2>7. PICK q \in InputSet : q = ResponsesItem(p, i) /\ q.results = p.results \o i.blocks /\ q.assistant = <<>>
    BY <2>2, ResponsesItemIs
  <2>8. ResponsesRead(Append(s, i)) = q
    BY <2>6, <2>7, ResponsesMore
  <2>9. Marks(r) \in Seq(PartSet) /\ Marks(Append(r, id)) = Append(Marks(r), part)
    BY <2>1, MarksAre
  <2>10. Marks(r) \o <<part>> = Append(Marks(r), part)
    BY <2>9, AppendIs
  <2>11. Append(r, id) \in Seq(Calls)
    BY OneMore
  <2> QED BY <2>2, <2>3, <2>5, <2>6, <2>7, <2>8, <2>9, <2>10, <2>11
<1> HIDE DEF T
<1>3. Seq(Calls) \subseteq T
  BY <1>1, <1>2, SequenceInduction
<1> QED BY <1>3 DEF T

-----------------------------------------------------------------------------
(* The last message of a request *)

\* A message that comes last is parsed to the last message.
LEMMA LastTurn ==
  ASSUME NEW proto \in Protocols, NEW items \in Seq(ItemSet), NEW x \in ItemSet, x.type = "user"
  PROVE  \E ms \in Seq(TurnSet) : Parse(proto, Append(items, x)) = Append(ms, Message("user", x.blocks))
<1>1. PICK m \in TurnSet : m = Message("user", x.blocks)
  <2>1. "user" \in ItemTypes /\ x.blocks \in Seq(PartSet)
    BY DEF ItemTypes, ItemSet
  <2> QED BY <2>1, PartsAre
<1>2. CASE proto = "messages"
  <2> DEFINE F(i) == Message(IF i.type = "assistant" THEN "assistant" ELSE "user", i.blocks)
             f == [i \in ItemSet |-> F(i)]
  <2>1. ASSUME NEW i \in ItemSet PROVE F(i) \in TurnSet
    <3>1. "user" \in ItemTypes /\ "assistant" \in ItemTypes /\ i.blocks \in Seq(PartSet)
      BY DEF ItemTypes, ItemSet
    <3>2. \A t \in ItemTypes : Message(t, i.blocks) \in TurnSet
      BY <3>1, PartsAre
    <3> QED BY <3>1, <3>2
  <2>2. F(x) = m
    BY <1>1
  <2> HIDE DEF F
  <2>3. f \in [ItemSet -> TurnSet] /\ \A i \in ItemSet : f[i] = F(i)
    BY <2>1
  <2> HIDE DEF f
  <2>4. ASSUME NEW s \in Seq(ItemSet) PROVE ParseMessages(s) = [n \in 1..Len(s) |-> f[s[n]]]
    <3>1. ParseMessages(s) = [n \in 1..Len(s) |-> F(s[n])]
      BY DEF ParseMessages, F
    <3>2. \A n \in 1..Len(s) : s[n] \in ItemSet
      OBVIOUS
    <3>3. \A n \in 1..Len(s) : F(s[n]) = f[s[n]]
      BY <2>3, <3>2
    <3> QED BY <3>1, <3>3
  <2>5. PICK s \in Seq(ItemSet) : s = Append(items, x)
    BY OneMore
  <2>6. /\ [n \in 1..Len(items) |-> f[items[n]]] \in Seq(TurnSet)
        /\ [n \in 1..Len(Append(items, x)) |-> f[Append(items, x)[n]]]
             = Append([n \in 1..Len(items) |-> f[items[n]]], f[x])
    BY <2>3, Mapped
  <2>7. ParseMessages(s) = [n \in 1..Len(s) |-> f[s[n]]]
    BY <2>4
  <2>8. Parse(proto, s) = ParseMessages(s)
    BY <1>2 DEF Parse
  <2>9. f[x] = m
    BY <2>2, <2>3
  <2>10. PICK ms \in Seq(TurnSet) : ms = [n \in 1..Len(items) |-> f[items[n]]]
    BY <2>6
  <2>11. Parse(proto, Append(items, x)) = Append(ms, m)
    BY <2>5, <2>6, <2>7, <2>8, <2>9, <2>10
  <2> QED BY <1>1, <2>11
<1>3. CASE proto = "chat"
  <2>1. PICK p \in ChatSet : p = ChatRead(items)
    BY ChatReads
  <2>2. PICK q \in ChatSet :
          /\ q = ChatItem(p, x) /\ q.results = <<>>
          /\ q.messages = (p.messages \o NonEmpty("user", p.results)) \o <<Message(x.type, x.blocks)>>
    BY ChatItemIs
  <2>3. ChatRead(Append(items, x)) = q
    BY <2>1, <2>2, ChatMore
  <2>4. p.messages \in Seq(TurnSet) /\ p.results \in Seq(PartSet) /\ q.messages \in Seq(TurnSet)
        /\ "user" \in ItemTypes
    BY DEF ChatSet, ItemTypes
  <2>5. PICK u \in Seq(TurnSet) : u = NonEmpty("user", p.results)
    BY <2>4, NonEmptyIs
  <2>6. PICK ms \in Seq(TurnSet) : ms = p.messages \o u
    BY <2>4, Joined
  <2>7. ms \o <<m>> = Append(ms, m)
    BY AppendIs
  <2>8. q.messages \o <<>> = q.messages
    BY <2>4, ConcatEmptySeq
  <2>9. NonEmpty("user", q.results) = <<>>
    BY <2>2 DEF NonEmpty
  <2>10. Parse(proto, Append(items, x)) = q.messages \o NonEmpty("user", q.results)
    BY <1>3, <2>3 DEF Parse, ParseChat, ChatRead, ChatStart
  <2>11. Parse(proto, Append(items, x)) = Append(ms, m)
    BY <1>1, <2>2, <2>5, <2>6, <2>7, <2>8, <2>9, <2>10
  <2> QED BY <1>1, <2>11
<1>4. CASE proto = "responses"
  <2>1. PICK p \in InputSet : p = ResponsesRead(items)
    BY ResponsesReads
  <2>2. PICK q \in InputSet :
          /\ q = ResponsesItem(p, x) /\ q.results = <<>> /\ q.assistant = <<>>
          /\ q.messages = Append((p.messages \o NonEmpty("user", p.results))
                                   \o NonEmpty("assistant", p.assistant), Message(x.type, x.blocks))
    BY ResponsesItemIs
  <2>3. ResponsesRead(Append(items, x)) = q
    BY <2>1, <2>2, ResponsesMore
  <2>4. /\ p.messages \in Seq(TurnSet) /\ p.results \in Seq(PartSet) /\ p.assistant \in Seq(PartSet)
        /\ q.messages \in Seq(TurnSet) /\ "user" \in ItemTypes /\ "assistant" \in ItemTypes
    BY DEF InputSet, ItemTypes
  <2>5. PICK u \in Seq(TurnSet), a \in Seq(TurnSet) :
          u = NonEmpty("user", p.results) /\ a = NonEmpty("assistant", p.assistant)
    BY <2>4, NonEmptyIs
  <2>6. PICK l \in Seq(TurnSet) : l = p.messages \o u
    BY <2>4, Joined
  <2>7. PICK ms \in Seq(TurnSet) : ms = l \o a
    BY Joined
  <2>8. q.messages \o <<>> = q.messages
    BY <2>4, ConcatEmptySeq
  <2>9. NonEmpty("user", q.results) = <<>> /\ NonEmpty("assistant", q.assistant) = <<>>
    BY <2>2 DEF NonEmpty
  <2>10. PICK v \in InputSet : v = FlushResults(q) /\ v.messages = q.messages /\ v.assistant = <<>>
    <3>1. /\ FlushResults(q) \in InputSet /\ FlushResults(q).assistant = q.assistant
          /\ FlushResults(q).messages = q.messages \o NonEmpty("user", q.results)
      BY FlushIs
    <3> QED BY <2>2, <2>8, <2>9, <3>1
  <2>11. FlushAssistant(v).messages = q.messages
    <3>1. FlushAssistant(v).messages = v.messages \o NonEmpty("assistant", v.assistant)
      BY FlushIs
    <3> QED BY <2>2, <2>8, <2>9, <2>10, <3>1
  <2>12. Parse(proto, Append(items, x)) = q.messages
    BY <1>4, <2>3, <2>10, <2>11 DEF Parse, ParseResponses, ResponsesRead, ResponsesStart
  <2>13. Parse(proto, Append(items, x)) = Append(ms, m)
    BY <1>1, <2>2, <2>5, <2>6, <2>7, <2>12
  <2> QED BY <1>1, <2>13
<1> QED BY <1>2, <1>3, <1>4 DEF Protocols

\* So are the results that come last.
LEMMA LastResults ==
  ASSUME NEW proto \in {"chat", "responses"}, NEW pre \in Seq(ItemSet),
         \A n \in DOMAIN pre : pre[n].type # "tool", NEW r \in Seq(Calls), r # <<>>
  PROVE  \E ms \in Seq(TurnSet) : Parse(proto, pre \o ToolItems(r)) = Append(ms, Message("user", Marks(r)))
<1>1. PICK rs \in Seq(PartSet) : rs = Marks(r) /\ rs # <<>>
  <2>1. Marks(r) \in Seq(PartSet) /\ Len(Marks(r)) = Len(r)
    BY MarksAre
  <2>2. Len(r) # 0
    OBVIOUS
  <2> QED BY <2>1, <2>2
<1>2. "user" \in ItemTypes /\ "assistant" \in ItemTypes
  BY DEF ItemTypes
<1>3. PICK m \in TurnSet : m = Message("user", rs)
  BY <1>2, PartsAre
<1>4. NonEmpty("user", rs) = <<m>>
  BY <1>1, <1>3 DEF NonEmpty
<1>5. CASE proto = "chat"
  <2>1. ChatRead(pre).results = <<>>
    BY ChatReads
  <2>2. PICK p \in ChatSet : p = ChatRead(pre \o ToolItems(r)) /\ p.results = rs
    BY <1>1, <2>1, ChatTools
  <2>3. PICK ms \in Seq(TurnSet) : ms = p.messages
    BY DEF ChatSet
  <2>4. ms \o <<m>> = Append(ms, m)
    BY AppendIs
  <2>5. Parse(proto, pre \o ToolItems(r)) = ms \o NonEmpty("user", rs)
    BY <1>5, <2>2, <2>3 DEF Parse, ParseChat, ChatRead, ChatStart
  <2> QED BY <1>1, <1>3, <1>4, <2>4, <2>5
<1>6. CASE proto = "responses"
  <2>1. ResponsesRead(pre).results = <<>>
    BY ResponsesReads
  <2>2. PICK p \in InputSet : p = ResponsesRead(pre \o ToolItems(r)) /\ p.results = rs /\ p.assistant = <<>>
    BY <1>1, <2>1, ResponsesTools
  <2>3. PICK ms \in Seq(TurnSet) : ms = p.messages
    BY DEF InputSet
  <2>4. ms \o <<m>> = Append(ms, m)
    BY AppendIs
  <2>5. PICK q \in InputSet : q = FlushResults(p) /\ q.messages = Append(ms, m) /\ q.assistant = <<>>
    <3>1. /\ FlushResults(p) \in InputSet /\ FlushResults(p).assistant = p.assistant
          /\ FlushResults(p).messages = p.messages \o NonEmpty("user", p.results)
      BY FlushIs
    <3> QED BY <1>4, <2>2, <2>3, <2>4, <3>1
  <2>6. FlushAssistant(q).messages = q.messages \o NonEmpty("assistant", q.assistant)
    BY FlushIs
  <2>7. NonEmpty("assistant", q.assistant) = <<>>
    BY <2>5 DEF NonEmpty
  <2>8. q.messages \o <<>> = q.messages
    <3>1. q.messages \in Seq(TurnSet)
      BY DEF InputSet
    <3> QED BY <3>1, ConcatEmptySeq
  <2>9. Parse(proto, pre \o ToolItems(r)) = FlushAssistant(q).messages
    BY <1>6, <2>2, <2>5 DEF Parse, ParseResponses, ResponsesRead, ResponsesStart
  <2> QED BY <1>1, <1>3, <2>5, <2>6, <2>7, <2>8, <2>9
<1> QED BY <1>5, <1>6

\* What counts is the last message, when it is a user's.
LEMMA ContinuationIs ==
  ASSUME NEW proto \in Protocols, NEW ms \in Seq(TurnSet), NEW m \in TurnSet, m.role = "user"
  PROVE  Continuation(proto, Append(ms, m)) = ContinuationOf(m)
<1>1. PICK t \in Seq(TurnSet) : t = Append(ms, m)
  BY OneMore
<1>2. Len(t) # 0 /\ t[Len(t)] = m
  BY <1>1
<1>3. LastUser(t) = Len(t)
  BY <1>2, LastUserIsLast
<1>4. Continuation(proto, t) = ContinuationOf(m)
  BY <1>2, <1>3 DEF Continuation, IsUser
<1> QED BY <1>1, <1>4

\* Results only, a text only, and results with a text beside them.
LEMMA ContinuationOfResults ==
  ASSUME NEW r \in Seq(Calls), r # <<>>
  PROVE  /\ ContinuationOf(Message("user", Marks(r))) = r
         /\ ContinuationOf(Message("user", Said(More))) = Nothing
         /\ ContinuationOf(Message("user", Append(Marks(r), Said(More)[1]))) = Rejected
<1>1. \A id : ResultOf(id).kind = "tool_result" /\ ResultOf(id).of[1] = id
  BY DEF ResultOf
<1>2. Len(r) \in Nat /\ Len(r) > 0
  OBVIOUS
<1>3. PICK rs \in Seq(PartSet) :
        /\ rs = Marks(r) /\ DOMAIN rs = 1..Len(r)
        /\ \A n \in 1..Len(r) : rs[n].kind = "tool_result" /\ rs[n].of[1] = r[n]
  <2>1. /\ Marks(r) \in Seq(PartSet) /\ Len(Marks(r)) = Len(r)
        /\ \A n \in 1..Len(r) : Marks(r)[n] = ResultOf(r[n])
    BY MarksAre
  <2> QED BY <1>1, <2>1
<1>4. \A b : Message("user", b).blocks = b
  BY DEF Message
<1>5. ContinuationOf(Message("user", rs)) = r
  <2>1. PICK m : m = Message("user", rs) /\ m.blocks = rs
    BY <1>4
  <2>2. \A n \in DOMAIN m.blocks : m.blocks[n].kind = "tool_result"
    BY <1>3, <2>1
  <2>3. ~(\A n \in DOMAIN m.blocks : ~(m.blocks[n].kind = "tool_result"))
    <3>1. 1 \in DOMAIN m.blocks
      BY <1>2, <1>3, <2>1
    <3> QED BY <2>2, <3>1
  <2>4. ContinuationOf(m) = [n \in DOMAIN m.blocks |-> m.blocks[n].of[1]]
    BY <2>2, <2>3 DEF ContinuationOf
  <2>5. [n \in 1..Len(r) |-> rs[n].of[1]] = [n \in 1..Len(r) |-> r[n]]
    BY <1>3
  <2>6. [n \in 1..Len(r) |-> r[n]] = r
    OBVIOUS
  <2> QED BY <1>3, <2>1, <2>4, <2>5, <2>6
<1>6. ContinuationOf(Message("user", Said(More))) = Nothing
  <2>1. PICK m : m = Message("user", Said(More)) /\ m.blocks = Said(More)
    BY <1>4
  <2>2. DOMAIN Said(More) = {1} /\ Said(More)[1].kind = "text"
    BY DEF Said
  <2>3. \A n \in DOMAIN m.blocks : ~(m.blocks[n].kind = "tool_result")
    BY <2>1, <2>2
  <2>4. ~(\A n \in DOMAIN m.blocks : m.blocks[n].kind = "tool_result")
    BY <2>1, <2>2, <2>3
  <2>5. ContinuationOf(m) = Nothing
    BY <2>3, <2>4 DEF ContinuationOf
  <2> QED BY <2>1, <2>5
<1>7. ContinuationOf(Message("user", Append(rs, Said(More)[1]))) = Rejected
  <2>1. PICK x \in PartSet : x = Said(More)[1] /\ x.kind = "text"
    <3>1. Said(More)[1] \in PartSet
      BY PartsAre
    <3>2. Said(More)[1].kind = "text"
      BY DEF Said
    <3> QED BY <3>1, <3>2
  <2>2. /\ Append(rs, x) \in Seq(PartSet) /\ DOMAIN rs \subseteq DOMAIN Append(rs, x)
        /\ Len(rs) + 1 \in DOMAIN Append(rs, x) /\ Append(rs, x)[Len(rs) + 1] = x
        /\ \A n \in DOMAIN rs : Append(rs, x)[n] = rs[n]
    BY OneMore
  <2>3. PICK m : m = Message("user", Append(rs, x)) /\ m.blocks = Append(rs, x)
    BY <1>4
  <2>4. 1 \in DOMAIN m.blocks /\ m.blocks[1].kind = "tool_result"
    <3>1. 1 \in DOMAIN rs /\ rs[1].kind = "tool_result"
      BY <1>2, <1>3
    <3> QED BY <2>2, <2>3, <3>1
  <2>5. Len(rs) + 1 \in DOMAIN m.blocks /\ m.blocks[Len(rs) + 1].kind # "tool_result"
    BY <2>1, <2>2, <2>3
  <2>6. ContinuationOf(m) = Rejected
    BY <2>4, <2>5 DEF ContinuationOf
  <2> QED BY <2>1, <2>3, <2>6
<1> QED BY <1>3, <1>5, <1>6, <1>7

\* An answer that is sent back has no results in it.
LEMMA EchoIs ==
  ASSUME NEW proto \in Protocols, NEW A \in Seq(BlockSet)
  PROVE  /\ EchoItems(proto, A) \in Seq(ItemSet)
         /\ \A n \in DOMAIN EchoItems(proto, A) : EchoItems(proto, A)[n].type # "tool"
<1>1. CASE proto # "responses"
  <2>1. PICK i \in ItemSet : i = Item("assistant", A) /\ i.type = "assistant"
    <3>1. "assistant" \in ItemTypes /\ A \in Seq(PartSet)
      BY PartsAre DEF ItemTypes
    <3> QED BY <3>1, PartsAre
  <2>2. EchoItems(proto, A) = <<i>>
    BY <1>1, <2>1 DEF EchoItems
  <2>3. <<i>> \in Seq(ItemSet) /\ DOMAIN <<i>> = {1} /\ <<i>>[1] = i
    OBVIOUS
  <2> QED BY <2>1, <2>2, <2>3
<1>2. CASE proto = "responses"
  <2> DEFINE T(b) == CASE b.kind = "thinking" -> "reasoning"
                       [] b.kind = "tool_use" -> "function_call"
                       [] OTHER               -> "assistant"
  <2>1. ASSUME NEW b \in BlockSet
        PROVE  T(b) \in ItemTypes /\ T(b) # "tool"
    BY DEF ItemTypes
  <2> HIDE DEF T
  <2>2. ASSUME NEW b \in BlockSet
        PROVE  Item(T(b), <<b>>) \in ItemSet /\ Item(T(b), <<b>>).type # "tool"
    <3>1. <<b>> \in Seq(BlockSet)
      OBVIOUS
    <3>2. PICK bs \in Seq(PartSet) : bs = <<b>>
      BY <3>1, PartsAre
    <3>3. PICK t \in ItemTypes : t = T(b) /\ t # "tool"
      BY <2>1
    <3>4. Item(t, bs) \in ItemSet /\ Item(t, bs).type = t
      BY PartsAre
    <3> QED BY <3>2, <3>3, <3>4
  <2>3. EchoItems(proto, A) = [n \in 1..Len(A) |-> Item(T(A[n]), <<A[n]>>)]
    BY <1>2 DEF EchoItems, T
  <2>4. \A n \in 1..Len(A) : A[n] \in BlockSet
    OBVIOUS
  <2>5. \A n \in 1..Len(A) : Item(T(A[n]), <<A[n]>>) \in ItemSet /\ Item(T(A[n]), <<A[n]>>).type # "tool"
    BY <2>2, <2>4
  <2>6. Len(A) \in Nat
    OBVIOUS
  <2> QED BY <2>3, <2>5, <2>6
<1> QED BY <1>1, <1>2

\* The calls the other way round.
LEMMA ReverseIs ==
  ASSUME NEW ids \in Seq(Calls), ids # <<>>
  PROVE  Reverse(ids) \in Seq(Calls) /\ Reverse(ids) # <<>>
<1>1. Len(ids) \in Nat /\ Len(ids) > 0 /\ \A n \in 1..Len(ids) : ids[n] \in Calls
  OBVIOUS
<1>2. \A n \in 1..Len(ids) : (Len(ids) - n) + 1 \in 1..Len(ids)
  BY <1>1
<1>3. Reverse(ids) = [n \in 1..Len(ids) |-> ids[(Len(ids) - n) + 1]]
  BY DEF Reverse
<1>4. Reverse(ids) \in Seq(Calls) /\ Len(Reverse(ids)) = Len(ids)
  BY <1>1, <1>2, <1>3
<1> QED BY <1>1, <1>4

\* What a client sends for the results of a batch is understood, in every protocol.
LEMMA ResultsAreFound ==
  ASSUME NEW proto \in Protocols, NEW A \in Seq(BlockSet), NEW r \in Seq(Calls), r # <<>>
  PROVE  LET pre     == Asked(proto) \o EchoItems(proto, A)
             results == ResultItems(proto, r)
             remark  == Item("user", Said(More))
             beside  == <<Item("user", Append(results[1].blocks, Said(More)[1]))>>
         IN  /\ Continuation(proto, Parse(proto, pre \o results)) = r
             /\ Continuation(proto, Parse(proto, pre \o Append(results, remark))) = Nothing
             /\ proto = "messages" => Continuation(proto, Parse(proto, pre \o beside)) = Rejected
<1>1. PICK es \in Seq(ItemSet) : es = EchoItems(proto, A) /\ \A n \in DOMAIN es : es[n].type # "tool"
  BY EchoIs
<1>2. PICK as \in Seq(ItemSet) : as = Asked(proto) /\ Len(as) = 1 /\ as[1].type # "tool"
  <2>1. PICK i \in ItemSet : i = Item("user", Said(Hello)) /\ i.type # "tool"
    <3>1. "user" \in ItemTypes
      BY DEF ItemTypes
    <3>2. Item("user", Said(Hello)) \in ItemSet /\ Item("user", Said(Hello)).type = "user"
      BY <3>1, PartsAre
    <3> QED BY <3>2
  <2>2. <<i>> \in Seq(ItemSet) /\ Len(<<i>>) = 1 /\ <<i>>[1] = i
    OBVIOUS
  <2> QED BY <2>1, <2>2 DEF Asked
<1>3. PICK pre \in Seq(ItemSet) : pre = as \o es /\ \A n \in DOMAIN pre : pre[n].type # "tool"
  <2>1. PICK p \in Seq(ItemSet) : p = as \o es
    BY Joined
  <2>2. /\ \A n \in 1..Len(as) : p[n] = as[n]
        /\ \A n \in 1..Len(p) : n > Len(as) => n - Len(as) \in 1..Len(es) /\ p[n] = es[n - Len(as)]
    BY <2>1, Joined
  <2>3. \A n \in DOMAIN p : n \in 1..Len(p) /\ (n = 1 \/ n > 1)
    OBVIOUS
  <2>4. ASSUME NEW n \in DOMAIN p PROVE p[n].type # "tool"
    <3>1. CASE n = 1
      BY <1>2, <2>2, <3>1
    <3>2. CASE n > 1
      BY <1>1, <1>2, <2>2, <2>3, <3>2
    <3> QED BY <2>3, <3>1, <3>2
  <2> QED BY <2>1, <2>4
<1>4. PICK remark \in ItemSet :
        remark = Item("user", Said(More)) /\ remark.type = "user" /\ remark.blocks = Said(More)
  <2>1. "user" \in ItemTypes /\ Said(More) \in Seq(PartSet)
    BY PartsAre DEF ItemTypes
  <2> QED BY <2>1, PartsAre
<1>5. PICK rs \in Seq(PartSet) : rs = Marks(r)
  BY MarksAre
<1>6. ASSUME NEW b \in Seq(PartSet), NEW ms \in Seq(TurnSet)
      PROVE  Continuation(proto, Append(ms, Message("user", b))) = ContinuationOf(Message("user", b))
  <2>1. PICK m \in TurnSet : m = Message("user", b) /\ m.role = "user"
    <3>1. "user" \in ItemTypes
      BY DEF ItemTypes
    <3> QED BY <3>1, PartsAre
  <2> QED BY <2>1, ContinuationIs
\* A message that comes last.
<1>7. ASSUME NEW items \in Seq(ItemSet), NEW x \in ItemSet, x.type = "user"
      PROVE  Continuation(proto, Parse(proto, Append(items, x))) = ContinuationOf(Message("user", x.blocks))
  <2>1. PICK ms \in Seq(TurnSet) : Parse(proto, Append(items, x)) = Append(ms, Message("user", x.blocks))
    BY <1>7, LastTurn
  <2>2. x.blocks \in Seq(PartSet)
    BY DEF ItemSet
  <2> QED BY <1>6, <2>1, <2>2
<1>8. /\ ContinuationOf(Message("user", rs)) = r
      /\ ContinuationOf(Message("user", Said(More))) = Nothing
      /\ ContinuationOf(Message("user", Append(rs, Said(More)[1]))) = Rejected
  BY <1>5, ContinuationOfResults
<1>9. ASSUME NEW res \in Seq(ItemSet)
      PROVE  Continuation(proto, Parse(proto, pre \o Append(res, remark))) = Nothing
  <2>1. PICK items \in Seq(ItemSet) : items = pre \o res
    BY Joined
  <2>2. pre \o Append(res, remark) = Append(items, remark)
    BY <2>1, ConcatAppend
  <2> QED BY <1>4, <1>7, <1>8, <2>2
<1>10. CASE proto = "messages"
  <2>1. PICK i \in ItemSet : i = Item("user", rs) /\ i.type = "user" /\ i.blocks = rs
    <3>1. "user" \in ItemTypes
      BY DEF ItemTypes
    <3> QED BY <3>1, PartsAre
  <2>2. ResultItems(proto, r) = <<i>>
    BY <1>5, <1>10, <2>1 DEF ResultItems, Marks
  <2>3. PICK y \in Seq(PartSet) : y = Append(rs, Said(More)[1])
    <3>1. Said(More)[1] \in PartSet
      BY PartsAre
    <3> QED BY <3>1, OneMore
  <2>4. PICK j \in ItemSet : j = Item("user", y) /\ j.type = "user" /\ j.blocks = y
    <3>1. "user" \in ItemTypes
      BY DEF ItemTypes
    <3> QED BY <3>1, PartsAre
  <2>5. pre \o <<i>> = Append(pre, i) /\ pre \o <<j>> = Append(pre, j)
    BY AppendIs
  <2>6. Continuation(proto, Parse(proto, pre \o <<i>>)) = r
    BY <1>7, <1>8, <2>1, <2>5
  <2>7. Continuation(proto, Parse(proto, pre \o <<j>>)) = Rejected
    BY <1>7, <1>8, <2>3, <2>4, <2>5
  <2>8. <<i>> \in Seq(ItemSet) /\ <<i>>[1].blocks = rs
    BY <2>1
  <2>9. Continuation(proto, Parse(proto, pre \o Append(<<i>>, remark))) = Nothing
    BY <1>9, <2>8
  <2> QED BY <1>1, <1>2, <1>3, <1>4, <2>2, <2>3, <2>4, <2>6, <2>7, <2>8, <2>9
<1>11. CASE proto # "messages"
  <2>1. ResultItems(proto, r) = ToolItems(r)
    BY <1>11 DEF ResultItems, ToolItems
  <2>2. PICK ms \in Seq(TurnSet) : Parse(proto, pre \o ToolItems(r)) = Append(ms, Message("user", rs))
    <3>1. proto \in {"chat", "responses"}
      BY <1>11 DEF Protocols
    <3> QED BY <1>3, <1>5, <3>1, LastResults
  <2>3. Continuation(proto, Parse(proto, pre \o ToolItems(r))) = r
    BY <1>6, <1>8, <2>2
  <2>4. PICK res \in Seq(ItemSet) : res = ToolItems(r)
    BY ToolItemsAre
  <2>5. Continuation(proto, Parse(proto, pre \o Append(res, remark))) = Nothing
    BY <1>9
  <2> QED BY <1>1, <1>2, <1>3, <1>4, <1>11, <2>1, <2>3, <2>4, <2>5
<1> QED BY <1>10, <1>11

\* The results of a batch go to exactly its calls, and a text after them is not lost.
THEOREM ResultsAlwaysContinue == Spec => []ResultsContinueTheirBatch
<1>1. IInv => ResultsContinueTheirBatch
  <2> SUFFICES ASSUME IInv, NEW c \in Clients, Finished(c), phase = "tools"
               PROVE  LET ids     == FragmentsOf(answer, "tool_use")
                          proto   == writer[c].proto
                          results == ResultItems(proto, Reverse(ids))
                          remark  == Item("user", Said(More))
                          beside  == <<Item("user", Append(results[1].blocks, Said(More)[1]))>>
                      IN  /\ Continuation(proto, Sends(c, results)) = Reverse(ids)
                          /\ Continuation(proto, Sends(c, Append(results, remark))) = Nothing
                          /\ proto = "messages" => Continuation(proto, Sends(c, beside)) = Rejected
    BY DEF ResultsContinueTheirBatch
  <2>1. PICK w : w = writer[c]
    OBVIOUS
  <2>2. WellFormed(w) /\ IsWhole(w, phase, made, answer) /\ w.status = "finished"
    BY <2>1 DEF IInv, IsServed, Finished
  <2>3. PICK proto \in Protocols : proto = w.proto
    BY <2>2 DEF WellFormed, WriterSet, Unended, Shaped
  <2>4. PICK A \in Seq(BlockSet) : A = Assembled(w)
    BY <2>2 DEF IsWhole
  <2>5. PICK ids \in Seq(Calls) : ids = FragmentsOf(answer, "tool_use") /\ ids # <<>>
    BY DEF IInv, AnswerIsMade, Published
  <2>6. PICK r \in Seq(Calls) : r = Reverse(ids) /\ r # <<>>
    BY <2>5, ReverseIs
  <2>7. \A tail : Sends(c, tail) = Parse(proto, (Asked(proto) \o EchoItems(proto, A)) \o tail)
    BY <2>1, <2>3, <2>4 DEF Sends
  <2>8. LET pre     == Asked(proto) \o EchoItems(proto, A)
            results == ResultItems(proto, r)
            remark  == Item("user", Said(More))
            beside  == <<Item("user", Append(results[1].blocks, Said(More)[1]))>>
        IN  /\ Continuation(proto, Parse(proto, pre \o results)) = r
            /\ Continuation(proto, Parse(proto, pre \o Append(results, remark))) = Nothing
            /\ proto = "messages" => Continuation(proto, Parse(proto, pre \o beside)) = Rejected
    BY <2>6, ResultsAreFound
  <2> QED BY <2>1, <2>3, <2>5, <2>6, <2>7, <2>8
<1> QED BY <1>1, Invariance, PTL

-----------------------------------------------------------------------------
(* A turn and the one after it *)

\* A message, an answer and a message more.
LEMMA ChatThree ==
  ASSUME NEW a \in ItemSet, NEW b \in ItemSet, NEW z \in ItemSet,
         a.type = "user", b.type = "assistant", z.type = "user"
  PROVE  /\ ParseChat(<<a>>) = <<Message("user", a.blocks)>>
         /\ ParseChat(<<a, b, z>>)
              = <<Message("user", a.blocks), Message("assistant", b.blocks), Message("user", z.blocks)>>
<1>1. PICK k \in TurnSet, l \in TurnSet, m \in TurnSet :
        k = Message("user", a.blocks) /\ l = Message("assistant", b.blocks) /\ m = Message("user", z.blocks)
  <2>1. "user" \in ItemTypes /\ "assistant" \in ItemTypes
    BY DEF ItemTypes
  <2>2. a.blocks \in Seq(PartSet) /\ b.blocks \in Seq(PartSet) /\ z.blocks \in Seq(PartSet)
    BY DEF ItemSet
  <2> QED BY <2>1, <2>2, PartsAre
<1>2. NonEmpty("user", <<>>) = <<>>
  BY DEF NonEmpty
<1>3. PICK p \in ChatSet : p = ChatStart /\ p.messages = <<>> /\ p.results = <<>>
  <2>1. <<>> \in Seq(TurnSet) /\ <<>> \in Seq(PartSet)
    OBVIOUS
  <2>2. ChatStart \in ChatSet /\ ChatStart.messages = <<>> /\ ChatStart.results = <<>>
    BY <2>1 DEF ChatStart, ChatSet
  <2> QED BY <2>2
<1>4. /\ <<>> \o <<>> = <<>> /\ <<>> \o <<k>> = <<k>> /\ <<k>> \o <<>> = <<k>>
      /\ <<k>> \o <<l>> = <<k, l>>
  BY OneAndTwo
<1>5. <<k, l>> \o <<>> = <<k, l>> /\ <<k, l>> \o <<m>> = <<k, l, m>> /\ <<k, l, m>> \o <<>> = <<k, l, m>>
  <2>1. <<k, l>> \in Seq(TurnSet) /\ <<k, l, m>> \in Seq(TurnSet)
    OBVIOUS
  <2>2. <<k, l>> \o <<>> = <<k, l>> /\ <<k, l, m>> \o <<>> = <<k, l, m>>
    BY <2>1, ConcatEmptySeq
  <2> QED BY <2>2, Three
<1>6. PICK q \in ChatSet : q = ChatItem(p, a) /\ q.messages = <<k>> /\ q.results = <<>>
  <2>1. /\ ChatItem(p, a) \in ChatSet /\ ChatItem(p, a).results = <<>>
        /\ ChatItem(p, a).messages = (p.messages \o NonEmpty("user", p.results))
                                        \o <<Message(a.type, a.blocks)>>
    BY ChatItemIs
  <2> QED BY <1>1, <1>2, <1>3, <1>4, <2>1
<1>7. PICK r \in ChatSet : r = ChatItem(q, b) /\ r.messages = <<k, l>> /\ r.results = <<>>
  <2>1. /\ ChatItem(q, b) \in ChatSet /\ ChatItem(q, b).results = <<>>
        /\ ChatItem(q, b).messages = (q.messages \o NonEmpty("user", q.results))
                                        \o <<Message(b.type, b.blocks)>>
    BY ChatItemIs
  <2> QED BY <1>1, <1>2, <1>4, <1>6, <2>1
<1>8. PICK s \in ChatSet : s = ChatItem(r, z) /\ s.messages = <<k, l, m>> /\ s.results = <<>>
  <2>1. /\ ChatItem(r, z) \in ChatSet /\ ChatItem(r, z).results = <<>>
        /\ ChatItem(r, z).messages = (r.messages \o NonEmpty("user", r.results))
                                        \o <<Message(z.type, z.blocks)>>
    BY ChatItemIs
  <2> QED BY <1>1, <1>2, <1>5, <1>7, <2>1
<1>9. ChatRead(<<a>>) = q /\ ChatRead(<<a, b, z>>) = s
  <2>1. /\ ChatRead(<<a>>) = ChatItem(ChatStart, a)
        /\ ChatRead(<<a, b, z>>) = ChatItem(ChatItem(ChatItem(ChatStart, a), b), z)
    BY FewChatItems
  <2> QED BY <1>3, <1>6, <1>7, <1>8, <2>1
<1>10. \A items : ParseChat(items) = ChatRead(items).messages \o NonEmpty("user", ChatRead(items).results)
  BY DEF ParseChat, ChatRead, ChatStart
<1> QED BY <1>1, <1>2, <1>4, <1>5, <1>6, <1>8, <1>9, <1>10

\* A question and an answer, and a new question after them, in Responses,
LEMMA ResponsesThree ==
  ASSUME NEW a \in ItemSet, NEW b \in ItemSet, NEW z \in ItemSet,
         a.type = "user", b.type \in {"assistant", "reasoning"}, z.type = "user", b.blocks # <<>>
  PROVE  /\ ParseResponses(<<a>>) = <<Message("user", a.blocks)>>
         /\ ParseResponses(<<a, b, z>>)
              = <<Message("user", a.blocks), Message("assistant", b.blocks), Message("user", z.blocks)>>
<1>0. a.blocks \in Seq(PartSet) /\ b.blocks \in Seq(PartSet) /\ z.blocks \in Seq(PartSet)
  BY DEF ItemSet
<1>1. PICK k \in TurnSet, l \in TurnSet, m \in TurnSet :
        k = Message("user", a.blocks) /\ l = Message("assistant", b.blocks) /\ m = Message("user", z.blocks)
  <2>1. "user" \in ItemTypes /\ "assistant" \in ItemTypes
    BY DEF ItemTypes
  <2> QED BY <1>0, <2>1, PartsAre
<1>2. NonEmpty("user", <<>>) = <<>> /\ NonEmpty("assistant", <<>>) = <<>>
      /\ NonEmpty("assistant", b.blocks) = <<l>>
  BY <1>1 DEF NonEmpty
<1>3. PICK p \in InputSet : p = ResponsesStart /\ p.messages = <<>> /\ p.results = <<>> /\ p.assistant = <<>>
  <2>1. <<>> \in Seq(TurnSet) /\ <<>> \in Seq(PartSet)
    OBVIOUS
  <2>2. /\ ResponsesStart \in InputSet /\ ResponsesStart.messages = <<>>
        /\ ResponsesStart.results = <<>> /\ ResponsesStart.assistant = <<>>
    BY <2>1 DEF ResponsesStart, InputSet
  <2> QED BY <2>2
<1>4. /\ <<>> \o <<>> = <<>> /\ Append(<<>>, k) = <<k>> /\ <<k>> \o <<>> = <<k>>
      /\ <<k>> \o <<l>> = <<k, l>> /\ Append(<<k>>, l) = <<k, l>>
  BY ONLY OneAndTwo
<1>5. <<k, l>> \o <<>> = <<k, l>> /\ Append(<<k, l>>, m) = <<k, l, m>> /\ <<k, l, m>> \o <<>> = <<k, l, m>>
      /\ <<>> \o b.blocks = b.blocks
  <2>1. <<k, l>> \in Seq(TurnSet) /\ <<k, l, m>> \in Seq(TurnSet)
    OBVIOUS
  <2>2. <<k, l>> \o <<>> = <<k, l>> /\ <<k, l, m>> \o <<>> = <<k, l, m>>
    BY <2>1, ConcatEmptySeq
  <2>3. <<>> \o b.blocks = b.blocks
    BY <1>0, ConcatEmptySeq
  <2> QED BY <2>2, <2>3, Three
<1>6. PICK q \in InputSet :
        q = ResponsesItem(p, a) /\ q.messages = <<k>> /\ q.results = <<>> /\ q.assistant = <<>>
  <2>1. /\ ResponsesItem(p, a) \in InputSet
        /\ ResponsesItem(p, a).results = <<>> /\ ResponsesItem(p, a).assistant = <<>>
        /\ ResponsesItem(p, a).messages
             = Append((p.messages \o NonEmpty("user", p.results)) \o NonEmpty("assistant", p.assistant),
                      Message(a.type, a.blocks))
    BY ResponsesItemIs
  <2> QED BY <1>1, <1>2, <1>3, <1>4, <2>1
<1>7. PICK r \in InputSet : r = ResponsesItem(q, b)
  BY ResponsesItemIs
<1>8. PICK s \in InputSet :
        s = ResponsesItem(r, z) /\ s.messages = <<k, l, m>> /\ s.results = <<>> /\ s.assistant = <<>>
  <2>1. /\ ResponsesItem(r, z) \in InputSet
        /\ ResponsesItem(r, z).results = <<>> /\ ResponsesItem(r, z).assistant = <<>>
        /\ ResponsesItem(r, z).messages
             = Append((r.messages \o NonEmpty("user", r.results)) \o NonEmpty("assistant", r.assistant),
                      Message(z.type, z.blocks))
    BY ResponsesItemIs
  <2>2. r.results = <<>> /\ r.messages \o <<>> = r.messages
        /\ r.messages \o NonEmpty("assistant", r.assistant) = <<k, l>>
    <3>1. CASE b.type = "reasoning"
      <4>1. /\ ResponsesItem(q, b).messages = q.messages \o NonEmpty("user", q.results)
            /\ ResponsesItem(q, b).results = <<>>
            /\ ResponsesItem(q, b).assistant = q.assistant \o b.blocks
        BY <3>1, ResponsesItemIs
      <4>2. r.messages = <<k>> /\ r.results = <<>> /\ r.assistant = b.blocks
        BY <1>2, <1>4, <1>5, <1>6, <1>7, <4>1
      <4> QED BY <1>2, <1>4, <4>2
    <3>2. CASE b.type = "assistant"
      <4>1. /\ ResponsesItem(q, b).results = <<>> /\ ResponsesItem(q, b).assistant = <<>>
            /\ ResponsesItem(q, b).messages
                 = Append((q.messages \o NonEmpty("user", q.results)) \o NonEmpty("assistant", q.assistant),
                          Message(b.type, b.blocks))
        BY <3>2, ResponsesItemIs
      <4>2. r.messages = <<k, l>> /\ r.results = <<>> /\ r.assistant = <<>>
        BY <1>1, <1>2, <1>4, <1>6, <1>7, <3>2, <4>1
      <4> QED BY <1>2, <1>5, <4>2
    <3> QED BY <3>1, <3>2
  <2> QED BY <1>1, <1>2, <1>5, <2>1, <2>2
<1>9. ResponsesRead(<<a>>) = q /\ ResponsesRead(<<a, b, z>>) = s
  <2>1. /\ ResponsesRead(<<a>>) = ResponsesItem(ResponsesStart, a)
        /\ ResponsesRead(<<a, b, z>>) = ResponsesItem(ResponsesItem(ResponsesItem(ResponsesStart, a), b), z)
    BY FewResponsesItems
  <2> QED BY <1>3, <1>6, <1>7, <1>8, <2>1
\* Nothing waits at the end.
<1>10. ASSUME NEW v \in InputSet, v.results = <<>>, v.assistant = <<>>, v.messages \o <<>> = v.messages
       PROVE  FlushAssistant(FlushResults(v)).messages = v.messages
  <2>1. PICK u \in InputSet : u = FlushResults(v) /\ u.messages = v.messages /\ u.assistant = <<>>
    <3>1. /\ FlushResults(v) \in InputSet /\ FlushResults(v).assistant = v.assistant
          /\ FlushResults(v).messages = v.messages \o NonEmpty("user", v.results)
      BY FlushIs
    <3> QED BY <1>2, <1>10, <3>1
  <2>2. FlushAssistant(u).messages = u.messages \o NonEmpty("assistant", u.assistant)
    BY FlushIs
  <2> QED BY <1>2, <1>10, <2>1, <2>2
<1>11. \A items : ParseResponses(items) = FlushAssistant(FlushResults(ResponsesRead(items))).messages
  BY DEF ParseResponses, ResponsesRead, ResponsesStart
<1>12. ParseResponses(<<a>>) = <<k>>
  <2>1. FlushAssistant(FlushResults(q)).messages = q.messages
    BY <1>4, <1>6, <1>10
  <2> QED BY <1>6, <1>9, <1>11, <2>1
<1>13. ParseResponses(<<a, b, z>>) = <<k, l, m>>
  <2>1. FlushAssistant(FlushResults(s)).messages = s.messages
    BY <1>5, <1>8, <1>10
  <2> QED BY <1>8, <1>9, <1>11, <2>1
<1> QED BY <1>1, <1>12, <1>13

\* and in Messages.
LEMMA MessagesThree ==
  ASSUME NEW a \in ItemSet, NEW b \in ItemSet, NEW z \in ItemSet,
         a.type = "user", b.type = "assistant", z.type = "user"
  PROVE  /\ ParseMessages(<<a>>) = <<Message("user", a.blocks)>>
         /\ ParseMessages(<<a, b, z>>)
              = <<Message("user", a.blocks), Message("assistant", b.blocks), Message("user", z.blocks)>>
<1> DEFINE M(i) == Message(IF i.type = "assistant" THEN "assistant" ELSE "user", i.blocks)
<1>1. ParseMessages(<<a>>) = <<M(a)>> /\ ParseMessages(<<a, b, z>>) = <<M(a), M(b), M(z)>>
  BY FewMessages
<1>2. /\ M(a) = Message("user", a.blocks) /\ M(b) = Message("assistant", b.blocks)
      /\ M(z) = Message("user", z.blocks)
  OBVIOUS
<1> HIDE DEF M
<1> QED BY <1>1, <1>2

\* Who sends the answer back and a message more is found again.
LEMMA EchoIsFound ==
  ASSUME NEW proto \in Protocols, NEW A \in Seq(BlockSet),
         proto = "responses" => \E B \in BlockSet : A = <<B>> /\ B.kind \in Kinds
  PROVE  LineageKey(Parse(proto, (Asked(proto) \o EchoItems(proto, A)) \o <<Item("user", Said(More))>>))
           = NextLineageKey(Parse(proto, Asked(proto)), A)
<1>1. "user" \in ItemTypes /\ "assistant" \in ItemTypes /\ "reasoning" \in ItemTypes
  BY DEF ItemTypes
<1>2. PICK a \in ItemSet, z \in ItemSet :
        /\ a = Item("user", Said(Hello)) /\ a.type = "user" /\ a.blocks = Said(Hello)
        /\ z = Item("user", Said(More)) /\ z.type = "user" /\ z.blocks = Said(More)
  BY <1>1, PartsAre
<1>3. A \in Seq(PartSet)
  BY PartsAre
<1>4. PICK b \in ItemSet :
        /\ EchoItems(proto, A) = <<b>> /\ b.blocks = A
        /\ b.type = "assistant" \/ (proto = "responses" /\ b.type = "reasoning")
  <2>1. CASE proto # "responses"
    <3>1. Item("assistant", A) \in ItemSet /\ Item("assistant", A).type = "assistant"
          /\ Item("assistant", A).blocks = A
      BY <1>1, <1>3, PartsAre
    <3>2. EchoItems(proto, A) = <<Item("assistant", A)>>
      BY <2>1 DEF EchoItems
    <3> QED BY <3>1, <3>2
  <2>2. CASE proto = "responses"
    <3>1. PICK B \in BlockSet : A = <<B>> /\ B.kind \in Kinds
      BY <2>2
    <3> DEFINE t == IF B.kind = "thinking" THEN "reasoning" ELSE "assistant"
    <3>2. t \in ItemTypes /\ t \in {"assistant", "reasoning"}
      BY <1>1
    <3>3. Len(A) = 1 /\ A[1] = B
      BY <3>1
    <3>4. EchoItems(proto, A)
            = [n \in 1..Len(A) |->
                 Item(CASE A[n].kind = "thinking" -> "reasoning"
                        [] A[n].kind = "tool_use" -> "function_call"
                        [] OTHER                  -> "assistant", <<A[n]>>)]
      BY <2>2 DEF EchoItems
    <3>5. (CASE B.kind = "thinking" -> "reasoning"
             [] B.kind = "tool_use" -> "function_call"
             [] OTHER               -> "assistant") = t
      BY <3>1 DEF Kinds
    <3>6. PICK i : i = Item(t, A) /\ i \in ItemSet /\ i.type = t /\ i.blocks = A
      BY <1>3, <3>2, PartsAre
    <3> HIDE DEF t
    <3>7. \A n \in 1..1 : n = 1
      OBVIOUS
    <3>8. EchoItems(proto, A) = [n \in 1..1 |-> i]
      BY <3>1, <3>3, <3>4, <3>5, <3>6, <3>7
    <3>9. [n \in 1..1 |-> i] = <<i>>
      OBVIOUS
    <3> QED BY <2>2, <3>2, <3>6, <3>8, <3>9
  <2> QED BY <2>1, <2>2
<1>5. (<<a>> \o <<b>>) \o <<z>> = <<a, b, z>>
  <2>1. <<a>> \o <<b>> = <<a, b>>
    BY OneAndTwo
  <2>2. <<a, b>> \o <<z>> = <<a, b, z>>
    BY Three
  <2> QED BY <2>1, <2>2
<1> DEFINE k == Message("user", a.blocks)
           l == Message("assistant", A)
           m == Message("user", z.blocks)
<1>6. Parse(proto, <<a>>) = <<k>> /\ Parse(proto, <<a, b, z>>) = <<k, l, m>>
  <2>1. CASE proto = "messages"
    <3>1. ParseMessages(<<a>>) = <<k>> /\ ParseMessages(<<a, b, z>>) = <<k, l, m>>
      BY <1>2, <1>4, <2>1, MessagesThree
    <3> HIDE DEF k, l, m
    <3> QED BY <2>1, <3>1 DEF Parse
  <2>2. CASE proto = "chat"
    <3>1. ParseChat(<<a>>) = <<k>> /\ ParseChat(<<a, b, z>>) = <<k, l, m>>
      BY <1>2, <1>4, <2>2, ChatThree
    <3> HIDE DEF k, l, m
    <3> QED BY <2>2, <3>1 DEF Parse
  <2>3. CASE proto = "responses"
    <3>1. A # <<>>
      <4>1. PICK B \in BlockSet : A = <<B>>
        BY <2>3
      <4> QED BY ONLY <4>1
    <3>2. ParseResponses(<<a>>) = <<k>> /\ ParseResponses(<<a, b, z>>) = <<k, l, m>>
      BY <1>2, <1>4, <3>1, ResponsesThree
    <3> HIDE DEF k, l, m
    <3> QED BY <2>3, <3>2 DEF Parse
  <2> QED BY <2>1, <2>2, <2>3 DEF Protocols
<1>7. k.role = "user" /\ m.role = "user" /\ l = Message("assistant", A)
  BY DEF Message
<1> HIDE DEF k, l, m
<1>8. LineageKey(<<k, l, m>>) = NextLineageKey(<<k>>, A)
  BY <1>7, NextTurnIsFound
<1>9. Asked(proto) = <<a>>
  BY <1>2 DEF Asked
<1> QED BY <1>2, <1>4, <1>5, <1>6, <1>8, <1>9

-----------------------------------------------------------------------------
(* Echoes find their agent *)

\* Nothing was made of a kind that no fragment is of.
LEMMA SomeOfKind ==
  ASSUME NEW k, NEW kinds
  PROVE  \A ns \in Seq(Nat) :
           OfKind(k, kinds, ns) = <<>> => \A m \in DOMAIN ns : kinds[ns[m]] # k
<1> DEFINE Has0(ns) == \A m \in DOMAIN ns : kinds[ns[m]] # k
           T == {ns \in Seq(Nat) : OfKind(k, kinds, ns) = <<>> => Has0(ns)}
<1>1. <<>> \in T
  <2>1. <<>> \in Seq(Nat) /\ DOMAIN <<>> = {}
    OBVIOUS
  <2> QED BY <2>1
<1>2. ASSUME NEW ns \in Seq(Nat), NEW n \in Nat, ns \in T
      PROVE  Append(ns, n) \in T
  <2>1. /\ Append(ns, n) \in Seq(Nat) /\ Append(ns, n)[Len(ns) + 1] = n
        /\ \A m \in DOMAIN ns : Append(ns, n)[m] = ns[m]
        /\ \A m \in DOMAIN Append(ns, n) : m = Len(ns) + 1 \/ m \in DOMAIN ns
    BY OneMore
  <2>2. PICK s \in Seq(Nat) : s = OfKind(k, kinds, ns)
    BY KindsAre
  <2>3. OfKind(k, kinds, Append(ns, n)) = IF kinds[n] = k THEN Append(s, n) ELSE s
    <3>1. OfKind(k, kinds, Append(ns, n))
            = IF kinds[n] = k THEN Append(OfKind(k, kinds, ns), n) ELSE OfKind(k, kinds, ns)
      BY KindMore
    <3> QED BY <2>2, <3>1
  <2>4. Append(s, n) # <<>>
    <3>1. Len(s) + 1 \in DOMAIN Append(s, n)
      BY OneMore
    <3>2. DOMAIN <<>> = {}
      OBVIOUS
    <3> QED BY <3>1, <3>2
  <2>5. ASSUME OfKind(k, kinds, Append(ns, n)) = <<>> PROVE Has0(Append(ns, n))
    <3>1. kinds[n] # k /\ s = <<>>
      BY <2>3, <2>4, <2>5
    <3>2. Has0(ns)
      BY <1>2, <2>2, <3>1
    <3> QED BY <2>1, <3>1, <3>2
  <2> HIDE DEF Has0
  <2> QED BY <2>1, <2>5
<1> HIDE DEF T
<1>3. Seq(Nat) \subseteq T
  BY <1>1, <1>2, SequenceInduction
<1> QED BY <1>3 DEF T

\* When text is never followed by thinking all thinking comes before all text.
LEMMA SortedUnlessInterleaved ==
  ASSUME made \in Seq(Kinds), ~Interleaved
  PROVE  Sorted(made, Upto(Len(made)))
<1>1. Len(made) \in Nat /\ \A n \in 1..Len(made) : made[n] \in Kinds
  OBVIOUS
<1>2. DOMAIN Upto(Len(made)) = 1..Len(made) /\ \A n \in 1..Len(made) : Upto(Len(made))[n] = n
  BY DEF Upto
<1>3. ASSUME NEW m \in 1..Len(made), NEW n \in 1..Len(made), m < n, made[n] = "thinking"
      PROVE  made[m] = "thinking"
  <2> DEFINE T == {d \in Nat : d < n => made[n - d] = "thinking"}
  <2>1. 0 \in T
    <3>1. n - 0 = n
      OBVIOUS
    <3> QED BY <1>3, <3>1
  <2>2. ASSUME NEW d \in Nat, d \in T PROVE d + 1 \in T
    <3>1. CASE d + 1 < n
      <4>1. PICK q \in Nat : q = n - (d + 1)
        BY <3>1
      <4>2. q \in 1..(Len(made) - 1) /\ q + 1 = n - d /\ d < n /\ q \in 1..Len(made)
        BY <1>1, <3>1, <4>1
      <4>3. made[q + 1] = "thinking"
        BY <2>2, <4>2
      <4>4. made[q] # "text"
        BY <4>2, <4>3 DEF Interleaved
      <4>5. made[q] = "thinking"
        BY <1>1, <4>2, <4>4 DEF Kinds
      <4> QED BY <4>1, <4>5
    <3>2. CASE ~(d + 1 < n)
      BY <3>2
    <3> QED BY <3>1, <3>2
  <2> HIDE DEF T
  <2>3. Nat \subseteq T
    BY <2>1, <2>2, NumberInduction
  <2>4. n - m \in Nat /\ n - m < n /\ n - (n - m) = m
    BY <1>3
  <2>5. n - m \in T
    BY <2>3, <2>4
  <2> QED BY <2>4, <2>5 DEF T
<1> QED BY <1>2, <1>3 DEF Sorted

\* Of a kind that the answer has no block of nothing was made.
LEMMA NothingOfKind ==
  ASSUME answer \in Seq(BlockSet), NEW k \in Kinds, FragmentsOf(answer, k) \in Made(k), ~Has(answer, k)
  PROVE  FragmentsOf(answer, k) = <<>> /\ \A n \in 1..Len(made) : made[n] # k
<1>1. FragmentsOf(answer, k) = <<>>
  <2>1. DOMAIN answer = 1..Len(answer)
    OBVIOUS
  <2>2. \A n \in DOMAIN answer : answer[n].kind # k
    BY <2>1 DEF Has
  <2> QED BY <2>2, NoFragments
<1>2. OfKind(k, made, Fragments) = <<>>
  BY <1>1 DEF Made
<1>3. Fragments \in Seq(Nat) /\ DOMAIN Fragments = 1..Len(made) /\ \A n \in 1..Len(made) : Fragments[n] = n
  <2>1. \A n \in 1..Len(made) : n \in Nat
    OBVIOUS
  <2>2. CASE Len(made) \in Nat
    BY <2>1, <2>2 DEF Fragments
  <2>3. Len(made) \in Nat
    OBVIOUS
  <2> QED BY <2>2, <2>3
<1>4. \A m \in DOMAIN Fragments : made[Fragments[m]] # k
  BY <1>2, <1>3, SomeOfKind
<1> QED BY <1>1, <1>3, <1>4

\* The answer as it was read, in the cases of the property.
LEMMA ReadsTheAnswer ==
  ASSUME IInv, NEW c \in Clients, Finished(c), phase = "final",
         writer[c].proto = "messages" => ~Interleaved \/ ~writer[c].stream,
         writer[c].proto = "responses" => ~Has(answer, "thinking") \/ ~Has(answer, "text")
  PROVE  /\ Assembled(writer[c]) = answer /\ writer[c].proto \in Protocols
         /\ writer[c].proto = "responses" => \E B \in BlockSet : answer = <<B>> /\ B.kind \in Kinds
<1>1. PICK w : w = writer[c]
  OBVIOUS
<1>2. WellFormed(w) /\ IsWhole(w, phase, made, answer) /\ w.status = "finished"
  BY <1>1 DEF IInv, IsServed, Finished
<1>3. w.proto \in Protocols
  BY <1>2 DEF WellFormed, WriterSet
<1>4. made \in Seq(Kinds) /\ answer \in Seq(BlockSet) /\ phase \in Published /\ AnswerIsMade
  BY DEF IInv, TypeOK, Published
<1>5. PICK t \in Seq(Values), x \in Seq(Values) :
        t = FragmentsOf(answer, "thinking") /\ x = FragmentsOf(answer, "text")
  BY <1>4, FragmentsAre
<1>6. answer = AnswerOf(t, x, <<>>) /\ t \in Made("thinking") /\ x \in Made("text") /\ answer # <<>>
  <2>1. /\ \A k \in Kinds : FragmentsOf(answer, k) \in Made(k)
        /\ answer = AnswerOf(FragmentsOf(answer, "thinking"), FragmentsOf(answer, "text"), <<>>)
    BY <1>4, AnswerParts
  <2>2. answer # <<>>
    BY <1>4 DEF AnswerIsMade
  <2> QED BY <1>5, <2>1, <2>2 DEF Kinds
<1>7. \A n \in 1..Len(made) : made[n] \in Kinds
  BY <1>4
<1>8. DOMAIN Upto(Len(made)) = 1..Len(made) /\ \A n \in 1..Len(made) : Upto(Len(made))[n] = n
  BY DEF Upto
\* Answers of one kind.
<1>9. ASSUME ~Has(answer, "thinking") PROVE t = <<>> /\ Sorted(made, Upto(Len(made)))
  <2>1. t = <<>> /\ \A n \in 1..Len(made) : made[n] # "thinking"
    BY <1>4, <1>5, <1>6, <1>9, NothingOfKind DEF Kinds
  <2> QED BY <1>8, <2>1 DEF Sorted
<1>10. ASSUME ~Has(answer, "text") PROVE x = <<>> /\ Sorted(made, Upto(Len(made)))
  <2>1. x = <<>> /\ \A n \in 1..Len(made) : made[n] # "text"
    BY <1>4, <1>5, <1>6, <1>10, NothingOfKind DEF Kinds
  <2>2. \A n \in 1..Len(made) : made[n] = "thinking"
    BY <1>7, <2>1 DEF Kinds
  <2> QED BY <1>8, <2>1, <2>2 DEF Sorted
<1>11. ~w.stream \/ w.proto = "chat" \/ Sorted(made, Upto(Len(made)))
  <2>1. CASE w.proto = "messages"
    BY <1>1, <1>4, <2>1, SortedUnlessInterleaved
  <2>2. CASE w.proto = "responses"
    BY <1>1, <1>9, <1>10, <2>2
  <2> QED BY <1>3, <2>1, <2>2 DEF Protocols
<1>12. Assembled(w) = answer
  BY <1>2, <1>11 DEF IsWhole
<1>13. ASSUME w.proto = "responses" PROVE \E B \in BlockSet : answer = <<B>> /\ B.kind \in Kinds
  <2>1. t = <<>> \/ x = <<>>
    BY <1>1, <1>9, <1>10, <1>13
  <2>2. PICK d : d = NonEmptyBlock("thinking", t) \o NonEmptyBlock("text", x)
    OBVIOUS
  <2>3. /\ t = <<>> /\ x = <<>> => d = <<>>
        /\ t # <<>> /\ x = <<>> => d = <<Block("thinking", t)>>
        /\ t = <<>> /\ x # <<>> => d = <<Block("text", x)>>
    BY <2>2, AnswerIs
  <2>4. ASSUME NEW k \in Kinds, NEW y \in Seq(Values)
        PROVE  Block(k, y) \in BlockSet /\ Block(k, y).kind \in Kinds
    BY DEF Block, BlockSet
  <2>5. "thinking" \in Kinds /\ "text" \in Kinds
    BY DEF Kinds
  <2>6. answer = d \o <<>>
    BY <1>6, <2>2 DEF AnswerOf
  <2>7. \A B \in BlockSet : <<B>> \o <<>> = <<B>>
    BY OneAndTwo
  <2>8. d # <<>>
    <3>1. <<>> \o <<>> = <<>>
      BY OneAndTwo
    <3> QED BY <1>6, <2>6, <3>1
  <2>9. CASE x = <<>>
    <3>1. d = <<Block("thinking", t)>>
      BY <2>3, <2>8, <2>9
    <3>2. PICK B \in BlockSet : B = Block("thinking", t) /\ B.kind \in Kinds
      BY <2>4, <2>5
    <3> QED BY <2>6, <2>7, <3>1, <3>2
  <2>10. CASE x # <<>>
    <3>1. d = <<Block("text", x)>>
      BY <2>1, <2>3, <2>10
    <3>2. PICK B \in BlockSet : B = Block("text", x) /\ B.kind \in Kinds
      BY <2>4, <2>5
    <3> QED BY <2>6, <2>7, <3>1, <3>2
  <2> QED BY <2>9, <2>10
<1> QED BY <1>1, <1>3, <1>12, <1>13

\* Who sends back the answer that it read finds the agent of the turn before, but for the
\* answers that the property excepts.
THEOREM EchoesAlwaysFind == Spec => []EchoFindsItsAgent
<1>1. IInv => EchoFindsItsAgent
  <2> SUFFICES ASSUME IInv, NEW c \in Clients, Finished(c), phase = "final",
                      writer[c].proto = "messages" => ~Interleaved \/ ~writer[c].stream,
                      writer[c].proto = "responses" => ~Has(answer, "thinking") \/ ~Has(answer, "text")
               PROVE  FindsItsAgent(c)
    BY DEF EchoFindsItsAgent
  <2>1. /\ Assembled(writer[c]) = answer /\ writer[c].proto \in Protocols
        /\ writer[c].proto = "responses" => \E B \in BlockSet : answer = <<B>> /\ B.kind \in Kinds
    BY ReadsTheAnswer
  <2>2. answer \in Seq(BlockSet)
    BY DEF IInv, TypeOK
  <2>3. PICK proto \in Protocols : proto = writer[c].proto
    BY <2>1
  <2>4. LineageKey(Parse(proto, (Asked(proto) \o EchoItems(proto, answer)) \o <<Item("user", Said(More))>>))
          = NextLineageKey(Parse(proto, Asked(proto)), answer)
    BY <2>1, <2>2, <2>3, EchoIsFound
  <2> QED BY <2>1, <2>3, <2>4 DEF FindsItsAgent, Sends
<1> QED BY <1>1, Invariance, PTL

================================================================================
