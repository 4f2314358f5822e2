--------------------------------- MODULE Rings ---------------------------------
(***************************************************************************)
(* The two ring buffers of the process, log entries and activity records,  *)
(* and the event streams of the console that follow them (log-sink.ts,     *)
(* request-telemetry.ts, log-routes.ts).  An entry is its serial number.   *)
(***************************************************************************)
EXTENDS Naturals, Sequences

CONSTANTS
  Viewers,         \* connections that may follow a ring
  CapacitySteps    \* LOG_CAPACITY_STEPS

ASSUME RingsAssumption ==
  /\ CapacitySteps \subseteq Nat \ {0}
  /\ \E largest \in CapacitySteps : \A c \in CapacitySteps : c <= largest

VARIABLES
  rings,      \* of each ring: its buffer, and history: how many entries were pushed
  capacity,
  streams     \* of each viewer: the ring, the last entry it was sent, and history:
              \* whether no entry was left out

ringVars == <<rings, capacity, streams>>

RingNames == {"log", "activity"}
NoStream  == [ring |-> "none", last |-> 0, whole |-> TRUE]

Latest(n) == rings[n].pushed

RingsTypeOK ==
  /\ \A n \in RingNames : /\ rings[n].pushed \in Nat
                          /\ rings[n].buf \in Seq(Nat) /\ Len(rings[n].buf) <= capacity
  /\ capacity \in CapacitySteps
  /\ \A v \in Viewers : streams[v].ring \in RingNames \cup {"none"}

RingsInit ==
  /\ rings = [n \in RingNames |-> [buf |-> <<>>, pushed |-> 0]]
  /\ capacity = CHOOSE c \in CapacitySteps : \A d \in CapacitySteps : d <= c
  /\ streams = [v \in Viewers |-> NoStream]

\* (mutant: the oldest entries are kept)
FirstOf(buf, n) == IF Len(buf) <= n THEN buf ELSE SubSeq(buf, 1, n)

LastOf(buf, n) == IF Len(buf) <= n THEN buf ELSE SubSeq(buf, Len(buf) - n + 1, Len(buf))

\* push, record: into the buffer, then to every subscriber.
Push(names) ==
  /\ rings' = [n \in RingNames |->
                 IF n \notin names THEN rings[n]
                 ELSE [buf |-> LastOf(Append(rings[n].buf, Latest(n) + 1), capacity),
                       pushed |-> Latest(n) + 1]]
  /\ streams' = [v \in Viewers |->
                   LET s == streams[v]
                   IN  IF s.ring \notin names THEN s
                       ELSE [s EXCEPT !.last = Latest(s.ring) + 1,
                                      !.whole = @ /\ s.last = Latest(s.ring)]]
  /\ UNCHANGED capacity

SetCapacity(c) ==
  /\ capacity' = c
  /\ rings' = [n \in RingNames |-> [rings[n] EXCEPT !.buf = LastOf(@, c)]]
  /\ UNCHANGED streams

\* streamSse: what the buffer holds, then every entry as it comes.
OpenStream(v, n) ==
  LET buf == rings[n].buf
  IN  /\ streams[v].ring = "none"
      /\ streams' = [streams EXCEPT ![v] =
           [ring |-> n,
            last |-> IF buf = <<>> THEN Latest(n) ELSE buf[Len(buf)],
            whole |-> \A m \in 1 .. Len(buf) - 1 : buf[m + 1] = buf[m] + 1]]
      /\ UNCHANGED <<rings, capacity>>

CloseStream(v) ==
  /\ streams[v].ring # "none"
  /\ streams' = [streams EXCEPT ![v] = NoStream]
  /\ UNCHANGED <<rings, capacity>>

\* A console that follows a ring has seen every entry from its first one to the latest,
\* once and in order, whatever was trimmed meanwhile.
StreamsAreWhole ==
  \A v \in Viewers :
    streams[v].ring # "none" => streams[v].whole /\ streams[v].last = Latest(streams[v].ring)
=============================================================================
