---------------------------- MODULE AdmissionRoom ----------------------------
(***************************************************************************)
(* What a channel limiter promises its callers, without its counters: in   *)
(* hard mode at most MaxConcurrent callers hold the channel and at most    *)
(* QueueSize wait for it; in soft mode everybody is let in.                *)
(***************************************************************************)
EXTENDS Integers, FiniteSets

CONSTANTS Callers, MaxConcurrent, QueueSize

VARIABLES inside, waiting   \* the callers that hold the channel, and those that wait

Soft == QueueSize = 0

RoomInside == Soft \/ Cardinality(inside) < MaxConcurrent
RoomToWait == Cardinality(waiting) < QueueSize

Enter(c) ==
  /\ c \notin inside \cup waiting /\ RoomInside
  /\ inside' = inside \cup {c} /\ UNCHANGED waiting

Queue(c) ==
  /\ c \notin inside \cup waiting /\ RoomToWait
  /\ waiting' = waiting \cup {c} /\ UNCHANGED inside

MoveUp(c) ==
  /\ c \in waiting /\ RoomInside
  /\ inside' = inside \cup {c} /\ waiting' = waiting \ {c}

LeaveQueue(c) ==
  /\ c \in waiting
  /\ waiting' = waiting \ {c} /\ UNCHANGED inside

Leave(c) ==
  /\ c \in inside
  /\ inside' = inside \ {c} /\ UNCHANGED waiting

RoomInit == inside = {} /\ waiting = {}

RoomNext ==
  \E c \in Callers: Enter(c) \/ Queue(c) \/ MoveUp(c) \/ LeaveQueue(c) \/ Leave(c)

RoomSpec == RoomInit /\ [][RoomNext]_<<inside, waiting>>
=============================================================================
