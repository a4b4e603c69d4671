----------------------------- MODULE FrameQueue -----------------------------
(***************************************************************************)
(* What a capture queue promises its user: buffers are completed and       *)
(* handed back in the order they were queued, each once, until a reset     *)
(* takes all of them back.                                                 *)
(***************************************************************************)
EXTENDS Sequences, SequencesExt

CONSTANT Buffers

VARIABLES
  pending,   \* queued and not completed, oldest first
  ready      \* completed and not handed back, oldest first

Init == pending = <<>> /\ ready = <<>>

(* The user queues b, which it owns.                                       *)
Queue(b) ==
  /\ b \notin ToSet(pending) \cup ToSet(ready)
  /\ pending' = Append(pending, b)
  /\ UNCHANGED ready

(* The oldest pending buffer is completed.                                 *)
Complete ==
  /\ pending # <<>>
  /\ ready' = Append(ready, Head(pending))
  /\ pending' = Tail(pending)

(* The oldest completed buffer is handed back.                             *)
Take ==
  /\ ready # <<>>
  /\ ready' = Tail(ready)
  /\ UNCHANGED pending

(* The stream is stopped or its buffers are freed.                         *)
Reset == pending' = <<>> /\ ready' = <<>>

Next == (\E b \in Buffers : Queue(b)) \/ Complete \/ Take \/ Reset

Spec == Init /\ [][Next]_<<pending, ready>>
=============================================================================
