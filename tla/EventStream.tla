---------------------------- MODULE EventStream ----------------------------
(***************************************************************************)
(* What the durable event log of src/astro_mine/cloud/runs/eventlog.py     *)
(* promises, whatever brokers and subscribers there are:                   *)
(*   append-only   - an event once published stays, at its sequence number;*)
(*   at least once - the consumer of one durable name acknowledges an      *)
(*                   event only when its handler has finished it, and      *)
(*                   resumes above what was acknowledged;                  *)
(*   in order      - no event is handled for the first time before all     *)
(*                   those ahead of it have been.                          *)
(* A delivery that repeats changes nothing here.  CloudRun implements it.  *)
(***************************************************************************)
EXTENDS Integers, Sequences

CONSTANT Events

VARIABLES
  stream,   \* the events, by sequence number
  floor,    \* the acknowledgement floor of the durable name
  handled   \* the sequence numbers the handler has finished

streamVars == <<stream, floor, handled>>

Init == stream = <<>> /\ floor = 0 /\ handled = {}

Publish(e) ==
  /\ stream' = Append(stream, e)
  /\ UNCHANGED <<floor, handled>>

Handle(n) ==
  /\ 1..(n - 1) \subseteq handled
  /\ handled' = handled \cup {n}
  /\ UNCHANGED <<stream, floor>>

(* The floor never rewinds. *)
Acknowledge(n) ==
  /\ floor < n /\ 1..n \subseteq handled
  /\ floor' = n
  /\ UNCHANGED <<stream, handled>>

Next ==
  \/ \E e \in Events : Publish(e)
  \/ \E n \in DOMAIN stream : Handle(n) \/ Acknowledge(n)

Spec == Init /\ [][Next]_streamVars
=============================================================================
