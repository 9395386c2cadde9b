------------------------------ MODULE EventLog ------------------------------
(***************************************************************************)
(* The durable stream of one execution in the event store, as the sequence *)
(* of the kinds appended; the position of an event is its sequence number, *)
(* and an execution's cursor is a position.                                *)
(***************************************************************************)
EXTENDS Naturals, Sequences, ExecutionProtocol

\* The store refuses every append to a stream that has its terminal event.
terminated(log) == \E i \in DOMAIN log : log[i] \in TerminalKinds

\* An append that the store accepts.
appended(log, kind) == Append(log, kind)

\* An append whose refusal the caller swallows.
appendedIfOpen(log, kind) == IF terminated(log) THEN log ELSE appended(log, kind)
=============================================================================
