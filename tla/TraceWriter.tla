----------------------------- MODULE TraceWriter -----------------------------
(***************************************************************************)
(* The trace writer both recorders emit into: the Nim library behind       *)
(* codetracer_trace_writer_nim::TraceWriter.  Its source is not in the     *)
(* repository; the buffering modelled here is what src/src/recorder.rs     *)
(* says of it at lines 666-699 and how both recorders call it.             *)
(*                                                                         *)
(* A writer is one record:                                                 *)
(*   open      the functions whose calls are open, outermost first         *)
(*   steps     the committed steps, each with the values it carries        *)
(*   pending   the registered step that is not committed yet, or None      *)
(*   values    pendingValues: values that wait for a step to be committed  *)
(*   unmatched returns registered with no open call                        *)
(* The structured events (register_special_event) are a stream of their    *)
(* own, which the step buffer does not touch: each recorder keeps it in a  *)
(* variable.                                                               *)
(***************************************************************************)
EXTENDS Integers, Sequences

CONSTANT None    \* the absent value of an Option

(* create_trace_writer: nothing is written yet. *)
Created ==
  [ open |-> <<>>, steps |-> <<>>, pending |-> None,
    values |-> <<>>, unmatched |-> 0 ]

(* start(): registers <toplevel>, opens its call and emits the entry step. *)
Start(toplevel, place) ==
  [ open |-> <<toplevel>>, steps |-> <<>>, pending |-> place,
    values |-> <<>>, unmatched |-> 0 ]

(* flushPendingStep: the pending step is committed with whatever values    *)
(* wait.  With no pending step the values stay, and the next step to be    *)
(* committed takes them.                                                   *)
Flush(w) ==
  IF w.pending = None THEN w
  ELSE [w EXCEPT !.steps = Append(@, [place |-> w.pending, values |-> w.values]),
                 !.pending = None,
                 !.values = <<>>]

RegisterStep(w, place) == [Flush(w) EXCEPT !.pending = place]

RegisterValues(w, vs) == [w EXCEPT !.values = @ \o vs]

RegisterCall(w, fn) == [Flush(w) EXCEPT !.open = Append(@, fn)]

(* n calls of register_return in a row. *)
RegisterReturns(w, n) ==
  IF n = 0 THEN w
  ELSE [Flush(w) EXCEPT !.open = SubSeq(@, 1, Len(@) - n),
                        !.unmatched = @ + (IF n > Len(w.open) THEN n - Len(w.open)
                                                              ELSE 0)]

(* finish_writing_trace_events: the last pending step is committed; values *)
(* that wait for a step no one registered are lost.                        *)
FinishWriting(w) == [Flush(w) EXCEPT !.values = <<>>]

(* The values of the committed steps, step after step.                     *)
ValuesInSteps(w) ==
  LET upTo[i \in 0..Len(w.steps)] ==
        IF i = 0 THEN <<>> ELSE upTo[i - 1] \o w.steps[i].values
  IN  upTo[Len(w.steps)]

WriterType(Function, Place, Value) ==
  [ open : Seq(Function),
    steps : Seq([place : Place, values : Seq(Value)]),
    pending : Place \union {None},
    values : Seq(Value),
    unmatched : Nat ]
==============================================================================
