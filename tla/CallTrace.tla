------------------------------ MODULE CallTrace ------------------------------
(***************************************************************************)
(* What a recorded trace promises its reader, whichever recorder wrote it: *)
(* calls and returns nest, one frame is entered or left at a time, the     *)
(* entry frame stays open as long as the recording runs, and a finished    *)
(* trace has closed every frame exactly once.                              *)
(***************************************************************************)
EXTENDS Naturals, Sequences

CONSTANTS Function,   \* what names a frame
          Toplevel,   \* the frame start() opens
          Place,      \* what a step shows
          None

VARIABLES open,       \* functions whose calls are open, outermost first
          position,   \* the place the trace currently shows, or None
          status

vars == <<open, position, status>>

Positions == Place \union {None}

TypeOK ==
  /\ open \in Seq(Function)
  /\ position \in Positions
  /\ status \in {"unopened", "recording", "closed", "abandoned"}

Init == open = <<>> /\ position = None /\ status = "unopened"

Open == /\ status = "unopened"
        /\ open' = <<Toplevel>>
        /\ position' \in Place
        /\ status' = "recording"

(* The program has moved on inside the frame it was in. *)
Move == /\ status = "recording"
        /\ position' \in Place
        /\ UNCHANGED <<open, status>>

(* One frame more. *)
OneMore(before, after) ==
  /\ Len(after) = Len(before) + 1
  /\ SubSeq(after, 1, Len(before)) = before
  /\ after[Len(after)] \in Function

Enter == /\ status = "recording"
         /\ OneMore(open, open')
         /\ position' \in Positions
         /\ UNCHANGED status

Leave == /\ status = "recording"
         /\ Len(open) > 1
         /\ open' = SubSeq(open, 1, Len(open) - 1)
         /\ position' \in Positions
         /\ UNCHANGED status

(* A frame ends and its sibling begins, with no step of the caller between. *)
Sibling == /\ status = "recording"
           /\ Len(open) > 1
           /\ OneMore(SubSeq(open, 1, Len(open) - 1), open')
           /\ position' \in Positions
           /\ UNCHANGED status

(* The program ended: whatever is still open is closed. *)
Close == /\ status = "recording"
         /\ open' = <<>>
         /\ position' = None
         /\ status' = "closed"

(* The recorder returned an error: the trace is never finished. *)
Abandon == /\ status \in {"unopened", "recording"}
           /\ status' = "abandoned"
           /\ \/ UNCHANGED <<open, position>>
              \/ open' = <<>> /\ position' = None

Next == Open \/ Move \/ Enter \/ Leave \/ Sibling \/ Close \/ Abandon

Spec == Init /\ [][Next]_vars
==============================================================================
