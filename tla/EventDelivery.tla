--------------------------- MODULE EventDelivery ---------------------------
(***************************************************************************)
(* What the event backbone promises: a reaction only to what was committed,*)
(* and a reaction, sooner or later and perhaps repeatedly, to everything   *)
(* that was.  EventPipeline is shown to implement it.                      *)
(***************************************************************************)
CONSTANT Events

VARIABLES
    emitted,    \* events whose transaction committed
    settled     \* events the workers have reacted to

vars == <<emitted, settled>>

Init ==
    /\ emitted = {}
    /\ settled = {}

Emit(batch) ==
    /\ batch # {} /\ batch \cap emitted = {}
    /\ emitted' = emitted \cup batch
    /\ UNCHANGED settled

Settle(e) ==
    /\ e \in emitted
    /\ settled' = settled \cup {e}
    /\ UNCHANGED emitted

Next ==
    \/ \E batch \in SUBSET Events : Emit(batch)
    \/ \E e \in Events : Settle(e)

\* No reaction but to what was committed.
Safety == Init /\ [][Next]_vars

\* Nothing that was emitted waits for ever.
Settlement == \A e \in Events : e \in emitted ~> e \in settled

Spec == Safety /\ Settlement
=============================================================================
