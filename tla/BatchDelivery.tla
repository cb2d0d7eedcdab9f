--------------------------- MODULE BatchDelivery ---------------------------
(***************************************************************************)
(* What a positive-worker loader promises the training loop, with no       *)
(* workers, channels or buffers in sight: each iterator yields the batches *)
(* of its plan once each, in plan order when the loader is ordered, then   *)
(* ends; or it yields one error and then ends.                             *)
(***************************************************************************)
EXTENDS Naturals, Sequences, Functions

CONSTANT Batches    \* how many batches the plan of one iterator has, in Nat

Plan == 0 .. Batches - 1

VARIABLES
    ordered,    \* delivery order chosen when the loader is built
    delivered,  \* the batches the current iterator has yielded so far
    status      \* "open", "end" after None, "failed" after Some(Err(_))

vars == <<ordered, delivered, status>>

TypeOK ==
    /\ ordered \in BOOLEAN
    /\ delivered \in Seq(Plan)
    /\ status \in {"open", "end", "failed"}

Init ==
    /\ ordered \in BOOLEAN
    /\ delivered = <<>>
    /\ status = "open"

NewIterator ==
    /\ delivered' = <<>>
    /\ status' = "open"
    /\ UNCHANGED ordered

Yield(b) ==
    /\ status = "open"
    /\ b \notin Range(delivered)
    /\ ordered => b = Len(delivered)
    /\ delivered' = Append(delivered, b)
    /\ UNCHANGED <<ordered, status>>

End ==
    /\ status = "open"
    /\ Range(delivered) = Plan
    /\ status' = "end"
    /\ UNCHANGED <<ordered, delivered>>

Fail ==
    /\ status = "open"
    /\ status' = "failed"
    /\ UNCHANGED <<ordered, delivered>>

Next ==
    \/ NewIterator
    \/ \E b \in Plan : Yield(b)
    \/ End
    \/ Fail

Spec == Init /\ [][Next]_vars
=============================================================================
