------------------------------ MODULE ToLayout ------------------------------
(***************************************************************************)
(* What a layout conversion promises: in one step the tensor has the       *)
(* layout, the data type and the memory that were asked for, or, exactly   *)
(* when the conversion is unsupported, it is refused and the caller keeps  *)
(* the tensor as it was.                                                   *)
(***************************************************************************)
CONSTANTS
    Descs,
    Unsupported(_, _)   \* the conversions that are refused

VARIABLES
    tensor,             \* the descriptor of the caller's tensor
    wanted,             \* the descriptor that it is to be converted to
    outcome             \* pending, converted, refused

Init ==
    /\ tensor \in Descs
    /\ wanted \in Descs
    /\ outcome = "pending"

Convert ==
    /\ outcome = "pending"
    /\ ~Unsupported(tensor, wanted)
    /\ outcome' = "converted"
    /\ tensor' = wanted
    /\ UNCHANGED wanted

Refuse ==
    /\ outcome = "pending"
    /\ Unsupported(tensor, wanted)
    /\ outcome' = "refused"
    /\ UNCHANGED <<tensor, wanted>>

Next == Convert \/ Refuse

Spec == Init /\ [][Next]_<<tensor, wanted, outcome>>
=============================================================================
