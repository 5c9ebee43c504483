------------------------------ MODULE OneShot ------------------------------
(***************************************************************************)
(* What the contract (wit/preprocess.wit) promises of a plugin: one input, *)
(* one answer, and the answer is a function of the input.  That it comes   *)
(* about in chunks, in separate instances that run concurrently, is not    *)
(* to be seen in it.                                                       *)
(***************************************************************************)
CONSTANTS
    Input,      \* the trees the host may route to the plugin
    AnswerTo(_),
    Pending     \* no answer yet

VARIABLES input, out

vars == <<input, out>>
Init == input \in Input /\ out = Pending
Answer ==
    /\ out = Pending
    /\ out' = AnswerTo(input)
    /\ UNCHANGED input

Spec == Init /\ [][Answer]_vars
=============================================================================
