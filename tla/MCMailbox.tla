------------------------------ MODULE MCMailbox ------------------------------
(***************************************************************************)
(* The LED program with a short wait: a GPU that may be as prompt as it    *)
(* likes or leaves the message for a while, and that needs next to         *)
(* nothing, up to the whole wait, a step more, or several rounds.          *)
(***************************************************************************)
EXTENDS Mailbox

MCTimings ==
    {t \in {0, 1, 2, 4} \X {1, 3, WaitLoops + 3, WaitLoops + 4, 60} :
        t[1] <= t[2]}
=============================================================================
