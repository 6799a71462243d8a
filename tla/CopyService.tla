---------------------------- MODULE CopyService ----------------------------
(***************************************************************************)
(* What a file copy promises to the user who started it: the entries       *)
(* arrive one by one and stay, the sender announces one verdict, "success" *)
(* only when all of them are there, and nothing arrives after a success.   *)
(* A copy that fails may leave some of them, and a receiver that does not  *)
(* know yet that the sender has given up may still store more.             *)
(***************************************************************************)
CONSTANT Goods      \* the entries to be copied

VARIABLES
    arrived,        \* entries in their final form at their place
    verdict         \* what the sender has told its caller

vars == <<arrived, verdict>>

Verdicts == {"none", "success", "failure", "cut"}

(* A name may be taken already; an entry may even be there already. *)
Init == arrived \subseteq Goods /\ verdict = "none"

Arrive(e) ==
    /\ verdict # "success"
    /\ e \notin arrived
    /\ arrived' = arrived \cup {e}
    /\ UNCHANGED verdict

Succeed ==
    /\ verdict = "none"
    /\ arrived = Goods
    /\ verdict' = "success"
    /\ UNCHANGED arrived

(* "cut": the sender was told to take a full receiver for a success. *)
Fail ==
    /\ verdict = "none"
    /\ verdict' \in {"failure", "cut"}
    /\ UNCHANGED arrived

Next == (\E e \in Goods : Arrive(e)) \/ Succeed \/ Fail

Spec == Init /\ [][Next]_vars
=============================================================================
