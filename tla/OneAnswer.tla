----------------------------- MODULE OneAnswer -----------------------------
(***************************************************************************)
(* What the Cloudflare trace detection promises: ask several endpoints and *)
(* take one good answer.  It gives up only when its context has ended or   *)
(* when every endpoint has failed, takes no answer after the context has   *)
(* ended, and does not ask forever.                                        *)
(***************************************************************************)
CONSTANT Endpoints

VARIABLES live,      \* whether the context is neither cancelled nor expired
          replies,   \* what each endpoint has answered so far
          taken,     \* the endpoint whose answer is taken, as a set
          gaveUp     \* whether the detection reported that it has no answer

vars == <<live, replies, taken, gaveUp>>

Pending == taken = {} /\ ~gaveUp

Init == /\ live = TRUE
        /\ replies = [e \in Endpoints |-> "none"]
        /\ taken = {} /\ gaveUp = FALSE

Reply(e) ==
    /\ replies[e] = "none"
    /\ \E r \in {"good", "bad"} : replies' = [replies EXCEPT ![e] = r]
    /\ UNCHANGED <<live, taken, gaveUp>>

End == live /\ live' = FALSE /\ UNCHANGED <<replies, taken, gaveUp>>

Accept(e) ==
    /\ Pending /\ live /\ replies[e] = "good"
    /\ taken' = {e} /\ UNCHANGED <<live, replies, gaveUp>>

GiveUp ==
    /\ Pending
    /\ live => \A e \in Endpoints : replies[e] = "bad"
    /\ gaveUp' = TRUE /\ UNCHANGED <<live, replies, taken>>

Decide == GiveUp \/ \E e \in Endpoints : Accept(e)

Next == Decide \/ End \/ \E e \in Endpoints : Reply(e)

Spec == Init /\ [][Next]_vars /\ WF_vars(Decide) /\ WF_vars(Pending /\ End)
=============================================================================
