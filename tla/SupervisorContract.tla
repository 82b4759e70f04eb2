------------------------ MODULE SupervisorContract --------------------------
(***************************************************************************)
(* What a campaign may rely on about its supervisor: a worker is launched  *)
(* at most once and only before Stop, it may end for any reason, and when  *)
(* Stop returns none of the launched workers is left.                      *)
(***************************************************************************)
CONSTANT Workers

VARIABLES phase,  \* of each worker: idle, live (restarts included), over
          stop    \* of the one call of Stop: no, asked, returned

Init == phase = [w \in Workers |-> "idle"] /\ stop = "no"

Launch(w) ==
    /\ phase[w] = "idle" /\ stop = "no"
    /\ phase' = [phase EXCEPT ![w] = "live"]
    /\ UNCHANGED stop

End(w) ==
    /\ phase[w] = "live"
    /\ phase' = [phase EXCEPT ![w] = "over"]
    /\ UNCHANGED stop

Ask == stop = "no" /\ stop' = "asked" /\ UNCHANGED phase

Return ==
    /\ stop = "asked"
    /\ \A w \in Workers : phase[w] # "live"
    /\ stop' = "returned"
    /\ UNCHANGED phase

Next == Ask \/ Return \/ \E w \in Workers : Launch(w) \/ End(w)

Spec == Init /\ [][Next]_<<phase, stop>>
=============================================================================
