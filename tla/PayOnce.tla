------------------------------- MODULE PayOnce -------------------------------
(***************************************************************************)
(* What a relayer flow of the bridge promises, whatever its maps, tables   *)
(* and locks look like: an event is opened at most once, paid at most      *)
(* once, and only after it was opened.  The transactions of the treasury   *)
(* and the proposals of the governor keep the same promise: submitted or   *)
(* proposed is open, executed is paid.                                     *)
(***************************************************************************)
CONSTANT Event

VARIABLES open, \* the events that wait for a payment
          paid  \* the events that were paid

Init == open = {} /\ paid = {}

Open(e) ==
  /\ e \notin open \cup paid
  /\ open' = open \cup {e}
  /\ UNCHANGED paid

Pay(e) ==
  /\ e \in open
  /\ open' = open \ {e}
  /\ paid' = paid \cup {e}

Next == \E e \in Event : Open(e) \/ Pay(e)

Spec == Init /\ [][Next]_<<open, paid>>
=============================================================================
