----------------------------- MODULE MCTigerNode -----------------------------
(***************************************************************************)
(* The instance of TigerNode that TLC checks: every transaction asks for   *)
(* the same gas.                                                           *)
(***************************************************************************)
EXTENDS TigerNode

MCGas == [tx \in Tx |-> 20]

\* The transactions, which are alike, are named in the order of their arrival.
MCArrival == \A tx \in accepted : 1..tx \subseteq accepted

\* The second transaction and the second validator occur in behaviours of
\* their own.
MCSize == Cardinality(accepted) + Cardinality(Registered) <= 3

\* What disturbs the node is a second start or a caller's blocks, not both, in
\* behaviours without transactions in which it is the only validator.
MCDisturbance ==
  ~Undisturbed =>
    /\ accepted = {}
    /\ Registered = {ValidatorAddr}
    /\ Committee = {ValidatorAddr}
    /\ ~(starts > 1 /\ imported)
=============================================================================
