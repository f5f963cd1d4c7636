--------------------------- MODULE EscrowPromise ---------------------------
(***************************************************************************)
(* What an escrow promises its two parties: once funds are in, they leave  *)
(* at most once, whole, to the provider or to the buyer.  Both escrow      *)
(* implementations of the repository are shown to implement this.          *)
(***************************************************************************)
CONSTANT Escrows

VARIABLE custody   \* where the funds of each escrow are

Init == custody = [e \in Escrows |-> "unfunded"]

Fund(e) == /\ custody[e] = "unfunded"
           /\ custody' = [custody EXCEPT ![e] = "held"]

PayProvider(e) == /\ custody[e] = "held"
                  /\ custody' = [custody EXCEPT ![e] = "provider"]

PayBuyer(e) == /\ custody[e] = "held"
               /\ custody' = [custody EXCEPT ![e] = "buyer"]

Next == \E e \in Escrows : Fund(e) \/ PayProvider(e) \/ PayBuyer(e)

Spec == Init /\ [][Next]_custody
=============================================================================
