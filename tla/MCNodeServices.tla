--------------------------- MODULE MCNodeServices ---------------------------
(***************************************************************************)
(* Two services of the node: its gateway client, with a channel of two     *)
(* frames, and the deploy commands, on one deployment of at most two       *)
(* replicas where up to two things go wrong.  The gateway client runs the  *)
(* commands one after the other; otherwise the services share no variable, *)
(* and each behaviour moves one of them, `part`.                           *)
(***************************************************************************)
EXTENDS GatewayClient, Deployments

CONSTANTS i1, i2, web, v1, v2

VARIABLE part

ServicesInit == part \in {"client", "deploy"} /\ Init /\ DeployInit

ServicesNext == \/ part = "client" /\ Next /\ UNCHANGED <<part, deploy_vars>>
                \/ part = "deploy" /\ DeployNext /\ UNCHANGED <<part, vars>>

\* While part is "deploy" no action that Fairness names is enabled.
ServicesSpec == /\ ServicesInit /\ [][ServicesNext]_<<part, vars, deploy_vars>>
                /\ Fairness

\* With no more frames outstanding than the channel of client.rs holds, the client always
\* notices a close and leaves the connection, and every result leaves its channel.
ClientProgresses == NoticesClose /\ ResultsLeave
=============================================================================
