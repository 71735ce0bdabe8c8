----------------------------- MODULE MCGateway ------------------------------
(***************************************************************************)
(* Instances of Gateway: one endpoint with one replica that comes and      *)
(* goes, and one or two clients.                                           *)
(***************************************************************************)
EXTENDS Gateway

CONSTANTS chat, llama, pod1, get1, get2

Endpoints == {chat}
Models == {llama}
Serves == [e \in Endpoints |-> llama]
Replicas == {pod1}
TwoRequests == {get1, get2}
OneRequest == {get1}
=============================================================================
