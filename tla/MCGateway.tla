----------------------------- MODULE MCGateway -----------------------------
(***************************************************************************)
(* Two wallets and a limit of one request per second.                      *)
(***************************************************************************)
EXTENDS GatewayProps

MCRequests ==
    {[id |-> 1, client |-> "a", kind |-> "proxy"],
     [id |-> 2, client |-> "a", kind |-> "proxy"],
     [id |-> 3, client |-> "b", kind |-> "proxy"],
     [id |-> 4, client |-> "b", kind |-> "query"],
     [id |-> 5, client |-> "b", kind |-> "refused"]}
=============================================================================
