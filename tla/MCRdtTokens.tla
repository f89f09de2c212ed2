---------------------------- MODULE MCRdtTokens ----------------------------
(* One seller's orders from two lanes, and a restricted and another report. *)
EXTENDS RdtTokens, TLC

Orders(merchant, lane) == Call("pii", merchant, "orders", lane, None)

MCCalls ==
  {Orders("m1", "eu"), Orders("m1", "na"), Orders("m2", "eu"),
   Call("force", "m1", "orders/1", "eu", None), Call("plain", "m1", "catalog", "eu", None),
   Call("create", "m1", "p1", "eu", "SHIPPING"), Call("create", "m1", "p2", "eu", "INVENTORY")}
    \cup {Call(k, "m1", p, "eu", None) : k \in {"poll", "download"}, p \in {"p1", "p2"}}

(* The requests of one client for one operation.                           *)
MCOneClient == {Orders("m1", "eu")}

Symmetry == Permutations(Requests)
=============================================================================
