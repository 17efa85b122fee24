-------------------------- MODULE MCForwardRegistry --------------------------
(* The requests and start arguments of the small instances.                *)
EXTENDS ForwardRegistry, TLC

CONSTANTS a, b, v4, v6, lan

Req(op, n, g, p, ip) == [op |-> op, name |-> n, guest |-> g, port |-> p, ip |-> ip]

(* Two names that compete for one port, a port chosen by the system, a     *)
(* second loopback address, and requests that must be refused.             *)
MCRequests ==
  {Req("add", a, 1, 1, None), Req("add", b, 1, 1, v6), Req("add", b, 2, 0, v4),
   Req("add", b, 0, 1, None), Req("add", a, 1, 2, lan), Req("add", a, 1, 2, None),
   Req("remove", a, 0, 0, None), Req("remove", b, 0, 0, None),
   Req("list", a, 0, 0, None)}

MCFewRequests ==
  {Req("add", a, 1, 1, None), Req("add", b, 1, 0, None),
   Req("remove", a, 0, 0, None)}

MCStart == <<[name |-> a, guest |-> 1, req |-> 1], [name |-> b, guest |-> 2, req |-> 0]>>
MCOneStart == <<[name |-> a, guest |-> 1, req |-> 1]>>
=============================================================================
