------------------------------ MODULE MCRouter ------------------------------
(* A routing table of addresses of two bits: a default route, a longer prefix *)
(* under it and one of its own interface for a single address.                *)
EXTENDS Router

MCTable == <<Entry(<<1, 0>>, 1, "A", 1), Entry(<<1, 1>>, 2, "B", 2), Entry(<<1, 0>>, 2, "A", 1)>>
MCOwn == <<0, 0>>
MCDestinations == {<<0, 1>>, <<1, 0>>, <<1, 1>>}
=============================================================================
