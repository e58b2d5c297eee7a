---------------------------- MODULE MCTokenChart ----------------------------
(* A short history, and a few trades of a pool and of the curve.           *)
EXTENDS TokenChart

MCPrices == {<<1, 1>>, <<3, 2>>, <<0, 0>>}
MCPasts == {<<1, 2>>, <<1, 5>>}
=============================================================================
