--------------------------- MODULE MCJWTExchange ---------------------------
(* JWTExchange for audience lists that share members, one of them in two   *)
(* orders.                                                                 *)
EXTENDS JWTExchange

CONSTANTS a, b

MCAudienceLists == {<<a>>, <<a, b>>, <<b, a>>}
=============================================================================
