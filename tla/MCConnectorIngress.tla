------------------------- MODULE MCConnectorIngress --------------------------
(* A message with an id, an anonymous one and an approval command, or one    *)
(* from a stranger, for either connector.                                    *)
EXTENDS ConnectorIngress, ConnectorHealth, TLC

CONSTANTS m1, m2, m3, m4, background

Native   == {m1}
Unnamed  == {m2}
Approval == {m3}
Stranger == {m4}
Tokens   == m1 :> 1 @@ m2 :> 2 @@ m3 :> 0 @@ m4 :> 0
Both     == {"weixin", "telegram"}
=============================================================================
