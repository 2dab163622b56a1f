--------------------------- MODULE MCToolboxWatch ---------------------------
(***************************************************************************)
(* ToolboxWatch with a monitor list that fails over, and back.             *)
(***************************************************************************)
EXTENDS ToolboxWatch

MCAddr == {"10.0.0.1", "10.0.0.2", "10.0.0.3"}
Mon(n, a) == [name |-> n, addr |-> a]
MCEndpoints == {<<Mon("a", "10.0.0.1"), Mon("b", "10.0.0.2")>>,
                <<Mon("b", "10.0.0.2"), Mon("c", "10.0.0.3")>>}
=============================================================================
