------------------------------- MODULE MCPipe -------------------------------
(* A ring of two bytes, writes shorter and longer than it.                 *)
EXTENDS Pipe

CONSTANTS x, y

MCPayloads == {<<x>>, <<y, x, y>>}
=============================================================================
