--------------------------- MODULE MCMysqlClient ---------------------------
(* Two structures: one leaked by a failed connect, one in use.  Three        *)
(* statements: one whose rows nobody fetches, one refused, one after it.     *)
EXTENDS MysqlClient

MCHandles == {1, 2}
=============================================================================
