------------------------------- MODULE MCCaConn -------------------------------
(* Instances of the connection for model checking.                         *)
EXTENDS CaConn

OnePolled == {<<"c1", "Monitor">>, <<"c2", "Poll">>}
===============================================================================
