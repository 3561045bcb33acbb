------------------------------ MODULE LuaSteps ------------------------------
(***************************************************************************)
(* The statements of a C function, one after the other.                    *)
(***************************************************************************)

\* F goes on with what the statement before it has left.
Then(s, F(_)) == F(s)
=============================================================================
