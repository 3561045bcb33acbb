----------------------------- MODULE MCLuaCall -----------------------------
EXTENDS LuaCall

\* Nothing distinguishes one coroutine from another.
CoSymmetry == Permutations(Co)
=============================================================================
