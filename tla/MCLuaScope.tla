----------------------------- MODULE MCLuaScope -----------------------------
EXTENDS LuaScope

\* Closures among ifs, loops, jumps and labels; shadowing in nested functions; two
\* gotos through nested blocks.
MCBudgets ==
  {[local |-> 1, use |-> 1, function |-> 1, block |-> 1, loop |-> 0, jump |-> 1, label |-> 1, control |-> 3],
   [local |-> 1, use |-> 1, function |-> 1, block |-> 0, loop |-> 1, jump |-> 1, label |-> 1, control |-> 3],
   [local |-> 0, use |-> 1, function |-> 1, block |-> 1, loop |-> 1, jump |-> 1, label |-> 0, control |-> 3],
   [local |-> 2, use |-> 2, function |-> 2, block |-> 1, loop |-> 0, jump |-> 0, label |-> 0, control |-> 1],
   [local |-> 0, use |-> 0, function |-> 0, block |-> 2, loop |-> 1, jump |-> 2, label |-> 1, control |-> 4]}
=============================================================================
