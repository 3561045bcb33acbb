------------------------------ MODULE MCLuaGc ------------------------------
EXTENDS LuaGc

Heap(all, fino, st, m, e, uv, up) ==
  [allgc |-> all, finobj |-> fino,
   stack |-> [th \in Thread |-> IF th = Main THEN st[1] ELSE st[2]],
   mode |-> [x \in Tab |-> m], entry |-> [x \in Tab |-> e],
   uservalue |-> [x \in Udata |-> uv], upval |-> [x \in Lcl |-> up]]

NoUp == [open |-> Nil, v |-> Nil, touched |-> FALSE]
Empty == <<Nil, Nil>>
The(S) == CHOOSE x \in S : TRUE

\* A table with a userdata that has a finalizer, under every weak mode, in use and
\* reached from the userdata alone; a table and a userdata with finalizers that
\* nothing refers to; a closure over a variable of a coroutine that holds a table.
MCStart ==
  LET t == The(Tab)  u == The(Udata)  s == The(Str)
  IN  {Heap(<<u, t>>, <<>>, <<<<t, u>>, <<Nil>>>>, "strong", Empty, v, NoUp) : v \in {Nil, t}}
      \cup {Heap(<<s, t>>, <<u>>, <<<<t, Nil>>, <<Nil>>>>, e[1], e[2], Nil, NoUp) :
             e \in {<<"k", <<u, s>>>>, <<"v", <<s, u>>>>, <<"kv", <<u, u>>>>}}
      \cup {Heap(<<The(Co), s, t>>, <<u>>, <<<<Nil, Nil>>, <<Nil>>>>, "v", <<s, The(Co)>>, t, NoUp),
            Heap(<<s>>, <<u, t>>, <<<<Nil, Nil>>, <<Nil>>>>, "strong", <<s, u>>, Nil, NoUp)}
      \cup {Heap(<<The(Co), c, t>>, <<>>, <<<<c, The(Co)>>, <<t>>>>, "strong", Empty, Nil,
                 [open |-> The(Co), v |-> Nil, touched |-> TRUE]) : c \in Lcl}
=============================================================================
