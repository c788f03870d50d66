--------------------------- MODULE MCFusionPools ---------------------------
(***************************************************************************)
(* Small servers for FusionPools.                                          *)
(***************************************************************************)
EXTENDS FusionPools

CONSTANTS c1, c2, c3, c4, c5,   \* clients
          x, y                  \* tags

\* c1 has both tags, c2 and c3 one each, c4 the first one again; c5, as a
\* client from localhost that sends none, has no tag.
Tags ==
    [c \in Client |-> CASE c = c1 -> {x, y} [] c \in {c2, c4} -> {x} [] c = c3 -> {y} [] c = c5 -> {}]
FirstOrBoth == {{1}, {1, 2}}
Once == [g \in Tag |-> 1]
=============================================================================
