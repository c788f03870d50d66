---------------------------- MODULE MCHeaderSync ----------------------------
(***************************************************************************)
(* A header tree for HeaderSync.  k1 is the checkpoint, branches a and b    *)
(* leave a2 at height 3, and x is a chain that does not have the checkpoint.*)
(***************************************************************************)
EXTENDS HeaderSync

CONSTANTS s1, s2

Forks == {"k0", "k1", "a2", "a3", "b3", "b4", "x1", "x2"}
PrevOf == [h \in Header \ {"k0"} |->
             CASE h \in {"k1", "x1"} -> "k0" [] h = "a2" -> "k1" [] h = "x2" -> "x1"
               [] h \in {"a3", "b3"} -> "a2" [] h = "b4" -> "b3"]
HeightOf == [h \in Header |->
               CASE h = "k0" -> 0 [] h \in {"k1", "x1"} -> 1 [] h \in {"a2", "x2"} -> 2
                 [] h \in {"a3", "b3"} -> 3 [] h = "b4" -> 4]
TrunkOf == <<"k0", "k1">>
AllChunks == {<<h>> : h \in Header} \cup
             {s \in {<<g, h>> : g, h \in Header \ {"k0"}} : Prev[s[2]] = s[1]}

\* One server has the checkpoint and no more yet, the other starts on x.
StrayTips == [s \in Server |-> IF s = s1 THEN "k1" ELSE "x1"]
=============================================================================
