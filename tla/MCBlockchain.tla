---------------------------- MODULE MCBlockchain ----------------------------
(***************************************************************************)
(* Header trees for Blockchain.  The checkpoint k1 is at height 1; branches *)
(* a, b and c leave it at height 2, d leaves a at height 3; w3 does not have *)
(* the work it must.                                                       *)
(***************************************************************************)
EXTENDS Blockchain

TwoBranches == {"k0", "k1", "a2", "a3", "a4", "a5", "b2", "b3", "b4", "b5", "c2", "w3"}
ForkOfFork == {"k0", "k1", "a2", "a3", "b2", "b3", "b4", "d3"}
PrevOf == [h \in Header \ {"k0"} |->
             CASE h = "k1" -> "k0" [] h \in {"a2", "b2", "c2"} -> "k1"
               [] h \in {"a3", "d3"} -> "a2" [] h = "a4" -> "a3" [] h = "a5" -> "a4"
               [] h = "b3" -> "b2" [] h = "b4" -> "b3" [] h = "b5" -> "b4" [] h = "w3" -> "c2"]
HeightOf == [h \in Header |-> CASE h = "k0" -> 0 [] h = "k1" -> 1 [] h \in {"a2", "b2", "c2"} -> 2
                                [] h \in {"a3", "b3", "d3", "w3"} -> 3
                                [] h \in {"a5", "b5"} -> 5 [] OTHER -> 4]
TrunkOf == <<"k0", "k1">>
HonestChunks == {s \in {<<g, h>> : g, h \in Header} : s[1] # "k0" /\ s[2] # "k0" /\ Prev[s[2]] = s[1]}
                   \ {<<"c2", "w3">>}
AnyChunks == HonestChunks \cup {<<"c2", "w3">>}
=============================================================================
