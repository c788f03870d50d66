---------------------------- MODULE HeaderChains ----------------------------
(***************************************************************************)
(* What blockchain.py promises: every chain the client knows is a path of   *)
(* the tree of headers, so it is given by its last header alone.  How the   *)
(* headers are split over files, and that a fork and its parent exchange    *)
(* their files when the fork becomes the longer one, is invisible here.     *)
(***************************************************************************)
EXTENDS Naturals

CONSTANTS
    Header,         \* block headers from the checkpoint on
    Prev,           \* Prev[h]: the header whose hash h names as its parent
    Height,         \* Height[h]: the height of h's block
    Checkpoint,     \* the header every chain starts from
    Chain,          \* Blockchain objects
    NoHeader        \* the tip of an object that does not exist

VARIABLES
    tip,            \* tip[c]: last header of chain c
    main            \* the chain kept in the root file

\* up(h)[n]: the header n blocks below h
up(h) == LET f[n \in 0..(Height[h] - Height[Checkpoint])] ==
                 IF n = 0 THEN h ELSE Prev[f[n - 1]]
         IN f

\* g is h or lies below it
Below(g, h) ==
    /\ Height[g] \in Height[Checkpoint]..Height[h]
    /\ up(h)[Height[h] - Height[g]] = g

Known == {c \in Chain : tip[c] # NoHeader}

Init == main \in Chain /\ tip = [c \in Chain |-> IF c = main THEN Checkpoint ELSE NoHeader]

\* Headers above the tip of a chain are added to it.
Extend(c, h) ==
    /\ c \in Known /\ h # tip[c] /\ Below(tip[c], h)
    /\ tip' = [tip EXCEPT ![c] = h]
    /\ UNCHANGED main

\* A header that follows one of c's starts chain d, or starts it again.
Branch(c, d, h) ==
    /\ c \in Known /\ d # main
    /\ Height[h] > Height[Checkpoint] /\ Below(Prev[h], tip[c])
    /\ tip' = [tip EXCEPT ![d] = h]
    /\ UNCHANGED main

\* A longer chain takes the root file.
Promote(d) ==
    /\ d \in Known /\ Height[tip[d]] > Height[tip[main]]
    /\ main' = d
    /\ UNCHANGED tip

\* The client stops, in the middle of a write or not, and starts again: it
\* invents no header, and what the root file held is not lost.
Restart ==
    /\ tip' \in [Chain -> Header \cup {NoHeader}]
    /\ main' \in Chain /\ tip'[main'] # NoHeader
    /\ \A d \in Chain : tip'[d] # NoHeader => \E c \in Known : Below(tip'[d], tip[c])
    /\ \E d \in Chain : tip'[d] # NoHeader /\ Below(tip[main], tip'[d])

Next ==
    \/ \E c \in Chain, h \in Header : Extend(c, h)
    \/ \E c, d \in Chain, h \in Header : Branch(c, d, h)
    \/ \E d \in Chain : Promote(d)
    \/ Restart

Spec == Init /\ [][Next]_<<tip, main>>
=============================================================================
