----------------------------- MODULE HeaderSync -----------------------------
(***************************************************************************)
(* How the network thread brings the header store up to the tips of the     *)
(* connected servers: new_interface, on_notify_header, _process_latest_tip, *)
(* on_header, on_block_headers and connection_down in                       *)
(* electronfittexxcoin/network.py, on top of Blockchain.                    *)
(*                                                                         *)
(* Each interface is in one of the modes of interface.py.  A handler is one *)
(* step, followed by the steps of swap_with_parent when a fork overtook its *)
(* parent.  A server answers from the chain it has when its answer is       *)
(* handled; the tip notification is handled in the step in which the server *)
(* moves to the new tip, which loses nothing as a connection keeps the      *)
(* order of its messages.  A server moves to higher tips only.              *)
(***************************************************************************)
EXTENDS Blockchain, FiniteSetsExt

CONSTANTS
    Server,         \* servers the client may be connected to
    FirstTip,       \* FirstTip[s]: the tip of s at the start
    Reorgs,         \* servers that may leave their chain for a higher one
    ChunkSize,      \* headers in a chunk (2016)
    NoChain,        \* interface.blockchain is None
    Nobody          \* catch_up is None

VARIABLES
    served,         \* served[s]: the tip of server s
    mode,           \* mode[s]: the interface's mode, or "down"
    tip,            \* tip[s]: interface.tip_header
    on,             \* on[s]: interface.blockchain
    good,           \* good[s]: interface.good
    bad,            \* bad[s]: interface.bad_header, of height interface.bad
    request,        \* request[s]: requests s has not answered
    verified,       \* checkpoint_servers_verified: "no", "asked" or "root"
    catch_up        \* catch_up[c]: who catches up chain c

VBH == VERIFICATION_BLOCK_HEIGHT

ASSUME ServerAssumption ==
    /\ IsFiniteSet(Header)
    /\ FirstTip \in [Server -> Header] /\ Reorgs \subseteq Server
    /\ ChunkSize \in Nat \ {0}
    /\ \A n \in 1..ChunkSize :
          {d \in [1..n -> Header \ {Genesis}] : \A i \in 2..n : Prev[d[i]] = d[i - 1]} \subseteq Chunks
    /\ Chain # {} /\ NoChain \notin Chain
    /\ Nobody \notin {"server", "interface"} \X Server

storeVars == vars
ifaceVars == <<mode, tip, on, good, bad, request>>
syncVars == <<storeVars, served, ifaceVars, verified, catch_up>>

MaxHeight == Max({Height[h] : h \in Header})

\* the header at height n of the chain that ends with h
at(h, n) == LET f[k \in 0..Height[h]] == IF k = Height[h] THEN h ELSE Prev[f[k + 1]]
            IN f[n]

Searching == {"backward", "binary", "catch_up"}
header(n) == [kind |-> "header", at |-> n]
headers(n) == [kind |-> "headers", at |-> n]
proof == [kind |-> "proof", at |-> VBH]

\* The client ran before: the headers up to the checkpoint are stored.
SyncInit ==
    /\ file = [b \in {ROOT} |-> Trunk]
    /\ parent = [b \in {ROOT} |-> ROOT]
    /\ blockchains = [b \in {ROOT} |-> CHOOSE c \in Chain : TRUE]
    /\ swapping = NoSwap /\ crashes = 0
    /\ served = FirstTip
    /\ mode = [s \in Server |-> "down"]
    /\ tip = [s \in Server |-> NoHeader]
    /\ on = [s \in Server |-> NoChain]
    /\ good = [s \in Server |-> 0]
    /\ bad = [s \in Server |-> NoHeader]
    /\ request = [s \in Server |-> {}]
    /\ verified = [s \in Server |-> "no"]
    /\ catch_up = [c \in Chain |-> Nobody]

\* interface s goes on in mode m with the requests R
Go(s, m, R) ==
    /\ mode' = [mode EXCEPT ![s] = m]
    /\ request' = [request EXCEPT ![s] = R]

\* the end of on_header: how the header at height n is asked for
ask(s, m, n) ==
    IF m = "catch_up" /\ Height[tip[s]] > n THEN headers(n) ELSE header(n)

-----------------------------------------------------------------------------
(* Connections.                                                            *)

new_interface(s) ==
    /\ swapping = NoSwap
    /\ mode[s] = "down"
    /\ Go(s, "verification", {})
    /\ UNCHANGED <<storeVars, served, tip, on, good, bad, verified, catch_up>>

\* Mutant: the chains the server was catching up stay marked.
released_None(s) == catch_up

released(s) == [c \in Chain |-> IF catch_up[c] = <<"server", s>> THEN Nobody ELSE catch_up[c]]

\* The interface object is dropped.  Only the name of the server releases a
\* chain: see initial_catch_up.
connection_down(s) ==
    /\ Go(s, "down", {})
    /\ tip' = [tip EXCEPT ![s] = NoHeader]
    /\ on' = [on EXCEPT ![s] = NoChain]
    /\ good' = [good EXCEPT ![s] = 0]
    /\ bad' = [bad EXCEPT ![s] = NoHeader]
    /\ catch_up' = released(s)
    /\ UNCHANGED <<storeVars, served, verified>>

lost(s) == swapping = NoSwap /\ mode[s] # "down" /\ connection_down(s)

-----------------------------------------------------------------------------
(* Tips.                                                                   *)

connectable(h) ==
    LET root == blockchains[ROOT]
    IN IF can_connect(root, h, TRUE) THEN {root} ELSE {o \in Live : can_connect(o, h, TRUE)}

highest == Max({top(file, b) : b \in Base})

known_tip(s, h, R) ==
    /\ holders(h) # {}
    /\ \E o \in holders(h) : on' = [on EXCEPT ![s] = o]
    /\ Go(s, "default", R)
    /\ UNCHANGED <<storeVars, good, bad, catch_up>>

next_tip(s, h, R) ==
    /\ holders(h) = {}
    /\ \E o \in connectable(h) : save_header(o, h) /\ on' = [on EXCEPT ![s] = o]
    /\ Go(s, "default", R)
    /\ UNCHANGED <<good, bad, catch_up>>

start_search(s, h, R) ==
    /\ holders(h) = {} /\ connectable(h) = {}
    /\ highest > VBH
    /\ bad' = [bad EXCEPT ![s] = h]
    /\ Go(s, "backward", R \cup {header(Min({highest, Height[h] - 1}))})
    /\ UNCHANGED <<storeVars, on, good, catch_up>>

\* Mutant: the interface is not put on the chain it is to catch up.
initial_catch_up_Detached(s, h, R) ==
    /\ holders(h) = {} /\ connectable(h) = {}
    /\ highest = VBH /\ catch_up[blockchains[ROOT]] = Nobody
    /\ catch_up' = [catch_up EXCEPT ![blockchains[ROOT]] = <<"interface", s>>]
    /\ Go(s, "catch_up", R \cup {header(VBH + 1)})
    /\ UNCHANGED <<storeVars, on, good, bad>>

\* The chain is marked with the interface, not with its server.
initial_catch_up(s, h, R) ==
    /\ holders(h) = {} /\ connectable(h) = {}
    /\ highest = VBH /\ catch_up[blockchains[ROOT]] = Nobody
    /\ catch_up' = [catch_up EXCEPT ![blockchains[ROOT]] = <<"interface", s>>]
    /\ on' = [on EXCEPT ![s] = blockchains[ROOT]]
    /\ Go(s, "catch_up", R \cup {header(VBH + 1)})
    /\ UNCHANGED <<storeVars, good, bad>>

already_catching_up(s, h, R) ==
    /\ holders(h) = {} /\ connectable(h) = {}
    /\ highest = VBH /\ catch_up[blockchains[ROOT]] # Nobody
    /\ Go(s, "default", R)
    /\ UNCHANGED <<storeVars, on, good, bad, catch_up>>

\* The interface is in default mode, with tip h and requests R.
_process_latest_tip(s, h, R) ==
    \/ known_tip(s, h, R)
    \/ next_tip(s, h, R)
    \/ start_search(s, h, R)
    \/ initial_catch_up(s, h, R)
    \/ already_catching_up(s, h, R)

\* on_notify_header: server s moves to h and says so, or answers the
\* subscription.
moves(s, h) ==
    \/ tip[s] = NoHeader /\ h = served[s]
    \/ Height[h] > Height[served[s]] /\ (s \in Reorgs \/ at(h, Height[served[s]]) = served[s])

notified(s, h) ==
    /\ swapping = NoSwap
    /\ mode[s] # "down" /\ moves(s, h)

behind(s) ==
    /\ notified(s, served[s]) /\ Height[served[s]] <= VBH
    /\ connection_down(s)

on_notify_header(s, h) ==
    /\ notified(s, h) /\ Height[h] > VBH
    /\ served' = [served EXCEPT ![s] = h]
    /\ tip' = [tip EXCEPT ![s] = h]
    /\ \/ /\ mode[s] = "verification" /\ verified[s] = "no"     \* request_initial_proof_and_headers
          /\ verified' = [verified EXCEPT ![s] = "asked"]
          /\ Go(s, "verification", {proof})
          /\ UNCHANGED <<storeVars, on, good, bad, catch_up>>
       \/ /\ mode[s] = "verification" /\ verified[s] # "no"     \* "bypassed"
          /\ _process_latest_tip(s, h, request[s])
          /\ UNCHANGED verified
       \/ /\ mode[s] = "default"
          /\ _process_latest_tip(s, h, request[s])
          /\ UNCHANGED verified
       \/ /\ mode[s] \in Searching
          /\ UNCHANGED <<storeVars, mode, on, good, bad, request, verified, catch_up>>

-----------------------------------------------------------------------------
(* on_header: the answer g to header(n).  An answer that is an error, and   *)
(* an assertion that fails, end the connection.                            *)

answers(s, n) == swapping = NoSwap /\ header(n) \in request[s]
others(s, n) == request[s] \ {header(n)}

beyond_tip(s, n) ==
    /\ answers(s, n) /\ n > Height[served[s]]
    /\ connection_down(s)

\* A header up to the checkpoint comes with a proof that it is one of Trunk.
proven(s, n) == n <= VBH => at(served[s], n) = Trunk[n + 1]

unproven(s, n) ==
    /\ answers(s, n) /\ n <= Height[served[s]] /\ ~proven(s, n)
    /\ connection_down(s)

ignored(s, n) ==
    /\ answers(s, n) /\ n <= Height[served[s]] /\ proven(s, n)
    /\ mode[s] = "default"
    /\ Go(s, "default", others(s, n))
    /\ UNCHANGED <<storeVars, served, tip, on, good, bad, verified, catch_up>>

\* Mutant: the step back is not doubled.
further_Same(s, n) == LET t == Height[tip[s]] IN Max({VBH, t - (t - n)})

\* twice as far below the tip, but not below the checkpoint
further(s, n) == LET t == Height[tip[s]] IN Max({VBH, t - 2 * (t - n)})

backward(s, n, g) ==
    /\ mode[s] = "backward"
    /\ \/ /\ \E o \in holders(g) : on' = [on EXCEPT ![s] = o]
          /\ good' = [good EXCEPT ![s] = n]
          /\ Go(s, "binary", others(s, n) \cup {header((Height[bad[s]] + n) \div 2)})
          /\ UNCHANGED <<storeVars, served, tip, bad, verified, catch_up>>
       \/ /\ holders(g) = {}                                     \* so n > VBH: see unproven
          /\ bad' = [bad EXCEPT ![s] = g]
          /\ Go(s, "backward", others(s, n) \cup {header(further(s, n))})
          /\ UNCHANGED <<storeVars, served, tip, on, good, verified, catch_up>>

\* The interval (G, B) closes in on the first header o does not have.
narrow(s, n, G, B) ==
    /\ Height[B] # G + 1
    /\ Go(s, "binary", others(s, n) \cup {header((Height[B] + G) \div 2)})
    /\ UNCHANGED <<storeVars, catch_up>>

\* From here on Height[B] = G + 1 and B connects to o.
joining(s, n, B) ==
    /\ Height[B] \in Base /\ check_header(blockchains[Height[B]], B)
    /\ Go(s, "default", others(s, n))
    /\ UNCHANGED <<storeVars, catch_up>>

reorg(s, n, g, B) ==
    /\ Height[B] \in Base /\ ~check_header(blockchains[Height[B]], B)
    /\ check_header(blockchains[parent[Height[B]]], g)
    /\ Go(s, "default", others(s, n))
    /\ UNCHANGED <<storeVars, catch_up>>

conflict(s, n, g, B) ==
    /\ Height[B] \in Base /\ ~check_header(blockchains[Height[B]], B)
    /\ ~check_header(blockchains[parent[Height[B]]], g)
    /\ Save(written(Height[B], <<B>>, 0), Height[B])
    /\ Go(s, "catch_up", others(s, n) \cup {ask(s, "catch_up", Height[B] + 1)})
    /\ catch_up' = [catch_up EXCEPT ![blockchains[Height[B]]] = <<"server", s>>]

\* Mutant: a header on top of o is taken for a fork.
new_chain_OnTop(s, n, o, G, B) ==
    /\ Height[B] \notin Base /\ Cardinality(Base) <= MaxForks
    /\ height(o) >= G /\ ~check_header(o, B)
    /\ new_file(o, Height[B], <<B>>)
    /\ Go(s, "catch_up", others(s, n) \cup {ask(s, "catch_up", Height[B] + 1)})
    /\ catch_up' = [catch_up EXCEPT ![blockchains'[Height[B]]] = <<"server", s>>]
    /\ UNCHANGED <<swapping, crashes>>

new_chain(s, n, o, G, B) ==
    /\ Height[B] \notin Base /\ Cardinality(Base) <= MaxForks
    /\ height(o) > G /\ ~check_header(o, B)
    /\ new_file(o, Height[B], <<B>>)
    /\ Go(s, "catch_up", others(s, n) \cup {ask(s, "catch_up", Height[B] + 1)})
    /\ catch_up' = [catch_up EXCEPT ![blockchains'[Height[B]]] = <<"server", s>>]
    /\ UNCHANGED <<swapping, crashes>>

catching_up(s, n, o, G, B) ==
    /\ Height[B] \notin Base
    /\ height(o) = G /\ catch_up[o] = Nobody /\ G < Height[tip[s]]
    /\ Go(s, "catch_up", others(s, n) \cup {ask(s, "catch_up", G + 1)})
    /\ catch_up' = [catch_up EXCEPT ![o] = <<"server", s>>]
    /\ UNCHANGED storeVars

\* o grew over B meanwhile, or somebody else catches it up
left_alone(s, n, o, G, B) ==
    /\ Height[B] \notin Base
    /\ \/ height(o) > G /\ check_header(o, B)
       \/ height(o) = G /\ ~(catch_up[o] = Nobody /\ G < Height[tip[s]])
    /\ Go(s, "default", others(s, n))
    /\ UNCHANGED <<storeVars, catch_up>>

\* Mutant: every header that arrives is taken for good.
good_after_Always(s, n, g) == n

good_after(s, n, g) == IF holders(g) = {} THEN good[s] ELSE n

binary(s, n, g) ==
    /\ mode[s] = "binary"
    /\ \E o \in IF holders(g) = {} THEN {on[s]} ELSE holders(g) :
          LET G == good_after(s, n, g)
              B == IF holders(g) = {} THEN g ELSE bad[s]
              fails == ~can_connect(o, B, FALSE) \/ (Height[B] \notin Base /\ height(o) < G)
          IN \/ /\ Height[B] = G + 1 /\ fails
                /\ connection_down(s)
             \/ /\ \/ narrow(s, n, G, B) /\ on' = [on EXCEPT ![s] = o]
                   \/ /\ Height[B] = G + 1 /\ ~fails
                      /\ \/ joining(s, n, B) /\ on' = [on EXCEPT ![s] = o]
                         \/ reorg(s, n, g, B) /\ on' = [on EXCEPT ![s] = blockchains[parent[Height[B]]]]
                         \/ conflict(s, n, g, B) /\ on' = [on EXCEPT ![s] = blockchains[Height[B]]]
                         \/ new_chain(s, n, o, G, B) /\ on' = [on EXCEPT ![s] = blockchains'[Height[B]]]
                         \/ catching_up(s, n, o, G, B) /\ on' = [on EXCEPT ![s] = o]
                         \/ left_alone(s, n, o, G, B) /\ on' = [on EXCEPT ![s] = o]
                /\ good' = [good EXCEPT ![s] = G]
                /\ bad' = [bad EXCEPT ![s] = B]
                /\ UNCHANGED <<served, tip, verified>>

catches_up(s, n, g) ==
    /\ mode[s] = "catch_up"
    /\ \/ /\ can_connect(on[s], g, TRUE)
          /\ save_header(on[s], g)
          /\ IF n < Height[tip[s]]
             THEN Go(s, "catch_up", others(s, n) \cup {ask(s, "catch_up", n + 1)}) /\ UNCHANGED catch_up
             ELSE Go(s, "default", others(s, n)) /\ catch_up' = [catch_up EXCEPT ![on[s]] = Nobody]
          /\ UNCHANGED bad
       \/ /\ ~can_connect(on[s], g, TRUE)                       \* go back
          /\ bad' = [bad EXCEPT ![s] = g]
          /\ IF n > 1 THEN Go(s, "backward", others(s, n) \cup {header(n - 1)})
             ELSE Go(s, "default", others(s, n))                \* "if next_height"
          /\ UNCHANGED <<storeVars, catch_up>>
    /\ UNCHANGED <<served, tip, on, good, verified>>

on_header(s, n) ==
    /\ answers(s, n) /\ n <= Height[served[s]] /\ proven(s, n)
    /\ LET g == at(served[s], n)
       IN backward(s, n, g) \/ binary(s, n, g) \/ catches_up(s, n, g)

-----------------------------------------------------------------------------
(* on_block_headers.                                                       *)

chunk(s, n) ==
    LET e == Min({Height[served[s]], n + ChunkSize - 1})
    IN [i \in 1..(e - n + 1) |-> at(served[s], n + i - 1)]

\* After a chunk that ends at height e: more, or done.
more(s, R, e, h) ==
    IF h < Height[tip[s]]
    THEN /\ Go(s, mode[s], R \cup {headers(e + 1)})
         /\ UNCHANGED catch_up
    ELSE /\ Go(s, "default", R)
         /\ catch_up' = [catch_up EXCEPT ![on[s]] = Nobody]

on_block_headers(s, n) ==
    /\ swapping = NoSwap /\ headers(n) \in request[s]
    /\ LET data == chunk(s, n)
           e == n + Len(data) - 1
           R == request[s] \ {headers(n)}
           o == on[s]
           i == Min({e, height(o)})
       IN \/ /\ data = <<>> \/ n > height(o) + 1                 \* a failed assertion
             /\ connection_down(s)
          \/ /\ data # <<>>
             /\ \/ /\ height(o) >= n                            \* CHUNK_FORKS
                   /\ read_header(o, i) # data[i - n + 1]
                   /\ Go(s, mode[s], R)
                   /\ UNCHANGED <<storeVars, catch_up>>
                \/ /\ height(o) >= n                            \* we have it already
                   /\ read_header(o, i) = data[i - n + 1]
                   /\ more(s, R, e, height(o))
                   /\ UNCHANGED storeVars
                \/ /\ n = height(o) + 1                         \* CHUNK_FORKS
                   /\ read_header(o, n - 1) # Prev[data[1]]
                   /\ Go(s, mode[s], R)
                   /\ UNCHANGED <<storeVars, catch_up>>
                \/ /\ n = height(o) + 1
                   /\ connect_chunk(o, data)
                   /\ more(s, R, e, e)
             /\ UNCHANGED <<served, tip, on, good, bad, verified>>

\* The chunk with the checkpoint proof.  Its headers are in the root file
\* already (SyncInit).  It may come after the interface left verification
\* mode.
on_proof(s) ==
    /\ swapping = NoSwap /\ proof \in request[s]
    /\ LET R == request[s] \ {proof}
       IN \/ /\ at(served[s], VBH) # Checkpoint                 \* validate_checkpoint_result
             /\ connection_down(s)
          \/ /\ at(served[s], VBH) = Checkpoint
             /\ mode[s] = "verification"                        \* apply_successful_verification
             /\ verified' = [verified EXCEPT ![s] = "root"]
             /\ _process_latest_tip(s, tip[s], R)
             /\ UNCHANGED <<served, tip>>
          \/ /\ at(served[s], VBH) = Checkpoint
             /\ mode[s] # "verification" /\ on[s] = NoChain     \* CHUNK_BAD
             /\ connection_down(s)
          \/ /\ at(served[s], VBH) = Checkpoint
             /\ mode[s] # "verification" /\ on[s] # NoChain
             /\ more(s, R, VBH, height(on[s]))
             /\ UNCHANGED <<storeVars, served, tip, on, good, bad, verified>>

-----------------------------------------------------------------------------
Swap ==
    /\ write_self \/ write_parent \/ swap_pointers
    /\ UNCHANGED <<served, ifaceVars, verified, catch_up>>

Answer(s) ==
    \/ \E n \in 0..MaxHeight : on_header(s, n) \/ unproven(s, n) \/ ignored(s, n)
    \/ \E n \in 0..(MaxHeight + 1) : beyond_tip(s, n) \/ on_block_headers(s, n)
    \/ on_proof(s)

SyncNext ==
    \/ \E s \in Server : new_interface(s) \/ lost(s) \/ behind(s) \/ Answer(s)
    \/ \E s \in Server, h \in Header : on_notify_header(s, h)
    \/ Swap

SyncSpec == SyncInit /\ [][SyncNext]_syncVars

\* A server that stays on its chain answers, and the network thread ends what
\* it began.
SyncFairness == WF_syncVars(Swap) /\ \A s \in Server \ Reorgs : WF_syncVars(Answer(s))
FairSyncSpec == SyncSpec /\ SyncFairness

-----------------------------------------------------------------------------
\* Every variable keeps to its values, and an interface has what the handler
\* for its mode reads.
SyncTypeOK ==
    /\ TypeOK
    /\ served \in [Server -> Header]
    /\ mode \in [Server -> Searching \cup {"down", "verification", "default"}]
    /\ tip \in [Server -> Header \cup {NoHeader}]
    /\ on \in [Server -> Chain \cup {NoChain}]
    /\ good \in [Server -> 0..MaxHeight]
    /\ bad \in [Server -> Header \cup {NoHeader}]
    /\ request \in [Server -> SUBSET [kind : {"header", "headers", "proof"}, at : 0..(MaxHeight + 1)]]
    /\ verified \in [Server -> {"no", "asked", "root"}]
    /\ \A s \in Server : /\ mode[s] \in {"backward", "binary"} => bad[s] # NoHeader
                         /\ mode[s] = "catch_up" => on[s] # NoChain
                         /\ mode[s] \in Searching => tip[s] # NoHeader

\* A chain is never left marked with the server of a closed connection: no
\* other interface would catch it up (connection_down).
CatchUpHeld ==
    \A c \in Chain, s \in Server : catch_up[c] = <<"server", s>> => mode[s] # "down"

\* What an interface's mode says of the rest of its state: a connection that is
\* down asked for nothing, chunks are asked for on a chain only, and a header
\* that bounds a search from above is not one below the checkpoint.
IfaceInv(s) ==
    /\ tip[s] = NoHeader => mode[s] \in {"down", "verification"} /\ request[s] = {}
    /\ tip[s] # NoHeader => mode[s] # "down" /\ tip[s] = served[s] /\ Height[tip[s]] > VBH
    /\ mode[s] = "verification" => request[s] \subseteq {proof}
    /\ mode[s] = "binary" => on[s] # NoChain /\ good[s] > 0
    /\ on[s] \in Live \cup {NoChain}
    /\ \A q \in request[s] : /\ q.kind = "headers" => on[s] # NoChain /\ q.at > VBH
                             /\ q.kind = "header" => q.at > 0
    /\ bad[s] # NoHeader => /\ bad[s] # Genesis
                            /\ Height[bad[s]] <= VBH => bad[s] = Trunk[Height[bad[s]] + 1]

\* What the handlers rely on, in one inductive invariant.
SyncInv ==
    /\ SyncTypeOK /\ CatchUpHeld
    /\ catch_up \in [Chain -> {Nobody} \cup ({"server", "interface"} \X Server)]
    /\ StoreInv /\ crashes = 0
    /\ \A i \in 1..Len(Trunk) : file[ROOT][i] = Trunk[i]
    /\ \A s \in Server : IfaceInv(s)

\* Whatever the servers answer, and in whatever order the answers of
\* several servers and the tips are handled, the network thread changes the
\* store only by steps of Blockchain: a single header, a chunk and a new
\* fork are saved under the conditions ChainsAreLinked needs.
StoreSteps == [][Next]_storeVars

\* While an interface looks for the fork point, the chain it stands on has the
\* server's own header at the height taken for good, whatever the other
\* interfaces did to the store and whichever chains traded files meanwhile.
\* (A server that leaves its chain during the search breaks the bracket itself.)
\* Without it the search ends on a wrong chain or in the assertion of on_header
\* (assert bh == interface.good).
BracketHeld ==
    swapping = NoSwap => \A s \in Server \ Reorgs : mode[s] = "binary" =>
       on[s] # NoChain /\ read_header(on[s], good[s]) = at(served[s], good[s])

\* Header h is on the chain of object o.
Has(o, h) ==
    IF Height[h] <= VBH THEN h = Trunk[Height[h] + 1]
    ELSE Height[h] <= Height[tips[o]] /\ at(tips[o], Height[h]) = h

\* The fork and the root have different headers at the height of the fork's base.
Parted ==
    \A o, p \in Live : o # p =>
       \E f, r \in Header : /\ f # r /\ Height[f] = Height[r] /\ Height[f] \in Base \ {ROOT}
                           /\ Has(o, f) /\ Has(p, r)

Bracketed(s) ==
    mode[s] = "binary" => good[s] <= Height[served[s]] /\ Has(on[s], at(served[s], good[s]))

\* What BracketHeld rests on, while files are exchanged too: the bracket names a
\* header of the chain, and chains lose no header.
BracketInv ==
    /\ Parted
    /\ \A s \in Server \ Reorgs : Bracketed(s)

\* No third header competes with two of the same height.
TwoBranches ==
    \A f, g, h \in Header :
       Height[f] > VBH /\ Height[f] = Height[g] /\ Height[g] = Height[h] => f = g \/ g = h \/ f = h

\* A search on a server that stays on its chain ends: the interface comes to
\* follow a chain or is dropped, unless its chunk was found to fork
\* (CHUNK_FORKS), which leaves it where it is: see NoStall.
SearchEnds ==
    \A s \in Server \ Reorgs : (mode[s] \in Searching) ~>
       (mode[s] \in {"default", "down"} \/ (mode[s] = "catch_up" /\ request[s] = {}))

\* An interface that is searching waits for an answer.
NoStall == \A s \in Server : mode[s] \in Searching => request[s] # {}
=============================================================================
