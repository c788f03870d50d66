---------------------------- MODULE FusionPools ----------------------------
(***************************************************************************)
(* The waiting pools of a CashFusion server: WaitingPool and FusionServer   *)
(* (fusion/server.py).  A client waits in the pools of the tiers it chose,  *)
(* or in their queues while one of its tags is used up; a pool starts when  *)
(* it is full, when it is the favoured one and its time has come, or when   *)
(* it has been filled for long enough.                                     *)
(*                                                                         *)
(* Times are kept as ages: how long ago a pool filled up, how long ago the  *)
(* last fusion started, how long the favoured pool still has to wait.       *)
(***************************************************************************)
EXTENDS Integers, Sequences, FiniteSets, SequencesExt

CONSTANTS
    Client,
    Tier,
    TierSets,        \* sets of tiers a client may choose (msg.tiers)
    Tag,
    TagsOf,         \* TagsOf[c]: client.tags
    maxsimul,       \* maxsimul[g]: clients with this tag a pool may have
    tag_max,        \* Params.max_tier_client_tags
    min_clients,    \* Params.min_clients, the fill_threshold
    max_clients,    \* Params.max_clients
    start_time_max, start_time_min, start_time_spacing,
    Nobody, NoTier

ASSUME PoolsAssumption ==
    /\ TierSets \subseteq (SUBSET Tier) \ {{}}
    /\ TagsOf \in [Client -> SUBSET Tag] /\ maxsimul \in [Tag -> Nat \ {0}] /\ tag_max \in Nat
    /\ min_clients \in Nat \ {0} /\ max_clients \in Nat /\ min_clients <= max_clients
    /\ start_time_min \in Nat /\ start_time_spacing \in Nat /\ start_time_max \in Nat
    /\ Nobody \notin Client /\ NoTier \notin Tier

NotFilled == -1

VARIABLES
    waiting_pools,      \* a WaitingPool for every tier
    tier_best,          \* the favoured tier, or NoTier
    best_wait,          \* time until tier_best_starttime
    last_fuse,          \* time since the last fusion
    lock,               \* the client whose thread holds the lock to join, or Nobody
    todo,               \* tiers it still has to join
    tiers,              \* tiers[c]: mytierpools
    state,              \* where the thread of a client is in new_client_job
    start_ev            \* clients whose start_ev is set

vars == <<waiting_pools, tier_best, best_wait, last_fuse, lock, todo, tiers, state, start_ev>>

-----------------------------------------------------------------------------
(* WaitingPool: pool, queue, fill_time as an age, and for each tag how many *)
(* clients have it in the pool (ts.pool) and in all (ts.all_).              *)

Pool ==
    [pool : SUBSET Client, queue : Seq(Client), fill : NotFilled..start_time_max,
     in_pool : [Tag -> Nat], all : [Tag -> 0..tag_max]]

EmptyPool ==
    [pool |-> {}, queue |-> <<>>, fill |-> NotFilled,
     in_pool |-> [g \in Tag |-> 0], all |-> [g \in Tag |-> 0]]

\* A change of a tag counter for every tag of c.
count(f, c, n) == [g \in Tag |-> IF g \in TagsOf[c] THEN f[g] + n ELSE f[g]]

\* One of its tags is used up in the pool.
Blocked(w, c) == \E g \in TagsOf[c] : w.in_pool[g] >= maxsimul[g]

\* Mutant: one client too many with the same tag.
check_add_OneMore(w, c) == \A g \in TagsOf[c] : w.all[g] <= tag_max

check_add(w, c) == \A g \in TagsOf[c] : w.all[g] < tag_max

\* The pool just reached the threshold.
filled(n) == n = min_clients

add_pool(w, c) ==
    [w EXCEPT !.pool = @ \cup {c},
              !.in_pool = count(@, c, 1),
              !.fill = IF filled(Cardinality(w.pool) + 1) THEN 0 ELSE @]

add(w, c) ==
    LET counted == [w EXCEPT !.all = count(@, c, 1)]
    IN  IF Blocked(w, c) THEN [counted EXCEPT !.queue = Append(@, c)] ELSE add_pool(counted, c)

\* Mutant: a client that leaves the pool keeps its tags in use.
released_Not(w, c) == w.in_pool

\* The tags in use after c left the pool.
released(w, c) == count(w.in_pool, c, -1)

remove(w, c) ==
    IF c \in w.pool
       THEN [w EXCEPT !.pool = @ \ {c},
                      !.in_pool = released(w, c),
                      !.all = count(@, c, -1),
                      !.fill = IF Cardinality(w.pool) - 1 < min_clients THEN NotFilled ELSE @]
    ELSE IF c \in ToSet(w.queue)
       THEN [w EXCEPT !.queue = RemoveFirst(@, c), !.all = count(@, c, -1)]
    ELSE w

\* The clients of a list are removed one after the other.
removed(w, cs) ==
    LET upto[n \in 0..Len(cs)] == IF n = 0 THEN w ELSE remove(upto[n - 1], cs[n])
    IN  upto[Len(cs)]

\* One client of the queue moves to the pool if it can.
move_one(w, c) ==
    IF Blocked(w, c) THEN w ELSE [add_pool(w, c) EXCEPT !.queue = RemoveFirst(@, c)]

try_move_from_queue(w) ==
    LET upto[n \in 0..Len(w.queue)] == IF n = 0 THEN w ELSE move_one(upto[n - 1], w.queue[n])
    IN  upto[Len(w.queue)]

-----------------------------------------------------------------------------
(* FusionServer.                                                           *)

Init ==
    /\ waiting_pools = [t \in Tier |-> EmptyPool]
    /\ tier_best = NoTier /\ best_wait = 0 /\ last_fuse = 0
    /\ lock = Nobody /\ todo = {}
    /\ tiers = [c \in Client |-> {}] /\ state = [c \in Client |-> "new"]
    /\ start_ev = {}

Larger(a, b) == IF a >= b THEN a ELSE b

\* The favoured pools: filled, of the largest size, filled first.
Favoured(pools) ==
    LET Filled == {t \in Tier : pools[t].fill # NotFilled}
        Size(t) == Cardinality(pools[t].pool)
        Largest == {t \in Filled : \A u \in Filled : Size(u) <= Size(t)}
    IN  {t \in Largest : \A u \in Largest : pools[u].fill <= pools[t].fill}

\* reset_timer, given the pools and the time since the last fusion.
reset_timer(pools, last) ==
    IF Favoured(pools) = {}
       THEN tier_best' = NoTier /\ best_wait' = 0
       ELSE \E t \in Favoured(pools) :
                /\ tier_best' = t
                /\ best_wait' = Larger(0, Larger(start_time_min - pools[t].fill, start_time_spacing - last))

\* Mutant: the queue does not move up.
without_NoMove(w, cs) == removed(w, cs)

\* All clients of a list leave a pool, then the queue moves up.
without(w, cs) == try_move_from_queue(removed(w, cs))

\* start_fuse, with the pools as they are then.
start_fuse(t, pools) ==
    LET chosen == SetToSeq(pools[t].pool)
        rest == [u \in Tier |-> without(pools[u], chosen)]
    IN  /\ waiting_pools' = rest
        /\ last_fuse' = 0
        /\ reset_timer(rest, 0)
        /\ start_ev' = start_ev \cup pools[t].pool

\* new_client_job, a client chose its tiers: refused, or it takes the lock.
Join(c, ts) ==
    /\ lock = Nobody /\ state[c] = "new"
    /\ tiers' = [tiers EXCEPT ![c] = ts]
    /\ IF \A t \in ts : check_add(waiting_pools[t], c)
          THEN lock' = c /\ todo' = ts /\ state' = [state EXCEPT ![c] = "joining"]
          ELSE state' = [state EXCEPT ![c] = "refused"] /\ UNCHANGED <<lock, todo>>
    /\ UNCHANGED <<waiting_pools, tier_best, best_wait, last_fuse, start_ev>>

\* It is added to one tier after the other; a full pool starts at once, and
\* the thread returns, whether the client is in that pool or in its queue.
AddTo(c, t) ==
    /\ lock = c /\ t \in todo
    /\ LET pools == [waiting_pools EXCEPT ![t] = add(@, c)]
       IN  IF Cardinality(pools[t].pool) >= max_clients
              THEN /\ start_fuse(t, pools)
                   /\ lock' = Nobody /\ todo' = {} /\ state' = [state EXCEPT ![c] = "returned"]
              ELSE /\ waiting_pools' = pools
                   /\ todo' = todo \ {t} /\ lock' = IF todo' = {} THEN Nobody ELSE c
                   /\ UNCHANGED <<tier_best, best_wait, last_fuse, state, start_ev>>
    /\ UNCHANGED tiers

\* All added, the lock released: reset_timer, and on to the loop.
Joined(c) ==
    /\ lock = Nobody /\ state[c] = "joining"
    /\ reset_timer(waiting_pools, last_fuse)
    /\ state' = [state EXCEPT ![c] = "waiting"]
    /\ UNCHANGED <<waiting_pools, last_fuse, lock, todo, tiers, start_ev>>

\* Mutant: only the favoured pool ever starts.
Due_Favoured(c, t) == c \in waiting_pools[t].pool /\ t = tier_best /\ best_wait = 0

\* A tier of c whose time has come.
Due(c, t) ==
    /\ c \in waiting_pools[t].pool
    /\ \/ waiting_pools[t].fill >= start_time_max
       \/ t = tier_best /\ best_wait = 0

\* The loop of a waiting client ends: its fusion was started, or it starts
\* one because a tier is due.
Poll(c) ==
    /\ lock = Nobody /\ state[c] = "waiting"
    /\ IF c \in start_ev
          THEN UNCHANGED <<waiting_pools, tier_best, best_wait, last_fuse, start_ev>>
          ELSE \E t \in tiers[c] : Due(c, t) /\ start_fuse(t, waiting_pools)
    /\ state' = [state EXCEPT ![c] = "returned"]
    /\ UNCHANGED <<lock, todo, tiers>>

\* The daemon command fusion_server_fuse.
Fuse(t) ==
    /\ lock = Nobody
    /\ start_fuse(t, waiting_pools)
    /\ UNCHANGED <<lock, todo, tiers, state>>

\* Mutant: the favoured tier stays when a client leaves.
left_best_Never(c) == FALSE

\* "we left from best pool, so it might not be best anymore."
left_best(c) == tier_best \in tiers[c]

\* The except clause, after a refusal or a failed send: it leaves the pools.
LeavePools(c) ==
    /\ lock = Nobody /\ state[c] \in {"waiting", "refused"}
    /\ LET Left(w) == IF c \in w.pool \cup ToSet(w.queue) THEN without(w, <<c>>) ELSE w
           pools == [t \in Tier |-> IF t \in tiers[c] THEN Left(waiting_pools[t]) ELSE waiting_pools[t]]
       IN  /\ waiting_pools' = pools
           /\ IF left_best(c) THEN reset_timer(pools, last_fuse) ELSE UNCHANGED <<tier_best, best_wait>>
    /\ state' = [state EXCEPT ![c] = "returned"]
    /\ UNCHANGED <<last_fuse, lock, todo, tiers, start_ev>>

\* Time passes.
Tick ==
    /\ lock = Nobody
    /\ waiting_pools' = [t \in Tier |-> [waiting_pools[t] EXCEPT !.fill =
                            IF @ \in {NotFilled, start_time_max} THEN @ ELSE @ + 1]]
    /\ last_fuse' = IF last_fuse < start_time_spacing THEN last_fuse + 1 ELSE last_fuse
    /\ best_wait' = Larger(0, best_wait - 1)
    /\ UNCHANGED <<tier_best, lock, todo, tiers, state, start_ev>>

Next ==
    \/ \E c \in Client :
          \/ \E ts \in TierSets : Join(c, ts)
          \/ \E t \in Tier : AddTo(c, t)
          \/ Joined(c) \/ Poll(c) \/ LeavePools(c)
    \/ \E t \in Tier : Fuse(t)
    \/ Tick

Spec == Init /\ [][Next]_vars

\* Some client's thread takes a step of its own.
ThreadStep == \E c \in Client : (\E t \in Tier : AddTo(c, t)) \/ Joined(c) \/ Poll(c)

\* One can: ENABLED <<ThreadStep>>_vars, written out.
ThreadCan ==
    \/ lock # Nobody
    \/ \E c \in Client :
          \/ state[c] = "joining"
          \/ state[c] = "waiting" /\ (c \in start_ev \/ \E t \in tiers[c] : Due(c, t))

\* Threads run, waiting clients look at their pools every two seconds, and
\* time passes: weak fairness of both.
FairSpec == Spec /\ WF_vars(Tick) /\ ([]<>~ThreadCan \/ []<> <<ThreadStep>>_vars)

-----------------------------------------------------------------------------
(* Properties.                                                             *)

Waiting(w) == w.pool \cup ToSet(w.queue)
WithTag(cs, g) == {c \in cs : g \in TagsOf[c]}

\* Every variable keeps to its values: nobody is in a pool and in its queue,
\* and no tag is used in a pool, or waits for one, more often than it may.
TypeOK ==
    /\ waiting_pools \in [Tier -> Pool]
    /\ \A t \in Tier :
          LET w == waiting_pools[t]
          IN  w.pool \cap ToSet(w.queue) = {} /\ \A g \in Tag : w.in_pool[g] <= maxsimul[g]
    /\ tier_best \in Tier \cup {NoTier} /\ best_wait \in Nat
    /\ last_fuse \in 0..start_time_spacing
    /\ lock \in Client \cup {Nobody} /\ todo \subseteq Tier
    /\ tiers \in [Client -> SUBSET Tier]
    /\ state \in [Client -> {"new", "joining", "waiting", "refused", "returned"}]
    /\ start_ev \subseteq Client

\* The counters of the tags are the numbers of clients that have them.
TagsAreExact ==
    \A t \in Tier, g \in Tag :
        LET w == waiting_pools[t]
        IN  /\ w.in_pool[g] = Cardinality(WithTag(w.pool, g))
            /\ w.all[g] = Cardinality(WithTag(Waiting(w), g))

\* A client is left in a queue only while one of its tags is used up by
\* clients in the pool: whoever leaves, alone or with a fusion that starts at
\* another tier, everyone who can takes the place.
QueueIsBlocked ==
    \A t \in Tier : \A c \in ToSet(waiting_pools[t].queue) : Blocked(waiting_pools[t], c)

\* The favoured tier is a filled one, at every moment: whatever empties it
\* (a client that leaves, a fusion that starts at another tier and takes its
\* clients along) chooses the favoured tier anew.
FavouredIsFilled ==
    tier_best # NoTier => Cardinality(waiting_pools[tier_best].pool) >= min_clients

\* What remove and try_move_from_queue keep of a pool, client by client.
PoolInv(w) ==
    /\ w \in Pool /\ IsFiniteSet(Waiting(w)) /\ w.pool \cap ToSet(w.queue) = {}
    /\ \A i, j \in DOMAIN w.queue : w.queue[i] = w.queue[j] => i = j
    /\ \A g \in Tag : /\ w.in_pool[g] = Cardinality(WithTag(w.pool, g)) /\ w.in_pool[g] <= maxsimul[g]
                      /\ w.all[g] = Cardinality(WithTag(Waiting(w), g))
    /\ w.fill # NotFilled => Cardinality(w.pool) >= min_clients

\* What the four invariants above rest on: the favoured tier is marked as
\* filled, a client is in no pool before it asked for one, and the one that
\* holds the lock still fits in the pools it has to join.
PoolsInv ==
    /\ TypeOK /\ QueueIsBlocked /\ \A t \in Tier : PoolInv(waiting_pools[t])
    /\ tier_best # NoTier => waiting_pools[tier_best].fill # NotFilled
    /\ lock # Nobody => /\ state[lock] = "joining"
                        /\ \A t \in todo : /\ lock \notin Waiting(waiting_pools[t])
                                          /\ check_add(waiting_pools[t], lock)
    /\ \A t \in Tier : \A c \in Waiting(waiting_pools[t]) : state[c] # "new"

\* Some client in the pool of a tier looks at it, or will.
Watched(t) == \E c \in waiting_pools[t].pool : state[c] \in {"joining", "waiting"}

\* A pool of min_clients that one of its clients looks at starts, or falls
\* below min_clients, or loses the last of those clients: whatever else starts
\* or is favoured meanwhile. It is the size of the pool that counts, not the
\* mark fill_time keeps of it.
FilledStarts ==
    \A t \in Tier :
        LET Startable == Cardinality(waiting_pools[t].pool) >= min_clients /\ Watched(t)
        IN  Startable ~> ~Startable

\* "Guaranteed time to launch a fusion if the pool has stayed at or above
\* min_clients for this long", said of every pool. It is not so: a client put
\* in the queue of a pool that its arrival starts moves up when the pool is
\* emptied, its thread having returned; such clients alone never start.
LaunchIsGuaranteed ==
    \A t \in Tier :
        Cardinality(waiting_pools[t].pool) >= min_clients
            ~> Cardinality(waiting_pools[t].pool) < min_clients
=============================================================================
