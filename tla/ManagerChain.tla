----------------------------- MODULE ManagerChain -----------------------------
(***************************************************************************)
(* ManagerChainService (pillars/permissions/src/manager-chain.service.ts): *)
(* the reporting line of a user, one Graph lookup per link, through a      *)
(* cache every walk shares and whose entries age apart.  The directory is  *)
(* reorganised at any time, lookups fail, and walks interleave.            *)
(***************************************************************************)
EXTENDS Naturals, Sequences, FiniteSets

CONSTANTS
    Walk,           \* calls of getManagerChain
    Employee,
    MaxDepth,       \* MANAGER_CHAIN_MAX_DEPTH
    Ttl,            \* MANAGER_CHAIN_CACHE_TTL_MS, 0 for no caching
    MaxTime,        \* bound on the clock
    MaxMoves,       \* bound on reorganisations
    Nobody          \* null: no manager

ASSUME ChainAssumption ==
    /\ Nobody \notin Employee
    /\ MaxDepth \in Nat \ {0} /\ Ttl \in Nat /\ MaxTime \in Nat /\ MaxMoves \in Nat

VARIABLES
    manager,        \* the directory: who reports to whom
    cache,          \* entries by employee; expiresAt 0 when there is none
    walk,           \* every call
    time,
    moves,          \* reorganisations so far
    ever            \* history: every line the directory ever had

chainVars == <<manager, cache, walk, time, moves, ever>>

Entry == [managerId : Employee \union {Nobody}, expiresAt : Nat]
NoEntry == [managerId |-> Nobody, expiresAt |-> 0]
Walking ==
    [at : {"idle"}]
    \union [at : {"look", "fetch", "done"}, chain : Seq(Employee), user : Employee, failed : BOOLEAN]
    \union [at : {"store"}, chain : Seq(Employee), user : Employee, failed : BOOLEAN,
            found : Employee \union {Nobody}, cacheable : BOOLEAN]

ChainTypeOK ==
    /\ manager \in [Employee -> Employee \union {Nobody}]
    /\ cache \in [Employee -> Entry] /\ \A e \in Employee : cache[e].expiresAt <= time + Ttl
    /\ walk \in [Walk -> Walking] /\ \A w \in Walk : walk[w].at # "idle" => Len(walk[w].chain) <= MaxDepth
    /\ time \in 0..MaxTime /\ moves \in 0..MaxMoves

Lines(m) == {<<e, m[e]>> : e \in Employee}

ChainInit ==
    /\ manager \in [Employee -> Employee \union {Nobody}]
    /\ cache = [e \in Employee |-> NoEntry]
    /\ walk = [w \in Walk |-> [at |-> "idle"]]
    /\ time = 0 /\ moves = 0
    /\ ever = Lines(manager)

\* Who the walk looks at: the user, then the last manager found.
Current(w) == IF walk[w].chain = <<>> THEN walk[w].user ELSE walk[w].chain[Len(walk[w].chain)]
Seen(w) == {walk[w].user} \union {walk[w].chain[i] : i \in 1..Len(walk[w].chain)}

getManagerChain(w, user) ==
    /\ walk[w].at = "idle"
    /\ walk' = [walk EXCEPT ![w] = [at |-> "look", chain |-> <<>>, user |-> user, failed |-> FALSE]]
    /\ UNCHANGED <<manager, cache, time, moves, ever>>

\* The loop's body after a link is resolved: it ends on no manager, a cycle or the depth.
Resolved_Deep(w, m) ==      \* Faulty variant: the depth cap one link too far.
    LET goesOn == m \notin {Nobody} \union Seen(w)
        chain == IF goesOn THEN Append(walk[w].chain, m) ELSE walk[w].chain IN
    [at |-> IF goesOn /\ Len(chain) <= MaxDepth THEN "look" ELSE "done", chain |-> chain,
     user |-> walk[w].user, failed |-> walk[w].failed]
Resolved(w, m) ==
    LET goesOn == m \notin {Nobody} \union Seen(w)
        chain == IF goesOn THEN Append(walk[w].chain, m) ELSE walk[w].chain IN
    [at |-> IF goesOn /\ Len(chain) < MaxDepth THEN "look" ELSE "done", chain |-> chain,
     user |-> walk[w].user, failed |-> walk[w].failed]

\* A fresh entry answers at once; an expired or missing one goes to Graph.
Look(w) ==
    /\ walk[w].at = "look"
    /\ walk' = [walk EXCEPT ![w] = IF cache[Current(w)].expiresAt > time
                                   THEN Resolved(w, cache[Current(w)].managerId)
                                   ELSE [@ EXCEPT !.at = "fetch"]]
    /\ UNCHANGED <<manager, cache, time, moves, ever>>

\* Graph answers: a manager, or 404 for none.  Only these are cacheable.
Fetch(w) ==
    /\ walk[w].at = "fetch"
    /\ walk' = [walk EXCEPT ![w] = [at |-> "store", chain |-> @.chain, user |-> @.user, failed |-> @.failed,
                                    found |-> manager[Current(w)], cacheable |-> TRUE]]
    /\ UNCHANGED <<manager, cache, time, moves, ever>>

\* No token, 401, 403, 429, 5xx, or the network: no manager for this walk, nothing cached.
FetchFails_Definite(w) ==      \* Faulty variant: a failure is cached as "no manager".
    /\ walk[w].at = "fetch"
    /\ walk' = [walk EXCEPT ![w] = [at |-> "store", chain |-> @.chain, user |-> @.user, failed |-> TRUE,
                                    found |-> Nobody, cacheable |-> TRUE]]
    /\ UNCHANGED <<manager, cache, time, moves, ever>>
FetchFails(w) ==
    /\ walk[w].at = "fetch"
    /\ walk' = [walk EXCEPT ![w] = [at |-> "store", chain |-> @.chain, user |-> @.user, failed |-> TRUE,
                                    found |-> Nobody, cacheable |-> FALSE]]
    /\ UNCHANGED <<manager, cache, time, moves, ever>>

\* The answer may be old by the time it is stored, and a later one may be there already.
Store(w) ==
    /\ walk[w].at = "store"
    /\ cache' = IF walk[w].cacheable
                THEN [cache EXCEPT ![Current(w)] = [managerId |-> walk[w].found, expiresAt |-> time + Ttl]]
                ELSE cache
    /\ walk' = [walk EXCEPT ![w] = Resolved(w, walk[w].found)]
    /\ UNCHANGED <<manager, time, moves, ever>>

Reorganise ==
    /\ moves < MaxMoves /\ moves' = moves + 1
    /\ \E e \in Employee, m \in Employee \union {Nobody} :
         m # manager[e] /\ manager' = [manager EXCEPT ![e] = m]
    /\ ever' = ever \union Lines(manager')
    /\ UNCHANGED <<cache, walk, time>>

Age == time < MaxTime /\ time' = time + 1 /\ UNCHANGED <<manager, cache, walk, moves, ever>>

Step(w) == Look(w) \/ Fetch(w) \/ FetchFails(w) \/ Store(w)
ChainNext ==
    \/ \E w \in Walk : Step(w) \/ \E user \in Employee : getManagerChain(w, user)
    \/ Reorganise \/ Age

ChainSpec == ChainInit /\ [][ChainNext]_chainVars

----------------------------------------------------------------------------
(* Properties *)

\* A chain is short for a reason.  It names nobody twice and never the user, every line in
\* it was in the directory at some time, and where it ends below the depth, its last person
\* had nobody above, or somebody in the chain, or this very walk met a failure of Graph: a
\* failure another walk met is never inherited through the cache.
ChainEndsForAReason ==
    \A w \in Walk : walk[w].at = "done" =>
        LET line == <<walk[w].user>> \o walk[w].chain IN
        /\ \A i, j \in DOMAIN line : line[i] = line[j] => i = j
        /\ \A i \in 1..Len(line) - 1 : <<line[i], line[i + 1]>> \in ever
        /\ Len(walk[w].chain) < MaxDepth =>
             \/ walk[w].failed
             \/ \E m \in Seen(w) \union {Nobody} : <<line[Len(line)], m>> \in ever
=============================================================================
