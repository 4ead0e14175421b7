--------------------------- MODULE PlatformProofs ---------------------------
(***************************************************************************)
(* Proofs about the components that share no state: the manager chain, the *)
(* sending of a mail, the renaming of contacts, the settings page and the  *)
(* listing of access; and that all of them keep their types side by side.  *)
(***************************************************************************)
EXTENDS MCPlatform, TenantLifecycleProofs, WellFoundedInduction

-----------------------------------------------------------------------------
(* Least and greatest elements                                             *)

LEMMA LeastExists ==
  ASSUME NEW S \in SUBSET Nat, S # {}
  PROVE  \E n \in S : \A m \in S : n <= m
<1>1. PICK n \in S : \A m \in S : ~(<<m, n>> \in OpToRel(<, Nat))
  BY NatLessThanWellFounded, WFMin
<1>2. ASSUME NEW m \in S PROVE n <= m
  <2>1. m < n => <<m, n>> \in OpToRel(<, Nat)
    BY DEF OpToRel
  <2>2. ~(m < n)
    BY <1>1, <2>1, Zenon
  <2>3. m \in Nat /\ n \in Nat
    OBVIOUS
  <2> QED
    BY <2>2, <2>3
<1> QED
  BY <1>2

(* The greatest has fewest above it.                                       *)
LEMMA GreatestExists ==
  ASSUME NEW S \in SUBSET Nat, S # {}, IsFiniteSet(S)
  PROVE  \E n \in S : \A m \in S : m <= n
<1> DEFINE Above(n) == {m \in S : m > n}
           Counts == {Cardinality(Above(n)) : n \in S}
<1>1. ASSUME NEW n \in S PROVE IsFiniteSet(Above(n)) /\ Cardinality(Above(n)) \in Nat
  <2>1. Above(n) \in SUBSET S
    OBVIOUS
  <2>2. IsFiniteSet(Above(n))
    BY <2>1, FS_Subset
  <2> QED
    BY <2>2, FS_CardinalityType
<1>2. PICK count \in Counts : \A other \in Counts : count <= other
  <2>1. Counts \in SUBSET Nat /\ Counts # {}
    BY <1>1
  <2> HIDE DEF Counts
  <2> QED
    BY <2>1, LeastExists
<1>3. PICK n \in S : count = Cardinality(Above(n))
  BY <1>2
<1>4. ASSUME NEW m \in S, m > n PROVE FALSE
  <2>1. Above(m) \in SUBSET Above(n) /\ m \in Above(n) /\ m \notin Above(m)
    <3>1. m \in Nat /\ n \in Nat /\ S \subseteq Nat
      OBVIOUS
    <3>2. \A k \in S : k > m => k > n
      BY <1>4, <3>1
    <3>3. ~(m > m)
      BY <3>1
    <3> QED
      BY <1>4, <3>2, <3>3
  <2>3. Cardinality(Above(m)) \in Counts
    OBVIOUS
  <2>4. Cardinality(Above(n)) <= Cardinality(Above(m))
    BY <1>2, <1>3, <2>3
  <2>5. Cardinality(Above(m)) \in Nat /\ Cardinality(Above(n)) \in Nat
    BY <1>1
  <2> HIDE DEF Above, Counts
  <2>6. Cardinality(Above(m)) <= Cardinality(Above(n)) /\ (Cardinality(Above(m)) = Cardinality(Above(n)) => Above(n) = Above(m))
    BY <1>1, <2>1, FS_Subset
  <2> QED
    BY <2>1, <2>4, <2>5, <2>6
<1> QED
  BY <1>4

-----------------------------------------------------------------------------
(* Sending a mail                                                          *)

(* An attempt is the only place with a request out there, which adds at    *)
(* most one mail to those of the attempts that failed before.              *)
SendInv ==
    /\ SendTypeOK /\ CopiesArePaidFor
    /\ at = "await" <=> flight # "none"
    /\ at # "accepted" => copies = unheard
    /\ at \in {"idle", "try", "backoff"} \/ flight = "sent" => copies <= attempt
    /\ flight = "taken" => copies # 0

LEMMA SendStarts == SendInit => SendInv
<1> SUFFICES ASSUME SendInit PROVE SendInv
  OBVIOUS
<1>1. lastError \in [kind : Kind, retryable : BOOLEAN] /\ lastError.kind # "permanent"
  BY DEF SendInit, NoError, Kind
<1>2. {copies, unheard, late} \subseteq 0..MaxRetries + 1
  BY MaxRetriesAssumption DEF SendInit
<1>3. SendTypeOK
  BY <1>1, <1>2, MaxRetriesAssumption DEF SendInit, SendTypeOK
<1>4. CopiesArePaidFor
  BY <1>1, MaxRetriesAssumption DEF SendInit, CopiesArePaidFor
<1> QED
  BY <1>3, <1>4 DEF SendInit, SendInv

LEMMA SendKinds ==
  /\ \A kind \in Kind : kind \notin {"idle", "try", "await", "backoff", "accepted", "rejected"}
  /\ \A status : classifyHttpStatus(status) \in [kind : {"rate_limit", "transient", "permanent"}, retryable : BOOLEAN]
  /\ \A status : classifyHttpStatus(status).kind = "permanent" => ~classifyHttpStatus(status).retryable
BY DEF Kind, classifyHttpStatus

(* A failed attempt, whatever the error.                                   *)
LEMMA FailedStep ==
  ASSUME SendInv, at = "await", NEW error \in [kind : Kind, retryable : BOOLEAN],
         error.kind = "permanent" => ~error.retryable, Failed(error),
         UNCHANGED <<aborted, copies, unheard, late>>
  PROVE  SendInv'
<1>1. /\ attempt \in 0..MaxRetries /\ copies \in 0..MaxRetries + 1 /\ unheard = copies /\ copies <= attempt + 1
      /\ late = 0 /\ aborted \in BOOLEAN
  BY MaxRetriesAssumption DEF SendInv, SendTypeOK, CopiesArePaidFor
<1>2. error.kind \in Kind /\ error.retryable \in BOOLEAN /\ lastError' = error /\ flight' = "none"
  BY DEF Failed
<1>3. CASE ~error.retryable \/ attempt >= MaxRetries
  <2>1. at' = error.kind /\ UNCHANGED attempt
    BY <1>3 DEF Failed
  <2> QED
    BY <1>1, <1>2, <2>1, SendKinds, MaxRetriesAssumption DEF SendInv, SendTypeOK, CopiesArePaidFor, Ended
<1>4. CASE error.retryable /\ attempt < MaxRetries
  <2>1. at' = "backoff" /\ attempt' = attempt + 1
    BY <1>1, <1>4, MaxRetriesAssumption DEF Failed
  <2>2. error.kind # "permanent"
    BY <1>4
  <2> QED
    BY <1>1, <1>2, <1>4, <2>1, <2>2, MaxRetriesAssumption DEF SendInv, SendTypeOK, CopiesArePaidFor, Ended
<1> QED
  BY <1>1, <1>2, <1>3, <1>4, MaxRetriesAssumption

LEMMA SendStep ==
  ASSUME SendInv, [SendNext]_sendVars
  PROVE  SendInv'
<1> USE MaxRetriesAssumption DEF SendInv, SendTypeOK, CopiesArePaidFor
<1>1. CASE send
  BY <1>1 DEF send, Ended, Kind
<1>2. CASE Attempt
  BY <1>2 DEF Attempt, Ended, Kind
<1>3. CASE ProviderAccepts
  BY <1>3, SendKinds DEF ProviderAccepts, Ended
<1>4. CASE Accepted
  BY <1>4, SendKinds DEF Accepted, Ended
<1>5. CASE ErrorStatus
  <2>1. PICK status \in {400, 408, 429, 500} : Failed(classifyHttpStatus(status))
    BY <1>5 DEF ErrorStatus
  <2>2. classifyHttpStatus(status) \in [kind : Kind, retryable : BOOLEAN]
    BY SendKinds DEF Kind
  <2> QED
    BY <1>5, <2>1, <2>2, SendKinds, FailedStep DEF ErrorStatus
<1>6. CASE TransportFailure
  <2>1. [kind |-> "transient", retryable |-> TRUE] \in [kind : Kind, retryable : BOOLEAN]
    BY DEF Kind
  <2> QED
    BY <1>6, <2>1, FailedStep DEF TransportFailure
<1>7. CASE Abort
  BY <1>7, SendKinds DEF Abort, Ended, Kind
<1>8. CASE Backoff
  BY <1>8 DEF Backoff, Ended, Kind
<1>9. CASE Cancel
  BY <1>9 DEF Cancel
<1>10. CASE UNCHANGED sendVars
  BY <1>10 DEF sendVars
<1> QED
  BY <1>1, <1>2, <1>3, <1>4, <1>5, <1>6, <1>7, <1>8, <1>9, <1>10 DEF SendNext

(* ForwardEmailProvider.send: one mail per acceptance whose answer came,   *)
(* one more for each that was lost, within the retries; nothing is sent    *)
(* after the caller cancelled, and a permanent error ends it.              *)
THEOREM CopiesCorrect ==
  SendSpec => []CopiesArePaidFor
<1>1. SendInv => CopiesArePaidFor
  BY DEF SendInv
<1> QED
  BY <1>1, SendStarts, SendStep, PTL DEF SendSpec

-----------------------------------------------------------------------------
(* The manager chain                                                       *)

(* Who stands at place i of a walk's line: the user, then the chain.       *)
On(r, i) == IF i = 0 THEN r.user ELSE r.chain[i]
Last(r) == On(r, Len(r.chain))
People(r) == {On(r, i) : i \in 0..Len(r.chain)}

(* A walk that has begun: its line names nobody twice, its links were in   *)
(* the directory, and what it is about to store was there as well unless   *)
(* this walk's own lookup failed.                                          *)
Sound(r, lines) ==
    /\ \A i, j \in 0..Len(r.chain) : On(r, i) = On(r, j) => i = j
    /\ \A i \in 0..Len(r.chain) - 1 : <<On(r, i), On(r, i + 1)>> \in lines
    /\ r.at # "done" => Len(r.chain) < MaxDepth
    /\ r.at = "store" => IF r.cacheable THEN <<Last(r), r.found>> \in lines ELSE r.failed /\ r.found = Nobody
    /\ r.at = "done" /\ Len(r.chain) < MaxDepth =>
         r.failed \/ \E m \in People(r) \union {Nobody} : <<Last(r), m>> \in lines

(* A fresh entry of the cache was a line of the directory.                 *)
ChainInv ==
    /\ ChainTypeOK
    /\ Lines(manager) \subseteq ever
    /\ \A e \in Employee : cache[e].expiresAt > time => <<e, cache[e].managerId>> \in ever
    /\ \A w \in Walk : walk[w].at # "idle" => Sound(walk[w], ever)

LEMMA BegunFields ==
  ASSUME NEW r \in Walking, r.at # "idle"
  PROVE  /\ r.chain \in Seq(Employee) /\ r.user \in Employee /\ r.failed \in BOOLEAN
         /\ r.at \in {"look", "fetch", "store", "done"}
         /\ r.at = "store" => r.found \in Employee \union {Nobody} /\ r.cacheable \in BOOLEAN
         /\ Len(r.chain) \in Nat
         /\ Last(r) \in Employee
<1>1. r.chain \in Seq(Employee) /\ r.user \in Employee /\ r.failed \in BOOLEAN
      /\ r.at \in {"look", "fetch", "store", "done"}
      /\ (r.at = "store" => r.found \in Employee \union {Nobody} /\ r.cacheable \in BOOLEAN)
  BY DEF Walking
<1>2. Len(r.chain) \in Nat /\ Last(r) \in Employee
  BY <1>1 DEF Last, On
<1> QED
  BY <1>1, <1>2

LEMMA CurrentIsLast ==
  ASSUME NEW w, walk[w] \in Walking, walk[w].at # "idle"
  PROVE  Current(w) = Last(walk[w]) /\ Seen(w) = People(walk[w])
<1>1. walk[w].chain \in Seq(Employee)
  BY BegunFields
<1>2. walk[w].chain = <<>> <=> Len(walk[w].chain) = 0
  BY <1>1
<1>3. 0..Len(walk[w].chain) = {0} \union 1..Len(walk[w].chain)
  BY <1>1
<1> QED
  BY <1>2, <1>3 DEF Current, Last, On, Seen, People

LEMMA SoundGrows ==
  ASSUME NEW r, NEW lines, NEW more, Sound(r, lines), lines \subseteq more
  PROVE  Sound(r, more)
BY DEF Sound

(* The body of the loop after a link is resolved.                          *)
LEMMA ResolvedSound ==
  ASSUME NEW w, walk[w] \in Walking, walk[w].at # "idle", Sound(walk[w], ever), walk[w].at # "done",
         NEW m \in Employee \union {Nobody},
         <<Last(walk[w]), m>> \in ever \/ (walk[w].failed /\ m = Nobody)
  PROVE  /\ Resolved(w, m) \in Walking /\ Resolved(w, m).at # "idle"
         /\ Sound(Resolved(w, m), ever) /\ Len(Resolved(w, m).chain) <= MaxDepth
<1> DEFINE r == walk[w]
           n == Len(r.chain)
<1> USE ChainAssumption
<1>1. /\ r.chain \in Seq(Employee) /\ r.user \in Employee /\ r.failed \in BOOLEAN /\ n \in Nat /\ n < MaxDepth
  BY BegunFields DEF Sound
<1>2. Seen(w) = People(r)
  BY CurrentIsLast
<1>3. CASE m \notin {Nobody} \union Seen(w)
  <2> DEFINE next == [at |-> IF Len(Append(r.chain, m)) < MaxDepth THEN "look" ELSE "done",
                      chain |-> Append(r.chain, m), user |-> r.user, failed |-> r.failed]
  <2>1. Resolved(w, m) = next
    BY <1>3 DEF Resolved
  <2>2. m \in Employee /\ Append(r.chain, m) \in Seq(Employee) /\ Len(Append(r.chain, m)) = n + 1
    BY <1>1, <1>3
  <2>3. next \in Walking /\ next.at # "idle" /\ next.at # "store"
    BY <1>1, <2>2 DEF Walking
  <2>4. next.chain = Append(r.chain, m) /\ next.user = r.user /\ (next.at # "done" => n + 1 < MaxDepth)
        /\ Len(next.chain) = n + 1 /\ (next.at = "done" => ~(n + 1 < MaxDepth))
    BY <2>2
  <2> HIDE DEF next
  <2>5. (\A i \in 0..n : On(next, i) = On(r, i)) /\ On(next, n + 1) = m
    BY <1>1, <2>2, <2>4 DEF On
  <2>6. \A i \in 0..n : On(r, i) # m
    BY <1>2, <1>3 DEF People
  <2>7. \A i, j \in 0..n + 1 : On(next, i) = On(next, j) => i = j
    <3>1. \A i \in 0..n + 1 : i \in 0..n \/ i = n + 1
      BY <1>1
    <3> QED
      BY <2>5, <2>6, <3>1 DEF Sound
  <2>8. \A i \in 0..n : <<On(next, i), On(next, i + 1)>> \in ever
    <3>1. <<On(r, n), m>> \in ever
      BY <1>3 DEF Last
    <3>2. ASSUME NEW i \in 0..n PROVE <<On(next, i), On(next, i + 1)>> \in ever
      <4>1. CASE i = n
        BY <1>1, <2>5, <3>1, <4>1
      <4>2. CASE i # n
        <5>1. i \in 0..n - 1 /\ i \in 0..n /\ i + 1 \in 0..n
          BY <1>1, <4>2
        <5> QED
          BY <2>5, <5>1 DEF Sound
      <4> QED
        BY <4>1, <4>2
    <3> QED
      BY <3>2
  <2>9. n + 1 - 1 = n /\ n + 1 <= MaxDepth
    BY <1>1
  <2> QED
    BY <2>1, <2>3, <2>4, <2>7, <2>8, <2>9 DEF Sound
<1>4. CASE m \in {Nobody} \union Seen(w)
  <2> DEFINE next == [at |-> "done", chain |-> r.chain, user |-> r.user, failed |-> r.failed]
  <2>1. Resolved(w, m) = next
    BY <1>4 DEF Resolved
  <2>2. next \in Walking
    BY <1>1 DEF Walking
  <2>3. next.at = "done" /\ next.chain = r.chain /\ next.user = r.user /\ next.failed = r.failed
    OBVIOUS
  <2> HIDE DEF next
  <2>4. (\A i : On(next, i) = On(r, i)) /\ Last(next) = Last(r) /\ People(next) = People(r)
    BY <2>3 DEF On, Last, People
  <2>5. next.failed \/ \E k \in People(next) \union {Nobody} : <<Last(next), k>> \in ever
    BY <1>2, <1>4, <2>3, <2>4
  <2> QED
    BY <1>1, <2>1, <2>2, <2>3, <2>4, <2>5 DEF Sound
<1> QED
  BY <1>3, <1>4

LEMMA ChainStarts == ChainInit => ChainInv
BY ChainAssumption DEF ChainInit, ChainInv, ChainTypeOK, NoEntry, Entry, Walking

(* A step of one walk that leaves directory, clock and history alone.      *)
LEMMA WalkFrame ==
  ASSUME ChainInv, NEW w \in Walk, NEW next \in Walking, next.at # "idle", Sound(next, ever), Len(next.chain) <= MaxDepth,
         walk' = [walk EXCEPT ![w] = next], UNCHANGED <<manager, time, moves, ever>>,
         cache' \in [Employee -> Entry],
         \A e \in Employee : /\ cache'[e].expiresAt <= time + Ttl
                             /\ cache'[e].expiresAt > time => <<e, cache'[e].managerId>> \in ever
  PROVE  ChainInv'
<1>1. walk' \in [Walk -> Walking] /\ walk'[w] = next /\ \A v \in Walk \ {w} : walk'[v] = walk[v]
  BY DEF ChainInv, ChainTypeOK
<1>2. \A v \in Walk : walk'[v].at # "idle" => Sound(walk'[v], ever) /\ Len(walk'[v].chain) <= MaxDepth
  BY <1>1 DEF ChainInv, ChainTypeOK
<1> QED
  BY <1>1, <1>2 DEF ChainInv, ChainTypeOK

LEMMA ChainStep ==
  ASSUME ChainInv, [ChainNext]_chainVars
  PROVE  ChainInv'
<1> USE ChainAssumption
<1>1. ASSUME NEW w \in Walk, walk[w].at # "idle"
      PROVE  /\ walk[w] \in Walking /\ Sound(walk[w], ever) /\ Current(w) = Last(walk[w])
             /\ Last(walk[w]) \in Employee
  BY <1>1, BegunFields, CurrentIsLast DEF ChainInv, ChainTypeOK
<1>2. /\ cache \in [Employee -> Entry]
      /\ \A e \in Employee : /\ cache[e].expiresAt <= time + Ttl
                             /\ cache[e].expiresAt > time => <<e, cache[e].managerId>> \in ever
      /\ time \in Nat
  BY DEF ChainInv, ChainTypeOK
<1>3. ASSUME NEW w \in Walk, NEW user \in Employee, getManagerChain(w, user) PROVE ChainInv'
  <2> DEFINE next == [at |-> "look", chain |-> <<>>, user |-> user, failed |-> FALSE]
  <2>1. next \in Walking /\ next.at = "look" /\ next.chain = <<>>
    BY DEF Walking
  <2>2. walk' = [walk EXCEPT ![w] = next] /\ UNCHANGED <<manager, time, moves, ever>> /\ cache' = cache
    BY <1>3 DEF getManagerChain
  <2> HIDE DEF next
  <2>3. Sound(next, ever) /\ Len(next.chain) <= MaxDepth
    BY <2>1 DEF Sound
  <2> QED
    BY <1>2, <2>1, <2>2, <2>3, WalkFrame
<1>4. ASSUME NEW w \in Walk, Look(w) PROVE ChainInv'
  <2>1. walk[w].at = "look" /\ UNCHANGED <<manager, cache, time, moves, ever>>
    BY <1>4 DEF Look
  <2>2. CASE cache[Current(w)].expiresAt > time
    <3> DEFINE m == cache[Current(w)].managerId
    <3>1. walk' = [walk EXCEPT ![w] = Resolved(w, m)]
      BY <1>4, <2>2 DEF Look
    <3>2. m \in Employee \union {Nobody} /\ <<Last(walk[w]), m>> \in ever
      BY <1>1, <1>2, <2>1, <2>2 DEF Entry
    <3>3. /\ Resolved(w, m) \in Walking /\ Resolved(w, m).at # "idle"
          /\ Sound(Resolved(w, m), ever) /\ Len(Resolved(w, m).chain) <= MaxDepth
      BY <1>1, <2>1, <3>2, ResolvedSound
    <3> QED
      BY <1>2, <2>1, <3>1, <3>3, WalkFrame
  <2>3. CASE ~(cache[Current(w)].expiresAt > time)
    <3> DEFINE next == [walk[w] EXCEPT !.at = "fetch"]
    <3>1. walk' = [walk EXCEPT ![w] = next]
      BY <1>4, <2>3 DEF Look
    <3>2. next \in Walking /\ next.at = "fetch" /\ next.chain = walk[w].chain /\ next.user = walk[w].user
      BY <1>1, <2>1 DEF Walking
    <3> HIDE DEF next
    <3>3. Len(walk[w].chain) \in Nat /\ Len(walk[w].chain) < MaxDepth /\ \A i : On(next, i) = On(walk[w], i)
      BY <1>1, <2>1, <3>2, BegunFields DEF Sound, On
    <3>4. Sound(next, ever)
      <4>1. Sound(walk[w], ever)
        BY <1>1, <2>1
      <4> QED
        BY <3>2, <3>3, <4>1 DEF Sound
    <3>5. Len(next.chain) <= MaxDepth
      BY <3>2, <3>3
    <3> QED
      BY <1>2, <2>1, <3>1, <3>2, <3>4, <3>5, WalkFrame
  <2> QED
    BY <2>2, <2>3
<1>5. ASSUME NEW w \in Walk, NEW found \in Employee \union {Nobody}, NEW failed \in BOOLEAN, NEW cacheable \in BOOLEAN,
             walk[w].at = "fetch",
             IF cacheable THEN found = manager[Current(w)] ELSE failed /\ found = Nobody,
             walk' = [walk EXCEPT ![w] = [at |-> "store", chain |-> walk[w].chain, user |-> walk[w].user, failed |-> failed,
                                          found |-> found, cacheable |-> cacheable]],
             UNCHANGED <<manager, cache, time, moves, ever>>
      PROVE  ChainInv'
  <2> DEFINE next == [at |-> "store", chain |-> walk[w].chain, user |-> walk[w].user, failed |-> failed,
                      found |-> found, cacheable |-> cacheable]
  <2>1. walk[w].chain \in Seq(Employee) /\ walk[w].user \in Employee
    BY <1>1, <1>5, BegunFields
  <2>2. next \in Walking
    BY <2>1 DEF Walking
  <2>3. next.at = "store" /\ next.chain = walk[w].chain /\ next.user = walk[w].user /\ next.failed = failed
        /\ next.found = found /\ next.cacheable = cacheable
    OBVIOUS
  <2>4. walk' = [walk EXCEPT ![w] = next]
    BY <1>5
  <2> HIDE DEF next
  <2>5. (\A i : On(next, i) = On(walk[w], i)) /\ Last(next) = Last(walk[w])
    BY <2>3 DEF On, Last
  <2>6. cacheable => <<Last(walk[w]), found>> \in ever
    BY <1>1, <1>5 DEF ChainInv, Lines
  <2>7. Sound(walk[w], ever) /\ Len(walk[w].chain) < MaxDepth
    BY <1>1, <1>5 DEF Sound
  <2>8. Sound(next, ever)
    BY <1>5, <2>3, <2>5, <2>6, <2>7 DEF Sound
  <2>9. Len(next.chain) <= MaxDepth
    BY <2>1, <2>3, <2>7
  <2> QED
    BY <1>2, <1>5, <2>2, <2>3, <2>4, <2>8, <2>9, WalkFrame
<1>6. ASSUME NEW w \in Walk, Fetch(w) PROVE ChainInv'
  <2>1. walk[w].at = "fetch" /\ walk[w].failed \in BOOLEAN /\ manager[Current(w)] \in Employee \union {Nobody}
    BY <1>1, <1>6, BegunFields DEF Fetch, ChainInv, ChainTypeOK
  <2> QED
    BY <1>5, <1>6, <2>1 DEF Fetch
<1>7. ASSUME NEW w \in Walk, FetchFails(w) PROVE ChainInv'
  BY <1>5, <1>7 DEF FetchFails
<1>8. ASSUME NEW w \in Walk, Store(w) PROVE ChainInv'
  <2>1. walk[w].at = "store" /\ UNCHANGED <<manager, time, moves, ever>> /\ walk' = [walk EXCEPT ![w] = Resolved(w, walk[w].found)]
    BY <1>8 DEF Store
  <2>2. /\ walk[w].found \in Employee \union {Nobody} /\ walk[w].cacheable \in BOOLEAN
        /\ IF walk[w].cacheable THEN <<Last(walk[w]), walk[w].found>> \in ever ELSE walk[w].failed /\ walk[w].found = Nobody
    BY <1>1, <2>1, BegunFields DEF Sound
  <2>3. /\ Resolved(w, walk[w].found) \in Walking /\ Resolved(w, walk[w].found).at # "idle"
        /\ Sound(Resolved(w, walk[w].found), ever) /\ Len(Resolved(w, walk[w].found).chain) <= MaxDepth
    BY <1>1, <2>1, <2>2, ResolvedSound
  <2>4. CASE ~walk[w].cacheable
    BY <1>2, <1>8, <2>1, <2>3, <2>4, WalkFrame DEF Store
  <2>5. CASE walk[w].cacheable
    <3> DEFINE new == [managerId |-> walk[w].found, expiresAt |-> time + Ttl]
    <3>1. new \in Entry /\ new.managerId = walk[w].found /\ new.expiresAt <= time + Ttl
      BY <1>2, <2>2 DEF Entry
    <3>2. cache' = [cache EXCEPT ![Current(w)] = new]
      BY <1>8, <2>5 DEF Store
    <3> HIDE DEF new
    <3>3. /\ cache' \in [Employee -> Entry]
          /\ \A e \in Employee : /\ cache'[e].expiresAt <= time + Ttl
                                 /\ cache'[e].expiresAt > time => <<e, cache'[e].managerId>> \in ever
      BY <1>1, <1>2, <2>1, <2>2, <2>5, <3>1, <3>2
    <3> QED
      BY <2>1, <2>3, <3>3, WalkFrame
  <2> QED
    BY <2>2, <2>4, <2>5
<1>9. CASE Reorganise
  <2>1. ever \subseteq ever' /\ Lines(manager)' \subseteq ever' /\ UNCHANGED <<cache, walk, time>>
        /\ manager' \in [Employee -> Employee \union {Nobody}] /\ moves' \in 0..MaxMoves
    BY <1>9 DEF Reorganise, Lines, ChainInv, ChainTypeOK
  <2>2. \A w \in Walk : walk[w].at # "idle" => Sound(walk[w], ever')
    BY <2>1, SoundGrows DEF ChainInv
  <2> QED
    BY <2>1, <2>2 DEF ChainInv, ChainTypeOK
<1>10. CASE Age
  <2>1. time' = time + 1 /\ time' \in 0..MaxTime /\ UNCHANGED <<manager, cache, walk, moves, ever>>
    BY <1>10 DEF Age, ChainInv, ChainTypeOK
  <2>2. ASSUME NEW e \in Employee PROVE /\ cache[e].expiresAt <= time' + Ttl
                                        /\ cache[e].expiresAt > time' => cache[e].expiresAt > time
    <3>1. cache[e].expiresAt \in Nat /\ cache[e].expiresAt <= time + Ttl
      BY <1>2 DEF Entry
    <3> QED
      BY <1>2, <2>1, <3>1
  <2> QED
    BY <1>2, <2>1, <2>2 DEF ChainInv, ChainTypeOK, Lines
<1>11. CASE UNCHANGED chainVars
  BY <1>11 DEF chainVars, ChainInv, ChainTypeOK, Lines
<1> QED
  BY <1>3, <1>4, <1>6, <1>7, <1>8, <1>9, <1>10, <1>11 DEF ChainNext, Step

(* getManagerChain: however walks, reorganisations and failures interleave *)
(* over the shared cache, a chain names nobody twice, follows lines the    *)
(* directory had, and is short for a reason of its own.                    *)
THEOREM ChainCorrect ==
  ChainSpec => []ChainEndsForAReason
<1>1. ASSUME ChainInv, NEW w \in Walk, walk[w].at = "done"
      PROVE  LET line == <<walk[w].user>> \o walk[w].chain IN
             /\ \A i, j \in DOMAIN line : line[i] = line[j] => i = j
             /\ \A i \in 1..Len(line) - 1 : <<line[i], line[i + 1]>> \in ever
             /\ Len(walk[w].chain) < MaxDepth =>
                  \/ walk[w].failed
                  \/ \E m \in Seen(w) \union {Nobody} : <<line[Len(line)], m>> \in ever
  <2> DEFINE r == walk[w]
             n == Len(r.chain)
             line == <<r.user>> \o r.chain
  <2>1. r \in Walking /\ Sound(r, ever) /\ Seen(w) = People(r)
    BY <1>1, CurrentIsLast DEF ChainInv, ChainTypeOK
  <2>2. r.chain \in Seq(Employee) /\ r.user \in Employee /\ n \in Nat
    BY <1>1, <2>1, BegunFields
  <2>3. DOMAIN line = 1..n + 1 /\ Len(line) = n + 1
    BY <2>2
  <2>4. \A i \in 1..n + 1 : line[i] = On(r, i - 1)
    BY <2>2 DEF On
  <2> HIDE DEF line
  <2>5. ASSUME NEW i \in DOMAIN line, NEW j \in DOMAIN line, line[i] = line[j] PROVE i = j
    <3>1. i \in 1..n + 1 /\ j \in 1..n + 1 /\ i - 1 \in 0..n /\ j - 1 \in 0..n
      BY <2>2, <2>3, <2>5
    <3>2. i - 1 = j - 1
      BY <2>1, <2>4, <2>5, <3>1 DEF Sound
    <3> QED
      BY <3>1, <3>2
  <2>6. ASSUME NEW i \in 1..Len(line) - 1 PROVE <<line[i], line[i + 1]>> \in ever
    <3>1. i \in 1..n + 1 /\ i + 1 \in 1..n + 1 /\ i - 1 \in 0..n - 1 /\ (i - 1) + 1 = i /\ (i + 1) - 1 = i
      BY <2>2, <2>3, <2>6
    <3>2. <<On(r, i - 1), On(r, (i - 1) + 1)>> \in ever
      BY <2>1, <3>1 DEF Sound
    <3>3. line[i] = On(r, i - 1) /\ line[i + 1] = On(r, i)
      BY <2>4, <3>1
    <3> QED
      BY <3>1, <3>2, <3>3
  <2>7. line[Len(line)] = Last(r)
    <3>1. n + 1 \in 1..n + 1 /\ (n + 1) - 1 = n
      BY <2>2
    <3> QED
      BY <2>3, <2>4, <3>1 DEF Last
  <2> QED
    BY <1>1, <2>1, <2>5, <2>6, <2>7 DEF Sound, line
<1>2. ChainInv => ChainEndsForAReason
  BY <1>1 DEF ChainEndsForAReason
<1> QED
  BY <1>2, ChainStarts, ChainStep, PTL DEF ChainSpec

-----------------------------------------------------------------------------
(* The settings page                                                       *)

(* The effect has always run for what is shown, and left a draft made from *)
(* it, edited or not.                                                      *)
SettingsInv ==
    /\ PageTypeOK /\ SavesWhatIsShown
    /\ noticed = Shown(lookupId, query)
    /\ noticed # Nothing => draft.of = noticed

LEMMA ShownTyped ==
  ASSUME NEW id \in Tenant \union {Nothing}, NEW q \in [Tenant -> Query]
  PROVE  /\ Shown(id, q) \in Object
         /\ Shown(id, q) # Nothing => id \in Tenant /\ Shown(id, q)[1] = id
<1>1. CASE id = Nothing
  BY <1>1 DEF Shown, Object
<1>2. CASE id # Nothing
  <2>1. id \in Tenant /\ q[id].data \in {Nothing} \union 1..MaxVersion
    BY <1>2 DEF Query
  <2> QED
    BY <1>2, <2>1 DEF Shown, Object
<1> QED
  BY <1>1, <1>2

(* After an answer or a lookup the draft is of what is shown.              *)
LEMMA EffectStep ==
  ASSUME SettingsInv, NEW id \in Tenant \union {Nothing}, NEW q \in [Tenant -> Query], Effect(id, q),
         lookupId' = id, query' = q, stored' = stored, isPending' \in BOOLEAN, UNCHANGED <<saves, sent>>
  PROVE  SettingsInv'
<1> DEFINE tenant == Shown(id, q)
<1>1. tenant \in Object
  BY ShownTyped
<1>2. Shown(lookupId, query)' = tenant
  BY DEF Shown
<1> HIDE DEF tenant
<1>3. noticed' = tenant /\ draft' \in [of : Object, text : Text] /\ (tenant # Nothing => draft'.of = tenant)
  <2>1. CASE tenant \notin {Nothing, noticed}
    <3>1. draft' = [of |-> tenant, text |-> "asFilled"] /\ noticed' = tenant
      BY <2>1 DEF Effect, tenant
    <3> QED
      BY <1>1, <3>1 DEF Text
  <2>2. CASE tenant \in {Nothing, noticed}
    <3>1. draft' = draft /\ noticed' = tenant
      BY <2>2 DEF Effect, tenant
    <3> QED
      BY <2>2, <3>1 DEF SettingsInv, PageTypeOK
  <2> QED
    BY <2>1, <2>2
<1> QED
  BY <1>1, <1>2, <1>3 DEF SettingsInv, PageTypeOK, SavesWhatIsShown

LEMMA FetchingTyped ==
  ASSUME query \in [Tenant -> Query], NEW id \in Tenant, NEW online \in BOOLEAN
  PROVE  /\ Fetching(id, online) \in [Tenant -> Query]
         /\ \A t \in Tenant : Fetching(id, online)[t].data = query[t].data
<1> DEFINE status == IF query[id].fetchStatus # "idle" THEN query[id].fetchStatus
                     ELSE IF online THEN "fetching" ELSE "paused"
           new == [query[id] EXCEPT !.fetchStatus = status]
<1>1. query[id] \in Query /\ status \in {"idle", "fetching", "paused"}
  BY DEF Query
<1>2. Fetching(id, online) = [query EXCEPT ![id] = new]
  BY DEF Fetching
<1> HIDE DEF status
<1>3. new \in Query /\ new.data = query[id].data
  BY <1>1 DEF Query
<1> HIDE DEF new
<1> QED
  BY <1>2, <1>3

(* Steps that show nothing else and leave the draft to its object.         *)
LEMMA PageFrame ==
  ASSUME SettingsInv, UNCHANGED <<lookupId, noticed>>, query' \in [Tenant -> Query],
         \A t \in Tenant : query'[t].data = query[t].data,
         stored' \in [Tenant -> 1..MaxVersion], draft' \in [of : Object, text : Text], draft'.of = draft.of,
         isPending' \in BOOLEAN, UNCHANGED sent, saves' \subseteq saves
  PROVE  SettingsInv'
<1>1. Shown(lookupId, query)' = Shown(lookupId, query)
  BY DEF Shown, SettingsInv, PageTypeOK
<1> QED
  BY <1>1 DEF SettingsInv, PageTypeOK, SavesWhatIsShown

LEMMA PageStarts == PageInit => SettingsInv
<1> SUFFICES ASSUME PageInit PROVE SettingsInv
  OBVIOUS
<1>1. stored \in [Tenant -> 1..MaxVersion] /\ query \in [Tenant -> Query]
  BY SettingsAssumption DEF PageInit, Query
<1>2. draft \in [of : Object, text : Text] /\ noticed \in Object /\ IsFiniteSet(sent) /\ sent = {} /\ saves = {}
  BY FS_EmptySet DEF PageInit, Object, Text
<1>3. noticed = Shown(lookupId, query) /\ noticed = Nothing
  BY DEF PageInit, Shown
<1> QED
  BY <1>1, <1>2, <1>3 DEF PageInit, SettingsInv, PageTypeOK, SavesWhatIsShown

LEMMA PageStep ==
  ASSUME SettingsInv, [PageNext]_pageVars
  PROVE  SettingsInv'
<1>1. /\ stored \in [Tenant -> 1..MaxVersion] /\ query \in [Tenant -> Query] /\ isPending \in BOOLEAN
      /\ lookupId \in Tenant \union {Nothing} /\ draft \in [of : Object, text : Text]
      /\ sent \subseteq Save /\ IsFiniteSet(sent) /\ saves \subseteq sent
  BY DEF SettingsInv, PageTypeOK
<1>2. ASSUME NEW id \in Tenant, handleLookup(id) PROVE SettingsInv'
  <2>1. PICK online \in BOOLEAN : query' = Fetching(id, online) /\ Effect(id, query')
    BY <1>2 DEF handleLookup
  <2>2. query' \in [Tenant -> Query]
    BY <1>1, <2>1, FetchingTyped
  <2> QED
    BY <1>2, <2>1, <2>2, EffectStep DEF handleLookup
<1>3. CASE Refetch
  <2>1. PICK online \in BOOLEAN : query' = Fetching(lookupId, online)
    BY <1>3 DEF Refetch
  <2>2. lookupId \in Tenant
    BY <1>1, <1>3 DEF Refetch
  <2> QED
    BY <1>1, <1>3, <2>1, <2>2, FetchingTyped, PageFrame DEF Refetch
<1>4. ASSUME NEW id \in Tenant, Answer(id) PROVE SettingsInv'
  <2>1. [data |-> stored[id], isError |-> FALSE, fetchStatus |-> "idle"] \in Query
    BY <1>1 DEF Query
  <2>2. query' \in [Tenant -> Query]
    BY <1>1, <1>4, <2>1 DEF Answer
  <2> QED
    BY <1>1, <1>4, <2>2, EffectStep DEF Answer
<1>5. ASSUME NEW id \in Tenant, AnswerIsError(id) PROVE SettingsInv'
  <2> DEFINE new == [query[id] EXCEPT !.isError = TRUE, !.fetchStatus = "idle"]
  <2>1. new \in Query
    BY <1>1 DEF Query
  <2>2. query' = [query EXCEPT ![id] = new]
    BY <1>1, <1>5 DEF AnswerIsError
  <2> HIDE DEF new
  <2>3. query' \in [Tenant -> Query]
    BY <1>1, <2>1, <2>2
  <2> QED
    BY <1>1, <1>5, <2>3, EffectStep DEF AnswerIsError
<1>6. CASE Edit
  <2>1. PICK text \in Text : draft' = [draft EXCEPT !.text = text]
    BY <1>6 DEF Edit, Text
  <2>2. draft' \in [of : Object, text : Text] /\ draft'.of = draft.of
    BY <1>1, <2>1
  <2> QED
    BY <1>1, <1>6, <2>2, PageFrame DEF Edit
<1>7. CASE handleNameSubmit
  <2> DEFINE save == [n |-> Cardinality(sent) + 1, id |-> lookupId, shown |-> Shown(lookupId, query),
                      settings |-> IF draft.text = "blank" THEN Nothing ELSE draft.of]
  <2>1. /\ saves' = saves \union {save} /\ sent' = sent \union {save}
        /\ isPending' = TRUE /\ UNCHANGED <<stored, query, lookupId, draft, noticed>>
        /\ Shown(lookupId, query) # Nothing
    BY <1>7 DEF handleNameSubmit, FormIsOpen
  <2>2. lookupId \in Tenant /\ Shown(lookupId, query) \in Object /\ Shown(lookupId, query)[1] = lookupId
    BY <1>1, <2>1, ShownTyped
  <2>3. draft.of = Shown(lookupId, query)
    BY <2>1 DEF SettingsInv
  <2>4. Cardinality(sent) + 1 \in Nat
    BY <1>1, FS_CardinalityType
  <2>5. save \in Save /\ save.shown[1] = save.id /\ save.settings \in {Nothing, save.shown}
    BY <2>2, <2>3, <2>4 DEF Save, Object
  <2> HIDE DEF save
  <2>6. sent' \subseteq Save /\ IsFiniteSet(sent') /\ saves' \subseteq sent'
    BY <1>1, <2>1, <2>5, FS_AddElement
  <2>7. Shown(lookupId, query)' = Shown(lookupId, query)
    BY <2>1 DEF Shown
  <2> QED
    BY <1>1, <2>1, <2>5, <2>6, <2>7 DEF SettingsInv, PageTypeOK, SavesWhatIsShown
<1>8. ASSUME NEW save \in saves, SaveArrives(save) \/ SaveFails(save) PROVE SettingsInv'
  <2>1. save.id \in Tenant
    BY <1>1 DEF Save
  <2>2. stored' \in [Tenant -> 1..MaxVersion]
    BY <1>1, <1>8, <2>1, SettingsAssumption DEF SaveArrives, SaveFails
  <2>3. isPending' \in BOOLEAN /\ saves' \subseteq saves /\ UNCHANGED <<query, lookupId, draft, noticed, sent>>
    BY <1>1, <1>8 DEF SaveArrives, SaveFails, Settled
  <2> QED
    BY <1>1, <2>2, <2>3, PageFrame
<1>9. ASSUME NEW id \in Tenant, OthersSave(id) PROVE SettingsInv'
  <2>1. stored' \in [Tenant -> 1..MaxVersion]
    BY <1>1, <1>9, SettingsAssumption DEF OthersSave
  <2> QED
    BY <1>1, <1>9, <2>1, PageFrame DEF OthersSave
<1>10. CASE UNCHANGED pageVars
  BY <1>1, <1>10, PageFrame DEF pageVars
<1> QED
  BY <1>2, <1>3, <1>4, <1>5, <1>6, <1>7, <1>8, <1>9, <1>10 DEF PageNext

(* tenant-settings.tsx: in whatever order lookups, answers, refetches and  *)
(* edits come, the settings that are saved are a draft made from the       *)
(* tenant as it was shown.                                                 *)
THEOREM SavesCorrect ==
  PageSpec => []SavesWhatIsShown
<1>1. SettingsInv => SavesWhatIsShown
  BY DEF SettingsInv
<1> QED
  BY <1>1, PageStarts, PageStep, PTL DEF PageSpec

-----------------------------------------------------------------------------
(* Renaming contacts                                                       *)

IsPublished(n) == \E i \in DOMAIN published : published[i] = n

(* What stands before an entry a dispatch has left was published, or is    *)
(* left to this dispatch too.                                              *)
RenameInv ==
    /\ RenameTypeOK /\ PublishedInOrder
    /\ \A d \in Dispatch :
         /\ dispatch[d].at \in {"publish", "mark"} => dispatch[d].left # {}
         /\ \A m \in dispatch[d].left : \A n \in 1..m - 1 : n \in dispatch[d].left \/ IsPublished(n)
         /\ dispatch[d].at = "mark" => IsPublished(NextEntry(d))

LEMMA NextIsLeast ==
  ASSUME RenameInv, NEW d \in Dispatch, dispatch[d].at \in {"publish", "mark"}
  PROVE  /\ NextEntry(d) \in dispatch[d].left /\ NextEntry(d) \in DOMAIN outbox /\ NextEntry(d) \in Nat
         /\ \A m \in dispatch[d].left : NextEntry(d) <= m
<1>1. dispatch[d].left \in SUBSET Nat /\ dispatch[d].left # {} /\ dispatch[d].left \subseteq DOMAIN outbox
  BY DEF RenameInv, RenameTypeOK, Dispatching
<1>2. \E n \in dispatch[d].left : \A m \in dispatch[d].left : n <= m
  BY <1>1, LeastExists
<1>3. NextEntry(d) \in dispatch[d].left /\ \A m \in dispatch[d].left : NextEntry(d) <= m
  BY <1>2 DEF NextEntry
<1> QED
  BY <1>1, <1>3

LEMMA RenameStarts == RenameInit => RenameInv
BY ContactAssumption DEF RenameInit, RenameInv, RenameTypeOK, PublishedInOrder, Names, Changing, Dispatching

(* A call of changeName moves, and no entry is published or dropped.       *)
LEMMA ChangeFrame ==
  ASSUME RenameInv, contacts' \in [Contact -> Names], change' \in [Change -> Changing],
         UNCHANGED <<outbox, dispatch, published, failures>>
  PROVE  RenameInv'
<1>1. \A n : IsPublished(n)' = IsPublished(n)
  BY DEF IsPublished
<1>2. \A d \in Dispatch : NextEntry(d)' = NextEntry(d)
  BY DEF NextEntry
<1> QED
  BY <1>1, <1>2 DEF RenameInv, RenameTypeOK, PublishedInOrder

LEMMA CommitChangeStep ==
  ASSUME RenameInv, NEW c \in Change, CommitChange(c)
  PROVE  RenameInv'
<1> DEFINE k == change[c].contact
           entry == [contact |-> k, oldName |-> change[c].copy[k], name |-> c, processed |-> FALSE]
<1>1. change[c].at = "open" /\ k \in Contact /\ change[c].copy \in [Contact -> Names]
  BY DEF CommitChange, RenameInv, RenameTypeOK, Changing
<1>2. /\ contacts' = [change[c].copy EXCEPT ![k] = c] /\ outbox' = Append(outbox, entry)
      /\ change' = [change EXCEPT ![c] = [at |-> "done"]] /\ UNCHANGED <<dispatch, published, failures>>
  BY DEF CommitChange
<1>3. entry \in OutboxEntry /\ entry.processed = FALSE
  BY <1>1 DEF OutboxEntry, Names
<1> HIDE DEF entry
<1>4. contacts' \in [Contact -> Names] /\ change' \in [Change -> Changing]
  BY <1>1, <1>2 DEF RenameInv, RenameTypeOK, Changing, Names
<1>5. outbox \in Seq(OutboxEntry) /\ published \in Seq(DOMAIN outbox)
  BY DEF RenameInv, RenameTypeOK
<1>6. /\ outbox' \in Seq(OutboxEntry) /\ DOMAIN outbox \subseteq DOMAIN outbox'
      /\ \A n \in DOMAIN outbox : outbox'[n] = outbox[n]
      /\ \A n \in DOMAIN outbox' : n \in DOMAIN outbox \/ outbox'[n] = entry
  BY <1>2, <1>3, <1>5
<1>7. published' \in Seq(DOMAIN outbox')
  BY <1>2, <1>5, <1>6
<1>8. \A n : IsPublished(n)' = IsPublished(n)
  BY <1>2 DEF IsPublished
<1>9. \A d \in Dispatch : NextEntry(d)' = NextEntry(d)
  BY <1>2 DEF NextEntry
<1>10. PublishedInOrder'
  BY <1>2, <1>3, <1>6 DEF PublishedInOrder, RenameInv
<1>11. RenameTypeOK'
  BY <1>2, <1>4, <1>6, <1>7 DEF RenameInv, RenameTypeOK
<1> QED
  BY <1>2, <1>8, <1>9, <1>10, <1>11 DEF RenameInv

(* A dispatch moves.                                                       *)
LEMMA DispatchFrame ==
  ASSUME RenameInv, NEW d \in Dispatch, NEW next \in Dispatching, next.left \subseteq DOMAIN outbox,
         dispatch' = [dispatch EXCEPT ![d] = next],
         next.at \in {"publish", "mark"} => next.left # {},
         \A m \in next.left : \A n \in 1..m - 1 : n \in next.left \/ IsPublished(n),
         next.at = "mark" => next.left = dispatch[d].left /\ IsPublished(NextEntry(d))',
         \A n : IsPublished(n) => IsPublished(n)',
         outbox' \in Seq(OutboxEntry), DOMAIN outbox' = DOMAIN outbox,
         published' \in Seq(DOMAIN outbox), failures' \in 0..MaxFailures,
         UNCHANGED <<contacts, change>>, PublishedInOrder'
  PROVE  RenameInv'
<1>1. dispatch' \in [Dispatch -> Dispatching] /\ dispatch'[d] = next /\ \A e \in Dispatch \ {d} : dispatch'[e] = dispatch[e]
  BY DEF RenameInv, RenameTypeOK
<1>2. RenameTypeOK'
  BY <1>1 DEF RenameInv, RenameTypeOK
<1>3. ASSUME NEW e \in Dispatch \ {d}
      PROVE  /\ dispatch'[e].at \in {"publish", "mark"} => dispatch'[e].left # {}
             /\ \A m \in dispatch'[e].left : \A n \in 1..m - 1 : n \in dispatch'[e].left \/ IsPublished(n)'
             /\ dispatch'[e].at = "mark" => IsPublished(NextEntry(e))'
  <2>1. NextEntry(e)' = NextEntry(e)
    BY <1>1 DEF NextEntry
  <2>2. IsPublished(NextEntry(e)) => IsPublished(NextEntry(e))'
    BY <2>1 DEF IsPublished
  <2> QED
    BY <1>1, <2>2 DEF RenameInv
<1> QED
  BY <1>1, <1>2, <1>3 DEF RenameInv

LEMMA DispatchPendingStep ==
  ASSUME RenameInv, NEW d \in Dispatch, dispatchPending(d)
  PROVE  RenameInv'
<1> DEFINE pending == {n \in DOMAIN outbox : ~outbox[n].processed}
           next == [at |-> "publish", left |-> pending]
<1>1. pending # {} /\ dispatch' = [dispatch EXCEPT ![d] = next] /\ UNCHANGED <<contacts, outbox, change, published, failures>>
  BY DEF dispatchPending
<1>2. outbox \in Seq(OutboxEntry) /\ published \in Seq(DOMAIN outbox) /\ failures \in 0..MaxFailures
  BY DEF RenameInv, RenameTypeOK
<1>3. pending \subseteq DOMAIN outbox /\ DOMAIN outbox \subseteq Nat
  BY <1>2
<1>4. next \in Dispatching /\ next.at = "publish" /\ next.left = pending
  BY <1>3 DEF Dispatching
<1>5. ASSUME NEW m \in pending, NEW n \in 1..m - 1 PROVE n \in pending \/ IsPublished(n)
  <2>1. n \in DOMAIN outbox
    BY <1>2, <1>5
  <2> QED
    BY <2>1 DEF RenameInv, PublishedInOrder, IsPublished
<1> HIDE DEF next, pending
<1>6. (\A n : IsPublished(n)' = IsPublished(n)) /\ PublishedInOrder'
  BY <1>1 DEF IsPublished, PublishedInOrder, RenameInv
<1> QED
  BY <1>1, <1>2, <1>3, <1>4, <1>5, <1>6, DispatchFrame

LEMMA PublishStep ==
  ASSUME RenameInv, NEW d \in Dispatch, Publish(d)
  PROVE  RenameInv'
<1>1. /\ dispatch[d].at = "publish" /\ published' = Append(published, NextEntry(d))
      /\ UNCHANGED <<contacts, outbox, change, failures>> /\ dispatch[d] \in Dispatching
      /\ outbox \in Seq(OutboxEntry) /\ published \in Seq(DOMAIN outbox) /\ failures \in 0..MaxFailures
  BY DEF Publish, RenameInv, RenameTypeOK
<1> DEFINE next == [dispatch[d] EXCEPT !.at = "mark"]
<1>2. PICK e \in DOMAIN outbox : /\ e = NextEntry(d) /\ e \in dispatch[d].left /\ e \in Nat
                                /\ \A m \in dispatch[d].left : e <= m
  BY <1>1, NextIsLeast
<1>3. next \in Dispatching /\ next.at = "mark" /\ next.left = dispatch[d].left
  BY <1>1 DEF Dispatching
<1>4. dispatch' = [dispatch EXCEPT ![d] = next]
  BY DEF Publish
<1> HIDE DEF next
<1>5. NextEntry(d)' = e
  BY <1>2, <1>3, <1>4 DEF NextEntry, RenameInv, RenameTypeOK
<1>6. /\ published' \in Seq(DOMAIN outbox) /\ Len(published') = Len(published) + 1
      /\ DOMAIN published' = 1..Len(published) + 1 /\ DOMAIN published = 1..Len(published) /\ Len(published) \in Nat
      /\ published'[Len(published) + 1] = e
      /\ \A i \in DOMAIN published : published'[i] = published[i] /\ i \in DOMAIN published'
  BY <1>1, <1>2
<1>7. (\A n : IsPublished(n) => IsPublished(n)') /\ IsPublished(NextEntry(d))'
  <2>1. \A n : IsPublished(n) => IsPublished(n)'
    BY <1>6 DEF IsPublished
  <2>2. Len(published) + 1 \in DOMAIN published'
    BY <1>6
  <2> QED
    BY <1>5, <1>6, <2>1, <2>2 DEF IsPublished
<1>8. PublishedInOrder'
  <2>1. ASSUME NEW i \in DOMAIN published', NEW n \in 1..published'[i] - 1
        PROVE  \E j \in 1..i - 1 : published'[j] = n
    <3>1. CASE i \in DOMAIN published
      <4>1. PICK j \in 1..i - 1 : published[j] = n
        BY <1>6, <2>1, <3>1 DEF RenameInv, PublishedInOrder
      <4>2. j \in DOMAIN published
        BY <1>6, <3>1
      <4> QED
        BY <1>6, <4>1, <4>2
    <3>2. CASE i = Len(published) + 1
      <4>1. n \in 1..e - 1 /\ n < e
        BY <1>2, <1>6, <2>1, <3>2
      <4>2. n \notin dispatch[d].left
        BY <1>2, <4>1
      <4>3. PICK j \in DOMAIN published : published[j] = n
        BY <1>2, <4>1, <4>2 DEF RenameInv, IsPublished
      <4>4. j \in 1..i - 1
        BY <1>6, <3>2
      <4> QED
        BY <1>6, <4>3, <4>4
    <3> QED
      BY <1>6, <2>1, <3>1, <3>2
  <2>2. \A n \in DOMAIN outbox' : outbox'[n].processed => \E i \in DOMAIN published' : published'[i] = n
    BY <1>1, <1>6 DEF RenameInv, PublishedInOrder
  <2> QED
    BY <2>1, <2>2 DEF PublishedInOrder
<1>9. next.left # {} /\ next.left \subseteq DOMAIN outbox
      /\ \A m \in next.left : \A n \in 1..m - 1 : n \in next.left \/ IsPublished(n)
  BY <1>2, <1>3 DEF RenameInv, RenameTypeOK
<1> QED
  BY <1>1, <1>3, <1>4, <1>6, <1>7, <1>8, <1>9, DispatchFrame

LEMMA PublishFailsStep ==
  ASSUME RenameInv, NEW d \in Dispatch, PublishFails(d)
  PROVE  RenameInv'
<1> DEFINE next == [at |-> "failed", left |-> {}]
<1>1. dispatch' = [dispatch EXCEPT ![d] = next] /\ UNCHANGED <<contacts, outbox, change, published>>
      /\ failures' \in 0..MaxFailures
  BY ContactAssumption DEF PublishFails, RenameInv, RenameTypeOK
<1>2. next \in Dispatching /\ next.at = "failed" /\ next.left = {}
  BY DEF Dispatching
<1> HIDE DEF next
<1>3. (\A n : IsPublished(n)' = IsPublished(n)) /\ PublishedInOrder'
  BY <1>1 DEF IsPublished, PublishedInOrder, RenameInv
<1>4. outbox \in Seq(OutboxEntry) /\ published \in Seq(DOMAIN outbox)
  BY DEF RenameInv, RenameTypeOK
<1> QED
  BY <1>1, <1>2, <1>3, <1>4, DispatchFrame

LEMMA MarkProcessedStep ==
  ASSUME RenameInv, NEW d \in Dispatch, markProcessed(d)
  PROVE  RenameInv'
<1> DEFINE next == Onward(d)
<1>1. /\ dispatch[d].at = "mark" /\ UNCHANGED <<contacts, change, published, failures>> /\ dispatch[d] \in Dispatching
      /\ outbox \in Seq(OutboxEntry) /\ published \in Seq(DOMAIN outbox) /\ failures \in 0..MaxFailures
      /\ dispatch' = [dispatch EXCEPT ![d] = next] /\ outbox' = [outbox EXCEPT ![NextEntry(d)].processed = TRUE]
  BY DEF markProcessed, RenameInv, RenameTypeOK
<1>2. PICK e \in DOMAIN outbox : /\ e = NextEntry(d) /\ e \in dispatch[d].left /\ e \in Nat
                                /\ \A m \in dispatch[d].left : e <= m
  BY <1>1, NextIsLeast
<1>3. IsPublished(e)
  BY <1>1, <1>2 DEF RenameInv
<1>4. next.left = dispatch[d].left \ {e} /\ next.at = IF next.left = {} THEN "done" ELSE "publish"
  BY <1>2 DEF Onward
<1>5. dispatch[d].left \subseteq Nat /\ dispatch[d].left \subseteq DOMAIN outbox
  BY DEF RenameInv, RenameTypeOK, Dispatching
<1>6. next \in Dispatching /\ next.left \subseteq DOMAIN outbox
  BY <1>2, <1>5 DEF Dispatching, Onward
<1> HIDE DEF next
<1>7. /\ outbox' \in Seq(OutboxEntry) /\ DOMAIN outbox' = DOMAIN outbox
      /\ \A n \in DOMAIN outbox : n # e => outbox'[n] = outbox[n]
  <2> DEFINE new == [outbox[e] EXCEPT !.processed = TRUE]
  <2>1. outbox \in Seq(OutboxEntry) /\ outbox[e] \in OutboxEntry
    BY <1>1
  <2>2. new \in OutboxEntry
    BY <2>1 DEF OutboxEntry
  <2>3. outbox' = [outbox EXCEPT ![e] = new]
    BY <1>1, <1>2
  <2> HIDE DEF new
  <2> QED
    BY <2>1, <2>2, <2>3
<1>8. \A n : IsPublished(n)' = IsPublished(n)
  BY <1>1 DEF IsPublished
<1>9. PublishedInOrder'
  BY <1>1, <1>3, <1>7 DEF PublishedInOrder, RenameInv, IsPublished
<1>10. \A m \in next.left : \A n \in 1..m - 1 : n \in next.left \/ IsPublished(n)
  BY <1>3, <1>4 DEF RenameInv
<1> QED
  BY <1>1, <1>4, <1>6, <1>7, <1>8, <1>9, <1>10, DispatchFrame

LEMMA RenameStep ==
  ASSUME RenameInv, [RenameNext]_renameVars
  PROVE  RenameInv'
<1>1. ASSUME NEW c \in Change, changeName(c) PROVE RenameInv'
  <2>1. PICK k \in Contact \union {Unknown} : change' = [change EXCEPT ![c] =
          IF k = Unknown THEN [at |-> "missing"] ELSE [at |-> "open", contact |-> k, copy |-> contacts]]
    BY <1>1 DEF changeName
  <2>2. (IF k = Unknown THEN [at |-> "missing"] ELSE [at |-> "open", contact |-> k, copy |-> contacts]) \in Changing
    BY DEF RenameInv, RenameTypeOK, Changing
  <2>3. change' \in [Change -> Changing] /\ contacts' \in [Contact -> Names]
    BY <1>1, <2>1, <2>2 DEF changeName, RenameInv, RenameTypeOK
  <2> QED
    BY <1>1, <2>3, ChangeFrame DEF changeName
<1>2. ASSUME NEW c \in Change, FailChange(c) PROVE RenameInv'
  <2>1. change' \in [Change -> Changing] /\ contacts' \in [Contact -> Names]
    BY <1>2 DEF FailChange, RenameInv, RenameTypeOK, Changing
  <2> QED
    BY <1>2, <2>1, ChangeFrame DEF FailChange
<1>3. CASE UNCHANGED renameVars
  <2>1. change' \in [Change -> Changing] /\ contacts' \in [Contact -> Names]
    BY <1>3 DEF renameVars, RenameInv, RenameTypeOK
  <2> QED
    BY <1>3, <2>1, ChangeFrame DEF renameVars
<1> QED
  BY <1>1, <1>2, <1>3, CommitChangeStep, DispatchPendingStep, PublishStep, PublishFailsStep, MarkProcessedStep
  DEF RenameNext

(* OutboxDispatcher.dispatchPending: whatever dispatches overlap and fail, *)
(* an entry is first published after all entries before it, and only a     *)
(* published entry is marked.                                              *)
THEOREM OrderCorrect ==
  RenameSpec => []PublishedInOrder
<1>1. RenameInv => PublishedInOrder
  BY DEF RenameInv
<1> QED
  BY <1>1, RenameStarts, RenameStep, PTL DEF RenameSpec

-----------------------------------------------------------------------------
(* The listing of access                                                   *)

Paged(u) == \E n \in DOMAIN pages : u \in DOMAIN pages[n]

(* The cursor stands behind everybody on a page, and before it are no      *)
(* members of the beginning but those on a page.                           *)
CursorInv ==
    /\ always \subseteq Members
    /\ \A m, n \in DOMAIN pages : m # n => DOMAIN pages[m] \intersect DOMAIN pages[n] = {}
    /\ page.at # "done" =>
         /\ \A n \in DOMAIN pages : \A u \in DOMAIN pages[n] : u <= page.cursor
         /\ \A u \in always \intersect Displayed : u <= page.cursor => Paged(u)
    /\ page.at = "done" => \A u \in always \intersect Displayed : Paged(u)

(* The users of the page being read: behind the cursor, no more than the   *)
(* limit, and nobody it skips comes before the next cursor.                *)
UsersInv ==
    page.at = "reads" =>
        /\ Cardinality(page.ids) <= Limit
        /\ \A u \in page.ids : u > page.cursor
        /\ page.hasMore => page.ids # {}
        /\ \A u \in always : u > page.cursor =>
             u \in page.ids \/ (page.hasMore /\ \A v \in page.ids : v < u)

(* What was read was true meanwhile, and what stood was read.              *)
SeenInv ==
    page.at = "reads" =>
        /\ page.seen \subseteq met
        /\ \A f \in stood : f.kind \in {"grouped", "row"} \ page.left => f \in page.seen

AnswersInv ==
    \A n \in DOMAIN pages : \A u \in DOMAIN pages[n] :
        /\ pages[n][u].least \subseteq pages[n][u].permissions
        /\ pages[n][u].permissions \subseteq pages[n][u].most

AccessInv ==
    /\ AccessTypeOK /\ pages \in Seq(UNION {[users -> Access] : users \in SUBSET Displayed})
    /\ CursorInv /\ UsersInv /\ SeenInv /\ AnswersInv

LEMMA FiniteUsers ==
  ASSUME NEW ids \in SUBSET User
  PROVE  IsFiniteSet(ids) /\ Cardinality(ids) \in Nat /\ ids \in SUBSET Nat
<1>1. IsFiniteSet(ids)
  BY AccessAssumption, FS_Subset
<1>2. Cardinality(ids) \in Nat
  BY <1>1, FS_CardinalityType
<1> QED
  BY <1>1, <1>2, AccessAssumption

LEMMA GreatestIs ==
  ASSUME NEW ids \in SUBSET User, ids # {}
  PROVE  Greatest(ids) \in ids /\ \A v \in ids : v <= Greatest(ids)
<1>1. \E n \in ids : \A m \in ids : m <= n
  BY FiniteUsers, GreatestExists
<1> QED
  BY <1>1 DEF Greatest

(* The query's take: no more than the limit, none passed over.             *)
LEMMA LowestIs ==
  ASSUME NEW ids \in SUBSET User
  PROVE  /\ Lowest(ids) \subseteq ids /\ Cardinality(Lowest(ids)) <= Limit
         /\ ids # {} => Lowest(ids) # {}
         /\ \A u \in ids \ Lowest(ids), v \in Lowest(ids) : v < u
<1> DEFINE Below(u) == {v \in ids : v < u}
<1>1. Limit \in Nat /\ Limit > 0
  BY AccessAssumption
<1>2. Lowest(ids) = {u \in ids : Cardinality(Below(u)) < Limit}
  BY DEF Lowest
<1>3. \A u \in ids : Below(u) \in SUBSET User
  OBVIOUS
<1>4. \A u \in ids : u \in Nat
  BY FiniteUsers
<1>5. ASSUME NEW u \in ids, NEW v \in ids, u <= v PROVE Cardinality(Below(u)) <= Cardinality(Below(v))
  <2>1. \A w \in ids : w < u => w < v
    BY <1>4, <1>5
  <2>2. Below(u) \in SUBSET Below(v)
    BY <2>1
  <2> HIDE DEF Below
  <2>3. IsFiniteSet(Below(v))
    BY <1>3, FiniteUsers
  <2> QED
    BY <2>2, <2>3, FS_Subset
<1>6. ASSUME ids # {} PROVE Lowest(ids) # {}
  <2>1. PICK n \in ids : \A m \in ids : n <= m
    BY <1>6, FiniteUsers, LeastExists
  <2>2. Below(n) = {}
    <3>1. \A m \in ids : ~(m < n)
      BY <1>4, <2>1
    <3> QED
      BY <3>1
  <2>3. Cardinality(Below(n)) = 0
    BY <2>2, FS_EmptySet
  <2> HIDE DEF Below
  <2> QED
    BY <1>1, <1>2, <2>3
<1>7. ASSUME NEW u \in ids \ Lowest(ids), NEW v \in Lowest(ids) PROVE v < u
  <2>1. Cardinality(Below(v)) \in Nat /\ Cardinality(Below(u)) \in Nat
    BY <1>2, <1>3, FiniteUsers
  <2>2. v \in ids /\ Cardinality(Below(v)) < Limit /\ ~(Cardinality(Below(u)) < Limit)
    BY <1>2
  <2>3. u <= v => Cardinality(Below(u)) <= Cardinality(Below(v))
    BY <1>5, <2>2
  <2>4. u \in Nat /\ v \in Nat
    BY <1>4, <2>2
  <2> HIDE DEF Below
  <2> QED
    BY <1>1, <2>1, <2>2, <2>3, <2>4
<1>8. Cardinality(Lowest(ids)) <= Limit
  <2>1. Lowest(ids) \in SUBSET User
    BY <1>2
  <2>2. CASE Lowest(ids) = {}
    BY <1>1, <2>2, FS_EmptySet
  <2>3. CASE Lowest(ids) # {}
    <3>1. PICK g \in Lowest(ids) : \A v \in Lowest(ids) : v <= g
      BY <2>1, <2>3, GreatestIs
    <3>2. g \in ids /\ Cardinality(Below(g)) < Limit
      BY <1>2, <3>1
    <3>3. Lowest(ids) \ {g} \in SUBSET Below(g)
      <4>1. \A v \in Lowest(ids) : v # g => v < g
        BY <1>2, <1>4, <3>1
      <4> QED
        BY <1>2, <4>1
    <3> HIDE DEF Below
    <3>4. IsFiniteSet(Below(g)) /\ Cardinality(Below(g)) \in Nat /\ IsFiniteSet(Lowest(ids))
          /\ Cardinality(Lowest(ids)) \in Nat
      BY <1>3, <2>1, <3>2, FiniteUsers
    <3>5. Cardinality(Lowest(ids) \ {g}) <= Cardinality(Below(g))
      BY <3>3, <3>4, FS_Subset
    <3>6. Cardinality(Lowest(ids) \ {g}) = Cardinality(Lowest(ids)) - 1
      BY <3>1, <3>4, FS_RemoveElement
    <3> QED
      BY <1>1, <3>2, <3>4, <3>5, <3>6
  <2> QED
    BY <2>2, <2>3
<1> QED
  BY <1>2, <1>6, <1>7, <1>8

-----------------------------------------------------------------------------
(* What a user may do                                                      *)

(* The roles a set of facts gives a user.                                  *)
Granted(known) == {f.grant : f \in {g \in known : g.kind \in {"row", "tuple"}}}
Roles(u, known) ==
    normalizeMembershipRole(MembershipRole[u])
    \union {g[2] : g \in {h \in Granted(known) :
              h[1] = u \/ [kind |-> "grouped", user |-> u, group |-> h[1]] \in known}}

LEMMA MayByRoles ==
  ASSUME NEW u, NEW known
  PROVE  May(u, known) = UNION {permissionIds(role) : role \in Roles(u, known)}
BY DEF May, Roles, Granted

LEMMA EffectiveByRoles ==
  ASSUME NEW u
  PROVE  effectivePermissionIds(u) = UNION {permissionIds(role) : role \in Roles(u, page.seen)}
<1> DEFINE Grants == Granted(page.seen)
           Inherits(g) == [kind |-> "grouped", user |-> u, group |-> g[1]] \in page.seen
<1>1. provenance(u) =
        [source : {"membership"}, role : normalizeMembershipRole(MembershipRole[u])]
        \union {[source |-> "direct", role |-> g[2]] : g \in {h \in Grants : h[1] = u}}
        \union {[source |-> "group", role |-> g[2], group |-> g[1]] : g \in {h \in Grants : Inherits(h)}}
  BY DEF provenance, Granted
<1>2. Roles(u, page.seen) =
        normalizeMembershipRole(MembershipRole[u]) \union {g[2] : g \in {h \in Grants : h[1] = u \/ Inherits(h)}}
  BY DEF Roles
<1> HIDE DEF Grants, Inherits
<1>3. ASSUME NEW entry \in provenance(u) PROVE entry.role \in Roles(u, page.seen)
  <2>1. CASE entry \in [source : {"membership"}, role : normalizeMembershipRole(MembershipRole[u])]
    BY <1>2, <2>1
  <2>2. CASE entry \in {[source |-> "direct", role |-> g[2]] : g \in {h \in Grants : h[1] = u}}
    <3>1. PICK g \in Grants : g[1] = u /\ entry = [source |-> "direct", role |-> g[2]]
      BY <2>2
    <3>2. entry.role = g[2]
      BY <3>1
    <3> QED
      BY <1>2, <3>1, <3>2
  <2>3. CASE entry \in {[source |-> "group", role |-> g[2], group |-> g[1]] : g \in {h \in Grants : Inherits(h)}}
    <3>1. PICK g \in Grants : Inherits(g) /\ entry = [source |-> "group", role |-> g[2], group |-> g[1]]
      BY <2>3
    <3>2. entry.role = g[2]
      BY <3>1
    <3> QED
      BY <1>2, <3>1, <3>2
  <2> QED
    BY <1>1, <2>1, <2>2, <2>3
<1>4. ASSUME NEW role \in Roles(u, page.seen) PROVE \E entry \in provenance(u) : entry.role = role
  <2>1. CASE role \in normalizeMembershipRole(MembershipRole[u])
    <3>1. [source |-> "membership", role |-> role] \in provenance(u)
      BY <1>1, <2>1
    <3> QED
      BY <3>1
  <2>2. CASE \E g \in Grants : g[1] = u /\ role = g[2]
    <3>1. PICK g \in Grants : g[1] = u /\ role = g[2]
      BY <2>2
    <3>2. [source |-> "direct", role |-> g[2]] \in provenance(u)
      BY <1>1, <3>1
    <3> QED
      BY <3>1, <3>2
  <2>3. CASE \E g \in Grants : Inherits(g) /\ role = g[2]
    <3>1. PICK g \in Grants : Inherits(g) /\ role = g[2]
      BY <2>3
    <3>2. [source |-> "group", role |-> g[2], group |-> g[1]] \in provenance(u)
      BY <1>1, <3>1
    <3> QED
      BY <3>1, <3>2
  <2> QED
    BY <1>2, <2>1, <2>2, <2>3
<1> QED
  BY <1>3, <1>4 DEF effectivePermissionIds

(* Members aside, more facts give no fewer permissions.                    *)
LEMMA MayGrows ==
  ASSUME NEW u, NEW known \in SUBSET Facts, NEW more, \A f \in known : f.kind # "member" => f \in more
  PROVE  May(u, known) \subseteq May(u, more)
<1>1. Granted(known) \subseteq Granted(more)
  BY DEF Granted
<1>2. \A g : [kind |-> "grouped", user |-> u, group |-> g] \in known
               => [kind |-> "grouped", user |-> u, group |-> g] \in more
  OBVIOUS
<1>3. Roles(u, known) \subseteq Roles(u, more)
  BY <1>1, <1>2 DEF Roles
<1> QED
  BY <1>3, MayByRoles

LEMMA MayTyped ==
  ASSUME NEW u, NEW known \in SUBSET Facts
  PROVE  May(u, known) \in SUBSET Permission
<1>1. ASSUME NEW role \in Role PROVE permissionIds(role) \subseteq Permission
  BY <1>1 DEF Role, permissionIds, Permission
<1>2. normalizeMembershipRole(MembershipRole[u]) \subseteq Role
  BY DEF normalizeMembershipRole, Role
<1>3. \A g \in Granted(known) : g[2] \in Role
  <2>1. ASSUME NEW f \in known, f.kind \in {"row", "tuple"} PROVE f.grant[2] \in Role
    <3>1. f.grant \in Grant
      BY <2>1 DEF Facts, Member, Grouped, Assigned
    <3> QED
      BY <3>1, AccessAssumption
  <2> QED
    BY <2>1 DEF Granted
<1>4. Roles(u, known) \subseteq Role
  BY <1>2, <1>3 DEF Roles
<1> QED
  BY <1>1, <1>4, MayByRoles

-----------------------------------------------------------------------------
(* The steps of a listing                                                  *)

LEMMA ReadsFields ==
  ASSUME page \in Page
  PROVE  /\ page.at \in {"asked", "members", "refused", "reads", "done"}
         /\ page.at # "done" => page.cursor \in Nat
         /\ page.at = "reads" =>
              /\ page.ids \in SUBSET User /\ page.hasMore \in BOOLEAN
              /\ page.left \in SUBSET {"grouped", "row", "tuple"} /\ page.unread \in SUBSET Grant
              /\ page.seen \in SUBSET Facts
BY DEF Page

LEMMA MembersAreUsers ==
  ASSUME facts \in SUBSET Facts
  PROVE  Members \in SUBSET User
<1>1. ASSUME NEW f \in facts, f.kind = "member" PROVE f.user \in User
  BY <1>1 DEF Facts, Member, Grouped, Assigned
<1> QED
  BY <1>1 DEF Members, Of

LEMMA AccessStarts == AccessInit => AccessInv
<1> SUFFICES ASSUME AccessInit PROVE AccessInv
  OBVIOUS
<1>1. facts \in SUBSET Facts
  <2>1. PICK members \in SUBSET Member, grouped \in SUBSET Grouped, rows \in SUBSET [kind : {"row"}, grant : Grant] :
          facts = members \union grouped \union rows \union {[kind |-> "tuple", grant |-> f.grant] : f \in rows}
    BY DEF AccessInit
  <2>2. \A f \in rows : f \in Assigned /\ [kind |-> "tuple", grant |-> f.grant] \in Assigned
    BY DEF Assigned
  <2> QED
    BY <2>1, <2>2 DEF Facts
<1>2. page = [at |-> "asked", cursor |-> 0] /\ pages = <<>> /\ stood = facts /\ met = facts /\ always = Members /\ changes = 0
  BY DEF AccessInit
<1>3. page \in Page /\ page.at = "asked" /\ page.cursor = 0
  BY <1>2 DEF Page
<1>4. Members \in SUBSET User /\ \A u \in User : ~(u <= 0)
  BY <1>1, MembersAreUsers, AccessAssumption
<1> QED
  BY <1>1, <1>2, <1>3, <1>4, AccessAssumption DEF AccessInv, AccessTypeOK, CursorInv, UsersInv, SeenInv, AnswersInv

(* The page moves on; the tenant and the pages answered do not.            *)
LEMMA PageMoves ==
  ASSUME AccessInv, page' \in Page, page'.at # "done", page.at # "done", page'.cursor = page.cursor,
         UNCHANGED <<facts, pages, always, changes>>,
         stood' \subseteq facts, facts \subseteq met', met' \subseteq Facts, UsersInv', SeenInv'
  PROVE  AccessInv'
<1>1. Members' = Members /\ \A u : Paged(u)' = Paged(u)
  BY DEF Members, Of, Paged
<1>2. AccessTypeOK' /\ pages' \in Seq(UNION {[users -> Access] : users \in SUBSET Displayed})
  BY DEF AccessInv, AccessTypeOK
<1>3. CursorInv'
  BY <1>1 DEF AccessInv, CursorInv
<1>4. AnswersInv'
  BY DEF AccessInv, AnswersInv
<1> QED
  BY <1>2, <1>3, <1>4 DEF AccessInv

LEMMA ListMembershipsStep ==
  ASSUME AccessInv, listMemberships
  PROVE  AccessInv'
<1> DEFINE after == AfterCursor(Members)
           next == [at |-> "reads", cursor |-> page.cursor, ids |-> Lowest(after), hasMore |-> Lowest(after) # after,
                    left |-> {"grouped", "row", "tuple"}, unread |-> Grant, seen |-> {}]
<1>1. page.at = "members" /\ page' = next /\ UNCHANGED <<facts, stood, met, always, changes, pages>>
  BY DEF listMemberships, STAND
<1>2. page \in Page /\ facts \in SUBSET Facts /\ page.cursor \in Nat
  BY <1>1, ReadsFields DEF AccessInv, AccessTypeOK
<1>3. after \in SUBSET User /\ (\A u \in after : u > page.cursor) /\ (\A u \in Members : u > page.cursor => u \in after)
  BY <1>2, MembersAreUsers DEF AfterCursor
<1> HIDE DEF after
<1>4. /\ Lowest(after) \subseteq after /\ Cardinality(Lowest(after)) <= Limit
      /\ after # {} => Lowest(after) # {}
      /\ \A u \in after \ Lowest(after), v \in Lowest(after) : v < u
  BY <1>3, LowestIs
<1>5. next \in Page
  BY <1>2, <1>3, <1>4 DEF Page
<1>6. /\ next.at = "reads" /\ next.cursor = page.cursor /\ next.ids = Lowest(after)
      /\ (next.hasMore <=> Lowest(after) # after) /\ next.left = {"grouped", "row", "tuple"} /\ next.seen = {}
  OBVIOUS
<1> HIDE DEF next
<1>7. UsersInv'
  <2>1. ASSUME NEW u \in always, u > page.cursor
        PROVE  u \in next.ids \/ (next.hasMore /\ \A v \in next.ids : v < u)
    <3>1. u \in after
      BY <1>3, <2>1 DEF AccessInv, CursorInv
    <3> QED
      BY <1>4, <1>6, <3>1
  <2>2. (\A u \in next.ids : u > page.cursor) /\ (next.hasMore => next.ids # {}) /\ Cardinality(next.ids) <= Limit
    BY <1>3, <1>4, <1>6
  <2> QED
    BY <1>1, <1>6, <2>1, <2>2 DEF UsersInv
<1>8. SeenInv'
  BY <1>1, <1>6 DEF SeenInv
<1> QED
  BY <1>1, <1>5, <1>6, <1>7, <1>8, PageMoves DEF AccessInv, AccessTypeOK

(* An answer arrives: facts of the moment are seen, a kind is finished.    *)
LEMMA AnswerArrives ==
  ASSUME AccessInv, page.at = "reads", NEW left \in SUBSET page.left, NEW unread \in SUBSET page.unread,
         NEW seen \in SUBSET met,
         \A f \in stood : f.kind \in {"grouped", "row"} \ left => f \in seen,
         page' = [page EXCEPT !.left = left, !.unread = unread, !.seen = seen],
         UNCHANGED <<facts, pages, stood, met, always, changes>>
  PROVE  AccessInv'
<1>1. page \in Page /\ met \subseteq Facts
  BY DEF AccessInv, AccessTypeOK
<1>2. /\ page' \in Page /\ page'.at = "reads" /\ page'.cursor = page.cursor /\ page'.ids = page.ids
      /\ page'.hasMore = page.hasMore /\ page'.left = left /\ page'.seen = seen
  <2>1. page \in [at : {"reads"}, cursor : Nat, ids : SUBSET User, hasMore : BOOLEAN,
                  left : SUBSET {"grouped", "row", "tuple"}, unread : SUBSET Grant, seen : SUBSET Facts]
    BY <1>1 DEF Page
  <2>2. left \in SUBSET {"grouped", "row", "tuple"} /\ unread \in SUBSET Grant /\ seen \in SUBSET Facts
    BY <1>1, <2>1
  <2> QED
    BY <2>1, <2>2 DEF Page
<1>3. UsersInv'
  BY <1>2 DEF AccessInv, UsersInv
<1>4. SeenInv'
  BY <1>2 DEF SeenInv
<1> QED
  BY <1>2, <1>3, <1>4, PageMoves DEF AccessInv, AccessTypeOK

LEMMA ReadStep ==
  ASSUME AccessInv, NEW kind \in {"grouped", "row"}, Read(kind)
  PROVE  AccessInv'
<1>1. /\ page.at = "reads" /\ page' = [page EXCEPT !.left = page.left \ {kind}, !.seen = page.seen \union Of(kind)]
      /\ UNCHANGED <<facts, pages, stood, met, always, changes>>
  BY DEF Read, STAND
<1>2. page' = [page EXCEPT !.left = page.left \ {kind}, !.unread = page.unread, !.seen = page.seen \union Of(kind)]
  <2>1. page \in Page
    BY DEF AccessInv, AccessTypeOK
  <2> QED
    BY <1>1, <2>1 DEF Page
<1>3. page.seen \union Of(kind) \in SUBSET met
  BY <1>1 DEF AccessInv, AccessTypeOK, SeenInv, Of
<1>4. \A f \in stood : f.kind \in {"grouped", "row"} \ (page.left \ {kind}) => f \in page.seen \union Of(kind)
  BY <1>1 DEF AccessInv, AccessTypeOK, SeenInv, Of
<1> DEFINE left == page.left \ {kind}
           seen == page.seen \union Of(kind)
<1>5. left \in SUBSET page.left /\ page.unread \in SUBSET page.unread /\ seen \in SUBSET met
  BY <1>3
<1>6. \A f \in stood : f.kind \in {"grouped", "row"} \ left => f \in seen
  BY <1>4
<1> HIDE DEF left, seen
<1>7. page' = [page EXCEPT !.left = left, !.unread = page.unread, !.seen = seen]
  BY <1>2 DEF left, seen
<1>8. page.at = "reads" /\ UNCHANGED <<facts, pages, stood, met, always, changes>>
  BY <1>1
<1> QED
  BY <1>5, <1>6, <1>7, <1>8, AnswerArrives, ZenonT(60)

LEMMA OpenFgaStep ==
  ASSUME AccessInv, openFgaRead \/ openFgaReadFails
  PROVE  AccessInv'
<1>1. page \in Page /\ page.at = "reads" /\ UNCHANGED <<facts, pages, stood, met, always, changes>>
  BY DEF AccessInv, AccessTypeOK, openFgaRead, openFgaReadFails, STAND
<1>2. /\ page.seen \subseteq met
      /\ \A f \in stood : f.kind \in {"grouped", "row"} \ page.left => f \in page.seen
  BY <1>1 DEF AccessInv, SeenInv
<1>3. CASE openFgaRead
  <2>1. PICK grant \in page.unread :
          page' = [page EXCEPT !.unread = page.unread \ {grant},
                               !.left = IF page.unread = {grant} THEN page.left \ {"tuple"} ELSE page.left,
                               !.seen = page.seen \union {f \in Of("tuple") : f.grant = grant}]
    BY <1>3 DEF openFgaRead
  <2> DEFINE left == IF page.unread = {grant} THEN page.left \ {"tuple"} ELSE page.left
             unread == page.unread \ {grant}
             seen == page.seen \union {f \in Of("tuple") : f.grant = grant}
  <2>2. page' = [page EXCEPT !.left = left, !.unread = unread, !.seen = seen]
    <3> HIDE DEF left, unread, seen
    <3>1. page' = [page EXCEPT !.unread = unread, !.left = left, !.seen = seen]
      BY <2>1 DEF left, unread, seen
    <3> QED
      BY <1>1, <3>1 DEF Page
  <2>3. left \in SUBSET page.left /\ unread \in SUBSET page.unread
    OBVIOUS
  <2>4. seen \in SUBSET met
    BY <1>2 DEF Of, AccessInv, AccessTypeOK
  <2>5. \A f \in stood : f.kind \in {"grouped", "row"} \ left => f \in seen
    BY <1>2
  <2> HIDE DEF left, unread, seen
  <2> QED
    BY <1>1, <2>2, <2>3, <2>4, <2>5, AnswerArrives
<1>4. CASE openFgaReadFails
  <2> DEFINE left == page.left \ {"tuple"}
             seen == {f \in page.seen : f.kind # "tuple"}
  <2>1. page' = [page EXCEPT !.left = left, !.seen = seen]
    BY <1>4 DEF openFgaReadFails
  <2>2. left \in SUBSET page.left /\ seen \in SUBSET met /\ page.unread \in SUBSET page.unread
    BY <1>2
  <2>3. \A f \in stood : f.kind \in {"grouped", "row"} \ left => f \in seen
    BY <1>2
  <2> HIDE DEF left, seen
  <2>4. page' = [page EXCEPT !.left = left, !.unread = page.unread, !.seen = seen]
    BY <1>1, <2>1 DEF Page
  <2> QED
    BY <1>1, <2>2, <2>3, <2>4, AnswerArrives
<1> QED
  BY <1>3, <1>4

LEMMA RespondStep ==
  ASSUME AccessInv, RespondPage
  PROVE  AccessInv'
<1> DEFINE Row(u) == [permissions |-> effectivePermissionIds(u),
                      least |-> May(u, {f \in stood : f.kind # "tuple"}), most |-> May(u, met)]
           answer == [u \in page.ids \intersect Displayed |-> Row(u)]
           last == Len(pages) + 1
           Answers == UNION {[users -> Access] : users \in SUBSET Displayed}
<1>1. /\ page.at = "reads" /\ page.left = {} /\ pages' = Append(pages, answer)
      /\ UNCHANGED <<facts, stood, met, always, changes>>
      /\ page' = IF page.hasMore THEN [at |-> "asked", cursor |-> Greatest(page.ids)] ELSE [at |-> "done"]
  BY DEF RespondPage, STAND, findDisplayRecords
<1>2. /\ page \in Page /\ pages \in Seq(Answers) /\ met \in SUBSET Facts /\ stood \in SUBSET Facts
      /\ page.ids \in SUBSET User /\ page.cursor \in Nat /\ page.seen \in SUBSET Facts /\ page.hasMore \in BOOLEAN
  BY <1>1, ReadsFields DEF AccessInv, AccessTypeOK
<1>3. ASSUME NEW u PROVE /\ Row(u) \in Access
                         /\ Row(u).least \subseteq Row(u).permissions /\ Row(u).permissions \subseteq Row(u).most
  <2>1. effectivePermissionIds(u) = May(u, page.seen)
    BY EffectiveByRoles, MayByRoles
  <2>2. {f \in stood : f.kind # "tuple"} \in SUBSET Facts
    BY <1>2
  <2>3. \A f \in {g \in stood : g.kind # "tuple"} : f.kind # "member" => f \in page.seen
    <3>1. \A f \in Facts : f.kind \in {"member", "grouped", "row", "tuple"}
      BY DEF Facts, Member, Grouped, Assigned
    <3> QED
      BY <1>1, <1>2, <3>1 DEF AccessInv, SeenInv
  <2>4. May(u, {f \in stood : f.kind # "tuple"}) \subseteq May(u, page.seen)
    BY <2>2, <2>3, MayGrows
  <2>5. May(u, page.seen) \subseteq May(u, met)
    BY <1>1, <1>2, MayGrows DEF AccessInv, SeenInv
  <2>6. /\ May(u, {f \in stood : f.kind # "tuple"}) \in SUBSET Permission
        /\ May(u, page.seen) \in SUBSET Permission /\ May(u, met) \in SUBSET Permission
    BY <1>2, <2>2, MayTyped
  <2> QED
    BY <2>1, <2>4, <2>5, <2>6 DEF Access
<1> HIDE DEF Row
<1>4. answer \in Answers /\ DOMAIN answer = page.ids \intersect Displayed /\ \A u \in DOMAIN answer : answer[u] = Row(u)
  <2>1. answer \in [page.ids \intersect Displayed -> Access]
    BY <1>3
  <2>2. page.ids \intersect Displayed \in SUBSET Displayed
    OBVIOUS
  <2> QED
    BY <2>1, <2>2
<1>5. answer \in [DOMAIN answer -> Access] /\ DOMAIN answer \subseteq Displayed /\ Cardinality(DOMAIN answer) <= Limit
  <2>1. Cardinality(page.ids) <= Limit /\ IsFiniteSet(page.ids) /\ Cardinality(page.ids) \in Nat
    BY <1>1, <1>2, FiniteUsers DEF AccessInv, UsersInv
  <2>2. DOMAIN answer \in SUBSET page.ids
    BY <1>4
  <2>3. Cardinality(DOMAIN answer) <= Cardinality(page.ids) /\ Cardinality(DOMAIN answer) \in Nat
    BY <1>2, <2>1, <2>2, FS_Subset, FiniteUsers
  <2>4. answer \in [page.ids \intersect Displayed -> Access]
    BY <1>3
  <2> HIDE DEF answer
  <2> QED
    BY <1>4, <2>1, <2>3, <2>4, AccessAssumption
<1> HIDE DEF answer, Answers
<1>6. /\ pages' \in Seq(Answers) /\ DOMAIN pages' = DOMAIN pages \union {last} /\ last \notin DOMAIN pages
      /\ pages'[last] = answer /\ \A n \in DOMAIN pages : pages'[n] = pages[n]
  BY <1>1, <1>2, <1>4
<1> HIDE DEF last
<1>7. /\ page' \in Page /\ page'.at \in {"asked", "done"} /\ (page'.at = "done" <=> ~page.hasMore)
      /\ page.hasMore => /\ page'.cursor = Greatest(page.ids) /\ Greatest(page.ids) \in page.ids
                         /\ \A v \in page.ids : v <= Greatest(page.ids)
  <2>1. page.hasMore => Greatest(page.ids) \in page.ids /\ \A v \in page.ids : v <= Greatest(page.ids)
    BY <1>1, <1>2, GreatestIs DEF AccessInv, UsersInv
  <2>2. page.hasMore => Greatest(page.ids) \in Nat
    BY <1>2, <2>1, AccessAssumption
  <2> QED
    BY <1>1, <1>2, <2>1, <2>2 DEF Page
<1>8. \A u \in DOMAIN answer : u \in page.ids /\ u \in Nat /\ u > page.cursor
  BY <1>1, <1>2, <1>4, AccessAssumption DEF AccessInv, UsersInv
<1>9. \A n \in DOMAIN pages : \A u \in DOMAIN pages[n] : u \in Nat /\ u <= page.cursor
  BY <1>1, AccessAssumption DEF AccessInv, AccessTypeOK, CursorInv
<1>10. (\A u : Paged(u) => Paged(u)') /\ \A u \in page.ids \intersect Displayed : Paged(u)'
  BY <1>4, <1>6 DEF Paged
<1>11. \A u \in User : u \in Nat
  BY AccessAssumption
<1>12. CursorInv'
  <2>1. (always \subseteq Members)'
    BY <1>1 DEF AccessInv, CursorInv, Members, Of
  <2>2. ASSUME NEW m \in DOMAIN pages', NEW n \in DOMAIN pages', m # n
        PROVE  DOMAIN pages'[m] \intersect DOMAIN pages'[n] = {}
    <3>1. \A k \in DOMAIN pages : DOMAIN pages[k] \intersect DOMAIN answer = {}
      BY <1>2, <1>8, <1>9
    <3> QED
      BY <1>6, <2>2, <3>1 DEF AccessInv, CursorInv
  <2>3. ASSUME NEW u \in always \intersect Displayed, page.hasMore => u <= Greatest(page.ids)
        PROVE  Paged(u)'
    <3>1. u \in Nat
      BY <1>11, AccessAssumption
    <3>2. CASE u <= page.cursor
      BY <1>1, <1>10, <3>2 DEF AccessInv, CursorInv
    <3>3. CASE u > page.cursor
      <4>1. u \in page.ids \/ (page.hasMore /\ \A v \in page.ids : v < u)
        BY <1>1, <3>3 DEF AccessInv, UsersInv
      <4>2. ~(page.hasMore /\ \A v \in page.ids : v < u)
        <5>1. page.hasMore => Greatest(page.ids) \in Nat
          BY <1>2, <1>7, <1>11
        <5> QED
          BY <1>7, <2>3, <3>1, <5>1
      <4> QED
        BY <1>10, <4>1, <4>2
    <3> QED
      BY <1>2, <3>1, <3>2, <3>3
  <2>4. ASSUME page.hasMore, NEW n \in DOMAIN pages', NEW u \in DOMAIN pages'[n] PROVE u <= Greatest(page.ids)
    <3>1. CASE n = last
      BY <1>6, <1>7, <1>8, <2>4, <3>1
    <3>2. CASE n \in DOMAIN pages
      <4>1. u \in Nat /\ u <= page.cursor
        BY <1>6, <1>9, <2>4, <3>2
      <4>2. Greatest(page.ids) > page.cursor /\ Greatest(page.ids) \in Nat
        BY <1>1, <1>2, <1>7, <1>11, <2>4 DEF AccessInv, UsersInv
      <4> QED
        BY <1>2, <4>1, <4>2
    <3> QED
      BY <1>6, <3>1, <3>2
  <2> QED
    BY <1>1, <1>7, <2>1, <2>2, <2>3, <2>4 DEF CursorInv
<1>13. AnswersInv'
  BY <1>3, <1>4, <1>6 DEF AccessInv, AnswersInv
<1>14. AccessTypeOK'
  BY <1>1, <1>5, <1>6, <1>7 DEF AccessInv, AccessTypeOK
<1>15. UsersInv' /\ SeenInv'
  BY <1>7 DEF UsersInv, SeenInv
<1> QED
  BY <1>6, <1>12, <1>13, <1>14, <1>15 DEF AccessInv, Answers

LEMMA TenantChangesStep ==
  ASSUME AccessInv, NEW fact \in Facts, TenantChanges(fact)
  PROVE  AccessInv'
<1>1. /\ UNCHANGED <<page, pages, always>> /\ changes' \in 0..MaxChanges
      /\ facts' = IF fact \in facts THEN facts \ {fact} ELSE facts \union {fact}
      /\ stood' = stood \ {fact} /\ met' = met \union {fact} /\ (fact.kind = "member" => fact \notin facts)
  BY AccessAssumption DEF TenantChanges, AccessInv, AccessTypeOK
<1>2. \A f \in facts : f.kind = "member" => f \in facts'
  BY <1>1
<1>3. Members \subseteq Members'
  BY <1>2 DEF Members, Of
<1>4. AccessTypeOK'
  BY <1>1 DEF AccessInv, AccessTypeOK
<1>5. CursorInv'
  BY <1>1, <1>3 DEF AccessInv, CursorInv, Paged
<1>6. UsersInv' /\ SeenInv' /\ AnswersInv'
  BY <1>1 DEF AccessInv, UsersInv, SeenInv, AnswersInv
<1> QED
  BY <1>1, <1>4, <1>5, <1>6 DEF AccessInv

LEMMA AccessStep ==
  ASSUME AccessInv, [AccessNext]_accessVars
  PROVE  AccessInv'
<1>1. CASE MayRead
  <2>1. PICK place \in {"members", "refused"} : page' = [page EXCEPT !.at = place]
    BY <1>1 DEF MayRead
  <2>2. page.at = "asked" /\ stood' = facts /\ met' = facts /\ UNCHANGED <<facts, pages, always, changes>>
        /\ page \in Page /\ facts \in SUBSET Facts
    BY <1>1 DEF MayRead, AccessInv, AccessTypeOK
  <2>3. page' \in Page /\ page'.at \in {"members", "refused"} /\ page'.cursor = page.cursor
    BY <2>1, <2>2 DEF Page
  <2>4. UsersInv' /\ SeenInv'
    BY <2>3 DEF UsersInv, SeenInv
  <2> QED
    BY <2>2, <2>3, <2>4, PageMoves
<1>2. CASE UNCHANGED accessVars
  <2>1. AccessTypeOK' /\ CursorInv' /\ UsersInv' /\ SeenInv' /\ AnswersInv'
    BY <1>2 DEF accessVars, AccessInv, AccessTypeOK, CursorInv, UsersInv, SeenInv, AnswersInv, Members, Of, Paged
  <2> QED
    BY <1>2, <2>1 DEF accessVars, AccessInv
<1> QED
  BY <1>1, <1>2, ListMembershipsStep, ReadStep, OpenFgaStep, RespondStep, TenantChangesStep
  DEF AccessNext, listAccessProjection, listAssignments

(* AccessAdministrationService.list: nobody is on two pages or left out,   *)
(* and what a user is shown to be able to do lies between what stood and   *)
(* what was met, for any tenant, page size and changes meanwhile.          *)
THEOREM PagesCorrect ==
  AccessSpec => []PagesTellTheTenant
<1>1. ASSUME AccessInv PROVE PagesTellTheTenant
  <2>1. page.at = "done" => always \intersect Displayed \subseteq UNION {DOMAIN pages[n] : n \in DOMAIN pages}
    BY <1>1 DEF AccessInv, CursorInv, Paged
  <2> QED
    BY <1>1, <2>1 DEF AccessInv, CursorInv, AnswersInv, PagesTellTheTenant
<1> QED
  BY <1>1, AccessStarts, AccessStep, PTL DEF AccessSpec


-----------------------------------------------------------------------------
(* All of them side by side                                                *)

(* What one part does is a step of its component and none of the others.   *)
LEMMA PartsStep ==
  ASSUME [PlatformNext]_<<lifecycleVars, chainVars, sendVars, renameVars, pageVars, accessVars, part>>
  PROVE  /\ [LifecycleNext]_lifecycleVars /\ [ChainNext]_chainVars /\ [SendNext]_sendVars
         /\ [RenameNext]_renameVars /\ [PageNext]_pageVars /\ [AccessNext]_accessVars
         /\ part' = part
BY DEF PlatformNext, Moves, LifecycleNext, StillLifecycle, StillChain, StillSend, StillRename, StillPage, StillAccess

(* What is explored together are behaviours of every component: what the   *)
(* theorems above and those on tenants say of a component holds there too. *)
THEOREM PlatformRunsComponents ==
  PlatformSpec => LifecycleSpec /\ ChainSpec /\ SendSpec /\ RenameSpec /\ PageSpec /\ AccessSpec
<1>1. PlatformInit => LifecycleInit /\ ChainInit /\ SendInit /\ RenameInit /\ PageInit /\ AccessInit
  BY DEF PlatformInit
<1> QED
  BY <1>1, PartsStep, PTL
  DEF PlatformSpec, LifecycleSpec, ChainSpec, SendSpec, RenameSpec, PageSpec, AccessSpec

(* Rows, caches, requests and pages of all components keep their types,    *)
(* each under the invariant its proof above needs.                         *)
THEOREM PlatformTypeCorrect ==
  PlatformSpec => []TypeOK
<1> DEFINE Inv == LifecycleInv /\ ChainInv /\ SendInv /\ RenameInv /\ SettingsInv /\ AccessInv /\ part \in Part
<1>1. PlatformInit => Inv
  BY LifecycleStarts, ChainStarts, SendStarts, RenameStarts, PageStarts, AccessStarts DEF PlatformInit
<1>2. Inv /\ [PlatformNext]_<<lifecycleVars, chainVars, sendVars, renameVars, pageVars, accessVars, part>> => Inv'
  BY PartsStep, LifecycleStep, ChainStep, SendStep, RenameStep, PageStep, AccessStep
<1>3. Inv => TypeOK
  BY DEF LifecycleInv, ChainInv, SendInv, RenameInv, SettingsInv, AccessInv, TypeOK
<1> QED
  BY <1>1, <1>2, <1>3, PTL DEF PlatformSpec
=============================================================================
