------------------------- MODULE ActorSecretsProofs -------------------------
(***************************************************************************)
(* Theorems about the secrets of sources and destinations, for any actors,   *)
(* requests at work at a time and faults.                                    *)
(***************************************************************************)
EXTENDS ActorSecrets, TLAPS

-----------------------------------------------------------------------------
(* Types. *)

LEMMA Configs ==
  /\ \A f \in Config :
       /\ DOMAIN f \in SUBSET Ids /\ f = [i \in DOMAIN f |-> f[i]]
       /\ \A i \in DOMAIN f : f[i] \in Values \ {0}
  /\ \A S \in SUBSET Ids : \A f \in [S -> Values \ {0}] : f \in Config
  /\ Nothing \in Config /\ DOMAIN Nothing = {}
BY DEF Config, Nothing

\* The fields of a request, at work or not.
LEMMA Fields ==
  ASSUME TypeOK, NEW r \in Requests
  PROVE  /\ request[r].op \in Writers \cup {"hydrate", "idle"}
         /\ request[r].config \in Config /\ request[r].got \in Config
         /\ request[r].put \in SUBSET Ids /\ request[r].drop \in SUBSET Ids
         /\ request[r].written \in BOOLEAN
         /\ request[r].op # "idle" => request[r] \in Request /\ request[r].of \in Actors
         /\ request[r].op = "idle" => request[r] = Idle
<1>1. request[r] \in Request \/ request[r] = Idle
  BY DEF TypeOK
<1>2. CASE request[r] \in Request
  BY <1>2 DEF Request, Writers
<1>3. CASE request[r] = Idle
  BY <1>3, Configs DEF Idle
<1> QED
  BY <1>1, <1>2, <1>3

LEMMA IdleFields ==
  /\ Idle.op = "idle" /\ Idle.config = Nothing /\ Idle.got = Nothing
  /\ Idle.put = {} /\ Idle.drop = {} /\ Idle.written = FALSE
BY DEF Idle

LEMMA Extending ==
  ASSUME NEW f \in Config, NEW g \in Config
  PROVE  /\ Extended(f, g) \in Config
         /\ DOMAIN Extended(f, g) = DOMAIN f \cup DOMAIN g
         /\ \A i \in DOMAIN g : Extended(f, g)[i] = g[i]
         /\ \A i \in DOMAIN f \ DOMAIN g : Extended(f, g)[i] = f[i]
<1>1. DOMAIN f \cup DOMAIN g \in SUBSET Ids
  BY Configs
<1>2. Extended(f, g) \in [DOMAIN f \cup DOMAIN g -> Values \ {0}]
  BY Configs DEF Extended
<1>3. Extended(f, g) \in Config
  BY <1>1, <1>2, Configs
<1> QED
  BY <1>3 DEF Extended

\* What a request that seals secrets leaves.
LEMMA SealEffect ==
  ASSUME TypeOK, NEW a \in Actors, NEW S \in SUBSET Unused, Seals(a, S)
  PROVE  /\ author' \in Seq(Actors) /\ Len(author') <= MaxSeals
         /\ Len(author) <= Len(author')
         /\ \A v \in 1..Len(author) : author'[v] = author[v]
         /\ S # {} => Len(author') = Len(author) + 1 /\ author'[Len(author) + 1] = a
         /\ used' = used \cup S /\ used' \subseteq Ids
<1>1. S \subseteq Ids /\ used' = used \cup S /\ used' \subseteq Ids
  BY DEF Unused, Seals, TypeOK
<1>2. author \in Seq(Actors) /\ Len(author) \in Nat /\ Len(author) <= MaxSeals
  BY DEF TypeOK
<1>3. CASE S = {}
  BY <1>1, <1>2, <1>3 DEF Seals
<1>4. CASE S # {}
  <2>1. author' = Append(author, a) /\ Len(author) < MaxSeals
    BY <1>4 DEF Seals
  <2> QED
    BY <1>1, <1>2, <1>4, <2>1, ActorSecretsAssumption
<1> QED
  BY <1>3, <1>4

SplitsInto(S, kept) ==
  /\ Split(S, kept) \in Config
  /\ DOMAIN Split(S, kept) = DOMAIN kept \cup S
  /\ \A i \in S : Split(S, kept)[i] = Len(author) + 1
  /\ \A i \in DOMAIN kept \ S : Split(S, kept)[i] = kept[i]

LEMMA Splitting ==
  ASSUME TypeOK, NEW a \in Actors, NEW S \in SUBSET Unused, NEW kept \in Config,
         Seals(a, S)
  PROVE  SplitsInto(S, kept)
<1>1. S \subseteq Ids
  BY DEF Unused
<1>2. Len(author) \in Nat
  BY DEF TypeOK
<1>3. S # {} => Len(author) < MaxSeals
  BY DEF Seals
<1>4. [i \in S |-> Len(author) + 1] \in Config
  <2>1. S # {} => Len(author) + 1 \in Values \ {0}
    BY <1>2, <1>3, ActorSecretsAssumption DEF Values
  <2>2. [i \in S |-> Len(author) + 1] \in [S -> Values \ {0}]
    BY <2>1
  <2> QED
    BY <1>1, <2>2, Configs
<1> DEFINE g == [i \in S |-> Len(author) + 1]
<1>5. DOMAIN g = S /\ (\A i \in S : g[i] = Len(author) + 1) /\ g \in Config
  BY <1>4
<1>6. Split(S, kept) = Extended(kept, g)
  BY DEF Split
<1> HIDE DEF g
<1>7. /\ Extended(kept, g) \in Config
      /\ DOMAIN Extended(kept, g) = DOMAIN kept \cup S
      /\ \A i \in S : Extended(kept, g)[i] = g[i]
      /\ \A i \in DOMAIN kept \ S : Extended(kept, g)[i] = kept[i]
  BY <1>5, Extending
<1> QED
  BY <1>5, <1>6, <1>7 DEF SplitsInto

LEMMA Restricting ==
  ASSUME NEW f \in Config, NEW S \in SUBSET DOMAIN f
  PROVE  /\ Restricted(f, S) \in Config /\ DOMAIN Restricted(f, S) = S
         /\ \A i \in S : Restricted(f, S)[i] = f[i]
<1>1. S \in SUBSET Ids /\ Restricted(f, S) \in [S -> Values \ {0}]
  BY Configs DEF Restricted
<1>2. Restricted(f, S) \in Config
  BY <1>1, Configs
<1> QED
  BY <1>2 DEF Restricted

\* One request changes.
Becomes(r, q) == request' = [request EXCEPT ![r] = q]

LEMMA BecomesTyped ==
  ASSUME TypeOK, NEW r \in Requests, NEW q \in Request \cup {Idle}, Becomes(r, q)
  PROVE  /\ request' \in [Requests -> Request \cup {Idle}]
         /\ request'[r] = q
         /\ \A p \in Requests : p # r => request'[p] = request[p]
BY DEF TypeOK, Becomes

\* What each step does to the request that takes it.
LEMMA CreateEffect ==
  ASSUME TypeOK, NEW r \in Requests, NEW a \in Actors, Create(r, a)
  PROVE  /\ request[r] = Idle /\ rows[a].status = "none"
         /\ \E S \in SUBSET Unused : \E q \in Request :
              /\ Seals(a, S) /\ Becomes(r, q)
              /\ q.op = "create" /\ q.of = a /\ q.put = S /\ q.drop = {} /\ ~q.written
              /\ q.got = Nothing /\ DOMAIN q.config = S
              /\ \A i \in S : q.config[i] = Len(author) + 1
<1>1. PICK S \in SUBSET Unused :
        /\ Seals(a, S)
        /\ request' = [request EXCEPT ![r] =
             [Idle EXCEPT !.op = "create", !.of = a, !.put = S,
                          !.config = Split(S, Nothing)]]
  <2>1. PICK c \in Configure(Nothing) :
          /\ Seals(a, c[1])
          /\ request' = [request EXCEPT ![r] =
               [Idle EXCEPT !.op = "create", !.of = a, !.put = c[1],
                            !.config = Split(c[1], Nothing)]]
    BY DEF Create
  <2>2. c[1] \in SUBSET Unused
    BY DEF Configure
  <2> QED
    BY <2>1, <2>2
<1>2. Nothing \in Config /\ DOMAIN Nothing = {}
  BY Configs
<1> DEFINE q == [Idle EXCEPT !.op = "create", !.of = a, !.put = S,
                             !.config = Split(S, Nothing)]
<1>3. /\ Split(S, Nothing) \in Config /\ DOMAIN Split(S, Nothing) = S
      /\ \A i \in S : Split(S, Nothing)[i] = Len(author) + 1
  <2>1. /\ Split(S, Nothing) \in Config
        /\ DOMAIN Split(S, Nothing) = DOMAIN Nothing \cup S
        /\ \A i \in S : Split(S, Nothing)[i] = Len(author) + 1
    <3>1. SplitsInto(S, Nothing)
      BY <1>1, <1>2, Splitting
    <3> QED
      BY <3>1 DEF SplitsInto
  <2> QED
    BY <1>2, <2>1
<1>4. /\ q.op = "create" /\ q.of = a /\ q.put = S /\ q.drop = {} /\ ~q.written
      /\ q.got = Nothing /\ q.config = Split(S, Nothing)
  BY DEF Idle
<1>5. q \in Request
  BY <1>2, <1>3, Configs DEF Idle, Request, Writers, Unused
<1>6. Becomes(r, q)
  BY <1>1 DEF Becomes
<1> HIDE DEF q
<1> QED
  BY <1>1, <1>2, <1>3, <1>4, <1>5, <1>6 DEF Create

\* Request r becomes q, the update of a that seals S and keeps K.
Updates(r, a, S, K, q) ==
  /\ Seals(a, S) /\ Becomes(r, q)
  /\ q.op = "update" /\ q.of = a /\ q.put = S /\ ~q.written
  /\ q.got = Nothing /\ DOMAIN q.config = K \cup S
  /\ q.drop = DOMAIN rows[a].config \ DOMAIN q.config
  /\ \A i \in S : q.config[i] = Len(author) + 1
  /\ \A i \in K \ S : q.config[i] = shown[a][i]
  /\ Disturbed(a, (IF Writing(a) THEN {"overlap"} ELSE {}) \cup
                  (IF K \subseteq DOMAIN rows[a].config THEN {} ELSE {"stale"}))

LEMMA UpdateEffect ==
  ASSUME TypeOK, NEW r \in Requests, NEW a \in Actors, Update(r, a)
  PROVE  /\ request[r] = Idle /\ rows[a].status = "live"
         /\ \E S \in SUBSET Unused : \E K \in SUBSET DOMAIN shown[a] : \E q \in Request :
              Updates(r, a, S, K, q)
<1> DEFINE new(S, K) == Split(S, Restricted(shown[a], K))
           req(S, K) == [Idle EXCEPT !.op = "update", !.of = a, !.put = S,
                           !.drop = Obsolete(rows[a].config, new(S, K)), !.config = new(S, K)]
<1>1. PICK S \in SUBSET Unused, K \in SUBSET DOMAIN shown[a] :
        /\ Seals(a, S)
        /\ request' = [request EXCEPT ![r] = req(S, K)]
        /\ Disturbed(a, (IF Writing(a) THEN {"overlap"} ELSE {}) \cup
                        (IF K \subseteq DOMAIN rows[a].config THEN {} ELSE {"stale"}))
  <2>1. PICK c \in Configure(shown[a]) :
          /\ Seals(a, c[1])
          /\ request' = [request EXCEPT ![r] = req(c[1], c[2])]
          /\ Disturbed(a, (IF Writing(a) THEN {"overlap"} ELSE {}) \cup
                          (IF c[2] \subseteq DOMAIN rows[a].config THEN {} ELSE {"stale"}))
    BY DEF Update
  <2>2. c[1] \in SUBSET Unused /\ c[2] \in SUBSET DOMAIN shown[a]
    BY DEF Configure
  <2> HIDE DEF req
  <2> QED
    BY <2>1, <2>2
<1>3. shown[a] \in Config /\ rows[a].config \in Config
  BY DEF TypeOK
<1>4. /\ Restricted(shown[a], K) \in Config /\ DOMAIN Restricted(shown[a], K) = K
      /\ \A i \in K : Restricted(shown[a], K)[i] = shown[a][i]
  BY <1>3, Restricting
<1>5. /\ new(S, K) \in Config /\ DOMAIN new(S, K) = K \cup S
      /\ \A i \in S : new(S, K)[i] = Len(author) + 1
      /\ \A i \in K \ S : new(S, K)[i] = shown[a][i]
  <2> DEFINE kept == Restricted(shown[a], K)
  <2>1. kept \in Config /\ DOMAIN kept = K /\ \A i \in K : kept[i] = shown[a][i]
    BY <1>4
  <2>2. new(S, K) = Split(S, kept)
    OBVIOUS
  <2> HIDE DEF kept, new
  <2>3. /\ Split(S, kept) \in Config
        /\ DOMAIN Split(S, kept) = DOMAIN kept \cup S
        /\ \A i \in S : Split(S, kept)[i] = Len(author) + 1
        /\ \A i \in DOMAIN kept \ S : Split(S, kept)[i] = kept[i]
    <3>1. SplitsInto(S, kept)
      BY <1>1, <2>1, Splitting
    <3> QED
      BY <3>1 DEF SplitsInto
  <2> QED
    BY <2>1, <2>2, <2>3
<1> HIDE DEF new
<1>6. /\ req(S, K).op = "update" /\ req(S, K).of = a /\ req(S, K).put = S /\ ~req(S, K).written
      /\ req(S, K).drop = DOMAIN rows[a].config \ DOMAIN new(S, K)
      /\ req(S, K).got = Nothing /\ req(S, K).config = new(S, K)
  BY DEF Idle, Obsolete
<1>7. req(S, K) \in Request
  <2>1. Obsolete(rows[a].config, new(S, K)) \in SUBSET Ids
    BY <1>3, Configs DEF Obsolete
  <2> QED
    BY <1>5, <2>1, Configs DEF Idle, Request, Writers, Unused
<1>8. Becomes(r, req(S, K))
  BY <1>1 DEF Becomes
<1> DEFINE q == req(S, K)
<1>9. /\ q \in Request /\ Seals(a, S) /\ Becomes(r, q)
      /\ q.op = "update" /\ q.of = a /\ q.put = S /\ ~q.written
      /\ q.got = Nothing /\ DOMAIN q.config = K \cup S
      /\ q.drop = DOMAIN rows[a].config \ DOMAIN q.config
      /\ \A i \in S : q.config[i] = Len(author) + 1
      /\ \A i \in K \ S : q.config[i] = shown[a][i]
      /\ Disturbed(a, (IF Writing(a) THEN {"overlap"} ELSE {}) \cup
                      (IF K \subseteq DOMAIN rows[a].config THEN {} ELSE {"stale"}))
  <2> HIDE DEF req
  <2> QED
    BY <1>1, <1>5, <1>6, <1>7, <1>8
<1> HIDE DEF q, req
<1>10. request[r] = Idle /\ rows[a].status = "live"
  BY DEF Update
<1>11. Updates(r, a, S, K, q)
  BY <1>9 DEF Updates
<1> QED
  BY <1>9, <1>10, <1>11

LEMMA DeleteEffect ==
  ASSUME TypeOK, NEW r \in Requests, NEW a \in Actors, Delete(r, a)
  PROVE  /\ request[r] = Idle /\ rows[a].status = "live"
         /\ \E q \in Request :
              /\ Becomes(r, q)
              /\ q.op = "delete" /\ q.of = a /\ q.put = {} /\ ~q.written
              /\ q.got = Nothing /\ q.config = Nothing /\ q.drop = DOMAIN rows[a].config
<1> DEFINE q == [Idle EXCEPT !.op = "delete", !.of = a, !.drop = DOMAIN rows[a].config]
<1>1. /\ q.op = "delete" /\ q.of = a /\ q.put = {} /\ ~q.written
      /\ q.got = Nothing /\ q.config = Nothing /\ q.drop = DOMAIN rows[a].config
  BY DEF Idle
<1>2. rows[a].config \in Config
  BY DEF TypeOK
<1>3. q \in Request
  BY <1>2, Configs DEF Idle, Request, Writers
<1>4. Becomes(r, q)
  BY DEF Becomes, Delete
<1> HIDE DEF q
<1> QED
  BY <1>1, <1>3, <1>4 DEF Delete

LEMMA LaunchEffect ==
  ASSUME TypeOK, NEW r \in Requests, NEW a \in Actors, Launch(r, a)
  PROVE  /\ request[r] = Idle /\ rows[a].status = "live"
         /\ \E q \in Request :
              /\ Becomes(r, q)
              /\ q.op = "hydrate" /\ q.of = a /\ q.put = {} /\ ~q.written
              /\ q.got = Nothing /\ q.config = rows[a].config /\ q.drop = {}
<1> DEFINE q == [Idle EXCEPT !.op = "hydrate", !.of = a, !.config = rows[a].config]
<1>1. /\ q.op = "hydrate" /\ q.of = a /\ q.put = {} /\ ~q.written
      /\ q.got = Nothing /\ q.config = rows[a].config /\ q.drop = {}
  BY DEF Idle
<1>2. rows[a].config \in Config
  BY DEF TypeOK
<1>3. q \in Request
  BY <1>2, Configs DEF Idle, Request, Writers
<1>4. Becomes(r, q)
  BY DEF Becomes, Launch
<1> HIDE DEF q
<1> QED
  BY <1>1, <1>3, <1>4 DEF Launch

LEMMA PutEffect ==
  ASSUME TypeOK, NEW r \in Requests, Put(r)
  PROVE  \E i \in request[r].put : \E q \in Request :
           /\ secrets' = [secrets EXCEPT ![i] = request[r].config[i]]
           /\ Becomes(r, q) /\ request[r].op # "idle"
           /\ q.op = request[r].op /\ q.of = request[r].of /\ q.config = request[r].config
           /\ q.drop = request[r].drop /\ q.written = request[r].written
           /\ q.got = request[r].got /\ q.put = request[r].put \ {i}
<1>1. PICK i \in request[r].put :
        /\ secrets' = [secrets EXCEPT ![i] = request[r].config[i]]
        /\ request' = [request EXCEPT ![r].put = @ \ {i}]
  BY DEF Put
<1> DEFINE q == [request[r] EXCEPT !.put = request[r].put \ {i}]
<1>2. request[r] \in Request /\ request[r].op # "idle" /\ request[r].put \in SUBSET Ids
  BY Fields, IdleFields
<1>3. /\ q \in Request
      /\ q.op = request[r].op /\ q.of = request[r].of /\ q.config = request[r].config
      /\ q.drop = request[r].drop /\ q.written = request[r].written
      /\ q.got = request[r].got /\ q.put = request[r].put \ {i}
  BY <1>2 DEF Request
<1>4. Becomes(r, q)
  BY <1>1 DEF Becomes
<1> HIDE DEF q
<1> QED
  BY <1>1, <1>2, <1>3, <1>4

LEMMA DropEffect ==
  ASSUME TypeOK, NEW r \in Requests, Drop(r)
  PROVE  /\ request[r].op # "idle" /\ request[r].put = {}
         /\ request[r].op = "delete" => request[r].written
         /\ \E i \in request[r].drop :
              /\ secrets' = [secrets EXCEPT ![i] = 0]
              /\ \/ request[r].op = "delete" /\ request[r].drop = {i} /\ Becomes(r, Idle)
                 \/ \E q \in Request :
                      /\ Becomes(r, q)
                      /\ q.op = request[r].op /\ q.of = request[r].of
                      /\ q.config = request[r].config /\ q.put = request[r].put
                      /\ q.written = request[r].written /\ q.got = request[r].got
                      /\ q.drop = request[r].drop \ {i}
<1>1. PICK i \in request[r].drop :
        /\ secrets' = [secrets EXCEPT ![i] = 0]
        /\ request' = [request EXCEPT ![r] =
             IF request[r].op = "delete" /\ request[r].drop = {i} THEN Idle
             ELSE [request[r] EXCEPT !.drop = request[r].drop \ {i}]]
  BY DEF Drop
<1> DEFINE q == [request[r] EXCEPT !.drop = request[r].drop \ {i}]
<1>2. request[r] \in Request /\ request[r].op # "idle" /\ request[r].drop \in SUBSET Ids
  BY Fields, IdleFields
<1>3. /\ q \in Request
      /\ q.op = request[r].op /\ q.of = request[r].of /\ q.config = request[r].config
      /\ q.put = request[r].put /\ q.written = request[r].written
      /\ q.got = request[r].got /\ q.drop = request[r].drop \ {i}
  BY <1>2 DEF Request
<1>4. \/ request[r].op = "delete" /\ request[r].drop = {i} /\ Becomes(r, Idle)
      \/ Becomes(r, q)
  BY <1>1 DEF Becomes
<1>5. /\ request[r].put = {}
      /\ request[r].op = "delete" => request[r].written
  BY DEF Drop
<1> HIDE DEF q
<1> QED
  BY <1>1, <1>2, <1>3, <1>4, <1>5

LEMMA DeleteRowEffect ==
  ASSUME TypeOK, NEW r \in Requests, DeleteRow(r)
  PROVE  /\ request[r].op = "delete" /\ ~request[r].written /\ request[r].of \in Actors
         /\ \/ /\ rows[request[r].of].status = "live" /\ request[r].drop # {}
               /\ \E q \in Request :
                    /\ Becomes(r, q)
                    /\ q.op = request[r].op /\ q.of = request[r].of
                    /\ q.config = request[r].config /\ q.put = request[r].put
                    /\ q.written /\ q.got = request[r].got /\ q.drop = request[r].drop
            \/ /\ rows[request[r].of].status = "live" => request[r].drop = {}
               /\ Becomes(r, Idle)
<1>1. /\ request[r].op = "delete" /\ ~request[r].written
      /\ request' = [request EXCEPT ![r] =
          IF rows[request[r].of].status = "live" /\ request[r].drop # {}
          THEN [request[r] EXCEPT !.written = TRUE] ELSE Idle]
  BY DEF DeleteRow
<1> DEFINE q == [request[r] EXCEPT !.written = TRUE]
<1>2. request[r] \in Request /\ request[r].of \in Actors
  BY <1>1, Fields
<1>3. /\ q \in Request
      /\ q.op = request[r].op /\ q.of = request[r].of /\ q.config = request[r].config
      /\ q.put = request[r].put /\ q.written = TRUE
      /\ q.got = request[r].got /\ q.drop = request[r].drop
  BY <1>2 DEF Request
<1>4. \/ /\ rows[request[r].of].status = "live" /\ request[r].drop # {}
         /\ Becomes(r, q)
      \/ /\ rows[request[r].of].status = "live" => request[r].drop = {}
         /\ Becomes(r, Idle)
  BY <1>1 DEF Becomes
<1> HIDE DEF q
<1> QED
  BY <1>1, <1>2, <1>3, <1>4

LEMMA FetchEffect ==
  ASSUME TypeOK, NEW r \in Requests, Fetch(r)
  PROVE  /\ request[r].op = "hydrate"
         /\ \/ Becomes(r, Idle)
            \/ \E i \in DOMAIN request[r].config : \E q \in Request :
                 /\ secrets[i] # 0 /\ Becomes(r, q)
                 /\ q.op = request[r].op /\ q.of = request[r].of
                 /\ q.config = request[r].config /\ q.put = request[r].put
                 /\ q.written = request[r].written /\ q.drop = request[r].drop
                 /\ DOMAIN q.got = DOMAIN request[r].got \cup {i}
                 /\ q.got[i] = secrets[i]
                 /\ \A j \in DOMAIN request[r].got \ {i} : q.got[j] = request[r].got[j]
<1>1. request[r].op = "hydrate"
  BY DEF Fetch
<1>2. /\ request[r] \in Request /\ request[r].got \in Config
      /\ DOMAIN request[r].config \in SUBSET Ids
  BY <1>1, Fields, Configs
<1>3. CASE Becomes(r, Idle)
  BY <1>1, <1>3
<1>4. ASSUME NEW i \in DOMAIN request[r].config, secrets[i] # 0,
             request' = [request EXCEPT ![r] =
               [request[r] EXCEPT !.got = Extended(request[r].got, [j \in {i} |-> secrets[i]])]]
      PROVE  \E q \in Request :
                 /\ secrets[i] # 0 /\ Becomes(r, q)
                 /\ q.op = request[r].op /\ q.of = request[r].of
                 /\ q.config = request[r].config /\ q.put = request[r].put
                 /\ q.written = request[r].written /\ q.drop = request[r].drop
                 /\ DOMAIN q.got = DOMAIN request[r].got \cup {i}
                 /\ q.got[i] = secrets[i]
                 /\ \A j \in DOMAIN request[r].got \ {i} : q.got[j] = request[r].got[j]
  <2> DEFINE g == [j \in {i} |-> secrets[i]]
             f == Extended(request[r].got, g)
             q == [request[r] EXCEPT !.got = f]
  <2>1. i \in Ids /\ secrets[i] \in Values \ {0}
    BY <1>2, <1>4 DEF TypeOK
  <2>2. g \in [{i} -> Values \ {0}] /\ {i} \in SUBSET Ids /\ DOMAIN g = {i} /\ g[i] = secrets[i]
    BY <2>1
  <2>3. g \in Config
    BY <2>2, Configs
  <2> HIDE DEF g
  <2>4. /\ f \in Config /\ DOMAIN f = DOMAIN request[r].got \cup {i} /\ f[i] = secrets[i]
        /\ \A j \in DOMAIN request[r].got \ {i} : f[j] = request[r].got[j]
    <3>1. /\ DOMAIN f = DOMAIN request[r].got \cup DOMAIN g /\ f \in Config
          /\ \A j \in DOMAIN g : f[j] = g[j]
          /\ \A j \in DOMAIN request[r].got \ DOMAIN g : f[j] = request[r].got[j]
      BY <1>2, <2>3, Extending
    <3> QED
      BY <2>2, <3>1
  <2> HIDE DEF f
  <2>5. /\ q \in Request
        /\ q.op = request[r].op /\ q.of = request[r].of /\ q.config = request[r].config
        /\ q.put = request[r].put /\ q.written = request[r].written
        /\ q.got = f /\ q.drop = request[r].drop
    BY <1>2, <2>4 DEF Request
  <2>6. Becomes(r, q)
    BY <1>4 DEF Becomes, f, g
  <2> HIDE DEF q
  <2> QED
    BY <1>4, <2>4, <2>5, <2>6
<1>5. \/ Becomes(r, Idle)
      \/ \E i \in DOMAIN request[r].config :
           /\ secrets[i] # 0
           /\ request' = [request EXCEPT ![r] =
               [request[r] EXCEPT !.got = Extended(request[r].got, [j \in {i} |-> secrets[i]])]]
  <2>1. CASE Becomes(r, Idle)
    BY <2>1
  <2>2. CASE ~Becomes(r, Idle)
    <3>1. PICK i \in DOMAIN request[r].config \ DOMAIN request[r].got :
            request' = [request EXCEPT ![r] =
               IF secrets[i] = 0 THEN Idle
               ELSE [request[r] EXCEPT !.got = Extended(@, [j \in {i} |-> secrets[i]])]]
      BY <2>2 DEF Fetch, Becomes
    <3>2. secrets[i] # 0
      BY <2>2, <3>1 DEF Becomes
    <3> QED
      BY <3>1, <3>2
  <2> QED
    BY <2>1, <2>2
<1> QED
  BY <1>1, <1>3, <1>4, <1>5

LEMMA InitTypeOK == Init => TypeOK
<1> SUFFICES ASSUME Init PROVE TypeOK
  OBVIOUS
<1>1. rows \in [Actors -> [status : {"none", "creating", "live", "deleted"}, config : Config]]
  BY Configs DEF Init
<1>2. secrets \in [Ids -> Values] /\ used \subseteq Ids /\ faults \in 0..MaxFaults
  BY ActorSecretsAssumption DEF Init, Values
<1>3. shown \in [Actors -> Config] /\ request \in [Requests -> Request \cup {Idle}]
  BY Configs DEF Init
<1>4. author \in Seq(Actors) /\ Len(author) <= MaxSeals
  BY ActorSecretsAssumption DEF Init
<1>5. causes \in [Actors -> SUBSET Causes]
  BY DEF Init
<1> QED
  BY <1>1, <1>2, <1>3, <1>4, <1>5 DEF TypeOK

LEMMA DisturbedTyped ==
  ASSUME TypeOK, NEW a \in Actors, NEW C \in SUBSET Causes, Disturbed(a, C)
  PROVE  causes' \in [Actors -> SUBSET Causes]
BY DEF TypeOK, Disturbed

LEMMA BeginTypeOK ==
  ASSUME TypeOK, NEW r \in Requests, Begin(r)
  PROVE  TypeOK'
<1> PICK a \in Actors : Create(r, a) \/ Update(r, a) \/ Delete(r, a) \/ Launch(r, a)
  BY DEF Begin
<1>1. CASE Create(r, a)
  <2>1. PICK S \in SUBSET Unused, q \in Request : Seals(a, S) /\ Becomes(r, q)
    BY <1>1, CreateEffect
  <2>2. /\ author' \in Seq(Actors) /\ Len(author') <= MaxSeals /\ used' \subseteq Ids
    BY <2>1, SealEffect
  <2>3. request' \in [Requests -> Request \cup {Idle}]
    BY <2>1, BecomesTyped
  <2>4. rows' \in [Actors -> [status : {"none", "creating", "live", "deleted"}, config : Config]]
    BY <1>1 DEF Create, TypeOK
  <2> QED
    BY <1>1, <2>2, <2>3, <2>4 DEF Create, TypeOK
<1>2. CASE Update(r, a)
  <2>0. PICK S \in SUBSET Unused, K \in SUBSET DOMAIN shown[a], q \in Request :
          Updates(r, a, S, K, q)
    BY <1>2, UpdateEffect
  <2>1. /\ Seals(a, S) /\ Becomes(r, q)
        /\ Disturbed(a, (IF Writing(a) THEN {"overlap"} ELSE {}) \cup
                        (IF K \subseteq DOMAIN rows[a].config THEN {} ELSE {"stale"}))
    BY <2>0 DEF Updates
  <2>2. /\ author' \in Seq(Actors) /\ Len(author') <= MaxSeals /\ used' \subseteq Ids
    BY <2>1, SealEffect
  <2>3. request' \in [Requests -> Request \cup {Idle}]
    BY <2>1, BecomesTyped
  <2>4. causes' \in [Actors -> SUBSET Causes]
    BY <2>1, DisturbedTyped DEF Causes
  <2> QED
    BY <1>2, <2>2, <2>3, <2>4 DEF Update, TypeOK
<1>3. CASE Delete(r, a)
  <2>1. PICK q \in Request : Becomes(r, q)
    BY <1>3, DeleteEffect
  <2>2. request' \in [Requests -> Request \cup {Idle}]
    BY <2>1, BecomesTyped
  <2>3. causes' \in [Actors -> SUBSET Causes]
    BY <1>3, DisturbedTyped DEF Causes, Delete
  <2> QED
    BY <1>3, <2>2, <2>3 DEF Delete, TypeOK
<1>4. CASE Launch(r, a)
  <2>1. PICK q \in Request : Becomes(r, q)
    BY <1>4, LaunchEffect
  <2>2. request' \in [Requests -> Request \cup {Idle}]
    BY <2>1, BecomesTyped
  <2> QED
    BY <1>4, <2>2 DEF Launch, TypeOK
<1> QED
  BY <1>1, <1>2, <1>3, <1>4

\* A request stores secrets of the configuration it is to write.
Stores == \A r \in Requests : request[r].put \subseteq DOMAIN request[r].config

LEMMA ContinueTypeOK ==
  ASSUME TypeOK, Stores, NEW r \in Requests, Continue(r)
  PROVE  TypeOK'
<1>0. \E q \in Request \cup {Idle} : Becomes(r, q)
  <2>1. CASE WriteRow(r)
    BY <2>1 DEF WriteRow, Becomes
  <2> QED
    BY <2>1, PutEffect, DropEffect, DeleteRowEffect, FetchEffect DEF Continue
<1>1. request' \in [Requests -> Request \cup {Idle}]
  BY <1>0, BecomesTyped
<1>2. CASE Put(r)
  <2>1. PICK i \in request[r].put : secrets' = [secrets EXCEPT ![i] = request[r].config[i]]
    BY <1>2 DEF Put
  <2>2. secrets' \in [Ids -> Values]
    <3>1. request[r].config[i] \in Values
      BY Fields, Configs DEF Stores
    <3> QED
      BY <2>1, <3>1 DEF TypeOK
  <2> QED
    BY <1>1, <1>2, <2>2 DEF Put, TypeOK
<1>3. CASE Drop(r)
  <2>1. \E i : secrets' = [secrets EXCEPT ![i] = 0]
    BY <1>3 DEF Drop
  <2>3. 0 \in Values
    BY ActorSecretsAssumption DEF Values
  <2>2. secrets' \in [Ids -> Values]
    BY <2>1, <2>3 DEF TypeOK
  <2> QED
    BY <1>1, <1>3, <2>2 DEF Drop, TypeOK
<1>4. CASE WriteRow(r)
  <2> DEFINE q == request[r]
  <2>1. q.of \in Actors /\ q.config \in Config
    BY <1>4, Fields DEF WriteRow
  <2> HIDE DEF q
  <2>2. /\ rows' = rows \/ rows' = [rows EXCEPT ![q.of] = [status |-> "live", config |-> q.config]]
        /\ shown' = shown \/ shown' = [shown EXCEPT ![q.of] = Extended(shown[q.of], q.config)]
    BY <1>4 DEF WriteRow, q
  <2>3. Extended(shown[q.of], q.config) \in Config
    BY <2>1, Extending DEF TypeOK
  <2>4. rows' \in [Actors -> [status : {"none", "creating", "live", "deleted"}, config : Config]]
    BY <2>1, <2>2 DEF TypeOK
  <2>5. shown' \in [Actors -> Config]
    BY <2>1, <2>2, <2>3 DEF TypeOK
  <2> QED
    BY <1>1, <1>4, <2>4, <2>5 DEF WriteRow, TypeOK
<1>5. CASE DeleteRow(r)
  <2> DEFINE a == request[r].of
  <2>1. /\ rows' = rows \/ rows' = [rows EXCEPT ![a] = [status |-> "deleted", config |-> Nothing]]
    BY <1>5 DEF DeleteRow
  <2> HIDE DEF a
  <2>2. rows' \in [Actors -> [status : {"none", "creating", "live", "deleted"}, config : Config]]
    BY <2>1, Configs DEF TypeOK
  <2> QED
    BY <1>1, <1>5, <2>2 DEF DeleteRow, TypeOK
<1>6. CASE Fetch(r)
  BY <1>1, <1>6 DEF Fetch, TypeOK
<1> QED
  BY <1>2, <1>3, <1>4, <1>5, <1>6 DEF Continue

LEMMA CutTypeOK ==
  ASSUME TypeOK, NEW R \in SUBSET Requests, Cut(R)
  PROVE  TypeOK'
<1>1. request' \in [Requests -> Request \cup {Idle}]
  BY DEF Cut, TypeOK
<1>2. causes' \in [Actors -> SUBSET Causes]
  BY DEF Cut, TypeOK, CutBy, Causes
<1>3. faults' \in 0..MaxFaults
  BY ActorSecretsAssumption DEF Cut, TypeOK
<1> QED
  BY <1>1, <1>2, <1>3 DEF Cut, TypeOK

LEMMA StepStores == TypeOK /\ Stores /\ [Next]_vars => Stores'
<1> SUFFICES ASSUME TypeOK, Stores, [Next]_vars PROVE Stores'
  OBVIOUS
<1>1. ASSUME NEW r \in Requests, NEW q \in Request \cup {Idle}, Becomes(r, q),
             q.put \subseteq DOMAIN q.config
      PROVE  Stores'
  BY <1>1, BecomesTyped DEF Stores
<1>2. ASSUME NEW r \in Requests, NEW a \in Actors, Create(r, a) \/ Update(r, a)
      PROVE  Stores'
  <2>1. CASE Create(r, a)
    BY <1>1, <2>1, CreateEffect
  <2>2. CASE Update(r, a)
    <3>1. PICK S \in SUBSET Unused, K \in SUBSET DOMAIN shown[a], q \in Request :
            Updates(r, a, S, K, q)
      BY <2>2, UpdateEffect
    <3> QED
      BY <1>1, <3>1 DEF Updates
  <2> QED
    BY <1>2, <2>1, <2>2
<1>3. ASSUME NEW r \in Requests, NEW a \in Actors, Delete(r, a) \/ Launch(r, a)
      PROVE  Stores'
  BY <1>1, <1>3, DeleteEffect, LaunchEffect
<1>4. ASSUME NEW r \in Requests, Put(r)
      PROVE  Stores'
  <2>1. PICK i \in request[r].put, q \in Request :
          Becomes(r, q) /\ q.put = request[r].put \ {i} /\ q.config = request[r].config
    BY <1>4, PutEffect
  <2> QED
    BY <1>1, <2>1 DEF Stores
<1>5. ASSUME NEW r \in Requests, Drop(r) \/ DeleteRow(r) \/ Fetch(r) \/ WriteRow(r)
      PROVE  Stores'
  <2> DEFINE Keeps == \/ Becomes(r, Idle)
                     \/ \E q \in Request :
                          /\ Becomes(r, q) /\ q.put = request[r].put
                          /\ q.config = request[r].config
  <2>1. CASE Drop(r)
    <3>1. Keeps
      BY <2>1, DropEffect
    <3> QED
      BY <1>1, <3>1, IdleFields DEF Stores
  <2>2. CASE DeleteRow(r)
    <3>1. Keeps
      BY <2>2, DeleteRowEffect
    <3> QED
      BY <1>1, <3>1, IdleFields DEF Stores
  <2>3. CASE Fetch(r)
    <3>1. Keeps
      BY <2>3, FetchEffect
    <3> QED
      BY <1>1, <3>1, IdleFields DEF Stores
  <2>4. CASE WriteRow(r)
    <3>1. Becomes(r, Idle)
      BY <2>4 DEF WriteRow, Becomes
    <3> QED
      BY <1>1, <3>1, IdleFields
  <2> QED
    BY <1>5, <2>1, <2>2, <2>3, <2>4
<1>6. ASSUME NEW R \in SUBSET Requests, Cut(R)
      PROVE  Stores'
  BY <1>6, IdleFields DEF Cut, Stores
<1>7. CASE UNCHANGED request
  BY <1>7 DEF Stores
<1>8. \/ \E r \in Requests : Begin(r) \/ Continue(r)
      \/ \E R \in SUBSET Requests : Cut(R)
      \/ UNCHANGED request
  BY DEF Next, Fails, Crash, DeleteWorkspace, vars
<1> QED
  BY <1>2, <1>3, <1>4, <1>5, <1>6, <1>7, <1>8 DEF Begin, Continue

LEMMA StepTypeOK == TypeOK /\ Stores /\ [Next]_vars => TypeOK'
<1> SUFFICES ASSUME TypeOK, Stores, [Next]_vars PROVE TypeOK'
  OBVIOUS
<1>1. CASE \E r \in Requests : Begin(r) \/ Continue(r)
  BY <1>1, BeginTypeOK, ContinueTypeOK
<1>2. CASE \E R \in SUBSET Requests : Cut(R)
  BY <1>2, CutTypeOK
<1>3. CASE DeleteWorkspace
  <2>1. rows' \in [Actors -> [status : {"none", "creating", "live", "deleted"}, config : Config]]
    BY <1>3, Configs DEF DeleteWorkspace, TypeOK
  <2>2. causes' \in [Actors -> SUBSET Causes]
    BY <1>3 DEF DeleteWorkspace, TypeOK, Causes
  <2> QED
    BY <1>3, <2>1, <2>2 DEF DeleteWorkspace, TypeOK
<1>4. CASE UNCHANGED vars
  BY <1>4 DEF vars, TypeOK
<1>5. Next => \/ \E r \in Requests : Begin(r) \/ Continue(r)
              \/ \E R \in SUBSET Requests : Cut(R)
              \/ DeleteWorkspace
  BY DEF Next, Fails, Crash
<1> QED
  BY <1>1, <1>2, <1>3, <1>4, <1>5

\* Every state of the actors, of their secrets and of the requests at work is
\* well typed: no request stores what is not a secret it has sealed or kept.
THEOREM TypeCorrect == Spec => []TypeOK
<1>1. Init => TypeOK /\ Stores
  <2>1. Init => Stores
    BY IdleFields DEF Init, Stores
  <2> QED
    BY <2>1, InitTypeOK
<1>2. TypeOK /\ Stores /\ [Next]_vars => (TypeOK /\ Stores)'
  BY StepTypeOK, StepStores
<1> QED
  BY <1>1, <1>2, PTL DEF Spec

-----------------------------------------------------------------------------
(* The inductive invariants. *)

\* Somewhere id i goes with value v.
Said(i, v) ==
  \/ \E a \in Actors : i \in DOMAIN rows[a].config /\ rows[a].config[i] = v
  \/ \E a \in Actors : i \in DOMAIN shown[a] /\ shown[a][i] = v
  \/ \E r \in Requests : i \in DOMAIN request[r].config /\ request[r].config[i] = v
  \/ secrets[i] = v /\ v # 0

\* An id goes with one value wherever it is, which some actor's request sealed.
Coherent ==
  \A i \in Ids : \A v \in Values :
    Said(i, v) =>
      /\ i \in used /\ v \in 1..Len(author)
      /\ \A w \in Values : Said(i, w) => v = w

\* What a request holds: a secret to store is one of its configuration, and none
\* of those is to be deleted; a delete deletes secrets once its row is gone; what
\* was fetched is what the configuration read stands for.
Shaped(q) ==
  /\ q.put \subseteq DOMAIN q.config
  /\ q.drop \cap DOMAIN q.config = {}
  /\ q.op \notin {"create", "update"} => q.put = {}
  /\ q.op \notin {"update", "delete"} => q.drop = {}
  /\ DOMAIN q.got \subseteq DOMAIN q.config
  /\ \A i \in DOMAIN q.got : q.got[i] = q.config[i]
  /\ q.written => q.op = "delete" /\ rows[q.of].status = "deleted"

\* The references of an actor, wherever they are, are to secrets sealed for it.
Owned ==
  \A a \in Actors :
    /\ \A i \in DOMAIN shown[a] : author[shown[a][i]] = a
    /\ DOMAIN rows[a].config \subseteq DOMAIN shown[a]
    /\ \A r \in Requests : request[r].op # "idle" /\ request[r].of = a =>
         /\ \A i \in DOMAIN request[r].config : author[request[r].config[i]] = a
         /\ request[r].drop \subseteq DOMAIN shown[a]

\* Only a live actor has references, and only an actor that a request began to
\* create has handlers.
Begun ==
  /\ \A a \in Actors : rows[a].status # "live" => DOMAIN rows[a].config = {}
  /\ \A r \in Requests : request[r].op \in Writers => rows[request[r].of].status # "none"

\* Handlers of an actor that never overlapped follow one another.
OneWriter ==
  \A a \in Actors : "overlap" \notin causes[a] =>
    \A r, p \in Requests :
      /\ request[r].op \in Writers /\ request[r].of = a
      /\ request[p].op \in Writers /\ request[p].of = a
      => r = p

Undisturbed(a) == causes[a] \cap {"overlap", "stale", "halfway"} = {}

\* Update r of actor a has deleted the secret of id i, which the row still has.
Deleted(r, a, i) ==
  /\ request[r].op = "update" /\ request[r].of = a
  /\ i \in Obsolete(rows[a].config, request[r].config) \ request[r].drop

\* A reference of a row has its secret or is one that the update at work has
\* deleted; those of the configuration to be written are there once stored.
ResolveInv ==
  \A a \in Actors : Undisturbed(a) =>
    /\ rows[a].status = "live" =>
         \A i \in DOMAIN rows[a].config :
           secrets[i] # 0 \/ \E r \in Requests : Deleted(r, a, i)
    /\ \A r \in Requests :
         request[r].op \in {"create", "update"} /\ request[r].of = a =>
           \A i \in DOMAIN request[r].config \ request[r].put : secrets[i] # 0

Orderly(a) == causes[a] \cap {"overlap", "cut", "cascade"} = {}

\* The secrets a handler answers for.
Held(q) == IF q.op = "delete" THEN q.drop ELSE DOMAIN q.config \cup q.drop

\* A secret is referred to by its actor's row, or is one that a handler of the
\* actor stores or is to delete; what a handler is to do fits the row.
LeakInv ==
  /\ \A i \in Ids : secrets[i] # 0 =>
       LET x == author[secrets[i]]
       IN Orderly(x) =>
            \/ i \in DOMAIN rows[x].config
            \/ \E r \in Requests :
                 /\ request[r].op \in Writers /\ request[r].of = x
                 /\ i \in Held(request[r])
  /\ \A r \in Requests :
       LET q == request[r]
           a == q.of
       IN q.op \in Writers /\ Orderly(a) =>
            /\ q.op = "create" => rows[a].status = "creating"
            /\ q.op = "update" =>
                 /\ rows[a].status = "live"
                 /\ \A i \in DOMAIN rows[a].config :
                      i \in DOMAIN q.config \cup q.drop \/ secrets[i] = 0
            /\ q.op = "delete" /\ ~q.written =>
                 rows[a].status = "live" /\ DOMAIN rows[a].config \subseteq q.drop

Bound ==
  /\ Coherent
  /\ \A r \in Requests : Shaped(request[r])
  /\ Owned

-----------------------------------------------------------------------------
(* What goes with an id, and whose it is. *)

\* Id i is sealed by this step, with value v.
Sealed(i, v) ==
  /\ i \in used' \ used
  /\ v = Len(author) + 1 /\ Len(author') = Len(author) + 1

LEMMA AuthorGrows ==
  ASSUME TypeOK, [Next]_vars
  PROVE  /\ used \subseteq used'
         /\ Len(author) \in Nat /\ Len(author') \in Nat /\ Len(author) <= Len(author')
         /\ \A v \in 1..Len(author) : author'[v] = author[v]
<1>0. author \in Seq(Actors) /\ Len(author) \in Nat
  BY DEF TypeOK
<1>1. ASSUME NEW r \in Requests, NEW a \in Actors, Create(r, a) \/ Update(r, a)
      PROVE  /\ used \subseteq used' /\ author' \in Seq(Actors)
             /\ Len(author) <= Len(author')
             /\ \A v \in 1..Len(author) : author'[v] = author[v]
  <2>1. PICK S \in SUBSET Unused : Seals(a, S)
    BY <1>1, CreateEffect, UpdateEffect DEF Updates
  <2> QED
    BY <2>1, SealEffect
<1>2. \/ \E r \in Requests, a \in Actors : Create(r, a) \/ Update(r, a)
      \/ UNCHANGED <<used, author>>
  BY DEF Next, Begin, Continue, Delete, Launch, Put, Drop, WriteRow, DeleteRow, Fetch, Fails,
         Crash, Cut, DeleteWorkspace, vars
<1> QED
  BY <1>0, <1>1, <1>2

\* Where the row, the references shown and the requests of a step come from.
LEMMA SaidFrom ==
  ASSUME \A a \in Actors : \A i \in DOMAIN rows'[a].config : Said(i, rows'[a].config[i]),
         \A a \in Actors : \A i \in DOMAIN shown'[a] : Said(i, shown'[a][i]),
         \A r \in Requests : \A i \in DOMAIN request'[r].config :
           \/ Said(i, request'[r].config[i])
           \/ Sealed(i, request'[r].config[i]),
         \A i \in Ids : secrets'[i] # 0 => Said(i, secrets'[i]),
         NEW i \in Ids, NEW v, Said(i, v)'
  PROVE  Said(i, v) \/ Sealed(i, v)
BY DEF Said

LEMMA SaidNow ==
  /\ \A a \in Actors : \A i \in DOMAIN rows[a].config : Said(i, rows[a].config[i])
  /\ \A a \in Actors : \A i \in DOMAIN shown[a] : Said(i, shown[a][i])
  /\ \A r \in Requests : \A i \in DOMAIN request[r].config : Said(i, request[r].config[i])
  /\ \A i \in Ids : secrets[i] # 0 => Said(i, secrets[i])
BY DEF Said

LEMMA SaidStep ==
  ASSUME TypeOK, Stores, [Next]_vars
  PROVE  \A i \in Ids : \A v : Said(i, v)' => Said(i, v) \/ Sealed(i, v)
<1>0. \A r \in Requests : \A i \in DOMAIN Idle.config : FALSE
  BY IdleFields, Configs
<1>1. ASSUME NEW r \in Requests, NEW q \in Request \cup {Idle}, Becomes(r, q),
             \A i \in DOMAIN q.config : Said(i, q.config[i]) \/ Sealed(i, q.config[i])
      PROVE  \A p \in Requests : \A i \in DOMAIN request'[p].config :
               Said(i, request'[p].config[i]) \/ Sealed(i, request'[p].config[i])
  BY <1>1, BecomesTyped, SaidNow
<1>2. ASSUME NEW r \in Requests, NEW a \in Actors, Create(r, a)
      PROVE  \A i \in Ids : \A v : Said(i, v)' => Said(i, v) \/ Sealed(i, v)
  <2>1. PICK S \in SUBSET Unused, q \in Request :
          /\ Seals(a, S) /\ Becomes(r, q) /\ DOMAIN q.config = S
          /\ \A i \in S : q.config[i] = Len(author) + 1
    BY <1>2, CreateEffect
  <2>2. \A i \in S : Sealed(i, q.config[i])
    BY <2>1, SealEffect DEF Sealed, Unused
  <2>3. \A b \in Actors : rows'[b].config = rows[b].config
    BY <1>2 DEF Create, TypeOK
  <2>4. shown' = shown /\ secrets' = secrets
    BY <1>2 DEF Create
  <2>5. \A p \in Requests : \A i \in DOMAIN request'[p].config :
          Said(i, request'[p].config[i]) \/ Sealed(i, request'[p].config[i])
    BY <1>1, <2>1, <2>2
  <2> QED
    BY <2>3, <2>4, <2>5, SaidNow, SaidFrom
<1>3. ASSUME NEW r \in Requests, NEW a \in Actors, Update(r, a)
      PROVE  \A i \in Ids : \A v : Said(i, v)' => Said(i, v) \/ Sealed(i, v)
  <2>0. PICK S \in SUBSET Unused, K \in SUBSET DOMAIN shown[a], q \in Request :
          Updates(r, a, S, K, q)
    BY <1>3, UpdateEffect
  <2>1. /\ Seals(a, S) /\ Becomes(r, q)
        /\ DOMAIN q.config = K \cup S
        /\ \A i \in S : q.config[i] = Len(author) + 1
        /\ \A i \in K \ S : q.config[i] = shown[a][i]
    BY <2>0 DEF Updates
  <2>2. \A i \in S : Sealed(i, q.config[i])
    BY <2>1, SealEffect DEF Sealed, Unused
  <2>3. \A i \in K \ S : Said(i, q.config[i])
    BY <2>1 DEF Said
  <2>4. rows' = rows /\ shown' = shown /\ secrets' = secrets
    BY <1>3 DEF Update
  <2>5. \A p \in Requests : \A i \in DOMAIN request'[p].config :
          Said(i, request'[p].config[i]) \/ Sealed(i, request'[p].config[i])
    BY <1>1, <2>1, <2>2, <2>3
  <2> QED
    BY <2>4, <2>5, SaidNow, SaidFrom
<1>4. ASSUME NEW r \in Requests, NEW a \in Actors, Delete(r, a) \/ Launch(r, a)
      PROVE  \A i \in Ids : \A v : Said(i, v)' => Said(i, v) \/ Sealed(i, v)
  <2>1. PICK q \in Request :
          Becomes(r, q) /\ (q.config = Nothing \/ q.config = rows[a].config)
    BY <1>4, DeleteEffect, LaunchEffect
  <2>2. \A i \in DOMAIN q.config : Said(i, q.config[i])
    BY <2>1, Configs DEF Said
  <2>3. rows' = rows /\ shown' = shown /\ secrets' = secrets
    BY <1>4 DEF Delete, Launch
  <2>5. \A p \in Requests : \A i \in DOMAIN request'[p].config :
          Said(i, request'[p].config[i]) \/ Sealed(i, request'[p].config[i])
    BY <1>1, <2>1, <2>2
  <2> QED
    BY <2>3, <2>5, SaidNow, SaidFrom
<1>5. ASSUME \/ \E r \in Requests : Continue(r)
             \/ \E R \in SUBSET Requests : Cut(R)
             \/ DeleteWorkspace
             \/ UNCHANGED vars
      PROVE  \A p \in Requests :
               request'[p].config = request[p].config \/ request'[p].config = Nothing
  <2>1. ASSUME NEW r \in Requests, NEW q \in Request \cup {Idle}, Becomes(r, q),
               q.config = request[r].config \/ q.config = Nothing
        PROVE  \A p \in Requests :
                 request'[p].config = request[p].config \/ request'[p].config = Nothing
    BY <2>1, BecomesTyped
  <2>2. ASSUME NEW r \in Requests, Continue(r)
        PROVE  \E q \in Request \cup {Idle} :
                 Becomes(r, q) /\ (q.config = request[r].config \/ q.config = Nothing)
    <3>1. CASE Put(r)
      <4>1. PICK i \in request[r].put, q \in Request :
              /\ secrets' = [secrets EXCEPT ![i] = request[r].config[i]]
              /\ Becomes(r, q) /\ q.config = request[r].config
        BY <3>1, PutEffect
      <4> QED
        BY <4>1
    <3>2. CASE Drop(r) \/ DeleteRow(r) \/ Fetch(r) \/ WriteRow(r)
      <4>1. \/ Becomes(r, Idle)
            \/ \E q \in Request : Becomes(r, q) /\ q.config = request[r].config
        BY <3>2, DropEffect, DeleteRowEffect, FetchEffect DEF WriteRow, Becomes
      <4> QED
        BY <4>1, IdleFields
    <3> QED
      BY <2>2, <3>1, <3>2 DEF Continue
  <2>3. CASE \E R \in SUBSET Requests : Cut(R)
    BY <2>3, IdleFields DEF Cut
  <2>4. CASE UNCHANGED request
    BY <2>4
  <2> QED
    BY <1>5, <2>1, <2>2, <2>3, <2>4 DEF DeleteWorkspace, vars
<1>6. ASSUME NEW r \in Requests, Put(r)
      PROVE  /\ rows' = rows /\ shown' = shown
             /\ \A i \in Ids : secrets'[i] # 0 => Said(i, secrets'[i])
  <2>1. PICK j \in request[r].put : secrets' = [secrets EXCEPT ![j] = request[r].config[j]]
    BY <1>6 DEF Put
  <2>2. j \in DOMAIN request[r].config
    BY DEF Stores
  <2>3. secrets \in [Ids -> Values]
    BY DEF TypeOK
  <2>4. ASSUME NEW i \in Ids, secrets'[i] # 0
        PROVE  Said(i, secrets'[i])
    <3>1. CASE i = j
      BY <2>1, <2>2, <2>3, <3>1 DEF Said
    <3>2. CASE i # j
      BY <2>1, <2>3, <2>4, <3>2 DEF Said
    <3> QED
      BY <3>1, <3>2
  <2> QED
    BY <1>6, <2>4 DEF Put
<1>7. ASSUME NEW r \in Requests, Drop(r)
      PROVE  /\ rows' = rows /\ shown' = shown
             /\ \A i \in Ids : secrets'[i] # 0 => Said(i, secrets'[i])
  <2>1. \E j : secrets' = [secrets EXCEPT ![j] = 0]
    BY <1>7 DEF Drop
  <2>2. \A i \in Ids : secrets'[i] # 0 => secrets'[i] = secrets[i]
    BY <2>1 DEF TypeOK
  <2> QED
    BY <1>7, <2>2, SaidNow DEF Drop
<1>8. ASSUME NEW r \in Requests, WriteRow(r)
      PROVE  /\ secrets' = secrets
             /\ \A a \in Actors : \A i \in DOMAIN rows'[a].config : Said(i, rows'[a].config[i])
             /\ \A a \in Actors : \A i \in DOMAIN shown'[a] : Said(i, shown'[a][i])
  <2> DEFINE q == request[r]
  <2>1. q.of \in Actors /\ q.config \in Config
    BY <1>8, Fields DEF WriteRow
  <2>2. \A i \in DOMAIN q.config : Said(i, q.config[i])
    BY SaidNow
  <2> HIDE DEF q
  <2>3. /\ rows' = rows \/ rows' = [rows EXCEPT ![q.of] = [status |-> "live", config |-> q.config]]
        /\ shown' = shown \/ shown' = [shown EXCEPT ![q.of] = Extended(shown[q.of], q.config)]
    BY <1>8 DEF WriteRow, q
  <2>4. \A a \in Actors : \A i \in DOMAIN rows'[a].config : Said(i, rows'[a].config[i])
    <3>1. \A a \in Actors : rows'[a].config = rows[a].config \/ rows'[a].config = q.config
      BY <2>1, <2>3 DEF TypeOK
    <3> QED
      BY <2>2, <3>1, SaidNow
  <2>5. \A a \in Actors : \A i \in DOMAIN shown'[a] : Said(i, shown'[a][i])
    <3> DEFINE e == Extended(shown[q.of], q.config)
    <3>1. \A i \in DOMAIN e : Said(i, e[i])
      <4>1. shown[q.of] \in Config
        BY <2>1 DEF TypeOK
      <4>2. /\ DOMAIN e = DOMAIN shown[q.of] \cup DOMAIN q.config
            /\ \A i \in DOMAIN q.config : e[i] = q.config[i]
            /\ \A i \in DOMAIN shown[q.of] \ DOMAIN q.config : e[i] = shown[q.of][i]
        BY <2>1, <4>1, Extending
      <4>3. \A i \in DOMAIN shown[q.of] : Said(i, shown[q.of][i])
        BY <2>1, SaidNow
      <4> HIDE DEF e
      <4> QED
        BY <2>2, <4>2, <4>3
    <3>2. \A a \in Actors : shown'[a] = shown[a] \/ shown'[a] = e
      BY <2>1, <2>3 DEF TypeOK
    <3> HIDE DEF e
    <3> QED
      BY <3>1, <3>2, SaidNow
  <2> QED
    BY <1>8, <2>4, <2>5 DEF WriteRow
<1>9. ASSUME \/ \E r \in Requests : DeleteRow(r) \/ Fetch(r)
             \/ \E R \in SUBSET Requests : Cut(R)
             \/ DeleteWorkspace
             \/ UNCHANGED vars
      PROVE  /\ shown' = shown /\ secrets' = secrets
             /\ \A a \in Actors : rows'[a].config = rows[a].config \/ rows'[a].config = Nothing
  BY <1>9 DEF DeleteRow, Fetch, Cut, DeleteWorkspace, vars, TypeOK
<1>10. ASSUME \/ \E r \in Requests : Continue(r)
              \/ \E R \in SUBSET Requests : Cut(R)
              \/ DeleteWorkspace
              \/ UNCHANGED vars
       PROVE  \A i \in Ids : \A v : Said(i, v)' => Said(i, v) \/ Sealed(i, v)
  <2>1. \A p \in Requests : \A i \in DOMAIN request'[p].config : Said(i, request'[p].config[i])
    BY <1>5, <1>10, Configs, SaidNow
  <2>2. /\ \A a \in Actors : \A i \in DOMAIN rows'[a].config : Said(i, rows'[a].config[i])
        /\ \A a \in Actors : \A i \in DOMAIN shown'[a] : Said(i, shown'[a][i])
        /\ \A i \in Ids : secrets'[i] # 0 => Said(i, secrets'[i])
    <3>1. CASE \E r \in Requests : Put(r) \/ Drop(r)
      BY <1>6, <1>7, <3>1, SaidNow
    <3>2. CASE \E r \in Requests : WriteRow(r)
      BY <1>8, <3>2, SaidNow
    <3>3. CASE \/ \E r \in Requests : DeleteRow(r) \/ Fetch(r)
               \/ \E R \in SUBSET Requests : Cut(R)
               \/ DeleteWorkspace
               \/ UNCHANGED vars
      BY <1>9, <3>3, Configs, SaidNow
    <3> QED
      BY <1>10, <3>1, <3>2, <3>3 DEF Continue
  <2> QED
    BY <2>1, <2>2, SaidFrom
<1>11. \/ \E r \in Requests, a \in Actors : Create(r, a) \/ Update(r, a)
       \/ \E r \in Requests, a \in Actors : Delete(r, a) \/ Launch(r, a)
       \/ \E r \in Requests : Continue(r)
       \/ \E R \in SUBSET Requests : Cut(R)
       \/ DeleteWorkspace
       \/ UNCHANGED vars
  BY DEF Next, Begin, Fails, Crash
<1> QED
  BY <1>2, <1>3, <1>4, <1>10, <1>11

LEMMA CoherentStep ==
  ASSUME TypeOK, Stores, Coherent, [Next]_vars
  PROVE  Coherent'
<1>1. /\ used \subseteq used'
      /\ Len(author) \in Nat /\ Len(author') \in Nat /\ Len(author) <= Len(author')
  BY AuthorGrows
<1>2. ASSUME NEW i \in Ids, NEW v \in Values, Said(i, v)'
      PROVE  /\ i \in used' /\ v \in 1..Len(author')
             /\ \A w \in Values : Said(i, w)' => v = w
  <2>1. CASE Said(i, v)
    <3>1. i \in used /\ v \in 1..Len(author) /\ \A w \in Values : Said(i, w) => v = w
      BY <2>1 DEF Coherent
    <3>2. \A w \in Values : Said(i, w)' => Said(i, w)
      BY <3>1, SaidStep DEF Sealed
    <3> QED
      BY <1>1, <3>1, <3>2
  <2>2. CASE Sealed(i, v)
    <3>1. \A w \in Values : ~Said(i, w)
      BY <2>2 DEF Coherent, Sealed
    <3>2. \A w \in Values : Said(i, w)' => Sealed(i, w)
      BY <3>1, SaidStep
    <3> QED
      BY <1>1, <2>2, <3>2 DEF Sealed
  <2> QED
    BY <1>2, <2>1, <2>2, SaidStep
<1> QED
  BY <1>2 DEF Coherent

\* Two places that have an id agree on its value.
LEMMA Agree ==
  ASSUME TypeOK, Coherent, NEW i \in Ids, NEW v \in Values, NEW w \in Values,
         Said(i, v), Said(i, w)
  PROVE  v = w /\ i \in used /\ v \in 1..Len(author)
BY DEF Coherent

\* Whoever sealed what is about keeps having sealed it.
LEMMA AuthorKept ==
  ASSUME TypeOK, Coherent, [Next]_vars, NEW i \in Ids, NEW v \in Values, Said(i, v)
  PROVE  author'[v] = author[v]
BY AuthorGrows DEF Coherent

\* A step that does not write a row shows nothing new.
LEMMA RowsStep ==
  ASSUME TypeOK, [Next]_vars
  PROVE  \/ \E r \in Requests : WriteRow(r)
         \/ /\ shown' = shown
            /\ \A a \in Actors : rows'[a].config = rows[a].config \/ rows'[a].config = Nothing
<1>1. ASSUME NEW r \in Requests, NEW a \in Actors, Create(r, a)
      PROVE  shown' = shown /\ \A b \in Actors : rows'[b].config = rows[b].config
  BY <1>1 DEF Create, TypeOK
<1>2. CASE UNCHANGED <<rows, shown>>
  BY <1>2
<1>3. CASE DeleteWorkspace \/ \E r \in Requests : DeleteRow(r)
  BY <1>3 DEF DeleteWorkspace, DeleteRow, TypeOK
<1>4. \/ \E r \in Requests : WriteRow(r)
      \/ \E r \in Requests, a \in Actors : Create(r, a)
      \/ UNCHANGED <<rows, shown>>
      \/ DeleteWorkspace \/ \E r \in Requests : DeleteRow(r)
  BY DEF Next, Begin, Continue, Update, Delete, Launch, Put, Drop, Fetch, Fails, Crash, Cut, vars
<1> QED
  BY <1>1, <1>2, <1>3, <1>4

\* What writing a row does to it and to what has been shown.
LEMMA WriteRowEffect ==
  ASSUME TypeOK, NEW r \in Requests, WriteRow(r)
  PROVE  /\ request[r].op \in {"create", "update"} /\ request[r].of \in Actors
         /\ request[r].put = {} /\ request[r].drop = {}
         /\ \A a \in Actors :
              \/ rows'[a] = rows[a] /\ shown'[a] = shown[a]
              \/ /\ a = request[r].of
                 /\ rows[a].status = IF request[r].op = "create" THEN "creating" ELSE "live"
                 /\ rows'[a].status = "live" /\ rows'[a].config = request[r].config
                 /\ DOMAIN shown'[a] = DOMAIN shown[a] \cup DOMAIN request[r].config
                 /\ \A i \in DOMAIN request[r].config : shown'[a][i] = request[r].config[i]
                 /\ \A i \in DOMAIN shown[a] \ DOMAIN request[r].config :
                      shown'[a][i] = shown[a][i]
<1> DEFINE q == request[r]
           e == Extended(shown[q.of], q.config)
           stored == rows[q.of].status = IF q.op = "create" THEN "creating" ELSE "live"
<1>1. /\ q.op \in {"create", "update"} /\ q.put = {} /\ q.drop = {}
      /\ rows' = IF stored THEN [rows EXCEPT ![q.of] = [status |-> "live", config |-> q.config]]
                 ELSE rows
      /\ shown' = IF stored THEN [shown EXCEPT ![q.of] = e] ELSE shown
  BY DEF WriteRow
<1>2. q.of \in Actors /\ q.config \in Config
  BY <1>1, Fields
<1>3. /\ DOMAIN e = DOMAIN shown[q.of] \cup DOMAIN q.config
      /\ \A i \in DOMAIN q.config : e[i] = q.config[i]
      /\ \A i \in DOMAIN shown[q.of] \ DOMAIN q.config : e[i] = shown[q.of][i]
  <2>1. shown[q.of] \in Config
    BY <1>2 DEF TypeOK
  <2> QED
    BY <1>2, <2>1, Extending
<1>4. ASSUME NEW a \in Actors
      PROVE  \/ rows'[a] = rows[a] /\ shown'[a] = shown[a]
             \/ /\ a = q.of /\ stored
                /\ rows'[a].status = "live" /\ rows'[a].config = q.config
                /\ shown'[a] = e
  <2> HIDE DEF q, e
  <2> QED
    BY <1>1, <1>2 DEF TypeOK
<1> HIDE DEF e
<1> QED
  BY <1>1, <1>2, <1>3, <1>4, SMTT(30)

\* The references of a request that belong to its actor.
Owns(q) ==
  /\ \A i \in DOMAIN q.config : author[q.config[i]] = q.of
  /\ q.drop \subseteq DOMAIN shown[q.of]

LEMMA OwnsRequest ==
  Owned => \A r \in Requests : request[r].op # "idle" /\ request[r].of \in Actors
                                 => Owns(request[r])
BY DEF Owned, Owns

\* Values of a configuration.
LEMMA ConfigValues ==
  ASSUME TypeOK
  PROVE  /\ \A a \in Actors : \A i \in DOMAIN rows[a].config :
              i \in Ids /\ rows[a].config[i] \in Values
         /\ \A a \in Actors : \A i \in DOMAIN shown[a] : i \in Ids /\ shown[a][i] \in Values
         /\ \A r \in Requests : \A i \in DOMAIN request[r].config :
              i \in Ids /\ request[r].config[i] \in Values
         /\ \A i \in Ids : secrets[i] \in Values
<1>1. /\ \A a \in Actors : rows[a].config \in Config /\ shown[a] \in Config
      /\ \A i \in Ids : secrets[i] \in Values
  BY DEF TypeOK
<1>2. \A r \in Requests : request[r].config \in Config
  BY Fields
<1> QED
  BY <1>1, <1>2, Configs

LEMMA OwnedShown ==
  ASSUME TypeOK, Stores, Coherent, Owned, [Next]_vars
  PROVE  \A a \in Actors :
           /\ DOMAIN shown[a] \subseteq DOMAIN shown'[a]
           /\ \A i \in DOMAIN shown'[a] : author'[shown'[a][i]] = a
           /\ DOMAIN rows'[a].config \subseteq DOMAIN shown'[a]
<1>1. ASSUME NEW a \in Actors, NEW i \in DOMAIN shown[a]
      PROVE  author[shown[a][i]] = a /\ author'[shown[a][i]] = a
  <2>1. /\ i \in Ids /\ shown[a][i] \in Values /\ Said(i, shown[a][i])
        /\ author[shown[a][i]] = a
    BY ConfigValues, SaidNow DEF Owned
  <2> QED
    BY <2>1, AuthorKept
<1>2. CASE shown' = shown /\ \A a \in Actors :
             rows'[a].config = rows[a].config \/ rows'[a].config = Nothing
  BY <1>1, <1>2, Configs DEF Owned
<1>3. ASSUME NEW r \in Requests, WriteRow(r)
      PROVE  \A a \in Actors :
               /\ DOMAIN shown[a] \subseteq DOMAIN shown'[a]
               /\ \A i \in DOMAIN shown'[a] : author'[shown'[a][i]] = a
               /\ DOMAIN rows'[a].config \subseteq DOMAIN shown'[a]
  <2> TAKE a \in Actors
  <2>1. CASE rows'[a] = rows[a] /\ shown'[a] = shown[a]
    BY <1>1, <2>1 DEF Owned
  <2>2. CASE /\ a = request[r].of /\ request[r].op # "idle"
             /\ rows'[a].config = request[r].config
             /\ DOMAIN shown'[a] = DOMAIN shown[a] \cup DOMAIN request[r].config
             /\ \A i \in DOMAIN request[r].config : shown'[a][i] = request[r].config[i]
             /\ \A i \in DOMAIN shown[a] \ DOMAIN request[r].config :
                  shown'[a][i] = shown[a][i]
    <3>1. \A i \in DOMAIN request[r].config : author'[request[r].config[i]] = a
      <4> TAKE i \in DOMAIN request[r].config
      <4>1. /\ i \in Ids /\ request[r].config[i] \in Values /\ Said(i, request[r].config[i])
        BY ConfigValues, SaidNow
      <4>2. author[request[r].config[i]] = a
        BY <2>2, OwnsRequest DEF Owns
      <4> QED
        BY <4>1, <4>2, AuthorKept
    <3>2. \A i \in DOMAIN shown[a] : author'[shown[a][i]] = a
      BY <1>1
    <3> QED
      BY <2>2, <3>1, <3>2
  <2> QED
    BY <1>3, <2>1, <2>2, WriteRowEffect
<1> QED
  BY <1>2, <1>3, RowsStep

\* The step leaves every request as it is, ends it, or takes it further with the
\* configuration it has; or r begins.
Goes(r, p) ==
  \/ p.op = "idle"
  \/ /\ p.op = request[r].op /\ p.of = request[r].of /\ p.config = request[r].config
     /\ p.put \subseteq request[r].put /\ p.drop \subseteq request[r].drop

LEMMA ContinueGoes ==
  ASSUME TypeOK,
         \/ \E r \in Requests : Continue(r)
         \/ \E R \in SUBSET Requests : Cut(R)
         \/ DeleteWorkspace
         \/ UNCHANGED vars
  PROVE  \A p \in Requests : Goes(p, request'[p])
<1>0. \A p \in Requests : Goes(p, request[p]) /\ Goes(p, Idle)
  BY IdleFields DEF Goes
<1>1. ASSUME NEW r \in Requests, NEW q \in Request \cup {Idle}, Becomes(r, q), Goes(r, q)
      PROVE  \A p \in Requests : Goes(p, request'[p])
  BY <1>0, <1>1, BecomesTyped
<1>2. ASSUME NEW r \in Requests, Put(r)
      PROVE  \A p \in Requests : Goes(p, request'[p])
  <2>1. PICK i \in request[r].put, q \in Request :
          /\ secrets' = [secrets EXCEPT ![i] = request[r].config[i]]
          /\ Becomes(r, q) /\ request[r].op # "idle"
          /\ q.op = request[r].op /\ q.of = request[r].of /\ q.config = request[r].config
          /\ q.drop = request[r].drop /\ q.written = request[r].written
          /\ q.got = request[r].got /\ q.put = request[r].put \ {i}
    BY <1>2, PutEffect
  <2>2. Goes(r, q)
    BY <2>1 DEF Goes
  <2> QED
    BY <1>1, <2>1, <2>2
<1>3. ASSUME NEW r \in Requests, Drop(r)
      PROVE  \A p \in Requests : Goes(p, request'[p])
  <2>1. PICK i \in request[r].drop :
          \/ request[r].op = "delete" /\ request[r].drop = {i} /\ Becomes(r, Idle)
          \/ \E q \in Request :
               /\ Becomes(r, q)
               /\ q.op = request[r].op /\ q.of = request[r].of
               /\ q.config = request[r].config /\ q.put = request[r].put
               /\ q.written = request[r].written /\ q.got = request[r].got
               /\ q.drop = request[r].drop \ {i}
    BY <1>3, DropEffect
  <2> QED
    BY <1>0, <1>1, <2>1 DEF Goes
<1>4. ASSUME NEW r \in Requests, DeleteRow(r) \/ Fetch(r) \/ WriteRow(r)
      PROVE  \A p \in Requests : Goes(p, request'[p])
  <2>1. \/ Becomes(r, Idle)
        \/ \E q \in Request :
             /\ Becomes(r, q)
             /\ q.op = request[r].op /\ q.of = request[r].of
             /\ q.config = request[r].config /\ q.put = request[r].put
             /\ q.drop = request[r].drop
    BY <1>4, DeleteRowEffect, FetchEffect DEF WriteRow, Becomes
  <2> QED
    BY <1>0, <1>1, <2>1 DEF Goes
<1>5. CASE \E R \in SUBSET Requests : Cut(R)
  BY <1>0, <1>5 DEF Cut
<1>6. CASE UNCHANGED request
  BY <1>0, <1>6
<1> QED
  BY <1>2, <1>3, <1>4, <1>5, <1>6 DEF Continue, DeleteWorkspace, vars

OwnedRequest == \A p \in Requests : request[p].op # "idle" => Owns(request[p])

LEMMA OwnedRequests ==
  ASSUME TypeOK, Stores, Coherent, Owned, [Next]_vars
  PROVE  OwnedRequest'
<1>1. ASSUME NEW p \in Requests, request[p].op # "idle", NEW q,
             q.of = request[p].of, q.config = request[p].config,
             q.drop \subseteq request[p].drop
      PROVE  Owns(q)'
  <2>1. Owns(request[p]) /\ request[p].of \in Actors
    BY <1>1, Fields, OwnsRequest
  <2>2. \A i \in DOMAIN q.config : author'[q.config[i]] = q.of
    <3> TAKE i \in DOMAIN q.config
    <3>1. /\ i \in Ids /\ q.config[i] \in Values /\ Said(i, q.config[i])
      BY <1>1, ConfigValues, SaidNow
    <3>2. author[q.config[i]] = q.of
      BY <1>1, <2>1 DEF Owns
    <3> QED
      BY <3>1, <3>2, AuthorKept
  <2>3. q.drop \subseteq DOMAIN shown'[q.of]
    BY <1>1, <2>1, OwnedShown DEF Owns
  <2> QED
    BY <2>2, <2>3 DEF Owns
<1>2. ASSUME NEW r \in Requests, NEW q \in Request \cup {Idle}, Becomes(r, q),
             q.op = "idle" \/ Owns(q)'
      PROVE  OwnedRequest'
  <2> SUFFICES ASSUME NEW p \in Requests, request'[p].op # "idle"
               PROVE  Owns(request[p])'
    BY DEF OwnedRequest
  <2>1. CASE p = r
    <3>1. request'[p] = q
      BY <1>2, <2>1, BecomesTyped
    <3> QED
      BY <1>2, <3>1 DEF Owns
  <2>2. CASE p # r
    <3>1. request'[p] = request[p]
      BY <1>2, <2>2, BecomesTyped
    <3>2. PICK q0 : q0 = request[p]
      OBVIOUS
    <3>3. Owns(q0)'
      BY <1>1, <3>1, <3>2
    <3> QED
      BY <3>1, <3>2, <3>3 DEF Owns
  <2> QED
    BY <2>1, <2>2
<1>3. ASSUME NEW r \in Requests, NEW a \in Actors, Create(r, a)
      PROVE  OwnedRequest'
  <2>1. PICK S \in SUBSET Unused, q \in Request :
          /\ Seals(a, S) /\ Becomes(r, q) /\ q.of = a /\ q.drop = {} /\ DOMAIN q.config = S
          /\ \A i \in S : q.config[i] = Len(author) + 1
    BY <1>3, CreateEffect
  <2>2. S # {} => author'[Len(author) + 1] = a
    BY <2>1, SealEffect
  <2>3. Owns(q)'
    BY <2>1, <2>2 DEF Owns
  <2> QED
    BY <1>2, <2>1, <2>3
<1>4. ASSUME NEW r \in Requests, NEW a \in Actors, Update(r, a)
      PROVE  OwnedRequest'
  <2>1. PICK S \in SUBSET Unused, K \in SUBSET DOMAIN shown[a], q \in Request :
          Updates(r, a, S, K, q)
    BY <1>4, UpdateEffect
  <2>2. /\ Seals(a, S) /\ Becomes(r, q) /\ q.of = a
        /\ DOMAIN q.config = K \cup S
        /\ q.drop = DOMAIN rows[a].config \ DOMAIN q.config
        /\ \A i \in S : q.config[i] = Len(author) + 1
        /\ \A i \in K \ S : q.config[i] = shown[a][i]
    BY <2>1 DEF Updates
  <2>3. S # {} => author'[Len(author) + 1] = a
    BY <2>2, SealEffect
  <2>4. rows' = rows /\ shown' = shown
    BY <1>4 DEF Update
  <2>5. /\ \A i \in DOMAIN shown[a] : author'[shown[a][i]] = a
        /\ DOMAIN rows[a].config \subseteq DOMAIN shown[a]
    BY <2>4, OwnedShown
  <2>6. Owns(q)'
    <3>1. \A i \in DOMAIN q.config : author'[q.config[i]] = a
      BY <2>2, <2>3, <2>5
    <3>2. q.drop \subseteq DOMAIN shown'[a]
      BY <2>2, <2>4, <2>5
    <3> QED
      BY <2>2, <3>1, <3>2 DEF Owns
  <2> QED
    BY <1>2, <2>2, <2>6
<1>5. ASSUME NEW r \in Requests, NEW a \in Actors, Delete(r, a)
      PROVE  OwnedRequest'
  <2>1. PICK q \in Request :
          Becomes(r, q) /\ q.of = a /\ q.config = Nothing /\ q.drop = DOMAIN rows[a].config
    BY <1>5, DeleteEffect
  <2>2. rows' = rows /\ shown' = shown
    BY <1>5 DEF Delete
  <2>3. Owns(q)'
    BY <2>1, <2>2, OwnedShown, Configs DEF Owns
  <2> QED
    BY <1>2, <2>1, <2>3
<1>6. ASSUME NEW r \in Requests, NEW a \in Actors, Launch(r, a)
      PROVE  OwnedRequest'
  <2>1. PICK q \in Request :
          Becomes(r, q) /\ q.of = a /\ q.config = rows[a].config /\ q.drop = {}
    BY <1>6, LaunchEffect
  <2>2. rows' = rows /\ shown' = shown
    BY <1>6 DEF Launch
  <2>3. \A i \in DOMAIN rows[a].config : author'[rows[a].config[i]] = a
    <3> TAKE i \in DOMAIN rows[a].config
    <3>1. i \in DOMAIN shown[a] /\ author'[shown[a][i]] = a
      BY <2>2, OwnedShown
    <3>2. rows[a].config[i] = shown[a][i]
      <4>1. i \in Ids /\ rows[a].config[i] \in Values /\ shown[a][i] \in Values
        BY <3>1, ConfigValues
      <4>2. Said(i, rows[a].config[i]) /\ Said(i, shown[a][i])
        BY <3>1, SaidNow
      <4> QED
        BY <4>1, <4>2, Agree
    <3> QED
      BY <3>1, <3>2
  <2>4. Owns(q)'
    BY <2>1, <2>3 DEF Owns
  <2> QED
    BY <1>2, <2>1, <2>4
<1>7. ASSUME \/ \E r \in Requests : Continue(r)
             \/ \E R \in SUBSET Requests : Cut(R)
             \/ DeleteWorkspace
             \/ UNCHANGED vars
      PROVE  OwnedRequest'
  <2> SUFFICES ASSUME NEW p \in Requests, request'[p].op # "idle"
               PROVE  Owns(request[p])'
    BY DEF OwnedRequest
  <2>1. PICK q : q = request'[p]
    OBVIOUS
  <2>2. Goes(p, q)
    BY <1>7, <2>1, ContinueGoes
  <2>3. Owns(q)'
    BY <1>1, <2>1, <2>2 DEF Goes
  <2> QED
    BY <2>1, <2>3 DEF Owns
<1>8. \/ \E r \in Requests, a \in Actors : Create(r, a) \/ Update(r, a)
      \/ \E r \in Requests, a \in Actors : Delete(r, a) \/ Launch(r, a)
      \/ \E r \in Requests : Continue(r)
      \/ \E R \in SUBSET Requests : Cut(R)
      \/ DeleteWorkspace
      \/ UNCHANGED vars
  BY DEF Next, Begin, Fails, Crash
<1> QED
  BY <1>3, <1>4, <1>5, <1>6, <1>7, <1>8

LEMMA OwnedStep ==
  ASSUME TypeOK, Stores, Coherent, Owned, [Next]_vars
  PROVE  Owned'
<1>1. OwnedRequest'
  BY OwnedRequests
<1>2. \A a \in Actors :
        /\ \A i \in DOMAIN shown'[a] : author'[shown'[a][i]] = a
        /\ DOMAIN rows'[a].config \subseteq DOMAIN shown'[a]
  BY OwnedShown
<1> QED
  BY <1>1, <1>2 DEF Owned, OwnedRequest, Owns

\* Nothing brings a deleted actor back.
LEMMA DeletedStays ==
  ASSUME TypeOK, [Next]_vars, NEW a \in Actors, rows[a].status = "deleted"
  PROVE  rows'[a].status = "deleted"
<1>1. CASE \E r \in Requests : WriteRow(r)
  <2>1. rows'[a] = rows[a]
    BY <1>1, WriteRowEffect
  <2> QED
    BY <2>1
<1>2. ASSUME NEW r \in Requests, NEW b \in Actors, Create(r, b)
      PROVE  rows'[a].status = "deleted"
  BY <1>2 DEF Create, TypeOK
<1>3. CASE DeleteWorkspace \/ \E r \in Requests : DeleteRow(r)
  BY <1>3 DEF DeleteWorkspace, DeleteRow, TypeOK
<1>4. \/ \E r \in Requests : WriteRow(r)
      \/ \E r \in Requests, b \in Actors : Create(r, b)
      \/ UNCHANGED rows
      \/ DeleteWorkspace \/ \E r \in Requests : DeleteRow(r)
  BY DEF Next, Begin, Continue, Update, Delete, Launch, Put, Drop, Fetch, Fails, Crash, Cut, vars
<1> QED
  BY <1>1, <1>2, <1>3, <1>4

WellShaped == \A r \in Requests : Shaped(request[r])

\* What holds of a request does not depend on the step others take.
LEMMA ShapedKept ==
  ASSUME TypeOK, WellShaped, [Next]_vars, NEW r \in Requests,
         NEW q \in Request \cup {Idle}, Becomes(r, q),
         q.put \subseteq DOMAIN q.config,
         q.drop \cap DOMAIN q.config = {},
         q.op \notin {"create", "update"} => q.put = {},
         q.op \notin {"update", "delete"} => q.drop = {},
         DOMAIN q.got \subseteq DOMAIN q.config,
         \A i \in DOMAIN q.got : q.got[i] = q.config[i],
         q.written => q.op = "delete" /\ rows'[q.of].status = "deleted"
  PROVE  WellShaped'
<1> SUFFICES ASSUME NEW p \in Requests PROVE Shaped(request[p])'
  BY DEF WellShaped
<1>1. CASE p = r
  <2>1. request'[p] = q
    BY <1>1, BecomesTyped
  <2> QED
    BY <2>1 DEF Shaped
<1>2. CASE p # r
  <2>1. request'[p] = request[p]
    BY <1>2, BecomesTyped
  <2>2. request[p].written => request[p].op = "delete" /\ rows'[request[p].of].status = "deleted"
    <3>1. request[p].written => request[p].op = "delete" /\ rows[request[p].of].status = "deleted"
      BY DEF WellShaped, Shaped
    <3> QED
      BY <3>1, Fields, DeletedStays
  <2>3. Shaped(request[p])
    BY DEF WellShaped
  <2> QED
    BY <2>1, <2>2, <2>3 DEF Shaped
<1> QED
  BY <1>1, <1>2

LEMMA ShapedStep ==
  ASSUME TypeOK, Coherent, WellShaped, [Next]_vars
  PROVE  WellShaped'
<1>1. \A r \in Requests : Shaped(request[r])
  BY DEF WellShaped
<1>2. ASSUME NEW r \in Requests, Becomes(r, Idle)
      PROVE  WellShaped'
  BY <1>2, IdleFields, Configs, ShapedKept
<1>3. ASSUME NEW r \in Requests, NEW a \in Actors, Create(r, a)
      PROVE  WellShaped'
  <2>1. PICK S \in SUBSET Unused, q \in Request :
          /\ Seals(a, S) /\ Becomes(r, q)
          /\ q.op = "create" /\ q.of = a /\ q.put = S /\ q.drop = {} /\ ~q.written
          /\ q.got = Nothing /\ DOMAIN q.config = S
    BY <1>3, CreateEffect
  <2> QED
    BY <2>1, ShapedKept, Configs
<1>4. ASSUME NEW r \in Requests, NEW a \in Actors, Update(r, a)
      PROVE  WellShaped'
  <2>1. PICK S \in SUBSET Unused, K \in SUBSET DOMAIN shown[a], q \in Request :
          Updates(r, a, S, K, q)
    BY <1>4, UpdateEffect
  <2>2. /\ Becomes(r, q)
        /\ q.op = "update" /\ q.of = a /\ q.put = S /\ ~q.written
        /\ q.got = Nothing /\ DOMAIN q.config = K \cup S
        /\ q.drop = DOMAIN rows[a].config \ DOMAIN q.config
    BY <2>1 DEF Updates
  <2> QED
    BY <2>2, ShapedKept, Configs
<1>5. ASSUME NEW r \in Requests, NEW a \in Actors, Delete(r, a)
      PROVE  WellShaped'
  <2>1. PICK q \in Request :
          /\ Becomes(r, q)
          /\ q.op = "delete" /\ q.of = a /\ q.put = {} /\ ~q.written
          /\ q.got = Nothing /\ q.config = Nothing /\ q.drop = DOMAIN rows[a].config
    BY <1>5, DeleteEffect
  <2> QED
    BY <2>1, ShapedKept, Configs
<1>6. ASSUME NEW r \in Requests, NEW a \in Actors, Launch(r, a)
      PROVE  WellShaped'
  <2>1. PICK q \in Request :
          /\ Becomes(r, q)
          /\ q.op = "hydrate" /\ q.of = a /\ q.put = {} /\ ~q.written
          /\ q.got = Nothing /\ q.config = rows[a].config /\ q.drop = {}
    BY <1>6, LaunchEffect
  <2> QED
    BY <2>1, ShapedKept, Configs
<1>7. ASSUME NEW r \in Requests, Put(r)
      PROVE  WellShaped'
  <2>1. PICK i \in request[r].put, q \in Request :
          /\ secrets' = [secrets EXCEPT ![i] = request[r].config[i]]
          /\ Becomes(r, q) /\ request[r].op # "idle"
          /\ q.op = request[r].op /\ q.of = request[r].of /\ q.config = request[r].config
          /\ q.drop = request[r].drop /\ q.written = request[r].written
          /\ q.got = request[r].got /\ q.put = request[r].put \ {i}
    BY <1>7, PutEffect
  <2>2. Shaped(request[r]) /\ rows' = rows
    BY <1>1, <1>7 DEF Put
  <2> QED
    BY <2>1, <2>2, ShapedKept DEF Shaped
<1>8. ASSUME NEW r \in Requests, Drop(r)
      PROVE  WellShaped'
  <2>1. PICK i \in request[r].drop :
          \/ request[r].op = "delete" /\ request[r].drop = {i} /\ Becomes(r, Idle)
          \/ \E q \in Request :
               /\ Becomes(r, q)
               /\ q.op = request[r].op /\ q.of = request[r].of
               /\ q.config = request[r].config /\ q.put = request[r].put
               /\ q.written = request[r].written /\ q.got = request[r].got
               /\ q.drop = request[r].drop \ {i}
    BY <1>8, DropEffect
  <2>2. Shaped(request[r]) /\ rows' = rows
    BY <1>1, <1>8 DEF Drop
  <2>3. ASSUME NEW q \in Request, Becomes(r, q),
               q.op = request[r].op /\ q.of = request[r].of,
               q.config = request[r].config /\ q.put = request[r].put,
               q.written = request[r].written /\ q.got = request[r].got,
               q.drop = request[r].drop \ {i}
        PROVE  WellShaped'
    BY <2>2, <2>3, ShapedKept DEF Shaped
  <2> QED
    BY <1>2, <2>1, <2>3
<1>9. ASSUME NEW r \in Requests, DeleteRow(r)
      PROVE  WellShaped'
  <2>1. CASE Becomes(r, Idle)
    BY <1>2, <2>1
  <2>2. CASE ~Becomes(r, Idle)
    <3>1. /\ request[r].of \in Actors /\ request[r].op = "delete"
          /\ rows[request[r].of].status = "live"
      BY <1>9, <2>2, DeleteRowEffect
    <3>2. PICK q \in Request :
            /\ Becomes(r, q)
            /\ q.op = request[r].op /\ q.of = request[r].of
            /\ q.config = request[r].config /\ q.put = request[r].put
            /\ q.written /\ q.got = request[r].got /\ q.drop = request[r].drop
      BY <1>9, <2>2, DeleteRowEffect
    <3>3. rows'[request[r].of].status = "deleted"
      <4> DEFINE a == request[r].of
      <4>1. rows' = [rows EXCEPT ![a] = [status |-> "deleted", config |-> Nothing]]
        BY <1>9, <3>1 DEF DeleteRow
      <4> QED
        BY <3>1, <4>1 DEF TypeOK
    <3>4. Shaped(request[r])
      BY <1>1
    <3> QED
      BY <3>1, <3>2, <3>3, <3>4, ShapedKept DEF Shaped
  <2> QED
    BY <2>1, <2>2
<1>10. ASSUME NEW r \in Requests, Fetch(r)
       PROVE  WellShaped'
  <2>1. CASE Becomes(r, Idle)
    BY <1>2, <2>1
  <2>2. CASE ~Becomes(r, Idle)
    <3>1. PICK i \in DOMAIN request[r].config, q \in Request :
            /\ secrets[i] # 0 /\ Becomes(r, q)
            /\ q.op = request[r].op /\ q.of = request[r].of
            /\ q.config = request[r].config /\ q.put = request[r].put
            /\ q.written = request[r].written /\ q.drop = request[r].drop
            /\ DOMAIN q.got = DOMAIN request[r].got \cup {i}
            /\ q.got[i] = secrets[i]
            /\ \A j \in DOMAIN request[r].got \ {i} : q.got[j] = request[r].got[j]
      BY <1>10, <2>2, FetchEffect
    <3>2. secrets[i] = request[r].config[i]
      <4>1. i \in Ids /\ secrets[i] \in Values /\ request[r].config[i] \in Values
        BY ConfigValues
      <4>2. Said(i, secrets[i]) /\ Said(i, request[r].config[i])
        BY <3>1, <4>1, SaidNow
      <4> QED
        BY <4>1, <4>2, Agree
    <3>3. Shaped(request[r]) /\ rows' = rows
      BY <1>1, <1>10 DEF Fetch
    <3>4. \A j \in DOMAIN q.got : q.got[j] = q.config[j]
      BY <3>1, <3>2, <3>3 DEF Shaped
    <3> QED
      BY <3>1, <3>3, <3>4, ShapedKept DEF Shaped
  <2> QED
    BY <2>1, <2>2
<1>11. ASSUME NEW r \in Requests, WriteRow(r)
       PROVE  WellShaped'
  BY <1>2, <1>11 DEF WriteRow, Becomes
<1>12. CASE \/ \E R \in SUBSET Requests : Cut(R)
            \/ DeleteWorkspace
            \/ UNCHANGED vars
  <2> SUFFICES ASSUME NEW p \in Requests PROVE Shaped(request[p])'
    BY DEF WellShaped
  <2>1. request'[p] = Idle \/ request'[p] = request[p]
    BY <1>12 DEF Cut, DeleteWorkspace, vars
  <2>2. CASE request'[p] = Idle
    BY <2>2, IdleFields, Configs DEF Shaped
  <2>3. CASE request'[p] = request[p]
    <3>1. request[p].written =>
            request[p].op = "delete" /\ rows'[request[p].of].status = "deleted"
      <4>1. request[p].written =>
              request[p].op = "delete" /\ rows[request[p].of].status = "deleted"
        BY <1>1 DEF Shaped
      <4> QED
        BY <4>1, Fields, DeletedStays
    <3> QED
      BY <1>1, <2>3, <3>1 DEF Shaped
  <2> QED
    BY <2>1, <2>2, <2>3
<1>13. \/ \E r \in Requests, a \in Actors :
             Create(r, a) \/ Update(r, a) \/ Delete(r, a) \/ Launch(r, a)
       \/ \E r \in Requests : Continue(r)
       \/ \E R \in SUBSET Requests : Cut(R)
       \/ DeleteWorkspace
       \/ UNCHANGED vars
  BY DEF Next, Begin, Fails, Crash
<1> QED
  BY <1>3, <1>4, <1>5, <1>6, <1>7, <1>8, <1>9, <1>10, <1>11, <1>12, <1>13 DEF Continue

\* What is known of ids, values and actors, whatever happens.
LEMMA BoundStep == TypeOK /\ Bound /\ [Next]_vars => (TypeOK /\ Bound)'
<1> SUFFICES ASSUME TypeOK, Bound, [Next]_vars PROVE (TypeOK /\ Bound)'
  OBVIOUS
<1>1. Coherent /\ WellShaped /\ Owned /\ Stores
  BY DEF Bound, WellShaped, Stores, Shaped
<1>2. TypeOK' /\ Coherent' /\ Owned' /\ WellShaped'
  BY <1>1, StepTypeOK, CoherentStep, OwnedStep, ShapedStep
<1> QED
  BY <1>2 DEF Bound, WellShaped

LEMMA InitBound == Init => TypeOK /\ Bound
<1> SUFFICES ASSUME Init PROVE TypeOK /\ Bound
  OBVIOUS
<1>1. TypeOK
  BY InitTypeOK
<1>2. /\ \A a \in Actors : DOMAIN rows[a].config = {} /\ DOMAIN shown[a] = {}
      /\ \A r \in Requests : request[r] = Idle /\ DOMAIN request[r].config = {}
      /\ \A i \in Ids : secrets[i] = 0
  BY IdleFields, Configs DEF Init
<1>3. Coherent
  BY <1>2 DEF Coherent, Said
<1>4. \A r \in Requests : Shaped(request[r])
  BY <1>2, IdleFields, Configs DEF Shaped
<1>5. Owned
  BY <1>2, IdleFields DEF Owned
<1> QED
  BY <1>1, <1>3, <1>4, <1>5 DEF Bound

\* A connector is launched with the values sealed for the very configuration its
\* launch read, for any interleaving of fetches, updates and deletes: an id is
\* given one value, once.
THEOREM Hydrated == Spec => []HydratedAsStored
<1>1. TypeOK /\ Bound => HydratedAsStored
  BY DEF Bound, Shaped, HydratedAsStored
<1> QED
  BY <1>1, InitBound, BoundStep, PTL DEF Spec

-----------------------------------------------------------------------------
(* Handlers of an actor that follow one another. *)

\* The row of an actor in a step that writes none: it goes, or is begun.
LEMMA StatusStep ==
  ASSUME TypeOK, [Next]_vars, NEW a \in Actors
  PROVE  \/ rows'[a] = rows[a]
         \/ /\ rows[a].status = "none" /\ rows'[a].status = "creating"
            /\ rows'[a].config = rows[a].config
         \/ rows'[a].status = "live" /\ \E r \in Requests : WriteRow(r)
         \/ rows'[a].status = "deleted" /\ DOMAIN rows'[a].config = {}
<1>1. ASSUME NEW r \in Requests, WriteRow(r)
      PROVE  rows'[a] = rows[a] \/ (rows'[a].status = "live" /\ \E p \in Requests : WriteRow(p))
  <2>1. rows'[a] = rows[a] \/ rows'[a].status = "live"
    BY <1>1, WriteRowEffect
  <2> QED
    BY <1>1, <2>1
<1>2. ASSUME NEW r \in Requests, NEW b \in Actors, Create(r, b)
      PROVE  \/ rows'[a] = rows[a]
             \/ /\ rows[a].status = "none" /\ rows'[a].status = "creating"
                /\ rows'[a].config = rows[a].config
  BY <1>2 DEF Create, TypeOK
<1>3. CASE DeleteWorkspace \/ \E r \in Requests : DeleteRow(r)
  <2>1. rows'[a] = rows[a] \/ rows'[a] = [status |-> "deleted", config |-> Nothing]
    BY <1>3 DEF DeleteWorkspace, DeleteRow, TypeOK
  <2> QED
    BY <2>1, Configs
<1>4. \/ \E r \in Requests : WriteRow(r)
      \/ \E r \in Requests, b \in Actors : Create(r, b)
      \/ UNCHANGED rows
      \/ DeleteWorkspace \/ \E r \in Requests : DeleteRow(r)
  BY DEF Next, Begin, Continue, Update, Delete, Launch, Put, Drop, Fetch, Fails, Crash, Cut, vars
<1> QED
  BY <1>1, <1>2, <1>3, <1>4

\* A request is the one it was, or r begins.
LEMMA RequestStep ==
  ASSUME TypeOK, [Next]_vars
  PROVE  \/ \A p \in Requests : Goes(p, request'[p])
         \/ \E r \in Requests, a \in Actors :
              /\ request[r] = Idle /\ \A p \in Requests : p # r => request'[p] = request[p]
              /\ Create(r, a) \/ Update(r, a) \/ Delete(r, a) \/ Launch(r, a)
<1>1. ASSUME NEW r \in Requests, NEW a \in Actors,
             Create(r, a) \/ Update(r, a) \/ Delete(r, a) \/ Launch(r, a)
      PROVE  /\ request[r] = Idle /\ \A p \in Requests : p # r => request'[p] = request[p]
  <2>1. request[r] = Idle /\ \E q \in Request : Becomes(r, q)
    BY <1>1, CreateEffect, UpdateEffect, DeleteEffect, LaunchEffect DEF Updates
  <2> QED
    BY <2>1, BecomesTyped
<1>2. \/ \E r \in Requests, a \in Actors :
           Create(r, a) \/ Update(r, a) \/ Delete(r, a) \/ Launch(r, a)
      \/ \E r \in Requests : Continue(r)
      \/ \E R \in SUBSET Requests : Cut(R)
      \/ DeleteWorkspace
      \/ UNCHANGED vars
  BY DEF Next, Begin, Fails, Crash
<1> QED
  BY <1>1, <1>2, ContinueGoes

\* Whose request a step begins.
LEMMA BeginsFor ==
  ASSUME TypeOK, NEW r \in Requests, NEW a \in Actors,
         Create(r, a) \/ Update(r, a) \/ Delete(r, a) \/ Launch(r, a)
  PROVE  /\ request'[r].of = a
         /\ request'[r].op = IF Create(r, a) THEN "create" ELSE IF Update(r, a) THEN "update"
                             ELSE IF Delete(r, a) THEN "delete" ELSE "hydrate"
<1>1. CASE Create(r, a)
  <2>1. PICK S \in SUBSET Unused, q \in Request :
          Seals(a, S) /\ Becomes(r, q) /\ q.op = "create" /\ q.of = a
    BY <1>1, CreateEffect
  <2>2. request'[r] = q
    BY <2>1, BecomesTyped
  <2> QED
    BY <1>1, <2>1, <2>2
<1>2. CASE ~Create(r, a) /\ Update(r, a)
  <2>1. PICK S \in SUBSET Unused, K \in SUBSET DOMAIN shown[a], q \in Request :
          Updates(r, a, S, K, q)
    BY <1>2, UpdateEffect
  <2>2. request'[r] = q /\ q.op = "update" /\ q.of = a
    BY <2>1, BecomesTyped DEF Updates
  <2> QED
    BY <1>2, <2>2
<1>3. CASE ~Create(r, a) /\ ~Update(r, a) /\ Delete(r, a)
  <2>1. PICK q \in Request : Becomes(r, q) /\ q.op = "delete" /\ q.of = a
    BY <1>3, DeleteEffect
  <2>2. request'[r] = q
    BY <2>1, BecomesTyped
  <2> QED
    BY <1>3, <2>1, <2>2
<1>4. CASE ~Create(r, a) /\ ~Update(r, a) /\ ~Delete(r, a) /\ Launch(r, a)
  <2>1. PICK q \in Request : Becomes(r, q) /\ q.op = "hydrate" /\ q.of = a
    BY <1>4, LaunchEffect
  <2>2. request'[r] = q
    BY <2>1, BecomesTyped
  <2> QED
    BY <1>4, <2>1, <2>2
<1> QED
  BY <1>1, <1>2, <1>3, <1>4

LEMMA BegunStep == TypeOK /\ Begun /\ [Next]_vars => Begun'
<1> SUFFICES ASSUME TypeOK, Begun, [Next]_vars PROVE Begun'
  OBVIOUS
<1>1. \A a \in Actors : rows'[a].status # "live" => DOMAIN rows'[a].config = {}
  BY StatusStep DEF Begun
<1>2. \A a \in Actors : rows'[a].status = "none" => rows[a].status = "none"
  BY StatusStep
<1>3. ASSUME NEW p \in Requests, request'[p].op \in Writers
      PROVE  rows'[request'[p].of].status # "none"
  <2>1. CASE Goes(p, request'[p])
    <3>1. /\ request'[p].of = request[p].of /\ request[p].op \in Writers
          /\ request[p].of \in Actors
      BY <1>3, <2>1, Fields DEF Goes, Writers
    <3> QED
      BY <1>2, <3>1 DEF Begun
  <2>2. ASSUME NEW a \in Actors,
               Create(p, a) \/ Update(p, a) \/ Delete(p, a) \/ Launch(p, a)
        PROVE  rows'[request'[p].of].status # "none"
    <3>1. request'[p].of = a
      BY <2>2, BeginsFor
    <3>2. CASE Create(p, a)
      BY <3>1, <3>2 DEF Create, TypeOK
    <3>3. CASE Update(p, a) \/ Delete(p, a) \/ Launch(p, a)
      BY <3>1, <3>3 DEF Update, Delete, Launch
    <3> QED
      BY <2>2, <3>2, <3>3
  <2>3. CASE request'[p] = request[p]
    BY <2>1, <2>3 DEF Goes
  <2> QED
    BY <2>1, <2>2, <2>3, RequestStep
<1> QED
  BY <1>1, <1>3 DEF Begun

\* No cause of disturbance is forgotten.
LEMMA CausesGrow ==
  ASSUME TypeOK, [Next]_vars, NEW a \in Actors
  PROVE  causes[a] \subseteq causes'[a]
<1>1. ASSUME NEW r \in Requests, NEW b \in Actors, Update(r, b) \/ Delete(r, b)
      PROVE  causes[a] \subseteq causes'[a]
  <2>1. \E C : Disturbed(b, C)
    BY <1>1, DeleteEffect, UpdateEffect DEF Delete, Updates
  <2> QED
    BY <2>1 DEF Disturbed, TypeOK
<1>2. CASE DeleteWorkspace \/ \E R \in SUBSET Requests : Cut(R)
  BY <1>2 DEF DeleteWorkspace, Cut, TypeOK
<1>3. \/ \E r \in Requests, b \in Actors : Update(r, b) \/ Delete(r, b)
      \/ DeleteWorkspace
      \/ \E R \in SUBSET Requests : Cut(R)
      \/ UNCHANGED causes
  BY DEF Next, Begin, Continue, Create, Launch, Put, Drop, WriteRow, DeleteRow, Fetch, Fails,
         Crash, vars
<1> QED
  BY <1>1, <1>2, <1>3

\* A handler that begins while another is at work is recorded.
LEMMA BeginsAlone ==
  ASSUME TypeOK, Begun, NEW r \in Requests, NEW a \in Actors,
         Create(r, a) \/ Update(r, a) \/ Delete(r, a),
         "overlap" \notin causes'[a]
  PROVE  ~Writing(a)
<1>1. CASE Create(r, a)
  BY <1>1 DEF Create, Writing, Begun
<1>2. CASE Update(r, a)
  <2>1. \E D : Disturbed(a, (IF Writing(a) THEN {"overlap"} ELSE {}) \cup D)
    BY <1>2, UpdateEffect DEF Updates
  <2> QED
    BY <2>1 DEF Disturbed, TypeOK
<1>3. CASE Delete(r, a)
  <2>1. Disturbed(a, IF Writing(a) THEN {"overlap"} ELSE {})
    BY <1>3 DEF Delete
  <2> QED
    BY <2>1 DEF Disturbed, TypeOK
<1> QED
  BY <1>1, <1>2, <1>3

LEMMA OneWriterStep == TypeOK /\ Begun /\ OneWriter /\ [Next]_vars => OneWriter'
<1> SUFFICES ASSUME TypeOK, Begun, OneWriter, [Next]_vars,
                    NEW a \in Actors, "overlap" \notin causes'[a],
                    NEW r \in Requests, NEW p \in Requests,
                    request'[r].op \in Writers, request'[r].of = a,
                    request'[p].op \in Writers, request'[p].of = a
             PROVE  r = p
  BY DEF OneWriter
<1>0. "overlap" \notin causes[a]
  BY CausesGrow
<1>1. ASSUME NEW x \in Requests, request'[x].op \in Writers, request'[x].of = a,
             Goes(x, request'[x])
      PROVE  request[x].op \in Writers /\ request[x].of = a
  BY <1>1 DEF Goes, Writers
<1>2. CASE \A x \in Requests : Goes(x, request'[x])
  BY <1>0, <1>1, <1>2 DEF OneWriter
<1>3. ASSUME NEW x \in Requests, NEW b \in Actors, request[x] = Idle,
             \A y \in Requests : y # x => request'[y] = request[y],
             Create(x, b) \/ Update(x, b) \/ Delete(x, b) \/ Launch(x, b)
      PROVE  r = p
  <2>1. \A y \in Requests : y # x /\ request'[y].op \in Writers /\ request'[y].of = a
                              => request[y].op \in Writers /\ request[y].of = a
    BY <1>3
  <2>2. CASE request'[x].op \in Writers /\ request'[x].of = a
    <3>1. b = a /\ (Create(x, b) \/ Update(x, b) \/ Delete(x, b))
      BY <1>3, <2>2, BeginsFor DEF Writers
    <3>2. ~Writing(a)
      BY <3>1, BeginsAlone
    <3> QED
      BY <2>1, <3>2 DEF Writing
  <2>3. CASE ~(request'[x].op \in Writers /\ request'[x].of = a)
    BY <1>0, <2>1, <2>3 DEF OneWriter
  <2> QED
    BY <2>2, <2>3
<1> QED
  BY <1>2, <1>3, RequestStep

-----------------------------------------------------------------------------
(* The references of a row have their secrets. *)

\* Actors share no id.
LEMMA Disjoint ==
  ASSUME TypeOK, Bound, NEW r \in Requests, NEW i \in Ids, request[r].op # "idle",
         i \in request[r].drop \cup DOMAIN request[r].config
  PROVE  /\ \A a \in Actors : i \in DOMAIN rows[a].config => a = request[r].of
         /\ \A p \in Requests :
              request[p].op # "idle" /\ i \in DOMAIN request[p].config
                => request[p].of = request[r].of
<1> DEFINE b == request[r].of
<1>0. b \in Actors /\ Coherent /\ Owned
  BY Fields DEF Bound
<1>1. PICK v \in Values : Said(i, v) /\ author[v] = b
  <2>1. CASE i \in DOMAIN request[r].config
    BY <1>0, <2>1, ConfigValues, SaidNow DEF Owned
  <2>2. CASE i \in request[r].drop
    <3>1. i \in DOMAIN shown[b] /\ author[shown[b][i]] = b
      BY <1>0, <2>2 DEF Owned
    <3> QED
      BY <1>0, <3>1, ConfigValues, SaidNow
  <2> QED
    BY <2>1, <2>2
<1>2. ASSUME NEW a \in Actors, i \in DOMAIN rows[a].config
      PROVE  a = b
  <2>1. i \in DOMAIN shown[a] /\ author[shown[a][i]] = a
    BY <1>0, <1>2 DEF Owned
  <2>2. shown[a][i] \in Values /\ Said(i, shown[a][i])
    BY <2>1, ConfigValues, SaidNow
  <2>3. shown[a][i] = v
    BY <1>0, <1>1, <2>2, Agree
  <2> QED
    BY <1>1, <2>1, <2>3
<1>3. ASSUME NEW p \in Requests, request[p].op # "idle", i \in DOMAIN request[p].config
      PROVE  request[p].of = b
  <2>1. author[request[p].config[i]] = request[p].of
    BY <1>0, <1>3, Fields DEF Owned
  <2>2. request[p].config[i] \in Values /\ Said(i, request[p].config[i])
    BY <1>3, ConfigValues, SaidNow
  <2>3. request[p].config[i] = v
    BY <1>0, <1>1, <2>2, Agree
  <2> QED
    BY <1>1, <2>1, <2>3
<1> QED
  BY <1>2, <1>3

\* Two handlers of an actor whose handlers never overlapped are one.
LEMMA OneOf ==
  ASSUME OneWriter, NEW r \in Requests, NEW p \in Requests, request[r].of \in Actors,
         "overlap" \notin causes[request[r].of], request[p].of = request[r].of,
         request[r].op \in Writers, request[p].op \in Writers
  PROVE  r = p
BY DEF OneWriter

RowResolves(a) ==
  rows[a].status = "live" =>
    \A i \in DOMAIN rows[a].config :
      secrets[i] # 0 \/ \E r \in Requests : Deleted(r, a, i)

ConfigResolves(r) ==
  request[r].op \in {"create", "update"} =>
    \A i \in DOMAIN request[r].config \ request[r].put : secrets[i] # 0

LEMMA Resolves ==
  TypeOK => (ResolveInv <=>
    \A a \in Actors : Undisturbed(a) =>
      RowResolves(a) /\ \A r \in Requests : request[r].of = a => ConfigResolves(r))
BY DEF ResolveInv, RowResolves, ConfigResolves

\* The secrets are what they were, and so is what the actor's handlers delete.
LEMMA RowResolvesKept ==
  ASSUME TypeOK, NEW a \in Actors, RowResolves(a), secrets' = secrets, rows'[a] = rows[a],
         \A r \in Requests : \A i : Deleted(r, a, i) => request'[r] = request[r]
  PROVE  RowResolves(a)'
BY DEF RowResolves, Deleted

LEMMA RowResolvesGone ==
  ASSUME NEW a \in Actors, rows'[a].status # "live"
  PROVE  RowResolves(a)'
BY DEF RowResolves

LEMMA ConfigResolvesKept ==
  ASSUME TypeOK, NEW r \in Requests, ConfigResolves(r), secrets' = secrets,
         request'[r] = request[r] \/ request'[r].op \notin {"create", "update"}
  PROVE  ConfigResolves(r)'
BY DEF ConfigResolves

LEMMA BeginResolves ==
  ASSUME TypeOK, ResolveInv, Begun, NEW r \in Requests, NEW b \in Actors,
         Create(r, b) \/ Update(r, b) \/ Delete(r, b) \/ Launch(r, b),
         NEW a \in Actors, Undisturbed(a)'
  PROVE  /\ RowResolves(a)'
         /\ \A p \in Requests : request'[p].of = a => ConfigResolves(p)'
<1>1. /\ request[r] = Idle /\ secrets' = secrets
      /\ \A p \in Requests : p # r => request'[p] = request[p]
  <2>1. request[r] = Idle /\ \E q \in Request : Becomes(r, q)
    BY CreateEffect, UpdateEffect, DeleteEffect, LaunchEffect DEF Updates
  <2>2. secrets' = secrets
    BY DEF Create, Update, Delete, Launch
  <2> QED
    BY <2>1, <2>2, BecomesTyped
<1>2. Undisturbed(a)
  <2>1. [Next]_vars
    BY DEF Next, Begin
  <2> QED
    BY <2>1, CausesGrow DEF Undisturbed
<1>3. RowResolves(a) /\ \A p \in Requests : request[p].of = a => ConfigResolves(p)
  BY <1>2, Resolves
<1>4. RowResolves(a)'
  <2>1. \A p \in Requests : \A i : Deleted(p, a, i) => request'[p] = request[p]
    BY <1>1, IdleFields DEF Deleted
  <2>2. rows'[a] = rows[a] \/ rows'[a].status # "live"
    BY DEF Create, Update, Delete, Launch, TypeOK
  <2> QED
    BY <1>1, <1>3, <2>1, <2>2, RowResolvesKept, RowResolvesGone
<1>5. ASSUME NEW p \in Requests, request'[p].of = a, p # r
      PROVE  ConfigResolves(p)'
  BY <1>1, <1>3, <1>5, ConfigResolvesKept
<1>6. ASSUME request'[r].of = a
      PROVE  ConfigResolves(r)'
  <2>0. a = b
    BY <1>6, BeginsFor
  <2>1. CASE Create(r, b)
    <3>1. PICK S \in SUBSET Unused, q \in Request :
            /\ Seals(b, S) /\ Becomes(r, q)
            /\ q.op = "create" /\ q.of = b /\ q.put = S /\ q.drop = {} /\ ~q.written
            /\ q.got = Nothing /\ DOMAIN q.config = S
      BY <2>1, CreateEffect
    <3>2. request'[r] = q
      BY <3>1, BecomesTyped
    <3> QED
      BY <3>1, <3>2 DEF ConfigResolves
  <2>2. CASE Update(r, b)
    <3>1. PICK S \in SUBSET Unused, K \in SUBSET DOMAIN shown[b], q \in Request :
            Updates(r, b, S, K, q)
      BY <2>2, UpdateEffect
    <3>2. /\ Becomes(r, q) /\ q.put = S /\ DOMAIN q.config = K \cup S
          /\ Disturbed(b, (IF Writing(b) THEN {"overlap"} ELSE {}) \cup
                          (IF K \subseteq DOMAIN rows[b].config THEN {} ELSE {"stale"}))
      BY <3>1 DEF Updates
    <3>3. request'[r] = q
      BY <3>2, BecomesTyped
    <3>4. ~Writing(b) /\ K \subseteq DOMAIN rows[b].config
      BY <2>0, <3>2 DEF Disturbed, Undisturbed, TypeOK
    <3>5. rows[b].status = "live"
      BY <2>2 DEF Update
    <3>6. \A i \in DOMAIN rows[b].config : secrets[i] # 0
      BY <1>3, <2>0, <3>4, <3>5 DEF RowResolves, Deleted, Writing, Writers
    <3> QED
      BY <1>1, <3>2, <3>3, <3>4, <3>6 DEF ConfigResolves
  <2>3. CASE Delete(r, b)
    <3>1. PICK q \in Request : Becomes(r, q) /\ q.op = "delete"
      BY <2>3, DeleteEffect
    <3> QED
      BY <3>1, BecomesTyped DEF ConfigResolves
  <2>4. CASE Launch(r, b)
    <3>1. PICK q \in Request : Becomes(r, q) /\ q.op = "hydrate"
      BY <2>4, LaunchEffect
    <3> QED
      BY <3>1, BecomesTyped DEF ConfigResolves
  <2> QED
    BY <2>1, <2>2, <2>3, <2>4
<1> QED
  BY <1>4, <1>5, <1>6

LEMMA PutResolves ==
  ASSUME TypeOK, Bound, ResolveInv, NEW r \in Requests, Put(r),
         NEW a \in Actors, Undisturbed(a)'
  PROVE  /\ RowResolves(a)'
         /\ \A p \in Requests : request'[p].of = a => ConfigResolves(p)'
<1>1. PICK i \in request[r].put, q \in Request :
        /\ secrets' = [secrets EXCEPT ![i] = request[r].config[i]]
        /\ Becomes(r, q) /\ request[r].op # "idle"
        /\ q.op = request[r].op /\ q.of = request[r].of /\ q.config = request[r].config
        /\ q.drop = request[r].drop /\ q.written = request[r].written
        /\ q.got = request[r].got /\ q.put = request[r].put \ {i}
  BY PutEffect
<1>2. rows' = rows /\ causes' = causes
  BY DEF Put
<1>3. RowResolves(a) /\ \A p \in Requests : request[p].of = a => ConfigResolves(p)
  BY <1>2, Resolves DEF Undisturbed
<1>4. i \in Ids /\ i \in DOMAIN request[r].config /\ request[r].config[i] \in Values \ {0}
  BY Fields, Configs DEF Bound, Shaped
<1>5. secrets'[i] # 0 /\ \A j \in Ids : secrets[j] # 0 => secrets'[j] # 0
  BY <1>1, <1>4 DEF TypeOK
<1>6. request'[r] = q /\ \A p \in Requests : p # r => request'[p] = request[p]
  BY <1>1, BecomesTyped
<1>7. RowResolves(a)'
  <2>1. \A p \in Requests : \A j : Deleted(p, a, j) => Deleted(p, a, j)'
    BY <1>1, <1>2, <1>6 DEF Deleted
  <2>2. \A j \in DOMAIN rows[a].config : j \in Ids
    BY ConfigValues
  <2> QED
    BY <1>2, <1>3, <1>5, <2>1, <2>2 DEF RowResolves
<1>8. ASSUME NEW p \in Requests, request'[p].of = a
      PROVE  ConfigResolves(p)'
  <2>1. \A j \in DOMAIN request[p].config : j \in Ids
    BY ConfigValues
  <2>2. CASE p = r
    BY <1>1, <1>3, <1>5, <1>6, <1>8, <2>1, <2>2 DEF ConfigResolves
  <2>3. CASE p # r
    BY <1>3, <1>5, <1>6, <1>8, <2>1, <2>3 DEF ConfigResolves
  <2> QED
    BY <2>2, <2>3
<1> QED
  BY <1>7, <1>8

LEMMA DropResolves ==
  ASSUME TypeOK, Bound, OneWriter, ResolveInv, NEW r \in Requests, Drop(r),
         NEW a \in Actors, Undisturbed(a)'
  PROVE  /\ RowResolves(a)'
         /\ \A p \in Requests : request'[p].of = a => ConfigResolves(p)'
<1>1. PICK i \in request[r].drop :
        /\ secrets' = [secrets EXCEPT ![i] = 0]
        /\ \/ request[r].op = "delete" /\ request[r].drop = {i} /\ Becomes(r, Idle)
           \/ \E q \in Request :
                /\ Becomes(r, q)
                /\ q.op = request[r].op /\ q.of = request[r].of
                /\ q.config = request[r].config /\ q.put = request[r].put
                /\ q.written = request[r].written /\ q.got = request[r].got
                /\ q.drop = request[r].drop \ {i}
  BY DropEffect
<1>2. PICK q \in Request \cup {Idle} :
        /\ Becomes(r, q)
        /\ \/ request[r].op = "delete" /\ q = Idle
           \/ /\ q.op = request[r].op /\ q.of = request[r].of
              /\ q.config = request[r].config /\ q.put = request[r].put
              /\ q.drop = request[r].drop \ {i}
  BY <1>1
<1>3. request'[r] = q /\ \A p \in Requests : p # r => request'[p] = request[p]
  BY <1>2, BecomesTyped
<1>4. rows' = rows /\ causes' = causes
  BY DEF Drop
<1>5. RowResolves(a) /\ \A p \in Requests : request[p].of = a => ConfigResolves(p)
  BY <1>4, Resolves DEF Undisturbed
<1>6. /\ request[r].op # "idle" /\ request[r].of \in Actors /\ i \in Ids
      /\ request[r].op = "delete" => request[r].written
      /\ Shaped(request[r])
  BY DropEffect, Fields DEF Bound
<1>7. /\ request[r].op \in {"update", "delete"} /\ i \notin DOMAIN request[r].config
      /\ request[r].op = "delete" => rows[request[r].of].status = "deleted"
  BY <1>6 DEF Shaped
<1>8. \A j \in Ids : j # i => secrets'[j] = secrets[j]
  BY <1>1 DEF TypeOK
<1>9. RowResolves(a)'
  <2>1. CASE request[r].op = "delete" /\ request[r].of = a
    BY <1>4, <1>7, <2>1 DEF RowResolves
  <2>2. CASE request[r].op = "update" \/ request[r].of # a
    <3> SUFFICES ASSUME rows[a].status = "live", NEW j \in DOMAIN rows[a].config
                 PROVE  secrets'[j] # 0 \/ \E p \in Requests : Deleted(p, a, j)'
      BY <1>4 DEF RowResolves
    <3>1. j \in Ids
      BY ConfigValues
    <3>2. CASE j = i
      <4>1. request[r].of = a
        BY <1>6, <3>2, Disjoint
      <4>2. request[r].op = "update"
        BY <2>2, <4>1
      <4>3. q.op = "update" /\ q.of = a /\ q.config = request[r].config /\ i \notin q.drop
        BY <1>2, <4>1, <4>2
      <4>4. Deleted(r, a, i)'
        BY <1>3, <1>4, <1>7, <3>2, <4>3 DEF Deleted, Obsolete
      <4> QED
        BY <3>2, <4>4
    <3>3. CASE j # i
      <4>1. CASE secrets[j] # 0
        BY <1>8, <3>1, <3>3, <4>1
      <4>2. ASSUME NEW p \in Requests, Deleted(p, a, j)
            PROVE  Deleted(p, a, j)'
        <5>1. CASE p # r
          BY <1>3, <1>4, <4>2, <5>1 DEF Deleted
        <5>2. CASE p = r
          BY <1>2, <1>3, <1>4, <4>2, <5>2 DEF Deleted
        <5> QED
          BY <5>1, <5>2
      <4> QED
        BY <1>5, <4>1, <4>2 DEF RowResolves
    <3> QED
      BY <3>2, <3>3
  <2> QED
    BY <1>7, <2>1, <2>2
<1>10. ASSUME NEW p \in Requests, request'[p].of = a, request'[p].op \in {"create", "update"}
       PROVE  ConfigResolves(p)'
  <2>1. /\ request[p].of = a /\ request[p].op = request'[p].op
        /\ request[p].config = request'[p].config /\ request[p].put = request'[p].put
    BY <1>2, <1>3, <1>10, IdleFields
  <2>2. i \notin DOMAIN request[p].config
    <3> SUFFICES ASSUME i \in DOMAIN request[p].config PROVE FALSE
      OBVIOUS
    <3>1. request[p].op # "idle"
      BY <1>10, <2>1
    <3>2. request[r].of = a
      BY <1>6, <2>1, <3>1, Disjoint
    <3>3. "overlap" \notin causes[a]
      BY <1>4 DEF Undisturbed
    <3>4. p = r
      <4>1. request[p].op \in Writers /\ request[r].op \in Writers
        BY <1>7, <1>10, <2>1 DEF Writers
      <4> QED
        BY <2>1, <3>2, <3>3, <4>1, OneOf
    <3> QED
      BY <1>7, <3>4
  <2>3. \A j \in DOMAIN request[p].config : j \in Ids
    BY ConfigValues
  <2>4. ConfigResolves(p)
    BY <1>5, <2>1
  <2> QED
    BY <1>8, <1>10, <2>1, <2>2, <2>3, <2>4 DEF ConfigResolves
<1> QED
  BY <1>9, <1>10 DEF ConfigResolves

LEMMA WriteRowResolves ==
  ASSUME TypeOK, Bound, ResolveInv, NEW r \in Requests, WriteRow(r),
         NEW a \in Actors, Undisturbed(a)'
  PROVE  /\ RowResolves(a)'
         /\ \A p \in Requests : request'[p].of = a => ConfigResolves(p)'
<1>1. /\ secrets' = secrets /\ causes' = causes /\ Becomes(r, Idle)
  BY DEF WriteRow, Becomes
<1>2. request'[r] = Idle /\ \A p \in Requests : p # r => request'[p] = request[p]
  BY <1>1, BecomesTyped
<1>3. RowResolves(a) /\ \A p \in Requests : request[p].of = a => ConfigResolves(p)
  BY <1>1, Resolves DEF Undisturbed
<1>4. \A p \in Requests : request'[p].of = a => ConfigResolves(p)'
  <2>1. Idle.op \notin {"create", "update"}
    BY IdleFields
  <2> QED
    BY <1>1, <1>2, <1>3, <2>1, ConfigResolvesKept DEF ConfigResolves
<1>5. /\ request[r].op \in {"create", "update"} /\ request[r].put = {}
      /\ \/ rows'[a] = rows[a]
         \/ a = request[r].of /\ rows'[a].config = request[r].config
  <2>1. request[r].op \in {"create", "update"} /\ request[r].put = {}
    BY DEF WriteRow
  <2>2. \/ rows'[a] = rows[a]
        \/ a = request[r].of /\ rows'[a].config = request[r].config
    BY WriteRowEffect
  <2> QED
    BY <2>1, <2>2
<1>6. ASSUME a = request[r].of /\ rows'[a].config = request[r].config
      PROVE  RowResolves(a)'
  <2>1. \A i \in DOMAIN request[r].config : secrets[i] # 0
    BY <1>3, <1>5, <1>6 DEF ConfigResolves
  <2> QED
    BY <1>1, <1>6, <2>1 DEF RowResolves
<1>7. ASSUME rows'[a] = rows[a], ~(a = request[r].of /\ rows'[a].config = request[r].config)
      PROVE  RowResolves(a)'
  <2>1. CASE rows[a].status # "live"
    BY <1>7, <2>1, RowResolvesGone
  <2>2. CASE rows[a].status = "live"
    <3>1. \A i : ~Deleted(r, a, i)
      <4> SUFFICES ASSUME request[r].op = "update", request[r].of = a PROVE FALSE
        BY DEF Deleted
      <4>1. rows' = [rows EXCEPT ![a] = [status |-> "live", config |-> request[r].config]]
        BY <2>2 DEF WriteRow
      <4> QED
        BY <1>7, <4>1 DEF TypeOK
    <3>2. \A p \in Requests : \A i : Deleted(p, a, i) => request'[p] = request[p]
      BY <1>2, <3>1
    <3>3. secrets' = secrets /\ rows'[a] = rows[a] /\ RowResolves(a)
      BY <1>1, <1>3, <1>7
    <3> QED
      BY <3>2, <3>3, RowResolvesKept
  <2> QED
    BY <2>1, <2>2
<1> QED
  BY <1>4, <1>5, <1>6, <1>7

LEMMA QuietResolves ==
  ASSUME TypeOK, Bound, ResolveInv, [Next]_vars,
         \/ \E r \in Requests : DeleteRow(r) \/ Fetch(r)
         \/ DeleteWorkspace
         \/ UNCHANGED vars,
         NEW a \in Actors, Undisturbed(a)'
  PROVE  /\ RowResolves(a)'
         /\ \A p \in Requests : request'[p].of = a => ConfigResolves(p)'
<1>1. secrets' = secrets
  BY DEF DeleteRow, Fetch, DeleteWorkspace, vars
<1>2. rows'[a] = rows[a] \/ rows'[a].status # "live"
  BY DEF DeleteRow, Fetch, DeleteWorkspace, vars, TypeOK
<1>3. \A p \in Requests :
        \/ request'[p] = request[p]
        \/ request[p].op # "update" /\ request'[p].op \notin {"create", "update"}
  <2>1. ASSUME NEW r \in Requests, DeleteRow(r) \/ Fetch(r)
        PROVE  /\ request[r].op \in {"delete", "hydrate"}
               /\ \E q \in Request \cup {Idle} :
                    Becomes(r, q) /\ q.op \in {request[r].op, "idle"}
    BY <2>1, DeleteRowEffect, FetchEffect, IdleFields
  <2>2. ASSUME NEW r \in Requests, DeleteRow(r) \/ Fetch(r)
        PROVE  \A p \in Requests :
                 \/ request'[p] = request[p]
                 \/ request[p].op # "update" /\ request'[p].op \notin {"create", "update"}
    <3>1. PICK q \in Request \cup {Idle} : Becomes(r, q) /\ q.op \in {request[r].op, "idle"}
      BY <2>1, <2>2
    <3>2. request'[r] = q /\ \A p \in Requests : p # r => request'[p] = request[p]
      BY <3>1, BecomesTyped
    <3>3. request[r].op \in {"delete", "hydrate"}
      BY <2>1, <2>2
    <3> QED
      BY <3>1, <3>2, <3>3
  <2>3. CASE UNCHANGED request
    BY <2>3
  <2> QED
    BY <2>2, <2>3 DEF DeleteWorkspace, vars
<1>4. Undisturbed(a)
  BY CausesGrow DEF Undisturbed
<1>5. RowResolves(a) /\ \A p \in Requests : request[p].of = a => ConfigResolves(p)
  BY <1>4, Resolves
<1>6. RowResolves(a)'
  <2>1. \A p \in Requests : \A i : Deleted(p, a, i) => request'[p] = request[p]
    BY <1>3 DEF Deleted
  <2>2. CASE rows'[a] = rows[a]
    BY <1>1, <1>5, <2>1, <2>2, RowResolvesKept
  <2>3. CASE rows'[a].status # "live"
    BY <2>3, RowResolvesGone
  <2> QED
    BY <1>2, <2>2, <2>3
<1>7. ASSUME NEW p \in Requests, request'[p].of = a
      PROVE  ConfigResolves(p)'
  <2>1. CASE request'[p] = request[p]
    BY <1>1, <1>5, <1>7, <2>1, ConfigResolvesKept
  <2>2. CASE request'[p].op \notin {"create", "update"}
    BY <2>2 DEF ConfigResolves
  <2> QED
    BY <1>3, <2>1, <2>2
<1> QED
  BY <1>6, <1>7

LEMMA CutResolves ==
  ASSUME TypeOK, ResolveInv, NEW R \in SUBSET Requests, Cut(R),
         NEW a \in Actors, Undisturbed(a)'
  PROVE  /\ RowResolves(a)'
         /\ \A p \in Requests : request'[p].of = a => ConfigResolves(p)'
<1>1. /\ secrets' = secrets /\ rows' = rows
      /\ \A p \in Requests : request'[p] = IF p \in R THEN Idle ELSE request[p]
      /\ causes'[a] = causes[a] \cup CutBy(R, a)
  BY DEF Cut
<1>2. Undisturbed(a) /\ "halfway" \notin CutBy(R, a)
  BY <1>1 DEF Undisturbed
<1>3. RowResolves(a) /\ \A p \in Requests : request[p].of = a => ConfigResolves(p)
  BY <1>2, Resolves
<1>4. \A p \in R : request[p].op \in Writers /\ request[p].of = a => ~Halfway(request[p], a)
  <2> DEFINE lost == {p \in R : request[p].op \in Writers /\ request[p].of = a}
  <2>1. CutBy(R, a) = (IF lost = {} THEN {} ELSE {"cut"}) \cup
                      (IF \E p \in lost : Halfway(request[p], a) THEN {"halfway"} ELSE {})
    BY DEF CutBy
  <2> HIDE DEF lost
  <2>2. ~\E p \in lost : Halfway(request[p], a)
    BY <1>2, <2>1
  <2> QED
    BY <2>2 DEF lost
<1>5. \A p \in Requests : \A i : Deleted(p, a, i) => request'[p] = request[p]
  BY <1>1, <1>4 DEF Deleted, Halfway, Writers
<1>6. RowResolves(a)'
  BY <1>1, <1>3, <1>5, RowResolvesKept
<1>7. ASSUME NEW p \in Requests, request'[p].of = a
      PROVE  ConfigResolves(p)'
  <2>1. CASE request'[p] = request[p]
    BY <1>1, <1>3, <1>7, <2>1, ConfigResolvesKept
  <2>2. CASE request'[p] = Idle
    BY <2>2, IdleFields DEF ConfigResolves
  <2> QED
    BY <1>1, <2>1, <2>2
<1> QED
  BY <1>6, <1>7

LEMMA ResolveStep ==
  ASSUME TypeOK, Bound, Begun, OneWriter, ResolveInv, [Next]_vars
  PROVE  ResolveInv'
<1>1. ASSUME NEW a \in Actors, Undisturbed(a)'
      PROVE  /\ RowResolves(a)'
             /\ \A p \in Requests : request'[p].of = a => ConfigResolves(p)'
  <2>1. \/ \E r \in Requests, b \in Actors :
             Create(r, b) \/ Update(r, b) \/ Delete(r, b) \/ Launch(r, b)
        \/ \E r \in Requests : Put(r) \/ Drop(r) \/ WriteRow(r)
        \/ \E r \in Requests : DeleteRow(r) \/ Fetch(r)
        \/ \E R \in SUBSET Requests : Cut(R)
        \/ DeleteWorkspace
        \/ UNCHANGED vars
    BY DEF Next, Begin, Continue, Fails, Crash
  <2>2. CASE \E r \in Requests, b \in Actors :
               Create(r, b) \/ Update(r, b) \/ Delete(r, b) \/ Launch(r, b)
    BY <1>1, <2>2, BeginResolves
  <2>3. CASE \E r \in Requests : Put(r)
    BY <1>1, <2>3, PutResolves
  <2>4. CASE \E r \in Requests : Drop(r)
    BY <1>1, <2>4, DropResolves
  <2>5. CASE \E r \in Requests : WriteRow(r)
    BY <1>1, <2>5, WriteRowResolves
  <2>6. CASE \/ \E r \in Requests : DeleteRow(r) \/ Fetch(r)
             \/ DeleteWorkspace
             \/ UNCHANGED vars
    BY <1>1, <2>6, QuietResolves
  <2>7. CASE \E R \in SUBSET Requests : Cut(R)
    BY <1>1, <2>7, CutResolves
  <2> QED
    BY <2>1, <2>2, <2>3, <2>4, <2>5, <2>6, <2>7
<1>2. TypeOK'
  BY StepTypeOK DEF Bound, Stores, Shaped
<1> QED
  BY <1>1 DEF ResolveInv, RowResolves, ConfigResolves

\* What is proved of the handlers of an actor, and of what they leave.
HandlersInv == TypeOK /\ Bound /\ Begun /\ OneWriter

LEMMA InitHandlers == Init => HandlersInv
<1> SUFFICES ASSUME Init PROVE HandlersInv
  OBVIOUS
<1>1. /\ \A a \in Actors : DOMAIN rows[a].config = {}
      /\ \A r \in Requests : request[r].op \notin Writers
  BY IdleFields, Configs DEF Init, Writers
<1> QED
  BY <1>1, InitBound DEF HandlersInv, Begun, OneWriter

LEMMA HandlersStep == HandlersInv /\ [Next]_vars => HandlersInv'
BY BoundStep, BegunStep, OneWriterStep DEF HandlersInv

\* The references of a live actor that no handler is changing have their secrets,
\* through any creates, updates, deletes, failures and crashes, of this actor and
\* of others, but for an overlap of its handlers, a stale reference sent by a
\* client and an update that is cut short after it began to delete.
THEOREM Resolve == Spec => []RefsResolve
<1>1. Init => ResolveInv
  <2> SUFFICES ASSUME Init PROVE ResolveInv
    OBVIOUS
  <2>1. \A r \in Requests : request[r].op = "idle"
    BY IdleFields DEF Init
  <2>2. \A a \in Actors : rows[a].status = "none"
    BY DEF Init
  <2> QED
    BY <2>1, <2>2 DEF ResolveInv
<1>2. HandlersInv /\ ResolveInv /\ [Next]_vars => ResolveInv'
  BY ResolveStep DEF HandlersInv
<1>3. HandlersInv /\ ResolveInv => RefsResolve
  BY DEF ResolveInv, RefsResolve, Undisturbed, Deleted, Writing, Writers
<1> QED
  BY <1>1, <1>2, <1>3, InitHandlers, HandlersStep, PTL DEF Spec

-----------------------------------------------------------------------------
(* No secret is left behind. *)

\* Secret i has a use: in its actor's row, or in a handler of the actor.
InUse(i, x) ==
  \/ i \in DOMAIN rows[x].config
  \/ \E r \in Requests :
       request[r].op \in Writers /\ request[r].of = x /\ i \in Held(request[r])

\* What handler r is to do fits the row of its actor.
Fits(r) ==
  LET q == request[r]
      a == q.of
  IN /\ q.op = "create" => rows[a].status = "creating"
     /\ q.op = "update" =>
          /\ rows[a].status = "live"
          /\ \A i \in DOMAIN rows[a].config :
               i \in DOMAIN q.config \cup q.drop \/ secrets[i] = 0
     /\ q.op = "delete" /\ ~q.written =>
          rows[a].status = "live" /\ DOMAIN rows[a].config \subseteq q.drop

AllUsed ==
  \A i \in Ids : secrets[i] # 0 /\ Orderly(author[secrets[i]]) => InUse(i, author[secrets[i]])

AllFit ==
  \A r \in Requests : request[r].op \in Writers /\ Orderly(request[r].of) => Fits(r)

LEMMA Leaks == LeakInv <=> AllUsed /\ AllFit
BY DEF LeakInv, AllUsed, AllFit, InUse, Fits

\* The actor whose request sealed a secret.
LEMMA AuthorOf ==
  ASSUME TypeOK, Bound, NEW i \in Ids, secrets[i] # 0
  PROVE  /\ secrets[i] \in 1..Len(author) /\ author[secrets[i]] \in Actors
         /\ [Next]_vars => author'[secrets[i]] = author[secrets[i]]
<1>1. secrets[i] \in Values /\ Said(i, secrets[i])
  BY ConfigValues, SaidNow
<1>2. secrets[i] \in 1..Len(author)
  BY <1>1 DEF Bound, Coherent
<1>3. author[secrets[i]] \in Actors
  BY <1>2 DEF TypeOK
<1>4. [Next]_vars => author'[secrets[i]] = author[secrets[i]]
  BY <1>1, AuthorKept DEF Bound
<1> QED
  BY <1>2, <1>3, <1>4

LEMMA OrderlyBefore ==
  ASSUME TypeOK, [Next]_vars, NEW a \in Actors, Orderly(a)'
  PROVE  Orderly(a)
BY CausesGrow DEF Orderly

\* It is enough that a step keeps the uses of the secrets there are.
LEMMA UsedKept ==
  ASSUME TypeOK, Bound, AllUsed, [Next]_vars,
         \A i \in Ids : secrets'[i] # 0 => secrets'[i] = secrets[i],
         \A x \in Actors : \A i \in Ids :
           secrets'[i] # 0 /\ Orderly(x)' /\ InUse(i, x) => InUse(i, x)'
  PROVE  AllUsed'
<1> SUFFICES ASSUME NEW i \in Ids, secrets'[i] # 0, Orderly(author[secrets[i]])'
             PROVE  InUse(i, author[secrets[i]])'
  BY DEF AllUsed
<1>1. PICK x \in Actors : x = author[secrets[i]] /\ x = author'[secrets'[i]]
  BY AuthorOf
<1>2. Orderly(x)'
  BY <1>1 DEF Orderly
<1>3. Orderly(x)
  BY <1>2, OrderlyBefore
<1>4. Orderly(author[secrets[i]])
  BY <1>1, <1>3 DEF Orderly
<1>5. InUse(i, author[secrets[i]])
  BY <1>4 DEF AllUsed
<1>6. InUse(i, x)
  BY <1>1, <1>5 DEF InUse
<1>7. InUse(i, x)'
  BY <1>2, <1>6
<1> QED
  BY <1>1, <1>7 DEF InUse

\* A handler that stays as it is fits a row that stays as it is.
LEMMA FitsKept ==
  ASSUME TypeOK, NEW r \in Requests, Fits(r), request'[r] = request[r],
         rows'[request[r].of] = rows[request[r].of],
         \A i \in DOMAIN rows[request[r].of].config :
           secrets[i] = 0 /\ request[r].op = "update" =>
             secrets'[i] = 0 \/ i \in DOMAIN request[r].config
  PROVE  Fits(r)'
BY DEF Fits

LEMMA BeginLeaks ==
  ASSUME TypeOK, Bound, Begun, AllUsed, AllFit, NEW r \in Requests, NEW b \in Actors,
         Create(r, b) \/ Update(r, b) \/ Delete(r, b) \/ Launch(r, b)
  PROVE  AllUsed' /\ AllFit'
<1>0. [Next]_vars
  BY DEF Next, Begin
<1>1. /\ request[r] = Idle /\ secrets' = secrets
      /\ \A p \in Requests : p # r => request'[p] = request[p]
  <2>1. request[r] = Idle /\ \E q \in Request : Becomes(r, q)
    BY CreateEffect, UpdateEffect, DeleteEffect, LaunchEffect DEF Updates
  <2>2. secrets' = secrets
    BY DEF Create, Update, Delete, Launch
  <2> QED
    BY <2>1, <2>2, BecomesTyped
<1>2. \A a \in Actors : rows'[a].config = rows[a].config
  <2>1. CASE Create(r, b)
    BY <2>1 DEF Create, TypeOK
  <2>2. CASE Update(r, b) \/ Delete(r, b) \/ Launch(r, b)
    BY <2>2 DEF Update, Delete, Launch
  <2> QED
    BY <2>1, <2>2
<1>3. AllUsed'
  <2>1. ASSUME NEW x \in Actors, NEW i \in Ids, InUse(i, x)
        PROVE  InUse(i, x)'
    BY <1>1, <1>2, <2>1, IdleFields DEF InUse, Writers
  <2> QED
    BY <1>0, <1>1, <2>1, UsedKept
<1>4. AllFit'
  <2> SUFFICES ASSUME NEW p \in Requests, request'[p].op \in Writers, Orderly(request[p].of)'
               PROVE  Fits(p)'
    BY DEF AllFit
  <2>1. CASE p # r
    <3>1. request'[p] = request[p] /\ request[p].of \in Actors
      BY <1>1, <2>1, Fields DEF Writers
    <3>2. PICK a \in Actors : a = request[p].of
      BY <3>1
    <3>3. Orderly(a)'
      BY <3>1, <3>2 DEF Orderly
    <3>4. Orderly(a) /\ Fits(p)
      BY <1>0, <3>1, <3>2, <3>3, OrderlyBefore DEF AllFit
    <3>5. rows'[a] = rows[a]
      <4>1. CASE Create(r, b)
        <5>1. a # b
          BY <3>1, <3>2, <4>1 DEF Create, Begun
        <5> QED
          BY <4>1, <5>1 DEF Create, TypeOK
      <4>2. CASE Update(r, b) \/ Delete(r, b) \/ Launch(r, b)
        BY <4>2 DEF Update, Delete, Launch
      <4> QED
        BY <4>1, <4>2
    <3> QED
      BY <1>1, <3>1, <3>2, <3>4, <3>5, FitsKept
  <2>2. CASE p = r /\ Create(r, b)
    <3>1. request'[r].of = b /\ request'[r].op = "create"
      BY <2>2, BeginsFor
    <3>2. rows'[b].status = "creating"
      BY <2>2 DEF Create, TypeOK
    <3> QED
      BY <2>2, <3>1, <3>2 DEF Fits
  <2>3. CASE p = r /\ Update(r, b)
    <3>1. PICK S \in SUBSET Unused, K \in SUBSET DOMAIN shown[b], q \in Request :
            Updates(r, b, S, K, q)
      BY <2>3, UpdateEffect
    <3>2. /\ Becomes(r, q) /\ q.op = "update" /\ q.of = b
          /\ q.drop = DOMAIN rows[b].config \ DOMAIN q.config
      BY <3>1 DEF Updates
    <3>3. request'[r] = q
      BY <3>2, BecomesTyped
    <3>4. rows' = rows /\ rows[b].status = "live"
      BY <2>3 DEF Update
    <3> QED
      BY <2>3, <3>2, <3>3, <3>4 DEF Fits
  <2>4. CASE p = r /\ Delete(r, b)
    <3>1. PICK q \in Request :
            Becomes(r, q) /\ q.op = "delete" /\ q.of = b /\ q.drop = DOMAIN rows[b].config
      BY <2>4, DeleteEffect
    <3>2. request'[r] = q
      BY <3>1, BecomesTyped
    <3>3. rows' = rows /\ rows[b].status = "live"
      BY <2>4 DEF Delete
    <3> QED
      BY <2>4, <3>1, <3>2, <3>3 DEF Fits
  <2>5. CASE p = r /\ Launch(r, b)
    <3>1. PICK q \in Request : Becomes(r, q) /\ q.op = "hydrate"
      BY <2>5, LaunchEffect
    <3> QED
      BY <2>5, <3>1, BecomesTyped DEF Writers
  <2> QED
    BY <2>1, <2>2, <2>3, <2>4, <2>5
<1> QED
  BY <1>3, <1>4

LEMMA PutLeaks ==
  ASSUME TypeOK, Bound, OneWriter, AllUsed, AllFit, NEW r \in Requests, Put(r)
  PROVE  AllUsed' /\ AllFit'
<1>0. [Next]_vars
  BY DEF Next, Continue
<1>1. PICK i \in request[r].put, q \in Request :
        /\ secrets' = [secrets EXCEPT ![i] = request[r].config[i]]
        /\ Becomes(r, q) /\ request[r].op # "idle"
        /\ q.op = request[r].op /\ q.of = request[r].of /\ q.config = request[r].config
        /\ q.drop = request[r].drop /\ q.written = request[r].written
        /\ q.got = request[r].got /\ q.put = request[r].put \ {i}
  BY PutEffect
<1>2. rows' = rows /\ causes' = causes /\ author' = author
  BY DEF Put
<1>3. request'[r] = q /\ \A p \in Requests : p # r => request'[p] = request[p]
  BY <1>1, BecomesTyped
<1>4. /\ i \in Ids /\ i \in DOMAIN request[r].config /\ request[r].config[i] \in Values \ {0}
      /\ request[r].op \in {"create", "update"} /\ request[r].of \in Actors
  <2>1. i \in DOMAIN request[r].config /\ request[r].op \in {"create", "update"}
    BY <1>1 DEF Bound, Shaped
  <2> QED
    BY <1>1, <2>1, Fields, Configs
<1>5. secrets'[i] = request[r].config[i] /\ \A j \in Ids : j # i => secrets'[j] = secrets[j]
  BY <1>1, <1>4 DEF TypeOK
<1>6. author[request[r].config[i]] = request[r].of
  BY <1>1, <1>4 DEF Bound, Owned
<1>7. AllUsed'
  <2> SUFFICES ASSUME NEW j \in Ids, secrets'[j] # 0, Orderly(author[secrets[j]])'
               PROVE  InUse(j, author[secrets[j]])'
    BY DEF AllUsed
  <2>1. CASE j = i
    <3>1. author'[secrets'[j]] = request'[r].of
      BY <1>1, <1>2, <1>3, <1>5, <1>6, <2>1
    <3>2. request'[r].op \in Writers /\ i \in Held(request'[r])
      BY <1>1, <1>3, <1>4 DEF Writers, Held
    <3> QED
      BY <2>1, <3>1, <3>2 DEF InUse, Held
  <2>2. CASE j # i
    <3>1. secrets'[j] = secrets[j]
      BY <1>5, <2>2
    <3>2. Orderly(author[secrets[j]])
      BY <1>2, <3>1 DEF Orderly
    <3>3. PICK x : x = author[secrets[j]]
      OBVIOUS
    <3>4. InUse(j, x)
      BY <3>1, <3>2, <3>3 DEF AllUsed
    <3>5. \A p \in Requests : /\ request'[p].op = request[p].op /\ request'[p].of = request[p].of
                              /\ Held(request'[p]) = Held(request[p])
      BY <1>1, <1>3 DEF Held
    <3> QED
      BY <1>2, <3>1, <3>3, <3>4, <3>5 DEF InUse, Held
  <2> QED
    BY <2>1, <2>2
<1>8. AllFit'
  <2> SUFFICES ASSUME NEW p \in Requests, request'[p].op \in Writers, Orderly(request[p].of)'
               PROVE  Fits(p)'
    BY DEF AllFit
  <2>1. /\ request'[p].op = request[p].op /\ request'[p].of = request[p].of
        /\ request'[p].config = request[p].config /\ request'[p].drop = request[p].drop
        /\ request'[p].written = request[p].written
    BY <1>1, <1>3
  <2>2. Fits(p) /\ "overlap" \notin causes[request[p].of]
    BY <1>2, <2>1 DEF AllFit, Orderly
  <2>3. ASSUME NEW j \in DOMAIN rows[request[p].of].config,
               secrets[j] = 0, request[p].op = "update"
        PROVE  secrets'[j] = 0 \/ j \in DOMAIN request[p].config
    <3>1. request[p].of \in Actors
      BY <2>3, Fields
    <3>2. j \in Ids
      BY <3>1, ConfigValues
    <3>3. CASE j # i
      BY <1>5, <2>3, <3>2, <3>3
    <3>4. CASE j = i
      <4>1. request[p].of = request[r].of
        BY <1>1, <1>4, <2>3, <3>1, <3>4, Disjoint
      <4>2. p = r
        BY <1>4, <2>2, <2>3, <4>1, OneOf DEF Writers
      <4> QED
        BY <1>4, <3>4, <4>2
    <3> QED
      BY <3>3, <3>4
  <2> QED
    BY <1>2, <2>1, <2>2, <2>3 DEF Fits
<1> QED
  BY <1>7, <1>8

LEMMA DropLeaks ==
  ASSUME TypeOK, Bound, AllUsed, AllFit, NEW r \in Requests, Drop(r)
  PROVE  AllUsed' /\ AllFit'
<1>0. [Next]_vars
  BY DEF Next, Continue
<1>1. PICK i \in request[r].drop :
        /\ secrets' = [secrets EXCEPT ![i] = 0]
        /\ \/ request[r].op = "delete" /\ request[r].drop = {i} /\ Becomes(r, Idle)
           \/ \E q \in Request :
                /\ Becomes(r, q)
                /\ q.op = request[r].op /\ q.of = request[r].of
                /\ q.config = request[r].config /\ q.put = request[r].put
                /\ q.written = request[r].written /\ q.got = request[r].got
                /\ q.drop = request[r].drop \ {i}
  BY DropEffect
<1>2. PICK q \in Request \cup {Idle} :
        /\ Becomes(r, q)
        /\ \/ request[r].op = "delete" /\ request[r].drop = {i} /\ q = Idle
           \/ /\ q.op = request[r].op /\ q.of = request[r].of
              /\ q.config = request[r].config /\ q.written = request[r].written
              /\ q.drop = request[r].drop \ {i}
  BY <1>1
<1>3. request'[r] = q /\ \A p \in Requests : p # r => request'[p] = request[p]
  BY <1>2, BecomesTyped
<1>4. rows' = rows /\ causes' = causes
  BY DEF Drop
<1>5. i \in Ids /\ (request[r].op = "delete" => request[r].written)
  <2>1. request[r].drop \in SUBSET Ids
    BY Fields
  <2>2. request[r].op = "delete" => request[r].written
    BY DEF Drop
  <2> QED
    BY <2>1, <2>2
<1>6. secrets'[i] = 0 /\ \A j \in Ids : j # i => secrets'[j] = secrets[j]
  BY <1>1, <1>5 DEF TypeOK
<1>7. AllUsed'
  <2>1. ASSUME NEW x \in Actors, NEW j \in Ids, secrets'[j] # 0, InUse(j, x)
        PROVE  InUse(j, x)'
    <3>1. j # i
      BY <1>6, <2>1
    <3>2. ASSUME NEW p \in Requests, request[p].op \in Writers, request[p].of = x,
                 j \in Held(request[p])
          PROVE  request'[p].op \in Writers /\ request'[p].of = x /\ j \in Held(request'[p])
      <4>1. CASE p # r
        BY <1>3, <3>2, <4>1
      <4>2. CASE p = r
        BY <1>2, <1>3, <3>1, <3>2, <4>2 DEF Held
      <4> QED
        BY <4>1, <4>2
    <3> QED
      BY <1>4, <2>1, <3>2 DEF InUse, Held
  <2> QED
    BY <1>0, <1>6, <2>1, UsedKept
<1>8. AllFit'
  <2> SUFFICES ASSUME NEW p \in Requests, request'[p].op \in Writers, Orderly(request[p].of)'
               PROVE  Fits(p)'
    BY DEF AllFit
  <2>1. \A a \in Actors : \A j \in DOMAIN rows[a].config : j \in Ids
    BY ConfigValues
  <2>2. /\ request'[p].op = request[p].op /\ request'[p].of = request[p].of
        /\ request'[p].config = request[p].config
        /\ request'[p].written = request[p].written
        /\ \/ request'[p].drop = request[p].drop
           \/ p = r /\ request'[p].drop = request[p].drop \ {i}
    <3>1. CASE p # r
      BY <1>3, <3>1
    <3>2. CASE p = r
      <4>1. q.op \in Writers
        BY <1>3, <3>2
      <4>2. q # Idle
        BY <4>1, IdleFields DEF Writers
      <4> QED
        BY <1>2, <1>3, <3>2, <4>2
    <3> QED
      BY <3>1, <3>2
  <2>3. Fits(p) /\ request[p].of \in Actors
    BY <1>4, <2>2, Fields DEF AllFit, Orderly, Writers
  <2>4. request'[p].op = "create" => rows'[request'[p].of].status = "creating"
    BY <1>4, <2>2, <2>3 DEF Fits
  <2>5. request'[p].op = "update" =>
          /\ rows'[request'[p].of].status = "live"
          /\ \A j \in DOMAIN rows'[request'[p].of].config :
               j \in DOMAIN request'[p].config \cup request'[p].drop \/ secrets'[j] = 0
    BY <1>4, <1>6, <2>1, <2>2, <2>3 DEF Fits
  <2>6. request'[p].op = "delete" /\ ~request'[p].written =>
          /\ rows'[request'[p].of].status = "live"
          /\ DOMAIN rows'[request'[p].of].config \subseteq request'[p].drop
    BY <1>4, <1>5, <2>2, <2>3 DEF Fits
  <2> QED
    BY <2>4, <2>5, <2>6 DEF Fits
<1> QED
  BY <1>7, <1>8

LEMMA WriteRowLeaks ==
  ASSUME TypeOK, Bound, Begun, OneWriter, AllUsed, AllFit, NEW r \in Requests, WriteRow(r)
  PROVE  AllUsed' /\ AllFit'
<1>0. [Next]_vars
  BY DEF Next, Continue
<1> DEFINE a == request[r].of
<1>1. /\ secrets' = secrets /\ causes' = causes /\ Becomes(r, Idle)
      /\ request[r].op \in {"create", "update"} /\ request[r].drop = {} /\ a \in Actors
  BY Fields DEF WriteRow, Becomes
<1>2. request'[r] = Idle /\ \A p \in Requests : p # r => request'[p] = request[p]
  BY <1>1, BecomesTyped
<1>3. \A x \in Actors : x # a => rows'[x] = rows[x]
  BY WriteRowEffect
<1>4. ASSUME Orderly(a)
      PROVE  /\ rows'[a].config = request[r].config
             /\ \A j \in DOMAIN rows[a].config : j \in DOMAIN request[r].config \/ secrets[j] = 0
  <2>1. Fits(r)
    BY <1>1, <1>4 DEF AllFit, Writers
  <2>2. rows[a].status = IF request[r].op = "create" THEN "creating" ELSE "live"
    BY <1>1, <2>1 DEF Fits
  <2>3. rows' = [rows EXCEPT ![a] = [status |-> "live", config |-> request[r].config]]
    BY <2>2 DEF WriteRow
  <2>4. rows'[a].config = request[r].config
    BY <1>1, <2>3 DEF TypeOK
  <2>5. CASE request[r].op = "create"
    <3>1. DOMAIN rows[a].config = {}
      BY <1>1, <2>2, <2>5 DEF Begun
    <3> QED
      BY <2>4, <3>1
  <2>6. CASE request[r].op = "update"
    BY <1>1, <2>1, <2>4, <2>6 DEF Fits
  <2> QED
    BY <1>1, <2>5, <2>6
<1>5. AllUsed'
  <2>1. ASSUME NEW x \in Actors, NEW j \in Ids, secrets'[j] # 0, Orderly(x)', InUse(j, x)
        PROVE  InUse(j, x)'
    <3>0. Orderly(x)
      BY <1>1, <2>1 DEF Orderly
    <3>1. CASE j \in DOMAIN rows[x].config
      <4>1. CASE x = a
        BY <1>1, <1>4, <2>1, <3>0, <3>1, <4>1 DEF InUse
      <4>2. CASE x # a
        BY <1>3, <3>1, <4>2 DEF InUse
      <4> QED
        BY <4>1, <4>2
    <3>2. ASSUME NEW p \in Requests, request[p].op \in Writers, request[p].of = x,
                 j \in Held(request[p])
          PROVE  InUse(j, x)'
      <4>1. CASE p # r
        BY <1>2, <3>2, <4>1 DEF InUse, Held
      <4>2. CASE p = r
        <5>1. x = a /\ j \in DOMAIN request[r].config
          BY <1>1, <3>2, <4>2 DEF Held
        <5> QED
          BY <1>4, <3>0, <5>1 DEF InUse
      <4> QED
        BY <4>1, <4>2
    <3> QED
      BY <2>1, <3>1, <3>2 DEF InUse
  <2> QED
    BY <1>0, <1>1, <2>1, UsedKept
<1>6. AllFit'
  <2> SUFFICES ASSUME NEW p \in Requests, request'[p].op \in Writers, Orderly(request[p].of)'
               PROVE  Fits(p)'
    BY DEF AllFit
  <2>1. p # r
    BY <1>2, IdleFields DEF Writers
  <2>2. request'[p] = request[p] /\ request[p].op \in Writers /\ request[p].of \in Actors
    BY <1>2, <2>1, Fields DEF Writers
  <2>3. Orderly(request[p].of)
    BY <1>1, <2>2 DEF Orderly
  <2>4. request[p].of # a
    <3>1. request[r].op \in Writers
      BY <1>1 DEF Writers
    <3>2. "overlap" \notin causes[request[p].of]
      BY <2>3 DEF Orderly
    <3> QED
      BY <1>1, <2>1, <2>2, <3>1, <3>2, OneOf
  <2>5. rows'[request[p].of] = rows[request[p].of] /\ Fits(p)
    BY <1>3, <2>2, <2>3, <2>4 DEF AllFit
  <2> QED
    BY <1>1, <2>2, <2>5, FitsKept
<1> QED
  BY <1>5, <1>6

LEMMA DeleteRowLeaks ==
  ASSUME TypeOK, Bound, Begun, OneWriter, AllUsed, AllFit, NEW r \in Requests, DeleteRow(r)
  PROVE  AllUsed' /\ AllFit'
<1>0. [Next]_vars
  BY DEF Next, Continue
<1> DEFINE a == request[r].of
           found == rows[a].status = "live"
<1>1. /\ secrets' = secrets /\ causes' = causes
      /\ request[r].op = "delete" /\ ~request[r].written /\ a \in Actors
  BY DeleteRowEffect DEF DeleteRow
<1>2. PICK q \in Request \cup {Idle} :
        /\ Becomes(r, q)
        /\ \/ /\ found /\ q.op = "delete" /\ q.of = a /\ q.written
              /\ q.drop = request[r].drop
           \/ (found => request[r].drop = {}) /\ q = Idle
  BY <1>1, DeleteRowEffect
<1>3. request'[r] = q /\ \A p \in Requests : p # r => request'[p] = request[p]
  BY <1>2, BecomesTyped
<1>4. \A x \in Actors : x # a => rows'[x] = rows[x]
  BY DEF DeleteRow, TypeOK
<1>5. Orderly(a) => found /\ DOMAIN rows[a].config \subseteq request[r].drop
  BY <1>1 DEF AllFit, Fits, Writers
<1>6. AllUsed'
  <2>1. ASSUME NEW x \in Actors, NEW j \in Ids, secrets'[j] # 0, Orderly(x)', InUse(j, x)
        PROVE  InUse(j, x)'
    <3>0. Orderly(x)
      BY <1>1, <2>1 DEF Orderly
    <3>1. ASSUME x = a, j \in request[r].drop
          PROVE  InUse(j, x)'
      <4>1. q.op = "delete" /\ q.of = a /\ j \in Held(q)
        BY <1>2, <1>5, <3>0, <3>1 DEF Held
      <4> QED
        BY <1>3, <3>1, <4>1 DEF InUse, Held, Writers
    <3>2. CASE j \in DOMAIN rows[x].config
      <4>1. CASE x = a
        BY <1>5, <3>0, <3>1, <3>2, <4>1
      <4>2. CASE x # a
        BY <1>4, <3>2, <4>2 DEF InUse
      <4> QED
        BY <4>1, <4>2
    <3>3. ASSUME NEW p \in Requests, request[p].op \in Writers, request[p].of = x,
                 j \in Held(request[p])
          PROVE  InUse(j, x)'
      <4>1. CASE p # r
        BY <1>3, <3>3, <4>1 DEF InUse, Held
      <4>2. CASE p = r
        BY <1>1, <3>1, <3>3, <4>2 DEF Held
      <4> QED
        BY <4>1, <4>2
    <3> QED
      BY <2>1, <3>2, <3>3 DEF InUse
  <2> QED
    BY <1>0, <1>1, <2>1, UsedKept
<1>7. AllFit'
  <2> SUFFICES ASSUME NEW p \in Requests, request'[p].op \in Writers, Orderly(request[p].of)'
               PROVE  Fits(p)'
    BY DEF AllFit
  <2>1. CASE p = r
    <3>1. q.op = "delete" /\ q.written
      BY <1>2, <1>3, <2>1, IdleFields DEF Writers
    <3> QED
      BY <1>3, <2>1, <3>1 DEF Fits
  <2>2. CASE p # r
    <3>2. request'[p] = request[p] /\ request[p].op \in Writers /\ request[p].of \in Actors
      BY <1>3, <2>2, Fields DEF Writers
    <3>3. Orderly(request[p].of)
      BY <1>1, <3>2 DEF Orderly
    <3>4. request[p].of # a
      <4>1. request[r].op \in Writers
        BY <1>1 DEF Writers
      <4>2. "overlap" \notin causes[request[p].of]
        BY <3>3 DEF Orderly
      <4> QED
        BY <1>1, <2>2, <3>2, <4>1, <4>2, OneOf
    <3>5. rows'[request[p].of] = rows[request[p].of] /\ Fits(p)
      BY <1>4, <3>2, <3>3, <3>4 DEF AllFit
    <3> QED
      BY <1>1, <3>2, <3>5, FitsKept
  <2> QED
    BY <2>1, <2>2
<1> QED
  BY <1>6, <1>7

\* Steps that write no row of an orderly actor and end none of its handlers.
LEMMA QuietLeaks ==
  ASSUME TypeOK, Bound, AllUsed, AllFit, [Next]_vars,
         \/ \E r \in Requests : Fetch(r)
         \/ DeleteWorkspace
         \/ \E R \in SUBSET Requests : Cut(R)
         \/ UNCHANGED vars
  PROVE  AllUsed' /\ AllFit'
<1>1. secrets' = secrets
  BY DEF Fetch, DeleteWorkspace, Cut, vars
<1>2. \A a \in Actors : Orderly(a)' => rows'[a] = rows[a]
  BY DEF Fetch, DeleteWorkspace, Cut, vars, Orderly, TypeOK
<1>3. \A p \in Requests :
        \/ request'[p] = request[p]
        \/ /\ request'[p].op \notin Writers
           /\ \A a \in Actors : Orderly(a)' => ~(request[p].op \in Writers /\ request[p].of = a)
  <2>1. ASSUME NEW r \in Requests, Fetch(r), NEW p \in Requests, request'[p] # request[p]
        PROVE  request'[p].op \notin Writers /\ request[p].op \notin Writers
    <3>1. request[r].op = "hydrate" /\ \E q \in Request \cup {Idle} :
            Becomes(r, q) /\ q.op \in {request[r].op, "idle"}
      BY <2>1, FetchEffect, IdleFields
    <3>2. PICK q \in Request \cup {Idle} : Becomes(r, q) /\ q.op \in {request[r].op, "idle"}
      BY <3>1
    <3>3. request'[r] = q /\ p = r
      BY <2>1, <3>2, BecomesTyped
    <3> QED
      BY <3>1, <3>2, <3>3 DEF Writers
  <2>2. ASSUME NEW R \in SUBSET Requests, Cut(R), NEW p \in Requests, request'[p] # request[p]
        PROVE  /\ request'[p].op \notin Writers
               /\ \A a \in Actors : Orderly(a)' => ~(request[p].op \in Writers /\ request[p].of = a)
    <3>1. p \in R /\ request'[p] = Idle
      BY <2>2 DEF Cut
    <3>2. ASSUME NEW a \in Actors, request[p].op \in Writers, request[p].of = a
          PROVE  ~Orderly(a)'
      <4>1. "cut" \in CutBy(R, a)
        BY <3>1, <3>2 DEF CutBy
      <4>2. "cut" \in causes'[a]
        BY <2>2, <4>1 DEF Cut
      <4> QED
        BY <4>2 DEF Orderly
    <3> QED
      BY <3>1, <3>2, IdleFields DEF Writers
  <2>3. CASE UNCHANGED request
    BY <2>3
  <2> QED
    BY <2>1, <2>2, <2>3 DEF DeleteWorkspace, vars
<1>4. AllUsed'
  <2>1. ASSUME NEW x \in Actors, NEW i \in Ids, Orderly(x)', InUse(i, x)
        PROVE  InUse(i, x)'
    <3>1. rows'[x] = rows[x]
      BY <1>2, <2>1
    <3>2. \A p \in Requests : request[p].op \in Writers /\ request[p].of = x
                                => request'[p] = request[p]
      BY <1>3, <2>1
    <3> QED
      BY <2>1, <3>1, <3>2 DEF InUse, Held
  <2> QED
    BY <1>1, <2>1, UsedKept
<1>5. AllFit'
  <2> SUFFICES ASSUME NEW p \in Requests, request'[p].op \in Writers, Orderly(request[p].of)'
               PROVE  Fits(p)'
    BY DEF AllFit
  <2>1. request'[p] = request[p] /\ request[p].of \in Actors
    BY <1>3, Fields DEF Writers
  <2>2. PICK a \in Actors : a = request[p].of
    BY <2>1
  <2>3. Orderly(a)' /\ Orderly(a)
    BY <2>1, <2>2, OrderlyBefore DEF Orderly
  <2>4. rows'[a] = rows[a] /\ Fits(p)
    BY <1>2, <2>1, <2>2, <2>3 DEF AllFit
  <2> QED
    BY <1>1, <2>1, <2>2, <2>4, FitsKept
<1> QED
  BY <1>4, <1>5

LEMMA LeakStep == HandlersInv /\ LeakInv /\ [Next]_vars => LeakInv'
<1> SUFFICES ASSUME HandlersInv, LeakInv, [Next]_vars PROVE AllUsed' /\ AllFit'
  BY Leaks DEF LeakInv, AllUsed, AllFit, InUse, Fits
<1>0. TypeOK /\ Bound /\ Begun /\ OneWriter /\ AllUsed /\ AllFit
  BY Leaks DEF HandlersInv
<1>1. CASE \E r \in Requests, b \in Actors :
             Create(r, b) \/ Update(r, b) \/ Delete(r, b) \/ Launch(r, b)
  BY <1>0, <1>1, BeginLeaks
<1>2. CASE \E r \in Requests : Put(r)
  BY <1>0, <1>2, PutLeaks
<1>3. CASE \E r \in Requests : Drop(r)
  BY <1>0, <1>3, DropLeaks
<1>4. CASE \E r \in Requests : WriteRow(r)
  BY <1>0, <1>4, WriteRowLeaks
<1>5. CASE \E r \in Requests : DeleteRow(r)
  BY <1>0, <1>5, DeleteRowLeaks
<1>6. CASE \/ \E r \in Requests : Fetch(r)
           \/ DeleteWorkspace
           \/ \E R \in SUBSET Requests : Cut(R)
           \/ UNCHANGED vars
  BY <1>0, <1>6, QuietLeaks
<1>7. \/ \E r \in Requests, b \in Actors :
           Create(r, b) \/ Update(r, b) \/ Delete(r, b) \/ Launch(r, b)
      \/ \E r \in Requests : Put(r) \/ Drop(r) \/ WriteRow(r) \/ DeleteRow(r) \/ Fetch(r)
      \/ DeleteWorkspace
      \/ \E R \in SUBSET Requests : Cut(R)
      \/ UNCHANGED vars
  BY DEF Next, Begin, Continue, Fails, Crash
<1> QED
  BY <1>1, <1>2, <1>3, <1>4, <1>5, <1>6, <1>7

\* A secret that was sealed is referred to by its actor's row or is in the hands
\* of one of the actor's handlers, unless handlers of that actor overlapped or
\* were cut short or its workspace was deleted: nothing else leaks a secret.
THEOREM NoLeak == Spec => []NoLeakedSecrets
<1>1. Init => LeakInv
  <2> SUFFICES ASSUME Init PROVE LeakInv
    OBVIOUS
  <2>1. \A r \in Requests : request[r].op \notin Writers
    BY IdleFields DEF Init, Writers
  <2>2. \A i \in Ids : secrets[i] = 0
    BY DEF Init
  <2> QED
    BY <2>1, <2>2 DEF LeakInv
<1>2. HandlersInv /\ LeakInv => NoLeakedSecrets
  BY DEF LeakInv, NoLeakedSecrets, Orderly, Writing
<1> QED
  BY <1>1, <1>2, LeakStep, InitHandlers, HandlersStep, PTL DEF Spec

=============================================================================
