---------------------------- MODULE ActorSecrets ----------------------------
(***************************************************************************)
(* Sources and destinations ("actors") of gauss-server and the secrets their *)
(* configurations refer to.  A configuration is stored with its secrets       *)
(* replaced by references; the values are in a secrets backend (a table, or   *)
(* Vault) that shares no transaction with the actors table.  Each await of a  *)
(* handler is a step of its own: other handlers and the workers, which fetch  *)
(* the secrets when they launch a connector, run in between, and an error, a  *)
(* dropped connection or a crash may end a handler at any of them.            *)
(*                                                                          *)
(* A configuration is the set of its references; what is not secret is left   *)
(* out.  A value is the number of the request that sealed it.                 *)
(***************************************************************************)
EXTENDS Naturals, Sequences, FiniteSets

CONSTANTS
  Actors,      \* identifiers the actors table may hand out
  Ids,         \* secret identifiers, fresh UUIDs
  Requests,    \* handlers and workers at work at a time
  MaxSecrets,  \* bound: references in a configuration
  MaxSeals,    \* bound: how many requests seal secrets
  MaxFaults    \* bound: how many handlers are cut short

ASSUME ActorSecretsAssumption ==
  /\ MaxSecrets \in Nat /\ MaxSeals \in Nat /\ MaxFaults \in Nat

VARIABLES
  rows,     \* the actors table: status and configuration of each actor
  secrets,  \* the secrets backend: the value stored under each id, or 0
  used,     \* ids handed out by Uuid::new_v4
  shown,    \* the references the API has shown of each actor
  request,  \* the local variables of each handler
  author,   \* author[n]: for whom request n sealed secrets
  causes,   \* what has disturbed the handlers of each actor
  faults    \* faults so far

vars == <<rows, secrets, used, shown, request, author, causes, faults>>

Values == 0..MaxSeals
Config == UNION {[S -> Values \ {0}] : S \in SUBSET Ids}
Nothing == [i \in {} |-> 0]

\* overlap: two handlers changed the actor at a time; stale: a client sent a
\* reference the actor no longer had; halfway: an update was cut short after it
\* began to delete; cut: a handler was cut short elsewhere; cascade: the actor
\* went with its workspace.
Causes == {"overlap", "stale", "halfway", "cut", "cascade"}

Writers == {"create", "update", "delete"}

Idle == [op |-> "idle", of |-> "none", config |-> Nothing, put |-> {}, drop |-> {},
         written |-> FALSE, got |-> Nothing]

\* config: the configuration to write, or the one read (hydrate); put and drop:
\* ids still to store and to delete; written: the row is deleted (delete); got:
\* the values fetched so far (hydrate).
Request ==
  [op : Writers \cup {"hydrate"}, of : Actors, config : Config,
   put : SUBSET Ids, drop : SUBSET Ids, written : BOOLEAN, got : Config]

TypeOK ==
  /\ rows \in [Actors -> [status : {"none", "creating", "live", "deleted"}, config : Config]]
  /\ secrets \in [Ids -> Values]
  /\ used \subseteq Ids
  /\ shown \in [Actors -> Config]
  /\ request \in [Requests -> Request \cup {Idle}]
  /\ author \in Seq(Actors) /\ Len(author) <= MaxSeals
  /\ causes \in [Actors -> SUBSET Causes]
  /\ faults \in 0..MaxFaults

Init ==
  /\ rows = [a \in Actors |-> [status |-> "none", config |-> Nothing]]
  /\ secrets = [i \in Ids |-> 0]
  /\ used = {}
  /\ shown = [a \in Actors |-> Nothing]
  /\ request = [r \in Requests |-> Idle]
  /\ author = <<>>
  /\ causes = [a \in Actors |-> {}]
  /\ faults = 0

-----------------------------------------------------------------------------

Restricted(f, S) == [i \in S |-> f[i]]
Extended(f, g) ==
  [i \in DOMAIN f \cup DOMAIN g |-> IF i \in DOMAIN g THEN g[i] ELSE f[i]]

Writing(a) == \E r \in Requests : request[r].op \in Writers /\ request[r].of = a

Disturbed(a, C) == causes' = [causes EXCEPT ![a] = @ \cup C]

\* Mutant: ids of deleted secrets, and of others, come back.
UnusedOrNot == Ids

\* What Uuid::new_v4 may return.
Unused == Ids \ used

\* split_config of a configuration with the secrets S, some of them new and the
\* others references, which are kept as they are: the redacted configuration.
Split(new, kept) ==
  Extended(kept, [i \in new |-> Len(author) + 1])

\* One more request seals the ids S for x.
Seals(x, S) ==
  /\ used' = used \cup S
  /\ IF S = {} THEN UNCHANGED author
     ELSE /\ Len(author) < MaxSeals
          /\ author' = Append(author, x)

\* A client's configuration: new values, and references the API has shown it.
Configure(known) ==
  {c \in (SUBSET Unused) \X (SUBSET DOMAIN known) :
     Cardinality(c[1]) + Cardinality(c[2]) <= MaxSecrets}

-----------------------------------------------------------------------------
(* The handlers of actors.rs.  Reads that fail end a handler with no effect. *)

\* create, up to the first put.
Create(r, a) ==
  /\ request[r] = Idle /\ rows[a].status = "none"
  /\ \E c \in Configure(Nothing) :
       /\ Seals(a, c[1])
       /\ request' = [request EXCEPT ![r] =
            [Idle EXCEPT !.op = "create", !.of = a, !.put = c[1],
                         !.config = Split(c[1], Nothing)]]
  /\ rows' = [rows EXCEPT ![a].status = "creating"]
  /\ UNCHANGED <<secrets, shown, causes, faults>>

\* Mutants: every old reference is dropped; none is.
ObsoleteAll(old, new) == DOMAIN old
ObsoleteNone(old, new) == {}

\* The old references the new configuration does not keep.
Obsolete(old, new) == DOMAIN old \ DOMAIN new

\* update, from its get to the first put. A patch without a configuration
\* touches no secret and is left out.
Update(r, a) ==
  /\ request[r] = Idle /\ rows[a].status = "live"
  /\ \E c \in Configure(shown[a]) :
       LET old == rows[a].config
           config == Split(c[1], Restricted(shown[a], c[2]))
       IN /\ Seals(a, c[1])
          /\ request' = [request EXCEPT ![r] =
               [Idle EXCEPT !.op = "update", !.of = a, !.put = c[1],
                            !.drop = Obsolete(old, config), !.config = config]]
          /\ Disturbed(a, (IF Writing(a) THEN {"overlap"} ELSE {}) \cup
                          (IF c[2] \subseteq DOMAIN old THEN {} ELSE {"stale"}))
  /\ UNCHANGED <<rows, secrets, shown, faults>>

\* delete, its get: the references to delete are those of the row read here.
Delete(r, a) ==
  /\ request[r] = Idle /\ rows[a].status = "live"
  /\ request' = [request EXCEPT ![r] =
       [Idle EXCEPT !.op = "delete", !.of = a, !.drop = DOMAIN rows[a].config]]
  /\ Disturbed(a, IF Writing(a) THEN {"overlap"} ELSE {})
  /\ UNCHANGED <<rows, secrets, used, shown, author, faults>>

\* store_secrets, one put; SecretsBackend::put overwrites.
Put(r) ==
  /\ \E i \in request[r].put :
       /\ secrets' = [secrets EXCEPT ![i] = request[r].config[i]]
       /\ request' = [request EXCEPT ![r].put = @ \ {i}]
  /\ UNCHANGED <<rows, used, shown, author, causes, faults>>

\* One delete of an obsolete secret (update), or of delete_secrets. Deleting a
\* secret that is not there succeeds.
Drop(r) ==
  LET q == request[r]
  IN /\ q.put = {}
     /\ q.op = "delete" => q.written
     /\ \E i \in q.drop :
          /\ secrets' = [secrets EXCEPT ![i] = 0]
          /\ request' = [request EXCEPT ![r] =
               IF q.op = "delete" /\ q.drop = {i} THEN Idle ELSE [q EXCEPT !.drop = @ \ {i}]]
     /\ UNCHANGED <<rows, used, shown, author, causes, faults>>

\* ActorRepo::create and ActorRepo::update; the workspace the actor goes to, or
\* the row to update, may be gone.
WriteRow(r) ==
  LET q == request[r]
      a == q.of
      stored == rows[a].status = IF q.op = "create" THEN "creating" ELSE "live"
  IN /\ q.op \in {"create", "update"}
     /\ q.put = {} /\ q.drop = {}
     /\ rows' = IF stored
                THEN [rows EXCEPT ![a] = [status |-> "live", config |-> q.config]] ELSE rows
     /\ shown' = IF stored THEN [shown EXCEPT ![a] = Extended(@, q.config)] ELSE shown
     /\ request' = [request EXCEPT ![r] = Idle]
     /\ UNCHANGED <<secrets, used, author, causes, faults>>

\* ActorRepo::delete, NotFound when another request was faster.
DeleteRow(r) ==
  LET q == request[r]
      a == q.of
      found == rows[a].status = "live"
  IN /\ q.op = "delete" /\ ~q.written
     /\ rows' = IF found
                THEN [rows EXCEPT ![a] = [status |-> "deleted", config |-> Nothing]] ELSE rows
     /\ request' = [request EXCEPT ![r] =
          IF found /\ q.drop # {} THEN [q EXCEPT !.written = TRUE] ELSE Idle]
     /\ UNCHANGED <<secrets, used, shown, author, causes, faults>>

\* Deleting a workspace: ON DELETE CASCADE takes its actors and no secret, and
\* the inserts still to come violate the foreign key.
DeleteWorkspace ==
  LET inside == {a \in Actors : rows[a].status \in {"creating", "live"}}
  IN /\ \E a \in Actors : rows[a].status = "live"
     /\ rows' = [a \in Actors |->
          IF a \in inside THEN [status |-> "deleted", config |-> Nothing] ELSE rows[a]]
     /\ causes' = [a \in Actors |->
          IF a \in inside THEN causes[a] \cup {"cascade"} ELSE causes[a]]
     /\ UNCHANGED <<secrets, used, shown, request, author, faults>>

-----------------------------------------------------------------------------
(* Workers and the check and discover handlers launch a connector. *)

\* The row is read.
Launch(r, a) ==
  /\ request[r] = Idle /\ rows[a].status = "live"
  /\ request' = [request EXCEPT ![r] =
       [Idle EXCEPT !.op = "hydrate", !.of = a, !.config = rows[a].config]]
  /\ UNCHANGED <<rows, secrets, used, shown, author, causes, faults>>

\* Mutant: a missing secret is passed on as an empty value.
FetchAnyway(r) ==
  LET q == request[r]
      left == DOMAIN q.config \ DOMAIN q.got
  IN /\ q.op = "hydrate"
     /\ \E i \in left :
          request' = [request EXCEPT ![r].got = Extended(@, [j \in {i} |-> secrets[i]])]
     /\ UNCHANGED <<rows, secrets, used, shown, author, causes, faults>>

\* hydrate_config, one get; a missing secret ends the launch, the last one
\* completes it.
Fetch(r) ==
  LET q == request[r]
      left == DOMAIN q.config \ DOMAIN q.got
  IN /\ q.op = "hydrate"
     /\ \/ \E i \in left :
             request' = [request EXCEPT ![r] =
               IF secrets[i] = 0 THEN Idle
               ELSE [q EXCEPT !.got = Extended(@, [j \in {i} |-> secrets[i]])]]
        \/ left = {} /\ request' = [request EXCEPT ![r] = Idle]
     /\ UNCHANGED <<rows, secrets, used, shown, author, causes, faults>>

-----------------------------------------------------------------------------
(* Faults. *)

\* An update of a has deleted some of what it is to delete.
Halfway(q, a) == q.op = "update" /\ q.drop # Obsolete(rows[a].config, q.config)

\* What it means for actor a that the requests R end here.
CutBy(R, a) ==
  LET lost == {r \in R : request[r].op \in Writers /\ request[r].of = a}
  IN (IF lost = {} THEN {} ELSE {"cut"}) \cup
     (IF \E r \in lost : Halfway(request[r], a) THEN {"halfway"} ELSE {})

Cut(R) ==
  /\ faults < MaxFaults
  /\ faults' = faults + 1
  /\ request' = [r \in Requests |-> IF r \in R THEN Idle ELSE request[r]]
  /\ causes' = [a \in Actors |-> causes[a] \cup CutBy(R, a)]
  /\ UNCHANGED <<rows, secrets, used, shown, author>>

\* A statement fails, or the client goes away and the handler is dropped.
Fails(r) ==
  /\ request[r] # Idle
  /\ Cut({r})

\* The server dies with all its handlers.
Crash == Cut(Requests)

-----------------------------------------------------------------------------

Begin(r) ==
  \/ \E a \in Actors : Create(r, a) \/ Update(r, a) \/ Delete(r, a) \/ Launch(r, a)

Continue(r) ==
  \/ Put(r) \/ Drop(r) \/ WriteRow(r) \/ DeleteRow(r) \/ Fetch(r)

Next ==
  \/ \E r \in Requests : Begin(r) \/ Continue(r) \/ Fails(r)
  \/ DeleteWorkspace \/ Crash

Spec == Init /\ [][Next]_vars

-----------------------------------------------------------------------------

\* Between its updates every reference an actor's row holds has its secret,
\* whatever happens to other actors, to creates and to deletes, unless its
\* updates overlapped, one was cut short after it began to delete, or a client
\* sent a reference that was gone.
RefsResolve ==
  \A a \in Actors :
    /\ rows[a].status = "live" /\ ~Writing(a)
    /\ causes[a] \cap {"overlap", "stale", "halfway"} = {}
    => \A i \in DOMAIN rows[a].config : secrets[i] # 0

\* No secret sealed for an actor outlives its last use, unless handlers of the
\* actor overlapped or were cut short, or it went with its workspace.
NoLeakedSecrets ==
  \A i \in Ids : secrets[i] # 0 =>
    LET x == author[secrets[i]]
    IN \/ Writing(x)
       \/ causes[x] \cap {"overlap", "cut", "cascade"} # {}
       \/ i \in DOMAIN rows[x].config

\* A connector is launched with the values that were sealed for the very
\* configuration it was launched from, never with those of a later one, however
\* the fetches interleave with updates.
HydratedAsStored ==
  \A r \in Requests :
    \A i \in DOMAIN request[r].got : request[r].got[i] = request[r].config[i]
=============================================================================
