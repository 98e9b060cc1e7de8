-------------------------------- MODULE Access --------------------------------
(***************************************************************************)
(* Who may do what through the REST API of gauss-server, and what is kept of *)
(* it: the auth layer around every handler, the api_tokens table, the audit  *)
(* rows written by detached tasks after the responses, and the OAuth states, *)
(* which live in the memory of the server process.                           *)
(*                                                                          *)
(* Each await is a step: a token may be deleted between the check and the     *)
(* effect, a client may go away (its handler is dropped there and then), the  *)
(* server may die.  Reads change nothing and are not audited; they are left   *)
(* out.  A token stands for its row, its raw value and its unique name.       *)
(***************************************************************************)
EXTENDS Naturals, FiniteSets

CONSTANTS
  Tokens,    \* rows the api_tokens table may hand out
  ByCommand, \* those of them the command line may create
  States,    \* OAuth states, fresh UUIDs
  Requests,  \* requests on their way at a time
  Modes,     \* settings of --require-auth
  TTL,       \* STATE_TTL in ticks
  MaxFields, \* bound: credentials a provider returns
  MaxSent,   \* bound: requests ever
  MaxFaults  \* bound: what goes wrong

ASSUME AccessAssumption ==
  /\ ByCommand \subseteq Tokens /\ Modes \subseteq BOOLEAN
  /\ TTL \in Nat \ {0} /\ MaxFields \in Nat /\ MaxSent \in Nat /\ MaxFaults \in Nat
  /\ "none" \notin Tokens \cup States

VARIABLES
  require_auth,  \* AppState::require_auth
  tokens,        \* rows of the api_tokens table
  role_of,       \* role each token was created with; 0 before
  granter,       \* role of whoever created each token; Admin for the command line
  oauth_states,  \* keys of AppState::oauth_states
  age,           \* age of each state, TTL at most, and TTL once its server died
  given, spent,  \* states ever issued, ever presented
  request,       \* each request, its handler and its audit task
  sent, faults

oauth == <<oauth_states, age, given, spent>>
table == <<tokens, role_of, granter>>
vars == <<require_auth, tokens, role_of, granter, oauth_states, age, given, spent,
          request, sent, faults>>

-----------------------------------------------------------------------------

\* Role, in the order it derives.
Viewer == 1
Editor == 2
Admin == 3
Roles == {Viewer, Editor, Admin}

\* write: any other mutation, by an editor.
Ops == {"write", "grant", "revoke", "authorize", "complete"}

\* Mutant: the path does not count.
RequiredByMethod(op) == Editor

\* required_role, of methods that mutate.
Required(op) == IF op \in {"grant", "revoke"} THEN Admin ELSE Editor

\* sent: before the auth layer; allowed: in the handler; effected: its effect has
\* committed; exchanging, sealing: inside complete; auditing: answered, its audit
\* task runs; over: nothing is left to do.
Phases == {"sent", "allowed", "effected", "exchanging", "sealing", "auditing", "over"}

\* subject: the token presented, or "none"; of: the token to revoke or the state
\* to present; late: the token was gone when the request was sent; role: the one
\* it was allowed with, or 0; left: credentials still to seal; effect: it changed
\* something that lasts; audit: what became of its audit row.
Request ==
  [phase : Phases, op : Ops, subject : Tokens \cup {"none"},
   of : Tokens \cup States \cup {"none"}, late : BOOLEAN, role : Roles \cup {0},
   left : 0..MaxFields, effect : BOOLEAN, audit : {"none", "written", "lost"}]

NoRequest == [phase |-> "over", op |-> "write", subject |-> "none", of |-> "none",
              late |-> FALSE, role |-> 0, left |-> 0, effect |-> FALSE, audit |-> "none"]

TypeOK ==
  /\ require_auth \in BOOLEAN
  /\ role_of \in [Tokens -> Roles \cup {0}]
  /\ tokens \subseteq {t \in Tokens : role_of[t] # 0}
  /\ granter \in [Tokens -> Roles \cup {0}]
  /\ oauth_states \subseteq given \ spent /\ given \subseteq States /\ spent \subseteq States
  /\ age \in [States -> 0..TTL]
  /\ request \in [Requests -> Request]
  /\ \A r \in Requests :
       request[r].phase \notin {"sent", "over"} => request[r].role # 0
  /\ sent \in 0..MaxSent /\ faults \in 0..MaxFaults

Init ==
  /\ require_auth \in Modes
  /\ tokens = {}
  /\ role_of = [t \in Tokens |-> 0]
  /\ granter = [t \in Tokens |-> 0]
  /\ oauth_states = {} /\ age = [s \in States |-> 0] /\ given = {} /\ spent = {}
  /\ request = [r \in Requests |-> NoRequest]
  /\ sent = 0 /\ faults = 0

-----------------------------------------------------------------------------

\* TokenRepo::create by somebody of role by.
Insert(t, role, by) ==
  /\ role_of[t] = 0
  /\ tokens' = tokens \cup {t}
  /\ role_of' = [role_of EXCEPT ![t] = role]
  /\ granter' = [granter EXCEPT ![t] = by]

\* gauss-server --create-token, a process of its own.
CreateToken(t, role) ==
  /\ Insert(t, role, Admin)
  /\ UNCHANGED <<require_auth, oauth, request, sent, faults>>

Step(r, from, q) ==
  /\ request[r].phase = from
  /\ request' = [request EXCEPT ![r] = q]

Fault == faults < MaxFaults /\ faults' = faults + 1

\* A client sends a request, with a token it was given or without.
Send(r) ==
  /\ sent < MaxSent /\ sent' = sent + 1
  /\ \E op \in Ops, t \in {u \in Tokens : role_of[u] # 0} \cup {"none"} :
       \E x \in IF op = "revoke" THEN Tokens
                ELSE IF op = "complete" THEN States ELSE {"none"} :
         Step(r, "over", [NoRequest EXCEPT !.phase = "sent", !.op = op, !.subject = t,
                          !.of = x, !.late = t # "none" /\ t \notin tokens])
  /\ UNCHANGED <<require_auth, table, oauth, faults>>

\* The role of the AuthContext: TokenRepo::authenticate; without a token the
\* request is anonymous. 0 stands for no context.
Context(t) ==
  IF t = "none" THEN (IF require_auth THEN 0 ELSE Admin)
  ELSE IF t \in tokens THEN role_of[t] ELSE 0

\* layer, up to next.run: denied requests end here, unaudited. The lookup of a
\* token may fail.
Authenticate(r) ==
  LET q == request[r]
      role == Context(q.subject)
  IN /\ \/ /\ role # 0 /\ role >= Required(q.op)
           /\ Step(r, "sent", [q EXCEPT !.phase = "allowed", !.role = role])
           /\ UNCHANGED faults
        \/ /\ role = 0 \/ role < Required(q.op)
           /\ Step(r, "sent", NoRequest)
           /\ UNCHANGED faults
        \/ /\ q.subject # "none" /\ Fault
           /\ Step(r, "sent", NoRequest)
     /\ UNCHANGED <<require_auth, table, oauth, sent>>

\* Nothing of the request is left but what it did.
Over(q, audit) == [NoRequest EXCEPT !.effect = q.effect, !.audit = audit]

\* Mutant: DELETE is taken for a method that does not mutate.
AnsweredUnlessDelete(q) ==
  IF q.op = "revoke" THEN Over(q, "none") ELSE [q EXCEPT !.phase = "auditing"]

\* next.run returns: layer spawns the audit task and returns the response.
Answered(q) == [q EXCEPT !.phase = "auditing"]

-----------------------------------------------------------------------------
(* The handlers. *)

\* The handler's statement commits; its future is polled again later.
Effected(r) ==
  Step(r, "allowed", [request[r] EXCEPT !.phase = "effected", !.effect = TRUE])

Write(r) ==
  /\ request[r].op = "write"
  /\ Effected(r)
  /\ UNCHANGED <<require_auth, table, oauth, sent, faults>>

\* create_token.
Grant(r) ==
  /\ request[r].op = "grant"
  /\ \E t \in Tokens, role \in Roles : Insert(t, role, request[r].role)
  /\ Effected(r)
  /\ UNCHANGED <<require_auth, oauth, sent, faults>>

\* delete_token.
Revoke(r) ==
  LET t == request[r].of
  IN /\ request[r].op = "revoke"
     /\ t \in tokens
     /\ tokens' = tokens \ {t}
     /\ Effected(r)
     /\ UNCHANGED <<require_auth, role_of, granter, oauth, sent, faults>>

\* The body is not valid, a row is not there, a name is taken, or the statement
\* fails: nothing has changed.
Refuse(r) ==
  LET q == request[r]
  IN /\ \/ q.op \in {"write", "grant"}
        \/ q.op = "revoke" /\ q.of \notin tokens
     /\ Step(r, "allowed", Answered(q))
     /\ UNCHANGED <<require_auth, table, oauth, sent, faults>>

Respond(r) ==
  /\ Step(r, "effected", Answered(request[r]))
  /\ UNCHANGED <<require_auth, table, oauth, sent, faults>>

Expired(s) == age[s] >= TTL

\* authorize_url; it does not matter which new UUID it is.
AuthorizeUrl(r) ==
  /\ request[r].op = "authorize"
  /\ States \ given # {}
  /\ LET s == CHOOSE u \in States : u \notin given IN
       /\ given' = given \cup {s}
       /\ oauth_states' = {k \in oauth_states : ~Expired(k)} \cup {s}
       /\ age' = [age EXCEPT ![s] = 0]
  /\ Step(r, "allowed", Answered(request[r]))
  /\ UNCHANGED <<require_auth, table, spent, sent, faults>>

\* Mutants: the state stays after its first use; it is no longer timed.
PresentKeeping(r) ==
  LET q == request[r]
      valid == q.of \in oauth_states /\ ~Expired(q.of)
  IN /\ q.op = "complete"
     /\ Step(r, "allowed", IF valid THEN [q EXCEPT !.phase = "exchanging"] ELSE Answered(q))
     /\ spent' = spent \cup ({q.of} \cap given)
     /\ UNCHANGED <<require_auth, table, oauth_states, age, given, sent, faults>>

PresentUntimed(r) ==
  LET q == request[r]
      next == IF q.of \in oauth_states THEN [q EXCEPT !.phase = "exchanging"] ELSE Answered(q)
  IN /\ q.op = "complete"
     /\ Step(r, "allowed", next)
     /\ oauth_states' = oauth_states \ {q.of}
     /\ spent' = spent \cup ({q.of} \cap given)
     /\ UNCHANGED <<require_auth, table, age, given, sent, faults>>

\* complete: the state is removed, whatever comes of the exchange.
Present(r) ==
  LET q == request[r]
      valid == q.of \in oauth_states /\ ~Expired(q.of)
  IN /\ q.op = "complete"
     /\ Step(r, "allowed", IF valid THEN [q EXCEPT !.phase = "exchanging"] ELSE Answered(q))
     /\ oauth_states' = oauth_states \ {q.of}
     /\ spent' = spent \cup ({q.of} \cap given)
     /\ UNCHANGED <<require_auth, table, age, given, sent, faults>>

\* The provider's answer: a failure, or credentials. There is no timeout.
Exchange(r) ==
  /\ \/ Step(r, "exchanging", Answered(request[r]))
     \/ \E n \in 0..MaxFields :
          Step(r, "exchanging", [request[r] EXCEPT !.phase = "sealing", !.left = n])
  /\ UNCHANGED <<require_auth, table, oauth, sent, faults>>

\* One SecretsBackend::put, which may fail; after the last one the references
\* are returned.
Seal(r) ==
  LET q == request[r]
  IN /\ \/ /\ q.left > 0
           /\ Step(r, "sealing", [q EXCEPT !.left = @ - 1, !.effect = TRUE])
           /\ UNCHANGED faults
        \/ /\ q.left > 0 /\ Fault
           /\ Step(r, "sealing", Answered([q EXCEPT !.left = 0]))
        \/ /\ q.left = 0
           /\ Step(r, "sealing", Answered(q))
           /\ UNCHANGED faults
     /\ UNCHANGED <<require_auth, table, oauth, sent>>

-----------------------------------------------------------------------------
(* After the response, and what goes wrong. *)

\* AuditRepo::record.
Record(r) ==
  /\ \/ /\ Step(r, "auditing", Over(request[r], "written"))
        /\ UNCHANGED faults
     \/ /\ Step(r, "auditing", Over(request[r], "lost"))
        /\ Fault
  /\ UNCHANGED <<require_auth, table, oauth, sent>>

Lost(q) == IF q.phase = "over" THEN q ELSE Over(q, "lost")

\* The client goes away: the layer's future is dropped with the handler's (a
\* statement it had sent may still commit; here it has committed before). An
\* audit task that was spawned runs on.
Disconnect(r) ==
  /\ request[r].phase \notin {"auditing", "over"}
  /\ Fault
  /\ request' = [request EXCEPT ![r] = Lost(@)]
  /\ UNCHANGED <<require_auth, table, oauth, sent>>

\* The server process dies and is started again.
Crash ==
  /\ Fault
  /\ request' = [r \in Requests |-> Lost(request[r])]
  /\ oauth_states' = {}
  /\ age' = [s \in States |-> IF s \in given THEN TTL ELSE age[s]]
  /\ UNCHANGED <<require_auth, table, given, spent, sent>>

\* Time passes.
Tick ==
  /\ \E s \in given : ~Expired(s)
  /\ age' = [s \in States |-> IF s \in given /\ ~Expired(s) THEN age[s] + 1 ELSE age[s]]
  /\ UNCHANGED <<require_auth, table, oauth_states, given, spent, request,
                 sent, faults>>

-----------------------------------------------------------------------------

\* What the server does on its own account; what a provider does is not.
Serve(r) ==
  \/ Authenticate(r)
  \/ Write(r) \/ Grant(r) \/ Revoke(r) \/ Refuse(r) \/ Respond(r)
  \/ AuthorizeUrl(r) \/ Present(r) \/ Seal(r)
  \/ Record(r)

Next ==
  \/ \E t \in ByCommand, role \in Roles : CreateToken(t, role)
  \/ \E r \in Requests : Send(r) \/ Serve(r) \/ Exchange(r) \/ Disconnect(r)
  \/ Crash \/ Tick

Spec == Init /\ [][Next]_vars

\* The server's tasks are scheduled and its statements end. Nothing is assumed of
\* clients and providers.
FairSpec == Spec /\ \A r \in Requests : WF_vars(Serve(r))

-----------------------------------------------------------------------------

\* Whatever happens between a request's check and its effect: only an editor
\* changes anything, only an admin creates or deletes a token, a request acts
\* with the role its token was given, one sent with a token already deleted
\* changes nothing, and an anonymous one nothing where tokens are required.
ActsWithinRole ==
  /\ \A r \in Requests :
       LET q == request[r]
       IN q.effect /\ q.phase # "over" =>
            /\ q.role >= Editor /\ ~q.late
            /\ q.op \in {"grant", "revoke"} => q.role = Admin
            /\ IF q.subject = "none" THEN ~require_auth
               ELSE q.role = role_of[q.subject]
  /\ \A t \in Tokens : role_of[t] # 0 => granter[t] = Admin

\* auth.rs: what a request has changed gets its row in the audit log, unless its
\* client went away first, the server died or the write of the row failed.
EffectsAudited ==
  \A r \in Requests : request[r].effect ~> request[r].audit \in {"written", "lost"}

\* oauth.rs: "the state must be one we issued, recently, exactly once". A code is
\* exchanged if and only if its state was issued by this very process within the
\* last TTL and was never presented before, whoever presents and issues meanwhile.
StatesHonoured ==
  [][\A r \in Requests :
       /\ request[r].phase = "allowed" /\ request[r].op = "complete"
       /\ request'[r].phase \in {"exchanging", "auditing"}
       => LET s == request[r].of
          IN request'[r].phase = "exchanging" <=> s \in given \ spent /\ ~Expired(s)]_vars
=============================================================================
