---------------------------- MODULE AccessProofs ----------------------------
(***************************************************************************)
(* Theorems about Access, for any tokens, states, requests, time to live and  *)
(* bounds, any interleaving of the handlers and any faults: nobody acts        *)
(* beyond the role of the token presented, and an OAuth state is honoured      *)
(* exactly once and in time.                                                  *)
(***************************************************************************)
EXTENDS Access, TLAPS

\* What the auth layer has established about a request q that went past it, and
\* what a request that has not yet been checked can hope for.
Sound(q, toks, roles, auth) ==
  /\ q.phase = "sent" =>
       /\ ~q.effect
       /\ q.late => q.subject \in Tokens \ toks /\ roles[q.subject] # 0
  /\ q.phase \notin {"sent", "over"} =>
       /\ q.role >= Required(q.op) /\ ~q.late
       /\ IF q.subject = "none" THEN ~auth
          ELSE q.subject \in Tokens /\ roles[q.subject] = q.role

TableOK ==
  /\ role_of \in [Tokens -> Roles \cup {0}]
  /\ granter \in [Tokens -> Roles \cup {0}]
  /\ tokens \subseteq {t \in Tokens : role_of[t] # 0}
  /\ \A t \in Tokens : role_of[t] # 0 => granter[t] = Admin

\* Sweeping expired states and removing presented ones takes nothing else away.
OauthOK ==
  /\ given \subseteq States /\ spent \subseteq given /\ oauth_states \subseteq given \ spent
  /\ age \in [States -> 0..TTL]
  /\ \A s \in given \ spent : ~Expired(s) => s \in oauth_states

CountersOK == sent \in 0..MaxSent /\ faults \in 0..MaxFaults

\* ActsWithinRole is not inductive: it must hold of the requests that have not had
\* their effect yet, and the late ones among those not yet checked must fail.
AccessInv ==
  /\ require_auth \in BOOLEAN
  /\ TableOK /\ OauthOK /\ CountersOK
  /\ request \in [Requests -> Request]
  /\ \A r \in Requests : Sound(request[r], tokens, role_of, require_auth)

\* The auth layer lets nobody pass without a role.
LEMMA InvTypes == AccessInv => TypeOK
<1> SUFFICES ASSUME AccessInv PROVE TypeOK
  OBVIOUS
<1>1. ASSUME NEW r \in Requests, request[r].phase \notin {"sent", "over"}
      PROVE  request[r].role # 0
  BY <1>1 DEF AccessInv, Sound, Required, Editor, Admin
<1> QED
  BY <1>1 DEF AccessInv, TypeOK, TableOK, OauthOK, CountersOK

-----------------------------------------------------------------------------
(* How a step moves a request and, under the others, the table of tokens. *)

TableGrows ==
  /\ require_auth' = require_auth
  /\ \A t \in Tokens : role_of[t] # 0 => role_of'[t] = role_of[t]
  /\ \A t \in Tokens : role_of[t] # 0 /\ t \notin tokens => t \notin tokens'

\* A growing table takes nothing away from what was established.
LEMMA SoundStays ==
  ASSUME AccessInv, TableGrows, NEW q \in Request,
         Sound(q, tokens, role_of, require_auth)
  PROVE  Sound(q, tokens', role_of', require_auth')
<1>1. q.role \in {0, 1, 2, 3} /\ q.phase \in Phases
  BY DEF Request, Roles, Viewer, Editor, Admin
<1>2. q.phase \notin {"sent", "over"} => q.role # 0
  BY <1>1 DEF Sound, Required, Editor, Admin
<1> QED
  BY <1>1, <1>2 DEF Sound, TableGrows

\* One request moves; what it becomes is sound, and so are table and states.
LEMMA OneMoves ==
  ASSUME AccessInv, NEW r \in Requests, NEW from, NEW q \in Request, Step(r, from, q),
         TableGrows, TableOK', OauthOK', CountersOK',
         Sound(q, tokens', role_of', require_auth')
  PROVE  AccessInv'
<1>1. /\ request' \in [Requests -> Request]
      /\ request'[r] = q
      /\ \A p \in Requests : p # r => request'[p] = request[p]
  BY DEF Step, AccessInv
<1>2. ASSUME NEW p \in Requests, p # r
      PROVE  Sound(request[p], tokens', role_of', require_auth')
  BY SoundStays DEF AccessInv
<1> QED
  BY <1>1, <1>2 DEF AccessInv, TableGrows

\* The table stays as it is, or gets a row from an admin.
LEMMA TableStays ==
  ASSUME AccessInv, UNCHANGED <<require_auth, table>>
  PROVE  TableGrows /\ TableOK'
BY DEF AccessInv, table, TableGrows, TableOK

LEMMA TableInserts ==
  ASSUME AccessInv, NEW t \in Tokens, NEW role \in Roles,
         Insert(t, role, Admin), UNCHANGED require_auth
  PROVE  TableGrows /\ TableOK'
BY DEF AccessInv, Insert, TableGrows, TableOK, Roles, Viewer, Editor, Admin

LEMMA OauthStays ==
  ASSUME AccessInv, UNCHANGED oauth
  PROVE  OauthOK'
BY DEF AccessInv, oauth, OauthOK, Expired

\* A step that counts a fault, or none.
LEMMA Counted ==
  ASSUME AccessInv, sent' = sent, Fault \/ UNCHANGED faults
  PROVE  CountersOK'
BY AccessAssumption DEF AccessInv, CountersOK, Fault

\* A request that only moves on: the rest of the step is as above.
LEMMA OnlyRequestMoves ==
  ASSUME AccessInv, NEW r \in Requests, NEW from, NEW q \in Request, Step(r, from, q),
         UNCHANGED <<require_auth, table, oauth, sent>>, Fault \/ UNCHANGED faults,
         Sound(q, tokens, role_of, require_auth)
  PROVE  AccessInv'
BY OneMoves, TableStays, OauthStays, Counted, SoundStays

-----------------------------------------------------------------------------
(* What requests become. *)

LEMMA NoRequestSound ==
  /\ NoRequest \in Request
  /\ \A toks, roles, auth : Sound(NoRequest, toks, roles, auth)
<1>1. NoRequest \in Request
  BY AccessAssumption DEF NoRequest, Request, Phases, Ops, Roles
<1> QED
  BY <1>1 DEF NoRequest, Sound

LEMMA OverSound ==
  ASSUME NEW q \in Request, NEW audit \in {"none", "written", "lost"}
  PROVE  /\ Over(q, audit) \in Request /\ Over(q, audit).phase = "over"
         /\ \A toks, roles, auth : Sound(Over(q, audit), toks, roles, auth)
<1>0. NoRequest \in Request /\ NoRequest.phase = "over" /\ q.effect \in BOOLEAN
  BY NoRequestSound DEF NoRequest, Request
<1>1. Over(q, audit) \in Request /\ Over(q, audit).phase = "over"
  BY <1>0, ZenonT(30) DEF Over, Request
<1> QED
  BY <1>1 DEF Sound

\* A request past the check goes on and keeps what the check established.
LEMMA PastCheckSound ==
  ASSUME NEW q \in Request, NEW p \in Request,
         q.phase \notin {"sent", "over"}, p.phase \notin {"sent", "over"},
         p.op = q.op, p.role = q.role, p.late = q.late, p.subject = q.subject,
         NEW toks, NEW roles, NEW auth, Sound(q, toks, roles, auth)
  PROVE  Sound(p, toks, roles, auth)
BY DEF Sound

LEMMA AnsweredSound ==
  ASSUME NEW q \in Request, q.phase \notin {"sent", "over"},
         NEW toks, NEW roles, NEW auth, Sound(q, toks, roles, auth)
  PROVE  Answered(q) \in Request /\ Sound(Answered(q), toks, roles, auth)
<1>1. /\ Answered(q) \in Request /\ Answered(q).phase = "auditing"
      /\ Answered(q).op = q.op /\ Answered(q).role = q.role
      /\ Answered(q).late = q.late /\ Answered(q).subject = q.subject
  BY DEF Answered, Request, Phases
<1> QED
  BY <1>1, PastCheckSound

-----------------------------------------------------------------------------
(* Steps of one request. *)

LEMMA SendKeeps ==
  ASSUME AccessInv, NEW r \in Requests, Send(r)
  PROVE  AccessInv'
<1>1. PICK op \in Ops, t \in {u \in Tokens : role_of[u] # 0} \cup {"none"} :
        \E x \in IF op = "revoke" THEN Tokens
                 ELSE IF op = "complete" THEN States ELSE {"none"} :
          Step(r, "over", [NoRequest EXCEPT !.phase = "sent", !.op = op, !.subject = t,
                           !.of = x, !.late = t # "none" /\ t \notin tokens])
  BY DEF Send
<1>2. PICK x \in Tokens \cup States \cup {"none"} :
        Step(r, "over", [NoRequest EXCEPT !.phase = "sent", !.op = op, !.subject = t,
                         !.of = x, !.late = t # "none" /\ t \notin tokens])
  BY <1>1
<1> DEFINE q == [NoRequest EXCEPT !.phase = "sent", !.op = op, !.subject = t,
                                  !.of = x, !.late = t # "none" /\ t \notin tokens]
<1>3. /\ q \in Request /\ q.phase = "sent" /\ q.effect = FALSE /\ q.subject = t
      /\ q.late = (t # "none" /\ t \notin tokens)
  BY NoRequestSound, ZenonT(30) DEF NoRequest, Request, Phases
<1>4. t # "none" => t \in Tokens /\ role_of[t] # 0
  OBVIOUS
<1> HIDE DEF q
<1>5. Sound(q, tokens, role_of, require_auth)
  BY <1>3, <1>4 DEF Sound
<1>6. /\ CountersOK'
      /\ UNCHANGED <<require_auth, table>> /\ UNCHANGED oauth
  BY AccessAssumption DEF Send, AccessInv, CountersOK
<1>7. Step(r, "over", q)
  BY <1>2 DEF q
<1> QED
  BY <1>3, <1>5, <1>6, <1>7, OneMoves, TableStays, OauthStays, SoundStays

LEMMA AuthenticateKeeps ==
  ASSUME AccessInv, NEW r \in Requests, Authenticate(r)
  PROVE  AccessInv'
<1> DEFINE q == request[r]
           role == Context(q.subject)
           p == [q EXCEPT !.phase = "allowed", !.role = role]
<1>0. q \in Request /\ Sound(q, tokens, role_of, require_auth)
  BY DEF AccessInv
<1>1. UNCHANGED <<require_auth, table, oauth, sent>>
  BY DEF Authenticate
<1>2. CASE Step(r, "sent", NoRequest) /\ (Fault \/ UNCHANGED faults)
  BY <1>1, <1>2, NoRequestSound, OnlyRequestMoves
<1>3. CASE /\ role # 0 /\ role >= Required(q.op)
           /\ Step(r, "sent", p) /\ UNCHANGED faults
  <2>1. /\ role \in Roles
        /\ IF q.subject = "none" THEN ~require_auth
           ELSE q.subject \in tokens /\ role_of[q.subject] = role
    BY <1>0, <1>3 DEF Context, AccessInv, TableOK, Roles, Request
  <2>2. q.phase = "sent"
    BY <1>3 DEF Step
  <2>3. /\ p \in Request /\ p.phase = "allowed" /\ p.role = role
        /\ p.op = q.op /\ p.late = q.late /\ p.subject = q.subject
    BY <1>0, <2>1 DEF Request, Phases
  <2>4. ~q.late
    BY <1>0, <2>1, <2>2, AccessAssumption DEF Sound
  <2>5. q.subject # "none" => q.subject \in Tokens
    BY <2>1 DEF AccessInv, TableOK
  <2> HIDE DEF role, p
  <2>6. Sound(p, tokens, role_of, require_auth)
    BY <1>3, <2>1, <2>3, <2>4, <2>5 DEF Sound
  <2> QED
    BY <1>1, <1>3, <2>3, <2>6, OnlyRequestMoves
<1> QED
  BY <1>2, <1>3 DEF Authenticate

\* The effect of a handler that has been allowed.
LEMMA EffectedSound ==
  ASSUME AccessInv, NEW r \in Requests, Effected(r)
  PROVE  /\ request[r].phase = "allowed"
         /\ [request[r] EXCEPT !.phase = "effected", !.effect = TRUE] \in Request
         /\ Step(r, "allowed", [request[r] EXCEPT !.phase = "effected", !.effect = TRUE])
         /\ Sound([request[r] EXCEPT !.phase = "effected", !.effect = TRUE],
                  tokens, role_of, require_auth)
<1> DEFINE q == request[r]
           p == [q EXCEPT !.phase = "effected", !.effect = TRUE]
<1>1. q \in Request /\ Sound(q, tokens, role_of, require_auth)
  BY DEF AccessInv
<1>2. q.phase = "allowed" /\ Step(r, "allowed", p)
  BY DEF Effected, Step
<1>3. /\ p \in Request /\ p.phase = "effected" /\ p.role = q.role
      /\ p.op = q.op /\ p.late = q.late /\ p.subject = q.subject
  BY <1>1 DEF Request, Phases
<1> HIDE DEF p
<1>4. Sound(p, tokens, role_of, require_auth)
  BY <1>1, <1>2, <1>3, PastCheckSound
<1> QED
  BY <1>2, <1>3, <1>4 DEF p

LEMMA WriteKeeps ==
  ASSUME AccessInv, NEW r \in Requests, Write(r)
  PROVE  AccessInv'
BY EffectedSound, OnlyRequestMoves DEF Write

LEMMA GrantKeeps ==
  ASSUME AccessInv, NEW r \in Requests, Grant(r)
  PROVE  AccessInv'
<1> DEFINE q == request[r]
<1>0. /\ q \in Request /\ q.phase = "allowed" /\ q.op = "grant"
      /\ Sound(q, tokens, role_of, require_auth)
  BY EffectedSound DEF Grant, AccessInv
<1> HIDE DEF q
<1>b. q.role \in {0, 1, 2, 3} /\ q.role >= 3
  BY <1>0 DEF Sound, Required, Request, Roles, Viewer, Editor, Admin
<1>1. request[r].role = Admin
  BY <1>b DEF q, Admin
<1>2. PICK t \in Tokens, role \in Roles : Insert(t, role, Admin)
  BY <1>1 DEF Grant
<1>3. UNCHANGED require_auth /\ UNCHANGED oauth /\ UNCHANGED sent /\ UNCHANGED faults
  BY DEF Grant
<1> QED
  BY <1>2, <1>3, EffectedSound, TableInserts, OauthStays, Counted, OneMoves, SoundStays
     DEF Grant

LEMMA RevokeKeeps ==
  ASSUME AccessInv, NEW r \in Requests, Revoke(r)
  PROVE  AccessInv'
<1>1. TableGrows /\ TableOK'
  BY DEF Revoke, AccessInv, TableOK, TableGrows
<1>2. UNCHANGED oauth /\ UNCHANGED sent /\ UNCHANGED faults /\ Effected(r)
  BY DEF Revoke
<1> QED
  BY <1>1, <1>2, EffectedSound, OauthStays, Counted, OneMoves, SoundStays

\* Handlers that answer.
LEMMA AnswerKeeps ==
  ASSUME AccessInv, NEW r \in Requests,
         NEW from \in Phases \ {"sent", "over"}, Step(r, from, Answered(request[r])),
         UNCHANGED <<require_auth, table, oauth, sent>>, Fault \/ UNCHANGED faults
  PROVE  AccessInv'
BY AnsweredSound, OnlyRequestMoves DEF AccessInv, Step

LEMMA RefuseKeeps ==
  ASSUME AccessInv, NEW r \in Requests, Refuse(r) \/ Respond(r)
  PROVE  AccessInv'
BY AnswerKeeps DEF Refuse, Respond, Phases

LEMMA ExchangeKeeps ==
  ASSUME AccessInv, NEW r \in Requests, Exchange(r)
  PROVE  AccessInv'
<1> DEFINE q == request[r]
<1>0. q \in Request /\ Sound(q, tokens, role_of, require_auth)
  BY DEF AccessInv
<1>1. CASE Step(r, "exchanging", Answered(q))
  BY <1>1, AnswerKeeps DEF Exchange, Phases
<1>2. ASSUME NEW n \in 0..MaxFields,
             Step(r, "exchanging", [q EXCEPT !.phase = "sealing", !.left = n])
      PROVE  AccessInv'
  <2> DEFINE p == [q EXCEPT !.phase = "sealing", !.left = n]
  <2>1. /\ p \in Request /\ p.phase = "sealing" /\ p.role = q.role
        /\ p.op = q.op /\ p.late = q.late /\ p.subject = q.subject
    BY <1>0 DEF Request, Phases
  <2>2. q.phase = "exchanging" /\ Step(r, "exchanging", p)
    BY <1>2 DEF Step
  <2> HIDE DEF p
  <2>3. Sound(p, tokens, role_of, require_auth)
    BY <1>0, <2>1, <2>2, PastCheckSound
  <2> QED
    BY <2>1, <2>2, <2>3, OnlyRequestMoves DEF Exchange
<1> QED
  BY <1>1, <1>2 DEF Exchange

LEMMA SealKeeps ==
  ASSUME AccessInv, NEW r \in Requests, Seal(r)
  PROVE  AccessInv'
<1> DEFINE q == request[r]
           next == [q EXCEPT !.left = @ - 1, !.effect = TRUE]
           cut == [q EXCEPT !.left = 0]
<1>0. q \in Request /\ Sound(q, tokens, role_of, require_auth)
  BY DEF AccessInv
<1>1. UNCHANGED <<require_auth, table, oauth, sent>>
  BY DEF Seal
<1>2. q.left \in 0..MaxFields
  BY <1>0 DEF Request
<1>3. CASE q.left > 0 /\ Step(r, "sealing", next) /\ UNCHANGED faults
  <2>1. q.left - 1 \in 0..MaxFields
    BY <1>2, <1>3, AccessAssumption
  <2>2. /\ next \in Request /\ next.phase = q.phase /\ next.role = q.role
        /\ next.op = q.op /\ next.late = q.late /\ next.subject = q.subject
    BY <1>0, <2>1 DEF Request
  <2>3. q.phase = "sealing"
    BY <1>3 DEF Step
  <2> HIDE DEF next
  <2>4. Sound(next, tokens, role_of, require_auth)
    BY <1>0, <2>2, <2>3, PastCheckSound
  <2> QED
    BY <1>1, <1>3, <2>2, <2>4, OnlyRequestMoves
<1>4. CASE Step(r, "sealing", Answered(cut)) /\ Fault
  <2>1. /\ cut \in Request /\ cut.phase = q.phase /\ cut.role = q.role
        /\ cut.op = q.op /\ cut.late = q.late /\ cut.subject = q.subject
    BY <1>0, AccessAssumption DEF Request
  <2>2. q.phase = "sealing"
    BY <1>4 DEF Step
  <2> HIDE DEF cut
  <2>3. Sound(cut, tokens, role_of, require_auth)
    BY <1>0, <2>1, <2>2, PastCheckSound
  <2>4. Answered(cut) \in Request /\ Sound(Answered(cut), tokens, role_of, require_auth)
    BY <2>1, <2>2, <2>3, AnsweredSound
  <2> QED
    BY <1>1, <1>4, <2>4, OnlyRequestMoves
<1>5. CASE Step(r, "sealing", Answered(q)) /\ UNCHANGED faults
  BY <1>1, <1>5, AnswerKeeps DEF Phases
<1> QED
  BY <1>3, <1>4, <1>5 DEF Seal

LEMMA RecordKeeps ==
  ASSUME AccessInv, NEW r \in Requests, Record(r)
  PROVE  AccessInv'
<1>1. request[r] \in Request
  BY DEF AccessInv
<1> QED
  BY <1>1, OverSound, OnlyRequestMoves DEF Record

-----------------------------------------------------------------------------
(* The OAuth states. *)

LEMMA AuthorizeKeeps ==
  ASSUME AccessInv, NEW r \in Requests, AuthorizeUrl(r)
  PROVE  AccessInv'
<1> DEFINE s == CHOOSE u \in States : u \notin given
<1>1. s \in States \ given
  BY DEF AuthorizeUrl
<1>2. /\ given' = given \cup {s} /\ spent' = spent
      /\ oauth_states' = {k \in oauth_states : ~Expired(k)} \cup {s}
      /\ age' = [age EXCEPT ![s] = 0]
  BY DEF AuthorizeUrl
<1> HIDE DEF s
<1>3. OauthOK'
  BY <1>1, <1>2, AccessAssumption DEF AccessInv, OauthOK, Expired
<1>4. /\ Step(r, "allowed", Answered(request[r]))
      /\ UNCHANGED <<require_auth, table>> /\ UNCHANGED sent /\ UNCHANGED faults
  BY DEF AuthorizeUrl
<1>5. /\ Answered(request[r]) \in Request
      /\ Sound(Answered(request[r]), tokens, role_of, require_auth)
  BY <1>4, AnsweredSound DEF AccessInv, Step
<1> QED
  BY <1>3, <1>4, <1>5, OneMoves, TableStays, Counted, SoundStays

LEMMA PresentKeeps ==
  ASSUME AccessInv, NEW r \in Requests, Present(r)
  PROVE  AccessInv'
<1> DEFINE q == request[r]
           p == [q EXCEPT !.phase = "exchanging"]
<1>1. OauthOK'
  BY DEF Present, AccessInv, OauthOK, Expired
<1>2. /\ Step(r, "allowed", p) \/ Step(r, "allowed", Answered(q))
      /\ UNCHANGED <<require_auth, table>> /\ UNCHANGED sent /\ UNCHANGED faults
  BY DEF Present
<1>3. /\ q \in Request /\ q.phase = "allowed"
      /\ Sound(q, tokens, role_of, require_auth)
  BY <1>2 DEF AccessInv, Step
<1>4. /\ p \in Request /\ p.phase = "exchanging" /\ p.role = q.role
      /\ p.op = q.op /\ p.late = q.late /\ p.subject = q.subject
  BY <1>3 DEF Request, Phases
<1> HIDE DEF p
<1>5. Sound(p, tokens, role_of, require_auth)
  BY <1>3, <1>4, PastCheckSound
<1>6. Answered(q) \in Request /\ Sound(Answered(q), tokens, role_of, require_auth)
  BY <1>3, AnsweredSound
<1>7. TableGrows /\ TableOK' /\ CountersOK'
  BY <1>2, TableStays, Counted
<1>8. CASE Step(r, "allowed", p)
  BY <1>1, <1>4, <1>5, <1>7, <1>8, OneMoves, SoundStays
<1>9. CASE Step(r, "allowed", Answered(q))
  BY <1>1, <1>6, <1>7, <1>9, OneMoves, SoundStays
<1> QED
  BY <1>2, <1>8, <1>9

-----------------------------------------------------------------------------
(* Steps of nobody's request. *)

LEMMA CreateTokenKeeps ==
  ASSUME AccessInv, NEW t \in Tokens, NEW role \in Roles, CreateToken(t, role)
  PROVE  AccessInv'
<1>1. TableGrows /\ TableOK'
  BY TableInserts DEF CreateToken
<1>2. OauthOK' /\ CountersOK' /\ request' = request
  BY OauthStays, Counted DEF CreateToken
<1>3. ASSUME NEW p \in Requests
      PROVE  Sound(request[p], tokens', role_of', require_auth')
  BY <1>1, SoundStays DEF AccessInv
<1> QED
  BY <1>1, <1>2, <1>3 DEF AccessInv, TableGrows

LEMMA DisconnectKeeps ==
  ASSUME AccessInv, NEW r \in Requests, Disconnect(r)
  PROVE  AccessInv'
<1> DEFINE q == request[r]
<1>1. q \in Request /\ q.phase # "over"
  BY DEF Disconnect, AccessInv
<1>2. Step(r, q.phase, Over(q, "lost"))
  BY <1>1 DEF Disconnect, Step, Lost
<1>3. UNCHANGED <<require_auth, table, oauth, sent>> /\ Fault
  BY DEF Disconnect
<1> QED
  BY <1>1, <1>2, <1>3, OverSound, OnlyRequestMoves

LEMMA CrashKeeps ==
  ASSUME AccessInv, Crash
  PROVE  AccessInv'
<1>1. ASSUME NEW r \in Requests
      PROVE  /\ Lost(request[r]) \in Request
             /\ \A toks, roles, auth : Sound(Lost(request[r]), toks, roles, auth)
  <2>1. request[r] \in Request
    BY DEF AccessInv
  <2>2. CASE request[r].phase = "over"
    BY <2>1, <2>2 DEF Lost, Sound
  <2> QED
    BY <2>1, <2>2, OverSound DEF Lost
<1>2. request' \in [Requests -> Request]
  BY <1>1 DEF Crash
<1>3. \A r \in Requests : Sound(request'[r], tokens', role_of', require_auth')
  BY <1>1 DEF Crash
<1>4. OauthOK'
  BY AccessAssumption DEF Crash, AccessInv, OauthOK, Expired
<1>5. TableOK' /\ CountersOK' /\ require_auth' = require_auth
  BY TableStays, Counted DEF Crash
<1> QED
  BY <1>2, <1>3, <1>4, <1>5 DEF AccessInv

LEMMA TickKeeps ==
  ASSUME AccessInv, Tick
  PROVE  AccessInv'
<1>1. ASSUME NEW s \in States
      PROVE  /\ age'[s] \in 0..TTL
             /\ s \in given /\ age'[s] < TTL => age[s] < TTL
  BY AccessAssumption DEF Tick, AccessInv, OauthOK, Expired
<1>2. /\ age' \in [States -> 0..TTL]
      /\ \A s \in given \ spent : ~(age'[s] >= TTL) => s \in oauth_states
  <2>1. DOMAIN age' = States /\ age' = [s \in States |-> age'[s]]
    BY DEF Tick
  <2>2. age' \in [States -> 0..TTL]
    BY <1>1, <2>1
  <2>3. ASSUME NEW s \in given \ spent, ~(age'[s] >= TTL)
        PROVE  s \in oauth_states
    <3>1. s \in States /\ age[s] \in 0..TTL /\ age'[s] \in 0..TTL
      BY <1>1 DEF AccessInv, OauthOK
    <3> QED
      BY <1>1, <2>3, <3>1, AccessAssumption DEF AccessInv, OauthOK, Expired
  <2> QED
    BY <2>2, <2>3
<1>3. OauthOK'
  BY <1>2 DEF Tick, AccessInv, OauthOK, Expired
<1>4. /\ TableGrows /\ TableOK' /\ CountersOK' /\ request' = request
      /\ require_auth' = require_auth /\ tokens' = tokens /\ role_of' = role_of
  BY TableStays, Counted DEF Tick, table
<1> QED
  BY <1>3, <1>4 DEF AccessInv

LEMMA InvStep == AccessInv /\ [Next]_vars => AccessInv'
<1> SUFFICES ASSUME AccessInv, [Next]_vars PROVE AccessInv'
  OBVIOUS
<1>1. ASSUME NEW r \in Requests, Serve(r)
      PROVE  AccessInv'
  BY <1>1, AuthenticateKeeps, WriteKeeps, GrantKeeps, RevokeKeeps, RefuseKeeps,
     AuthorizeKeeps, PresentKeeps, SealKeeps, RecordKeeps DEF Serve
<1>2. ASSUME NEW r \in Requests, Send(r) \/ Exchange(r) \/ Disconnect(r)
      PROVE  AccessInv'
  BY <1>2, SendKeeps, ExchangeKeeps, DisconnectKeeps
<1>3. ASSUME NEW t \in ByCommand, NEW role \in Roles, CreateToken(t, role)
      PROVE  AccessInv'
  BY <1>3, CreateTokenKeeps, AccessAssumption
<1>4. CASE UNCHANGED vars
  <2>1. /\ UNCHANGED <<require_auth, table>> /\ UNCHANGED oauth
        /\ UNCHANGED <<request, sent, faults>>
    BY <1>4 DEF vars, table, oauth
  <2>2. TableOK' /\ OauthOK' /\ CountersOK'
    BY <2>1, TableStays, OauthStays, Counted
  <2> QED
    BY <2>1, <2>2 DEF AccessInv, table
<1> QED
  BY <1>1, <1>2, <1>3, <1>4, CrashKeeps, TickKeeps DEF Next

LEMMA InitInv == Init => AccessInv
<1> SUFFICES ASSUME Init PROVE AccessInv
  OBVIOUS
<1>1. /\ request \in [Requests -> Request]
      /\ \A r \in Requests : Sound(request[r], tokens, role_of, require_auth)
  BY NoRequestSound DEF Init
<1>2. TableOK /\ CountersOK /\ require_auth \in BOOLEAN
  BY AccessAssumption DEF Init, TableOK, CountersOK, Roles
<1>3. OauthOK
  BY AccessAssumption DEF Init, OauthOK
<1> QED
  BY <1>1, <1>2, <1>3 DEF AccessInv

-----------------------------------------------------------------------------

\* Every variable of Access keeps its type.
THEOREM TypeCorrect == Spec => []TypeOK
  BY InitInv, InvStep, InvTypes, PTL DEF Spec

\* auth.rs, required_role and layer: nobody acts beyond the role of the token
\* presented, whatever is deleted or created between the check and the effect.
THEOREM WithinRole == Spec => []ActsWithinRole
<1>1. AccessInv => ActsWithinRole
  <2> SUFFICES ASSUME AccessInv PROVE ActsWithinRole
    OBVIOUS
  <2>1. ASSUME NEW r \in Requests, request[r].effect, request[r].phase # "over"
        PROVE  /\ request[r].role >= Editor /\ ~request[r].late
               /\ request[r].op \in {"grant", "revoke"} => request[r].role = Admin
               /\ IF request[r].subject = "none" THEN ~require_auth
                  ELSE request[r].role = role_of[request[r].subject]
    <3> DEFINE q == request[r]
    <3>1. /\ q \in Request /\ Sound(q, tokens, role_of, require_auth)
          /\ q.phase \notin {"sent", "over"}
      BY <2>1 DEF AccessInv, Sound
    <3> HIDE DEF q
    <3>2. q.role \in {0, 1, 2, 3} /\ q.role >= Required(q.op) /\ ~q.late
      BY <3>1 DEF Sound, Request, Roles, Viewer, Editor, Admin
    <3>3. q.role >= Editor /\ (q.op \in {"grant", "revoke"} => q.role = Admin)
      BY <3>2 DEF Required, Editor, Admin
    <3>4. IF q.subject = "none" THEN ~require_auth ELSE q.role = role_of[q.subject]
      BY <3>1 DEF Sound
    <3> QED
      BY <3>2, <3>3, <3>4 DEF q
  <2> QED
    BY <2>1 DEF ActsWithinRole, AccessInv, TableOK
<1> QED
  BY <1>1, InitInv, InvStep, PTL DEF Spec

\* oauth.rs: a state is honoured if and only if this process issued it within the
\* last TTL and nobody presented it before.
THEOREM HonouredOnce == Spec => StatesHonoured
<1> DEFINE Honours(r) ==
      /\ request[r].phase = "allowed" /\ request[r].op = "complete"
      /\ request'[r].phase \in {"exchanging", "auditing"}
      => (request'[r].phase = "exchanging"
            <=> request[r].of \in given \ spent /\ ~Expired(request[r].of))
<1>1. ASSUME AccessInv, [Next]_vars, NEW r \in Requests,
             request[r].phase = "allowed", request[r].op = "complete",
             request'[r].phase \in {"exchanging", "auditing"}
      PROVE  Present(r)
  <2>1. request' # request /\ request'[r] # request[r]
    BY <1>1
  <2>2. ASSUME NEW p \in Requests,
               Send(p) \/ Serve(p) \/ Exchange(p) \/ Disconnect(p)
        PROVE  p = r
    BY <2>1, <2>2, <1>1 DEF Send, Serve, Exchange, Disconnect, Step, AccessInv,
      Authenticate, Write, Grant, Revoke, Refuse, Respond, AuthorizeUrl, Present, Seal,
      Record, Effected
  <2>3. ~Send(r) /\ ~Exchange(r) /\ ~Authenticate(r) /\ ~Respond(r) /\ ~Seal(r) /\ ~Record(r)
    BY <1>1 DEF Send, Exchange, Authenticate, Respond, Seal, Record, Step
  <2>4. ~Write(r) /\ ~Grant(r) /\ ~Revoke(r) /\ ~Refuse(r) /\ ~AuthorizeUrl(r)
    BY <1>1 DEF Write, Grant, Revoke, Refuse, AuthorizeUrl
  <2>5. ~Disconnect(r) /\ ~Crash
    <3>1. request[r] \in Request /\ Lost(request[r]).phase = "over"
      BY <1>1, OverSound DEF AccessInv, Lost
    <3>2. Disconnect(r) \/ Crash => request'[r] = Lost(request[r])
      BY <1>1 DEF Disconnect, Crash, AccessInv
    <3> QED
      BY <1>1, <3>1, <3>2
  <2>6. ~Tick /\ ~UNCHANGED vars /\ \A t \in Tokens, role \in Roles : ~CreateToken(t, role)
    BY <2>1 DEF Tick, vars, CreateToken
  <2> QED
    BY <1>1, <2>2, <2>3, <2>4, <2>5, <2>6, AccessAssumption DEF Next, Serve
<1>2. ASSUME AccessInv, NEW r \in Requests, Present(r)
      PROVE  Honours(r)
  <2>1. request[r] \in Request
    BY <1>2 DEF AccessInv
  <2>2. request[r].of \in oauth_states /\ ~Expired(request[r].of)
          <=> request[r].of \in given \ spent /\ ~Expired(request[r].of)
    BY <1>2 DEF AccessInv, OauthOK
  <2>3. /\ [request[r] EXCEPT !.phase = "exchanging"].phase = "exchanging"
        /\ Answered(request[r]).phase = "auditing"
    BY <2>1 DEF Answered, Request
  <2> QED
    BY <1>2, <2>1, <2>2, <2>3 DEF Present, Step, AccessInv
<1>3. AccessInv /\ [Next]_vars => [\A r \in Requests : Honours(r)]_vars
  BY <1>1, <1>2
<1> QED
  BY <1>3, InitInv, InvStep, PTL DEF Spec, StatesHonoured
=============================================================================
