---------------------------- MODULE TokenService ----------------------------
(***************************************************************************)
(* Minting, introspecting, invalidating and upgrading tokens:              *)
(* src/handlers/token.ts over src/utils/jwt.ts and                         *)
(* src/utils/redis_storage.ts, and the last step of a login, the call of   *)
(* getGenerateToken in src/handlers/spid.ts.                               *)
(*                                                                         *)
(* Requests are served concurrently by any number of instances that share  *)
(* one Redis.  A request is a record of what its handler holds between two *)
(* awaits.  Everything a handler does between two awaits is one step, and  *)
(* a Redis command takes effect in the step that receives its reply; other *)
(* requests, the clock and crashes come between any two steps.             *)
(*                                                                         *)
(* The service runs in one of two modes.  With ENABLE_JWT a token is a     *)
(* signed payload, nothing is stored when it is minted, and /invalidate    *)
(* blacklists it.  Without, a token is a random name of a session in       *)
(* Redis, and /invalidate deletes the session.                             *)
(***************************************************************************)
EXTENDS TokenUsers, RedisStore, FiniteSets

CONSTANTS
  Token,             \* the token strings that can be minted
  Junk,              \* any other string: neither a session nor a JWT
  Req,               \* slots for requests being served
  Epoch, MaxNow,     \* Unix time when the history starts, and when it ends
  ENABLE_JWT, INCLUDE_SPID_USER_ON_INTROSPECTION,
  LoginUser          \* the users logins are for

ASSUME TokenAssumption == Junk \notin Token /\ Missing \notin Token \union {Junk}

ASSUME ModeAssumption ==
  /\ ENABLE_JWT \in BOOLEAN
  /\ INCLUDE_SPID_USER_ON_INTROSPECTION \in BOOLEAN

ASSUME LoginAssumption ==
  \A u \in LoginUser : u \in UserShape /\ Issuable(u)

\* Unix time is counted from 1970: it more than doubles no sooner than 2070.
ASSUME HorizonAssumption ==
  /\ Epoch \in Nat \ {0}
  /\ MaxNow \in Nat
  /\ Epoch <= MaxNow
  /\ MaxNow < 2 * Epoch

VARIABLES
  now,        \* the clock Redis and the instances share, in seconds
  session,    \* session-token:<token> -> the user, in Redis
  blacklist,  \* session-token-invalidate:<token> -> true, in Redis
  minted,     \* the tokens generated so far
  claims,     \* what a minted token says, and what it was minted from
  handed,     \* the tokens some client was given
  asked,      \* the tokens whose invalidation was ever requested
  revoked,    \* the tokens whose invalidation was answered 200
  req         \* the requests being served

store == <<session, blacklist>>
tokens == <<minted, claims, handed>>
history == <<asked, revoked>>
vars == <<now, store, tokens, history, req>>

TokenStr == Token \union {Junk}

(***************************************************************************)
(* Answers.                                                                *)
(***************************************************************************)
Status(code) == [status |-> code, active |-> FALSE, level |-> Missing,
                 user |-> Missing, token |-> Missing]

NoAnswer == Status(0)

Active == [Status(200) EXCEPT !.active = TRUE]

\* 200, with the user only where the configuration includes it.
ActiveUser(u) ==
  [status |-> 200, active |-> TRUE, level |-> u.level,
   user |-> IF INCLUDE_SPID_USER_ON_INTROSPECTION THEN u ELSE Missing,
   token |-> Missing]

(***************************************************************************)
(* Requests.  pc names the reply the handler waits for; tok is the token   *)
(* the request reads, and header tells of an upgrade whether tok also is   *)
(* the token in the L1 token header; stale records that tok had been       *)
(* invalidated, with the client told so, before the request began.         *)
(***************************************************************************)
Idle == [pc |-> "idle", op |-> "none", tok |-> Missing, header |-> FALSE,
         org |-> Missing, user |-> Missing, stale |-> FALSE, res |-> NoAnswer]

Free(r) == req[r].pc \in {"idle", "done"}

Goto(r, pc) == req' = [req EXCEPT ![r].pc = pc]

\* The answer is sent.  What the handler kept for itself is forgotten, and of a
\* request that was refused nothing but the answer is remembered.
Answered(record, res) ==
  IF res.status = 200
  THEN [record EXCEPT !.pc = "done", !.org = Missing, !.user = Missing,
                      !.res = res]
  ELSE [Idle EXCEPT !.pc = "done", !.op = record.op, !.res = res]

Answer(r, res) == req' = [req EXCEPT ![r] = Answered(req[r], res)]

\* The record of a request that begins, waiting for its first reply at pc.
Begun(op, pc, tok) ==
  [Idle EXCEPT !.op = op, !.pc = pc, !.tok = tok, !.stale = tok \in revoked]

-----------------------------------------------------------------------------
(***************************************************************************)
(* POST /introspect, getIntrospectHandler: first the blacklist, whatever   *)
(* the mode; with JWT nothing else, neither signature nor expiry.          *)
(***************************************************************************)
Introspect(r, t) ==
  /\ Free(r)
  /\ req' = [req EXCEPT ![r] = Begun("introspect", "exists", t)]
  /\ UNCHANGED <<now, store, tokens, history>>

IntrospectChecked(r) ==
  /\ req[r].pc = "exists"
  /\ \/ Answer(r, Status(500))                    \* the command failed
     \/ /\ Exists(blacklist, req[r].tok, now)
        /\ Answer(r, Status(403))
     \/ /\ ~Exists(blacklist, req[r].tok, now)
        /\ ENABLE_JWT
        /\ Answer(r, Active)
     \/ /\ ~Exists(blacklist, req[r].tok, now)
        /\ ~ENABLE_JWT
        /\ Goto(r, "get")
  /\ UNCHANGED <<now, store, tokens, history>>

\* What the session found says of its user, if it still is the user of a token.
SessionAnswer(raw) ==
  LET user == DecodeAnyTokenUser(raw)
  IN  IF user = Missing THEN Status(500) ELSE ActiveUser(user)

\* Slip: a session that is not there is looked for again.
IntrospectReadAgain(r) ==
  /\ req[r].pc = "get"
  /\ IF Get(session, req[r].tok, now) = Missing THEN Goto(r, "exists")
     ELSE Answer(r, SessionAnswer(Get(session, req[r].tok, now)))
  /\ UNCHANGED <<now, store, tokens, history>>

IntrospectRead(r) ==
  LET raw == Get(session, req[r].tok, now)
  IN  /\ req[r].pc = "get"
      /\ \/ Answer(r, Status(500))                \* the command failed
         \/ raw = Missing /\ Answer(r, Status(404))
         \/ raw # Missing /\ Answer(r, SessionAnswer(raw))
      /\ UNCHANGED <<now, store, tokens, history>>

(***************************************************************************)
(* POST /invalidate, getInvalidateHandler.                                 *)
(***************************************************************************)
Invalidate(r, t) ==
  /\ Free(r)
  /\ IF ENABLE_JWT /\ t \notin Token
     THEN \* not a JWT: extractJwtRemainingValidTime fails
          req' = [req EXCEPT ![r] =
                   Answered(Begun("invalidate", "setex", t), Status(500))]
     ELSE req' = [req EXCEPT ![r] =
                   Begun("invalidate", IF ENABLE_JWT THEN "setex" ELSE "del", t)]
  /\ asked' = asked \union ({t} \intersect Token)
  /\ UNCHANGED <<now, store, tokens, revoked>>

\* Slip: the time the token has left, which its name promises.
BlacklistTtlRemaining(t) == claims[t].exp - now

\* The time to live handed to SETEX: the claim exp as it stands in the token.
BlacklistTtl(t) == claims[t].exp

\* 200 as soon as Redis answered, whatever DEL counted; 500 otherwise.
InvalidateAnswer(r, outcome) ==
  /\ Answer(r, IF Acknowledged(outcome) THEN Status(200) ELSE Status(500))
  /\ revoked' = IF Acknowledged(outcome)
            THEN revoked \union ({req[r].tok} \intersect Token)
            ELSE revoked

InvalidateBlacklist(r) ==
  LET t == req[r].tok
  IN  /\ req[r].pc = "setex"
      /\ \E outcome \in SetExOutcomes(BlacklistTtl(t)) :
           /\ blacklist' = IF Landed(outcome)
                           THEN SetEx(blacklist, t, "true", BlacklistTtl(t), now)
                           ELSE blacklist
           /\ InvalidateAnswer(r, outcome)
      /\ UNCHANGED <<now, session, tokens, asked>>

InvalidateDelete(r) ==
  /\ req[r].pc = "del"
  /\ \E outcome \in WriteOutcome :
       /\ session' = IF Landed(outcome) THEN Del(session, req[r].tok)
                                        ELSE session
       /\ InvalidateAnswer(r, outcome)
  /\ UNCHANGED <<now, blacklist, tokens, asked>>

(***************************************************************************)
(* POST /upgradeToken, upgradeTokenHandler; the route exists only with the *)
(* attribute authority.  The raw user comes from the JWT in the header,    *)
(* decoded and not verified, or from the session named in the body.        *)
(***************************************************************************)
UpgradeRefusal(user, org) ==
  IF user = Missing THEN 400                      \* not an L1 user
  ELSE IF ~user.from_aa THEN 500                  \* without companies
  ELSE IF FindCompany(user.companies, org) = Missing THEN 404
  ELSE 0

\* The request record once the raw user is known: refused, or about to mint.
Upgraded(record, raw) ==
  LET user    == DecodeTokenUser(raw)
      refusal == UpgradeRefusal(user, record.org)
  IN  IF refusal # 0
      THEN Answered(record, Status(refusal))
      ELSE [record EXCEPT !.pc = "mint",
              !.user = ToTokenUserL2(user, FindCompany(user.companies, record.org))]

\* A body without a good organization_fiscal_code, no L1 token header, or, with
\* JWT, no JWT in that header.
UpgradeRejected(r) ==
  /\ ENABLE_ADE_AA
  /\ Free(r)
  /\ req' = [req EXCEPT ![r] =
              Answered(Begun("upgrade", "load", Missing), Status(400))]
  /\ UNCHANGED <<now, store, tokens, history>>

\* With sessions, t is the token in the body, and inHeader tells whether it is
\* the one in the header too: the header has to be there, and is not used.
UpgradeSession(r, t, org, inHeader) ==
  /\ ENABLE_ADE_AA
  /\ ~ENABLE_JWT
  /\ Free(r)
  /\ req' = [req EXCEPT ![r] = [Begun("upgrade", "load", t)
                                  EXCEPT !.header = inHeader, !.org = org]]
  /\ UNCHANGED <<now, store, tokens, history>>

\* With JWT, t is the token in the header, and the body's is not used.
UpgradeJwt(r, t, org) ==
  /\ ENABLE_ADE_AA
  /\ ENABLE_JWT
  /\ Free(r)
  /\ req' = [req EXCEPT ![r] =
              Upgraded([Begun("upgrade", "load", t)
                          EXCEPT !.header = TRUE, !.org = org], claims[t].user)]
  /\ UNCHANGED <<now, store, tokens, history>>

UpgradeLoad(r) ==
  LET raw == Get(session, req[r].tok, now)
  IN  /\ req[r].pc = "load"
      /\ \/ Answer(r, Status(500))                \* the command failed
         \/ raw = Missing /\ Answer(r, Status(404))
         \/ raw # Missing /\ req' = [req EXCEPT ![r] = Upgraded(req[r], raw)]
      /\ UNCHANGED <<now, store, tokens, history>>

(***************************************************************************)
(* getGenerateToken, at the end of a login (POST /acs) and of an upgrade.  *)
(* The random strings never repeat.  A JWT cannot be signed, whoever it is *)
(* for, where the configured key is no RSA key.                            *)
(***************************************************************************)
GetGenerateToken(r, u) ==
  /\ Free(r)
  /\ req' = [req EXCEPT ![r] = [Begun("login", "mint", Missing) EXCEPT !.user = u]]
  /\ UNCHANGED <<now, store, tokens, history>>

NewClaims(r) ==
  [user |-> req[r].user,
   iat |-> now, exp |-> now + GetTokenExpiration(req[r].user),
   parent |-> req[r].tok, org |-> req[r].org]

Generated(r, t) ==
  /\ minted' = minted \union {t}
  /\ claims' = [claims EXCEPT ![t] = NewClaims(r)]

\* A login redirects with the token in the fragment; an upgrade sends it.
HandOver(r, t) ==
  /\ handed' = handed \union {t}
  /\ LET code == IF req[r].op = "login" THEN 301 ELSE 200
     IN  Answer(r, [Status(code) EXCEPT !.token = t])

\* Slip: names that repeat, as those derived from the user would.
RepeatedToken == Token

\* A name no token had before: 32 random bytes, or a ulid within the claims.
NewToken == Token \ minted

MintJwt(r) ==
  /\ req[r].pc = "mint"
  /\ ENABLE_JWT
  /\ \/ /\ Answer(r, Status(500))                 \* the key does not sign
        /\ UNCHANGED tokens
     \/ \E t \in NewToken : Generated(r, t) /\ HandOver(r, t)
  /\ UNCHANGED <<now, store, history>>

\* Slip: the lifetime of the mode without the authority, whatever the mode.
SessionTtlOfOneMode(u) == TOKEN_EXPIRATION

\* The time to live handed to SETEX.
SessionTtl(u) == GetTokenExpiration(u)

\* A session whose SETEX lost its reply is in Redis under a name nobody knows.
MintSession(r) ==
  LET ttl == SessionTtl(req[r].user)
  IN  /\ req[r].pc = "mint"
      /\ ~ENABLE_JWT
      /\ \/ /\ Answer(r, Status(500))             \* SETEX refused
            /\ UNCHANGED <<session, tokens>>
         \/ \E t \in NewToken, outcome \in SetExOutcomes(ttl) \ {"refused"} :
              /\ Generated(r, t)
              /\ session' = SetEx(session, t, req[r].user, ttl, now)
              /\ IF Acknowledged(outcome) THEN HandOver(r, t)
                 ELSE Answer(r, Status(500)) /\ UNCHANGED handed
      /\ UNCHANGED <<now, blacklist, history>>

-----------------------------------------------------------------------------
Tick ==
  /\ now < MaxNow
  /\ now' = now + 1
  /\ UNCHANGED <<store, tokens, history, req>>

\* An instance stops, and with it the requests it was serving.  The commands it
\* had sent took effect or not, as they do when only their reply is lost.
Crash(served) ==
  /\ \A r \in served : ~Free(r)
  /\ req' = [r \in Req |-> IF r \in served THEN Idle ELSE req[r]]
  /\ UNCHANGED <<now, store, tokens, history>>

NoClaims == [user |-> Missing, iat |-> 0, exp |-> 0,
             parent |-> Missing, org |-> Missing]

Init ==
  /\ now = Epoch
  /\ session = [t \in TokenStr |-> Absent]
  /\ blacklist = [t \in TokenStr |-> Absent]
  /\ minted = {}
  /\ claims = [t \in Token |-> NoClaims]
  /\ handed = {}
  /\ asked = {}
  /\ revoked = {}
  /\ req = [r \in Req |-> Idle]

\* What clients can send as a token.
Sendable == handed \union {Junk}

ClientStart(r) ==
  \/ \E t \in Sendable : Introspect(r, t) \/ Invalidate(r, t)
  \/ UpgradeRejected(r)
  \/ \E t \in Sendable, org \in OrgCode, inHeader \in BOOLEAN :
       UpgradeSession(r, t, org, inHeader)
  \/ \E t \in handed, org \in OrgCode : UpgradeJwt(r, t, org)

Start(r) == ClientStart(r) \/ \E u \in LoginUser : GetGenerateToken(r, u)

Continue(r) ==
  \/ IntrospectChecked(r) \/ IntrospectRead(r)
  \/ InvalidateBlacklist(r) \/ InvalidateDelete(r)
  \/ UpgradeLoad(r)
  \/ MintJwt(r) \/ MintSession(r)

Next ==
  \/ \E r \in Req : Start(r) \/ Continue(r)
  \/ \E served \in (SUBSET Req) \ {{}} : Crash(served)
  \/ Tick

Spec == Init /\ [][Next]_vars

(***************************************************************************)
(* Redis answers or its connection breaks, so that every await ends.       *)
(***************************************************************************)
Fairness == \A r \in Req : WF_vars(Continue(r))

FairSpec == Spec /\ Fairness
=============================================================================
