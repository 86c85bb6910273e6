------------------------- MODULE TokenServiceProofs -------------------------
(***************************************************************************)
(* Proofs, for any tokens, users, requests and lifetimes, of what the runs *)
(* check of the token service on small instances.                          *)
(***************************************************************************)
EXTENDS TokenServiceProps, TokenUsersProofs

-----------------------------------------------------------------------------
(***************************************************************************)
(* Answers and requests.                                                   *)
(***************************************************************************)
\* An answer that is a status alone calls nothing active.
LEMMA StatusIsResponse ==
  ASSUME NEW code \in {0, 200, 301, 400, 403, 404, 500}
  PROVE  /\ Status(code) \in Response
         /\ Status(code).status = code
         /\ ~Status(code).active
BY DEF Status, Response, UserOrNone

\* The two answers of /introspect that call a token active.
LEMMA ActiveIsResponse ==
  /\ Active \in Response
  /\ \A u \in UserShape : ActiveUser(u) \in Response
<1>1. Active \in Response
  BY DEF Active, Status, Response, UserOrNone
<1>2. ASSUME NEW u \in UserShape
      PROVE  ActiveUser(u) \in Response
  <2>1. u.level \in {"L1", "L2", Missing}
    BY DEF UserShape
  <2>2. QED
    BY <2>1 DEF ActiveUser, Response, UserOrNone
<1>3. QED
  BY <1>1, <1>2

\* A slot no request occupies.
LEMMA IdleIsRequest == Idle \in Request
BY StatusIsResponse DEF Idle, Request, NoAnswer, Response, UserOrNone

\* A request that begins is of the right shape, and knows what it must.
LEMMA BegunIsRequest ==
  ASSUME NEW op \in {"introspect", "invalidate", "upgrade", "login"},
         NEW pc \in {"exists", "setex", "del", "load", "mint"},
         NEW tok \in TokenStr \union {Missing}
  PROVE  LET q == Begun(op, pc, tok)
         IN  /\ q \in Request
             /\ q.op = op /\ q.pc = pc /\ q.tok = tok
             /\ q.stale <=> tok \in revoked
<1>1. Idle \in Request
  BY IdleIsRequest
<1>2. (tok \in revoked) \in BOOLEAN
  OBVIOUS
<1>3. QED
  BY <1>1, <1>2 DEF Begun, Request

\* Answering keeps the shape, and remembers the token of a stale request.
LEMMA AnsweredIsRequest ==
  ASSUME NEW q \in Request, NEW res \in Response
  PROVE  LET a == Answered(q, res)
         IN  /\ a \in Request
             /\ a.pc = "done" /\ a.op = q.op /\ a.res = res
             /\ a.stale => q.stale /\ a.tok = q.tok
<1>1. CASE res.status = 200
  BY <1>1 DEF Answered, Request, UserOrNone
<1>2. CASE res.status # 200
  <2>1. Idle \in Request /\ Idle.stale = FALSE
    BY IdleIsRequest DEF Idle
  <2>2. Answered(q, res) = [Idle EXCEPT !.pc = "done", !.op = q.op, !.res = res]
    BY <1>2 DEF Answered
  <2>3. q.op \in {"none", "introspect", "invalidate", "upgrade", "login"}
    BY DEF Request
  <2>4. QED
    BY <2>1, <2>2, <2>3 DEF Request
<1>3. QED
  BY <1>1, <1>2

\* An upgrade is refused, or mints for a user of the right shape.
LEMMA UpgradedIsRequest ==
  ASSUME NEW q \in Request, NEW raw \in UserShape
  PROVE  LET a == Upgraded(q, raw)
         IN  /\ a \in Request
             /\ a.op = q.op
             /\ \/ a.pc = "done" /\ a.res.status # 200 /\ ~a.res.active
                \/ a.pc = "mint" /\ a.user \in UserShape
             /\ a.stale => q.stale /\ a.tok = q.tok
             /\ a.pc = "mint" => a.tok = q.tok
<1> DEFINE user == DecodeTokenUser(raw)
           refusal == UpgradeRefusal(user, q.org)
           company == FindCompany(user.companies, q.org)
<1>1. CASE refusal # 0
  <2>1. refusal \in {400, 404, 500}
    BY <1>1 DEF UpgradeRefusal
  <2>2. Upgraded(q, raw) = Answered(q, Status(refusal))
    BY <1>1 DEF Upgraded
  <2>3. Status(refusal) \in Response /\ Status(refusal).status # 200
          /\ ~Status(refusal).active
    BY <2>1, StatusIsResponse
  <2> HIDE DEF refusal
  <2>4. QED
    BY <2>2, <2>3, AnsweredIsRequest
<1>2. CASE refusal = 0
  <2>1. user # Missing /\ user.from_aa /\ company # Missing
    BY <1>2 DEF UpgradeRefusal
  <2>2. user \in UserShape /\ IsTokenUser(user)
    BY <2>1, DecodedTokenUser
  <2>3. user.companies \in Seq(Company)
    BY <2>1, <2>2 DEF IsTokenUser, UserShape
  <2>4. company \in Company
    BY <2>1, <2>3, FoundCompany
  <2>5. ToTokenUserL2(user, company) \in UserShape
    BY <2>2, <2>4, UpgradedUser
  <2>6. Upgraded(q, raw) =
          [q EXCEPT !.pc = "mint", !.user = ToTokenUserL2(user, company)]
    BY <1>2 DEF Upgraded
  <2> HIDE DEF user, company
  <2>7. QED
    BY <2>5, <2>6 DEF Request, UserOrNone
<1>3. QED
  BY <1>1, <1>2

-----------------------------------------------------------------------------
(***************************************************************************)
(* The inductive invariant.                                                *)
(***************************************************************************)

\* What holds of a request goes on holding while others ask and are answered.
LEMMA RequestStaysOK ==
  ASSUME NEW q \in Request, RequestOK(q),
         asked \subseteq asked', revoked \subseteq revoked'
  PROVE  RequestOK(q)'
BY DEF RequestOK, Awaiting

\* A step of the request r, given what r is after the step.
LEMMA RequestStep ==
  ASSUME req \in [Req -> Request], \A x \in Req : RequestOK(req[x]),
         asked \subseteq asked', revoked \subseteq revoked',
         NEW r \in Req, NEW q \in Request, RequestOK(q)',
         req' = [req EXCEPT ![r] = q]
  PROVE  req' \in [Req -> Request] /\ \A x \in Req : RequestOK(req[x])'
<1>1. req' \in [Req -> Request]
  OBVIOUS
<1>2. ASSUME NEW x \in Req
      PROVE  RequestOK(req[x])'
  <2>1. CASE x = r
    <3>1. req'[x] = q
      BY <2>1
    <3>2. QED
      BY <3>1 DEF RequestOK, Awaiting
  <2>2. CASE x # r
    <3>1. req'[x] = req[x] /\ req[x] \in Request
      BY <2>2
    <3>2. RequestOK(req[x])
      OBVIOUS
    <3>3. QED
      BY <3>1, <3>2 DEF RequestOK, Awaiting
  <2>3. QED
    BY <2>1, <2>2
<1>3. QED
  BY <1>1, <1>2

\* A step that changes nothing but a request.
LEMMA RequestOnlyStep ==
  ASSUME IInv, UNCHANGED <<now, store, tokens, history>>,
         NEW r \in Req, NEW q \in Request, RequestOK(q),
         req' = [req EXCEPT ![r] = q]
  PROVE  IInv'
<1>1. RequestOK(q)'
  BY DEF RequestOK, Awaiting, history
<1>2. req' \in [Req -> Request] /\ \A x \in Req : RequestOK(req[x])'
  BY <1>1, RequestStep DEF IInv, TypeOK, history
<1>3. QED
  BY <1>2 DEF IInv, TypeOK, RevokedIsOver, OnlyMintedHaveSessions,
              MintedClaims, store, tokens, history

\* With nothing minted, stored or asked, the invariant holds.
LEMMA InitIInv == Init => IInv
<1> SUFFICES ASSUME Init PROVE IInv
  OBVIOUS
<1>1. TypeOK
  <2>1. req \in [Req -> Request]
    BY IdleIsRequest DEF Init
  <2>2. now \in Epoch .. MaxNow
    BY HorizonAssumption DEF Init
  <2>3. claims \in [Token -> Claims]
    BY DEF Init, Claims, NoClaims, UserOrNone
  <2>4. QED
    BY <2>1, <2>2, <2>3 DEF Init, TypeOK, Absent, UserOrNone
<1>2. \A r \in Req : RequestOK(req[r])
  BY DEF Init, Idle, RequestOK, Awaiting
<1>3. RevokedIsOver /\ OnlyMintedHaveSessions /\ MintedClaims
  BY DEF Init, RevokedIsOver, OnlyMintedHaveSessions, MintedClaims
<1>4. QED
  BY <1>1, <1>2, <1>3 DEF IInv

\* The requests that wait for a reply of Redis, and how they are answered.
LEMMA AnswerStep ==
  ASSUME IInv, UNCHANGED <<now, store, tokens, history>>,
         NEW r \in Req, NEW res \in Response,
         req[r].op = "introspect" /\ res.active => ~req[r].stale,
         req[r].op = "upgrade" /\ res.status = 200 /\ ~ENABLE_JWT => ~req[r].stale,
         Answer(r, res)
  PROVE  IInv'
<1> DEFINE q == Answered(req[r], res)
<1>1. req[r] \in Request /\ RequestOK(req[r])
  BY DEF IInv, TypeOK
<1>2. /\ q \in Request
      /\ q.pc = "done" /\ q.op = req[r].op /\ q.res = res
      /\ q.stale => req[r].stale /\ q.tok = req[r].tok
  BY <1>1, AnsweredIsRequest
<1> HIDE DEF q
<1>3. RequestOK(q)
  BY <1>1, <1>2 DEF RequestOK, Awaiting
<1>4. req' = [req EXCEPT ![r] = q]
  BY DEF Answer, q
<1>5. QED
  BY <1>2, <1>3, <1>4, RequestOnlyStep

\* An introspection begins; that its token was revoked is recorded with it.
LEMMA StepIntrospect ==
  ASSUME IInv, NEW r \in Req, NEW t \in Sendable, Introspect(r, t)
  PROVE  IInv'
<1> DEFINE q == Begun("introspect", "exists", t)
<1>1. t \in TokenStr
  BY DEF IInv, TypeOK, Sendable, TokenStr
<1>2. q \in Request /\ q.op = "introspect" /\ q.pc = "exists" /\ q.tok = t
        /\ (q.stale <=> t \in revoked)
  BY <1>1, BegunIsRequest
<1> HIDE DEF q
<1>3. RequestOK(q)
  BY <1>1, <1>2 DEF RequestOK, Awaiting
<1>4. req' = [req EXCEPT ![r] = q]
  BY DEF Introspect, q
<1>5. QED
  BY <1>2, <1>3, <1>4, RequestOnlyStep DEF Introspect

\* The reply of EXISTS.  With JWT a stale request finds its entry, which outlasts
\* the horizon, and is not answered with active.
LEMMA StepIntrospectChecked ==
  ASSUME IInv, NEW r \in Req, IntrospectChecked(r)
  PROVE  IInv'
<1>1. /\ req[r] \in Request /\ RequestOK(req[r]) /\ req[r].pc = "exists"
      /\ UNCHANGED <<now, store, tokens, history>>
  BY DEF IInv, TypeOK, IntrospectChecked
<1>2. req[r].op = "introspect" /\ req[r].tok \in TokenStr
  BY <1>1 DEF RequestOK, Awaiting
<1>3. CASE Answer(r, Status(500)) \/ Answer(r, Status(403))
  BY <1>1, <1>2, <1>3, StatusIsResponse, AnswerStep
<1>4. CASE ~Exists(blacklist, req[r].tok, now) /\ ENABLE_JWT /\ Answer(r, Active)
  <2>1. now \in Nat /\ now =< MaxNow /\ MaxNow \in Nat
    BY HorizonAssumption DEF IInv, TypeOK
  <2>2. blacklist[req[r].tok].expireAt \in Nat
    BY <1>2 DEF IInv, TypeOK
  <2>3. ~(blacklist[req[r].tok].expireAt > MaxNow)
    BY <1>4, <2>1, <2>2 DEF Exists, IsLive
  <2>4. req[r].tok \notin revoked
    BY <1>4, <2>3 DEF IInv, RevokedIsOver
  <2>5. ~req[r].stale
    BY <1>1, <2>4 DEF RequestOK, Awaiting
  <2>6. QED
    BY <1>1, <1>2, <1>4, <2>5, ActiveIsResponse, AnswerStep
<1>5. CASE ~ENABLE_JWT /\ Goto(r, "get")
  <2> DEFINE q == [req[r] EXCEPT !.pc = "get"]
  <2>1. q \in Request
    BY <1>1 DEF Request
  <2>2. q.pc = "get" /\ q.op = req[r].op /\ q.tok = req[r].tok
          /\ q.stale = req[r].stale
    BY <1>1 DEF Request
  <2>3. req' = [req EXCEPT ![r] = q]
    BY <1>5 DEF Goto
  <2> HIDE DEF q
  <2>4. RequestOK(q)
    BY <1>1, <1>2, <1>5, <2>2 DEF RequestOK, Awaiting
  <2>5. QED
    BY <1>1, <2>1, <2>3, <2>4, RequestOnlyStep
<1>6. QED
  BY <1>3, <1>4, <1>5 DEF IntrospectChecked

\* The reply of GET: a stale request finds no session, and is not answered active.
LEMMA StepIntrospectRead ==
  ASSUME IInv, NEW r \in Req, IntrospectRead(r)
  PROVE  IInv'
<1> DEFINE raw == Get(session, req[r].tok, now)
<1>1. /\ req[r] \in Request /\ RequestOK(req[r]) /\ req[r].pc = "get"
      /\ UNCHANGED <<now, store, tokens, history>>
  BY DEF IInv, TypeOK, IntrospectRead
<1>2. req[r].op = "introspect" /\ req[r].tok \in TokenStr /\ ~ENABLE_JWT
  BY <1>1 DEF RequestOK, Awaiting
<1>3. CASE Answer(r, Status(500)) \/ Answer(r, Status(404))
  BY <1>1, <1>2, <1>3, StatusIsResponse, AnswerStep
<1>4. CASE raw # Missing /\ Answer(r, SessionAnswer(raw))
  <2>1. raw = session[req[r].tok].value /\ raw \in UserShape
    BY <1>2, <1>4 DEF Get, IInv, TypeOK, UserOrNone
  <2>2. SessionAnswer(raw) \in Response
    BY <2>1, DecodedAnyTokenUser, StatusIsResponse, ActiveIsResponse
       DEF SessionAnswer
  <2>3. session[req[r].tok] # Absent
    BY <1>4, <2>1 DEF Absent
  <2>4. ~req[r].stale
    BY <1>1, <1>2, <2>3 DEF IInv, RevokedIsOver, RequestOK, Awaiting
  <2> HIDE DEF raw
  <2>5. QED
    BY <1>1, <1>2, <1>4, <2>2, <2>4, AnswerStep
<1>5. QED
  BY <1>3, <1>4 DEF IntrospectRead

\* An invalidation begins, or is refused for a string that is no JWT.
LEMMA StepInvalidate ==
  ASSUME IInv, NEW r \in Req, NEW t \in Sendable, Invalidate(r, t)
  PROVE  IInv'
<1>1. /\ t \in TokenStr /\ asked \subseteq asked'
      /\ t \in asked' \union {Junk} /\ (t \in Token => t \in asked')
      /\ asked' \subseteq handed
      /\ UNCHANGED <<now, store, tokens, revoked>>
  BY TokenAssumption DEF IInv, TypeOK, Sendable, TokenStr, Invalidate
<1>2. PICK refused :
        /\ refused = Begun("invalidate", "setex", t)
        /\ refused \in Request /\ refused.op = "invalidate"
        /\ refused.tok = t /\ (refused.stale => t \in revoked)
  BY <1>1, BegunIsRequest
<1>3. PICK sent :
        /\ sent = Begun("invalidate", IF ENABLE_JWT THEN "setex" ELSE "del", t)
        /\ sent \in Request /\ sent.op = "invalidate"
        /\ sent.tok = t /\ (sent.stale => t \in revoked)
        /\ sent.pc = IF ENABLE_JWT THEN "setex" ELSE "del"
  BY <1>1, BegunIsRequest
<1>4. PICK q : q = IF ENABLE_JWT /\ t \notin Token
                   THEN Answered(refused, Status(500)) ELSE sent
  OBVIOUS
<1>5. q \in Request /\ RequestOK(q)'
  <2>1. revoked' = revoked
    BY <1>1
  <2>2. CASE ENABLE_JWT /\ t \notin Token
    <3>1. Status(500) \in Response
      BY StatusIsResponse
    <3>2. /\ q \in Request /\ q.pc = "done" /\ q.op = "invalidate"
          /\ (q.stale => refused.stale /\ q.tok = t)
      BY <2>2, <1>2, <1>4, <3>1, AnsweredIsRequest
    <3>3. QED
      BY <2>1, <3>2, <1>2 DEF RequestOK, Awaiting
  <2>3. CASE ~(ENABLE_JWT /\ t \notin Token)
    <3>1. q = sent /\ (ENABLE_JWT => t \in Token)
      BY <2>3, <1>4
    <3>2. QED
      BY <2>1, <3>1, <1>1, <1>3 DEF RequestOK, Awaiting
  <2>4. QED
    BY <2>2, <2>3
<1>6. req' = [req EXCEPT ![r] = q]
  BY <1>2, <1>3, <1>4 DEF Invalidate
<1>7. req' \in [Req -> Request] /\ \A x \in Req : RequestOK(req[x])'
  BY <1>1, <1>5, <1>6, RequestStep DEF IInv, TypeOK
<1>8. revoked \subseteq asked'
  BY <1>1 DEF IInv, TypeOK
<1>9. QED
  BY <1>1, <1>7, <1>8 DEF IInv, TypeOK, RevokedIsOver, OnlyMintedHaveSessions,
                          MintedClaims, store, tokens

\* The answer to an invalidation whose command took effect, or did not.
LEMMA InvalidateAnswerStep ==
  ASSUME IInv, NEW r \in Req, NEW outcome \in WriteOutcome,
         req[r].pc \in {"setex", "del"}, asked' = asked,
         InvalidateAnswer(r, outcome)
  PROVE  /\ req' \in [Req -> Request] /\ \A x \in Req : RequestOK(req[x])'
         /\ revoked \subseteq revoked'
         /\ revoked' \subseteq revoked \union {req[r].tok}
         /\ revoked' # revoked => Acknowledged(outcome)
         /\ revoked' \subseteq asked'
<1>1. req[r] \in Request /\ RequestOK(req[r])
  BY DEF IInv, TypeOK
<1>2. req[r].op = "invalidate" /\ req[r].tok \in asked \union {Junk}
  BY <1>1 DEF RequestOK, Awaiting
<1>3. /\ revoked \subseteq revoked'
      /\ revoked' \subseteq revoked \union {req[r].tok}
      /\ revoked' # revoked => Acknowledged(outcome)
      /\ revoked' \subseteq asked'
  BY <1>2, TokenAssumption DEF InvalidateAnswer, IInv, TypeOK
<1>4. PICK res \in Response :
        res = IF Acknowledged(outcome) THEN Status(200) ELSE Status(500)
  BY StatusIsResponse
<1>5. PICK q \in Request :
        /\ q = Answered(req[r], res)
        /\ q.pc = "done" /\ q.op = "invalidate"
        /\ q.stale => req[r].stale /\ q.tok = req[r].tok
  BY <1>1, <1>2, AnsweredIsRequest
<1>6. req' = [req EXCEPT ![r] = q]
  BY <1>4, <1>5 DEF InvalidateAnswer, Answer
<1>7. RequestOK(q)'
  BY <1>1, <1>3, <1>5 DEF RequestOK, Awaiting
<1>8. req' \in [Req -> Request] /\ \A x \in Req : RequestOK(req[x])'
  BY <1>3, <1>6, <1>7, RequestStep DEF IInv, TypeOK
<1>9. QED
  BY <1>3, <1>8

\* SETEX of a blacklist entry: its time to live is a date, and puts its end beyond
\* the horizon before the token counts as revoked.
LEMMA StepInvalidateBlacklist ==
  ASSUME IInv, NEW r \in Req, InvalidateBlacklist(r)
  PROVE  IInv'
<1> DEFINE t == req[r].tok
<1>1. PICK outcome \in SetExOutcomes(BlacklistTtl(t)) :
        /\ blacklist' = IF Landed(outcome)
                        THEN SetEx(blacklist, t, "true", BlacklistTtl(t), now)
                        ELSE blacklist
        /\ InvalidateAnswer(r, outcome)
  BY DEF InvalidateBlacklist
<1>2. req[r].pc = "setex" /\ UNCHANGED <<now, session, tokens, asked>>
  BY DEF InvalidateBlacklist
<1>3. outcome \in WriteOutcome
  BY <1>1 DEF SetExOutcomes, WriteOutcome
<1>4. ENABLE_JWT /\ t \in asked /\ t \in minted /\ t \in Token
  BY <1>2 DEF IInv, TypeOK, RequestOK, Awaiting
<1>5. /\ req' \in [Req -> Request] /\ \A x \in Req : RequestOK(req[x])'
      /\ revoked \subseteq revoked' /\ revoked' \subseteq revoked \union {t}
      /\ revoked' # revoked => Acknowledged(outcome)
      /\ revoked' \subseteq asked'
  BY <1>1, <1>2, <1>3, InvalidateAnswerStep
<1>6. claims[t].exp \in Nat /\ claims[t].exp >= Epoch /\ now \in Nat
        /\ now >= Epoch
  BY <1>4, HorizonAssumption DEF IInv, TypeOK, MintedClaims, Claims
<1>7. Landed(outcome) =>
        /\ blacklist' = [blacklist EXCEPT ![t] =
             [value |-> "true", expireAt |-> now + claims[t].exp]]
        /\ blacklist'[t].expireAt > MaxNow
  <2> SUFFICES ASSUME Landed(outcome)
               PROVE  /\ blacklist' = [blacklist EXCEPT ![t] =
                          [value |-> "true", expireAt |-> now + claims[t].exp]]
                      /\ blacklist'[t].expireAt > MaxNow
    OBVIOUS
  <2>1. blacklist' = [blacklist EXCEPT ![t] =
                       [value |-> "true", expireAt |-> now + claims[t].exp]]
    BY <1>1 DEF SetEx, BlacklistTtl
  <2>2. t \in TokenStr /\ blacklist \in [TokenStr -> [value : {"true", Missing}, expireAt : Nat]]
    BY <1>4 DEF TokenStr, IInv, TypeOK
  <2>3. blacklist'[t].expireAt = now + claims[t].exp
    BY <2>1, <2>2
  <2>4. QED
    BY <2>1, <2>3, <1>6, HorizonAssumption
<1> HIDE DEF t
<1>8. blacklist' \in [TokenStr -> [value : {"true", Missing}, expireAt : Nat]]
  <2>1. CASE Landed(outcome)
    BY <2>1, <1>6, <1>7 DEF IInv, TypeOK
  <2>2. CASE ~Landed(outcome)
    BY <2>2, <1>1 DEF IInv, TypeOK, t
  <2>3. QED
    BY <2>1, <2>2
<1>9. RevokedIsOver'
  <2> SUFFICES ASSUME NEW x \in revoked' PROVE blacklist'[x].expireAt > MaxNow
    BY <1>4 DEF RevokedIsOver
  <2>1. x \in TokenStr
    BY <1>2, <1>5 DEF IInv, TypeOK, TokenStr
  <2>2. CASE Landed(outcome) /\ x = t
    BY <2>2, <1>7
  <2>3. CASE Landed(outcome) /\ x # t
    BY <2>1, <2>3, <1>4, <1>5, <1>7 DEF IInv, TypeOK, RevokedIsOver
  <2>4. CASE ~Landed(outcome)
    <3>1. blacklist' = blacklist /\ revoked' = revoked
      BY <2>4, <1>1, <1>5 DEF Landed, Acknowledged, t
    <3>2. QED
      BY <3>1, <1>4 DEF IInv, RevokedIsOver
  <2>5. QED
    BY <2>2, <2>3, <2>4
<1>10. QED
  BY <1>2, <1>5, <1>8, <1>9 DEF IInv, TypeOK, OnlyMintedHaveSessions,
                                MintedClaims, tokens

\* DEL of a session: it is gone before the token counts as revoked.
LEMMA StepInvalidateDelete ==
  ASSUME IInv, NEW r \in Req, InvalidateDelete(r)
  PROVE  IInv'
<1> DEFINE t == req[r].tok
<1>1. PICK outcome \in WriteOutcome :
        /\ session' = IF Landed(outcome) THEN Del(session, t) ELSE session
        /\ InvalidateAnswer(r, outcome)
  BY DEF InvalidateDelete
<1>2. req[r].pc = "del" /\ UNCHANGED <<now, blacklist, tokens, asked>>
  BY DEF InvalidateDelete
<1>3. ~ENABLE_JWT /\ t \in TokenStr
  BY <1>2 DEF IInv, TypeOK, RequestOK, Awaiting, TokenStr
<1>4. /\ req' \in [Req -> Request] /\ \A x \in Req : RequestOK(req[x])'
      /\ revoked \subseteq revoked' /\ revoked' \subseteq revoked \union {t}
      /\ revoked' # revoked => Acknowledged(outcome)
      /\ revoked' \subseteq asked'
  BY <1>1, <1>2, InvalidateAnswerStep
<1>5. Landed(outcome) => session' = [session EXCEPT ![t] = Absent]
  BY <1>1 DEF Del
<1>6. ~Landed(outcome) => session' = session /\ revoked' = revoked
  BY <1>1, <1>4 DEF Landed, Acknowledged
<1> HIDE DEF t
<1>7. session \in [TokenStr -> [value : UserOrNone, expireAt : Nat]]
        /\ Absent \in [value : UserOrNone, expireAt : Nat]
  BY DEF IInv, TypeOK, Absent, UserOrNone
<1>8. session' \in [TokenStr -> [value : UserOrNone, expireAt : Nat]]
  BY <1>5, <1>6, <1>7
<1>9. \A x \in TokenStr : session'[x] = session[x] \/ session'[x] = Absent
  BY <1>5, <1>6, <1>7
<1>10. RevokedIsOver'
  <2> SUFFICES ASSUME NEW x \in revoked' PROVE session'[x] = Absent
    BY <1>3 DEF RevokedIsOver
  <2>1. x \in TokenStr
    BY <1>2, <1>4 DEF IInv, TypeOK, TokenStr
  <2>2. CASE x \in revoked
    <3>1. session[x] = Absent
      BY <2>2, <1>3 DEF IInv, RevokedIsOver
    <3>2. QED
      BY <3>1, <2>1, <1>9
  <2>3. CASE x \notin revoked
    <3>1. x = t /\ Landed(outcome)
      BY <2>3, <1>4, <1>6
    <3>2. QED
      BY <3>1, <2>1, <1>5, <1>7
  <2>4. QED
    BY <2>2, <2>3
<1>11. OnlyMintedHaveSessions'
  BY <1>2, <1>9 DEF IInv, OnlyMintedHaveSessions, tokens
<1>12. QED
  BY <1>2, <1>4, <1>8, <1>10, <1>11 DEF IInv, TypeOK, MintedClaims, tokens

\* An upgrade refused for its body or its header.
LEMMA StepUpgradeRejected ==
  ASSUME IInv, NEW r \in Req, UpgradeRejected(r)
  PROVE  IInv'
<1>1. PICK begun \in Request :
        begun = Begun("upgrade", "load", Missing) /\ begun.op = "upgrade"
          /\ begun.tok = Missing /\ (begun.stale => Missing \in revoked)
  BY BegunIsRequest
<1>2. ~begun.stale
  BY <1>1, TokenAssumption DEF IInv, TypeOK
<1>3. Status(400) \in Response
  BY StatusIsResponse
<1>4. PICK q \in Request : q = Answered(begun, Status(400)) /\ q.pc = "done"
                            /\ q.op = "upgrade" /\ (q.stale => begun.stale)
  BY <1>1, <1>3, AnsweredIsRequest
<1>5. RequestOK(q)
  BY <1>2, <1>4 DEF RequestOK, Awaiting
<1>6. req' = [req EXCEPT ![r] = q]
  BY <1>1, <1>4 DEF UpgradeRejected
<1>7. QED
  BY <1>5, <1>6, RequestOnlyStep DEF UpgradeRejected

\* An upgrade of a session begins.
LEMMA StepUpgradeSession ==
  ASSUME IInv, NEW r \in Req, NEW t \in Sendable, NEW org \in OrgCode,
         NEW inHeader \in BOOLEAN, UpgradeSession(r, t, org, inHeader)
  PROVE  IInv'
<1>1. t \in TokenStr
  BY DEF IInv, TypeOK, Sendable, TokenStr
<1>2. PICK begun \in Request :
        begun = Begun("upgrade", "load", t) /\ begun.op = "upgrade"
          /\ begun.pc = "load" /\ begun.tok = t /\ (begun.stale => t \in revoked)
  BY <1>1, BegunIsRequest
<1>3. PICK q : q = [begun EXCEPT !.header = inHeader, !.org = org]
  OBVIOUS
<1>4. q \in Request /\ q.op = "upgrade" /\ q.pc = "load" /\ q.tok = t
        /\ q.org = org /\ (q.stale => t \in revoked)
  BY <1>2, <1>3 DEF Request
<1>5. RequestOK(q)
  BY <1>1, <1>4 DEF RequestOK, Awaiting
<1>6. req' = [req EXCEPT ![r] = q]
  BY <1>2, <1>3 DEF UpgradeSession
<1>7. QED
  BY <1>4, <1>5, <1>6, RequestOnlyStep DEF UpgradeSession

\* An upgrade of a JWT begins, and is refused or goes on to mint.
LEMMA StepUpgradeJwt ==
  ASSUME IInv, NEW r \in Req, NEW t \in handed, NEW org \in OrgCode,
         UpgradeJwt(r, t, org)
  PROVE  IInv'
<1>1. t \in TokenStr /\ t \in Token /\ claims[t].user \in UserShape
  BY DEF IInv, TypeOK, TokenStr, MintedClaims
<1>2. PICK begun \in Request :
        begun = Begun("upgrade", "load", t) /\ begun.op = "upgrade"
          /\ begun.pc = "load" /\ begun.tok = t /\ (begun.stale => t \in revoked)
  BY <1>1, BegunIsRequest
<1>3. PICK asking : asking = [begun EXCEPT !.header = TRUE, !.org = org]
  OBVIOUS
<1>4. asking \in Request /\ asking.op = "upgrade" /\ asking.tok = t
        /\ (asking.stale => t \in revoked)
  BY <1>2, <1>3 DEF Request
<1>5. PICK q \in Request :
        /\ q = Upgraded(asking, claims[t].user)
        /\ q.op = "upgrade"
        /\ \/ q.pc = "done" /\ q.res.status # 200 /\ ~q.res.active
           \/ q.pc = "mint" /\ q.user \in UserShape
        /\ q.stale => asking.stale /\ q.tok = t
        /\ q.pc = "mint" => q.tok = t
  BY <1>1, <1>4, UpgradedIsRequest
<1>6. RequestOK(q)
  BY <1>1, <1>4, <1>5 DEF RequestOK, Awaiting, UpgradeJwt
<1>7. req' = [req EXCEPT ![r] = q]
  BY <1>2, <1>3, <1>5 DEF UpgradeJwt
<1>8. QED
  BY <1>6, <1>7, RequestOnlyStep DEF UpgradeJwt

\* The reply of GET to an upgrade: where there is a session the request was not
\* stale when it began.
LEMMA StepUpgradeLoad ==
  ASSUME IInv, NEW r \in Req, UpgradeLoad(r)
  PROVE  IInv'
<1> DEFINE raw == Get(session, req[r].tok, now)
<1>1. /\ req[r] \in Request /\ RequestOK(req[r]) /\ req[r].pc = "load"
      /\ UNCHANGED <<now, store, tokens, history>>
  BY DEF IInv, TypeOK, UpgradeLoad
<1>2. req[r].op = "upgrade" /\ req[r].tok \in TokenStr
  BY <1>1 DEF RequestOK, Awaiting
<1>3. CASE Answer(r, Status(500)) \/ Answer(r, Status(404))
  BY <1>1, <1>2, <1>3, StatusIsResponse, AnswerStep
<1>4. CASE raw # Missing /\ req' = [req EXCEPT ![r] = Upgraded(req[r], raw)]
  <2>1. raw = session[req[r].tok].value /\ raw \in UserShape
    BY <1>2, <1>4 DEF Get, IInv, TypeOK, UserOrNone
  <2>2. session[req[r].tok] # Absent
    BY <1>4, <2>1 DEF Absent
  <2>3. ~ENABLE_JWT => ~req[r].stale /\ req[r].tok \in minted
    BY <1>1, <1>2, <2>2
       DEF IInv, RevokedIsOver, OnlyMintedHaveSessions, RequestOK, Awaiting
  <2> HIDE DEF raw
  <2>4. PICK q \in Request :
          /\ q = Upgraded(req[r], raw)
          /\ q.op = "upgrade"
          /\ \/ q.pc = "done" /\ q.res.status # 200 /\ ~q.res.active
             \/ q.pc = "mint" /\ q.user \in UserShape
          /\ q.stale => req[r].stale /\ q.tok = req[r].tok
          /\ q.pc = "mint" => q.tok = req[r].tok
    BY <1>1, <1>2, <2>1, UpgradedIsRequest
  <2>5. req[r].tok \in Token
    BY <1>2, <2>2 DEF IInv, TypeOK, OnlyMintedHaveSessions, TokenStr
  <2>6. RequestOK(q)
    BY <1>1, <2>3, <2>4, <2>5 DEF RequestOK, Awaiting
  <2>7. req' = [req EXCEPT ![r] = q]
    BY <1>4, <2>4
  <2>8. QED
    BY <1>1, <2>6, <2>7, RequestOnlyStep
<1>5. QED
  BY <1>3, <1>4 DEF UpgradeLoad

\* A login asks for a token; it is for no earlier token, so never stale.
LEMMA StepLogin ==
  ASSUME IInv, NEW r \in Req,
         NEW u \in UserShape, Issuable(u), GetGenerateToken(r, u)
  PROVE  IInv'
<1>1. PICK begun \in Request :
        begun = Begun("login", "mint", Missing) /\ begun.op = "login"
          /\ begun.pc = "mint" /\ begun.tok = Missing
          /\ (begun.stale => Missing \in revoked)
  BY BegunIsRequest
<1>2. ~begun.stale
  BY <1>1, TokenAssumption DEF IInv, TypeOK
<1>4. PICK q : q = [begun EXCEPT !.user = u]
  OBVIOUS
<1>5. q \in Request /\ q.op = "login" /\ q.pc = "mint" /\ q.user = u
        /\ q.tok = Missing /\ q.stale = begun.stale
  BY <1>1, <1>4 DEF Request, UserOrNone
<1>6. RequestOK(q)
  BY <1>2, <1>5 DEF RequestOK, Awaiting
<1>7. req' = [req EXCEPT ![r] = q]
  BY <1>1, <1>4 DEF GetGenerateToken
<1>8. QED
  BY <1>5, <1>6, <1>7, RequestOnlyStep DEF GetGenerateToken

\* What the generation of a token leaves of the invariant to be shown.
LEMMA GeneratedStep ==
  ASSUME IInv, NEW r \in Req, NEW t \in Token \ minted,
         req[r].pc = "mint", Generated(r, t)
  PROVE  /\ claims' \in [Token -> Claims] /\ minted' \subseteq Token
         /\ MintedClaims'
<1>1. req[r] \in Request /\ RequestOK(req[r])
  BY DEF IInv, TypeOK
<1>2. req[r].user \in UserShape /\ req[r].tok \in Token \union {Missing}
        /\ req[r].org \in OrgCode \union {Missing}
  BY <1>1 DEF RequestOK, Awaiting, Request
<1>3. now \in Nat /\ now >= Epoch /\ Epoch \in Nat
  BY HorizonAssumption DEF IInv, TypeOK
<1>4. PICK ttl \in Nat : ttl = GetTokenExpiration(req[r].user)
  BY ExpirationIsNat
<1>5. PICK c : c = NewClaims(r)
  OBVIOUS
<1>6. c \in Claims /\ c.user \in UserShape /\ c.exp >= Epoch
  BY <1>2, <1>3, <1>4, <1>5 DEF NewClaims, Claims, UserOrNone
<1>7. claims' = [claims EXCEPT ![t] = c] /\ minted' = minted \union {t}
  BY <1>5 DEF Generated
<1>8. claims' \in [Token -> Claims] /\ minted' \subseteq Token
  BY <1>6, <1>7 DEF IInv, TypeOK
<1>9. MintedClaims'
  BY <1>6, <1>7 DEF IInv, TypeOK, MintedClaims
<1>10. QED
  BY <1>8, <1>9

\* The answer of a request that minted, or failed to.
LEMMA MintAnswerStep ==
  ASSUME IInv, NEW r \in Req, NEW res \in Response, ~res.active,
         req[r].pc = "mint", UNCHANGED history, Answer(r, res)
  PROVE  req' \in [Req -> Request] /\ \A x \in Req : RequestOK(req[x])'
<1>1. req[r] \in Request /\ RequestOK(req[r])
  BY DEF IInv, TypeOK
<1>2. PICK q \in Request : q = Answered(req[r], res) /\ q.pc = "done"
        /\ q.op = req[r].op /\ q.res = res
        /\ (q.stale => req[r].stale /\ q.tok = req[r].tok)
  BY <1>1, AnsweredIsRequest
<1>3. revoked' = revoked /\ asked' = asked
  BY DEF history
<1>4. RequestOK(q)'
  BY <1>1, <1>2, <1>3 DEF RequestOK, Awaiting
<1>5. req' = [req EXCEPT ![r] = q]
  BY <1>2 DEF Answer
<1>6. QED
  BY <1>3, <1>4, <1>5, RequestStep DEF IInv, TypeOK

\* The token is known to a client, its request is answered.
LEMMA HandOverStep ==
  ASSUME IInv, NEW r \in Req, NEW t \in Token,
         req[r].pc = "mint", UNCHANGED history, HandOver(r, t)
  PROVE  /\ req' \in [Req -> Request] /\ \A x \in Req : RequestOK(req[x])'
         /\ handed' = handed \union {t}
<1>1. PICK code \in {200, 301} : code = IF req[r].op = "login" THEN 301 ELSE 200
  OBVIOUS
<1>2. Status(code) \in Response /\ ~Status(code).active
  BY StatusIsResponse
<1>3. PICK res : res = [Status(code) EXCEPT !.token = t]
  OBVIOUS
<1>4. res \in Response /\ ~res.active
  BY <1>2, <1>3 DEF Response
<1>5. Answer(r, res) /\ handed' = handed \union {t}
  BY <1>1, <1>3 DEF HandOver
<1>6. QED
  BY <1>4, <1>5, MintAnswerStep

\* A JWT is signed: nothing in Redis changes.
LEMMA StepMintJwt ==
  ASSUME IInv, NEW r \in Req, MintJwt(r)
  PROVE  IInv'
<1>1. req[r].pc = "mint" /\ UNCHANGED <<now, store, history>>
  BY DEF MintJwt, NewToken
<1>2. CASE Answer(r, Status(500)) /\ UNCHANGED tokens
  <2>1. Status(500) \in Response /\ ~Status(500).active
    BY StatusIsResponse
  <2>2. req' \in [Req -> Request] /\ \A x \in Req : RequestOK(req[x])'
    BY <1>1, <1>2, <2>1, MintAnswerStep
  <2>3. QED
    BY <1>1, <1>2, <2>2 DEF IInv, TypeOK, RevokedIsOver,
       OnlyMintedHaveSessions, MintedClaims, store, tokens, history
<1>3. ASSUME NEW t \in Token \ minted, Generated(r, t), HandOver(r, t)
      PROVE  IInv'
  <2>1. claims' \in [Token -> Claims] /\ minted' \subseteq Token /\ MintedClaims'
    BY <1>1, <1>3, GeneratedStep
  <2>2. /\ req' \in [Req -> Request] /\ \A x \in Req : RequestOK(req[x])'
        /\ handed' = handed \union {t}
    BY <1>1, <1>3, HandOverStep
  <2>3. minted' = minted \union {t}
    BY <1>3 DEF Generated
  <2>4. QED
    BY <1>1, <2>1, <2>2, <2>3 DEF IInv, TypeOK, RevokedIsOver,
       OnlyMintedHaveSessions, store, history
<1>4. QED
  BY <1>2, <1>3 DEF MintJwt, NewToken

\* A step of a request leaves the records of all others as they are.
LEMMA OneRequestSteps ==
  ASSUME NEW r, Start(r) \/ Continue(r)
  PROVE  \E q : req' = [req EXCEPT ![r] = q]
<1>1. CASE Start(r)
  BY <1>1 DEF Start, ClientStart, Introspect, Invalidate, UpgradeRejected,
              UpgradeSession, UpgradeJwt, GetGenerateToken
<1>2. CASE IntrospectChecked(r) \/ IntrospectRead(r) \/ UpgradeLoad(r)
  BY <1>2 DEF IntrospectChecked, IntrospectRead, UpgradeLoad, Answer, Goto
<1>3. CASE InvalidateBlacklist(r) \/ InvalidateDelete(r)
  BY <1>3 DEF InvalidateBlacklist, InvalidateDelete, InvalidateAnswer, Answer
<1>4. CASE MintJwt(r) \/ MintSession(r)
  BY <1>4 DEF MintJwt, MintSession, HandOver, Answer
<1>5. QED
  BY <1>1, <1>2, <1>3, <1>4 DEF Continue

\* A session is stored under a name that was not minted before, hence was not
\* revoked: no revoked session comes back.
LEMMA StepMintSession ==
  ASSUME IInv, NEW r \in Req, MintSession(r)
  PROVE  IInv'
<1>1. req[r].pc = "mint" /\ ~ENABLE_JWT /\ UNCHANGED <<now, blacklist, history>>
  BY DEF MintSession, SessionTtl, NewToken
<1>2. Status(500) \in Response /\ ~Status(500).active
  BY StatusIsResponse
<1>3. CASE Answer(r, Status(500)) /\ UNCHANGED <<session, tokens>>
  <2>1. req' \in [Req -> Request] /\ \A x \in Req : RequestOK(req[x])'
    BY <1>1, <1>2, <1>3, MintAnswerStep
  <2>2. QED
    BY <1>1, <1>3, <2>1 DEF IInv, TypeOK, RevokedIsOver,
       OnlyMintedHaveSessions, MintedClaims, tokens, history
<1>4. ASSUME NEW t \in Token \ minted, NEW outcome, Generated(r, t),
             session' = SetEx(session, t, req[r].user,
                              GetTokenExpiration(req[r].user), now),
             \/ HandOver(r, t)
             \/ Answer(r, Status(500)) /\ UNCHANGED handed
      PROVE  IInv'
  <2>1. claims' \in [Token -> Claims] /\ minted' \subseteq Token /\ MintedClaims'
    BY <1>1, <1>4, GeneratedStep
  <2>2. /\ req' \in [Req -> Request] /\ \A x \in Req : RequestOK(req[x])'
        /\ handed' \subseteq handed \union {t} /\ handed \subseteq handed'
    BY <1>1, <1>2, <1>4, HandOverStep, MintAnswerStep
  <2>3. minted' = minted \union {t}
    BY <1>4 DEF Generated
  <2>4. now \in Nat /\ req[r].user \in UserOrNone
    BY <1>1, HorizonAssumption DEF IInv, TypeOK, RequestOK, Awaiting, UserOrNone
  <2>5. PICK ttl \in Nat : ttl = GetTokenExpiration(req[r].user)
    BY ExpirationIsNat
  <2> DEFINE Entry == [value : UserOrNone, expireAt : Nat]
  <2>6. PICK e : e = [value |-> req[r].user, expireAt |-> now + ttl]
    OBVIOUS
  <2>7. /\ session' = [session EXCEPT ![t] = e]
        /\ session' \in [TokenStr -> [value : UserOrNone, expireAt : Nat]]
    <3>1. e \in Entry
      <4>1. now + ttl \in Nat
        BY <2>4
      <4>2. QED
        BY <2>4, <2>6, <4>1
    <3>2. session' = [session EXCEPT ![t] = e]
      BY <1>4, <2>5, <2>6 DEF SetEx
    <3>3. session \in [TokenStr -> Entry]
      BY DEF IInv, TypeOK
    <3> HIDE DEF Entry
    <3>4. session' \in [TokenStr -> Entry]
      BY <3>1, <3>2, <3>3
    <3>5. QED
      BY <3>2, <3>4 DEF Entry
  <2>8. \A x \in TokenStr : x # t => session'[x] = session[x]
    BY <2>7 DEF IInv, TypeOK
  <2>9. t \notin revoked /\ revoked \subseteq TokenStr
    BY DEF IInv, TypeOK, TokenStr
  <2>10. RevokedIsOver'
    BY <1>1, <2>8, <2>9 DEF IInv, RevokedIsOver, history
  <2>11. OnlyMintedHaveSessions'
    BY <2>3, <2>8 DEF IInv, OnlyMintedHaveSessions
  <2>12. QED
    BY <1>1, <2>1, <2>2, <2>3, <2>7, <2>10, <2>11 DEF IInv, TypeOK, history
<1>5. QED
  BY <1>3, <1>4 DEF MintSession, SessionTtl, NewToken

\* Time passes: entries expire by comparison, none changes.
LEMMA StepTick == ASSUME IInv, Tick PROVE IInv'
<1>1. now' \in Epoch .. MaxNow
  BY HorizonAssumption DEF Tick, IInv, TypeOK
<1>2. UNCHANGED <<store, tokens, history, req>>
  BY DEF Tick
<1>3. QED
  BY <1>1, <1>2 DEF IInv, TypeOK, RevokedIsOver, OnlyMintedHaveSessions,
                    MintedClaims, RequestOK, Awaiting, store, tokens, history

\* Instances stop: their requests are gone, Redis is not touched.
LEMMA StepCrash == ASSUME IInv, NEW served, Crash(served) PROVE IInv'
<1>1. req' = [r \in Req |-> IF r \in served THEN Idle ELSE req[r]]
        /\ UNCHANGED <<now, store, tokens, history>>
  BY DEF Crash
<1>2. req' \in [Req -> Request]
  BY <1>1, IdleIsRequest DEF IInv, TypeOK
<1>3. ASSUME NEW r \in Req
      PROVE  RequestOK(req[r])'
  <2>1. CASE r \in served
    <3>1. req'[r] = Idle
      BY <1>1, <2>1
    <3>2. QED
      BY <3>1 DEF Idle, RequestOK, Awaiting
  <2>2. CASE r \notin served
    <3>1. req'[r] = req[r] /\ RequestOK(req[r])
      BY <1>1, <2>2 DEF IInv
    <3>2. QED
      BY <1>1, <3>1 DEF RequestOK, Awaiting, history
  <2>3. QED
    BY <2>1, <2>2
<1>4. QED
  BY <1>1, <1>2, <1>3 DEF IInv, TypeOK, RevokedIsOver, OnlyMintedHaveSessions,
                          MintedClaims, store, tokens, history

\* The invariant is inductive.
LEMMA StepIInv == IInv /\ [Next]_vars => IInv'
<1> SUFFICES ASSUME IInv, [Next]_vars PROVE IInv'
  OBVIOUS
<1>1. ASSUME NEW r \in Req, Start(r) PROVE IInv'
  <2>1. CASE \E u \in LoginUser : GetGenerateToken(r, u)
    BY <2>1, StepLogin, LoginAssumption
  <2>2. CASE \E t \in Sendable : Introspect(r, t) \/ Invalidate(r, t)
    BY <2>2, StepIntrospect, StepInvalidate
  <2>3. CASE UpgradeRejected(r)
    BY <2>3, StepUpgradeRejected
  <2>4. CASE \E t \in Sendable, org \in OrgCode, inHeader \in BOOLEAN :
               UpgradeSession(r, t, org, inHeader)
    BY <2>4, StepUpgradeSession
  <2>5. CASE \E t \in handed, org \in OrgCode : UpgradeJwt(r, t, org)
    BY <2>5, StepUpgradeJwt
  <2>6. QED
    BY <1>1, <2>1, <2>2, <2>3, <2>4, <2>5 DEF Start, ClientStart
<1>2. ASSUME NEW r \in Req, Continue(r) PROVE IInv'
  <2>1. CASE IntrospectChecked(r)
    BY <2>1, StepIntrospectChecked
  <2>2. CASE IntrospectRead(r)
    BY <2>2, StepIntrospectRead
  <2>3. CASE InvalidateBlacklist(r)
    BY <2>3, StepInvalidateBlacklist
  <2>4. CASE InvalidateDelete(r)
    BY <2>4, StepInvalidateDelete
  <2>5. CASE UpgradeLoad(r)
    BY <2>5, StepUpgradeLoad
  <2>6. CASE MintJwt(r)
    BY <2>6, StepMintJwt
  <2>7. CASE MintSession(r)
    BY <2>7, StepMintSession
  <2>8. QED
    BY <1>2, <2>1, <2>2, <2>3, <2>4, <2>5, <2>6, <2>7 DEF Continue
<1>3. ASSUME NEW served \in (SUBSET Req) \ {{}}, Crash(served) PROVE IInv'
  BY <1>3, StepCrash
<1>4. CASE Tick
  BY <1>4, StepTick
<1>5. CASE UNCHANGED vars
  BY <1>5 DEF IInv, TypeOK, RevokedIsOver, OnlyMintedHaveSessions, MintedClaims,
              RequestOK, Awaiting, vars, store, tokens, history
<1>6. QED
  BY <1>1, <1>2, <1>3, <1>4, <1>5 DEF Next

\* The invariant holds in every state of every behaviour.
THEOREM Invariance == Spec => []IInv
<1>1. Init => IInv
  BY InitIInv
<1>2. IInv /\ [Next]_vars => IInv'
  BY StepIInv
<1>3. QED
  BY <1>1, <1>2, PTL DEF Spec

-----------------------------------------------------------------------------
(***************************************************************************)
(* The shapes the handlers assume: what is in Redis, in a token and in a   *)
(* request is always something the code that reads it can take.            *)
(***************************************************************************)
THEOREM TypeCorrectness == Spec => []TypeOK
<1>1. IInv => TypeOK
  BY DEF IInv
<1>2. QED
  BY <1>1, Invariance, PTL

(***************************************************************************)
(* An acknowledged invalidation is final for /introspect, in either mode,  *)
(* for any number of requests, instances and tokens, up to the horizon.    *)
(***************************************************************************)
THEOREM InvalidationIsFinal == Spec => []InvalidationSticks
<1>1. IInv => InvalidationSticks
  BY DEF IInv, RequestOK, Awaiting, InvalidationSticks
<1>2. QED
  BY <1>1, Invariance, PTL

(***************************************************************************)
(* With sessions, and only there, it is final for /upgradeToken as well:   *)
(* no upgrade that begins after it obtains a token.                        *)
(***************************************************************************)
THEOREM NoUpgradeAfterInvalidation ==
  ASSUME ~ENABLE_JWT
  PROVE  Spec => []UpgradeHonoursInvalidation
<1>1. IInv => UpgradeHonoursInvalidation
  BY DEF IInv, RequestOK, Awaiting, UpgradeHonoursInvalidation
<1>2. QED
  BY <1>1, Invariance, PTL
=============================================================================
