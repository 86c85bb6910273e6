--------------------------- MODULE TokenLifeProofs ---------------------------
(***************************************************************************)
(* Proofs of what a token is while it lasts: whom it was minted for and    *)
(* from which token, what introspection tells of it, how long it is good   *)
(* and who may end it.  They rest on a second inductive invariant,         *)
(* LifeInv, which holds of every step that keeps the first, IInv.  In the  *)
(* second half the service implements the contract of a token's life:      *)
(* every step begins, ends, promises or reports as SessionContract allows, *)
(* or is a stutter of it.                                                  *)
(***************************************************************************)
EXTENDS TokenServiceProofs, TokenServiceContract

-----------------------------------------------------------------------------
(***************************************************************************)
(* Users that may be issued a token, and those an upgrade makes of them.   *)
(***************************************************************************)

\* A user that may be issued is read back from Redis as it was stored, and its
\* level tells which of the two lifetimes it was given.
LEMMA IssuableReadsBack ==
  ASSUME NEW u \in UserShape, Issuable(u)
  PROVE  /\ u.level \in {"L1", "L2"}
         /\ IsTokenUser(u) <=> u.level = "L1"
         /\ DecodeAnyTokenUser(u) = u
         /\ GetTokenExpiration(u) = LifetimeOfLevel(u.level)
<1>1. CASE IsTokenUser(u)
  <2>1. u.level = "L1"
    BY <1>1 DEF IsTokenUser
  <2>2. DecodeTokenUser(u) = u
    BY <1>1, <2>1 DEF DecodeTokenUser, WithDefaultLevel, UserShape
  <2>3. DecodeTokenUserL2(u) = Missing
    BY <2>1, MissingAssumption
       DEF DecodeTokenUserL2, WithDefaultLevel, IsTokenUserL2
  <2>4. DecodeAnyTokenUser(u) = u
    BY <2>2, <2>3 DEF DecodeAnyTokenUser
  <2>5. QED
    BY <1>1, <2>1, <2>4 DEF GetTokenExpiration, LifetimeOfLevel
<1>2. CASE ~IsTokenUser(u)
  <2>1. IsTokenUserL2(u) /\ u.level = "L2"
    BY <1>2 DEF Issuable, IsTokenUserL2
  <2>2. WithDefaultLevel(u, "L1") = u /\ WithDefaultLevel(u, "L2") = u
    BY <2>1, MissingAssumption DEF WithDefaultLevel, UserShape
  <2>3. DecodeTokenUser(u) = Missing /\ DecodeTokenUserL2(u) = u
    BY <1>2, <2>1, <2>2 DEF DecodeTokenUser, DecodeTokenUserL2
  <2>4. QED
    BY <1>2, <2>1, <2>3
       DEF DecodeAnyTokenUser, GetTokenExpiration, LifetimeOfLevel
<1>3. QED
  BY <1>1, <1>2

\* An upgrade that is not refused mints an L2 user that may be issued, and that
\* derives from the token whose user was read.
LEMMA UpgradedDerives ==
  ASSUME NEW t \in minted, claims \in [Token -> Claims], minted \subseteq Token,
         SoundClaims(claims[t]),
         NEW q \in Request, q.tok = t, q.org \in OrgCode,
         Upgraded(q, claims[t].user).pc = "mint"
  PROVE  LET a == Upgraded(q, claims[t].user)
         IN  Issuable(a.user) /\ a.tok = t /\ Derives(a.user, t, a.org)
<1> DEFINE from == claims[t].user
           user == DecodeTokenUser(from)
           company == FindCompany(user.companies, q.org)
           refusal == UpgradeRefusal(user, q.org)
<1>1. from \in UserShape /\ Issuable(from)
  BY DEF SoundClaims
<1>2. refusal = 0
  <2> SUFFICES ASSUME refusal # 0 PROVE FALSE
    OBVIOUS
  <2>1. refusal \in {400, 404, 500}
    BY DEF UpgradeRefusal
  <2>2. Status(refusal) \in Response
    BY <2>1, StatusIsResponse
  <2>3. Upgraded(q, from) = Answered(q, Status(refusal))
    BY DEF Upgraded
  <2> HIDE DEF refusal, from
  <2>4. Upgraded(q, from).pc = "done"
    BY <2>2, <2>3, AnsweredIsRequest
  <2>5. QED
    BY <2>4 DEF from
<1>3. Upgraded(q, from) =
        [q EXCEPT !.pc = "mint", !.user = ToTokenUserL2(user, company)]
  BY <1>2 DEF Upgraded
<1>4. user # Missing /\ user.from_aa /\ company # Missing
  BY <1>2 DEF UpgradeRefusal
<1> HIDE DEF from, refusal
<1>5. IsTokenUser(user) /\ user \in UserShape /\ user = [from EXCEPT !.level = "L1"]
  BY <1>1, <1>4, DecodedTokenUser
<1>6. from.level = "L1" /\ user = from
  <2>1. CASE from.level = "L1"
    BY <1>1, <1>5, <2>1 DEF UserShape
  <2>2. CASE from.level # "L1"
    <3>1. from.level = "L2"
      BY <1>1, <2>2, IssuableReadsBack
    <3>2. user = Missing
      BY <3>1, MissingAssumption
         DEF user, DecodeTokenUser, WithDefaultLevel, IsTokenUser
    <3>3. QED
      BY <3>2, <1>4
  <2>3. QED
    BY <2>1, <2>2
<1>7. user.companies \in Seq(Company)
  BY <1>4, <1>5 DEF IsTokenUser, UserShape
<1>8. PICK i \in DOMAIN user.companies :
        /\ company = user.companies[i]
        /\ company.organization_fiscal_code = q.org
  BY <1>4, <1>7, FoundCompany DEF company
<1>9. company \in ToSet(user.companies) /\ IsUserCompany(company)
  BY <1>4, <1>5, <1>8 DEF IsTokenUser, ToSet
<1>10. PICK u : u = ToTokenUserL2(user, company)
  OBVIOUS
<1> HIDE DEF company
<1>11. /\ IsTokenUserL2(u)
       /\ u.fiscal_number = user.fiscal_number
       /\ u.spid_level = user.spid_level
       /\ u.company = company
       /\ u.from_aa = user.from_aa
       /\ u.companies = Missing
  BY <1>5, <1>9, <1>10 DEF ToTokenUserL2, IsTokenUserL2, IsTokenUser,
                           IsCommonTokenUser
<1>12. user.from_aa = ENABLE_ADE_AA
  BY <1>1, <1>6 DEF Issuable
<1>13. claims[t].parent = Missing
  <2>1. claims[t].parent # Missing => IsTokenUserL2(from)
    BY DEF SoundClaims, Derives, from
  <2>2. QED
    BY <2>1, <1>6 DEF IsTokenUserL2
<1>14. Issuable(u) /\ Derives(u, t, q.org)
  BY <1>5, <1>6, <1>8, <1>9, <1>11, <1>12, <1>13 DEF Issuable, Derives, from
<1>15. QED
  BY <1>3, <1>10, <1>14 DEF Request, from

-----------------------------------------------------------------------------
(***************************************************************************)
(* What is known of the tokens minted so far goes on being known.          *)
(***************************************************************************)
MintedGrows ==
  minted \subseteq minted' /\ \A t \in minted : claims'[t] = claims[t]

\* What derives from a token goes on deriving from it.
LEMMA DerivesStays ==
  ASSUME MintedGrows, NEW u, NEW parent, NEW org, Derives(u, parent, org)
  PROVE  Derives(u, parent, org)'
BY DEF MintedGrows, Derives

\* Sound claims stay sound.
LEMMA SoundClaimsStay ==
  ASSUME MintedGrows, NEW c, SoundClaims(c)
  PROVE  SoundClaims(c)'
BY DerivesStays DEF SoundClaims

\* A request goes on knowing what it knew.
LEMMA RequestStillKnows ==
  ASSUME MintedGrows, NEW q, RequestKnows(q)
  PROVE  RequestKnows(q)'
<1>1. q.pc \in {"exists", "get"} => q.tok \in minted' \union {Junk}
  BY DEF RequestKnows, MintedGrows
<1>2. q.pc = "mint" => /\ Issuable(q.user)
                       /\ q.tok # Missing => Derives(q.user, q.tok, q.org)'
  BY DerivesStays DEF RequestKnows
<1>3. q.pc = "done" /\ q.op = "introspect" /\ q.res.active /\ ~ENABLE_JWT =>
        q.tok \in minted' /\ q.res = ActiveUser(claims'[q.tok].user)
  BY DEF RequestKnows, MintedGrows
<1>4. q.pc = "idle" => q.op = "none"
  BY DEF RequestKnows
<1>5. QED
  BY <1>1, <1>2, <1>3, <1>4 DEF RequestKnows

\* A step of the request r, given what r knows after the step.
LEMMA KnowingStep ==
  ASSUME IInv, LifeInv, MintedGrows,
         NEW r \in Req, NEW q, RequestKnows(q)',
         req' = [req EXCEPT ![r] = q]
  PROVE  \A x \in Req : RequestKnows(req[x])'
<1> SUFFICES ASSUME NEW x \in Req PROVE RequestKnows(req[x])'
  OBVIOUS
<1>1. CASE x = r
  <2>1. req'[x] = q
    BY <1>1 DEF IInv, TypeOK
  <2>2. QED
    BY <2>1 DEF RequestKnows, Derives
<1>2. CASE x # r
  <2>1. PICK p : p = req[x]
    OBVIOUS
  <2>2. req'[x] = p /\ RequestKnows(p)
    BY <1>2, <2>1 DEF IInv, TypeOK, LifeInv
  <2>3. RequestKnows(p)'
    BY <2>2, RequestStillKnows
  <2>4. QED
    BY <2>2, <2>3 DEF RequestKnows, Derives
<1>3. QED
  BY <1>1, <1>2

\* A step that changes nothing but a request, given what the request then knows.
LEMMA RequestOnlyKnows ==
  ASSUME IInv, LifeInv, UNCHANGED <<now, store, tokens, history>>,
         NEW r \in Req, NEW q, RequestKnows(q), req' = [req EXCEPT ![r] = q]
  PROVE  LifeInv'
<1>1. MintedGrows
  BY DEF MintedGrows, tokens
<1>2. RequestKnows(q)'
  BY <1>1, RequestStillKnows
<1>3. \A x \in Req : RequestKnows(req[x])'
  BY <1>1, <1>2, KnowingStep
<1>4. MintedSoundly' /\ SessionsAsMinted' /\ BlacklistedForGood'
  BY DEF LifeInv, MintedSoundly, SoundClaims, Derives, SessionsAsMinted,
         SessionOf, BlacklistedForGood, store, tokens, history
<1>5. QED
  BY <1>3, <1>4 DEF LifeInv

\* A request whose answer calls nothing active knows all it must.
LEMMA AnsweredKnows ==
  ASSUME NEW q \in Request, NEW res \in Response, ~res.active
  PROVE  RequestKnows(Answered(q, res))
<1>1. PICK a : a = Answered(q, res)
  OBVIOUS
<1>2. a.pc = "done" /\ a.res = res
  BY <1>1, AnsweredIsRequest
<1>3. RequestKnows(a)
  BY <1>2 DEF RequestKnows
<1>4. QED
  BY <1>1, <1>3

\* Nothing is minted, stored or known at the start.
LEMMA InitLifeInv == Init => LifeInv
<1> SUFFICES ASSUME Init PROVE LifeInv
  OBVIOUS
<1>1. MintedSoundly /\ SessionsAsMinted /\ BlacklistedForGood
  BY DEF Init, MintedSoundly, SessionsAsMinted, BlacklistedForGood
<1>2. \A r \in Req : RequestKnows(req[r])
  BY DEF Init, Idle, RequestKnows
<1>3. QED
  BY <1>1, <1>2 DEF LifeInv

-----------------------------------------------------------------------------
(***************************************************************************)
(* Every action keeps the second invariant.                                *)
(***************************************************************************)

\* An introspection begins, of a token that was minted or of none.
LEMMA LifeIntrospect ==
  ASSUME IInv, LifeInv, NEW r \in Req, NEW t \in Sendable, Introspect(r, t)
  PROVE  LifeInv'
<1>1. PICK q : q = Begun("introspect", "exists", t)
  OBVIOUS
<1>2. q.pc = "exists" /\ q.tok = t
  BY <1>1 DEF Begun, Idle
<1>3. t \in minted \union {Junk}
  BY DEF IInv, TypeOK, Sendable
<1>4. RequestKnows(q)
  BY <1>2, <1>3 DEF RequestKnows
<1>5. QED
  BY <1>1, <1>4, RequestOnlyKnows DEF Introspect

\* A reply of Redis that ends a request without calling anything active.
LEMMA LifeRefused ==
  ASSUME IInv, LifeInv, UNCHANGED <<now, store, tokens, history>>,
         NEW r \in Req, NEW code \in {400, 403, 404, 500},
         Answer(r, Status(code))
  PROVE  LifeInv'
<1>1. Status(code) \in Response /\ ~Status(code).active
  BY StatusIsResponse
<1>2. RequestKnows(Answered(req[r], Status(code)))
  BY <1>1, AnsweredKnows DEF IInv, TypeOK
<1>3. QED
  BY <1>2, RequestOnlyKnows DEF Answer

\* The reply of EXISTS: with JWT the answer tells of no user, with sessions the
\* request goes on to read the session.
LEMMA LifeIntrospectChecked ==
  ASSUME IInv, LifeInv, NEW r \in Req, IntrospectChecked(r)
  PROVE  LifeInv'
<1>1. /\ req[r] \in Request /\ RequestKnows(req[r]) /\ req[r].pc = "exists"
      /\ UNCHANGED <<now, store, tokens, history>>
  BY DEF IInv, TypeOK, LifeInv, IntrospectChecked
<1>2. CASE Answer(r, Status(500)) \/ Answer(r, Status(403))
  BY <1>1, <1>2, LifeRefused
<1>3. CASE ENABLE_JWT /\ Answer(r, Active)
  <2>1. PICK q : q = Answered(req[r], Active)
    OBVIOUS
  <2>2. q.pc = "done"
    BY <1>1, <2>1, ActiveIsResponse, AnsweredIsRequest
  <2>3. RequestKnows(q)
    BY <1>3, <2>2 DEF RequestKnows
  <2>4. QED
    BY <1>1, <1>3, <2>1, <2>3, RequestOnlyKnows DEF Answer
<1>4. CASE Goto(r, "get")
  <2>1. PICK q : q = [req[r] EXCEPT !.pc = "get"]
    OBVIOUS
  <2>2. q.pc = "get" /\ q.tok = req[r].tok
    BY <1>1, <2>1 DEF Request
  <2>3. RequestKnows(q)
    BY <1>1, <2>2 DEF RequestKnows
  <2>4. QED
    BY <1>1, <1>4, <2>1, <2>3, RequestOnlyKnows DEF Goto
<1>5. QED
  BY <1>2, <1>3, <1>4 DEF IntrospectChecked

\* A session found is the one its token was minted with, and is read as such.
LEMMA SessionFound ==
  ASSUME IInv, LifeInv, NEW t \in minted \union {Junk},
         Get(session, t, now) # Missing
  PROVE  /\ t \in minted
         /\ session[t] = SessionOf(t)
         /\ Get(session, t, now) = claims[t].user
         /\ now < claims[t].exp
         /\ SessionAnswer(claims[t].user) \in
              {Status(500), ActiveUser(claims[t].user)}
<1>1. Get(session, t, now) = session[t].value /\ now < session[t].expireAt
  BY DEF Get, IsLive
<1>2. session[t] # Absent
  BY <1>1 DEF Absent
<1>3. t \in TokenStr
  BY DEF IInv, TypeOK, TokenStr
<1>4. t \in minted
  BY <1>2, <1>3 DEF IInv, OnlyMintedHaveSessions
<1>5. session[t] = SessionOf(t)
  BY <1>2, <1>4 DEF LifeInv, SessionsAsMinted
<1>6. PICK u \in UserShape : u = claims[t].user /\ Issuable(u)
  BY <1>4 DEF LifeInv, MintedSoundly, SoundClaims
<1>7. SessionAnswer(u) \in {Status(500), ActiveUser(u)}
  BY <1>6, IssuableReadsBack DEF SessionAnswer
<1>8. QED
  BY <1>1, <1>4, <1>5, <1>6, <1>7 DEF SessionOf

\* The reply of GET: the answer is about the user the token was minted for.
LEMMA LifeIntrospectRead ==
  ASSUME IInv, LifeInv, NEW r \in Req, IntrospectRead(r)
  PROVE  LifeInv'
<1> DEFINE t == req[r].tok
<1>1. /\ req[r] \in Request /\ RequestKnows(req[r]) /\ req[r].pc = "get"
      /\ UNCHANGED <<now, store, tokens, history>>
  BY DEF IInv, TypeOK, LifeInv, IntrospectRead
<1>2. t \in minted \union {Junk}
  BY <1>1 DEF RequestKnows
<1>3. CASE Answer(r, Status(500)) \/ Answer(r, Status(404))
  BY <1>1, <1>3, LifeRefused
<1>4. CASE /\ Get(session, t, now) # Missing
           /\ Answer(r, SessionAnswer(Get(session, t, now)))
  <2>1. PICK u \in UserShape :
          /\ u = claims[t].user /\ t \in minted
          /\ Answer(r, SessionAnswer(u))
          /\ SessionAnswer(u) \in {Status(500), ActiveUser(u)}
    BY <1>2, <1>4, SessionFound DEF LifeInv, MintedSoundly, SoundClaims
  <2>2. CASE SessionAnswer(u) = Status(500)
    BY <1>1, <2>1, <2>2, LifeRefused
  <2>3. CASE SessionAnswer(u) = ActiveUser(u)
    <3>1. PICK q : q = Answered(req[r], ActiveUser(u))
      OBVIOUS
    <3>2. ActiveUser(u) \in Response /\ ActiveUser(u).status = 200
      BY ActiveIsResponse DEF ActiveUser
    <3>3. q.pc = "done" /\ q.res = ActiveUser(u)
      BY <1>1, <3>1, <3>2, AnsweredIsRequest
    <3>4. q.tok = t
      BY <1>1, <3>1, <3>2 DEF Answered, Request
    <3> HIDE DEF t
    <3>5. RequestKnows(q)
      BY <2>1, <3>3, <3>4 DEF RequestKnows
    <3>6. QED
      BY <1>1, <2>1, <2>3, <3>1, <3>5, RequestOnlyKnows DEF Answer
  <2>4. QED
    BY <2>1, <2>2, <2>3
<1>5. QED
  BY <1>3, <1>4 DEF IntrospectRead

\* An invalidation begins, or is refused: what is asked for may be over from now.
LEMMA LifeInvalidate ==
  ASSUME IInv, LifeInv, NEW r \in Req, NEW t \in Sendable, Invalidate(r, t)
  PROVE  LifeInv'
<1>1. /\ t \in TokenStr /\ asked \subseteq asked'
      /\ UNCHANGED <<now, store, tokens, revoked>>
  BY DEF IInv, TypeOK, Sendable, TokenStr, Invalidate
<1>2. PICK q : /\ req' = [req EXCEPT ![r] = q]
               /\ \/ q.pc \in {"setex", "del"}
                  \/ q.pc = "done" /\ ~q.res.active
  <2>1. CASE ENABLE_JWT /\ t \notin Token
    <3>1. PICK begun \in Request : begun = Begun("invalidate", "setex", t)
      BY <1>1, BegunIsRequest
    <3>2. PICK q : q = Answered(begun, Status(500))
      OBVIOUS
    <3>3. q.pc = "done" /\ ~q.res.active
      <4>1. Status(500) \in Response /\ ~Status(500).active
        BY StatusIsResponse
      <4>2. QED
        BY <3>1, <3>2, <4>1, AnsweredIsRequest
    <3>4. QED
      BY <2>1, <3>1, <3>2, <3>3 DEF Invalidate
  <2>2. CASE ~(ENABLE_JWT /\ t \notin Token)
    <3>1. PICK q : q = Begun("invalidate", IF ENABLE_JWT THEN "setex" ELSE "del", t)
      OBVIOUS
    <3>2. q.pc \in {"setex", "del"}
      BY <3>1 DEF Begun, Idle
    <3>3. QED
      BY <2>2, <3>1, <3>2 DEF Invalidate
  <2>3. QED
    BY <2>1, <2>2
<1>3. MintedGrows
  BY <1>1 DEF MintedGrows, tokens
<1>4. RequestKnows(q)'
  BY <1>2 DEF RequestKnows
<1>5. \A x \in Req : RequestKnows(req[x])'
  BY <1>2, <1>3, <1>4, KnowingStep
<1>6. MintedSoundly' /\ SessionsAsMinted' /\ BlacklistedForGood'
  BY <1>1 DEF LifeInv, MintedSoundly, SoundClaims, Derives, SessionsAsMinted,
              SessionOf, BlacklistedForGood, store, tokens
<1>7. QED
  BY <1>5, <1>6 DEF LifeInv

\* The answer to an invalidation is about no user.
LEMMA InvalidateAnswerKnows ==
  ASSUME IInv, LifeInv, MintedGrows, NEW r \in Req, NEW outcome,
         InvalidateAnswer(r, outcome)
  PROVE  \A x \in Req : RequestKnows(req[x])'
<1>1. PICK res \in Response :
        /\ res = IF Acknowledged(outcome) THEN Status(200) ELSE Status(500)
        /\ ~res.active
  BY StatusIsResponse
<1>2. PICK q : q = Answered(req[r], res)
  OBVIOUS
<1>3. RequestKnows(q)'
  <2>1. RequestKnows(q)
    BY <1>1, <1>2, AnsweredKnows DEF IInv, TypeOK
  <2>2. QED
    BY <2>1, RequestStillKnows
<1>4. req' = [req EXCEPT ![r] = q]
  BY <1>1, <1>2 DEF InvalidateAnswer, Answer
<1>5. QED
  BY <1>3, <1>4, KnowingStep

\* SETEX of a blacklist entry: of a token it was asked for, with a time to live
\* that is a date.
LEMMA LifeInvalidateBlacklist ==
  ASSUME IInv, LifeInv, NEW r \in Req, InvalidateBlacklist(r)
  PROVE  LifeInv'
<1> DEFINE t == req[r].tok
<1>1. PICK outcome \in SetExOutcomes(BlacklistTtl(t)) :
        /\ blacklist' = IF Landed(outcome)
                        THEN SetEx(blacklist, t, "true", BlacklistTtl(t), now)
                        ELSE blacklist
        /\ InvalidateAnswer(r, outcome)
  BY DEF InvalidateBlacklist
<1>2. req[r].pc = "setex" /\ UNCHANGED <<now, session, tokens, asked>>
  BY DEF InvalidateBlacklist
<1>3. t \in asked /\ t \in minted /\ t \in Token
  BY <1>2 DEF IInv, TypeOK, RequestOK, Awaiting
<1>4. claims[t].exp \in Nat /\ claims[t].exp >= Epoch /\ now \in Nat
        /\ now >= Epoch
  BY <1>3, HorizonAssumption DEF IInv, TypeOK, MintedClaims, Claims
<1>5. \A x \in Req : RequestKnows(req[x])'
  <2>1. MintedGrows
    BY <1>2 DEF MintedGrows, tokens
  <2>2. QED
    BY <1>1, <2>1, InvalidateAnswerKnows
<1>6. BlacklistedForGood'
  <2> SUFFICES ASSUME NEW x \in TokenStr
               PROVE  \/ blacklist'[x] = Absent
                      \/ x \in asked /\ blacklist'[x].expireAt > MaxNow
    BY <1>2 DEF BlacklistedForGood
  <2>1. blacklist \in [TokenStr -> [value : {"true", Missing}, expireAt : Nat]]
    BY DEF IInv, TypeOK
  <2>2. \/ blacklist[x] = Absent
        \/ x \in asked /\ blacklist[x].expireAt > MaxNow
    BY DEF LifeInv, BlacklistedForGood
  <2>3. CASE Landed(outcome)
    <3>1. blacklist' = [blacklist EXCEPT ![t] =
                         [value |-> "true", expireAt |-> now + claims[t].exp]]
      BY <1>1, <2>3 DEF SetEx, BlacklistTtl
    <3>2. now + claims[t].exp > MaxNow
      BY <1>4, HorizonAssumption
    <3> HIDE DEF t
    <3>3. QED
      BY <1>3, <2>1, <2>2, <3>1, <3>2
  <2>4. CASE ~Landed(outcome)
    BY <1>1, <2>2, <2>4
  <2>5. QED
    BY <2>3, <2>4
<1>7. MintedSoundly' /\ SessionsAsMinted'
  BY <1>2 DEF LifeInv, MintedSoundly, SoundClaims, Derives, SessionsAsMinted,
              SessionOf, tokens
<1>8. QED
  BY <1>5, <1>6, <1>7 DEF LifeInv

\* DEL of a session: of a token it was asked for, and of no other.
LEMMA LifeInvalidateDelete ==
  ASSUME IInv, LifeInv, NEW r \in Req, InvalidateDelete(r)
  PROVE  LifeInv'
<1> DEFINE t == req[r].tok
<1>1. PICK outcome \in WriteOutcome :
        /\ session' = IF Landed(outcome) THEN Del(session, t) ELSE session
        /\ InvalidateAnswer(r, outcome)
  BY DEF InvalidateDelete
<1>2. req[r].pc = "del" /\ UNCHANGED <<now, blacklist, tokens, asked>>
  BY DEF InvalidateDelete
<1>3. t \in asked \union {Junk}
  BY <1>2 DEF IInv, TypeOK, RequestOK, Awaiting
<1> HIDE DEF t
<1>4. \A x \in TokenStr : /\ session'[x] \in {session[x], Absent}
                          /\ x # t => session'[x] = session[x]
  BY <1>1 DEF IInv, TypeOK, Del
<1>5. SessionsAsMinted'
  <2> SUFFICES ASSUME NEW x \in minted
               PROVE  /\ session'[x] \in {SessionOf(x), Absent}
                      /\ ~ENABLE_JWT /\ x \notin asked => session'[x] = SessionOf(x)
    BY <1>2 DEF SessionsAsMinted, SessionOf, tokens
  <2>1. /\ session[x] \in {SessionOf(x), Absent}
        /\ ~ENABLE_JWT /\ x \notin asked => session[x] = SessionOf(x)
    BY DEF LifeInv, SessionsAsMinted
  <2>2. x \in TokenStr /\ x # Junk
    BY TokenAssumption DEF IInv, TypeOK, TokenStr
  <2>3. QED
    BY <1>3, <1>4, <2>1, <2>2
<1>6. \A x \in Req : RequestKnows(req[x])'
  <2>1. MintedGrows
    BY <1>2 DEF MintedGrows, tokens
  <2>2. QED
    BY <1>1, <2>1, InvalidateAnswerKnows
<1>7. MintedSoundly' /\ BlacklistedForGood'
  BY <1>2 DEF LifeInv, MintedSoundly, SoundClaims, Derives, BlacklistedForGood,
              tokens
<1>8. QED
  BY <1>5, <1>6, <1>7 DEF LifeInv

\* An upgrade refused for its body or its header.
LEMMA LifeUpgradeRejected ==
  ASSUME IInv, LifeInv, NEW r \in Req, UpgradeRejected(r)
  PROVE  LifeInv'
<1>1. PICK begun \in Request : begun = Begun("upgrade", "load", Missing)
  BY BegunIsRequest
<1>2. RequestKnows(Answered(begun, Status(400)))
  BY StatusIsResponse, AnsweredKnows
<1>3. QED
  BY <1>1, <1>2, RequestOnlyKnows DEF UpgradeRejected

\* An upgrade of a session begins; nothing is known of the session yet.
LEMMA LifeUpgradeSession ==
  ASSUME IInv, LifeInv, NEW r \in Req, NEW t, NEW org, NEW inHeader,
         UpgradeSession(r, t, org, inHeader)
  PROVE  LifeInv'
<1>1. PICK q : q = [Begun("upgrade", "load", t) EXCEPT !.header = inHeader,
                                                      !.org = org]
  OBVIOUS
<1>2. q.pc = "load"
  BY <1>1 DEF Begun, Idle
<1>3. RequestKnows(q)
  BY <1>2 DEF RequestKnows
<1>4. QED
  BY <1>1, <1>3, RequestOnlyKnows DEF UpgradeSession

\* An upgrade that has the raw user of a token: it is refused, or will mint for a
\* user that derives from the token.
LEMMA UpgradedKnows ==
  ASSUME IInv, LifeInv, NEW t \in minted,
         NEW q \in Request, q.tok = t, q.op = "upgrade", q.org \in OrgCode
  PROVE  RequestKnows(Upgraded(q, claims[t].user))
<1>1. SoundClaims(claims[t]) /\ claims[t].user \in UserShape
  BY DEF LifeInv, MintedSoundly, SoundClaims
<1>2. PICK a : a = Upgraded(q, claims[t].user)
  OBVIOUS
<1>3. \/ a.pc = "done" /\ ~a.res.active
      \/ a.pc = "mint"
  BY <1>1, <1>2, UpgradedIsRequest
<1>4. a.pc = "mint" => Issuable(a.user) /\ a.tok = t /\ Derives(a.user, t, a.org)
  BY <1>1, <1>2, UpgradedDerives DEF IInv, TypeOK
<1>5. RequestKnows(a)
  BY <1>3, <1>4 DEF RequestKnows
<1>6. QED
  BY <1>2, <1>5

\* An upgrade of a JWT begins, from the claims of a token some client holds.
LEMMA LifeUpgradeJwt ==
  ASSUME IInv, LifeInv, NEW r \in Req, NEW t \in handed, NEW org \in OrgCode,
         UpgradeJwt(r, t, org)
  PROVE  LifeInv'
<1>1. t \in minted /\ t \in TokenStr
  BY DEF IInv, TypeOK, TokenStr
<1>2. PICK begun \in Request :
        begun = Begun("upgrade", "load", t) /\ begun.op = "upgrade"
          /\ begun.tok = t
  BY <1>1, BegunIsRequest
<1>3. PICK q : q = [begun EXCEPT !.header = TRUE, !.org = org]
  OBVIOUS
<1>4. q \in Request /\ q.op = "upgrade" /\ q.tok = t /\ q.org = org
  BY <1>2, <1>3 DEF Request
<1>5. RequestKnows(Upgraded(q, claims[t].user))
  BY <1>1, <1>4, UpgradedKnows
<1>6. req' = [req EXCEPT ![r] = Upgraded(q, claims[t].user)]
  BY <1>2, <1>3 DEF UpgradeJwt
<1>7. QED
  BY <1>5, <1>6, RequestOnlyKnows DEF UpgradeJwt

\* The reply of GET to an upgrade: the user is the one the token was minted for.
LEMMA LifeUpgradeLoad ==
  ASSUME IInv, LifeInv, NEW r \in Req, UpgradeLoad(r)
  PROVE  LifeInv'
<1> DEFINE t == req[r].tok
<1>1. /\ req[r] \in Request /\ req[r].pc = "load"
      /\ UNCHANGED <<now, store, tokens, history>>
  BY DEF IInv, TypeOK, UpgradeLoad
<1>2. req[r].op = "upgrade" /\ t \in TokenStr /\ req[r].org \in OrgCode
  BY <1>1 DEF IInv, RequestOK, Awaiting
<1>3. CASE Answer(r, Status(500)) \/ Answer(r, Status(404))
  BY <1>1, <1>3, LifeRefused
<1>4. CASE /\ Get(session, t, now) # Missing
           /\ req' = [req EXCEPT ![r] = Upgraded(req[r], Get(session, t, now))]
  <2>1. t \in minted
    BY <1>2, <1>4 DEF IInv, OnlyMintedHaveSessions, Get, Absent
  <2>2. Get(session, t, now) = claims[t].user
    BY <1>4, <2>1, SessionFound
  <2>3. RequestKnows(Upgraded(req[r], claims[t].user))
    BY <1>1, <1>2, <2>1, UpgradedKnows
  <2>4. QED
    BY <1>1, <1>4, <2>2, <2>3, RequestOnlyKnows
<1>5. QED
  BY <1>3, <1>4 DEF UpgradeLoad

\* A login asks for a token of a user that may be issued one.
LEMMA LifeLogin ==
  ASSUME IInv, LifeInv, NEW r \in Req,
         NEW u \in UserShape, Issuable(u), GetGenerateToken(r, u)
  PROVE  LifeInv'
<1>1. PICK q : q = [Begun("login", "mint", Missing) EXCEPT !.user = u]
  OBVIOUS
<1>2. q.pc = "mint" /\ q.tok = Missing /\ q.user = u
  BY <1>1 DEF Begun, Idle
<1>3. RequestKnows(q)
  BY <1>2 DEF RequestKnows
<1>4. QED
  BY <1>1, <1>3, RequestOnlyKnows DEF GetGenerateToken

\* What the generation of a token adds to the claims is sound, and changes nothing
\* about the tokens there were.
LEMMA GeneratedIsSound ==
  ASSUME IInv, LifeInv, NEW r \in Req, NEW t \in Token \ minted,
         req[r].pc = "mint", Generated(r, t)
  PROVE  /\ MintedGrows
         /\ MintedSoundly'
         /\ minted' = minted \union {t}
         /\ claims'[t].user = req[r].user
         /\ claims'[t].exp = now + GetTokenExpiration(req[r].user)
<1>1. PICK c : c = NewClaims(r)
  OBVIOUS
<1>2. minted' = minted \union {t} /\ claims' = [claims EXCEPT ![t] = c]
  BY <1>1 DEF Generated
<1>3. claims \in [Token -> Claims] /\ minted \subseteq Token
  BY DEF IInv, TypeOK
<1>4. /\ claims'[t] = c
      /\ \A x \in minted : claims'[x] = claims[x]
  BY <1>2, <1>3
<1>5. MintedGrows
  BY <1>2, <1>4 DEF MintedGrows
<1>6. /\ req[r].user \in UserShape /\ Issuable(req[r].user)
      /\ req[r].tok # Missing => Derives(req[r].user, req[r].tok, req[r].org)
  BY DEF IInv, RequestOK, Awaiting, LifeInv, RequestKnows
<1>7. /\ c.user = req[r].user /\ c.parent = req[r].tok /\ c.org = req[r].org
      /\ c.iat = now /\ c.exp = now + GetTokenExpiration(req[r].user)
  BY <1>1 DEF NewClaims
<1>8. SoundClaims(c)
  BY <1>6, <1>7 DEF SoundClaims
<1>9. MintedSoundly'
  <2> SUFFICES ASSUME NEW x \in minted' PROVE SoundClaims(claims[x])'
    BY DEF MintedSoundly
  <2>1. PICK d : d = claims'[x] /\ SoundClaims(d)
    <3>1. CASE x = t
      BY <1>4, <1>8, <3>1
    <3>2. CASE x # t
      BY <1>2, <1>4, <3>2 DEF LifeInv, MintedSoundly
    <3>3. QED
      BY <3>1, <3>2
  <2>2. SoundClaims(d)'
    BY <1>5, <2>1, SoundClaimsStay
  <2>3. QED
    BY <2>1, <2>2 DEF SoundClaims, Derives
<1>10. QED
  BY <1>2, <1>4, <1>5, <1>7, <1>9

\* A token is handed over in an answer that calls nothing active.
LEMMA HandOverAnswers ==
  ASSUME NEW r \in Req, NEW t \in Token, HandOver(r, t)
  PROVE  \E res \in Response : Answer(r, res) /\ ~res.active
<1>1. PICK code \in {200, 301} : code = IF req[r].op = "login" THEN 301 ELSE 200
  OBVIOUS
<1>2. PICK res : res = [Status(code) EXCEPT !.token = t]
  OBVIOUS
<1>3. res \in Response /\ ~res.active
  <2>1. Status(code) \in Response /\ ~Status(code).active
    BY StatusIsResponse
  <2>2. QED
    BY <1>2, <2>1 DEF Response
<1>4. Answer(r, res)
  BY <1>1, <1>2 DEF HandOver
<1>5. QED
  BY <1>3, <1>4

\* The answer of a request that minted, or failed to, is about no user.
LEMMA MintAnswerKnows ==
  ASSUME IInv, LifeInv, MintedGrows, NEW r \in Req,
         \/ Answer(r, Status(500))
         \/ \E t \in Token : HandOver(r, t)
  PROVE  \A x \in Req : RequestKnows(req[x])'
<1>1. PICK res \in Response : Answer(r, res) /\ ~res.active
  <2>1. CASE Answer(r, Status(500))
    BY <2>1, StatusIsResponse
  <2>2. CASE \E t \in Token : HandOver(r, t)
    BY <2>2, HandOverAnswers
  <2>3. QED
    BY <2>1, <2>2
<1>2. PICK q : q = Answered(req[r], res)
  OBVIOUS
<1>3. RequestKnows(q)
  BY <1>1, <1>2, AnsweredKnows DEF IInv, TypeOK
<1>4. RequestKnows(q)'
  BY <1>3, RequestStillKnows
<1>5. QED
  BY <1>1, <1>2, <1>4, KnowingStep DEF Answer

\* The other parts of the invariant, about a token that was just minted with the
\* session it is to have, or with none.
LEMMA MintedStep ==
  ASSUME IInv, LifeInv, UNCHANGED <<blacklist, history>>, NEW r \in Req,
         NEW t \in Token \ minted, req[r].pc = "mint", Generated(r, t),
         \/ ENABLE_JWT /\ session' = session
         \/ session' = SetEx(session, t, req[r].user,
                             GetTokenExpiration(req[r].user), now)
  PROVE  SessionsAsMinted' /\ BlacklistedForGood'
<1>1. /\ minted' = minted \union {t}
      /\ \A x \in minted : claims'[x] = claims[x]
      /\ claims'[t].user = req[r].user
      /\ claims'[t].exp = now + GetTokenExpiration(req[r].user)
  BY GeneratedIsSound DEF MintedGrows
<1>2. t \in TokenStr /\ minted \subseteq TokenStr /\ DOMAIN session = TokenStr
  BY DEF IInv, TypeOK, TokenStr
<1>3. session[t] = Absent
  BY <1>2 DEF IInv, OnlyMintedHaveSessions
<1>4. PICK e : e = [value |-> req[r].user,
                    expireAt |-> now + GetTokenExpiration(req[r].user)]
  OBVIOUS
<1>5. \/ ENABLE_JWT /\ session' = session
      \/ session' = [session EXCEPT ![t] = e]
  BY <1>4 DEF SetEx
<1>6. /\ \A x \in minted : session'[x] = session[x]
      /\ \/ session'[t] = e
         \/ ENABLE_JWT /\ session'[t] = Absent
  BY <1>2, <1>3, <1>5
<1>7. SessionsAsMinted'
  <2> SUFFICES ASSUME NEW x \in minted'
               PROVE  /\ session'[x] \in {SessionOf(x)', Absent}
                      /\ ~ENABLE_JWT /\ x \notin asked => session'[x] = SessionOf(x)'
    BY DEF SessionsAsMinted, history
  <2>1. CASE x = t
    <3>1. SessionOf(x)' = e
      BY <1>1, <1>4, <2>1 DEF SessionOf
    <3>2. QED
      BY <1>6, <2>1, <3>1
  <2>2. CASE x # t
    <3>1. x \in minted /\ SessionOf(x)' = SessionOf(x)
      BY <1>1, <2>2 DEF SessionOf
    <3>2. QED
      BY <1>6, <3>1 DEF LifeInv, SessionsAsMinted
  <2>3. QED
    BY <2>1, <2>2
<1>8. BlacklistedForGood'
  BY DEF LifeInv, BlacklistedForGood, history
<1>9. QED
  BY <1>7, <1>8

\* Nothing is minted: the request is answered, all else stays.
LEMMA LifeMintFails ==
  ASSUME IInv, LifeInv, UNCHANGED <<now, store, tokens, history>>, NEW r \in Req,
         Answer(r, Status(500))
  PROVE  LifeInv'
BY LifeRefused

\* A JWT is signed for the user of the request.
LEMMA LifeMintJwt ==
  ASSUME IInv, LifeInv, NEW r \in Req, MintJwt(r)
  PROVE  LifeInv'
<1>1. req[r].pc = "mint" /\ ENABLE_JWT /\ UNCHANGED <<now, store, history>>
  BY DEF MintJwt, NewToken
<1>2. CASE Answer(r, Status(500)) /\ UNCHANGED tokens
  BY <1>1, <1>2, LifeMintFails
<1>3. ASSUME NEW t \in Token \ minted, Generated(r, t), HandOver(r, t)
      PROVE  LifeInv'
  <2>1. MintedGrows /\ MintedSoundly'
    BY <1>1, <1>3, GeneratedIsSound
  <2>2. SessionsAsMinted' /\ BlacklistedForGood'
    BY <1>1, <1>3, MintedStep DEF store
  <2>3. \A x \in Req : RequestKnows(req[x])'
    BY <1>3, <2>1, MintAnswerKnows
  <2>4. QED
    BY <2>1, <2>2, <2>3 DEF LifeInv
<1>4. QED
  BY <1>2, <1>3 DEF MintJwt, NewToken

\* A session is stored for the user of the request, until the claims say.
LEMMA LifeMintSession ==
  ASSUME IInv, LifeInv, NEW r \in Req, MintSession(r)
  PROVE  LifeInv'
<1>1. req[r].pc = "mint" /\ UNCHANGED <<now, blacklist, history>>
  BY DEF MintSession, SessionTtl, NewToken
<1>2. CASE Answer(r, Status(500)) /\ UNCHANGED <<session, tokens>>
  BY <1>1, <1>2, LifeMintFails DEF store
<1>3. ASSUME NEW t \in Token \ minted, Generated(r, t),
             session' = SetEx(session, t, req[r].user,
                              GetTokenExpiration(req[r].user), now),
             HandOver(r, t) \/ Answer(r, Status(500))
      PROVE  LifeInv'
  <2>1. MintedGrows /\ MintedSoundly'
    BY <1>1, <1>3, GeneratedIsSound
  <2>2. SessionsAsMinted' /\ BlacklistedForGood'
    BY <1>1, <1>3, MintedStep
  <2>3. \A x \in Req : RequestKnows(req[x])'
    BY <1>3, <2>1, MintAnswerKnows
  <2>4. QED
    BY <2>1, <2>2, <2>3 DEF LifeInv
<1>4. QED
  BY <1>2, <1>3 DEF MintSession, SessionTtl, NewToken

\* Nothing of the invariant is about the time.
LEMMA LifeTick == ASSUME LifeInv, Tick PROVE LifeInv'
BY DEF Tick, LifeInv, MintedSoundly, SoundClaims, Derives, SessionsAsMinted,
       SessionOf, BlacklistedForGood, RequestKnows, store, tokens, history

\* Instances stop: their requests know nothing any more.
LEMMA LifeCrash == ASSUME IInv, LifeInv, NEW served, Crash(served) PROVE LifeInv'
<1>1. req' = [r \in Req |-> IF r \in served THEN Idle ELSE req[r]]
        /\ UNCHANGED <<now, store, tokens, history>>
  BY DEF Crash
<1>2. ASSUME NEW r \in Req PROVE RequestKnows(req[r])'
  <2>1. CASE r \in served
    <3>1. req'[r] = Idle
      BY <1>1, <2>1
    <3>2. QED
      BY <3>1 DEF Idle, RequestKnows
  <2>2. CASE r \notin served
    <3>1. req'[r] = req[r] /\ RequestKnows(req[r])
      BY <1>1, <2>2 DEF LifeInv
    <3>2. QED
      BY <1>1, <3>1 DEF RequestKnows, Derives, tokens
  <2>3. QED
    BY <2>1, <2>2
<1>3. QED
  BY <1>1, <1>2 DEF LifeInv, MintedSoundly, SoundClaims, Derives,
     SessionsAsMinted, SessionOf, BlacklistedForGood, store, tokens, history

\* The second invariant is inductive relative to the first.
LEMMA StepLifeInv == IInv /\ LifeInv /\ [Next]_vars => LifeInv'
<1> SUFFICES ASSUME IInv, LifeInv, [Next]_vars PROVE LifeInv'
  OBVIOUS
<1>1. ASSUME NEW r \in Req, Start(r) PROVE LifeInv'
  <2>1. CASE \E u \in LoginUser : GetGenerateToken(r, u)
    BY <2>1, LifeLogin, LoginAssumption
  <2>2. CASE \E t \in Sendable : Introspect(r, t) \/ Invalidate(r, t)
    BY <2>2, LifeIntrospect, LifeInvalidate
  <2>3. CASE UpgradeRejected(r)
    BY <2>3, LifeUpgradeRejected
  <2>4. CASE \E t \in Sendable, org \in OrgCode, inHeader \in BOOLEAN :
               UpgradeSession(r, t, org, inHeader)
    BY <2>4, LifeUpgradeSession
  <2>5. CASE \E t \in handed, org \in OrgCode : UpgradeJwt(r, t, org)
    BY <2>5, LifeUpgradeJwt
  <2>6. QED
    BY <1>1, <2>1, <2>2, <2>3, <2>4, <2>5 DEF Start, ClientStart
<1>2. ASSUME NEW r \in Req, Continue(r) PROVE LifeInv'
  <2>1. CASE IntrospectChecked(r)
    BY <2>1, LifeIntrospectChecked
  <2>2. CASE IntrospectRead(r)
    BY <2>2, LifeIntrospectRead
  <2>3. CASE InvalidateBlacklist(r)
    BY <2>3, LifeInvalidateBlacklist
  <2>4. CASE InvalidateDelete(r)
    BY <2>4, LifeInvalidateDelete
  <2>5. CASE UpgradeLoad(r)
    BY <2>5, LifeUpgradeLoad
  <2>6. CASE MintJwt(r)
    BY <2>6, LifeMintJwt
  <2>7. CASE MintSession(r)
    BY <2>7, LifeMintSession
  <2>8. QED
    BY <1>2, <2>1, <2>2, <2>3, <2>4, <2>5, <2>6, <2>7 DEF Continue
<1>3. ASSUME NEW served \in (SUBSET Req) \ {{}}, Crash(served) PROVE LifeInv'
  BY <1>3, LifeCrash
<1>4. CASE Tick
  BY <1>4, LifeTick
<1>5. CASE UNCHANGED vars
  BY <1>5 DEF LifeInv, MintedSoundly, SoundClaims, Derives, SessionsAsMinted,
              SessionOf, BlacklistedForGood, RequestKnows, vars, store, tokens,
              history
<1>6. QED
  BY <1>1, <1>2, <1>3, <1>4, <1>5 DEF Next

\* Both invariants hold in every state of every behaviour.
THEOREM LifeInvariance == Spec => []LifeInv
<1>1. Init => LifeInv
  BY InitLifeInv
<1>2. IInv /\ LifeInv /\ [Next]_vars => LifeInv'
  BY StepLifeInv
<1>3. QED
  BY <1>1, <1>2, Invariance, PTL DEF Spec

-----------------------------------------------------------------------------
(***************************************************************************)
(* What the invariants imply.  The theorems after them, and those about    *)
(* the hub, only say of which behaviours.                                  *)
(***************************************************************************)
\* Whoever holds an L2 token of an upgrade is the citizen of the L1 token it is from.
LEMMA DerivedFromL1 == LifeInv => L2Provenance
BY DEF LifeInv, MintedSoundly, SoundClaims, Derives, L2Provenance

\* What /introspect tells of a session is what its token was minted with.
LEMMA ToldAsMinted == LifeInv => IntrospectionTellsTheMinted
<1> SUFFICES ASSUME LifeInv, ~ENABLE_JWT
             PROVE  TellsTheMinted /\ SessionsReadBack
  BY DEF IntrospectionTellsTheMinted
<1>1. TellsTheMinted
  BY DEF LifeInv, RequestKnows, TellsTheMinted
<1>2. ASSUME NEW t \in minted, Get(session, t, now) # Missing
      PROVE  SessionAnswer(Get(session, t, now)) = ActiveUser(claims[t].user)
  <2>1. PICK u \in UserShape : u = claims[t].user /\ Issuable(u)
    BY DEF LifeInv, MintedSoundly, SoundClaims
  <2>2. session[t] # Absent
    BY <1>2 DEF Get, Absent
  <2>3. session[t] = SessionOf(t)
    BY <2>2 DEF LifeInv, SessionsAsMinted
  <2>4. Get(session, t, now) = u
    BY <1>2, <2>1, <2>3 DEF Get, SessionOf
  <2>5. DecodeAnyTokenUser(u) = u /\ u # Missing
    BY <2>1, IssuableReadsBack, MissingAssumption
  <2>6. QED
    BY <2>1, <2>4, <2>5 DEF SessionAnswer
<1>3. QED
  BY <1>1, <1>2 DEF SessionsReadBack

\* A token that nobody asked to invalidate is good until it expires.
LEMMA GoodUnlessAsked == IInv /\ LifeInv => NobodyElseEndsASession
<1> SUFFICES ASSUME IInv, LifeInv, NEW t \in handed \ asked
             PROVE  IF ENABLE_JWT THEN ~IsLive(blacklist[t], now)
                    ELSE now < claims[t].exp => IsLive(session[t], now)
  BY DEF NobodyElseEndsASession
<1>1. t \in minted /\ t \in TokenStr /\ now \in Nat
  BY HorizonAssumption DEF IInv, TypeOK, TokenStr
<1>2. CASE ENABLE_JWT
  <2>1. blacklist[t] = Absent
    BY <1>1 DEF LifeInv, BlacklistedForGood
  <2>2. QED
    BY <1>1, <1>2, <2>1 DEF Absent, IsLive
<1>3. CASE ~ENABLE_JWT
  <2>1. session[t] = SessionOf(t)
    BY <1>1, <1>3 DEF LifeInv, SessionsAsMinted
  <2>2. QED
    BY <1>3, <2>1 DEF SessionOf, IsLive
<1>4. QED
  BY <1>2, <1>3

(***************************************************************************)
(* However many upgrades of a token are under way, and whatever ends it    *)
(* while they are, an L2 token is for the citizen of the L1 token it comes *)
(* from, at that SPID level and for the company asked for.                 *)
(***************************************************************************)
THEOREM UpgradesKeepTheCitizen == Spec => []L2Provenance
BY DerivedFromL1, LifeInvariance, PTL

(***************************************************************************)
(* A token in a client's hands is good until it expires, unless somebody   *)
(* asked to invalidate that very token; in either mode, and whatever else  *)
(* fails meanwhile.                                                        *)
(***************************************************************************)
THEOREM TokensLastUnlessAsked == Spec => []NobodyElseEndsASession
BY GoodUnlessAsked, Invariance, LifeInvariance, PTL

(***************************************************************************)
(* What introspection tells of a session is what its token was minted      *)
(* with, through both codecs and whatever became of the token since.       *)
(***************************************************************************)
THEOREM IntrospectionIsTruthful == Spec => []IntrospectionTellsTheMinted
BY ToldAsMinted, LifeInvariance, PTL

(***************************************************************************)
(* No step calls a session active outside the lifetime that goes with the  *)
(* level it shows.  The answer is given in one step only, IntrospectRead,  *)
(* from a session that expires when the claims of its token say, and the   *)
(* level is what getTokenExpiration saw when it chose the lifetime.        *)
(***************************************************************************)


\* The steps that give an answer which calls something active.
LEMMA OnlyReadsReport ==
  ASSUME IInv, LifeInv, [Next]_vars, NEW r \in Req, ReportsActive(r), ~ENABLE_JWT
  PROVE  IntrospectRead(r)
<1>1. /\ req \in [Req -> Request] /\ RequestOK(req[r]) /\ RequestKnows(req[r])
      /\ req'[r].pc = "done" /\ req'[r].res.active
      /\ req[r].op = "introspect" /\ req[r].pc # "done"
  BY DEF IInv, TypeOK, LifeInv, ReportsActive
<1>2. ~Free(r) /\ req[r].pc \notin {"setex", "del", "load", "mint"}
  BY <1>1 DEF RequestOK, Awaiting, RequestKnows, Free
<1>3. ASSUME NEW x \in Req, x # r
      PROVE  ~Start(x) /\ ~Continue(x)
  <2> SUFFICES ASSUME Start(x) \/ Continue(x) PROVE FALSE
    OBVIOUS
  <2>1. PICK q : req' = [req EXCEPT ![x] = q]
    BY OneRequestSteps
  <2>2. req'[r] = req[r]
    BY <1>1, <1>3, <2>1
  <2>3. QED
    BY <1>1, <2>2
<1>4. ~Start(r)
  BY <1>2 DEF Start, ClientStart, Introspect, Invalidate, UpgradeRejected,
              UpgradeSession, UpgradeJwt, GetGenerateToken
<1>5. Continue(r) => IntrospectChecked(r) \/ IntrospectRead(r)
  BY <1>2 DEF Continue, InvalidateBlacklist, InvalidateDelete, UpgradeLoad,
              MintJwt, MintSession
<1>6. ~IntrospectChecked(r)
  <2> SUFFICES ASSUME IntrospectChecked(r) PROVE FALSE
    OBVIOUS
  <2>1. PICK code \in {403, 500} : Answer(r, Status(code)) \/ Goto(r, "get")
    BY DEF IntrospectChecked
  <2>2. PICK a : a = Answered(req[r], Status(code))
    OBVIOUS
  <2>3. ~a.res.active
    <3>1. Status(code) \in Response /\ ~Status(code).active
      BY StatusIsResponse
    <3>2. QED
      BY <1>1, <2>2, <3>1, AnsweredIsRequest
  <2>4. req'[r] = a \/ req'[r].pc = "get"
    BY <1>1, <2>1, <2>2 DEF Answer, Goto, Request
  <2>5. QED
    BY <1>1, <2>3, <2>4
<1>7. ASSUME NEW served \in (SUBSET Req) \ {{}}, Crash(served)
      PROVE  FALSE
  <2>1. req'[r] \in {Idle, req[r]}
    BY <1>7 DEF Crash
  <2>2. QED
    BY <1>1, <2>1 DEF Idle
<1>8. ~Tick /\ ~UNCHANGED vars
  BY <1>1 DEF Tick, vars
<1>9. QED
  BY <1>3, <1>4, <1>5, <1>6, <1>7, <1>8 DEF Next

\* What /introspect calls active is within the lifetime for the level it shows.
LEMMA ReportsWithinLifetime ==
  ASSUME IInv, LifeInv, [Next]_vars, NEW r \in Req, ReportsActive(r), ~ENABLE_JWT
  PROVE  now < claims[req[r].tok].iat + LifetimeOfLevel(req'[r].res.level)
<1> DEFINE t == req[r].tok
<1>1. IntrospectRead(r) /\ req[r] \in Request /\ RequestKnows(req[r])
  BY OnlyReadsReport DEF IInv, TypeOK, LifeInv
<1>2. t \in minted \union {Junk}
  BY <1>1 DEF IntrospectRead, RequestKnows
<1>3. PICK res : /\ Answer(r, res)
                 /\ \/ res \in {Status(500), Status(404)}
                    \/ /\ Get(session, t, now) # Missing
                       /\ res = SessionAnswer(Get(session, t, now))
  BY <1>1 DEF IntrospectRead
<1>4. Status(500) \in Response /\ Status(404) \in Response
        /\ ~Status(500).active /\ ~Status(404).active
  BY StatusIsResponse
<1>5. PICK a : a = Answered(req[r], res) /\ req'[r] = a /\ a.res.active
  BY <1>3 DEF Answer, IInv, TypeOK, ReportsActive
<1>6. res \notin {Status(500), Status(404)}
  BY <1>1, <1>4, <1>5, AnsweredIsRequest
<1>7. PICK u \in UserShape : u = claims[t].user /\ t \in minted
        /\ now < claims[t].exp /\ res = ActiveUser(u)
        /\ Issuable(u) /\ claims[t].exp = claims[t].iat + GetTokenExpiration(u)
  BY <1>2, <1>3, <1>6, SessionFound
     DEF LifeInv, MintedSoundly, SoundClaims
<1>8. a.res.level = u.level
  <2>1. ActiveUser(u) \in Response /\ ActiveUser(u).level = u.level
    BY ActiveIsResponse DEF ActiveUser
  <2>2. QED
    BY <1>1, <1>5, <1>7, <2>1, AnsweredIsRequest
<1>9. QED
  BY <1>5, <1>7, <1>8, IssuableReadsBack

(***************************************************************************)
(* With opaque tokens /introspect calls a token active only within the     *)
(* lifetime configured for its kind, counted from when it was minted.      *)
(***************************************************************************)
THEOREM ActiveOnlyWithinLifetime == Spec => ActiveWithinLifetime
<1>1. ASSUME IInv, LifeInv, [Next]_vars
      PROVE  [\A r \in Req : ReportsActive(r) /\ ~ENABLE_JWT =>
               now < claims[req[r].tok].iat
                       + LifetimeOfLevel(req'[r].res.level)]_vars
  BY <1>1, ReportsWithinLifetime
<1>2. QED
  BY <1>1, Invariance, LifeInvariance, PTL DEF Spec, ActiveWithinLifetime

-----------------------------------------------------------------------------
(***************************************************************************)
(* The steps of the contract, in terms of Life and Reported.               *)
(***************************************************************************)
SameLife(t) == Life(t)' = Life(t)
SameReports == \A r \in Req : Reported(r)' = Reported(r)

\* A token's life has begun or not, and its name tells nothing of when.
LEMMA LifeOfMinted ==
  \A t \in Token :
    /\ t \notin minted <=> Life(t) = "unborn"
    /\ t \in minted /\ ENABLE_JWT =>
         Life(t) = IF IsLive(blacklist[t], now) THEN "over" ELSE "live"
    /\ t \in minted /\ ~ENABLE_JWT =>
         Life(t) = IF IsLive(session[t], now) THEN "live" ELSE "over"
BY DEF Life

\* Requests turn to something else, and nothing happens to a token.
LEMMA ForgetStep ==
  ASSUME \A t \in Token : SameLife(t), revoked' = revoked,
         \A r \in Req : Reported(r)' \in {Missing, Reported(r)}
  PROVE  Contract!Next
<1> DEFINE silent == {r \in Req : Reported(r)' = Missing}
<1>1. Contract!Forget(silent)
  BY DEF Contract!Forget
<1>2. silent \in SUBSET Req
  OBVIOUS
<1>3. [t \in Token |-> Life(t)]' = [t \in Token |-> Life(t)]
  BY DEF SameLife
<1> HIDE DEF silent
<1>4. QED
  BY <1>1, <1>2, <1>3 DEF Contract!Next

\* Some tokens come to their end.
LEMMA EndStep ==
  ASSUME revoked' = revoked, SameReports,
         \A t \in Token : \/ SameLife(t)
                          \/ Life(t) = "live" /\ Life(t)' = "over"
  PROVE  Contract!Next
<1> DEFINE ended == {t \in Token : Life(t) = "live" /\ Life(t)' = "over"}
<1>1. Contract!End(ended)
  BY DEF Contract!End, SameLife
<1>2. ended \in SUBSET Token
  OBVIOUS
<1>3. [r \in Req |-> Reported(r)]' = [r \in Req |-> Reported(r)]
  BY DEF SameReports
<1> HIDE DEF ended
<1>4. QED
  BY <1>1, <1>2, <1>3 DEF Contract!Next

\* The end of a token is promised.
LEMMA PromiseStep ==
  ASSUME NEW t \in Token, Life(t) # "unborn", Life(t)' = "over",
         revoked' = revoked \union {t}, SameReports,
         \A x \in Token \ {t} : SameLife(x)
  PROVE  Contract!Next
<1>1. Contract!Promise(t)
  BY DEF Contract!Promise, SameLife
<1>2. [r \in Req |-> Reported(r)]' = [r \in Req |-> Reported(r)]
  BY DEF SameReports
<1>3. QED
  BY <1>1, <1>2 DEF Contract!Next

\* A token's life begins.
LEMMA BeginStep ==
  ASSUME NEW t \in Token, Life(t) = "unborn", Life(t)' = "live",
         revoked' = revoked, SameReports, \A x \in Token \ {t} : SameLife(x)
  PROVE  Contract!Next
<1>1. Contract!Begin(t)
  BY DEF Contract!Begin, SameLife
<1>2. [r \in Req |-> Reported(r)]' = [r \in Req |-> Reported(r)]
  BY DEF SameReports
<1>3. QED
  BY <1>1, <1>2 DEF Contract!Next

\* A token is reported active.
LEMMA ReportStep ==
  ASSUME NEW r \in Req, NEW t \in Token, Life(t) = "live", Reported(r)' = t,
         \A x \in Req \ {r} : Reported(x)' = Reported(x),
         \A x \in Token : SameLife(x), revoked' = revoked
  PROVE  Contract!Next
<1>1. Contract!Report(r, t)
  <2>1. [x \in Token |-> Life(x)]' = [x \in Token |-> Life(x)]
    BY DEF SameLife
  <2>2. QED
    BY <2>1 DEF Contract!Report
<1>2. QED
  BY <1>1 DEF Contract!Next

\* At the start no token lives and nothing is reported.
LEMMA InitContract == Init => Contract!Init
<1> SUFFICES ASSUME Init PROVE Contract!Init
  OBVIOUS
<1>1. \A t \in Token : Life(t) = "unborn"
  BY DEF Init, Life
<1>2. \A r \in Req : Reported(r) = Missing
  BY DEF Init, Idle, Reported
<1>3. QED
  BY <1>1, <1>2 DEF Init, Contract!Init

-----------------------------------------------------------------------------
(***************************************************************************)
(* Requests and what they report.                                          *)
(***************************************************************************)
Silent(q) == q.pc # "done" \/ q.op # "introspect" \/ ~q.res.active

\* A request becomes one that reports nothing; of the others nothing changes.
LEMMA SilentStep ==
  ASSUME IInv, NEW r \in Req, NEW q, Silent(q), req' = [req EXCEPT ![r] = q]
  PROVE  /\ \A x \in Req : Reported(x)' \in {Missing, Reported(x)}
         /\ req[r].pc # "done" => SameReports
<1>1. req'[r] = q /\ \A x \in Req : x # r => req'[x] = req[x]
  BY DEF IInv, TypeOK
<1>2. Reported(r)' = Missing
  BY <1>1 DEF Silent, Reported
<1>3. \A x \in Req : x # r => Reported(x)' = Reported(x)
  BY <1>1 DEF Reported
<1>4. req[r].pc # "done" => Reported(r) = Missing
  BY DEF Reported
<1>5. QED
  BY <1>2, <1>3, <1>4 DEF SameReports

\* An answer that calls nothing active.
LEMMA SilentAnswer ==
  ASSUME IInv, NEW r \in Req, NEW res \in Response, ~res.active, Answer(r, res)
  PROVE  \E q : Silent(q) /\ req' = [req EXCEPT ![r] = q]
<1>1. PICK q : q = Answered(req[r], res)
  OBVIOUS
<1>2. q.res = res
  BY <1>1, AnsweredIsRequest DEF IInv, TypeOK
<1>3. QED
  BY <1>1, <1>2 DEF Answer, Silent

\* A request that begins has nothing to report yet, or has been refused.
LEMMA SilentStart ==
  ASSUME IInv, NEW r \in Req, Start(r)
  PROVE  /\ UNCHANGED <<now, store, tokens, revoked>>
         /\ \E q : Silent(q) /\ req' = [req EXCEPT ![r] = q]
<1>1. UNCHANGED <<now, store, tokens, revoked>>
  BY DEF Start, ClientStart, Introspect, Invalidate, UpgradeRejected,
         UpgradeSession, UpgradeJwt, GetGenerateToken, history
<1>2. ASSUME NEW t \in Sendable, Introspect(r, t)
      PROVE  \E q : Silent(q) /\ req' = [req EXCEPT ![r] = q]
  <2>1. PICK q : q = Begun("introspect", "exists", t)
    OBVIOUS
  <2>2. q.pc = "exists"
    BY <2>1 DEF Begun, Idle
  <2>3. QED
    BY <1>2, <2>1, <2>2 DEF Introspect, Silent
<1>3. ASSUME NEW t \in Sendable, Invalidate(r, t)
      PROVE  \E q : Silent(q) /\ req' = [req EXCEPT ![r] = q]
  <2>1. t \in TokenStr
    BY DEF IInv, TypeOK, Sendable, TokenStr
  <2>2. PICK sent : sent = Begun("invalidate", IF ENABLE_JWT THEN "setex"
                                                 ELSE "del", t)
    OBVIOUS
  <2>3. sent.pc # "done"
    BY <2>2 DEF Begun, Idle
  <2>4. PICK begun \in Request : begun = Begun("invalidate", "setex", t)
    BY <2>1, BegunIsRequest
  <2>5. Status(500) \in Response /\ ~Status(500).active
    BY StatusIsResponse
  <2>6. PICK refused : refused = Answered(begun, Status(500))
    OBVIOUS
  <2>7. ~refused.res.active
    BY <2>4, <2>5, <2>6, AnsweredIsRequest
  <2>8. QED
    BY <1>3, <2>2, <2>3, <2>4, <2>6, <2>7 DEF Invalidate, Silent
<1>4. ASSUME UpgradeRejected(r)
      PROVE  \E q : Silent(q) /\ req' = [req EXCEPT ![r] = q]
  <2>1. PICK begun \in Request : begun = Begun("upgrade", "load", Missing)
    BY BegunIsRequest
  <2>2. Status(400) \in Response /\ ~Status(400).active
    BY StatusIsResponse
  <2>3. PICK q : q = Answered(begun, Status(400))
    OBVIOUS
  <2>4. ~q.res.active
    BY <2>1, <2>2, <2>3, AnsweredIsRequest
  <2>5. QED
    BY <1>4, <2>1, <2>3, <2>4 DEF UpgradeRejected, Silent
<1>5. ASSUME NEW t, NEW org, NEW inHeader, UpgradeSession(r, t, org, inHeader)
      PROVE  \E q : Silent(q) /\ req' = [req EXCEPT ![r] = q]
  <2>1. PICK q : q = [Begun("upgrade", "load", t) EXCEPT !.header = inHeader,
                                                        !.org = org]
    OBVIOUS
  <2>2. q.pc = "load"
    BY <2>1 DEF Begun, Idle
  <2>3. QED
    BY <1>5, <2>1, <2>2 DEF UpgradeSession, Silent
<1>6. ASSUME NEW t \in handed, NEW org \in OrgCode, UpgradeJwt(r, t, org)
      PROVE  \E q : Silent(q) /\ req' = [req EXCEPT ![r] = q]
  <2>1. t \in TokenStr /\ claims[t].user \in UserShape
    BY DEF IInv, TypeOK, TokenStr, MintedClaims
  <2>2. PICK begun \in Request : begun = Begun("upgrade", "load", t)
    BY <2>1, BegunIsRequest
  <2>3. begun.op = "upgrade"
    BY <2>2 DEF Begun, Idle
  <2>4. PICK asking : asking = [begun EXCEPT !.header = TRUE, !.org = org]
    OBVIOUS
  <2>5. asking \in Request /\ asking.op = "upgrade"
    BY <2>2, <2>3, <2>4 DEF Request
  <2>6. PICK q : q = Upgraded(asking, claims[t].user)
    OBVIOUS
  <2>7. q.op = "upgrade"
    BY <2>1, <2>5, <2>6, UpgradedIsRequest
  <2>8. QED
    BY <1>6, <2>2, <2>4, <2>6, <2>7 DEF UpgradeJwt, Silent
<1>7. ASSUME NEW u, GetGenerateToken(r, u)
      PROVE  \E q : Silent(q) /\ req' = [req EXCEPT ![r] = q]
  <2>1. PICK q : q = [Begun("login", "mint", Missing) EXCEPT !.user = u]
    OBVIOUS
  <2>2. q.pc = "mint"
    BY <2>1 DEF Begun, Idle
  <2>3. QED
    BY <1>7, <2>1, <2>2 DEF GetGenerateToken, Silent
<1>8. QED
  BY <1>1, <1>2, <1>3, <1>4, <1>5, <1>6, <1>7 DEF Start, ClientStart

-----------------------------------------------------------------------------
(***************************************************************************)
(* Every action is a step of the contract.                                 *)
(***************************************************************************)

\* Nothing happens to a token in a step that touches neither store nor clock.
LEMMA LifeGoesOn ==
  ASSUME UNCHANGED <<now, store, tokens>>
  PROVE  \A t \in Token : SameLife(t)
BY DEF SameLife, Life, store, tokens

\* A request is answered, or goes on, and reports nothing.
LEMMA SilentRefines ==
  ASSUME IInv, UNCHANGED <<now, store, tokens, revoked>>, NEW r \in Req,
         \E q : Silent(q) /\ req' = [req EXCEPT ![r] = q]
  PROVE  Contract!Next
<1>1. \A x \in Req : Reported(x)' \in {Missing, Reported(x)}
  BY SilentStep
<1>2. \A t \in Token : SameLife(t)
  BY LifeGoesOn
<1>3. QED
  BY <1>1, <1>2, ForgetStep

\* A reply of Redis that ends a request without calling anything active.
LEMMA RefusedRefines ==
  ASSUME IInv, UNCHANGED <<now, store, tokens, history>>, NEW r \in Req,
         NEW code \in {400, 403, 404, 500}, Answer(r, Status(code))
  PROVE  Contract!Next
<1>1. Status(code) \in Response /\ ~Status(code).active
  BY StatusIsResponse
<1>2. \E q : Silent(q) /\ req' = [req EXCEPT ![r] = q]
  BY <1>1, SilentAnswer
<1>3. QED
  BY <1>2, SilentRefines DEF history

\* What the answer to an introspection reports.
LEMMA ReportedAfter ==
  ASSUME IInv, NEW r \in Req, req[r].op = "introspect",
         NEW res \in Response, res.status = 200, res.active, Answer(r, res)
  PROVE  /\ req[r].tok \in Token => Reported(r)' = req[r].tok
         /\ req[r].tok \notin Token => Reported(r)' = Missing
         /\ \A x \in Req \ {r} : Reported(x)' = Reported(x)
<1>1. req[r] \in Request /\ req \in [Req -> Request]
  BY DEF IInv, TypeOK
<1>2. PICK q : q = Answered(req[r], res)
  OBVIOUS
<1>3. q.pc = "done" /\ q.op = "introspect" /\ q.res = res
  BY <1>1, <1>2, AnsweredIsRequest
<1>4. q.tok = req[r].tok
  BY <1>1, <1>2 DEF Answered, Request
<1>5. req'[r] = q /\ \A x \in Req : x # r => req'[x] = req[x]
  BY <1>1, <1>2 DEF Answer
<1>6. QED
  BY <1>3, <1>4, <1>5 DEF Reported

\* The reply of EXISTS: with JWT it is in this very moment that a token which is
\* called active is not blacklisted.
LEMMA CheckedRefines ==
  ASSUME IInv, LifeInv, NEW r \in Req, IntrospectChecked(r)
  PROVE  Contract!Next
<1> DEFINE t == req[r].tok
<1>1. /\ req[r] \in Request /\ req[r].pc = "exists" /\ req[r].op = "introspect"
      /\ t \in minted \union {Junk} /\ minted \subseteq Token
      /\ UNCHANGED <<now, store, tokens, history>>
  BY DEF IInv, TypeOK, RequestOK, Awaiting, LifeInv, RequestKnows, IntrospectChecked
<1>2. CASE Answer(r, Status(500)) \/ Answer(r, Status(403))
  BY <1>1, <1>2, RefusedRefines
<1>3. CASE ~Exists(blacklist, t, now) /\ ENABLE_JWT /\ Answer(r, Active)
  <2>1. Active \in Response /\ Active.status = 200 /\ Active.active
    BY ActiveIsResponse DEF Active, Status
  <2>2. /\ t \in Token => Reported(r)' = t
        /\ t \notin Token => Reported(r)' = Missing
        /\ \A x \in Req \ {r} : Reported(x)' = Reported(x)
    BY <1>1, <1>3, <2>1, ReportedAfter
  <2>3. \A x \in Token : SameLife(x)
    BY <1>1, LifeGoesOn
  <2>4. CASE t \in Token
    <3>1. Life(t) = "live"
      BY <1>1, <1>3, <2>4, TokenAssumption DEF Life, Exists
    <3> HIDE DEF t
    <3>2. QED
      BY <1>1, <2>2, <2>3, <2>4, <3>1, ReportStep DEF history
  <2>5. CASE t \notin Token
    BY <1>1, <2>2, <2>3, <2>5, ForgetStep DEF history
  <2>6. QED
    BY <2>4, <2>5
<1>4. CASE Goto(r, "get")
  <2>1. PICK q : q = [req[r] EXCEPT !.pc = "get"]
    OBVIOUS
  <2>2. q.pc = "get"
    BY <1>1, <2>1 DEF Request
  <2>3. QED
    BY <1>1, <1>4, <2>1, <2>2, SilentRefines DEF Goto, Silent, history
<1>5. QED
  BY <1>2, <1>3, <1>4 DEF IntrospectChecked

\* The reply of GET: a token is called active in the moment its session is read.
LEMMA ReadRefines ==
  ASSUME IInv, LifeInv, NEW r \in Req, IntrospectRead(r)
  PROVE  Contract!Next
<1> DEFINE t == req[r].tok
<1>1. /\ req[r] \in Request /\ req[r].pc = "get" /\ req[r].op = "introspect"
      /\ ~ENABLE_JWT
      /\ t \in minted \union {Junk} /\ minted \subseteq Token
      /\ UNCHANGED <<now, store, tokens, history>>
  BY DEF IInv, TypeOK, RequestOK, Awaiting, LifeInv, RequestKnows, IntrospectRead
<1>2. CASE Answer(r, Status(500)) \/ Answer(r, Status(404))
  BY <1>1, <1>2, RefusedRefines
<1>3. CASE /\ Get(session, t, now) # Missing
           /\ Answer(r, SessionAnswer(Get(session, t, now)))
  <2>1. PICK u \in UserShape :
          /\ u = claims[t].user /\ t \in minted
          /\ Answer(r, SessionAnswer(u))
          /\ SessionAnswer(u) \in {Status(500), ActiveUser(u)}
    BY <1>1, <1>3, SessionFound DEF LifeInv, MintedSoundly, SoundClaims
  <2>2. CASE SessionAnswer(u) = Status(500)
    BY <1>1, <2>1, <2>2, RefusedRefines
  <2>3. CASE SessionAnswer(u) = ActiveUser(u)
    <3>1. PICK res \in Response :
            res = ActiveUser(u) /\ res.status = 200 /\ res.active
      BY ActiveIsResponse DEF ActiveUser
    <3>2. Reported(r)' = t /\ \A x \in Req \ {r} : Reported(x)' = Reported(x)
      BY <1>1, <2>1, <2>3, <3>1, ReportedAfter
    <3>3. \A x \in Token : SameLife(x)
      BY <1>1, LifeGoesOn
    <3>4. Life(t) = "live"
      BY <1>1, <1>3, <2>1 DEF Life, Get
    <3> HIDE DEF t
    <3>5. QED
      BY <1>1, <2>1, <3>2, <3>3, <3>4, ReportStep DEF history
  <2>4. QED
    BY <2>1, <2>2, <2>3
<1>4. QED
  BY <1>2, <1>3 DEF IntrospectRead

\* The reply of GET to an upgrade.
LEMMA LoadRefines ==
  ASSUME IInv, LifeInv, NEW r \in Req, UpgradeLoad(r)
  PROVE  Contract!Next
<1>1. /\ req[r] \in Request /\ req[r].op = "upgrade"
      /\ req[r].tok \in TokenStr
      /\ UNCHANGED <<now, store, tokens, history>>
  BY DEF IInv, TypeOK, RequestOK, Awaiting, UpgradeLoad
<1>2. CASE Answer(r, Status(500)) \/ Answer(r, Status(404))
  BY <1>1, <1>2, RefusedRefines
<1>3. ASSUME NEW raw, raw = Get(session, req[r].tok, now), raw # Missing,
             req' = [req EXCEPT ![r] = Upgraded(req[r], raw)]
      PROVE  Contract!Next
  <2>1. raw \in UserShape
    BY <1>1, <1>3 DEF Get, IInv, TypeOK, UserOrNone
  <2>2. PICK q : q = Upgraded(req[r], raw)
    OBVIOUS
  <2>3. q.op = "upgrade"
    BY <1>1, <2>1, <2>2, UpgradedIsRequest
  <2>4. QED
    BY <1>1, <1>3, <2>2, <2>3, SilentRefines DEF Silent, history
<1>4. QED
  BY <1>2, <1>3 DEF UpgradeLoad

\* The answer to an invalidation reports nothing, and keeps its promise about the
\* token it was asked for.
LEMMA InvalidateAnswerRefines ==
  ASSUME IInv, NEW r \in Req, req[r].pc # "done", NEW outcome,
         InvalidateAnswer(r, outcome)
  PROVE  /\ SameReports
         /\ revoked' = IF Acknowledged(outcome) /\ req[r].tok \in Token
                       THEN revoked \union {req[r].tok} ELSE revoked
<1>1. PICK res \in Response :
        /\ res = IF Acknowledged(outcome) THEN Status(200) ELSE Status(500)
        /\ ~res.active
  BY StatusIsResponse
<1>2. \E q : Silent(q) /\ req' = [req EXCEPT ![r] = q]
  <2>1. Answer(r, res)
    BY <1>1 DEF InvalidateAnswer
  <2>2. QED
    BY <1>1, <2>1, SilentAnswer
<1>3. SameReports
  BY <1>2, SilentStep
<1>4. QED
  BY <1>3 DEF InvalidateAnswer

\* A token that is over, and perhaps promised to be; or nothing that the contract
\* would see.
LEMMA InvalidatedRefines ==
  ASSUME SameReports, NEW t \in Token, Life(t) # "unborn",
         \A x \in Token \ {t} : SameLife(x),
         \/ Life(t)' = "over" /\ revoked' \in {revoked, revoked \union {t}}
         \/ SameLife(t) /\ revoked' = revoked
  PROVE  Contract!Next
<1>1. CASE Life(t)' = "over" /\ revoked' = revoked \union {t}
  BY <1>1, PromiseStep
<1>2. CASE /\ revoked' = revoked
           /\ Life(t)' = "over" \/ SameLife(t)
  <2>1. Life(t) \in {"live", "over"}
    BY DEF Life
  <2>2. \A x \in Token : \/ SameLife(x)
                         \/ Life(x) = "live" /\ Life(x)' = "over"
    BY <1>2, <2>1 DEF SameLife
  <2>3. QED
    BY <1>2, <2>2, EndStep
<1>3. QED
  BY <1>1, <1>2

\* SETEX of a blacklist entry ends the life of the token, and of no other.
LEMMA BlacklistRefines ==
  ASSUME IInv, LifeInv, NEW r \in Req, InvalidateBlacklist(r)
  PROVE  Contract!Next
<1>0. PICK t : t = req[r].tok
  OBVIOUS
<1>1. PICK outcome \in SetExOutcomes(BlacklistTtl(t)) :
        /\ blacklist' = IF Landed(outcome)
                        THEN SetEx(blacklist, t, "true", BlacklistTtl(t), now)
                        ELSE blacklist
        /\ InvalidateAnswer(r, outcome)
  BY <1>0 DEF InvalidateBlacklist
<1>2. req[r].pc = "setex" /\ UNCHANGED <<now, session, tokens, asked>>
  BY DEF InvalidateBlacklist
<1>3. ENABLE_JWT /\ t \in minted /\ t \in Token
  BY <1>0, <1>2 DEF IInv, TypeOK, RequestOK, Awaiting
<1>4. claims[t].exp \in Nat /\ claims[t].exp > 0 /\ now \in Nat
  BY <1>3, HorizonAssumption DEF IInv, TypeOK, MintedClaims, Claims
<1>5. /\ SameReports
      /\ revoked' = IF Acknowledged(outcome) THEN revoked \union {t} ELSE revoked
  BY <1>0, <1>1, <1>2, <1>3, InvalidateAnswerRefines
<1>6. Life(t) # "unborn"
  BY <1>3, LifeOfMinted
<1>7. CASE Landed(outcome)
  <2>1. blacklist' = [blacklist EXCEPT ![t] =
                       [value |-> "true", expireAt |-> now + claims[t].exp]]
    BY <1>1, <1>7 DEF SetEx, BlacklistTtl
  <2>2. t \in TokenStr /\ Token \subseteq TokenStr /\ DOMAIN blacklist = TokenStr
    BY <1>3 DEF IInv, TypeOK, TokenStr
  <2>3. \A x \in Token \ {t} : blacklist'[x] = blacklist[x]
    BY <2>1, <2>2
  <2>4. \A x \in Token \ {t} : SameLife(x)
    BY <1>2, <1>3, <2>3 DEF SameLife, Life, tokens
  <2>5. Life(t)' = "over"
    <3>1. blacklist'[t].expireAt = now + claims[t].exp
      BY <2>1, <2>2
    <3>2. QED
      BY <1>2, <1>3, <1>4, <3>1 DEF Life, IsLive, tokens
  <2>6. QED
    BY <1>3, <1>5, <1>6, <2>4, <2>5, InvalidatedRefines
<1>8. CASE ~Landed(outcome)
  <2>1. blacklist' = blacklist /\ revoked' = revoked
    BY <1>1, <1>5, <1>8 DEF Landed, Acknowledged
  <2>2. \A x \in Token : SameLife(x)
    BY <1>2, <2>1, LifeGoesOn DEF store
  <2>3. QED
    BY <1>3, <1>5, <1>6, <2>1, <2>2, InvalidatedRefines
<1>9. QED
  BY <1>7, <1>8

\* DEL of a session ends the life of the token, and of no other.
LEMMA DeleteRefines ==
  ASSUME IInv, LifeInv, NEW r \in Req, InvalidateDelete(r)
  PROVE  Contract!Next
<1>0. PICK t : t = req[r].tok
  OBVIOUS
<1>1. PICK outcome \in WriteOutcome :
        /\ session' = IF Landed(outcome) THEN Del(session, t) ELSE session
        /\ InvalidateAnswer(r, outcome)
  BY <1>0 DEF InvalidateDelete
<1>2. req[r].pc = "del" /\ UNCHANGED <<now, blacklist, tokens, asked>>
  BY DEF InvalidateDelete
<1>3. ~ENABLE_JWT /\ t \in minted \union {Junk} /\ minted \subseteq Token
  BY <1>0, <1>2 DEF IInv, TypeOK, RequestOK, Awaiting
<1>4. /\ SameReports
      /\ revoked' = IF Acknowledged(outcome) /\ t \in Token
                    THEN revoked \union {t} ELSE revoked
  BY <1>0, <1>1, <1>2, InvalidateAnswerRefines
<1>5. now \in Nat /\ DOMAIN session = TokenStr /\ Token \subseteq TokenStr
  BY HorizonAssumption DEF IInv, TypeOK, TokenStr
<1>6. \A x \in Token \ {t} : SameLife(x)
  <2>1. \A x \in Token \ {t} : session'[x] = session[x]
    BY <1>1, <1>5 DEF Del
  <2>2. QED
    BY <1>2, <1>3, <2>1 DEF SameLife, Life, tokens
<1>7. CASE t \in Token
  <2>1. t \in minted /\ Life(t) # "unborn"
    BY <1>3, <1>7, TokenAssumption, LifeOfMinted
  <2>2. CASE Landed(outcome)
    <3>1. session'[t] = Absent
      BY <1>1, <1>5, <1>7, <2>2 DEF Del
    <3>2. Life(t)' = "over"
      BY <1>2, <1>3, <1>5, <2>1, <3>1 DEF Life, IsLive, Absent, tokens
    <3>3. QED
      BY <1>4, <1>6, <1>7, <2>1, <3>2, InvalidatedRefines
  <2>3. CASE ~Landed(outcome)
    <3>1. session' = session /\ revoked' = revoked
      BY <1>1, <1>4, <2>3 DEF Landed, Acknowledged
    <3>2. SameLife(t)
      BY <1>2, <3>1 DEF SameLife, Life, tokens
    <3>3. QED
      BY <1>4, <1>6, <1>7, <2>1, <3>1, <3>2, InvalidatedRefines
  <2>4. QED
    BY <2>2, <2>3
<1>8. CASE t \notin Token
  BY <1>4, <1>6, <1>8, ForgetStep DEF SameReports
<1>9. QED
  BY <1>7, <1>8

\* A token that is minted begins its life.
LEMMA MintedRefines ==
  ASSUME IInv, LifeInv, NEW r \in Req, NEW t \in Token \ minted,
         req[r].pc = "mint", Generated(r, t), UNCHANGED <<now, blacklist, history>>,
         HandOver(r, t) \/ Answer(r, Status(500)),
         \/ ENABLE_JWT /\ session' = session
         \/ /\ ~ENABLE_JWT
            /\ GetTokenExpiration(req[r].user) > 0
            /\ session' = SetEx(session, t, req[r].user,
                                GetTokenExpiration(req[r].user), now)
  PROVE  Contract!Next
<1>1. SameReports
  <2>1. PICK res \in Response : Answer(r, res) /\ ~res.active
    BY StatusIsResponse, HandOverAnswers
  <2>2. \E q : Silent(q) /\ req' = [req EXCEPT ![r] = q]
    BY <2>1, SilentAnswer
  <2>3. QED
    BY <2>2, SilentStep
<1>2. minted' = minted \union {t}
  BY DEF Generated
<1>3. PICK ttl \in Nat : ttl = GetTokenExpiration(req[r].user)
  BY ExpirationIsNat
<1>4. now \in Nat /\ Token \subseteq TokenStr /\ DOMAIN session = TokenStr
  BY HorizonAssumption DEF IInv, TypeOK, TokenStr
<1>5. \A x \in Token \ {t} : SameLife(x)
  <2>1. \A x \in Token \ {t} : session'[x] = session[x]
    BY <1>4 DEF SetEx
  <2>2. QED
    BY <1>2, <2>1 DEF SameLife, Life
<1>6. Life(t) = "unborn"
  BY LifeOfMinted
<1>7. Life(t)' = "live"
  <2>1. CASE ENABLE_JWT
    <3>1. blacklist[t] = Absent
      BY <1>4 DEF LifeInv, BlacklistedForGood, IInv, TypeOK
    <3>2. QED
      BY <1>2, <1>4, <2>1, <3>1 DEF Life, IsLive, Absent
  <2>2. CASE ~ENABLE_JWT
    <3>1. session'[t].expireAt = now + ttl /\ ttl > 0
      BY <1>3, <1>4, <2>2 DEF SetEx
    <3>2. QED
      BY <1>2, <1>4, <2>2, <3>1 DEF Life, IsLive
  <2>3. QED
    BY <2>1, <2>2
<1>8. QED
  BY <1>1, <1>5, <1>6, <1>7, BeginStep DEF history

\* Signing a JWT, or failing to.
LEMMA MintJwtRefines ==
  ASSUME IInv, LifeInv, NEW r \in Req, MintJwt(r)
  PROVE  Contract!Next
<1>1. req[r].pc = "mint" /\ ENABLE_JWT /\ UNCHANGED <<now, store, history>>
  BY DEF MintJwt, NewToken
<1>2. CASE Answer(r, Status(500)) /\ UNCHANGED tokens
  BY <1>1, <1>2, RefusedRefines
<1>3. CASE \E t \in Token \ minted : Generated(r, t) /\ HandOver(r, t)
  BY <1>1, <1>3, MintedRefines DEF store
<1>4. QED
  BY <1>2, <1>3 DEF MintJwt, NewToken

\* Storing a session, whose SETEX is refused unless its lifetime is positive.
LEMMA MintSessionRefines ==
  ASSUME IInv, LifeInv, NEW r \in Req, MintSession(r)
  PROVE  Contract!Next
<1> DEFINE ttl == GetTokenExpiration(req[r].user)
<1>1. req[r].pc = "mint" /\ ~ENABLE_JWT /\ UNCHANGED <<now, blacklist, history>>
  BY DEF MintSession, SessionTtl, NewToken
<1>2. CASE Answer(r, Status(500)) /\ UNCHANGED <<session, tokens>>
  BY <1>1, <1>2, RefusedRefines DEF store
<1>3. CASE \E t \in Token \ minted, outcome \in SetExOutcomes(ttl) \ {"refused"} :
             /\ Generated(r, t)
             /\ session' = SetEx(session, t, req[r].user, ttl, now)
             /\ HandOver(r, t) \/ Answer(r, Status(500))
  <2>1. ttl > 0
    BY <1>3 DEF SetExOutcomes
  <2>2. QED
    BY <1>1, <1>3, <2>1, MintedRefines
<1>4. QED
  BY <1>2, <1>3 DEF MintSession, SessionTtl, NewToken

\* Time passes: sessions may end, a blacklist entry does not.
LEMMA TickRefines ==
  ASSUME IInv, LifeInv, Tick
  PROVE  Contract!Next
<1>1. /\ UNCHANGED <<store, tokens, history, req>> /\ now' = now + 1
      /\ now \in Nat /\ now' =< MaxNow /\ MaxNow \in Nat
  BY HorizonAssumption DEF Tick, IInv, TypeOK
<1>2. SameReports
  BY <1>1 DEF SameReports, Reported
<1>3. ASSUME NEW t \in Token
      PROVE  \/ SameLife(t)
             \/ Life(t) = "live" /\ Life(t)' = "over"
  <2>1. t \in TokenStr /\ session[t].expireAt \in Nat
    BY DEF IInv, TypeOK, TokenStr
  <2>2. IsLive(session[t], now') => IsLive(session[t], now)
    BY <1>1, <2>1 DEF IsLive
  <2>3. IsLive(blacklist[t], now') <=> IsLive(blacklist[t], now)
    <3>1. \/ blacklist[t].expireAt = 0
          \/ blacklist[t].expireAt \in Nat /\ blacklist[t].expireAt > MaxNow
      BY <2>1 DEF LifeInv, BlacklistedForGood, Absent, IInv, TypeOK
    <3>2. QED
      BY <1>1, <3>1 DEF IsLive
  <2>4. QED
    BY <1>1, <2>2, <2>3 DEF SameLife, Life, store, tokens
<1>4. revoked' = revoked
  BY <1>1 DEF history
<1>5. QED
  BY <1>2, <1>3, <1>4, EndStep

\* Instances stop; the requests they served had nothing to report.
LEMMA CrashRefines ==
  ASSUME IInv, NEW served, Crash(served)
  PROVE  Contract!Next
<1>1. /\ UNCHANGED <<now, store, tokens, history>>
      /\ \A x \in Req : req'[x] = IF x \in served THEN Idle ELSE req[x]
  BY DEF Crash
<1>2. \A x \in Req : Reported(x)' \in {Missing, Reported(x)}
  BY <1>1 DEF Reported, Idle
<1>3. \A t \in Token : SameLife(t)
  BY <1>1, LifeGoesOn
<1>4. QED
  BY <1>1, <1>2, <1>3, ForgetStep DEF history

\* A login that begins has nothing to report.
LEMMA SilentLogin ==
  ASSUME NEW r, NEW u, GetGenerateToken(r, u)
  PROVE  /\ UNCHANGED <<now, store, tokens, revoked>>
         /\ \E q : Silent(q) /\ req' = [req EXCEPT ![r] = q]
<1>1. PICK q : q = [Begun("login", "mint", Missing) EXCEPT !.user = u]
  OBVIOUS
<1>2. q.pc = "mint"
  BY <1>1 DEF Begun, Idle
<1>3. QED
  BY <1>1, <1>2 DEF GetGenerateToken, Silent, history

\* Every step of the service is one that the contract allows, or a stutter of it.
LEMMA StepContract ==
  ASSUME IInv, LifeInv, [Next]_vars
  PROVE  [Contract!Next]_Contract!contractVars
<1>1. ASSUME NEW r \in Req, Start(r) PROVE Contract!Next
  BY <1>1, SilentStart, SilentRefines
<1>2. ASSUME NEW r \in Req, Continue(r) PROVE Contract!Next
  BY <1>2, CheckedRefines, ReadRefines, BlacklistRefines, DeleteRefines,
     LoadRefines, MintJwtRefines, MintSessionRefines DEF Continue
<1>3. ASSUME NEW served \in (SUBSET Req) \ {{}}, Crash(served)
      PROVE  Contract!Next
  BY <1>3, CrashRefines
<1>4. CASE Tick
  BY <1>4, TickRefines
<1>5. CASE UNCHANGED vars
  <2>1. \A t \in Token : Life(t)' = Life(t)
    BY <1>5 DEF vars, store, tokens, Life
  <2>2. \A r \in Req : Reported(r)' = Reported(r)
    BY <1>5 DEF vars, Reported
  <2>3. revoked' = revoked
    BY <1>5 DEF vars, history
  <2>4. QED
    BY <2>1, <2>2, <2>3 DEF Contract!contractVars
<1>6. QED
  BY <1>1, <1>2, <1>3, <1>4, <1>5 DEF Next

(***************************************************************************)
(* The service implements the contract, whatever the mode: a token begins  *)
(* once, ends for good, is over when an invalidation was acknowledged and  *)
(* is called active at a moment it lives.                                  *)
(***************************************************************************)
THEOREM ServiceKeepsTheContract == Spec => ImplementsContract
<1>1. Init => Contract!Init
  BY InitContract
<1>2. IInv /\ LifeInv /\ [Next]_vars => [Contract!Next]_Contract!contractVars
  BY StepContract
<1>3. QED
  BY <1>1, <1>2, Invariance, LifeInvariance, PTL
     DEF Spec, ImplementsContract, Contract!Spec
=============================================================================
