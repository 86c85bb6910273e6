------------------------- MODULE TokenClusterProofs -------------------------
(***************************************************************************)
(* The proofs about the token service over a cluster, for any number of    *)
(* tokens, requests and failovers and in either mode: what is over in all  *)
(* copies stays over, and /introspect errs only while copies differ or     *)
(* after a failover.                                                       *)
(***************************************************************************)
EXTENDS TokenClusterProps, TokenServiceProofs

-----------------------------------------------------------------------------
(***************************************************************************)
(* The steps that read, in terms of the entry e that the master or the     *)
(* replica answered with.                                                  *)
(***************************************************************************)
Checks(r, e) ==
  /\ req[r].pc = "exists"
  /\ \/ Answer(r, Status(500))
     \/ IsLive(e, now) /\ Answer(r, Status(403))
     \/ ~IsLive(e, now) /\ ENABLE_JWT /\ Answer(r, Active)
     \/ ~IsLive(e, now) /\ ~ENABLE_JWT /\ Goto(r, "get")

Found(e) == IF IsLive(e, now) THEN e.value ELSE Missing

Reads(r, e) ==
  /\ req[r].pc = "get"
  /\ \/ Answer(r, Status(500))
     \/ Found(e) = Missing /\ Answer(r, Status(404))
     \/ Found(e) # Missing /\ Answer(r, SessionAnswer(Found(e)))

Loads(r, e) ==
  /\ req[r].pc = "load"
  /\ \/ Answer(r, Status(500))
     \/ Found(e) = Missing /\ Answer(r, Status(404))
     \/ Found(e) # Missing /\ req' = [req EXCEPT ![r] = Upgraded(req[r], Found(e))]

ReadsMaster(r) == IntrospectChecked(r) \/ IntrospectRead(r) \/ UpgradeLoad(r)

\* The reading steps over the masters' copies.
LEMMA MastersAnswer ==
  ASSUME NEW r \in Req
  PROVE  /\ IntrospectChecked(r) => Checks(r, blacklist[req[r].tok])
         /\ IntrospectRead(r) => Reads(r, session[req[r].tok])
         /\ UpgradeLoad(r) => Loads(r, session[req[r].tok])
         /\ ReadsMaster(r) => UNCHANGED <<now, store, tokens, history>>
<1>1. IntrospectChecked(r) => Checks(r, blacklist[req[r].tok])
  BY DEF IntrospectChecked, Checks, Exists
<1>2. IntrospectRead(r) => Reads(r, session[req[r].tok])
  BY DEF IntrospectRead, Reads, Get, Found
<1>3. UpgradeLoad(r) => Loads(r, session[req[r].tok])
  BY DEF UpgradeLoad, Loads, Get, Found
<1>4. ReadsMaster(r) => UNCHANGED <<now, store, tokens, history>>
  BY DEF ReadsMaster, IntrospectChecked, IntrospectRead, UpgradeLoad
<1>5. QED
  BY <1>1, <1>2, <1>3, <1>4

\* The handlers are the same over the replicas' copies.
LEMMA SameHandlers ==
  ASSUME NEW r \in Req
  PROVE  /\ \A code : Replica!Answer(r, Replica!Status(code))
                        <=> Answer(r, Status(code))
         /\ Replica!Answer(r, Replica!Active) <=> Answer(r, Active)
         /\ \A raw : Replica!Answer(r, Replica!SessionAnswer(raw))
                       <=> Answer(r, SessionAnswer(raw))
         /\ \A raw : Replica!Upgraded(req[r], raw) = Upgraded(req[r], raw)
         /\ \A pc : Replica!Goto(r, pc) <=> Goto(r, pc)
<1>1. \A code : Replica!Status(code) = Status(code)
  BY DEF Replica!Status, Status
<1>2. \A res : Replica!Answered(req[r], res) = Answered(req[r], res)
  BY DEF Replica!Answered, Answered, Replica!Idle, Idle, Replica!NoAnswer,
         NoAnswer, Replica!Status, Status
<1>3. \A res : Replica!Answer(r, res) <=> Answer(r, res)
  BY <1>2 DEF Replica!Answer, Answer
<1>4. Replica!Active = Active
  BY <1>1 DEF Replica!Active, Active
<1>5. \A u : Replica!IsTokenUser(u) <=> IsTokenUser(u)
  BY DEF Replica!IsTokenUser, IsTokenUser, Replica!IsCommonTokenUser,
         IsCommonTokenUser, Replica!IsUserCompany, IsUserCompany
<1>6. \A u : Replica!IsTokenUserL2(u) <=> IsTokenUserL2(u)
  BY DEF Replica!IsTokenUserL2, IsTokenUserL2, Replica!IsCommonTokenUser,
         IsCommonTokenUser, Replica!IsUserCompany, IsUserCompany
<1>7. \A raw : Replica!DecodeTokenUser(raw) = DecodeTokenUser(raw)
  BY <1>5 DEF Replica!DecodeTokenUser, DecodeTokenUser,
              Replica!WithDefaultLevel, WithDefaultLevel
<1>8. \A raw : Replica!DecodeTokenUserL2(raw) = DecodeTokenUserL2(raw)
  BY <1>6 DEF Replica!DecodeTokenUserL2, DecodeTokenUserL2,
              Replica!WithDefaultLevel, WithDefaultLevel
<1>9. \A raw : Replica!SessionAnswer(raw) = SessionAnswer(raw)
  BY <1>1, <1>7, <1>8 DEF Replica!SessionAnswer, SessionAnswer,
     Replica!DecodeAnyTokenUser, DecodeAnyTokenUser, Replica!ActiveUser,
     ActiveUser
<1>10. \A companies, code :
         Replica!FindCompany(companies, code) = FindCompany(companies, code)
  BY DEF Replica!FindCompany, FindCompany, Replica!SelectInSeq, SelectInSeq,
         Replica!Min, Min
<1>11. \A raw : Replica!Upgraded(req[r], raw) = Upgraded(req[r], raw)
  <2>1. \A user, org : Replica!UpgradeRefusal(user, org) = UpgradeRefusal(user, org)
    BY <1>10 DEF Replica!UpgradeRefusal, UpgradeRefusal
  <2>2. \A user, company :
          Replica!ToTokenUserL2(user, company) = ToTokenUserL2(user, company)
    BY DEF Replica!ToTokenUserL2, ToTokenUserL2
  <2> SUFFICES ASSUME NEW raw
               PROVE  Replica!Upgraded(req[r], raw) = Upgraded(req[r], raw)
    OBVIOUS
  <2>3. PICK user : user = DecodeTokenUser(raw)
    OBVIOUS
  <2>4. Replica!UpgradeRefusal(user, req[r].org) = UpgradeRefusal(user, req[r].org)
    BY <2>1
  <2>5. Replica!FindCompany(user.companies, req[r].org)
          = FindCompany(user.companies, req[r].org)
    BY <1>10
  <2>6. QED
    BY <1>1, <1>2, <1>7, <2>2, <2>3, <2>4, <2>5 DEF Replica!Upgraded, Upgraded
<1>12. \A pc : Replica!Goto(r, pc) <=> Goto(r, pc)
  BY DEF Replica!Goto, Goto
<1>13. QED
  BY <1>1, <1>3, <1>4, <1>9, <1>11, <1>12

\* The reading steps over the replicas' copies.
LEMMA ReplicasAnswer ==
  ASSUME NEW r \in Req
  PROVE  /\ Replica!IntrospectChecked(r) => Checks(r, replicaBlacklist[req[r].tok])
         /\ Replica!IntrospectRead(r) => Reads(r, replicaSession[req[r].tok])
         /\ Replica!UpgradeLoad(r) => Loads(r, replicaSession[req[r].tok])
         /\ ReadFromReplica(r) => UNCHANGED <<now, store, replicas, tokens, history>>
<1>1. \A e : Replica!IsLive(e, now) <=> IsLive(e, now)
  BY DEF Replica!IsLive, IsLive
<1>2. Replica!IntrospectChecked(r) => Checks(r, replicaBlacklist[req[r].tok])
  BY <1>1, SameHandlers DEF Replica!IntrospectChecked, Checks, Replica!Exists
<1>3. Replica!IntrospectRead(r) => Reads(r, replicaSession[req[r].tok])
  BY <1>1, SameHandlers DEF Replica!IntrospectRead, Reads, Replica!Get, Found
<1>4. Replica!UpgradeLoad(r) => Loads(r, replicaSession[req[r].tok])
  BY <1>1, SameHandlers DEF Replica!UpgradeLoad, Loads, Replica!Get, Found
<1>5. ReadFromReplica(r) => UNCHANGED <<now, store, replicas, tokens, history>>
  BY DEF ReadFromReplica, Replica!IntrospectChecked, Replica!IntrospectRead,
         Replica!UpgradeLoad, Replica!store, Replica!tokens, Replica!history,
         replicas, tokens, history
<1>6. QED
  BY <1>2, <1>3, <1>4, <1>5

-----------------------------------------------------------------------------
(***************************************************************************)
(* The invariant.                                                          *)
(***************************************************************************)

\* What is known of the request r, and of the tokens a client can send.
LEMMA ClusterKnows ==
  ASSUME ClusterInv, NEW r \in Req
  PROVE  /\ req[r] \in Request /\ Awaiting(req[r])
         /\ Sendable \subseteq TokenStr
         /\ revoked \subseteq Token /\ asked \subseteq minted
         /\ Missing \notin revoked
BY TokenAssumption DEF ClusterInv, TypeOK, Sendable, TokenStr

\* A step of the request r, given what r is after the step.
LEMMA ClusterRequests ==
  ASSUME ClusterInv, asked \subseteq asked', revoked \subseteq revoked',
         NEW r \in Req, NEW q \in Request, Awaiting(q)', q.pc # "idle",
         req' = [req EXCEPT ![r] = q]
  PROVE  /\ req' \in [Req -> Request]
         /\ \A x \in Req :
              Awaiting(req[x])' /\ (req'[x].pc = "idle" => req'[x].op = "none")
<1>1. req' \in [Req -> Request]
  BY DEF ClusterInv, TypeOK
<1>2. ASSUME NEW x \in Req
      PROVE  Awaiting(req[x])' /\ (req'[x].pc = "idle" => req'[x].op = "none")
  <2>1. CASE x = r
    <3>1. req'[x] = q
      BY <2>1 DEF ClusterInv, TypeOK
    <3>2. QED
      BY <3>1 DEF Awaiting
  <2>2. CASE x # r
    <3>1. /\ req'[x] = req[x] /\ Awaiting(req[x])
          /\ req[x].pc = "idle" => req[x].op = "none"
      BY <2>2 DEF ClusterInv, TypeOK
    <3>2. QED
      BY <3>1 DEF Awaiting
  <2>3. QED
    BY <2>1, <2>2
<1>3. QED
  BY <1>1, <1>2

\* A step that changes nothing but a request.
LEMMA OnlyARequest ==
  ASSUME ClusterInv, UNCHANGED <<now, store, tokens, history, replicas, lost>>,
         NEW r \in Req, NEW q \in Request, Awaiting(q), q.pc # "idle",
         req' = [req EXCEPT ![r] = q]
  PROVE  ClusterInv'
<1>1. Awaiting(q)'
  BY DEF Awaiting, history
<1>2. /\ req' \in [Req -> Request]
      /\ \A x \in Req :
           Awaiting(req[x])' /\ (req'[x].pc = "idle" => req'[x].op = "none")
  BY <1>1, ClusterRequests DEF history
<1>3. TypeOK' /\ MintedClaims'
  BY <1>2 DEF ClusterInv, TypeOK, MintedClaims, store, tokens, history
<1>4. CopyOK(session, blacklist)' /\ CopyOK(replicaSession, replicaBlacklist)'
  BY DEF ClusterInv, CopyOK, store, tokens, history, replicas
<1>5. \A t \in minted' \ lost' : KeptByMasters(t)'
  BY DEF ClusterInv, KeptByMasters, SessionOf, store, tokens, history
<1>6. QED
  BY <1>2, <1>3, <1>4, <1>5 DEF ClusterInv

\* An answer is such a step.
LEMMA OnlyAnAnswer ==
  ASSUME ClusterInv, UNCHANGED <<now, store, tokens, history, replicas, lost>>,
         NEW r \in Req, NEW res \in Response, Answer(r, res)
  PROVE  ClusterInv'
<1>1. req[r] \in Request /\ Awaiting(req[r])
  BY ClusterKnows
<1>2. PICK q \in Request :
        /\ q = Answered(req[r], res) /\ q.pc = "done"
        /\ q.stale => req[r].stale /\ q.tok = req[r].tok
  BY <1>1, AnsweredIsRequest
<1>3. Awaiting(q)
  BY <1>1, <1>2 DEF Awaiting
<1>4. QED
  BY <1>2, <1>3, OnlyARequest DEF Answer

\* A request that begins, other than an invalidation.
LEMMA RequestBegins ==
  ASSUME ClusterInv, NEW r \in Req,
         \/ \E t \in Sendable : Introspect(r, t)
         \/ UpgradeRejected(r)
         \/ \E t \in Sendable, org \in OrgCode, inHeader \in BOOLEAN :
              UpgradeSession(r, t, org, inHeader)
         \/ \E t \in handed, org \in OrgCode : UpgradeJwt(r, t, org)
         \/ \E u \in LoginUser : GetGenerateToken(r, u)
  PROVE  /\ UNCHANGED <<now, store, tokens, history>>
         /\ \E q \in Request : /\ Awaiting(q) /\ q.pc # "idle"
                               /\ req' = [req EXCEPT ![r] = q]
<1>1. CASE \E t \in Sendable : Introspect(r, t)
  <2>1. PICK t \in TokenStr : Introspect(r, t)
    BY <1>1, ClusterKnows
  <2>2. PICK q \in Request :
          /\ q = Begun("introspect", "exists", t)
          /\ q.op = "introspect" /\ q.pc = "exists" /\ q.tok = t
          /\ q.stale <=> t \in revoked
    BY BegunIsRequest
  <2>3. Awaiting(q)
    BY <2>2 DEF Awaiting
  <2>4. QED
    BY <2>1, <2>2, <2>3 DEF Introspect
<1>2. CASE UpgradeRejected(r)
  <2>1. PICK begun \in Request :
          /\ begun = Begun("upgrade", "load", Missing) /\ begun.tok = Missing
          /\ begun.stale <=> Missing \in revoked
    BY BegunIsRequest
  <2>2. PICK q \in Request :
          /\ q = Answered(begun, Status(400)) /\ q.pc = "done"
          /\ q.stale => begun.stale
    <3>1. Status(400) \in Response
      BY StatusIsResponse
    <3>2. QED
      BY <3>1, AnsweredIsRequest
  <2>3. Awaiting(q)
    BY <2>1, <2>2, ClusterKnows DEF Awaiting
  <2>4. QED
    BY <1>2, <2>1, <2>2, <2>3 DEF UpgradeRejected
<1>3. CASE \E t \in Sendable, org \in OrgCode, inHeader \in BOOLEAN :
             UpgradeSession(r, t, org, inHeader)
  <2>1. PICK t \in TokenStr, org \in OrgCode, inHeader \in BOOLEAN :
          UpgradeSession(r, t, org, inHeader)
    BY <1>3, ClusterKnows
  <2>2. PICK begun \in Request :
          /\ begun = Begun("upgrade", "load", t) /\ begun.op = "upgrade"
          /\ begun.pc = "load" /\ begun.tok = t
          /\ begun.stale <=> t \in revoked
    BY BegunIsRequest
  <2>3. PICK q : q = [begun EXCEPT !.header = inHeader, !.org = org]
    OBVIOUS
  <2>4. q \in Request /\ q.op = "upgrade" /\ q.pc = "load" /\ q.tok = t
          /\ q.org = org /\ (q.stale => t \in revoked)
    BY <2>2, <2>3 DEF Request
  <2>5. Awaiting(q)
    BY <2>4 DEF Awaiting
  <2>6. req' = [req EXCEPT ![r] = q]
    BY <2>1, <2>2, <2>3 DEF UpgradeSession
  <2>7. QED
    BY <2>1, <2>4, <2>5, <2>6 DEF UpgradeSession
<1>4. CASE \E t \in handed, org \in OrgCode : UpgradeJwt(r, t, org)
  <2>1. PICK t \in handed, org \in OrgCode : UpgradeJwt(r, t, org)
    BY <1>4
  <2>2. t \in Token /\ t \in TokenStr /\ claims[t].user \in UserShape
    BY DEF ClusterInv, TypeOK, MintedClaims, TokenStr
  <2>3. PICK begun \in Request :
          /\ begun = Begun("upgrade", "load", t) /\ begun.op = "upgrade"
          /\ begun.tok = t /\ (begun.stale <=> t \in revoked)
    BY <2>2, BegunIsRequest
  <2>4. PICK asking : asking = [begun EXCEPT !.header = TRUE, !.org = org]
    OBVIOUS
  <2>5. asking \in Request /\ asking.op = "upgrade" /\ asking.tok = t
          /\ (asking.stale => t \in revoked)
    BY <2>3, <2>4 DEF Request
  <2>6. PICK q \in Request :
          /\ q = Upgraded(asking, claims[t].user)
          /\ q.op = "upgrade"
          /\ \/ q.pc = "done"
             \/ q.pc = "mint" /\ q.user \in UserShape
          /\ q.stale => asking.stale /\ q.tok = t
          /\ q.pc = "mint" => q.tok = t
    BY <2>2, <2>5, UpgradedIsRequest
  <2>7. Awaiting(q)
    BY <2>2, <2>5, <2>6 DEF Awaiting
  <2>8. req' = [req EXCEPT ![r] = q]
    BY <2>1, <2>3, <2>4, <2>6 DEF UpgradeJwt
  <2>9. QED
    BY <2>1, <2>6, <2>7, <2>8 DEF UpgradeJwt
<1>5. CASE \E u \in LoginUser : GetGenerateToken(r, u)
  <2>1. PICK u \in UserShape : GetGenerateToken(r, u)
    BY <1>5, LoginAssumption
  <2>2. PICK begun \in Request :
          /\ begun = Begun("login", "mint", Missing) /\ begun.op = "login"
          /\ begun.pc = "mint" /\ begun.tok = Missing
          /\ begun.stale <=> Missing \in revoked
    BY BegunIsRequest
  <2>3. PICK q : q = [begun EXCEPT !.user = u]
    OBVIOUS
  <2>4. q \in Request /\ q.op = "login" /\ q.pc = "mint" /\ q.user = u
          /\ q.tok = Missing /\ (q.stale => Missing \in revoked)
    BY <2>2, <2>3 DEF Request, UserOrNone
  <2>5. Awaiting(q)
    BY <2>4, ClusterKnows DEF Awaiting
  <2>6. req' = [req EXCEPT ![r] = q]
    BY <2>1, <2>2, <2>3 DEF GetGenerateToken
  <2>7. QED
    BY <2>1, <2>4, <2>5, <2>6 DEF GetGenerateToken
<1>6. QED
  BY <1>1, <1>2, <1>3, <1>4, <1>5

\* What either copy has, and what its entries may be.
LEMMA EntriesFound ==
  ASSUME ClusterInv, NEW r \in Req, req[r].tok \in TokenStr
  PROVE  \A e \in {session[req[r].tok], replicaSession[req[r].tok]} :
           /\ Found(e) # Missing => Found(e) \in UserShape
           /\ Found(e) # Missing => req[r].tok \in minted
<1>1. ASSUME NEW s \in {session, replicaSession}
      PROVE  LET e == s[req[r].tok]
             IN  /\ Found(e) # Missing => Found(e) \in UserShape
                 /\ Found(e) # Missing => req[r].tok \in minted
  <2>1. /\ s \in [TokenStr -> [value : UserOrNone, expireAt : Nat]]
        /\ \A t \in TokenStr \ minted : s[t] = Absent
    BY <1>1 DEF ClusterInv, CopyOK
  <2>2. s[req[r].tok] = Absent => Found(s[req[r].tok]) = Missing
    BY DEF Found, Absent
  <2>3. QED
    BY <2>1, <2>2 DEF Found, UserOrNone
<1>2. QED
  BY <1>1

\* The steps that read, over either copy: whatever was found, the request goes on as
\* it may, and nothing else changes.
LEMMA ReadsKeepInv ==
  ASSUME ClusterInv, NEW r \in Req,
         \/ ReadsMaster(r) /\ UNCHANGED <<replicas, lost>>
         \/ ReadFromReplica(r)
  PROVE  ClusterInv'
<1>1. UNCHANGED <<now, store, tokens, history, replicas, lost>>
  <2>1. ReadFromReplica(r) => lost' = lost
    BY DEF ReadFromReplica
  <2>2. QED
    BY <2>1, MastersAnswer, ReplicasAnswer
<1>2. req[r] \in Request /\ Awaiting(req[r])
  BY ClusterKnows
<1>3. Status(500) \in Response /\ Status(404) \in Response /\ Status(403) \in Response
  BY StatusIsResponse
<1>4. ASSUME NEW e, Checks(r, e)
      PROVE  ClusterInv'
  <2>1. CASE \E res \in {Status(500), Status(403), Active} : Answer(r, res)
    BY <1>1, <1>3, <2>1, ActiveIsResponse, OnlyAnAnswer
  <2>2. CASE ~ENABLE_JWT /\ Goto(r, "get")
    <3>1. PICK q : q = [req[r] EXCEPT !.pc = "get"]
      OBVIOUS
    <3>2. q \in Request /\ q.pc = "get" /\ q.op = req[r].op /\ q.tok = req[r].tok
            /\ q.stale = req[r].stale
      BY <1>2, <3>1 DEF Request
    <3>3. Awaiting(q)
      BY <1>2, <1>4, <2>2, <3>2 DEF Awaiting, Checks
    <3>4. req' = [req EXCEPT ![r] = q]
      BY <2>2, <3>1 DEF Goto
    <3>5. QED
      BY <1>1, <3>2, <3>3, <3>4, OnlyARequest
  <2>3. QED
    BY <1>4, <2>1, <2>2 DEF Checks
<1>5. ASSUME NEW e \in {session[req[r].tok], replicaSession[req[r].tok]},
             Reads(r, e)
      PROVE  ClusterInv'
  <2>1. CASE \E res \in {Status(500), Status(404)} : Answer(r, res)
    BY <1>1, <1>3, <2>1, OnlyAnAnswer
  <2>2. CASE Found(e) # Missing /\ Answer(r, SessionAnswer(Found(e)))
    <3>1. req[r].tok \in TokenStr
      BY <1>2, <1>5 DEF Awaiting, Reads
    <3>2. PICK raw \in UserShape : raw = Found(e)
      BY <1>5, <2>2, <3>1, EntriesFound
    <3>3. SessionAnswer(raw) \in Response
      BY <1>3, DecodedAnyTokenUser, ActiveIsResponse DEF SessionAnswer
    <3>4. QED
      BY <1>1, <2>2, <3>2, <3>3, OnlyAnAnswer
  <2>3. QED
    BY <1>5, <2>1, <2>2 DEF Reads
<1>6. ASSUME NEW e \in {session[req[r].tok], replicaSession[req[r].tok]},
             Loads(r, e)
      PROVE  ClusterInv'
  <2>1. CASE \E res \in {Status(500), Status(404)} : Answer(r, res)
    BY <1>1, <1>3, <2>1, OnlyAnAnswer
  <2>2. CASE Found(e) # Missing
             /\ req' = [req EXCEPT ![r] = Upgraded(req[r], Found(e))]
    <3>1. req[r].tok \in TokenStr /\ req[r].op = "upgrade"
      BY <1>2, <1>6 DEF Awaiting, Loads
    <3>2. PICK raw \in UserShape : raw = Found(e)
      BY <1>6, <2>2, <3>1, EntriesFound
    <3>3. req[r].tok \in Token
      BY <1>6, <2>2, <3>1, EntriesFound DEF ClusterInv, TypeOK
    <3>4. PICK q \in Request :
            /\ q = Upgraded(req[r], raw)
            /\ q.op = "upgrade"
            /\ \/ q.pc = "done"
               \/ q.pc = "mint" /\ q.user \in UserShape
            /\ q.stale => req[r].stale /\ q.tok = req[r].tok
            /\ q.pc = "mint" => q.tok = req[r].tok
      BY <1>2, <3>1, UpgradedIsRequest
    <3>5. Awaiting(q)
      BY <1>2, <3>3, <3>4 DEF Awaiting
    <3>6. QED
      BY <1>1, <2>2, <3>2, <3>4, <3>5, OnlyARequest
  <2>3. QED
    BY <1>6, <2>1, <2>2 DEF Loads
<1>7. QED
  BY <1>4, <1>5, <1>6, MastersAnswer, ReplicasAnswer DEF ReadsMaster, ReadFromReplica

\* An invalidation begins, or is refused for a string that is no JWT.
LEMMA InvalidationBegins ==
  ASSUME ClusterInv, NEW r \in Req, NEW t \in Sendable, Invalidate(r, t),
         UNCHANGED <<replicas, lost>>
  PROVE  ClusterInv'
<1>1. /\ t \in TokenStr /\ asked \subseteq asked'
      /\ t \in asked' \union {Junk} /\ (t \in Token => t \in asked')
      /\ asked' \subseteq handed
      /\ UNCHANGED <<now, store, tokens, revoked>>
  BY TokenAssumption DEF ClusterInv, TypeOK, Sendable, TokenStr, Invalidate
<1>2. PICK sent \in Request :
        /\ sent = Begun("invalidate", IF ENABLE_JWT THEN "setex" ELSE "del", t)
        /\ sent.op = "invalidate" /\ sent.tok = t /\ (sent.stale => t \in revoked)
        /\ sent.pc = IF ENABLE_JWT THEN "setex" ELSE "del"
  <2>1. PICK pc \in {"setex", "del"} : pc = IF ENABLE_JWT THEN "setex" ELSE "del"
    OBVIOUS
  <2>2. QED
    BY <1>1, <2>1, BegunIsRequest
<1>3. PICK refused \in Request :
        /\ refused = Answered(Begun("invalidate", "setex", t), Status(500))
        /\ refused.pc = "done" /\ (refused.stale => t \in revoked /\ refused.tok = t)
  <2>1. PICK begun \in Request :
          /\ begun = Begun("invalidate", "setex", t)
          /\ begun.tok = t /\ (begun.stale => t \in revoked)
    BY <1>1, BegunIsRequest
  <2>2. Status(500) \in Response
    BY StatusIsResponse
  <2>3. QED
    BY <2>1, <2>2, AnsweredIsRequest
<1>4. PICK q \in Request : q = IF ENABLE_JWT /\ t \notin Token THEN refused ELSE sent
  OBVIOUS
<1>5. Awaiting(q)' /\ q.pc # "idle"
  <2>1. CASE q = refused
    BY <2>1, <1>1, <1>3 DEF Awaiting
  <2>2. CASE q = sent /\ ~(ENABLE_JWT /\ t \notin Token)
    BY <2>2, <1>1, <1>2 DEF Awaiting
  <2>3. QED
    BY <1>4, <2>1, <2>2
<1>6. req' = [req EXCEPT ![r] = q]
  BY <1>2, <1>3, <1>4 DEF Invalidate
<1>7. /\ req' \in [Req -> Request]
      /\ \A x \in Req :
           Awaiting(req[x])' /\ (req'[x].pc = "idle" => req'[x].op = "none")
  BY <1>1, <1>5, <1>6, ClusterRequests
<1>8. TypeOK' /\ MintedClaims'
  BY <1>1, <1>7 DEF ClusterInv, TypeOK, MintedClaims, store, tokens
<1>9. CopyOK(session, blacklist)' /\ CopyOK(replicaSession, replicaBlacklist)'
  BY <1>1 DEF ClusterInv, CopyOK, store, tokens, replicas
<1>10. \A x \in minted' \ lost' : KeptByMasters(x)'
  BY <1>1 DEF ClusterInv, KeptByMasters, SessionOf, store, tokens
<1>11. QED
  BY <1>7, <1>8, <1>9, <1>10 DEF ClusterInv

\* The answer to an invalidation whose command took effect, or did not.
LEMMA InvalidationAnswered ==
  ASSUME ClusterInv, NEW r \in Req, NEW outcome \in WriteOutcome,
         req[r].pc \in {"setex", "del"}, asked' = asked,
         InvalidateAnswer(r, outcome)
  PROVE  /\ req' \in [Req -> Request]
         /\ \A x \in Req :
              Awaiting(req[x])' /\ (req'[x].pc = "idle" => req'[x].op = "none")
         /\ revoked \subseteq revoked'
         /\ revoked' \subseteq revoked \union {req[r].tok}
         /\ revoked' # revoked => Landed(outcome)
         /\ revoked' \subseteq asked'
<1>1. req[r] \in Request /\ Awaiting(req[r])
  BY ClusterKnows
<1>2. req[r].tok \in asked \union {Junk}
  BY <1>1 DEF Awaiting
<1>3. /\ revoked \subseteq revoked'
      /\ revoked' \subseteq revoked \union {req[r].tok}
      /\ revoked' # revoked => Landed(outcome)
      /\ revoked' \subseteq asked'
  BY <1>2, TokenAssumption
     DEF InvalidateAnswer, Acknowledged, Landed, ClusterInv, TypeOK
<1>4. PICK res \in Response :
        res = IF Acknowledged(outcome) THEN Status(200) ELSE Status(500)
  BY StatusIsResponse
<1>5. PICK q \in Request :
        /\ q = Answered(req[r], res) /\ q.pc = "done"
        /\ q.stale => req[r].stale /\ q.tok = req[r].tok
  BY <1>1, AnsweredIsRequest
<1>6. req' = [req EXCEPT ![r] = q]
  BY <1>4, <1>5 DEF InvalidateAnswer, Answer
<1>7. Awaiting(q)'
  BY <1>1, <1>3, <1>5 DEF Awaiting
<1>8. QED
  BY <1>3, <1>5, <1>6, <1>7, ClusterRequests

\* The time to live of a blacklist entry is a date, which puts its end beyond the
\* horizon.
LEMMA EntryBeyondHorizon ==
  ASSUME ClusterInv, NEW r \in Req, InvalidateBlacklist(r)
  PROVE  \E e \in [value : {"true", Missing}, expireAt : Nat],
            outcome \in WriteOutcome :
           /\ e.expireAt > MaxNow
           /\ blacklist' = IF Landed(outcome)
                           THEN [blacklist EXCEPT ![req[r].tok] = e]
                           ELSE blacklist
           /\ InvalidateAnswer(r, outcome)
<1>1. PICK t : t = req[r].tok
  OBVIOUS
<1>2. t \in minted
  BY <1>1, ClusterKnows DEF InvalidateBlacklist, Awaiting
<1>3. PICK outcome \in WriteOutcome :
        /\ blacklist' = IF Landed(outcome)
                        THEN SetEx(blacklist, t, "true", claims[t].exp, now)
                        ELSE blacklist
        /\ InvalidateAnswer(r, outcome)
  BY <1>1 DEF InvalidateBlacklist, BlacklistTtl, SetExOutcomes, WriteOutcome
<1>4. PICK e : e = [value |-> "true", expireAt |-> now + claims[t].exp]
  OBVIOUS
<1>5. e \in [value : {"true", Missing}, expireAt : Nat] /\ e.expireAt > MaxNow
  <2>1. claims[t].exp \in Nat /\ claims[t].exp >= Epoch /\ now \in Nat /\ now >= Epoch
    BY <1>2, HorizonAssumption DEF ClusterInv, TypeOK, MintedClaims, Claims
  <2>2. now + claims[t].exp \in Nat /\ now + claims[t].exp > MaxNow
    BY <2>1, HorizonAssumption
  <2>3. QED
    BY <1>4, <2>2
<1>6. Landed(outcome) => blacklist' = [blacklist EXCEPT ![t] = e]
  BY <1>3, <1>4 DEF SetEx
<1>7. QED
  BY <1>1, <1>3, <1>5, <1>6

\* SETEX of a blacklist entry at the master of the token.
LEMMA BlacklistedAtMaster ==
  ASSUME ClusterInv, NEW r \in Req, InvalidateBlacklist(r),
         UNCHANGED <<replicas, lost>>
  PROVE  ClusterInv'
<1>1. PICK t : t = req[r].tok
  OBVIOUS
<1>2. req[r].pc = "setex" /\ UNCHANGED <<now, session, tokens, asked>>
  BY DEF InvalidateBlacklist
<1>3. ENABLE_JWT /\ t \in asked /\ t \in minted /\ t \in TokenStr
  BY <1>1, <1>2, ClusterKnows DEF Awaiting, ClusterInv, TypeOK, TokenStr
<1>4. PICK e \in [value : {"true", Missing}, expireAt : Nat],
           outcome \in WriteOutcome :
        /\ e.expireAt > MaxNow
        /\ blacklist' = IF Landed(outcome) THEN [blacklist EXCEPT ![t] = e]
                                           ELSE blacklist
        /\ InvalidateAnswer(r, outcome)
  BY <1>1, EntryBeyondHorizon
<1>5. /\ req' \in [Req -> Request]
      /\ \A x \in Req :
           Awaiting(req[x])' /\ (req'[x].pc = "idle" => req'[x].op = "none")
      /\ revoked \subseteq revoked' /\ revoked' \subseteq revoked \union {t}
      /\ revoked' # revoked => Landed(outcome)
      /\ revoked' \subseteq asked'
  BY <1>1, <1>2, <1>4, InvalidationAnswered
<1>6. blacklist' \in {blacklist, [blacklist EXCEPT ![t] = e]}
        /\ (revoked' # revoked => blacklist' = [blacklist EXCEPT ![t] = e])
  BY <1>4, <1>5
<1>7. CopyOK(session, blacklist)'
  BY <1>2, <1>3, <1>4, <1>6 DEF ClusterInv, CopyOK, tokens
<1>8. CopyOK(replicaSession, replicaBlacklist)'
  BY <1>2 DEF ClusterInv, CopyOK, tokens, replicas
<1>9. TypeOK' /\ MintedClaims'
  BY <1>2, <1>5, <1>7 DEF ClusterInv, TypeOK, MintedClaims, CopyOK, tokens
<1>10. ASSUME NEW x \in minted' \ lost'
       PROVE  KeptByMasters(x)'
  <2>1. x \in minted /\ x \notin lost /\ KeptByMasters(x) /\ x \in TokenStr
    BY <1>2 DEF ClusterInv, TypeOK, tokens, TokenStr
  <2>2. blacklist \in [TokenStr -> [value : {"true", Missing}, expireAt : Nat]]
    BY DEF ClusterInv, TypeOK
  <2>3. x \in revoked' => blacklist'[x].expireAt > MaxNow
    BY <1>3, <1>4, <1>5, <1>6, <2>1, <2>2 DEF KeptByMasters
  <2>4. QED
    BY <1>2, <1>3, <2>3 DEF KeptByMasters
<1>11. QED
  BY <1>5, <1>7, <1>8, <1>9, <1>10 DEF ClusterInv

\* DEL of a session at the master of the token.
LEMMA DeletedAtMaster ==
  ASSUME ClusterInv, NEW r \in Req, InvalidateDelete(r), UNCHANGED <<replicas, lost>>
  PROVE  ClusterInv'
<1>1. PICK t : t = req[r].tok
  OBVIOUS
<1>2. req[r].pc = "del" /\ UNCHANGED <<now, blacklist, tokens, asked>>
  BY DEF InvalidateDelete
<1>3. ~ENABLE_JWT /\ t \in asked \union {Junk} /\ t \in TokenStr
  BY <1>1, <1>2, ClusterKnows DEF Awaiting, ClusterInv, TypeOK, TokenStr
<1>4. PICK outcome \in WriteOutcome :
        /\ session' = IF Landed(outcome) THEN Del(session, t) ELSE session
        /\ InvalidateAnswer(r, outcome)
  BY <1>1 DEF InvalidateDelete
<1>5. /\ req' \in [Req -> Request]
      /\ \A x \in Req :
           Awaiting(req[x])' /\ (req'[x].pc = "idle" => req'[x].op = "none")
      /\ revoked \subseteq revoked' /\ revoked' \subseteq revoked \union {t}
      /\ revoked' # revoked => Landed(outcome)
      /\ revoked' \subseteq asked'
  BY <1>1, <1>2, <1>4, InvalidationAnswered
<1>6. session' \in {session, [session EXCEPT ![t] = Absent]}
        /\ (revoked' # revoked => session' = [session EXCEPT ![t] = Absent])
  BY <1>4, <1>5 DEF Del
<1>7. Absent \in [value : UserOrNone, expireAt : Nat]
  BY DEF Absent, UserOrNone
<1>8. CopyOK(session, blacklist)'
  BY <1>2, <1>3, <1>6, <1>7 DEF ClusterInv, CopyOK, tokens
<1>9. CopyOK(replicaSession, replicaBlacklist)'
  BY <1>2 DEF ClusterInv, CopyOK, tokens, replicas
<1>10. TypeOK' /\ MintedClaims'
  BY <1>2, <1>5, <1>8 DEF ClusterInv, TypeOK, MintedClaims, CopyOK, tokens
<1>11. ASSUME NEW x \in minted' \ lost'
       PROVE  KeptByMasters(x)'
  <2>1. x \in minted /\ x \notin lost /\ KeptByMasters(x) /\ x \in TokenStr
          /\ x # Junk
    BY <1>2, TokenAssumption DEF ClusterInv, TypeOK, tokens, TokenStr
  <2>2. session \in [TokenStr -> [value : UserOrNone, expireAt : Nat]]
    BY DEF ClusterInv, TypeOK
  <2>3. x \in revoked' => session'[x] = Absent
    BY <1>3, <1>5, <1>6, <2>1, <2>2 DEF KeptByMasters
  <2>4. x \notin asked => session'[x] = session[x] /\ SessionOf(x)' = SessionOf(x)
    BY <1>2, <1>3, <1>6, <2>1, <2>2 DEF SessionOf, tokens
  <2>5. QED
    BY <1>2, <1>3, <2>1, <2>3, <2>4 DEF KeptByMasters
<1>12. QED
  BY <1>5, <1>8, <1>9, <1>10, <1>11 DEF ClusterInv

\* A token is generated, under a name nothing was ever kept under.
LEMMA TokenGenerated ==
  ASSUME ClusterInv, NEW r \in Req, req[r].pc = "mint",
         NEW t \in Token \ minted, Generated(r, t)
  PROVE  /\ claims' \in [Token -> Claims] /\ minted' = minted \union {t}
         /\ MintedClaims'
         /\ SessionOf(t)' = [value |-> req[r].user,
                             expireAt |-> now + GetTokenExpiration(req[r].user)]
         /\ SessionOf(t)' \in [value : UserOrNone, expireAt : Nat]
         /\ \A x \in minted : SessionOf(x)' = SessionOf(x)
<1>1. req[r] \in Request /\ Awaiting(req[r])
  BY ClusterKnows
<1>2. /\ req[r].user \in UserShape /\ req[r].tok \in Token \union {Missing}
      /\ req[r].org \in OrgCode \union {Missing}
  BY <1>1 DEF Awaiting, Request
<1>3. now \in Nat /\ now >= Epoch /\ Epoch \in Nat
  BY HorizonAssumption DEF ClusterInv, TypeOK
<1>4. PICK ttl \in Nat : ttl = GetTokenExpiration(req[r].user)
  BY ExpirationIsNat
<1>5. PICK c : c = NewClaims(r)
  OBVIOUS
<1>6. c.user = req[r].user /\ c.exp = now + ttl
  BY <1>4, <1>5 DEF NewClaims
<1>7. c \in Claims /\ c.user \in UserShape /\ c.exp >= Epoch
  BY <1>2, <1>3, <1>4, <1>5 DEF NewClaims, Claims, UserOrNone
<1>8. claims' = [claims EXCEPT ![t] = c] /\ minted' = minted \union {t}
  BY <1>5 DEF Generated
<1>9. claims \in [Token -> Claims] /\ minted \subseteq Token
  BY DEF ClusterInv, TypeOK
<1>10. claims' \in [Token -> Claims]
  BY <1>7, <1>8, <1>9
<1>11. MintedClaims'
  BY <1>7, <1>8, <1>9 DEF ClusterInv, MintedClaims
<1>12. claims'[t] = c /\ \A x \in minted : claims'[x] = claims[x]
  BY <1>8, <1>9
<1>13. now + ttl \in Nat
  BY <1>3
<1>14. QED
  BY <1>2, <1>4, <1>6, <1>8, <1>10, <1>11, <1>12, <1>13 DEF SessionOf, UserOrNone

\* The answer of a request that minted, or failed to.
LEMMA MintAnswered ==
  ASSUME ClusterInv, NEW r \in Req, UNCHANGED history,
         NEW res \in Response, Answer(r, res)
  PROVE  /\ req' \in [Req -> Request]
         /\ \A x \in Req :
              Awaiting(req[x])' /\ (req'[x].pc = "idle" => req'[x].op = "none")
<1>1. req[r] \in Request /\ Awaiting(req[r])
  BY ClusterKnows
<1>2. PICK q \in Request :
        /\ q = Answered(req[r], res) /\ q.pc = "done"
        /\ q.stale => req[r].stale /\ q.tok = req[r].tok
  BY <1>1, AnsweredIsRequest
<1>3. Awaiting(q)'
  BY <1>1, <1>2 DEF Awaiting, history
<1>4. QED
  BY <1>2, <1>3, ClusterRequests DEF Answer, history

\* The token is handed over.
LEMMA TokenHandedOver ==
  ASSUME ClusterInv, NEW r \in Req, UNCHANGED history,
         NEW t \in Token, HandOver(r, t)
  PROVE  /\ req' \in [Req -> Request]
         /\ \A x \in Req :
              Awaiting(req[x])' /\ (req'[x].pc = "idle" => req'[x].op = "none")
         /\ handed' = handed \union {t}
<1>1. PICK code \in {200, 301} : code = IF req[r].op = "login" THEN 301 ELSE 200
  OBVIOUS
<1>2. PICK res : res = [Status(code) EXCEPT !.token = t]
  OBVIOUS
<1>3. Status(code) \in Response
  BY StatusIsResponse
<1>4. res \in Response
  BY <1>2, <1>3 DEF Response
<1>5. Answer(r, res) /\ handed' = handed \union {t}
  BY <1>1, <1>2 DEF HandOver
<1>6. QED
  BY <1>4, <1>5, MintAnswered

\* A token is minted, as a JWT or with a session at its master.
LEMMA MintedAtMaster ==
  ASSUME ClusterInv, NEW r \in Req, MintJwt(r) \/ MintSession(r),
         UNCHANGED <<replicas, lost>>
  PROVE  ClusterInv'
<1>1. req[r].pc = "mint" /\ UNCHANGED <<now, blacklist, history>>
  BY DEF MintJwt, MintSession, store
<1>2. Status(500) \in Response
  BY StatusIsResponse
<1>3. CASE Answer(r, Status(500)) /\ UNCHANGED <<session, tokens>>
  BY <1>1, <1>2, <1>3, OnlyAnAnswer DEF store
<1>4. ASSUME NEW t \in Token \ minted, Generated(r, t),
             \/ ENABLE_JWT /\ session' = session
             \/ ~ENABLE_JWT /\ session' = SetEx(session, t, req[r].user,
                                       GetTokenExpiration(req[r].user), now),
             \/ HandOver(r, t)
             \/ Answer(r, Status(500)) /\ UNCHANGED handed
      PROVE  ClusterInv'
  <2>1. /\ claims' \in [Token -> Claims] /\ minted' = minted \union {t}
        /\ MintedClaims'
        /\ SessionOf(t)' = [value |-> req[r].user,
                            expireAt |-> now + GetTokenExpiration(req[r].user)]
        /\ SessionOf(t)' \in [value : UserOrNone, expireAt : Nat]
        /\ \A x \in minted : SessionOf(x)' = SessionOf(x)
    BY <1>1, <1>4, TokenGenerated
  <2>2. /\ req' \in [Req -> Request]
        /\ \A x \in Req :
             Awaiting(req[x])' /\ (req'[x].pc = "idle" => req'[x].op = "none")
        /\ handed \subseteq handed' /\ handed' \subseteq handed \union {t}
    BY <1>1, <1>2, <1>4, TokenHandedOver, MintAnswered
  <2>3. PICK e : e = [value |-> req[r].user,
                      expireAt |-> now + GetTokenExpiration(req[r].user)]
    OBVIOUS
  <2>4. e = SessionOf(t)' /\ e \in [value : UserOrNone, expireAt : Nat]
    BY <2>1, <2>3
  <2>5. \/ ENABLE_JWT /\ session' = session
        \/ ~ENABLE_JWT /\ session' = [session EXCEPT ![t] = e]
    BY <1>4, <2>3 DEF SetEx
  <2>6. /\ session \in [TokenStr -> [value : UserOrNone, expireAt : Nat]]
        /\ t \in TokenStr /\ minted \subseteq Token
    BY DEF ClusterInv, TypeOK, TokenStr
  <2>7. CopyOK(session, blacklist)'
    BY <1>1, <2>1, <2>4, <2>5, <2>6 DEF ClusterInv, CopyOK, history
  <2>8. CopyOK(replicaSession, replicaBlacklist)'
    BY <1>1, <2>1 DEF ClusterInv, CopyOK, replicas, history
  <2>9. TypeOK'
    BY <1>1, <2>1, <2>2, <2>6, <2>7 DEF ClusterInv, TypeOK, CopyOK, history
  <2>10. ASSUME NEW x \in minted' \ lost'
         PROVE  KeptByMasters(x)'
    <3>1. CASE x = t
      <4>1. x \notin revoked'
        BY <1>1, <3>1 DEF ClusterInv, TypeOK, history
      <4>2. ~ENABLE_JWT => session'[x] = SessionOf(x)'
        BY <2>4, <2>5, <2>6, <3>1
      <4>3. QED
        BY <4>1, <4>2 DEF KeptByMasters
    <3>2. CASE x # t
      <4>1. x \in minted /\ x \notin lost /\ x \in TokenStr
        BY <2>1, <2>6, <3>2 DEF TokenStr
      <4>2. KeptByMasters(x) /\ session'[x] = session[x] /\ SessionOf(x)' = SessionOf(x)
        BY <2>1, <2>5, <2>6, <3>2, <4>1 DEF ClusterInv
      <4>3. QED
        BY <1>1, <4>2 DEF KeptByMasters, history
    <3>3. QED
      BY <3>1, <3>2
  <2>11. QED
    BY <2>1, <2>2, <2>7, <2>8, <2>9, <2>10 DEF ClusterInv
<1>5. QED
  BY <1>3, <1>4 DEF MintJwt, MintSession, SessionTtl, NewToken, store

\* Time passes, or instances stop: no copy changes.
LEMMA ClockAndCrashes ==
  ASSUME ClusterInv, UNCHANGED <<replicas, lost>>, Tick \/ \E served : Crash(served)
  PROVE  ClusterInv'
<1>1. UNCHANGED <<store, tokens, history, replicas, lost>>
  BY DEF Tick, Crash
<1>2. now' \in Epoch .. MaxNow
  BY HorizonAssumption DEF Tick, Crash, ClusterInv, TypeOK
<1>3. /\ req' \in [Req -> Request]
      /\ \A x \in Req : req'[x] \in {req[x], Idle}
  <2>1. CASE Tick
    BY <2>1 DEF Tick, ClusterInv, TypeOK
  <2>2. CASE \E served : Crash(served)
    BY <2>2, IdleIsRequest DEF Crash, ClusterInv, TypeOK
  <2>3. QED
    BY <2>1, <2>2
<1>4. ASSUME NEW x \in Req
      PROVE  Awaiting(req[x])' /\ (req'[x].pc = "idle" => req'[x].op = "none")
  <2>1. CASE req'[x] = Idle
    BY <2>1 DEF Idle, Awaiting
  <2>2. CASE req'[x] = req[x]
    BY <1>1, <2>2 DEF ClusterInv, Awaiting, history
  <2>3. QED
    BY <1>3, <2>1, <2>2
<1>5. TypeOK' /\ MintedClaims'
  BY <1>1, <1>2, <1>3 DEF ClusterInv, TypeOK, MintedClaims, store, tokens, history
<1>6. CopyOK(session, blacklist)' /\ CopyOK(replicaSession, replicaBlacklist)'
  BY <1>1 DEF ClusterInv, CopyOK, store, tokens, history, replicas
<1>7. \A x \in minted' \ lost' : KeptByMasters(x)'
  BY <1>1 DEF ClusterInv, KeptByMasters, SessionOf, store, tokens, history
<1>8. QED
  BY <1>4, <1>5, <1>6, <1>7 DEF ClusterInv

\* What the two copies exchange is an entry of the one or of the other.
LEMMA CopiesExchange ==
  ASSUME ClusterInv, NEW t \in Token,
         UNCHANGED <<now, tokens, history, req>>, lost \subseteq lost',
         \/ /\ session' = [session EXCEPT ![t] = replicaSession[t]]
            /\ blacklist' = [blacklist EXCEPT ![t] = replicaBlacklist[t]]
            /\ replicas' = replicas /\ t \in lost'
         \/ /\ replicaSession' = [replicaSession EXCEPT ![t] = session[t]]
            /\ replicaBlacklist' = [replicaBlacklist EXCEPT ![t] = blacklist[t]]
            /\ store' = store
  PROVE  ClusterInv'
<1>1. t \in TokenStr
  BY DEF TokenStr
<1>2. CopyOK(session, blacklist)' /\ CopyOK(replicaSession, replicaBlacklist)'
  BY <1>1 DEF ClusterInv, CopyOK, store, tokens, history, replicas
<1>3. TypeOK' /\ MintedClaims'
  BY <1>2 DEF ClusterInv, TypeOK, MintedClaims, CopyOK, tokens, history
<1>4. ASSUME NEW x \in minted' \ lost'
      PROVE  KeptByMasters(x)'
  <2>1. x \in minted /\ x \notin lost /\ KeptByMasters(x) /\ x \in TokenStr
    BY DEF ClusterInv, TypeOK, tokens, TokenStr
  <2>2. session'[x] = session[x] /\ blacklist'[x] = blacklist[x]
    BY <1>4, <2>1 DEF ClusterInv, TypeOK, store
  <2>3. QED
    BY <2>1, <2>2 DEF KeptByMasters, SessionOf, tokens, history
<1>5. \A x \in Req :
        Awaiting(req[x])' /\ (req'[x].pc = "idle" => req'[x].op = "none")
  BY DEF ClusterInv, Awaiting, history
<1>6. QED
  BY <1>2, <1>3, <1>4, <1>5 DEF ClusterInv

\* Before anything was written the copies have nothing.
LEMMA InitClusterInv == ClusterInit => ClusterInv
<1> SUFFICES ASSUME ClusterInit PROVE ClusterInv
  OBVIOUS
<1>1. IInv
  BY InitIInv DEF ClusterInit
<1>2. CopyOK(session, blacklist) /\ CopyOK(replicaSession, replicaBlacklist)
  BY <1>1 DEF ClusterInit, Init, IInv, TypeOK, CopyOK, Absent
<1>3. \A t \in minted \ lost : KeptByMasters(t)
  BY DEF ClusterInit, Init
<1>4. \A r \in Req : Awaiting(req[r]) /\ (req[r].pc = "idle" => req[r].op = "none")
  BY <1>1 DEF IInv, RequestOK, ClusterInit, Init, Idle
<1>5. QED
  BY <1>1, <1>2, <1>3, <1>4 DEF IInv, ClusterInv

\* Every step keeps the invariant.
LEMMA StepClusterInv == ClusterInv /\ [ClusterNext]_clusterVars => ClusterInv'
<1> SUFFICES ASSUME ClusterInv, [ClusterNext]_clusterVars
             PROVE  ClusterInv'
  OBVIOUS
<1>1. CASE UNCHANGED clusterVars
  BY <1>1 DEF clusterVars, vars, ClusterInv, TypeOK, MintedClaims, CopyOK,
              KeptByMasters, SessionOf, Awaiting, store, tokens, history, replicas
<1>2. ASSUME NEW r \in Req, Start(r), UNCHANGED <<replicas, lost>>
      PROVE  ClusterInv'
  <2>1. CASE \E t \in Sendable : Invalidate(r, t)
    BY <1>2, <2>1, InvalidationBegins
  <2>2. CASE ~ \E t \in Sendable : Invalidate(r, t)
    <3>1. /\ UNCHANGED <<now, store, tokens, history>>
          /\ \E q \in Request : /\ Awaiting(q) /\ q.pc # "idle"
                                /\ req' = [req EXCEPT ![r] = q]
      BY <1>2, <2>2, RequestBegins DEF Start, ClientStart
    <3>2. QED
      BY <1>2, <3>1, OnlyARequest
  <2>3. QED
    BY <2>1, <2>2
<1>3. ASSUME NEW r \in Req, Continue(r), UNCHANGED <<replicas, lost>>
      PROVE  ClusterInv'
  BY <1>3, ReadsKeepInv, BlacklistedAtMaster, DeletedAtMaster, MintedAtMaster
     DEF Continue, ReadsMaster
<1>4. CASE Next /\ UNCHANGED <<replicas, lost, failovers>>
  BY <1>2, <1>3, <1>4, ClockAndCrashes DEF Next
<1>5. CASE \E r \in Req : ReadFromReplica(r)
  BY <1>5, ReadsKeepInv
<1>6. ASSUME NEW t \in Token, Replicate(t) \/ Failover(t)
      PROVE  ClusterInv'
  <2>1. UNCHANGED <<now, tokens, history, req>> /\ lost \subseteq lost'
    BY <1>6 DEF Replicate, Failover, vars
  <2>2. QED
    BY <1>6, <2>1, CopiesExchange DEF Replicate, Failover, vars
<1>7. QED
  BY <1>1, <1>4, <1>5, <1>6 DEF ClusterNext

-----------------------------------------------------------------------------
(***************************************************************************)
(* The theorems.                                                           *)
(***************************************************************************)

\* The invariant holds in every state, however far replication is behind and however
\* often it failed over.
THEOREM ClusterInvariance == ClusterSpec => []ClusterInv
<1>1. ClusterInit => ClusterInv
  BY InitClusterInv
<1>2. ClusterInv /\ [ClusterNext]_clusterVars => ClusterInv'
  BY StepClusterInv
<1>3. QED
  BY <1>1, <1>2, PTL DEF ClusterSpec

\* What a step leaves in the two copies of a token that was minted before it.
LEMMA CopiesAfter ==
  ASSUME ClusterInv, [ClusterNext]_clusterVars, NEW t \in minted
  PROVE  /\ now' = now \/ now' = now + 1
         /\ session'[t] \in {session[t], replicaSession[t], Absent}
         /\ replicaSession'[t] \in {session[t], replicaSession[t]}
         /\ \/ blacklist'[t] \in {blacklist[t], replicaBlacklist[t]}
            \/ blacklist'[t] # Absent
         /\ replicaBlacklist'[t] \in {blacklist[t], replicaBlacklist[t]}
<1>1. /\ t \in Token /\ t \in TokenStr
      /\ session \in [TokenStr -> [value : UserOrNone, expireAt : Nat]]
      /\ blacklist \in [TokenStr -> [value : {"true", Missing}, expireAt : Nat]]
      /\ replicaSession \in [TokenStr -> [value : UserOrNone, expireAt : Nat]]
      /\ replicaBlacklist
           \in [TokenStr -> [value : {"true", Missing}, expireAt : Nat]]
  BY DEF ClusterInv, TypeOK, CopyOK, TokenStr
<1>2. CASE UNCHANGED clusterVars
  BY <1>2 DEF clusterVars, vars, store, replicas
<1>3. ASSUME NEW r \in Req, Start(r), UNCHANGED replicas
      PROVE  UNCHANGED <<now, store, replicas>>
  BY <1>3 DEF Start, ClientStart, Introspect, Invalidate, UpgradeRejected,
              UpgradeSession, UpgradeJwt, GetGenerateToken
<1>4. ASSUME NEW r \in Req, ReadsMaster(r) \/ ReadFromReplica(r), UNCHANGED replicas
      PROVE  UNCHANGED <<now, store, replicas>>
  BY <1>4, MastersAnswer, ReplicasAnswer
<1>5. ASSUME NEW r \in Req, InvalidateBlacklist(r), UNCHANGED replicas
      PROVE  /\ UNCHANGED <<now, session, replicas>>
             /\ blacklist'[t] = blacklist[t] \/ blacklist'[t] # Absent
  <2>1. PICK x, e : /\ e.expireAt > MaxNow
                    /\ blacklist' \in {blacklist, [blacklist EXCEPT ![x] = e]}
    BY <1>5, EntryBeyondHorizon
  <2>2. blacklist'[t] \in {blacklist[t], e}
    BY <1>1, <2>1
  <2>3. e # Absent
    BY <2>1, HorizonAssumption DEF Absent
  <2>4. QED
    BY <1>5, <2>2, <2>3 DEF InvalidateBlacklist
<1>6. ASSUME NEW r \in Req, InvalidateDelete(r), UNCHANGED replicas
      PROVE  /\ UNCHANGED <<now, blacklist, replicas>>
             /\ session'[t] \in {session[t], Absent}
  <2>1. PICK x : session' \in {session, [session EXCEPT ![x] = Absent]}
    BY <1>6 DEF InvalidateDelete, Del
  <2>2. QED
    BY <1>1, <1>6, <2>1 DEF InvalidateDelete
<1>7. ASSUME NEW r \in Req, MintJwt(r) \/ MintSession(r), UNCHANGED replicas
      PROVE  UNCHANGED <<now, blacklist, replicas>> /\ session'[t] = session[t]
  <2>1. \/ session' = session
        \/ \E x \in Token \ minted : \E e : session' = [session EXCEPT ![x] = e]
    BY <1>7 DEF MintJwt, MintSession, SessionTtl, NewToken, SetEx, store
  <2>2. QED
    BY <1>1, <1>7, <2>1 DEF MintJwt, MintSession, store
<1>8. ASSUME Tick \/ (\E served : Crash(served)), UNCHANGED replicas
      PROVE  UNCHANGED <<store, replicas>> /\ (now' = now \/ now' = now + 1)
  BY <1>8 DEF Tick, Crash
<1>9. CASE Next /\ UNCHANGED <<replicas, lost, failovers>>
  BY <1>3, <1>4, <1>5, <1>6, <1>7, <1>8, <1>9
     DEF Next, Continue, ReadsMaster, store, replicas
<1>10. ASSUME NEW x \in Token, Replicate(x) \/ Failover(x)
       PROVE  /\ now' = now
              /\ session'[t] \in {session[t], replicaSession[t]}
              /\ replicaSession'[t] \in {session[t], replicaSession[t]}
              /\ blacklist'[t] \in {blacklist[t], replicaBlacklist[t]}
              /\ replicaBlacklist'[t] \in {blacklist[t], replicaBlacklist[t]}
  BY <1>1, <1>10 DEF Replicate, Failover, vars, store, replicas
<1>11. ASSUME NEW r \in Req, ReadFromReplica(r)
       PROVE  UNCHANGED <<now, store, replicas>>
  BY <1>11, ReplicasAnswer
<1>12. QED
  BY <1>2, <1>9, <1>10, <1>11 DEF ClusterNext, store, replicas

(***************************************************************************)
(* Over in all copies is over for good: no step of a handler, of           *)
(* replication or of a failover brings the session of a token back that    *)
(* was minted before, or lets its blacklist entry go.                      *)
(***************************************************************************)
THEOREM OverStaysOver == ClusterSpec => OverForGood
<1>1. ASSUME ClusterInv, ClusterInv', [ClusterNext]_clusterVars
      PROVE  [\A t \in minted : OverEverywhere(t) => OverEverywhere(t)']_clusterVars
  <2> SUFFICES ASSUME NEW t \in minted, OverEverywhere(t)
               PROVE  OverEverywhere(t)'
    OBVIOUS
  <2>1. /\ t \in TokenStr
        /\ now \in Nat /\ now' \in Nat /\ now' =< MaxNow /\ MaxNow \in Nat
    BY <1>1, HorizonAssumption DEF ClusterInv, TypeOK, TokenStr
  <2>2. /\ now' = now \/ now' = now + 1
        /\ session'[t] \in {session[t], replicaSession[t], Absent}
        /\ replicaSession'[t] \in {session[t], replicaSession[t]}
        /\ \/ blacklist'[t] \in {blacklist[t], replicaBlacklist[t]}
           \/ blacklist'[t] # Absent
        /\ replicaBlacklist'[t] \in {blacklist[t], replicaBlacklist[t]}
    BY <1>1, CopiesAfter
  <2>3. Absent.expireAt = 0
    BY DEF Absent
  <2>4. CASE ENABLE_JWT
    <3>1. blacklist[t] # Absent /\ replicaBlacklist[t] # Absent
      BY <2>1, <2>3, <2>4 DEF OverEverywhere, IsLive
    <3>2. blacklist'[t] # Absent /\ replicaBlacklist'[t] # Absent
      BY <2>2, <3>1
    <3>3. /\ blacklist'[t].expireAt > MaxNow /\ blacklist'[t].expireAt \in Nat
          /\ replicaBlacklist'[t].expireAt > MaxNow
          /\ replicaBlacklist'[t].expireAt \in Nat
      BY <1>1, <2>1, <3>2 DEF ClusterInv, CopyOK
    <3>4. QED
      BY <2>1, <2>4, <3>3 DEF OverEverywhere, IsLive
  <2>5. CASE ~ENABLE_JWT
    <3>1. session[t].expireAt \in Nat /\ replicaSession[t].expireAt \in Nat
      BY <1>1, <2>1 DEF ClusterInv, CopyOK
    <3>2. session[t].expireAt =< now /\ replicaSession[t].expireAt =< now
      BY <2>1, <2>5, <3>1 DEF OverEverywhere, IsLive
    <3>3. session'[t].expireAt =< now' /\ replicaSession'[t].expireAt =< now'
      BY <2>1, <2>2, <2>3, <3>1, <3>2
    <3>4. session'[t].expireAt \in Nat /\ replicaSession'[t].expireAt \in Nat
      BY <2>2, <2>3, <3>1
    <3>5. QED
      BY <2>1, <2>5, <3>3, <3>4 DEF OverEverywhere, IsLive
  <2>6. QED
    BY <2>4, <2>5, ModeAssumption
<1>2. QED
  BY <1>1, ClusterInvariance, PTL DEF ClusterSpec, OverForGood

\* Only a reply to its EXISTS or to its GET, from whichever copy, ends an
\* introspection.
LEMMA ReadsEndIntrospections ==
  ASSUME ClusterInv, [ClusterNext]_clusterVars, NEW r \in Req, Introspected(r)
  PROVE  \/ \E e \in {blacklist[req[r].tok], replicaBlacklist[req[r].tok]} :
              Checks(r, e)
         \/ \E e \in {session[req[r].tok], replicaSession[req[r].tok]} :
              Reads(r, e)
<1>1. /\ req \in [Req -> Request] /\ Awaiting(req[r])
      /\ req[r].pc = "idle" => req[r].op = "none"
      /\ req'[r].pc = "done" /\ req[r].op = "introspect" /\ req[r].pc # "done"
  BY DEF ClusterInv, TypeOK, Introspected
<1>2. ~Free(r) /\ req[r].pc \notin {"setex", "del", "load", "mint"}
  BY <1>1 DEF Awaiting, Free
<1>3. ASSUME NEW x \in Req, x # r
      PROVE  ~Start(x) /\ ~Continue(x) /\ ~ReadFromReplica(x)
  <2>1. Start(x) \/ Continue(x) => \E q : req' = [req EXCEPT ![x] = q]
    BY OneRequestSteps
  <2>2. ReadFromReplica(x) => \E q : req' = [req EXCEPT ![x] = q]
    BY ReplicasAnswer DEF ReadFromReplica, Checks, Reads, Loads, Answer, Goto
  <2>3. \A q : req' # [req EXCEPT ![x] = q]
    BY <1>1, <1>3
  <2>4. QED
    BY <2>1, <2>2, <2>3
<1>4. ~Start(r)
  BY <1>2 DEF Start, ClientStart, Introspect, Invalidate, UpgradeRejected,
              UpgradeSession, UpgradeJwt, GetGenerateToken
<1>5. Continue(r) => IntrospectChecked(r) \/ IntrospectRead(r)
  BY <1>2 DEF Continue, InvalidateBlacklist, InvalidateDelete, UpgradeLoad,
              MintJwt, MintSession
<1>6. ReadFromReplica(r) => Replica!IntrospectChecked(r) \/ Replica!IntrospectRead(r)
  BY <1>2, ReplicasAnswer DEF ReadFromReplica, Loads
<1>7. ASSUME NEW served \in (SUBSET Req) \ {{}}, Crash(served)
      PROVE  FALSE
  <2>1. req'[r] \in {Idle, req[r]}
    BY <1>7 DEF Crash
  <2>2. QED
    BY <1>1, <2>1 DEF Idle
<1>8. ~Tick /\ ~UNCHANGED clusterVars /\ \A t \in Token : ~Replicate(t) /\ ~Failover(t)
  BY <1>1 DEF Tick, clusterVars, vars, Replicate, Failover
<1>9. QED
  BY <1>3, <1>4, <1>5, <1>6, <1>7, <1>8, MastersAnswer, ReplicasAnswer
     DEF ClusterNext, Next

\* What an answer shows of the request it is for.
LEMMA AnswerShows ==
  ASSUME ClusterInv, NEW r \in Req, NEW res \in Response, Answer(r, res)
  PROVE  req'[r].res = res /\ (req'[r].stale => req[r].stale)
<1>1. req[r] \in Request /\ req \in [Req -> Request]
  BY DEF ClusterInv, TypeOK
<1>2. PICK q \in Request : /\ q = Answered(req[r], res) /\ q.res = res
                           /\ q.stale => req[r].stale
  BY <1>1, AnsweredIsRequest
<1>3. req'[r] = q
  BY <1>1, <1>2 DEF Answer
<1>4. QED
  BY <1>2, <1>3

(***************************************************************************)
(* /introspect errs about a token only where a replica answered that had   *)
(* not all the master had, or after a failover that lost a write: it calls *)
(* active no token whose invalidation was acknowledged before, and denies  *)
(* none that a client holds and nobody asked to invalidate.                *)
(***************************************************************************)
THEOREM ErrorsMeanLag == ClusterSpec => ErrsOnlyWhileLagging
<1>1. ASSUME ClusterInv, [ClusterNext]_clusterVars,
             NEW r \in Req, Introspected(r), Errs(r),
             ~Lagging(req[r].tok), req[r].tok \notin lost
      PROVE  FALSE
  <2>1. PICK t : t = req[r].tok
    OBVIOUS
  <2>2. Awaiting(req[r]) /\ now \in Nat /\ now =< MaxNow /\ MaxNow \in Nat
    BY <1>1, HorizonAssumption DEF ClusterInv, TypeOK
  <2>3. replicaSession[t] = session[t] /\ replicaBlacklist[t] = blacklist[t]
    BY <1>1, <2>1 DEF Lagging
  <2>4. Checks(r, blacklist[t]) \/ Reads(r, session[t])
    BY <1>1, <2>1, <2>3, ReadsEndIntrospections
  <2>5. \A res \in Response : Answer(r, res) =>
          req'[r].res = res /\ (req'[r].stale => req[r].stale)
    BY <1>1, AnswerShows
  <2>6. \A code \in {403, 404, 500} :
          /\ Status(code) \in Response
          /\ Status(code).status = code /\ ~Status(code).active
    BY StatusIsResponse
  <2>7. \A res \in Response :
          Answer(r, res) /\ res.active /\ res.status = 200 =>
            t \in revoked \ lost /\ KeptByMasters(t) /\ t \in Token
    <3>1. ASSUME NEW res \in Response, Answer(r, res), res.active, res.status = 200
          PROVE  t \in revoked
      BY <1>1, <2>1, <2>2, <2>5, <3>1 DEF Errs, Awaiting
    <3>2. t \in revoked => t \in minted \ lost /\ t \in Token
      BY <1>1, <2>1 DEF ClusterInv, TypeOK
    <3>3. QED
      BY <1>1, <3>1, <3>2 DEF ClusterInv
  <2>8. \A code \in {403, 404} :
          Answer(r, Status(code)) =>
            /\ t \in handed \ asked /\ now < claims[t].exp
            /\ t \in minted /\ t \in TokenStr /\ KeptByMasters(t)
    <3>1. ASSUME NEW code \in {403, 404}, Answer(r, Status(code))
          PROVE  t \in handed \ asked /\ now < claims[t].exp
      BY <2>1, <2>5, <2>6, <1>1, <3>1 DEF Errs
    <3>2. t \in handed => t \in minted \ lost /\ t \in TokenStr
      BY <1>1, <2>1 DEF ClusterInv, TypeOK, TokenStr
    <3>3. QED
      BY <1>1, <3>1, <3>2 DEF ClusterInv
  <2>9. ~Answer(r, Status(500))
    BY <1>1, <2>5, <2>6 DEF Errs
  <2>10. CASE Checks(r, blacklist[t])
    <3>1. ~(IsLive(blacklist[t], now) /\ Answer(r, Status(403)))
      <4> SUFFICES ASSUME IsLive(blacklist[t], now), Answer(r, Status(403))
                   PROVE  FALSE
        OBVIOUS
      <4>1. t \notin asked /\ t \in TokenStr
        BY <2>8
      <4>2. blacklist[t] = Absent
        BY <1>1, <4>1 DEF ClusterInv, CopyOK
      <4>3. QED
        BY <2>2, <4>2 DEF IsLive, Absent
    <3>2. ~(~IsLive(blacklist[t], now) /\ ENABLE_JWT /\ Answer(r, Active))
      <4> SUFFICES ASSUME ~IsLive(blacklist[t], now), ENABLE_JWT, Answer(r, Active)
                   PROVE  FALSE
        OBVIOUS
      <4>1. Active \in Response /\ Active.active /\ Active.status = 200
        BY ActiveIsResponse DEF Active, Status
      <4>2. t \in revoked /\ KeptByMasters(t) /\ t \in TokenStr
        BY <2>7, <4>1 DEF TokenStr
      <4>3. blacklist[t].expireAt > MaxNow /\ blacklist[t].expireAt \in Nat
        BY <1>1, <4>2 DEF KeptByMasters, ClusterInv, CopyOK
      <4>4. QED
        BY <2>2, <4>3 DEF IsLive
    <3>3. ~Goto(r, "get")
      BY <1>1 DEF Goto, Introspected, ClusterInv, TypeOK, Request
    <3>4. QED
      BY <2>9, <2>10, <3>1, <3>2, <3>3 DEF Checks
  <2>11. CASE Reads(r, session[t])
    <3>1. ~ENABLE_JWT /\ t \in TokenStr
      BY <2>1, <2>2, <2>11 DEF Reads, Awaiting
    <3>2. ~(Found(session[t]) = Missing /\ Answer(r, Status(404)))
      <4> SUFFICES ASSUME Found(session[t]) = Missing, Answer(r, Status(404))
                   PROVE  FALSE
        OBVIOUS
      <4>1. /\ t \in minted /\ t \notin asked /\ now < claims[t].exp
            /\ KeptByMasters(t)
        BY <2>8
      <4>2. session[t] = SessionOf(t)
        BY <3>1, <4>1 DEF KeptByMasters
      <4>3. Found(session[t]) = claims[t].user
        BY <4>1, <4>2 DEF Found, SessionOf, IsLive
      <4>4. claims[t].user \in UserShape
        BY <1>1, <4>1 DEF ClusterInv, MintedClaims
      <4>5. QED
        BY <4>3, <4>4, MissingAssumption
    <3>3. ~(Found(session[t]) # Missing /\ Answer(r, SessionAnswer(Found(session[t]))))
      <4> SUFFICES ASSUME Found(session[t]) # Missing,
                          Answer(r, SessionAnswer(Found(session[t])))
                   PROVE  FALSE
        OBVIOUS
      <4>1. PICK raw \in UserShape : raw = Found(session[t])
        BY <1>1, <2>1, <3>1, EntriesFound
      <4>2. PICK u \in UserShape : SessionAnswer(raw) \in {Status(500), ActiveUser(u)}
        BY <4>1, DecodedAnyTokenUser DEF SessionAnswer
      <4>3. Answer(r, ActiveUser(u))
        BY <2>9, <4>1, <4>2
      <4>4. /\ ActiveUser(u) \in Response
            /\ ActiveUser(u).active /\ ActiveUser(u).status = 200
        BY ActiveIsResponse DEF ActiveUser
      <4>5. t \in revoked /\ KeptByMasters(t)
        BY <2>7, <4>3, <4>4
      <4>6. session[t] = Absent
        BY <3>1, <4>5 DEF KeptByMasters
      <4>7. QED
        BY <4>6 DEF Found, Absent
    <3>4. QED
      BY <2>9, <2>11, <3>2, <3>3 DEF Reads
  <2>12. QED
    BY <2>4, <2>10, <2>11
<1>2. ASSUME ClusterInv, [ClusterNext]_clusterVars
      PROVE  [\A r \in Req : Introspected(r) /\ Errs(r) =>
                \/ Lagging(req[r].tok)
                \/ req[r].tok \in lost]_clusterVars
  BY <1>1, <1>2
<1>3. QED
  BY <1>2, ClusterInvariance, PTL DEF ClusterSpec, ErrsOnlyWhileLagging
=============================================================================
