----------------------------- MODULE HubProofs -----------------------------
(***************************************************************************)
(* The proofs about the hub, for every number of logins and requests under *)
(* way and every configuration.  What was proved of the login pipeline and *)
(* of the token service holds of them within the hub; the rest is about    *)
(* what crosses from the one to the other.                                 *)
(***************************************************************************)
EXTENDS HubProps, TokenLifeProofs

\* The theorems about the login pipeline, whose slots are those of the hub.
AP == INSTANCE AcsProofs WITH Login <- Desk

(***************************************************************************)
(* The assumptions of the login pipeline hold of the hub's constants, and  *)
(* its operators are the hub's, by whichever of the three names they go.   *)
(***************************************************************************)

\* What the login pipeline assumes of its constants.
LEMMA PipelineAssumptions ==
  AP!ConfigAssumption /\ AP!MissingAssumption /\ AP!LoginConfigAssumption
<1>1. AP!ConfigAssumption
  BY ConfigAssumption DEF AP!ConfigAssumption
<1>2. AP!MissingAssumption
  BY MissingAssumption DEF UserShape, AP!MissingAssumption, AP!UserShape
<1>3. AP!LoginConfigAssumption
  BY HubAssumption, ModeAssumption DEF AP!LoginConfigAssumption
<1>4. QED
  BY <1>1, <1>2, <1>3

\* Users, and the assertions they are made from.
LEMMA SameShapes ==
  /\ A!UserShape = UserShape /\ AP!UserShape = UserShape
  /\ A!Assertion = AP!Assertion
  /\ A!LoginRecord = AP!LoginRecord
<1>1. A!UserShape = UserShape /\ AP!UserShape = UserShape
  BY DEF UserShape, A!UserShape, AP!UserShape
<1>2. A!Assertion = AP!Assertion
  BY DEF A!Assertion, AP!Assertion
<1>3. A!Result = AP!Result
  BY <1>1 DEF A!Result, AP!Result
<1>4. QED
  BY <1>1, <1>2, <1>3 DEF A!LoginRecord, AP!LoginRecord

\* The codecs.
LEMMA SameCodecs ==
  ASSUME NEW u
  PROVE  /\ A!Issuable(u) <=> Issuable(u)
         /\ AP!Issuable(u) <=> Issuable(u)
         /\ AP!IsTokenUser(u) <=> A!IsTokenUser(u)
         /\ AP!IsTokenUserL2(u) <=> A!IsTokenUserL2(u)
<1>1. A!Issuable(u) <=> Issuable(u)
  BY DEF A!Issuable, Issuable, A!IsTokenUserL2, IsTokenUserL2, A!IsTokenUser,
     IsTokenUser, A!IsCommonTokenUser, IsCommonTokenUser, A!IsUserCompany,
     IsUserCompany
<1>2. AP!Issuable(u) <=> Issuable(u)
  BY DEF AP!Issuable, Issuable, AP!IsTokenUserL2, IsTokenUserL2,
     AP!IsTokenUser, IsTokenUser, AP!IsCommonTokenUser, IsCommonTokenUser,
     AP!IsUserCompany, IsUserCompany
<1>3. AP!IsTokenUser(u) <=> A!IsTokenUser(u)
  BY DEF AP!IsTokenUser, A!IsTokenUser, AP!IsCommonTokenUser,
     A!IsCommonTokenUser, AP!IsUserCompany, A!IsUserCompany
<1>4. AP!IsTokenUserL2(u) <=> A!IsTokenUserL2(u)
  BY DEF AP!IsTokenUserL2, A!IsTokenUserL2, AP!IsCommonTokenUser,
     A!IsCommonTokenUser, AP!IsUserCompany, A!IsUserCompany
<1>5. QED
  BY <1>1, <1>2, <1>3, <1>4

\* The user of an assertion, and the user of a token.
LEMMA SameUsers ==
  ASSUME NEW u
  PROVE  /\ AP!ToCommonTokenUser(u) = A!ToCommonTokenUser(u)
         /\ AP!TokenUserOf(u) = A!TokenUserOf(u)
<1>1. AP!ToCommonTokenUser(u) = A!ToCommonTokenUser(u)
  BY DEF AP!ToCommonTokenUser, A!ToCommonTokenUser, A!FiscalNumber,
     AP!FiscalNumber, A!StripPrefix, AP!StripPrefix, A!SpidLevelOf,
     AP!SpidLevelOf
<1>2. AP!TokenUserOf(u) = A!TokenUserOf(u)
  BY DEF AP!TokenUserOf, A!TokenUserOf, AP!IsTokenUserL2, A!IsTokenUserL2,
     AP!IsTokenUser, A!IsTokenUser, AP!IsCommonTokenUser,
     A!IsCommonTokenUser, AP!IsUserCompany, A!IsUserCompany,
     AP!DecodeTokenUser, A!DecodeTokenUser, AP!DecodeTokenUserL2,
     A!DecodeTokenUserL2, A!WithDefaultLevel, AP!WithDefaultLevel,
     A!ToTokenUserL2, AP!ToTokenUserL2
<1>3. QED
  BY <1>1, <1>2

\* The records that the steps make of a login.
LEMMA SameRecords ==
  ASSUME NEW g, NEW u, NEW status
  PROVE  /\ AP!Refused(g, status) = A!Refused(g, status)
         /\ AP!WithUser(g, u) = A!WithUser(g, u)
         /\ AP!WithCompanies(g, u) = A!WithCompanies(g, u)
         /\ AP!WithAssertion(g, u) = A!WithAssertion(g, u)
<1>1. \A s : AP!Refused(g, s) = A!Refused(g, s)
  BY DEF AP!Refused, A!Refused, A!NoResult, AP!NoResult
<1>2. AP!WithUser(g, u) = A!WithUser(g, u)
  <2>1. AP!TokenUserOf(u) = A!TokenUserOf(u)
    BY SameUsers
  <2>2. QED
    BY <1>1, <2>1 DEF AP!WithUser, A!WithUser
<1>3. AP!WithCompanies(g, u) = A!WithCompanies(g, u)
  BY <1>2 DEF AP!WithCompanies, A!WithCompanies
<1>4. AP!WithAssertion(g, u) = A!WithAssertion(g, u)
  BY <1>3 DEF AP!WithAssertion, A!WithAssertion
<1>5. QED
  BY <1>1, <1>2, <1>3, <1>4

\* The redirect at the end of a login.
LEMMA SameRedirect ==
  ASSUME NEW g, NEW jti
  PROVE  AP!Redirected(g, jti) = A!Redirected(g, jti) /\ AP!Jtis = A!Jtis
<1>1. \A v : AP!SuccessPath(v) = A!SuccessPath(v)
  BY SameCodecs DEF AP!SuccessPath, A!SuccessPath
<1>2. \A v : AP!GetTokenExpiration(v) = A!GetTokenExpiration(v)
  BY SameCodecs DEF AP!GetTokenExpiration, A!GetTokenExpiration
<1>3. AP!Jtis = A!Jtis
  BY DEF AP!Jtis, A!Jtis, AP!JWT_TOKEN_JTI_SPID, A!JWT_TOKEN_JTI_SPID
<1>4. QED
  BY <1>1, <1>2, <1>3 DEF AP!Redirected, A!Redirected

\* The steps of a login.
LEMMA SameSteps ==
  ASSUME NEW l, NEW x
  PROVE  /\ A!Start(l, x) => AP!Start(l, x)
         /\ A!AuthorityRefuses(l) => AP!AuthorityRefuses(l)
         /\ A!AuthoritySends(l, x) => AP!AuthoritySends(l, x)
         /\ A!RegistryReplies(l) => AP!RegistryReplies(l)
         /\ A!TokenReplies(l) => AP!TokenReplies(l)
         /\ A!Crash(l) => AP!Crash(l)
<1>1. A!Start(l, x) => AP!Start(l, x)
  <2>1. A!NoLogin = AP!NoLogin
    BY DEF A!NoLogin, AP!NoLogin, A!NoResult, AP!NoResult
  <2>2. /\ A!ToCommonTokenUser(x) = AP!ToCommonTokenUser(x)
        /\ \A g : A!Refused(g, 500) = AP!Refused(g, 500)
        /\ \A g, u : A!WithAssertion(g, u) = AP!WithAssertion(g, u)
    BY SameRecords, SameUsers
  <2>3. QED
    BY <2>1, <2>2 DEF AP!Start, A!Start
<1>2. \A s : A!Failed(l, s) => AP!Failed(l, s)
  BY SameRecords DEF A!Failed, AP!Failed
<1>3. A!AuthorityRefuses(l) => AP!AuthorityRefuses(l)
  BY <1>2 DEF A!AuthorityRefuses, AP!AuthorityRefuses
<1>4. A!AuthoritySends(l, x) => AP!AuthoritySends(l, x)
  BY <1>2, SameRecords DEF A!AuthoritySends, AP!AuthoritySends
<1>5. A!RegistryReplies(l) => AP!RegistryReplies(l)
  BY <1>2, SameRecords DEF A!RegistryReplies, AP!RegistryReplies
<1>6. A!TokenReplies(l) => AP!TokenReplies(l)
  BY <1>2, SameRedirect DEF A!TokenReplies, AP!TokenReplies
<1>7. A!Crash(l) => AP!Crash(l)
  BY DEF A!Crash, AP!Crash, A!NoLogin, AP!NoLogin, A!NoResult, AP!NoResult
<1>8. QED
  BY <1>1, <1>3, <1>4, <1>5, <1>6, <1>7

\* What is known of a login is the same under both names, before and after a step.
LEMMA SameInvariant == (A!AcsInv <=> AP!AcsInv) /\ (A!AcsInv' <=> AP!AcsInv')
<1>1. /\ \A u : A!Issuable(u) <=> AP!Issuable(u)
      /\ \A u : A!SuccessPath(u) = AP!SuccessPath(u)
      /\ \A u : A!GetTokenExpiration(u) = AP!GetTokenExpiration(u)
  BY SameCodecs DEF AP!SuccessPath, A!SuccessPath, AP!GetTokenExpiration,
     A!GetTokenExpiration
<1>2. \A u, a : A!Speaks(u, a) <=> AP!Speaks(u, a)
  BY DEF A!Speaks, AP!Speaks, A!SpidLevelOf, AP!SpidLevelOf
<1>3. \A u : (A!Cleared(u) <=> AP!Cleared(u)) /\ (A!Gathered(u) <=> AP!Gathered(u))
  BY <1>1 DEF A!Cleared, AP!Cleared, A!Gathered, AP!Gathered, A!Vouched, AP!Vouched
<1>4. \A u : (A!Cleared(u)' <=> AP!Cleared(u)') /\ (A!Gathered(u)' <=> AP!Gathered(u)')
  BY <1>1 DEF A!Cleared, AP!Cleared, A!Gathered, AP!Gathered, A!Vouched, AP!Vouched
<1>5. \A g : /\ A!Known(g) <=> AP!Known(g)
             /\ A!IssuedSoundly(g) <=> AP!IssuedSoundly(g)
  BY <1>1, <1>2, <1>3, SameShapes DEF A!Known, AP!Known, A!IssuedSoundly, AP!IssuedSoundly
<1>6. \A g : /\ A!Known(g)' <=> AP!Known(g)'
             /\ A!IssuedSoundly(g)' <=> AP!IssuedSoundly(g)'
  BY <1>1, <1>2, <1>4, SameShapes DEF A!Known, AP!Known, A!IssuedSoundly, AP!IssuedSoundly
<1>7. A!AcsInv <=> AP!AcsInv
  BY <1>5, SameShapes DEF A!AcsInv, AP!AcsInv, A!TypeOK, AP!TypeOK,
     A!OnlyVouchedAreRegistered, AP!OnlyVouchedAreRegistered
<1>8. A!AcsInv' <=> AP!AcsInv'
  BY <1>6, SameShapes DEF A!AcsInv, AP!AcsInv, A!TypeOK, AP!TypeOK,
     A!OnlyVouchedAreRegistered, AP!OnlyVouchedAreRegistered
<1>9. QED
  BY <1>7, <1>8

\* What the hub does with its logins is what the login pipeline may do.
LEMMA HubIsPipeline == [HubNext]_hubVars => [AP!Next]_(AP!vars)
<1> SUFFICES ASSUME [HubNext]_hubVars
             PROVE  [AP!Next]_(AP!vars)
  OBVIOUS
<1>1. ASSUME NEW l \in Desk, LoginStarts(l)
      PROVE  AP!Next
  <2>1. PICK a \in Asserted : A!Start(l, a)
    BY <1>1 DEF LoginStarts
  <2>2. a \in AP!Assertion
    BY HubAssumption, SameShapes
  <2>3. AP!Start(l, a)
    BY <2>1, SameSteps
  <2>4. QED
    BY <2>2, <2>3 DEF AP!Next
<1>2. ASSUME NEW l \in Desk, LoginContinues(l)
      PROVE  AP!Next
  <2>1. CASE A!AuthorityRefuses(l) \/ A!RegistryReplies(l) \/ A!TokenReplies(l)
    <3>1. AP!AuthorityRefuses(l) \/ AP!RegistryReplies(l) \/ AP!TokenReplies(l)
      BY <2>1, SameSteps
    <3>2. QED
      BY <3>1 DEF AP!Next, AP!Continue
  <2>2. CASE \E companies \in CompanyReply : A!AuthoritySends(l, companies)
    <3>1. \E companies \in CompanyReply : AP!AuthoritySends(l, companies)
      BY <2>2, SameSteps
    <3>2. QED
      BY <3>1 DEF AP!Next, AP!Continue
  <2>3. QED
    BY <1>2, <2>1, <2>2
       DEF LoginContinues, AuthorityReplies, RegistryReplies, TokenReplies
<1>3. ASSUME NEW l \in Desk, LoginCrashes(l)
      PROVE  AP!Next
  <2>1. AP!Crash(l)
    BY <1>3, SameSteps DEF LoginCrashes
  <2>2. QED
    BY <2>1 DEF AP!Next
<1>4. ASSUME UNCHANGED acsVars
      PROVE  UNCHANGED AP!vars
  BY <1>4 DEF acsVars, AP!vars
<1>5. QED
  BY <1>1, <1>2, <1>3, <1>4 DEF HubNext, ClientStep, hubVars

\* So the pipeline's invariant holds within the hub.
LEMMA HubKeepsAcsInv ==
  ASSUME A!AcsInv, [HubNext]_hubVars
  PROVE  A!AcsInv'
<1>1. AP!AcsInv /\ [AP!Next]_(AP!vars)
  BY SameInvariant, HubIsPipeline
<1>2. AP!AcsInv'
  BY <1>1, PipelineAssumptions, AP!StepAcsInv
<1>3. QED
  BY <1>2, SameInvariant

-----------------------------------------------------------------------------
(***************************************************************************)
(* What the hub does with its requests is what the token service may do,   *)
(* for users that the service could be asked a token for.                  *)
(***************************************************************************)

\* A login that asks for a token knows its user.
LEMMA KnownUser ==
  ASSUME A!AcsInv', NEW l \in Desk, login'[l].pc = "token",
         NEW u, u = login'[l].user
  PROVE  /\ u \in UserShape
         /\ Issuable(u)
         /\ WentThroughAll(u)'
<1>1. PICK g : g = login'[l]
  OBVIOUS
<1>2. A!Known(g)'
  BY <1>1 DEF A!AcsInv, A!Known, A!Gathered, A!Vouched, A!Cleared
<1>3. u \in A!UserShape /\ A!Cleared(u)'
  BY <1>1, <1>2 DEF A!Known
<1>4. A!Issuable(u) /\ WentThroughAll(u)'
  BY <1>3 DEF A!Cleared, A!Vouched, WentThroughAll
<1>5. QED
  BY <1>3, <1>4, SameCodecs, SameShapes

\* The step of the service in which a login asks for its token.
AsksFor(u) == \E l \in Req : GetGenerateToken(l, u)

\* Every step of the hub is a step of the token service, with logins for any user
\* that may be issued a token.
LEMMA HubIsService ==
  ASSUME A!AcsInv, [HubNext]_hubVars
  PROVE  [Next]_vars \/ \E u \in UserShape : Issuable(u) /\ AsksFor(u)
<1>1. A!AcsInv' /\ Desk \subseteq Req
  BY HubKeepsAcsInv, HubAssumption
<1>2. ASSUME NEW l \in Desk, TokenAsked(l)
      PROVE  UNCHANGED vars \/ \E u \in UserShape : Issuable(u) /\ AsksFor(u)
  <2>1. CASE login'[l].pc = "token"
    <3>1. PICK u : u = login'[l].user
      OBVIOUS
    <3>2. u \in UserShape /\ Issuable(u)
      BY <1>1, <2>1, <3>1, KnownUser
    <3>3. GetGenerateToken(l, u)
      BY <1>2, <2>1, <3>1 DEF TokenAsked
    <3>4. QED
      BY <1>1, <3>2, <3>3 DEF AsksFor
  <2>2. QED
    BY <1>2, <2>1 DEF TokenAsked
<1>3. ASSUME NEW l \in Desk, TokenReplies(l)
      PROVE  Next
  BY <1>1, <1>3 DEF TokenReplies, Next, Continue
<1>4. ASSUME NEW l \in Desk, LoginCrashes(l)
      PROVE  [Next]_vars
  <2>1. {l} \in (SUBSET Req) \ {{}}
    BY <1>1
  <2>2. QED
    BY <1>4, <2>1 DEF LoginCrashes, Next
<1>5. ASSUME NEW r \in Req \ Desk, ClientStep(r)
      PROVE  Next
  <2>1. {r} \in (SUBSET Req) \ {{}}
    OBVIOUS
  <2>2. QED
    BY <1>5, <2>1 DEF ClientStep, Next, Start
<1>6. CASE Tick
  BY <1>6 DEF Next
<1>7. CASE UNCHANGED hubVars
  BY <1>7 DEF hubVars
<1>8. QED
  BY <1>2, <1>3, <1>4, <1>5, <1>6, <1>7
     DEF HubNext, LoginStarts, LoginContinues, AuthorityReplies, RegistryReplies

\* So the service's invariants hold within the hub, whatever LoginUser is.
LEMMA HubKeepsServiceInv ==
  ASSUME IInv, LifeInv, A!AcsInv, [HubNext]_hubVars
  PROVE  IInv' /\ LifeInv'
<1>1. CASE [Next]_vars
  BY <1>1, StepIInv, StepLifeInv
<1>2. CASE \E u \in UserShape : Issuable(u) /\ AsksFor(u)
  BY <1>2, StepLogin, LifeLogin DEF AsksFor
<1>3. QED
  BY <1>1, <1>2, HubIsService

-----------------------------------------------------------------------------
(***************************************************************************)
(* What the services said is not forgotten.                                *)
(***************************************************************************)
ServicesRemember ==
  vouched \subseteq vouched' /\ registry \subseteq registry' /\ mandates \subseteq mandates'

\* No step takes back what the authority sent or the registry saved.
LEMMA HubRemembers ==
  ASSUME [HubNext]_hubVars
  PROVE  ServicesRemember
BY DEF HubNext, hubVars, acsVars, LoginStarts, LoginContinues, LoginCrashes,
       ClientStep, AuthorityReplies, RegistryReplies, TokenReplies, A!Start,
       A!AuthorityRefuses, A!AuthoritySends, A!RegistryReplies,
       A!TokenReplies, A!Crash, ServicesRemember

\* What was true of a user, a login or a request because of them stays true.
LEMMA MandatesStay ==
  ASSUME ServicesRemember, NEW u
  PROVE  /\ Mandated(u) => Mandated(u)'
         /\ WentThroughAll(u) => WentThroughAll(u)'
         /\ LoginMandated(u) => LoginMandated(u)'
         /\ RequestMandated(u) => RequestMandated(u)'
<1>1. Mandated(u) => Mandated(u)'
  BY DEF ServicesRemember, Mandated
<1>2. WentThroughAll(u) => WentThroughAll(u)'
  BY DEF ServicesRemember, WentThroughAll
<1>3. \A v : Mandated(v) => Mandated(v)'
  BY DEF ServicesRemember, Mandated
<1>4. \A v : WentThroughAll(v) => WentThroughAll(v)'
  BY DEF ServicesRemember, WentThroughAll
<1>5. LoginMandated(u) => LoginMandated(u)'
  BY <1>3 DEF ServicesRemember, LoginMandated
<1>6. RequestMandated(u) => RequestMandated(u)'
  BY <1>3, <1>4 DEF RequestMandated
<1>7. QED
  BY <1>1, <1>2, <1>5, <1>6

-----------------------------------------------------------------------------
(***************************************************************************)
(* Where tokens, and the requests to mint them, come from.                 *)
(***************************************************************************)

\* A token is new with the user of a request to mint it, or as it was.
LEMMA WhatIsMinted ==
  ASSUME IInv, LifeInv, [Next]_vars \/ \E u : AsksFor(u), NEW t \in minted'
  PROVE  \/ t \in minted /\ claims'[t] = claims[t]
         \/ \E r \in Req : req[r].pc = "mint" /\ claims'[t].user = req[r].user
<1>1. CASE UNCHANGED tokens
  BY <1>1 DEF tokens
<1>2. ASSUME NEW r \in Req, NEW n \in Token \ minted,
             req[r].pc = "mint", Generated(r, n)
      PROVE  \/ t \in minted /\ claims'[t] = claims[t]
             \/ \E x \in Req : req[x].pc = "mint" /\ claims'[t].user = req[x].user
  BY <1>2, GeneratedIsSound DEF MintedGrows
<1>3. ASSUME NEW r \in Req, MintJwt(r) \/ MintSession(r)
      PROVE  \/ UNCHANGED tokens
             \/ \E n \in Token \ minted : req[r].pc = "mint" /\ Generated(r, n)
  BY <1>3 DEF MintJwt, MintSession, SessionTtl, NewToken
<1>4. UNCHANGED tokens \/ \E r \in Req : MintJwt(r) \/ MintSession(r)
  BY DEF Next, Start, ClientStart, Continue, AsksFor, vars, Introspect,
         Invalidate, UpgradeRejected, UpgradeSession, UpgradeJwt,
         GetGenerateToken, IntrospectChecked, IntrospectRead, UpgradeLoad,
         InvalidateBlacklist, InvalidateDelete, Tick, Crash
<1>5. QED
  BY <1>1, <1>2, <1>3, <1>4

\* An answer is no request to mint.
LEMMA AnswersMintNothing ==
  ASSUME NEW q, NEW res
  PROVE  Answered(q, res).pc # "mint"
BY DEF Answered, Idle

\* The steps in which no login asks for its token.
ServiceOnly ==
  \/ \E r \in Req : ClientStart(r) \/ Continue(r)
  \/ \E served : Crash(served)
  \/ Tick
  \/ UNCHANGED vars

\* Of these the service takes all by itself but the one in which a login asks for
\* its token.
LEMMA HubSteps ==
  ASSUME [HubNext]_hubVars
  PROVE  \/ ServiceOnly
         \/ \E l \in Desk : login'[l].pc = "token"
                            /\ GetGenerateToken(l, login'[l].user)
BY HubAssumption
   DEF HubNext, hubVars, LoginStarts, LoginContinues, LoginCrashes, ClientStep,
       AuthorityReplies, RegistryReplies, TokenReplies, TokenAsked, ServiceOnly,
       Continue

\* The requests to mint for no earlier token are the logins'; an upgrade has one.
LEMMA WhoMints ==
  ASSUME IInv, ServiceOnly, NEW x \in Req,
         req'[x].pc = "mint", req'[x].tok = Missing
  PROVE  req'[x] = req[x]
<1>1. req \in [Req -> Request] /\ \A r \in Req : RequestOK(req[r])
  BY DEF IInv, TypeOK
<1>2. ASSUME NEW r \in Req, NEW q, req' = [req EXCEPT ![r] = q], q.pc # "mint"
      PROVE  req'[x] = req[x]
  BY <1>1, <1>2
<1>3. ASSUME NEW r \in Req, NEW res, Answer(r, res)
      PROVE  req'[x] = req[x]
  BY <1>2, <1>3, AnswersMintNothing DEF Answer
<1>4. ASSUME NEW r \in Req, NEW q \in Request, q.tok # Missing,
             NEW raw \in UserShape, req' = [req EXCEPT ![r] = Upgraded(q, raw)]
      PROVE  req'[x] = req[x]
  BY <1>1, <1>4, UpgradedIsRequest
<1>5. ASSUME NEW op, NEW tok, NEW r \in Req, NEW pc, pc # "mint"
      PROVE  Begun(op, pc, tok).pc # "mint"
  BY <1>5 DEF Begun, Idle
<1>6. ASSUME NEW r \in Req, ClientStart(r)
      PROVE  req'[x] = req[x]
  <2>1. CASE \E t \in Sendable : Introspect(r, t) \/ Invalidate(r, t)
    BY <1>2, <1>5, <2>1, AnswersMintNothing DEF Introspect, Invalidate
  <2>2. CASE UpgradeRejected(r)
    BY <1>2, <2>2, AnswersMintNothing DEF UpgradeRejected
  <2>3. CASE \E t \in Sendable, org \in OrgCode, inHeader \in BOOLEAN :
               UpgradeSession(r, t, org, inHeader)
    <3>1. PICK t \in Sendable, org \in OrgCode, inHeader \in BOOLEAN :
            UpgradeSession(r, t, org, inHeader)
      BY <2>3
    <3>2. PICK q : q = [Begun("upgrade", "load", t)
                          EXCEPT !.header = inHeader, !.org = org]
      OBVIOUS
    <3>3. q.pc = "load"
      BY <3>2 DEF Begun, Idle
    <3>4. QED
      BY <1>2, <3>1, <3>2, <3>3 DEF UpgradeSession
  <2>4. CASE \E t \in handed, org \in OrgCode : UpgradeJwt(r, t, org)
    <3>1. PICK t \in handed, org \in OrgCode : UpgradeJwt(r, t, org)
      BY <2>4
    <3>2. t \in Token /\ t # Missing /\ claims[t].user \in UserShape
      BY TokenAssumption DEF IInv, TypeOK, MintedClaims
    <3>3. PICK b \in Request : b = Begun("upgrade", "load", t) /\ b.tok = t
      BY <3>2, BegunIsRequest DEF TokenStr
    <3>4. PICK q : q = [b EXCEPT !.header = TRUE, !.org = org]
      OBVIOUS
    <3>5. q \in Request /\ q.tok = t
      BY <3>3, <3>4 DEF Request
    <3>6. req' = [req EXCEPT ![r] = Upgraded(q, claims[t].user)]
      BY <3>1, <3>3, <3>4 DEF UpgradeJwt
    <3>7. QED
      BY <1>4, <3>2, <3>5, <3>6
  <2>5. QED
    BY <1>6, <2>1, <2>2, <2>3, <2>4 DEF ClientStart
<1>7. ASSUME NEW r \in Req, Continue(r)
      PROVE  req'[x] = req[x]
  <2>1. CASE IntrospectChecked(r)
    <3>1. (\E res : Answer(r, res)) \/ Goto(r, "get")
      BY <2>1 DEF IntrospectChecked
    <3>2. CASE Goto(r, "get")
      BY <1>1, <3>2 DEF Goto, Request
    <3>3. QED
      BY <1>3, <3>1, <3>2
  <2>2. CASE IntrospectRead(r) \/ InvalidateBlacklist(r) \/ InvalidateDelete(r)
    BY <1>3, <2>2 DEF IntrospectRead, InvalidateBlacklist, InvalidateDelete,
                      InvalidateAnswer
  <2>3. CASE UpgradeLoad(r)
    <3>1. PICK raw : raw = Get(session, req[r].tok, now)
      OBVIOUS
    <3>2. \/ \E res : Answer(r, res)
          \/ raw # Missing /\ req' = [req EXCEPT ![r] = Upgraded(req[r], raw)]
      BY <2>3, <3>1 DEF UpgradeLoad
    <3>3. req[r].tok \in TokenStr /\ req[r].tok # Missing
      BY <1>1, <2>3, TokenAssumption DEF UpgradeLoad, RequestOK, Awaiting, TokenStr
    <3>4. raw # Missing => raw \in UserShape
      BY <3>1, <3>3 DEF Get, IsLive, IInv, TypeOK, UserOrNone
    <3>5. QED
      BY <1>1, <1>3, <1>4, <3>2, <3>3, <3>4
  <2>4. CASE MintJwt(r) \/ MintSession(r)
    BY <1>3, <2>4 DEF MintJwt, MintSession, HandOver
  <2>5. QED
    BY <1>7, <2>1, <2>2, <2>3, <2>4 DEF Continue
<1>8. ASSUME NEW served, Crash(served)
      PROVE  req'[x] = req[x]
  BY <1>8 DEF Crash, Idle
<1>9. QED
  BY <1>6, <1>7, <1>8 DEF ServiceOnly, Tick, vars

-----------------------------------------------------------------------------
(***************************************************************************)
(* What a login has in its hands after each of its steps.                  *)
(***************************************************************************)

\* The user of a token acts for companies that the authority sent, and for one at
\* least: for the only one, or for the choice among all.
LEMMA MandatedToken ==
  ASSUME ENABLE_ADE_AA, NEW u \in UserShape, u.from_aa = ENABLE_ADE_AA,
         u.level = Missing, u.companies \in Seq(Company) \ {<<>>},
         u.company = Missing,
         \A c \in ToSet(u.companies) : <<u.fiscal_number, c>> \in mandates',
         NEW t, t = A!TokenUserOf(u), t # Missing
  PROVE  Mandated(t)'
<1>1. AP!TokenUserOf(u) = t /\ u \in AP!UserShape
  BY SameUsers, SameShapes
<1>2. /\ t \in UserShape
      /\ t.fiscal_number = u.fiscal_number
      /\ Issuable(t)
      /\ t.level = IF ENABLE_ADE_AA /\ t.companies # Missing THEN "L1" ELSE "L2"
      /\ IF t.companies = Missing THEN t.company \in ToSet(u.companies)
         ELSE t.companies = u.companies /\ t.company = u.company
  <2>1. /\ u \in AP!UserShape /\ AP!TokenUserOf(u) # Missing
        /\ ENABLE_ADE_AA => u.companies \in Seq(Company) \ {<<>>}
    BY <1>1
  <2>2. /\ AP!TokenUserOf(u) \in AP!UserShape
        /\ AP!TokenUserOf(u).fiscal_number = u.fiscal_number
        /\ AP!Issuable(AP!TokenUserOf(u))
        /\ AP!TokenUserOf(u).level =
             IF ENABLE_ADE_AA /\ AP!TokenUserOf(u).companies # Missing
             THEN "L1" ELSE "L2"
        /\ IF AP!TokenUserOf(u).companies = Missing
           THEN AP!TokenUserOf(u).company \in AP!ToSet(u.companies)
           ELSE /\ AP!TokenUserOf(u).companies = u.companies
                /\ AP!TokenUserOf(u).company = u.company
    BY <2>1, PipelineAssumptions, AP!UserOfToken, Zenon
  <2>3. AP!ToSet(u.companies) = ToSet(u.companies)
    BY DEF AP!ToSet, ToSet
  <2>4. QED
    BY <1>1, <2>2, <2>3, SameCodecs, SameShapes
<1>3. CASE t.companies = Missing
  <2>1. t.level = "L2" /\ t.from_aa
    BY <1>2, <1>3 DEF Issuable
  <2>2. IsTokenUserL2(t)
    BY <1>2, <2>1 DEF Issuable, IsTokenUser
  <2>3. IsUserCompany(t.company) /\ CompaniesOf(t) = {t.company}
    BY <1>3, <2>1, <2>2 DEF IsTokenUserL2, IsUserCompany, CompaniesOf
  <2>4. QED
    BY <1>2, <1>3, <2>3 DEF Mandated
<1>4. CASE t.companies # Missing
  <2>1. t.level = "L1" /\ t.from_aa
    BY <1>2, <1>4 DEF Issuable
  <2>2. IsTokenUser(t)
    BY <1>2, <2>1 DEF Issuable, IsTokenUserL2
  <2>3. CompaniesOf(t) = ToSet(u.companies)
    BY <1>2, <1>4 DEF CompaniesOf
  <2>4. u.companies[1] \in ToSet(u.companies)
    BY DEF ToSet
  <2>5. \A c \in ToSet(u.companies) : IsUserCompany(c)
    BY <1>2, <1>4, <2>1, <2>2 DEF IsTokenUser, ToSet
  <2>6. QED
    BY <1>2, <2>3, <2>4, <2>5 DEF Mandated
<1>5. QED
  BY <1>3, <1>4

\* What is gathered of a user's companies, before a step and after it.
CompaniesGathered(u) ==
  ENABLE_ADE_AA =>
    /\ u.from_aa = ENABLE_ADE_AA
    /\ u.level = Missing
    /\ u.companies \in Seq(Company) \ {<<>>}
    /\ u.company = Missing
    /\ \A c \in ToSet(u.companies) : <<u.fiscal_number, c>> \in mandates

\* A login that failed has nothing in its hands.
LEMMA RefusedMandates ==
  ASSUME NEW g \in A!LoginRecord, NEW status
  PROVE  /\ LoginMandated(A!Refused(g, status))'
         /\ A!Refused(g, status).pc = "done"
         /\ A!Refused(g, status).res.status = status
<1>1. PICK h : h = A!Refused(g, status)
  OBVIOUS
<1>2. h.pc = "done" /\ h.res = [A!NoResult EXCEPT !.status = status]
  BY <1>1 DEF A!Refused, A!LoginRecord
<1>3. h.res.status = status
  BY <1>2 DEF A!NoResult
<1>4. LoginMandated(h)'
  BY <1>2 DEF LoginMandated
<1>5. QED
  BY <1>1, <1>2, <1>3, <1>4

\* A user with all that was gathered is fit for a token, or refused.
LEMMA MandatedWithUser ==
  ASSUME NEW g \in A!LoginRecord, NEW u \in UserShape, CompaniesGathered(u)',
         NEW h, h = A!WithUser(g, u)
  PROVE  /\ LoginMandated(h)'
         /\ h.res.status \in {500, g.res.status}
         /\ h.pc \in {"token", "done"}
<1>1. CASE A!TokenUserOf(u) = Missing
  BY <1>1, RefusedMandates DEF A!WithUser
<1>2. CASE A!TokenUserOf(u) # Missing
  <2>1. PICK t : t = A!TokenUserOf(u)
    OBVIOUS
  <2>2. ENABLE_ADE_AA => Mandated(t)'
    BY <1>2, <2>1, MandatedToken DEF CompaniesGathered
  <2>3. h = [g EXCEPT !.pc = "token", !.user = t]
    BY <1>2, <2>1 DEF A!WithUser
  <2>4. h.pc = "token" /\ h.user = t /\ h.res = g.res
    BY <2>3 DEF A!LoginRecord
  <2>5. QED
    BY <2>2, <2>4 DEF LoginMandated
<1>3. QED
  BY <1>1, <1>2

\* ... or goes to the registry first.
LEMMA MandatedWithCompanies ==
  ASSUME NEW g \in A!LoginRecord, NEW u \in UserShape, CompaniesGathered(u)',
         NEW h, h = A!WithCompanies(g, u)
  PROVE  /\ LoginMandated(h)'
         /\ h.res.status \in {500, g.res.status}
<1>1. CASE ENABLE_USER_REGISTRY
  <2>1. h = [g EXCEPT !.pc = "registry", !.user = u]
    BY <1>1 DEF A!WithCompanies
  <2>2. h.pc = "registry" /\ h.user = u /\ h.res = g.res
    BY <2>1 DEF A!LoginRecord
  <2>3. QED
    BY <2>2 DEF LoginMandated, CompaniesGathered
<1>2. CASE ~ENABLE_USER_REGISTRY
  BY <1>2, MandatedWithUser DEF A!WithCompanies
<1>3. QED
  BY <1>1, <1>2

\* A login that begins has nothing, or the user of its assertion.
LEMMA MandatedStart ==
  ASSUME A!AcsInv, NEW l \in Desk, NEW a \in Asserted, A!Start(l, a)
  PROVE  /\ LoginMandated(login[l])'
         /\ login'[l].res.status # 301
<1>1. PICK record : record = [A!NoLogin EXCEPT !.assertion = a]
  OBVIOUS
<1>2. record \in A!LoginRecord /\ record.res.status = 0
  BY <1>1, HubAssumption
     DEF A!NoLogin, A!NoResult, A!LoginRecord, A!Result
<1>3. login \in [Desk -> A!LoginRecord]
  BY DEF A!AcsInv, A!TypeOK
<1>4. CASE A!ToCommonTokenUser(a) = Missing
  <2>1. PICK g : g = A!Refused(record, 500)
    OBVIOUS
  <2>2. login'[l] = g
    BY <1>1, <1>3, <1>4, <2>1 DEF A!Start
  <2>3. LoginMandated(g)' /\ g.res.status = 500
    BY <1>2, <2>1, RefusedMandates
  <2>4. QED
    BY <2>2, <2>3 DEF LoginMandated, Mandated
<1>5. CASE A!ToCommonTokenUser(a) # Missing
  <2>1. PICK u : u = A!ToCommonTokenUser(a)
    OBVIOUS
  <2>2. u.company = Missing /\ u.companies = Missing /\ u.level = Missing
    BY <1>5, <2>1 DEF A!ToCommonTokenUser
  <2>3. u \in UserShape
    <3>1. a \in AP!Assertion /\ u = AP!ToCommonTokenUser(a)
      BY <2>1, HubAssumption, SameShapes, SameUsers
    <3>2. AP!ToCommonTokenUser(a) # Missing
      BY <1>5, <2>1, <3>1
    <3>3. AP!ToCommonTokenUser(a) \in AP!UserShape
      BY <3>1, <3>2, PipelineAssumptions, AP!AssertedUser, Zenon
    <3>4. QED
      BY <3>1, <3>3, SameShapes
  <2>4. PICK g : g = A!WithAssertion(record, u)
    OBVIOUS
  <2>5. login'[l] = g
    BY <1>1, <1>3, <1>5, <2>1, <2>4 DEF A!Start
  <2>6. LoginMandated(g)' /\ g.res.status \in {0, 500}
    <3>1. CASE ENABLE_ADE_AA
      <4>1. g = [record EXCEPT !.pc = "authority", !.user = u]
        BY <2>4, <3>1 DEF A!WithAssertion
      <4>2. g.pc = "authority" /\ g.user = u /\ g.res = record.res
        BY <1>2, <4>1 DEF A!LoginRecord
      <4>3. QED
        BY <1>2, <2>2, <4>2 DEF LoginMandated
    <3>2. CASE ~ENABLE_ADE_AA
      <4>1. g = A!WithCompanies(record, u) /\ CompaniesGathered(u)'
        BY <2>4, <3>2 DEF A!WithAssertion, CompaniesGathered
      <4>2. QED
        BY <1>2, <2>3, <4>1, MandatedWithCompanies
    <3>3. QED
      BY <3>1, <3>2
  <2>7. QED
    BY <2>5, <2>6 DEF LoginMandated, Mandated
<1>6. QED
  BY <1>4, <1>5

\* The authority sends what the login then knows.
LEMMA MandatedAuthority ==
  ASSUME HubInv, NEW l \in Desk, AuthorityReplies(l)
  PROVE  /\ LoginMandated(login[l])'
         /\ login'[l].res.status # 301
<1>1. /\ login \in [Desk -> A!LoginRecord]
      /\ login[l].pc = "authority"
      /\ A!Known(login[l]) /\ LoginMandated(login[l])
      /\ login[l].res.status # 301
  BY DEF HubInv, A!AcsInv, A!TypeOK, Joined, AuthorityReplies,
         A!AuthorityRefuses, A!AuthoritySends
<1>2. PICK k \in A!LoginRecord : k = login[l]
  BY <1>1
<1>3. k.user \in UserShape /\ k.user.from_aa = ENABLE_ADE_AA /\ ENABLE_ADE_AA
        /\ k.user.level = Missing /\ k.user.company = Missing
  BY <1>1, <1>2, SameShapes DEF A!Known, LoginMandated
<1>4. ASSUME NEW status \in {403, 500}, A!Failed(l, status)
      PROVE  LoginMandated(login[l])' /\ login'[l].res.status # 301
  <2>1. PICK g : g = A!Refused(k, status)
    OBVIOUS
  <2>2. login'[l] = g
    BY <1>1, <1>2, <1>4, <2>1 DEF A!Failed
  <2>3. LoginMandated(g)' /\ g.res.status = status
    BY <2>1, RefusedMandates
  <2>4. QED
    BY <2>2, <2>3 DEF LoginMandated, Mandated
<1>5. ASSUME NEW companies \in CompanyReply, A!AuthoritySends(l, companies),
             companies # <<>>,
             mandates' = mandates \union
               {<<login[l].user.fiscal_number, c>> : c \in ToSet(companies)}
      PROVE  LoginMandated(login[l])' /\ login'[l].res.status # 301
  <2>1. PICK u : u = [k.user EXCEPT !.companies = companies]
    OBVIOUS
  <2>2. companies \in Seq(Company) \ {<<>>}
    BY <1>5, HubAssumption
  <2>3. /\ u \in UserShape
        /\ u.companies = companies
        /\ u.fiscal_number = k.user.fiscal_number
        /\ u.from_aa = k.user.from_aa
        /\ u.level = k.user.level
        /\ u.company = k.user.company
    BY <1>3, <2>1, <2>2 DEF UserShape
  <2>4. CompaniesGathered(u)'
    BY <1>2, <1>3, <1>5, <2>2, <2>3 DEF CompaniesGathered
  <2>5. PICK g : g = A!WithCompanies(k, u)
    OBVIOUS
  <2>6. login'[l] = g
    BY <1>1, <1>2, <1>5, <2>1, <2>5 DEF A!AuthoritySends
  <2>7. LoginMandated(g)' /\ g.res.status \in {500, k.res.status}
    BY <2>3, <2>4, <2>5, MandatedWithCompanies
  <2>8. QED
    BY <1>1, <1>2, <2>6, <2>7 DEF LoginMandated, Mandated
<1>6. QED
  BY <1>4, <1>5 DEF AuthorityReplies, A!AuthorityRefuses, A!AuthoritySends

\* The registry leaves the companies alone.
LEMMA MandatedRegistry ==
  ASSUME HubInv, NEW l \in Desk, RegistryReplies(l)
  PROVE  /\ LoginMandated(login[l])'
         /\ login'[l].res.status # 301
<1>1. /\ login \in [Desk -> A!LoginRecord]
      /\ login[l].pc = "registry"
      /\ A!Known(login[l]) /\ LoginMandated(login[l])
      /\ login[l].res.status # 301
      /\ A!RegistryReplies(l) /\ UNCHANGED mandates
  BY DEF HubInv, A!AcsInv, A!TypeOK, Joined, RegistryReplies, A!RegistryReplies
<1>2. PICK k \in A!LoginRecord : k = login[l]
  BY <1>1
<1>3. k.user \in UserShape /\ CompaniesGathered(k.user)
  BY <1>1, <1>2, SameShapes DEF A!Known, A!Gathered, LoginMandated,
                                CompaniesGathered
<1>4. ASSUME NEW status \in {400, 403, 500}, A!Failed(l, status)
      PROVE  LoginMandated(login[l])' /\ login'[l].res.status # 301
  <2>1. PICK g : g = A!Refused(k, status)
    OBVIOUS
  <2>2. login'[l] = g
    BY <1>1, <1>2, <1>4, <2>1 DEF A!Failed
  <2>3. LoginMandated(g)' /\ g.res.status = status
    BY <2>1, RefusedMandates
  <2>4. QED
    BY <2>2, <2>3 DEF LoginMandated, Mandated
<1>5. ASSUME NEW u, u = [k.user EXCEPT !.uid = k.user.fiscal_number],
             login' = [login EXCEPT ![l] = A!WithUser(k, u)]
      PROVE  LoginMandated(login[l])' /\ login'[l].res.status # 301
  <2>1. /\ u \in UserShape
        /\ u.companies = k.user.companies
        /\ u.fiscal_number = k.user.fiscal_number
        /\ u.from_aa = k.user.from_aa
        /\ u.level = k.user.level
        /\ u.company = k.user.company
    BY <1>3, <1>5 DEF UserShape
  <2>2. CompaniesGathered(u)'
    BY <1>1, <1>3, <2>1 DEF CompaniesGathered
  <2>3. PICK g : g = A!WithUser(k, u)
    OBVIOUS
  <2>4. login'[l] = g
    BY <1>1, <1>5, <2>3
  <2>5. LoginMandated(g)' /\ g.res.status \in {500, k.res.status}
    BY <2>1, <2>2, <2>3, MandatedWithUser
  <2>6. QED
    BY <1>1, <1>2, <2>4, <2>5 DEF LoginMandated, Mandated
<1>6. QED
  BY <1>1, <1>2, <1>4, <1>5 DEF A!RegistryReplies

-----------------------------------------------------------------------------
(***************************************************************************)
(* A login and the request for its token.                                  *)
(***************************************************************************)

\* Tokens are never minted anew, nor taken back.
LEMMA TokensStay ==
  ASSUME IInv, LifeInv, [Next]_vars \/ \E u : AsksFor(u)
  PROVE  MintedGrows /\ handed \subseteq handed'
<1>1. CASE UNCHANGED tokens
  BY <1>1 DEF tokens, MintedGrows
<1>2. ASSUME NEW r \in Req, MintJwt(r) \/ MintSession(r)
      PROVE  MintedGrows /\ handed \subseteq handed'
  <2>1. CASE UNCHANGED tokens
    BY <1>1, <2>1
  <2>2. ASSUME NEW t \in Token \ minted, req[r].pc = "mint", Generated(r, t)
        PROVE  MintedGrows
    BY <2>2, GeneratedIsSound
  <2>3. handed \subseteq handed'
    BY <1>2 DEF MintJwt, MintSession, HandOver, tokens
  <2>4. QED
    BY <1>2, <2>1, <2>2, <2>3 DEF MintJwt, MintSession, SessionTtl, NewToken
<1>3. UNCHANGED tokens \/ \E r \in Req : MintJwt(r) \/ MintSession(r)
  BY DEF Next, Start, ClientStart, Continue, AsksFor, vars, Introspect,
         Invalidate, UpgradeRejected, UpgradeSession, UpgradeJwt,
         GetGenerateToken, IntrospectChecked, IntrospectRead, UpgradeLoad,
         InvalidateBlacklist, InvalidateDelete, Tick, Crash
<1>4. QED
  BY <1>1, <1>2, <1>3

\* What joins a login and its request is not undone by the others.
LEMMA JoinedStays ==
  ASSUME IInv, MintedGrows, handed \subseteq handed', NEW g, NEW q, Joined(g, q)
  PROVE  Joined(g, q)'
BY DEF IInv, TypeOK, MintedGrows, Joined

\* A login that asks for its token is served by its own request.
LEMMA AskedIsJoined ==
  ASSUME IInv, NEW l \in Desk, TokenAsked(l), login'[l].res.status # 301
  PROVE  /\ Joined(login[l], req[l])'
         /\ \A m \in Req \ {l} : req'[m] = req[m]
<1>1. l \in Req /\ req \in [Req -> Request]
  BY HubAssumption DEF IInv, TypeOK
<1>2. CASE login'[l].pc = "token"
  <2>1. PICK q : q = [Begun("login", "mint", Missing) EXCEPT !.user = login'[l].user]
    OBVIOUS
  <2>2. q.pc = "mint" /\ q.user = login'[l].user
    BY <2>1 DEF Begun, Idle
  <2>3. req' = [req EXCEPT ![l] = q]
    BY <1>2, <2>1 DEF TokenAsked, GetGenerateToken
  <2>4. QED
    BY <1>1, <2>2, <2>3 DEF Joined
<1>3. CASE login'[l].pc # "token"
  BY <1>3 DEF TokenAsked, Joined, vars
<1>4. QED
  BY <1>2, <1>3

\* A login that is answered redirects with the token of its request, or has none.
LEMMA RepliedIsJoined ==
  ASSUME IInv, LifeInv, HubInv, NEW l \in Desk, TokenReplies(l)
  PROVE  /\ Joined(login[l], req[l])'
         /\ LoginMandated(login[l])'
         /\ \A m \in Req \ {l} : req'[m] = req[m]
<1>1. /\ l \in Req /\ req \in [Req -> Request]
      /\ login \in [Desk -> A!LoginRecord]
      /\ login[l].pc = "token"
      /\ req[l].pc = "mint" /\ req[l].user = login[l].user
  BY HubAssumption DEF IInv, TypeOK, HubInv, A!AcsInv, A!TypeOK, Joined,
                       TokenReplies, A!TokenReplies
<1>2. PICK k \in A!LoginRecord : k = login[l]
  BY <1>1
<1>3. \/ \E res : Answer(l, res)
      \/ \E t \in Token : HandOver(l, t)
  BY DEF TokenReplies, MintJwt, MintSession, SessionTtl, NewToken
<1>4. \A m \in Req \ {l} : req'[m] = req[m]
  BY <1>1, <1>3 DEF HandOver, Answer
<1>5. CASE login' = [login EXCEPT ![l] = A!Refused(@, 500)]
  <2>1. PICK g : g = A!Refused(k, 500)
    OBVIOUS
  <2>2. g.pc = "done" /\ g.res.status = 500
    BY <2>1, RefusedMandates
  <2>3. login'[l] = g
    BY <1>1, <1>2, <1>5, <2>1
  <2>4. QED
    BY <1>4, <2>2, <2>3 DEF Joined, LoginMandated
<1>6. ASSUME NEW jti, login' = [login EXCEPT ![l] = A!Redirected(@, jti)]
      PROVE  /\ Joined(login[l], req[l])'
             /\ LoginMandated(login[l])'
             /\ \A m \in Req \ {l} : req'[m] = req[m]
  <2>1. PICK g : g = A!Redirected(k, jti)
    OBVIOUS
  <2>2. g.pc = "done" /\ g.res.status = 301 /\ g.res.user = k.user
    BY <2>1 DEF A!Redirected, A!LoginRecord
  <2>3. login'[l] = g
    BY <1>1, <1>2, <1>6, <2>1
  <2>4. req'[l].res.status = 301
    BY <2>2, <2>3 DEF TokenReplies
  <2>5. ~Answer(l, Status(500))
    <3>1. PICK res \in Response : res = Status(500) /\ res.status = 500
      BY StatusIsResponse
    <3>2. PICK q : q = Answered(req[l], res)
      OBVIOUS
    <3>3. q.res = res
      BY <1>1, <3>2, AnsweredIsRequest
    <3>4. Answer(l, Status(500)) => req'[l] = q
      BY <1>1, <3>1, <3>2 DEF Answer
    <3>5. QED
      BY <2>4, <3>1, <3>3, <3>4
  <2>6. PICK t \in Token \ minted : Generated(l, t) /\ HandOver(l, t)
    BY <2>5 DEF TokenReplies, MintJwt, MintSession, SessionTtl, NewToken
  <2>7. claims'[t].user = req[l].user
    BY <1>1, <2>6, GeneratedIsSound
  <2>8. PICK code \in {200, 301} : code = IF req[l].op = "login" THEN 301 ELSE 200
    OBVIOUS
  <2>9. PICK res : res = [Status(code) EXCEPT !.token = t]
    OBVIOUS
  <2>10. res.token = t
    BY <2>9 DEF Status
  <2>11. PICK q : q = Answered(req[l], res)
    OBVIOUS
  <2>12. q.res = res
    BY <1>1, <2>11 DEF Answered, Idle, Request
  <2>13. handed' = handed \union {t} /\ req'[l] = q
    BY <1>1, <2>6, <2>8, <2>9, <2>11 DEF HandOver, Answer
  <2>14. Joined(g, q)'
    BY <1>1, <1>2, <2>2, <2>7, <2>10, <2>12, <2>13 DEF Joined
  <2>15. QED
    BY <1>4, <2>2, <2>3, <2>13, <2>14 DEF Joined, LoginMandated
<1>7. QED
  BY <1>5, <1>6 DEF TokenReplies, A!TokenReplies, A!Failed

-----------------------------------------------------------------------------
(***************************************************************************)
(* The invariant.                                                          *)
(***************************************************************************)

\* An upgraded user acts for a company of the user it derives from.
LEMMA DerivedIsMandated ==
  ASSUME LifeInv', MandatedCompaniesOnly', HoldersWentThroughAll',
         NEW u, NEW parent, NEW org, Derives(u, parent, org)'
  PROVE  Mandated(u)' /\ WentThroughAll(u)'
<1>1. PICK from : from = claims'[parent].user
  OBVIOUS
<1>2. /\ parent \in minted'
      /\ IsTokenUser(from)
      /\ u.fiscal_number = from.fiscal_number
      /\ u.company \in ToSet(from.companies)
      /\ u.companies = Missing
  BY <1>1 DEF Derives
<1>3. Issuable(from)
  BY <1>1, <1>2 DEF LifeInv, MintedSoundly, SoundClaims
<1>4. Mandated(from)' /\ WentThroughAll(from)'
  BY <1>1, <1>2 DEF MandatedCompaniesOnly, HoldersWentThroughAll, Mandated,
                    WentThroughAll, CompaniesOf
<1>5. WentThroughAll(u)'
  BY <1>2, <1>4 DEF WentThroughAll
<1>6. Mandated(u)'
  <2> SUFFICES ASSUME ENABLE_ADE_AA
               PROVE  Mandated(u)'
    BY DEF Mandated
  <2>1. from.companies # Missing
    BY <1>2, <1>3 DEF Issuable, IsTokenUser
  <2>2. u.company \in CompaniesOf(from)
    BY <1>2, <2>1 DEF CompaniesOf
  <2>3. IsUserCompany(u.company)
    BY <1>4, <2>2 DEF Mandated
  <2>4. CompaniesOf(u) = {u.company}
    BY <1>2, <2>3 DEF CompaniesOf, IsUserCompany
  <2>5. QED
    BY <1>2, <1>4, <2>2, <2>4 DEF Mandated
<1>7. QED
  BY <1>5, <1>6

\* Nobody logs in, nothing is minted and nothing was sent at the start.
LEMMA InitHubInv == HubInit => IInv /\ LifeInv /\ HubInv
<1> SUFFICES ASSUME HubInit
             PROVE  IInv /\ LifeInv /\ HubInv
  OBVIOUS
<1>1. IInv /\ LifeInv
  BY InitIInv, InitLifeInv DEF HubInit
<1>2. AP!Init
  BY DEF HubInit, A!Init, AP!Init, A!NoLogin, AP!NoLogin, A!NoResult, AP!NoResult
<1>3. AP!AcsInv
  BY <1>2, PipelineAssumptions, AP!InitAcsInv
<1>4. A!AcsInv
  BY <1>3, SameInvariant
<1>5. \A l \in Desk : LoginMandated(login[l]) /\ Joined(login[l], req[l])
  BY DEF HubInit, A!Init, A!NoLogin, A!NoResult, LoginMandated, Joined
<1>6. \A r \in Req : RequestMandated(req[r])
  BY DEF HubInit, Init, Idle, RequestMandated
<1>7. QED
  BY <1>1, <1>4, <1>5, <1>6
     DEF HubInv, HubInit, Init, MandatedCompaniesOnly, HoldersWentThroughAll

\* The logins' part of the invariant after a step.
LEMMA LoginsStep ==
  ASSUME IInv, LifeInv, HubInv, [HubNext]_hubVars
  PROVE  \A l \in Desk : (LoginMandated(login[l]) /\ Joined(login[l], req[l]))'
<1>1. /\ ServicesRemember /\ MintedGrows /\ handed \subseteq handed'
      /\ login \in [Desk -> A!LoginRecord] /\ req \in [Req -> Request]
      /\ Desk \subseteq Req
  BY HubRemembers, HubIsService, TokensStay, HubAssumption
     DEF HubInv, A!AcsInv, A!TypeOK, IInv, TypeOK
<1>2. ASSUME NEW m \in Desk, login'[m] = login[m], req'[m] = req[m]
      PROVE  (LoginMandated(login[m]) /\ Joined(login[m], req[m]))'
  <2>1. PICK g, q : g = login[m] /\ q = req[m]
    OBVIOUS
  <2>2. LoginMandated(g) /\ Joined(g, q)
    BY <2>1 DEF HubInv, LoginMandated, Joined, Mandated
  <2>3. LoginMandated(g)' /\ Joined(g, q)'
    BY <1>1, <2>2, MandatesStay, JoinedStays
  <2>4. QED
    BY <1>2, <2>1, <2>3 DEF LoginMandated, Joined, Mandated
<1>3. ASSUME NEW l \in Desk, LoginStarts(l) \/ AuthorityReplies(l) \/ RegistryReplies(l)
      PROVE  /\ (LoginMandated(login[l]) /\ Joined(login[l], req[l]))'
             /\ \A m \in Desk \ {l} : login'[m] = login[m] /\ req'[m] = req[m]
  <2>1. LoginMandated(login[l])' /\ login'[l].res.status # 301
    BY <1>3, MandatedStart, MandatedAuthority, MandatedRegistry
       DEF LoginStarts, HubInv
  <2>2. TokenAsked(l)
    BY <1>3 DEF LoginStarts, AuthorityReplies, RegistryReplies
  <2>3. \A m \in Desk \ {l} : login'[m] = login[m]
    <3>1. \E g : login' = [login EXCEPT ![l] = g]
      BY <1>3 DEF LoginStarts, AuthorityReplies, RegistryReplies, A!Start,
         A!AuthorityRefuses, A!AuthoritySends, A!RegistryReplies, A!Failed
    <3>2. QED
      BY <1>1, <3>1
  <2>4. QED
    BY <1>1, <2>1, <2>2, <2>3, AskedIsJoined
<1>4. ASSUME NEW l \in Desk, TokenReplies(l)
      PROVE  /\ (LoginMandated(login[l]) /\ Joined(login[l], req[l]))'
             /\ \A m \in Desk \ {l} : login'[m] = login[m] /\ req'[m] = req[m]
  <2>1. \A m \in Desk \ {l} : login'[m] = login[m]
    BY <1>1, <1>4 DEF TokenReplies, A!TokenReplies, A!Failed
  <2>2. QED
    BY <1>1, <1>4, <2>1, RepliedIsJoined
<1>5. ASSUME NEW l \in Desk, LoginCrashes(l)
      PROVE  /\ (LoginMandated(login[l]) /\ Joined(login[l], req[l]))'
             /\ \A m \in Desk \ {l} : login'[m] = login[m] /\ req'[m] = req[m]
  <2>1. login'[l] = A!NoLogin /\ \A m \in Desk \ {l} : login'[m] = login[m]
    BY <1>1, <1>5 DEF LoginCrashes, A!Crash
  <2>2. \A m \in Desk \ {l} : req'[m] = req[m]
    BY <1>1, <1>5 DEF LoginCrashes, Crash, vars
  <2>3. (LoginMandated(login[l]) /\ Joined(login[l], req[l]))'
    BY <2>1 DEF A!NoLogin, A!NoResult, LoginMandated, Joined
  <2>4. QED
    BY <2>1, <2>2, <2>3
<1>6. ASSUME NEW r \in Req \ Desk, ClientStep(r)
      PROVE  \A m \in Desk : login'[m] = login[m] /\ req'[m] = req[m]
  <2>1. UNCHANGED login
    BY <1>6 DEF ClientStep, acsVars
  <2>2. CASE Crash({r})
    BY <1>1, <2>1, <2>2 DEF Crash
  <2>3. CASE ClientStart(r) \/ Continue(r)
    <3>1. \E q : req' = [req EXCEPT ![r] = q]
      BY <2>3, OneRequestSteps DEF Start
    <3>2. QED
      BY <1>1, <2>1, <3>1
  <2>4. QED
    BY <1>6, <2>2, <2>3 DEF ClientStep
<1>7. CASE UNCHANGED login /\ UNCHANGED req
  BY <1>2, <1>7
<1>8. QED
  BY <1>2, <1>3, <1>4, <1>5, <1>6, <1>7
     DEF HubNext, LoginContinues, Tick, hubVars, vars, acsVars

\* The requests' part of the invariant after a step, given the rest of it.
LEMMA RequestsStep ==
  ASSUME IInv, LifeInv, HubInv, [HubNext]_hubVars, IInv', LifeInv', A!AcsInv',
         MandatedCompaniesOnly', HoldersWentThroughAll',
         \A l \in Desk : LoginMandated(login[l])'
  PROVE  \A r \in Req : RequestMandated(req[r])'
<1>1. ServicesRemember /\ Desk \subseteq Req /\ req \in [Req -> Request]
  BY HubRemembers, HubAssumption DEF IInv, TypeOK
<1>2. ASSUME NEW r \in Req, req'[r] = req[r]
      PROVE  RequestMandated(req[r])'
  <2>1. PICK q : q = req[r]
    OBVIOUS
  <2>2. RequestMandated(q)
    BY <2>1 DEF HubInv, RequestMandated, Mandated, WentThroughAll
  <2>3. RequestMandated(q)'
    BY <1>1, <2>2, MandatesStay
  <2>4. QED
    BY <1>2, <2>1, <2>3 DEF RequestMandated, Mandated, WentThroughAll
<1>3. ASSUME NEW r \in Req, req'[r].pc = "mint", req'[r].tok # Missing
      PROVE  RequestMandated(req[r])'
  <2>1. PICK q : q = req'[r]
    OBVIOUS
  <2>2. Derives(q.user, q.tok, q.org)'
    BY <1>3, <2>1 DEF LifeInv, RequestKnows, Derives
  <2>3. Mandated(q.user)' /\ WentThroughAll(q.user)'
    BY <2>2, DerivedIsMandated
  <2>4. QED
    BY <2>1, <2>3 DEF RequestMandated, Mandated, WentThroughAll
<1>4. CASE ServiceOnly
  <2>1. ASSUME NEW r \in Req, req'[r].pc = "mint", req'[r].tok = Missing
        PROVE  RequestMandated(req[r])'
    BY <1>2, <1>4, <2>1, WhoMints
  <2>2. QED
    BY <1>3, <2>1 DEF RequestMandated
<1>5. ASSUME NEW l \in Desk, login'[l].pc = "token",
             GetGenerateToken(l, login'[l].user), NEW r \in Req
      PROVE  RequestMandated(req[r])'
  <2>1. PICK u : u = login'[l].user
    OBVIOUS
  <2>2. PICK q : q = [Begun("login", "mint", Missing) EXCEPT !.user = u]
    OBVIOUS
  <2>3. q.user = u
    BY <2>2 DEF Begun, Idle
  <2>4. req' = [req EXCEPT ![l] = q]
    BY <1>5, <2>1, <2>2 DEF GetGenerateToken
  <2>5. CASE r # l
    BY <1>1, <1>2, <2>4, <2>5
  <2>6. CASE r = l
    <3>1. req'[r] = q
      BY <1>1, <2>4, <2>6
    <3>2. ENABLE_ADE_AA => Mandated(u)'
      BY <1>5, <2>1 DEF LoginMandated, Mandated
    <3>3. WentThroughAll(u)'
      BY <1>5, <2>1, KnownUser
    <3>4. QED
      BY <2>3, <3>1, <3>2, <3>3 DEF RequestMandated, Mandated, WentThroughAll
  <2>7. QED
    BY <2>5, <2>6
<1>6. QED
  BY <1>4, <1>5, HubSteps

\* The invariant is inductive relative to those of the token service.
LEMMA StepHubInv ==
  IInv /\ LifeInv /\ HubInv /\ [HubNext]_hubVars => IInv' /\ LifeInv' /\ HubInv'
<1> SUFFICES ASSUME IInv, LifeInv, HubInv, [HubNext]_hubVars
             PROVE  IInv' /\ LifeInv' /\ HubInv'
  OBVIOUS
<1>1. A!AcsInv /\ A!AcsInv' /\ IInv' /\ LifeInv' /\ ServicesRemember
  BY HubKeepsAcsInv, HubKeepsServiceInv, HubRemembers DEF HubInv
<1>2. \A l \in Desk : (LoginMandated(login[l]) /\ Joined(login[l], req[l]))'
  BY LoginsStep
<1>3. ASSUME NEW t \in minted'
      PROVE  (Mandated(claims[t].user) /\ WentThroughAll(claims[t].user))'
  <2>1. PICK u : u = claims'[t].user
    OBVIOUS
  <2>2. \/ t \in minted /\ claims'[t] = claims[t]
        \/ \E r \in Req : req[r].pc = "mint" /\ claims'[t].user = req[r].user
    BY <1>1, HubIsService, WhatIsMinted
  <2>3. Mandated(u) /\ WentThroughAll(u)
    BY <2>1, <2>2 DEF HubInv, MandatedCompaniesOnly, HoldersWentThroughAll,
                      RequestMandated, Mandated, WentThroughAll
  <2>4. Mandated(u)' /\ WentThroughAll(u)'
    BY <1>1, <2>3, MandatesStay
  <2>5. QED
    BY <2>1, <2>4 DEF Mandated, WentThroughAll
<1>4. MandatedCompaniesOnly' /\ HoldersWentThroughAll'
  BY <1>3 DEF MandatedCompaniesOnly, HoldersWentThroughAll
<1>5. \A r \in Req : RequestMandated(req[r])'
  BY <1>1, <1>2, <1>4, RequestsStep
<1>6. QED
  BY <1>1, <1>2, <1>4, <1>5 DEF HubInv

\* The invariant holds in every state of every behaviour of the hub.
THEOREM HubInvariance == HubSpec => [](IInv /\ LifeInv /\ HubInv)
<1>1. HubInit => IInv /\ LifeInv /\ HubInv
  BY InitHubInv
<1>2. IInv /\ LifeInv /\ HubInv /\ [HubNext]_hubVars
        => (IInv /\ LifeInv /\ HubInv)'
  BY StepHubInv
<1>3. QED
  BY <1>1, <1>2, PTL DEF HubSpec

-----------------------------------------------------------------------------
(***************************************************************************)
(* Whatever companies the authority sends, however logins, upgrades,       *)
(* failures and crashes interleave, no token acts for a company that the   *)
(* authority did not send for the very citizen the token names.            *)
(***************************************************************************)
THEOREM CompaniesAreMandated == HubSpec => []MandatedCompaniesOnly
<1>1. HubInv => MandatedCompaniesOnly
  BY DEF HubInv
<1>2. QED
  BY <1>1, HubInvariance, PTL

(***************************************************************************)
(* Nobody holds a token whom the authority was not asked about or who is   *)
(* not in the registry, where the configuration has them.                  *)
(***************************************************************************)
THEOREM EveryHolderWentThrough == HubSpec => []HoldersWentThroughAll
<1>1. HubInv => HoldersWentThroughAll
  BY DEF HubInv
<1>2. QED
  BY <1>1, HubInvariance, PTL

-----------------------------------------------------------------------------
(***************************************************************************)
(* The page for L1 tokens.                                                 *)
(***************************************************************************)

\* An upgrade takes the L1 users that a login may ask a token for, and no others.
LEMMA UpgradableIsL1 ==
  ASSUME NEW u \in UserShape, Issuable(u)
  PROVE  CanUpgrade(u) <=> ENABLE_ADE_AA /\ ~IsTokenUserL2(u)
<1>1. u.from_aa = ENABLE_ADE_AA
  BY DEF Issuable
<1>2. CASE IsTokenUserL2(u)
  <2>1. u.level = "L2"
    BY <1>2 DEF IsTokenUserL2
  <2>2. DecodeTokenUser(u) = Missing
    BY <2>1, MissingAssumption DEF DecodeTokenUser, WithDefaultLevel, IsTokenUser
  <2>3. QED
    BY <1>2, <2>2 DEF CanUpgrade, UpgradeRefusal
<1>3. CASE ~IsTokenUserL2(u)
  <2>1. ENABLE_ADE_AA /\ IsTokenUser(u) /\ u.from_aa
    BY <1>1, <1>3 DEF Issuable
  <2>2. DecodeTokenUser(u) = u /\ u # Missing
    BY <2>1, MissingAssumption DEF DecodeTokenUser, WithDefaultLevel, IsTokenUser
  <2>3. PICK s \in Seq(Company) : s = u.companies
    BY <2>1 DEF IsTokenUser, UserShape
  <2>4. \A i \in DOMAIN s : IsUserCompany(s[i])
    BY <2>1, <2>3 DEF IsTokenUser
  <2>5. 1 \in DOMAIN s
    <3>1. Len(s) > 1
      BY <1>3, <2>3 DEF Issuable
    <3>2. QED
      BY <3>1
  <2>6. PICK org \in OrgCode : org = s[1].organization_fiscal_code
    BY <2>4, <2>5 DEF IsUserCompany
  <2>7. FindCompany(s, org) # Missing
    BY <2>4, <2>5, <2>6, FindsCompany DEF IsUserCompany
  <2>8. UpgradeRefusal(u, org) = 0
    BY <2>1, <2>2, <2>3, <2>7 DEF UpgradeRefusal
  <2>9. QED
    BY <1>3, <2>1, <2>2, <2>8 DEF CanUpgrade
<1>4. QED
  BY <1>2, <1>3

(***************************************************************************)
(* getSuccessPath sends to the page for L1 tokens exactly those citizens   *)
(* whose token upgradeTokenHandler takes, for a company of theirs.         *)
(***************************************************************************)
THEOREM L1PageLeadsToAnUpgrade == HubSpec => []L1PageMeansUpgradable
<1>1. ASSUME HubInv, NEW l \in Desk, A!Issued(l)
      PROVE  /\ req[l].res.token \in handed
             /\ LET u == claims[req[l].res.token].user
                IN  login[l].res.path = "l1-success" <=> CanUpgrade(u)
  <2>1. PICK u : u = login[l].res.user
    OBVIOUS
  <2>2. req[l].res.token \in handed /\ claims[req[l].res.token].user = u
    BY <1>1, <2>1 DEF HubInv, Joined, A!Issued
  <2>3. /\ u \in A!UserShape
        /\ A!Issuable(u)
        /\ login[l].res.path = A!SuccessPath(u)
    BY <1>1, <2>1 DEF HubInv, A!AcsInv, A!IssuedSoundly, A!Cleared, A!Issued
  <2>4. u \in UserShape /\ Issuable(u)
    BY <2>3, SameShapes, SameCodecs
  <2>5. A!IsTokenUserL2(u) <=> IsTokenUserL2(u)
    BY DEF A!IsTokenUserL2, IsTokenUserL2, A!IsCommonTokenUser,
       IsCommonTokenUser, A!IsUserCompany, IsUserCompany
  <2>6. login[l].res.path = "l1-success" <=> CanUpgrade(u)
    BY <2>3, <2>4, <2>5, UpgradableIsL1 DEF A!SuccessPath
  <2>7. QED
    BY <2>2, <2>6
<1>2. HubInv => L1PageMeansUpgradable
  BY <1>1 DEF L1PageMeansUpgradable
<1>3. QED
  BY <1>2, HubInvariance, PTL

-----------------------------------------------------------------------------
(***************************************************************************)
(* What was proved of the login pipeline holds of it within the hub.       *)
(***************************************************************************)
LEMMA HubRunsThePipeline == HubSpec => AP!Spec
<1>1. HubInit => AP!Init
  BY DEF HubInit, A!Init, AP!Init, A!NoLogin, AP!NoLogin, A!NoResult, AP!NoResult
<1>2. [HubNext]_hubVars => [AP!Next]_(AP!vars)
  BY HubIsPipeline
<1>3. QED
  BY <1>1, <1>2, PTL DEF HubSpec, AP!Spec

\* The three places that decide on the kind of a token agree, and the user a login asks
\* a token for is one that getIntrospectHandler and upgradeTokenHandler can read back.
THEOREM HubAgreesOnTheToken == HubSpec => []LoginsAgreeOnTheToken
<1>1. AP!Spec => []AP!KindsAgree
  BY PipelineAssumptions, AP!TokenKindsAgree
<1>2. AP!Spec => []AP!TokensAskedForIssuableUsers
  BY PipelineAssumptions, AP!IssuableUsersOnly
<1>3. AP!KindsAgree => A!KindsAgree
  BY DEF AP!KindsAgree, A!KindsAgree, AP!Issued, A!Issued
<1>4. AP!TokensAskedForIssuableUsers => A!TokensAskedForIssuableUsers
  BY SameShapes, SameCodecs
     DEF AP!TokensAskedForIssuableUsers, A!TokensAskedForIssuableUsers
<1>5. QED
  BY <1>1, <1>2, <1>3, <1>4, HubRunsThePipeline, PTL DEF LoginsAgreeOnTheToken

\* getAcs refuses no login of its own accord but for what its assertion lacks.
THEOREM HubRefusesForCause == HubSpec => LoginRefusedForCause
<1>1. AP!Spec => AP!RefusedForCause
  BY PipelineAssumptions, AP!LoginsRefusedForCause
<1>2. AP!RefusedForCause => A!RefusedForCause
  BY PTL DEF AP!RefusedForCause, A!RefusedForCause, AP!vars, A!vars
<1>3. QED
  BY <1>1, <1>2, HubRunsThePipeline, PTL DEF LoginRefusedForCause

-----------------------------------------------------------------------------
(***************************************************************************)
(* The refinement.  LoginUser stands for whatever users the service may be *)
(* asked a token for; where it leaves none of them out, the hub asks for   *)
(* no others, and each of its steps is a step of the token service or      *)
(* leaves it alone.                                                        *)
(***************************************************************************)
THEOREM HubIsATokenService ==
  ASSUME \A u \in UserShape : Issuable(u) => u \in LoginUser
  PROVE  HubSpec => ImplementsTokenService
<1>1. HubInit => Init
  BY DEF HubInit
<1>2. A!AcsInv /\ [HubNext]_hubVars => [Next]_vars
  BY HubIsService DEF AsksFor, Next, Start
<1>3. HubInv => A!AcsInv
  BY DEF HubInv
<1>4. QED
  BY <1>1, <1>2, <1>3, HubInvariance, PTL DEF HubSpec, Spec, ImplementsTokenService

-----------------------------------------------------------------------------
(***************************************************************************)
(* What was proved of the token service holds of it within the hub, where  *)
(* the users of tokens are those of getAcs, whatever LoginUser is: the     *)
(* invariants above take the place of LoginAssumption.                     *)
(***************************************************************************)
\* Once a citizen was told that a token is invalidated, no introspection that begins
\* afterwards calls it active, whichever logins go on.
THEOREM HubInvalidationIsFinal == HubSpec => []InvalidationSticks
<1>1. IInv => InvalidationSticks
  BY DEF IInv, RequestOK, Awaiting, InvalidationSticks
<1>2. QED
  BY <1>1, HubInvariance, PTL

\* An L2 token of the hub is for the citizen of the L1 token it comes from.
THEOREM HubUpgradesKeepTheCitizen == HubSpec => []L2Provenance
BY DerivedFromL1, HubInvariance, PTL

\* A token that a login or an upgrade handed out is good until it expires, unless the
\* invalidation of that very token was asked for.
THEOREM HubTokensLastUnlessAsked == HubSpec => []NobodyElseEndsASession
BY GoodUnlessAsked, HubInvariance, PTL

\* From the assertion through Redis to the answer of /introspect: it tells of a session
\* the user getAcs had it minted for.
THEOREM HubIntrospectionIsTruthful == HubSpec => []IntrospectionTellsTheMinted
BY ToldAsMinted, HubInvariance, PTL

\* A login that asks for its token calls nothing active.
LEMMA AskingReportsNothing ==
  ASSUME IInv, NEW u, AsksFor(u), NEW r \in Req
  PROVE  ~ReportsActive(r)
<1>1. PICK l \in Req : GetGenerateToken(l, u)
  BY DEF AsksFor
<1>2. PICK q : q = [Begun("login", "mint", Missing) EXCEPT !.user = u]
  OBVIOUS
<1>3. q.pc = "mint"
  BY <1>2 DEF Begun, Idle
<1>4. req'[r] \in {q, req[r]}
  BY <1>1, <1>2 DEF GetGenerateToken, IInv, TypeOK
<1>5. QED
  BY <1>3, <1>4 DEF ReportsActive

\* The hub's /introspect calls a token active only within the lifetime for its level.
THEOREM HubActiveWithinLifetime == HubSpec => ActiveWithinLifetime
<1>1. ASSUME IInv, LifeInv, HubInv, [HubNext]_hubVars
      PROVE  [\A r \in Req : ReportsActive(r) /\ ~ENABLE_JWT =>
               now < claims[req[r].tok].iat
                       + LifetimeOfLevel(req'[r].res.level)]_vars
  <2>1. A!AcsInv
    BY <1>1 DEF HubInv
  <2>2. CASE [Next]_vars
    BY <1>1, <2>2, ReportsWithinLifetime
  <2>3. CASE \E u \in UserShape : Issuable(u) /\ AsksFor(u)
    BY <1>1, <2>3, AskingReportsNothing
  <2>4. QED
    BY <1>1, <2>1, <2>2, <2>3, HubIsService
<1>2. QED
  BY <1>1, HubInvariance, PTL DEF HubSpec, ActiveWithinLifetime

\* The hub keeps the contract of a token's life, with the tokens of its logins.
THEOREM HubKeepsTheContract == HubSpec => ImplementsContract
<1>1. HubInit => Contract!Init
  BY InitContract DEF HubInit
<1>2. ASSUME IInv, LifeInv, HubInv, [HubNext]_hubVars
      PROVE  [Contract!Next]_Contract!contractVars
  <2>1. A!AcsInv
    BY <1>2 DEF HubInv
  <2>2. CASE [Next]_vars
    BY <1>2, <2>2, StepContract
  <2>3. ASSUME NEW u \in UserShape, AsksFor(u) PROVE Contract!Next
    <3>1. PICK l \in Req : GetGenerateToken(l, u)
      BY <2>3 DEF AsksFor
    <3>2. QED
      BY <1>2, <3>1, SilentLogin, SilentRefines
  <2>4. QED
    BY <1>2, <2>1, <2>2, <2>3, HubIsService
<1>3. QED
  BY <1>1, <1>2, HubInvariance, PTL
     DEF HubSpec, ImplementsContract, Contract!Spec
=============================================================================
