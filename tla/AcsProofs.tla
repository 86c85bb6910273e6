------------------------------ MODULE AcsProofs ------------------------------
(***************************************************************************)
(* The proofs about the login pipeline, for every number of logins under   *)
(* way, every set of citizens and companies, and every configuration: the  *)
(* invariant AcsInv of AcsProps, what it implies of the tokens that are    *)
(* issued, and why a login may be refused before it asks any service.      *)
(***************************************************************************)
EXTENDS AcsProps, TokenUsersProofs

(***************************************************************************)
(* What the codecs make of a user.                                         *)
(***************************************************************************)

\* An assertion that is accepted gives a user who speaks for it, and nothing else.
LEMMA AssertedUser ==
  ASSUME NEW a \in Assertion, ToCommonTokenUser(a) # Missing
  PROVE  /\ ToCommonTokenUser(a) \in UserShape
         /\ ToCommonTokenUser(a).from_aa = ENABLE_ADE_AA
         /\ ToCommonTokenUser(a).level = Missing
         /\ Speaks(ToCommonTokenUser(a), a)
<1>1. /\ StripPrefix(a).prefix = FALSE
      /\ StripPrefix(a).code = a.code
  BY DEF StripPrefix, Assertion
<1>2. FiscalNumber(StripPrefix(a)) = a.code
  BY <1>1 DEF FiscalNumber
<1>3. a.code # Missing /\ a.code \in FiscalCode
  BY <1>2 DEF ToCommonTokenUser, Assertion
<1>4. SpidLevelOf(a) \in SpidLevel
  BY LoginConfigAssumption DEF SpidLevelOf, Assertion
<1>5. ToCommonTokenUser(a) =
        [fiscal_number |-> a.code, spid_level |-> SpidLevelOf(a),
         from_aa |-> ENABLE_ADE_AA, companies |-> Missing,
         company |-> Missing, uid |-> Missing, level |-> Missing]
  BY <1>2 DEF ToCommonTokenUser
<1>6. QED
  BY <1>3, <1>4, <1>5, ConfigAssumption DEF UserShape, Speaks

\* The prefix of the fiscal number and the SPID level are no cause for refusal.
LEMMA RefusedAssertion ==
  ASSUME NEW a \in Assertion, ToCommonTokenUser(a) = Missing
  PROVE  a.code = Missing \/ ~a.contact
<1> SUFFICES ASSUME a.code # Missing, a.contact
             PROVE  FALSE
  OBVIOUS
<1>1. FiscalNumber(StripPrefix(a)) = a.code
  BY DEF FiscalNumber, StripPrefix, Assertion
<1>2. ToCommonTokenUser(a) =
        [fiscal_number |-> a.code, spid_level |-> SpidLevelOf(a),
         from_aa |-> ENABLE_ADE_AA, companies |-> Missing,
         company |-> Missing, uid |-> Missing, level |-> Missing]
  BY <1>1 DEF ToCommonTokenUser
<1>3. SpidLevelOf(a) \in SpidLevel
  BY LoginConfigAssumption DEF SpidLevelOf, Assertion
<1>4. a.code \in FiscalCode
  BY DEF Assertion
<1>5. ToCommonTokenUser(a) \in UserShape
  BY <1>2, <1>3, <1>4, ConfigAssumption DEF UserShape
<1>6. QED
  BY <1>5, MissingAssumption

\* The user a token is asked for is the user that was gathered, with its level,
\* and of one company unless there is a choice to make.
LEMMA UserOfToken ==
  ASSUME NEW u \in UserShape, u.from_aa = ENABLE_ADE_AA, u.level = Missing,
         ENABLE_ADE_AA => u.companies \in Seq(Company) \ {<<>>},
         TokenUserOf(u) # Missing
  PROVE  /\ TokenUserOf(u) \in UserShape
         /\ TokenUserOf(u).from_aa = u.from_aa
         /\ TokenUserOf(u).fiscal_number = u.fiscal_number
         /\ TokenUserOf(u).spid_level = u.spid_level
         /\ Issuable(TokenUserOf(u))
         /\ TokenUserOf(u).level =
              IF ENABLE_ADE_AA /\ TokenUserOf(u).companies # Missing
              THEN "L1" ELSE "L2"
         /\ TokenUserOf(u).level = "L1" => TokenUserOf(u).uid = u.uid
         /\ ENABLE_ADE_AA =>
              IF TokenUserOf(u).companies = Missing
              THEN TokenUserOf(u).company \in ToSet(u.companies)
              ELSE /\ TokenUserOf(u).companies = u.companies
                   /\ TokenUserOf(u).company = u.company
<1> DEFINE v == DecodeTokenUser(u)
<1>1. v # Missing
  BY DEF TokenUserOf
<1>2. /\ v \in UserShape
      /\ IsTokenUser(v)
      /\ v = [u EXCEPT !.level = "L1"]
  BY <1>1, DecodedTokenUser
<1>3. /\ v.fiscal_number = u.fiscal_number
      /\ v.spid_level = u.spid_level
      /\ v.from_aa = u.from_aa
      /\ v.companies = u.companies
      /\ v.company = u.company
      /\ v.uid = u.uid
      /\ v.level = "L1"
  BY <1>2 DEF UserShape
<1> HIDE DEF v
<1>0. ASSUME ENABLE_ADE_AA
      PROVE  /\ Len(v.companies) \in Nat \ {0}
             /\ 1 \in DOMAIN v.companies
             /\ v.companies[1] \in Company
  <2>1. v.companies \in Seq(Company) /\ v.companies # <<>>
    BY <1>0, <1>3
  <2>2. PICK s \in Seq(Company) : s = v.companies
    BY <2>1
  <2>3. Len(s) \in Nat \ {0} /\ 1 \in DOMAIN s /\ s[1] \in Company
    BY <2>1, <2>2
  <2>4. QED
    BY <2>2, <2>3
<1>4. CASE ENABLE_ADE_AA /\ Len(v.companies) = 1
  <2> DEFINE t == ToTokenUserL2(v, v.companies[1])
  <2>1. TokenUserOf(u) = t
    BY <1>1, <1>3, <1>4 DEF TokenUserOf, v
  <2>2. v.companies[1] \in Company /\ IsUserCompany(v.companies[1])
    <3>1. v.from_aa
      BY <1>3, <1>4
    <3>2. QED
      BY <1>0, <1>2, <1>4, <3>1 DEF IsTokenUser
  <2>3. t \in UserShape
    BY <1>2, <2>2, UpgradedUser
  <2>4. /\ t.fiscal_number = u.fiscal_number
        /\ t.spid_level = u.spid_level
        /\ t.from_aa = u.from_aa
        /\ t.companies = Missing
        /\ t.company = v.companies[1]
        /\ t.level = "L2"
    BY <1>3 DEF ToTokenUserL2
  <2>5. IsTokenUserL2(t)
    BY <1>2, <1>3, <2>2, <2>4 DEF IsTokenUser, IsTokenUserL2, IsCommonTokenUser
  <2>6. t.company \in ToSet(u.companies)
    BY <1>0, <1>3, <1>4, <2>4 DEF ToSet
  <2>7. QED
    BY <2>1, <2>3, <2>4, <2>5, <2>6 DEF Issuable
<1>5. CASE ENABLE_ADE_AA /\ Len(v.companies) # 1
  <2>1. TokenUserOf(u) = v
    BY <1>1, <1>3, <1>5 DEF TokenUserOf, v
  <2>2. v.companies # Missing
    BY <1>2, <1>3, <1>5 DEF IsTokenUser
  <2>3. Len(v.companies) > 1
    <3>1. PICK n \in Nat \ {0} : n = Len(v.companies)
      BY <1>0, <1>5
    <3>2. n # 1
      BY <1>5, <3>1
    <3>3. n > 1
      BY <3>2
    <3>4. QED
      BY <3>1, <3>3, Zenon
  <2>4. QED
    BY <1>2, <1>3, <1>5, <2>1, <2>2, <2>3 DEF Issuable
<1>6. CASE ~ENABLE_ADE_AA
  <2> DEFINE w == [v EXCEPT !.level = "L2"]
  <2>1. TokenUserOf(u) = DecodeTokenUserL2(w)
    BY <1>1, <1>3, <1>6 DEF TokenUserOf, v
  <2>2. /\ w \in UserShape
        /\ w.fiscal_number = u.fiscal_number
        /\ w.spid_level = u.spid_level
        /\ w.from_aa = u.from_aa
        /\ w.level = "L2"
    BY <1>2, <1>3 DEF UserShape
  <2>3. WithDefaultLevel(w, "L2") = w
    BY <2>2, MissingAssumption DEF WithDefaultLevel
  <2>4. DecodeTokenUserL2(w) = w /\ IsTokenUserL2(w)
    BY <2>1, <2>3 DEF DecodeTokenUserL2
  <2>5. QED
    BY <1>6, <2>1, <2>2, <2>4 DEF Issuable
<1>7. QED
  BY <1>4, <1>5, <1>6, ConfigAssumption

-----------------------------------------------------------------------------
(***************************************************************************)
(* The records that the handler's steps make of a login.                   *)
(***************************************************************************)

\* What is known of a login stays true as citizens are vouched for and registered.
LEMMA KnowledgeStays ==
  ASSUME NEW g, Known(g), IssuedSoundly(g),
         vouched \subseteq vouched', registry \subseteq registry'
  PROVE  Known(g)' /\ IssuedSoundly(g)'
BY DEF Known, IssuedSoundly, Gathered, Cleared, Vouched

\* A step of one login keeps the invariant if it does so for that login.
LEMMA LoginStep ==
  ASSUME AcsInv, NEW l \in Login, NEW g \in LoginRecord,
         login' = [login EXCEPT ![l] = g],
         vouched \subseteq vouched', vouched' \subseteq FiscalCode,
         registry \subseteq registry', registry' \subseteq FiscalCode,
         OnlyVouchedAreRegistered', Known(g)', IssuedSoundly(g)'
  PROVE  AcsInv'
<1>1. TypeOK'
  BY DEF AcsInv, TypeOK
<1>2. ASSUME NEW m \in Login
      PROVE  (Known(login[m]) /\ IssuedSoundly(login[m]))'
  <2>1. CASE m = l
    <3>1. g = login'[m]
      BY <2>1 DEF AcsInv, TypeOK
    <3>2. QED
      BY <3>1 DEF Known, IssuedSoundly, Gathered, Cleared, Vouched
  <2>2. CASE m # l
    <3>1. PICK h : h = login[m]
      OBVIOUS
    <3>2. login'[m] = h
      BY <2>2, <3>1 DEF AcsInv, TypeOK
    <3>3. Known(h) /\ IssuedSoundly(h)
      BY <3>1 DEF AcsInv, Known, IssuedSoundly, Gathered, Cleared, Vouched
    <3>4. Known(h)' /\ IssuedSoundly(h)'
      BY <3>3, KnowledgeStays
    <3>5. QED
      BY <3>2, <3>4 DEF Known, IssuedSoundly, Gathered, Cleared, Vouched
  <2>3. QED
    BY <2>1, <2>2
<1>3. QED
  BY <1>1, <1>2 DEF AcsInv

\* A login that failed knows nothing and issued nothing.
LEMMA RefusedLogin ==
  ASSUME NEW g \in LoginRecord, NEW status \in {400, 403, 500}
  PROVE  /\ Refused(g, status) \in LoginRecord
         /\ Known(Refused(g, status))'
         /\ IssuedSoundly(Refused(g, status))'
<1>1. PICK h : h = Refused(g, status)
  OBVIOUS
<1>2. PICK r : r = [NoResult EXCEPT !.status = status]
  OBVIOUS
<1>3. r \in Result /\ r.status = status
  BY <1>2 DEF NoResult, Result
<1>4. h \in LoginRecord /\ h.pc = "done" /\ h.res = r
  BY <1>1, <1>2, <1>3 DEF Refused, LoginRecord
<1>5. Known(h)' /\ IssuedSoundly(h)'
  BY <1>3, <1>4 DEF Known, IssuedSoundly
<1>6. QED
  BY <1>1, <1>4, <1>5

\* A user with companies and registration settled is cleared for a token, or refused.
LEMMA LoginWithUser ==
  ASSUME NEW g \in LoginRecord, g.assertion \in Assertion, IssuedSoundly(g)',
         NEW u \in UserShape, u.from_aa = ENABLE_ADE_AA,
         Speaks(u, g.assertion), Gathered(u)',
         ENABLE_USER_REGISTRY =>
           u.fiscal_number \in registry' /\ u.uid = u.fiscal_number
  PROVE  /\ WithUser(g, u) \in LoginRecord
         /\ Known(WithUser(g, u))'
         /\ IssuedSoundly(WithUser(g, u))'
<1>1. CASE TokenUserOf(u) = Missing
  <2>1. WithUser(g, u) = Refused(g, 500)
    BY <1>1 DEF WithUser
  <2>2. QED
    BY <2>1, RefusedLogin
<1>2. CASE TokenUserOf(u) # Missing
  <2>1. PICK t : t = TokenUserOf(u)
    OBVIOUS
  <2>2. /\ t \in UserShape
        /\ t.from_aa = u.from_aa
        /\ t.fiscal_number = u.fiscal_number
        /\ t.spid_level = u.spid_level
        /\ Issuable(t)
        /\ t.level = IF ENABLE_ADE_AA /\ t.companies # Missing
                     THEN "L1" ELSE "L2"
        /\ t.level = "L1" => t.uid = u.uid
    BY <1>2, <2>1, UserOfToken DEF Gathered
  <2>3. PICK h : h = [g EXCEPT !.pc = "token", !.user = t]
    OBVIOUS
  <2>4. WithUser(g, u) = h
    BY <1>2, <2>1, <2>3 DEF WithUser
  <2>5. /\ h \in LoginRecord
        /\ h.pc = "token"
        /\ h.user = t
        /\ h.assertion = g.assertion
        /\ h.res = g.res
    BY <2>2, <2>3 DEF LoginRecord
  <2>6. Cleared(t)'
    BY <2>2 DEF Cleared, Gathered, Vouched
  <2>7. Speaks(t, g.assertion)
    BY <2>2 DEF Speaks
  <2>8. Known(h)'
    BY <2>2, <2>5, <2>6, <2>7 DEF Known
  <2>9. IssuedSoundly(h)'
    BY <2>5 DEF IssuedSoundly
  <2>10. QED
    BY <2>4, <2>5, <2>8, <2>9
<1>3. QED
  BY <1>1, <1>2

\* A user with companies goes to the registry where there is one.
LEMMA LoginWithCompanies ==
  ASSUME NEW g \in LoginRecord, g.assertion \in Assertion, IssuedSoundly(g)',
         NEW u \in UserShape, u.from_aa = ENABLE_ADE_AA,
         Speaks(u, g.assertion), Gathered(u)'
  PROVE  /\ WithCompanies(g, u) \in LoginRecord
         /\ Known(WithCompanies(g, u))'
         /\ IssuedSoundly(WithCompanies(g, u))'
<1>1. CASE ENABLE_USER_REGISTRY
  <2>1. PICK h : h = [g EXCEPT !.pc = "registry", !.user = u]
    OBVIOUS
  <2>2. WithCompanies(g, u) = h
    BY <1>1, <2>1 DEF WithCompanies
  <2>3. /\ h \in LoginRecord
        /\ h.pc = "registry"
        /\ h.user = u
        /\ h.assertion = g.assertion
        /\ h.res = g.res
    BY <2>1 DEF LoginRecord
  <2>4. Known(h)'
    BY <1>1, <2>3 DEF Known
  <2>5. IssuedSoundly(h)'
    BY <2>3 DEF IssuedSoundly
  <2>6. QED
    BY <2>2, <2>3, <2>4, <2>5
<1>2. CASE ~ENABLE_USER_REGISTRY
  <2>1. WithCompanies(g, u) = WithUser(g, u)
    BY <1>2 DEF WithCompanies
  <2>2. QED
    BY <1>2, <2>1, LoginWithUser
<1>3. QED
  BY <1>1, <1>2

\* A user whose assertion was accepted goes to the authority where there is one.
LEMMA LoginWithAssertion ==
  ASSUME NEW g \in LoginRecord, g.assertion \in Assertion, IssuedSoundly(g)',
         NEW u \in UserShape, u.from_aa = ENABLE_ADE_AA, u.level = Missing,
         Speaks(u, g.assertion)
  PROVE  /\ WithAssertion(g, u) \in LoginRecord
         /\ Known(WithAssertion(g, u))'
         /\ IssuedSoundly(WithAssertion(g, u))'
<1>1. CASE ENABLE_ADE_AA
  <2>1. PICK h : h = [g EXCEPT !.pc = "authority", !.user = u]
    OBVIOUS
  <2>2. WithAssertion(g, u) = h
    BY <1>1, <2>1 DEF WithAssertion
  <2>3. /\ h \in LoginRecord
        /\ h.pc = "authority"
        /\ h.user = u
        /\ h.assertion = g.assertion
        /\ h.res = g.res
    BY <2>1 DEF LoginRecord
  <2>4. Known(h)'
    BY <1>1, <2>3 DEF Known
  <2>5. IssuedSoundly(h)'
    BY <2>3 DEF IssuedSoundly
  <2>6. QED
    BY <2>2, <2>3, <2>4, <2>5
<1>2. CASE ~ENABLE_ADE_AA
  <2>1. WithAssertion(g, u) = WithCompanies(g, u)
    BY <1>2 DEF WithAssertion
  <2>2. Gathered(u)'
    BY <1>2 DEF Gathered, Vouched
  <2>3. QED
    BY <1>2, <2>1, <2>2, LoginWithCompanies
<1>3. QED
  BY <1>1, <1>2

-----------------------------------------------------------------------------
(***************************************************************************)
(* The invariant.                                                          *)
(***************************************************************************)

LEMMA InitAcsInv == Init => AcsInv
<1> SUFFICES ASSUME Init
             PROVE  AcsInv
  OBVIOUS
<1>1. NoResult \in Result
  BY DEF NoResult, Result
<1>2. NoLogin \in LoginRecord
  BY <1>1 DEF NoLogin, LoginRecord
<1>3. TypeOK
  BY <1>2 DEF Init, TypeOK
<1>4. Known(NoLogin) /\ IssuedSoundly(NoLogin)
  BY DEF NoLogin, NoResult, Known, IssuedSoundly
<1>5. \A l \in Login : Known(login[l]) /\ IssuedSoundly(login[l])
  <2> TAKE l \in Login
  <2>1. login[l] = NoLogin
    BY DEF Init
  <2>2. QED
    BY <1>4, <2>1 DEF Known, IssuedSoundly, Gathered, Cleared, Vouched
<1>6. QED
  BY <1>3, <1>5 DEF Init, AcsInv, OnlyVouchedAreRegistered

\* What the invariant says of one login, of a value that does not change.
LEMMA TheLogin ==
  ASSUME AcsInv, NEW l \in Login
  PROVE  \E g \in LoginRecord :
           g = login[l] /\ Known(g) /\ IssuedSoundly(g)
<1>1. login[l] \in LoginRecord /\ Known(login[l]) /\ IssuedSoundly(login[l])
  BY DEF AcsInv, TypeOK
<1>2. QED
  BY <1>1

\* A step in which a service fails the login.
LEMMA FailedStep ==
  ASSUME AcsInv, NEW l \in Login, NEW status \in {400, 403, 500},
         Failed(l, status), vouched' = vouched,
         registry \subseteq registry', registry' \subseteq FiscalCode,
         OnlyVouchedAreRegistered'
  PROVE  AcsInv'
<1>1. PICK g \in LoginRecord : g = login[l]
  BY TheLogin
<1>2. login' = [login EXCEPT ![l] = Refused(g, status)]
  BY <1>1 DEF Failed, AcsInv, TypeOK
<1>3. /\ Refused(g, status) \in LoginRecord
      /\ Known(Refused(g, status))'
      /\ IssuedSoundly(Refused(g, status))'
  BY RefusedLogin
<1>4. QED
  BY <1>2, <1>3, LoginStep DEF AcsInv, TypeOK

\* The assertion comes in, and is refused, or the user made of it goes to the first
\* service that is configured.
LEMMA StartStep ==
  ASSUME AcsInv, NEW l \in Login, NEW a \in Assertion, Start(l, a)
  PROVE  AcsInv'
<1>1. PICK g : g = [NoLogin EXCEPT !.assertion = a]
  OBVIOUS
<1>2. /\ g \in LoginRecord
      /\ g.assertion = a
      /\ IssuedSoundly(g)'
  <2>1. NoResult \in Result /\ NoResult.status = 0
    BY DEF NoResult, Result
  <2>2. g \in LoginRecord /\ g.assertion = a /\ g.res = NoResult
    BY <1>1, <2>1 DEF NoLogin, LoginRecord
  <2>3. QED
    BY <2>1, <2>2 DEF IssuedSoundly
<1>3. PICK h : h = IF ToCommonTokenUser(a) = Missing
                   THEN Refused(g, 500)
                   ELSE WithAssertion(g, ToCommonTokenUser(a))
  OBVIOUS
<1>4. h \in LoginRecord /\ Known(h)' /\ IssuedSoundly(h)'
  <2>1. CASE ToCommonTokenUser(a) = Missing
    <3>1. h = Refused(g, 500)
      BY <1>3, <2>1
    <3>2. QED
      BY <1>2, <3>1, RefusedLogin DEF Known, IssuedSoundly,
         Gathered, Cleared, Vouched
  <2>2. CASE ToCommonTokenUser(a) # Missing
    <3>1. PICK u : u = ToCommonTokenUser(a)
      OBVIOUS
    <3>2. /\ u \in UserShape
          /\ u.from_aa = ENABLE_ADE_AA
          /\ u.level = Missing
          /\ Speaks(u, g.assertion)
      BY <1>2, <2>2, <3>1, AssertedUser
    <3>3. h = WithAssertion(g, u)
      BY <1>3, <2>2, <3>1
    <3>4. QED
      BY <1>2, <3>2, <3>3, LoginWithAssertion DEF Known, IssuedSoundly,
         Gathered, Cleared, Vouched
  <2>3. QED
    BY <2>1, <2>2
<1>5. login' = [login EXCEPT ![l] = h]
  BY <1>1, <1>3 DEF Start
<1>6. UNCHANGED <<vouched, registry>>
  BY DEF Start
<1>7. QED
  BY <1>4, <1>5, <1>6, LoginStep DEF AcsInv, TypeOK, OnlyVouchedAreRegistered

\* The authority refuses the citizen or cannot be reached.
LEMMA AuthorityRefusesStep ==
  ASSUME AcsInv, NEW l \in Login, AuthorityRefuses(l)
  PROVE  AcsInv'
<1>1. PICK status \in {403, 500} : Failed(l, status)
  BY DEF AuthorityRefuses
<1>2. UNCHANGED <<vouched, registry>>
  BY DEF AuthorityRefuses
<1>3. QED
  BY <1>1, <1>2, FailedStep DEF AcsInv, TypeOK, OnlyVouchedAreRegistered

\* The authority sends companies: none, one that makes an L2 user, or a list to choose
\* from, which also decides what is asked next.
LEMMA AuthoritySendsStep ==
  ASSUME AcsInv, NEW l \in Login, NEW companies \in CompanyReply,
         AuthoritySends(l, companies)
  PROVE  AcsInv'
<1>1. CASE companies = <<>>
  <2>1. Failed(l, 403) /\ UNCHANGED <<vouched, registry>>
    BY <1>1 DEF AuthoritySends
  <2>2. QED
    BY <2>1, FailedStep DEF AcsInv, TypeOK, OnlyVouchedAreRegistered
<1>2. CASE companies # <<>>
  <2>1. PICK g \in LoginRecord :
          g = login[l] /\ Known(g) /\ IssuedSoundly(g)
    BY TheLogin
  <2>2. g.pc = "authority"
    BY <2>1 DEF AuthoritySends
  <2>3. /\ g.assertion \in Assertion
        /\ g.user \in UserShape
        /\ g.user.from_aa = ENABLE_ADE_AA
        /\ Speaks(g.user, g.assertion)
        /\ g.user.level = Missing
    BY <2>1, <2>2 DEF Known
  <2>4. PICK u : u = [g.user EXCEPT !.companies = companies]
    OBVIOUS
  <2>5. companies \in Seq(Company) \ {<<>>}
    BY <1>2, LoginConfigAssumption
  <2>6. /\ u \in UserShape
        /\ u.companies = companies
        /\ u.fiscal_number = g.user.fiscal_number
        /\ u.spid_level = g.user.spid_level
        /\ u.from_aa = g.user.from_aa
        /\ u.level = g.user.level
    BY <2>3, <2>4, <2>5 DEF UserShape
  <2>7. Speaks(u, g.assertion)
    BY <2>3, <2>6 DEF Speaks
  <2>8. /\ vouched' = vouched \union {g.user.fiscal_number}
        /\ registry' = registry
        /\ login' = [login EXCEPT ![l] = WithCompanies(g, u)]
    BY <1>2, <2>1, <2>4 DEF AuthoritySends, AcsInv, TypeOK
  <2>9. Gathered(u)'
    BY <2>3, <2>5, <2>6, <2>8 DEF Gathered, Vouched
  <2>10. IssuedSoundly(g)'
    BY <2>1, <2>8, KnowledgeStays
  <2>11. PICK h : h = WithCompanies(g, u)
    OBVIOUS
  <2>12. h \in LoginRecord /\ Known(h)' /\ IssuedSoundly(h)'
    <3>1. /\ WithCompanies(g, u) \in LoginRecord
          /\ Known(WithCompanies(g, u))'
          /\ IssuedSoundly(WithCompanies(g, u))'
      BY <2>3, <2>6, <2>7, <2>9, <2>10, LoginWithCompanies
    <3>2. QED
      BY <2>11, <3>1 DEF Known, IssuedSoundly, Gathered, Cleared, Vouched
  <2>13. g.user.fiscal_number \in FiscalCode
    BY <2>3 DEF UserShape
  <2>14. QED
    BY <2>8, <2>11, <2>12, <2>13, LoginStep
       DEF AcsInv, TypeOK, OnlyVouchedAreRegistered
<1>3. QED
  BY <1>1, <1>2

\* The registry saved the citizen and says so, saved the citizen and does not say so, or
\* did neither.
LEMMA RegistryRepliesStep ==
  ASSUME AcsInv, NEW l \in Login, RegistryReplies(l)
  PROVE  AcsInv'
<1>1. PICK g \in LoginRecord : g = login[l] /\ Known(g) /\ IssuedSoundly(g)
  BY TheLogin
<1>2. g.pc = "registry"
  BY <1>1 DEF RegistryReplies
<1>3. /\ g.assertion \in Assertion
      /\ g.user \in UserShape
      /\ g.user.from_aa = ENABLE_ADE_AA
      /\ Speaks(g.user, g.assertion)
      /\ Gathered(g.user)
  BY <1>1, <1>2 DEF Known, Gathered, Vouched
<1>4. PICK citizen : citizen = g.user.fiscal_number
  OBVIOUS
<1>5. citizen \in FiscalCode /\ (ENABLE_ADE_AA => citizen \in vouched)
  BY <1>3, <1>4 DEF UserShape, Gathered, Vouched
<1>6. vouched' = vouched
  BY DEF RegistryReplies
<1>7. CASE \E status \in {400, 403, 500} :
             /\ Failed(l, status)
             /\ registry' \in {registry, registry \union {citizen}}
  BY <1>5, <1>6, <1>7, FailedStep
     DEF AcsInv, TypeOK, OnlyVouchedAreRegistered
<1>8. CASE /\ registry' = registry \union {citizen}
           /\ login' = [login EXCEPT ![l] =
                WithUser(@, [@.user EXCEPT !.uid = citizen])]
  <2>1. PICK u : u = [g.user EXCEPT !.uid = citizen]
    OBVIOUS
  <2>2. /\ u \in UserShape
        /\ u.uid = citizen
        /\ u.companies = g.user.companies
        /\ u.fiscal_number = g.user.fiscal_number
        /\ u.spid_level = g.user.spid_level
        /\ u.from_aa = g.user.from_aa
        /\ u.level = g.user.level
    BY <1>3, <1>5, <2>1 DEF UserShape
  <2>3. Speaks(u, g.assertion)
    BY <1>3, <2>2 DEF Speaks
  <2>4. Gathered(u)'
    BY <1>3, <1>6, <2>2 DEF Gathered, Vouched
  <2>5. IssuedSoundly(g)'
    BY <1>1, <1>6, <1>8, KnowledgeStays
  <2>6. u.fiscal_number \in registry' /\ u.uid = u.fiscal_number
    BY <1>4, <1>8, <2>2
  <2>7. PICK h : h = WithUser(g, u)
    OBVIOUS
  <2>8. h \in LoginRecord /\ Known(h)' /\ IssuedSoundly(h)'
    <3>1. /\ WithUser(g, u) \in LoginRecord
          /\ Known(WithUser(g, u))'
          /\ IssuedSoundly(WithUser(g, u))'
      BY <1>3, <2>2, <2>3, <2>4, <2>5, <2>6, LoginWithUser
    <3>2. QED
      BY <2>7, <3>1 DEF Known, IssuedSoundly, Gathered, Cleared, Vouched
  <2>9. login' = [login EXCEPT ![l] = h]
    BY <1>1, <1>8, <2>1, <2>7 DEF AcsInv, TypeOK
  <2>10. QED
    BY <1>5, <1>6, <1>8, <2>8, <2>9, LoginStep
       DEF AcsInv, TypeOK, OnlyVouchedAreRegistered
<1>9. QED
  BY <1>1, <1>4, <1>7, <1>8 DEF RegistryReplies

\* The token service hands over a token, and the citizen is redirected, or it fails.
LEMMA TokenRepliesStep ==
  ASSUME AcsInv, NEW l \in Login, TokenReplies(l)
  PROVE  AcsInv'
<1>1. UNCHANGED <<vouched, registry>>
  BY DEF TokenReplies
<1>2. CASE Failed(l, 500)
  BY <1>1, <1>2, FailedStep DEF AcsInv, TypeOK, OnlyVouchedAreRegistered
<1>3. CASE ~Failed(l, 500)
  <2>1. PICK g \in LoginRecord :
          g = login[l] /\ Known(g) /\ IssuedSoundly(g)
    BY TheLogin
  <2>2. g.pc = "token"
    BY <2>1 DEF TokenReplies
  <2>3. PICK u : u = g.user
    OBVIOUS
  <2>4. /\ g.assertion \in Assertion
        /\ u \in UserShape
        /\ Speaks(u, g.assertion)
        /\ Cleared(u)
    BY <2>1, <2>2, <2>3 DEF Known, Cleared, Vouched
  <2>0. PICK jti \in Jtis : login' = [login EXCEPT ![l] = Redirected(g, jti)]
    BY <1>3, <2>1 DEF TokenReplies, AcsInv, TypeOK
  <2>5. PICK r : r = [status |-> 301, path |-> SuccessPath(u), user |-> u,
                      ttl |-> GetTokenExpiration(u), jti |-> jti]
    OBVIOUS
  <2>6. r \in Result
    BY <2>4, <2>5, ExpirationIsNat DEF Result, SuccessPath, Jtis
  <2>7. PICK h : h = [g EXCEPT !.pc = "done", !.user = Missing, !.res = r]
    OBVIOUS
  <2>8. login' = [login EXCEPT ![l] = h]
    <3>1. h = Redirected(g, jti)
      BY <2>3, <2>5, <2>7 DEF Redirected
    <3>2. QED
      BY <2>0, <3>1
  <2>9. /\ h \in LoginRecord
        /\ h.pc = "done"
        /\ h.assertion = g.assertion
        /\ h.res = r
    BY <2>6, <2>7 DEF LoginRecord
  <2>10. Cleared(u)'
    BY <1>1, <2>4 DEF Cleared, Vouched
  <2>11. Known(h)' /\ IssuedSoundly(h)'
    <3>1. Known(h)'
      BY <2>9 DEF Known
    <3>2. IssuedSoundly(h)'
      <4>1. /\ r.user = u
            /\ r.path = SuccessPath(u)
            /\ r.ttl = GetTokenExpiration(u)
        BY <2>5
      <4>2. QED
        BY <2>4, <2>9, <2>10, <4>1 DEF IssuedSoundly
    <3>3. QED
      BY <3>1, <3>2
  <2>12. QED
    BY <1>1, <2>8, <2>9, <2>11, LoginStep
       DEF AcsInv, TypeOK, OnlyVouchedAreRegistered
<1>4. QED
  BY <1>2, <1>3

\* The end of the process, when the registry may have saved the citizen nonetheless.
LEMMA CrashStep ==
  ASSUME AcsInv, NEW l \in Login, Crash(l)
  PROVE  AcsInv'
<1>1. PICK g \in LoginRecord : g = login[l] /\ Known(g) /\ IssuedSoundly(g)
  BY TheLogin
<1>2. /\ registry \subseteq registry'
      /\ registry' \subseteq FiscalCode
      /\ OnlyVouchedAreRegistered'
  <2>1. CASE g.pc = "registry"
    BY <1>1, <2>1 DEF Crash, AcsInv, TypeOK, OnlyVouchedAreRegistered, Known,
       Gathered, Vouched, UserShape
  <2>2. CASE g.pc # "registry"
    BY <1>1, <2>2 DEF Crash, AcsInv, TypeOK, OnlyVouchedAreRegistered
  <2>3. QED
    BY <2>1, <2>2
<1>3. PICK h : h = NoLogin
  OBVIOUS
<1>4. h \in LoginRecord /\ Known(h)' /\ IssuedSoundly(h)'
  <2>1. NoResult \in Result /\ NoResult.status = 0
    BY DEF NoResult, Result
  <2>2. h \in LoginRecord /\ h.pc = "idle" /\ h.res = NoResult
    BY <1>3, <2>1 DEF NoLogin, LoginRecord
  <2>3. QED
    BY <2>1, <2>2 DEF Known, IssuedSoundly
<1>5. login' = [login EXCEPT ![l] = h] /\ vouched' = vouched
  BY <1>3 DEF Crash
<1>6. QED
  BY <1>2, <1>4, <1>5, LoginStep DEF AcsInv, TypeOK

\* Every step keeps the invariant.
LEMMA StepAcsInv == AcsInv /\ [Next]_vars => AcsInv'
<1> SUFFICES ASSUME AcsInv, [Next]_vars
             PROVE  AcsInv'
  OBVIOUS
<1>1. CASE UNCHANGED vars
  BY <1>1 DEF vars, AcsInv, TypeOK, OnlyVouchedAreRegistered, Known,
     IssuedSoundly, Gathered, Cleared, Vouched
<1>2. ASSUME NEW l \in Login, NEW a \in Assertion, Start(l, a)
      PROVE  AcsInv'
  BY <1>2, StartStep
<1>3. ASSUME NEW l \in Login, AuthorityRefuses(l)
      PROVE  AcsInv'
  BY <1>3, AuthorityRefusesStep
<1>4. ASSUME NEW l \in Login, NEW companies \in CompanyReply,
             AuthoritySends(l, companies)
      PROVE  AcsInv'
  BY <1>4, AuthoritySendsStep
<1>5. ASSUME NEW l \in Login, RegistryReplies(l)
      PROVE  AcsInv'
  BY <1>5, RegistryRepliesStep
<1>6. ASSUME NEW l \in Login, TokenReplies(l)
      PROVE  AcsInv'
  BY <1>6, TokenRepliesStep
<1>7. ASSUME NEW l \in Login, Crash(l)
      PROVE  AcsInv'
  BY <1>7, CrashStep
<1>8. QED
  BY <1>1, <1>2, <1>3, <1>4, <1>5, <1>6, <1>7 DEF Next, Continue

-----------------------------------------------------------------------------
(***************************************************************************)
(* The theorems.                                                           *)
(***************************************************************************)

\* What the handler knows at each await holds in every state of every pipeline.
THEOREM LoginInvariance == Spec => []AcsInv
<1>1. Init => AcsInv
  BY InitAcsInv
<1>2. AcsInv /\ [Next]_vars => AcsInv'
  BY StepAcsInv
<1>3. QED
  BY <1>1, <1>2, PTL DEF Spec

\* Logins and what they leave behind always have the shape that getAcs assumes.
THEOREM LoginsAreTyped == Spec => []TypeOK
<1>1. AcsInv => TypeOK
  BY DEF AcsInv
<1>2. QED
  BY <1>1, LoginInvariance, PTL

\* getAcs never writes a citizen to the registry whom the authority did not vouch for.
THEOREM VouchedBeforeRegistered == Spec => []OnlyVouchedAreRegistered
<1>1. AcsInv => OnlyVouchedAreRegistered
  BY DEF AcsInv
<1>2. QED
  BY <1>1, LoginInvariance, PTL

\* The level, the lifetime and the page that three places of the code choose for a
\* token agree, for every reply of the authority and every configuration.
THEOREM TokenKindsAgree == Spec => []KindsAgree
<1>1. ASSUME AcsInv, NEW l \in Login, Issued(l)
      PROVE  LET res == login[l].res
                 l1  == ENABLE_ADE_AA /\ res.user.companies # Missing
             IN  /\ res.user.level = IF l1 THEN "L1" ELSE "L2"
                 /\ res.path = IF l1 THEN "l1-success" ELSE "success"
                 /\ res.ttl = IF ~ENABLE_ADE_AA THEN TOKEN_EXPIRATION
                              ELSE IF l1 THEN L1_TOKEN_EXPIRATION
                              ELSE L2_TOKEN_EXPIRATION
  <2>1. PICK r : r = login[l].res
    OBVIOUS
  <2>2. PICK u : u = r.user
    OBVIOUS
  <2>3. /\ Cleared(u)
        /\ r.path = SuccessPath(u)
        /\ r.ttl = GetTokenExpiration(u)
    BY <1>1, <2>1, <2>2 DEF AcsInv, IssuedSoundly, Issued, Cleared, Vouched
  <2>4. /\ Issuable(u)
        /\ u.level = IF ENABLE_ADE_AA /\ u.companies # Missing
                     THEN "L1" ELSE "L2"
    BY <2>3 DEF Cleared
  <2>5. IsTokenUserL2(u) <=> u.level = "L2"
    BY <2>4 DEF Issuable, IsTokenUserL2, IsTokenUser
  <2>6. ENABLE_ADE_AA => (IsTokenUser(u) <=> u.level = "L1")
    BY <2>4 DEF Issuable, IsTokenUserL2, IsTokenUser
  <2>7. QED
    BY <2>1, <2>2, <2>3, <2>4, <2>5, <2>6 DEF SuccessPath, GetTokenExpiration
<1>2. AcsInv => KindsAgree
  BY <1>1 DEF KindsAgree
<1>3. QED
  BY <1>2, LoginInvariance, PTL

\* getAcs asks the token service only for users that it can read back.
THEOREM IssuableUsersOnly == Spec => []TokensAskedForIssuableUsers
<1>1. AcsInv => TokensAskedForIssuableUsers
  BY DEF AcsInv, Known, Cleared, TokensAskedForIssuableUsers
<1>2. QED
  BY <1>1, LoginInvariance, PTL

\* Where the registry is enabled every citizen with a token is in it, and an L1 token
\* carries the citizen's own pseudonym, whichever calls failed and were retried.
THEOREM RegistrationComesFirst == Spec => []RegisteredBeforeToken
<1>1. AcsInv => RegisteredBeforeToken
  BY DEF AcsInv, IssuedSoundly, Cleared, Issued, RegisteredBeforeToken
<1>2. QED
  BY <1>1, LoginInvariance, PTL

\* The token of a login is for the citizen of its assertion, at the SPID level of the
\* assertion, whatever other logins are under way.
THEOREM TokenIsForTheAsserted == Spec => []TokenSpeaksForTheAssertion
<1>1. AcsInv => TokenSpeaksForTheAssertion
  BY DEF AcsInv, IssuedSoundly, Speaks, SpidLevelOf, Issued,
     TokenSpeaksForTheAssertion
<1>2. QED
  BY <1>1, LoginInvariance, PTL

-----------------------------------------------------------------------------
(***************************************************************************)
(* Why a login is refused before any service is asked.                     *)
(***************************************************************************)

\* Without an authority the codecs accept every user that an assertion gives.
LEMMA PlainUserIsAccepted ==
  ASSUME NEW u \in UserShape, u.from_aa = FALSE, u.level = Missing
  PROVE  TokenUserOf(u) # Missing
<1>1. PICK v : v = [u EXCEPT !.level = "L1"]
  OBVIOUS
<1>2. v \in UserShape /\ v.from_aa = FALSE /\ v.level = "L1"
  BY <1>1 DEF UserShape
<1>3. DecodeTokenUser(u) = v
  <2>1. WithDefaultLevel(u, "L1") = v
    BY <1>1 DEF WithDefaultLevel
  <2>2. IsTokenUser(v)
    BY <1>2 DEF IsTokenUser, IsCommonTokenUser, UserShape
  <2>3. QED
    BY <2>1, <2>2 DEF DecodeTokenUser
<1>4. PICK w : w = [v EXCEPT !.level = "L2"]
  OBVIOUS
<1>5. w \in UserShape /\ w.from_aa = FALSE /\ w.level = "L2"
  BY <1>2, <1>4 DEF UserShape
<1>6. DecodeTokenUserL2(w) = w
  <2>1. WithDefaultLevel(w, "L2") = w
    BY <1>5, MissingAssumption DEF WithDefaultLevel
  <2>2. IsTokenUserL2(w)
    BY <1>5 DEF IsTokenUserL2, IsCommonTokenUser, UserShape
  <2>3. QED
    BY <2>1, <2>2 DEF DecodeTokenUserL2
<1>7. v # Missing /\ w # Missing
  BY <1>2, <1>5, MissingAssumption
<1>8. TokenUserOf(u) = w
  BY <1>2, <1>3, <1>4, <1>6, <1>7 DEF TokenUserOf
<1>9. QED
  BY <1>7, <1>8

\* A login whose assertion was accepted is not refused by the step that accepted it.
LEMMA AcceptedGoesOn ==
  ASSUME NEW g \in LoginRecord, NEW a \in Assertion,
         ToCommonTokenUser(a) # Missing
  PROVE  WithAssertion(g, ToCommonTokenUser(a)).pc # "done"
<1>1. PICK u : u = ToCommonTokenUser(a)
  OBVIOUS
<1>2. u \in UserShape /\ u.from_aa = ENABLE_ADE_AA /\ u.level = Missing
  BY <1>1, AssertedUser
<1>3. CASE ENABLE_ADE_AA
  BY <1>1, <1>3 DEF WithAssertion, LoginRecord
<1>4. CASE ~ENABLE_ADE_AA /\ ENABLE_USER_REGISTRY
  BY <1>1, <1>4 DEF WithAssertion, WithCompanies, LoginRecord
<1>5. CASE ~ENABLE_ADE_AA /\ ~ENABLE_USER_REGISTRY
  <2>1. u.from_aa = FALSE
    BY <1>2, <1>5, ConfigAssumption
  <2>2. TokenUserOf(u) # Missing
    BY <1>2, <2>1, PlainUserIsAccepted
  <2>3. QED
    BY <1>1, <1>5, <2>2
       DEF WithAssertion, WithCompanies, WithUser, LoginRecord
<1>6. QED
  BY <1>3, <1>4, <1>5

\* Before it asks any service, getAcs refuses a login only for what the assertion
\* lacks: a fiscal number that is a fiscal code, or contact data that is well formed.
THEOREM LoginsRefusedForCause == Spec => RefusedForCause
<1>1. ASSUME AcsInv, [Next]_vars, NEW l \in Login,
             login'[l].pc = "done", login'[l].res.status = 500,
             login[l].pc \in {"idle", "done"}, login'[l] # login[l]
      PROVE  LET asserted == login'[l].assertion
             IN  asserted.code = Missing \/ ~asserted.contact
  <2>1. \E a \in Assertion : Start(l, a)
    <3>1. PICK m \in Login : \/ \E a \in Assertion : Start(m, a)
                             \/ Continue(m)
                             \/ Crash(m)
      BY <1>1 DEF Next, vars
    <3>2. ASSUME m # l
          PROVE  login'[l] = login[l]
      <4>1. login \in [Login -> LoginRecord]
        BY <1>1 DEF AcsInv, TypeOK
      <4>2. CASE \E a \in Assertion : Start(m, a)
        BY <3>2, <4>1, <4>2 DEF Start
      <4>3. CASE AuthorityRefuses(m)
        BY <3>2, <4>1, <4>3 DEF AuthorityRefuses, Failed
      <4>4. CASE \E companies \in CompanyReply : AuthoritySends(m, companies)
        BY <3>2, <4>1, <4>4 DEF AuthoritySends, Failed
      <4>5. CASE RegistryReplies(m)
        BY <3>2, <4>1, <4>5 DEF RegistryReplies, Failed
      <4>6. CASE TokenReplies(m)
        BY <3>2, <4>1, <4>6 DEF TokenReplies, Failed
      <4>7. CASE Crash(m)
        BY <3>2, <4>1, <4>7 DEF Crash
      <4>8. QED
        BY <3>1, <4>2, <4>3, <4>4, <4>5, <4>6, <4>7 DEF Continue
    <3>3. m = l
      BY <1>1, <3>2
    <3>4. ~Continue(l) /\ ~Crash(l)
      BY <1>1 DEF Continue, AuthorityRefuses, AuthoritySends, RegistryReplies,
         TokenReplies, Crash
    <3>5. QED
      BY <3>1, <3>3, <3>4
  <2>2. PICK a \in Assertion : Start(l, a)
    BY <2>1
  <2>3. PICK g : g = [NoLogin EXCEPT !.assertion = a]
    OBVIOUS
  <2>4. NoResult \in Result
    BY DEF NoResult, Result
  <2>5. g \in LoginRecord /\ g.assertion = a
    BY <2>3, <2>4 DEF NoLogin, LoginRecord
  <2>6. login'[l] = IF ToCommonTokenUser(a) = Missing THEN Refused(g, 500)
                    ELSE WithAssertion(g, ToCommonTokenUser(a))
    BY <1>1, <2>2, <2>3 DEF Start, AcsInv, TypeOK
  <2>7. ToCommonTokenUser(a) = Missing
    BY <1>1, <2>5, <2>6, AcceptedGoesOn
  <2>8. login'[l].assertion = a
    BY <2>5, <2>6, <2>7 DEF Refused, LoginRecord
  <2>9. QED
    BY <2>7, <2>8, RefusedAssertion
<1>2. AcsInv /\ [Next]_vars =>
        [\A l \in Login :
           login'[l].pc = "done" /\ login'[l].res.status = 500
             /\ login[l].pc \in {"idle", "done"} /\ login'[l] # login[l]
             => LET asserted == login'[l].assertion
                IN  asserted.code = Missing \/ ~asserted.contact]_vars
  BY <1>1
<1>3. QED
  BY <1>2, LoginInvariance, PTL DEF Spec, RefusedForCause
=============================================================================
