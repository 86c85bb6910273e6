-------------------------------- MODULE Acs --------------------------------
(***************************************************************************)
(* The assertion consumer service: getAcs in src/handlers/spid.ts, which   *)
(* turns the user of a validated SAML assertion into a token and a         *)
(* redirect.  A login asks up to three services in turn: the attribute     *)
(* authority (src/utils/attribute_authority.ts) for the citizen's          *)
(* companies, the user registry (src/utils/user_registry.ts) for a         *)
(* pseudonym, and the token service for a token.  Any of them may fail,    *)
(* and what the earlier ones did is not undone.  Between two of the calls  *)
(* the handler runs without interruption; many logins are under way at     *)
(* once.                                                                   *)
(***************************************************************************)
EXTENDS TokenUsers, FiniteSets

CONSTANTS
  Login,                    \* slots for logins under way
  LowestLevel,              \* the member of SpidLevel called SpidL1
  CompanyReply,             \* the lists of companies the authority may send
  ENABLE_JWT, ENABLE_USER_REGISTRY,
  INCLUDE_SPID_USER_ON_INTROSPECTION,
  EnvJtiSpid                \* what the environment sets JWT_TOKEN_JTI_SPID to

\* The registry is configured only along with JWT (JWTParams in config.ts).
ASSUME LoginConfigAssumption ==
  /\ {ENABLE_JWT, ENABLE_USER_REGISTRY, EnvJtiSpid,
      INCLUDE_SPID_USER_ON_INTROSPECTION} \subseteq BOOLEAN
  /\ ENABLE_USER_REGISTRY => ENABLE_JWT
  /\ LowestLevel \in SpidLevel
  /\ CompanyReply \subseteq Seq(Company)

\* What config.ts reads JWT_TOKEN_JTI_SPID from.
JWT_TOKEN_JTI_SPID == INCLUDE_SPID_USER_ON_INTROSPECTION

VARIABLES
  vouched,    \* the citizens the authority sent companies for
  registry,   \* the citizens saved in the user registry
  login       \* the logins under way and their outcomes

vars == <<vouched, registry, login>>

(***************************************************************************)
(* Assertions.  The fiscal number comes with or without the prefix TINIT-; *)
(* a code of Missing is a number that is absent or no fiscal code.  A      *)
(* level of Missing is an assertion from which no SPID level can be read;  *)
(* contact tells whether the optional names, e-mail and telephone that are *)
(* present are well formed.                                                *)
(***************************************************************************)
Assertion ==
  [prefix : BOOLEAN, code : FiscalCode \union {Missing}, contact : BOOLEAN,
   level  : SpidLevel \union {Missing}]

\* Slip: the prefix stays.
StripNothing(a) == a

StripPrefix(a) == [a EXCEPT !.prefix = FALSE]

FiscalNumber(a) == IF a.prefix THEN Missing ELSE a.code

\* Slip: the assertion is not looked at.
SpidLevelAssumed(a) == LowestLevel

SpidLevelOf(a) == IF a.level = Missing THEN LowestLevel ELSE a.level

\* The user of an assertion, or Missing where a codec refuses it.
ToCommonTokenUser(a) ==
  LET number == FiscalNumber(StripPrefix(a))
  IN  IF number = Missing \/ ~a.contact THEN Missing
      ELSE [fiscal_number |-> number, spid_level |-> SpidLevelOf(a),
            from_aa |-> ENABLE_ADE_AA, companies |-> Missing,
            company |-> Missing, uid |-> Missing, level |-> Missing]

(***************************************************************************)
(* Logins.  pc names the service whose reply the handler waits for.        *)
(***************************************************************************)
NoResult == [status |-> 0, path |-> "none", user |-> Missing, ttl |-> 0,
             jti |-> "none"]

NoLogin == [pc |-> "idle", assertion |-> Missing, user |-> Missing,
            res |-> NoResult]

\* The record of a login that failed, and the step in which one fails.
Refused(record, status) ==
  [record EXCEPT !.pc = "done", !.user = Missing,
                 !.res = [NoResult EXCEPT !.status = status]]

Failed(l, status) == login' = [login EXCEPT ![l] = Refused(@, status)]

\* Slips: the companies are not decoded; every user is an L1 user.
TokenUserUndecoded(u) ==
  IF u.from_aa
  THEN IF Len(u.companies) = 1 THEN ToTokenUserL2(u, u.companies[1])
       ELSE [u EXCEPT !.level = "L1"]
  ELSE DecodeTokenUserL2(u)
TokenUserL1(u) == DecodeTokenUser(u)

\* The user that the token is for: one company is chosen for the citizen, a choice
\* among several is left to an upgrade.  Missing where a codec refuses the user.
TokenUserOf(u) ==
  LET user == DecodeTokenUser(u)
  IN  CASE user = Missing -> Missing
        [] user # Missing /\ user.from_aa ->
             IF Len(user.companies) = 1
             THEN ToTokenUserL2(user, user.companies[1]) ELSE user
        [] OTHER -> DecodeTokenUserL2([user EXCEPT !.level = "L2"])

\* The record of a login whose user is complete: it asks for a token, or fails.
WithUser(record, u) ==
  IF TokenUserOf(u) = Missing THEN Refused(record, 500)
  ELSE [record EXCEPT !.pc = "token", !.user = TokenUserOf(u)]

\* Slip: the registry is left out.
WithCompaniesOnly(record, u) == WithUser(record, u)

\* ... whose companies are known, or need not be.
WithCompanies(record, u) ==
  IF ENABLE_USER_REGISTRY THEN [record EXCEPT !.pc = "registry", !.user = u]
  ELSE WithUser(record, u)

\* Slip: the registry is asked before the authority.
WithAssertionRegistered(record, u) == WithCompanies(record, u)

\* ... whose assertion was accepted.
WithAssertion(record, u) ==
  IF ENABLE_ADE_AA THEN [record EXCEPT !.pc = "authority", !.user = u]
  ELSE WithCompanies(record, u)

Start(l, a) ==
  LET record == [NoLogin EXCEPT !.assertion = a]
  IN  /\ login[l].pc \in {"idle", "done"}
      /\ login' = [login EXCEPT ![l] =
                    IF ToCommonTokenUser(a) = Missing THEN Refused(record, 500)
                    ELSE WithAssertion(record, ToCommonTokenUser(a))]
      /\ UNCHANGED <<vouched, registry>>

(***************************************************************************)
(* getUserCompanies: 500 where there is no reply or one that does not      *)
(* decode, 403 for any status but 200 and for an empty list.               *)
(***************************************************************************)
AuthorityRefuses(l) ==
  /\ login[l].pc = "authority"
  /\ \E status \in {403, 500} : Failed(l, status)
  /\ UNCHANGED <<vouched, registry>>

AuthoritySends(l, companies) ==
  /\ login[l].pc = "authority"
  /\ IF companies = <<>> THEN Failed(l, 403) /\ UNCHANGED vouched
     ELSE /\ vouched' = vouched \union {login[l].user.fiscal_number}
          /\ login' = [login EXCEPT ![l] =
               WithCompanies(@, [@.user EXCEPT !.companies = companies])]
  /\ UNCHANGED registry

(***************************************************************************)
(* blurUser: the citizen is saved and the pseudonym returned.  The PATCH   *)
(* may have saved the citizen although the reply is lost, is not           *)
(* understood or has no value.  The pseudonym is one for one with the      *)
(* citizen, and stands for it here.                                        *)
(***************************************************************************)
\* Slip: the login starts over when the registry fails.
RegistryFailedSoStartOver(l) ==
  /\ login[l].pc = "registry"
  /\ login' = [login EXCEPT ![l].pc = "authority"]
  /\ UNCHANGED <<vouched, registry>>

RegistryReplies(l) ==
  LET citizen == login[l].user.fiscal_number
  IN  /\ login[l].pc = "registry"
      /\ \/ \E status \in {400, 403, 500} :
              /\ Failed(l, status)
              /\ registry' \in {registry, registry \union {citizen}}
         \/ /\ registry' = registry \union {citizen}
            /\ login' = [login EXCEPT ![l] =
                 WithUser(@, [@.user EXCEPT !.uid = citizen])]
      /\ UNCHANGED vouched

(***************************************************************************)
(* getGenerateToken, and the redirect to the page for the kind of token.   *)
(***************************************************************************)
\* Slip: the page is chosen by the configuration alone.
SuccessPathByMode(u) == IF ENABLE_ADE_AA THEN "l1-success" ELSE "success"

SuccessPath(u) ==
  IF ENABLE_ADE_AA /\ ~IsTokenUserL2(u) THEN "l1-success" ELSE "success"

\* What the claim jti may be: the id of the SAML request, where it is asked for and
\* the assertion has one, or an id made for the token.
Jtis == IF ~ENABLE_JWT THEN {"none"}
        ELSE IF JWT_TOKEN_JTI_SPID THEN {"requestId", "ulid"} ELSE {"ulid"}

Redirected(record, jti) ==
  LET user == record.user
  IN  [record EXCEPT !.pc = "done", !.user = Missing,
         !.res = [status |-> 301, path |-> SuccessPath(user), user |-> user,
                  ttl |-> GetTokenExpiration(user), jti |-> jti]]

TokenReplies(l) ==
  /\ login[l].pc = "token"
  /\ \/ Failed(l, 500)
     \/ \E jti \in Jtis : login' = [login EXCEPT ![l] = Redirected(@, jti)]
  /\ UNCHANGED <<vouched, registry>>

-----------------------------------------------------------------------------
\* The instance that serves the login stops; a PATCH on its way may arrive.
Crash(l) ==
  /\ login[l].pc \notin {"idle", "done"}
  /\ registry' \in IF login[l].pc = "registry"
                   THEN {registry, registry \union {login[l].user.fiscal_number}}
                   ELSE {registry}
  /\ login' = [login EXCEPT ![l] = NoLogin]
  /\ UNCHANGED vouched

Init ==
  /\ vouched = {}
  /\ registry = {}
  /\ login = [l \in Login |-> NoLogin]

Continue(l) ==
  \/ AuthorityRefuses(l)
  \/ \E companies \in CompanyReply : AuthoritySends(l, companies)
  \/ RegistryReplies(l)
  \/ TokenReplies(l)

Next ==
  \E l \in Login :
    \/ \E a \in Assertion : Start(l, a)
    \/ Continue(l)
    \/ Crash(l)

Spec == Init /\ [][Next]_vars
=============================================================================
