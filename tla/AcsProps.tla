------------------------------ MODULE AcsProps ------------------------------
(***************************************************************************)
(* What a login is meant to guarantee.                                     *)
(***************************************************************************)
EXTENDS Acs

\* A user while the login gathers what it consists of has no level yet.
Result == [status : {0, 301, 400, 403, 500},
           path : {"none", "success", "l1-success"},
           user : UserShape \union {Missing}, ttl : Nat,
           jti : {"none", "requestId", "ulid"}]

LoginRecord ==
  [pc : {"idle", "authority", "registry", "token", "done"},
   assertion : Assertion \union {Missing},
   user : UserShape \union {Missing}, res : Result]

\* The state is of the shape the handler assumes, and the registry holds citizens.
TypeOK ==
  /\ vouched \subseteq FiscalCode
  /\ registry \subseteq FiscalCode
  /\ login \in [Login -> LoginRecord]

Issued(l) == login[l].res.status = 301

(***************************************************************************)
(* Three places decide, each in a way of its own, whether a token is L1 or *)
(* L2: the number of companies when the user is made, TokenUser.is when    *)
(* its lifetime is chosen, TokenUserL2.is when the redirect is.  They      *)
(* agree for every login, whatever the authority and the registry sent.    *)
(***************************************************************************)
KindsAgree ==
  \A l \in Login : Issued(l) =>
    LET res == login[l].res
        l1  == ENABLE_ADE_AA /\ res.user.companies # Missing
    IN  /\ res.user.level = IF l1 THEN "L1" ELSE "L2"
        /\ res.path = IF l1 THEN "l1-success" ELSE "success"
        /\ res.ttl = IF ~ENABLE_ADE_AA THEN TOKEN_EXPIRATION
                     ELSE IF l1 THEN L1_TOKEN_EXPIRATION
                     ELSE L2_TOKEN_EXPIRATION

(***************************************************************************)
(* The token service is only asked for tokens of users it can read back,   *)
(* with valid companies and the level that goes with their number; this is *)
(* what the token service assumes of the users of logins.                  *)
(***************************************************************************)
TokensAskedForIssuableUsers ==
  \A l \in Login : login[l].pc = "token" =>
    login[l].user \in UserShape /\ Issuable(login[l].user)

(***************************************************************************)
(* A citizen whom the attribute authority refused, or could not be asked   *)
(* about, is never written to the user registry.                           *)
(***************************************************************************)
OnlyVouchedAreRegistered == ENABLE_ADE_AA => registry \subseteq vouched

(***************************************************************************)
(* Where the registry is enabled, no citizen holds a token without being   *)
(* in it, whatever failed before, and an L1 token carries the pseudonym of *)
(* the citizen it names and of no other.                                   *)
(***************************************************************************)
RegisteredBeforeToken ==
  ENABLE_USER_REGISTRY =>
    \A l \in Login : Issued(l) =>
      /\ login[l].res.user.fiscal_number \in registry
      /\ login[l].res.user.level = "L1" =>
           login[l].res.user.uid = login[l].res.user.fiscal_number

(***************************************************************************)
(* The token is for the citizen of the assertion, at the SPID level of the *)
(* assertion, the lowest where it has none that can be read.               *)
(***************************************************************************)
TokenSpeaksForTheAssertion ==
  \A l \in Login : Issued(l) =>
    LET asserted == login[l].assertion
    IN  /\ login[l].res.user.fiscal_number = asserted.code
        /\ login[l].res.user.spid_level =
             IF asserted.level = Missing THEN LowestLevel ELSE asserted.level

(***************************************************************************)
(* Before it asks any service, a login is only refused where the assertion *)
(* names no citizen or malformed contact data: a prefixed fiscal number, a *)
(* SPID level that cannot be read or a user without companies is no reason.*)
(***************************************************************************)
RefusedForCause ==
  [][\A l \in Login :
       login'[l].pc = "done" /\ login'[l].res.status = 500
         /\ login[l].pc \in {"idle", "done"} /\ login'[l] # login[l]
         => LET asserted == login'[l].assertion
            IN  asserted.code = Missing \/ ~asserted.contact]_vars

-----------------------------------------------------------------------------
(***************************************************************************)
(* "JWT_TOKEN_JTI_SPID: Optional parameter that allow JWT jti reflect the  *)
(* spidRequestId. Default: false": the jti of a token is the request's id  *)
(* only where that parameter says so.                                      *)
(***************************************************************************)
JtiAsConfigured ==
  \A l \in Login : Issued(l) /\ ENABLE_JWT =>
    (login[l].res.jti = "requestId" => EnvJtiSpid)

-----------------------------------------------------------------------------
(***************************************************************************)
(* The invariant the proofs rest on: what the handler knows of its user at *)
(* each await.  A user speaks for the assertion of its login; it is        *)
(* cleared for a token once its companies, its registration and its level  *)
(* have been settled, and the token and the redirect follow from it alone. *)
(***************************************************************************)
Speaks(u, asserted) ==
  u.fiscal_number = asserted.code /\ u.spid_level = SpidLevelOf(asserted)

Vouched(u) == ENABLE_ADE_AA => u.fiscal_number \in vouched

Cleared(u) ==
  /\ Issuable(u)
  /\ u.level = IF ENABLE_ADE_AA /\ u.companies # Missing THEN "L1" ELSE "L2"
  /\ Vouched(u)
  /\ ENABLE_USER_REGISTRY => /\ u.fiscal_number \in registry
                             /\ u.level = "L1" => u.uid = u.fiscal_number

\* What goes to the registry, or straight to the codecs.
Gathered(u) ==
  /\ Vouched(u)
  /\ u.level = Missing
  /\ ENABLE_ADE_AA => u.companies \in Seq(Company) \ {<<>>}

\* What the handler knows of the user while it waits for a reply.
Known(g) ==
  g.pc \in {"authority", "registry", "token"} =>
    /\ g.assertion \in Assertion
    /\ g.user \in UserShape
    /\ g.user.from_aa = ENABLE_ADE_AA
    /\ Speaks(g.user, g.assertion)
    /\ g.pc = "authority" => ENABLE_ADE_AA /\ g.user.level = Missing
    /\ g.pc = "registry" => ENABLE_USER_REGISTRY /\ Gathered(g.user)
    /\ g.pc = "token" => Cleared(g.user)

\* What the redirect and the lifetime of an issued token follow from.
IssuedSoundly(g) ==
  g.res.status = 301 =>
    /\ g.assertion \in Assertion
    /\ g.res.user \in UserShape
    /\ Speaks(g.res.user, g.assertion)
    /\ Cleared(g.res.user)
    /\ g.res.path = SuccessPath(g.res.user)
    /\ g.res.ttl = GetTokenExpiration(g.res.user)

AcsInv ==
  /\ TypeOK
  /\ OnlyVouchedAreRegistered
  /\ \A l \in Login : Known(login[l]) /\ IssuedSoundly(login[l])
=============================================================================
