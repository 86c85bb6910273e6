----------------------------- MODULE TokenUsers -----------------------------
(***************************************************************************)
(* The users a token speaks for: src/types/user.ts, the conversions of     *)
(* src/utils/conversions.ts and the choice of a lifetime in                *)
(* src/handlers/token.ts.                                                  *)
(*                                                                         *)
(* Every user is a record of one shape whose absent properties are         *)
(* Missing, which is what JSON makes of an undefined property when a user  *)
(* travels through Redis or through the payload of a JWT.  The optional    *)
(* contact data (names, e-mail, telephone) rides along with fiscal_number  *)
(* and is not represented.                                                 *)
(***************************************************************************)
EXTENDS Optional, Integers, Sequences, SequencesExt

CONSTANTS
  FiscalCode,        \* the strings the FiscalCode codec accepts
  SpidLevel,         \* the members of SpidLevelEnum
  OrgCode,           \* the strings WithinRangeString(8, 16) accepts
  Company,           \* records [organization_fiscal_code, organization_name]
  ENABLE_ADE_AA,     \* is there an attribute authority to ask for companies?
  L1_TOKEN_EXPIRATION, L2_TOKEN_EXPIRATION, TOKEN_EXPIRATION

ASSUME ConfigAssumption ==
  /\ ENABLE_ADE_AA \in BOOLEAN
  /\ {L1_TOKEN_EXPIRATION, L2_TOKEN_EXPIRATION, TOKEN_EXPIRATION} \subseteq Nat

UserShape ==
  [fiscal_number : FiscalCode, spid_level : SpidLevel, from_aa : BOOLEAN,
   companies : Seq(Company) \union {Missing},
   company   : Company \union {Missing},
   uid       : FiscalCode \union {Missing},
   level     : {"L1", "L2", Missing}]

\* What is absent is neither a level nor a user.
ASSUME MissingAssumption == Missing \notin {"L1", "L2"} \union UserShape

(***************************************************************************)
(* The codecs.  X.is tests a value as it stands; X.decode first gives a    *)
(* missing level its default, and fails where the value still is not an X. *)
(***************************************************************************)
IsUserCompany(c) ==
  /\ c # Missing
  /\ c.organization_fiscal_code \in OrgCode
  /\ c.organization_name # Missing

IsCommonTokenUser(u) ==
  /\ u.fiscal_number \in FiscalCode
  /\ u.spid_level \in SpidLevel

IsTokenUser(u) ==
  /\ IsCommonTokenUser(u)
  /\ u.from_aa => /\ u.companies # Missing
                  /\ \A i \in DOMAIN u.companies : IsUserCompany(u.companies[i])
  /\ u.level = "L1"

IsTokenUserL2(u) ==
  /\ IsCommonTokenUser(u)
  /\ u.from_aa => IsUserCompany(u.company)
  /\ u.level = "L2"

\* Slip: a default that replaces the level it finds.
WithLevelForced(u, level) == [u EXCEPT !.level = level]

WithDefaultLevel(u, level) ==
  IF u.level = Missing THEN [u EXCEPT !.level = level] ELSE u

DecodeTokenUser(u) ==
  LET v == WithDefaultLevel(u, "L1") IN IF IsTokenUser(v) THEN v ELSE Missing

DecodeTokenUserL2(u) ==
  LET v == WithDefaultLevel(u, "L2") IN IF IsTokenUserL2(v) THEN v ELSE Missing

\* Slip: the codec of L2 users alone.
DecodeL2TokenUser(u) == DecodeTokenUserL2(u)

\* t.union([TokenUser, TokenUserL2]).decode: the first codec that accepts.
DecodeAnyTokenUser(u) ==
  IF DecodeTokenUser(u) # Missing THEN DecodeTokenUser(u)
                                  ELSE DecodeTokenUserL2(u)

(***************************************************************************)
(* The conversions.                                                        *)
(***************************************************************************)

\* Slips: the level is copied with the rest; the SPID level stands for it.
ToTokenUserL2SameLevel(from, company) ==
  [from EXCEPT !.companies = Missing, !.company = company, !.uid = Missing]

ToTokenUserL2WithSpidLevel(from, company) ==
  [from EXCEPT !.companies = Missing, !.company = company, !.uid = Missing,
               !.level = from.spid_level]

\* An L2 user is built property by property: companies and uid are not copied.
ToTokenUserL2(from, company) ==
  [fiscal_number |-> from.fiscal_number, spid_level |-> from.spid_level,
   from_aa |-> from.from_aa, companies |-> Missing, company |-> company,
   uid |-> Missing, level |-> "L2"]

\* Slips: a company by that code of another list; the first whatever the code.
CompanyOfOthers(companies, code) ==
  LET others == {c \in Company \ ToSet(companies) :
                   c.organization_fiscal_code = code}
  IN  IF others = {} THEN Missing ELSE CHOOSE c \in others : TRUE
FirstCompany(companies, code) == companies[1]

\* companies.find(e => e.organization_fiscal_code === code)
FindCompany(companies, code) ==
  LET i == SelectInSeq(companies, LAMBDA c : c.organization_fiscal_code = code)
  IN  IF i = 0 THEN Missing ELSE companies[i]

(***************************************************************************)
(* The lifetime of a token, in seconds, from what its user is.             *)
(***************************************************************************)
\* Slips: the two lifetimes swapped; the mode not looked at.
GetTokenExpirationSwapped(u) ==
  IF IsTokenUser(u) THEN L2_TOKEN_EXPIRATION ELSE L1_TOKEN_EXPIRATION
GetTokenExpirationByLevel(u) ==
  IF IsTokenUser(u) THEN L1_TOKEN_EXPIRATION ELSE L2_TOKEN_EXPIRATION

GetTokenExpiration(u) ==
  IF ~ENABLE_ADE_AA THEN TOKEN_EXPIRATION
  ELSE IF IsTokenUser(u) THEN L1_TOKEN_EXPIRATION ELSE L2_TOKEN_EXPIRATION

(***************************************************************************)
(* The users that a login asks a token for: without the attribute          *)
(* authority an L2 user of no company; with it an L2 user of the only      *)
(* company, or an L1 user with several to choose from.  It is what the     *)
(* token service may rely on and what the login pipeline has to ensure.    *)
(***************************************************************************)
Issuable(u) ==
  /\ u.from_aa = ENABLE_ADE_AA
  /\ \/ IsTokenUserL2(u)
     \/ ENABLE_ADE_AA /\ IsTokenUser(u) /\ Len(u.companies) > 1
=============================================================================
