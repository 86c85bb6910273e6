-------------------------------- MODULE Hub --------------------------------
(***************************************************************************)
(* The hub as a whole: the login pipeline of Acs and the token service of  *)
(* TokenService in one process, as getAcs in src/handlers/spid.ts and the  *)
(* routes of src/app.ts put them together.                                 *)
(*                                                                         *)
(* A slot of Desk serves logins, the other slots of Req serve the clients' *)
(* requests.  The two components meet twice.  In the step in which the     *)
(* user of a login is complete, getAcs calls getGenerateToken: the login   *)
(* waits for its token, and the token service serves a request for it.     *)
(* The reply of the one is the outcome of the other.                       *)
(***************************************************************************)
EXTENDS TokenServiceProps

CONSTANTS
  Desk,                     \* the slots that serve logins
  Asserted,                 \* the assertions the logins come with
  ClientOps,                \* bound: the operations the clients make use of
  LowestLevel, CompanyReply, ENABLE_USER_REGISTRY, EnvJtiSpid    \* as in Acs

VARIABLES
  vouched, registry, login, \* as in Acs
  mandates                  \* <<citizen, company>>: what the authority sent so far

acsVars == <<vouched, registry, login>>
hubVars == <<vars, acsVars, mandates>>

A == INSTANCE AcsProps WITH Login <- Desk

ASSUME HubAssumption ==
  /\ Desk \subseteq Req
  /\ Asserted \subseteq A!Assertion
  /\ ClientOps \subseteq {"introspect", "invalidate", "upgrade"}
  /\ {ENABLE_USER_REGISTRY, EnvJtiSpid} \subseteq BOOLEAN
  /\ ENABLE_USER_REGISTRY => ENABLE_JWT
  /\ LowestLevel \in SpidLevel
  /\ CompanyReply \subseteq Seq(Company)

-----------------------------------------------------------------------------
\* A login whose user is complete asks the token service for a token.
TokenAsked(l) ==
  IF login'[l].pc = "token" THEN GetGenerateToken(l, login'[l].user)
                            ELSE UNCHANGED vars

LoginStarts(l) ==
  /\ \E a \in Asserted : A!Start(l, a)
  /\ TokenAsked(l)
  /\ UNCHANGED mandates

AuthorityReplies(l) ==
  /\ \/ A!AuthorityRefuses(l) /\ UNCHANGED mandates
     \/ \E companies \in CompanyReply :
          /\ A!AuthoritySends(l, companies)
          /\ mandates' = mandates \union
               {<<login[l].user.fiscal_number, c>> : c \in ToSet(companies)}
  /\ TokenAsked(l)

RegistryReplies(l) ==
  /\ A!RegistryReplies(l)
  /\ TokenAsked(l)
  /\ UNCHANGED mandates

\* The token is there, and the citizen is redirected with it; or neither.
TokenReplies(l) ==
  /\ MintJwt(l) \/ MintSession(l)
  /\ A!TokenReplies(l)
  /\ login'[l].res.status = req'[l].res.status
  /\ UNCHANGED mandates

LoginContinues(l) ==
  \/ AuthorityReplies(l)
  \/ RegistryReplies(l)
  \/ TokenReplies(l)

\* The instance that serves a login stops.
LoginCrashes(l) ==
  /\ A!Crash(l)
  /\ IF Free(l) THEN UNCHANGED vars ELSE Crash({l})
  /\ UNCHANGED mandates

ClientStep(r) ==
  /\ \/ ClientStart(r) /\ req'[r].op \in ClientOps
     \/ Continue(r)
     \/ Crash({r})
  /\ UNCHANGED <<acsVars, mandates>>

HubInit ==
  /\ Init
  /\ A!Init
  /\ mandates = {}

HubNext ==
  \/ \E l \in Desk : LoginStarts(l) \/ LoginContinues(l) \/ LoginCrashes(l)
  \/ \E r \in Req \ Desk : ClientStep(r)
  \/ Tick /\ UNCHANGED <<acsVars, mandates>>

HubSpec == HubInit /\ [][HubNext]_hubVars

(***************************************************************************)
(* The services answer, or the connections to them break.  No call carries *)
(* a timeout of its own.                                                   *)
(***************************************************************************)
HubFairness == \A l \in Desk : WF_hubVars(LoginContinues(l))

FairHubSpec == HubSpec /\ HubFairness
=============================================================================
