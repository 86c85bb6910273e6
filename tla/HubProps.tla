------------------------------ MODULE HubProps ------------------------------
(***************************************************************************)
(* What holds of the hub from the assertion to the token, across its parts.*)
(***************************************************************************)
EXTENDS Hub

(***************************************************************************)
(* The token service is asked for no other tokens than it assumes logins   *)
(* to ask for, and what the hub does is what the token service may do: its *)
(* guarantees, those proved of it among them, are guarantees of the hub.   *)
(***************************************************************************)
ImplementsTokenService == Spec

(***************************************************************************)
(* No token acts for a company unless the attribute authority sent it for  *)
(* that citizen, be it the only one, chosen in an upgrade, or carried in   *)
(* the list to choose from; malformed companies get into no token.         *)
(***************************************************************************)
CompaniesOf(u) ==
  (IF u.company = Missing THEN {} ELSE {u.company})
    \union (IF u.companies = Missing THEN {} ELSE ToSet(u.companies))

Mandated(u) ==
  ENABLE_ADE_AA =>
    /\ CompaniesOf(u) # {}
    /\ \A c \in CompaniesOf(u) :
         <<u.fiscal_number, c>> \in mandates /\ IsUserCompany(c)

MandatedCompaniesOnly == \A t \in minted : Mandated(claims[t].user)

(***************************************************************************)
(* Whoever a token names was vouched for by the attribute authority and is *)
(* in the user registry, where the configuration asks for them; upgrades,  *)
(* failed logins and crashes make no exception.                            *)
(***************************************************************************)
WentThroughAll(u) ==
  /\ ENABLE_ADE_AA => u.fiscal_number \in vouched
  /\ ENABLE_USER_REGISTRY => u.fiscal_number \in registry

HoldersWentThroughAll == \A t \in minted : WentThroughAll(claims[t].user)

(***************************************************************************)
(* A citizen is sent to the page for L1 tokens exactly with a token that   *)
(* an upgrade will take, for some company at least.                        *)
(***************************************************************************)
CanUpgrade(u) ==
  \E org \in OrgCode : UpgradeRefusal(DecodeTokenUser(u), org) = 0

L1PageMeansUpgradable ==
  \A l \in Desk : A!Issued(l) =>
    /\ req[l].res.token \in handed
    /\ LET u == claims[req[l].res.token].user
       IN  login[l].res.path = "l1-success" <=> CanUpgrade(u)

(***************************************************************************)
(* Every login ends in a redirect or an error, unless its instance stops.  *)
(***************************************************************************)
EveryLoginAnswered ==
  \A l \in Desk :
    login[l].pc \notin {"idle", "done"} ~> login[l].pc \in {"idle", "done"}

(***************************************************************************)
(* Properties of the login pipeline that hold of it within the hub.        *)
(***************************************************************************)
\* The length of a list, the lifetime and the page agree on the kind of a token,
\* and tokens are asked for users that the token service can read back.
LoginsAgreeOnTheToken == A!KindsAgree /\ A!TokensAskedForIssuableUsers

\* Only the assertion itself is a reason to refuse a login before a service is asked.
LoginRefusedForCause == A!RefusedForCause

-----------------------------------------------------------------------------
(***************************************************************************)
(* The invariant the proofs rest on, besides those of the two components:  *)
(* what a login and the request for its token know of each other, and what *)
(* the authority has to do with the users both have in their hands.        *)
(***************************************************************************)

\* What a login knows of its user's companies while it waits for a reply.
LoginMandated(g) ==
  ENABLE_ADE_AA =>
    /\ g.pc \in {"authority", "registry"} => g.user.company = Missing
    /\ g.pc = "registry" => \A c \in ToSet(g.user.companies) :
                              <<g.user.fiscal_number, c>> \in mandates
    /\ g.pc = "token" => Mandated(g.user)

RequestMandated(q) ==
  q.pc = "mint" => Mandated(q.user) /\ WentThroughAll(q.user)

\* The login waits for the request, and redirects with what it was given.
Joined(g, q) ==
  /\ g.pc = "token" => q.pc = "mint" /\ q.user = g.user
  /\ g.res.status = 301 => /\ g.pc = "done"
                           /\ q.res.token \in handed
                           /\ claims[q.res.token].user = g.res.user

HubInv ==
  /\ A!AcsInv
  /\ MandatedCompaniesOnly
  /\ HoldersWentThroughAll
  /\ \A r \in Req : RequestMandated(req[r])
  /\ \A l \in Desk : LoginMandated(login[l]) /\ Joined(login[l], req[l])
=============================================================================
