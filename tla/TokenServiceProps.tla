-------------------------- MODULE TokenServiceProps --------------------------
(***************************************************************************)
(* What the token service is meant to guarantee, and what its documents    *)
(* say of it that it does not.                                             *)
(***************************************************************************)
EXTENDS TokenService

UserOrNone == UserShape \union {Missing}

Claims == [user : UserOrNone, iat : Nat, exp : Nat,
           parent : Token \union {Missing}, org : OrgCode \union {Missing}]

Response == [status : {0, 200, 301, 400, 403, 404, 500}, active : BOOLEAN,
             level : {"L1", "L2", Missing}, user : UserOrNone,
             token : Token \union {Missing}]

Request ==
  [pc    : {"idle", "exists", "get", "setex", "del", "load", "mint", "done"},
   op    : {"none", "introspect", "invalidate", "upgrade", "login"},
   tok   : TokenStr \union {Missing}, header : BOOLEAN,
   org   : OrgCode \union {Missing}, user : UserOrNone,
   stale : BOOLEAN, res : Response]

\* The state is of the shape the handlers assume; every token a client was given
\* was generated, and only tokens a client could send were ever invalidated.
TypeOK ==
  /\ now \in Epoch .. MaxNow
  /\ session \in [TokenStr -> [value : UserOrNone, expireAt : Nat]]
  /\ blacklist \in [TokenStr -> [value : {"true", Missing}, expireAt : Nat]]
  /\ claims \in [Token -> Claims]
  /\ minted \subseteq Token
  /\ handed \subseteq minted
  /\ asked \subseteq handed
  /\ revoked \subseteq asked
  /\ req \in [Req -> Request]

-----------------------------------------------------------------------------
(***************************************************************************)
(* Once a client was told that a token is invalidated, no introspection    *)
(* that begins afterwards calls it active: however long it takes, whichever*)
(* instance serves it, and however long after the token has expired (in    *)
(* JWT mode the blacklist is all that /introspect looks at).               *)
(***************************************************************************)
InvalidationSticks ==
  \A r \in Req :
    req[r].pc = "done" /\ req[r].op = "introspect" /\ req[r].stale
      => ~req[r].res.active

(***************************************************************************)
(* Once a client was told that a token is invalidated, no upgrade that     *)
(* begins afterwards obtains an L2 token from it.  It is so for sessions;  *)
(* upgradeTokenHandler never looks at the blacklist.                       *)
(***************************************************************************)
UpgradeHonoursInvalidation ==
  \A r \in Req :
    req[r].pc = "done" /\ req[r].op = "upgrade" /\ req[r].stale
      => req[r].res.status # 200

(***************************************************************************)
(* Every L2 token that was not minted by a login derives from an L1 token, *)
(* for the same citizen at the same SPID level, and names the company its  *)
(* requester asked for, as that L1 token describes it: two upgrades of one *)
(* token, or an invalidation, a crash or an expiry between the reading of  *)
(* the session and the minting, never mix up users or companies.           *)
(***************************************************************************)
L2Provenance ==
  \A t \in minted :
    LET parent == claims[t].parent IN
    parent # Missing =>
      /\ parent \in minted
      /\ claims[parent].parent = Missing
      /\ IsTokenUser(claims[parent].user)
      /\ IsTokenUserL2(claims[t].user)
      /\ claims[t].user.fiscal_number = claims[parent].user.fiscal_number
      /\ claims[t].user.spid_level = claims[parent].user.spid_level
      /\ claims[t].user.company \in ToSet(claims[parent].user.companies)
      /\ claims[t].user.company.organization_fiscal_code = claims[t].org

(***************************************************************************)
(* A token that a client holds, that nobody asked to invalidate and that   *)
(* has not expired is good: its session is in Redis, or it is not          *)
(* blacklisted.  Failed writes, crashes and invalidations of other tokens  *)
(* do not take it away.                                                    *)
(***************************************************************************)
NobodyElseEndsASession ==
  \A t \in handed \ asked :
    IF ENABLE_JWT THEN ~IsLive(blacklist[t], now)
    ELSE now < claims[t].exp => IsLive(session[t], now)

(***************************************************************************)
(* What /introspect tells of a session is the level, and where configured  *)
(* the user, that the token was minted with.  And there is always such an  *)
(* answer to give: whatever login or upgrade minted it, a session that has *)
(* not expired is read back through the union of the two codecs as it was  *)
(* stored, so that a call answers 500 only where Redis failed it.          *)
(***************************************************************************)
TellsTheMinted ==
  \A r \in Req :
    req[r].pc = "done" /\ req[r].op = "introspect" /\ req[r].res.active
      => /\ req[r].tok \in minted
         /\ req[r].res = ActiveUser(claims[req[r].tok].user)

SessionsReadBack ==
  \A t \in minted :
    LET raw == Get(session, t, now)
    IN  raw # Missing => SessionAnswer(raw) = ActiveUser(claims[t].user)

IntrospectionTellsTheMinted == ~ENABLE_JWT => TellsTheMinted /\ SessionsReadBack

(***************************************************************************)
(* A session is called active only within the lifetime configured for the  *)
(* level it shows, counted from the moment its token was minted.           *)
(***************************************************************************)
LifetimeOfLevel(level) ==
  IF ~ENABLE_ADE_AA THEN TOKEN_EXPIRATION
  ELSE IF level = "L1" THEN L1_TOKEN_EXPIRATION ELSE L2_TOKEN_EXPIRATION

ReportsActive(r) ==
  /\ req[r].op = "introspect"
  /\ req[r].pc # "done"
  /\ req'[r].pc = "done"
  /\ req'[r].res.active

ActiveWithinLifetime ==
  [][\A r \in Req : ReportsActive(r) /\ ~ENABLE_JWT =>
        now < claims[req[r].tok].iat + LifetimeOfLevel(req'[r].res.level)]_vars

(***************************************************************************)
(* Every request is answered, unless its instance stops: no handler is     *)
(* left waiting for a reply it never asked for.                            *)
(***************************************************************************)
EveryRequestAnswered == \A r \in Req : ~Free(r) ~> Free(r)

-----------------------------------------------------------------------------
(***************************************************************************)
(* "/invalidate: Invalidates a previous released token".  An L1 token the  *)
(* service invalidated is of no more use to it.                            *)
(***************************************************************************)
InvalidatedTokenIsNotUpgraded == UpgradeHonoursInvalidation

(***************************************************************************)
(* The time to live of a blacklist entry is what extractJwtRemainingValid- *)
(* Time returns, the time the token has left: the entry goes with it.      *)
(***************************************************************************)
BlacklistEntryEndsWithToken ==
  \A t \in minted : blacklist[t].expireAt <= claims[t].exp

(***************************************************************************)
(* The L1 token of an upgrade is the one in the required header.           *)
(***************************************************************************)
UpgradesTheHeaderToken ==
  \A r \in Req :
    req[r].pc = "done" /\ req[r].op = "upgrade" /\ req[r].res.status = 200
      => req[r].header

-----------------------------------------------------------------------------
(***************************************************************************)
(* The inductive invariant behind the proofs.  What was invalidated stays  *)
(* out of reach of every later step, for two reasons that differ by mode:  *)
(* a session that is gone could only come back under a name that is still  *)
(* unminted; a blacklist entry, whose time to live is a date, outlasts the *)
(* horizon.                                                                *)
(***************************************************************************)
RevokedIsOver ==
  \A t \in revoked :
    IF ENABLE_JWT THEN blacklist[t].expireAt > MaxNow ELSE session[t] = Absent

OnlyMintedHaveSessions == \A t \in TokenStr \ minted : session[t] = Absent

MintedClaims ==
  \A t \in minted : claims[t].user \in UserShape /\ claims[t].exp >= Epoch

\* What a request in the making may rely on, by the reply it waits for.
Awaiting(q) ==
  /\ q.pc \in {"exists", "get"} => q.op = "introspect" /\ q.tok \in TokenStr
  /\ q.pc = "get" => ~ENABLE_JWT
  /\ q.pc = "setex" => ENABLE_JWT /\ q.op = "invalidate" /\ q.tok \in asked
  /\ q.pc = "del" => q.op = "invalidate" /\ q.tok \in asked \union {Junk}
  /\ q.pc = "del" => ~ENABLE_JWT
  /\ q.pc = "load" => q.op = "upgrade" /\ q.tok \in TokenStr /\ q.org \in OrgCode
  /\ q.pc = "mint" => q.op \in {"login", "upgrade"} /\ q.user \in UserShape
                      /\ q.tok \in Token \union {Missing}
  /\ q.stale => q.tok \in revoked

RequestOK(q) ==
  /\ Awaiting(q)
  /\ q.pc = "mint" /\ ~ENABLE_JWT => ~q.stale
  /\ q.pc = "done" /\ q.op = "introspect" /\ q.stale => ~q.res.active
  /\ q.pc = "done" /\ q.op = "upgrade" /\ q.stale /\ ~ENABLE_JWT
       => q.res.status # 200

IInv ==
  /\ TypeOK
  /\ RevokedIsOver
  /\ OnlyMintedHaveSessions
  /\ MintedClaims
  /\ \A r \in Req : RequestOK(req[r])

-----------------------------------------------------------------------------
(***************************************************************************)
(* A second inductive invariant, of what a token is rather than of when it *)
(* is over.  A user is checked where a login or an upgrade makes it, and   *)
(* nowhere later: that a session can be read back, shows whom it was       *)
(* minted for and ends when its claims say rests on what claims, sessions  *)
(* and the requests about to mint have had in them ever since.             *)
(***************************************************************************)

\* The user u may be minted from the token parent, for the company of code org.
Derives(u, parent, org) ==
  /\ parent \in minted
  /\ claims[parent].parent = Missing
  /\ IsTokenUser(claims[parent].user)
  /\ IsTokenUserL2(u)
  /\ u.fiscal_number = claims[parent].user.fiscal_number
  /\ u.spid_level = claims[parent].user.spid_level
  /\ u.company \in ToSet(claims[parent].user.companies)
  /\ u.company.organization_fiscal_code = org
  /\ u.companies = Missing

SoundClaims(c) ==
  /\ c.user \in UserShape /\ Issuable(c.user)
  /\ c.exp = c.iat + GetTokenExpiration(c.user)
  /\ c.parent # Missing => Derives(c.user, c.parent, c.org)

MintedSoundly == \A t \in minted : SoundClaims(claims[t])

\* The session that a token was minted with.
SessionOf(t) == [value |-> claims[t].user, expireAt |-> claims[t].exp]

SessionsAsMinted ==
  \A t \in minted :
    /\ session[t] \in {SessionOf(t), Absent}
    /\ ~ENABLE_JWT /\ t \notin asked => session[t] = SessionOf(t)

\* Only what was asked for is blacklisted, and beyond the horizon.
BlacklistedForGood ==
  \A t \in TokenStr :
    \/ blacklist[t] = Absent
    \/ t \in asked /\ blacklist[t].expireAt > MaxNow

\* What a request knows of the token it reads, and of the user it mints for.
RequestKnows(q) ==
  /\ q.pc = "idle" => q.op = "none"
  /\ q.pc \in {"exists", "get"} => q.tok \in minted \union {Junk}
  /\ q.pc = "mint" => /\ Issuable(q.user)
                      /\ q.tok # Missing => Derives(q.user, q.tok, q.org)
  /\ q.pc = "done" /\ q.op = "introspect" /\ q.res.active /\ ~ENABLE_JWT =>
       q.tok \in minted /\ q.res = ActiveUser(claims[q.tok].user)

LifeInv ==
  /\ MintedSoundly
  /\ SessionsAsMinted
  /\ BlacklistedForGood
  /\ \A r \in Req : RequestKnows(req[r])
=============================================================================
