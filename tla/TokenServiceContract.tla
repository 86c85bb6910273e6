------------------------ MODULE TokenServiceContract ------------------------
(***************************************************************************)
(* The token service implements the contract of a token's life.            *)
(***************************************************************************)
EXTENDS TokenService

\* Where a token is in its life, as /introspect would have it: with sessions its
\* session is there, with JWT it is not blacklisted.
Life(t) ==
  IF t \notin minted THEN "unborn"
  ELSE IF IF ENABLE_JWT THEN IsLive(blacklist[t], now)
                        ELSE ~IsLive(session[t], now) THEN "over"
  ELSE "live"

\* With JWT any string that is not blacklisted is called active, for a gateway
\* has checked its signature; the contract is about the tokens minted here.
Reported(r) ==
  IF req[r].pc = "done" /\ req[r].op = "introspect" /\ req[r].res.active
     /\ req[r].tok \in Token
  THEN req[r].tok ELSE Missing

Contract ==
  INSTANCE SessionContract
    WITH Reporter <- Req, None <- Missing, life <- [t \in Token |-> Life(t)],
         promised <- revoked, report <- [r \in Req |-> Reported(r)]

(***************************************************************************)
(* Every behaviour of the service is one the contract allows: a session or *)
(* the absence of a blacklist entry, once lost, is never restored (a late  *)
(* SETEX does not revive what was deleted, a blacklist entry does not      *)
(* lapse), an acknowledged invalidation has ended the token, and a token   *)
(* is called active at a moment it is.                                     *)
(***************************************************************************)
ImplementsContract == Contract!Spec
=============================================================================
