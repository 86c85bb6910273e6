-------------------------- MODULE TokenClusterProps --------------------------
(***************************************************************************)
(* What is left of the guarantees of the token service when reads may be   *)
(* served by replicas.                                                     *)
(***************************************************************************)
EXTENDS TokenCluster

\* No copy lets /introspect call a token active any more.
OverEverywhere(t) ==
  IF ENABLE_JWT
  THEN IsLive(blacklist[t], now) /\ IsLive(replicaBlacklist[t], now)
  ELSE ~IsLive(session[t], now) /\ ~IsLive(replicaSession[t], now)

(***************************************************************************)
(* A token that is over in all copies is over for good: no replication,    *)
(* failover, late write or later login brings its session back, or lets    *)
(* its blacklist entry go.                                                 *)
(***************************************************************************)
OverForGood ==
  [][\A t \in minted : OverEverywhere(t) => OverEverywhere(t)']_clusterVars

(***************************************************************************)
(* /introspect errs about a token only while replication is behind: it     *)
(* calls active what was invalidated before the request began, or does not *)
(* know a token that a client holds and that nobody ended, only if the     *)
(* copies differ as it reads, or a failover had lost a write.              *)
(***************************************************************************)
Introspected(r) ==
  req[r].op = "introspect" /\ req[r].pc # "done" /\ req'[r].pc = "done"

Errs(r) ==
  \/ req'[r].stale /\ req'[r].res.active
  \/ /\ req'[r].res.status \in {403, 404}
     /\ req[r].tok \in handed \ asked
     /\ now < claims[req[r].tok].exp

ErrsOnlyWhileLagging ==
  [][\A r \in Req : Introspected(r) /\ Errs(r) =>
       \/ Lagging(req[r].tok)
       \/ req[r].tok \in lost]_clusterVars

(***************************************************************************)
(* An invalidation that was answered 200 reaches all copies in the end,    *)
(* unless a failover loses it.                                             *)
(***************************************************************************)
RevokedDiesOut ==
  \A t \in Token : t \in revoked ~> OverEverywhere(t) \/ t \in lost

-----------------------------------------------------------------------------
(***************************************************************************)
(* The invariant the proofs rest on.  A failover takes away the reason why *)
(* a revoked token stays out of reach, so what RevokedIsOver says of every *)
(* token holds here of the masters, and of those tokens only that no       *)
(* failover lost a write about.  Of a replica nothing more is known than   *)
(* that what it has was the masters' once.                                 *)
(***************************************************************************)
CopyOK(s, b) ==
  /\ s \in [TokenStr -> [value : UserOrNone, expireAt : Nat]]
  /\ b \in [TokenStr -> [value : {"true", Missing}, expireAt : Nat]]
  /\ \A t \in TokenStr \ minted : s[t] = Absent
  /\ \A t \in TokenStr : b[t] # Absent => t \in asked /\ b[t].expireAt > MaxNow

\* What the masters have of a token that no failover lost a write about.
KeptByMasters(t) ==
  /\ t \in revoked =>
       IF ENABLE_JWT THEN blacklist[t].expireAt > MaxNow ELSE session[t] = Absent
  /\ t \notin asked /\ ~ENABLE_JWT => session[t] = SessionOf(t)

ClusterInv ==
  /\ TypeOK
  /\ MintedClaims
  /\ CopyOK(session, blacklist)
  /\ CopyOK(replicaSession, replicaBlacklist)
  /\ \A t \in minted \ lost : KeptByMasters(t)
  /\ \A r \in Req : Awaiting(req[r]) /\ (req[r].pc = "idle" => req[r].op = "none")
=============================================================================
