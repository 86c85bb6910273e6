---------------------------- MODULE TokenCluster ----------------------------
(***************************************************************************)
(* The token service over a Redis cluster, as createClusterRedisClient in  *)
(* src/utils/redis.ts sets it up: commands that write go to the master of  *)
(* a key, and with useReplicas those that read (EXISTS and GET) go to the  *)
(* master or to a replica.  A master answers a write before its replicas   *)
(* have it, and when it fails a replica takes its place with what it has.  *)
(*                                                                         *)
(* The handlers are those of TokenService.  Its session and blacklist are  *)
(* the masters' copies; the variables added here are those of a replica,   *)
(* and the handlers' reading steps are taken over either.                  *)
(***************************************************************************)
EXTENDS TokenServiceProps

CONSTANT MaxFailovers    \* bound on how often a failover may lose a write

ASSUME FailoverAssumption == MaxFailovers \in Nat

VARIABLES
  replicaSession, replicaBlacklist,   \* what the replicas have
  lost,         \* the tokens a failover lost the last write about
  failovers     \* how often that happened

replicas == <<replicaSession, replicaBlacklist>>
clusterVars == <<vars, replicas, lost, failovers>>

\* The service as it would be if the replicas' copies were all there is.
Replica ==
  INSTANCE TokenService WITH session <- replicaSession,
                             blacklist <- replicaBlacklist

\* The replicas have not yet all that the masters have about a token.
Lagging(t) ==
  \/ replicaSession[t] # session[t]
  \/ replicaBlacklist[t] # blacklist[t]

ReadFromReplica(r) ==
  /\ \/ Replica!IntrospectChecked(r)
     \/ Replica!IntrospectRead(r)
     \/ Replica!UpgradeLoad(r)
  /\ UNCHANGED <<store, lost, failovers>>

\* A replica receives what it lacks about a token.  The two keys of a token are
\* in different slots, and in either mode one of them only is ever written.
Replicate(t) ==
  /\ Lagging(t)
  /\ replicaSession' = [replicaSession EXCEPT ![t] = session[t]]
  /\ replicaBlacklist' = [replicaBlacklist EXCEPT ![t] = blacklist[t]]
  /\ UNCHANGED <<vars, lost, failovers>>

\* A master fails before it has replicated its last write about a token.
Failover(t) ==
  /\ failovers < MaxFailovers
  /\ Lagging(t)
  /\ session' = [session EXCEPT ![t] = replicaSession[t]]
  /\ blacklist' = [blacklist EXCEPT ![t] = replicaBlacklist[t]]
  /\ lost' = lost \union {t}
  /\ failovers' = failovers + 1
  /\ UNCHANGED <<now, tokens, history, req, replicas>>

ClusterInit ==
  /\ Init
  /\ replicaSession = session
  /\ replicaBlacklist = blacklist
  /\ lost = {}
  /\ failovers = 0

ClusterNext ==
  \/ Next /\ UNCHANGED <<replicas, lost, failovers>>
  \/ \E r \in Req : ReadFromReplica(r)
  \/ \E t \in Token : Replicate(t) \/ Failover(t)

ClusterSpec == ClusterInit /\ [][ClusterNext]_clusterVars

(***************************************************************************)
(* Replication goes on, and a command is answered by the master or by a    *)
(* replica, or its connection breaks.  Nothing is assumed of the clients   *)
(* or of the clock.                                                        *)
(***************************************************************************)
Replied(r) ==
  \/ Continue(r) /\ UNCHANGED <<replicas, lost, failovers>>
  \/ ReadFromReplica(r)

ClusterFairness ==
  /\ \A t \in Token : WF_clusterVars(Replicate(t))
  /\ \A r \in Req : WF_clusterVars(Replied(r))

FairClusterSpec == ClusterSpec /\ ClusterFairness
=============================================================================
