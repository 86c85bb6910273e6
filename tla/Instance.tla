------------------------------ MODULE Instance ------------------------------
(***************************************************************************)
(* The life of one instance: src/server.ts and src/app.ts from the loading *)
(* of the configuration to the end of the process, with the Redis client   *)
(* of src/utils/redis.ts, the refreshes of the identity providers'         *)
(* metadata, and the health check of src/handlers/general.ts.              *)
(*                                                                         *)
(* createAppTask connects to Redis, lets the SAML library load, adds the   *)
(* routes, starts a timer, and server.ts listens.  A refresh is started by *)
(* the timer or by GET /refresh; it reads the published metadata at one    *)
(* moment and puts them in force at another, or fails to read them, and    *)
(* any number of refreshes overlap.  The refresher is a Task, which tells  *)
(* nobody that it failed.                                                  *)
(***************************************************************************)
EXTENDS Config

CONSTANTS
  Env,            \* the environments an instance may be started in
  Followed,       \* bound: those in which it is followed beyond its configuration
  TimerLimit,     \* what the timer counts to: 10 in the code
  Route,          \* slots for /refresh requests under way: a bound on them
  MaxOutages,     \* bound on how often Redis becomes unreachable
  MaxPublished    \* bound on how often the metadata change

ASSUME BoundsAssumption ==
  /\ {TimerLimit, MaxOutages, MaxPublished} \subseteq Nat
  /\ \A k \in Route : k \notin Nat

VARIABLES
  env,         \* the environment of the process
  config,      \* what it is decoded to
  proc,        \* how far the process is
  link,        \* the Redis client: "none", "up", "down", "closing" or "closed"
  outages,     \* how often it was down
  timer,       \* "off" or "on"
  fired,       \* countInterval: how often the timer fired
  refresh,     \* the refreshes under way
  published,   \* the version of the metadata that is published
  installed,   \* the version in force
  check        \* the health check under way

linkVars == <<link, outages>>
timerVars == <<timer, fired>>
metadata == <<refresh, published, installed>>
vars == <<env, config, proc, linkVars, timerVars, metadata, check>>

Firing == 1 .. TimerLimit + 1
Refresh == Firing \union Route

\* A refresh remembers what was published when it was asked for, what it got, and
\* whether others put theirs in force between its reading and its own.
NoRefresh == [pc |-> "idle", asked |-> 0, got |-> 0, overtaken |-> FALSE]

\* Commands sent are answered, by Redis or as those of a client that is closed.
Connected == link \in {"up", "closed"}

NoCheck == [pc |-> "idle", late |-> FALSE, status |-> 0]

\* getConfigOrThrow, called as the modules are loaded, ends the process.
Init ==
  /\ env \in Env
  /\ config = Decode(env)
  /\ proc = IF config = Missing THEN "exited" ELSE "connecting"
  /\ link = "none"
  /\ outages = 0
  /\ timer = "off"
  /\ fired = 0
  /\ refresh = [k \in Refresh |-> NoRefresh]
  /\ published = 0
  /\ installed = 0
  /\ check = NoCheck

-----------------------------------------------------------------------------
(***************************************************************************)
(* Start-up.                                                               *)
(***************************************************************************)
\* Without Redis the failure is logged, and that is all.
ConnectRedis ==
  /\ proc = "connecting"
  /\ env \in Followed
  /\ \/ proc' = "building" /\ link' = "up"
     \/ proc' = "stranded" /\ UNCHANGED link
  /\ UNCHANGED <<env, config, outages, timerVars, metadata, check>>

\* withSpid loads, the routes and the timer are set up and listen is called; or it
\* rejects, and server.ts ends the process.
WithSpid ==
  /\ proc = "building"
  /\ \/ proc' = "binding" /\ timer' = "on"
     \/ proc' = "exited" /\ UNCHANGED timer
  /\ UNCHANGED <<env, config, linkVars, fired, metadata, check>>

\* The port is free, or the error that says it is not goes unhandled.
Listen ==
  /\ proc = "binding"
  /\ proc' \in {"listening", "exited"}
  /\ UNCHANGED <<env, config, linkVars, timerVars, metadata, check>>

(***************************************************************************)
(* SIGINT.  Until Redis is connected it ends the process, as is the custom.*)
(* From then on it closes the client, and the process goes on without it;  *)
(* when it comes again, closing fails, which is logged.  A client that is  *)
(* told to quit while Redis is unreachable takes no more commands, and     *)
(* says so to Redis when it can.                                           *)
(***************************************************************************)
Interrupt ==
  /\ proc # "exited"
  /\ IF link = "none"
     THEN proc' = "exited" /\ UNCHANGED link
     ELSE /\ link' = IF link \in {"down", "closing"} THEN "closing" ELSE "closed"
          /\ UNCHANGED proc
  /\ UNCHANGED <<env, config, outages, timerVars, metadata, check>>

\* Redis becomes unreachable and reachable again; the client keeps trying, and
\* keeps the commands it is given meanwhile.
LinkBreaks ==
  /\ proc # "exited"
  /\ link = "up"
  /\ outages < MaxOutages
  /\ link' = "down"
  /\ outages' = outages + 1
  /\ UNCHANGED <<env, config, proc, timerVars, metadata, check>>

LinkRestored ==
  /\ proc # "exited"
  /\ link \in {"down", "closing"}
  /\ link' = IF link = "down" THEN "up" ELSE "closed"
  /\ UNCHANGED <<env, config, proc, outages, timerVars, metadata, check>>

-----------------------------------------------------------------------------
(***************************************************************************)
(* The metadata.                                                           *)
(***************************************************************************)
Publish ==
  /\ published < MaxPublished
  /\ published' = published + 1
  /\ UNCHANGED <<env, config, proc, linkVars, timerVars, refresh, installed, check>>

RefreshBegins(k) ==
  refresh' = [refresh EXCEPT ![k] = [NoRefresh EXCEPT !.pc = "fetching",
                                                      !.asked = published]]

\* Slip: the count starts over, and the timer is never cleared.
TimerFiresOnAndOn ==
  /\ proc # "exited"
  /\ timer = "on"
  /\ fired' = IF fired = TimerLimit THEN 0 ELSE fired + 1
  /\ RefreshBegins(fired + 1)
  /\ UNCHANGED <<env, config, proc, linkVars, timer, published, installed, check>>

\* Every five seconds, without waiting for the refreshes before; the timer is
\* cleared once it has counted beyond the limit, and refreshes that time too.
TimerFires ==
  /\ proc # "exited"
  /\ timer = "on"
  /\ fired' = fired + 1
  /\ timer' = IF fired' > TimerLimit THEN "off" ELSE "on"
  /\ RefreshBegins(fired')
  /\ UNCHANGED <<env, config, proc, linkVars, published, installed, check>>

\* Slip: the refresher is called once, and the later requests given its result.
RefreshAskedCached(k) ==
  /\ proc = "listening"
  /\ \/ refresh[k].pc = "idle" /\ RefreshBegins(k)
     \/ /\ refresh[k].pc = "completed"
        /\ refresh' = [refresh EXCEPT ![k].pc = "fetched", ![k].asked = published]
  /\ UNCHANGED <<env, config, proc, linkVars, timerVars, published, installed, check>>

\* GET /refresh, metadataRefreshHandler.
RefreshAsked(k) ==
  /\ proc = "listening"
  /\ refresh[k].pc \in {"idle", "completed"}
  /\ RefreshBegins(k)
  /\ UNCHANGED <<env, config, proc, linkVars, timerVars, published, installed, check>>

Fetch(k) ==
  /\ proc # "exited"
  /\ refresh[k].pc = "fetching"
  /\ refresh' = [refresh EXCEPT ![k] =
                  [@ EXCEPT !.pc = "fetched", !.got = published]]
  /\ UNCHANGED <<env, config, proc, linkVars, timerVars, published, installed, check>>

\* A refresh that is over: /refresh answers "completed".
Resolved(k) ==
  IF k \in Route THEN [refresh[k] EXCEPT !.pc = "completed"] ELSE NoRefresh

Install(k) ==
  /\ proc # "exited"
  /\ refresh[k].pc = "fetched"
  /\ installed' = refresh[k].got
  /\ refresh' = [m \in Refresh |->
                  IF m = k THEN Resolved(k)
                  ELSE IF refresh[m].pc = "fetched"
                  THEN [refresh[m] EXCEPT !.overtaken = TRUE] ELSE refresh[m]]
  /\ UNCHANGED <<env, config, proc, linkVars, timerVars, published, check>>

\* The metadata could not be fetched: those in force stay, and the refresh is over
\* all the same.
ResolveUnrenewed(k) ==
  /\ proc # "exited"
  /\ refresh[k].pc = "fetching"
  /\ refresh' = [refresh EXCEPT ![k] = Resolved(k)]
  /\ UNCHANGED <<env, config, proc, linkVars, timerVars, published, installed, check>>

\* The refresher throws for another reason.  The timer catches that.  The handler of
\* /refresh does not: the request is never answered, and the process ends, unless
\* telemetry listens for that.
Reject(k) ==
  /\ proc # "exited"
  /\ refresh[k].pc = "fetching"
  /\ refresh' = [refresh EXCEPT ![k] = NoRefresh]
  /\ proc' \in IF k \in Route THEN {proc, "exited"} ELSE {proc}
  /\ UNCHANGED <<env, config, linkVars, timerVars, published, installed, check>>

-----------------------------------------------------------------------------
(***************************************************************************)
(* GET /healthcheck: INCR, then the attribute authority where there is one.*)
(* late records that the client had been told to quit when the check began.*)
(***************************************************************************)
CheckBegins ==
  /\ proc = "listening"
  /\ check.pc \in {"idle", "done"}
  /\ check' = [NoCheck EXCEPT !.pc = "incr",
                                   !.late = link \in {"closing", "closed"}]
  /\ UNCHANGED <<env, config, proc, linkVars, timerVars, metadata>>

CheckAnswered(status) == check' = [check EXCEPT !.pc = "done", !.status = status]

\* What follows a reply of Redis.
RedisCounted ==
  IF config.ENABLE_ADE_AA THEN check' = [check EXCEPT !.pc = "ping"]
                          ELSE CheckAnswered(200)

\* A command waits as long as Redis is unreachable.  It fails at once on a client
\* that was told to quit, unless it had been sent before.
CheckIncr ==
  /\ proc # "exited"
  /\ check.pc = "incr"
  /\ Connected \/ check.late
  /\ \/ CheckAnswered(500)
     \/ ~check.late /\ RedisCounted
  /\ UNCHANGED <<env, config, proc, linkVars, timerVars, metadata>>

CheckPing ==
  /\ proc # "exited"
  /\ check.pc = "ping"
  /\ \E status \in {200, 500} : CheckAnswered(status)
  /\ UNCHANGED <<env, config, proc, linkVars, timerVars, metadata>>

-----------------------------------------------------------------------------
RefreshProceeds(k) ==
  Fetch(k) \/ Install(k) \/ ResolveUnrenewed(k) \/ Reject(k)

Next ==
  \/ ConnectRedis \/ WithSpid \/ Listen
  \/ Interrupt \/ LinkBreaks \/ LinkRestored
  \/ Publish \/ TimerFires
  \/ \E k \in Route : RefreshAsked(k)
  \/ \E k \in Refresh : RefreshProceeds(k)
  \/ CheckBegins \/ CheckIncr \/ CheckPing

Spec == Init /\ [][Next]_vars

(***************************************************************************)
(* What was begun goes on: connections are made or fail, the timer fires,  *)
(* services answer or break.  Queued commands are sent whenever the client *)
(* is connected again, which is why INCR is treated strongly; that Redis   *)
(* ever comes back is not assumed.                                         *)
(***************************************************************************)
Fairness ==
  /\ WF_vars(ConnectRedis) /\ WF_vars(WithSpid) /\ WF_vars(Listen)
  /\ WF_vars(TimerFires)
  /\ \A k \in Refresh : WF_vars(RefreshProceeds(k))
  /\ SF_vars(CheckIncr)
  /\ WF_vars(CheckPing)

FairSpec == Spec /\ Fairness
=============================================================================
