--------------------------- MODULE InstanceProps ---------------------------
(***************************************************************************)
(* What holds of an instance from its start to its end.                    *)
(***************************************************************************)
EXTENDS Instance

RefreshRecord ==
  [pc : {"idle", "fetching", "fetched", "completed"},
   asked : 0 .. published, got : 0 .. published, overtaken : BOOLEAN]

CheckRecord ==
  [pc : {"idle", "incr", "ping", "done"}, late : BOOLEAN,
   status : {0, 200, 500}]

\* The parameters in force are of the types the code goes on with, and the other
\* variables of the shapes above.
TypeOK ==
  /\ config # Missing =>
       /\ config.SERVER_PORT \in Nat
       /\ IF config.ENABLE_ADE_AA
          THEN {config.L1_TOKEN_EXPIRATION, config.L2_TOKEN_EXPIRATION} \subseteq Nat
          ELSE config.TOKEN_EXPIRATION \in Nat
  /\ proc \in {"connecting", "building", "binding", "listening", "stranded",
               "exited"}
  /\ link \in {"none", "up", "down", "closing", "closed"}
  /\ outages \in 0 .. MaxOutages
  /\ timer \in {"on", "off"}
  /\ fired \in 0 .. TimerLimit + 1
  /\ published \in 0 .. MaxPublished
  /\ installed \in 0 .. published
  /\ refresh \in [Refresh -> RefreshRecord]
  /\ check \in CheckRecord

(***************************************************************************)
(* A process that goes beyond its configuration was given what the code    *)
(* behind it uses in that configuration: whichever features are enabled,   *)
(* in whatever combination, each finds its parameters, and no handler or   *)
(* client is set up with one that is undefined.  A lifetime of zero, with  *)
(* which Redis refuses every session, comes of nothing but a variable that *)
(* says 0 or is empty.                                                     *)
(***************************************************************************)
Encrypting ==
  env.flag["SPID_LOGS_ENABLE_PAYLOAD_ENCRYPTION"] \in {Missing, "true", "True"}

\* The parameters that each feature uses and that have no default.
UsedAlways ==
  CommonSpidTexts \union {"APPINSIGHTS_INSTRUMENTATIONKEY", "REDIS_URL"}

UsedByAuthority ==
  IF config.ENABLE_ADE_AA
  THEN {"ADE_AA_API_ENDPOINT", "ENDPOINT_L1_SUCCESS", "L1_TOKEN_HEADER_NAME"}
  ELSE {}

UsedByTokens ==
  IF config.ENABLE_JWT THEN {"JWT_TOKEN_ISSUER", "JWT_TOKEN_PRIVATE_KEY"} ELSE {}

UsedByRegistry ==
  IF config.ENABLE_USER_REGISTRY
  THEN {"USER_REGISTRY_API_KEY", "USER_REGISTRY_URL"} ELSE {}

UsedByLogs ==
  IF config.ENABLE_SPID_ACCESS_LOGS
  THEN {"SPID_LOGS_STORAGE_CONTAINER_NAME"}
         \union (IF config.SPID_LOGS_STORAGE_KIND = "azurestorage"
                 THEN {"SPID_LOGS_STORAGE_CONNECTION_STRING"} ELSE {})
         \union (IF Encrypting THEN {"SPID_LOGS_PUBLIC_KEY"} ELSE {})
  ELSE {}

UsedByMetadata ==
  IF config.ENABLE_FULL_OPERATOR_METADATA THEN ContactPersonTexts ELSE {}

Used ==
  UsedAlways \union UsedByAuthority \union UsedByTokens \union UsedByRegistry
    \union UsedByLogs \union UsedByMetadata

SaysZero(raw) == raw \in {"0", ""}

Lifetimes ==
  IF config.ENABLE_ADE_AA THEN {"L1_TOKEN_EXPIRATION", "L2_TOKEN_EXPIRATION"}
                          ELSE {"TOKEN_EXPIRATION"}

ConfigFits ==
  proc # "exited" =>
    /\ Used \subseteq env.given
    /\ config.ENABLE_USER_REGISTRY => config.ENABLE_JWT
    /\ config.ENABLE_SPID_ACCESS_LOGS =>
         config.SPID_LOGS_STORAGE_KIND \in {"azurestorage", "awss3"}
    /\ \A p \in Lifetimes : config[p] = 0 => SaysZero(env.number[p])

(***************************************************************************)
(* Refreshes overlap, and what one fetched may be put in force after what  *)
(* another fetched later.  The metadata in force go back to older ones for *)
(* no other reason: the refresh that takes them back was overtaken between *)
(* its reading and its end, and it takes them no further back than to what *)
(* was published when it was asked for.  A refresh that fails, or that     *)
(* resolves with nothing fetched, does not take them back.                 *)
(***************************************************************************)
MetadataGoBackOnlyIfOvertaken ==
  [][installed' < installed =>
       \E k \in Refresh :
         /\ refresh[k].pc = "fetched" /\ refresh'[k].pc # "fetched"
         /\ refresh[k].overtaken
         /\ refresh[k].asked <= installed']_vars

(***************************************************************************)
(* Nothing hangs: a start leads to a server that listens, to a process     *)
(* that ended or to one that gave up; the timer stops; and a health check  *)
(* is answered, unless Redis stays away for good: it has no time limit.    *)
(***************************************************************************)
BootEnds ==
  proc \in {"connecting", "building", "binding"} /\ env \in Followed
    ~> proc \in {"listening", "stranded", "exited"}

TimerStops == timer = "on" ~> timer = "off" \/ proc = "exited"

ChecksAreAnswered ==
  []<>Connected =>
    (check.pc \in {"incr", "ping"} ~> check.pc \in {"idle", "done"} \/ proc = "exited")

NothingHangs == BootEnds /\ TimerStops /\ ChecksAreAnswered

-----------------------------------------------------------------------------
(***************************************************************************)
(* The invariant the proofs rest on: what was decoded stays in force, the  *)
(* timer is cleared in time, a refresh has fetched nothing older than what *)
(* was published when it was asked for, nor, unless it was overtaken, than *)
(* what is in force.                                                       *)
(***************************************************************************)
Configured ==
  /\ config = Decode(env)
  /\ config = Missing => proc = "exited"

InOrder(g) ==
  g.pc = "fetched" => /\ g.asked <= g.got
                      /\ g.overtaken \/ installed <= g.got

InstanceInv ==
  /\ TypeOK
  /\ Configured
  /\ proc \in {"connecting", "building"} => timer = "off" /\ fired = 0
  /\ timer = "on" => fired =< TimerLimit
  /\ \A k \in Refresh : InOrder(refresh[k])
=============================================================================
