--------------------------- MODULE InstanceProofs ---------------------------
(***************************************************************************)
(* The proofs about the life of an instance: for every environment it may  *)
(* be started in, every count the timer stops at, any number of requests   *)
(* to refresh the metadata, outages and publications.                      *)
(***************************************************************************)
EXTENDS InstanceProps, TLAPS

(***************************************************************************)
(* What getConfigOrThrow lets through.                                     *)
(***************************************************************************)

\* A number that is read is an integer, and zero only if the variable says so.
LEMMA ReadInteger ==
  ASSUME NEW raw, IntegerFromString(raw) # Missing
  PROVE  /\ IntegerFromString(raw) \in Int
         /\ IntegerFromString(raw) = 0 => SaysZero(raw)
<1>1. IntegerFromString(raw) = IntegerOf[raw]
      /\ raw \in {"", "0", "-5", "60"}
  BY Zenon DEF IntegerFromString, IntegerOf
<1>2. CASE raw = "60"
  <2>1. IntegerFromString(raw) = 60
    BY <1>1, <1>2, Zenon DEF IntegerOf
  <2>2. QED
    BY <2>1
<1>3. CASE raw = "-5"
  <2>1. IntegerFromString(raw) = -5
    BY <1>1, <1>3, Zenon DEF IntegerOf
  <2>2. QED
    BY <2>1
<1>4. CASE raw \in {"0", ""}
  <2>1. IntegerFromString(raw) = 0 /\ SaysZero(raw)
    BY <1>1, <1>4, Zenon DEF IntegerOf, SaysZero
  <2>2. QED
    BY <2>1
<1>5. QED
  BY <1>1, <1>2, <1>3, <1>4, Zenon

\* So is one that has a default, which is not zero.
LEMMA ReadIntegerOr ==
  ASSUME NEW raw, NEW default \in Nat \ {0}
  PROVE  /\ IntegerOr(raw, default) \in Int
         /\ IntegerOr(raw, default) = 0 => SaysZero(raw)
<1>1. CASE IntegerFromString(raw) = Missing
  BY <1>1 DEF IntegerOr
<1>2. CASE IntegerFromString(raw) # Missing
  <2>1. IntegerOr(raw, default) = IntegerFromString(raw)
    BY <1>2 DEF IntegerOr
  <2>2. QED
    BY <1>2, <2>1, ReadInteger
<1>3. QED
  BY <1>1, <1>2

\* Whatever configuration is accepted, its numbers can be counted with, and a lifetime
\* of zero was asked for.
LEMMA DecodedConfig ==
  ASSUME NEW e, Decode(e) # Missing
  PROVE  LET c == Decode(e)
         IN  /\ c.SERVER_PORT \in Nat
             /\ c.ENABLE_ADE_AA =>
                  /\ c.L1_TOKEN_EXPIRATION \in Nat
                  /\ c.L2_TOKEN_EXPIRATION \in Nat
                  /\ c.L1_TOKEN_EXPIRATION = 0 =>
                       SaysZero(e.number["L1_TOKEN_EXPIRATION"])
                  /\ c.L2_TOKEN_EXPIRATION = 0 =>
                       SaysZero(e.number["L2_TOKEN_EXPIRATION"])
             /\ ~c.ENABLE_ADE_AA =>
                  /\ c.TOKEN_EXPIRATION \in Nat
                  /\ c.TOKEN_EXPIRATION = 0 =>
                       SaysZero(e.number["TOKEN_EXPIRATION"])
<1>1. PICK r : r = Read(e)
  OBVIOUS
<1>2. PICK c : c = WithCodecDefaults(r)
  OBVIOUS
<1>3. /\ Decode(e) = c
      /\ AttributeAuthorityParams(r)
      /\ IConfigUtility(r)
  BY <1>1, <1>2 DEF Decode
<1>4. /\ r.L1_TOKEN_EXPIRATION =
           IntegerFromString(e.number["L1_TOKEN_EXPIRATION"])
      /\ r.L2_TOKEN_EXPIRATION =
           IntegerFromString(e.number["L2_TOKEN_EXPIRATION"])
      /\ r.TOKEN_EXPIRATION = IntegerOr(e.number["TOKEN_EXPIRATION"], 3600)
      /\ r.SERVER_PORT = IntegerOr(e.number["SERVER_PORT"], 8080)
  BY <1>1 DEF Read
<1>5. /\ c.ENABLE_ADE_AA = r.ENABLE_ADE_AA
      /\ c.L1_TOKEN_EXPIRATION = r.L1_TOKEN_EXPIRATION
      /\ c.L2_TOKEN_EXPIRATION = r.L2_TOKEN_EXPIRATION
      /\ c.TOKEN_EXPIRATION = r.TOKEN_EXPIRATION
      /\ c.SERVER_PORT = r.SERVER_PORT
  BY <1>1, <1>2 DEF WithCodecDefaults, Read
<1>7. r.SERVER_PORT \in Nat
  <2>1. IntegerOr(e.number["SERVER_PORT"], 8080) \in Int
    BY ReadIntegerOr
  <2>2. QED
    BY <1>3, <1>4, <2>1 DEF IConfigUtility, NonNegativeInteger
<1>8. ASSUME r.ENABLE_ADE_AA
      PROVE  /\ r.L1_TOKEN_EXPIRATION \in Nat
             /\ r.L2_TOKEN_EXPIRATION \in Nat
             /\ r.L1_TOKEN_EXPIRATION = 0 =>
                  SaysZero(e.number["L1_TOKEN_EXPIRATION"])
             /\ r.L2_TOKEN_EXPIRATION = 0 =>
                  SaysZero(e.number["L2_TOKEN_EXPIRATION"])
  BY <1>3, <1>4, <1>8, ReadInteger
     DEF AttributeAuthorityParams, NonNegativeInteger
<1>9. ASSUME ~r.ENABLE_ADE_AA
      PROVE  /\ r.TOKEN_EXPIRATION \in Nat
             /\ r.TOKEN_EXPIRATION = 0 =>
                  SaysZero(e.number["TOKEN_EXPIRATION"])
  BY <1>3, <1>4, <1>9, ReadIntegerOr
     DEF AttributeAuthorityParams, NonNegativeInteger
<1>10. QED
  BY <1>3, <1>5, <1>7, <1>8, <1>9

\* Each feature of a configuration that is accepted has the parameters it uses.
LEMMA UsedIsGiven ==
  ASSUME config = Decode(env), config # Missing
  PROVE  /\ Used \subseteq env.given
         /\ config.ENABLE_USER_REGISTRY => config.ENABLE_JWT
         /\ config.ENABLE_SPID_ACCESS_LOGS =>
              config.SPID_LOGS_STORAGE_KIND \in {"azurestorage", "awss3"}
<1>1. PICK r : r = Read(env)
  OBVIOUS
<1>2. /\ config = WithCodecDefaults(r)
      /\ AttributeAuthorityParams(r) /\ JWTParams(r)
      /\ SpidParams(r) /\ IConfigUtility(r)
  BY <1>1 DEF Decode
<1>3. /\ r.given = env.given
      /\ Encrypting => r.SPID_LOGS_ENABLE_PAYLOAD_ENCRYPTION
  BY <1>1 DEF Read, Flag, Encrypting
<1>4. /\ config.ENABLE_ADE_AA = r.ENABLE_ADE_AA
      /\ config.ENABLE_JWT = r.ENABLE_JWT
      /\ config.ENABLE_USER_REGISTRY = r.ENABLE_USER_REGISTRY
      /\ config.ENABLE_SPID_ACCESS_LOGS = r.ENABLE_SPID_ACCESS_LOGS
      /\ config.ENABLE_FULL_OPERATOR_METADATA = r.ENABLE_FULL_OPERATOR_METADATA
  BY <1>1, <1>2 DEF WithCodecDefaults, Read
<1>5. config.SPID_LOGS_STORAGE_KIND =
        IF r.ENABLE_SPID_ACCESS_LOGS /\ r.SPID_LOGS_STORAGE_KIND = Missing
        THEN "azurestorage" ELSE r.SPID_LOGS_STORAGE_KIND
  BY <1>1, <1>2 DEF WithCodecDefaults, Read
<1>6. UsedAlways \subseteq env.given
  BY <1>2, <1>3 DEF UsedAlways, SpidParams, IConfigUtility
<1>7. UsedByAuthority \subseteq env.given
  BY <1>2, <1>3, <1>4 DEF UsedByAuthority, AttributeAuthorityParams
<1>8. UsedByTokens \subseteq env.given
  BY <1>2, <1>3, <1>4 DEF UsedByTokens, JWTParams
<1>9. /\ config.ENABLE_USER_REGISTRY => config.ENABLE_JWT
      /\ UsedByRegistry \subseteq env.given
  BY <1>2, <1>3, <1>4 DEF UsedByRegistry, JWTParams, UserRegistryParams
<1>10. UsedByMetadata \subseteq env.given
  BY <1>2, <1>3, <1>4 DEF UsedByMetadata, SpidParams
<1>11. /\ config.ENABLE_SPID_ACCESS_LOGS =>
            config.SPID_LOGS_STORAGE_KIND \in {"azurestorage", "awss3"}
       /\ UsedByLogs \subseteq env.given
  <2>1. CASE ~r.ENABLE_SPID_ACCESS_LOGS
    BY <1>4, <2>1 DEF UsedByLogs
  <2>2. CASE r.ENABLE_SPID_ACCESS_LOGS
    <3>1. /\ EncryptionConfiguration(r)
          /\ SpidLogsStorageAzureStorage(r) \/ SpidLogsStorageAwsS3(r)
      BY <1>2, <2>2 DEF SpidParams, SpidLogsParams
    <3>2. Encrypting => "SPID_LOGS_PUBLIC_KEY" \in env.given
      BY <1>3, <3>1 DEF EncryptionConfiguration
    <3>3. CASE SpidLogsStorageAzureStorage(r)
      <4>1. /\ config.SPID_LOGS_STORAGE_KIND = "azurestorage"
            /\ {"SPID_LOGS_STORAGE_CONNECTION_STRING",
                "SPID_LOGS_STORAGE_CONTAINER_NAME"} \subseteq env.given
        BY <1>3, <1>5, <2>2, <3>3 DEF SpidLogsStorageAzureStorage
      <4>2. QED
        BY <3>2, <4>1 DEF UsedByLogs
    <3>4. CASE SpidLogsStorageAwsS3(r)
      <4>1. /\ config.SPID_LOGS_STORAGE_KIND = "awss3"
            /\ "SPID_LOGS_STORAGE_CONTAINER_NAME" \in env.given
        <5>1. /\ r.SPID_LOGS_STORAGE_KIND = "awss3"
              /\ "SPID_LOGS_STORAGE_CONTAINER_NAME" \in r.given
          BY <3>4 DEF SpidLogsStorageAwsS3
        <5>2. QED
          BY <1>3, <1>5, <5>1, KindAssumption
      <4>2. QED
        BY <3>2, <4>1 DEF UsedByLogs
    <3>5. QED
      BY <3>1, <3>3, <3>4
  <2>3. QED
    BY <2>1, <2>2
<1>12. QED
  BY <1>6, <1>7, <1>8, <1>9, <1>10, <1>11 DEF Used

-----------------------------------------------------------------------------
(***************************************************************************)
(* The invariant.                                                          *)
(***************************************************************************)

\* The first conjunct of TypeOK, which no step but the start of a process disturbs.
ConfigTyped ==
  config # Missing =>
    /\ config.SERVER_PORT \in Nat
    /\ IF config.ENABLE_ADE_AA
       THEN {config.L1_TOKEN_EXPIRATION, config.L2_TOKEN_EXPIRATION} \subseteq Nat
       ELSE config.TOKEN_EXPIRATION \in Nat

\* Whatever the environment, an instance starts with what getConfigOrThrow made of it.
LEMMA InitInstanceInv == Init => InstanceInv
<1> SUFFICES ASSUME Init
             PROVE  InstanceInv
  OBVIOUS
<1>1. ConfigTyped
  BY DecodedConfig DEF Init, ConfigTyped
<1>2. /\ 0 \in 0 .. TimerLimit + 1
      /\ 0 \in 0 .. MaxOutages
      /\ 0 \in 0 .. MaxPublished
  BY BoundsAssumption
<1>3. NoRefresh \in RefreshRecord
  BY DEF Init, NoRefresh, RefreshRecord
<1>4. TypeOK
  BY <1>1, <1>2, <1>3 DEF Init, TypeOK, ConfigTyped, NoCheck, CheckRecord
<1>5. Configured
  BY DEF Init, Configured
<1>6. QED
  BY <1>4, <1>5 DEF Init, InstanceInv, NoRefresh, NoCheck, InOrder

\* A step that leaves the metadata, the timer and the health check alone.
LEMMA ProcessStep ==
  ASSUME InstanceInv, UNCHANGED <<env, config, fired, metadata, check>>,
         proc' \in {"connecting", "building", "binding", "listening",
                    "stranded", "exited"},
         link' \in {"none", "up", "down", "closing", "closed"},
         outages' \in 0 .. MaxOutages,
         \/ timer' = timer
         \/ timer' = "on" /\ proc = "building",
         proc' \in {"connecting", "building"} =>
           proc \in {"connecting", "building"} /\ timer' = timer,
         config = Missing => proc' = "exited"
  PROVE  InstanceInv'
<1>1. TypeOK'
  BY DEF InstanceInv, TypeOK, RefreshRecord, metadata
<1>2. QED
  BY <1>1, BoundsAssumption
     DEF InstanceInv, Configured, InOrder, metadata

\* A step of the refreshes keeps the invariant where their records stay in order.
LEMMA RefreshesStep ==
  ASSUME InstanceInv,
         refresh' \in [Refresh -> RefreshRecord],
         \A m \in Refresh : InOrder(refresh[m])',
         UNCHANGED <<env, config, linkVars, published, check>>,
         proc' \in {proc, "exited"},
         installed' \in 0 .. published,
         \/ UNCHANGED timerVars
         \/ /\ timer = "on"
            /\ fired' = fired + 1
            /\ timer' = IF fired' > TimerLimit THEN "off" ELSE "on"
  PROVE  InstanceInv'
<1>1. UNCHANGED <<env, config, link, outages, published, check>>
  BY DEF linkVars
<1>2. refresh' \in [Refresh -> RefreshRecord]'
  BY <1>1 DEF RefreshRecord
<1>3. /\ timer' \in {"on", "off"}
      /\ fired' \in 0 .. TimerLimit + 1
      /\ timer' = "on" => fired' =< TimerLimit
      /\ proc' \in {"connecting", "building"} => timer' = "off" /\ fired' = 0
  BY BoundsAssumption DEF InstanceInv, TypeOK, timerVars
<1>4. TypeOK'
  BY <1>1, <1>2, <1>3 DEF InstanceInv, TypeOK
<1>5. Configured'
  BY <1>1 DEF InstanceInv, Configured
<1>6. QED
  BY <1>1, <1>3, <1>4, <1>5 DEF InstanceInv

\* So it is with a step of one refresh that leaves the metadata in force alone.
LEMMA RefreshStep ==
  ASSUME InstanceInv, NEW k \in Refresh, NEW g,
         refresh' = [refresh EXCEPT ![k] = g],
         g \in RefreshRecord, InOrder(g),
         UNCHANGED <<env, config, linkVars, published, installed, check>>,
         proc' \in {proc, "exited"},
         \/ UNCHANGED timerVars
         \/ /\ timer = "on"
            /\ fired' = fired + 1
            /\ timer' = IF fired' > TimerLimit THEN "off" ELSE "on"
  PROVE  InstanceInv'
<1>1. refresh \in [Refresh -> RefreshRecord] /\ installed' \in 0 .. published
  BY DEF InstanceInv, TypeOK
<1>2. refresh' \in [Refresh -> RefreshRecord]
  BY <1>1
<1>3. ASSUME NEW m \in Refresh PROVE InOrder(refresh[m])'
  <2>1. refresh'[m] = IF m = k THEN g ELSE refresh[m]
    BY <1>1
  <2>2. InOrder(refresh[m])
    BY DEF InstanceInv
  <2>3. QED
    BY <2>1, <2>2 DEF InOrder
<1>4. QED
  BY <1>1, <1>2, <1>3, RefreshesStep

\* A step of the health check.
LEMMA CheckStep ==
  ASSUME InstanceInv,
         UNCHANGED <<env, config, proc, linkVars, timerVars, metadata>>,
         check' \in CheckRecord
  PROVE  InstanceInv'
<1>1. UNCHANGED <<link, outages, timer, fired, refresh, published, installed>>
  BY DEF linkVars, timerVars, metadata
<1>2. TypeOK'
  BY <1>1 DEF InstanceInv, TypeOK, RefreshRecord, CheckRecord
<1>3. QED
  BY <1>1, <1>2 DEF InstanceInv, Configured, InOrder

\* Publishing metadata leaves every refresh with older ones.
LEMMA PublishStep ==
  ASSUME InstanceInv, Publish
  PROVE  InstanceInv'
<1>1. /\ UNCHANGED <<env, config, proc, link, outages, timer, fired, refresh,
                     installed, check>>
      /\ published' = published + 1
      /\ published' \in 0 .. MaxPublished
  BY BoundsAssumption
     DEF Publish, linkVars, timerVars, InstanceInv, TypeOK
<1>2. published \in Nat
  BY BoundsAssumption DEF InstanceInv, TypeOK
<1>3. ASSUME NEW k \in Refresh
      PROVE  refresh[k] \in RefreshRecord'
  <2>1. refresh[k] \in RefreshRecord
    BY DEF InstanceInv, TypeOK
  <2>2. 0 .. published \subseteq 0 .. published'
    BY <1>1, <1>2
  <2>3. QED
    BY <2>1, <2>2 DEF RefreshRecord
<1>4. refresh' \in [Refresh -> RefreshRecord']
  BY <1>1, <1>3 DEF InstanceInv, TypeOK
<1>5. installed' \in 0 .. published'
  BY <1>1, <1>2 DEF InstanceInv, TypeOK
<1>6. TypeOK'
  BY <1>1, <1>4, <1>5 DEF InstanceInv, TypeOK
<1>7. QED
  BY <1>1, <1>6 DEF InstanceInv, Configured, InOrder

\* What a refresh that begins has: it asks for what is published now.
LEMMA BeginningRefresh ==
  ASSUME InstanceInv
  PROVE  LET g == [NoRefresh EXCEPT !.pc = "fetching", !.asked = published]
         IN  g \in RefreshRecord /\ g.pc = "fetching" /\ InOrder(g)
<1>1. published \in 0 .. published /\ 0 \in 0 .. published
  BY BoundsAssumption DEF InstanceInv, TypeOK
<1>2. QED
  BY <1>1 DEF NoRefresh, RefreshRecord, InOrder

\* The timer starts a refresh, the last time too, when it clears itself.
LEMMA TimerFiresStep ==
  ASSUME InstanceInv, TimerFires
  PROVE  InstanceInv'
<1>1. PICK g : g = [NoRefresh EXCEPT !.pc = "fetching", !.asked = published]
  OBVIOUS
<1>2. g \in RefreshRecord /\ InOrder(g)
  BY <1>1, BeginningRefresh
<1>3. fired + 1 \in Refresh
  BY BoundsAssumption
     DEF TimerFires, InstanceInv, TypeOK, Refresh, Firing
<1>4. /\ refresh' = [refresh EXCEPT ![fired + 1] = g]
      /\ UNCHANGED <<env, config, proc, linkVars, published, installed, check>>
      /\ timer = "on"
      /\ fired' = fired + 1
      /\ timer' = IF fired' > TimerLimit THEN "off" ELSE "on"
  BY <1>1 DEF TimerFires, RefreshBegins
<1>5. QED
  BY <1>2, <1>3, <1>4, RefreshStep

\* A request to /refresh starts one.
LEMMA RefreshAskedStep ==
  ASSUME InstanceInv, NEW k \in Route, RefreshAsked(k)
  PROVE  InstanceInv'
<1>1. PICK g : g = [NoRefresh EXCEPT !.pc = "fetching", !.asked = published]
  OBVIOUS
<1>2. g \in RefreshRecord /\ InOrder(g)
  BY <1>1, BeginningRefresh
<1>3. k \in Refresh
  BY DEF Refresh
<1>4. /\ refresh' = [refresh EXCEPT ![k] = g]
      /\ UNCHANGED <<env, config, proc, linkVars, timerVars, published,
                     installed, check>>
  BY <1>1 DEF RefreshAsked, RefreshBegins
<1>5. QED
  BY <1>2, <1>3, <1>4, RefreshStep

\* A refresh reads the published metadata, which are no older than its start.
LEMMA FetchStep ==
  ASSUME InstanceInv, NEW k \in Refresh, Fetch(k)
  PROVE  InstanceInv'
<1>1. PICK g : g = [refresh[k] EXCEPT !.pc = "fetched", !.got = published]
  OBVIOUS
<1>2. PICK h \in RefreshRecord : h = refresh[k]
  BY DEF InstanceInv, TypeOK
<1>3. /\ published \in 0 .. published
      /\ h.asked \in 0 .. published /\ installed \in 0 .. published
  BY <1>2, BoundsAssumption DEF InstanceInv, TypeOK, RefreshRecord
<1>4. g = [pc |-> "fetched", asked |-> h.asked, got |-> published,
           overtaken |-> h.overtaken]
  BY <1>1, <1>2 DEF RefreshRecord
<1>5. g \in RefreshRecord /\ InOrder(g)
  BY <1>2, <1>3, <1>4 DEF RefreshRecord, InOrder
<1>6. refresh' = [refresh EXCEPT ![k] = g]
  BY <1>1 DEF Fetch, InstanceInv, TypeOK
<1>7. UNCHANGED <<env, config, proc, linkVars, timerVars, published, installed,
                  check>>
  BY DEF Fetch
<1>8. QED
  BY <1>5, <1>6, <1>7, RefreshStep

\* A refresh that is over is in order, as it holds nothing that could be put in force.
LEMMA ResolvedInOrder ==
  ASSUME InstanceInv, NEW k \in Refresh
  PROVE  Resolved(k) \in RefreshRecord /\ Resolved(k).pc # "fetched"
<1>1. PICK h \in RefreshRecord : h = refresh[k]
  BY DEF InstanceInv, TypeOK
<1>2. CASE k \in Route
  <2>1. Resolved(k) = [pc |-> "completed", asked |-> h.asked, got |-> h.got,
                       overtaken |-> h.overtaken]
    BY <1>1, <1>2 DEF Resolved, RefreshRecord
  <2>2. QED
    BY <1>1, <2>1 DEF RefreshRecord
<1>3. CASE k \notin Route
  BY <1>3, BoundsAssumption
     DEF Resolved, NoRefresh, RefreshRecord, InstanceInv, TypeOK
<1>4. QED
  BY <1>2, <1>3

\* What was read is put in force, and what others have read is overtaken.
LEMMA InstallStep ==
  ASSUME InstanceInv, NEW k \in Refresh, Install(k)
  PROVE  InstanceInv'
<1>1. /\ installed' = refresh[k].got
      /\ refresh' = [m \in Refresh |->
                      IF m = k THEN Resolved(k)
                      ELSE IF refresh[m].pc = "fetched"
                      THEN [refresh[m] EXCEPT !.overtaken = TRUE] ELSE refresh[m]]
      /\ UNCHANGED <<env, config, proc, linkVars, timerVars, published, check>>
  BY DEF Install
<1>2. ASSUME NEW m \in Refresh
      PROVE  refresh'[m] \in RefreshRecord /\ InOrder(refresh[m])'
  <2>1. PICK h \in RefreshRecord : h = refresh[m] /\ InOrder(h)
    BY DEF InstanceInv, TypeOK
  <2>2. CASE m = k
    <3>1. refresh'[m] = Resolved(k)
      BY <1>1, <2>2
    <3>2. QED
      BY <3>1, ResolvedInOrder DEF InOrder
  <2>3. CASE m # k /\ h.pc = "fetched"
    <3>1. refresh'[m] = [pc |-> "fetched", asked |-> h.asked, got |-> h.got,
                         overtaken |-> TRUE]
      BY <1>1, <2>1, <2>3 DEF RefreshRecord
    <3>2. h.asked <= h.got
      BY <2>1, <2>3 DEF InOrder
    <3>3. QED
      BY <2>1, <3>1, <3>2 DEF RefreshRecord, InOrder
  <2>4. CASE m # k /\ h.pc # "fetched"
    <3>1. refresh'[m] = h
      BY <1>1, <2>1, <2>4
    <3>2. QED
      BY <2>4, <3>1 DEF InOrder
  <2>5. QED
    BY <2>2, <2>3, <2>4
<1>3. refresh' \in [Refresh -> RefreshRecord]
  BY <1>1, <1>2
<1>4. installed' \in 0 .. published
  BY <1>1 DEF InstanceInv, TypeOK, RefreshRecord
<1>5. QED
  BY <1>1, <1>2, <1>3, <1>4, RefreshesStep

\* A refresh resolves with nothing fetched.
LEMMA ResolveUnrenewedStep ==
  ASSUME InstanceInv, NEW k \in Refresh, ResolveUnrenewed(k)
  PROVE  InstanceInv'
<1>1. PICK g : g = Resolved(k)
  OBVIOUS
<1>2. g \in RefreshRecord /\ InOrder(g)
  BY <1>1, ResolvedInOrder DEF InOrder
<1>3. /\ refresh' = [refresh EXCEPT ![k] = g]
      /\ UNCHANGED <<env, config, proc, linkVars, timerVars, published,
                     installed, check>>
  BY <1>1 DEF ResolveUnrenewed
<1>4. QED
  BY <1>2, <1>3, RefreshStep

\* A refresh fails, and with it the process perhaps.
LEMMA RejectStep ==
  ASSUME InstanceInv, NEW k \in Refresh, Reject(k)
  PROVE  InstanceInv'
<1>1. published \in Nat
  BY BoundsAssumption DEF InstanceInv, TypeOK
<1>2. NoRefresh \in RefreshRecord /\ InOrder(NoRefresh)
  BY <1>1 DEF NoRefresh, RefreshRecord, InOrder
<1>3. /\ refresh' = [refresh EXCEPT ![k] = NoRefresh]
      /\ proc' \in {proc, "exited"}
      /\ UNCHANGED <<env, config, linkVars, timerVars, published, installed,
                     check>>
  BY DEF Reject
<1>4. QED
  BY <1>2, <1>3, RefreshStep

\* Every step keeps the invariant.
LEMMA StepInstanceInv == InstanceInv /\ [Next]_vars => InstanceInv'
<1> SUFFICES ASSUME InstanceInv, [Next]_vars
             PROVE  InstanceInv'
  OBVIOUS
<1> USE DEF linkVars, timerVars
<1>1. CASE UNCHANGED vars
  BY <1>1, ProcessStep DEF vars, InstanceInv, Configured, TypeOK
<1>2. CASE ConnectRedis
  BY <1>2, ProcessStep DEF ConnectRedis, InstanceInv, Configured, TypeOK
<1>3. CASE WithSpid
  BY <1>3, ProcessStep DEF WithSpid, InstanceInv, Configured, TypeOK
<1>4. CASE Listen
  BY <1>4, ProcessStep DEF Listen, InstanceInv, Configured, TypeOK
<1>5. CASE Interrupt
  BY <1>5, ProcessStep DEF Interrupt, InstanceInv, Configured, TypeOK
<1>6. CASE LinkBreaks
  BY <1>6, BoundsAssumption, ProcessStep
     DEF LinkBreaks, InstanceInv, Configured, TypeOK
<1>7. CASE LinkRestored
  BY <1>7, ProcessStep DEF LinkRestored, InstanceInv, Configured, TypeOK
<1>8. CASE Publish
  BY <1>8, PublishStep
<1>9. CASE TimerFires
  BY <1>9, TimerFiresStep
<1>10. ASSUME NEW k \in Route, RefreshAsked(k)
       PROVE  InstanceInv'
  BY <1>10, RefreshAskedStep
<1>11. ASSUME NEW k \in Refresh, RefreshProceeds(k)
       PROVE  InstanceInv'
  BY <1>11, FetchStep, InstallStep, ResolveUnrenewedStep, RejectStep
     DEF RefreshProceeds
<1>12. CASE CheckBegins
  <2>1. PICK late \in BOOLEAN :
          check' = [pc |-> "incr", late |-> late, status |-> 0]
    <3> DEFINE quit == link \in {"closing", "closed"}
    <3>1. quit \in BOOLEAN
      OBVIOUS
    <3>2. check' = [NoCheck EXCEPT !.pc = "incr", !.late = quit]
      BY <1>12 DEF CheckBegins
    <3> HIDE DEF quit
    <3>3. check' = [pc |-> "incr", late |-> quit, status |-> 0]
      BY <3>2 DEF NoCheck
    <3>4. QED
      BY <3>1, <3>3
  <2>2. UNCHANGED <<env, config, proc, linkVars, timerVars, metadata>>
    BY <1>12 DEF CheckBegins
  <2>3. QED
    BY <2>1, <2>2, CheckStep DEF CheckRecord
<1>13. CASE CheckIncr \/ CheckPing
  <2>1. PICK h \in CheckRecord : h = check
    BY DEF InstanceInv, TypeOK
  <2>2. UNCHANGED <<env, config, proc, linkVars, timerVars, metadata>>
    BY <1>13 DEF CheckIncr, CheckPing
  <2>3. \/ check' = [h EXCEPT !.pc = "ping"]
        \/ \E status \in {200, 500} :
             check' = [h EXCEPT !.pc = "done", !.status = status]
    BY <1>13, <2>1 DEF CheckIncr, CheckPing, RedisCounted, CheckAnswered
  <2>4. check' \in CheckRecord
    <3>1. CASE check' = [h EXCEPT !.pc = "ping"]
      <4>1. check' = [pc |-> "ping", late |-> h.late, status |-> h.status]
        BY <2>1, <3>1 DEF CheckRecord
      <4>2. QED
        BY <2>1, <4>1 DEF CheckRecord
    <3>2. ASSUME NEW status \in {200, 500},
                 check' = [h EXCEPT !.pc = "done", !.status = status]
          PROVE  check' \in CheckRecord
      <4>1. check' = [pc |-> "done", late |-> h.late, status |-> status]
        BY <2>1, <3>2 DEF CheckRecord
      <4>2. QED
        BY <2>1, <4>1 DEF CheckRecord
    <3>3. QED
      BY <2>3, <3>1, <3>2
  <2>5. QED
    BY <2>2, <2>4, CheckStep
<1>14. QED
  BY <1>1, <1>2, <1>3, <1>4, <1>5, <1>6, <1>7, <1>8, <1>9, <1>10, <1>11,
     <1>12, <1>13 DEF Next

-----------------------------------------------------------------------------
(***************************************************************************)
(* The theorems.                                                           *)
(***************************************************************************)

\* What an instance knows of itself holds in every state, however it was started.
THEOREM InstanceInvariance == Spec => []InstanceInv
<1>1. Init => InstanceInv
  BY InitInstanceInv
<1>2. InstanceInv /\ [Next]_vars => InstanceInv'
  BY StepInstanceInv
<1>3. QED
  BY <1>1, <1>2, PTL DEF Spec

\* The parameters in force are of the types that the code goes on with, and the timer
\* never counts beyond its limit by more than one.
THEOREM InstanceIsTyped == Spec => []TypeOK
<1>1. InstanceInv => TypeOK
  BY DEF InstanceInv
<1>2. QED
  BY <1>1, InstanceInvariance, PTL

(***************************************************************************)
(* A process that runs was given every parameter that the code behind it   *)
(* uses in the configuration it has, and its lifetimes are not zero unless *)
(* the environment says so: whatever the environment, getConfigOrThrow     *)
(* lets no other through.                                                  *)
(***************************************************************************)
THEOREM RunningMeansConfigured == Spec => []ConfigFits
<1>1. ASSUME InstanceInv, proc # "exited"
      PROVE  ConfigFits
  <2>1. config = Decode(env) /\ config # Missing
    BY <1>1 DEF InstanceInv, Configured
  <2>2. ASSUME NEW p \in Lifetimes, config[p] = 0
        PROVE  SaysZero(env.number[p])
    <3>1. PICK e : e = env
      OBVIOUS
    <3>2. PICK c : c = Decode(e)
      OBVIOUS
    <3>3. c # Missing /\ config = c
      BY <2>1, <3>1, <3>2
    <3>4. QED
      BY <2>2, <3>1, <3>2, <3>3, DecodedConfig DEF Lifetimes
  <2>3. QED
    BY <2>1, <2>2, UsedIsGiven DEF ConfigFits
<1>2. InstanceInv => ConfigFits
  BY <1>1 DEF ConfigFits
<1>3. QED
  BY <1>2, InstanceInvariance, PTL

(***************************************************************************)
(* However many refreshes overlap, fail or resolve with nothing fetched,   *)
(* the metadata in force go back only where a refresh that was overtaken   *)
(* ends, and no further than to what was published when it was asked for.  *)
(***************************************************************************)
THEOREM GoingBackMeansOvertaken == Spec => MetadataGoBackOnlyIfOvertaken
<1>1. ASSUME InstanceInv, [Next]_vars, installed' < installed
      PROVE  \E k \in Refresh :
               /\ refresh[k].pc = "fetched" /\ refresh'[k].pc # "fetched"
               /\ refresh[k].overtaken
               /\ refresh[k].asked <= installed'
  <2>1. installed \in Nat
    BY <1>1, BoundsAssumption DEF InstanceInv, TypeOK
  <2>2. installed' # installed
    BY <1>1, <2>1
  <2>3. PICK k \in Refresh : Install(k)
    BY <1>1, <2>2
       DEF Next, ConnectRedis, WithSpid, Listen, Interrupt, LinkBreaks,
           LinkRestored, Publish, TimerFires, RefreshAsked, RefreshProceeds,
           Fetch, ResolveUnrenewed, Reject, CheckBegins, CheckIncr, CheckPing,
           metadata, vars
  <2>4. PICK h \in RefreshRecord : h = refresh[k] /\ InOrder(h)
    BY <1>1 DEF InstanceInv, TypeOK
  <2>5. h.pc = "fetched" /\ installed' = h.got
    BY <2>3, <2>4 DEF Install
  <2>6. h.asked <= installed' /\ h.overtaken
    <3>1. h.got \in Nat
      BY <1>1, <2>4, BoundsAssumption DEF RefreshRecord, InstanceInv, TypeOK
    <3>2. h.asked <= h.got /\ (h.overtaken \/ installed <= h.got)
      BY <2>4, <2>5 DEF InOrder
    <3>3. QED
      BY <1>1, <2>1, <2>5, <3>1, <3>2
  <2>7. refresh'[k] = Resolved(k)
    BY <2>3 DEF Install
  <2>8. refresh'[k].pc # "fetched"
    BY <1>1, <2>7, ResolvedInOrder
  <2>9. QED
    BY <2>4, <2>5, <2>6, <2>8
<1>2. InstanceInv /\ [Next]_vars =>
        [installed' < installed =>
           \E k \in Refresh :
             /\ refresh[k].pc = "fetched" /\ refresh'[k].pc # "fetched"
             /\ refresh[k].overtaken
             /\ refresh[k].asked <= installed']_vars
  BY <1>1
<1>3. QED
  BY <1>2, InstanceInvariance, PTL DEF Spec, MetadataGoBackOnlyIfOvertaken
=============================================================================
