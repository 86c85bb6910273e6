# Specifications of hub-spid-login-ms

TLA+ models of the SPID login hub, the TLC configurations that check them, and
proofs of what matters most. Paths are relative to the repository's root; line
numbers are those of the commit this directory was written for. `PROJECT.json`
maps every definition to the lines it stands for.

    tlc -config MCSession.cfg MCTokenService      # any run of section 3
    tlapm HubProofs.tla                           # any module of section 4

## 1. The system

The hub is a Node/Express service behind an API gateway. A citizen logs in with
a SAML identity provider; the hub turns the assertion into a token, which other
services introspect, invalidate and, where companies are involved, upgrade. Any
number of instances share one Redis. Nothing else is shared, and an instance
keeps no state of its own beyond the requests it is serving.

| Component | Source | State | Operations | Talks to |
|---|---|---|---|---|
| Token service | `handlers/token.ts`, `types/request.ts` | sessions `session-token:*` and blacklist entries `session-token-invalidate:*`, both in Redis | generate, `/introspect`, `/invalidate`, `/upgradeToken` | Redis helpers, JWT helpers |
| JWT helpers | `utils/jwt.ts` | none (a JWT carries its claims) | sign, decode, read `exp`; `verifyToken` is unused | |
| Redis helpers | `utils/redis_storage.ts` | none | SETEX, GET, DEL, EXISTS, INCR; `setTask` is unused | Redis |
| Redis client | `utils/redis.ts` | connection | connect, simple or cluster with reads from replicas | Redis |
| Users | `types/user.ts`, `utils/conversions.ts` | none | codecs with defaults, conversions | |
| Login (ACS) | `handlers/spid.ts` `getAcs`, `utils/spid.ts` | what it gathered between two calls | one pipeline of up to three calls | the next two, token service |
| Attribute authority client | `utils/attribute_authority.ts`, `clients/ade.ts` | none | companies of a citizen | HTTP |
| User registry client | `utils/user_registry.ts`, `clients/pdv_client.ts` | none (the citizens are kept there) | save a citizen, get a pseudonym | HTTP |
| Configuration | `utils/config.ts` | parameters, read once | decode the environment | |
| Access log | `handlers/spid.ts` `accessLogHandler`, `utils/access_log.ts`, `utils/blob.ts` | blobs in Azure or S3 | write a record, fire and forget | blob storage |
| Metadata refresh | `app.ts`, `metadataRefreshHandler` | a counter and a timer | timer, `/refresh` | SAML library |
| Start-up, shutdown, health | `app.ts`, `server.ts`, `handlers/general.ts` | server, connection | build, listen, SIGINT, `/healthcheck` | all |
| Observability | `utils/logger.ts`, `utils/appinsights.ts` | none | log | |
| SAML library | `@pagopa/io-spid-commons` (dependency) | pending requests in Redis | validates an assertion, calls `getAcs` | Redis, identity providers |

Two switches change most of what follows. `ENABLE_JWT`: a token is a signed
JWT, nothing is stored when it is minted, and `/invalidate` blacklists it; or an
opaque random string, the name of a session in Redis that `/invalidate`
deletes. `ENABLE_ADE_AA`: an attribute authority gives the companies a citizen
may act for; with several the login yields an L1 token, which `/upgradeToken`
turns into an L2 token for one of them; with one, or without the authority, the
login yields an L2 token at once.

### What is hard

- **Interleaving.** Every handler waits for Redis between its steps. An
  introspection reads the blacklist and the session at two moments; an upgrade
  reads the session at one and stores a new one at another; invalidations,
  expiries and other instances come between.
- **Partial failure.** A command may take effect although its reply is lost or
  the instance stops. A login may fail after the citizen was written to the
  registry.
- **Time.** Sessions and blacklist entries expire, tokens carry their expiry,
  and introspection of a JWT looks at the blacklist and at nothing else.
- **Agreement of separate decisions.** L1 or L2 is decided by the number of
  companies, by `TokenUser.is` and by `TokenUserL2.is`, each elsewhere.
- **Codecs with defaults.** A session is read back through a union of two
  codecs, each of which fills in a missing level.
- **Fire and forget.** The access log and the start-up timer run beside the
  requests that started them.

The list with lines and the properties that stand guard is under `hazards` in
`PROJECT.json`.

### What makes each part correct

Token service: an acknowledged invalidation is final; a token ends only by its
own invalidation or expiry; introspection tells what was minted, no longer than
the configured lifetime; an L2 token derives from an L1 token of the same
citizen and names one of its companies; every request is answered. Login: the
token is for the asserted citizen at the asserted level; nobody is registered
whom the authority refused; nobody gets a token unregistered; the decisions on
its kind agree; what it asks a token for can be read back. Access log: no
exchange is lost without an error, a record is filed by what it is about and not
replaced by another's, and what is to be hidden is. The hub as a whole: every
token, upgraded ones included, is for a citizen who went through all that the
configuration asks for and names no company but those the authority sent for
that citizen. Redis as a cluster: what is over in all copies stays over, and an
answer is wrong only while replication is behind. An instance: its configuration
fits the code behind it, what was begun comes to an end, and the metadata in
force go back to older ones only by a refresh that others overtook.

## 2. Modules

| Module | What it is |
|---|---|
| `Optional` | the value of what has none |
| `RedisStore` | SETEX, GET, DEL, EXISTS over a function from keys to entries, and what may become of a write |
| `TokenUsers` | users, codecs, conversions, lifetimes |
| `TokenService` | the state machine of the token service |
| `TokenServiceProps` | its type invariant, properties and inductive invariants |
| `SessionContract` | abstract specification: the life of a token |
| `TokenServiceContract` | the refinement mapping |
| `TokenUsersProofs`, `TokenServiceProofs`, `TokenLifeProofs` | proofs: of the operators, of how tokens end, of how they last and of the refinement |
| `MCTokenService` | instances for TLC |
| `TokenCluster`, `TokenClusterProps`, `TokenClusterProofs`, `MCTokenCluster` | the token service over masters and replicas, its properties, proofs and instances |
| `Acs`, `AcsProps`, `AcsProofs`, `MCAcs` | the login pipeline, its properties, proofs and instances |
| `Hub`, `HubProps`, `HubProofs`, `MCHubs` | login pipeline and token service composed, properties across both, proofs and instances |
| `AccessLog`, `AccessLogProps`, `AccessLogProofs`, `MCAccessLog` | the access log, its properties, proofs and instances |
| `Config` | the decoding of the environment |
| `Instance`, `InstanceProps`, `InstanceProofs`, `MCInstances` | the life of one process, its properties, proofs and instances |

`Hub` extends `TokenServiceProps` and takes `Acs` by `INSTANCE`, with its logins in
some of the slots that serve requests. `TokenCluster` extends the token service
and instantiates it a second time over the replicas' copies. `Instance` extends
`Config`. `HubProofs` takes `AcsProofs` by `INSTANCE` as `Hub` does `Acs`. `AccessLog` stands alone: it shares nothing with the rest but the
process, and nobody waits for it.

Definitions under a comment that begins with "Slip" are plausible errors, kept
next to the definition they would spoil. No action uses them; each shows that a
property would notice it (`mutants` in `PROJECT.json`).

### Token service

A state is the clock, the two families of keys in Redis, and one record per
request being served; `minted`, `claims`, `handed`, `asked` and `revoked` are
history, except that with JWT `claims` is the payload that travels with the
token. A request's `pc` names the reply its handler waits for: `exists` and
`get` in `/introspect`, `setex` or `del` in `/invalidate`, `load` in
`/upgradeToken`, `mint` in `getGenerateToken`. What a handler does between two
awaits is one step.

- A command takes effect in the step that receives its reply. Its outcome is
  `replied`, `refused` (no effect) or `unacknowledged` (effect, but the handler
  gets a Left, as it does when refused). Handlers never act between sending a
  command and its reply, so other steps come before or after the effect as they
  do in the program.
- Expiry is a comparison with the clock (`IsLive`), exactly as Redis answers.
- Random strings and ulids never repeat: a mint takes any unminted `Token`.
  Clients send tokens they were given, or `Junk`, which stands for any other
  string. Forged JWTs do not occur: the gateway verifies signatures
  (`README.md:114-117`), the service does not.
- With JWT `UpgradeJwt` does in its first step what `UpgradeSession` and
  `UpgradeLoad` do in two, since decoding needs no await. `UpgradeRejected` is
  every request that fails before a raw user is known.
- `Crash` drops any set of requests, those of one instance or of several. A
  command on its way took effect or not, which are the outcomes above with the
  answer lost.
- The answer of a refused request is kept and the rest of its record forgotten,
  which no handler can observe and which keeps the state space small.

### Login

`Acs` follows `getAcs` from assertion to redirect. `pc` names the service it
waits for. The records of `TokenUsers` are passed on as the pipeline builds
them. The attribute authority answers with any list of `CompanyReply`, or
fails; the registry fails with or without having saved the citizen; the token
service fails or succeeds. The pseudonym is the citizen's fiscal code under
another name, as it is one for one with it. The claim `jti` is the request's id
where the configuration asks for that and the assertion holds one, and else a
fresh ulid (`Jtis`). A login that `Acs` hands to the
token service is for an `Issuable` user, and that is all `TokenService` assumes of
logins (`LoginAssumption`).

### The hub

In `Hub` a login occupies a slot of `Desk` in both components. `TokenAsked` is the
call of `getGenerateToken` in `getAcs`: in the very step that completes the user,
whichever reply that is, the token service begins to serve a request for that
user. `TokenReplies` is one step of both, `MintJwt` or `MintSession` with the
redirect, and their outcomes are the same. The users of `GetGenerateToken` are thus
those the pipeline makes, no longer any that `TokenService` allows;
`ImplementsTokenService` says that they, and all else, stay within what
`TokenService` allows, so that what is proved of it holds of the hub.
`mandates` is history: what the authority ever sent.

### Redis as a cluster

`createClusterRedisClient` sets `useReplicas`, so EXISTS and GET may go to a
replica. `TokenCluster` keeps the two families of keys twice. Writes go to the
master; the handlers' reading steps are taken over either copy
(`ReadFromReplica` is `TokenService` instantiated over the replicas); `Replicate`
brings a token's keys up to date; `Failover` makes a lagging replica the master
and records the token in `lost`. Finality as in `InvalidationSticks` does not hold
here: a stale replica calls an invalidated token active, which no document rules
out. What holds is that this, and a fresh token that is unknown, happen only while
copies differ or after a failover (`ErrsOnlyWhileLagging`), that it passes
(`RevokedDiesOut`) and that it does not come back (`OverForGood`).

### The life of an instance

`Config` is a function from environments to configurations: `Read` is what
`errorOrConfig` hands to the codec, the other operators are the codecs, named as
in the code. Of strings it tells whether they are there and whether they are
empty; flags and numbers have values, good and bad. `Instance` starts with
`Decode` and goes on with `createAppTask` and `server.ts`: `proc` is how far it
is, and "stranded" the process that could not connect to Redis, which logs that,
never listens, and is not ended by the code. `link` is the client's connection;
while it is "down" commands wait in the client, and once it was told to quit
("closing" where it cannot tell Redis yet, then "closed") new ones fail at once.
A refresh of the metadata belongs to the SAML library; it is modelled as a
moment at which the published metadata are read and one at which they are put in
force, from the timer's firings and `/refresh` alike. The code takes it for a
`Task<void>`, which ends alike whether anything was fetched or not, so that
`/refresh` may answer "completed" with the metadata in force unrenewed
(`ResolveUnrenewed`); no document says otherwise, and no property does. Should
it throw all the same, the timer catches that and the handler does not, so that
the process may end (`Reject`). Nothing orders refreshes that overlap: one is
`overtaken` when another puts what it fetched in force between its own two
moments, and only then may the metadata go back
(`MetadataGoBackOnlyIfOvertaken`). The health check is INCR, then the ping.
After SIGINT the first fails, while the server goes on; the probes of
`.devops/kubernetes/helm/templates/deployment.yml` ask `/info`, which answers
all the same, so that nothing in the repository takes such an instance out of
service, or says that it should be.

### Access log

`AccessLog` runs beside the logins: the SAML library hands an exchange over and
nobody waits. `Handle` is everything up to the write, with its early returns;
`Write` ends it. The library is external: any exchange may come at any time,
and twice for one request, as when a form is posted again. Items keep the
property names of the codecs, with `Missing` where `t.exact` strips; `saml`
stands for both payloads and `sealed` for their being encrypted. `config` is chosen
once from `LogConfig` and never changes. The clock is a
count of days, since only the day gets into a name; it is read twice, as in the
code (`spid.ts:111-112`). The first reading is an instant in UTC and the second
a day of the local time; they are one calendar in the model, as they are in the
images built from the repository, which set no `TZ`.

## 3. Runs

| Run | Shows |
|---|---|
| `MCSession` | opaque tokens with the authority: types, finality of invalidation for `/introspect` and `/upgradeToken`, provenance of L2 tokens, no session ended by others, every session reads back as it was minted and is told so, within the lifetime; the service implements `SessionContract` |
| `MCJwt` | JWTs: finality for `/introspect`, provenance, nobody else's token blacklisted; this mode implements `SessionContract` too |
| `MCCluster` | opaque tokens over a cluster: the three properties above, and every request is answered |
| `MCHub` | JWT, authority and registry: tokens only for vouched and registered citizens and their companies, the page fits the token, the hub implements `TokenService`, every login is answered |
| `MCHubPlain` | opaque tokens and no other service, from the assertion to introspection: level and user survive the round trip through Redis and are both told, with the lifetime of that mode; logins are refused for the assertion only |
| `MCInstance` | the life of a process, through start, SIGINT, outages, refreshes and health checks: no parameter its code reads is missing, the metadata go back only by an overtaken refresh, nothing that was begun hangs |
| `MCAcsFull` | login with all services, two at once |
| `MCLog` | the access log, with all that can be hidden and with as little as possible: nothing names a citizen that should not, nothing is lost in silence, blobs are filed by their exchange and not replaced by others' |
| `MCJwtUpgrade` | violated: an invalidated JWT is still upgraded |
| `MCJwtBlacklist` | violated: a blacklist entry outlives its token |
| `MCSessionUpgrade` | violated: the session upgraded is that of the body, not of the header |
| `MCAcsJti` | violated: `jti` follows the wrong environment variable |

The violated ones are the disagreements between code and documents listed under
`findings`. The blacklist of `MCJwtBlacklist` is also why `InvalidationSticks`
holds with JWT: an entry that really lived for the remaining time would lapse,
and `/introspect`, which does not look at `exp`, would call the token active
again. That repair alone would be a regression; the slip `BlacklistTtlRemaining`
shows it.

**Bounds.**

- Token service (`MCSession`, `MCJwt`): two tokens and two requests. Every
  property relates at most two requests, or a token and its parent; with two
  requests any step of one falls between any two of the other, and a slot serves
  any number of requests in turn. Upgrades fill both tokens, so there is always
  an L1 token and at most one derived from it; two upgrades of one token compete
  for the second. The clock makes up to two steps and lifetimes are one and two
  seconds, so that sessions are used alive, expired, and expiring between two
  steps; L1 and L2 lifetimes differ where a property could tell. `Epoch = 10`
  keeps the ratio of dates to lifetimes (see Horizon below). Alice has three
  companies, two of them with the same code.
- Cluster: one token, two requests, one second, one failover (`MaxFailovers`).
  The properties are about one token each; its two copies meet any order of
  writes, reads, replication and one loss.
- Hub: one desk, one client, two tokens. `MCHub` has two citizens, so that a
  company can be another's, and replies of one company, of two, and of a good
  and a malformed one; time stands still there (no property of the run is about
  it) and `ClientOps`, the operations clients make use of, is `/upgradeToken`.
  `MCHubPlain` has the other operations, two seconds, and every way in which an
  assertion can be incomplete.
- Instance: 261 environments, obtained from the barest and the fullest by
  changing one parameter, and with it the flag it depends on; a little under
  half of them are accepted. Two are followed beyond decoding (`Followed`).
  `TimerLimit` is 1 instead of 10, so that the timer fires twice; one slot of
  `/refresh` (`Route`) beside it; one outage (`MaxOutages`) and one new version
  of the metadata (`MaxPublished`), which is enough for them to go back: one refresh
reads before it is published, another after, and the first puts its answer in
force last.
- Login (`MCAcsFull`, `MCAcsJti`): two citizens, two SPID levels, replies of no,
  one and two companies, good and malformed.
- Access log: two calls at once, two requests, two citizens and two days, so
  that names collide and differ in each of their parts.

`Token` and `Req`, `Login`, or the sets of the access log, are symmetric where a
cfg says so: no definition distinguishes their elements. Runs with liveness or
distinct slots do without.

Deadlock is checked in all runs but `MCInstance`: idle slots can always take a
request. A process really ends, or gives up, and then nothing more happens.

**Fairness.** Three runs assume some; none assumes anything of clients, clock or
crashes.

- `MCCluster`: weak fairness of each request's next reply and of replication.
  Node runs a continuation once its promise settles, and the client settles the
  promise of a command when its reply arrives or its connection breaks, which a
  broken one does as `reconnectStrategy` never gives up.
- `MCHub`: the same for each login's next reply, of Redis or of a service. The
  HTTP clients set no timeout, so a service that keeps a connection open and
  never answers is outside this assumption.
- `MCInstance`: weak fairness of what was begun (connecting, loading, listening,
  the timer, refreshes, pings), and strong fairness of INCR, since a queued
  command is sent whenever the client is connected again. That Redis comes back
  is a premise of `ChecksAreAnswered` and not assumed: without a time limit, a
  check in an outage waits as long as the outage.

## 4. Proofs

Every property of every passing run is proved for all values of the constants,
the liveness properties excepted. In these eight modules:

| Module | Theorems | Property of section 3 |
|---|---|---|
| `TokenUsersProofs` | lemmas on codecs, conversions and lifetimes | |
| `TokenServiceProofs` | `Invariance` | (the inductive invariant) |
| | `TypeCorrectness` | `TypeOK` |
| | `InvalidationIsFinal` | `InvalidationSticks`, in either mode |
| | `NoUpgradeAfterInvalidation` | `UpgradeHonoursInvalidation`, without JWT |
| `TokenLifeProofs` | `LifeInvariance` | (the second inductive invariant) |
| | `UpgradesKeepTheCitizen` | `L2Provenance` |
| | `TokensLastUnlessAsked` | `NobodyElseEndsASession` |
| | `IntrospectionIsTruthful` | `IntrospectionTellsTheMinted`, without JWT |
| | `ActiveOnlyWithinLifetime` | `ActiveWithinLifetime`, without JWT |
| | `ServiceKeepsTheContract` | `ImplementsContract`: the refinement |
| `TokenClusterProofs` | `ClusterInvariance` | (the inductive invariant) |
| | `OverStaysOver` | `OverForGood` |
| | `ErrorsMeanLag` | `ErrsOnlyWhileLagging` |
| `AcsProofs` | `LoginInvariance` | (the inductive invariant) |
| | `LoginsAreTyped`, `VouchedBeforeRegistered`, `TokenKindsAgree` | `TypeOK`, `OnlyVouchedAreRegistered`, `KindsAgree` |
| | `IssuableUsersOnly`, `LoginsRefusedForCause` | `TokensAskedForIssuableUsers`, `RefusedForCause` (run within the hub) |
| | `RegistrationComesFirst`, `TokenIsForTheAsserted` | `RegisteredBeforeToken`, `TokenSpeaksForTheAssertion` |
| `HubProofs` | `HubInvariance` | (the inductive invariant) |
| | `CompaniesAreMandated`, `EveryHolderWentThrough` | `MandatedCompaniesOnly`, `HoldersWentThroughAll` |
| | `L1PageLeadsToAnUpgrade` | `L1PageMeansUpgradable` |
| | `HubAgreesOnTheToken`, `HubRefusesForCause` | `LoginsAgreeOnTheToken`, `LoginRefusedForCause` |
| | `HubIsATokenService` | `ImplementsTokenService`: the refinement |
| | `HubInvalidationIsFinal`, `HubUpgradesKeepTheCitizen`, `HubTokensLastUnlessAsked`, `HubIntrospectionIsTruthful`, `HubActiveWithinLifetime`, `HubKeepsTheContract` | those of the token service and the contract, now of the hub |
| `AccessLogProofs` | `LogInvariance` | (the inductive invariant) |
| | `BlobsAreItems`, `CitizensStayUnnamed`, `NothingLostSilently` | `TypeOK`, `NothingNamesTheCitizen`, `NoSilentLoss` |
| | `BlobsAreFiled`, `RecordsStay` | `FiledByItsExchange`, `RecordsAreKept` |
| `InstanceProofs` | `InstanceInvariance` | (the inductive invariant) |
| | `InstanceIsTyped`, `RunningMeansConfigured` | `TypeOK`, `ConfigFits` |
| | `GoingBackMeansOvertaken` | `MetadataGoBackOnlyIfOvertaken` |

Each module proves that its invariant holds initially and is kept by every
action, one lemma per action or family of actions, and derives the rest from
it. TLC checked each invariant on the instances of section 3 before it was
proved.

### Why the invariants are needed

**`IInv`** (token service). Finality is not inductive: it speaks of answers, and
nothing in it says why a stale request gets the answer it does. `IInv` adds that
the session of a revoked token is gone, or its blacklist entry outlasts the
horizon (`RevokedIsOver`); that sessions exist under minted names only, so that
no new one is a revoked one again (`OnlyMintedHaveSessions`); that minted tokens
name users and do not expire before `Epoch` (`MintedClaims`); and what a request
may rely on at each await (`RequestOK`).

**`LifeInv`** (token service) says what a token is, where `IInv` says when it is
over. A user is checked where a login or an upgrade makes it and nowhere later.
That a session reads back as the user its token was minted for, and ends when
the claims say, rests on minted users being issuable and derived soundly
(`MintedSoundly`), on a session being that of its token or gone, and not gone
before its invalidation was asked for (`SessionsAsMinted`), on the blacklist
holding only what was asked for (`BlacklistedForGood`), and on what a request
about to mint has in its hands (`RequestKnows`). `LifeInv` is inductive relative
to `IInv`. The codec lemma `IssuableReadsBack` carries the round trip through
Redis: an issuable user is decoded by the codec it was encoded by.

**The contract.** Each state is mapped to the life of its tokens and each step
shown to begin, end, promise or report as `SessionContract` allows, or to
stutter. Both invariants are used: `IInv` for what must not come back, `LifeInv`
for what must not end.

**`ClusterInv`** (cluster). `IInv` fails after a failover: a write about a revoked
token may be lost, and the token lives again. `ClusterInv` therefore says what
`RevokedIsOver` says of the masters alone, and of tokens not in `lost`
(`KeptByMasters`); of either copy it says only what all writes have in common
(`CopyOK`: no session of what was never minted, no blacklist entry that was not
asked for or that runs out). That suffices for `OverForGood`, since nothing that
is in no copy can be copied, and for `ErrsOnlyWhileLagging`: were the copies
equal and the token not lost, the replica would answer as the master.

**`AcsInv`** (login) follows the user through `getAcs`: what is known at each
await (`Known`), and, of an issued token, that its lifetime and page follow from
the very user it was issued for (`IssuedSoundly`). `Cleared` is where the
decisions meet: by the time a token is asked for, the companies, the
registration and the level have been settled, so that the three tests of L1 or
L2 cannot differ.

**`HubInv`** (hub) joins the two: while a login waits for its token, the request
in its slot mints for its user (`Joined`), and whoever is about to be minted for
went through all, with companies that were sent for them (`RequestMandated`,
`LoginMandated`). `AcsInv`, and the theorems about the login, are taken over by
instantiating `AcsProofs` with the hub's desks; `IInv` and `LifeInv` by the lemmas
on their steps, since a step of the hub is one of the token service but for whom
a login asks a token for, who is `Issuable` by `AcsInv`. An L2 token keeps both because an
upgrade keeps the citizen and picks from the citizen's own companies.

**`LogInv`** (access log). Two calls may compute one name and write in either
order, so what is stored is characterised by its name and not by the call that
wrote it (`Filed`); a call that ended without an error remembers a name that is
taken (`CallSound`), by whichever call wrote there last.

**`InstanceInv`** (instance) ties the configuration in force to the environment
for good (`Configured`), so that `ConfigFits` becomes a statement about the
codecs: for every set `Env` of environments, what `Decode` lets through was
given each parameter that the code behind it reads (`UsedIsGiven`), with numbers
it can go on with (`DecodedConfig`). `InOrder` is what the refreshes keep: none
got less than was published when it was asked for, and one that holds less than
is in force was overtaken.

### What is assumed

- The types of the constants: `ConfigAssumption`, `ModeAssumption`,
  `LoginConfigAssumption`, `HubAssumption`, `StorageAssumption`,
  `BoundsAssumption`, `FailoverAssumption`. They include what the codecs of the
  configuration enforce, that the registry comes with JWTs only.
- `TokenAssumption`, `MissingAssumption`, `AbsenceAssumption`, `KindAssumption`: the values that
  stand for what is absent, or for any other string, are none of the rest.
- `LoginAssumption`, in `TokenService`: logins are for `Issuable` users. In the hub
  this is no assumption but a result: `IssuableUsersOnly` proves it of `getAcs`.
- `HorizonAssumption`: the history takes place in the Unix times from `Epoch` to
  `MaxNow < 2 * Epoch`. It makes a time to live that is a date long enough;
  with today's dates it holds for half a century.
- `HubIsATokenService` has a hypothesis of its own: `LoginUser` leaves no issuable
  user out. `LoginUser` stands for whoever a token may be asked for; the hub
  chooses by itself, and is a token service whose choice is not narrower. The
  other theorems about the hub need neither it nor `LoginAssumption`, which is
  why those on tokens are stated for the hub again.

TLC evaluates every assumption on the constants of the runs.

### Only model-checked

- `EveryRequestAnswered`, `RevokedDiesOut`, `EveryLoginAnswered` and
  `NothingHangs`: liveness under fairness is out of the prover's reach.
- The four violated properties: a counterexample is what they have.

Nothing is defined by recursion, so no proof is missing for that reason.

## 5. Not modelled, and the plan

The components of section 1 that change any state are modelled, and their
safety properties proved. What is left to prove goes beyond them:

1. the cluster and the single store: without replicas that lag and without
   failovers, `TokenCluster` implements `TokenService`;
2. the steps of the liveness properties that are no liveness themselves: that
   each step of a request brings it closer to its answer.

Not modelled: which logins leave a record in the access log, as it is the SAML
library that calls both; whether a request to `/refresh` that fails is ever
answered (it is not); the addresses of Redis.

Out of scope: SAML itself (the library validates assertions, and is modelled by
what it hands to `getAcs`), encryption of log payloads, logging and telemetry,
the static pages, generated API clients, deployment files and the end-to-end
scenarios. Names, e-mail addresses and telephone numbers ride along with the
fiscal number; that they may be malformed is a flag of the assertion.
