----------------------------- MODULE AccessLog -----------------------------
(***************************************************************************)
(* The access log: accessLogHandler in src/handlers/spid.ts, which the     *)
(* SAML library calls with every exchange it is done with, over            *)
(* src/utils/access_log.ts and src/utils/blob.ts.                          *)
(*                                                                         *)
(* Nobody waits for the handler, and nobody learns how it ended but the    *)
(* reader of the error log.  It runs to the write of a blob without        *)
(* interruption; the write takes effect in the step that ends it.  Two     *)
(* exchanges may answer one request, as when a form is posted twice.       *)
(*                                                                         *)
(* One calendar serves createdAt and createdAtDay: the code takes the      *)
(* first as an instant in UTC and the second as a day of the local time,   *)
(* which are the same calendar where TZ is not set, as in the images built *)
(* from the repository.                                                    *)
(***************************************************************************)
EXTENDS Optional, Integers

CONSTANTS
  Call,             \* slots for calls of the handler
  RequestId,        \* the ids of SPID requests
  FiscalCode,       \* the citizens
  LastDay,          \* the history takes place in the days 0 to LastDay
  LogConfig         \* the configurations of the storage to consider

ASSUME StorageAssumption ==
  /\ LogConfig \subseteq [SPID_LOGS_STORAGE_KIND : {"azurestorage", "awss3"},
                          SPID_LOGS_STORAGE_NAME_HIDE_FISCALCODE : BOOLEAN,
                          SPID_LOGS_ENABLE_PAYLOAD_ENCRYPTION : BOOLEAN]
  /\ LastDay \in Nat

VARIABLES
  config,     \* the configuration, which no step changes
  today,      \* the clock, as far as names of blobs tell it
  blobs,      \* the storage: by name, an item or Missing
  call        \* the calls under way, and how the last ones ended

vars == <<config, today, blobs, call>>

Day == 0 .. LastDay

(***************************************************************************)
(* An exchange, as the library hands it over.  The request and the citizen *)
(* are Missing where the response has none that can be read, or is no XML; *)
(* address tells whether the client's IP address is one, and empty whether *)
(* one of the two payloads is.                                             *)
(***************************************************************************)
Exchange ==
  [request : RequestId \union {Missing}, citizen : FiscalCode \union {Missing},
   address : BOOLEAN, empty : BOOLEAN]

\* What the payloads of an exchange say.
Payload(exchange) ==
  [request |-> exchange.request, citizen |-> exchange.citizen]

\* SpidLogMsg: what was found out about an exchange, read at the day createdAt,
\* and at createdAtDay a moment later.
Message(exchange, createdAt, createdAtDay) ==
  [request |-> exchange.request, fiscalCode |-> exchange.citizen,
   createdAt |-> createdAt, createdAtDay |-> createdAtDay,
   payload |-> Payload(exchange), saml |-> Missing, sealed |-> FALSE]

IsLoggable(exchange) ==
  exchange.request # Missing /\ exchange.citizen # Missing /\ exchange.address

\* Slip: everything found out is stored along with the item.
ExactAsItIs(item) == item

\* t.exact: what is no property of a blob item is left out of it.
Exact(item) ==
  [item EXCEPT !.fiscalCode = Missing, !.createdAtDay = Missing,
               !.payload = Missing]

\* The blob item of a message, with both payloads encrypted or as they are.
Item(message) ==
  Exact([message EXCEPT !.saml = message.payload,
                        !.sealed = config.SPID_LOGS_ENABLE_PAYLOAD_ENCRYPTION])

\* Slips: the fiscal code shows; a name for the day and the citizen.
NameWithCitizen(message) ==
  [request |-> message.request, day |-> message.createdAtDay,
   citizen |-> message.fiscalCode]
DayAndCitizen(message) ==
  [request |-> Missing, day |-> message.createdAtDay,
   citizen |-> message.fiscalCode]

\* <request>-<day>.json, or <request>-<day>-<citizen>.json.
MakeSpidLogBlobName(message) ==
  [request |-> message.request, day |-> message.createdAtDay,
   citizen |-> IF /\ config.SPID_LOGS_STORAGE_KIND = "awss3"
                  /\ config.SPID_LOGS_STORAGE_NAME_HIDE_FISCALCODE
               THEN Missing ELSE message.fiscalCode]

BlobName == [request : RequestId \union {Missing}, day : Day,
             citizen : FiscalCode \union {Missing}]

-----------------------------------------------------------------------------
NoCall == [pc |-> "idle", payload |-> Missing, name |-> Missing,
           item |-> Missing, error |-> FALSE]

\* An error is logged, and of the call nothing else is remembered.
Failed == [NoCall EXCEPT !.pc = "done", !.error = TRUE]

Writing(exchange, message) ==
  [pc |-> "write", payload |-> Payload(exchange),
   name |-> MakeSpidLogBlobName(message), item |-> Item(message),
   error |-> FALSE]

\* The item can be made: the key encrypts, or there is something to store.
CanMake(exchange) ==
  config.SPID_LOGS_ENABLE_PAYLOAD_ENCRYPTION \/ ~exchange.empty

\* The clock is read twice, and midnight may fall in between.
Handle(c, exchange) ==
  /\ call[c].pc \in {"idle", "done"}
  /\ \E createdAtDay \in {today, today + 1} \intersect Day :
       /\ today' = createdAtDay
       /\ \/ call' = [call EXCEPT ![c] = Failed]
             /\ \/ ~IsLoggable(exchange)
                \/ ~CanMake(exchange)
                \/ config.SPID_LOGS_ENABLE_PAYLOAD_ENCRYPTION  \* with no key
          \/ /\ IsLoggable(exchange)
             /\ CanMake(exchange)
             /\ call' = [call EXCEPT ![c] =
                  Writing(exchange, Message(exchange, today, createdAtDay))]
  /\ UNCHANGED <<config, blobs>>

Ended(c, error) ==
  call' = [call EXCEPT ![c] = IF error THEN Failed
                              ELSE [@ EXCEPT !.pc = "done", !.item = Missing]]

\* The blob is created, or replaced; the storage may do so and not say it.
Stored(c, error) ==
  /\ blobs' = [blobs EXCEPT ![call[c].name] = call[c].item]
  /\ Ended(c, error)

\* Slip: a write that was refused is not reported.
WriteQuietly(c) ==
  /\ call[c].pc = "write"
  /\ \/ \E error \in BOOLEAN : Stored(c, error)
     \/ Ended(c, FALSE) /\ UNCHANGED blobs
  /\ UNCHANGED <<config, today>>

Write(c) ==
  /\ call[c].pc = "write"
  /\ \/ \E error \in BOOLEAN : Stored(c, error)
     \/ Ended(c, TRUE) /\ UNCHANGED blobs
  /\ UNCHANGED <<config, today>>

\* The instance stops; what it was writing is stored or not.
Crash(c) ==
  /\ call[c].pc = "write"
  /\ blobs' \in {blobs, [blobs EXCEPT ![call[c].name] = call[c].item]}
  /\ call' = [call EXCEPT ![c] = NoCall]
  /\ UNCHANGED <<config, today>>

Midnight ==
  /\ today < LastDay
  /\ today' = today + 1
  /\ UNCHANGED <<config, blobs, call>>

Init ==
  /\ config \in LogConfig
  /\ today = 0
  /\ blobs = [name \in BlobName |-> Missing]
  /\ call = [c \in Call |-> NoCall]

Next ==
  \/ \E c \in Call :
       \/ \E exchange \in Exchange : Handle(c, exchange)
       \/ Write(c)
       \/ Crash(c)
  \/ Midnight

Spec == Init /\ [][Next]_vars
=============================================================================
