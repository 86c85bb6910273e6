--------------------------- MODULE AccessLogProofs ---------------------------
(***************************************************************************)
(* The proofs about the access log, for every number of calls at once,     *)
(* every length of the history and every configuration of the storage.     *)
(***************************************************************************)
EXTENDS AccessLogProps, TLAPS

\* What is stored of an exchange, and the name for it, come from one message: the
\* name is that of the exchange, and the item keeps nothing but what it should.
LEMMA WritingIsSound ==
  ASSUME config \in LogConfig, NEW exchange \in Exchange, IsLoggable(exchange),
         NEW createdAt \in Day, NEW createdAtDay \in Day,
         createdAtDay \in {createdAt, createdAt + 1}
  PROVE  LET g == Writing(exchange, Message(exchange, createdAt, createdAtDay))
         IN  /\ g \in CallRecord
             /\ g.pc = "write"
             /\ g.name \in BlobName
             /\ g.item \in BlobItem
             /\ Filed(g.name, g.item)
             /\ g.payload.request = g.name.request
<1>1. PICK sealed \in BOOLEAN :
        sealed = config.SPID_LOGS_ENABLE_PAYLOAD_ENCRYPTION
  BY StorageAssumption
<1>2. PICK m : m = Message(exchange, createdAt, createdAtDay)
  OBVIOUS
<1>3. PICK p : p = Payload(exchange)
  OBVIOUS
<1>4. /\ p \in Payloads
      /\ p.request = exchange.request
      /\ p.citizen = exchange.citizen
  BY <1>3 DEF Payload, Payloads, Exchange
<1>5. exchange.request \in RequestId /\ exchange.citizen \in FiscalCode
  BY DEF IsLoggable, Exchange
<1>6. m = [request |-> exchange.request, fiscalCode |-> exchange.citizen,
           createdAt |-> createdAt, createdAtDay |-> createdAtDay,
           payload |-> p, saml |-> Missing, sealed |-> FALSE]
  BY <1>2, <1>3 DEF Message
<1>7. PICK item : item = Item(m)
  OBVIOUS
<1>8. item = [request |-> exchange.request, fiscalCode |-> Missing,
              createdAt |-> createdAt, createdAtDay |-> Missing,
              payload |-> Missing, saml |-> p, sealed |-> sealed]
  BY <1>1, <1>6, <1>7 DEF Item, Exact
<1>9. item \in BlobItem
  BY <1>4, <1>5, <1>8 DEF BlobItem
<1>10. PICK name : name = MakeSpidLogBlobName(m)
  OBVIOUS
<1>11. /\ name \in BlobName
       /\ name.request = exchange.request
       /\ name.day = createdAtDay
       /\ name.citizen = IF HidesCitizens THEN Missing ELSE exchange.citizen
  BY <1>5, <1>6, <1>10 DEF MakeSpidLogBlobName, HidesCitizens, BlobName
<1>12. Filed(name, item)
  BY <1>1, <1>4, <1>8, <1>11 DEF Filed
<1>13. PICK g : g = Writing(exchange, m)
  OBVIOUS
<1>14. g = [pc |-> "write", payload |-> p, name |-> name, item |-> item,
            error |-> FALSE]
  BY <1>3, <1>7, <1>10, <1>13 DEF Writing
<1>15. g \in CallRecord
  BY <1>4, <1>9, <1>11, <1>14 DEF CallRecord
<1>16. QED
  BY <1>2, <1>4, <1>9, <1>11, <1>12, <1>13, <1>14, <1>15
     DEF Filed, HidesCitizens

-----------------------------------------------------------------------------
(***************************************************************************)
(* The invariant.                                                          *)
(***************************************************************************)

\* A call without a name to write to, or one that failed, promises nothing.
LEMMA RestingCalls ==
  /\ NoCall \in CallRecord /\ CallSound(NoCall)'
  /\ Failed \in CallRecord /\ CallSound(Failed)'
<1>1. PICK g : g = NoCall
  OBVIOUS
<1>2. g \in CallRecord /\ CallSound(g)'
  BY <1>1 DEF NoCall, CallRecord, CallSound
<1>3. PICK h : h = Failed
  OBVIOUS
<1>4. h \in CallRecord /\ CallSound(h)'
  BY <1>3 DEF Failed, NoCall, CallRecord, CallSound
<1>5. QED
  BY <1>1, <1>2, <1>3, <1>4

\* Storing an item under a name made for it keeps every stored item under its name.
LEMMA StoringIsSound ==
  ASSUME LogInv, NEW name \in BlobName, NEW item \in BlobItem,
         Filed(name, item), config' = config,
         blobs' = [blobs EXCEPT ![name] = item]
  PROVE  /\ blobs' \in [BlobName -> BlobItem \union {Missing}]
         /\ \A n \in StoredNames : blobs'[n] # Missing
         /\ \A n \in StoredNames' : Filed(n, blobs[n])'
<1>1. blobs \in [BlobName -> BlobItem \union {Missing}]
  BY DEF LogInv, TypeOK
<1>2. \A n \in StoredNames : blobs'[n] # Missing
  BY <1>1, AbsenceAssumption DEF StoredNames
<1>3. ASSUME NEW n \in StoredNames'
      PROVE  Filed(n, blobs[n])'
  <2>1. n \in BlobName /\ blobs'[n] # Missing
    BY DEF StoredNames
  <2>2. CASE n = name
    BY <1>1, <2>1, <2>2 DEF Filed, HidesCitizens
  <2>3. CASE n # name
    <3>1. blobs'[n] = blobs[n] /\ n \in StoredNames
      BY <1>1, <2>1, <2>3 DEF StoredNames
    <3>2. Filed(n, blobs[n])
      BY <3>1 DEF LogInv
    <3>3. QED
      BY <3>1, <3>2 DEF Filed, HidesCitizens
  <2>4. QED
    BY <2>2, <2>3
<1>4. QED
  BY <1>1, <1>2, <1>3

\* Whatever is stored meanwhile, what the other calls rely on stays.
LEMMA CallStep ==
  ASSUME LogInv, NEW c \in Call, NEW g \in CallRecord,
         call' = [call EXCEPT ![c] = g], config' = config, today' \in Day,
         blobs' \in [BlobName -> BlobItem \union {Missing}],
         \A n \in StoredNames : blobs'[n] # Missing,
         \A n \in StoredNames' : Filed(n, blobs[n])',
         CallSound(g)'
  PROVE  LogInv'
<1>1. ASSUME NEW d \in Call
      PROVE  CallSound(call[d])'
  <2>1. CASE d = c
    <3>1. call'[d] = g
      BY <2>1 DEF LogInv, TypeOK
    <3>2. QED
      BY <3>1 DEF CallSound, Filed, HidesCitizens
  <2>2. CASE d # c
    <3>1. call'[d] = call[d] /\ CallSound(call[d])
      BY <2>2 DEF LogInv, TypeOK
    <3>2. QED
      BY <3>1 DEF CallSound, Filed, HidesCitizens, StoredNames
  <2>3. QED
    BY <2>1, <2>2
<1>2. TypeOK'
  <2>1. call' \in [Call -> CallRecord]
    BY DEF LogInv, TypeOK
  <2>2. \A d \in Call : call'[d].pc = "write" =>
          call'[d].name # Missing /\ call'[d].item # Missing
    BY <1>1, AbsenceAssumption DEF CallSound
  <2>3. QED
    BY <2>1, <2>2 DEF LogInv, TypeOK
<1>3. QED
  BY <1>1, <1>2 DEF LogInv

\* At the start nothing is written and no exchange is being handled.
LEMMA InitLogInv == Init => LogInv
<1> SUFFICES ASSUME Init
             PROVE  LogInv
  OBVIOUS
<1>1. NoCall \in CallRecord /\ NoCall.pc = "idle"
  BY DEF NoCall, CallRecord
<1>2. TypeOK
  BY <1>1, StorageAssumption DEF Init, TypeOK, Day
<1>3. StoredNames = {}
  BY DEF Init, StoredNames
<1>4. \A c \in Call : CallSound(call[c])
  BY <1>1 DEF Init, CallSound
<1>5. QED
  BY <1>2, <1>3, <1>4 DEF LogInv

\* The handler: dropped with an error or for good reason, or on its way to be written
\* under a name of its own exchange.
LEMMA HandleStep ==
  ASSUME LogInv, NEW c \in Call, NEW exchange \in Exchange,
         Handle(c, exchange)
  PROVE  LogInv'
<1>1. PICK createdAtDay \in {today, today + 1} \intersect Day :
        /\ today' = createdAtDay
        /\ \/ call' = [call EXCEPT ![c] = Failed]
           \/ /\ IsLoggable(exchange)
              /\ call' = [call EXCEPT ![c] =
                   Writing(exchange, Message(exchange, today, createdAtDay))]
  BY DEF Handle
<1>2. UNCHANGED <<config, blobs>> /\ today' \in Day
  BY <1>1 DEF Handle
<1>3. /\ blobs' \in [BlobName -> BlobItem \union {Missing}]
      /\ \A n \in StoredNames : blobs'[n] # Missing
      /\ \A n \in StoredNames' : Filed(n, blobs[n])'
  BY <1>2 DEF LogInv, TypeOK, StoredNames, Filed, HidesCitizens
<1>4. CASE call' = [call EXCEPT ![c] = Failed]
  BY <1>2, <1>3, <1>4, RestingCalls, CallStep
<1>5. CASE /\ IsLoggable(exchange)
           /\ call' = [call EXCEPT ![c] =
                Writing(exchange, Message(exchange, today, createdAtDay))]
  <2>1. PICK createdAt \in Day : createdAt = today
    BY DEF LogInv, TypeOK
  <2>2. PICK g : g = Writing(exchange,
                             Message(exchange, createdAt, createdAtDay))
    OBVIOUS
  <2>3. /\ g \in CallRecord
        /\ g.pc = "write"
        /\ g.name \in BlobName
        /\ g.item \in BlobItem
        /\ Filed(g.name, g.item)
        /\ g.payload.request = g.name.request
    <3>1. config \in LogConfig
      BY DEF LogInv, TypeOK
    <3>2. QED
      BY <1>1, <1>5, <2>1, <2>2, <3>1, WritingIsSound
         DEF Filed, HidesCitizens
  <2>4. CallSound(g)'
    BY <1>2, <2>3 DEF CallSound, Filed, HidesCitizens
  <2>5. call' = [call EXCEPT ![c] = g]
    BY <1>5, <2>1, <2>2
  <2>6. QED
    BY <1>2, <1>3, <2>3, <2>4, <2>5, CallStep
<1>6. QED
  BY <1>1, <1>4, <1>5

\* What a call is writing, as values that do not change.
LEMMA TheWrite ==
  ASSUME LogInv, NEW c \in Call, call[c].pc = "write"
  PROVE  \E g \in CallRecord :
           /\ g = call[c]
           /\ g.pc = "write"
           /\ g.name \in BlobName
           /\ g.item \in BlobItem
           /\ Filed(g.name, g.item)
           /\ g.payload.request = g.name.request
BY DEF LogInv, TypeOK, CallSound, Filed, HidesCitizens

\* The write, which the storage takes or refuses; the handler is done either way.
LEMMA WriteStep ==
  ASSUME LogInv, NEW c \in Call, Write(c)
  PROVE  LogInv'
<1>1. PICK g \in CallRecord :
        /\ g = call[c]
        /\ g.pc = "write"
        /\ g.name \in BlobName
        /\ g.item \in BlobItem
        /\ Filed(g.name, g.item)
        /\ g.payload.request = g.name.request
  BY TheWrite DEF Write
<1>2. UNCHANGED <<config, today>> /\ today' \in Day
  BY DEF Write, LogInv, TypeOK
<1>3. CASE \E error \in BOOLEAN : Stored(c, error)
  <2>1. PICK error \in BOOLEAN : Stored(c, error)
    BY <1>3
  <2>2. blobs' = [blobs EXCEPT ![g.name] = g.item]
    BY <1>1, <2>1 DEF Stored
  <2>3. /\ blobs' \in [BlobName -> BlobItem \union {Missing}]
        /\ \A n \in StoredNames : blobs'[n] # Missing
        /\ \A n \in StoredNames' : Filed(n, blobs[n])'
    BY <1>1, <1>2, <2>2, StoringIsSound
  <2>4. CASE error
    <3>1. call' = [call EXCEPT ![c] = Failed]
      BY <2>1, <2>4 DEF Stored, Ended
    <3>2. QED
      BY <1>2, <2>3, <3>1, RestingCalls, CallStep
  <2>5. CASE ~error
    <3>1. PICK h : h = [g EXCEPT !.pc = "done", !.item = Missing]
      OBVIOUS
    <3>2. call' = [call EXCEPT ![c] = h]
      BY <1>1, <2>1, <2>5, <3>1 DEF Stored, Ended, LogInv, TypeOK
    <3>3. /\ h \in CallRecord
          /\ h.pc = "done"
          /\ h.name = g.name
          /\ h.payload = g.payload
      BY <3>1 DEF CallRecord
    <3>4. blobs'[g.name] # Missing
      BY <1>1, <2>2, AbsenceAssumption DEF LogInv, TypeOK
    <3>5. CallSound(h)'
      BY <1>1, <3>3, <3>4 DEF CallSound
    <3>6. QED
      BY <1>2, <2>3, <3>2, <3>3, <3>5, CallStep
  <2>6. QED
    BY <2>4, <2>5
<1>4. CASE Ended(c, TRUE) /\ UNCHANGED blobs
  <2>1. /\ blobs' \in [BlobName -> BlobItem \union {Missing}]
        /\ \A n \in StoredNames : blobs'[n] # Missing
        /\ \A n \in StoredNames' : Filed(n, blobs[n])'
    BY <1>2, <1>4 DEF LogInv, TypeOK, StoredNames, Filed, HidesCitizens
  <2>2. call' = [call EXCEPT ![c] = Failed]
    BY <1>4 DEF Ended
  <2>3. QED
    BY <1>2, <2>1, <2>2, RestingCalls, CallStep
<1>5. QED
  BY <1>3, <1>4 DEF Write

\* The end of the process, with the write on its way done or not.
LEMMA CrashStep ==
  ASSUME LogInv, NEW c \in Call, Crash(c)
  PROVE  LogInv'
<1>1. PICK g \in CallRecord :
        /\ g = call[c]
        /\ g.pc = "write"
        /\ g.name \in BlobName
        /\ g.item \in BlobItem
        /\ Filed(g.name, g.item)
        /\ g.payload.request = g.name.request
  BY TheWrite DEF Crash
<1>2. /\ UNCHANGED <<config, today>>
      /\ today' \in Day
      /\ call' = [call EXCEPT ![c] = NoCall]
  BY DEF Crash, LogInv, TypeOK
<1>3. /\ blobs' \in [BlobName -> BlobItem \union {Missing}]
      /\ \A n \in StoredNames : blobs'[n] # Missing
      /\ \A n \in StoredNames' : Filed(n, blobs[n])'
  <2>1. CASE blobs' = blobs
    BY <1>2, <2>1 DEF LogInv, TypeOK, StoredNames, Filed, HidesCitizens
  <2>2. CASE blobs' = [blobs EXCEPT ![g.name] = g.item]
    BY <1>1, <1>2, <2>2, StoringIsSound
  <2>3. QED
    BY <1>1, <2>1, <2>2 DEF Crash
<1>4. QED
  BY <1>2, <1>3, RestingCalls, CallStep

\* Every step keeps the invariant.
LEMMA StepLogInv == LogInv /\ [Next]_vars => LogInv'
<1> SUFFICES ASSUME LogInv, [Next]_vars
             PROVE  LogInv'
  OBVIOUS
<1>1. CASE UNCHANGED vars
  BY <1>1 DEF vars, LogInv, TypeOK, StoredNames, CallSound, Filed,
     HidesCitizens
<1>2. ASSUME NEW c \in Call, NEW exchange \in Exchange, Handle(c, exchange)
      PROVE  LogInv'
  BY <1>2, HandleStep
<1>3. ASSUME NEW c \in Call, Write(c)
      PROVE  LogInv'
  BY <1>3, WriteStep
<1>4. ASSUME NEW c \in Call, Crash(c)
      PROVE  LogInv'
  BY <1>4, CrashStep
<1>5. CASE Midnight
  <2>1. today' \in Day
    BY <1>5, StorageAssumption DEF Midnight, LogInv, TypeOK, Day
  <2>2. UNCHANGED <<config, blobs, call>>
    BY <1>5 DEF Midnight
  <2>3. QED
    BY <2>1, <2>2 DEF LogInv, TypeOK, StoredNames, CallSound, Filed,
       HidesCitizens
<1>6. QED
  BY <1>1, <1>2, <1>3, <1>4, <1>5 DEF Next

-----------------------------------------------------------------------------
(***************************************************************************)
(* The theorems.                                                           *)
(***************************************************************************)

\* Items are written under names of their own, in every state of every access log.
THEOREM LogInvariance == Spec => []LogInv
<1>1. Init => LogInv
  BY InitLogInv
<1>2. LogInv /\ [Next]_vars => LogInv'
  BY StepLogInv
<1>3. QED
  BY <1>1, <1>2, PTL DEF Spec

\* What accessLogHandler stores, or is about to, is a blob item and nothing more.
THEOREM BlobsAreItems == Spec => []TypeOK
<1>1. LogInv => TypeOK
  BY DEF LogInv
<1>2. QED
  BY <1>1, LogInvariance, PTL

\* Where payloads are encrypted and names hide the fiscal code, no blob names a citizen.
THEOREM CitizensStayUnnamed == Spec => []NothingNamesTheCitizen
<1>1. ASSUME LogInv, HidesCitizens,
             config.SPID_LOGS_ENABLE_PAYLOAD_ENCRYPTION,
             NEW name \in StoredNames
      PROVE  /\ name.citizen = Missing
             /\ blobs[name].fiscalCode = Missing
             /\ blobs[name].payload = Missing
             /\ blobs[name].sealed
  <2>1. blobs[name] \in BlobItem
    BY <1>1 DEF LogInv, TypeOK, StoredNames
  <2>2. Filed(name, blobs[name])
    BY <1>1 DEF LogInv
  <2>3. QED
    BY <1>1, <2>1, <2>2 DEF Filed, BlobItem
<1>2. LogInv => NothingNamesTheCitizen
  BY <1>1 DEF NothingNamesTheCitizen, HidesCitizens
<1>3. QED
  BY <1>2, LogInvariance, PTL

\* A call that ended without logging an error left a blob about its request.
THEOREM NothingLostSilently == Spec => []NoSilentLoss
<1>1. ASSUME LogInv, NEW c \in Call, call[c].pc = "done", ~call[c].error
      PROVE  /\ blobs[call[c].name] # Missing
             /\ blobs[call[c].name].request = call[c].payload.request
  <2>1. /\ call[c].name \in BlobName
        /\ blobs[call[c].name] # Missing
        /\ call[c].payload.request = call[c].name.request
    BY <1>1 DEF LogInv, CallSound
  <2>2. Filed(call[c].name, blobs[call[c].name])
    BY <1>1, <2>1 DEF LogInv, StoredNames, Filed, HidesCitizens
  <2>3. QED
    BY <2>1, <2>2 DEF Filed
<1>2. LogInv => NoSilentLoss
  BY <1>1 DEF NoSilentLoss
<1>3. QED
  BY <1>2, LogInvariance, PTL

\* Every blob is found by the request, the citizen and the day of its exchange.
THEOREM BlobsAreFiled == Spec => []FiledByItsExchange
<1>1. LogInv => FiledByItsExchange
  BY DEF LogInv, Filed, FiledByItsExchange
<1>2. QED
  BY <1>1, LogInvariance, PTL

\* No step removes a blob, or replaces it by one about another request or, where the
\* name tells the citizen, about another citizen.
THEOREM RecordsStay == Spec => RecordsAreKept
<1>1. ASSUME LogInv, LogInv', [Next]_vars, NEW name \in StoredNames
      PROVE  /\ blobs'[name] # Missing
             /\ blobs'[name].request = blobs[name].request
             /\ name.citizen # Missing =>
                  blobs'[name].saml.citizen = blobs[name].saml.citizen
  <2>1. name \in BlobName /\ Filed(name, blobs[name])
    BY <1>1 DEF LogInv, StoredNames
  <2>2. blobs'[name] # Missing
    <3>1. CASE UNCHANGED blobs
      BY <1>1, <3>1 DEF StoredNames
    <3>2. CASE \E c \in Call : Write(c) \/ Crash(c)
      <4>1. PICK c \in Call : Write(c) \/ Crash(c)
        BY <3>2
      <4>2. call[c].item # Missing
        BY <1>1, <4>1 DEF LogInv, TypeOK, Write, Crash
      <4>3. blobs' \in {blobs, [blobs EXCEPT ![call[c].name] = call[c].item]}
        BY <4>1 DEF Write, Stored, Crash
      <4>4. QED
        BY <1>1, <4>2, <4>3 DEF LogInv, TypeOK, StoredNames
    <3>3. QED
      BY <1>1, <3>1, <3>2 DEF Next, Handle, Midnight, vars
  <2>3. Filed(name, blobs[name])'
    BY <1>1, <2>1, <2>2 DEF LogInv, StoredNames
  <2>4. QED
    BY <2>1, <2>2, <2>3 DEF Filed
<1>2. LogInv /\ LogInv' /\ [Next]_vars =>
        [\A name \in StoredNames :
           /\ blobs'[name] # Missing
           /\ blobs'[name].request = blobs[name].request
           /\ name.citizen # Missing =>
                blobs'[name].saml.citizen = blobs[name].saml.citizen]_vars
  BY <1>1
<1>3. QED
  BY <1>2, LogInvariance, PTL DEF Spec, RecordsAreKept
=============================================================================
