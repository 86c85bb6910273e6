--------------------------- MODULE AccessLogProps ---------------------------
(***************************************************************************)
(* What the access log is meant to guarantee.                              *)
(***************************************************************************)
EXTENDS AccessLog

Payloads ==
  [request : RequestId \union {Missing}, citizen : FiscalCode \union {Missing}]

BlobItem ==
  [request : RequestId, fiscalCode : {Missing}, createdAt : Day,
   createdAtDay : {Missing}, payload : {Missing}, saml : Payloads,
   sealed : BOOLEAN]

\* What is absent is neither a name nor an item.
ASSUME AbsenceAssumption == Missing \notin BlobName \union BlobItem

CallRecord ==
  [pc : {"idle", "write", "done"}, payload : Payloads \union {Missing},
   name : BlobName \union {Missing}, item : BlobItem \union {Missing},
   error : BOOLEAN]

\* What is stored, or about to be, is a blob item and no more; a call that writes
\* has a name to write to.
TypeOK ==
  /\ config \in LogConfig
  /\ today \in Day
  /\ blobs \in [BlobName -> BlobItem \union {Missing}]
  /\ call \in [Call -> CallRecord]
  /\ \A c \in Call : call[c].pc = "write" =>
       call[c].name # Missing /\ call[c].item # Missing

StoredNames == {name \in BlobName : blobs[name] # Missing}

(***************************************************************************)
(* Where payloads are encrypted and names hide the fiscal code, nothing in *)
(* the storage names a citizen: neither a blob's name, nor a property of   *)
(* its item, nor a payload left beside its encrypted copy.                 *)
(***************************************************************************)
NothingNamesTheCitizen ==
  (/\ config.SPID_LOGS_ENABLE_PAYLOAD_ENCRYPTION
   /\ config.SPID_LOGS_STORAGE_NAME_HIDE_FISCALCODE
   /\ config.SPID_LOGS_STORAGE_KIND = "awss3")
    => \A name \in StoredNames :
         /\ name.citizen = Missing
         /\ blobs[name].fiscalCode = Missing
         /\ blobs[name].payload = Missing
         /\ blobs[name].sealed

(***************************************************************************)
(* No exchange is lost in silence: when a call ended, and its instance did *)
(* not stop before, either an error was logged or there is a blob with the *)
(* exchange's request, whatever was written under the same name since.     *)
(***************************************************************************)
NoSilentLoss ==
  \A c \in Call : call[c].pc = "done" /\ ~call[c].error =>
    /\ blobs[call[c].name] # Missing
    /\ blobs[call[c].name].request = call[c].payload.request

(***************************************************************************)
(* A blob is found by what it is about: its name has the request and the   *)
(* citizen of the exchange stored in it, whichever calls wrote it and in   *)
(* whichever order, and the day after its time stamp only if they were     *)
(* taken around midnight.                                                  *)
(***************************************************************************)
FiledByItsExchange ==
  \A name \in StoredNames :
    /\ blobs[name].saml.request = name.request
    /\ name.citizen \in {blobs[name].saml.citizen, Missing}
    /\ name.day \in {blobs[name].createdAt, blobs[name].createdAt + 1}

(***************************************************************************)
(* What is stored about a request stays: a blob is never removed, and only *)
(* replaced by one about the same request, and, where the name tells the   *)
(* citizen, the same citizen.                                              *)
(***************************************************************************)
RecordsAreKept ==
  [][\A name \in StoredNames :
       /\ blobs'[name] # Missing
       /\ blobs'[name].request = blobs[name].request
       /\ name.citizen # Missing =>
            blobs'[name].saml.citizen = blobs[name].saml.citizen]_vars

-----------------------------------------------------------------------------
(***************************************************************************)
(* The invariant the proofs rest on: an item is only ever written under a  *)
(* name made of the same message, and a call that ended without an error   *)
(* remembers a name that is taken, by whichever call wrote there last.     *)
(***************************************************************************)
HidesCitizens ==
  /\ config.SPID_LOGS_STORAGE_KIND = "awss3"
  /\ config.SPID_LOGS_STORAGE_NAME_HIDE_FISCALCODE

Filed(name, item) ==
  /\ item.request = name.request
  /\ item.saml.request = name.request
  /\ name.citizen \in {item.saml.citizen, Missing}
  /\ name.day \in {item.createdAt, item.createdAt + 1}
  /\ item.sealed = config.SPID_LOGS_ENABLE_PAYLOAD_ENCRYPTION
  /\ HidesCitizens => name.citizen = Missing

CallSound(g) ==
  /\ g.pc = "write" => /\ g.name \in BlobName
                       /\ g.item \in BlobItem
                       /\ Filed(g.name, g.item)
                       /\ g.payload.request = g.name.request
  /\ g.pc = "done" /\ ~g.error => /\ g.name \in BlobName
                                  /\ blobs[g.name] # Missing
                                  /\ g.payload.request = g.name.request

LogInv ==
  /\ TypeOK
  /\ \A name \in StoredNames : Filed(name, blobs[name])
  /\ \A c \in Call : CallSound(call[c])
=============================================================================
