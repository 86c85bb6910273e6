------------------------------- MODULE Config -------------------------------
(***************************************************************************)
(* The configuration, src/utils/config.ts: what the service makes of its   *)
(* environment, or that it refuses it.  Decoding is pure and happens once, *)
(* when the modules are loaded.                                            *)
(*                                                                         *)
(* An environment e has e.flag and e.number, the strings its variables     *)
(* hold, or Missing; e.kind, that of SPID_LOGS_STORAGE_KIND; e.given, the  *)
(* names of the other variables that hold a non-empty string; e.blank, the *)
(* names of the optional ones that are set to the empty string; and        *)
(* e.prod, whether NODE_ENV is "prod".  What the strings in e.given say    *)
(* (URLs, keys, names) is not represented: those that have a form of their *)
(* own, the contacts of a company and the endpoint of S3, are well formed. *)
(***************************************************************************)
EXTENDS Optional, Integers

(***************************************************************************)
(* Reading one variable.                                                   *)
(***************************************************************************)
\* _.toLowerCase() === "true", with a default for a variable that is not set.
Flag(raw, default) == IF raw = Missing THEN default ELSE raw \in {"true", "True"}

\* IntegerFromString over the strings considered: an empty one is zero.
IntegerOf == [s \in {"", "0", "-5", "60"} |-> CASE s = "60" -> 60
                                                [] s = "-5" -> -5
                                                [] OTHER    -> 0]

IntegerFromString(raw) ==
  IF raw \in DOMAIN IntegerOf THEN IntegerOf[raw] ELSE Missing

\* Slip: any integer will do.
AnyInteger(n) == n # Missing

NonNegativeInteger(n) == n # Missing /\ n >= 0

\* A number that has a default for when it is not set or is not one.
IntegerOr(raw, default) ==
  IF IntegerFromString(raw) = Missing THEN default ELSE IntegerFromString(raw)

(***************************************************************************)
(* What is handed to the codec IConfig: the environment with its flags and *)
(* numbers read.  One of the flags is read from the variable of another.   *)
(***************************************************************************)
Read(e) ==
  LET F(name, default) == Flag(e.flag[name], default) IN
  [ENABLE_ADE_AA |-> F("ENABLE_ADE_AA", FALSE),
   ENABLE_FULL_OPERATOR_METADATA |-> F("ENABLE_FULL_OPERATOR_METADATA", FALSE),
   ENABLE_JWT |-> F("ENABLE_JWT", FALSE),
   ENABLE_SPID_ACCESS_LOGS |-> F("ENABLE_SPID_ACCESS_LOGS", FALSE),
   ENABLE_USER_REGISTRY |-> F("ENABLE_USER_REGISTRY", FALSE),
   INCLUDE_SPID_USER_ON_INTROSPECTION |->
     F("INCLUDE_SPID_USER_ON_INTROSPECTION", FALSE),
   JWT_TOKEN_JTI_SPID |-> F("INCLUDE_SPID_USER_ON_INTROSPECTION", FALSE),
   L1_TOKEN_EXPIRATION |-> IntegerFromString(e.number["L1_TOKEN_EXPIRATION"]),
   L2_TOKEN_EXPIRATION |-> IntegerFromString(e.number["L2_TOKEN_EXPIRATION"]),
   TOKEN_EXPIRATION |-> IntegerOr(e.number["TOKEN_EXPIRATION"], 3600),
   SERVER_PORT |-> IntegerOr(e.number["SERVER_PORT"], 8080),
   REDIS_CLUSTER_ENABLED |-> F("REDIS_CLUSTER_ENABLED", Missing),
   SPID_LOGS_ENABLE_PAYLOAD_ENCRYPTION |->
     F("SPID_LOGS_ENABLE_PAYLOAD_ENCRYPTION", TRUE),
   SPID_LOGS_STORAGE_NAME_HIDE_FISCALCODE |->
     F("SPID_LOGS_STORAGE_NAME_HIDE_FISCALCODE", FALSE),
   SPID_LOGS_STORAGE_KIND |-> e.kind,
   SPID_LOGS_STORAGE_CONNECTION_TIMEOUT |->
     e.number["SPID_LOGS_STORAGE_CONNECTION_TIMEOUT"],
   given |-> e.given,
   blank |-> e.blank,
   isProduction |-> e.prod]

(***************************************************************************)
(* The codecs.  An optional string may be left out, and may not be empty.  *)
(***************************************************************************)
AttributeAuthorityParams(c) ==
  IF c.ENABLE_ADE_AA
  THEN /\ {"ADE_AA_API_ENDPOINT", "ENDPOINT_L1_SUCCESS",
           "L1_TOKEN_HEADER_NAME"} \subseteq c.given
       /\ NonNegativeInteger(c.L1_TOKEN_EXPIRATION)
       /\ NonNegativeInteger(c.L2_TOKEN_EXPIRATION)
  ELSE NonNegativeInteger(c.TOKEN_EXPIRATION)

UserRegistryParams(c) ==
  c.ENABLE_USER_REGISTRY =>
    {"USER_REGISTRY_API_KEY", "USER_REGISTRY_URL"} \subseteq c.given

\* Slip: the registry is looked at on its own, whatever ENABLE_JWT.
JWTParamsApart(c) ==
  /\ c.ENABLE_JWT =>
       {"JWT_TOKEN_ISSUER", "JWT_TOKEN_PRIVATE_KEY"} \subseteq c.given
  /\ UserRegistryParams(c)

JWTParams(c) ==
  IF c.ENABLE_JWT
  THEN /\ {"JWT_TOKEN_ISSUER", "JWT_TOKEN_PRIVATE_KEY"} \subseteq c.given
       /\ {"JWT_TOKEN_AUDIENCE", "JWT_TOKEN_KID"} \intersect c.blank = {}
       /\ UserRegistryParams(c)
  ELSE ~c.ENABLE_USER_REGISTRY

\* A variable that is not set names no kind of storage.
ASSUME KindAssumption == Missing \notin {"azurestorage", "awss3"}

\* No kind means Azure, for backward compatibility.
SpidLogsStorageAzureStorage(c) ==
  /\ c.SPID_LOGS_STORAGE_KIND \in {Missing, "azurestorage"}
  /\ {"SPID_LOGS_STORAGE_CONNECTION_STRING",
      "SPID_LOGS_STORAGE_CONTAINER_NAME"} \subseteq c.given

SpidLogsStorageAwsS3(c) ==
  /\ c.SPID_LOGS_STORAGE_KIND = "awss3"
  /\ "SPID_LOGS_STORAGE_CONTAINER_NAME" \in c.given
  /\ "SPID_LOGS_STORAGE_CONTAINER_REGION" \notin c.blank
  /\ LET raw == c.SPID_LOGS_STORAGE_CONNECTION_TIMEOUT
     IN  raw # Missing => IntegerFromString(raw) # Missing

EncryptionConfiguration(c) ==
  c.SPID_LOGS_ENABLE_PAYLOAD_ENCRYPTION => "SPID_LOGS_PUBLIC_KEY" \in c.given

SpidLogsParams(c) ==
  c.ENABLE_SPID_ACCESS_LOGS =>
    /\ EncryptionConfiguration(c)
    /\ SpidLogsStorageAzureStorage(c) \/ SpidLogsStorageAwsS3(c)

CommonSpidTexts ==
  {"ACS_BASE_URL", "AUTH_N_CONTEXT", "ENDPOINT_ACS", "ENDPOINT_ERROR",
   "ENDPOINT_LOGIN", "ENDPOINT_LOGOUT", "ENDPOINT_METADATA", "ENDPOINT_SUCCESS",
   "METADATA_PRIVATE_CERT", "METADATA_PUBLIC_CERT", "ORG_DISPLAY_NAME",
   "ORG_ISSUER", "ORG_NAME", "ORG_URL", "REQUIRED_ATTRIBUTES_SERVICE_NAME",
   "SPID_ATTRIBUTES"}

ContactPersonTexts ==
  {"COMPANY_EMAIL", "COMPANY_FISCAL_CODE", "COMPANY_IPA_CODE", "COMPANY_NAME",
   "COMPANY_VAT_NUMBER"}

SpidParams(c) ==
  /\ CommonSpidTexts \subseteq c.given
  /\ {"CIE_URL", "IDP_METADATA_URL", "SPID_TESTENV_URL", "SPID_VALIDATOR_URL"}
       \intersect c.blank = {}
  /\ SpidLogsParams(c)
  /\ c.ENABLE_FULL_OPERATOR_METADATA =>
       /\ ContactPersonTexts \subseteq c.given
       /\ "COMPANY_PHONE_NUMBER" \notin c.blank

IConfigUtility(c) ==
  /\ {"APPINSIGHTS_INSTRUMENTATIONKEY", "REDIS_URL"} \subseteq c.given
  /\ {"REDIS_PASSWORD", "REDIS_PORT"} \intersect c.blank = {}
  /\ NonNegativeInteger(c.SERVER_PORT)

\* The defaults that codecs fill in.
WithCodecDefaults(c) ==
  IF c.ENABLE_SPID_ACCESS_LOGS /\ c.SPID_LOGS_STORAGE_KIND = Missing
  THEN [c EXCEPT !.SPID_LOGS_STORAGE_KIND = "azurestorage"] ELSE c

\* The configuration, or Missing where getConfigOrThrow throws.
Decode(e) ==
  LET c == Read(e)
  IN  IF /\ AttributeAuthorityParams(c) /\ JWTParams(c)
         /\ SpidParams(c) /\ IConfigUtility(c)
      THEN WithCodecDefaults(c) ELSE Missing
=============================================================================
