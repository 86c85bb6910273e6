---------------------------- MODULE MCInstances ----------------------------
(***************************************************************************)
(* Small instances of the life of a process.                               *)
(***************************************************************************)
EXTENDS InstanceProps

AllTexts ==
  CommonSpidTexts \union ContactPersonTexts \union
  {"APPINSIGHTS_INSTRUMENTATIONKEY", "REDIS_URL", "ADE_AA_API_ENDPOINT",
   "ENDPOINT_L1_SUCCESS", "L1_TOKEN_HEADER_NAME", "JWT_TOKEN_ISSUER",
   "JWT_TOKEN_PRIVATE_KEY", "USER_REGISTRY_API_KEY", "USER_REGISTRY_URL",
   "SPID_LOGS_STORAGE_CONNECTION_STRING",
   "SPID_LOGS_STORAGE_CONTAINER_NAME",
   "SPID_LOGS_PUBLIC_KEY"}

Flags ==
  {"ENABLE_ADE_AA", "ENABLE_FULL_OPERATOR_METADATA", "ENABLE_JWT",
   "ENABLE_SPID_ACCESS_LOGS", "ENABLE_USER_REGISTRY",
   "INCLUDE_SPID_USER_ON_INTROSPECTION", "REDIS_CLUSTER_ENABLED",
   "SPID_LOGS_ENABLE_PAYLOAD_ENCRYPTION",
   "SPID_LOGS_STORAGE_NAME_HIDE_FISCALCODE"}

Numbers ==
  {"L1_TOKEN_EXPIRATION", "L2_TOKEN_EXPIRATION", "TOKEN_EXPIRATION",
   "SERVER_PORT", "SPID_LOGS_STORAGE_CONNECTION_TIMEOUT"}

\* Nothing but what has to be set, and everything that can be switched on.
Bare ==
  [flag |-> [f \in Flags |-> Missing], number |-> [n \in Numbers |-> Missing],
   kind |-> Missing, given |-> AllTexts, blank |-> {}, prod |-> FALSE]

Full ==
  [Bare EXCEPT !.flag = [f \in Flags |-> "True"],
               !.number = [n \in Numbers |-> "60"],
               !.kind = "awss3", !.prod = TRUE]

\* One or two of the parameters of an environment changed.
Changed(e) ==
  LET Without(t, y) ==
        [e EXCEPT !.given = @ \ {t},
                  !.flag["SPID_LOGS_ENABLE_PAYLOAD_ENCRYPTION"] = y]
      Numbered(n, x, y) ==
        [e EXCEPT !.number[n] = x, !.flag["ENABLE_ADE_AA"] = y]
  IN  {[e EXCEPT !.flag[f] = x] : f \in Flags, x \in {"true", "no"}}
        \union {Numbered(n, x, y) : n \in Numbers, x \in {"", "0", "-5", "soon"},
                                    y \in {"true", "no"}}
        \union {Without(t, y) : t \in AllTexts, y \in {"true", "no"}}
        \union {[e EXCEPT !.blank = {t}] :
                  t \in {"REDIS_PASSWORD", "CIE_URL", "JWT_TOKEN_KID"}}
        \union {[e EXCEPT !.kind = x] : x \in {Missing, "azurestorage", "tape"}}

MCFollowed == {Bare, Full}
MCEnv == {Bare, Full} \union Changed(Bare) \union Changed(Full)
=============================================================================
