---------------------------- MODULE MCAccessLog ----------------------------
(***************************************************************************)
(* Small instances of the access log.                                      *)
(***************************************************************************)
EXTENDS AccessLogProps, TLC

\* What hides the most, and what hides the least.
MCLogConfig ==
  {[SPID_LOGS_STORAGE_KIND |-> "awss3",
    SPID_LOGS_STORAGE_NAME_HIDE_FISCALCODE |-> TRUE,
    SPID_LOGS_ENABLE_PAYLOAD_ENCRYPTION |-> TRUE],
   [SPID_LOGS_STORAGE_KIND |-> "azurestorage",
    SPID_LOGS_STORAGE_NAME_HIDE_FISCALCODE |-> TRUE,
    SPID_LOGS_ENABLE_PAYLOAD_ENCRYPTION |-> FALSE]}

MCSymmetry ==
  Permutations(Call) \union Permutations(RequestId) \union Permutations(FiscalCode)
=============================================================================
