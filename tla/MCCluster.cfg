CONSTANTS
  Missing = Missing
  Junk = Junk
  Token = {t1}
  Req = {r1, r2}
  Epoch = 10
  MaxNow = 11
  MaxFailovers = 1
  ENABLE_JWT = FALSE
  ENABLE_ADE_AA = TRUE
  INCLUDE_SPID_USER_ON_INTROSPECTION = FALSE
  L1_TOKEN_EXPIRATION = 1
  L2_TOKEN_EXPIRATION = 2
  TOKEN_EXPIRATION = 1
  FiscalCode <- MCFiscalCode
  SpidLevel <- MCSpidLevel
  OrgCode <- MCOrgCode
  Company <- MCCompany
  LoginUser <- MCLoginUser
SPECIFICATION FairClusterSpec
PROPERTIES
  OverForGood
  ErrsOnlyWhileLagging
  RevokedDiesOut
  EveryRequestAnswered
