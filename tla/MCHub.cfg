CONSTANTS
  Missing = Missing
  Junk = Junk
  Token = {t1, t2}
  ClientOps = {"upgrade"}
  Desk = {l1}
  Req = {l1, r1}
  Epoch = 10
  MaxNow = 10
  ENABLE_JWT = TRUE
  ENABLE_ADE_AA = TRUE
  ENABLE_USER_REGISTRY = TRUE
  INCLUDE_SPID_USER_ON_INTROSPECTION = FALSE
  EnvJtiSpid = FALSE
  LowestLevel = "SpidL1"
  L1_TOKEN_EXPIRATION = 1
  L2_TOKEN_EXPIRATION = 1
  TOKEN_EXPIRATION = 1
  FiscalCode <- MCFiscalCode
  SpidLevel <- MCSpidLevel
  OrgCode <- MCOrgCode
  Company <- MCCompany
  CompanyReply <- MCCompanyReply
  Asserted <- MCAsserted
  LoginUser <- MCLoginUser
SPECIFICATION FairHubSpec
INVARIANTS
  MandatedCompaniesOnly
  HoldersWentThroughAll
  L1PageMeansUpgradable
PROPERTIES
  ImplementsTokenService
  EveryLoginAnswered
