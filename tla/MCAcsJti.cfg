CONSTANTS
  Missing = Missing
  Login = {l1}
  ENABLE_JWT = TRUE
  ENABLE_ADE_AA = FALSE
  ENABLE_USER_REGISTRY = FALSE
  INCLUDE_SPID_USER_ON_INTROSPECTION = TRUE
  EnvJtiSpid = FALSE
  LowestLevel = "SpidL1"
  L1_TOKEN_EXPIRATION = 1
  L2_TOKEN_EXPIRATION = 2
  TOKEN_EXPIRATION = 3
  FiscalCode <- MCFiscalCode
  SpidLevel <- MCSpidLevel
  OrgCode <- MCOrgCode
  Company <- MCCompany
  CompanyReply <- MCCompanyReply
SPECIFICATION Spec
SYMMETRY MCSymmetry
INVARIANTS
  JtiAsConfigured
