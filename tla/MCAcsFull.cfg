CONSTANTS
  Missing = Missing
  Login = {l1, l2}
  ENABLE_JWT = TRUE
  ENABLE_ADE_AA = TRUE
  ENABLE_USER_REGISTRY = TRUE
  INCLUDE_SPID_USER_ON_INTROSPECTION = TRUE
  EnvJtiSpid = TRUE
  LowestLevel = "SpidL1"
  L1_TOKEN_EXPIRATION = 1
  L2_TOKEN_EXPIRATION = 2
  TOKEN_EXPIRATION = 3
  FiscalCode <- MCFiscalCode
  SpidLevel <- MCSpidLevel
  OrgCode <- MCOrgCode
  Company <- MCCompany
  CompanyReply <- MCCompanyReply
SPECIFICATION Spec
SYMMETRY MCSymmetry
INVARIANTS
  TypeOK
  KindsAgree
  OnlyVouchedAreRegistered
  RegisteredBeforeToken
  TokenSpeaksForTheAssertion
