CONSTANTS
  Missing = Missing
  Junk = Junk
  Token = {t1, t2}
  ClientOps = {"introspect", "invalidate"}
  Desk = {l1}
  Req = {l1, r1}
  Epoch = 10
  MaxNow = 12
  ENABLE_JWT = FALSE
  ENABLE_ADE_AA = FALSE
  ENABLE_USER_REGISTRY = FALSE
  INCLUDE_SPID_USER_ON_INTROSPECTION = TRUE
  EnvJtiSpid = FALSE
  LowestLevel = "SpidL1"
  L1_TOKEN_EXPIRATION = 3
  L2_TOKEN_EXPIRATION = 3
  TOKEN_EXPIRATION = 1
  FiscalCode <- MCFiscalCode
  SpidLevel <- MCSpidLevel
  OrgCode <- MCOrgCode
  Company <- MCCompany
  CompanyReply <- MCCompanyReply
  Asserted <- MCAnyAsserted
  LoginUser <- MCLoginUser
SPECIFICATION HubSpec
SYMMETRY MCSymmetry
INVARIANTS
  IntrospectionTellsTheMinted
  LoginsAgreeOnTheToken
PROPERTIES
  ActiveWithinLifetime
  LoginRefusedForCause
