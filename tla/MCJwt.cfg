CONSTANTS
  Missing = Missing
  Junk = Junk
  Token = {t1, t2}
  Req = {r1, r2}
  Epoch = 10
  MaxNow = 12
  ENABLE_JWT = TRUE
  ENABLE_ADE_AA = TRUE
  INCLUDE_SPID_USER_ON_INTROSPECTION = TRUE
  L1_TOKEN_EXPIRATION = 1
  L2_TOKEN_EXPIRATION = 2
  TOKEN_EXPIRATION = 1
  FiscalCode <- MCFiscalCode
  SpidLevel <- MCSpidLevel
  OrgCode <- MCOrgCode
  Company <- MCCompany
  LoginUser <- MCAlice
SPECIFICATION Spec
SYMMETRY MCSymmetry
INVARIANTS
  InvalidationSticks
  L2Provenance
  NobodyElseEndsASession
PROPERTIES
  ImplementsContract
