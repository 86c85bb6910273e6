--------------------------- MODULE MCTokenService ---------------------------
(***************************************************************************)
(* Small instances of the token service.  One citizen with a choice of     *)
(* companies, two of which share a code, and another with one company.     *)
(***************************************************************************)
EXTENDS TokenServiceProps, TokenServiceContract

MCFiscalCode == {"alice", "bruno"}
MCSpidLevel == {"SpidL1", "SpidL2"}
MCOrgCode == {"org1", "org2"}

Acme == [organization_fiscal_code |-> "org1", organization_name |-> "Acme"]
Acme2 == [organization_fiscal_code |-> "org1", organization_name |-> "Acme bis"]
Bolt == [organization_fiscal_code |-> "org2", organization_name |-> "Bolt"]

MCCompany == {Acme, Acme2, Bolt}

Alice ==
  [fiscal_number |-> "alice", spid_level |-> "SpidL2", from_aa |-> TRUE,
   companies |-> <<Bolt, Acme, Acme2>>, company |-> Missing,
   uid |-> Missing, level |-> "L1"]

Bruno ==
  [fiscal_number |-> "bruno", spid_level |-> "SpidL1", from_aa |-> TRUE,
   companies |-> Missing, company |-> Acme,
   uid |-> Missing, level |-> "L2"]

Carla ==
  [fiscal_number |-> "alice", spid_level |-> "SpidL2", from_aa |-> FALSE,
   companies |-> Missing, company |-> Missing,
   uid |-> Missing, level |-> "L2"]

\* The logins with the attribute authority, and without it.
MCLoginUser == IF ENABLE_ADE_AA THEN {Alice, Bruno} ELSE {Carla}
MCAlice == {Alice}

MCSymmetry == Permutations(Req) \union Permutations(Token)
=============================================================================
