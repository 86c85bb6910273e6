--------------------------- MODULE MCTokenCluster ---------------------------
(***************************************************************************)
(* Small instances of the token service over a cluster.                    *)
(***************************************************************************)
EXTENDS TokenClusterProps

MCFiscalCode == {"alice"}
MCSpidLevel == {"SpidL2"}
MCOrgCode == {"org1", "org2"}

Acme == [organization_fiscal_code |-> "org1", organization_name |-> "Acme"]
Bolt == [organization_fiscal_code |-> "org2", organization_name |-> "Bolt"]

MCCompany == {Acme, Bolt}

Alice ==
  [fiscal_number |-> "alice", spid_level |-> "SpidL2", from_aa |-> TRUE,
   companies |-> <<Bolt, Acme>>, company |-> Missing, uid |-> Missing,
   level |-> "L1"]

MCLoginUser == {Alice}
=============================================================================
