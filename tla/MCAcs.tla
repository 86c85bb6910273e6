------------------------------- MODULE MCAcs -------------------------------
(***************************************************************************)
(* Small instances of the login pipeline: two citizens, two SPID levels,   *)
(* and an authority that sends no company, one, several, or a company      *)
(* whose code the codec refuses, alone or among good ones.                 *)
(***************************************************************************)
EXTENDS AcsProps, TLC

MCFiscalCode == {"alice", "bruno"}
MCSpidLevel == {"SpidL1", "SpidL2"}
MCOrgCode == {"org1", "org2"}

Acme == [organization_fiscal_code |-> "org1", organization_name |-> "Acme"]
Bolt == [organization_fiscal_code |-> "org2", organization_name |-> "Bolt"]
Odd == [organization_fiscal_code |-> "odd", organization_name |-> "Odd"]

MCCompany == {Acme, Bolt, Odd}

MCCompanyReply ==
  {<<>>, <<Acme>>, <<Bolt, Acme>>, <<Odd>>, <<Acme, Odd>>}

MCSymmetry == Permutations(Login)
=============================================================================
