------------------------------- MODULE MCHubs -------------------------------
(***************************************************************************)
(* Small instances of the hub: two citizens, an authority that sends one   *)
(* company, two, or a malformed one among two, and a third company that it *)
(* never sends.                                                            *)
(***************************************************************************)
EXTENDS HubProps, TLC

MCFiscalCode == {"alice", "bruno"}
MCSpidLevel == {"SpidL1"}
MCOrgCode == {"org1", "org2"}

Acme == [organization_fiscal_code |-> "org1", organization_name |-> "Acme"]
Bolt == [organization_fiscal_code |-> "org2", organization_name |-> "Bolt"]
Corp == [organization_fiscal_code |-> "org1", organization_name |-> "Corp"]
Odd == [organization_fiscal_code |-> "odd", organization_name |-> "Odd"]

MCCompany == {Acme, Bolt, Corp, Odd}

MCCompanyReply == {<<Acme>>, <<Bolt, Acme>>, <<Odd, Acme>>}

\* One assertion of each citizen, with the prefix, and one that names nobody.
MCAsserted ==
  [prefix : {TRUE}, code : MCFiscalCode, contact : {TRUE},
   level : {"SpidL1"}]

\* One citizen, whose assertion may lack or misspell whatever it can.
MCAnyAsserted ==
  [prefix : BOOLEAN, code : {"alice", Missing}, contact : BOOLEAN,
   level : {Missing}]

\* The users that logins may ask tokens for, given these replies.
MCLoginUser ==
  {[fiscal_number |-> c, spid_level |-> "SpidL1", from_aa |-> ENABLE_ADE_AA,
    companies |-> choice[1], company |-> choice[2], uid |-> choice[3],
    level |-> choice[4]] :
     c \in MCFiscalCode,
     choice \in
       IF ENABLE_ADE_AA
       THEN {<<Missing, Acme, Missing, "L2">>}
              \union {<<<<Bolt, Acme>>, Missing, uid, "L1">> :
                        uid \in MCFiscalCode \union {Missing}}
       ELSE {<<Missing, Missing, Missing, "L2">>}}

MCSymmetry == Permutations(Token)
=============================================================================
