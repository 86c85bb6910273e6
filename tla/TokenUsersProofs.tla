-------------------------- MODULE TokenUsersProofs --------------------------
(***************************************************************************)
(* What the codecs, the conversions and the choice of a lifetime return:   *)
(* lemmas about the operators of TokenUsers, for the proofs of the token   *)
(* service and of the login pipeline.                                      *)
(***************************************************************************)
EXTENDS TokenUsers, WellFoundedInduction, TLAPS

\* A set of positions has a first one.
LEMMA LeastExists ==
  ASSUME NEW T, T \subseteq Nat, T # {}
  PROVE  \E x \in T : \A y \in T : x =< y
<1>1. \E x \in T : \A y \in T : ~ (<<y, x>> \in OpToRel(<, Nat))
  BY WFMin, NatLessThanWellFounded, Zenon
<1>2. \E x \in T : \A y \in T : ~ (y < x)
  BY <1>1, Zenon DEF OpToRel
<1>3. QED
  BY <1>2

\* The company found is one of the list, and has the code that was asked for.
LEMMA FoundCompany ==
  ASSUME NEW companies \in Seq(Company), NEW code,
         FindCompany(companies, code) # Missing
  PROVE  \E i \in DOMAIN companies :
           /\ FindCompany(companies, code) = companies[i]
           /\ companies[i].organization_fiscal_code = code
<1> DEFINE I == {i \in 1..Len(companies) :
                   companies[i].organization_fiscal_code = code}
<1>1. FindCompany(companies, code) =
        IF (IF I # {} THEN Min(I) ELSE 0) = 0 THEN Missing
        ELSE companies[IF I # {} THEN Min(I) ELSE 0]
  BY DEF FindCompany, SelectInSeq
<1>2. I # {}
  BY <1>1
<1>3. Min(I) \in I
  <2>1. \E x \in I : \A y \in I : x =< y
    <3>1. I \subseteq Nat
      OBVIOUS
    <3>2. QED
      BY <1>2, <3>1, LeastExists
  <2>2. QED
    BY <2>1 DEF Min
<1>4. FindCompany(companies, code) = companies[Min(I)]
  BY <1>1, <1>2, <1>3
<1>5. DOMAIN companies = 1..Len(companies)
  OBVIOUS
<1>6. QED
  BY <1>3, <1>4, <1>5

\* A company that is in the list is found, or one before it with the same code.
LEMMA FindsCompany ==
  ASSUME NEW companies \in Seq(Company), NEW i \in DOMAIN companies,
         NEW code, companies[i].organization_fiscal_code = code
  PROVE  \E j \in DOMAIN companies : FindCompany(companies, code) = companies[j]
<1> DEFINE I == {k \in 1..Len(companies) :
                   companies[k].organization_fiscal_code = code}
<1>1. FindCompany(companies, code) =
        IF (IF I # {} THEN Min(I) ELSE 0) = 0 THEN Missing
        ELSE companies[IF I # {} THEN Min(I) ELSE 0]
  BY DEF FindCompany, SelectInSeq
<1>2. I # {} /\ I \subseteq Nat
  OBVIOUS
<1>3. Min(I) \in I
  <2>1. \E x \in I : \A y \in I : x =< y
    BY <1>2, LeastExists
  <2>2. QED
    BY <2>1 DEF Min
<1>4. Min(I) \in 1..Len(companies)
  BY <1>3
<1>5. FindCompany(companies, code) = companies[Min(I)]
  BY <1>1, <1>2, <1>4
<1>6. PICK j : j = Min(I)
  OBVIOUS
<1>7. j \in DOMAIN companies /\ FindCompany(companies, code) = companies[j]
  BY <1>4, <1>5, <1>6
<1>8. QED
  BY <1>7

\* A decoded L1 user is the user with its level filled in.
LEMMA DecodedTokenUser ==
  ASSUME NEW u \in UserShape, DecodeTokenUser(u) # Missing
  PROVE  /\ DecodeTokenUser(u) \in UserShape
         /\ IsTokenUser(DecodeTokenUser(u))
         /\ DecodeTokenUser(u) = [u EXCEPT !.level = "L1"]
<1> DEFINE v == WithDefaultLevel(u, "L1")
<1>1. DecodeTokenUser(u) = v /\ IsTokenUser(v)
  BY DEF DecodeTokenUser
<1>2. v.level = "L1"
  BY <1>1 DEF IsTokenUser
<1>3. v = [u EXCEPT !.level = "L1"]
  BY <1>2 DEF WithDefaultLevel, UserShape
<1>4. [u EXCEPT !.level = "L1"] \in UserShape
  BY DEF UserShape
<1>5. QED
  BY <1>1, <1>3, <1>4

\* What TokenUserL2.decode returns is a user.
LEMMA DecodedTokenUserL2 ==
  ASSUME NEW u \in UserShape, DecodeTokenUserL2(u) # Missing
  PROVE  DecodeTokenUserL2(u) \in UserShape
<1>1. DecodeTokenUserL2(u) = WithDefaultLevel(u, "L2")
  BY DEF DecodeTokenUserL2
<1>2. WithDefaultLevel(u, "L2") \in UserShape
  BY DEF WithDefaultLevel, UserShape
<1>3. QED
  BY <1>1, <1>2

\* So is what the union of the two codecs returns, to /introspect.
LEMMA DecodedAnyTokenUser ==
  ASSUME NEW u \in UserShape, DecodeAnyTokenUser(u) # Missing
  PROVE  DecodeAnyTokenUser(u) \in UserShape
BY DecodedTokenUser, DecodedTokenUserL2 DEF DecodeAnyTokenUser

\* toTokenUserL2 makes a user of a user and a company.
LEMMA UpgradedUser ==
  ASSUME NEW from \in UserShape, NEW company \in Company
  PROVE  ToTokenUserL2(from, company) \in UserShape
BY DEF UserShape, ToTokenUserL2

\* getTokenExpiration gives every user a lifetime in seconds.
LEMMA ExpirationIsNat == \A u : GetTokenExpiration(u) \in Nat
BY ConfigAssumption DEF GetTokenExpiration
=============================================================================
