-------------------------- MODULE SessionContract --------------------------
(***************************************************************************)
(* What the service promises about the life of a token, whatever the mode: *)
(* it begins once, it may end, nothing brings it back, it is over for good *)
(* when an invalidation was acknowledged, and it is reported active only   *)
(* while it lives.  One request reports at most one token at a time.       *)
(***************************************************************************)
CONSTANTS Token, Reporter, None

VARIABLES
  life,       \* of each token: "unborn", then "live", then "over"
  promised,   \* the tokens whose invalidation was acknowledged
  report      \* the token each reporter last said is active, or None

contractVars == <<life, promised, report>>

Init ==
  /\ life = [t \in Token |-> "unborn"]
  /\ promised = {}
  /\ report = [r \in Reporter |-> None]

Begin(t) ==
  /\ life[t] = "unborn"
  /\ life' = [life EXCEPT ![t] = "live"]
  /\ UNCHANGED promised

End(ended) ==
  /\ \A t \in ended : life[t] = "live"
  /\ life' = [t \in Token |-> IF t \in ended THEN "over" ELSE life[t]]
  /\ UNCHANGED promised

Promise(t) ==
  /\ life[t] # "unborn"
  /\ life' = [life EXCEPT ![t] = "over"]
  /\ promised' = promised \union {t}

Report(r, t) ==
  /\ life[t] = "live"
  /\ report' = [report EXCEPT ![r] = t]
  /\ UNCHANGED <<life, promised>>

\* Reporters turn to other work, one or several at once.
Forget(reporters) ==
  report' = [r \in Reporter |-> IF r \in reporters THEN None ELSE report[r]]

Next ==
  \/ \E t \in Token : (Begin(t) \/ Promise(t)) /\ UNCHANGED report
  \/ \E ended \in SUBSET Token : End(ended) /\ UNCHANGED report
  \/ \E r \in Reporter, t \in Token : Report(r, t)
  \/ \E reporters \in SUBSET Reporter :
       Forget(reporters) /\ UNCHANGED <<life, promised>>

Spec == Init /\ [][Next]_contractVars
=============================================================================
