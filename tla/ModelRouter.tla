---------------------------- MODULE ModelRouter ----------------------------
(***************************************************************************)
(* How the provider of a role is chosen from the chain it was assigned.    *)
(***************************************************************************)
EXTENDS Naturals, Sequences

Provider == {"codex", "openai", "local"}
BudgetRank == [codex |-> 2, openai |-> 3, local |-> 0]

(* Behind the ChatGPT account in a chain, no API key of OpenAI is tried.   *)
Skipped(chain, i) ==
  chain[i] = "openai" /\ \E j \in 1 .. i - 1 : chain[j] = "codex"

Candidates(chain, fit, valid) ==
  {i \in DOMAIN chain : ~Skipped(chain, i) /\ chain[i] \in fit \cap valid}

Before(chain, cheap, i, j) ==
  LET rank(k) == IF cheap THEN BudgetRank[chain[k]] ELSE 0 IN
  \/ rank(i) < rank(j)
  \/ rank(i) = rank(j) /\ i <= j

(* selectForAgent(): the first that fits the role and has credentials, or  *)
(* the cheapest, the earlier one of equals.                                *)
Selected(chain, fit, valid, cheap) ==
  LET found == Candidates(chain, fit, valid) IN
  IF found = {} THEN "none"
  ELSE chain[CHOOSE i \in found : \A j \in found : Before(chain, cheap, i, j)]
=============================================================================
