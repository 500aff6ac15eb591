----------------------------- MODULE MCLlmCalls -----------------------------
(* LlmCalls for TLC: which reviews and proposals there are does not matter.  *)
EXTENDS LlmCalls, TLC

OneOldRule == <<"old">>

Alike == Permutations(Reviews) \cup Permutations(Ids)

\* The scope of a run: until there is a proposal, calls at any time, two at
\* once and one after a crash; or reviews and edits of proposals, before the
\* first tick.
Calls == /\ Cardinality({t \in Tasks : pc[t] # "idle"}) + crashes <= 2
         /\ document \in {Document("none", <<>>, <<>>), Baseline}
         /\ \A p \in Ids : dir[p] = "none"
Edits == /\ now = 0 /\ usage.total = 0 /\ ~synced.ok /\ config.key /\ config.enabled
         /\ \A t \in Tasks \ Reviews : pc[t] = "idle"
Scope == Calls \/ Edits
=============================================================================
