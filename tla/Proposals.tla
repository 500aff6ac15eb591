----------------------------- MODULE Proposals -----------------------------
(***************************************************************************)
(* AlgorithmService: the document with the trading algorithm, the evidence *)
(* rules the user has approved in it, and the proposals it got them from.  *)
(* Endpoints run without interruption; what can come between two file      *)
(* writes is the end of the process.                                       *)
(***************************************************************************)
EXTENDS Integers, Sequences, FiniteSets, SequencesExt

CONSTANTS
    Ids,            \* proposals
    OldRules,       \* the rules approved under an earlier version, in their order
    ContextRules    \* how many rules, the first of them perhaps in part, fit into
                    \* the 3000 characters of the prompt

ASSUME ProposalsOK ==
    /\ IsFiniteSet(Ids)
    /\ OldRules \in Seq(ToSet(OldRules)) /\ Ids \cap ToSet(OldRules) = {}
    /\ ContextRules \in Nat \ {0}

VARIABLES
    document,   \* current.md
    backup,     \* current.pre-v0.8.md
    dir,        \* where the file of each proposal is
    approved,   \* history: what the user has approved
    half        \* history: proposals whose application was cut short

proposals == <<document, backup, dir, approved, half>>

Rules == Ids \cup ToSet(OldRules)
Dirs == {"none", "pending", "blank", "applied", "cancelled"}

\* form: "old" before the migration, "new" after it, "empty" when a write was
\* cut short after the file was truncated.  old and rules are what follows
\* the heading of the applied proposals.
Documents == [form : {"none", "old", "new", "empty"}, old : Seq(Rules), rules : Seq(Rules)]
Document(form, old, rules) == [form |-> form, old |-> old, rules |-> rules]
Baseline == Document("new", <<>>, <<>>)
Emptied  == Document("empty", <<>>, <<>>)

Section == document.old \o document.rules

InitProposals ==
    /\ \/ document = Document("none", <<>>, <<>>) /\ approved = {}
       \/ document = Document("old", OldRules, <<>>) /\ approved = ToSet(OldRules)
    /\ backup = "none"
    /\ dir = [p \in Ids |-> "none"] /\ half = {}

-----------------------------------------------------------------------------
(* The service is constructed. *)

\* The first start, and the migration of an older document: the rules in it
\* become its history.
Prepared ==
    CASE document.form = "none" -> Baseline
      [] document.form = "old"  -> Document("new", document.old \o document.rules, <<>>)
      [] OTHER -> document

\* The old document is copied before it is overwritten, unless there is a copy.
Copied == IF document.form = "old" /\ backup = "none" THEN "copy" ELSE backup

Prepare ==
    /\ backup' = Copied /\ document' = Prepared
    /\ UNCHANGED <<dir, approved, half>>

\* Neither of the two writes goes through a temporary file.
DieInPrepare ==
    /\ document.form \in {"none", "old"}
    /\ \/ /\ document.form = "old" /\ backup = "none"
          /\ backup' = "empty" /\ UNCHANGED document
       \/ backup' = Copied /\ document' = Emptied
    /\ UNCHANGED <<dir, approved, half>>

-----------------------------------------------------------------------------
(* Proposals. *)

\* Files in proposals/pending, readable or not.
Pending == {p \in Ids : dir[p] \in {"pending", "blank"}}

Create(p) ==
    /\ dir[p] = "none"
    /\ dir' = [dir EXCEPT ![p] = "pending"]
    /\ UNCHANGED <<document, backup, approved, half>>

DieInCreate(p) ==
    /\ dir[p] = "none"
    /\ dir' = [dir EXCEPT ![p] = "blank"]
    /\ UNCHANGED <<document, backup, approved, half>>

WithRule(p) == [document EXCEPT !.rules = Append(@, p)]

\* apply(): the rule is added to the document, then the file is moved.  A file
\* without a rule block is refused.
Apply(p) ==
    /\ dir[p] = "pending"
    /\ document' = WithRule(p)
    /\ dir' = [dir EXCEPT ![p] = "applied"]
    /\ approved' = approved \cup {p}
    /\ UNCHANGED <<backup, half>>

\* Mutant: the file is moved first.
DieInApplyMoved(p) ==
    /\ dir[p] = "pending"
    /\ dir' = [dir EXCEPT ![p] = "applied"] /\ half' = half \cup {p}
    /\ approved' = approved \cup {p}
    /\ UNCHANGED <<document, backup>>

DieInApply(p) ==
    /\ dir[p] = "pending"
    /\ document' = WithRule(p) /\ half' = half \cup {p}
    /\ approved' = approved \cup {p}
    /\ UNCHANGED <<backup, dir>>

\* Mutant: a proposal can be cancelled after it was applied.
CancelAny(p) ==
    /\ dir[p] # "none"
    /\ dir' = [dir EXCEPT ![p] = "cancelled"]
    /\ UNCHANGED <<document, backup, approved, half>>

Cancel(p) ==
    /\ p \in Pending
    /\ dir' = [dir EXCEPT ![p] = "cancelled"]
    /\ UNCHANGED <<document, backup, approved, half>>

-----------------------------------------------------------------------------
(* llm_context(): the end of what follows the heading. *)

\* Mutant: its beginning.
BeginningOf(s) == SubSeq(s, 1, IF Len(s) <= ContextRules THEN Len(s) ELSE ContextRules)

EndOf(s) == SubSeq(s, IF Len(s) <= ContextRules THEN 1 ELSE Len(s) - ContextRules + 1, Len(s))

Context == IF document.form = "new" THEN ToSet(EndOf(Section)) ELSE {}

-----------------------------------------------------------------------------
(* Properties. *)

ProposalsTyped ==
    /\ document \in Documents
    /\ backup \in {"none", "copy", "empty"}
    /\ dir \in [Ids -> Dirs]
    /\ approved \subseteq Rules /\ half \subseteq Ids

\* What the user has approved is in the document, or in the copy of the older
\* document.  Rules of the older one are lost only if one crash hits the
\* copying and another the overwriting (algorithm.py:257-274, 398-402).
NothingApprovedIsLost ==
    \A r \in approved :
        \/ r \in ToSet(Section)
        \/ /\ r \in ToSet(OldRules)
           /\ backup = "copy" \/ (backup = "empty" /\ document.form = "empty")

\* A proposal that was cancelled is not in the document, and none is in it
\* twice, unless a crash had cut its application short: the file then still
\* is among the pending ones (algorithm.py:398-402, 408-411).
InForceOnce ==
    \A p \in Ids \ half :
        /\ dir[p] = "cancelled" => p \notin ToSet(Section)
        /\ \A i, j \in DOMAIN Section : Section[i] = p /\ Section[j] = p => i = j

\* The rule approved last is in the prompt of every later decision, however
\* long the document is, unless the document was emptied by a crash, which
\* takes the heading with it (algorithm.py:271, 305-320).
LatestRuleIsAsked ==
    document.form = "new" /\ document.rules # <<>> => Last(document.rules) \in Context
=============================================================================
