------------------------------ MODULE Guardrails ------------------------------
(* The content policies of the gateway: how they are loaded (LoadPolicies of   *)
(* guardrails/persistence/pgx.go), how the engine judges the texts of a chat   *)
(* request (Evaluate of guardrails/engine.go) and which texts of the request   *)
(* it is shown (chatFragments of handler/gateway/chat.go).                     *)
(*                                                                             *)
(* A text is a sequence of letters, a matcher is a word and a match is an      *)
(* occurrence of the word; "#" stands for "[REDACTED]".  A fragment is         *)
(*   [id |-> message number, text |-> letters]                                 *)
(* and a policy                                                                *)
(*   [active |-> BOOLEAN, scopes |-> set of bindings,                          *)
(*    items |-> sequence of [detector, action, words, unavailable]].           *)
(* The checkpoint and the protocol of a binding have one legal value each and  *)
(* are left out.  No text and no word holds a "#" of its own.                  *)
EXTENDS Lists, FiniteSets, SequencesExt

CONSTANTS
  MaxMatcherWork,     \* maxDeterministicMatcherWork, in letters
  MaxEvaluationWork,  \* maxDeterministicEvaluationWork, in letters
  MaxFindings         \* maxDeterministicFindings

ASSUME BudgetsAssumption ==
  /\ MaxMatcherWork \in Nat /\ MaxEvaluationWork \in Nat /\ MaxFindings \in Nat
  /\ MaxMatcherWork <= MaxEvaluationWork

Everywhere == "all_projects"
Redacted   == "#"

------------------------------------------------------------------------------
(* A policy as NormalizePolicy leaves it: only sensitive data is masked, and   *)
(* empty keywords are dropped.  Nothing under src/ but a test calls it or      *)
(* SavePolicy, so this is a demand on whoever stores the policies.  An item    *)
(* whose configuration cannot be read is one without words (pgx.go:86);        *)
(* expressions that do not compile (engine.go:380) are not modelled.           *)

Letters == STRING \ {Redacted}
Words   == Seq(Letters) \ {<<>>}

DetectionItems ==
       [detector : {"pattern"}, action : {"audit", "block"}, words : Seq(Words),
        unavailable : STRING]
  \cup [detector : {"sensitive_data"}, action : {"audit", "mask", "block"}, words : Seq(Words),
        unavailable : STRING]
  \cup [detector : {"model"}, action : {"audit", "block"}, words : Seq(STRING),
        unavailable : STRING]

Policies == [active : BOOLEAN, scopes : SUBSET STRING, items : Seq(DetectionItems)]

------------------------------------------------------------------------------
(* Loading.                                                                    *)

(* The capacity a Go slice of policies has after n appends: it doubles (to 256 *)
(* elements; longer lists, which grow in smaller steps, are not looked at).    *)
Capacity(n) == CHOOSE c \in {2 ^ k : k \in 0..n} : n <= c /\ c < 2 * n

(* LoadPolicies keeps a pointer to each policy it has appended and hangs the   *)
(* items and bindings on that pointer afterwards.  A pointer taken before the  *)
(* slice grew addresses the array the slice has left: the policy returned in   *)
(* its place has neither items nor bindings.                                   *)
Loaded(rows) ==
  [i \in DOMAIN rows |->
     IF Capacity(i) = Capacity(Len(rows))
     THEN rows[i]
     ELSE [rows[i] EXCEPT !.items = <<>>, !.scopes = {}]]

(* policyApplies / applicablePolicies. *)
Applies(p, scope) == p.active /\ (Everywhere \in p.scopes \/ scope \in p.scopes)

Applicable(policies, scope) ==
  Kept(policies, {p \in ToSet(policies) : Applies(p, scope)})

(* The items of all of them, in order. *)
ItemsOf(policies) == FoldLeft(LAMBDA items, p : items \o p.items, <<>>, policies)

------------------------------------------------------------------------------
(* Fragments: one per non-empty text part, all parts of a message under the    *)
(* number of the message.  None is Mutable, so Replacements stays empty.       *)
PartsOf(fragments, m, texts) ==
  FoldLeft(LAMBDA all, t : IF t = <<>> THEN all ELSE Append(all, [id |-> m, text |-> t]),
           fragments, texts)

ChatFragments(messages) ==
  FoldLeft(LAMBDA all, m : PartsOf(all, m, messages[m]), <<>>, [m \in DOMAIN messages |-> m])

------------------------------------------------------------------------------
(* Deterministic detectors.                                                    *)

Hit(text, word, k) ==
  k + Len(word) - 1 <= Len(text) /\ SubSeq(text, k, k + Len(word) - 1) = word

Occurs(text, word) == \E k \in DOMAIN text : Hit(text, word, k)

(* allValidMatches: the positions of each match, left to right, none starting  *)
(* inside the one before it.                                                   *)
AllMatches(text, word) ==
  FoldLeft(LAMBDA spans, k : IF Hit(text, word, k) /\ k \notin UNION spans
                             THEN spans \cup {k..(k + Len(word) - 1)} ELSE spans,
           {}, [k \in DOMAIN text |-> k])

(* deterministicFindings: a masking item reports every match, any other item   *)
(* only the first one of the first text that has any.                          *)
Findings(item, fragments) ==
  LET matches == UNION {{[item |-> item, at |-> f, id |-> fragments[f].id, word |-> w, span |-> s] :
                           s \in AllMatches(fragments[f].text, item.words[w])} :
                        f \in DOMAIN fragments, w \in DOMAIN item.words}
  IN  IF item.action = "mask" \/ matches = {} THEN matches
      ELSE {CHOOSE m \in matches : \A n \in matches : m.at <= n.at}

(* addDeterministicWork: letters to scan, one scan per matcher and fragment.   *)
WorkOf(item, fragments) ==
  FoldLeft(LAMBDA sum, f : sum + Len(item.words) * Len(f.text), 0, fragments)

OverBudget(items, fragments) ==
  \/ \E i \in DOMAIN items, f \in DOMAIN fragments :
       items[i].words # <<>> /\ Len(fragments[f].text) > MaxMatcherWork
  \/ FoldLeft(LAMBDA sum, i : sum + WorkOf(i, fragments), 0, items) > MaxEvaluationWork

------------------------------------------------------------------------------
(* Masking.                                                                    *)

(* The letters of a text its masking findings cover; findings are told apart   *)
(* by message, not by part, and a span beyond the text is skipped.             *)
LettersToMask(findings, id, text) ==
  UNION {s \in {f.span : f \in {g \in findings : g.item.action = "mask" /\ g.id = id}} :
           s \subseteq DOMAIN text}

(* Overlapping and touching spans merge: every run of covered letters becomes  *)
(* one "[REDACTED]".                                                           *)
Masked(text, covered) ==
  FoldLeft(LAMBDA out, k : IF k \notin covered THEN Append(out, text[k])
                           ELSE IF k - 1 \in covered THEN out
                           ELSE Append(out, Redacted),
           <<>>, [k \in DOMAIN text |-> k])

(* maskedFragmentTexts keeps one text per message - the last part's - and      *)
(* fragmentsWithMaskedText gives it to every part of that message.             *)
MaskedFragments(fragments, findings) ==
  [f \in DOMAIN fragments |->
     LET id   == fragments[f].id
         last == CHOOSE g \in DOMAIN fragments :
                   /\ fragments[g].id = id
                   /\ \A h \in DOMAIN fragments : fragments[h].id = id => h <= g
     IN  IF \E m \in findings : m.item.action = "mask" /\ m.id = id
         THEN [id |-> id, text |-> Masked(fragments[last].text,
                                         LettersToMask(findings, id, fragments[last].text))]
         ELSE fragments[f]]

------------------------------------------------------------------------------
(* The decision.                                                               *)

ActionRank == [allow |-> 0, audit |-> 1, mask |-> 2, block |-> 3]

Strictest(actions) ==
  CHOOSE a \in actions \cup {"allow"} :
    \A b \in actions \cup {"allow"} : ActionRank[b] <= ActionRank[a]

(* modelResultMatches. *)
ModelMatches(label, item) ==
  label = "unsafe" \/ (label = "controversial" /\ item.words = <<"controversial_or_unsafe">>)

(* Mutant of ModelAction: a missing detector lets every text through. *)
ModelAction_FailsOpen(item, label) ==
  IF label # "unavailable" /\ ModelMatches(label, item) THEN item.action ELSE "allow"

(* The action a model item ends up with; with no detector - the gateway is     *)
(* built with none - or a failing one, what the item says for that case.       *)
ModelAction(item, label) ==
  IF label = "unavailable"
  THEN IF item.unavailable = "block" THEN "block" ELSE "audit"
  ELSE IF ModelMatches(label, item) THEN item.action ELSE "allow"

(* Evaluate.  "seen" is what the model detector is shown: <<>> when it is not  *)
(* asked.  "error" is an exhausted budget, which the gateway answers with 500. *)
Evaluate(policies, scope, fragments, label) ==
  LET items   == ItemsOf(Applicable(policies, scope))
      exact   == Kept(items, {i \in ToSet(items) : i.detector # "model"})
      models  == Kept(items, {i \in ToSet(items) : i.detector = "model"})
      found   == UNION {Findings(exact[i], fragments) : i \in DOMAIN exact}
      first   == Strictest({f.item.action : f \in found})
      shown   == IF first = "mask" THEN MaskedFragments(fragments, found) ELSE fragments
      verdict(action, seen) == [action |-> action, seen |-> seen]
  IN  IF OverBudget(exact, fragments) \/ Cardinality(found) > MaxFindings
      THEN verdict("error", <<>>)
      ELSE IF first = "block" THEN verdict("block", <<>>)
      ELSE IF models = <<>> THEN verdict(first, <<>>)
      ELSE verdict(Strictest({first} \cup {ModelAction(models[i], label) : i \in DOMAIN models}),
                   IF label = "unavailable" THEN <<>> ELSE shown)
==============================================================================
