------------------------------ MODULE Precedence ------------------------------
(***************************************************************************)
(* policy/models.py and policy/precedence.py: which action a ruleset takes  *)
(* for a finding of a type and a confidence, in a request of a user, a team *)
(* and a model. A rule is named by its place in the ruleset.                *)
(***************************************************************************)
EXTENDS Integers, Sequences, FiniteSets

ActionNames == {"allow", "pseudonymize", "hash", "tag", "block"}

Scopes == [users : SUBSET STRING, teams : SUBSET STRING, models : SUBSET STRING]
Rules == [types : SUBSET STRING, action : ActionNames, min : 0..100, scope : Scopes]
RuleSets == [default : ActionNames, rules : Seq(Rules)]

ScopeMatches(scope, who) ==
    /\ scope.users = {} \/ who.user \in scope.users
    /\ scope.teams = {} \/ who.team \in scope.teams
    /\ scope.models = {} \/ who.model \in scope.models

Specificity(scope) ==
    IF scope.users # {} THEN 3
    ELSE IF scope.teams # {} THEN 2
    ELSE IF scope.models # {} THEN 1 ELSE 0

RuleMatches(rule, type, confidence, who) ==
    /\ type \in rule.types
    /\ confidence >= rule.min
    /\ ScopeMatches(rule.scope, who)

Restrictiveness(action) ==
    CASE action = "allow" -> 0
      [] action = "pseudonymize" -> 1
      [] action = "hash" -> 2
      [] action = "tag" -> 3
      [] action = "block" -> 4

Matched(ruleset, type, confidence, who) ==
    {i \in DOMAIN ruleset.rules : RuleMatches(ruleset.rules[i], type, confidence, who)}

\* The sort key of decide.
Above(r, s) ==
    \/ Specificity(r.scope) > Specificity(s.scope)
    \/ /\ Specificity(r.scope) = Specificity(s.scope)
       /\ Restrictiveness(r.action) > Restrictiveness(s.action)

\* The sort is stable: of equal rules the first of the ruleset wins.
Winner(rules, candidates) ==
    LET best == {i \in candidates : \A j \in candidates : ~Above(rules[j], rules[i])}
    IN CHOOSE i \in best : \A j \in best : i <= j

DecideBySpecificity(ruleset, type, confidence, who) ==
    LET matched == Matched(ruleset, type, confidence, who) IN
    IF matched = {} THEN [action |-> ruleset.default, rule |-> 0]
    ELSE LET i == Winner(ruleset.rules, matched)
         IN [action |-> ruleset.rules[i].action, rule |-> i]

Decide(ruleset, type, confidence, who) ==
    LET matched == Matched(ruleset, type, confidence, who)
        blocking == {i \in matched : ruleset.rules[i].action = "block"}
        i == Winner(ruleset.rules, IF blocking = {} THEN matched ELSE blocking)
    IN IF matched = {}
       THEN [action |-> ruleset.default, rule |-> 0]
       ELSE [action |-> ruleset.rules[i].action, rule |-> i]

\* The published order: block wins over everything; then the more specific scope;
\* then the more restrictive action; no match takes the default. The decision d
\* has to obey it whatever the order of the rules is.
Published(ruleset, type, confidence, who, d) ==
    LET matched == Matched(ruleset, type, confidence, who)
        rules == ruleset.rules
    IN
    /\ matched = {} => d.rule = 0 /\ d.action = ruleset.default
    /\ matched # {} => d.rule \in matched /\ d.action = rules[d.rule].action
    /\ (\E i \in matched : rules[i].action = "block") => d.action = "block"
    /\ \A i \in matched :
          d.action = "block" \/ ~Above(rules[i], rules[d.rule])

=============================================================================
