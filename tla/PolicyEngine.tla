------------------------------ MODULE PolicyEngine ------------------------------
(***************************************************************************)
(* policy/engine.py: PolicyEngine.evaluate on any action in any context,   *)
(* under any choice of rules, and again on what it permitted, which is     *)
(* what the scheduler and the approval queue do with a held action.        *)
(***************************************************************************)
EXTENDS PolicyRules

CONSTANTS Actions,   \* the actions proposed
          Contexts,  \* the contexts they are judged in
          RuleSets   \* the rules an engine is built with

ASSUME EngineAssumption ==
    /\ Actions \subseteq Action
    /\ Contexts \subseteq Context
    /\ RuleSets \subseteq SUBSET DEFAULT_RULES

VARIABLES rules, ctx,
          proposed,  \* the action to judge next
          ruling     \* what evaluate returned last, None before

vars == <<rules, ctx, proposed, ruling>>

Dispositions == {"allow", "deny", "reschedule", "require_approval"}
Move == [rule : TimingRules, reschedule_to : Int]
Ruling == [disposition : Dispositions, final : Action \cup {None},
           moves : SUBSET Move]

TypeOK ==
    /\ rules \in SUBSET DEFAULT_RULES /\ ctx \in Context /\ proposed \in Action
    /\ ruling \in Ruling \cup {None}

Init ==
    /\ rules \in RuleSets
    /\ ctx \in Contexts
    /\ proposed \in Actions
    /\ ruling = None

evaluate_proposed ==
    /\ ruling = None
    /\ ruling' = evaluate(rules, proposed, ctx)
    /\ UNCHANGED <<rules, ctx, proposed>>

\* What was permitted is judged again: the final action is now the proposal.
evaluate_again ==
    /\ ruling # None /\ ruling.final # None
    /\ proposed' = ruling.final
    /\ ruling' = evaluate(rules, ruling.final, ctx)
    /\ UNCHANGED <<rules, ctx>>

Next == evaluate_proposed \/ evaluate_again

Spec == Init /\ [][Next]_vars
-------------------------------------------------------------------------------
(* Properties *)

Permitted == ruling # None /\ ruling.final # None

\* "Every rule that asked for a delay is satisfied at once": where a permitted
\* action lands, no rule denies it and no rule moves it further, although the
\* verdicts of the later looks are consulted for moves only.
FinalPassesEveryRule ==
    Permitted => /\ denials(rules, ruling.final, ctx) = {}
                 /\ Reschedules(rules, ruling.final, ctx) = {}

\* A delay is a delay, and no longer than it must be: a permitted action is
\* never earlier than proposed, and at every moment from the proposed one up
\* to where it landed some rule objected.
DelayIsLeast ==
    Permitted =>
        /\ proposed.at <= ruling.final.at
        /\ \A t \in proposed.at .. (ruling.final.at - 1) :
              Reschedules(rules, [proposed EXCEPT !.at = t], ctx) # {}

\* "The rule named here is the one that actually chose the moment": with the
\* named rule as its only rule, the engine chooses the same moment; none is
\* named exactly when the action did not move.
MoverChoseTheMoment ==
    Permitted =>
        /\ moving_rules(ruling) = {} <=> ruling.final = proposed
        /\ \A r \in moving_rules(ruling) :
              evaluate({r}, proposed, ctx).final = ruling.final

\* From the freest to the strictest.
Strictness == [allow |-> 0, reschedule |-> 0, require_approval |-> 1, deny |-> 2]

\* "Adding a rule can only ever make the system more conservative": with one
\* rule less, the disposition is no stricter and the moment no later.
RulesOnlyRestrict ==
    ruling # None =>
        \A r \in rules :
            LET less == evaluate(rules \ {r}, proposed, ctx)
            IN  /\ Strictness[less.disposition] <= Strictness[ruling.disposition]
                /\ Permitted => less.final.at <= ruling.final.at

\* Judging again what was permitted changes nothing: it is permitted for the
\* same moment, so a held action that comes due in an unchanged world fires.
ReRulingIsStable ==
    [][ Permitted => /\ ruling'.final = ruling.final
                     /\ ruling'.disposition # "reschedule" ]_vars
===============================================================================
