--------------------------- MODULE AccessController ---------------------------
(***************************************************************************)
(* accesscontroller.js: may the participant of a request access a resource?*)
(* The first rule that matches and whose condition holds decides.          *)
(*                                                                         *)
(* A condition is given the resource with its relationships set up to be   *)
(* resolved when a property of their target is read (resolver.js, prepare),*)
(* and is executed again once they are.  To resolve one is to read the     *)
(* registry and the target, each with a check of its own: checks nest, and *)
(* stack holds the one that is running in front of those that wait for it. *)
(*                                                                         *)
(* Here a condition follows so many relationships from the resource and    *)
(* holds if the resource that it reaches is flagged.                       *)
(***************************************************************************)
EXTENDS Naturals, Sequences, FiniteSets, SequencesExt

CONSTANTS
    Asset,      \* the resources of the business network
    Registry,   \* the resource that stands for their registry
    Whatever,        \* what a rule says that does not restrict it
    Participant, Transaction,
    Networks,   \* business networks: their rules and relationships
    None

Access == {"READ", "UPDATE"}

\* A rule of the access control language; hops, the relationships that its condition follows.
AclRule ==
    [noun : Asset \union {Registry, Whatever}, verbs : SUBSET (Access \union {"ALL"}),
     hops : Nat, allow : BOOLEAN,
     participant : Participant \union {Whatever}, transaction : Transaction \union {Whatever}]

AccessAssumption ==
    /\ IsFiniteSet(Asset) /\ Registry \notin Asset
    /\ None \notin Asset \union {Registry, "allowed", "denied"} \union Participant
                         \union Transaction
    /\ \A n \in Networks : /\ n.related \in [Asset -> Asset \union {None}]
                         /\ n.rules \in Seq(AclRule) \union {None}

VARIABLES
    network,    \* the business network
    stored,     \* the assets that are in the registry
    flagged,    \* the assets on which conditions hold
    caller,     \* the participant, None for an administrator
    within,     \* the transaction that is executed, or None
    stack,      \* the checks that are running, the innermost first
    result      \* "allowed" or "denied", None before

vars == <<network, stored, flagged, caller, within, stack, result>>
scene == <<network, stored, flagged, caller, within>>

\* A check, at its first rule.  path has the resources that the condition has
\* reached, the first of them the one that is checked; get is the step of the
\* read that it waits for.
Check(resource, access) ==
    [resource |-> resource, access |-> access, rule |-> 1,
     path |-> <<resource>>, get |-> "none"]

Init ==
    /\ network \in Networks
    /\ stored \in SUBSET Asset
    /\ flagged \in SUBSET Asset
    /\ caller \in Participant \union {None}
    /\ within \in Transaction \union {None}
    /\ \E r \in stored, a \in Access : stack = <<Check(r, a)>>
    /\ result = None

Top == Head(stack)
Rule == network.rules[Top.rule]
SetTop(check) == stack' = <<check>> \o Tail(stack)

\* matchNoun, matchVerb, matchParticipant and matchTransaction
Applies(rule, resource, access) ==
    /\ rule.noun \in {resource, Whatever}
    /\ rule.verbs \intersect {access, "ALL"} # {}
    /\ rule.participant \in {caller, Whatever}
    /\ rule.transaction \in {within, Whatever}

\* No participant or no rules: access control is not enforced.
Unenforced ==
    /\ result = None
    /\ caller = None \/ network.rules = None
    /\ result' = "allowed"
    /\ UNCHANGED <<scene, stack>>

\* The condition of a rule that matches is being worked on.
AtRule ==
    /\ result = None /\ caller # None /\ network.rules # None
    /\ Top.get = "none"
    /\ Top.rule <= Len(network.rules)
Matched == AtRule /\ Applies(Rule, Top.resource, Top.access)

\* Where the condition goes: over the relationship of the resource that it has
\* reached, if that is set.
Related(resource) == IF resource \in Asset THEN network.related[resource] ELSE None
Target == Related(Last(Top.path))
Reached == Len(Top.path) = Rule.hops + 1
Holds == Reached /\ (Rule.hops = 0 \/ Last(Top.path) \in flagged)

\* The rule does not match, or its condition does not hold: an exception in it
\* counts as false.  The next rule has its resources prepared anew.
NextRule ==
    /\ AtRule
    /\ ~Matched \/ (IF Reached THEN ~Holds ELSE Target = None)
    /\ SetTop([Top EXCEPT !.rule = @ + 1, !.path = <<Top.resource>>])
    /\ UNCHANGED <<scene, result>>

\* The check is over: it is the answer, or the read that waited for it goes on.
Return(allowed) ==
    IF Len(stack) = 1
    THEN result' = (IF allowed THEN "allowed" ELSE "denied") /\ UNCHANGED stack
    ELSE LET waiting == stack[2] IN
         /\ stack' = <<IF ~allowed THEN [waiting EXCEPT !.get = "broken"]
                       ELSE IF waiting.get = "registry"
                       THEN [waiting EXCEPT !.get = "asset"]
                       ELSE [waiting EXCEPT !.get = "none",
                               !.path = Append(@, Head(stack).resource)]>>
                     \o SubSeq(stack, 3, Len(stack))
         /\ UNCHANGED result

\* The condition holds: the rule allows the access or denies it.
Decide ==
    /\ Matched /\ Holds
    /\ Return(Rule.allow)
    /\ UNCHANGED scene

NoRule ==
    /\ result = None /\ caller # None /\ network.rules # None
    /\ Top.get = "none" /\ Top.rule > Len(network.rules)
    /\ Return(FALSE)
    /\ UNCHANGED scene

\* The condition reads a property of the target of a relationship, which is known
\* from this execution of the condition ...
Cached ==
    /\ Matched /\ ~Reached /\ Target \in ToSet(Top.path)
    /\ SetTop([Top EXCEPT !.path = Append(@, Target)])
    /\ UNCHANGED <<scene, result>>

\* ... or has to be read: its registry first ...
Resolve ==
    /\ Matched /\ ~Reached /\ Target \notin ToSet(Top.path) \union {None}
    /\ stack' = <<Check(Registry, "READ"), [Top EXCEPT !.get = "registry"]>> \o Tail(stack)
    /\ UNCHANGED <<scene, result>>

\* Mutant: the owner of the relationship is read again.
GetSource ==
    /\ result = None /\ Top.get = "asset"
    /\ IF Target \in stored THEN stack' = <<Check(Last(Top.path), "READ")>> \o stack
       ELSE SetTop([Top EXCEPT !.get = "broken"])
    /\ UNCHANGED <<scene, result>>

\* ... and then the target, if it is there.
Get ==
    /\ result = None /\ Top.get = "asset"
    /\ IF Target \in stored THEN stack' = <<Check(Target, "READ")>> \o stack
       ELSE SetTop([Top EXCEPT !.get = "broken"])
    /\ UNCHANGED <<scene, result>>

\* A relationship that cannot be resolved throws what has gone wrong when the
\* property that was asked for is read from it: the whole check is rejected.
CannotRead ==
    /\ result = None /\ Top.get = "broken"
    /\ Return(FALSE)
    /\ UNCHANGED scene

Next ==
    Unenforced \/ NextRule \/ Decide \/ NoRule \/ Cached \/ Resolve \/ Get \/ CannotRead

Spec == Init /\ [][Next]_vars

-----------------------------------------------------------------------------
\* The rules as the documentation of the language has them, given the resources
\* that can be read: the first rule whose condition matches decides.
Visit(readable, resource, hops) ==
    LET at[k \in 0..hops] ==
          IF k = 0 THEN resource
          ELSE IF at[k-1] # None /\ Related(at[k-1]) \in readable \union {resource}
          THEN Related(at[k-1]) ELSE None
    IN  at[hops]
Condition(readable, resource, rule) ==
    rule.hops = 0 \/ Visit(readable, resource, rule.hops) \in flagged
FirstMatch(readable, resource, access) ==
    LET matching == {i \in DOMAIN network.rules :
                       /\ Applies(network.rules[i], resource, access)
                       /\ Condition(readable, resource, network.rules[i])}
    IN  \E i \in matching : network.rules[i].allow /\ \A j \in matching : i <= j

\* What can be read, with so many checks nested.
Readable ==
    LET to[n \in 0..Cardinality(Asset) + 1] ==
          IF n = 0 THEN {}
          ELSE IF FirstMatch({}, Registry, "READ")
          THEN {r \in stored : FirstMatch(to[n-1], r, "READ")} ELSE {}
    IN  to[Cardinality(Asset) + 1]
Granted ==
    \/ caller = None \/ network.rules = None
    \/ FirstMatch(Readable, stack[1].resource, stack[1].access)

\* The types of the variables.
TypeOK ==
    /\ result \in {"allowed", "denied", None}
    /\ \A c \in ToSet(stack) :
         /\ c.resource \in Asset \union {Registry}
         /\ c.access \in Access
         /\ ToSet(c.path) \subseteq Asset \union {Registry}
         /\ c.get \in {"none", "registry", "asset", "broken"}

\* An access is only allowed that the rules allow, by the document's reading of
\* them, through all nested checks, caches and repeated executions.
AllowedSoundly == result = "allowed" => Granted

\* An access is only denied if the rules say so or a relationship is not readable.
DeniedForCause ==
    result = "denied" => ~Granted \/ \E r \in Asset : Related(r) \in Asset \ Readable

\* "The rules are evaluated in order, and the first rule whose condition matches
\* determines whether access is granted or denied."
FirstMatchDecides == result # None => (result = "allowed") = Granted

\* No check waits for a read of a resource that it knows already.
KnownNotRead ==
    \A i \in 2..Len(stack) : stack[i-1].resource \notin ToSet(stack[i].path)

\* Whatever a check waits for is nearer to an end: relationships lead to an end, of
\* which each resource is some steps away, or the rules on reads follow none.
Acyclic(n) ==
    \E steps \in [Asset -> 0 .. Cardinality(Asset)] :
       \A r \in Asset : n.related[r] \in Asset => steps[n.related[r]] < steps[r]
ReadsLocal(n) ==
    n.rules # None =>
       \A i \in DOMAIN n.rules :
          n.rules[i].verbs \intersect {"READ", "ALL"} # {} => n.rules[i].hops = 0
ChecksEnd == \A n \in Networks : Acyclic(n) \/ ReadsLocal(n)

\* No check waits for another check of the very same access: since rules and
\* resources do not change meanwhile, it would wait forever.  (Where ChecksEnd.)
NoReentry ==
    \A i, j \in 1..Len(stack) :
       /\ stack[i].resource = stack[j].resource /\ stack[i].resource # Registry
       /\ stack[i].access = stack[j].access
       => i = j

\* The access controller allows what the rules allow, and denies what they deny or
\* what leads to a resource that cannot be read; no check waits for itself.
RulesDecide == TypeOK /\ AllowedSoundly /\ DeniedForCause /\ KnownNotRead /\ NoReentry
=============================================================================
