------------------------------ MODULE Resolver ------------------------------
(***************************************************************************)
(* The resolver of the engine (composer-runtime/lib/resolver.js): a        *)
(* resource or a transaction is copied, with all it is related to, before  *)
(* functions get it.  Relationships can form circles, can point to what    *)
(* does not exist or may not be read, and a transaction can hold a copy of *)
(* a resource that it is also related to.  One object stands for all       *)
(* occurrences of an identifier: the map of them is filled with objects    *)
(* that are still being resolved.                                          *)
(*                                                                         *)
(* A frame of the stack is an execution of resolveResourceOrConcept;       *)
(* properties and elements of arrays are one sequence of values.  The lazy *)
(* variant, prepare, is part of AccessController.                          *)
(***************************************************************************)
EXTENDS Naturals, Sequences

CONSTANTS
    Resource,   \* resources that are in registries
    Root,       \* the resource that is resolved
    MaxSent,    \* the most values of the root ...
    MaxLinks,   \* ... and the most relationships of a resource
    None

ResolverAssumption ==
    /\ MaxSent \in Nat /\ MaxLinks \in Nat
    /\ Root \notin Resource /\ None \notin Resource
    /\ None \notin [from : {"sent", "ledger"}, links : Seq(Resource \union {None})]

VARIABLES
    ledger,     \* the relationships of a resource, None if it cannot be read
    sent,       \* the values of the root: relationships and copies of resources
    copied,     \* the relationships of every copy
    object,     \* the resources made so far: resolveState.cachedResources
    stack

vars == <<ledger, sent, copied, object, stack>>

Value == [copy : BOOLEAN, of : Resource]
UpTo(S, n) == UNION {[1..k -> S] : k \in 0..n}
Relationships(links) == [i \in DOMAIN links |-> [copy |-> FALSE, of |-> links[i]]]

\* A new resource without properties, and the frame that sets them.
New(from) == [from |-> from, links |-> <<>>]
Frame(r, values) == [of |-> r, todo |-> values]

Init ==
    /\ ledger \in [Resource -> UpTo(Resource, MaxLinks) \union {None}]
    /\ sent \in UpTo(Value, MaxSent)
    /\ copied \in UpTo(Resource, 1)
    /\ object = [r \in Resource \union {Root} |-> IF r = Root THEN New("sent") ELSE None]
    /\ stack = <<Frame(Root, sent)>>

-----------------------------------------------------------------------------
Top == Head(stack)
AtValue == stack # <<>> /\ Top.todo # <<>>
Target == Head(Top.todo).of

\* The value of the property is set, the next one is looked at.
Linked(objects, frames, link) ==
    /\ object' = [objects EXCEPT ![Head(frames).of].links = Append(@, link)]
    /\ stack' = <<[Head(frames) EXCEPT !.todo = Tail(@)]>> \o Tail(frames)

\* Mutant: a resource is in the map when its values have been resolved.
ResolveUncached(from, links) ==
    /\ object' = object
    /\ stack' = <<Frame(Target, Relationships(links))>> \o stack

\* The resource is made and is in the map before its own values are looked at.
Resolve(from, links) ==
    /\ object' = [object EXCEPT ![Target] = New(from)]
    /\ stack' = <<Frame(Target, Relationships(links))>> \o stack

\* A relationship or a copy whose target is in the map.
Cached ==
    /\ AtValue /\ object[Target] # None
    /\ Linked(object, stack, Target)
    /\ UNCHANGED <<ledger, sent, copied>>

\* registry.get.
Get ==
    /\ AtValue /\ ~Head(Top.todo).copy /\ object[Target] = None
    /\ ledger[Target] # None
    /\ Resolve("ledger", ledger[Target])
    /\ UNCHANGED <<ledger, sent, copied>>

\* registry.get throws: the value is an InvalidRelationship, which is not kept.
Invalid ==
    /\ AtValue /\ ~Head(Top.todo).copy /\ object[Target] = None
    /\ ledger[Target] = None
    /\ Linked(object, stack, None)
    /\ UNCHANGED <<ledger, sent, copied>>

Copy ==
    /\ AtValue /\ Head(Top.todo).copy /\ object[Target] = None
    /\ Resolve("sent", copied)
    /\ UNCHANGED <<ledger, sent, copied>>

Return ==
    /\ stack # <<>> /\ Top.todo = <<>>
    /\ IF Len(stack) = 1 THEN stack' = <<>> /\ UNCHANGED object
       ELSE Linked(object, Tail(stack), Top.of)
    /\ UNCHANGED <<ledger, sent, copied>>

Next == Cached \/ Get \/ Invalid \/ Copy \/ Return
Spec == Init /\ [][Next]_vars

-----------------------------------------------------------------------------
\* The values an object has been made of.
Original(r) ==
    IF r = Root THEN sent
    ELSE Relationships(IF object[r].from = "sent" THEN copied ELSE ledger[r])
Made == {r \in DOMAIN object : object[r] # None}
FrameOf(r) == {i \in DOMAIN stack : stack[i].of = r}

\* The types of the variables.
TypeOK ==
    /\ \A r \in Made : object[r].from \in {"ledger", "sent"}
    /\ \A i \in DOMAIN stack : stack[i].of \in Resource \union {Root}

\* No resource is resolved while it is being resolved: circles of relationships end.
NoReentry == \A i, j \in DOMAIN stack : stack[i].of = stack[j].of => i = j

\* When the promise is resolved no object is left half done, not even those that
\* others have got from the map while they were: every value of every object is
\* there, in its place, and is invalid only if its target cannot be read.
Whole ==
    \A r \in Made :
       /\ FrameOf(r) = {} => Len(object[r].links) = Len(Original(r))
       /\ \A i \in DOMAIN object[r].links :
            LET of == Original(r)[i].of IN
            \/ object[r].links[i] = of /\ of \in Made
            \/ object[r].links[i] = None /\ ledger[of] = None /\ ~Original(r)[i].copy

\* "Resolve the specified resource or relationship and all of its relationships": to
\* what the registry has, whatever copies there are.
RegistryDecides ==
    \A r \in Made : \A i \in DOMAIN object[r].links :
       ~Original(r)[i].copy /\ object[r].links[i] # None =>
           object[object[r].links[i]].from = "ledger"

\* A resource that the engine has resolved is whole, with all that it is related to, and
\* circles of relationships end.
ResolvedWhole == TypeOK /\ NoReentry /\ Whole
=============================================================================
