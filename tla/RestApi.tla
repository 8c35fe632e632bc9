------------------------------- MODULE RestApi -------------------------------
(***************************************************************************)
(* What the REST API promises of a resource: a request takes effect at     *)
(* once, some time between its call and its answer.                        *)
(***************************************************************************)
EXTENDS Naturals

CONSTANTS
    Request,
    Id,         \* identifiers of one type of asset
    Attr,
    Value,
    None

Resource == [Attr -> Value]

\* A PATCH names some of the attributes, POST and PUT all of them.
ApiCall == [op : {"create", "replace"}, id : Id, data : Resource]
          \union [op : {"patch"}, id : Id, data : UNION {[S -> Value] : S \in SUBSET Attr}]
          \union [op : {"destroy", "retrieve", "all"}, id : Id]

VARIABLES store, call, answer

Init == /\ store \in [Id -> Resource \union {None}]
        /\ call = [r \in Request |-> None]
        /\ answer = [r \in Request |-> None]

Begin(r) == /\ call[r] = None
            /\ \E c \in ApiCall : call' = [call EXCEPT ![r] = c]
            /\ UNCHANGED <<store, answer>>

\* The attributes named by data, and the others as they are.
Merged(resource, data) == [a \in Attr |-> IF a \in DOMAIN data THEN data[a] ELSE resource[a]]

\* What a call makes of the resource, and what it answers.
Result(c, found) ==
    IF c.op = "destroy" THEN None
    ELSE IF c.op = "create" /\ found = None THEN c.data
    ELSE IF c.op \in {"replace", "patch"} /\ found # None THEN Merged(found, c.data)
    ELSE found

Answer(c, found) ==
    IF (found = None) = (c.op = "create") THEN "ok"
    ELSE IF c.op = "all" THEN "empty"
    ELSE IF c.op \in {"replace", "destroy"} THEN "404"
    ELSE "error"

Serve(r) ==
    /\ call[r] # None /\ answer[r] = None
    /\ store' = [store EXCEPT ![call[r].id] = Result(call[r], @)]
    /\ answer' = [answer EXCEPT ![r] = Answer(call[r], store[call[r].id])]
    /\ UNCHANGED call

Next == \E r \in Request : Begin(r) \/ Serve(r)
Spec == Init /\ [][Next]_<<store, call, answer>>

=============================================================================
