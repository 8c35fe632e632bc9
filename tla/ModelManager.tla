---------------------------- MODULE ModelManager ----------------------------
(***************************************************************************)
(* The model manager (modelmanager.js) and the validation of model files   *)
(* (modelfile.js, classdeclaration.js): which files are registered, and    *)
(* whether every declaration resolves.  A file declares one type, or none; *)
(* the type may extend the type of its own or of another namespace, which  *)
(* the file then imports.  All calls are synchronous.                      *)
(***************************************************************************)
EXTENDS Naturals, FiniteSets

CONSTANTS
    Namespace,
    System,      \* the namespace of the system models
    Field,       \* names of fields
    Kinds,       \* the calls that are made
    None

File == [ns : Namespace, super : Namespace \union {None}, fields : SUBSET Field, type : {TRUE}]
        \union [ns : Namespace, super : {None}, fields : {{}}, type : {FALSE}]
ManagerAssumption ==
    /\ IsFiniteSet(Namespace) /\ System \in Namespace
    /\ None \notin Namespace \union File

SystemFile == [ns |-> System, super |-> None, fields |-> {}, type |-> TRUE]

VARIABLES
    files,   \* modelFiles: the file of each namespace
    last     \* the last call and how it ended

vars == <<files, last>>
Only == [n \in Namespace |-> IF n = System THEN SystemFile ELSE None]

Init ==
    /\ files = Only
    /\ last = [call |-> "new", result |-> "done"]

-----------------------------------------------------------------------------
(* Validation.  What a file says of its own namespace is found in the file *)
(* itself, everything else by name in the manager.                         *)

\* The declaration extended by that of f.
Super(fs, f) == IF f.super = f.ns THEN f ELSE fs[f.super]
More(f) == f # None /\ f.type /\ f.super # None
Far == Cardinality(Namespace) + 1

\* f and what it extends, one after the other; the end is repeated.
Chain(fs, f) ==
    LET c[k \in 0..Far] == IF k = 0 THEN f ELSE IF More(c[k - 1]) THEN Super(fs, c[k - 1]) ELSE c[k - 1]
    IN c

\* Every declaration is found.  A cycle ends in a stack overflow, an error like
\* others.
Resolves(fs, f) ==
    LET top == Chain(fs, f)[Far] IN f.type => top # None /\ top.type /\ top.super = None

\* No field is declared twice along the chain.
NoDuplicates(fs, f) ==
    LET c == Chain(fs, f)
    IN \A k \in 1..Far : More(c[k - 1]) => \A i \in 0..(k - 1) : c[i].fields \intersect c[k].fields = {}

Valid(fs, f) == Resolves(fs, f) /\ NoDuplicates(fs, f)
AllValid(fs) == \A n \in Namespace : fs[n] # None => Valid(fs, fs[n])

-----------------------------------------------------------------------------
Ends(call, result) == last' = [call |-> call, result |-> result]
Refused(call, result) == Ends(call, result) /\ UNCHANGED files
Put(f) == [files EXCEPT ![f.ns] = f]

AddResult(fs, f) ==
    IF f.ns = System THEN "system"
    ELSE IF fs[f.ns] # None THEN "exists" ELSE IF Valid(fs, f) THEN "done" ELSE "invalid"

Add(f) ==
    LET result == AddResult(files, f)
    IN IF result = "done" THEN files' = Put(f) /\ Ends("add", "done")
       ELSE Refused("add", result)

\* Mutant: the files are validated in their order, as they are put.
AddAllResultOrdered(fs, f, g) ==
    LET one == [fs EXCEPT ![f.ns] = f]
    IN IF System \in {f.ns, g.ns} THEN "system"
       ELSE IF fs[f.ns] # None \/ one[g.ns] # None THEN "exists"
       ELSE IF AllValid(one) /\ AllValid([one EXCEPT ![g.ns] = g]) THEN "done" ELSE "invalid"

\* Two files, which are put one after the other; then all files are validated.
AddAllResult(fs, f, g) ==
    LET one == [fs EXCEPT ![f.ns] = f]
    IN IF System \in {f.ns, g.ns} THEN "system"
       ELSE IF fs[f.ns] # None \/ one[g.ns] # None THEN "exists"
       ELSE IF AllValid([one EXCEPT ![g.ns] = g]) THEN "done" ELSE "invalid"

\* The original files are restored when one is refused.
AddAll(f, g) ==
    LET result == AddAllResult(files, f, g)
    IN IF result = "done"
       THEN files' = [files EXCEPT ![f.ns] = f, ![g.ns] = g] /\ Ends("addAll", "done")
       ELSE Refused("addAll", result)

\* The new file is validated while the one it replaces is still registered.
Update(f) ==
    LET result == IF files[f.ns] = None THEN "missing" ELSE IF f.ns = System THEN "system"
                  ELSE IF Valid(files, f) THEN "done" ELSE "invalid"
    IN IF result = "done" THEN files' = Put(f) /\ Ends("update", "done")
       ELSE Refused("update", result)

Delete(n) ==
    LET result == IF files[n] = None THEN "missing" ELSE IF n = System THEN "system" ELSE "done"
    IN IF result = "done" THEN files' = [files EXCEPT ![n] = None] /\ Ends("delete", "done")
       ELSE Refused("delete", result)

Clear == files' = Only /\ Ends("clear", "done")

Next ==
    \/ \E f \in File : \/ "add" \in Kinds /\ Add(f)
                       \/ "update" \in Kinds /\ Update(f)
                       \/ \E g \in File : "addAll" \in Kinds /\ AddAll(f, g)
    \/ \E n \in Namespace : "delete" \in Kinds /\ Delete(n)
    \/ Clear

Spec == Init /\ [][Next]_vars

-----------------------------------------------------------------------------
\* The types of the variables: the system models are always there.
TypeOK ==
    /\ \A n \in Namespace \ {System} : files[n] # None => files[n] \in File /\ files[n].ns = n
    /\ files[System] = SystemFile

\* "Will make all defined types available to other Composer services": each
\* registered declaration resolves, whatever was added in whatever order.
Available == AllValid(files)

\* "Or the addModelFiles method can be used to add a set of files irrespective of
\* dependencies": what can be added file by file can be added at once, in the other
\* order too.
OrderFree ==
    \A f, g \in File :
        AddResult(files, f) = "done" /\ AddResult(Put(f), g) = "done"
            => AddAllResult(files, f, g) = "done" /\ AddAllResult(files, g, f) = "done"

\* A call that throws changes nothing.
AllOrNothing == [][last'.result # "done" => files' = files]_vars

\* No declaration extends itself: other services follow what is extended until it
\* ends.
NoCycle ==
    \A n \in Namespace : files[n] # None => ~More(Chain(files, files[n])[Far])

\* "If a Composer file with the same namespace has already been added to the
\* ModelManager then it will be replaced."
AddReplaces == last.call = "add" => last.result # "exists"

=============================================================================
