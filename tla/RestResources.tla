---------------------------- MODULE RestResources ----------------------------
(***************************************************************************)
(* The resource operations of the LoopBack connector                       *)
(* (businessnetworkconnector.js).  A request makes one or two calls to a   *)
(* registry, each a transaction of its own: PATCH and DELETE get the       *)
(* resource first, and PATCH writes back all of the copy it got.           *)
(*                                                                         *)
(* LoopBack answers a request that would change an identifier, so that the *)
(* data of a request has the identifier it names.  The update and          *)
(* destroyAll of the connector check that, and are replaceById and destroy *)
(* otherwise; count and exists read as retrieve does.                      *)
(***************************************************************************)
EXTENDS Naturals

CONSTANTS
    Request, Id, Attr, Value, None,
    Ops,        \* the operations that come
    Serial      \* whether requests for one resource come one at a time

VARIABLES
    store,      \* the registry
    call,       \* what each request asks for
    copy,       \* the resource a request has got
    answer      \* how it was answered

vars == <<store, call, copy, answer>>

Api == INSTANCE RestApi

ASSUME ResourcesAssumption ==
    /\ Ops \subseteq {"create", "replace", "patch", "destroy", "retrieve", "all"}
    /\ Serial \in BOOLEAN
    /\ None \notin Api!Resource \union Api!ApiCall \union {"ok", "error", "404", "empty"}

Init == Api!Init /\ copy = [r \in Request |-> None]

Awaits(r, ops) == call[r] # None /\ call[r].op \in ops /\ copy[r] = None /\ answer[r] = None

Begin(r) ==
    /\ call[r] = None
    /\ \E c \in Api!ApiCall :
          /\ c.op \in Ops
          /\ Serial => \A q \in Request : call[q] # None /\ call[q].id = c.id => answer[q] # None
          /\ call' = [call EXCEPT ![r] = c]
    /\ UNCHANGED <<store, copy, answer>>

Ends(r, a) == answer' = [answer EXCEPT ![r] = a]

Create(r) ==
    /\ Awaits(r, {"create"})
    /\ IF store[call[r].id] = None
       THEN store' = [store EXCEPT ![call[r].id] = call[r].data] /\ Ends(r, "ok")
       ELSE UNCHANGED store /\ Ends(r, "error")
    /\ UNCHANGED <<call, copy>>

\* Mutant: the registry puts what does not exist, too.
UpdatePut(r, resource, missing) ==
    /\ store' = [store EXCEPT ![call[r].id] = resource]
    /\ Ends(r, "ok")
    /\ UNCHANGED <<call, copy>>

\* The registry updates what exists.
Update(r, resource, missing) ==
    /\ IF store[call[r].id] = None
       THEN UNCHANGED store /\ Ends(r, missing)
       ELSE store' = [store EXCEPT ![call[r].id] = resource] /\ Ends(r, "ok")
    /\ UNCHANGED <<call, copy>>

Replace(r) == Awaits(r, {"replace"}) /\ Update(r, call[r].data, "404")

\* Only DELETE makes a 404 of a resource that does not exist.
Get(r) ==
    /\ Awaits(r, {"patch", "destroy"})
    /\ IF store[call[r].id] = None
       THEN Ends(r, IF call[r].op = "patch" THEN "error" ELSE "404") /\ UNCHANGED copy
       ELSE copy' = [copy EXCEPT ![r] = store[call[r].id]] /\ UNCHANGED answer
    /\ UNCHANGED <<store, call>>

HasGot(r, op) == copy[r] # None /\ answer[r] = None /\ call[r].op = op

Patch(r) == HasGot(r, "patch") /\ Update(r, Api!Merged(copy[r], call[r].data), "error")

\* Mutant: a second DELETE succeeds too.
DestroyAgain(r) ==
    /\ HasGot(r, "destroy")
    /\ store' = [store EXCEPT ![call[r].id] = None]
    /\ Ends(r, "ok")
    /\ UNCHANGED <<call, copy>>

Destroy(r) == HasGot(r, "destroy") /\ Update(r, None, "404")

Read(r) ==
    /\ Awaits(r, {"retrieve", "all"})
    /\ Ends(r, IF store[call[r].id] # None THEN "ok"
               ELSE IF call[r].op = "all" THEN "empty" ELSE "error")
    /\ UNCHANGED <<store, call, copy>>

Next == \E r \in Request :
            Begin(r) \/ Create(r) \/ Replace(r) \/ Get(r) \/ Patch(r) \/ Destroy(r) \/ Read(r)

Spec == Init /\ [][Next]_vars

-----------------------------------------------------------------------------
\* Each request takes effect at once: two calls are as good as one.  It holds of
\* overlapping requests without a PATCH, and of all when those for one resource do not
\* overlap.
Atomic == Api!Spec

\* A resource that was deleted comes back by a POST only, not by the copy of a PATCH
\* that was under way.
NoResurrection ==
    [][\A i \in Id : store[i] = None /\ store'[i] # None =>
          \E r \in Request : /\ call[r] # None /\ call[r].op = "create" /\ call[r].id = i
                             /\ answer[r] = None /\ answer'[r] = "ok"]_vars

\* "Updates the properties of the specified object in the Business Network. This
\* function is called by the PATCH API": the properties it is given, and no others.
PatchesOnly ==
    [][\A r \in Request :
          call[r] # None /\ call[r].op = "patch" /\ answer[r] = None /\ answer'[r] = "ok" =>
            \A a \in Attr \ DOMAIN call[r].data : store'[call[r].id][a] = store[call[r].id][a]]_vars

=============================================================================
