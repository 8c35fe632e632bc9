------------------------- MODULE EmbeddedIdentities -------------------------
(***************************************************************************)
(* The identities of the embedded connector: embeddedconnection.js and     *)
(* embeddedconnectionmanager.js, which keep them by name and by identifier *)
(* in a collection of a PouchDB data service that commits every write at   *)
(* once.  Calls interleave at every await; to add an object takes three    *)
(* turns: is it there, what is its revision, put.                          *)
(*                                                                         *)
(* An identity is known by the call that has made it, and so is its        *)
(* secret.                                                                 *)
(***************************************************************************)
EXTENDS Naturals, FiniteSets

CONSTANTS
    Call,     \* the calls of clients
    Name,     \* the names of identities
    Admin,    \* the name that is there without being created
    None

NameAssumption ==
    /\ Admin \in Name /\ Admin \notin Call
    /\ None \notin Call /\ None \notin Call \X BOOLEAN

VARIABLES
    byName,    \* the identities by name: maker and whether imported, or None
    byId,      \* the identifiers that are stored: the maker of each, or Admin
    rev,       \* how often the object of each name has been put
    step,      \* where each call is
    op,        \* its operation and name
    seen,      \* the revision that it has seen
    answer,    \* the maker of the identity it has been answered with
    overlap    \* whether clients make calls that overlap; it never changes

vars == <<byName, byId, rev, step, op, seen, answer, overlap>>

Init ==
    /\ byName = [n \in Name |-> None]
    /\ byId = {}
    /\ rev = [n \in Name |-> 0]
    /\ step = [c \in Call |-> "new"]
    /\ op = [c \in Call |-> <<"none", Admin>>]
    /\ seen = [c \in Call |-> 0]
    /\ answer = [c \in Call |-> None]
    /\ overlap \in BOOLEAN

NameOf(c) == op[c][2]
\* The default admin identity has a certificate, and so an identifier, of its own.
Identifier(c) == IF op[c] = <<"login", Admin>> THEN Admin ELSE c
There(c) == byName[NameOf(c)] # None
Goto(c, s) == step' = [step EXCEPT ![c] = s]
Answer(c, maker) == answer' = [answer EXCEPT ![c] = maker] /\ Goto(c, "done")

\* Every operation begins in a turn of its own: createIdentity asks whether the
\* name exists, login gets the identity, importIdentity adds it.
Begin(c, kind, n) ==
    /\ step[c] = "new"
    /\ overlap \/ \A d \in Call : step[d] \in {"new", "done", "failed"}
    /\ op' = [op EXCEPT ![c] = <<kind, n>>]
    /\ Goto(c, kind)
    /\ UNCHANGED <<byName, byId, rev, seen, answer>>

\* createIdentity: identities.exists
Exists(c) ==
    /\ step[c] = "create"
    /\ Goto(c, IF There(c) THEN "get" ELSE "import")
    /\ UNCHANGED <<byName, byId, rev, op, seen, answer>>

\* createIdentity of a name that exists answers with the secret it has.
Existing(c) ==
    /\ step[c] = "get"
    /\ Answer(c, byName[NameOf(c)][1])
    /\ UNCHANGED <<byName, byId, rev, op, seen>>

\* getIdentity: an admin that is not there is created.
Get(c) ==
    /\ step[c] = "login"
    /\ IF There(c) THEN Answer(c, byName[NameOf(c)][1])
       ELSE /\ Goto(c, IF NameOf(c) = Admin THEN "import" ELSE "failed")
            /\ UNCHANGED answer
    /\ UNCHANGED <<byName, byId, rev, op, seen>>

\* DataCollection.add: the object must not be there.
AddCheck(c) ==
    /\ step[c] = "import"
    /\ Goto(c, IF There(c) THEN "failed" ELSE "rev")
    /\ UNCHANGED <<byName, byId, rev, op, seen, answer>>

\* PouchDBUtils.putDocument: the revision of what is there now ...
PutGet(c) ==
    /\ step[c] = "rev"
    /\ seen' = [seen EXCEPT ![c] = rev[NameOf(c)]]
    /\ Goto(c, "put")
    /\ UNCHANGED <<byName, byId, rev, op, answer>>

\* ... is replaced.  An imported identity is stored by its name only, the others
\* by their identifier as well.
Put(c) ==
    LET imported == op[c][1] = "import" IN
    /\ step[c] = "put"
    /\ seen[c] = rev[NameOf(c)]
    /\ byName' = [byName EXCEPT ![NameOf(c)] = <<c, imported>>]
    /\ rev' = [rev EXCEPT ![NameOf(c)] = @ + 1]
    /\ IF imported THEN Answer(c, c) ELSE Goto(c, "putid") /\ UNCHANGED answer
    /\ UNCHANGED <<byId, op, seen>>

Conflict(c) ==
    /\ step[c] = "put"
    /\ seen[c] # rev[NameOf(c)]
    /\ Goto(c, "failed")
    /\ UNCHANGED <<byName, byId, rev, op, seen, answer>>

\* Mutant: the document is cleared of the revision that the first put has set.
PutIdCleared(c) ==
    /\ step[c] = "putid"
    /\ byId' = byId \union {Identifier(c)}
    /\ Answer(c, c)
    /\ UNCHANGED <<byName, rev, op, seen>>

\* The entry by identifier is added with the same document.  The three turns
\* are one here: the identifiers are the makers' own, but for the admin's.
PutId(c) ==
    /\ step[c] = "putid"
    /\ seen[c] = 0 \/ Identifier(c) \in byId
    /\ byId' = byId \union {Identifier(c)}
    /\ Answer(c, c)
    /\ UNCHANGED <<byName, rev, op, seen>>

\* putDocument has left the revision of the entry by name in the document, which
\* a database refuses for a document that it does not have; and an entry that is
\* there is not added.
PutIdFails(c) ==
    /\ step[c] = "putid"
    /\ seen[c] > 0 \/ Identifier(c) \in byId
    /\ Goto(c, "failed")
    /\ UNCHANGED <<byName, byId, rev, op, seen, answer>>

Next ==
    /\ \E c \in Call :
         \/ \E n \in Name : Begin(c, "login", n) \/ Begin(c, "import", n)
         \/ \E n \in Name \ {Admin} : Begin(c, "create", n)
         \/ Exists(c) \/ Existing(c) \/ Get(c)
         \/ AddCheck(c) \/ PutGet(c) \/ Put(c) \/ Conflict(c) \/ PutId(c) \/ PutIdFails(c)
    /\ UNCHANGED overlap

Spec == Init /\ [][Next]_vars

-----------------------------------------------------------------------------
\* The types of the variables.
TypeOK ==
    /\ byName \in [Name -> (Call \X BOOLEAN) \union {None}]
    /\ byId \subseteq Call \union {Admin}
    /\ rev \in [Name -> Nat]
    /\ seen \in [Call -> Nat]
    /\ answer \in [Call -> Call \union {None}]

\* However calls overlap, no two of them are told that they have created the
\* identity of a name: whoever has replaced the entry of the other fails.
OneCreated ==
    \A c, d \in Call :
       /\ op[c][1] = "create" /\ op[d] = op[c]
       /\ answer[c] = c /\ answer[d] = d
       => c = d

\* The default administrator can always log in, the first time and later.
AdminLogsIn ==
    \A c \in Call : op[c] = <<"login", Admin>> => step[c] # "failed"

\* What createIdentity promises: "a generated user secret once the new identity
\* has been created", with which the user can log in: the name is still stored
\* with that secret, or with a certificate that needs none.
SecretServes ==
    \A c \in Call : step[c] = "done" /\ op[c][1] = "create" =>
       \/ byName[NameOf(c)] = <<answer[c], FALSE>>
       \/ byName[NameOf(c)] # None /\ byName[NameOf(c)][2]

\* One of two overlapping calls at most is told that it has created an identity;
\* without overlap its secret serves, and the administrator logs in.
IdentitiesSound ==
    /\ TypeOK /\ OneCreated
    /\ ~overlap => SecretServes /\ AdminLogsIn
=============================================================================
