---------------------------- MODULE IssueIdentity ----------------------------
(***************************************************************************)
(* issueIdentity of the client (businessnetworkconnection.js): a check of  *)
(* the participant, an identity from the connector and a transaction that  *)
(* maps it, three requests that can fail one by one, from any number of    *)
(* clients at once.                                                        *)
(*                                                                         *)
(* Connectors differ when the name is taken: a certificate authority       *)
(* refuses (hlfconnection.js), the embedded and web connectors answer with *)
(* the identity that is there.  What the transactions do to the registry   *)
(* is the part of IdentityManager that concerns one certificate per name.  *)
(***************************************************************************)
EXTENDS Naturals

CONSTANTS
    Call,         \* the calls of issueIdentity
    Name,         \* the names of identities
    Participant,  \* the participants that are asked for
    Reuse,        \* whether the connector answers with an identity that is there
    None

Cause == {"absent", "known", "mapped", "failure"}

ASSUME IssueAssumption == Reuse \in BOOLEAN /\ None \notin Call \union Participant \union Cause

VARIABLES
    participants,  \* those that are in the registry
    known,         \* names known to the connector, by the call that made them
    issued,        \* the registry entries that are found by name
    activated,     \* ... and those that are found by certificate
    step,          \* where each call is
    op,            \* its name and participant
    cause          \* why it was rejected

vars == <<participants, known, issued, activated, step, op, cause>>
registry == <<issued, activated>>

Init ==
    /\ participants \in SUBSET Participant
    /\ known = [n \in Name |-> None]
    /\ issued = [n \in Name |-> None]
    /\ activated = [n \in Name |-> None]
    /\ step = [c \in Call |-> "new"]
    /\ op \in [Call -> [name : Name, participant : Participant]]
    /\ cause = [c \in Call |-> None]

NameOf(c) == op[c].name
Goto(c, s) == step' = [step EXCEPT ![c] = s]
Reject(c, why) == Goto(c, "rejected") /\ cause' = [cause EXCEPT ![c] = why]

\* participantRegistry.exists
Exists(c) ==
    /\ step[c] = "new"
    /\ IF op[c].participant \in participants
       THEN Goto(c, "create") /\ UNCHANGED cause
       ELSE Reject(c, "absent")
    /\ UNCHANGED <<participants, known, registry, op>>

\* Mutant: the certificate authority answers with the identity it has.
CreateReusing(c) ==
    /\ step[c] = "create"
    /\ known' = [known EXCEPT ![NameOf(c)] = IF @ = None THEN c ELSE @]
    /\ Goto(c, "submit")
    /\ UNCHANGED <<participants, registry, op, cause>>

\* connection.createIdentity
Create(c) ==
    /\ step[c] = "create"
    /\ IF known[NameOf(c)] = None
       THEN known' = [known EXCEPT ![NameOf(c)] = c] /\ Goto(c, "submit") /\ UNCHANGED cause
       ELSE /\ UNCHANGED known
            /\ IF Reuse THEN Goto(c, "submit") /\ UNCHANGED cause
               ELSE Reject(c, "known")
    /\ UNCHANGED <<participants, registry, op>>

\* The IssueIdentity transaction adds an entry that is found by name.
Submit(c) ==
    /\ step[c] = "submit"
    /\ IF issued[NameOf(c)] = None
       THEN /\ issued' = [issued EXCEPT ![NameOf(c)] = op[c].participant]
            /\ Goto(c, "resolved") /\ UNCHANGED cause
       ELSE Reject(c, "mapped") /\ UNCHANGED issued
    /\ UNCHANGED <<participants, known, activated, op>>

\* A request fails or is lost, or its answer is.
Fail(c) ==
    /\ step[c] \in {"new", "create", "submit"}
    /\ Reject(c, "failure")
    /\ \/ UNCHANGED <<known, issued>>
       \/ /\ step[c] = "create" /\ known[NameOf(c)] = None
          /\ known' = [known EXCEPT ![NameOf(c)] = c] /\ UNCHANGED issued
       \/ /\ step[c] = "submit" /\ issued[NameOf(c)] = None
          /\ issued' = [issued EXCEPT ![NameOf(c)] = op[c].participant] /\ UNCHANGED known
    /\ UNCHANGED <<participants, activated, op>>

\* The first connect with the identity: its entry is replaced by one that is found
\* by its certificate.  From then on that one is looked for first.
Activate(n) ==
    /\ known[n] # None /\ issued[n] # None /\ activated[n] = None
    /\ activated' = [activated EXCEPT ![n] = issued[n]]
    /\ issued' = [issued EXCEPT ![n] = None]
    /\ UNCHANGED <<participants, known, step, op, cause>>

Next ==
    \/ \E c \in Call : Exists(c) \/ Create(c) \/ Submit(c) \/ Fail(c)
    \/ \E n \in Name : Activate(n)

Spec == Init /\ [][Next]_vars

-----------------------------------------------------------------------------
ActsFor(n) == IF activated[n] # None THEN activated[n] ELSE issued[n]

\* The types of the variables.
TypeOK ==
    /\ known \in [Name -> Call \union {None}]
    /\ issued \in [Name -> Participant \union {None}]
    /\ activated \in [Name -> Participant \union {None}]
    /\ \A c \in Call : (cause[c] # None) <=> (step[c] = "rejected")

\* "A promise that will be fulfilled when the identity has been added to the
\* specified participant": whoever uses the identity acts for that participant.
IssuedActs == \A c \in Call : step[c] = "resolved" => ActsFor(NameOf(c)) = op[c].participant

\* "The promise will be rejected if the participant does not exist, or if the
\* identity is already mapped": if no request has failed, there is no other reason.
RejectedForCause ==
    \A c \in Call : step[c] = "rejected" /\ cause[c] # "failure" =>
       \/ op[c].participant \notin participants
       \/ ActsFor(NameOf(c)) # None

\* An entry in the registry is for a name that the connector knows, and there is
\* one for it.
OneEntry ==
    \A n \in Name : /\ ActsFor(n) # None => known[n] # None
                    /\ activated[n] = None \/ issued[n] = None

=============================================================================
