----------------------------- MODULE Deployment -----------------------------
(***************************************************************************)
(* The runtime of one business network on a channel: install, start, their *)
(* combination deploy, and upgrade of the Fabric connector                 *)
(* (composer-connector-hlfv1/lib/hlfconnection.js), called by              *)
(* administrators who do not know of each other.  A call installs on every *)
(* peer of its profile, and a peer can fail; deploy takes a peer that has  *)
(* the runtime already for a peer that it need not install on.  A start    *)
(* and an upgrade are transactions, endorsed by all peers on what the      *)
(* channel has at that time, which take effect if it has not changed since *)
(* then.  Their notification is that of HLFConnection, and here in one     *)
(* step.  The lifecycle chaincode of the peers is not part of this         *)
(* repository: it is modelled by the answers that the connector deals with.*)
(***************************************************************************)
EXTENDS Naturals, FiniteSets

CONSTANTS
    Admin,      \* administrators, who make a call each
    Peer,       \* the peers of the connection profile, the same for all
    Call,       \* kinds of calls and versions of the runtime, <<minor, micro>>
    Before,     \* the versions that all peers have at first
    None

DeploymentAssumption ==
    /\ Call \subseteq [kind : {"install", "start", "deploy", "upgrade"}, version : Nat \X Nat]
    /\ None \notin (Nat \X Nat) \union Nat
    /\ None \notin {"VALID", "INVALID", "exists", "installed", "failed"}

\* What a kind of call does first.
First(kind) ==
    CASE kind \in {"install", "deploy"} -> "install"
      [] kind = "start" -> "propose"
      [] kind = "upgrade" -> "check"

VARIABLES
    installed,  \* what is installed on a peer
    channel,    \* the version that is instantiated, and how often that has changed
    ordering,   \* transactions that the ordering service has
    outcome,    \* the validation code of a transaction
    op, step,   \* of a call
    answers,    \* of the peers to its install requests, while it waits for them
    existed,    \* whether a peer had the runtime, until the call has used it
    read        \* the changes of the channel its transaction was endorsed on, until
                \* it is committed

vars == <<installed, channel, ordering, outcome, op, step, answers, existed, read>>

Init ==
    /\ installed = [p \in Peer |-> Before]
    /\ channel = [version |-> None, changes |-> 0]
    /\ ordering = {}
    /\ outcome = [c \in Admin |-> None]
    /\ op \in [Admin -> Call]
    /\ step = [c \in Admin |-> First(op[c].kind)]
    /\ answers = [c \in Admin |-> [p \in Peer |-> None]]
    /\ existed = [c \in Admin |-> FALSE]
    /\ read = [c \in Admin |-> None]

Goto(c, s) == step' = [step EXCEPT ![c] = s]
VersionOf(c) == op[c].version
Instantiated == channel.version # None
Everywhere(v) == \A p \in Peer : v \in installed[p]
Answered(c, answer) == \E p \in Peer : answers[c][p] = answer

\* semver.satisfies(new, ^old).
Compatible(new, old) == new[1] = old[1] /\ new[2] >= old[2]

-----------------------------------------------------------------------------
\* A peer installs the chaincode or says that it exists.
Install(c, p) ==
    /\ step[c] = "install" /\ answers[c][p] = None
    /\ installed' = [installed EXCEPT ![p] = @ \union {VersionOf(c)}]
    /\ answers' = [answers EXCEPT ![c][p] =
                     IF VersionOf(c) \in installed[p] THEN "exists" ELSE "installed"]
    /\ UNCHANGED <<channel, ordering, outcome, op, step, existed, read>>

\* An error of a peer, which has installed the chaincode or not.
InstallFails(c, p) ==
    /\ step[c] = "install" /\ answers[c][p] = None
    /\ \/ UNCHANGED installed
       \/ installed' = [installed EXCEPT ![p] = @ \union {VersionOf(c)}]
    /\ answers' = [answers EXCEPT ![c][p] = "failed"]
    /\ UNCHANGED <<channel, ordering, outcome, op, step, existed, read>>

\* _validateResponses, with ignoreCCInstalled for a deploy.
Installed(c) ==
    /\ step[c] = "install" /\ ~Answered(c, None)
    /\ Goto(c, IF Answered(c, "failed") THEN "failed"
               ELSE IF op[c].kind = "deploy" THEN "query"
               ELSE IF Answered(c, "exists") THEN "failed" ELSE "done")
    /\ answers' = [answers EXCEPT ![c] = [p \in Peer |-> None]]
    /\ existed' = [existed EXCEPT
         ![c] = op[c].kind = "deploy" /\ ~Answered(c, "failed") /\ Answered(c, "exists")]
    /\ UNCHANGED <<installed, channel, ordering, outcome, op, read>>

\* Mutant: the runtime is there, so the network is.
QueryInstalled(c) ==
    /\ step[c] = "query"
    /\ Goto(c, IF existed[c] THEN "refused" ELSE IF ~Instantiated THEN "propose" ELSE "done")
    /\ existed' = [existed EXCEPT ![c] = FALSE]
    /\ UNCHANGED <<installed, channel, ordering, outcome, op, answers, read>>

\* queryInstantiatedChaincodes: a network that is there is an error for a call that has
\* found the runtime on a peer, and nothing to do for one that has installed it.
Query(c) ==
    /\ step[c] = "query"
    /\ Goto(c, IF ~Instantiated THEN "propose" ELSE IF existed[c] THEN "refused" ELSE "done")
    /\ existed' = [existed EXCEPT ![c] = FALSE]
    /\ UNCHANGED <<installed, channel, ordering, outcome, op, answers, read>>

\* _checkRuntimeVersions.
Check(c) ==
    /\ step[c] = "check"
    /\ Goto(c, IF Instantiated /\ Compatible(VersionOf(c), channel.version)
               THEN "propose" ELSE "failed")
    /\ UNCHANGED <<installed, channel, ordering, outcome, op, answers, existed, read>>

\* All peers have to endorse; the lifecycle chaincode neither starts what is
\* instantiated nor upgrades to the same version.
Endorsed(c) ==
    /\ Everywhere(VersionOf(c))
    /\ IF op[c].kind = "upgrade" THEN Instantiated /\ VersionOf(c) # channel.version
       ELSE ~Instantiated

Propose(c) ==
    /\ step[c] = "propose"
    /\ IF Endorsed(c) THEN Goto(c, "send") /\ read' = [read EXCEPT ![c] = channel.changes]
       ELSE Goto(c, "failed") /\ UNCHANGED read
    /\ UNCHANGED <<installed, channel, ordering, outcome, op, answers, existed>>

Send(c) ==
    /\ step[c] = "send"
    /\ ordering' = ordering \union {c}
    /\ Goto(c, "wait")
    /\ UNCHANGED <<installed, channel, outcome, op, answers, existed, read>>

\* The transaction is committed, valid if nothing has changed since its endorsement.
Commit(c) ==
    /\ c \in ordering
    /\ ordering' = ordering \ {c}
    /\ read' = [read EXCEPT ![c] = None]
    /\ IF read[c] = channel.changes
       THEN /\ channel' = [version |-> VersionOf(c), changes |-> channel.changes + 1]
            /\ outcome' = [outcome EXCEPT ![c] = "VALID"]
       ELSE outcome' = [outcome EXCEPT ![c] = "INVALID"] /\ UNCHANGED channel
    /\ UNCHANGED <<installed, op, step, answers, existed>>

\* The listeners of _waitForEvents, if the call still waits.
Notified(c) ==
    /\ step[c] = "wait" /\ outcome[c] # None
    /\ Goto(c, IF outcome[c] = "VALID" THEN "done" ELSE "failed")
    /\ UNCHANGED <<installed, channel, ordering, outcome, op, answers, existed, read>>

\* A request fails or is not answered in time, whatever has become of it.
Fail(c) ==
    /\ step[c] \in {"check", "query", "propose", "send", "wait"}
    /\ Goto(c, "failed")
    /\ existed' = [existed EXCEPT ![c] = FALSE]
    /\ read' = IF c \in ordering THEN read ELSE [read EXCEPT ![c] = None]
    /\ UNCHANGED <<installed, channel, ordering, outcome, op, answers>>

Next ==
    \E c \in Admin :
       \/ Installed(c) \/ Query(c) \/ Check(c) \/ Propose(c) \/ Send(c)
       \/ Commit(c) \/ Notified(c) \/ Fail(c)
       \/ \E p \in Peer : Install(c, p) \/ InstallFails(c, p)
Spec == Init /\ [][Next]_vars

-----------------------------------------------------------------------------
Valid == {c \in Admin : outcome[c] = "VALID"}

\* The types of the variables.
TypeOK ==
    /\ \A p \in Peer : installed[p] \subseteq Before \union {k.version : k \in Call}
    /\ channel.version \in {k.version : k \in Call} \union {None}
    /\ \A c \in Admin :
         step[c] \in {"install", "check", "query", "propose", "send", "wait",
                      "done", "refused", "failed"}

\* Every peer has what is instantiated on the channel, however installations failed.
RunsInstalled == Instantiated => Everywhere(channel.version)

\* Of all starts and deploys of a network one takes effect.
StartedOnce ==
    \A c, d \in Valid : op[c].kind # "upgrade" /\ op[d].kind # "upgrade" => c = d

\* "check runtime versions to ensure only the micro version has changed": whatever was
\* upgraded meanwhile.
SameMinor == \A c, d \in Valid : VersionOf(c)[1] = VersionOf(d)[1]

\* A call that is resolved has done, or found done, what it is for, everywhere.
DoneThere ==
    \A c \in Admin : step[c] = "done" =>
       /\ Everywhere(VersionOf(c))
       /\ op[c].kind # "install" => Instantiated
       /\ op[c].kind \in {"start", "upgrade"} => c \in Valid

\* "Business network has already been deployed".
RefusedForCause == \A c \in Admin : step[c] = "refused" => Instantiated

\* The version that runs is replaced by later ones only.
VersionsRise ==
    [][Instantiated => channel'.version[2] >= channel.version[2]]_vars

\* "A promise that is resolved once the business network artifacts have been deployed":
\* those of the call.
DeployedOwn ==
    \A c \in Admin : step[c] = "done" /\ op[c].kind = "deploy" => c \in Valid

\* What runs on the channel is installed on every peer and was started once; upgrades
\* stay within a minor version, whatever is upgraded meanwhile; a call that is resolved
\* has done, or found done, what it is for, and is refused only for what is there.
DeploymentSound ==
    /\ TypeOK /\ RunsInstalled /\ StartedOnce
    /\ SameMinor /\ DoneThere /\ RefusedForCause
=============================================================================
