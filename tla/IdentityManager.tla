--------------------------- MODULE IdentityManager ---------------------------
(***************************************************************************)
(* The life of an identity in a business network: issued or bound to a     *)
(* participant, activated by its first use, revoked (identitymanager.js),  *)
(* and the check of the current identity that precedes every invocation    *)
(* (context.js, loadCurrentParticipant).                                   *)
(*                                                                         *)
(* An identity registry entry is found by the hash of a certificate or, as *)
(* long as an issued identity has not been used, by the hash of its name.  *)
(* Every change is a transaction: what it reads and what it writes is kept *)
(* apart from when it takes effect, as in FabricRuntime (Validated, the    *)
(* peer checks the reads again) and EmbeddedRuntime (not Validated).       *)
(***************************************************************************)
CONSTANTS
    Client,       \* the invocations that can be in flight together
    Name,         \* the names that identities are issued under
    Cert,         \* the certificates that users hold
    NameOf,       \* the name in a certificate
    Participant,  \* the participants of the business network
    Founder,      \* the certificate that is active from the start
    Present,      \* the registry entry of a participant
    Nothing,      \* no entry, no certificate, no identity
    Validated     \* whether reads are checked again when a transaction applies

ASSUME CertAssumption == NameOf \in [Cert -> Name] /\ Founder \in Cert
ASSUME ValidatedAssumption == Validated \in BOOLEAN

\* The identifier of an identity: hash(name, issuer) or hash(certificate).
NameId(n) == <<"name", n>>
CertId(k) == <<"cert", k>>
Id == {NameId(n) : n \in Name} \union {CertId(k) : k \in Cert}
PartId(p) == <<"participant", p>>
Doc == Id \union {PartId(p) : p \in Participant}

State == {"ISSUED", "BOUND", "ACTIVATED", "REVOKED"}
Identity == [state : State, participant : Participant]

ASSUME EntryAssumption ==
    /\ Present # Nothing
    /\ Present \notin Identity
    /\ Nothing \notin Identity

VARIABLES
    store,    \* the identity registry and the participant registries
    stage,    \* per client: "idle", "authenticated", "activating", "executed"
    cert,     \* the certificate that the client uses
    user,     \* the identity that it was recognized as
    reads,    \* what its invocation has read: <<document, entry>>
    writes    \* what its transaction will write: document -> entry

vars == <<store, stage, cert, user, reads, writes>>

NoWrites == [d \in {} |-> Nothing]

Init ==
    /\ \E p \in Participant :
          store = [d \in Doc |->
                     IF d = CertId(Founder)
                     THEN [state |-> "ACTIVATED", participant |-> p]
                     ELSE IF d \in Id THEN Nothing ELSE Present]
    /\ stage = [c \in Client |-> "idle"]
    /\ cert = [c \in Client |-> Nothing]
    /\ user = [c \in Client |-> Nothing]
    /\ reads = [c \in Client |-> {}]
    /\ writes = [c \in Client |-> NoWrites]

Exists(d) == store[d] # Nothing
InState(i, s) == Exists(i) /\ store[i].state = s
Entries(D) == {<<d, store[d]>> : d \in D}

\* getIdentity: by certificate, else by name.
Lookup(k) == IF Exists(CertId(k)) THEN CertId(k) ELSE NameId(NameOf[k])
\* Mutant: the identity comes from a cache, the ledger is not asked.
LookupReadsCached(k) == {}
LookupReads(k) == Entries({CertId(k), Lookup(k)})

-----------------------------------------------------------------------------
\* loadCurrentParticipant: an activated identity whose participant exists.
Authenticate(c, k) ==
    /\ stage[c] = "idle"
    /\ InState(Lookup(k), "ACTIVATED")
    /\ Exists(PartId(store[Lookup(k)].participant))
    /\ stage' = [stage EXCEPT ![c] = "authenticated"]
    /\ cert' = [cert EXCEPT ![c] = k]
    /\ user' = [user EXCEPT ![c] = Lookup(k)]
    /\ reads' = [reads EXCEPT ![c] =
                   LookupReads(k)
                   \union Entries({PartId(store[Lookup(k)].participant)})]
    /\ UNCHANGED <<store, writes>>

\* An identity that is not active yet can only submit ActivateCurrentIdentity,
\* without a current participant.
AuthenticateToActivate(c, k) ==
    /\ stage[c] = "idle"
    /\ InState(Lookup(k), "ISSUED") \/ InState(Lookup(k), "BOUND")
    /\ stage' = [stage EXCEPT ![c] = "activating"]
    /\ cert' = [cert EXCEPT ![c] = k]
    /\ user' = [user EXCEPT ![c] = Lookup(k)]
    /\ reads' = [reads EXCEPT ![c] = LookupReads(k)]
    /\ UNCHANGED <<store, writes>>

\* What every transaction does when its handler is through.
Execute(c, R, w) ==
    /\ stage' = [stage EXCEPT ![c] = "executed"]
    /\ reads' = [reads EXCEPT ![c] = @ \union R]
    /\ writes' = [writes EXCEPT ![c] = w]
    /\ UNCHANGED <<store, cert, user>>

Entry(s, p) == [state |-> s, participant |-> p]

\* Mutants: the add of an issued and of a bound identity is forced.
IssueForced(c, n, p) ==
    /\ stage[c] = "authenticated"
    /\ Execute(c, Entries({NameId(n), PartId(p)}),
               [d \in {NameId(n)} |-> Entry("ISSUED", p)])
BindForced(c, k, p) ==
    /\ stage[c] = "authenticated"
    /\ Execute(c, Entries({CertId(k), PartId(p)}),
               [d \in {CertId(k)} |-> Entry("BOUND", p)])

\* The add refuses an identifier that is taken; the participant is resolved,
\* but nothing is said if it does not exist.
IssueIdentity(c, n, p) ==
    /\ stage[c] = "authenticated"
    /\ ~ Exists(NameId(n))
    /\ Execute(c, Entries({NameId(n), PartId(p)}),
               [d \in {NameId(n)} |-> Entry("ISSUED", p)])

BindIdentity(c, k, p) ==
    /\ stage[c] = "authenticated"
    /\ ~ Exists(CertId(k))
    /\ Execute(c, Entries({CertId(k), PartId(p)}),
               [d \in {CertId(k)} |-> Entry("BOUND", p)])

\* Mutant: the entry under the name stays.
ActivateKeepIssued(c) ==
    LET i == Lookup(cert[c]) IN
    /\ stage[c] = "activating"
    /\ InState(i, "ISSUED")
    /\ ~ Exists(CertId(cert[c]))
    /\ Execute(c, LookupReads(cert[c]),
               [d \in {CertId(cert[c])} |-> Entry("ACTIVATED", store[i].participant)])

\* The entry under the name makes way for one under the certificate.
ActivateIssuedIdentity(c) ==
    LET i == Lookup(cert[c]) IN
    /\ stage[c] = "activating"
    /\ InState(i, "ISSUED")
    /\ ~ Exists(CertId(cert[c]))
    /\ Execute(c, LookupReads(cert[c]),
               [d \in {i, CertId(cert[c])} |->
                  IF d = i THEN Nothing ELSE Entry("ACTIVATED", store[i].participant)])

ActivateBoundIdentity(c) ==
    LET i == Lookup(cert[c]) IN
    /\ stage[c] = "activating"
    /\ InState(i, "BOUND")
    /\ Execute(c, LookupReads(cert[c]),
               [d \in {i} |-> Entry("ACTIVATED", store[i].participant)])

RevokeIdentity(c, i) ==
    /\ stage[c] = "authenticated"
    /\ Exists(i)
    /\ store[i].state # "REVOKED"
    /\ Execute(c, Entries({i}),
               [d \in {i} |-> Entry("REVOKED", store[i].participant)])

\* AddParticipant and RemoveParticipant of the resource manager.
AddParticipant(c, p) ==
    /\ stage[c] = "authenticated"
    /\ ~ Exists(PartId(p))
    /\ Execute(c, Entries({PartId(p)}), [d \in {PartId(p)} |-> Present])

RemoveParticipant(c, p) ==
    /\ stage[c] = "authenticated"
    /\ Exists(PartId(p))
    /\ Execute(c, Entries({PartId(p)}), [d \in {PartId(p)} |-> Nothing])

-----------------------------------------------------------------------------
ReadsHold(c) == \A r \in reads[c] : store[r[1]] = r[2]

Finished(c) ==
    /\ stage' = [stage EXCEPT ![c] = "idle"]
    /\ cert' = [cert EXCEPT ![c] = Nothing]
    /\ user' = [user EXCEPT ![c] = Nothing]
    /\ reads' = [reads EXCEPT ![c] = {}]
    /\ writes' = [writes EXCEPT ![c] = NoWrites]

\* The transaction takes effect.
Apply(c) ==
    /\ stage[c] = "executed"
    /\ Validated => ReadsHold(c)
    /\ store' = [d \in Doc |-> IF d \in DOMAIN writes[c] THEN writes[c][d] ELSE store[d]]
    /\ Finished(c)

\* It fails, or the peer finds that something it has read has changed.
Abandon(c) ==
    /\ stage[c] # "idle"
    /\ Finished(c)
    /\ UNCHANGED store

Handle(c) ==
    \/ \E k \in Cert : Authenticate(c, k) \/ AuthenticateToActivate(c, k)
    \/ \E n \in Name, p \in Participant : IssueIdentity(c, n, p)
    \/ \E k \in Cert, p \in Participant : BindIdentity(c, k, p)
    \/ ActivateIssuedIdentity(c)
    \/ ActivateBoundIdentity(c)
    \/ \E i \in Id : RevokeIdentity(c, i)
    \/ \E p \in Participant : AddParticipant(c, p) \/ RemoveParticipant(c, p)

Next == \E c \in Client : Handle(c) \/ Apply(c) \/ Abandon(c)

Spec == Init /\ [][Next]_vars

-----------------------------------------------------------------------------
TypeOK ==
    /\ store \in [Doc -> Identity \union {Present, Nothing}]
    /\ \A i \in Id : store[i] \in Identity \union {Nothing}
    /\ stage \in [Client -> {"idle", "authenticated", "activating", "executed"}]
    /\ cert \in [Client -> Cert \union {Nothing}]
    /\ user \in [Client -> Id \union {Nothing}]
    /\ reads \in [Client -> SUBSET (Doc \X (Identity \union {Present, Nothing}))]
    /\ writes = [c \in Client |-> writes[c]]
    /\ \A c \in Client : \A d \in DOMAIN writes[c] :
          /\ d \in Doc
          /\ writes[c][d] \in Identity \union {Present, Nothing}
          /\ d \in Id => writes[c][d] \in Identity \union {Nothing}

\* "Once an identity has been revoked, the identity can no longer be used"
\* (managing/identity-revoke.md): no activation, issue or bind that was on its
\* way brings it back.
RevokedIsFinal ==
    [][\A i \in Id : InState(i, "REVOKED") => InState(i, "REVOKED")']_vars

\* A transaction takes effect only if the identity that submitted it has not
\* been revoked in the meantime.
RevokedHasNoEffect ==
    [][\A c \in Client : Apply(c) => ~ InState(user[c], "REVOKED")]_vars

\* An issued identity is good for one certificate: activating it uses it up,
\* and carries its participant over.
ActivationUsesUpIssue ==
    [][\A k \in Cert :
          ~ Exists(CertId(k)) /\ InState(CertId(k), "ACTIVATED")' =>
             /\ InState(NameId(NameOf[k]), "ISSUED")
             /\ ~ Exists(NameId(NameOf[k]))'
             /\ store'[CertId(k)].participant
                  = store[NameId(NameOf[k])].participant]_vars

\* An identity never comes to stand for another participant.
ParticipantKept ==
    [][\A i \in Id : Exists(i) /\ Exists(i)' =>
          store'[i].participant = store[i].participant]_vars

-----------------------------------------------------------------------------
\* Why they hold: what an invocation has read of its own identity was fit for
\* use, and its transaction makes a lawful change to what it has read of every
\* identity that it writes.
UserInv ==
    \A c \in Client : stage[c] # "idle" =>
        /\ cert[c] \in Cert
        /\ \E e \in Identity : <<user[c], e>> \in reads[c] /\ e.state # "REVOKED"

\* An identity appears issued or bound, or activated in place of an issued one.
Appears(c, i) ==
    \/ writes[c][i].state \in {"ISSUED", "BOUND"}
    \/ \E k \in Cert, p \in Participant :
          LET n == NameId(NameOf[k]) IN
          /\ i = CertId(k)
          /\ writes[c][i] = Entry("ACTIVATED", p)
          /\ <<n, Entry("ISSUED", p)>> \in reads[c]
          /\ n \in DOMAIN writes[c]
          /\ writes[c][n] = Nothing

\* It changes its state, never its participant, unless it has been revoked.
Changes(old, new) ==
    /\ old \in Identity
    /\ old.state # "REVOKED"
    /\ new # Nothing => new.participant = old.participant

WriteInv ==
    \A c \in Client : stage[c] = "executed" =>
        \A i \in DOMAIN writes[c] \intersect Id :
            \E old \in Identity \union {Nothing} :
                /\ <<i, old>> \in reads[c]
                /\ IF old = Nothing THEN Appears(c, i) ELSE Changes(old, writes[c][i])

IdentityInv == TypeOK /\ UserInv /\ WriteInv

=============================================================================
