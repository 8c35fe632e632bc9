------------------------ MODULE IdentityManagerProofs ------------------------
(***************************************************************************)
(* Proofs about identities where the peer validates what a transaction has *)
(* read: for every set of invocations, names, certificates and             *)
(* participants, a revoked identity stays revoked and has no effect any    *)
(* more, an issued identity is used up by its activation, and an identity  *)
(* keeps its participant.                                                  *)
(***************************************************************************)
EXTENDS IdentityManager, Naturals, Sequences, TLAPS

\* Identifiers of identities and of participants are told apart, and so are
\* those by name from those by certificate.
LEMMA Identifiers ==
    /\ \A n \in Name : NameId(n) \in Id
    /\ \A k \in Cert : CertId(k) \in Id /\ NameId(NameOf[k]) \in Id
    /\ \A p \in Participant : PartId(p) \in Doc \ Id
    /\ Id \subseteq Doc
    /\ \A n \in Name, k \in Cert : NameId(n) # CertId(k)
BY CertAssumption DEF Id, Doc, NameId, CertId, PartId

LEMMA EntryType ==
    \A s \in State, p \in Participant :
        /\ Entry(s, p) \in Identity
        /\ Entry(s, p).state = s /\ Entry(s, p).participant = p
        /\ Entry(s, p) # Nothing
BY EntryAssumption DEF Entry, Identity

LEMMA IdentityFields ==
    \A e \in Identity : /\ e.state \in State
                        /\ e.participant \in Participant
                        /\ e # Nothing
                        /\ e = Entry(e.state, e.participant)
BY EntryAssumption DEF Identity, Entry

LEMMA EntriesType ==
    ASSUME TypeOK, NEW D \in SUBSET Doc
    PROVE  /\ Entries(D) \subseteq Doc \X (Identity \union {Present, Nothing})
           /\ \A d \in D : <<d, store[d]>> \in Entries(D)
BY DEF Entries, TypeOK

LEMMA LookupType ==
    ASSUME TypeOK, NEW k \in Cert
    PROVE  /\ Lookup(k) \in Id
           /\ LookupReads(k) \subseteq Doc \X (Identity \union {Present, Nothing})
           /\ <<CertId(k), store[CertId(k)]>> \in LookupReads(k)
           /\ <<Lookup(k), store[Lookup(k)]>> \in LookupReads(k)
<1>1. Lookup(k) \in Id /\ {CertId(k), Lookup(k)} \in SUBSET Doc
  BY Identifiers DEF Lookup
<1> QED BY <1>1, EntriesType DEF LookupReads

-----------------------------------------------------------------------------
\* The handlers of an invocation: what they have in common.
Lawful(R, w) ==
    \A i \in DOMAIN w \intersect Id :
        \E old \in Identity \union {Nothing} :
            /\ <<i, old>> \in R
            /\ IF old = Nothing
               THEN \/ w[i].state \in {"ISSUED", "BOUND"}
                    \/ \E k \in Cert, p \in Participant :
                          LET n == NameId(NameOf[k]) IN
                          /\ i = CertId(k)
                          /\ w[i] = Entry("ACTIVATED", p)
                          /\ <<n, Entry("ISSUED", p)>> \in R
                          /\ n \in DOMAIN w
                          /\ w[n] = Nothing
               ELSE Changes(old, w[i])

WriteType(w) ==
    \A d \in DOMAIN w : /\ d \in Doc
                        /\ w[d] \in Identity \union {Present, Nothing}
                        /\ d \in Id => w[d] \in Identity \union {Nothing}

Executes(c) ==
    \E R \in SUBSET (Doc \X (Identity \union {Present, Nothing})) :
    \E w \in {writes'[c]} :
        /\ stage[c] # "idle"
        /\ Execute(c, R, w)
        /\ WriteType(w)
        /\ Lawful(R, w)

LEMMA OneWrite ==
    ASSUME TypeOK, NEW c \in Client, NEW D \in SUBSET Doc, NEW d \in D,
           NEW e, stage[c] # "idle",
           Execute(c, Entries(D), [x \in {d} |-> e]),
           e \in Identity \union {Present, Nothing},
           d \in Id => /\ e \in Identity \union {Nothing}
                       /\ IF store[d] = Nothing THEN e.state \in {"ISSUED", "BOUND"}
                                                ELSE Changes(store[d], e)
    PROVE  Executes(c)
<1> DEFINE w == [x \in {d} |-> e]
<1>1. writes'[c] = w
  BY DEF Execute, TypeOK
<1>2. Entries(D) \subseteq Doc \X (Identity \union {Present, Nothing})
      /\ <<d, store[d]>> \in Entries(D)
  BY EntriesType
<1>3. WriteType(w)
  BY DEF WriteType
<1>4. Lawful(Entries(D), w)
  <2> SUFFICES ASSUME NEW i \in DOMAIN w \intersect Id
               PROVE  \E old \in Identity \union {Nothing} :
                         /\ <<i, old>> \in Entries(D)
                         /\ IF old = Nothing THEN w[i].state \in {"ISSUED", "BOUND"}
                                             ELSE Changes(old, w[i])
    BY DEF Lawful
  <2>1. i = d /\ w[i] = e /\ store[d] \in Identity \union {Nothing}
    BY DEF TypeOK
  <2> QED BY <1>2, <2>1
<1> QED BY <1>1, <1>2, <1>3, <1>4 DEF Executes

Authenticates(c) ==
    \E i \in Id, k \in Cert, s \in {"authenticated", "activating"} :
    \E R \in SUBSET (Doc \X (Identity \union {Present, Nothing})) :
        /\ stage[c] = "idle"
        /\ store[i] \in Identity /\ store[i].state # "REVOKED"
        /\ <<i, store[i]>> \in R
        /\ stage' = [stage EXCEPT ![c] = s]
        /\ cert' = [cert EXCEPT ![c] = k]
        /\ user' = [user EXCEPT ![c] = i]
        /\ reads' = [reads EXCEPT ![c] = R]
        /\ UNCHANGED <<store, writes>>

LEMMA AuthenticateSteps ==
    ASSUME TypeOK, NEW c \in Client, NEW k \in Cert,
           Authenticate(c, k) \/ AuthenticateToActivate(c, k)
    PROVE  Authenticates(c)
<1> DEFINE i == Lookup(k)
<1>1. i \in Id /\ LookupReads(k) \subseteq Doc \X (Identity \union {Present, Nothing})
      /\ <<i, store[i]>> \in LookupReads(k)
  BY LookupType
<1>2. store[i] \in Identity /\ store[i].state # "REVOKED"
  <2>1. store[i] \in Identity \union {Nothing}
    BY <1>1 DEF TypeOK
  <2> QED BY <2>1 DEF Authenticate, AuthenticateToActivate, InState, Exists
<1>3. CASE Authenticate(c, k)
  <2> DEFINE P == {PartId(store[i].participant)}
  <2>1. P \in SUBSET Doc
    BY <1>2, Identifiers, IdentityFields
  <2>2. Entries(P) \subseteq Doc \X (Identity \union {Present, Nothing})
    BY <2>1, EntriesType
  <2> QED BY <1>1, <1>2, <1>3, <2>2 DEF Authenticate, Authenticates
<1>4. CASE AuthenticateToActivate(c, k)
  BY <1>1, <1>2, <1>4 DEF AuthenticateToActivate, Authenticates
<1> QED BY <1>3, <1>4

LEMMA ActivateIssuedStep ==
    ASSUME TypeOK, UserInv, NEW c \in Client, ActivateIssuedIdentity(c)
    PROVE  Executes(c)
<1> DEFINE k == cert[c]
           i == Lookup(k)
           p == store[i].participant
           n == NameId(NameOf[k])
           w == [d \in {i, CertId(k)} |->
                   IF d = i THEN Nothing ELSE Entry("ACTIVATED", p)]
           R == LookupReads(k)
<1>1. k \in Cert
  BY DEF ActivateIssuedIdentity, UserInv
<1>2. i = n /\ store[CertId(k)] = Nothing
  BY DEF ActivateIssuedIdentity, Lookup, Exists
<1>3. n \in Id /\ CertId(k) \in Id /\ n # CertId(k)
  BY <1>1, Identifiers, CertAssumption
<1>4. store[n] = Entry("ISSUED", p) /\ store[n] \in Identity /\ p \in Participant
  <2>1. store[n] \in Identity /\ store[n].state = "ISSUED"
    BY <1>2, <1>3 DEF ActivateIssuedIdentity, InState, Exists, TypeOK
  <2> QED BY <1>2, <2>1, IdentityFields
<1>5. R \subseteq Doc \X (Identity \union {Present, Nothing})
      /\ <<CertId(k), Nothing>> \in R /\ <<n, Entry("ISSUED", p)>> \in R
  BY <1>1, <1>2, <1>4, LookupType
<1>6. Execute(c, R, w)
  BY DEF ActivateIssuedIdentity
<1>7. stage[c] # "idle"
  BY DEF ActivateIssuedIdentity
<1>8. Entry("ACTIVATED", p) \in Identity
  BY <1>4, EntryType DEF State
<1> DEFINE W == w
<1>9. DOMAIN W = {n, CertId(k)} /\ W[n] = Nothing /\ W[CertId(k)] = Entry("ACTIVATED", p)
  BY <1>2, <1>3
<1>10. writes'[c] = W
  BY <1>6 DEF Execute, TypeOK
<1> HIDE DEF W, R, n
<1>11. WriteType(W)
  BY <1>3, <1>8, <1>9, Identifiers DEF WriteType
<1>12. Lawful(R, W)
  <2>1. \E old \in Identity \union {Nothing} :
           /\ <<n, old>> \in R
           /\ old # Nothing /\ Changes(old, W[n])
    <3>1. Changes(Entry("ISSUED", p), Nothing) /\ Entry("ISSUED", p) # Nothing
      BY <1>4, EntryType DEF Changes, State
    <3> QED BY <1>4, <1>5, <1>9, <3>1
  <2>2. \E q \in Participant :
           /\ W[CertId(k)] = Entry("ACTIVATED", q)
           /\ <<n, Entry("ISSUED", q)>> \in R
           /\ n \in DOMAIN W
           /\ W[n] = Nothing
    BY <1>4, <1>5, <1>9
  <2>3. \A i2 \in DOMAIN W : i2 = n \/ i2 = CertId(k)
    BY <1>9
  <2> QED BY <1>1, <1>5, <2>1, <2>2, <2>3 DEF Lawful, n
<1> QED BY <1>5, <1>6, <1>7, <1>10, <1>11, <1>12 DEF Executes, W

LEMMA ActivateBoundStep ==
    ASSUME TypeOK, UserInv, NEW c \in Client, ActivateBoundIdentity(c)
    PROVE  Executes(c)
<1> DEFINE k == cert[c]
           i == Lookup(k)
           D == {CertId(k), i}
<1>1. k \in Cert
  BY DEF ActivateBoundIdentity, UserInv
<1>2. i \in Id /\ D \in SUBSET Doc /\ i \in D
  BY <1>1, LookupType, Identifiers
<1>3. store[i] \in Identity /\ store[i].state = "BOUND"
  BY <1>2 DEF ActivateBoundIdentity, InState, Exists, TypeOK
<1>4. store[i].participant \in Participant /\ store[i] # Nothing
  BY <1>3, IdentityFields
<1> DEFINE e == Entry("ACTIVATED", store[i].participant)
<1>5. e \in Identity /\ Changes(store[i], e)
  BY <1>3, <1>4, EntryType DEF Changes, State
<1>6. Execute(c, Entries(D), [x \in {i} |-> e])
  BY DEF ActivateBoundIdentity, LookupReads
<1>7. stage[c] # "idle"
  BY DEF ActivateBoundIdentity
<1> HIDE DEF e, D, i
<1> QED BY <1>2, <1>4, <1>5, <1>6, <1>7, OneWrite

LEMMA RegistrySteps ==
    ASSUME TypeOK, NEW c \in Client,
           NEW n \in Name, NEW k \in Cert, NEW p \in Participant, NEW i \in Id,
           \/ IssueIdentity(c, n, p) \/ BindIdentity(c, k, p)
           \/ RevokeIdentity(c, i)
           \/ AddParticipant(c, p) \/ RemoveParticipant(c, p)
    PROVE  Executes(c)
<1>1. /\ NameId(n) \in Id /\ CertId(k) \in Id /\ PartId(p) \in Doc \ Id
      /\ Id \subseteq Doc
  BY Identifiers
<1>2. CASE IssueIdentity(c, n, p)
  <2>1. stage[c] # "idle" /\ store[NameId(n)] = Nothing
        /\ Execute(c, Entries({NameId(n), PartId(p)}),
                   [d \in {NameId(n)} |-> Entry("ISSUED", p)])
    BY <1>2 DEF IssueIdentity, Exists
  <2>2. Entry("ISSUED", p) \in Identity /\ Entry("ISSUED", p).state = "ISSUED"
    BY EntryType DEF State
  <2>3. {NameId(n), PartId(p)} \in SUBSET Doc
    BY <1>1
  <2> QED BY <2>1, <2>2, <2>3, OneWrite
<1>3. CASE BindIdentity(c, k, p)
  <2>1. stage[c] # "idle" /\ store[CertId(k)] = Nothing
        /\ Execute(c, Entries({CertId(k), PartId(p)}),
                   [d \in {CertId(k)} |-> Entry("BOUND", p)])
    BY <1>3 DEF BindIdentity, Exists
  <2>2. Entry("BOUND", p) \in Identity /\ Entry("BOUND", p).state = "BOUND"
    BY EntryType DEF State
  <2>3. {CertId(k), PartId(p)} \in SUBSET Doc
    BY <1>1
  <2> QED BY <2>1, <2>2, <2>3, OneWrite
<1>4. CASE RevokeIdentity(c, i)
  <2>1. /\ stage[c] # "idle" /\ store[i] \in Identity /\ store[i].state # "REVOKED"
        /\ Execute(c, Entries({i}),
                   [d \in {i} |-> Entry("REVOKED", store[i].participant)])
    BY <1>4 DEF RevokeIdentity, Exists, TypeOK
  <2>2. store[i].participant \in Participant /\ store[i] # Nothing
    BY <2>1, IdentityFields
  <2>3. /\ Entry("REVOKED", store[i].participant) \in Identity
        /\ Changes(store[i], Entry("REVOKED", store[i].participant))
    BY <2>1, <2>2, EntryType DEF Changes, State
  <2>4. {i} \in SUBSET Doc
    BY <1>1
  <2> QED BY <2>1, <2>2, <2>3, <2>4, OneWrite
<1>5. CASE AddParticipant(c, p) \/ RemoveParticipant(c, p)
  <2>1. PICK e \in {Present, Nothing} :
           Execute(c, Entries({PartId(p)}), [d \in {PartId(p)} |-> e])
    BY <1>5 DEF AddParticipant, RemoveParticipant
  <2>2. stage[c] # "idle" /\ {PartId(p)} \in SUBSET Doc
    BY <1>1, <1>5 DEF AddParticipant, RemoveParticipant
  <2> QED BY <1>1, <2>1, <2>2, OneWrite
<1> QED BY <1>2, <1>3, <1>4, <1>5

LEMMA HandleSteps ==
    ASSUME TypeOK, UserInv, NEW c \in Client, Handle(c)
    PROVE  Authenticates(c) \/ Executes(c)
<1> PICK n \in Name : TRUE
  BY CertAssumption
<1> PICK k0 \in Cert : TRUE
  BY CertAssumption
<1>1. CASE \E k \in Cert : Authenticate(c, k) \/ AuthenticateToActivate(c, k)
  BY <1>1, AuthenticateSteps
<1>2. CASE ActivateIssuedIdentity(c)
  BY <1>2, ActivateIssuedStep
<1>3. CASE ActivateBoundIdentity(c)
  BY <1>3, ActivateBoundStep
<1>4. CASE \E m \in Name, p \in Participant : IssueIdentity(c, m, p)
  BY <1>4, RegistrySteps, Identifiers
<1>5. CASE \E k \in Cert, p \in Participant : BindIdentity(c, k, p)
  BY <1>5, RegistrySteps, Identifiers
<1>6. CASE \E i \in Id : RevokeIdentity(c, i)
  <2> PICK i \in Id : RevokeIdentity(c, i)
    BY <1>6
  <2> PICK p \in Participant : TRUE
    BY IdentityFields DEF RevokeIdentity, Exists, TypeOK
  <2> QED BY RegistrySteps
<1>7. CASE \E p \in Participant : AddParticipant(c, p) \/ RemoveParticipant(c, p)
  BY <1>7, RegistrySteps, Identifiers
<1> QED BY <1>1, <1>2, <1>3, <1>4, <1>5, <1>6, <1>7 DEF Handle

-----------------------------------------------------------------------------
LEMMA InitIdentityInv == Init => IdentityInv
<1> SUFFICES ASSUME Init PROVE IdentityInv
  OBVIOUS
<1> PICK p \in Participant :
        store = [d \in Doc |->
                   IF d = CertId(Founder)
                   THEN [state |-> "ACTIVATED", participant |-> p]
                   ELSE IF d \in Id THEN Nothing ELSE Present]
  BY DEF Init
<1>1. [state |-> "ACTIVATED", participant |-> p] \in Identity
  BY DEF Identity, State
<1>2. TypeOK
  BY <1>1, Identifiers DEF Init, TypeOK, NoWrites
<1> QED BY <1>2 DEF Init, IdentityInv, UserInv, WriteInv

\* What holds of the writes of an invocation goes on to hold while it does
\* nothing.
LEMMA WriteFrame ==
    ASSUME WriteInv, NEW b \in Client, stage[b] = "executed",
           reads'[b] = reads[b], writes'[b] = writes[b],
           NEW j \in DOMAIN writes'[b] \intersect Id
    PROVE  \E old \in Identity \union {Nothing} :
              /\ <<j, old>> \in reads'[b]
              /\ IF old = Nothing THEN Appears(b, j)' ELSE Changes(old, writes'[b][j])
<1>1. PICK old \in Identity \union {Nothing} :
              /\ <<j, old>> \in reads[b]
              /\ IF old = Nothing THEN Appears(b, j) ELSE Changes(old, writes[b][j])
  BY DEF WriteInv
<1>2. Appears(b, j) => Appears(b, j)'
  BY DEF Appears
<1>3. <<j, old>> \in reads'[b]
  BY <1>1
<1>4. Changes(old, writes[b][j]) => Changes(old, writes'[b][j])
  OBVIOUS
<1> QED BY <1>1, <1>2, <1>3, <1>4

LEMMA AuthenticatesInv ==
    ASSUME IdentityInv, NEW c \in Client, Authenticates(c)
    PROVE  IdentityInv'
<1> USE DEF IdentityInv, TypeOK
<1> PICK i \in Id, k \in Cert, s \in {"authenticated", "activating"},
         R \in SUBSET (Doc \X (Identity \union {Present, Nothing})) :
        /\ stage[c] = "idle"
        /\ store[i] \in Identity /\ store[i].state # "REVOKED"
        /\ <<i, store[i]>> \in R
        /\ stage' = [stage EXCEPT ![c] = s]
        /\ cert' = [cert EXCEPT ![c] = k]
        /\ user' = [user EXCEPT ![c] = i]
        /\ reads' = [reads EXCEPT ![c] = R]
        /\ UNCHANGED <<store, writes>>
  BY DEF Authenticates
<1>1. TypeOK'
  OBVIOUS
<1>2. UserInv'
  BY DEF UserInv
<1>3. WriteInv'
  <2> SUFFICES ASSUME NEW b \in Client, stage'[b] = "executed",
                      NEW j \in DOMAIN writes'[b] \intersect Id
               PROVE  \E old \in Identity \union {Nothing} :
                         /\ <<j, old>> \in reads'[b]
                         /\ IF old = Nothing THEN Appears(b, j)'
                                             ELSE Changes(old, writes'[b][j])
    BY DEF WriteInv, Appears
  <2>1. b # c /\ stage[b] = "executed" /\ reads'[b] = reads[b] /\ writes' = writes
    OBVIOUS
  <2> QED BY <2>1, WriteFrame
<1> QED BY <1>1, <1>2, <1>3

LEMMA ExecutesInv ==
    ASSUME IdentityInv, NEW c \in Client, Executes(c)
    PROVE  IdentityInv'
<1> USE DEF IdentityInv
<1> PICK R \in SUBSET (Doc \X (Identity \union {Present, Nothing})),
         w \in {writes'[c]} :
        stage[c] # "idle" /\ Execute(c, R, w) /\ WriteType(w) /\ Lawful(R, w)
  BY DEF Executes
<1>1. /\ \A b \in Client \ {c} : /\ stage'[b] = stage[b]
                                 /\ reads'[b] = reads[b]
                                 /\ writes'[b] = writes[b]
      /\ reads'[c] = reads[c] \union R /\ writes'[c] = w
      /\ UNCHANGED <<store, cert, user>>
  BY DEF Execute, TypeOK
<1>2. TypeOK'
  BY <1>1 DEF Execute, TypeOK, WriteType
<1>3. UserInv'
  BY <1>1 DEF UserInv
<1>4. WriteInv'
  <2> SUFFICES ASSUME NEW b \in Client, stage'[b] = "executed",
                      NEW j \in DOMAIN writes'[b] \intersect Id
               PROVE  \E old \in Identity \union {Nothing} :
                         /\ <<j, old>> \in reads'[b]
                         /\ IF old = Nothing THEN Appears(b, j)'
                                             ELSE Changes(old, writes'[b][j])
    BY DEF WriteInv, Appears
  <2>1. CASE b # c
    BY <1>1, <2>1, WriteFrame
  <2>2. CASE b = c
    BY <1>1, <2>2 DEF Lawful, Appears
  <2> QED BY <2>1, <2>2
<1> QED BY <1>2, <1>3, <1>4

LEMMA FinishedInv ==
    ASSUME IdentityInv, NEW c \in Client, Finished(c),
           store' \in [Doc -> Identity \union {Present, Nothing}],
           \A i \in Id : store'[i] \in Identity \union {Nothing}
    PROVE  IdentityInv'
<1> USE DEF IdentityInv
<1>1. /\ \A b \in Client \ {c} : /\ stage'[b] = stage[b] /\ cert'[b] = cert[b]
                                 /\ user'[b] = user[b] /\ reads'[b] = reads[b]
                                 /\ writes'[b] = writes[b]
      /\ stage'[c] = "idle"
  BY DEF Finished, TypeOK
<1>2. TypeOK'
  BY DEF Finished, TypeOK, NoWrites
<1>3. UserInv'
  BY <1>1 DEF UserInv
<1>4. WriteInv'
  <2> SUFFICES ASSUME NEW b \in Client, stage'[b] = "executed",
                      NEW j \in DOMAIN writes'[b] \intersect Id
               PROVE  \E old \in Identity \union {Nothing} :
                         /\ <<j, old>> \in reads'[b]
                         /\ IF old = Nothing THEN Appears(b, j)'
                                             ELSE Changes(old, writes'[b][j])
    BY DEF WriteInv, Appears
  <2> QED BY <1>1, WriteFrame
<1> QED BY <1>2, <1>3, <1>4

LEMMA StepIdentityInv == IdentityInv /\ [Next]_vars => IdentityInv'
<1> SUFFICES ASSUME IdentityInv, [Next]_vars PROVE IdentityInv'
  OBVIOUS
<1>1. ASSUME NEW c \in Client, Handle(c) PROVE IdentityInv'
  BY <1>1, HandleSteps, AuthenticatesInv, ExecutesInv DEF IdentityInv
<1>2. ASSUME NEW c \in Client, Apply(c) PROVE IdentityInv'
  <2>1. /\ store' \in [Doc -> Identity \union {Present, Nothing}]
        /\ \A i \in Id : store'[i] \in Identity \union {Nothing}
    BY <1>2, Identifiers DEF Apply, IdentityInv, TypeOK
  <2>2. Finished(c)
    BY <1>2 DEF Apply
  <2> QED BY <2>1, <2>2, FinishedInv
<1>3. ASSUME NEW c \in Client, Abandon(c) PROVE IdentityInv'
  BY <1>3, FinishedInv DEF Abandon, IdentityInv, TypeOK
<1>4. CASE UNCHANGED vars
  <2>1. TypeOK' /\ UserInv'
    BY <1>4 DEF vars, IdentityInv, TypeOK, UserInv
  <2>2. WriteInv'
    BY <1>4, WriteFrame DEF vars, IdentityInv, WriteInv
  <2> QED BY <2>1, <2>2 DEF IdentityInv
<1> QED BY <1>1, <1>2, <1>3, <1>4 DEF Next

\* In every reachable state the reads and writes of an invocation are typed,
\* its identity was fit for use when it was read, and its writes are lawful.
THEOREM IdentityInvariant == Spec => []IdentityInv
BY InitIdentityInv, StepIdentityInv, PTL DEF Spec

-----------------------------------------------------------------------------
\* What a transaction does to identities when the peer has validated it.
LEMMA Applied ==
    ASSUME Validated, IdentityInv, NEW c \in Client, Apply(c)
    PROVE  /\ store[user[c]].state # "REVOKED"
           /\ \A i \in Id :
                 \/ store'[i] = store[i]
                 \/ /\ i \in DOMAIN writes[c]
                    /\ store'[i] = writes[c][i]
                    /\ IF store[i] = Nothing THEN Appears(c, i)
                                             ELSE Changes(store[i], store'[i])
<1>1. stage[c] = "executed" /\ \A r \in reads[c] : store[r[1]] = r[2]
  BY DEF Apply, ReadsHold
<1>2. \A d \in Doc : store'[d] = IF d \in DOMAIN writes[c] THEN writes[c][d] ELSE store[d]
  BY DEF Apply
<1>3. store[user[c]] \in Identity /\ store[user[c]].state # "REVOKED"
  <2>1. PICK e \in Identity : <<user[c], e>> \in reads[c] /\ e.state # "REVOKED"
    BY <1>1 DEF IdentityInv, UserInv
  <2> QED BY <1>1, <2>1
<1>4. ASSUME NEW i \in Id, i \in DOMAIN writes[c]
      PROVE  IF store[i] = Nothing THEN Appears(c, i) ELSE Changes(store[i], writes[c][i])
  <2>1. PICK old \in Identity \union {Nothing} :
                /\ <<i, old>> \in reads[c]
                /\ IF old = Nothing THEN Appears(c, i) ELSE Changes(old, writes[c][i])
    BY <1>1, <1>4 DEF IdentityInv, WriteInv
  <2>2. store[i] = old
    BY <1>1, <2>1
  <2> QED BY <2>1, <2>2
<1> QED BY <1>2, <1>3, <1>4, Identifiers

LEMMA OtherSteps ==
    ASSUME IdentityInv, [Next]_vars
    PROVE  store' = store \/ \E c \in Client : Apply(c)
<1>1. ASSUME NEW c \in Client, Handle(c) PROVE store' = store
  BY <1>1, HandleSteps DEF IdentityInv, Authenticates, Executes, Execute
<1> QED BY <1>1 DEF Next, Abandon, vars

-----------------------------------------------------------------------------
\* Where reads are validated, no step brings a revoked identity back:
\* whichever transaction wrote it has read it, and found it not revoked.
THEOREM ValidatedRevokedIsFinal == Validated => (Spec => RevokedIsFinal)
<1> SUFFICES ASSUME Validated PROVE Spec => RevokedIsFinal
  OBVIOUS
<1>1. IdentityInv /\ [Next]_vars =>
        [\A i \in Id : InState(i, "REVOKED") => InState(i, "REVOKED")']_vars
  <2> SUFFICES ASSUME IdentityInv, [Next]_vars, NEW i \in Id, InState(i, "REVOKED")
               PROVE  store'[i] = store[i]
    BY DEF InState, Exists
  <2>1. CASE store' = store
    BY <2>1
  <2>2. ASSUME NEW c \in Client, Apply(c) PROVE store'[i] = store[i]
    BY <2>2, Applied DEF InState, Exists, Changes
  <2> QED BY <2>1, <2>2, OtherSteps
<1> QED BY <1>1, IdentityInvariant, PTL DEF Spec, RevokedIsFinal

\* Where reads are validated, a transaction under way has no effect once the
\* identity that submitted it is revoked.
THEOREM ValidatedRevokedHasNoEffect == Validated => (Spec => RevokedHasNoEffect)
<1> SUFFICES ASSUME Validated PROVE Spec => RevokedHasNoEffect
  OBVIOUS
<1>1. IdentityInv /\ [Next]_vars =>
        [\A c \in Client : Apply(c) => ~ InState(user[c], "REVOKED")]_vars
  <2> SUFFICES ASSUME IdentityInv, NEW c \in Client, Apply(c)
               PROVE  ~ InState(user[c], "REVOKED")
    OBVIOUS
  <2>1. store[user[c]].state # "REVOKED"
    BY Applied
  <2> QED BY <2>1 DEF InState
<1> QED BY <1>1, IdentityInvariant, PTL DEF Spec, RevokedHasNoEffect

\* Where reads are validated, an identity never passes to another participant.
THEOREM ValidatedParticipantKept == Validated => (Spec => ParticipantKept)
<1> SUFFICES ASSUME Validated PROVE Spec => ParticipantKept
  OBVIOUS
<1>1. IdentityInv /\ [Next]_vars =>
        [\A i \in Id : Exists(i) /\ Exists(i)' =>
            store'[i].participant = store[i].participant]_vars
  <2> SUFFICES ASSUME IdentityInv, [Next]_vars, NEW i \in Id,
                      store[i] # Nothing, store'[i] # Nothing
               PROVE  store'[i].participant = store[i].participant
    BY DEF Exists
  <2>1. CASE store' = store
    BY <2>1
  <2>2. ASSUME NEW c \in Client, Apply(c)
        PROVE  store'[i].participant = store[i].participant
    BY <2>2, Applied DEF Changes
  <2> QED BY <2>1, <2>2, OtherSteps
<1> QED BY <1>1, IdentityInvariant, PTL DEF Spec, ParticipantKept

\* Where reads are validated, two certificates enrolled for one issued name
\* cannot both be activated: the first one uses the issued identity up.
THEOREM ValidatedActivationUsesUpIssue ==
    Validated => (Spec => ActivationUsesUpIssue)
<1> SUFFICES ASSUME Validated PROVE Spec => ActivationUsesUpIssue
  OBVIOUS
<1>1. IdentityInv /\ [Next]_vars =>
        [\A k \in Cert :
            ~ Exists(CertId(k)) /\ InState(CertId(k), "ACTIVATED")' =>
               /\ InState(NameId(NameOf[k]), "ISSUED")
               /\ ~ Exists(NameId(NameOf[k]))'
               /\ store'[CertId(k)].participant
                    = store[NameId(NameOf[k])].participant]_vars
  <2> SUFFICES ASSUME IdentityInv, [Next]_vars, NEW k \in Cert,
                      store[CertId(k)] = Nothing,
                      store'[CertId(k)] # Nothing,
                      store'[CertId(k)].state = "ACTIVATED"
               PROVE  LET n == NameId(NameOf[k]) IN
                      /\ store[n] # Nothing /\ store[n].state = "ISSUED"
                      /\ store'[n] = Nothing
                      /\ store'[CertId(k)].participant = store[n].participant
    BY DEF Exists, InState
  <2> DEFINE n == NameId(NameOf[k])
  <2>1. PICK c \in Client : Apply(c)
    BY OtherSteps
  <2>2. /\ CertId(k) \in DOMAIN writes[c]
        /\ store'[CertId(k)] = writes[c][CertId(k)]
        /\ Appears(c, CertId(k))
    BY <2>1, Applied, Identifiers
  <2>3. PICK p \in Participant :
                /\ writes[c][CertId(k)] = Entry("ACTIVATED", p)
                /\ <<n, Entry("ISSUED", p)>> \in reads[c]
                /\ n \in DOMAIN writes[c]
                /\ writes[c][n] = Nothing
    <3>1. writes[c][CertId(k)].state \notin {"ISSUED", "BOUND"}
      BY <2>2
    <3>2. PICK j \in Cert, p \in Participant :
                  /\ CertId(k) = CertId(j)
                  /\ writes[c][CertId(k)] = Entry("ACTIVATED", p)
                  /\ <<NameId(NameOf[j]), Entry("ISSUED", p)>> \in reads[c]
                  /\ NameId(NameOf[j]) \in DOMAIN writes[c]
                  /\ writes[c][NameId(NameOf[j])] = Nothing
      BY <2>2, <3>1 DEF Appears
    <3>3. j = k
      BY <3>2 DEF CertId
    <3> QED BY <3>2, <3>3
  <2>4. store[n] = Entry("ISSUED", p)
    BY <2>1, <2>3 DEF Apply, ReadsHold
  <2>5. store'[n] = Nothing
    BY <2>1, <2>3, Identifiers DEF Apply
  <2>6. /\ Entry("ISSUED", p) # Nothing
        /\ Entry("ISSUED", p).state = "ISSUED"
        /\ Entry("ISSUED", p).participant = Entry("ACTIVATED", p).participant
    BY EntryType DEF State
  <2> QED BY <2>2, <2>3, <2>4, <2>5, <2>6
<1> QED BY <1>1, IdentityInvariant, PTL DEF Spec, ActivationUsesUpIssue
=============================================================================
