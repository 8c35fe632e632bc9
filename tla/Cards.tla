-------------------------------- MODULE Cards --------------------------------
(***************************************************************************)
(* Business network cards in the file system of a user: the card store     *)
(* (filesystemcardstore.js, idcard.js), the key store of the Fabric        *)
(* connector that goes with each card name (hlfconnectionmanager.js) and   *)
(* the calls of AdminConnection on both.  Each call is made by a process   *)
(* of its own, the command line or an application, and every access to a   *)
(* file is a step between which others may run.                            *)
(*                                                                         *)
(* A card holds a certificate, with its key, or a secret that a            *)
(* certificate authority takes for one, or both.  All cards are for the    *)
(* same user name.                                                         *)
(***************************************************************************)
CONSTANTS
    Call,         \* the calls, one per process
    Name,         \* card names
    Card,         \* [cert, secret], each a certificate or None
    Uses,         \* the ways in which the cards are used: which kinds of calls are made,
                  \* whether one at a time, and whether processes die and identities are
                  \* refused
    None

Kind == {"import", "delete", "export", "connect", "list"}

\* The secret of a card may take the place of its certificate.
Certificate == {c.cert : c \in Card} \union {c.secret : c \in Card} \union {None}

CardAssumption ==
    /\ Uses \subseteq [kinds : SUBSET Kind, serial : BOOLEAN, faults : BOOLEAN]
    /\ \A c \in Card : /\ c = [cert |-> c.cert, secret |-> c.secret]
                       /\ c.cert # None \/ c.secret # None
    /\ None \notin Card
    /\ None \notin [kind : Kind, name : Name,
                    card : [cert : Certificate, secret : Certificate] \union {None}]

VARIABLES
    files,   \* by name: the directory, and whose metadata and credentials it has
    keys,    \* by name: the certificate in the key store
    op,      \* what each call was made with
    step,    \* where it is
    got,     \* the card it has read
    acts,    \* the certificate its connection uses
    bound,   \* the certificate it has deployed a business network for
    use      \* how the cards are used, which never changes

vars == <<files, keys, op, step, got, acts, bound, use>>
Nothing == [dir |-> FALSE, meta |-> None, creds |-> None]
Over == {"new", "done", "rejected", "dead", "connected", "deployed"}

Init ==
    /\ files = [n \in Name |-> Nothing]
    /\ keys = [n \in Name |-> None]
    /\ op = [p \in Call |-> None]
    /\ step = [p \in Call |-> "new"]
    /\ got = [p \in Call |-> Nothing]
    /\ acts = [p \in Call |-> None]
    /\ bound = [p \in Call |-> None]
    /\ use \in Uses

NameOf(p) == op[p].name
Goto(p, s) == step' = [step EXCEPT ![p] = s]
Idle == \A p \in Call : step[p] \in Over

\* The certificate and the secret of what is read of a card.
CertOf(f) == IF f.creds = None THEN None ELSE f.creds.cert
SecretOf(f) == f.meta.secret
HolderOf(f) == IF CertOf(f) # None THEN CertOf(f) ELSE SecretOf(f)

Begin(p, k, n, c) ==
    /\ step[p] = "new" /\ (use.serial => Idle)
    /\ op' = [op EXCEPT ![p] = [kind |-> k, name |-> n, card |-> c]]
    /\ Goto(p, k)
    /\ UNCHANGED <<files, keys, got, acts, bound>>

-----------------------------------------------------------------------------
(* put: access, then toDirectory *)

Put(p) ==
    /\ step[p] \in {"import", "putback"}
    /\ Goto(p, IF files[NameOf(p)].dir THEN "rejected" ELSE "mkdir")
    /\ UNCHANGED <<files, keys, op, got, acts, bound>>

\* The directories and files are made if they are not there.
MakeDirectory(p) ==
    /\ step[p] = "mkdir"
    /\ files' = [files EXCEPT ![NameOf(p)].dir = TRUE]
    /\ Goto(p, "meta")
    /\ UNCHANGED <<keys, op, got, acts, bound>>

\* metadata.json and connection.json.  The directory may be gone again.
WriteMetadata(p) ==
    /\ step[p] = "meta"
    /\ IF files[NameOf(p)].dir
       THEN files' = [files EXCEPT ![NameOf(p)].meta = op[p].card] /\ Goto(p, "creds")
       ELSE Goto(p, "rejected") /\ UNCHANGED files
    /\ UNCHANGED <<keys, op, got, acts, bound>>

\* One file for each credential: where there is none, those of another card stay.
WriteCredentials(p) ==
    /\ step[p] = "creds"
    /\ files' = [files EXCEPT ![NameOf(p)].dir = TRUE,
                    ![NameOf(p)].creds = IF op[p].card.cert = None /\ @ # None THEN @ ELSE op[p].card]
    /\ Goto(p, IF op[p].kind = "import" THEN "identity" ELSE "done")
    /\ UNCHANGED <<keys, op, got, acts, bound>>

\* Mutant: one key store for all cards.
ImportIdentityShared(p) ==
    /\ step[p] = "identity"
    /\ Goto(p, "done")
    /\ keys' = [n \in Name |-> IF op[p].card.cert # None THEN op[p].card.cert ELSE keys[n]]
    /\ UNCHANGED <<files, op, got, acts, bound>>

\* importIdentity, when the card has a certificate.
ImportIdentity(p) ==
    /\ step[p] = "identity"
    /\ \/ /\ Goto(p, "done")
          /\ keys' = [keys EXCEPT ![NameOf(p)] =
                IF op[p].card.cert # None THEN op[p].card.cert ELSE @]
       \/ /\ use.faults /\ op[p].card.cert # None
          /\ Goto(p, "rejected") /\ UNCHANGED keys
    /\ UNCHANGED <<files, op, got, acts, bound>>

-----------------------------------------------------------------------------
(* delete, get, getAll *)

\* The directory of the card is removed, its key store is not.
Delete(p) ==
    /\ step[p] = "delete"
    /\ IF files[NameOf(p)].dir
       THEN files' = [files EXCEPT ![NameOf(p)] = Nothing] /\ Goto(p, "done")
       ELSE Goto(p, "rejected") /\ UNCHANGED files
    /\ UNCHANGED <<keys, op, got, acts, bound>>

\* fromDirectory needs the metadata, credentials are optional.
Get(p) ==
    /\ step[p] \in {"export", "connect"}
    /\ IF files[NameOf(p)].meta = None
       THEN Goto(p, "rejected") /\ UNCHANGED got
       ELSE /\ got' = [got EXCEPT ![p] = files[NameOf(p)]]
            /\ Goto(p, IF step[p] = "export" THEN "extract" ELSE "login")
    /\ UNCHANGED <<files, keys, op, acts, bound>>

\* One directory that cannot be read rejects them all.
List(p) ==
    /\ step[p] = "list"
    /\ Goto(p, IF \E n \in Name : files[n].dir /\ files[n].meta = None
               THEN "rejected" ELSE "done")
    /\ UNCHANGED <<files, keys, op, got, acts, bound>>

-----------------------------------------------------------------------------
(* exportCard, connect, deploy *)

\* A card without credentials is completed from the key store, and put back.
Extract(p) ==
    /\ step[p] = "extract"
    /\ LET found == keys[NameOf(p)]
           full == [cert |-> found, secret |-> SecretOf(got[p])]
       IN IF CertOf(got[p]) # None \/ found = None
          THEN /\ Goto(p, IF HolderOf(got[p]) = None THEN "rejected" ELSE "done")
               /\ UNCHANGED <<op, got>>
          ELSE /\ got' = [got EXCEPT ![p].creds = full]
               /\ op' = [op EXCEPT ![p].card = full]
               /\ Goto(p, "putback")
    /\ UNCHANGED <<files, keys, acts, bound>>

\* The certificate in the key store is used, or the secret is taken for one.
Login(p) ==
    /\ step[p] = "login"
    /\ LET there == keys[NameOf(p)]
           new == IF there # None THEN there ELSE SecretOf(got[p])
       IN IF new = None THEN Goto(p, "rejected") /\ UNCHANGED <<keys, acts>>
          ELSE /\ acts' = [acts EXCEPT ![p] = new]
               /\ keys' = [keys EXCEPT ![NameOf(p)] = new]
               /\ Goto(p, "connected")
    /\ UNCHANGED <<files, op, got, bound>>

\* The administrator is bound to the certificate of the card that was read; a card
\* without one has nothing to bind, and the transaction is not serialized.
Deploy(p) ==
    /\ step[p] = "connected"
    /\ IF CertOf(got[p]) = None
       THEN Goto(p, "rejected") /\ UNCHANGED bound
       ELSE bound' = [bound EXCEPT ![p] = CertOf(got[p])] /\ Goto(p, "deployed")
    /\ UNCHANGED <<files, keys, op, got, acts>>

\* A process dies.
Die(p) ==
    /\ use.faults /\ step[p] \notin Over
    /\ Goto(p, "dead")
    /\ UNCHANGED <<files, keys, op, got, acts, bound>>

Step(p) ==
    \/ \E n \in Name :
          \/ \E k \in use.kinds \ {"import"} : Begin(p, k, n, None)
          \/ \E c \in Card : "import" \in use.kinds /\ Begin(p, "import", n, c)
    \/ Put(p) \/ MakeDirectory(p) \/ WriteMetadata(p) \/ WriteCredentials(p)
    \/ ImportIdentity(p) \/ Delete(p) \/ Get(p) \/ List(p) \/ Extract(p)
    \/ Login(p) \/ Deploy(p) \/ Die(p)

Next == UNCHANGED use /\ \E p \in Call : Step(p)

Spec == Init /\ [][Next]_vars

-----------------------------------------------------------------------------
Imported(n) == {op[p].card : p \in {q \in Call : op[q] # None /\ op[q].kind = "import"
                                                     /\ NameOf(q) = n}}

\* The types of the variables: what is written has a directory, what is connected a
\* certificate.
TypeOK ==
    /\ \A n \in Name : files[n].meta # None => files[n].dir
    /\ \A p \in Call : /\ (step[p] = "new") <=> (op[p] = None)
                       /\ step[p] = "connected" => acts[p] # None

\* When nothing is under way, a card in the store is one that was imported: neither
\* incomplete nor a mixture.
Intact ==
    Idle => \A n \in Name : files[n].dir =>
        files[n].meta = files[n].creds /\ files[n].meta \in Imported(n)

\* Cards can be listed.
ListWorks == \A p \in Call : step[p] = "rejected" => op[p].kind # "list"

\* A card that is exported can be connected with.
ExportUsable ==
    \A p \in Call : step[p] = "done" /\ op[p].kind = "export" => HolderOf(got[p]) # None

\* "Business network cards represent everything necessary to connect to a business
\* network. They include connection details, authentication material, and
\* metadata": a connection acts for the certificate of its card.
ConnectsAsCard == \A p \in Call : step[p] \in {"connected", "deployed"} => acts[p] = HolderOf(got[p])

\* The administrator of a business network that is deployed is the identity that
\* has deployed it.
AdminServed == \A p \in Call : step[p] = "deployed" => bound[p] = acts[p]

\* A connection acts for nobody but those whose cards were imported by its name.
OwnIdentity ==
    \A p \in Call : acts[p] # None =>
        \E c \in Imported(NameOf(p)) : acts[p] \in {c.cert, c.secret}

\* "It is an error to put a card name that already exists in the store": of two
\* imports by one name that nobody deletes, one is rejected.
PutOnce ==
    (\A p \in Call : op[p] # None => op[p].kind = "import") =>
        \A p, q \in Call : p # q /\ step[p] = "done" /\ step[q] = "done"
                              => NameOf(p) # NameOf(q)

\* "If you export a Business Network Card that has been used before, it will already
\* contain the certificate and private key": the export is not rejected when the
\* certificate is found.
ExportWorks ==
    \A p \in Call : step[p] = "rejected" /\ op[p].kind = "export" => CertOf(got[p]) = None

\* A connection acts for nobody but those whose cards were imported by its name, however
\* calls overlap.  One call at a time, a card in the store is whole, a listing and an
\* export work; and a connection acts for the holder of its card if none was deleted.
CardsSound ==
    /\ TypeOK /\ OwnIdentity
    /\ use.serial /\ ~use.faults => Intact /\ ListWorks /\ ExportUsable
    /\ use.serial /\ ~use.faults /\ "delete" \notin use.kinds =>
         ConnectsAsCard /\ AdminServed
=============================================================================
