---------------------------- MODULE EngineProofs ----------------------------
(***************************************************************************)
(* Proofs about the parts of the engine, for every value of the constants. *)
(*                                                                         *)
(* issueIdentity (IssueIdentity), for requests that fail or whose answer   *)
(* is lost at any step: with a certificate authority that refuses a name   *)
(* it knows, who is issued an identity acts for the participant asked for; *)
(* with a connector that answers with the identity it has, nothing is      *)
(* refused without one of the reasons that are documented.                 *)
(*                                                                         *)
(* Then the version of a business network that a request runs              *)
(* (RequestContext), its start (Bootstrap), the resolver, whatever circles *)
(* relationships form, and the access controller, for rules and            *)
(* relationships that lead to an end; the registries, through starts,      *)
(* updates and resets, and the model manager.  The last section takes the  *)
(* parts together.                                                         *)
(***************************************************************************)
EXTENDS Engine, Naturals, Sequences, FiniteSetTheorems, SequenceTheorems,
        WellFoundedInduction, TLAPS

Types ==
    /\ known \in [Name -> Call \union {None}]
    /\ issued \in [Name -> Participant \union {None}]
    /\ activated \in [Name -> Participant \union {None}]
    /\ step \in [Call -> {"new", "create", "submit", "resolved", "rejected"}]
    /\ op \in [Call -> [name : Name, participant : Participant]]
    /\ cause \in [Call -> Cause \union {None}]
    /\ \A c \in Call : (cause[c] # None) <=> (step[c] = "rejected")

LEMMA CauseNotNone == None \notin Cause /\ None \notin Call /\ None \notin Participant
BY IssueAssumption

LEMMA OpType ==
    ASSUME Types, NEW c \in Call
    PROVE  NameOf(c) \in Name /\ op[c].participant \in Participant
BY DEF Types, NameOf

LEMMA TypesInit == Init => Types
BY CauseNotNone DEF Init, Types

\* How far the calls are, and what ended those that were rejected.
Progress ==
    /\ step \in [Call -> {"new", "create", "submit", "resolved", "rejected"}]
    /\ cause \in [Call -> Cause \union {None}]
    /\ \A c \in Call : (cause[c] # None) <=> (step[c] = "rejected")

LEMMA GotoTypes ==
    ASSUME Types, NEW c \in Call, step[c] # "rejected", UNCHANGED cause,
           NEW s \in {"create", "submit", "resolved"}, Goto(c, s)
    PROVE  Progress'
BY DEF Types, Progress, Goto

LEMMA RejectTypes ==
    ASSUME Types, NEW c \in Call, NEW f \in Cause, Reject(c, f)
    PROVE  Progress'
<1>1. /\ step' = [step EXCEPT ![c] = "rejected"]
      /\ cause' = [cause EXCEPT ![c] = f]
  BY DEF Reject, Goto
<1> QED BY <1>1, CauseNotNone DEF Types, Progress

LEMMA TypesNext == Types /\ [Next]_vars => Types'
<1> SUFFICES ASSUME Types, [Next]_vars PROVE Types'  OBVIOUS
<1>1. CASE UNCHANGED vars
  BY <1>1 DEF vars, registry, Types
<1>2. ASSUME NEW c \in Call, Exists(c) \/ Create(c) \/ Submit(c) \/ Fail(c) PROVE Types'
  <2>1. NameOf(c) \in Name /\ op[c].participant \in Participant
    BY OpType
  <2>2. {"absent", "known", "mapped", "failure"} \subseteq Cause
    BY DEF Cause
  <2>3. CASE Exists(c)
    <3>1. /\ step[c] = "new"
          /\ \/ Goto(c, "create") /\ UNCHANGED cause
             \/ Reject(c, "absent")
      BY <2>3 DEF Exists
    <3>2. Progress'
      BY <2>2, <3>1, GotoTypes, RejectTypes
    <3>3. UNCHANGED <<known, issued, activated, op>>
      BY <2>3 DEF Exists, registry
    <3> QED BY <3>2, <3>3 DEF Types, Progress
  <2>4. CASE Create(c)
    <3>1. known' \in [Name -> Call \union {None}]
      BY <2>1, <2>4 DEF Create, Types
    <3>2. /\ step[c] = "create"
          /\ \/ Goto(c, "submit") /\ UNCHANGED cause
             \/ Reject(c, "known")
      BY <2>4 DEF Create
    <3>3. Progress'
      BY <2>2, <3>2, GotoTypes, RejectTypes
    <3>4. UNCHANGED <<issued, activated, op>>
      BY <2>4 DEF Create, registry
    <3> QED BY <3>1, <3>3, <3>4 DEF Types, Progress
  <2>5. CASE Submit(c)
    <3>1. issued' \in [Name -> Participant \union {None}]
      BY <2>1, <2>5 DEF Submit, Types
    <3>2. /\ step[c] = "submit"
          /\ \/ Goto(c, "resolved") /\ UNCHANGED cause
             \/ Reject(c, "mapped")
      BY <2>5 DEF Submit
    <3>3. Progress'
      BY <2>2, <3>2, GotoTypes, RejectTypes
    <3>4. UNCHANGED <<known, activated, op>>
      BY <2>5 DEF Submit
    <3> QED BY <3>1, <3>3, <3>4 DEF Types, Progress
  <2>6. CASE Fail(c)
    <3>1. /\ known' \in [Name -> Call \union {None}]
          /\ issued' \in [Name -> Participant \union {None}]
      BY <2>1, <2>6 DEF Fail, Types
    <3>2. Progress'
      BY <2>2, <2>6, RejectTypes DEF Fail
    <3>3. UNCHANGED <<activated, op>>
      BY <2>6 DEF Fail
    <3> QED BY <3>1, <3>2, <3>3 DEF Types, Progress
  <2> QED BY <1>2, <2>3, <2>4, <2>5, <2>6
<1>3. ASSUME NEW n \in Name, Activate(n) PROVE Types'
  BY <1>3 DEF Activate, Types
<1> QED BY <1>1, <1>2, <1>3 DEF Next

\* Calls and the registry have their types, and a call has a cause when it is rejected.
THEOREM IssueTypes == Spec => []TypeOK
<1>1. Types => TypeOK
  BY DEF Types, TypeOK
<1> QED BY <1>1, TypesInit, TypesNext, PTL DEF Spec

-----------------------------------------------------------------------------
\* With a certificate authority the call that has the certificate of a name is the only
\* one that maps it: until it does the name is not mapped, and then to its participant.
Creator ==
    /\ \A n \in Name : ActsFor(n) # None => /\ known[n] # None
                                            /\ ActsFor(n) = op[known[n]].participant
    /\ \A n \in Name : activated[n] = None \/ issued[n] = None
    /\ \A c \in Call :
          /\ step[c] \in {"submit", "resolved"} => known[NameOf(c)] = c
          /\ step[c] = "submit" => ActsFor(NameOf(c)) = None
          /\ step[c] = "resolved" => ActsFor(NameOf(c)) # None

LEMMA CreatorNext ==
    ASSUME ~ Reuse, Types, Creator, [Next]_vars
    PROVE  Creator'
<1>1. CASE UNCHANGED vars
  BY <1>1 DEF vars, registry, Creator, ActsFor, NameOf
<1>2. ASSUME NEW c \in Call, Exists(c) PROVE Creator'
  <2>1. UNCHANGED <<known, issued, activated, op>>
    BY <1>2 DEF Exists, registry
  <2>2. \A d \in Call : step'[d] # step[d] => step'[d] \in {"create", "rejected"}
    BY <1>2 DEF Exists, Goto, Reject, Types
  <2>3. \A n \in Name : ActsFor(n)' = ActsFor(n)
    BY <2>1 DEF ActsFor
  <2>4. \A d \in Call : NameOf(d)' = NameOf(d) /\ NameOf(d) \in Name
    BY <2>1, OpType DEF NameOf
  <2> QED BY <2>1, <2>2, <2>3, <2>4 DEF Creator
<1>3. ASSUME NEW c \in Call, Create(c) PROVE Creator'
  <2>1. NameOf(c) \in Name
    BY OpType
  <2>2. CASE known[NameOf(c)] # None
    BY <1>3, <2>2 DEF Create, Goto, Reject, registry, Types, Creator, ActsFor, NameOf
  <2>3. CASE known[NameOf(c)] = None
    <3>1. /\ known' = [known EXCEPT ![NameOf(c)] = c] /\ step' = [step EXCEPT ![c] = "submit"]
          /\ UNCHANGED <<issued, activated, op>> /\ ActsFor(NameOf(c)) = None
      BY <1>3, <2>1, <2>3 DEF Create, Goto, registry, Creator
    <3>2. \A n \in Name : ActsFor(n)' = ActsFor(n)
      BY <3>1 DEF ActsFor
    <3>3. \A d \in Call : NameOf(d)' = NameOf(d) /\ NameOf(d) \in Name
      BY <3>1, OpType DEF NameOf
    <3>4. \A d \in Call \ {c} : step[d] \in {"submit", "resolved"} => NameOf(d) # NameOf(c)
      BY <2>3, CauseNotNone DEF Creator
    <3> QED BY <2>1, <3>1, <3>2, <3>3, <3>4 DEF Creator, Types
  <2> QED BY <2>2, <2>3
<1>4. ASSUME NEW c \in Call, step[c] = "submit", step' = [step EXCEPT ![c] = step'[c]],
             \/ step'[c] = "rejected" /\ UNCHANGED issued
             \/ /\ step'[c] \in {"resolved", "rejected"} /\ issued[NameOf(c)] = None
                /\ issued' = [issued EXCEPT ![NameOf(c)] = op[c].participant],
             UNCHANGED <<known, activated, op>>
      PROVE  Creator'
  <2>1. NameOf(c) \in Name /\ known[NameOf(c)] = c /\ ActsFor(NameOf(c)) = None
    BY <1>4, OpType DEF Creator
  <2>2. activated[NameOf(c)] = None
    BY <2>1 DEF ActsFor
  <2>3. \A d \in Call : NameOf(d)' = NameOf(d) /\ NameOf(d) \in Name
    BY <1>4, OpType DEF NameOf
  <2>4. \A d \in Call \ {c} : step[d] \in {"submit", "resolved"} => NameOf(d) # NameOf(c)
    BY <2>1 DEF Creator
  <2>5. CASE UNCHANGED issued
    <3>1. \A n \in Name : ActsFor(n)' = ActsFor(n)
      BY <1>4, <2>5 DEF ActsFor
    <3>2. step'[c] = "rejected"
      BY <1>4, <2>1, <2>5, <2>2, OpType, CauseNotNone DEF ActsFor, Types
    <3> QED BY <1>4, <2>3, <2>5, <3>1, <3>2 DEF Creator, Types
  <2>6. CASE /\ step'[c] \in {"resolved", "rejected"}
             /\ issued' = [issued EXCEPT ![NameOf(c)] = op[c].participant]
    <3>1. \A n \in Name : ActsFor(n)' = IF n = NameOf(c) THEN op[c].participant ELSE ActsFor(n)
      BY <1>4, <2>1, <2>2, <2>6 DEF ActsFor, Types
    <3>2. op[c].participant # None
      BY OpType, CauseNotNone
    <3>3. \A n \in Name : ActsFor(n)' # None => /\ known'[n] # None
                                               /\ ActsFor(n)' = op'[known'[n]].participant
      BY <1>4, <2>1, <3>1, CauseNotNone DEF Creator
    <3>4. \A n \in Name : activated'[n] = None \/ issued'[n] = None
      BY <1>4, <2>1, <2>2, <2>6 DEF Creator, Types
    <3>5. ASSUME NEW d \in Call
          PROVE  /\ step'[d] \in {"submit", "resolved"} => known'[NameOf(d)'] = d
                 /\ step'[d] = "submit" => ActsFor(NameOf(d))' = None
                 /\ step'[d] = "resolved" => ActsFor(NameOf(d))' # None
      <4>1. CASE d = c
        BY <1>4, <4>1, <2>1, <2>3, <2>6, <3>1, <3>2 DEF Types
      <4>2. CASE d # c
        BY <1>4, <4>2, <2>3, <2>4, <3>1 DEF Creator, Types
      <4> QED BY <4>1, <4>2
    <3> QED BY <3>3, <3>4, <3>5 DEF Creator
  <2> QED BY <1>4, <2>5, <2>6
<1>5. ASSUME NEW c \in Call, Submit(c) PROVE Creator'
  <2>1. /\ step[c] = "submit" /\ step' = [step EXCEPT ![c] = step'[c]]
        /\ \/ step'[c] = "rejected" /\ UNCHANGED issued
           \/ /\ step'[c] \in {"resolved", "rejected"} /\ issued[NameOf(c)] = None
              /\ issued' = [issued EXCEPT ![NameOf(c)] = op[c].participant]
        /\ UNCHANGED <<known, activated, op>>
    BY <1>5 DEF Submit, Goto, Reject, Types
  <2> QED BY <1>4, <2>1
<1>6. ASSUME NEW c \in Call, Fail(c) PROVE Creator'
  <2>0. step' = [step EXCEPT ![c] = "rejected"] /\ UNCHANGED <<activated, op>>
    BY <1>6 DEF Fail, Reject, Goto
  <2>1. NameOf(c) \in Name
    BY OpType
  <2>2. CASE UNCHANGED <<known, issued>>
    BY <2>0, <2>2 DEF Types, Creator, ActsFor, NameOf
  <2>3. CASE /\ step[c] = "create" /\ known[NameOf(c)] = None
             /\ known' = [known EXCEPT ![NameOf(c)] = c] /\ UNCHANGED issued
    <3>1. \A n \in Name : ActsFor(n)' = ActsFor(n)
      BY <2>0, <2>3 DEF ActsFor
    <3>2. \A d \in Call : NameOf(d)' = NameOf(d) /\ NameOf(d) \in Name
      BY <2>0, OpType DEF NameOf
    <3>3. \A d \in Call : step[d] \in {"submit", "resolved"} => NameOf(d) # NameOf(c)
      BY <2>3, CauseNotNone DEF Creator
    <3>4. ActsFor(NameOf(c)) = None
      BY <2>1, <2>3 DEF Creator
    <3> QED BY <2>0, <2>1, <2>3, <3>1, <3>2, <3>3, <3>4 DEF Creator, Types
  <2>4. CASE /\ step[c] = "submit" /\ issued[NameOf(c)] = None
             /\ issued' = [issued EXCEPT ![NameOf(c)] = op[c].participant] /\ UNCHANGED known
    <3>1. step'[c] = "rejected" /\ step' = [step EXCEPT ![c] = step'[c]]
      BY <2>0 DEF Types
    <3> QED BY <1>4, <2>0, <2>4, <3>1
  <2> QED BY <1>6, <2>2, <2>3, <2>4 DEF Fail
<1>7. ASSUME NEW n \in Name, Activate(n) PROVE Creator'
  <2>1. \A m \in Name : ActsFor(m)' = ActsFor(m)
    BY <1>7, CauseNotNone DEF Activate, ActsFor, Types
  <2>2. \A d \in Call : NameOf(d)' = NameOf(d) /\ NameOf(d) \in Name
    BY <1>7, OpType DEF Activate, NameOf
  <2> QED BY <1>7, <2>1, <2>2 DEF Activate, Creator, Types
<1> QED BY <1>1, <1>2, <1>3, <1>5, <1>6, <1>7 DEF Next

LEMMA CreatorAlways ==
    ASSUME ~ Reuse
    PROVE  Spec => [](Types /\ Creator)
<1>1. Init => Creator
  BY OpType, TypesInit DEF Init, Creator, ActsFor, Types
<1> QED BY <1>1, TypesInit, TypesNext, CreatorNext, PTL DEF Spec

\* With a certificate authority, who is issued an identity acts for the participant
\* that was asked for, whatever fails and whoever asks for the same name.
THEOREM IssuedForParticipant ==
    ASSUME ~ Reuse
    PROVE  Spec => []IssuedActs
<1>1. Types /\ Creator => IssuedActs
  <2> SUFFICES ASSUME Types, Creator, NEW c \in Call, step[c] = "resolved"
               PROVE  ActsFor(NameOf(c)) = op[c].participant
    BY DEF IssuedActs
  <2>1. NameOf(c) \in Name
    BY OpType
  <2> QED BY <2>1 DEF Creator
<1> QED BY <1>1, CreatorAlways, PTL

\* ... and a name has one entry in the registry, of a name that the authority knows.
THEOREM OneEntryEach ==
    ASSUME ~ Reuse
    PROVE  Spec => []OneEntry
<1>1. Creator => OneEntry
  BY DEF Creator, OneEntry
<1> QED BY <1>1, CreatorAlways, PTL

-----------------------------------------------------------------------------
\* With a connector that answers with the identity it has, a call is refused for a
\* participant that does not exist or a name that is mapped, and for nothing else.
THEOREM RefusedForCause ==
    ASSUME Reuse
    PROVE  Spec => []RejectedForCause
<1>1. Init => RejectedForCause
  BY DEF Init, RejectedForCause
<1>2. Types /\ RejectedForCause /\ [Next]_vars => RejectedForCause'
  <2> SUFFICES ASSUME Types, RejectedForCause, [Next]_vars, NEW d \in Call,
                      step'[d] = "rejected", cause'[d] # "failure"
               PROVE  \/ op'[d].participant \notin participants'
                      \/ ActsFor(NameOf(d))' # None
    BY DEF RejectedForCause
  <2>1. CASE UNCHANGED vars
    BY <2>1 DEF vars, registry, RejectedForCause, ActsFor, NameOf
  <2>2. ASSUME NEW n \in Name, Activate(n)
        PROVE  UNCHANGED <<participants, step, op, cause>> /\ \A m \in Name : ActsFor(m)' = ActsFor(m)
    BY <2>2, CauseNotNone DEF Activate, ActsFor, Types
  <2>3. ASSUME NEW c \in Call, Exists(c) \/ Create(c) \/ Submit(c) \/ Fail(c)
        PROVE  /\ UNCHANGED <<participants, op>>
               /\ \A m \in Name : ActsFor(m) # None => ActsFor(m)' # None
               /\ step'[d] = "rejected" /\ step[d] = "rejected" => d # c /\ cause'[d] = cause[d]
               /\ step'[d] = "rejected" /\ step[d] # "rejected" =>
                     d = c /\ (op[d].participant \notin participants \/ ActsFor(NameOf(d)) # None)
    <3>1. NameOf(c) \in Name /\ op[c].participant # None
      BY OpType, CauseNotNone
    <3>2. CASE Exists(c)
      BY <3>2 DEF Exists, Goto, Reject, registry, ActsFor, Types
    <3>3. CASE Create(c)
      BY <3>3 DEF Create, Goto, Reject, registry, ActsFor, Types
    <3>4. CASE Submit(c)
      BY <3>1, <3>4 DEF Submit, Goto, Reject, ActsFor, Types
    <3>5. CASE Fail(c)
      BY <3>1, <3>5 DEF Fail, Goto, Reject, ActsFor, Types
    <3> QED BY <2>3, <3>2, <3>3, <3>4, <3>5
  <2>4. NameOf(d) \in Name
    BY OpType
  <2>5. CASE \E c \in Call : Exists(c) \/ Create(c) \/ Submit(c) \/ Fail(c)
    <3>1. /\ UNCHANGED <<participants, op>>
          /\ \A m \in Name : ActsFor(m) # None => ActsFor(m)' # None
          /\ step[d] = "rejected" => cause'[d] = cause[d]
          /\ step[d] # "rejected" =>
                op[d].participant \notin participants \/ ActsFor(NameOf(d)) # None
      BY <2>3, <2>5
    <3>2. op[d].participant \notin participants \/ ActsFor(NameOf(d)) # None
      BY <3>1 DEF RejectedForCause
    <3>3. NameOf(d)' = NameOf(d)
      BY <3>1 DEF NameOf
    <3> QED BY <2>4, <3>1, <3>2, <3>3
  <2>6. CASE \E n \in Name : Activate(n)
    <3>1. UNCHANGED <<participants, step, op, cause>> /\ ActsFor(NameOf(d))' = ActsFor(NameOf(d))
      <4>1. NameOf(d)' = NameOf(d)
        BY <2>2, <2>6 DEF NameOf
      <4> QED BY <2>2, <2>4, <2>6, <4>1
    <3> QED BY <3>1 DEF RejectedForCause
  <2> QED BY <2>1, <2>5, <2>6 DEF Next
<1> QED BY <1>1, <1>2, TypesInit, TypesNext, PTL DEF Spec

-----------------------------------------------------------------------------
(***************************************************************************)
(* The versions of a business network that requests run (RequestContext):  *)
(* none runs a mixture, or one that does not compile, whatever the shared  *)
(* caches hold and drop, and none brings back what was undeployed.         *)
(***************************************************************************)
Works == Network \ Broken

\* What a cache may hold: a version under its own hash, made from itself; only the
\* definition of one that does not compile.
Entries(p) == {<<n, n>> : n \in IF p = "network" THEN Network ELSE Works}

ContextTypes ==
    /\ record \in [network : Works, undeployed : BOOLEAN]
    /\ recordVersion \in Nat
    /\ DOMAIN cache = Contexts!Part
    /\ pc \in [Request -> Contexts!Part \union {"new", "running", "updated", "done", "failed"}]
    /\ ctx \in [Request -> [Contexts!Part -> Network \union {None}]]
    /\ read \in [Request -> (Contexts!Record \union {Contexts!NoRecord}) \X Nat]
    /\ pending \in [Request -> Contexts!Record \union {Contexts!NoRecord}]

CacheInv ==
    \A p \in Contexts!Part : /\ cache[p] \in Seq(Entries(p))
                             /\ Len(cache[p]) <= CacheSize

\* The parts that a request has when it looks for the next.
Loaded(r) ==
    CASE pc[r] = "scripts" -> {"network"}
      [] pc[r] = "queries" -> {"network", "scripts"}
      [] pc[r] = "acls" -> {"network", "scripts", "queries"}
      [] pc[r] = "running" -> Contexts!Part
      [] OTHER -> {}

AtWork == Contexts!Part \union {"running", "updated"}

\* The record that a request has read was not undeployed, and is still there if its
\* version is.
ReadInv(r) ==
    pc[r] \in AtWork =>
       /\ read[r][1].network \in Works
       /\ ~ read[r][1].undeployed
       /\ read[r][2] <= recordVersion
       /\ read[r][2] = recordVersion => read[r][1] = record

\* All it has loaded is of that record; what it has updated to compiles.
RunInv(r) ==
    /\ \A p \in Loaded(r) : ctx[r][p] = read[r][1].network
    /\ pc[r] = "updated" =>
          /\ pending[r].network \in Works /\ pending[r] \in Contexts!Record
          /\ ctx[r].network \in Works
          /\ \A p \in Contexts!Part : ctx[r][p] = ctx[r].network

ContextInv == ContextTypes /\ CacheInv /\ \A r \in Request : ReadInv(r) /\ RunInv(r)

\* A cache gives back what was asked for, and keeps to its size.
LEMMA LookupOwn ==
    ASSUME NEW p, NEW c \in Seq(Entries(p)), NEW n, Contexts!Has(c, n)
    PROVE  Contexts!Lookup(c, n) = n
<1>1. Contexts!Entry(c, n) \in 1 .. Len(c) /\ c[Contexts!Entry(c, n)][1] = n
  BY DEF Contexts!Entry, Contexts!Has
<1>2. c[Contexts!Entry(c, n)] \in Entries(p)
  BY <1>1
<1> QED BY <1>1, <1>2 DEF Contexts!Lookup, Entries

LEMMA LatestEntries ==
    ASSUME Contexts!CacheSizeAssumption, NEW p, NEW c \in Seq(Entries(p)), NEW n,
           <<n, n>> \in Entries(p)
    PROVE  /\ Contexts!Latest(c, n, n) \in Seq(Entries(p))
           /\ Len(Contexts!Latest(c, n, n)) <= CacheSize
<1> DEFINE w == Contexts!Without(c, n)
           s == <<<<n, n>>>> \o w
           size == IF Len(s) > CacheSize THEN CacheSize ELSE Len(s)
<1>1. w \in Seq(Entries(p))
  <2>1. CASE Contexts!Has(c, n)
    <3>1. Contexts!Entry(c, n) \in 1 .. Len(c)
      BY <2>1 DEF Contexts!Entry, Contexts!Has
    <3> HIDE DEF Entries
    <3> QED BY <2>1, <3>1 DEF Contexts!Without
  <2>2. CASE ~ Contexts!Has(c, n)
    BY <2>2 DEF Contexts!Without
  <2> QED BY <2>1, <2>2
<1> HIDE DEF w
<1>2. s \in Seq(Entries(p)) /\ Len(s) \in Nat
  BY <1>1
<1> HIDE DEF s
<1>3. size \in 0 .. Len(s) /\ size <= CacheSize
  BY <1>2 DEF Contexts!CacheSizeAssumption
<1>4. Contexts!Latest(c, n, n) = SubSeq(s, 1, size)
  BY DEF Contexts!Latest, s, w
<1> HIDE DEF size
<1>5. SubSeq(s, 1, size) \in Seq(Entries(p)) /\ Len(SubSeq(s, 1, size)) = size
  BY <1>2, <1>3
<1> QED BY <1>3, <1>4, <1>5

LEMMA ContextInit ==
    ASSUME Contexts!NetworkAssumption, Contexts!CacheSizeAssumption
    PROVE  Contexts!Init => ContextInv
<1> SUFFICES ASSUME Contexts!Init PROVE ContextInv  OBVIOUS
<1>1. ContextTypes
  BY DEF Contexts!Init, Contexts!NetworkAssumption, ContextTypes, Works, Contexts!Record,
         Contexts!NoRecord
<1>2. CacheInv
  BY DEF Contexts!Init, Contexts!CacheSizeAssumption, CacheInv
<1>3. ASSUME NEW r \in Request PROVE ReadInv(r) /\ RunInv(r)
  BY DEF Contexts!Init, ReadInv, RunInv, Loaded, AtWork, Contexts!Part
<1> QED BY <1>1, <1>2, <1>3 DEF ContextInv

\* A request keeps what it has when others take a step.
LEMMA ContextFrame ==
    ASSUME ContextInv, NEW r \in Request, pc'[r] = pc[r], ctx'[r] = ctx[r],
           read'[r] = read[r], pending'[r] = pending[r],
           \/ UNCHANGED <<record, recordVersion>>
           \/ recordVersion' = recordVersion + 1
    PROVE  ReadInv(r)' /\ RunInv(r)'
<1>1. ReadInv(r)'
  BY DEF ContextInv, ContextTypes, ReadInv
<1>2. Loaded(r)' = Loaded(r)
  BY DEF Loaded
<1>3. RunInv(r)'
  BY <1>2 DEF ContextInv, RunInv
<1> QED BY <1>1, <1>3

LEMMA RecordStep ==
    ASSUME ContextInv, NEW r \in Request,
           Contexts!LoadRecord(r) \/ Contexts!Refuse(r) \/ Contexts!Run(r) \/ Contexts!Reject(r)
    PROVE  ContextInv'
<1> USE DEF ContextInv
<1>2. UNCHANGED <<record, recordVersion, cache, ctx, pending>>
  BY DEF Contexts!LoadRecord, Contexts!Refuse, Contexts!Run, Contexts!Reject
<1>1. ContextTypes'
  <2>1. record \in Contexts!Record
    BY DEF ContextTypes, Contexts!Record, Works
  <2>2. /\ read' = [read EXCEPT ![r] = <<record, recordVersion>>] \/ read' = read
        /\ \E s \in {"network", "failed", "done"} : pc' = [pc EXCEPT ![r] = s]
    BY DEF Contexts!LoadRecord, Contexts!Refuse, Contexts!Run, Contexts!Reject
  <2>3. read' \in [Request -> (Contexts!Record \union {Contexts!NoRecord}) \X Nat]
    <3> DEFINE S == (Contexts!Record \union {Contexts!NoRecord}) \X Nat
    <3>1. <<record, recordVersion>> \in S /\ read \in [Request -> S]
      BY <2>1 DEF ContextTypes
    <3> HIDE DEF S
    <3>2. read' \in [Request -> S]
      BY <2>2, <3>1
    <3> QED BY <3>2 DEF S
  <2>4. pc' \in [Request -> Contexts!Part
                          \union {"new", "running", "updated", "done", "failed"}]
    BY <2>2 DEF ContextTypes, Contexts!Part
  <2> QED BY <1>2, <2>3, <2>4 DEF ContextTypes
<1>3. CacheInv'
  BY <1>2 DEF CacheInv
<1>4. \A q \in Request \ {r} : pc'[q] = pc[q] /\ read'[q] = read[q]
  BY DEF Contexts!LoadRecord, Contexts!Refuse, Contexts!Run, Contexts!Reject, ContextTypes
<1>5. \A q \in Request \ {r} : ReadInv(q)' /\ RunInv(q)'
  BY <1>2, <1>4, ContextFrame
<1>6. \/ pc'[r] \in {"failed", "done"}
      \/ pc'[r] = "network" /\ read'[r] = <<record, recordVersion>> /\ ~ record.undeployed
  BY DEF Contexts!LoadRecord, Contexts!Refuse, Contexts!Run, Contexts!Reject, ContextTypes
<1>7. ReadInv(r)' /\ RunInv(r)'
  BY <1>2, <1>6 DEF ReadInv, RunInv, Loaded, AtWork, Contexts!Part, ContextTypes
<1> QED BY <1>1, <1>3, <1>5, <1>7

\* A part that is loaded, from a cache or made anew, is of the version that was read.
LEMMA PartStep ==
    ASSUME Contexts!CacheSizeAssumption, ContextInv, NEW r \in Request,
           NEW p \in Contexts!Part, Contexts!LoadPart(r, p)
    PROVE  ContextInv'
<1> USE DEF ContextInv
<1> DEFINE n == read[r][1].network
           made == IF Contexts!Has(cache[p], n) THEN Contexts!Lookup(cache[p], n)
                   ELSE Contexts!Source(r, p)
<1>1. /\ pc[r] = p
      /\ ctx' = [ctx EXCEPT ![r][p] = made]
      /\ cache' = [cache EXCEPT ![p] = Contexts!Latest(@, n, made)]
      /\ pc' = [pc EXCEPT ![r] = Contexts!After(p)]
      /\ UNCHANGED <<record, recordVersion, read, pending>>
  BY DEF Contexts!LoadPart
<1>2. n \in Works
  BY <1>1 DEF ReadInv, AtWork
<1>3. made = n
  <2>1. CASE Contexts!Has(cache[p], n)
    BY <2>1, LookupOwn DEF CacheInv
  <2>2. CASE p # "network"
    <3>1. "network" \in Loaded(r)
      BY <1>1, <2>2 DEF Loaded, Contexts!Part
    <3>2. Contexts!Source(r, p) = n
      BY <2>2, <3>1 DEF Contexts!Source, RunInv
    <3> QED BY <2>1, <3>2
  <2>3. CASE p = "network"
    BY <2>1, <2>3 DEF Contexts!Source
  <2> QED BY <2>1, <2>2, <2>3
<1>4. Contexts!After(p) = CASE p = "network" -> "scripts" [] p = "scripts" -> "queries"
                            [] p = "queries" -> "acls" [] p = "acls" -> "running"
  BY DEF Contexts!After, Contexts!LoadOrder, Contexts!Part
<1> HIDE DEF made, n
<1>5. ContextTypes'
  <2>1. Contexts!After(p) \in Contexts!Part \union {"running"}
    BY <1>4 DEF Contexts!Part
  <2> QED BY <1>1, <1>2, <1>3, <2>1 DEF ContextTypes, Works
<1>6. CacheInv'
  <2>1. <<n, n>> \in Entries(p)
    BY <1>2 DEF Entries, Works
  <2>2. cache[p] \in Seq(Entries(p))
    BY DEF CacheInv
  <2>3. /\ Contexts!Latest(cache[p], n, n) \in Seq(Entries(p))
        /\ Len(Contexts!Latest(cache[p], n, n)) <= CacheSize
    BY <2>1, <2>2, LatestEntries
  <2> QED BY <1>1, <1>3, <2>3 DEF CacheInv, ContextTypes
<1>7. \A q \in Request \ {r} : ReadInv(q)' /\ RunInv(q)'
  BY <1>1, ContextFrame DEF ContextTypes
<1>8. pc'[r] = Contexts!After(p) /\ ctx'[r] = [ctx[r] EXCEPT ![p] = n]
  BY <1>1, <1>3 DEF ContextTypes
<1>9. ReadInv(r)'
  BY <1>1 DEF ReadInv, AtWork
<1>10. RunInv(r)'
  <2>1. Loaded(r)' = Loaded(r) \union {p} /\ Loaded(r) \subseteq Contexts!Part
    BY <1>1, <1>4, <1>8 DEF Loaded, Contexts!Part
  <2>2. \A q \in Loaded(r)' : ctx'[r][q] = read'[r][1].network
    BY <1>1, <1>8, <2>1 DEF RunInv, ContextTypes, n
  <2>3. pc'[r] # "updated"
    BY <1>4, <1>8 DEF Contexts!Part
  <2> QED BY <2>2, <2>3 DEF RunInv
<1> QED BY <1>5, <1>6, <1>7, <1>9, <1>10

\* An update puts what it has made into the caches, and the request runs that.
LEMMA UpdateStep ==
    ASSUME Contexts!CacheSizeAssumption, ContextInv, NEW r \in Request, NEW n \in Network,
           Contexts!Update(r, n) \/ Contexts!UpdateFails(r, n)
    PROVE  ContextInv'
<1> USE DEF ContextInv
<1>1. UNCHANGED <<record, recordVersion, read>>
  BY DEF Contexts!Update, Contexts!UpdateFails
<1>2. ASSUME NEW p \in Contexts!Part, p = "network" \/ n \in Works
      PROVE  /\ Contexts!Latest(cache[p], n, n) \in Seq(Entries(p))
             /\ Len(Contexts!Latest(cache[p], n, n)) <= CacheSize
  <2>1. <<n, n>> \in Entries(p)
    BY <1>2 DEF Entries
  <2>2. cache[p] \in Seq(Entries(p))
    BY DEF CacheInv
  <2> QED BY <2>1, <2>2, LatestEntries
<1>3. CASE Contexts!Update(r, n)
  <2> DEFINE new == [network |-> n, undeployed |-> FALSE]
  <2>1. /\ n \in Works
        /\ cache' = [p \in Contexts!Part |-> Contexts!Latest(cache[p], n, n)]
        /\ pending' = [pending EXCEPT ![r] = new]
        /\ ctx' = [ctx EXCEPT ![r] = [p \in Contexts!Part |-> n]]
        /\ pc' = [pc EXCEPT ![r] = "updated"]
    BY <1>3 DEF Contexts!Update, Works, Contexts!Reinitialized
  <2>2. new \in Contexts!Record
    BY DEF Contexts!Record
  <2>3. ContextTypes'
    BY <1>1, <2>1, <2>2 DEF ContextTypes
  <2>4. CacheInv'
    BY <1>2, <2>1 DEF CacheInv
  <2>5. \A q \in Request \ {r} : ReadInv(q)' /\ RunInv(q)'
    BY <1>1, <2>1, ContextFrame DEF ContextTypes
  <2>6. ReadInv(r)'
    BY <1>1, <1>3 DEF ReadInv, AtWork, Contexts!Update
  <2>7. /\ pc'[r] = "updated" /\ pending'[r] = new /\ new.network = n
        /\ ctx'[r] = [p \in Contexts!Part |-> n] /\ "network" \in Contexts!Part
    BY <2>1 DEF ContextTypes, Contexts!Part
  <2>8. RunInv(r)'
    BY <2>1, <2>2, <2>7 DEF RunInv, Loaded
  <2> QED BY <2>3, <2>4, <2>5, <2>6, <2>8
<1>4. CASE Contexts!UpdateFails(r, n)
  <2>1. /\ cache' = [cache EXCEPT !["network"] = Contexts!Latest(@, n, n)]
        /\ pc' = [pc EXCEPT ![r] = "failed"]
        /\ UNCHANGED <<ctx, pending>>
    BY <1>4 DEF Contexts!UpdateFails
  <2>2. ContextTypes'
    BY <1>1, <2>1 DEF ContextTypes
  <2>3. CacheInv'
    BY <1>2, <2>1 DEF CacheInv, ContextTypes, Contexts!Part
  <2>4. \A q \in Request \ {r} : ReadInv(q)' /\ RunInv(q)'
    BY <1>1, <2>1, ContextFrame DEF ContextTypes
  <2>5. ReadInv(r)' /\ RunInv(r)'
    BY <2>1 DEF ContextTypes, ReadInv, RunInv, Loaded, AtWork, Contexts!Part
  <2> QED BY <2>2, <2>3, <2>4, <2>5
<1> QED BY <1>3, <1>4

\* An undeployment marks the record that is there, a commit replaces it.
LEMMA WriteStep ==
    ASSUME ContextInv, NEW r \in Request, Contexts!Undeploy(r) \/ Contexts!Commit(r)
    PROVE  ContextInv'
<1> USE DEF ContextInv
<1>1. UNCHANGED <<cache, ctx, read>>
  BY DEF Contexts!Undeploy, Contexts!Commit, Contexts!CommitAnyhow
<1>2. CacheInv'
  BY <1>1 DEF CacheInv
<1>3. CASE Contexts!Undeploy(r)
  <2> DEFINE marked == [record EXCEPT !.undeployed = TRUE]
  <2>1. /\ pc[r] = "running" /\ UNCHANGED <<record, recordVersion>>
        /\ pending' = [pending EXCEPT ![r] = marked]
        /\ pc' = [pc EXCEPT ![r] = "updated"]
    BY <1>3 DEF Contexts!Undeploy
  <2>2. marked \in Contexts!Record /\ marked.network \in Works
    BY DEF ContextTypes, Contexts!Record, Works
  <2> HIDE DEF marked
  <2>3. ContextTypes'
    BY <1>1, <2>1, <2>2 DEF ContextTypes
  <2>4. \A q \in Request \ {r} : ReadInv(q)' /\ RunInv(q)'
    BY <1>1, <2>1, ContextFrame DEF ContextTypes
  <2>5. ReadInv(r)'
    BY <1>1, <2>1 DEF ReadInv, AtWork
  <2>6. read[r][1].network \in Works /\ \A p \in Contexts!Part : ctx[r][p] = read[r][1].network
    BY <2>1 DEF ReadInv, RunInv, AtWork, Loaded
  <2>7. RunInv(r)'
    BY <1>1, <2>1, <2>2, <2>6 DEF RunInv, Loaded, ContextTypes, Contexts!Part
  <2> QED BY <1>2, <2>3, <2>4, <2>5, <2>7
<1>4. CASE Contexts!Commit(r)
  <2>1. /\ record' = pending[r] /\ recordVersion' = recordVersion + 1
        /\ pc[r] = "updated" /\ pc' = [pc EXCEPT ![r] = "done"]
        /\ pending' = pending
    BY <1>4 DEF Contexts!Commit, Contexts!CommitAnyhow
  <2>2. record' \in [network : Works, undeployed : BOOLEAN]
    BY <2>1 DEF RunInv, Contexts!Record
  <2>3. ContextTypes'
    BY <1>1, <2>1, <2>2 DEF ContextTypes
  <2>4. \A q \in Request \ {r} : ReadInv(q)' /\ RunInv(q)'
    BY <1>1, <2>1, ContextFrame DEF ContextTypes
  <2>5. ReadInv(r)' /\ RunInv(r)'
    BY <2>1 DEF ContextTypes, ReadInv, RunInv, Loaded, AtWork, Contexts!Part
  <2> QED BY <1>2, <2>3, <2>4, <2>5
<1> QED BY <1>3, <1>4

LEMMA ContextNext ==
    ASSUME Contexts!CacheSizeAssumption
    PROVE  ContextInv /\ [Contexts!Next]_(Contexts!vars) => ContextInv'
<1> SUFFICES ASSUME ContextInv, [Contexts!Next]_(Contexts!vars) PROVE ContextInv'  OBVIOUS
<1>1. CASE UNCHANGED Contexts!vars
  <2>1. UNCHANGED <<record, recordVersion, cache, pc, ctx, read, pending>>
    BY <1>1 DEF Contexts!vars
  <2>2. ContextTypes' /\ CacheInv'
    BY <2>1 DEF ContextInv, ContextTypes, CacheInv
  <2>3. \A r \in Request : ReadInv(r)' /\ RunInv(r)'
    BY <2>1, ContextFrame
  <2> QED BY <2>2, <2>3 DEF ContextInv
<1>2. ASSUME NEW r \in Request,
             \/ Contexts!LoadRecord(r) \/ Contexts!Refuse(r)
             \/ Contexts!Run(r) \/ Contexts!Reject(r)
      PROVE  ContextInv'
  BY <1>2, RecordStep
<1>3. ASSUME NEW r \in Request, NEW p \in Contexts!Part, Contexts!LoadPart(r, p)
      PROVE  ContextInv'
  BY <1>3, PartStep
<1>4. ASSUME NEW r \in Request, NEW n \in Network,
             Contexts!Update(r, n) \/ Contexts!UpdateFails(r, n)
      PROVE  ContextInv'
  BY <1>4, UpdateStep
<1>5. ASSUME NEW r \in Request, Contexts!Undeploy(r) \/ Contexts!Commit(r)
      PROVE  ContextInv'
  BY <1>5, WriteStep
<1> QED BY <1>1, <1>2, <1>3, <1>4, <1>5 DEF Contexts!Next

THEOREM ContextInvariant ==
    ASSUME Contexts!NetworkAssumption, Contexts!CacheSizeAssumption
    PROVE  Contexts!Spec => []ContextInv
BY ContextInit, ContextNext, PTL DEF Contexts!Spec

\* Scripts, queries, rules and definition of a request are of one version, the one that
\* it has read, however the caches are shared, filled and emptied (context.js:33).
THEOREM RequestsRunOneVersion ==
    ASSUME Contexts!NetworkAssumption, Contexts!CacheSizeAssumption
    PROVE  Contexts!Spec => [](Contexts!OneVersion /\ Contexts!RunsWhatItRead)
<1>1. ASSUME ContextInv PROVE Contexts!OneVersion /\ Contexts!RunsWhatItRead
  <2>1. ASSUME NEW r \in Request, pc[r] = "running"
        PROVE  /\ \A p \in Contexts!Part : ctx[r][p] = read[r][1].network
               /\ "network" \in Contexts!Part /\ ~ read[r][1].undeployed
    BY <1>1, <2>1 DEF ContextInv, RunInv, ReadInv, AtWork, Loaded, Contexts!Part
  <2>2. ASSUME NEW r \in Request, pc[r] = "updated"
        PROVE  \A p \in Contexts!Part : ctx[r][p] = ctx[r].network
    BY <1>1, <2>2 DEF ContextInv, RunInv
  <2> QED BY <2>1, <2>2 DEF Contexts!OneVersion, Contexts!RunsWhatItRead
<1> QED BY <1>1, ContextInvariant, PTL

\* A version with scripts, queries or rules that do not compile is cached by an update
\* that fails, and is not run and not committed by anybody (networkmanager.js).
THEOREM BrokenVersionsNeverRun ==
    ASSUME Contexts!NetworkAssumption, Contexts!CacheSizeAssumption
    PROVE  Contexts!Spec => []Contexts!BrokenNeverRuns
<1>1. ASSUME ContextInv PROVE Contexts!BrokenNeverRuns
  <2>1. record.network \in Works
    BY <1>1 DEF ContextInv, ContextTypes
  <2>2. ASSUME NEW r \in Request, pc[r] \in {"running", "updated"}
        PROVE  ctx[r].network \in Works
    BY <1>1, <2>2 DEF ContextInv, RunInv, ReadInv, AtWork, Loaded, Contexts!Part
  <2> QED BY <2>1, <2>2 DEF Contexts!BrokenNeverRuns, Works
<1> QED BY <1>1, ContextInvariant, PTL

\* A request runs one version of the business network, the one that it has read, and never
\* one that does not compile; the caches keep to their size (context.js, initialize).
THEOREM RequestsRunOneVersionWholly ==
    ASSUME Contexts!NetworkAssumption, Contexts!CacheSizeAssumption
    PROVE  Contexts!Spec => []Contexts!OneVersionRuns
<1>1. ContextInv => Contexts!TypeOK
  <2> SUFFICES ASSUME ContextInv PROVE Contexts!TypeOK
    OBVIOUS
  <2>1. ContextTypes /\ CacheInv
    BY DEF ContextInv
  <2>2. ASSUME NEW p \in Contexts!Part
        PROVE  /\ Len(cache[p]) <= CacheSize
               /\ \A i \in 1 .. Len(cache[p]) : cache[p][i] \in Network \X Network
    <3>1. cache[p] \in Seq(Entries(p)) /\ Len(cache[p]) <= CacheSize
      BY <2>1 DEF CacheInv
    <3>2. \A i \in 1 .. Len(cache[p]) : cache[p][i] \in Entries(p)
      BY <3>1
    <3> QED BY <3>1, <3>2 DEF Entries, Works
  <2>3. record \in Contexts!Record
    BY <2>1 DEF ContextTypes, Contexts!Record, Works
  <2> QED BY <2>1, <2>2, <2>3 DEF ContextTypes, Contexts!TypeOK
<1> QED BY <1>1, ContextInvariant, RequestsRunOneVersion, BrokenVersionsNeverRun, PTL
       DEF Contexts!OneVersionRuns

\* With reads that are validated at the commit, nobody brings back a business network
\* that was undeployed, however early it has read the record (engine.businessnetworks.js).
THEOREM UndeployedIsFinal ==
    ASSUME Contexts!NetworkAssumption, Contexts!CacheSizeAssumption, Validated
    PROVE  Contexts!Spec => Contexts!UndeployedFinal
<1>1. ContextInv /\ [Contexts!Next]_(Contexts!vars)
         => (record.undeployed => record'.undeployed)
  <2> SUFFICES ASSUME ContextInv, [Contexts!Next]_(Contexts!vars), record.undeployed
               PROVE  record'.undeployed
    OBVIOUS
  <2>1. ASSUME NEW r \in Request, Contexts!Commit(r) PROVE FALSE
    <3>1. pc[r] = "updated" /\ read[r][2] = recordVersion
      BY <2>1 DEF Contexts!Commit, Contexts!CommitAnyhow
    <3> QED BY <3>1 DEF ContextInv, ReadInv, AtWork
  <2>2. \/ record' = record
        \/ \E r \in Request : Contexts!Commit(r)
    BY DEF Contexts!Next, Contexts!vars, Contexts!LoadRecord, Contexts!Refuse,
           Contexts!LoadPart, Contexts!Run, Contexts!Update, Contexts!UpdateFails,
           Contexts!Undeploy, Contexts!Reject
  <2> QED BY <2>1, <2>2
<1>2. ContextInv /\ [Contexts!Next]_(Contexts!vars)
         => [record.undeployed => record'.undeployed]_(Contexts!vars)
  BY <1>1
<1> QED BY <1>2, ContextInvariant, PTL DEF Contexts!UndeployedFinal, Contexts!Spec
-----------------------------------------------------------------------------
(***************************************************************************)
(* The start of a business network (Bootstrap): it is there with all that  *)
(* its start request has asked for, in the order of the historian, or not  *)
(* at all, and published events can be told apart and are recorded.        *)
(***************************************************************************)
RecordValue == [timestamp : Nat, eventsEmitted : SUBSET (Nat \X Nat)]
StartValue == StartRequest \union Nat \union RecordValue
Event == (0 .. MaxTx) \X Nat

StartTypes ==
    /\ documents \in [Boot!Key -> StartValue \union {None}]
    /\ stage \in [StartRequest -> {"new", "running", "started", "failed"}]
    /\ current \in StartRequest \union {None}
    /\ count \in 0 .. MaxTx
    /\ index \in 0 .. count + 1
    /\ buffer \in Seq(Boot!Key \X StartValue)
    /\ eventBuffer \in Seq(Event)
    /\ eventNumber \in Nat
    /\ published \in [StartRequest -> Seq(Event)]

\* The historian record of the i-th transaction, with the events that were emitted by it.
RecordOf(v, i) ==
    /\ v \in RecordValue /\ v.timestamp = i + 1
    /\ \A j \in DOMAIN eventBuffer : eventBuffer[j][1] = i => eventBuffer[j] \in v.eventsEmitted

\* What a start request writes ...
Writes(w) ==
    \/ w[1] \in {<<"businessnetwork">>, <<"metanetwork">>} /\ w[2] = current
    \/ \E d \in StartDoc : w[1] = <<"doc", d>> /\ w[2] \in 0 .. count
    \/ \E i \in 0 .. index - 1 : w[1] = <<"tx", current, i>> /\ w[2] = i
    \/ \E i \in 0 .. index - 1 : w[1] = <<"historian", current, i>> /\ RecordOf(w[2], i)

\* ... and has written when transactions up to index are recorded.
KeysOfRecord(i) == {<<"tx", current, i>>, <<"historian", current, i>>}
LastIn(s, k) ==
    \E j \in DOMAIN s : s[j][1] = k /\ \A i \in j + 1 .. Len(s) : s[i][1] # k
WritesInv ==
    /\ \A j \in DOMAIN buffer : Writes(buffer[j])
    /\ LastIn(buffer, <<"businessnetwork">>) /\ LastIn(buffer, <<"metanetwork">>)
    /\ \A i \in 0 .. index - 1 : \A k \in KeysOfRecord(i) : LastIn(buffer, k)
    /\ \A j \in DOMAIN buffer : LastIn(buffer, buffer[j][1])

\* Events are of transactions that have begun, and are numbered through.
EventsInv ==
    /\ \A j \in DOMAIN eventBuffer : /\ eventBuffer[j][1] <= index /\ eventBuffer[j][1] <= count
                                     /\ eventBuffer[j][2] < eventNumber
    /\ \A i, j \in DOMAIN eventBuffer : i # j => eventBuffer[i] # eventBuffer[j]

\* A request only runs while there is no business network.
RunningInv ==
    current # None =>
        /\ stage[current] = "running" /\ \A k \in Boot!Key : documents[k] = None
        /\ WritesInv /\ EventsInv

StartedInv ==
    /\ documents[<<"businessnetwork">>] \in StartRequest \union {None}
    /\ Boot!WhollyStarted /\ Boot!EventsDistinct
    /\ \A r \in StartRequest, i \in Boot!TxId :
          Boot!Recorded(r, i) => documents[<<"historian", r, i>>].timestamp = i + 1
    /\ documents[<<"businessnetwork">>] = None => \A r \in StartRequest : published[r] = <<>>

StartInv == StartTypes /\ RunningInv /\ StartedInv

LEMMA StartKeys ==
    /\ <<"businessnetwork">> \in Boot!Key /\ <<"metanetwork">> \in Boot!Key
    /\ \A d \in StartDoc : <<"doc", d>> \in Boot!Key
    /\ \A r \in StartRequest, i \in Boot!TxId : /\ <<"tx", r, i>> \in Boot!Key
                                           /\ <<"historian", r, i>> \in Boot!Key
BY DEF Boot!Key

LEMMA StartInit ==
    ASSUME Boot!NoneAssumption
    PROVE  Boot!Init => StartInv
<1> SUFFICES ASSUME Boot!Init PROVE StartInv  OBVIOUS
<1>1. \A k \in Boot!Key : documents[k] = None
  BY DEF Boot!Init
<1>2. StartTypes
  BY DEF Boot!NoneAssumption, Boot!Init, StartTypes
<1>3. \A r \in StartRequest, i \in Boot!TxId : ~ Boot!Recorded(r, i)
  BY <1>1, StartKeys DEF Boot!Recorded
<1>4. \A r \in StartRequest : published[r] = <<>>
  BY DEF Boot!Init
<1>5. Boot!WhollyStarted
  BY <1>1, StartKeys DEF Boot!WhollyStarted
<1>6. Boot!EventsDistinct
  BY <1>4 DEF Boot!EventsDistinct
<1>7. RunningInv
  BY DEF Boot!Init, RunningInv
<1> QED BY <1>1, <1>2, StartKeys, <1>3, <1>4, <1>5, <1>6, <1>7 DEF StartInv, StartedInv

\* Before the business network is there, nothing is.
LEMMA Nothing ==
    ASSUME StartInv, documents[<<"businessnetwork">>] = None
    PROVE  \A k \in Boot!Key : documents[k] = None
BY DEF StartInv, StartedInv, Boot!WhollyStarted

\* What is started does not depend on requests that have not started it.
LEMMA StartedFrame ==
    ASSUME StartInv, UNCHANGED <<documents, published>>,
           \A r \in StartRequest : stage[r] = "started" => stage'[r] = "started"
    PROVE  StartedInv'
<1> USE DEF StartInv, StartedInv
<1>1. \A r, i : Boot!Recorded(r, i)' <=> Boot!Recorded(r, i)
  BY DEF Boot!Recorded
<1>2. Boot!EventsDistinct'
  BY <1>1 DEF Boot!EventsDistinct
<1>3. Boot!WhollyStarted'
  <2>1. CASE documents[<<"businessnetwork">>] = None
    BY <2>1, Nothing DEF Boot!WhollyStarted
  <2>2. CASE documents[<<"businessnetwork">>] # None
    <3> DEFINE r == documents[<<"businessnetwork">>]
    <3>1. stage'[r] = "started"
      BY <2>2 DEF Boot!WhollyStarted
    <3> QED BY <1>1, <2>2, <3>1 DEF Boot!WhollyStarted
  <2> QED BY <2>1, <2>2
<1> QED BY <1>1, <1>2, <1>3

LEMMA BeginStep ==
    ASSUME Boot!NoneAssumption, StartInv,
           NEW r \in StartRequest, NEW n \in 0 .. MaxTx, Boot!Begin(r, n)
    PROVE  StartInv'
<1> USE DEF StartInv
<1>1. /\ stage[r] = "new" /\ stage' = [stage EXCEPT ![r] = "running"]
      /\ current' = r /\ count' = n /\ index' = 0 /\ eventBuffer' = <<>> /\ eventNumber' = 0
      /\ buffer' = <<<<<<"businessnetwork">>, r>>, <<<<"metanetwork">>, r>>>>
      /\ UNCHANGED <<documents, published>>
      /\ documents[<<"businessnetwork">>] = None
  BY DEF Boot!Begin, Boot!Open
<1>2. StartTypes'
  <2>1. buffer' \in Seq(Boot!Key \X StartValue)
    BY <1>1, StartKeys DEF StartValue
  <2>2. 0 \in 0 .. n + 1 /\ eventBuffer' \in Seq(Event)
    BY <1>1 DEF Boot!NoneAssumption
  <2> QED BY <1>1, <2>1, <2>2 DEF StartTypes
<1>3. StartedInv'
  BY <1>1, StartedFrame DEF StartTypes
<1>4. RunningInv'
  <2>1. WritesInv'
    <3>1. DOMAIN buffer' = 1 .. 2 /\ Len(buffer') = 2
          /\ buffer'[1] = <<<<"businessnetwork">>, current'>>
          /\ buffer'[2] = <<<<"metanetwork">>, current'>>
      BY <1>1
    <3>2. \A j \in DOMAIN buffer' : j = 1 \/ j = 2
      BY <3>1
    <3>3. LastIn(buffer', <<"businessnetwork">>) /\ LastIn(buffer', <<"metanetwork">>)
      BY <3>1 DEF LastIn
    <3>4. 0 .. index' - 1 = {}
      BY <1>1
    <3> QED BY <3>1, <3>2, <3>3, <3>4 DEF WritesInv, Writes
  <2>2. EventsInv'
    BY <1>1 DEF EventsInv
  <2>3. stage'[r] = "running"
    BY <1>1 DEF StartTypes
  <2> QED BY <1>1, <2>1, <2>2, <2>3, Nothing DEF RunningInv
<1> QED BY <1>2, <1>3, <1>4

\* Requests that are refused, that fail, or whose processor functions emit.
LEMMA RefuseStep ==
    ASSUME Boot!NoneAssumption, StartInv,
           (\E r \in StartRequest : Boot!Refuse(r)) \/ Boot!Throw
    PROVE  StartInv'
<1> USE DEF StartInv
<1>1. ASSUME NEW r \in StartRequest, Boot!Refuse(r) PROVE StartInv'
  <2>1. /\ stage' = [stage EXCEPT ![r] = "failed"] /\ stage[r] = "new" /\ current = None
        /\ UNCHANGED <<documents, current, count, index, buffer, eventBuffer, eventNumber,
                       published>>
    BY <1>1 DEF Boot!Refuse
  <2>2. StartTypes'
    BY <2>1 DEF StartTypes
  <2>3. StartedInv'
    BY <2>1, StartedFrame DEF StartTypes
  <2> QED BY <2>1, <2>2, <2>3 DEF RunningInv
<1>2. ASSUME Boot!Throw PROVE StartInv'
  <2>1. /\ stage' = [stage EXCEPT ![current] = "failed"] /\ current # None /\ current' = None
        /\ count' = 0 /\ index' = 0 /\ buffer' = <<>> /\ eventBuffer' = <<>> /\ eventNumber' = 0
        /\ UNCHANGED <<documents, published>>
    BY <1>2 DEF Boot!Throw, Boot!Leave
  <2>2. StartTypes'
    BY <2>1 DEF StartTypes, Boot!NoneAssumption
  <2>3. StartedInv'
    BY <2>1, StartedFrame DEF StartTypes, RunningInv
  <2> QED BY <2>1, <2>2, <2>3 DEF RunningInv
<1> QED BY <1>1, <1>2

LEMMA EmitStep ==
    ASSUME Boot!NoneAssumption, StartInv, Boot!Emit
    PROVE  StartInv'
<1> USE DEF StartInv
<1>1. /\ eventBuffer' = Append(eventBuffer, <<index, eventNumber>>)
      /\ eventNumber' = eventNumber + 1 /\ index <= count /\ current # None
      /\ UNCHANGED <<documents, stage, current, count, index, buffer, published>>
  BY DEF Boot!Emit
<1>2. /\ eventBuffer \in Seq(Event) /\ index \in Nat /\ count \in 0 .. MaxTx /\ MaxTx \in Nat
      /\ eventNumber \in Nat
  BY DEF StartTypes, Boot!NoneAssumption
<1>3. <<index, eventNumber>> \in Event
  BY <1>1, <1>2 DEF Event
<1>4. /\ eventBuffer' \in Seq(Event)
      /\ DOMAIN eventBuffer' = 1 .. Len(eventBuffer) + 1 /\ Len(eventBuffer) \in Nat
      /\ DOMAIN eventBuffer = 1 .. Len(eventBuffer)
      /\ eventBuffer'[Len(eventBuffer) + 1] = <<index, eventNumber>>
      /\ \A j \in DOMAIN eventBuffer : eventBuffer'[j] = eventBuffer[j]
  BY <1>1, <1>2, <1>3
<1>5. StartTypes'
  BY <1>1, <1>2, <1>4 DEF StartTypes
<1>6. StartedInv'
  BY <1>1, StartedFrame
<1>7. EventsInv'
  <2>1. \A j \in DOMAIN eventBuffer' : j \in DOMAIN eventBuffer \/ j = Len(eventBuffer) + 1
    BY <1>4
  <2>2. \A j \in DOMAIN eventBuffer : eventBuffer[j][2] \in Nat /\ eventBuffer[j][1] \in Nat
    BY <1>2 DEF Event
  <2>3. \A j \in DOMAIN eventBuffer' : /\ eventBuffer'[j][1] <= index
                                       /\ eventBuffer'[j][1] <= count
                                       /\ eventBuffer'[j][2] < eventNumber'
    BY <1>1, <1>2, <1>4, <2>1, <2>2 DEF RunningInv, EventsInv
  <2>4. \A j \in DOMAIN eventBuffer : eventBuffer[j] # <<index, eventNumber>>
    BY <1>1, <1>2, <2>2 DEF RunningInv, EventsInv
  <2>5. \A i, j \in DOMAIN eventBuffer' : i # j => eventBuffer'[i] # eventBuffer'[j]
    BY <1>1, <1>4, <2>1, <2>4 DEF RunningInv, EventsInv
  <2> QED BY <1>1, <2>3, <2>5 DEF EventsInv
<1>8. WritesInv'
  <2>1. ASSUME NEW v, NEW i \in 0 .. index - 1, RecordOf(v, i) PROVE RecordOf(v, i)'
    <3>1. \A j \in DOMAIN eventBuffer' : j \in DOMAIN eventBuffer \/ j = Len(eventBuffer) + 1
      BY <1>4
    <3>2. <<index, eventNumber>>[1] # i
      BY <1>2
    <3> QED BY <1>4, <2>1, <3>1, <3>2 DEF RecordOf
  <2>2. \A w : Writes(w) => Writes(w)'
    BY <1>1, <2>1 DEF Writes
  <2> QED BY <1>1, <2>2 DEF RunningInv, WritesInv, KeysOfRecord
<1> QED BY <1>1, <1>5, <1>6, <1>7, <1>8 DEF RunningInv

\* One more write is the latest of its key, and leaves those of others.
LEMMA OneMore ==
    ASSUME NEW S, NEW s \in Seq(S), NEW a \in S
    PROVE  /\ Append(s, a) \in Seq(S)
           /\ LastIn(Append(s, a), a[1])
           /\ \A k : LastIn(s, k) => LastIn(Append(s, a), k)
           /\ \A j \in DOMAIN Append(s, a) :
                 Append(s, a)[j] = a \/ (j \in DOMAIN s /\ Append(s, a)[j] = s[j])
<1> DEFINE t == Append(s, a)
<1>1. /\ t \in Seq(S) /\ Len(t) = Len(s) + 1 /\ Len(s) \in Nat
      /\ DOMAIN t = 1 .. Len(s) + 1 /\ DOMAIN s = 1 .. Len(s)
      /\ t[Len(s) + 1] = a /\ \A j \in DOMAIN s : t[j] = s[j]
  OBVIOUS
<1> HIDE DEF t
<1>2. \A j \in DOMAIN t : t[j] = a \/ (j \in DOMAIN s /\ t[j] = s[j])
  BY <1>1
<1>3. LastIn(t, a[1])
  <2>1. Len(s) + 1 + 1 .. Len(t) = {}
    BY <1>1
  <2> QED BY <1>1, <2>1 DEF LastIn
<1>4. ASSUME NEW k, LastIn(s, k) PROVE LastIn(t, k)
  <2>1. CASE a[1] = k
    BY <1>3, <2>1
  <2>2. CASE a[1] # k
    <3>1. PICK j \in DOMAIN s : s[j][1] = k /\ \A i \in j + 1 .. Len(s) : s[i][1] # k
      BY <1>4 DEF LastIn
    <3>2. \A i \in j + 1 .. Len(t) : i = Len(s) + 1 \/ (i \in j + 1 .. Len(s) /\ i \in DOMAIN s)
      BY <1>1
    <3>3. \A i \in j + 1 .. Len(t) : t[i][1] # k
      BY <1>1, <2>2, <3>1, <3>2
    <3> QED BY <1>1, <3>1, <3>3 DEF LastIn
  <2> QED BY <2>1, <2>2
<1> QED BY <1>1, <1>2, <1>3, <1>4 DEF t

LEMMA Buffered ==
    ASSUME NEW S, NEW s \in Seq(S), NEW a \in S, NEW b \in S
    PROVE  s \o <<a>> = Append(s, a) /\ s \o <<a, b>> = Append(Append(s, a), b)
OBVIOUS

LEMMA AddStep ==
    ASSUME Boot!NoneAssumption, StartInv, NEW d \in StartDoc, Boot!Add(d)
    PROVE  StartInv'
<1> USE DEF StartInv
<1>0. PICK w : w = <<<<"doc", d>>, index>>
  OBVIOUS
<1>1. /\ buffer' = buffer \o <<w>> /\ index <= count /\ current # None
      /\ UNCHANGED <<documents, stage, current, count, index, eventBuffer, eventNumber, published>>
  BY <1>0 DEF Boot!Add, Boot!Buffered
<1>2. /\ buffer \in Seq(Boot!Key \X StartValue) /\ w \in Boot!Key \X StartValue
      /\ index \in 0 .. count /\ index \in Nat
  BY <1>0, <1>1, StartKeys DEF StartTypes, StartValue, Boot!NoneAssumption
<1>3. buffer' = Append(buffer, w) /\ w[1] = <<"doc", d>> /\ w[2] = index
  BY <1>0, <1>1, <1>2, Buffered
<1>4. /\ buffer' \in Seq(Boot!Key \X StartValue) /\ LastIn(buffer', w[1])
      /\ \A k : LastIn(buffer, k) => LastIn(buffer', k)
      /\ \A j \in DOMAIN buffer' : buffer'[j] = w \/ (j \in DOMAIN buffer /\ buffer'[j] = buffer[j])
  BY <1>2, <1>3, OneMore
<1>5. StartTypes'
  BY <1>1, <1>4 DEF StartTypes
<1>6. StartedInv'
  BY <1>1, StartedFrame
<1>7. EventsInv'
  BY <1>1 DEF RunningInv, EventsInv
<1>8. WritesInv'
  <2>1. \A v : Writes(v) => Writes(v)'
    BY <1>1 DEF Writes, RecordOf
  <2>2. Writes(w)'
    BY <1>1, <1>2, <1>3 DEF Writes
  <2>3. ASSUME NEW v, NEW j \in DOMAIN buffer', v = buffer'[j]
        PROVE  Writes(v)' /\ LastIn(buffer', v[1])
    BY <1>1, <1>4, <2>1, <2>2, <2>3 DEF RunningInv, WritesInv
  <2> QED BY <1>1, <1>4, <2>3 DEF RunningInv, WritesInv, KeysOfRecord
<1> QED BY <1>1, <1>5, <1>6, <1>7, <1>8 DEF RunningInv

\* The historian record of a transaction has all events so far, its own among them.
LEMMA RecordMade ==
    ASSUME Boot!NoneAssumption, StartTypes, index <= count
    PROVE  /\ Boot!HistorianRecord(index) \in RecordValue
           /\ RecordOf(Boot!HistorianRecord(index), index)
<1> DEFINE events == {eventBuffer[j] : j \in 1 .. Len(eventBuffer)}
<1>1. eventBuffer \in Seq(Event) /\ index \in Nat /\ MaxTx \in Nat
  BY DEF StartTypes, Boot!NoneAssumption
<1>2. events \in SUBSET (Nat \X Nat)
  <2>1. \A j \in 1 .. Len(eventBuffer) : eventBuffer[j] \in Event
    BY <1>1
  <2>2. Event \subseteq Nat \X Nat
    BY <1>1 DEF Event
  <2> QED BY <2>1, <2>2
<1>3. \A j \in DOMAIN eventBuffer : eventBuffer[j] \in events
  BY <1>1
<1> HIDE DEF events
<1>4. Boot!HistorianRecord(index) = [timestamp |-> index + 1, eventsEmitted |-> events]
  BY DEF Boot!HistorianRecord, Boot!Timestamp, events
<1> QED BY <1>1, <1>2, <1>3, <1>4 DEF RecordOf, RecordValue

LEMMA RecordStartStep ==
    ASSUME Boot!NoneAssumption, StartInv, Boot!Record
    PROVE  StartInv'
<1> USE DEF StartInv
<1>0. PICK w, h : /\ w = <<<<"tx", current, index>>, index>>
                  /\ h = <<<<"historian", current, index>>, Boot!HistorianRecord(index)>>
  OBVIOUS
<1>1. /\ buffer' = buffer \o <<w, h>> /\ index <= count /\ current # None
      /\ index' = index + 1
      /\ UNCHANGED <<documents, stage, current, count, eventBuffer, eventNumber, published>>
  BY <1>0 DEF Boot!Record, Boot!Buffered
<1>2. /\ current \in StartRequest /\ index \in 0 .. count /\ index \in Nat /\ count \in Nat
      /\ index \in Boot!TxId
  BY <1>1 DEF StartTypes, Boot!NoneAssumption, Boot!TxId
<1>3. /\ buffer \in Seq(Boot!Key \X StartValue)
      /\ w \in Boot!Key \X StartValue /\ h \in Boot!Key \X StartValue
  BY <1>0, <1>1, <1>2, StartKeys, RecordMade DEF StartTypes, StartValue
<1>4. /\ w[1] = <<"tx", current, index>> /\ w[2] = index
      /\ h[1] = <<"historian", current, index>> /\ h[2] = Boot!HistorianRecord(index)
  BY <1>0
<1> DEFINE b == Append(buffer, w)
<1>b. buffer' = Append(b, h)
  <2> DEFINE S == Boot!Key \X StartValue
  <2>1. buffer \in Seq(S) /\ w \in S /\ h \in S
    BY <1>3
  <2> HIDE DEF S
  <2>2. buffer \o <<w, h>> = Append(Append(buffer, w), h)
    BY <2>1, Buffered
  <2> QED BY <1>1, <2>2
<1>5. /\ b \in Seq(Boot!Key \X StartValue) /\ LastIn(b, w[1])
      /\ \A k : LastIn(buffer, k) => LastIn(b, k)
      /\ \A j \in DOMAIN b : b[j] = w \/ (j \in DOMAIN buffer /\ b[j] = buffer[j])
  BY <1>3, OneMore
<1> HIDE DEF b
<1>6. /\ buffer' \in Seq(Boot!Key \X StartValue) /\ LastIn(buffer', h[1])
      /\ \A k : LastIn(b, k) => LastIn(buffer', k)
      /\ \A j \in DOMAIN buffer' : buffer'[j] = h \/ (j \in DOMAIN b /\ buffer'[j] = b[j])
  BY <1>3, <1>5, <1>b, OneMore
<1>7. StartTypes'
  BY <1>1, <1>2, <1>6 DEF StartTypes
<1>8. StartedInv'
  BY <1>1, StartedFrame
<1>9. EventsInv'
  <2>1. \A j \in DOMAIN eventBuffer : eventBuffer[j][1] \in Nat
    BY DEF StartTypes, Event
  <2> QED BY <1>1, <1>2, <2>1 DEF RunningInv, EventsInv
<1>10. WritesInv'
  <2>1. \A v : Writes(v) => Writes(v)'
    BY <1>1, <1>2 DEF Writes, RecordOf
  <2>2. Writes(w)'
    BY <1>1, <1>2, <1>4 DEF Writes
  <2>3. Writes(h)'
    <3>0. PICK i : i = index
      OBVIOUS
    <3>1. RecordOf(h[2], i)'
      BY <1>1, <1>4, <3>0, RecordMade DEF RecordOf
    <3>2. i \in 0 .. index' - 1 /\ h[1] = <<"historian", current', i>>
      BY <1>1, <1>2, <1>4, <3>0
    <3> QED BY <3>1, <3>2 DEF Writes
  <2>4. ASSUME NEW v, NEW j \in DOMAIN buffer', v = buffer'[j]
        PROVE  Writes(v)' /\ LastIn(buffer', v[1])
    BY <1>1, <1>5, <1>6, <2>1, <2>2, <2>3, <2>4 DEF RunningInv, WritesInv
  <2>5. ASSUME NEW i \in 0 .. index' - 1, NEW k \in KeysOfRecord(i)'
        PROVE  LastIn(buffer', k)
    <3>1. i \in 0 .. index - 1 \/ i = index
      BY <1>1, <1>2
    <3>2. k \in {<<"tx", current, i>>, <<"historian", current, i>>}
      BY <1>1 DEF KeysOfRecord
    <3>3. CASE i = index
      BY <1>4, <1>5, <1>6, <3>2, <3>3
    <3>4. CASE i \in 0 .. index - 1
      BY <1>1, <1>5, <1>6, <3>2, <3>4 DEF RunningInv, WritesInv, KeysOfRecord
    <3> QED BY <3>1, <3>3, <3>4
  <2> QED BY <1>1, <1>5, <1>6, <2>4, <2>5 DEF RunningInv, WritesInv
<1> QED BY <1>1, <1>7, <1>8, <1>9, <1>10 DEF RunningInv

\* A document is what the latest write to it says.
LEMMA LastWritten ==
    ASSUME NEW k, LastIn(buffer, k), buffer \in Seq(Boot!Key \X StartValue)
    PROVE  /\ Boot!Written(k)
           /\ \E j \in DOMAIN buffer : buffer[j][1] = k /\ Boot!LastWrite(k) = buffer[j][2]
<1> DEFINE Is(j) == j \in 1 .. Len(buffer) /\ buffer[j][1] = k
                    /\ \A i \in j + 1 .. Len(buffer) : buffer[i][1] # k
           latest == CHOOSE j \in 1 .. Len(buffer) :
                      /\ buffer[j][1] = k
                      /\ \A i \in j + 1 .. Len(buffer) : buffer[i][1] # k
<1>1. DOMAIN buffer = 1 .. Len(buffer)
  OBVIOUS
<1>2. \E j \in 1 .. Len(buffer) : /\ buffer[j][1] = k
                                 /\ \A i \in j + 1 .. Len(buffer) : buffer[i][1] # k
  BY <1>1 DEF LastIn
<1>3. latest \in 1 .. Len(buffer) /\ buffer[latest][1] = k
  BY <1>2
<1>4. Boot!LastWrite(k) = buffer[latest][2]
  BY DEF Boot!LastWrite
<1> HIDE DEF latest
<1> QED BY <1>1, <1>3, <1>4 DEF Boot!Written

LEMMA Committed ==
    ASSUME Boot!NoneAssumption, StartInv, Boot!Commit, NEW k \in Boot!Key
    PROVE  \/ documents'[k] = None /\ ~ LastIn(buffer, k)
           \/ /\ LastIn(buffer, k)
              /\ \E w \in Boot!Key \X StartValue : Writes(w) /\ w[1] = k /\ documents'[k] = w[2]
<1> USE DEF StartInv
<1>1. documents'[k] = IF Boot!Written(k) THEN Boot!LastWrite(k) ELSE None
  BY DEF Boot!Commit, RunningInv
<1>2. buffer \in Seq(Boot!Key \X StartValue) /\ DOMAIN buffer = 1 .. Len(buffer)
  BY DEF StartTypes
<1>3. Boot!Written(k) => LastIn(buffer, k)
  BY <1>2 DEF Boot!Commit, Boot!Written, RunningInv, WritesInv
<1>4. CASE LastIn(buffer, k)
  <2>1. PICK j \in DOMAIN buffer : buffer[j][1] = k /\ documents'[k] = buffer[j][2]
    BY <1>1, <1>2, <1>4, LastWritten
  <2>2. Writes(buffer[j]) /\ buffer[j] \in Boot!Key \X StartValue
    BY <1>2 DEF Boot!Commit, RunningInv, WritesInv
  <2> QED BY <1>4, <2>1, <2>2
<1>5. CASE ~ LastIn(buffer, k)
  BY <1>1, <1>3, <1>5
<1> QED BY <1>4, <1>5

LEMMA CommitValues ==
    ASSUME Boot!NoneAssumption, StartInv, Boot!Commit
    PROVE  /\ documents'[<<"businessnetwork">>] = current
           /\ documents'[<<"metanetwork">>] = current
           /\ \A d \in StartDoc : documents'[<<"doc", d>>] \in 0 .. count \union {None}
           /\ \A r \in StartRequest, i \in Boot!TxId :
                 IF r = current /\ i <= count
                 THEN /\ documents'[<<"tx", r, i>>] = i
                      /\ \E v : documents'[<<"historian", r, i>>] = v /\ RecordOf(v, i)
                 ELSE /\ documents'[<<"tx", r, i>>] = None
                      /\ documents'[<<"historian", r, i>>] = None
<1> USE DEF StartInv
<1>1. current # None /\ index = count + 1 /\ WritesInv /\ count \in Nat
  BY DEF Boot!Commit, RunningInv, StartTypes, Boot!NoneAssumption
<1>2. \A w : w[1] \in {<<"businessnetwork">>, <<"metanetwork">>} /\ Writes(w) => w[2] = current
  BY DEF Writes
<1>3. documents'[<<"businessnetwork">>] = current /\ documents'[<<"metanetwork">>] = current
  BY <1>1, <1>2, Committed, StartKeys DEF WritesInv
<1>4. ASSUME NEW d \in StartDoc PROVE documents'[<<"doc", d>>] \in 0 .. count \union {None}
  <2>1. \A w : w[1] = <<"doc", d>> /\ Writes(w) => w[2] \in 0 .. count
    BY DEF Writes
  <2> QED BY <2>1, Committed, StartKeys
<1>5. ASSUME NEW r \in StartRequest, NEW i \in Boot!TxId
      PROVE  IF r = current /\ i <= count
             THEN /\ documents'[<<"tx", r, i>>] = i
                  /\ \E v : documents'[<<"historian", r, i>>] = v /\ RecordOf(v, i)
             ELSE /\ documents'[<<"tx", r, i>>] = None
                  /\ documents'[<<"historian", r, i>>] = None
  <2>1. \A w : w[1] = <<"tx", r, i>> /\ Writes(w) =>
                  r = current /\ i \in 0 .. index - 1 /\ w[2] = i
    BY DEF Writes
  <2>2. \A w : w[1] = <<"historian", r, i>> /\ Writes(w) =>
                  r = current /\ i \in 0 .. index - 1 /\ RecordOf(w[2], i)
    BY DEF Writes
  <2>3. i \in Nat
    BY DEF Boot!TxId, Boot!NoneAssumption
  <2>4. CASE r = current /\ i <= count
    <3>1. i \in 0 .. index - 1
      BY <1>1, <2>3, <2>4
    <3>2. LastIn(buffer, <<"tx", r, i>>) /\ LastIn(buffer, <<"historian", r, i>>)
      BY <1>1, <2>4, <3>1 DEF WritesInv, KeysOfRecord
    <3>3. documents'[<<"tx", r, i>>] = i
      BY <2>1, <3>2, Committed, StartKeys
    <3>4. PICK w : Writes(w) /\ w[1] = <<"historian", r, i>>
                   /\ documents'[<<"historian", r, i>>] = w[2]
      BY <3>2, Committed, StartKeys
    <3>5. RecordOf(w[2], i)
      BY <2>2, <3>4
    <3> QED BY <2>4, <3>3, <3>4, <3>5
  <2>5. CASE ~ (r = current /\ i <= count)
    <3>1. ~ (r = current /\ i \in 0 .. index - 1)
      BY <1>1, <2>3, <2>5
    <3>2. documents'[<<"tx", r, i>>] = None
      BY <2>1, <3>1, Committed, StartKeys
    <3>3. documents'[<<"historian", r, i>>] = None
      BY <2>2, <3>1, Committed, StartKeys
    <3> QED BY <2>5, <3>2, <3>3
  <2> QED BY <2>4, <2>5
<1> QED BY <1>3, <1>4, <1>5

LEMMA CommitStep ==
    ASSUME Boot!NoneAssumption, StartInv, Boot!Commit
    PROVE  StartInv'
<1> USE DEF StartInv
<1>1. /\ stage' = [stage EXCEPT ![current] = "started"] /\ current # None /\ current' = None
      /\ count' = 0 /\ index' = 0 /\ buffer' = <<>> /\ eventBuffer' = <<>> /\ eventNumber' = 0
      /\ published' = [published EXCEPT ![current] = eventBuffer]
      /\ index = count + 1
  BY DEF Boot!Commit, Boot!Leave
<1>2. /\ current \in StartRequest /\ count \in Nat /\ count \in Boot!TxId /\ count \in 0 .. MaxTx
      /\ MaxTx \in Nat
      /\ \A k \in Boot!Key : documents[k] = None
      /\ EventsInv /\ eventBuffer \in Seq(Event)
  BY <1>1 DEF StartTypes, RunningInv, Boot!TxId, Boot!NoneAssumption
<1>3. RunningInv'
  BY <1>1 DEF RunningInv
<1>4. StartTypes'
  <2>1. \A k \in Boot!Key : documents'[k] \in StartValue \union {None}
    <3>1. \A k \in Boot!Key : \A w \in Boot!Key \X StartValue : w[2] \in StartValue
      OBVIOUS
    <3> QED BY <3>1, Committed
  <2>2. documents' = [k \in Boot!Key |-> documents'[k]]
    BY DEF Boot!Commit
  <2>3. documents' \in [Boot!Key -> StartValue \union {None}]
    BY <2>1, <2>2
  <2>4. 0 \in 0 .. MaxTx /\ 0 \in 0 .. 0 + 1
    BY <1>2
  <2>5. buffer' \in Seq(Boot!Key \X StartValue) /\ eventBuffer' \in Seq(Event)
    BY <1>1
  <2>6. published' \in [StartRequest -> Seq(Event)]
    BY <1>1, <1>2 DEF StartTypes
  <2>7. stage' \in [StartRequest -> {"new", "running", "started", "failed"}]
    BY <1>1, <1>2 DEF StartTypes
  <2> QED BY <1>1, <2>3, <2>4, <2>5, <2>6, <2>7 DEF StartTypes
<1>5. \A r \in StartRequest, i \in Boot!TxId :
         /\ documents'[<<"tx", r, i>>] # None <=> r = current /\ i <= count
         /\ documents'[<<"historian", r, i>>] # None <=> r = current /\ i <= count
         /\ r = current /\ i <= count => documents'[<<"historian", r, i>>].timestamp = i + 1
  <2>1. \A i \in Boot!TxId : i # None
    BY DEF Boot!TxId, Boot!NoneAssumption
  <2>2. \A v, i : RecordOf(v, i) => v # None /\ v.timestamp = i + 1
    BY DEF RecordOf, RecordValue, Boot!NoneAssumption
  <2> SUFFICES ASSUME NEW r \in StartRequest, NEW i \in Boot!TxId
               PROVE  /\ documents'[<<"tx", r, i>>] # None <=> r = current /\ i <= count
                      /\ documents'[<<"historian", r, i>>] # None <=> r = current /\ i <= count
                      /\ r = current /\ i <= count =>
                            documents'[<<"historian", r, i>>].timestamp = i + 1
    OBVIOUS
  <2>3. IF r = current /\ i <= count
        THEN /\ documents'[<<"tx", r, i>>] = i
             /\ \E v : documents'[<<"historian", r, i>>] = v /\ RecordOf(v, i)
        ELSE /\ documents'[<<"tx", r, i>>] = None
             /\ documents'[<<"historian", r, i>>] = None
    BY CommitValues
  <2>4. CASE r = current /\ i <= count
    <3>1. documents'[<<"tx", r, i>>] = i
      BY <2>3, <2>4
    <3>2. PICK v : documents'[<<"historian", r, i>>] = v /\ RecordOf(v, i)
      BY <2>3, <2>4
    <3> QED BY <2>1, <2>2, <2>4, <3>1, <3>2
  <2>5. CASE ~ (r = current /\ i <= count)
    BY <2>3, <2>5
  <2> QED BY <2>4, <2>5
<1>6. documents'[<<"businessnetwork">>] = current /\ documents'[<<"metanetwork">>] = current
  BY CommitValues
<1>7. Boot!WhollyStarted'
  <2>1. stage'[current] = "started"
    BY <1>1, <1>2 DEF StartTypes
  <2>2. \A d \in StartDoc : documents'[<<"doc", d>>] \in 0 .. count \union {None}
    BY CommitValues
  <2>3. PICK n \in Boot!TxId : n = count
    BY <1>2
  <2>4. \A r \in StartRequest, i \in Boot!TxId :
           /\ Boot!Recorded(r, i)' <=> (r = current /\ i <= n)
           /\ Boot!Recorded(r, i)' <=> documents'[<<"tx", r, i>>] # None
    BY <1>5, <2>3 DEF Boot!Recorded
  <2> QED BY <1>1, <1>2, <1>6, <2>1, <2>2, <2>3, <2>4 DEF Boot!WhollyStarted
<1>8. Boot!EventsDistinct'
  <2>1. published'[current] = eventBuffer
    BY <1>1, <1>2 DEF StartTypes
  <2>2. \A r \in StartRequest : r # current => published'[r] = <<>>
    BY <1>1, <1>2, StartKeys DEF StartTypes, StartedInv
  <2>3. ASSUME NEW e, NEW j \in DOMAIN eventBuffer, e = eventBuffer[j]
        PROVE  /\ documents'[<<"historian", current, e[1]>>] # None
               /\ e \in documents'[<<"historian", current, e[1]>>].eventsEmitted
    <3>1. e = eventBuffer[j]
      BY <2>3
    <3>2. e[1] \in Boot!TxId /\ e[1] <= count
      BY <1>2, <3>1 DEF Event, EventsInv, Boot!TxId
    <3>3. PICK v : documents'[<<"historian", current, e[1]>>] = v /\ RecordOf(v, e[1])
      BY <1>2, <3>2, CommitValues
    <3>4. e \in v.eventsEmitted
      BY <3>1, <3>3 DEF RecordOf
    <3>5. documents'[<<"historian", current, e[1]>>] # None
      BY <1>2, <1>5, <3>2
    <3> QED BY <3>3, <3>4, <3>5
  <2>4. ASSUME NEW r \in StartRequest
        PROVE  /\ \A i, j \in DOMAIN published'[r] : i # j => published'[r][i] # published'[r][j]
               /\ \A e \in {published'[r][i] : i \in DOMAIN published'[r]} :
                     /\ documents'[<<"historian", r, e[1]>>] # None
                     /\ e \in documents'[<<"historian", r, e[1]>>].eventsEmitted
    <3>1. CASE r = current
      BY <1>2, <2>1, <2>3, <3>1 DEF EventsInv
    <3>2. CASE r # current
      BY <2>2, <3>2
    <3> QED BY <3>1, <3>2
  <2> QED BY <2>4 DEF Boot!EventsDistinct, Boot!Recorded
<1>9. documents'[<<"businessnetwork">>] # None
  BY <1>1, <1>6
<1> QED BY <1>2, <1>3, <1>4, <1>5, <1>6, <1>7, <1>8, <1>9
        DEF StartedInv, Boot!Recorded

LEMMA StartNext ==
    ASSUME Boot!NoneAssumption, StartInv, [Boot!Next]_(Boot!vars)
    PROVE  StartInv'
<1>1. CASE UNCHANGED Boot!vars
  <2>1. UNCHANGED <<documents, stage, current, count, index, buffer, eventBuffer,
                    eventNumber, published>>
    BY <1>1 DEF Boot!vars
  <2>2. StartTypes'
    BY <2>1 DEF StartInv, StartTypes
  <2>3. RunningInv'
    BY <2>1 DEF StartInv, RunningInv, WritesInv, EventsInv, Writes, RecordOf, KeysOfRecord
  <2>4. StartedInv'
    BY <2>1, StartedFrame
  <2> QED BY <2>2, <2>3, <2>4 DEF StartInv
<1>2. ASSUME NEW r \in StartRequest, NEW n \in 0 .. MaxTx, Boot!Begin(r, n) PROVE StartInv'
  BY <1>2, BeginStep
<1>3. ASSUME (\E r \in StartRequest : Boot!Refuse(r)) \/ Boot!Throw PROVE StartInv'
  BY <1>3, RefuseStep
<1>4. ASSUME NEW d \in StartDoc, Boot!Add(d) PROVE StartInv'
  BY <1>4, AddStep
<1>5. CASE Boot!Emit
  BY <1>5, EmitStep
<1>6. CASE Boot!Record
  BY <1>6, RecordStartStep
<1>7. CASE Boot!Commit
  BY <1>7, CommitStep
<1> QED BY <1>1, <1>2, <1>3, <1>4, <1>5, <1>6, <1>7 DEF Boot!Next

THEOREM StartInvariant ==
    ASSUME Boot!NoneAssumption
    PROVE  Boot!Spec => []StartInv
BY StartInit, StartNext, PTL DEF Boot!Spec

\* A start of any length is there with all its transactions and their historian records,
\* or not at all, whichever transaction of it fails (engine.js, Engine.init).
THEOREM StartWhole ==
    ASSUME Boot!NoneAssumption
    PROVE  Boot!Spec => []Boot!WhollyStarted
<1>1. StartInv => Boot!WhollyStarted
  BY DEF StartInv, StartedInv
<1> QED BY <1>1, StartInvariant, PTL

\* Historian records of a start are in the order of its transactions, and the events that
\* clients get can be told apart and are in the record of the transaction they are of,
\* although the event buffer is not emptied between transactions (eventservice.js).
THEOREM StartTold ==
    ASSUME Boot!NoneAssumption
    PROVE  Boot!Spec => [](Boot!HistorianOrdered /\ Boot!EventsDistinct)
<1>1. ASSUME Boot!NoneAssumption, StartInv PROVE Boot!HistorianOrdered /\ Boot!EventsDistinct
  <2>1. \A i, j \in Boot!TxId : i < j => i + 1 < j + 1
    BY DEF Boot!TxId, Boot!NoneAssumption
  <2> QED BY <1>1, <2>1 DEF StartInv, StartedInv, Boot!HistorianOrdered
<1> QED BY <1>1, StartInvariant, PTL

\* A start is there with all that it has asked for, in the order of the historian and with
\* events that can be told apart, or it has left nothing (engine.js, Engine.init).
THEOREM StartedAsAsked ==
    ASSUME Boot!NoneAssumption
    PROVE  Boot!Spec => []Boot!StartedWhole
<1>1. ASSUME Boot!NoneAssumption, StartInv PROVE Boot!TypeOK
  <2>1. StartTypes /\ MaxTx \in Nat
    BY <1>1 DEF StartInv, Boot!NoneAssumption
  <2>2. \A j \in 1 .. Len(buffer) : buffer[j] \in Boot!Key \X StartValue
    BY <2>1 DEF StartTypes
  <2>3. \A j \in 1 .. Len(eventBuffer) : eventBuffer[j] \in Event
    BY <2>1 DEF StartTypes
  <2>4. \A j \in 1 .. Len(eventBuffer) : eventBuffer[j] \in Boot!TxId \X Nat
    BY <2>3 DEF Event, Boot!TxId
  <2>5. index \in 0 .. MaxTx + 1
    BY <2>1 DEF StartTypes
  <2> QED BY <2>1, <2>2, <2>4, <2>5 DEF StartTypes, Boot!TypeOK
<1> QED BY <1>1, StartInvariant, StartWhole, StartTold, PTL DEF Boot!StartedWhole

\* A second start changes nothing of a business network that is there.
THEOREM StartFinal ==
    ASSUME Boot!NoneAssumption
    PROVE  Boot!Spec => Boot!StartedOnce
<1>1. StartInv /\ [Boot!Next]_(Boot!vars) =>
         [documents[<<"businessnetwork">>] # None =>
             documents' = documents /\ published' = published]_(Boot!vars)
  <2> SUFFICES ASSUME StartInv, Boot!Next, documents[<<"businessnetwork">>] # None
               PROVE  documents' = documents /\ published' = published
    OBVIOUS
  <2>1. ~ Boot!Commit
    BY StartKeys DEF StartInv, RunningInv, Boot!Commit
  <2> QED BY <2>1 DEF Boot!Next, Boot!Begin, Boot!Open, Boot!Refuse, Boot!Throw, Boot!Add,
                      Boot!Emit, Boot!Record
<1> QED BY <1>1, StartInvariant, PTL DEF Boot!Spec, Boot!StartedOnce

-----------------------------------------------------------------------------
(***************************************************************************)
(* The resolver of the engine (Resolver): circles of relationships end,    *)
(* and what is resolved is whole.                                          *)
(***************************************************************************)
Vertex == Resource \union {Root}
Object == [from : {"sent", "ledger"}, links : Seq(Resource \union {None})]
StackFrame == [of : Vertex, todo : Seq(Resolution!Value)]

GraphTypes ==
    /\ ledger \in [Resource -> Seq(Resource) \union {None}]
    /\ sent \in Seq(Resolution!Value) /\ copied \in Seq(Resource)
ObjectTypes ==
    /\ object \in [Vertex -> Object \union {None}]
    /\ object[Root] # None
    /\ \A r \in Resource : object[r] # None /\ object[r].from = "ledger" => ledger[r] # None

\* A value of a resource that is resolved: the resource that it names, or nothing where
\* that cannot be read.
LinkTo(link, value) ==
    \/ link = value.of /\ object[value.of] # None
    \/ link = None /\ ledger[value.of] = None /\ ~value.copy
LinksSound ==
    \A r \in Vertex : object[r] # None =>
        /\ Len(object[r].links) <= Len(Resolution!Original(r))
        /\ \A i \in 1..Len(object[r].links) :
              LinkTo(object[r].links[i], Resolution!Original(r)[i])

\* A frame has the values of its resource that are not set yet, in their order.
FrameSound(f) ==
    LET links == object[f.of].links
        original == Resolution!Original(f.of)
    IN  /\ object[f.of] # None
        /\ Len(links) + Len(f.todo) = Len(original)
        /\ \A k \in 1..Len(f.todo) : f.todo[k] = original[Len(links) + k]

\* Each frame waits for the value that the one in front of it resolves.
WaitsFor(f, g) == f.todo # <<>> /\ f.todo[1].of = g.of

FramesSound(pile) ==
    /\ pile \in Seq(StackFrame)
    /\ \A i \in 1..Len(pile) : FrameSound(pile[i])
    /\ \A i \in 1..Len(pile) : i > 1 => WaitsFor(pile[i], pile[i - 1])
    /\ \A i, j \in 1..Len(pile) : pile[i].of = pile[j].of => i = j
    /\ \A r \in Vertex :
          object[r] # None /\ (\A i \in 1..Len(pile) : pile[i].of # r)
             => Len(object[r].links) = Len(Resolution!Original(r))

ResolverInv == GraphTypes /\ ObjectTypes /\ LinksSound /\ FramesSound(frames)

LEMMA PushFacts ==
    ASSUME NEW S, NEW s \in Seq(S), NEW x \in S
    PROVE  /\ <<x>> \o s \in Seq(S) /\ Len(<<x>> \o s) = Len(s) + 1
           /\ (<<x>> \o s)[1] = x
           /\ \A i \in 1..Len(<<x>> \o s) : i > 1 => (<<x>> \o s)[i] = s[i - 1] /\ i - 1 \in 1..Len(s)
OBVIOUS

LEMMA TailFacts ==
    ASSUME NEW S, NEW s \in Seq(S), s # <<>>
    PROVE  /\ Tail(s) \in Seq(S) /\ Len(Tail(s)) = Len(s) - 1 /\ Len(s) >= 1
           /\ Head(s) = s[1] /\ s[1] \in S
           /\ \A i \in 1..Len(Tail(s)) : Tail(s)[i] = s[i + 1] /\ i + 1 \in 1..Len(s)
OBVIOUS

LEMMA RelationshipsFacts ==
    ASSUME NEW links \in Seq(Resource)
    PROVE  /\ Resolution!Relationships(links) \in Seq(Resolution!Value)
           /\ Len(Resolution!Relationships(links)) = Len(links)
<1>1. DOMAIN links = 1..Len(links) /\ Len(links) \in Nat
  OBVIOUS
<1>2. \A i \in 1..Len(links) : [copy |-> FALSE, of |-> links[i]] \in Resolution!Value
  BY DEF Resolution!Value
<1>3. Resolution!Relationships(links) \in [1..Len(links) -> Resolution!Value]
  BY <1>1, <1>2 DEF Resolution!Relationships
<1>4. \A n \in Nat : \A f \in [1..n -> Resolution!Value] :
         f \in Seq(Resolution!Value) /\ Len(f) = n
  OBVIOUS
<1> QED BY <1>1, <1>3, <1>4

\* What a resource is made of is a sequence of values.
LEMMA OriginalType ==
    ASSUME GraphTypes, ObjectTypes, NEW r \in Vertex, object[r] # None
    PROVE  Resolution!Original(r) \in Seq(Resolution!Value)
<1>1. CASE r = Root
  BY <1>1 DEF GraphTypes, Resolution!Original
<1>2. CASE r # Root
  <2>1. object[r].from = "sent" \/ ledger[r] \in Seq(Resource)
    BY <1>2 DEF ObjectTypes, GraphTypes, Vertex, Object
  <2>2. (IF object[r].from = "sent" THEN copied ELSE ledger[r]) \in Seq(Resource)
    BY <2>1 DEF GraphTypes
  <2> QED BY <1>2, <2>2, RelationshipsFacts DEF Resolution!Original
<1> QED BY <1>1, <1>2

LEMMA ResolverInit ==
    ASSUME Resolution!ResolverAssumption
    PROVE  Resolution!Init => ResolverInv
<1> SUFFICES ASSUME Resolution!Init PROVE ResolverInv  OBVIOUS
<1>1. \A S, n : n \in Nat => Resolution!UpTo(S, n) \subseteq Seq(S)
  BY DEF Resolution!UpTo
<1>2. GraphTypes
  <2>1. MaxLinks \in Nat /\ MaxSent \in Nat /\ 1 \in Nat
    BY DEF Resolution!ResolverAssumption
  <2>2. ledger \in [Resource -> Resolution!UpTo(Resource, MaxLinks) \union {None}]
    BY DEF Resolution!Init
  <2>3. Resolution!UpTo(Resource, MaxLinks) \union {None} \subseteq Seq(Resource) \union {None}
    BY <1>1, <2>1
  <2>4. ledger \in [Resource -> Seq(Resource) \union {None}]
    BY <2>2, <2>3
  <2>5. sent \in Seq(Resolution!Value) /\ copied \in Seq(Resource)
    BY <1>1, <2>1 DEF Resolution!Init
  <2> QED BY <2>4, <2>5 DEF GraphTypes
<1>3. \A r \in Resource : object[r] = None /\ r # Root
  BY DEF Resolution!Init, Resolution!ResolverAssumption
<1>4. object[Root] = [from |-> "sent", links |-> <<>>]
  BY DEF Resolution!Init, Resolution!New
<1>5. [from |-> "sent", links |-> <<>>] \in Object
  BY DEF Object
<1>6. object[Root] # None
  BY <1>4, <1>5 DEF Resolution!ResolverAssumption, Object
<1>7. ObjectTypes
  <2>1. object \in [Vertex -> Object \union {None}]
    BY <1>5 DEF Resolution!Init, Resolution!New, Vertex
  <2> QED BY <1>3, <1>6, <2>1 DEF ObjectTypes
<1>8. Resolution!Original(Root) = sent /\ object[Root].links = <<>>
  BY <1>4 DEF Resolution!Original
<1>9. LinksSound
  BY <1>2, <1>3, <1>8 DEF LinksSound, Vertex, GraphTypes
<1>10. PICK f : f = [of |-> Root, todo |-> sent]
  OBVIOUS
<1>11. frames = <<f>> /\ f \in StackFrame
  BY <1>2, <1>10 DEF Resolution!Init, Resolution!Frame, StackFrame, GraphTypes, Vertex
<1>12. FrameSound(f)
  BY <1>2, <1>6, <1>8, <1>10 DEF FrameSound, GraphTypes
<1>13. FramesSound(frames)
  BY <1>3, <1>10, <1>11, <1>12 DEF FramesSound, Vertex
<1> QED BY <1>2, <1>7, <1>9, <1>13 DEF ResolverInv

\* The map of resources grows, and what is in it keeps what it is made of.
Grown ==
    /\ UNCHANGED <<ledger, sent, copied>>
    /\ \A r \in Vertex : object[r] # None => object'[r] # None /\ object'[r].from = object[r].from

LEMMA OriginalStays ==
    ASSUME Grown, NEW r \in Vertex, object[r] # None
    PROVE  Resolution!Original(r)' = Resolution!Original(r)
BY DEF Grown, Resolution!Original

LEMMA FrameThere ==
    ASSUME NEW i, NEW h, h = frames'[i], FrameSound(h)'
    PROVE  FrameSound(frames[i])'
BY DEF FrameSound

LEMMA NewFrame ==
    ASSUME NEW r, object'[r] # None, object'[r].links = <<>>, NEW g, g.of = r,
           Len(g.todo) \in Nat, Resolution!Original(r)' = g.todo
    PROVE  FrameSound(g)'
<1>1. object'[g.of] # None
  OBVIOUS
<1>2. PICK n : n = Len(g.todo)
  OBVIOUS
<1>3. PICK m : m = Len(object'[g.of].links)
  OBVIOUS
<1>4. m = 0 /\ n \in Nat
  BY <1>2, <1>3
<1>5. m + n = n /\ \A k \in 1..n : m + k = k
  BY <1>4
<1>6. Resolution!Original(g.of)' = g.todo
  OBVIOUS
<1>7. Len(object'[g.of].links) + Len(g.todo) = Len(Resolution!Original(g.of)')
  BY <1>2, <1>3, <1>5, <1>6
<1>8. \A k \in 1..Len(g.todo) :
         g.todo[k] = Resolution!Original(g.of)'[Len(object'[g.of].links) + k]
  BY <1>2, <1>3, <1>5, <1>6
<1> QED BY <1>1, <1>7, <1>8 DEF FrameSound

LEMMA SumStays ==
    ASSUME NEW a \in Nat, NEW b \in Nat, NEW c, NEW d, c = a + 1, d = b - 1
    PROVE  c + d = a + b
OBVIOUS

LEMMA LinkStays ==
    ASSUME Grown, NEW link, NEW value, value.of \in Vertex, LinkTo(link, value)
    PROVE  LinkTo(link, value)'
BY DEF Grown, LinkTo

\* A value of the resource of the frame in front is set.
LEMMA LinkedSound ==
    ASSUME Resolution!ResolverAssumption, GraphTypes, ObjectTypes, LinksSound,
           UNCHANGED <<ledger, sent, copied>>,
           NEW pile, FramesSound(pile), pile # <<>>, pile[1].todo # <<>>,
           NEW link, LinkTo(link, pile[1].todo[1]), link \in Resource \union {None},
           Resolution!Linked(object, pile, link)
    PROVE  ResolverInv'
<1>1. PICK f : f = pile[1]
  OBVIOUS
<1>2. PICK r : r = f.of
  OBVIOUS
<1>3. /\ pile \in Seq(StackFrame) /\ f \in StackFrame /\ r \in Vertex /\ Head(pile) = f
      /\ f.todo \in Seq(Resolution!Value) /\ f.todo # <<>> /\ FrameSound(f)
      /\ object[r] # None /\ object[r] \in Object
  <2>1. pile \in Seq(StackFrame) /\ 1 \in 1..Len(pile)
    BY DEF FramesSound
  <2>2. f \in StackFrame /\ Head(pile) = f /\ FrameSound(f)
    BY <1>1, <2>1 DEF FramesSound
  <2>3. r \in Vertex /\ f.todo \in Seq(Resolution!Value) /\ f.todo # <<>>
    BY <1>1, <1>2, <2>2 DEF StackFrame
  <2>4. object[r] # None
    BY <1>2, <2>2 DEF FrameSound
  <2>5. object[r] \in Object
    BY <2>3, <2>4 DEF ObjectTypes
  <2> QED BY <2>1, <2>2, <2>3, <2>4, <2>5
<1>4. PICK links : links = object[r].links
  OBVIOUS
<1>5. links \in Seq(Resource \union {None})
  BY <1>3, <1>4 DEF Object
<1>6. PICK o : o = [object[r] EXCEPT !.links = Append(links, link)]
  OBVIOUS
<1>7. /\ o \in Object /\ o # None /\ o.from = object[r].from
      /\ o.links = Append(links, link)
  <2>1. PICK more : more = Append(links, link)
    OBVIOUS
  <2>2. more \in Seq(Resource \union {None})
    BY <1>5, <2>1
  <2>3. o \in Object /\ o.from = object[r].from /\ o.links = more
    BY <1>3, <1>6, <2>1, <2>2 DEF Object
  <2>4. o # None
    BY <2>3 DEF Object, Resolution!ResolverAssumption
  <2> QED BY <2>1, <2>3, <2>4
<1>8. object' = [object EXCEPT ![r] = o]
  BY <1>2, <1>3, <1>4, <1>6 DEF Resolution!Linked
<1>9. PICK g : g = [f EXCEPT !.todo = Tail(f.todo)]
  OBVIOUS
<1>10. /\ g \in StackFrame /\ g.of = r /\ g.todo = Tail(f.todo)
  BY <1>2, <1>3, <1>9, TailFacts DEF StackFrame
<1>11. frames' = <<g>> \o Tail(pile)
  BY <1>3, <1>9 DEF Resolution!Linked
<1>12. /\ frames' \in Seq(StackFrame) /\ Len(frames') = Len(pile) /\ frames'[1] = g
       /\ Len(pile) >= 1
       /\ \A i \in 1..Len(pile) : i > 1 => frames'[i] = pile[i]
  BY <1>3, <1>10, <1>11, PushFacts, TailFacts
<1>13. ObjectTypes' /\ GraphTypes' /\ object'[r] = o
       /\ \A q \in Vertex \ {r} : object'[q] = object[q]
  BY <1>3, <1>7, <1>8 DEF ObjectTypes, GraphTypes
<1>14. Grown
  BY <1>7, <1>13 DEF Grown
<1>15. PICK original : original = Resolution!Original(r)
  OBVIOUS
<1>16. /\ original \in Seq(Resolution!Value)
       /\ Len(links) + Len(f.todo) = Len(original)
       /\ \A k \in 1..Len(f.todo) : f.todo[k] = original[Len(links) + k]
  BY <1>2, <1>3, <1>4, <1>15, OriginalType DEF FrameSound
<1>17. original[Len(links) + 1] = f.todo[1] /\ Len(f.todo) >= 1
  BY <1>3, <1>16, TailFacts
<1>18. Resolution!Original(r)' = original
  BY <1>3, <1>14, <1>15, OriginalStays
<1>19. \A q \in Vertex : object[q] # None => Resolution!Original(q)' = Resolution!Original(q)
  BY <1>14, OriginalStays
\* What the links of a resource were stays sound.
<1>20. ASSUME NEW q \in Vertex, object[q] # None, NEW i \in 1..Len(object[q].links),
              NEW l, l = object[q].links[i], NEW v, v = Resolution!Original(q)[i]
       PROVE  LinkTo(l, v)'
  <2>1. /\ Len(object[q].links) <= Len(Resolution!Original(q)) /\ LinkTo(l, v)
    BY <1>20 DEF LinksSound
  <2>2. Resolution!Original(q) \in Seq(Resolution!Value) /\ object[q].links \in Seq(Resource \union {None})
    BY <1>20, OriginalType DEF ObjectTypes, Object
  <2>3. v \in Resolution!Value
    BY <1>20, <2>1, <2>2
  <2>4. v.of \in Vertex
    BY <2>3 DEF Resolution!Value, Vertex
  <2> QED BY <1>14, <2>1, <2>4, LinkStays
<1>21. PICK first : first = f.todo[1]
  OBVIOUS
<1>22. LinkTo(link, first)'
  <2>1. first.of \in Vertex
    <3>1. first \in Resolution!Value
      BY <1>3, <1>17, <1>21
    <3> QED BY <3>1 DEF Resolution!Value, Vertex
  <2>2. LinkTo(link, first)
    BY <1>1, <1>21
  <2> QED BY <1>14, <2>1, <2>2, LinkStays
<1>23. LinksSound'
  <2> SUFFICES ASSUME NEW q \in Vertex, object'[q] # None
               PROVE  (/\ Len(object[q].links) <= Len(Resolution!Original(q))
                       /\ \A i \in 1..Len(object[q].links) :
                             LinkTo(object[q].links[i], Resolution!Original(q)[i]))'
    BY DEF LinksSound
  <2>1. object[q] # None
    BY <1>3, <1>13
  <2>2. Len(object[q].links) <= Len(Resolution!Original(q))
    BY <2>1 DEF LinksSound
  <2>3. Resolution!Original(q)' = Resolution!Original(q)
    BY <1>19, <2>1
  <2>4. CASE q # r
    <3>1. object'[q] = object[q]
      BY <1>13, <2>4
    <3>2. ASSUME NEW i \in 1..Len(object'[q].links)
          PROVE  LinkTo(object[q].links[i], Resolution!Original(q)[i])'
      <4>1. PICK l : l = object[q].links[i]
        OBVIOUS
      <4>2. PICK v : v = Resolution!Original(q)[i]
        OBVIOUS
      <4>3. LinkTo(l, v)'
        BY <1>20, <2>1, <3>1, <4>1, <4>2
      <4> QED BY <2>3, <3>1, <4>1, <4>2, <4>3 DEF LinkTo
    <3> QED BY <2>2, <2>3, <3>1, <3>2
  <2>5. CASE q = r
    <3>1. object'[q].links = Append(links, link) /\ Len(object'[q].links) = Len(links) + 1
      BY <1>5, <1>7, <1>13, <2>5
    <3>2. ASSUME NEW i \in 1..Len(object'[q].links)
          PROVE  LinkTo(object[q].links[i], Resolution!Original(q)[i])'
      <4>1. PICK l : l = object'[q].links[i]
        OBVIOUS
      <4>2. PICK v : v = original[i]
        OBVIOUS
      <4>3. LinkTo(l, v)'
        <5>1. CASE i = Len(links) + 1
          BY <1>5, <1>17, <1>21, <1>22, <3>1, <4>1, <4>2, <5>1
        <5>2. CASE i # Len(links) + 1
          <6>1. i \in 1..Len(links) /\ l = links[i]
            BY <1>5, <3>1, <4>1, <5>2
          <6> QED BY <1>3, <1>4, <1>15, <1>20, <4>2, <6>1
        <5> QED BY <5>1, <5>2
      <4> QED BY <1>18, <2>5, <4>1, <4>2, <4>3 DEF LinkTo
    <3>3. Len(object'[q].links) <= Len(original)
      BY <1>5, <1>16, <1>17, <3>1
    <3> QED BY <1>18, <2>5, <3>2, <3>3
  <2> QED BY <2>4, <2>5
\* The pile.
<1>24. FrameSound(g)'
  <2>1. Len(g.todo) = Len(f.todo) - 1 /\ \A k \in 1..Len(g.todo) : g.todo[k] = f.todo[k + 1]
    BY <1>3, <1>10, TailFacts
  <2>2. object'[r].links = Append(links, link) /\ Len(object'[r].links) = Len(links) + 1
    BY <1>5, <1>7, <1>13
  <2>3. Len(object'[r].links) + Len(g.todo) = Len(original)
    <3>1. Len(links) \in Nat /\ Len(f.todo) \in Nat
      BY <1>3, <1>5
    <3>2. Len(object'[r].links) = Len(links) + 1 /\ Len(g.todo) = Len(f.todo) - 1
      BY <2>1, <2>2
    <3>3. Len(links) + Len(f.todo) = Len(original)
      BY <1>16
    <3>4. PICK a \in Nat : a = Len(links)
      BY <3>1
    <3>5. PICK b \in Nat : b = Len(f.todo)
      BY <3>1
    <3>6. PICK c : c = Len(object'[r].links)
      OBVIOUS
    <3>7. PICK d : d = Len(g.todo)
      OBVIOUS
    <3>8. c = a + 1 /\ d = b - 1 /\ a + b = Len(original)
      BY <3>2, <3>3, <3>4, <3>5, <3>6, <3>7
    <3>9. c + d = a + b
      BY <3>8, SumStays
    <3> QED BY <3>6, <3>7, <3>8, <3>9
  <2>4. \A k \in 1..Len(g.todo) : g.todo[k] = original[Len(object'[r].links) + k]
    <3> SUFFICES ASSUME NEW k \in 1..Len(g.todo)
                 PROVE  g.todo[k] = original[Len(object'[r].links) + k]
      OBVIOUS
    <3>1. k + 1 \in 1..Len(f.todo) /\ g.todo[k] = f.todo[k + 1]
      BY <1>3, <2>1
    <3>2. f.todo[k + 1] = original[Len(links) + (k + 1)]
      BY <1>16, <3>1
    <3> QED BY <1>5, <2>2, <3>1, <3>2
  <2> QED BY <1>7, <1>10, <1>13, <1>18, <2>3, <2>4 DEF FrameSound
<1>25. ASSUME NEW i \in 1..Len(pile), i > 1 PROVE FrameSound(pile[i])'
  <2>1. PICK h : h = pile[i]
    OBVIOUS
  <2>2. FrameSound(h) /\ h.of # r /\ h.of \in Vertex
    <3>1. FrameSound(h) /\ h \in StackFrame
      BY <1>3, <2>1 DEF FramesSound
    <3>2. 1 \in 1..Len(pile)
      BY <1>3
    <3>3. h.of # r
      BY <1>1, <1>2, <1>25, <2>1, <3>2 DEF FramesSound
    <3> QED BY <3>1, <3>3 DEF StackFrame
  <2>3. object'[h.of] = object[h.of] /\ Resolution!Original(h.of)' = Resolution!Original(h.of)
    BY <1>13, <1>19, <2>2 DEF FrameSound
  <2>4. FrameSound(h)'
    BY <2>2, <2>3 DEF FrameSound
  <2> QED BY <2>1, <2>4
<1>26. \A i \in 1..Len(pile) : frames'[i].of = pile[i].of /\ FrameSound(frames[i])'
  <2> SUFFICES ASSUME NEW i \in 1..Len(pile)
               PROVE  frames'[i].of = pile[i].of /\ FrameSound(frames[i])'
    OBVIOUS
  <2>1. PICK h : h = frames'[i]
    OBVIOUS
  <2>2. h.of = pile[i].of /\ FrameSound(h)'
    <3>1. CASE i = 1
      BY <1>1, <1>2, <1>10, <1>12, <1>24, <2>1, <3>1
    <3>2. CASE i > 1
      BY <1>12, <1>25, <2>1, <3>2
    <3> QED BY <1>3, <3>1, <3>2
  <2> QED BY <2>1, <2>2 DEF FrameSound
<1>27. \A i \in 1..Len(frames') : i > 1 => WaitsFor(frames'[i], frames'[i - 1])
  <2> SUFFICES ASSUME NEW i \in 1..Len(pile), i > 1
               PROVE  WaitsFor(frames'[i], frames'[i - 1])
    BY <1>12
  <2>1. WaitsFor(pile[i], pile[i - 1])
    BY DEF FramesSound
  <2>2. i - 1 \in 1..Len(pile)
    BY <1>12
  <2> QED BY <1>12, <1>26, <2>1, <2>2 DEF WaitsFor
<1>28. \A i, j \in 1..Len(frames') : frames'[i].of = frames'[j].of => i = j
  BY <1>12, <1>26 DEF FramesSound
<1>29. ASSUME NEW q \in Vertex, object'[q] # None, \A i \in 1..Len(frames') : frames'[i].of # q
       PROVE  Len(object'[q].links) = Len(Resolution!Original(q)')
  <2>1. q # r
    BY <1>1, <1>2, <1>12, <1>26, <1>29
  <2>2. object'[q] = object[q]
    BY <1>13, <2>1
  <2>3. \A i \in 1..Len(pile) : pile[i].of # q
    BY <1>12, <1>26, <1>29
  <2> QED BY <1>19, <1>29, <2>2, <2>3 DEF FramesSound
<1>30. FramesSound(frames)'
  BY <1>12, <1>26, <1>27, <1>28, <1>29 DEF FramesSound, WaitsFor
<1> QED BY <1>13, <1>23, <1>30 DEF ResolverInv

\* The frames with a frame in front of it.
Pushed(g) ==
    /\ frames' \in Seq(StackFrame) /\ Len(frames') = Len(frames) + 1 /\ frames'[1] = g
    /\ \A i \in 1..Len(frames') : i > 1 => frames'[i] = frames[i - 1] /\ i - 1 \in 1..Len(frames)

LEMMA StackPushed ==
    ASSUME frames \in Seq(StackFrame), NEW g \in StackFrame, frames' = <<g>> \o frames
    PROVE  Pushed(g)
BY PushFacts DEF Pushed

\* A frame of a resource that was not made yet is put in front of the one that waits for it.
LEMMA PushSound ==
    ASSUME ObjectTypes, FramesSound(frames), Grown, frames # <<>>, frames[1].todo # <<>>,
           NEW r \in Vertex, r = frames[1].todo[1].of, object[r] = None,
           \A q \in Vertex \ {r} : object'[q] = object[q],
           NEW g \in StackFrame, g.of = r, FrameSound(g)', Pushed(g)
    PROVE  FramesSound(frames)'
<1>1. /\ frames' \in Seq(StackFrame) /\ Len(frames') = Len(frames) + 1 /\ frames'[1] = g
      /\ \A i \in 1..Len(frames') : i > 1 => frames'[i] = frames[i - 1] /\ i - 1 \in 1..Len(frames)
  BY DEF Pushed
<1>2. frames \in Seq(StackFrame)
  BY DEF FramesSound
<1>3. \A q \in Vertex : object[q] # None => Resolution!Original(q)' = Resolution!Original(q)
  BY OriginalStays
<1>4. ASSUME NEW i \in 1..Len(frames)
       PROVE  frames[i].of # r /\ FrameSound(frames[i]) /\ frames[i].of \in Vertex
  <2>1. FrameSound(frames[i])
    BY DEF FramesSound
  <2>2. frames[i].of # r
    BY <2>1 DEF FrameSound
  <2>3. frames[i] \in StackFrame
    BY <1>2
  <2> QED BY <2>1, <2>2, <2>3 DEF StackFrame
<1>5. ASSUME NEW i \in 1..Len(frames') PROVE FrameSound(frames[i])'
  <2>1. PICK h : h = frames'[i]
    OBVIOUS
  <2>2. FrameSound(h)'
    <3>1. CASE i = 1
      BY <1>1, <2>1, <3>1
    <3>2. CASE i > 1
      <4>1. h.of # r /\ h.of \in Vertex /\ FrameSound(h)
        BY <1>1, <1>4, <2>1, <3>2
      <4>2. object'[h.of] = object[h.of] /\ Resolution!Original(h.of)' = Resolution!Original(h.of)
        BY <1>3, <4>1 DEF FrameSound
      <4> QED BY <4>1, <4>2 DEF FrameSound
    <3> QED BY <1>1, <3>1, <3>2
  <2> QED BY <2>1, <2>2, FrameThere
<1>6. ASSUME NEW i \in 1..Len(frames'), i > 1 PROVE WaitsFor(frames'[i], frames'[i - 1])
  <2>1. CASE i = 2
    BY <1>1, <1>2, <2>1 DEF WaitsFor
  <2>2. CASE i > 2
    <3>1. i - 1 \in 1..Len(frames) /\ i - 1 > 1 /\ i - 1 \in 1..Len(frames')
      BY <1>2, <1>1, <2>2
    <3>2. frames'[i] = frames[i - 1] /\ frames'[i - 1] = frames[(i - 1) - 1]
      BY <1>1, <1>6, <3>1
    <3>3. WaitsFor(frames[i - 1], frames[(i - 1) - 1])
      BY <3>1 DEF FramesSound
    <3> QED BY <3>2, <3>3
  <2> QED BY <1>1, <1>6, <2>1, <2>2
<1>7. \A i, j \in 1..Len(frames') : frames'[i].of = frames'[j].of => i = j
  <2> SUFFICES ASSUME NEW i \in 1..Len(frames'), NEW j \in 1..Len(frames'),
                      frames'[i].of = frames'[j].of
               PROVE  i = j
    OBVIOUS
  <2>1. i = 1 \/ (i > 1 /\ frames'[i] = frames[i - 1] /\ i - 1 \in 1..Len(frames))
    BY <1>1
  <2>2. j = 1 \/ (j > 1 /\ frames'[j] = frames[j - 1] /\ j - 1 \in 1..Len(frames))
    BY <1>1
  <2>3. i > 1 /\ j > 1 => i - 1 = j - 1
    <3> SUFFICES ASSUME i > 1, j > 1 PROVE i - 1 = j - 1  OBVIOUS
    <3>1. PICK m \in 1..Len(frames) : m = i - 1 /\ frames'[i] = frames[m]
      BY <1>1
    <3>2. PICK n \in 1..Len(frames) : n = j - 1 /\ frames'[j] = frames[n]
      BY <1>1
    <3>3. m = n
      BY <3>1, <3>2 DEF FramesSound
    <3> QED BY <3>1, <3>2, <3>3
  <2>4. (i = 1 /\ j > 1) \/ (i > 1 /\ j = 1) => FALSE
    BY <1>1, <1>4, <2>1, <2>2
  <2> QED BY <1>1, <2>1, <2>2, <2>3, <2>4
<1>8. ASSUME NEW q \in Vertex, object'[q] # None, \A i \in 1..Len(frames') : frames'[i].of # q
       PROVE  Len(object'[q].links) = Len(Resolution!Original(q)')
  <2>1. q # r
    BY <1>2, <1>1, <1>8
  <2>2. object'[q] = object[q]
    BY <2>1
  <2>3. ASSUME NEW i \in 1..Len(frames) PROVE frames[i].of # q
    <3>1. i + 1 \in 1..Len(frames') /\ i + 1 > 1 /\ (i + 1) - 1 = i
      BY <1>2, <1>1
    <3>2. frames'[i + 1] = frames[i]
      BY <1>1, <3>1
    <3> QED BY <1>8, <3>1, <3>2
  <2> QED BY <1>3, <1>8, <2>2, <2>3 DEF FramesSound
<1> QED BY <1>1, <1>5, <1>6, <1>7, <1>8 DEF FramesSound, WaitsFor

\* A resource is made, and its values are looked at first.
LEMMA ResolveSound ==
    ASSUME Resolution!ResolverAssumption, ResolverInv, UNCHANGED <<ledger, sent, copied>>,
           frames # <<>>, frames[1].todo # <<>>,
           NEW r \in Resource, r = frames[1].todo[1].of, object[r] = None,
           NEW from \in {"sent", "ledger"}, NEW links \in Seq(Resource),
           links = IF from = "sent" THEN copied ELSE ledger[r],
           object' = [object EXCEPT ![r] = Resolution!New(from)],
           frames' = <<Resolution!Frame(r, Resolution!Relationships(links))>> \o frames,
           from = "ledger" => ledger[r] # None
    PROVE  ResolverInv'
<1>1. PICK g : g = Resolution!Frame(r, Resolution!Relationships(links))
  OBVIOUS
<1>2. PICK o : o = Resolution!New(from)
  OBVIOUS
<1>3. o \in Object /\ o # None /\ o.from = from /\ o.links = <<>>
  <2>1. o = [from |-> from, links |-> <<>>] /\ <<>> \in Seq(Resource \union {None})
    BY <1>2 DEF Resolution!New
  <2>2. o \in Object
    BY <2>1 DEF Object
  <2> QED BY <2>1, <2>2 DEF Object, Resolution!ResolverAssumption
<1>4. g \in StackFrame /\ g.of = r /\ g.todo = Resolution!Relationships(links)
  BY <1>1, RelationshipsFacts DEF Resolution!Frame, StackFrame, Vertex
<1>5. frames \in Seq(StackFrame) /\ r \in Vertex /\ r # Root
  BY DEF ResolverInv, FramesSound, Vertex, Resolution!ResolverAssumption
<1>6. frames' = <<g>> \o frames
  BY <1>1
<1>7. /\ object'[r] = o /\ \A q \in Vertex \ {r} : object'[q] = object[q]
  BY <1>2, <1>5 DEF ResolverInv, ObjectTypes
<1>8. GraphTypes' /\ ObjectTypes'
  <2>1. GraphTypes' /\ object' \in [Vertex -> Object \union {None}]
    BY <1>2, <1>3 DEF ResolverInv, ObjectTypes, GraphTypes
  <2> QED BY <1>3, <1>5, <1>7, <2>1 DEF ResolverInv, ObjectTypes, Vertex
<1>9. Grown
  BY <1>5, <1>7 DEF Grown
<1>10. \A q \in Vertex : object[q] # None => Resolution!Original(q)' = Resolution!Original(q)
  BY <1>9, OriginalStays
<1>11. Resolution!Original(r)' = g.todo
  BY <1>3, <1>4, <1>5, <1>7 DEF Resolution!Original, Resolution!Relationships
<1>12. LinksSound'
  <2> SUFFICES ASSUME NEW q \in Vertex, object'[q] # None
               PROVE  (/\ Len(object[q].links) <= Len(Resolution!Original(q))
                       /\ \A i \in 1..Len(object[q].links) :
                             LinkTo(object[q].links[i], Resolution!Original(q)[i]))'
    BY DEF LinksSound
  <2>1. CASE q = r
    <3>1. Len(g.todo) \in Nat
      BY <1>4, RelationshipsFacts
    <3>2. object'[q].links = <<>> /\ Len(<<>>) = 0
      BY <1>3, <1>7, <2>1
    <3>3. Len(Resolution!Original(q)') = Len(g.todo)
      BY <1>11, <2>1
    <3> QED BY <3>1, <3>2, <3>3
  <2>2. CASE q # r
    <3>1. object'[q] = object[q] /\ object[q] # None
      BY <1>7, <2>2
    <3>2. Resolution!Original(q)' = Resolution!Original(q)
      BY <1>10, <3>1
    <3>3. /\ Len(object[q].links) <= Len(Resolution!Original(q))
          /\ \A i \in 1..Len(object[q].links) :
                LinkTo(object[q].links[i], Resolution!Original(q)[i])
      BY <3>1 DEF ResolverInv, LinksSound
    <3>4. Resolution!Original(q) \in Seq(Resolution!Value)
          /\ object[q].links \in Seq(Resource \union {None})
      BY <3>1, OriginalType DEF ResolverInv, ObjectTypes, Object
    <3>5. ASSUME NEW i \in 1..Len(object'[q].links)
          PROVE  LinkTo(object[q].links[i], Resolution!Original(q)[i])'
      <4>1. PICK l : l = object[q].links[i]
        OBVIOUS
      <4>2. PICK v : v = Resolution!Original(q)[i]
        OBVIOUS
      <4>3. LinkTo(l, v) /\ v \in Resolution!Value
        BY <3>1, <3>3, <3>4, <4>1, <4>2
      <4>4. LinkTo(l, v)'
        BY <1>9, <4>3, LinkStays DEF Resolution!Value, Vertex
      <4> QED BY <3>1, <3>2, <4>1, <4>2, <4>4 DEF LinkTo
    <3> QED BY <3>1, <3>2, <3>3, <3>5
  <2> QED BY <2>1, <2>2
<1>13. FrameSound(g)'
  <2>1. Len(g.todo) \in Nat
    BY <1>4, RelationshipsFacts
  <2>2. object'[r].links = <<>> /\ object'[r] # None
    BY <1>3, <1>7
  <2> QED BY <1>4, <1>11, <2>1, <2>2, NewFrame
<1>14. Pushed(g)
  BY <1>4, <1>5, <1>6, StackPushed
<1>15. FramesSound(frames)'
  BY <1>4, <1>5, <1>7, <1>9, <1>13, <1>14, PushSound DEF ResolverInv, Vertex
<1> QED BY <1>8, <1>12, <1>15 DEF ResolverInv

LEMMA ResolverNext ==
    ASSUME Resolution!ResolverAssumption, ResolverInv, [Resolution!Next]_(Resolution!vars)
    PROVE  ResolverInv'
<1>1. CASE UNCHANGED Resolution!vars
  <2>1. UNCHANGED <<ledger, sent, copied, object, frames>>
    BY <1>1 DEF Resolution!vars
  <2>2. \A r : Resolution!Original(r)' = Resolution!Original(r)
    BY <2>1 DEF Resolution!Original
  <2>3. GraphTypes' /\ ObjectTypes'
    BY <2>1 DEF ResolverInv, GraphTypes, ObjectTypes
  <2>4. LinksSound'
    BY <2>1, <2>2 DEF ResolverInv, LinksSound, LinkTo
  <2>5. FramesSound(frames)'
    BY <2>1, <2>2 DEF ResolverInv, FramesSound, FrameSound, WaitsFor
  <2> QED BY <2>3, <2>4, <2>5 DEF ResolverInv
<1>2. ASSUME frames # <<>>
      PROVE  /\ Resolution!Top = frames[1] /\ frames[1] \in StackFrame
             /\ frames[1].todo # <<>> =>
                   /\ Resolution!Target = frames[1].todo[1].of /\ Resolution!Target \in Resource
                   /\ Head(frames[1].todo) = frames[1].todo[1]
  <2>1. frames \in Seq(StackFrame)
    BY DEF ResolverInv, FramesSound
  <2>2. Resolution!Top = frames[1] /\ frames[1] \in StackFrame
    BY <1>2, <2>1, TailFacts DEF Resolution!Top
  <2>3. frames[1].todo \in Seq(Resolution!Value)
    BY <2>2 DEF StackFrame
  <2>4. frames[1].todo # <<>> => /\ Head(frames[1].todo) = frames[1].todo[1]
                                /\ frames[1].todo[1] \in Resolution!Value
    BY <2>3
  <2> QED BY <2>2, <2>4 DEF Resolution!Target, Resolution!Value
<1>3. CASE Resolution!Cached
  <2>1. /\ frames # <<>> /\ frames[1].todo # <<>> /\ object[Resolution!Target] # None
        /\ UNCHANGED <<ledger, sent, copied>>
        /\ Resolution!Linked(object, frames, Resolution!Target)
    BY <1>2, <1>3 DEF Resolution!Cached, Resolution!AtValue
  <2>2. PICK link : link = Resolution!Target
    OBVIOUS
  <2>3. LinkTo(link, frames[1].todo[1]) /\ link \in Resource
    BY <1>2, <2>1, <2>2 DEF LinkTo
  <2> QED BY <2>1, <2>2, <2>3, LinkedSound DEF ResolverInv
<1>4. CASE Resolution!Invalid
  <2>1. /\ frames # <<>> /\ frames[1].todo # <<>> /\ ~frames[1].todo[1].copy
        /\ ledger[frames[1].todo[1].of] = None
        /\ UNCHANGED <<ledger, sent, copied>>
        /\ Resolution!Linked(object, frames, None)
    BY <1>2, <1>4 DEF Resolution!Invalid, Resolution!AtValue
  <2>2. LinkTo(None, frames[1].todo[1])
    BY <2>1 DEF LinkTo
  <2> QED BY <2>1, <2>2, LinkedSound DEF ResolverInv
<1>5. CASE Resolution!Get
  <2>1. /\ frames # <<>> /\ frames[1].todo # <<>> /\ object[Resolution!Target] = None
        /\ ledger[Resolution!Target] # None /\ UNCHANGED <<ledger, sent, copied>>
        /\ Resolution!Resolve("ledger", ledger[Resolution!Target])
    BY <1>2, <1>5 DEF Resolution!Get, Resolution!AtValue
  <2>2. PICK r \in Resource : r = Resolution!Target
    BY <1>2, <2>1
  <2>3. ledger[r] \in Seq(Resource)
    BY <2>1, <2>2 DEF ResolverInv, GraphTypes
  <2>4. object' = [object EXCEPT ![r] = Resolution!New("ledger")]
        /\ frames' = <<Resolution!Frame(r, Resolution!Relationships(ledger[r]))>> \o frames
    BY <2>1, <2>2 DEF Resolution!Resolve
  <2> QED BY <1>2, <2>1, <2>2, <2>3, <2>4, ResolveSound
<1>6. CASE Resolution!Copy
  <2>1. /\ frames # <<>> /\ frames[1].todo # <<>> /\ object[Resolution!Target] = None
        /\ UNCHANGED <<ledger, sent, copied>> /\ Resolution!Resolve("sent", copied)
    BY <1>2, <1>6 DEF Resolution!Copy, Resolution!AtValue
  <2>2. PICK r \in Resource : r = Resolution!Target
    BY <1>2, <2>1
  <2>3. copied \in Seq(Resource)
    BY DEF ResolverInv, GraphTypes
  <2>4. object' = [object EXCEPT ![r] = Resolution!New("sent")]
        /\ frames' = <<Resolution!Frame(r, Resolution!Relationships(copied))>> \o frames
    BY <2>1, <2>2 DEF Resolution!Resolve
  <2> QED BY <1>2, <2>1, <2>2, <2>3, <2>4, ResolveSound
<1>7. CASE Resolution!Return
  <2>1. /\ frames # <<>> /\ frames[1].todo = <<>> /\ UNCHANGED <<ledger, sent, copied>>
        /\ IF Len(frames) = 1 THEN frames' = <<>> /\ UNCHANGED object
           ELSE Resolution!Linked(object, Tail(frames), frames[1].of)
    BY <1>2, <1>7 DEF Resolution!Return
  <2>2. PICK pile : pile = Tail(frames)
    OBVIOUS
  <2>3. /\ frames \in Seq(StackFrame) /\ pile \in Seq(StackFrame)
        /\ Len(pile) = Len(frames) - 1 /\ Len(frames) >= 1
        /\ \A i \in 1..Len(pile) : pile[i] = frames[i + 1] /\ i + 1 \in 1..Len(frames)
    BY <2>1, <2>2, TailFacts DEF ResolverInv, FramesSound
  \* All values of the resource of the frame that returns are set.
  <2>4. PICK r : r = frames[1].of
    OBVIOUS
  <2>5. object[r] # None /\ r \in Vertex /\ Len(object[r].links) = Len(Resolution!Original(r))
    <3>1. FrameSound(frames[1]) /\ frames[1] \in StackFrame
      BY <2>3 DEF ResolverInv, FramesSound
    <3>2. object[r] # None /\ r \in Vertex
      BY <2>4, <3>1 DEF FrameSound, StackFrame
    <3>3. object[r].links \in Seq(Resource \union {None})
      BY <3>2 DEF ResolverInv, ObjectTypes, Object
    <3>4. PICK a \in Nat : a = Len(object[r].links)
      BY <3>3
    <3>5. PICK c : c = Len(Resolution!Original(r))
      OBVIOUS
    <3>6. a + Len(frames[1].todo) = c
      BY <2>4, <3>1, <3>4, <3>5 DEF FrameSound
    <3>7. Len(frames[1].todo) = 0
      BY <2>1
    <3>8. a + 0 = c
      BY <3>6, <3>7
    <3> QED BY <3>2, <3>4, <3>5, <3>8
  <2>6. FramesSound(pile)
    <3>1. \A i \in 1..Len(pile) : FrameSound(pile[i])
      BY <2>3 DEF ResolverInv, FramesSound
    <3>2. ASSUME NEW i \in 1..Len(pile), i > 1 PROVE WaitsFor(pile[i], pile[i - 1])
      <4>1. i - 1 \in 1..Len(pile) /\ (i - 1) + 1 = i /\ (i + 1) - 1 = i /\ i + 1 > 1
        BY <2>3, <3>2
      <4>2. pile[i] = frames[i + 1] /\ pile[i - 1] = frames[i]
        BY <2>3, <4>1
      <4>3. WaitsFor(frames[i + 1], frames[(i + 1) - 1])
        BY <2>3, <4>1 DEF ResolverInv, FramesSound
      <4> QED BY <4>1, <4>2, <4>3
    <3>3. ASSUME NEW i \in 1..Len(pile), NEW j \in 1..Len(pile),
                 pile[i].of = pile[j].of
          PROVE  i = j
      <4>1. /\ i + 1 \in 1..Len(frames) /\ pile[i] = frames[i + 1]
            /\ j + 1 \in 1..Len(frames) /\ pile[j] = frames[j + 1]
        BY <2>3
      <4>2. frames[i + 1].of = frames[j + 1].of
        BY <3>3, <4>1
      <4>3. \A k, l \in 1..Len(frames) : frames[k].of = frames[l].of => k = l
        BY DEF ResolverInv, FramesSound
      <4>4. i + 1 = j + 1
        BY <4>1, <4>2, <4>3
      <4> QED BY <2>3, <4>4
    <3>4. ASSUME NEW q \in Vertex, object[q] # None, \A i \in 1..Len(pile) : pile[i].of # q
          PROVE  Len(object[q].links) = Len(Resolution!Original(q))
      <4>1. CASE q = r
        BY <2>5, <4>1
      <4>2. CASE q # r
        <5>1. ASSUME NEW i \in 1..Len(frames) PROVE frames[i].of # q
          <6>1. CASE i = 1
            BY <2>4, <4>2, <6>1
          <6>2. CASE i > 1
            <7>1. i - 1 \in 1..Len(pile) /\ (i - 1) + 1 = i
              BY <2>3, <6>2
            <7> QED BY <2>3, <3>4, <7>1
          <6> QED BY <6>1, <6>2
        <5> QED BY <3>4, <5>1 DEF ResolverInv, FramesSound
      <4> QED BY <4>1, <4>2
    <3> QED BY <2>3, <3>1, <3>2, <3>3, <3>4 DEF FramesSound
  <2>7. CASE Len(frames) = 1
    <3>1. frames' = pile /\ object' = object
      BY <2>1, <2>2, <2>3, <2>7
    <3>2. \A q : Resolution!Original(q)' = Resolution!Original(q)
      BY <2>1, <3>1 DEF Resolution!Original
    <3>3. GraphTypes' /\ ObjectTypes'
      BY <2>1, <3>1 DEF ResolverInv, GraphTypes, ObjectTypes
    <3>4. LinksSound'
      BY <2>1, <3>1, <3>2 DEF ResolverInv, LinksSound, LinkTo
    <3>5. FramesSound(frames)'
      BY <2>6, <3>1, <3>2 DEF FramesSound, FrameSound, WaitsFor
    <3> QED BY <3>3, <3>4, <3>5 DEF ResolverInv
  <2>8. CASE Len(frames) # 1
    <3>1. pile # <<>> /\ pile[1] = frames[2] /\ 2 \in 1..Len(frames)
      BY <2>3, <2>8
    <3>2. WaitsFor(frames[2], frames[1])
      BY <3>1 DEF ResolverInv, FramesSound
    <3>3. pile[1].todo # <<>> /\ pile[1].todo[1].of = r
      BY <2>4, <3>1, <3>2 DEF WaitsFor
    <3>4. r \in Resource
      <4>1. pile[1].todo \in Seq(Resolution!Value)
        <5>1. pile[1] \in StackFrame
          BY <2>3, <3>1
        <5> QED BY <5>1 DEF StackFrame
      <4>2. pile[1].todo[1] \in Resolution!Value
        BY <3>3, <4>1
      <4> QED BY <3>3, <4>2 DEF Resolution!Value
    <3>5. LinkTo(r, pile[1].todo[1])
      BY <2>5, <3>3 DEF LinkTo
    <3>6. Resolution!Linked(object, pile, r)
      BY <2>1, <2>2, <2>4, <2>8
    <3> QED BY <2>1, <2>6, <3>1, <3>3, <3>4, <3>5, <3>6, LinkedSound DEF ResolverInv
  <2> QED BY <2>7, <2>8
<1> QED BY <1>1, <1>3, <1>4, <1>5, <1>6, <1>7 DEF Resolution!Next

\* Theorem (ResolverInvariant): each resource has the values that were looked at, in their
\* order, each frame of the recursion those that are left, and waits for the one in front of
\* it (resolver.js, resolveResourceOrConcept).
THEOREM ResolverInvariant == Resolution!ResolverAssumption /\ Resolution!Spec => []ResolverInv
<1> SUFFICES ASSUME Resolution!ResolverAssumption PROVE Resolution!Spec => []ResolverInv
  OBVIOUS
<1>1. Resolution!Init => ResolverInv
  BY ResolverInit
<1>2. ResolverInv /\ [Resolution!Next]_(Resolution!vars) => ResolverInv'
  BY ResolverNext
<1> QED BY <1>1, <1>2, PTL DEF Resolution!Spec

LEMMA ResolvedSound ==
    ASSUME ResolverInv
    PROVE  Resolution!NoReentry /\ Resolution!Whole
<1>1. frames \in Seq(StackFrame) /\ DOMAIN frames = 1..Len(frames) /\ DOMAIN object = Vertex
  BY DEF ResolverInv, FramesSound, ObjectTypes
<1>2. Resolution!NoReentry
  BY <1>1 DEF ResolverInv, FramesSound, Resolution!NoReentry
<1>3. ASSUME NEW r \in Resolution!Made
      PROVE  /\ Resolution!FrameOf(r) = {} =>
                   Len(object[r].links) = Len(Resolution!Original(r))
             /\ \A i \in DOMAIN object[r].links :
                   LET of == Resolution!Original(r)[i].of IN
                   \/ object[r].links[i] = of /\ of \in Resolution!Made
                   \/ /\ object[r].links[i] = None /\ ledger[of] = None
                      /\ ~Resolution!Original(r)[i].copy
  <2>1. r \in Vertex /\ object[r] # None
    BY <1>1 DEF Resolution!Made
  <2>2. object[r].links \in Seq(Resource \union {None})
        /\ Resolution!Original(r) \in Seq(Resolution!Value)
    BY <2>1, OriginalType DEF ResolverInv, ObjectTypes, Object
  <2>3. DOMAIN object[r].links = 1..Len(object[r].links)
    BY <2>2
  <2>4. Resolution!FrameOf(r) = {} => Len(object[r].links) = Len(Resolution!Original(r))
    BY <1>1, <2>1 DEF ResolverInv, FramesSound, Resolution!FrameOf
  <2>5. ASSUME NEW i \in 1..Len(object[r].links)
        PROVE  LET of == Resolution!Original(r)[i].of IN
               \/ object[r].links[i] = of /\ of \in Resolution!Made
               \/ /\ object[r].links[i] = None /\ ledger[of] = None
                  /\ ~Resolution!Original(r)[i].copy
    <3>1. /\ LinkTo(object[r].links[i], Resolution!Original(r)[i])
          /\ Len(object[r].links) <= Len(Resolution!Original(r))
      BY <2>1 DEF ResolverInv, LinksSound
    <3>2. Resolution!Original(r)[i] \in Resolution!Value
      BY <2>2, <3>1
    <3>3. Resolution!Original(r)[i].of \in Vertex
      BY <3>2 DEF Resolution!Value, Vertex
    <3> QED BY <1>1, <3>1, <3>3 DEF LinkTo, Resolution!Made
  <2> QED BY <2>3, <2>4, <2>5
<1> QED BY <1>2, <1>3 DEF Resolution!Whole

\* Theorem (ResolverWhole): whatever circles the relationships form, no resource is
\* resolved while it is being resolved, and what is resolved has every value in its place,
\* for any number of resources and relationships, though others got it from the map when it
\* was not done (resolver.js, resolveRelationship and its cachedResources).
THEOREM ResolverWhole ==
    Resolution!ResolverAssumption /\ Resolution!Spec
        => [](Resolution!NoReentry /\ Resolution!Whole)
BY ResolverInvariant, ResolvedSound, PTL

\* Theorem (ResolverResolves): the types, circles that end, and resolved resources that
\* are whole, together.
THEOREM ResolverResolves ==
    Resolution!ResolverAssumption /\ Resolution!Spec => []Resolution!ResolvedWhole
<1>1. ResolverInv => Resolution!TypeOK
  <2> SUFFICES ASSUME ResolverInv PROVE Resolution!TypeOK
    OBVIOUS
  <2>1. ASSUME NEW r \in Resolution!Made PROVE object[r].from \in {"ledger", "sent"}
    BY DEF ResolverInv, ObjectTypes, Object, Resolution!Made
  <2>2. ASSUME NEW i \in DOMAIN frames PROVE frames[i].of \in Resource \union {Root}
    <3>1. frames \in Seq(StackFrame)
      BY DEF ResolverInv, FramesSound
    <3>2. frames[i] \in StackFrame
      BY <3>1
    <3> QED BY <3>2 DEF StackFrame, Vertex
  <2> QED BY <2>1, <2>2 DEF Resolution!TypeOK
<1> QED BY <1>1, ResolverInvariant, ResolverWhole, PTL DEF Resolution!ResolvedWhole

-----------------------------------------------------------------------------
(***************************************************************************)
(* The access controller.  A check runs the condition of a rule, for which *)
(* relationships are resolved, and to resolve one is to check a read: what *)
(* the rules mean (Readable, FirstMatch) is defined by recursion, and what *)
(* the checks do is proved to be that by induction over the steps that it  *)
(* takes to read a resource, for a set of naturals (NaturalSet).           *)
(***************************************************************************)
\* Induction over the naturals, for a set of them.
LEMMA NaturalSet ==
    ASSUME NEW S, 0 \in S, \A n \in Nat : n \in S => n + 1 \in S
    PROVE  Nat \subseteq S
<1> DEFINE R == OpToRel(<, Nat)
           T == Nat \ S
<1>1. IsWellFoundedOn(R, Nat)
  BY NatLessThanWellFounded
<1>2. \A x, y \in Nat : x < y => <<x, y>> \in R
  BY DEF OpToRel
<1> HIDE DEF R
<1>3. ASSUME T # {} PROVE FALSE
  <2>1. PICK x \in T : \A y \in T : ~ (<<y, x>> \in R)
    BY <1>1, <1>3, WFMin
  <2>2. x # 0 /\ x - 1 \in Nat /\ x - 1 < x /\ (x - 1) + 1 = x
    <3>1. x \in Nat /\ x # 0
      BY <2>1
    <3> QED BY <3>1
  <2>3. x - 1 \notin T
    BY <1>2, <2>1, <2>2
  <2> QED BY <2>1, <2>2, <2>3
<1> QED BY <1>3

\* A function that is defined from its first value, stride by stride, exists.
Recursion(n, D, base, stride, f) ==
    f \in [0 .. n -> D] /\ f[0] = base /\ \A k \in 1 .. n : f[k] = stride[f[k - 1]]
LEMMA RecursionExists ==
    \A n \in Nat : \A D : \A base \in D : \A stride \in [D -> D] :
       \E f : Recursion(n, D, base, stride, f)
<1> SUFFICES ASSUME NEW n \in Nat, NEW D, NEW base \in D, NEW stride \in [D -> D]
             PROVE  \E f : Recursion(n, D, base, stride, f)
  OBVIOUS
<1> DEFINE Good(m) == \E f \in [0 .. m -> D] : f[0] = base /\ \A k \in 1 .. m : f[k] = stride[f[k - 1]]
           S == {m \in Nat : Good(m)}
<1>1. Good(0)
  <2> DEFINE f == [k \in 0 .. 0 |-> base]
  <2>1. f \in [0 .. 0 -> D] /\ f[0] = base /\ 1 .. 0 = {}
    OBVIOUS
  <2> QED BY <2>1
<1>2. ASSUME NEW m \in Nat, Good(m) PROVE Good(m + 1)
  <2>1. PICK f \in [0 .. m -> D] : f[0] = base /\ \A k \in 1 .. m : f[k] = stride[f[k - 1]]
    BY <1>2
  <2> DEFINE g == [k \in 0 .. m + 1 |-> IF k <= m THEN f[k] ELSE stride[f[m]]]
  <2>2. g \in [0 .. m + 1 -> D]
    <3>1. \A k \in 0 .. m + 1 : k <= m => k \in 0 .. m
      OBVIOUS
    <3>2. stride[f[m]] \in D
      OBVIOUS
    <3> QED BY <3>1, <3>2
  <2>3. g[0] = base
    BY <2>1
  <2>4. ASSUME NEW k \in 1 .. m + 1 PROVE g[k] = stride[g[k - 1]]
    <3>1. k - 1 \in 0 .. m /\ k - 1 \in 0 .. m + 1 /\ k - 1 <= m
      OBVIOUS
    <3>2. g[k - 1] = f[k - 1]
      BY <3>1
    <3>3. CASE k <= m
      <4>1. k \in 1 .. m /\ g[k] = f[k]
        BY <3>3
      <4> QED BY <2>1, <3>2, <4>1
    <3>4. CASE ~(k <= m)
      <4>1. k - 1 = m
        BY <3>4
      <4> QED BY <3>2, <3>4, <4>1
    <3> QED BY <3>3, <3>4
  <2> QED BY <2>2, <2>3, <2>4
<1> HIDE DEF Good
<1>3. 0 \in S /\ \A m \in Nat : m \in S => m + 1 \in S
  BY <1>1, <1>2
<1>4. Nat \subseteq S
  <2> HIDE DEF S
  <2> QED BY <1>3, NaturalSet
<1>5. Good(n)
  BY <1>4
<1> QED BY <1>5 DEF Good, Recursion

-----------------------------------------------------------------------------
Node == Asset \union {Registry}

SceneTypes ==
    /\ network \in Networks
    /\ stored \in SUBSET Asset /\ flagged \in SUBSET Asset
    /\ caller \in Caller \union {None} /\ within \in Transaction \union {None}

LEMMA RelatedFacts ==
    ASSUME Access!AccessAssumption, SceneTypes
    PROVE  /\ \A r : Access!Related(r) \in Asset \union {None}
           /\ Access!Related(Registry) = None /\ Access!Related(None) = None
           /\ \A r \in Asset : Access!Related(r) = network.related[r]
           /\ Registry \notin Asset /\ None \notin Node
           /\ network.rules # None => network.rules \in Seq(Access!AclRule)
BY DEF Access!AccessAssumption, SceneTypes, Access!Related, Node

LEMMA AssetsFinite ==
    ASSUME Access!AccessAssumption
    PROVE  /\ Cardinality(Asset) \in Nat
           /\ Access!Cardinality(Asset) = Cardinality(Asset)
<1>1. IsFiniteSet(Asset)
  BY DEF Access!AccessAssumption, Access!IsFiniteSet, IsFiniteSet
<1>2. Cardinality(Asset) \in Nat
  BY <1>1, FS_CardinalityType
<1>3. Access!Cardinality(Asset) = Cardinality(Asset)
  BY DEF Access!Cardinality, Cardinality
<1> QED BY <1>2, <1>3

\* One relationship further in what a condition visits.
Onward(readable, resource, r) ==
    IF r # None /\ Access!Related(r) \in readable \union {resource}
    THEN Access!Related(r) ELSE None

Visits(readable, resource, hops, at) ==
    /\ at \in [0 .. hops -> Node \union {None}]
    /\ at[0] = resource
    /\ \A k \in 1 .. hops : at[k] = Onward(readable, resource, at[k - 1])

LEMMA VisitSteps ==
    ASSUME Access!AccessAssumption, SceneTypes,
           NEW readable \in SUBSET Asset, NEW r \in Node, NEW hops \in Nat
    PROVE  \E at : /\ Visits(readable, r, hops, at)
                  /\ Access!Visit(readable, r, hops) = at[hops]
<1> DEFINE D == Node \union {None}
           stride == [x \in D |-> Onward(readable, r, x)]
           At == CHOOSE at : at = [k \in 0 .. hops |->
                    IF k = 0 THEN r
                    ELSE IF at[k-1] # None /\ Access!Related(at[k-1]) \in readable \union {r}
                    THEN Access!Related(at[k-1]) ELSE None]
<1>1. stride \in [D -> D]
  BY RelatedFacts DEF Onward, Node
<1>2. PICK f \in [0 .. hops -> D] : f[0] = r /\ \A k \in 1 .. hops : f[k] = stride[f[k - 1]]
  <2>1. r \in D
    OBVIOUS
  <2> HIDE DEF stride, D, At
  <2>2. \E f : Recursion(hops, D, r, stride, f)
    BY <1>1, <2>1, RecursionExists
  <2> QED BY <2>2 DEF Recursion
<1>3. ASSUME NEW k \in 1 .. hops PROVE f[k] = Onward(readable, r, f[k - 1])
  <2>1. k - 1 \in 0 .. hops
    OBVIOUS
  <2>2. f[k - 1] \in D
    BY <2>1
  <2> QED BY <1>2, <2>2
<1>4. f = [k \in 0 .. hops |->
             IF k = 0 THEN r
             ELSE IF f[k-1] # None /\ Access!Related(f[k-1]) \in readable \union {r}
             THEN Access!Related(f[k-1]) ELSE None]
  <2>1. \A k \in 0 .. hops : k # 0 => k \in 1 .. hops
    OBVIOUS
  <2> QED BY <1>2, <1>3, <2>1 DEF Onward
<1>5. At = [k \in 0 .. hops |->
              IF k = 0 THEN r
              ELSE IF At[k-1] # None /\ Access!Related(At[k-1]) \in readable \union {r}
              THEN Access!Related(At[k-1]) ELSE None]
  BY <1>4
<1>6. Access!Visit(readable, r, hops) = At[hops]
  BY DEF Access!Visit
<1> HIDE DEF At
<1>7. At[0] = r /\ \A k \in 1 .. hops : At[k] = Onward(readable, r, At[k - 1])
  BY <1>5 DEF Onward
<1>8. At \in [0 .. hops -> D]
  <2>1. At = [k \in 0 .. hops |-> At[k]]
    BY <1>5
  <2>2. ASSUME NEW k \in 0 .. hops PROVE At[k] \in D
    <3>1. CASE k = 0
      BY <1>7, <3>1
    <3>2. CASE k # 0
      <4>1. k \in 1 .. hops
        BY <3>2
      <4> QED BY <1>7, <4>1, RelatedFacts DEF Onward, Node
    <3> QED BY <3>1, <3>2
  <2> QED BY <2>1, <2>2
<1> QED BY <1>6, <1>7, <1>8 DEF Visits

\* The resources that a condition has reached one after the other.
Visited(readable, resource, path) ==
    /\ path \in Seq(Node) /\ Len(path) >= 1 /\ path[1] = resource
    /\ \A k \in 1 .. Len(path) - 1 :
          /\ path[k + 1] = Access!Related(path[k])
          /\ path[k + 1] \in readable \union {resource}

LEMMA VisitPath ==
    ASSUME Access!AccessAssumption, SceneTypes,
           NEW readable \in SUBSET Asset, NEW r \in Node, NEW hops \in Nat,
           NEW path, Visited(readable, r, path)
    PROVE  /\ Len(path) = hops + 1 => Access!Visit(readable, r, hops) = path[Len(path)]
           /\ Len(path) <= hops /\ Access!Related(path[Len(path)]) \notin readable \union {r}
                 => Access!Visit(readable, r, hops) = None
<1>0. PICK at : Visits(readable, r, hops, at) /\ Access!Visit(readable, r, hops) = at[hops]
  BY VisitSteps
<1>1. /\ at[0] = r
      /\ \A k \in 1 .. hops : at[k] = Onward(readable, r, at[k - 1])
  BY <1>0 DEF Visits
<1>2. Len(path) \in Nat /\ Len(path) >= 1 /\ path[1] = r
  BY DEF Visited
<1>3. \A k \in 1 .. Len(path) : path[k] \in Node /\ path[k] # None
  BY RelatedFacts DEF Visited
<1> DEFINE S == {k \in Nat : k < Len(path) /\ k <= hops => at[k] = path[k + 1]}
           T == {k \in Nat : Len(path) <= k /\ k <= hops => at[k] = None}
<1>4. Nat \subseteq S
  <2>1. 0 \in S
    BY <1>1, <1>2
  <2>2. ASSUME NEW k \in Nat, k \in S PROVE k + 1 \in S
    <3> SUFFICES ASSUME k + 1 < Len(path), k + 1 <= hops PROVE at[k + 1] = path[k + 2]
      OBVIOUS
    <3>1. at[k] = path[k + 1]
      BY <2>2, <1>2
    <3>2. k + 1 \in 1 .. hops /\ (k + 1) - 1 = k
      OBVIOUS
    <3>3. k + 1 \in 1 .. Len(path) - 1 /\ k + 1 \in 1 .. Len(path) /\ (k + 1) + 1 = k + 2
      BY <1>2
    <3>4. at[k + 1] = Onward(readable, r, path[k + 1])
      BY <1>1, <3>1, <3>2
    <3>5. /\ path[k + 2] = Access!Related(path[k + 1])
          /\ path[k + 2] \in readable \union {r}
      BY <3>3 DEF Visited
    <3> QED BY <1>3, <3>3, <3>4, <3>5 DEF Onward
  <2> HIDE DEF S
  <2> QED BY <2>1, <2>2, NaturalSet
<1>5. ASSUME Access!Related(path[Len(path)]) \notin readable \union {r} PROVE Nat \subseteq T
  <2>1. 0 \in T
    BY <1>2
  <2>2. ASSUME NEW k \in Nat, k \in T PROVE k + 1 \in T
    <3> SUFFICES ASSUME Len(path) <= k + 1, k + 1 <= hops PROVE at[k + 1] = None
      OBVIOUS
    <3>1. k + 1 \in 1 .. hops /\ (k + 1) - 1 = k
      OBVIOUS
    <3>2. at[k + 1] = Onward(readable, r, at[k])
      BY <1>1, <3>1
    <3>3. CASE Len(path) <= k
      <4>1. at[k] = None
        BY <2>2, <3>3, <1>2
      <4> QED BY <3>2, <4>1 DEF Onward
    <3>4. CASE ~(Len(path) <= k)
      <4>1. Len(path) = k + 1
        BY <3>4, <1>2
      <4>2. k \in S
        BY <1>4
      <4>3. at[k] = path[Len(path)]
        BY <4>1, <4>2, <1>2
      <4> QED BY <1>5, <3>2, <4>3 DEF Onward
    <3> QED BY <3>3, <3>4
  <2> HIDE DEF T
  <2> QED BY <2>1, <2>2, NaturalSet
<1>6. ASSUME Len(path) = hops + 1 PROVE at[hops] = path[Len(path)]
  <2>1. hops \in S
    BY <1>4
  <2> QED BY <1>2, <1>6, <2>1
<1>7. ASSUME Len(path) <= hops, Access!Related(path[Len(path)]) \notin readable \union {r}
      PROVE  at[hops] = None
  <2>1. hops \in T
    BY <1>5, <1>7
  <2> QED BY <1>2, <1>7, <2>1
<1> QED BY <1>0, <1>6, <1>7

\* Where a condition follows no relationship, or is about the registry, what can be read
\* does not matter.
LEMMA VisitRegistry ==
    ASSUME Access!AccessAssumption, SceneTypes,
           NEW readable \in SUBSET Asset, NEW hops \in Nat
    PROVE  Access!Visit(readable, Registry, hops) = IF hops = 0 THEN Registry ELSE None
<1> DEFINE path == <<Registry>>
<1>1. path \in Seq(Node) /\ Len(path) = 1 /\ path[1] = Registry
  BY DEF Node
<1>2. Visited(readable, Registry, path)
  BY <1>1 DEF Visited
<1>3. Access!Related(Registry) \notin readable \union {Registry}
  BY RelatedFacts DEF Node
<1>4. Registry \in Node
  BY DEF Node
<1> HIDE DEF path
<1>5. /\ 1 = hops + 1 => Access!Visit(readable, Registry, hops) = Registry
      /\ 1 <= hops => Access!Visit(readable, Registry, hops) = None
  <2>1. \A q : Visited(readable, Registry, q) =>
          /\ Len(q) = hops + 1 => Access!Visit(readable, Registry, hops) = q[Len(q)]
          /\ Len(q) <= hops /\ Access!Related(q[Len(q)]) \notin readable \union {Registry}
                => Access!Visit(readable, Registry, hops) = None
    BY <1>4, VisitPath
  <2> QED BY <1>1, <1>2, <1>3, <2>1
<1> QED BY <1>5

\* A resource is some steps away from the end of what it is related to.
Steps(steps) ==
    /\ steps \in [Asset -> 0 .. Cardinality(Asset)]
    /\ \A r \in Asset : Access!Related(r) \in Asset => steps[Access!Related(r)] < steps[r]

LEMMA StepsExist ==
    ASSUME Access!AccessAssumption, SceneTypes, Access!Acyclic(network)
    PROVE  \E steps : Steps(steps)
<1>1. network.related \in [Asset -> Asset \union {None}]
  BY DEF Access!AccessAssumption, SceneTypes
<1> QED BY <1>1, AssetsFinite, RelatedFacts DEF Access!Acyclic, Steps

LEMMA VisitAgree ==
    ASSUME Access!AccessAssumption, SceneTypes, NEW hops \in Nat, NEW steps, Steps(steps),
           NEW R \in SUBSET Asset, NEW S \in SUBSET Asset, NEW r \in Asset,
           \A x \in Asset : steps[x] < steps[r] => (x \in R <=> x \in S)
    PROVE  Access!Visit(R, r, hops) = Access!Visit(S, r, hops)
<1>0. Cardinality(Asset) \in Nat
  BY AssetsFinite
<1>r. r \in Node
  BY DEF Node
<1>p. PICK at : Visits(R, r, hops, at) /\ Access!Visit(R, r, hops) = at[hops]
  BY <1>r, VisitSteps
<1>q. PICK on : Visits(S, r, hops, on) /\ Access!Visit(S, r, hops) = on[hops]
  BY <1>r, VisitSteps
<1>1. at[0] = r /\ \A k \in 1 .. hops : at[k] = Onward(R, r, at[k - 1])
  BY <1>p DEF Visits
<1>2. on[0] = r /\ \A k \in 1 .. hops : on[k] = Onward(S, r, on[k - 1])
  BY <1>q DEF Visits
<1> DEFINE Near(x) == x = None \/ (x \in Asset /\ steps[x] <= steps[r])
           T == {k \in Nat : k <= hops => at[k] = on[k] /\ Near(at[k])}
<1>3. \A x \in Asset : steps[x] \in Nat
  BY <1>0 DEF Steps
<1>4. ASSUME NEW x, Near(x) PROVE Onward(R, r, x) = Onward(S, r, x) /\ Near(Onward(R, r, x))
  <2>1. CASE x = None
    BY <2>1 DEF Onward
  <2>2. CASE x \in Asset /\ Access!Related(x) \in Asset
    <3>1. steps[Access!Related(x)] < steps[x] /\ steps[x] <= steps[r]
      BY <1>4, <2>2, RelatedFacts DEF Steps, Node
    <3>2. steps[Access!Related(x)] < steps[r]
      BY <1>3, <2>2, <3>1
    <3>3. Access!Related(x) \in R <=> Access!Related(x) \in S
      BY <2>2, <3>2
    <3>4. steps[Access!Related(x)] <= steps[r]
      BY <1>3, <2>2, <3>2
    <3> QED BY <2>2, <3>3, <3>4 DEF Onward
  <2>3. CASE Access!Related(x) \notin Asset
    <3>1. Access!Related(x) = None /\ None \notin R \union S \union {r}
      BY <2>3, RelatedFacts DEF Node
    <3> QED BY <3>1 DEF Onward
  <2> QED BY <1>4, <2>1, <2>2, <2>3
<1>5. Nat \subseteq T
  <2>1. 0 \in T
    BY <1>1, <1>2, <1>3
  <2>2. ASSUME NEW k \in Nat, k \in T PROVE k + 1 \in T
    <3> SUFFICES ASSUME k + 1 <= hops PROVE at[k + 1] = on[k + 1] /\ Near(at[k + 1])
      OBVIOUS
    <3>1. at[k] = on[k] /\ Near(at[k])
      BY <2>2
    <3>2. k + 1 \in 1 .. hops /\ (k + 1) - 1 = k
      OBVIOUS
    <3> HIDE DEF Near
    <3>3. at[k + 1] = Onward(R, r, at[k]) /\ on[k + 1] = Onward(S, r, on[k])
      BY <1>1, <1>2, <3>2
    <3> QED BY <1>4, <3>1, <3>3
  <2> HIDE DEF T
  <2> QED BY <2>1, <2>2, NaturalSet
<1>6. hops \in T
  BY <1>5
<1> QED BY <1>p, <1>q, <1>6
-----------------------------------------------------------------------------
Matches(readable, resource, access, i) ==
    /\ Access!Applies(network.rules[i], resource, access)
    /\ Access!Condition(readable, resource, network.rules[i])

LEMMA FirstMatchIs ==
    ASSUME Access!AccessAssumption, SceneTypes, network.rules # None,
           NEW S, NEW r, NEW a
    PROVE  Access!FirstMatch(S, r, a) <=>
             \E i \in 1 .. Len(network.rules) :
                /\ Matches(S, r, a, i) /\ network.rules[i].allow
                /\ \A j \in 1 .. Len(network.rules) : Matches(S, r, a, j) => i <= j
<1>1. DOMAIN network.rules = 1 .. Len(network.rules)
  BY RelatedFacts
<1> DEFINE M == {i \in 1 .. Len(network.rules) : Matches(S, r, a, i)}
<1>2. Access!FirstMatch(S, r, a) <=> \E i \in M : network.rules[i].allow /\ \A j \in M : i <= j
  BY <1>1 DEF Access!FirstMatch, Matches
<1> QED BY <1>2

LEMMA RuleType ==
    ASSUME Access!AccessAssumption, SceneTypes, network.rules # None,
           NEW i \in 1 .. Len(network.rules)
    PROVE  /\ network.rules[i].hops \in Nat /\ network.rules[i].allow \in BOOLEAN
           /\ network.rules[i].verbs \subseteq Access!Access \union {"ALL"}
<1>1. network.rules[i] \in Access!AclRule
  BY RelatedFacts
<1> QED BY <1>1 DEF Access!AclRule

LEMMA MatchAgree ==
    ASSUME Access!AccessAssumption, SceneTypes, network.rules # None,
           NEW R, NEW S, NEW r, NEW a,
           \A i \in 1 .. Len(network.rules) :
              Access!Applies(network.rules[i], r, a) =>
                 \/ network.rules[i].hops = 0
                 \/ Access!Visit(R, r, network.rules[i].hops) =
                    Access!Visit(S, r, network.rules[i].hops)
    PROVE  Access!FirstMatch(R, r, a) <=> Access!FirstMatch(S, r, a)
<1>1. \A i \in 1 .. Len(network.rules) : Matches(R, r, a, i) <=> Matches(S, r, a, i)
  BY DEF Matches, Access!Condition
<1> QED BY <1>1, FirstMatchIs

LEMMA RegistryAgree ==
    ASSUME Access!AccessAssumption, SceneTypes, network.rules # None,
           NEW R \in SUBSET Asset, NEW S \in SUBSET Asset, NEW a
    PROVE  Access!FirstMatch(R, Registry, a) <=> Access!FirstMatch(S, Registry, a)
<1>1. \A h \in Nat : Access!Visit(R, Registry, h) = Access!Visit(S, Registry, h)
  BY VisitRegistry
<1> QED BY <1>1, RuleType, MatchAgree

LEMMA StepsAgree ==
    ASSUME Access!AccessAssumption, SceneTypes, network.rules # None,
           NEW steps, Steps(steps),
           NEW R \in SUBSET Asset, NEW S \in SUBSET Asset, NEW r \in Asset, NEW a,
           \A x \in Asset : steps[x] < steps[r] => (x \in R <=> x \in S)
    PROVE  Access!FirstMatch(R, r, a) <=> Access!FirstMatch(S, r, a)
<1>1. \A h \in Nat : Access!Visit(R, r, h) = Access!Visit(S, r, h)
  BY VisitAgree
<1> QED BY <1>1, RuleType, MatchAgree

LEMMA LocalAgree ==
    ASSUME Access!AccessAssumption, SceneTypes, network.rules # None,
           Access!ReadsLocal(network), NEW R, NEW S, NEW r
    PROVE  Access!FirstMatch(R, r, "READ") <=> Access!FirstMatch(S, r, "READ")
<1>1. DOMAIN network.rules = 1 .. Len(network.rules)
  BY RelatedFacts
<1>2. ASSUME NEW i \in 1 .. Len(network.rules),
             Access!Applies(network.rules[i], r, "READ")
      PROVE  network.rules[i].hops = 0
  BY <1>1, <1>2 DEF Access!Applies, Access!ReadsLocal
<1> QED BY <1>2, MatchAgree

\* What can be read where so much can be read.
ReadWhere(S) ==
    IF Access!FirstMatch({}, Registry, "READ")
    THEN {r \in stored : Access!FirstMatch(S, r, "READ")} ELSE {}
Readings(to) ==
    /\ to \in [0 .. Cardinality(Asset) + 1 -> SUBSET stored]
    /\ to[0] = {}
    /\ \A k \in 1 .. Cardinality(Asset) + 1 : to[k] = ReadWhere(to[k - 1])

LEMMA ReadableSteps ==
    ASSUME Access!AccessAssumption, SceneTypes
    PROVE  \E to : Readings(to) /\ Access!Readable = to[Cardinality(Asset) + 1]
<1> DEFINE N == Cardinality(Asset) + 1
           stride == [S \in SUBSET stored |-> ReadWhere(S)]
           To == CHOOSE to : to = [n \in 0 .. N |->
                    IF n = 0 THEN {}
                    ELSE IF Access!FirstMatch({}, Registry, "READ")
                    THEN {r \in stored : Access!FirstMatch(to[n-1], r, "READ")} ELSE {}]
<1>0. N \in Nat
  BY AssetsFinite
<1>1. stride \in [SUBSET stored -> SUBSET stored]
  BY DEF ReadWhere
<1>2. PICK f : Recursion(N, SUBSET stored, {}, stride, f)
  <2>1. {} \in SUBSET stored
    OBVIOUS
  <2> HIDE DEF stride, To, N
  <2> QED BY <1>0, <1>1, <2>1, RecursionExists
<1>3. ASSUME NEW k \in 1 .. N PROVE f[k] = ReadWhere(f[k - 1])
  <2>1. k - 1 \in 0 .. N
    BY <1>0
  <2>2. f[k - 1] \in SUBSET stored
    BY <1>2, <2>1 DEF Recursion
  <2> QED BY <1>2, <2>2 DEF Recursion
<1>4. f = [n \in 0 .. N |->
             IF n = 0 THEN {}
             ELSE IF Access!FirstMatch({}, Registry, "READ")
             THEN {r \in stored : Access!FirstMatch(f[n-1], r, "READ")} ELSE {}]
  <2>1. \A k \in 0 .. N : k # 0 => k \in 1 .. N
    BY <1>0
  <2>2. f = [k \in 0 .. N |-> f[k]] /\ f[0] = {}
    BY <1>2 DEF Recursion
  <2> HIDE DEF N
  <2> QED BY <1>3, <2>1, <2>2 DEF ReadWhere
<1>5. To = [n \in 0 .. N |->
              IF n = 0 THEN {}
              ELSE IF Access!FirstMatch({}, Registry, "READ")
              THEN {r \in stored : Access!FirstMatch(To[n-1], r, "READ")} ELSE {}]
  <2> HIDE DEF N
  <2> QED BY <1>4
<1>6. Access!Readable = To[N]
  BY AssetsFinite DEF Access!Readable
<1> HIDE DEF To
<1>7. To[0] = {} /\ \A k \in 1 .. N : To[k] = ReadWhere(To[k - 1])
  <2>1. 0 \in 0 .. N /\ \A k \in 1 .. N : k \in 0 .. N /\ k # 0
    BY <1>0
  <2> HIDE DEF N
  <2> QED BY <1>5, <2>1 DEF ReadWhere
<1>8. To \in [0 .. N -> SUBSET stored]
  <2>1. \A k \in 0 .. N : k # 0 => k \in 1 .. N
    BY <1>0
  <2>2. \A k \in 0 .. N : To[k] \in SUBSET stored
    BY <1>7, <2>1 DEF ReadWhere
  <2>3. To = [k \in 0 .. N |-> To[k]]
    BY <1>5
  <2> HIDE DEF N
  <2> QED BY <2>2, <2>3
<1> QED BY <1>6, <1>7, <1>8 DEF Readings

\* What can be read is what the rules let be read: nested checks come to an end.
LEMMA ReadableFixed ==
    ASSUME Access!AccessAssumption, SceneTypes, network.rules # None,
           Access!Acyclic(network) \/ Access!ReadsLocal(network)
    PROVE  Access!Readable \subseteq stored /\ Access!Readable = ReadWhere(Access!Readable)
<1> DEFINE N == Cardinality(Asset)
<1>0. N \in Nat
  BY AssetsFinite
<1>1. PICK to : Readings(to) /\ Access!Readable = to[N + 1]
  BY ReadableSteps
<1>2. /\ \A k \in 0 .. N + 1 : to[k] \in SUBSET stored /\ to[k] \in SUBSET Asset
      /\ to[0] = {}
  BY <1>1 DEF Readings, SceneTypes
<1>3. ASSUME NEW k \in Nat, k <= N PROVE to[k + 1] = ReadWhere(to[k])
  <2>1. k + 1 \in 1 .. N + 1 /\ (k + 1) - 1 = k
    BY <1>0, <1>3
  <2> QED BY <1>1, <2>1 DEF Readings
<1>4. Access!Readable \in SUBSET stored
  <2>1. N + 1 \in 0 .. N + 1
    BY <1>0
  <2> QED BY <1>1, <1>2, <2>1
<1>5. CASE Access!ReadsLocal(network)
  <2>1. \A r : Access!FirstMatch(to[N], r, "READ") <=> Access!FirstMatch(to[N + 1], r, "READ")
    BY <1>5, LocalAgree
  <2>2. to[N + 1] = ReadWhere(to[N])
    BY <1>0, <1>3
  <2> HIDE DEF N
  <2>3. ReadWhere(to[N]) = ReadWhere(to[N + 1])
    BY <2>1 DEF ReadWhere
  <2> QED BY <1>1, <1>4, <2>2, <2>3
<1>6. CASE Access!Acyclic(network)
  <2>1. PICK steps : Steps(steps)
    BY <1>6, StepsExist
  <2>2. \A r \in Asset : steps[r] \in Nat /\ steps[r] <= N
    BY <1>0, <2>1 DEF Steps
  <2> DEFINE Agree(m, k) == \A r \in Asset : steps[r] < m => (r \in to[k] <=> r \in to[m])
             S == {m \in Nat : \A k \in Nat : m <= k /\ k <= N + 1 => Agree(m, k)}
  <2>3. Nat \subseteq S
    <3>1. 0 \in S
      BY <2>2
    <3>2. ASSUME NEW m \in Nat, m \in S PROVE m + 1 \in S
      <4> SUFFICES ASSUME NEW k \in Nat, m + 1 <= k, k <= N + 1, NEW r \in Asset, steps[r] < m + 1
                   PROVE  r \in to[k] <=> r \in to[m + 1]
        OBVIOUS
      <4>1. k - 1 \in Nat /\ (k - 1) + 1 = k /\ m <= k - 1 /\ k - 1 <= N /\ m <= N
        BY <1>0
      <4>2. to[k] = ReadWhere(to[k - 1]) /\ to[m + 1] = ReadWhere(to[m])
        <5>1. to[(k - 1) + 1] = ReadWhere(to[k - 1])
          BY <1>3, <4>1
        <5> QED BY <1>3, <4>1, <5>1
      <4>3. Agree(m, k - 1)
        BY <1>0, <3>2, <4>1
      <4>4. ASSUME NEW x \in Asset, steps[x] < steps[r] PROVE x \in to[k - 1] <=> x \in to[m]
        <5>1. steps[x] < m
          BY <2>2, <4>4
        <5> QED BY <4>3, <5>1
      <4>5. to[k - 1] \in SUBSET Asset /\ to[m] \in SUBSET Asset
        BY <1>0, <1>2, <4>1
      <4>6. Access!FirstMatch(to[k - 1], r, "READ") <=> Access!FirstMatch(to[m], r, "READ")
        BY <2>1, <4>4, <4>5, StepsAgree
      <4> QED BY <4>2, <4>6 DEF ReadWhere
    <3> HIDE DEF S
    <3> QED BY <3>1, <3>2, NaturalSet
  <2>4. Agree(N, N + 1)
    BY <1>0, <2>3
  <2>5. ASSUME NEW r \in Asset
        PROVE  Access!FirstMatch(to[N], r, "READ") <=> Access!FirstMatch(to[N + 1], r, "READ")
    <3>1. \A x \in Asset : steps[x] < steps[r] => steps[x] < N
      BY <1>0, <2>2
    <3>2. \A x \in Asset : steps[x] < steps[r] => (x \in to[N] <=> x \in to[N + 1])
      BY <2>4, <3>1
    <3>3. to[N] \in SUBSET Asset /\ to[N + 1] \in SUBSET Asset
      BY <1>0, <1>2
    <3> HIDE DEF N
    <3> QED BY <2>1, <3>2, <3>3, StepsAgree
  <2>6. stored \subseteq Asset
    BY DEF SceneTypes
  <2>7. to[N + 1] = ReadWhere(to[N])
    BY <1>0, <1>3
  <2>8. \A r \in stored : Access!FirstMatch(to[N], r, "READ")
                            <=> Access!FirstMatch(to[N + 1], r, "READ")
    BY <2>5, <2>6
  <2> HIDE DEF N
  <2>9. ReadWhere(to[N]) = ReadWhere(to[N + 1])
    BY <2>8 DEF ReadWhere
  <2> QED BY <1>1, <1>4, <2>7, <2>9
<1> QED BY <1>4, <1>5, <1>6

-----------------------------------------------------------------------------
CheckRecord ==
    [resource : Node, access : Access!Access, rule : Nat \ {0}, path : Seq(Node),
     get : {"none", "registry", "asset", "broken"}]

Enforced == caller # None /\ network.rules # None

\* Where a condition goes from the resource that it has reached, and that it waits for it.
Onto(c) == Access!Related(c.path[Len(c.path)])
Waits(c) == c.get \in {"registry", "asset"}

\* The rule of a check is one that applies, and lets it go as far as it has come.
InHand(c) ==
    /\ c.rule <= Len(network.rules)
    /\ Access!Applies(network.rules[c.rule], c.resource, c.access)
    /\ Len(c.path) <= network.rules[c.rule].hops + 1

CheckShape(c) ==
    /\ c \in CheckRecord
    /\ Len(c.path) >= 1 /\ c.path[1] = c.resource
    /\ \A k \in 1 .. Len(c.path) - 1 :
          c.path[k + 1] = Access!Related(c.path[k]) /\ c.path[k + 1] \in Asset
    /\ Len(c.path) > 1 \/ Waits(c) => InHand(c)
    /\ Waits(c) =>
         /\ Len(c.path) <= network.rules[c.rule].hops
         /\ Onto(c) \in Asset /\ \A k \in 1 .. Len(c.path) : c.path[k] # Onto(c)

\* Check d waits for check c.
Link(c, d) ==
    /\ Waits(d) /\ c.access = "READ"
    /\ d.get = "registry" => c.resource = Registry
    /\ d.get = "asset" => c.resource = Onto(d) /\ c.resource \in stored

StackShape(checks) ==
    /\ checks \in Seq(CheckRecord) /\ Len(checks) >= 1
    /\ \A i \in 1 .. Len(checks) : CheckShape(checks[i])
    /\ \A i \in 1 .. Len(checks) : i > 1 => Link(checks[i - 1], checks[i])

AccessInv ==
    /\ SceneTypes
    /\ StackShape(stack)
    /\ result \in {"allowed", "denied", None}
    /\ ~Enforced => Len(stack) = 1 /\ stack[1].get = "none" /\ result # "denied"

SameAccess(c, d) == c.resource = d.resource /\ c.access = d.access

LEMMA OneOrMore ==
    \A n \in Nat : /\ n >= 1 => n = 1 \/ n > 1
                   /\ n > 1 => n # 1 /\ n >= 2
OBVIOUS

LEMMA PrependFacts ==
    ASSUME NEW S, NEW s \in Seq(S), NEW x \in S
    PROVE  /\ <<x>> \o s \in Seq(S) /\ Len(<<x>> \o s) = Len(s) + 1
           /\ (<<x>> \o s)[1] = x
           /\ \A i \in 1 .. Len(s) + 1 :
                 i > 1 => (<<x>> \o s)[i] = s[i - 1] /\ i - 1 \in 1 .. Len(s)
OBVIOUS

LEMMA RestFacts ==
    ASSUME NEW S, NEW s \in Seq(S), Len(s) >= 1
    PROVE  /\ Tail(s) \in Seq(S) /\ Len(Tail(s)) = Len(s) - 1
           /\ Head(s) = s[1] /\ s[1] \in S
           /\ \A i \in 1 .. Len(s) - 1 : Tail(s)[i] = s[i + 1] /\ i + 1 \in 1 .. Len(s)
OBVIOUS

LEMMA PrependTwo ==
    ASSUME NEW S, NEW s \in Seq(S), NEW x \in S, NEW y \in S
    PROVE  <<x, y>> \o s = <<x>> \o (<<y>> \o s)
<1> DEFINE a == <<x, y>> \o s
           b == <<y>> \o s
           c == <<x>> \o b
<1>1. a \in Seq(S) /\ Len(a) = Len(s) + 2
  OBVIOUS
<1>2. \A i \in 1 .. Len(s) + 2 : a[i] = IF i = 1 THEN x ELSE IF i = 2 THEN y ELSE s[i - 2]
  OBVIOUS
<1>3. /\ b \in Seq(S) /\ Len(b) = Len(s) + 1 /\ b[1] = y
      /\ \A i \in 1 .. Len(s) + 1 : i > 1 => b[i] = s[i - 1]
  BY PrependFacts
<1> HIDE DEF b
<1>4. /\ c \in Seq(S) /\ Len(c) = Len(s) + 2 /\ c[1] = x
      /\ \A i \in 1 .. Len(s) + 2 : i > 1 => c[i] = b[i - 1]
  BY <1>3, PrependFacts
<1> HIDE DEF a, c
<1>5. ASSUME NEW i \in 1 .. Len(s) + 2 PROVE a[i] = c[i]
  <2>1. CASE i = 1
    BY <1>2, <1>4, <2>1
  <2>2. CASE i = 2
    <3>1. i > 1 /\ i - 1 = 1
      BY <2>2
    <3>2. c[i] = b[1]
      BY <1>4, <3>1
    <3> QED BY <1>2, <1>3, <2>2, <3>2
  <2>3. CASE i # 1 /\ i # 2
    <3>1. i > 1 /\ i - 1 > 1 /\ i - 1 \in 1 .. Len(s) + 1 /\ (i - 1) - 1 = i - 2
      BY <2>3
    <3>2. c[i] = b[i - 1] /\ b[i - 1] = s[i - 2]
      BY <1>3, <1>4, <3>1
    <3> QED BY <1>2, <2>3, <3>2
  <2> QED BY <2>1, <2>2, <2>3
<1>6. a = c
  BY <1>1, <1>4, <1>5, SeqEqual
<1> QED BY <1>6 DEF a, b, c

LEMMA DropTwo ==
    ASSUME NEW S, NEW s \in Seq(S), Len(s) >= 2
    PROVE  SubSeq(s, 3, Len(s)) = Tail(Tail(s))
<1> DEFINE a == SubSeq(s, 3, Len(s))
           b == Tail(s)
           c == Tail(b)
<1>0. Len(s) \in Int /\ 3 \in Int /\ \A i \in 3 .. Len(s) : s[i] \in S
  OBVIOUS
<1>1. a \in Seq(S) /\ Len(a) = Len(s) - 2
  <2>1. a \in Seq(S) /\ Len(a) = IF 3 <= Len(s) THEN Len(s) - 3 + 1 ELSE 0
    BY <1>0, SubSeqProperties
  <2> HIDE DEF a
  <2>2. CASE Len(s) = 2
    BY <2>1, <2>2
  <2>3. CASE 3 <= Len(s)
    BY <1>0, <2>1, <2>3
  <2>4. \A n \in Int : n >= 2 => n = 2 \/ 3 <= n
    OBVIOUS
  <2>5. Len(s) = 2 \/ 3 <= Len(s)
    BY <1>0, <2>4
  <2> QED BY <2>2, <2>3, <2>5
<1>2. \A i \in 1 .. Len(s) - 2 : a[i] = s[i + 2]
  OBVIOUS
<1>3. /\ b \in Seq(S) /\ Len(b) = Len(s) - 1
      /\ \A i \in 1 .. Len(s) - 1 : b[i] = s[i + 1]
  BY RestFacts
<1> HIDE DEF a, b
<1>4. /\ c \in Seq(S) /\ Len(c) = Len(s) - 2
      /\ \A i \in 1 .. Len(s) - 2 : c[i] = b[i + 1]
  BY <1>3, RestFacts
<1> HIDE DEF c
<1>5. ASSUME NEW i \in 1 .. Len(s) - 2 PROVE a[i] = c[i]
  <2>1. i + 1 \in 1 .. Len(s) - 1 /\ (i + 1) + 1 = i + 2
    OBVIOUS
  <2> QED BY <1>2, <1>3, <1>4, <2>1
<1>6. a = c
  BY <1>1, <1>4, <1>5, SeqEqual
<1> QED BY <1>6 DEF a, b, c

LEMMA PushShape ==
    ASSUME NEW checks, StackShape(checks), NEW c, CheckShape(c), Link(c, checks[1])
    PROVE  StackShape(<<c>> \o checks)
<1> DEFINE more == <<c>> \o checks
<1>1. checks \in Seq(CheckRecord) /\ c \in CheckRecord /\ Len(checks) \in Nat /\ Len(checks) >= 1
  BY DEF StackShape, CheckShape
<1>2. /\ more \in Seq(CheckRecord) /\ Len(more) = Len(checks) + 1 /\ more[1] = c
      /\ \A i \in 1 .. Len(checks) + 1 : i > 1 => more[i] = checks[i - 1] /\ i - 1 \in 1 .. Len(checks)
  BY <1>1, PrependFacts
<1> HIDE DEF more
<1>3. ASSUME NEW i \in 1 .. Len(more) PROVE CheckShape(more[i])
  <2>1. CASE i = 1
    BY <1>2, <2>1
  <2>2. CASE i # 1
    <3>1. more[i] = checks[i - 1] /\ i - 1 \in 1 .. Len(checks)
      BY <1>1, <1>2, <2>2
    <3> QED BY <3>1 DEF StackShape
  <2> QED BY <2>1, <2>2
<1>4. ASSUME NEW i \in 1 .. Len(more), i > 1 PROVE Link(more[i - 1], more[i])
  <2>1. more[i] = checks[i - 1] /\ i - 1 \in 1 .. Len(checks)
    BY <1>1, <1>2, <1>4
  <2>2. CASE i = 2
    <3>1. more[i - 1] = c /\ more[i] = checks[1]
      BY <1>2, <2>1, <2>2
    <3> QED BY <3>1
  <2>3. CASE i # 2
    <3>1. i - 1 \in 1 .. Len(checks) + 1 /\ i - 1 > 1
      BY <1>1, <1>2, <1>4, <2>3
    <3>2. more[i - 1] = checks[(i - 1) - 1]
      BY <1>2, <3>1
    <3> QED BY <2>1, <3>1, <3>2 DEF StackShape
  <2> QED BY <2>2, <2>3
<1>5. Len(more) >= 1
  BY <1>1, <1>2
<1>6. StackShape(more)
  BY <1>2, <1>3, <1>4, <1>5 DEF StackShape
<1> QED BY <1>6 DEF more

LEMMA DropShape ==
    ASSUME NEW checks, StackShape(checks), Len(checks) > 1
    PROVE  StackShape(Tail(checks)) /\ Tail(checks)[1] = checks[2]
<1> DEFINE less == Tail(checks)
<1>1. checks \in Seq(CheckRecord) /\ Len(checks) \in Nat
  BY DEF StackShape
<1>2. /\ less \in Seq(CheckRecord) /\ Len(less) = Len(checks) - 1
      /\ \A i \in 1 .. Len(checks) - 1 : less[i] = checks[i + 1] /\ i + 1 \in 1 .. Len(checks)
  BY <1>1, RestFacts
<1> HIDE DEF less
<1>3. \A i \in 1 .. Len(less) : CheckShape(less[i])
  BY <1>2 DEF StackShape
<1>4. ASSUME NEW i \in 1 .. Len(less), i > 1 PROVE Link(less[i - 1], less[i])
  <2>1. i - 1 \in 1 .. Len(checks) - 1 /\ (i - 1) + 1 = i /\ i + 1 > 1
    BY <1>1, <1>2, <1>4
  <2>2. less[i - 1] = checks[i] /\ less[i] = checks[i + 1] /\ i + 1 \in 1 .. Len(checks)
    BY <1>2, <2>1
  <2>3. Link(checks[(i + 1) - 1], checks[i + 1])
    BY <2>1, <2>2 DEF StackShape
  <2> QED BY <2>2, <2>3
<1>5. Len(less) >= 1 /\ less[1] = checks[2]
  BY <1>1, <1>2
<1>6. StackShape(less) /\ less[1] = checks[2]
  BY <1>2, <1>3, <1>4, <1>5 DEF StackShape
<1> QED BY <1>6 DEF less

LEMMA ReplaceShape ==
    ASSUME NEW checks, StackShape(checks), NEW c, CheckShape(c),
           SameAccess(c, checks[1])
    PROVE  StackShape(<<c>> \o Tail(checks))
<1>1. checks \in Seq(CheckRecord) /\ Len(checks) \in Nat /\ Len(checks) >= 1
  BY DEF StackShape
<1>2. CASE Len(checks) = 1
  <2> DEFINE only == <<c>> \o Tail(checks)
  <2>1. c \in CheckRecord
    BY DEF CheckShape
  <2>2. Tail(checks) \in Seq(CheckRecord) /\ Len(Tail(checks)) = 0
    BY <1>1, <1>2, RestFacts
  <2>3. only \in Seq(CheckRecord) /\ Len(only) = 1 /\ only[1] = c
    <3>1. Len(only) = Len(Tail(checks)) + 1
      BY <2>1, <2>2, PrependFacts
    <3> QED BY <2>1, <2>2, <3>1, PrependFacts
  <2> HIDE DEF only
  <2>4. StackShape(only)
    BY <2>3 DEF StackShape
  <2> QED BY <2>4 DEF only
<1>3. CASE Len(checks) > 1
  <2>2. StackShape(Tail(checks)) /\ Tail(checks)[1] = checks[2]
    BY <1>3, DropShape
  <2>3. Link(checks[1], checks[2])
    <3>1. 2 \in 1 .. Len(checks) /\ 2 > 1 /\ 2 - 1 = 1
      BY <1>1, <1>3
    <3>2. Link(checks[2 - 1], checks[2])
      BY <3>1 DEF StackShape
    <3> QED BY <3>1, <3>2
  <2>4. Link(c, Tail(checks)[1])
    BY <2>2, <2>3 DEF Link, SameAccess
  <2> QED BY <2>2, <2>4, PushShape
<1> QED BY <1>1, <1>2, <1>3

LEMMA TopFacts ==
    ASSUME AccessInv
    PROVE  /\ stack \in Seq(CheckRecord) /\ Len(stack) \in Nat /\ Len(stack) >= 1
           /\ stack[1] \in CheckRecord /\ CheckShape(stack[1])
           /\ Access!Top = stack[1] /\ Head(stack) = stack[1]
<1>1. stack \in Seq(CheckRecord) /\ Len(stack) \in Nat /\ Len(stack) >= 1
  BY DEF AccessInv, StackShape
<1>2. Head(stack) = stack[1] /\ stack[1] \in CheckRecord
  BY <1>1, RestFacts
<1>3. CheckShape(stack[1])
  BY <1>1 DEF AccessInv, StackShape
<1> QED BY <1>1, <1>2, <1>3 DEF Access!Top

LEMMA CheckFields ==
    ASSUME NEW c \in CheckRecord
    PROVE  /\ c.resource \in Node /\ c.access \in Access!Access /\ c.rule \in Nat \ {0}
           /\ c.path \in Seq(Node) /\ Len(c.path) \in Nat
           /\ \A k \in 1 .. Len(c.path) : c.path[k] \in Node
           /\ c.get \in {"none", "registry", "asset", "broken"}
BY DEF CheckRecord

\* Where the condition of the running check is.
LEMMA TargetFacts ==
    ASSUME Access!AccessAssumption, AccessInv
    PROVE  /\ Access!Target = Onto(stack[1])
           /\ Access!Target \in Asset \union {None}
           /\ \A x : x \in Access!ToSet(stack[1].path) <=>
                       \E k \in 1 .. Len(stack[1].path) : stack[1].path[k] = x
           /\ Access!Reached <=>
                 Len(stack[1].path) = network.rules[stack[1].rule].hops + 1
<1>1. stack[1].path \in Seq(Node)
  BY TopFacts, CheckFields
<1>2. Access!Target = Onto(stack[1])
  BY TopFacts DEF Access!Target, Onto, Access!Last
<1>3. \A x : x \in Access!ToSet(stack[1].path) <=>
               \E k \in 1 .. Len(stack[1].path) : stack[1].path[k] = x
  BY <1>1 DEF Access!ToSet
<1>4. Access!Target \in Asset \union {None}
  BY RelatedFacts DEF AccessInv, Access!Target
<1>5. Access!Reached <=> Len(stack[1].path) = network.rules[stack[1].rule].hops + 1
  BY TopFacts DEF Access!Reached, Access!Rule
<1> QED BY <1>2, <1>3, <1>4, <1>5

\* Where a rule matches, and its condition has still to go on.
LEMMA MatchedFacts ==
    ASSUME Access!AccessAssumption, AccessInv, Access!Matched
    PROVE  /\ Enforced /\ result = None /\ stack[1].get = "none"
           /\ stack[1].rule \in 1 .. Len(network.rules)
           /\ network.rules[stack[1].rule].hops \in Nat
           /\ InHand(stack[1])
           /\ ~Access!Reached => Len(stack[1].path) <= network.rules[stack[1].rule].hops
<1>1. /\ Enforced /\ result = None /\ stack[1].get = "none"
      /\ stack[1].rule <= Len(network.rules)
      /\ Access!Applies(network.rules[stack[1].rule], stack[1].resource, stack[1].access)
  BY TopFacts DEF Access!Matched, Access!AtRule, Access!Rule, Enforced
<1>2. SceneTypes /\ network.rules # None /\ network.rules \in Seq(Access!AclRule)
  BY <1>1, RelatedFacts DEF AccessInv, Enforced
<1>3. stack[1].rule \in 1 .. Len(network.rules)
  <2>1. stack[1].rule \in Nat \ {0}
    BY TopFacts, CheckFields
  <2> QED BY <1>1, <1>2, <2>1
<1>4. network.rules[stack[1].rule].hops \in Nat
  BY <1>2, <1>3, RuleType
<1>5. Len(stack[1].path) \in Nat /\ Len(stack[1].path) >= 1
  BY TopFacts, CheckFields DEF CheckShape
<1>6. Len(stack[1].path) <= network.rules[stack[1].rule].hops + 1
  <2>1. CASE Len(stack[1].path) > 1
    BY <2>1, TopFacts DEF CheckShape, InHand
  <2>2. CASE Len(stack[1].path) = 1
    BY <1>4, <2>2
  <2> QED BY <1>4, <1>5, <2>1, <2>2
<1>7. ASSUME ~Access!Reached
      PROVE  Len(stack[1].path) <= network.rules[stack[1].rule].hops
  <2>1. Len(stack[1].path) # network.rules[stack[1].rule].hops + 1
    BY <1>7, TargetFacts
  <2> QED BY <1>4, <1>5, <1>6, <2>1
<1>8. InHand(stack[1])
  BY <1>1, <1>6 DEF InHand
<1> QED BY <1>1, <1>3, <1>4, <1>7, <1>8

LEMMA SceneKept ==
    ASSUME AccessInv, UNCHANGED Access!scene
    PROVE  /\ SceneTypes' /\ (Enforced' <=> Enforced)
           /\ StackShape(stack') => StackShape(stack)'
<1>1. network' = network /\ stored' = stored /\ flagged' = flagged /\ caller' = caller /\ within' = within
  BY DEF Access!scene
<1>2. SceneTypes' /\ (Enforced' <=> Enforced)
  BY <1>1 DEF AccessInv, SceneTypes, Enforced
<1>3. ASSUME NEW i, CheckShape(stack'[i]) PROVE CheckShape(stack[i])'
  BY <1>1, <1>3 DEF CheckShape, Waits, InHand, Onto, Access!Related, Access!Applies
<1>4. ASSUME NEW i, Link(stack'[i - 1], stack'[i]) PROVE Link(stack[i - 1], stack[i])'
  BY <1>1, <1>4 DEF Link, Waits, Onto, Access!Related
<1>5. ASSUME StackShape(stack') PROVE StackShape(stack)'
  BY <1>3, <1>4, <1>5 DEF StackShape
<1> QED BY <1>2, <1>5

\* A check that begins, and one that has come one resource further.
LEMMA BeginShape ==
    ASSUME NEW r \in Node, NEW a \in Access!Access
    PROVE  /\ CheckShape(Access!Check(r, a))
           /\ Access!Check(r, a).resource = r /\ Access!Check(r, a).access = a
           /\ Access!Check(r, a).get = "none" /\ Access!Check(r, a).rule = 1
           /\ Len(Access!Check(r, a).path) = 1
<1>1. <<r>> \in Seq(Node) /\ Len(<<r>>) = 1 /\ <<r>>[1] = r
  OBVIOUS
<1>2. Access!Check(r, a) \in CheckRecord
  BY <1>1 DEF Access!Check, CheckRecord
<1> QED BY <1>1, <1>2 DEF Access!Check, CheckShape, Waits

LEMMA FurtherShape ==
    ASSUME NEW c, CheckShape(c), InHand(c), Len(c.path) <= network.rules[c.rule].hops,
           network.rules[c.rule].hops \in Nat, Onto(c) \in Asset
    PROVE  LET d == [c EXCEPT !.get = "none", !.path = Append(@, Onto(c))] IN
           /\ CheckShape(d) /\ SameAccess(d, c) /\ d.rule = c.rule
           /\ d.path = Append(c.path, Onto(c)) /\ d.get = "none"
<1> DEFINE d == [c EXCEPT !.get = "none", !.path = Append(@, Onto(c))]
<1>1. c \in CheckRecord /\ Onto(c) \in Node
  BY DEF CheckShape, Node
<1>2. c.path \in Seq(Node) /\ Len(c.path) \in Nat
  BY <1>1, CheckFields
<1> DEFINE p == Append(c.path, Onto(c))
<1>3. /\ p \in Seq(Node) /\ Len(p) = Len(c.path) + 1 /\ p[Len(c.path) + 1] = Onto(c)
      /\ \A k \in 1 .. Len(c.path) : p[k] = c.path[k]
  BY <1>1, <1>2
<1>4. /\ d \in CheckRecord /\ d.path = p /\ d.get = "none" /\ d.rule = c.rule
      /\ d.resource = c.resource /\ d.access = c.access
  BY <1>1, <1>3 DEF CheckRecord
<1> HIDE DEF d, p
<1>5. Len(p) >= 1 /\ p[1] = c.resource
  BY <1>2, <1>3 DEF CheckShape
<1>6. ASSUME NEW k \in 1 .. Len(p) - 1
      PROVE  p[k + 1] = Access!Related(p[k]) /\ p[k + 1] \in Asset
  <2>1. k \in 1 .. Len(c.path) /\ p[k] = c.path[k]
    BY <1>2, <1>3
  <2>2. CASE k = Len(c.path)
    BY <1>3, <2>1, <2>2 DEF Onto
  <2>3. CASE k # Len(c.path)
    <3>1. k \in 1 .. Len(c.path) - 1 /\ k + 1 \in 1 .. Len(c.path)
      BY <1>2, <2>1, <2>3
    <3> QED BY <1>3, <2>1, <3>1 DEF CheckShape
  <2> QED BY <2>2, <2>3
<1>7. InHand(d)
  BY <1>2, <1>3, <1>4 DEF InHand
<1>8. CheckShape(d)
  BY <1>4, <1>5, <1>6, <1>7 DEF CheckShape, Waits
<1> QED BY <1>4, <1>8 DEF SameAccess, p, d

LEMMA TopShape ==
    ASSUME AccessInv, NEW c, CheckShape(c), SameAccess(c, stack[1]), Access!SetTop(c)
    PROVE  StackShape(stack')
<1>1. StackShape(stack)
  BY DEF AccessInv
<1> QED BY <1>1, ReplaceShape DEF Access!SetTop

LEMMA NextRuleShape ==
    ASSUME Access!AccessAssumption, AccessInv, Access!NextRule
    PROVE  StackShape(stack') /\ result' = result /\ Enforced
<1> DEFINE c == [stack[1] EXCEPT !.rule = @ + 1, !.path = <<stack[1].resource>>]
<1>1. stack[1] \in CheckRecord /\ stack[1].get = "none"
  BY TopFacts DEF Access!NextRule, Access!AtRule
<1>2. /\ stack[1].resource \in Node /\ stack[1].rule + 1 \in Nat \ {0}
      /\ <<stack[1].resource>> \in Seq(Node)
  BY <1>1, CheckFields
<1>3. c \in CheckRecord /\ SameAccess(c, stack[1])
  BY <1>1, <1>2 DEF CheckRecord, SameAccess
<1>4. CheckShape(c)
  <2>1. c.path = <<stack[1].resource>> /\ c.resource = stack[1].resource /\ c.get = "none"
    BY <1>1 DEF CheckRecord
  <2> HIDE DEF c
  <2> QED BY <1>3, <2>1 DEF CheckShape, Waits
<1>5. Access!SetTop(c)
  BY TopFacts DEF Access!NextRule
<1> HIDE DEF c
<1>6. StackShape(stack')
  BY <1>3, <1>4, <1>5, TopShape
<1> QED BY <1>6 DEF Access!NextRule, Access!AtRule, Enforced

LEMMA CachedShape ==
    ASSUME Access!AccessAssumption, AccessInv, Access!Cached
    PROVE  StackShape(stack') /\ result' = result /\ Enforced
<1>1. /\ Access!Matched /\ ~Access!Reached
      /\ Access!Target \in Access!ToSet(stack[1].path)
      /\ Access!SetTop([stack[1] EXCEPT !.path = Append(@, Access!Target)])
  BY TopFacts DEF Access!Cached
<1>2. Access!Target = Onto(stack[1]) /\ Onto(stack[1]) \in Asset
  <2>1. Access!Target \in Node
    BY <1>1, TargetFacts, TopFacts, CheckFields
  <2> QED BY <2>1, TargetFacts, RelatedFacts DEF AccessInv
<1>3. /\ stack[1].get = "none" /\ InHand(stack[1])
      /\ Len(stack[1].path) <= network.rules[stack[1].rule].hops
      /\ network.rules[stack[1].rule].hops \in Nat /\ Enforced
  BY <1>1, MatchedFacts
<1> DEFINE d == [stack[1] EXCEPT !.get = "none", !.path = Append(@, Onto(stack[1]))]
<1>4. [stack[1] EXCEPT !.path = Append(@, Access!Target)] = d
  BY <1>2, <1>3, TopFacts DEF CheckRecord
<1>5. CheckShape(d) /\ SameAccess(d, stack[1])
  BY <1>2, <1>3, TopFacts, FurtherShape
<1>6. Access!SetTop(d)
  BY <1>1, <1>4
<1> HIDE DEF d
<1>7. StackShape(stack')
  BY <1>5, <1>6, TopShape
<1> QED BY <1>3, <1>7 DEF Access!Cached

LEMMA ResolveShape ==
    ASSUME Access!AccessAssumption, AccessInv, Access!Resolve
    PROVE  StackShape(stack') /\ result' = result /\ Enforced
<1>1. /\ Access!Matched /\ ~Access!Reached
      /\ Access!Target \notin Access!ToSet(stack[1].path) \union {None}
      /\ stack' = <<Access!Check(Registry, "READ"), [stack[1] EXCEPT !.get = "registry"]>>
                    \o Tail(stack)
  BY TopFacts DEF Access!Resolve
<1>2. /\ InHand(stack[1]) /\ Enforced
      /\ Len(stack[1].path) <= network.rules[stack[1].rule].hops
  BY <1>1, MatchedFacts
<1>3. /\ Onto(stack[1]) \in Asset
      /\ \A k \in 1 .. Len(stack[1].path) : stack[1].path[k] # Onto(stack[1])
  BY <1>1, TargetFacts
<1> DEFINE n == Access!Check(Registry, "READ")
           c == [stack[1] EXCEPT !.get = "registry"]
           rest == Tail(stack)
<1>4. /\ c \in CheckRecord /\ c.resource = stack[1].resource /\ c.access = stack[1].access
      /\ c.path = stack[1].path /\ c.rule = stack[1].rule /\ c.get = "registry"
  BY TopFacts DEF CheckRecord
<1>5. CheckShape(n) /\ n.resource = Registry /\ n.access = "READ"
  BY BeginShape DEF Node, Access!Access
<1>6. stack' = <<n>> \o (<<c>> \o rest)
  <2>1. rest \in Seq(CheckRecord) /\ n \in CheckRecord
    BY <1>5, TopFacts, RestFacts DEF CheckShape
  <2>2. stack' = <<n, c>> \o rest
    BY <1>1
  <2> HIDE DEF n, c, rest
  <2> QED BY <1>4, <2>1, <2>2, PrependTwo
<1> HIDE DEF n, c
<1>7. CheckShape(c)
  BY <1>2, <1>3, <1>4, TopFacts DEF CheckShape, InHand, Onto, Waits
<1>8. StackShape(<<c>> \o rest)
  <2>1. StackShape(stack) /\ SameAccess(c, stack[1])
    BY <1>4 DEF AccessInv, SameAccess
  <2> QED BY <1>7, <2>1, ReplaceShape
<1>9. (<<c>> \o rest)[1] = c
  <2>1. rest \in Seq(CheckRecord)
    BY TopFacts, RestFacts
  <2> HIDE DEF rest
  <2> QED BY <1>4, <2>1, PrependFacts
<1>10. Link(n, c)
  BY <1>4, <1>5 DEF Link, Waits
<1>11. StackShape(<<n>> \o (<<c>> \o rest))
  <2> HIDE DEF rest
  <2> DEFINE checks == <<c>> \o rest
  <2>1. StackShape(checks) /\ Link(n, checks[1])
    BY <1>8, <1>9, <1>10
  <2> HIDE DEF checks
  <2>2. StackShape(<<n>> \o checks)
    BY <1>5, <2>1, PushShape
  <2> QED BY <2>2 DEF checks
<1> QED BY <1>2, <1>6, <1>11 DEF Access!Resolve

LEMMA GetShape ==
    ASSUME Access!AccessAssumption, AccessInv, Access!Get
    PROVE  StackShape(stack') /\ result' = result /\ Enforced
<1>1. stack[1].get = "asset" /\ CheckShape(stack[1]) /\ stack[1] \in CheckRecord
  BY TopFacts DEF Access!Get
<1>2. Enforced
  BY <1>1 DEF AccessInv
<1>3. Waits(stack[1]) /\ Onto(stack[1]) \in Asset /\ Access!Target = Onto(stack[1])
  BY <1>1, TargetFacts DEF CheckShape, Waits
<1>4. CASE Access!Target \in stored
  <2> DEFINE n == Access!Check(Access!Target, "READ")
  <2>1. stack' = <<n>> \o stack
    BY <1>4 DEF Access!Get
  <2>2. CheckShape(n) /\ n.resource = Access!Target /\ n.access = "READ"
    BY <1>3, BeginShape DEF Node, Access!Access
  <2> HIDE DEF n
  <2>3. Link(n, stack[1])
    BY <1>1, <1>3, <1>4, <2>2 DEF Link
  <2> QED BY <1>2, <2>1, <2>2, <2>3, PushShape DEF Access!Get, AccessInv
<1>5. CASE Access!Target \notin stored
  <2> DEFINE c == [stack[1] EXCEPT !.get = "broken"]
  <2>1. Access!SetTop(c)
    BY <1>5, TopFacts DEF Access!Get
  <2>2. /\ c \in CheckRecord /\ c.resource = stack[1].resource /\ c.access = stack[1].access
        /\ c.path = stack[1].path /\ c.rule = stack[1].rule /\ c.get = "broken"
    BY <1>1 DEF CheckRecord
  <2> HIDE DEF c
  <2>3. CheckShape(c)
    BY <1>1, <2>2 DEF CheckShape, InHand, Onto, Waits
  <2>4. SameAccess(c, stack[1])
    BY <2>2 DEF SameAccess
  <2> QED BY <1>2, <2>1, <2>3, <2>4, TopShape DEF Access!Get
<1> QED BY <1>4, <1>5

\* A check is over, and the read that waited for it goes on: what becomes of it.
Resumed(d, allowed) ==
    IF ~allowed THEN [d EXCEPT !.get = "broken"]
    ELSE IF d.get = "registry" THEN [d EXCEPT !.get = "asset"]
    ELSE [d EXCEPT !.get = "none", !.path = Append(@, stack[1].resource)]

LEMMA ReturnStack ==
    ASSUME AccessInv, NEW allowed \in BOOLEAN, Access!Return(allowed)
    PROVE  \/ /\ Len(stack) = 1 /\ stack' = stack
              /\ result' = IF allowed THEN "allowed" ELSE "denied"
           \/ /\ Len(stack) > 1 /\ result' = result
              /\ stack' = <<Resumed(stack[2], allowed)>> \o Tail(Tail(stack))
<1>1. stack \in Seq(CheckRecord) /\ Len(stack) \in Nat /\ Len(stack) >= 1
  BY TopFacts
<1>2. CASE Len(stack) = 1
  BY <1>2 DEF Access!Return
<1>3. CASE Len(stack) > 1
  <2>1. SubSeq(stack, 3, Len(stack)) = Tail(Tail(stack))
    <3>1. Len(stack) >= 2
      BY <1>1, <1>3, OneOrMore
    <3> QED BY <1>1, <3>1, DropTwo
  <2>2. Len(stack) # 1
    BY <1>1, <1>3, OneOrMore
  <2>3. /\ stack' = <<Resumed(stack[2], allowed)>> \o SubSeq(stack, 3, Len(stack))
        /\ result' = result
    BY <2>2, TopFacts DEF Access!Return, Resumed
  <2> QED BY <1>3, <2>1, <2>3
<1> QED BY <1>1, <1>2, <1>3, OneOrMore

LEMMA SecondFacts ==
    ASSUME Access!AccessAssumption, AccessInv, Len(stack) > 1
    PROVE  /\ stack[2] \in CheckRecord /\ CheckShape(stack[2]) /\ Link(stack[1], stack[2])
           /\ Waits(stack[2]) /\ InHand(stack[2]) /\ Onto(stack[2]) \in Asset
           /\ Len(stack[2].path) <= network.rules[stack[2].rule].hops
           /\ Enforced /\ network.rules[stack[2].rule].hops \in Nat
           /\ stack[2].rule \in 1 .. Len(network.rules)
<1>1. 2 \in 1 .. Len(stack) /\ 2 > 1 /\ 2 - 1 = 1
  BY TopFacts
<1>2. CheckShape(stack[2]) /\ Link(stack[2 - 1], stack[2])
  BY <1>1 DEF AccessInv, StackShape
<1>3. Waits(stack[2]) /\ stack[2] \in CheckRecord
  BY <1>2 DEF Link, CheckShape
<1>4. InHand(stack[2])
  BY <1>2, <1>3 DEF CheckShape
<1>5. Enforced
  BY TopFacts, OneOrMore DEF AccessInv
<1>6. stack[2].rule \in 1 .. Len(network.rules)
  <2>1. network.rules \in Seq(Access!AclRule)
    BY <1>5, RelatedFacts DEF AccessInv, Enforced
  <2> QED BY <1>3, <1>4, <2>1, CheckFields DEF InHand
<1>7. network.rules[stack[2].rule].hops \in Nat
  BY <1>5, <1>6, RuleType DEF AccessInv, Enforced
<1>8. /\ Onto(stack[2]) \in Asset
      /\ Len(stack[2].path) <= network.rules[stack[2].rule].hops
  BY <1>2, <1>3 DEF CheckShape
<1> QED BY <1>1, <1>2, <1>3, <1>4, <1>5, <1>6, <1>7, <1>8

LEMMA ResumedShape ==
    ASSUME Access!AccessAssumption, AccessInv, Len(stack) > 1, NEW allowed \in BOOLEAN
    PROVE  /\ CheckShape(Resumed(stack[2], allowed))
           /\ SameAccess(Resumed(stack[2], allowed), stack[2])
<1> DEFINE d == stack[2]
<1>1. d \in CheckRecord /\ CheckShape(d)
  BY SecondFacts
<1>2. CASE ~allowed
  <2> DEFINE c == [d EXCEPT !.get = "broken"]
  <2>1. /\ c \in CheckRecord /\ c.resource = d.resource /\ c.access = d.access
        /\ c.path = d.path /\ c.rule = d.rule /\ c.get = "broken"
    BY <1>1 DEF CheckRecord
  <2>2. Resumed(d, allowed) = c
    BY <1>2 DEF Resumed
  <2> HIDE DEF c, d
  <2>3. CheckShape(c)
    BY <1>1, <2>1 DEF CheckShape, InHand, Onto, Waits
  <2>4. SameAccess(c, d)
    BY <2>1 DEF SameAccess
  <2> QED BY <2>2, <2>3, <2>4 DEF d
<1>3. CASE allowed /\ d.get = "registry"
  <2> DEFINE c == [d EXCEPT !.get = "asset"]
  <2>1. /\ c \in CheckRecord /\ c.resource = d.resource /\ c.access = d.access
        /\ c.path = d.path /\ c.rule = d.rule /\ c.get = "asset"
    BY <1>1 DEF CheckRecord
  <2>2. Resumed(d, allowed) = c
    BY <1>3 DEF Resumed
  <2>3. Waits(d)
    BY SecondFacts
  <2> HIDE DEF c, d
  <2>4. CheckShape(c)
    BY <1>1, <2>1, <2>3 DEF CheckShape, InHand, Onto, Waits
  <2>5. SameAccess(c, d)
    BY <2>1 DEF SameAccess
  <2> QED BY <2>2, <2>4, <2>5 DEF d
<1>4. CASE allowed /\ d.get = "asset"
  <2>1. stack[1].resource = Onto(d)
    BY <1>4, SecondFacts DEF Link
  <2>2. Resumed(d, allowed) = [d EXCEPT !.get = "none", !.path = Append(@, Onto(d))]
    BY <1>4, <2>1 DEF Resumed
  <2>3. /\ InHand(d) /\ Len(d.path) <= network.rules[d.rule].hops
        /\ network.rules[d.rule].hops \in Nat /\ Onto(d) \in Asset
    BY SecondFacts
  <2> HIDE DEF d
  <2>4. /\ CheckShape(Resumed(d, allowed)) /\ SameAccess(Resumed(d, allowed), d)
    BY <1>1, <2>2, <2>3, FurtherShape
  <2> QED BY <2>4 DEF d
<1> QED BY <1>2, <1>3, <1>4, SecondFacts DEF Waits

LEMMA ReturnShape ==
    ASSUME Access!AccessAssumption, AccessInv, NEW allowed \in BOOLEAN, Access!Return(allowed)
    PROVE  StackShape(stack') /\ result' \in {"allowed", "denied", result}
<1>1. StackShape(stack)
  BY DEF AccessInv
<1>2. CASE Len(stack) = 1 /\ stack' = stack /\ result' = IF allowed THEN "allowed" ELSE "denied"
  BY <1>1, <1>2
<1>3. CASE /\ Len(stack) > 1 /\ result' = result
           /\ stack' = <<Resumed(stack[2], allowed)>> \o Tail(Tail(stack))
  <2>1. StackShape(Tail(stack)) /\ Tail(stack)[1] = stack[2]
    BY <1>1, <1>3, DropShape
  <2>2. /\ CheckShape(Resumed(stack[2], allowed))
        /\ SameAccess(Resumed(stack[2], allowed), Tail(stack)[1])
    BY <1>3, <2>1, ResumedShape
  <2>3. StackShape(<<Resumed(stack[2], allowed)>> \o Tail(Tail(stack)))
    BY <2>1, <2>2, ReplaceShape
  <2> QED BY <1>3, <2>3
<1> QED BY <1>2, <1>3, ReturnStack

LEMMA AccessInit ==
    ASSUME Access!AccessAssumption, Access!Init
    PROVE  AccessInv
<1>1. SceneTypes /\ result = None
  BY DEF Access!Init, SceneTypes
<1>2. PICK r \in stored, a \in Access!Access : stack = <<Access!Check(r, a)>>
  BY DEF Access!Init
<1>3. r \in Node
  BY <1>1 DEF SceneTypes, Node
<1> DEFINE c == Access!Check(r, a)
<1>4. CheckShape(c) /\ c.get = "none"
  BY <1>3, BeginShape
<1>5. c \in CheckRecord
  BY <1>4 DEF CheckShape
<1>6. stack = <<c>>
  BY <1>2
<1> HIDE DEF c
<1>7. stack \in Seq(CheckRecord) /\ Len(stack) = 1 /\ stack[1] = c
  BY <1>5, <1>6
<1>8. StackShape(stack)
  BY <1>4, <1>7 DEF StackShape
<1>9. result # "denied"
  BY <1>1 DEF Access!AccessAssumption
<1> QED BY <1>1, <1>4, <1>7, <1>8, <1>9 DEF AccessInv

LEMMA StepShape ==
    ASSUME AccessInv, UNCHANGED Access!scene, StackShape(stack'),
           result' \in {"allowed", "denied", result}, Enforced
    PROVE  AccessInv'
<1>1. SceneTypes' /\ Enforced' /\ StackShape(stack)'
  BY SceneKept
<1>2. result' \in {"allowed", "denied", None}
  BY DEF AccessInv
<1> QED BY <1>1, <1>2 DEF AccessInv

LEMMA AccessNext ==
    ASSUME Access!AccessAssumption, AccessInv, [Access!Next]_(Access!vars)
    PROVE  AccessInv'
<1>1. CASE UNCHANGED Access!vars
  <2>1. UNCHANGED Access!scene /\ stack' = stack /\ result' = result
    BY <1>1 DEF Access!vars, Access!scene
  <2>2. SceneTypes' /\ (Enforced' <=> Enforced) /\ StackShape(stack)'
    <3>1. StackShape(stack')
      BY <2>1 DEF AccessInv
    <3> QED BY <2>1, <3>1, SceneKept
  <2> QED BY <2>1, <2>2 DEF AccessInv
<1>2. CASE Access!Unenforced
  <2>1. UNCHANGED Access!scene /\ stack' = stack /\ result' = "allowed"
    BY <1>2 DEF Access!Unenforced
  <2>2. SceneTypes' /\ (Enforced' <=> Enforced) /\ StackShape(stack)'
    <3>1. StackShape(stack')
      BY <2>1 DEF AccessInv
    <3> QED BY <2>1, <3>1, SceneKept
  <2> QED BY <2>1, <2>2 DEF AccessInv
<1>3. CASE Access!NextRule
  BY <1>3, NextRuleShape, StepShape DEF Access!NextRule
<1>4. CASE Access!Decide
  <2>1. Access!Matched /\ Access!Return(Access!Rule.allow) /\ UNCHANGED Access!scene
    BY <1>4 DEF Access!Decide
  <2>2. Enforced /\ stack[1].rule \in 1 .. Len(network.rules)
    BY <2>1, MatchedFacts
  <2>3. Access!Rule.allow \in BOOLEAN
    BY <2>2, TopFacts, RuleType DEF AccessInv, Enforced, Access!Rule
  <2>4. StackShape(stack') /\ result' \in {"allowed", "denied", result}
    BY <2>1, <2>3, ReturnShape
  <2> QED BY <2>1, <2>2, <2>4, StepShape
<1>5. CASE Access!NoRule
  <2>1. Access!Return(FALSE) /\ UNCHANGED Access!scene /\ Enforced
    BY <1>5 DEF Access!NoRule, Enforced
  <2>2. StackShape(stack') /\ result' \in {"allowed", "denied", result}
    BY <2>1, ReturnShape
  <2> QED BY <2>1, <2>2, StepShape
<1>6. CASE Access!Cached
  BY <1>6, CachedShape, StepShape DEF Access!Cached
<1>7. CASE Access!Resolve
  BY <1>7, ResolveShape, StepShape DEF Access!Resolve
<1>8. CASE Access!Get
  BY <1>8, GetShape, StepShape DEF Access!Get
<1>9. CASE Access!CannotRead
  <2>1. Access!Return(FALSE) /\ UNCHANGED Access!scene /\ stack[1].get = "broken"
    BY <1>9, TopFacts DEF Access!CannotRead
  <2>2. Enforced
    BY <2>1 DEF AccessInv
  <2>3. StackShape(stack') /\ result' \in {"allowed", "denied", result}
    BY <2>1, ReturnShape
  <2> QED BY <2>1, <2>2, <2>3, StepShape
<1> QED BY <1>1, <1>2, <1>3, <1>4, <1>5, <1>6, <1>7, <1>8, <1>9 DEF Access!Next

\* Theorem (AccessInvariant): each check has come to where it is along relationships that its
\* rule lets it follow, and waits for the registry or for the next resource, which the check
\* in front of it is about (accesscontroller.js, check and checkRule; resolver.js, prepare).
THEOREM AccessInvariant == Access!AccessAssumption /\ Access!Spec => []AccessInv
<1> SUFFICES ASSUME Access!AccessAssumption PROVE Access!Spec => []AccessInv  OBVIOUS
<1>1. Access!Init => AccessInv
  BY AccessInit
<1>2. AccessInv /\ [Access!Next]_(Access!vars) => AccessInv'
  BY AccessNext
<1> QED BY <1>1, <1>2, PTL DEF Access!Spec

\* A check that waits is not about the registry, which is related to nothing.
LEMMA WaitingFacts ==
    ASSUME Access!AccessAssumption, AccessInv, NEW i \in 2 .. Len(stack)
    PROVE  /\ i \in 1 .. Len(stack) /\ i - 1 \in 1 .. Len(stack)
           /\ CheckShape(stack[i]) /\ stack[i] \in CheckRecord /\ Waits(stack[i])
           /\ Link(stack[i - 1], stack[i])
           /\ stack[i].resource \in Asset /\ Onto(stack[i]) \in Asset
           /\ InHand(stack[i]) /\ Len(stack[i].path) <= network.rules[stack[i].rule].hops
           /\ \A k \in 1 .. Len(stack[i].path) :
                 stack[i].path[k] \in Asset /\ stack[i].path[k] # Onto(stack[i])
<1> DEFINE d == stack[i]
<1>1. i \in 1 .. Len(stack) /\ i - 1 \in 1 .. Len(stack) /\ i > 1
  BY TopFacts
<1>2. CheckShape(d) /\ Link(stack[i - 1], d)
  BY <1>1 DEF AccessInv, StackShape
<1> HIDE DEF d
<1>3. Waits(d) /\ d \in CheckRecord
  BY <1>2 DEF Link, CheckShape
<1>4. /\ InHand(d) /\ Len(d.path) <= network.rules[d.rule].hops
      /\ Onto(d) \in Asset /\ \A k \in 1 .. Len(d.path) : d.path[k] # Onto(d)
  BY <1>2, <1>3 DEF CheckShape
<1>5. d.path \in Seq(Node) /\ Len(d.path) \in Nat /\ Len(d.path) >= 1 /\ d.path[1] = d.resource
  BY <1>2, <1>3, CheckFields DEF CheckShape
<1>6. ASSUME NEW k \in 1 .. Len(d.path), k > 1 PROVE d.path[k] \in Asset
  <2>1. k - 1 \in 1 .. Len(d.path) - 1 /\ (k - 1) + 1 = k
    BY <1>5, <1>6
  <2> QED BY <1>2, <2>1 DEF CheckShape
<1>7. d.resource \in Asset
  <2>1. CASE Len(d.path) = 1
    <3>1. Onto(d) = Access!Related(d.resource)
      BY <1>5, <2>1 DEF Onto
    <3> QED BY <1>3, <1>4, <3>1, CheckFields, RelatedFacts DEF AccessInv, Node
  <2>2. CASE Len(d.path) > 1
    <3>1. 1 \in 1 .. Len(d.path) - 1 /\ 1 + 1 = 2
      BY <1>5, <2>2
    <3>2. Access!Related(d.resource) \in Asset
      BY <1>2, <1>5, <3>1 DEF CheckShape
    <3> QED BY <1>3, <3>2, CheckFields, RelatedFacts DEF AccessInv, Node
  <2> QED BY <1>5, <2>1, <2>2, OneOrMore
<1>8. \A k \in 1 .. Len(d.path) : d.path[k] \in Asset /\ d.path[k] # Onto(d)
  BY <1>4, <1>5, <1>6, <1>7
<1> QED BY <1>1, <1>2, <1>3, <1>4, <1>7, <1>8 DEF d

LEMMA KnownNotReadHolds ==
    ASSUME Access!AccessAssumption, AccessInv
    PROVE  Access!KnownNotRead
<1> SUFFICES ASSUME NEW i \in 2 .. Len(stack),
                    stack[i - 1].resource \in Access!ToSet(stack[i].path)
             PROVE  FALSE
  BY DEF Access!KnownNotRead
<1>1. stack[i].path \in Seq(Node)
  BY WaitingFacts, CheckFields
<1>2. PICK k \in 1 .. Len(stack[i].path) : stack[i].path[k] = stack[i - 1].resource
  <2> DEFINE s == stack[i].path
  <2>1. DOMAIN s = 1 .. Len(s)
    BY <1>1
  <2> HIDE DEF s
  <2>2. stack[i - 1].resource \in {s[k] : k \in DOMAIN s}
    BY DEF s, Access!ToSet
  <2> QED BY <2>1, <2>2 DEF s
<1>3. stack[i - 1].resource \in Asset /\ stack[i - 1].resource # Onto(stack[i])
  BY <1>2, WaitingFacts
<1>4. stack[i - 1].resource = Registry \/ stack[i - 1].resource = Onto(stack[i])
  BY WaitingFacts DEF Link, Waits
<1> QED BY <1>3, <1>4, RelatedFacts DEF AccessInv

\* Theorem (AccessKnown): whatever the rules, the relationships and the number of nested
\* checks, no check waits for a resource that its condition has already reached, the one
\* that it is about included (resolver.js, prepare and its cachedResources).
THEOREM AccessKnown == Access!AccessAssumption /\ Access!Spec => []Access!KnownNotRead
<1> SUFFICES ASSUME Access!AccessAssumption PROVE Access!Spec => []Access!KnownNotRead
  OBVIOUS
<1>1. AccessInv => Access!KnownNotRead
  BY KnownNotReadHolds
<1>2. Access!Spec => []AccessInv
  BY AccessInvariant
<1> QED BY <1>1, <1>2, PTL

\* Where relationships lead to an end, a check that waits is further from it than
\* what it waits for.
LEMMA WaitsForNearer ==
    ASSUME Access!AccessAssumption, AccessInv, NEW steps, Steps(steps),
           NEW i \in 2 .. Len(stack)
    PROVE  steps[Onto(stack[i])] < steps[stack[i].resource]
<1> DEFINE path == stack[i].path
           Far(k) == k < Len(path) => steps[path[k + 1]] <= steps[path[1]]
           S == {k \in Nat : Far(k)}
<1>1. \A x \in Asset : steps[x] \in Nat
  BY AssetsFinite DEF Steps
<1>2. /\ Len(path) \in Nat /\ Len(path) >= 1 /\ path[1] = stack[i].resource
      /\ \A k \in 1 .. Len(path) : path[k] \in Asset
  BY WaitingFacts, CheckFields DEF CheckShape
<1>3. \A k \in 1 .. Len(path) - 1 : path[k + 1] = Access!Related(path[k])
  BY WaitingFacts DEF CheckShape
<1>4. Onto(stack[i]) = Access!Related(path[Len(path)]) /\ Onto(stack[i]) \in Asset
  BY WaitingFacts DEF Onto
<1> HIDE DEF path
<1>5. Nat \subseteq S
  <2>1. 0 \in S
    BY <1>1, <1>2
  <2>2. ASSUME NEW k \in Nat, k \in S PROVE k + 1 \in S
    <3> SUFFICES ASSUME k + 1 < Len(path) PROVE steps[path[k + 2]] <= steps[path[1]]
      OBVIOUS
    <3>1. /\ k + 1 \in 1 .. Len(path) - 1 /\ (k + 1) + 1 = k + 2
          /\ k + 1 \in 1 .. Len(path) /\ k + 2 \in 1 .. Len(path) /\ 1 \in 1 .. Len(path)
          /\ k < Len(path)
      BY <1>2
    <3>2. path[k + 2] = Access!Related(path[k + 1])
      BY <1>3, <3>1
    <3>3. path[k + 1] \in Asset /\ path[k + 2] \in Asset /\ path[1] \in Asset
      BY <1>2, <3>1
    <3>4. steps[path[k + 2]] < steps[path[k + 1]]
      BY <3>2, <3>3 DEF Steps
    <3>5. steps[path[k + 1]] <= steps[path[1]]
      BY <2>2, <3>1
    <3> QED BY <1>1, <3>3, <3>4, <3>5
  <2> HIDE DEF S
  <2> QED BY <2>1, <2>2, NaturalSet
<1>6. Len(path) - 1 \in Nat /\ Len(path) - 1 < Len(path) /\ (Len(path) - 1) + 1 = Len(path)
  BY <1>2
<1>7. steps[path[Len(path)]] <= steps[path[1]]
  <2>1. Len(path) - 1 \in S
    BY <1>5, <1>6
  <2> QED BY <1>6, <2>1
<1>8. path[Len(path)] \in Asset /\ path[1] \in Asset
  BY <1>2
<1>9. steps[Onto(stack[i])] < steps[path[Len(path)]]
  BY <1>4, <1>8 DEF Steps
<1> QED BY <1>1, <1>2, <1>4, <1>7, <1>8, <1>9

LEMMA NoReentryAcyclic ==
    ASSUME Access!AccessAssumption, AccessInv, Access!Acyclic(network)
    PROVE  Access!NoReentry
<1>1. PICK steps : Steps(steps)
  BY StepsExist DEF AccessInv
<1>2. Len(stack) \in Nat
  BY TopFacts
<1>3. \A x \in Asset : steps[x] \in Nat
  BY <1>1, AssetsFinite DEF Steps
<1>4. ASSUME NEW i \in 1 .. Len(stack), stack[i].resource # Registry
      PROVE  \A m \in Nat : i + m + 1 <= Len(stack) =>
                steps[stack[i].resource] < steps[stack[i + m + 1].resource]
  <2> DEFINE S == {m \in Nat : i + m + 1 <= Len(stack) =>
                      steps[stack[i].resource] < steps[stack[i + m + 1].resource]}
  <2>1. ASSUME NEW j \in 2 .. Len(stack), stack[j - 1].resource # Registry
        PROVE  /\ stack[j - 1].resource \in Asset /\ stack[j].resource \in Asset
               /\ steps[stack[j - 1].resource] < steps[stack[j].resource]
    <3>1. stack[j - 1].resource = Onto(stack[j]) /\ Onto(stack[j]) \in Asset
      BY <2>1, WaitingFacts DEF Link, Waits
    <3>2. steps[Onto(stack[j])] < steps[stack[j].resource]
      BY <1>1, WaitsForNearer
    <3> QED BY <3>1, <3>2, WaitingFacts
  <2>2. 0 \in S
    <3> SUFFICES ASSUME i + 1 <= Len(stack)
                 PROVE  steps[stack[i].resource] < steps[stack[i + 1].resource]
      OBVIOUS
    <3>1. i + 1 \in 2 .. Len(stack) /\ (i + 1) - 1 = i
      BY <1>2
    <3> QED BY <1>4, <2>1, <3>1
  <2>3. ASSUME NEW m \in Nat, m \in S PROVE m + 1 \in S
    <3> SUFFICES ASSUME i + m + 2 <= Len(stack)
                 PROVE  steps[stack[i].resource] < steps[stack[i + m + 2].resource]
      OBVIOUS
    <3> DEFINE j == i + m + 1
    <3>1. j \in 2 .. Len(stack) /\ j + 1 \in 2 .. Len(stack) /\ (j + 1) - 1 = j
      BY <1>2
    <3>2. j + 1 = i + m + 2 /\ j <= Len(stack) /\ i + 1 \in 2 .. Len(stack) /\ (i + 1) - 1 = i
      BY <1>2
    <3>3. steps[stack[i].resource] < steps[stack[j].resource]
      BY <2>3, <3>2
    <3> HIDE DEF j
    <3>4. stack[j].resource \in Asset /\ stack[i].resource \in Asset
      BY <1>4, <2>1, <3>1, <3>2, WaitingFacts
    <3>5. stack[j].resource # Registry
      BY <3>4, RelatedFacts DEF AccessInv
    <3>6. stack[j + 1].resource \in Asset
          /\ steps[stack[j].resource] < steps[stack[j + 1].resource]
      BY <2>1, <3>1, <3>5
    <3>7. steps[stack[i].resource] < steps[stack[j + 1].resource]
      BY <1>3, <3>3, <3>4, <3>6
    <3> QED BY <3>2, <3>7
  <2> HIDE DEF S
  <2>4. Nat \subseteq S
    BY <2>2, <2>3, NaturalSet
  <2> QED BY <2>4 DEF S
<1>5. ASSUME NEW i \in 1 .. Len(stack), NEW j \in 1 .. Len(stack), i < j,
             stack[i].resource = stack[j].resource, stack[i].resource # Registry
      PROVE  FALSE
  <2>1. j - i - 1 \in Nat /\ i + (j - i - 1) + 1 = j /\ j <= Len(stack) /\ j \in 2 .. Len(stack)
    BY <1>2, <1>5
  <2>2. steps[stack[i].resource] < steps[stack[j].resource]
    BY <1>4, <1>5, <2>1
  <2>3. stack[j].resource \in Asset
    BY <2>1, WaitingFacts
  <2> QED BY <1>3, <1>5, <2>2, <2>3
<1>6. \A i, j \in 1 .. Len(stack) : i < j \/ j < i \/ i = j
  OBVIOUS
<1> QED BY <1>5, <1>6 DEF Access!NoReentry

LEMMA NoReentryLocal ==
    ASSUME Access!AccessAssumption, AccessInv, Access!ReadsLocal(network)
    PROVE  Access!NoReentry
<1>1. Len(stack) \in Nat
  BY TopFacts
<1>2. ASSUME NEW j \in 2 .. Len(stack)
      PROVE  stack[j].access # "READ" /\ stack[j - 1].access = "READ"
  <2>1. InHand(stack[j]) /\ Len(stack[j].path) <= network.rules[stack[j].rule].hops
    BY WaitingFacts
  <2>2. Len(stack[j].path) \in Nat /\ Len(stack[j].path) >= 1 /\ stack[j].rule \in Nat \ {0}
    BY WaitingFacts, CheckFields DEF CheckShape
  <2>3. Len(stack) > 1
    BY <1>1
  <2>4. network.rules # None /\ network.rules \in Seq(Access!AclRule)
    BY <2>3, SecondFacts, RelatedFacts DEF AccessInv, Enforced
  <2>5. stack[j].rule \in DOMAIN network.rules
    BY <2>1, <2>2, <2>4 DEF InHand
  <2>6. ASSUME stack[j].access = "READ" PROVE FALSE
    <3>1. network.rules[stack[j].rule].verbs \intersect {"READ", "ALL"} # {}
      BY <2>1, <2>6 DEF InHand, Access!Applies
    <3>2. network.rules[stack[j].rule].hops = 0
      BY <2>4, <2>5, <3>1 DEF Access!ReadsLocal
    <3> QED BY <2>1, <2>2, <3>2
  <2> QED BY <2>6, WaitingFacts DEF Link
<1>3. ASSUME NEW i \in 1 .. Len(stack), NEW j \in 1 .. Len(stack), i < j
      PROVE  stack[i].access # stack[j].access
  <2>1. i + 1 \in 2 .. Len(stack) /\ (i + 1) - 1 = i /\ j \in 2 .. Len(stack)
    BY <1>1, <1>3
  <2>2. stack[(i + 1) - 1].access = "READ"
    BY <1>2, <2>1
  <2> QED BY <1>2, <2>1, <2>2
<1>4. \A i, j \in 1 .. Len(stack) : i < j \/ j < i \/ i = j
  OBVIOUS
<1> QED BY <1>3, <1>4 DEF Access!NoReentry

\* Theorem (AccessNotReentered): where the relationships lead to an end, or the rules on reads
\* follow none, no check of an access waits for another one of the very same access, however
\* deep they are nested (accesscontroller.js, check, which nothing else keeps from it).
THEOREM AccessNotReentered ==
    Access!AccessAssumption /\ Access!ChecksEnd /\ Access!Spec => []Access!NoReentry
<1> SUFFICES ASSUME Access!AccessAssumption, Access!ChecksEnd
             PROVE  Access!Spec => []Access!NoReentry
  OBVIOUS
<1>1. AccessInv => Access!NoReentry
  BY NoReentryAcyclic, NoReentryLocal DEF Access!ChecksEnd, AccessInv, SceneTypes
<1>2. Access!Spec => []AccessInv
  BY AccessInvariant
<1> QED BY <1>1, <1>2, PTL

-----------------------------------------------------------------------------
\* A relationship that cannot be read.
Unreadable == \E r \in Asset : Access!Related(r) \in Asset \ Access!Readable

\* A check has only followed what can be read, and no rule before its own has matched.
CheckSound(c) ==
    /\ \A k \in 1 .. Len(c.path) - 1 : c.path[k + 1] \in Access!Readable \union {c.resource}
    /\ \A i \in 1 .. Len(network.rules) :
          i < c.rule => ~Matches(Access!Readable, c.resource, c.access, i)
    /\ c.get = "asset" => Access!FirstMatch({}, Registry, "READ")
    /\ c.get = "broken" => Unreadable
Granting(c) == Access!FirstMatch(Access!Readable, c.resource, c.access)

StackSound(checks) == \A i \in 1 .. Len(checks) : CheckSound(checks[i])
AccessSound ==
    Enforced =>
       /\ StackSound(stack)
       /\ result = "allowed" => Granting(stack[1])
       /\ result = "denied" => ~Granting(stack[1]) \/ Unreadable

LEMMA SoundKept ==
    ASSUME UNCHANGED Access!scene
    PROVE  /\ StackSound(stack') => StackSound(stack)'
           /\ Unreadable' <=> Unreadable
           /\ Granting(stack'[1]) <=> Granting(stack[1])'
<1>1. /\ network' = network /\ stored' = stored /\ flagged' = flagged
      /\ caller' = caller /\ within' = within
  BY DEF Access!scene
<1>2. Access!Readable' = Access!Readable
  BY <1>1 DEF Access!Visit, Access!Related, Access!Readable, Access!FirstMatch,
              Access!Condition, Access!Applies
<1>3. Unreadable' <=> Unreadable
  BY <1>1, <1>2 DEF Unreadable, Access!Related
<1>4. Granting(stack'[1]) <=> Granting(stack[1])'
  BY <1>1, <1>2 DEF Granting, Access!FirstMatch, Access!Visit, Access!Related,
                    Access!Condition, Access!Applies
<1>5. ASSUME NEW i, CheckSound(stack'[i]) PROVE CheckSound(stack[i])'
  <2>1. ASSUME NEW j, Matches(Access!Readable, stack[i].resource, stack[i].access, j)'
        PROVE  Matches(Access!Readable, stack'[i].resource, stack'[i].access, j)
    <3>1. Access!Visit(Access!Readable, stack[i].resource, network.rules[j].hops)' =
          Access!Visit(Access!Readable, stack'[i].resource, network.rules[j].hops)
      BY <1>1, <1>2 DEF Access!Visit, Access!Related
    <3>2. Access!Applies(network.rules[j], stack[i].resource, stack[i].access)' <=>
          Access!Applies(network.rules[j], stack'[i].resource, stack'[i].access)
      BY <1>1 DEF Access!Applies
    <3>3. Access!Condition(Access!Readable, stack[i].resource, network.rules[j])' <=>
          Access!Condition(Access!Readable, stack'[i].resource, network.rules[j])
      BY <1>1, <3>1 DEF Access!Condition
    <3> QED BY <2>1, <3>2, <3>3 DEF Matches
  <2>2. Access!FirstMatch({}, Registry, "READ") <=> Access!FirstMatch({}, Registry, "READ")'
    BY <1>1 DEF Access!FirstMatch, Access!Visit, Access!Related, Access!Condition, Access!Applies
  <2> QED BY <1>1, <1>2, <1>3, <1>5, <2>1, <2>2 DEF CheckSound
<1> QED BY <1>3, <1>4, <1>5 DEF StackSound

LEMMA PushSoundly ==
    ASSUME NEW checks \in Seq(CheckRecord), StackSound(checks),
           NEW c \in CheckRecord, CheckSound(c)
    PROVE  StackSound(<<c>> \o checks)
<1> DEFINE more == <<c>> \o checks
<1>1. /\ Len(more) = Len(checks) + 1 /\ more[1] = c
      /\ \A i \in 1 .. Len(checks) + 1 : i > 1 => more[i] = checks[i - 1] /\ i - 1 \in 1 .. Len(checks)
  BY PrependFacts
<1> HIDE DEF more
<1>2. ASSUME NEW i \in 1 .. Len(more) PROVE CheckSound(more[i])
  <2>1. CASE i = 1
    BY <1>1, <2>1
  <2>2. CASE i # 1
    <3>1. i > 1 /\ i \in 1 .. Len(checks) + 1
      BY <1>1, <2>2
    <3>2. more[i] = checks[i - 1] /\ i - 1 \in 1 .. Len(checks)
      BY <1>1, <3>1
    <3> QED BY <3>2 DEF StackSound
  <2> QED BY <2>1, <2>2
<1>3. StackSound(more)
  BY <1>2 DEF StackSound
<1> QED BY <1>3 DEF more

LEMMA DropSoundly ==
    ASSUME NEW checks \in Seq(CheckRecord), StackSound(checks), Len(checks) >= 1
    PROVE  StackSound(Tail(checks))
<1> DEFINE less == Tail(checks)
<1>1. /\ Len(less) = Len(checks) - 1
      /\ \A i \in 1 .. Len(checks) - 1 : less[i] = checks[i + 1] /\ i + 1 \in 1 .. Len(checks)
  BY RestFacts
<1> HIDE DEF less
<1>2. StackSound(less)
  BY <1>1 DEF StackSound
<1> QED BY <1>2 DEF less

\* What can be read, where checks end.
Reading == Access!Readable \subseteq stored /\ Access!Readable = ReadWhere(Access!Readable)

LEMMA ReadingHolds ==
    ASSUME Access!AccessAssumption, Access!ChecksEnd, AccessInv, Enforced
    PROVE  Reading
<1>1. Access!Acyclic(network) \/ Access!ReadsLocal(network)
  BY DEF Access!ChecksEnd, AccessInv, SceneTypes
<1> QED BY <1>1, ReadableFixed DEF Reading, AccessInv, Enforced

LEMMA VisitedSoundly ==
    ASSUME AccessInv, CheckSound(stack[1])
    PROVE  Visited(Access!Readable, stack[1].resource, stack[1].path)
BY TopFacts, CheckFields DEF CheckShape, CheckSound, Visited

\* The condition holds if the resource that has been reached at last is flagged, and
\* does not if the next one is not to be had.
LEMMA ConditionFacts ==
    ASSUME Access!AccessAssumption, AccessInv, CheckSound(stack[1]), Access!Matched, Reading
    PROVE  /\ Access!Reached =>
                (Access!Condition(Access!Readable, stack[1].resource, Access!Rule) <=> Access!Holds)
           /\ ~Access!Reached /\ Access!Target = None =>
                ~Access!Condition(Access!Readable, stack[1].resource, Access!Rule)
<1> DEFINE path == stack[1].path
           hops == network.rules[stack[1].rule].hops
           r == stack[1].resource
<1>1. SceneTypes /\ Access!Readable \in SUBSET Asset /\ flagged \subseteq Asset
  BY DEF AccessInv, SceneTypes, Reading
<1>2. r \in Node /\ hops \in Nat /\ Len(path) \in Nat /\ Len(path) >= 1
  BY TopFacts, CheckFields, MatchedFacts DEF CheckShape
<1>3. Visited(Access!Readable, r, path)
  BY VisitedSoundly
<1>4. Access!Rule.hops = hops /\ Access!Last(path) = path[Len(path)]
  BY TopFacts DEF Access!Rule, Access!Last
<1>5. Access!Reached <=> Len(path) = hops + 1
  BY TargetFacts
<1>6. Access!Holds <=> Access!Reached /\ (hops = 0 \/ path[Len(path)] \in flagged)
  BY <1>4, TopFacts DEF Access!Holds
<1>7. Access!Condition(Access!Readable, r, Access!Rule) <=>
        hops = 0 \/ Access!Visit(Access!Readable, r, hops) \in flagged
  BY <1>4 DEF Access!Condition
<1>8. Access!Target = Access!Related(path[Len(path)])
  BY TargetFacts DEF Onto
<1>9. ~Access!Reached => Len(path) <= hops
  BY MatchedFacts
<1> HIDE DEF path, hops, r
<1>10. ASSUME Access!Reached PROVE Access!Visit(Access!Readable, r, hops) = path[Len(path)]
  BY <1>1, <1>2, <1>3, <1>5, <1>10, VisitPath
<1>11. ASSUME ~Access!Reached, Access!Target = None
       PROVE  Access!Visit(Access!Readable, r, hops) \notin flagged /\ hops # 0
  <2>1. None \notin Access!Readable \union {r} /\ None \notin flagged
    BY <1>1, <1>2, RelatedFacts DEF Node
  <2>2. Len(path) <= hops
    BY <1>9, <1>11
  <2>3. Access!Related(path[Len(path)]) \notin Access!Readable \union {r}
    BY <1>8, <1>11, <2>1
  <2>4. Access!Visit(Access!Readable, r, hops) = None
    BY <1>1, <1>2, <1>3, <2>2, <2>3, VisitPath
  <2> QED BY <1>2, <2>1, <2>2, <2>4
<1> QED BY <1>6, <1>7, <1>10, <1>11 DEF r

\* What a stride of the running check comes to.
Running == Access!AccessAssumption /\ AccessInv /\ Enforced /\ Reading
           /\ StackSound(stack) /\ result = None

LEMMA RunningFacts ==
    ASSUME Running
    PROVE  /\ CheckSound(stack[1]) /\ SceneTypes /\ network.rules # None
           /\ network.rules \in Seq(Access!AclRule)
           /\ Access!Readable \in SUBSET Asset
<1>1. 1 \in 1 .. Len(stack)
  BY TopFacts DEF Running
<1> QED BY <1>1, RelatedFacts DEF Running, StackSound, Enforced, AccessInv, Reading, SceneTypes

LEMMA TopSoundly ==
    ASSUME Running, NEW c \in CheckRecord, CheckSound(c), Access!SetTop(c)
    PROVE  StackSound(stack')
<1>1. stack \in Seq(CheckRecord) /\ Len(stack) >= 1 /\ StackSound(stack)
  BY TopFacts DEF Running
<1>2. Tail(stack) \in Seq(CheckRecord) /\ StackSound(Tail(stack))
  BY <1>1, RestFacts, DropSoundly
<1> QED BY <1>2, PushSoundly DEF Access!SetTop

LEMMA NextRuleSound ==
    ASSUME Running, Access!NextRule
    PROVE  StackSound(stack') /\ result' = result
<1> DEFINE c == [stack[1] EXCEPT !.rule = @ + 1, !.path = <<stack[1].resource>>]
           r == stack[1].resource
           a == stack[1].access
           rule == stack[1].rule
<1>0. stack[1] \in CheckRecord /\ stack[1].get = "none"
  BY TopFacts DEF Access!NextRule, Access!AtRule, Running
<1>1. rule \in Nat \ {0} /\ rule + 1 \in Nat \ {0} /\ <<r>> \in Seq(Node)
  BY <1>0, CheckFields
<1>2. /\ c \in CheckRecord /\ c.resource = r /\ c.access = a /\ c.rule = rule + 1
      /\ c.path = <<r>> /\ c.get = "none"
  <2>1. c \in CheckRecord
    BY <1>0, <1>1 DEF CheckRecord
  <2> QED BY <1>0, <2>1 DEF CheckRecord
<1>6. Access!SetTop(c)
  BY TopFacts DEF Access!NextRule, Running
<1>3. ~Matches(Access!Readable, r, a, rule)
  <2>1. Access!Rule = network.rules[rule] /\ Access!Top = stack[1]
    BY TopFacts DEF Access!Rule, Running
  <2>2. CASE ~Access!Matched
    <3>1. ~Access!Applies(Access!Rule, r, a)
      BY <2>1, <2>2 DEF Access!NextRule, Access!Matched
    <3> QED BY <2>1, <3>1 DEF Matches
  <2>3. CASE Access!Matched
    <3>1. IF Access!Reached THEN ~Access!Holds ELSE Access!Target = None
      BY <2>3 DEF Access!NextRule
    <3>2. ~Access!Condition(Access!Readable, r, Access!Rule)
      BY <2>3, <3>1, RunningFacts, ConditionFacts DEF Running
    <3> QED BY <2>1, <3>2 DEF Matches
  <2> QED BY <2>2, <2>3
<1>4. CheckSound(stack[1])
  BY RunningFacts
<1> HIDE DEF c
<1>5. CheckSound(c)
  <2>1. ASSUME NEW i \in 1 .. Len(network.rules), i < c.rule
        PROVE  ~Matches(Access!Readable, c.resource, c.access, i)
    <3>1. i < rule \/ i = rule
      BY <1>1, <1>2, <2>1
    <3> QED BY <1>2, <1>3, <1>4, <3>1 DEF CheckSound
  <2>2. Len(c.path) = 1
    BY <1>2
  <2> QED BY <1>2, <2>1, <2>2 DEF CheckSound
<1>7. StackSound(stack')
  BY <1>2, <1>5, <1>6, TopSoundly
<1> QED BY <1>7 DEF Access!NextRule

\* A check that has come one resource further.
LEMMA FurtherSound ==
    ASSUME Running, NEW c \in CheckRecord, CheckSound(c), NEW x \in Node,
           x \in Access!Readable \union {c.resource}
    PROVE  CheckSound([c EXCEPT !.get = "none", !.path = Append(@, x)])
<1> DEFINE d == [c EXCEPT !.get = "none", !.path = Append(@, x)]
<1>1. c.path \in Seq(Node) /\ Len(c.path) \in Nat
  BY CheckFields
<1> DEFINE p == Append(c.path, x)
<1>2. /\ Len(p) = Len(c.path) + 1 /\ p[Len(c.path) + 1] = x
      /\ \A k \in 1 .. Len(c.path) : p[k] = c.path[k]
  BY <1>1
<1>3. /\ d.resource = c.resource /\ d.access = c.access /\ d.rule = c.rule
      /\ d.path = p /\ d.get = "none"
  BY DEF CheckRecord
<1> HIDE DEF d, p
<1>4. ASSUME NEW k \in 1 .. Len(p) - 1 PROVE p[k + 1] \in Access!Readable \union {c.resource}
  <2>1. CASE k = Len(c.path)
    BY <1>2, <2>1
  <2>2. CASE k # Len(c.path)
    <3>1. k \in 1 .. Len(c.path) - 1 /\ k + 1 \in 1 .. Len(c.path)
      BY <1>1, <1>2, <2>2
    <3> QED BY <1>2, <3>1 DEF CheckSound
  <2> QED BY <2>1, <2>2
<1>5. CheckSound(d)
  BY <1>3, <1>4 DEF CheckSound
<1> QED BY <1>5 DEF d

LEMMA CachedSound ==
    ASSUME Running, Access!Cached
    PROVE  StackSound(stack') /\ result' = result
<1>1. /\ Access!Matched /\ Access!Target \in Access!ToSet(stack[1].path)
      /\ Access!SetTop([stack[1] EXCEPT !.path = Append(@, Access!Target)])
  BY TopFacts DEF Access!Cached, Running
<1>2. stack[1] \in CheckRecord /\ stack[1].get = "none" /\ CheckSound(stack[1])
  BY <1>1, TopFacts, MatchedFacts, RunningFacts DEF Running
<1>3. stack[1].path \in Seq(Node) /\ Len(stack[1].path) \in Nat /\ stack[1].path[1] = stack[1].resource
  BY <1>2, CheckFields, TopFacts DEF CheckShape, Running
<1>4. PICK k \in 1 .. Len(stack[1].path) : stack[1].path[k] = Access!Target
  BY <1>1, TargetFacts DEF Running
<1>5. Access!Target \in Node /\ Access!Target \in Access!Readable \union {stack[1].resource}
  <2>1. CASE k = 1
    BY <1>3, <1>4, <2>1
  <2>2. CASE k # 1
    <3>1. k - 1 \in 1 .. Len(stack[1].path) - 1 /\ (k - 1) + 1 = k
      BY <1>3, <2>2
    <3> QED BY <1>2, <1>3, <1>4, <3>1 DEF CheckSound
  <2> QED BY <2>1, <2>2
<1> DEFINE d == [stack[1] EXCEPT !.get = "none", !.path = Append(@, Access!Target)]
<1>6. [stack[1] EXCEPT !.path = Append(@, Access!Target)] = d
  BY <1>2 DEF CheckRecord
<1>7. CheckSound(d)
  BY <1>2, <1>5, FurtherSound
<1>8. d \in CheckRecord
  <2>1. Append(stack[1].path, Access!Target) \in Seq(Node)
    BY <1>3, <1>5
  <2> QED BY <1>2, <2>1 DEF CheckRecord
<1>9. Access!SetTop(d)
  BY <1>1, <1>6
<1> HIDE DEF d
<1>10. StackSound(stack')
  BY <1>7, <1>8, <1>9, TopSoundly
<1> QED BY <1>10 DEF Access!Cached

LEMMA BeginSound ==
    ASSUME NEW r, NEW a
    PROVE  CheckSound(Access!Check(r, a))
<1> DEFINE c == Access!Check(r, a)
<1>1. c.rule = 1 /\ c.get = "none" /\ c.path = <<r>> /\ Len(c.path) = 1
  BY DEF Access!Check
<1> HIDE DEF c
<1>2. CheckSound(c)
  BY <1>1 DEF CheckSound
<1> QED BY <1>2 DEF c

LEMMA ResolveSoundly ==
    ASSUME Running, Access!Resolve
    PROVE  StackSound(stack') /\ result' = result
<1> DEFINE n == Access!Check(Registry, "READ")
           c == [stack[1] EXCEPT !.get = "registry"]
           rest == Tail(stack)
<1>1. stack' = <<n, c>> \o rest
  BY TopFacts DEF Access!Resolve, Running
<1>2. /\ stack[1] \in CheckRecord /\ CheckSound(stack[1])
      /\ stack \in Seq(CheckRecord) /\ Len(stack) >= 1 /\ StackSound(stack)
  BY TopFacts, RunningFacts DEF Running
<1>3. /\ c \in CheckRecord /\ c.resource = stack[1].resource /\ c.access = stack[1].access
      /\ c.path = stack[1].path /\ c.rule = stack[1].rule /\ c.get = "registry"
  BY <1>2 DEF CheckRecord
<1>4. n \in CheckRecord /\ CheckSound(n)
  <2>1. Registry \in Node /\ "READ" \in Access!Access
    BY DEF Node, Access!Access
  <2> QED BY <2>1, BeginShape, BeginSound DEF CheckShape
<1>5. rest \in Seq(CheckRecord) /\ StackSound(rest)
  BY <1>2, RestFacts, DropSoundly
<1> HIDE DEF n, c, rest
<1>6. CheckSound(c)
  BY <1>2, <1>3 DEF CheckSound
<1> DEFINE more == <<c>> \o rest
<1>7. StackSound(more)
  BY <1>3, <1>5, <1>6, PushSoundly
<1>8. more \in Seq(CheckRecord)
  BY <1>3, <1>5, PrependFacts
<1>9. stack' = <<n>> \o more
  BY <1>1, <1>3, <1>4, <1>5, PrependTwo
<1> HIDE DEF more
<1>10. StackSound(stack')
  BY <1>4, <1>7, <1>8, <1>9, PushSoundly
<1> QED BY <1>10 DEF Access!Resolve

LEMMA LastAsset ==
    ASSUME Access!AccessAssumption, SceneTypes, NEW c, Onto(c) \in Asset, Onto(c) \notin Access!Readable
    PROVE  Unreadable
<1>1. c.path[Len(c.path)] \in Asset
  <2>1. None \notin Asset
    BY RelatedFacts DEF Node
  <2> QED BY <2>1 DEF Onto, Access!Related
<1> QED BY <1>1 DEF Onto, Unreadable

LEMMA GetSound ==
    ASSUME Running, Access!Get
    PROVE  StackSound(stack') /\ result' = result
<1>1. /\ stack[1] \in CheckRecord /\ CheckSound(stack[1]) /\ stack[1].get = "asset"
      /\ stack \in Seq(CheckRecord) /\ StackSound(stack)
  BY TopFacts, RunningFacts DEF Running, Access!Get
<1>2. Onto(stack[1]) \in Asset /\ Access!Target = Onto(stack[1])
  BY <1>1, TopFacts, TargetFacts DEF Running, CheckShape, Waits
<1>3. CASE Access!Target \in stored
  <2> DEFINE n == Access!Check(Access!Target, "READ")
  <2>1. stack' = <<n>> \o stack
    BY <1>3 DEF Access!Get
  <2>2. n \in CheckRecord /\ CheckSound(n)
    <3>1. Access!Target \in Node /\ "READ" \in Access!Access
      BY <1>2 DEF Node, Access!Access
    <3> QED BY <3>1, BeginShape, BeginSound DEF CheckShape
  <2> HIDE DEF n
  <2> QED BY <1>1, <2>1, <2>2, PushSoundly DEF Access!Get
<1>4. CASE Access!Target \notin stored
  <2> DEFINE c == [stack[1] EXCEPT !.get = "broken"]
  <2>1. Access!SetTop(c)
    BY <1>4, TopFacts DEF Access!Get, Running
  <2>2. /\ c \in CheckRecord /\ c.resource = stack[1].resource /\ c.access = stack[1].access
        /\ c.path = stack[1].path /\ c.rule = stack[1].rule /\ c.get = "broken"
    BY <1>1 DEF CheckRecord
  <2>3. Unreadable
    BY <1>2, <1>4, LastAsset, RunningFacts DEF Running, Reading
  <2> HIDE DEF c
  <2>4. CheckSound(c)
    BY <1>1, <2>2, <2>3 DEF CheckSound
  <2> QED BY <2>1, <2>2, <2>4, TopSoundly DEF Access!Get
<1> QED BY <1>3, <1>4

\* The running check has the answer that the rules give, or could not resolve something.
Answered(allowed) ==
    /\ allowed => Granting(stack[1])
    /\ ~allowed => ~Granting(stack[1]) \/ Unreadable

LEMMA DecideAnswers ==
    ASSUME Running, Access!Decide
    PROVE  Access!Rule.allow \in BOOLEAN /\ Answered(Access!Rule.allow)
<1> DEFINE r == stack[1].resource
           a == stack[1].access
           i == stack[1].rule
<1>1. CheckSound(stack[1]) /\ SceneTypes /\ network.rules # None /\ Access!AccessAssumption
  BY RunningFacts DEF Running
<1>2. Access!Matched /\ Access!Holds /\ Access!Reached
  BY DEF Access!Decide, Access!Holds
<1>3. i \in 1 .. Len(network.rules) /\ Access!Rule = network.rules[i]
  BY <1>2, MatchedFacts, TopFacts DEF Running, Access!Rule
<1>4. Access!Rule.allow \in BOOLEAN
  BY <1>1, <1>3, RuleType
<1>5. Matches(Access!Readable, r, a, i)
  <2>1. Access!Condition(Access!Readable, r, Access!Rule)
    BY <1>1, <1>2, ConditionFacts DEF Running
  <2>2. Access!Applies(Access!Rule, r, a)
    BY <1>2, TopFacts DEF Running, Access!Matched
  <2> QED BY <1>3, <2>1, <2>2 DEF Matches
<1>6. \A j \in 1 .. Len(network.rules) : j < i => ~Matches(Access!Readable, r, a, j)
  BY <1>1 DEF CheckSound
<1>7. Granting(stack[1]) <=>
        \E j \in 1 .. Len(network.rules) :
           /\ Matches(Access!Readable, r, a, j) /\ network.rules[j].allow
           /\ \A k \in 1 .. Len(network.rules) : Matches(Access!Readable, r, a, k) => j <= k
  BY <1>1, FirstMatchIs DEF Granting
<1>8. i \in Nat /\ \A j \in 1 .. Len(network.rules) : j \in Nat
  BY <1>3
<1> HIDE DEF r, a, i
<1>9. Granting(stack[1]) <=> network.rules[i].allow
  <2>1. \A j \in 1 .. Len(network.rules) : Matches(Access!Readable, r, a, j) => i <= j
    BY <1>6, <1>8
  <2>2. \A j \in 1 .. Len(network.rules) : i <= j /\ j <= i => j = i
    BY <1>8
  <2> QED BY <1>3, <1>5, <1>7, <2>1, <2>2
<1> QED BY <1>3, <1>4, <1>9 DEF Answered

LEMMA NoRuleAnswers ==
    ASSUME Running, Access!NoRule
    PROVE  Answered(FALSE)
<1> DEFINE r == stack[1].resource
           a == stack[1].access
<1>1. CheckSound(stack[1]) /\ SceneTypes /\ network.rules # None /\ Access!AccessAssumption
  BY RunningFacts DEF Running
<1>2. stack[1].rule > Len(network.rules) /\ Len(network.rules) \in Nat /\ stack[1].rule \in Nat
  BY TopFacts, CheckFields, RunningFacts DEF Running, Access!NoRule
<1>3. \A j \in 1 .. Len(network.rules) : j < stack[1].rule
  BY <1>2
<1>4. \A j \in 1 .. Len(network.rules) : ~Matches(Access!Readable, r, a, j)
  BY <1>1, <1>3 DEF CheckSound
<1>5. ~Granting(stack[1])
  BY <1>1, <1>4, FirstMatchIs DEF Granting
<1> QED BY <1>5 DEF Answered

LEMMA BrokenAnswers ==
    ASSUME Running, Access!CannotRead
    PROVE  Answered(FALSE)
<1>1. CheckSound(stack[1]) /\ stack[1].get = "broken"
  BY RunningFacts, TopFacts DEF Running, Access!CannotRead
<1> QED BY <1>1 DEF CheckSound, Answered

LEMMA ResumedSound ==
    ASSUME Running, NEW allowed \in BOOLEAN, Answered(allowed), Len(stack) > 1
    PROVE  CheckSound(Resumed(stack[2], allowed))
<1> DEFINE d == stack[2]
           x == stack[1]
<1>1. /\ Link(x, d) /\ Onto(d) \in Asset /\ d \in CheckRecord /\ Waits(d)
      /\ Access!AccessAssumption /\ SceneTypes /\ network.rules # None /\ Reading
      /\ x \in CheckRecord /\ Access!Readable \in SUBSET Asset
  BY SecondFacts, RunningFacts, TopFacts DEF Running
<1>2. CheckSound(d)
  <2>1. 2 \in 1 .. Len(stack)
    BY TopFacts DEF Running
  <2> QED BY <2>1 DEF Running, StackSound
<1>3. /\ d.get = "registry" =>
           x.resource = Registry
           /\ (Granting(x) <=> Access!FirstMatch({}, Registry, "READ"))
      /\ d.get = "asset" =>
           /\ x.resource = Onto(d) /\ Onto(d) \in stored
           /\ Access!FirstMatch({}, Registry, "READ")
           /\ (Granting(x) <=> Onto(d) \in Access!Readable)
  <2>1. CASE d.get = "registry"
    <3>1. x.resource = Registry /\ x.access = "READ" /\ d.get # "asset"
      BY <1>1, <2>1 DEF Link
    <3>2. Access!FirstMatch(Access!Readable, Registry, "READ") <=>
            Access!FirstMatch({}, Registry, "READ")
      <4>1. {} \in SUBSET Asset
        OBVIOUS
      <4> QED BY <1>1, <4>1, RegistryAgree
    <3> QED BY <3>1, <3>2 DEF Granting
  <2>2. CASE d.get = "asset"
    <3>1. /\ x.resource = Onto(d) /\ x.access = "READ" /\ Onto(d) \in stored
          /\ d.get # "registry"
      BY <1>1, <2>2 DEF Link
    <3>2. Access!FirstMatch({}, Registry, "READ")
      BY <1>2, <2>2 DEF CheckSound
    <3>3. Onto(d) \in Access!Readable <=> Access!FirstMatch(Access!Readable, Onto(d), "READ")
      BY <1>1, <3>1, <3>2 DEF Reading, ReadWhere
    <3> QED BY <3>1, <3>2, <3>3 DEF Granting
  <2> QED BY <1>1, <2>1, <2>2 DEF Waits
<1>4. CASE ~allowed
  <2> DEFINE c == [d EXCEPT !.get = "broken"]
  <2>1. /\ c.resource = d.resource /\ c.access = d.access
        /\ c.path = d.path /\ c.rule = d.rule /\ c.get = "broken"
    BY <1>1 DEF CheckRecord
  <2>2. Resumed(d, allowed) = c
    BY <1>4 DEF Resumed
  <2>3. Unreadable
    <3>1. CASE Unreadable
      BY <3>1
    <3>2. CASE ~Granting(x) /\ d.get = "registry"
      <4>1. Access!Readable = {}
        BY <1>1, <1>3, <3>2 DEF Reading, ReadWhere
      <4> QED BY <1>1, <4>1, LastAsset
    <3>3. CASE ~Granting(x) /\ d.get = "asset"
      <4>1. Onto(d) \notin Access!Readable
        BY <1>3, <3>3
      <4> QED BY <1>1, <4>1, LastAsset
    <3> QED BY <1>1, <1>4, <3>1, <3>2, <3>3 DEF Answered, Waits
  <2> HIDE DEF c, d
  <2>4. CheckSound(c)
    BY <1>2, <2>1, <2>3 DEF CheckSound
  <2> QED BY <2>2, <2>4 DEF d
<1>5. CASE allowed /\ d.get = "registry"
  <2> DEFINE c == [d EXCEPT !.get = "asset"]
  <2>1. /\ c.resource = d.resource /\ c.access = d.access
        /\ c.path = d.path /\ c.rule = d.rule /\ c.get = "asset"
    BY <1>1 DEF CheckRecord
  <2>2. Resumed(d, allowed) = c
    BY <1>5 DEF Resumed
  <2>3. Access!FirstMatch({}, Registry, "READ")
    BY <1>3, <1>5 DEF Answered
  <2> HIDE DEF c, d
  <2>4. CheckSound(c)
    BY <1>2, <2>1, <2>3 DEF CheckSound
  <2> QED BY <2>2, <2>4 DEF d
<1>6. CASE allowed /\ d.get = "asset"
  <2>1. x.resource = Onto(d) /\ Onto(d) \in Access!Readable /\ Onto(d) \in Node
    BY <1>1, <1>3, <1>6 DEF Answered, Node
  <2>2. Resumed(d, allowed) = [d EXCEPT !.get = "none", !.path = Append(@, Onto(d))]
    BY <1>6, <2>1 DEF Resumed
  <2> HIDE DEF d, x
  <2>3. CheckSound([d EXCEPT !.get = "none", !.path = Append(@, Onto(d))])
    BY <1>1, <1>2, <2>1, FurtherSound
  <2> QED BY <2>2, <2>3 DEF d
<1> QED BY <1>1, <1>4, <1>5, <1>6 DEF Waits

LEMMA ReturnSound ==
    ASSUME Running, NEW allowed \in BOOLEAN, Answered(allowed), Access!Return(allowed)
    PROVE  /\ StackSound(stack')
           /\ \/ result' = result
              \/ stack' = stack /\ result' = IF allowed THEN "allowed" ELSE "denied"
<1>1. StackSound(stack) /\ stack \in Seq(CheckRecord) /\ AccessInv /\ Access!AccessAssumption
  BY TopFacts DEF Running
<1>2. CASE Len(stack) = 1 /\ stack' = stack /\ result' = IF allowed THEN "allowed" ELSE "denied"
  BY <1>1, <1>2
<1>3. CASE /\ Len(stack) > 1 /\ result' = result
           /\ stack' = <<Resumed(stack[2], allowed)>> \o Tail(Tail(stack))
  <2>1. Len(stack) >= 1 /\ Len(stack) >= 2 /\ Len(stack) \in Nat
    BY <1>1, <1>3, TopFacts, OneOrMore
  <2>2. Tail(stack) \in Seq(CheckRecord) /\ StackSound(Tail(stack)) /\ Len(Tail(stack)) = Len(stack) - 1
    BY <1>1, <2>1, RestFacts, DropSoundly
  <2>3. Len(Tail(stack)) >= 1
    BY <2>1, <2>2
  <2>4. Tail(Tail(stack)) \in Seq(CheckRecord) /\ StackSound(Tail(Tail(stack)))
    BY <2>2, <2>3, RestFacts, DropSoundly
  <2>5. Resumed(stack[2], allowed) \in CheckRecord /\ CheckSound(Resumed(stack[2], allowed))
    BY <1>1, <1>3, ResumedShape, ResumedSound DEF CheckShape
  <2> QED BY <1>3, <2>4, <2>5, PushSoundly
<1> QED BY <1>1, <1>2, <1>3, ReturnStack

LEMMA SoundStep ==
    ASSUME Running, UNCHANGED Access!scene, StackSound(stack'),
           \/ result' = result
           \/ /\ stack' = stack
              /\ \/ result' = "allowed" /\ Granting(stack[1])
                 \/ result' = "denied" /\ (~Granting(stack[1]) \/ Unreadable)
    PROVE  AccessSound'
<1>1. StackSound(stack)' /\ (Unreadable' <=> Unreadable)
  BY SoundKept
<1>2. CASE result' = result
  <2>1. result' # "allowed" /\ result' # "denied"
    BY <1>2 DEF Running, Access!AccessAssumption
  <2> QED BY <1>1, <2>1 DEF AccessSound
<1>3. CASE /\ stack' = stack
           /\ \/ result' = "allowed" /\ Granting(stack[1])
              \/ result' = "denied" /\ (~Granting(stack[1]) \/ Unreadable)
  <2>1. Granting(stack[1])' <=> Granting(stack[1])
    <3>1. Granting(stack'[1]) <=> Granting(stack[1])
      BY <1>3
    <3> QED BY <3>1, SoundKept
  <2> QED BY <1>1, <1>3, <2>1 DEF AccessSound
<1> QED BY <1>2, <1>3

LEMMA AccessSoundInit ==
    ASSUME Access!AccessAssumption, Access!Init
    PROVE  AccessSound
<1>1. PICK r \in stored, a \in Access!Access : stack = <<Access!Check(r, a)>>
  BY DEF Access!Init
<1>2. result # "allowed" /\ result # "denied"
  BY DEF Access!Init, Access!AccessAssumption
<1> DEFINE c == Access!Check(r, a)
<1>3. CheckSound(c) /\ stack = <<c>>
  BY <1>1, BeginSound
<1> HIDE DEF c
<1>4. Len(stack) = 1 /\ stack[1] = c
  BY <1>3
<1>5. StackSound(stack)
  BY <1>3, <1>4 DEF StackSound
<1> QED BY <1>2, <1>5 DEF AccessSound

LEMMA AccessSoundNext ==
    ASSUME Access!AccessAssumption, Access!ChecksEnd, AccessInv, AccessSound,
           [Access!Next]_(Access!vars)
    PROVE  AccessSound'
<1>1. CASE UNCHANGED Access!vars
  <2>1. UNCHANGED Access!scene /\ stack' = stack /\ result' = result
    BY <1>1 DEF Access!vars, Access!scene
  <2>2. StackSound(stack') <=> StackSound(stack)
    BY <2>1
  <2>3. Granting(stack'[1]) <=> Granting(stack[1])
    BY <2>1
  <2>4. Enforced' <=> Enforced
    BY <2>1, SceneKept
  <2>5. (Unreadable' <=> Unreadable) /\ (StackSound(stack) => StackSound(stack)')
        /\ (Granting(stack[1])' <=> Granting(stack[1]))
    BY <2>1, <2>2, <2>3, SoundKept
  <2> QED BY <2>1, <2>4, <2>5 DEF AccessSound
<1>2. CASE Access!Unenforced
  <2>1. ~Enforced' 
    BY <1>2, SceneKept DEF Access!Unenforced, Enforced
  <2> QED BY <2>1 DEF AccessSound
<1>3. ASSUME Enforced, result = None PROVE Running
  BY <1>3, ReadingHolds DEF Running, AccessSound
<1>4. CASE Access!NextRule
  <2>1. Running
    BY <1>3, <1>4, NextRuleShape DEF Access!NextRule, Access!AtRule
  <2> QED BY <1>4, <2>1, NextRuleSound, SoundStep DEF Access!NextRule
<1>5. CASE Access!Decide
  <2>1. Running
    BY <1>3, <1>5, MatchedFacts DEF Access!Decide
  <2>2. Access!Rule.allow \in BOOLEAN /\ Answered(Access!Rule.allow)
    BY <1>5, <2>1, DecideAnswers
  <2>3. Access!Return(Access!Rule.allow) /\ UNCHANGED Access!scene
    BY <1>5 DEF Access!Decide
  <2> QED BY <2>1, <2>2, <2>3, ReturnSound, SoundStep DEF Answered
<1>6. CASE Access!NoRule
  <2>1. Running
    BY <1>3, <1>6 DEF Access!NoRule, Enforced
  <2>2. Answered(FALSE)
    BY <1>6, <2>1, NoRuleAnswers
  <2>3. Access!Return(FALSE) /\ UNCHANGED Access!scene
    BY <1>6 DEF Access!NoRule
  <2> QED BY <2>1, <2>2, <2>3, ReturnSound, SoundStep DEF Answered
<1>7. CASE Access!Cached
  <2>1. Running
    BY <1>3, <1>7, MatchedFacts DEF Access!Cached
  <2> QED BY <1>7, <2>1, CachedSound, SoundStep DEF Access!Cached
<1>8. CASE Access!Resolve
  <2>1. Running
    BY <1>3, <1>8, MatchedFacts DEF Access!Resolve
  <2> QED BY <1>8, <2>1, ResolveSoundly, SoundStep DEF Access!Resolve
<1>9. CASE Access!Get
  <2>1. Running
    BY <1>3, <1>9, GetShape DEF Access!Get
  <2> QED BY <1>9, <2>1, GetSound, SoundStep DEF Access!Get
<1>10. CASE Access!CannotRead
  <2>1. stack[1].get = "broken" /\ result = None
    BY <1>10, TopFacts DEF Access!CannotRead
  <2>2. Running
    BY <1>3, <2>1 DEF AccessInv
  <2>3. Answered(FALSE)
    BY <1>10, <2>2, BrokenAnswers
  <2>4. Access!Return(FALSE) /\ UNCHANGED Access!scene
    BY <1>10 DEF Access!CannotRead
  <2> QED BY <2>2, <2>3, <2>4, ReturnSound, SoundStep DEF Answered
<1> QED BY <1>1, <1>2, <1>4, <1>5, <1>6, <1>7, <1>8, <1>9, <1>10 DEF Access!Next

LEMMA AccessTypes ==
    ASSUME AccessInv
    PROVE  Access!TypeOK
<1> SUFFICES ASSUME NEW c \in Access!ToSet(stack)
             PROVE  /\ c.resource \in Asset \union {Registry}
                    /\ c.access \in Access!Access
                    /\ Access!ToSet(c.path) \subseteq Asset \union {Registry}
                    /\ c.get \in {"none", "registry", "asset", "broken"}
  BY DEF Access!TypeOK, AccessInv
<1>1. stack \in Seq(CheckRecord)
  BY TopFacts
<1>2. c \in CheckRecord
  BY <1>1 DEF Access!ToSet
<1>3. c.path \in Seq(Node)
  BY <1>2, CheckFields
<1>4. Access!ToSet(c.path) \subseteq Node
  BY <1>3 DEF Access!ToSet
<1> QED BY <1>2, <1>4, CheckFields DEF Node


LEMMA AccessDecides ==
    ASSUME AccessInv, AccessSound
    PROVE  Access!AllowedSoundly /\ Access!DeniedForCause
<1>1. CASE ~Enforced
  BY <1>1 DEF AccessInv, Enforced, Access!AllowedSoundly, Access!DeniedForCause, Access!Granted
<1>2. CASE Enforced
  BY <1>2 DEF AccessSound, Enforced, Access!AllowedSoundly, Access!DeniedForCause,
              Access!Granted, Granting, Unreadable
<1> QED BY <1>1, <1>2

\* Theorem (AccessByTheRules): for any number of rules, resources and relationships, an access
\* is allowed only if the first rule whose condition holds on what can be read allows it, and
\* denied only if it does not, or a relationship leads to what cannot be read.  The checks of
\* that are run by the very rules that are being checked (accesscontroller.js, check,
\* checkRule and matchPredicate).
THEOREM AccessByTheRules ==
    Access!AccessAssumption /\ Access!ChecksEnd /\ Access!Spec
        => [](Access!TypeOK /\ Access!AllowedSoundly /\ Access!DeniedForCause)
<1> SUFFICES ASSUME Access!AccessAssumption, Access!ChecksEnd
             PROVE  Access!Spec => [](Access!TypeOK /\ Access!AllowedSoundly
                                                    /\ Access!DeniedForCause)
  OBVIOUS
<1>1. Access!Init => AccessInv /\ AccessSound
  BY AccessInit, AccessSoundInit
<1>2. AccessInv /\ AccessSound /\ [Access!Next]_(Access!vars) => AccessInv' /\ AccessSound'
  BY AccessNext, AccessSoundNext
<1>3. AccessInv /\ AccessSound =>
        Access!TypeOK /\ Access!AllowedSoundly /\ Access!DeniedForCause
  BY AccessDecides, AccessTypes
<1> QED BY <1>1, <1>2, <1>3, PTL DEF Access!Spec

\* The access controller keeps to the rules, and no check waits for what waits for it
\* (accesscontroller.js, check; resolver.js, resolveRelationship).
THEOREM AccessDecided ==
    Access!AccessAssumption /\ Access!ChecksEnd /\ Access!Spec => []Access!RulesDecide
<1> SUFFICES ASSUME Access!AccessAssumption, Access!ChecksEnd
             PROVE  Access!Spec => []Access!RulesDecide
  OBVIOUS
<1> QED BY AccessByTheRules, AccessKnown, AccessNotReentered, PTL DEF Access!RulesDecide
-----------------------------------------------------------------------------
(***************************************************************************)
(* The registries.  A request works through sets of registries with folds: *)
(* what a fold makes is found by induction over the subsets of a finite    *)
(* set (SubsetInduction), once there is a function that it computes        *)
(* (FoldExists).                                                           *)
(***************************************************************************)
Some(s) == CHOOSE x \in s : TRUE

LEMMA SubsetInduction ==
    ASSUME NEW S, IsFiniteSet(S), NEW P, {} \in P,
           \A s \in SUBSET S : s # {} /\ s \ {Some(s)} \in P => s \in P
    PROVE  \A s \in SUBSET S : s \in P
<1> DEFINE N == {n \in Nat : \A s \in SUBSET S : Cardinality(s) <= n => s \in P}
<1>1. \A s \in SUBSET S : IsFiniteSet(s) /\ Cardinality(s) \in Nat /\ (Cardinality(s) = 0 <=> s = {})
  BY FS_Subset, FS_CardinalityType, FS_EmptySet
<1>2. 0 \in N
  <2>1. ASSUME NEW s \in SUBSET S, Cardinality(s) <= 0 PROVE s \in P
    <3>1. Cardinality(s) \in Nat /\ (Cardinality(s) = 0 <=> s = {})
      BY <1>1
    <3>2. s = {}
      BY <2>1, <3>1
    <3> QED BY <3>2
  <2> QED BY <2>1
<1>3. ASSUME NEW n \in Nat, n \in N PROVE n + 1 \in N
  <2>1. ASSUME NEW s \in SUBSET S, Cardinality(s) <= n + 1 PROVE s \in P
    <3>1. CASE s = {}
      BY <3>1
    <3>2. CASE s # {}
      <4>1. Some(s) \in s
        BY <3>2 DEF Some
      <4>2. Cardinality(s \ {Some(s)}) = Cardinality(s) - 1
        BY <1>1, <4>1, FS_RemoveElement
      <4>3. s \ {Some(s)} \in SUBSET S /\ Cardinality(s \ {Some(s)}) <= n
        BY <1>1, <2>1, <4>2
      <4> QED BY <1>3, <3>2, <4>3
    <3> QED BY <3>1, <3>2
  <2> QED BY <2>1
<1>4. Nat \subseteq N
  <2> HIDE DEF N
  <2> QED BY <1>2, <1>3, NaturalSet
<1> QED BY <1>1, <1>4

\* g is the fold of each subset of S.
Folded(g, S, V, base, F) ==
    /\ g \in [SUBSET S -> V]
    /\ \A s \in SUBSET S :
          g[s] = IF s = {} THEN base ELSE F[<<g[s \ {Some(s)}], Some(s)>>]

LEMMA FoldExists ==
    ASSUME NEW S, IsFiniteSet(S), NEW V, NEW base \in V, NEW F \in [V \X S -> V]
    PROVE  \E g : Folded(g, S, V, base, F)
<1> USE DEF Folded
<1> DEFINE Upto(n, g) == \A s \in SUBSET S : Cardinality(s) <= n =>
                 g[s] = IF s = {} THEN base ELSE F[<<g[s \ {Some(s)}], Some(s)>>]
           N == {n \in Nat : \E g \in [SUBSET S -> V] : Upto(n, g)}
<1>1. \A s \in SUBSET S : IsFiniteSet(s) /\ Cardinality(s) \in Nat /\ (Cardinality(s) = 0 <=> s = {})
  BY FS_Subset, FS_CardinalityType, FS_EmptySet
<1>2. 0 \in N
  <2>1. [s \in SUBSET S |-> base] \in [SUBSET S -> V] /\ Upto(0, [s \in SUBSET S |-> base])
    BY <1>1
  <2> QED BY <2>1
<1>3. ASSUME NEW n \in Nat, n \in N PROVE n + 1 \in N
  <2>1. PICK g \in [SUBSET S -> V] : Upto(n, g)
    BY <1>3
  <2> DEFINE h == [s \in SUBSET S |->
                      IF s = {} THEN base ELSE F[<<g[s \ {Some(s)}], Some(s)>>]]
  <2>2. \A s \in SUBSET S : s # {} => Some(s) \in s
    BY DEF Some
  <2>3. h \in [SUBSET S -> V]
    BY <2>2
  <2>4. ASSUME NEW s \in SUBSET S, Cardinality(s) <= n + 1, s # {}
        PROVE  h[s] = F[<<h[s \ {Some(s)}], Some(s)>>]
    <3> DEFINE u == s \ {Some(s)}
    <3>1. u \in SUBSET S
      OBVIOUS
    <3>2. Cardinality(u) = Cardinality(s) - 1
      BY <1>1, <2>2, <2>4, FS_RemoveElement
    <3>3. Cardinality(u) <= n
      BY <1>1, <2>4, <3>1, <3>2
    <3>4. g[u] = h[u]
      BY <2>1, <3>1, <3>3
    <3> QED BY <2>4, <3>4
  <2>5. Upto(n + 1, h)
    <3>1. {} \in SUBSET S /\ h[{}] = base
      OBVIOUS
    <3> HIDE DEF h
    <3> QED BY <2>4, <3>1
  <2>6. \E f \in [SUBSET S -> V] : Upto(n + 1, f)
    <3> HIDE DEF h, Upto
    <3> QED BY <2>3, <2>5
  <2> HIDE DEF h, Upto
  <2> QED BY <2>6
<1>4. Nat \subseteq N
  <2> HIDE DEF N
  <2> QED BY <1>2, <1>3, NaturalSet
<1>5. Cardinality(S) \in Nat
  BY <1>1
<1>6. PICK g \in [SUBSET S -> V] : Upto(Cardinality(S), g)
  BY <1>4, <1>5
<1>7. \A s \in SUBSET S : Cardinality(s) <= Cardinality(S)
  BY FS_Subset
<1> QED BY <1>6, <1>7

\* A request in progress, and what its writes are.
RegWrites == UNION {[D -> BOOLEAN] : D \in SUBSET Registries!Key}
RegRequest == [ok : BOOLEAN, writes : RegWrites, cache : SUBSET Registries!Registered,
               hidden : SUBSET Registries!NetworkRegistry]

LEMMA WriteKey ==
    ASSUME NEW st \in RegRequest, NEW k \in Registries!Key
    PROVE  /\ Registries!Put(st, k) \in RegRequest
           /\ Registries!Applied(Registries!Put(st, k)) = Registries!Applied(st) \union {k}
           /\ Registries!Put(st, k).cache = st.cache /\ Registries!Put(st, k).hidden = st.hidden
           /\ Registries!Put(st, k).ok = st.ok
           /\ Registries!Delete(st, k) \in RegRequest
           /\ Registries!Applied(Registries!Delete(st, k)) = Registries!Applied(st) \ {k}
           /\ Registries!Delete(st, k).cache = st.cache
           /\ Registries!Delete(st, k).hidden = st.hidden
<1>1. PICK D \in SUBSET Registries!Key : st.writes \in [D -> BOOLEAN]
  BY DEF RegRequest, RegWrites
<1>2. DOMAIN st.writes = D
  BY <1>1
<1>3. ASSUME NEW b \in BOOLEAN
      PROVE  /\ Registries!Written(st, k, b) \in RegRequest
             /\ Registries!Written(st, k, b).writes =
                   [x \in D \union {k} |-> IF x = k THEN b ELSE st.writes[x]]
             /\ Registries!Written(st, k, b).cache = st.cache
             /\ Registries!Written(st, k, b).hidden = st.hidden
             /\ Registries!Written(st, k, b).ok = st.ok
  <2> DEFINE w == [x \in D \union {k} |-> IF x = k THEN b ELSE st.writes[x]]
  <2>1. w \in [D \union {k} -> BOOLEAN]
    BY <1>1
  <2>2. D \union {k} \in SUBSET Registries!Key
    OBVIOUS
  <2>3. w \in RegWrites
    <3> HIDE DEF w
    <3> QED BY <2>1, <2>2 DEF RegWrites
  <2>4. Registries!Written(st, k, b) = [st EXCEPT !.writes = w]
    BY <1>2 DEF Registries!Written
  <2> HIDE DEF w
  <2>5. /\ [st EXCEPT !.writes = w] \in RegRequest
        /\ [st EXCEPT !.writes = w].writes = w
        /\ [st EXCEPT !.writes = w].cache = st.cache
        /\ [st EXCEPT !.writes = w].hidden = st.hidden
        /\ [st EXCEPT !.writes = w].ok = st.ok
    BY <2>3 DEF RegRequest
  <2> QED BY <2>4, <2>5 DEF w
<1>4. /\ Registries!Applied(Registries!Written(st, k, TRUE)) = Registries!Applied(st) \union {k}
      /\ Registries!Applied(Registries!Written(st, k, FALSE)) = Registries!Applied(st) \ {k}
  BY <1>1, <1>2, <1>3 DEF Registries!Applied
<1> QED BY <1>3, <1>4 DEF Registries!Put, Registries!Delete

\* The keys of registries and documents are told apart.
LEMMA RegistryKeys ==
    ASSUME Registries!RegistryAssumption
    PROVE  /\ Registries!NetworkRegistry \subseteq Registries!Registered
           /\ Registries!SystemRegistry \subseteq Registries!Registered
           /\ Historian \in Registries!SystemRegistry
           /\ \A r \in Registries!Registered :
                 /\ Registries!Entry(r) \in Registries!Key
                 /\ Registries!Collection(r) \in Registries!Key
                 /\ \A d \in Registries!DocumentsOf(r) : Registries!Document(r, d) \in Registries!Key
                 /\ r \in Registries!SystemRegistry <=> r \notin Registries!NetworkRegistry
           /\ \A r \in Registries!NetworkRegistry :
                 /\ TypeOf[r] \in Type
                 /\ Registries!RegistryOf(TypeOf[r]) \in Registries!SystemRegistry
                 /\ Registries!RegistryOf(TypeOf[r]) # Historian
                 /\ r \in Registries!DocumentsOf(Registries!RegistryOf(TypeOf[r]))
                 /\ Registries!DocumentsOf(r) = Doc
           /\ Registries!DocumentsOf(Historian) = Tx
           /\ \A q, r : /\ Registries!Entry(q) = Registries!Entry(r) <=> q = r
                        /\ Registries!Collection(q) = Registries!Collection(r) <=> q = r
                        /\ Registries!Entry(q) # Registries!Collection(r)
           /\ \A q, r, d : /\ Registries!Document(r, d) # Registries!Entry(q)
                           /\ Registries!Document(r, d) # Registries!Collection(q)
           /\ \A q, r, c, d : Registries!Document(q, c) = Registries!Document(r, d)
                                 <=> q = r /\ c = d
<1>1. /\ Registries!NetworkRegistry \subseteq Registries!Registered
      /\ Registries!SystemRegistry \subseteq Registries!Registered
      /\ Historian \in Registries!SystemRegistry
      /\ \A r \in Registries!Registered :
            r \in Registries!SystemRegistry <=> r \notin Registries!NetworkRegistry
  BY DEF Registries!RegistryAssumption, Registries!Registered, Registries!SystemRegistry
<1>2. \A r \in Registries!Registered :
         /\ Registries!Entry(r) \in Registries!Key
         /\ Registries!Collection(r) \in Registries!Key
         /\ \A d \in Registries!DocumentsOf(r) : Registries!Document(r, d) \in Registries!Key
  BY DEF Registries!Key
<1>3. \A r \in Registries!NetworkRegistry :
         /\ TypeOf[r] \in Type
         /\ Registries!RegistryOf(TypeOf[r]) \in Registries!SystemRegistry
         /\ Registries!RegistryOf(TypeOf[r]) # Historian
  BY DEF Registries!RegistryAssumption, Registries!SystemRegistry
<1>4. \A r \in Registries!NetworkRegistry :
         /\ r \in Registries!DocumentsOf(Registries!RegistryOf(TypeOf[r]))
         /\ Registries!DocumentsOf(r) = Doc
  BY <1>1, <1>3 DEF Registries!DocumentsOf
<1>5. Registries!DocumentsOf(Historian) = Tx
  BY DEF Registries!DocumentsOf
<1>6. \A q, r : /\ Registries!Entry(q) = Registries!Entry(r) <=> q = r
                /\ Registries!Collection(q) = Registries!Collection(r) <=> q = r
                /\ Registries!Entry(q) # Registries!Collection(r)
  BY DEF Registries!Entry, Registries!Collection
<1>7. \A q, r, d : /\ Registries!Document(r, d) # Registries!Entry(q)
                   /\ Registries!Document(r, d) # Registries!Collection(q)
  <2> SUFFICES ASSUME NEW q, NEW r, NEW d
               PROVE  /\ Registries!Document(r, d)[1] # Registries!Entry(q)[1]
                      /\ Registries!Document(r, d)[1] # Registries!Collection(q)[1]
    OBVIOUS
  <2> QED BY DEF Registries!Entry, Registries!Collection, Registries!Document
<1>8. \A q, r, c, d : Registries!Document(q, c) = Registries!Document(r, d) <=> q = r /\ c = d
  BY DEF Registries!Document
<1> QED BY <1>1, <1>2, <1>3, <1>4, <1>5, <1>6, <1>7, <1>8

\* What it takes for a registry to be there: its entry, its collection, its resource.
RegKeys(r) ==
    {Registries!Entry(r), Registries!Collection(r)} \union
    IF r \in Registries!NetworkRegistry
    THEN {Registries!Document(Registries!RegistryOf(TypeOf[r]), r)} ELSE {}

LEMMA RegKeysAre ==
    ASSUME Registries!RegistryAssumption, NEW r \in Registries!Registered
    PROVE  /\ RegKeys(r) \subseteq Registries!Key
           /\ \A q : /\ Registries!Entry(q) \in RegKeys(r) <=> q = r
                     /\ Registries!Collection(q) \in RegKeys(r) <=> q = r
           /\ \A q, d : Registries!Document(q, d) \in RegKeys(r) <=>
                 r \in Registries!NetworkRegistry /\ q = Registries!RegistryOf(TypeOf[r]) /\ d = r
<1>1. CASE r \in Registries!NetworkRegistry
  BY <1>1, RegistryKeys DEF RegKeys
<1>2. CASE r \notin Registries!NetworkRegistry
  BY <1>2, RegistryKeys DEF RegKeys
<1> QED BY <1>1, <1>2

\* What is there already and readable is left to be, unless it is forced.
RegThere(r) == Registries!Entry(r) \in keys /\ Registries!Collection(r) \in keys

LEMMA AddedKey ==
    ASSUME NEW st \in RegRequest, NEW k \in Registries!Key, NEW force \in BOOLEAN
    PROVE  LET n == Registries!AddKey(st, k, force) IN
           /\ n \in RegRequest
           /\ Registries!Applied(n) = Registries!Applied(st) \union {k}
           /\ n.cache = st.cache /\ n.hidden = st.hidden
           /\ n.ok => st.ok
<1> DEFINE c == force \/ k \notin keys
           m == [st EXCEPT !.ok = @ /\ c]
<1>1. /\ m \in RegRequest /\ m.writes = st.writes /\ m.cache = st.cache /\ m.hidden = st.hidden
      /\ m.ok => st.ok
  BY DEF RegRequest
<1>2. Registries!Applied(m) = Registries!Applied(st)
  <2> HIDE DEF m
  <2> QED BY <1>1 DEF Registries!Applied
<1>3. Registries!AddKey(st, k, force) = Registries!Put(m, k)
  BY DEF Registries!AddKey, Registries!Require
<1> HIDE DEF m
<1> QED BY <1>1, <1>2, <1>3, WriteKey

LEMMA Required ==
    ASSUME NEW st \in RegRequest, NEW c
    PROVE  LET n == Registries!Require(st, c) IN
           /\ n \in RegRequest
           /\ Registries!Applied(n) = Registries!Applied(st)
           /\ n.cache = st.cache /\ n.hidden = st.hidden
           /\ n.ok => st.ok /\ c
<1> DEFINE m == [st EXCEPT !.ok = @ /\ c]
<1>1. /\ m \in RegRequest /\ m.writes = st.writes /\ m.cache = st.cache /\ m.hidden = st.hidden
      /\ m.ok => st.ok /\ c
  BY DEF RegRequest
<1>2. Registries!Applied(m) = Registries!Applied(st)
  <2> HIDE DEF m
  <2> QED BY <1>1 DEF Registries!Applied
<1>3. Registries!Require(st, c) = m
  BY DEF Registries!Require
<1> HIDE DEF m
<1> QED BY <1>1, <1>2, <1>3


\* A registry is added with all its keys; a default one, unless it can be got as it is.
LEMMA AddedRegistry ==
    ASSUME Registries!RegistryAssumption, NEW st \in RegRequest,
           NEW r \in Registries!Registered, NEW force \in BOOLEAN
    PROVE  LET n == Registries!AddRegistry(st, r, force) IN
           /\ n \in RegRequest
           /\ Registries!Applied(n) = Registries!Applied(st) \union RegKeys(r)
           /\ n.cache = st.cache /\ n.hidden = st.hidden
<1> DEFINE listed == Registries!AddKey(st, Registries!Entry(r), force)
           held == IF r \in Registries!SystemRegistry THEN listed
                   ELSE Registries!AddResource(listed, r, force)
           resource == IF r \in Registries!NetworkRegistry
                       THEN {Registries!Document(Registries!RegistryOf(TypeOf[r]), r)} ELSE {}
<1>1. /\ Registries!Entry(r) \in Registries!Key /\ Registries!Collection(r) \in Registries!Key
      /\ r \in Registries!SystemRegistry <=> r \notin Registries!NetworkRegistry
  BY RegistryKeys
<1>2. /\ listed \in RegRequest
      /\ Registries!Applied(listed) = Registries!Applied(st) \union {Registries!Entry(r)}
      /\ listed.cache = st.cache /\ listed.hidden = st.hidden
  BY <1>1, AddedKey
<1> HIDE DEF listed
<1>3. /\ held \in RegRequest
      /\ Registries!Applied(held) = Registries!Applied(listed) \union resource
      /\ held.cache = st.cache /\ held.hidden = st.hidden
  <2>1. CASE r \in Registries!SystemRegistry
    BY <1>1, <1>2, <2>1
  <2>2. CASE r \notin Registries!SystemRegistry
    <3> DEFINE srid == Registries!RegistryOf(TypeOf[r])
               key == Registries!Document(srid, r)
               got == Registries!GetRegistry(listed, srid)
    <3>1. r \in Registries!NetworkRegistry /\ held = Registries!AddResource(listed, r, force)
      BY <1>1, <2>2
    <3>2. key \in Registries!Key
      BY <3>1, RegistryKeys
    <3>3. /\ got \in RegRequest /\ Registries!Applied(got) = Registries!Applied(listed)
          /\ got.cache = listed.cache /\ got.hidden = listed.hidden
      BY <1>2, Required DEF Registries!GetRegistry
    <3>4. held = IF srid \in listed.cache THEN Registries!AddKey(listed, key, force)
                 ELSE Registries!AddKey(got, key, FALSE)
      BY <3>1 DEF Registries!AddResource
    <3> HIDE DEF got, key, held
    <3>5. CASE srid \in listed.cache
      <4>1. /\ held \in RegRequest
            /\ Registries!Applied(held) = Registries!Applied(listed) \union {key}
            /\ held.cache = listed.cache /\ held.hidden = listed.hidden
        BY <1>2, <3>2, <3>4, <3>5, AddedKey
      <4> QED BY <1>2, <3>1, <4>1 DEF key
    <3>6. CASE srid \notin listed.cache
      <4>1. /\ held \in RegRequest
            /\ Registries!Applied(held) = Registries!Applied(got) \union {key}
            /\ held.cache = got.cache /\ held.hidden = got.hidden
        BY <3>2, <3>3, <3>4, <3>6, AddedKey
      <4> QED BY <1>2, <3>1, <3>3, <4>1 DEF key
    <3> QED BY <3>5, <3>6
  <2> QED BY <2>1, <2>2
<1>4. Registries!AddRegistry(st, r, force) =
        Registries!AddKey(held, Registries!Collection(r), force)
  BY DEF Registries!AddRegistry, listed
<1> HIDE DEF held
<1>5. LET n == Registries!AddRegistry(st, r, force) IN
      /\ n \in RegRequest
      /\ Registries!Applied(n) = Registries!Applied(held) \union {Registries!Collection(r)}
      /\ n.cache = held.cache /\ n.hidden = held.hidden
  BY <1>1, <1>3, <1>4, AddedKey
<1>6. RegKeys(r) = {Registries!Entry(r)} \union resource \union {Registries!Collection(r)}
  BY DEF RegKeys
<1> HIDE DEF resource
<1> QED BY <1>2, <1>3, <1>5, <1>6

\* What createDefaults makes of one registry that is not in the cache.
DefaultAdds(st, r, force) == force \/ ~RegThere(r) \/ r \in st.hidden

LEMMA DefaultedRegistry ==
    ASSUME Registries!RegistryAssumption, NEW st \in RegRequest,
           NEW r \in Registries!Registered, NEW force \in BOOLEAN, r \notin st.cache
    PROVE  LET n == Registries!DefaultRegistry(st, r, force) IN
           /\ n \in RegRequest
           /\ Registries!Applied(n) = Registries!Applied(st) \union
                 (IF DefaultAdds(st, r, force) THEN RegKeys(r) ELSE {})
           /\ n.cache = st.cache \union {r} /\ n.hidden = st.hidden
<1> DEFINE base == IF force THEN Registries!AddRegistry(st, r, TRUE)
                   ELSE Registries!EnsureRegistry(st, r)
<1>1. Registries!CanGet(st, r) <=> RegThere(r) /\ r \notin st.hidden
  BY DEF Registries!CanGet, RegThere
<1>2. base = IF DefaultAdds(st, r, force) THEN Registries!AddRegistry(st, r, force) ELSE st
  BY <1>1 DEF Registries!EnsureRegistry, DefaultAdds
<1>3. /\ base \in RegRequest
      /\ Registries!Applied(base) = Registries!Applied(st) \union
            (IF DefaultAdds(st, r, force) THEN RegKeys(r) ELSE {})
      /\ base.cache = st.cache /\ base.hidden = st.hidden
  <2> HIDE DEF base
  <2>1. CASE DefaultAdds(st, r, force)
    BY <1>2, <2>1, AddedRegistry
  <2>2. CASE ~DefaultAdds(st, r, force)
    BY <1>2, <2>2
  <2> QED BY <2>1, <2>2
<1>4. Registries!DefaultRegistry(st, r, force) = [base EXCEPT !.cache = @ \union {r}]
  BY DEF Registries!DefaultRegistry, Registries!Cached
<1> HIDE DEF base
<1> DEFINE m == [base EXCEPT !.cache = @ \union {r}]
<1>5. /\ m \in RegRequest /\ m.writes = base.writes
      /\ m.cache = base.cache \union {r} /\ m.hidden = base.hidden
  BY <1>3 DEF RegRequest
<1>6. Registries!Applied(m) = Registries!Applied(base)
  <2> HIDE DEF m
  <2> QED BY <1>5 DEF Registries!Applied
<1> HIDE DEF m
<1> QED BY <1>3, <1>4, <1>5, <1>6 DEF m

\* The keys of many registries.
KeysOf(rs) == UNION {RegKeys(r) : r \in rs}

LEMMA KeysTogether ==
    ASSUME NEW A, NEW B
    PROVE  KeysOf(A \union B) = KeysOf(A) \union KeysOf(B)
BY DEF KeysOf

LEMMA KeysOfOne ==
    ASSUME NEW r
    PROVE  KeysOf({r}) = RegKeys(r) /\ KeysOf({}) = {}
BY DEF KeysOf

\* createDefaults goes through registries of which none is in the cache.
Defaulted(st, rs, force) ==
    Registries!ForEach(LAMBDA s, r : Registries!DefaultRegistry(s, r, force), st, rs)

LEMMA DefaultedAll ==
    ASSUME Registries!RegistryAssumption, NEW st \in RegRequest, NEW force \in BOOLEAN,
           NEW S \in SUBSET Registries!Registered, IsFiniteSet(S), S \intersect st.cache = {}
    PROVE  LET n == Defaulted(st, S, force) IN
           /\ n \in RegRequest
           /\ n.cache = st.cache \union S /\ n.hidden = st.hidden
           /\ Registries!Applied(n) = Registries!Applied(st) \union
                 KeysOf({q \in S : DefaultAdds(st, q, force)})
<1> DEFINE F == [p \in RegRequest \X S |-> 
                    IF p[2] \in p[1].cache THEN p[1]
                    ELSE Registries!DefaultRegistry(p[1], p[2], force)]
           It == CHOOSE g : g = [s \in SUBSET S |->
                    IF s = {} THEN st
                    ELSE Registries!DefaultRegistry(g[s \ {CHOOSE x \in s : TRUE}],
                                                    CHOOSE x \in s : TRUE, force)]
           Done(s, n) == /\ n \in RegRequest
                         /\ n.cache = st.cache \union s /\ n.hidden = st.hidden
                         /\ Registries!Applied(n) = Registries!Applied(st) \union
                               KeysOf({q \in s : DefaultAdds(st, q, force)})
<1>1. Defaulted(st, S, force) = It[S]
  BY DEF Defaulted, Registries!ForEach, Registries!FoldSet, Registries!MapThenFoldSet
<1>2. \A s \in SUBSET S : s # {} => Some(s) \in s /\ Some(s) \in S
  BY DEF Some
<1>3. Done({}, st)
  BY KeysOfOne
<1>4. ASSUME NEW s \in SUBSET S, s # {}, NEW b, Done(s \ {Some(s)}, b)
      PROVE  Some(s) \notin b.cache /\ Done(s, Registries!DefaultRegistry(b, Some(s), force))
  <2> DEFINE r == Some(s)
             n == Registries!DefaultRegistry(b, r, force)
             Adds(t) == {q \in t : DefaultAdds(st, q, force)}
  <2>1. r \in s /\ r \in S /\ r \in Registries!Registered /\ r \notin st.cache
    BY <1>2, <1>4
  <2>0. /\ b \in RegRequest
        /\ b.cache = st.cache \union (s \ {r}) /\ b.hidden = st.hidden
        /\ Registries!Applied(b) = Registries!Applied(st) \union KeysOf(Adds(s \ {r}))
    BY <1>4
  <2> HIDE DEF r
  <2>2. r \notin b.cache
    BY <2>0, <2>1
  <2>3. /\ n \in RegRequest
        /\ Registries!Applied(n) = Registries!Applied(b) \union
              (IF DefaultAdds(b, r, force) THEN RegKeys(r) ELSE {})
        /\ n.cache = b.cache \union {r} /\ n.hidden = b.hidden
    BY <2>0, <2>1, <2>2, DefaultedRegistry
  <2>4. DefaultAdds(b, r, force) <=> DefaultAdds(st, r, force)
    BY <2>0 DEF DefaultAdds
  <2>5. Adds(s) = Adds(s \ {r}) \union Adds({r})
    BY <2>1
  <2>6. KeysOf(Adds({r})) = IF DefaultAdds(st, r, force) THEN RegKeys(r) ELSE {}
    <3>1. CASE DefaultAdds(st, r, force)
      <4>1. Adds({r}) = {r}
        BY <3>1
      <4> HIDE DEF Adds
      <4> QED BY <3>1, <4>1, KeysOfOne
    <3>2. CASE ~DefaultAdds(st, r, force)
      <4>1. Adds({r}) = {}
        BY <3>2
      <4> HIDE DEF Adds
      <4> QED BY <3>2, <4>1, KeysOfOne
    <3> QED BY <3>1, <3>2
  <2> HIDE DEF n, Adds
  <2>7. KeysOf(Adds(s)) = KeysOf(Adds(s \ {r})) \union KeysOf(Adds({r}))
    BY <2>5, KeysTogether
  <2>8. Registries!Applied(n) = Registries!Applied(st) \union KeysOf(Adds(s))
    BY <2>0, <2>3, <2>4, <2>6, <2>7
  <2>9. n.cache = st.cache \union s /\ n.hidden = st.hidden
    BY <2>0, <2>1, <2>3
  <2> QED BY <2>2, <2>3, <2>8, <2>9 DEF n, r, Adds
<1>5. F \in [RegRequest \X S -> RegRequest]
  <2>1. ASSUME NEW b \in RegRequest, NEW r \in S, r \notin b.cache
        PROVE  Registries!DefaultRegistry(b, r, force) \in RegRequest
    BY <2>1, DefaultedRegistry
  <2> QED BY <2>1
<1>6. PICK g \in [SUBSET S -> RegRequest] : \A s \in SUBSET S :
         g[s] = IF s = {} THEN st ELSE F[<<g[s \ {Some(s)}], Some(s)>>]
  <2> HIDE DEF F, It, Done
  <2>1. PICK g : Folded(g, S, RegRequest, st, F)
    BY <1>5, FoldExists
  <2> QED BY <2>1 DEF Folded
<1> DEFINE P == {s \in SUBSET S : Done(s, g[s])}
<1>7. \A s \in SUBSET S : s \in P
  <2>1. {} \in P
    BY <1>3, <1>6
  <2>2. ASSUME NEW s \in SUBSET S, s # {}, s \ {Some(s)} \in P PROVE s \in P
    <3>1. Done(s \ {Some(s)}, g[s \ {Some(s)}])
      BY <2>2
    <3> DEFINE b == g[s \ {Some(s)}]
    <3>2. b \in RegRequest /\ Some(s) \notin b.cache
          /\ Done(s, Registries!DefaultRegistry(b, Some(s), force))
      BY <1>4, <2>2, <3>1
    <3>3. g[s] = F[<<b, Some(s)>>]
      BY <1>6, <2>2
    <3> HIDE DEF b, Done
    <3>4. g[s] = Registries!DefaultRegistry(b, Some(s), force)
      BY <1>2, <2>2, <3>2, <3>3
    <3> QED BY <3>2, <3>4
  <2> HIDE DEF P
  <2> QED BY <2>1, <2>2, SubsetInduction
<1> HIDE DEF Done
<1>8. ASSUME NEW s \in SUBSET S, s # {}
      PROVE  g[s] = Registries!DefaultRegistry(g[s \ {Some(s)}], Some(s), force)
  <2>1. Done(s \ {Some(s)}, g[s \ {Some(s)}])
    BY <1>7
  <2>2. Some(s) \notin g[s \ {Some(s)}].cache
    BY <1>4, <1>8, <2>1
  <2> QED BY <1>2, <1>6, <1>8, <2>2
<1>9. g = [s \in SUBSET S |->
              IF s = {} THEN st
              ELSE Registries!DefaultRegistry(g[s \ {CHOOSE x \in s : TRUE}],
                                              CHOOSE x \in s : TRUE, force)]
  <2>1. g[{}] = st
    BY <1>6
  <2>2. g = [s \in SUBSET S |-> g[s]]
    OBVIOUS
  <2> QED BY <1>8, <2>1, <2>2 DEF Some
<1>10. It = [s \in SUBSET S |->
              IF s = {} THEN st
              ELSE Registries!DefaultRegistry(It[s \ {CHOOSE x \in s : TRUE}],
                                              CHOOSE x \in s : TRUE, force)]
  BY <1>9
<1> HIDE DEF It
<1> DEFINE Q == {s \in SUBSET S : Done(s, It[s])}
<1>11. \A s \in SUBSET S : s \in Q
  <2>1. It[{}] = st
    BY <1>10
  <2>2. {} \in Q
    BY <1>3, <2>1
  <2>3. ASSUME NEW s \in SUBSET S, s # {}, s \ {Some(s)} \in Q PROVE s \in Q
    <3>1. It[s] = Registries!DefaultRegistry(It[s \ {Some(s)}], Some(s), force)
      BY <1>10, <2>3 DEF Some
    <3>2. Done(s, Registries!DefaultRegistry(It[s \ {Some(s)}], Some(s), force))
      BY <1>4, <2>3
    <3> QED BY <3>1, <3>2
  <2> HIDE DEF Q
  <2> QED BY <2>2, <2>3, SubsetInduction
<1>12. Done(S, It[S])
  BY <1>11
<1> QED BY <1>1, <1>12 DEF Done

\* A registry is cleared of its collection and of the documents that it has, and removed
\* with its entry and its resource.
DocsOf(r, ds) == {Registries!Document(r, d) : d \in ds}
Held(r) == {d \in Registries!DocumentsOf(r) : Registries!Document(r, d) \in keys}
Gone(r) == RegKeys(r) \union DocsOf(r, Held(r))

LEMMA ClearedRegistry ==
    ASSUME Registries!RegistryAssumption, NEW st \in RegRequest,
           NEW r \in Registries!NetworkRegistry
    PROVE  LET n == Registries!ClearRegistry(st, r) IN
           /\ n \in RegRequest
           /\ n.cache = st.cache /\ n.hidden = st.hidden
           /\ Registries!Applied(n) =
                Registries!Applied(st) \ ({Registries!Collection(r)} \union DocsOf(r, Held(r)))
<1> DEFINE S == Held(r)
           base == Registries!Delete(Registries!Require(st, Registries!Collection(r) \in keys),
                                     Registries!Collection(r))
           F == [p \in RegRequest \X S |-> Registries!Delete(p[1], Registries!Document(r, p[2]))]
           It == CHOOSE g : g = [s \in SUBSET S |->
                    IF s = {} THEN base
                    ELSE Registries!Delete(g[s \ {CHOOSE x \in s : TRUE}],
                                           Registries!Document(r, CHOOSE x \in s : TRUE))]
           Done(s, n) == /\ n \in RegRequest
                         /\ n.cache = st.cache /\ n.hidden = st.hidden
                         /\ Registries!Applied(n) = Registries!Applied(base) \ DocsOf(r, s)
<1>1. Registries!ClearRegistry(st, r) = It[S]
  BY DEF Registries!ClearRegistry, Registries!ForEach, Registries!FoldSet,
         Registries!MapThenFoldSet, Held
<1>2. /\ \A s \in SUBSET S : s # {} => Some(s) \in s /\ Some(s) \in S
      /\ \A d \in S : Registries!Document(r, d) \in Registries!Key
      /\ r \in Registries!Registered /\ Registries!Collection(r) \in Registries!Key
  BY RegistryKeys DEF Some, Held
<1>3. IsFiniteSet(S)
  <2>1. IsFiniteSet(Doc) /\ Registries!DocumentsOf(r) = Doc
    BY RegistryKeys DEF Registries!RegistryAssumption, Registries!IsFiniteSet, IsFiniteSet
  <2>2. S \subseteq Doc
    BY <2>1 DEF Held
  <2> QED BY <2>1, <2>2, FS_Subset
<1> HIDE DEF S
<1>4. /\ base \in RegRequest /\ base.cache = st.cache /\ base.hidden = st.hidden
      /\ Registries!Applied(base) = Registries!Applied(st) \ {Registries!Collection(r)}
  <2> DEFINE m == Registries!Require(st, Registries!Collection(r) \in keys)
  <2>1. /\ m \in RegRequest /\ Registries!Applied(m) = Registries!Applied(st)
        /\ m.cache = st.cache /\ m.hidden = st.hidden
    BY Required
  <2> HIDE DEF m
  <2>2. base = Registries!Delete(m, Registries!Collection(r))
    BY DEF m
  <2> HIDE DEF base
  <2> QED BY <1>2, <2>1, <2>2, WriteKey
<1> HIDE DEF base
<1>5. Done({}, base)
  BY <1>4 DEF DocsOf
<1>6. ASSUME NEW s \in SUBSET S, s # {}, NEW b, Done(s \ {Some(s)}, b)
      PROVE  Done(s, Registries!Delete(b, Registries!Document(r, Some(s))))
  <2> DEFINE d == Some(s)
             n == Registries!Delete(b, Registries!Document(r, d))
  <2>1. d \in s /\ d \in S /\ Registries!Document(r, d) \in Registries!Key
    BY <1>2, <1>6
  <2>2. /\ b \in RegRequest /\ b.cache = st.cache /\ b.hidden = st.hidden
        /\ Registries!Applied(b) = Registries!Applied(base) \ DocsOf(r, s \ {d})
    BY <1>6
  <2> HIDE DEF d
  <2>3. /\ n \in RegRequest /\ n.cache = b.cache /\ n.hidden = b.hidden
        /\ Registries!Applied(n) = Registries!Applied(b) \ {Registries!Document(r, d)}
    BY <2>1, <2>2, WriteKey
  <2>4. DocsOf(r, s) = DocsOf(r, s \ {d}) \union {Registries!Document(r, d)}
    BY <2>1 DEF DocsOf
  <2> HIDE DEF n
  <2>5. Done(s, n)
    BY <2>2, <2>3, <2>4
  <2> QED BY <2>5 DEF n, d
<1>7. F \in [RegRequest \X S -> RegRequest]
  BY <1>2, WriteKey
<1>8. PICK g : Folded(g, S, RegRequest, base, F)
  <2> HIDE DEF F, It, Done
  <2> QED BY <1>3, <1>4, <1>7, FoldExists
<1>9. g = [s \in SUBSET S |->
              IF s = {} THEN base
              ELSE Registries!Delete(g[s \ {CHOOSE x \in s : TRUE}],
                                     Registries!Document(r, CHOOSE x \in s : TRUE))]
  <2>1. g \in [SUBSET S -> RegRequest] /\ g[{}] = base
    BY <1>8 DEF Folded
  <2>2. ASSUME NEW s \in SUBSET S, s # {}
        PROVE  g[s] = Registries!Delete(g[s \ {Some(s)}], Registries!Document(r, Some(s)))
    <3>1. g[s] = F[<<g[s \ {Some(s)}], Some(s)>>] /\ g[s \ {Some(s)}] \in RegRequest
      BY <1>8, <2>2 DEF Folded
    <3> QED BY <1>2, <2>2, <3>1
  <2>3. g = [s \in SUBSET S |-> g[s]]
    BY <2>1
  <2> HIDE DEF F
  <2> QED BY <2>1, <2>2, <2>3 DEF Some
<1>10. It = [s \in SUBSET S |->
              IF s = {} THEN base
              ELSE Registries!Delete(It[s \ {CHOOSE x \in s : TRUE}],
                                     Registries!Document(r, CHOOSE x \in s : TRUE))]
  BY <1>9
<1> HIDE DEF It, F
<1> DEFINE Q == {s \in SUBSET S : Done(s, It[s])}
<1> HIDE DEF Done
<1>11. \A s \in SUBSET S : s \in Q
  <2>1. {} \in Q
    BY <1>5, <1>10
  <2>2. ASSUME NEW s \in SUBSET S, s # {}, s \ {Some(s)} \in Q PROVE s \in Q
    <3>1. It[s] = Registries!Delete(It[s \ {Some(s)}], Registries!Document(r, Some(s)))
      BY <1>10, <2>2 DEF Some
    <3>2. Done(s, Registries!Delete(It[s \ {Some(s)}], Registries!Document(r, Some(s))))
      BY <1>6, <2>2
    <3> QED BY <3>1, <3>2
  <2> HIDE DEF Q
  <2> QED BY <1>3, <2>1, <2>2, SubsetInduction
<1>12. Done(S, It[S])
  BY <1>11
<1> QED BY <1>1, <1>4, <1>12 DEF Done, S

LEMMA RemovedRegistry ==
    ASSUME Registries!RegistryAssumption, NEW st \in RegRequest,
           NEW r \in Registries!NetworkRegistry
    PROVE  LET n == Registries!RemoveRegistry(st, r) IN
           /\ n \in RegRequest
           /\ n.cache = st.cache /\ n.hidden = st.hidden
           /\ Registries!Applied(n) = Registries!Applied(st) \ Gone(r)
<1> DEFINE srid == Registries!RegistryOf(TypeOf[r])
           key == Registries!Document(srid, r)
           cleared == Registries!ClearRegistry(st, r)
           got == Registries!GetRegistry(cleared, srid)
           held == Registries!Delete(Registries!Require(got, key \in keys), key)
           last1 == Registries!Require(held, Registries!Entry(r) \in keys)
<1>1. key \in Registries!Key /\ Registries!Entry(r) \in Registries!Key
  BY RegistryKeys
<1>2. /\ cleared \in RegRequest /\ cleared.cache = st.cache /\ cleared.hidden = st.hidden
      /\ Registries!Applied(cleared) =
            Registries!Applied(st) \ ({Registries!Collection(r)} \union DocsOf(r, Held(r)))
  BY ClearedRegistry
<1> HIDE DEF cleared, key
<1>3. /\ got \in RegRequest /\ got.cache = cleared.cache /\ got.hidden = cleared.hidden
      /\ Registries!Applied(got) = Registries!Applied(cleared)
  BY <1>2, Required DEF Registries!GetRegistry
<1> HIDE DEF got
<1>4. /\ held \in RegRequest /\ held.cache = got.cache /\ held.hidden = got.hidden
      /\ Registries!Applied(held) = Registries!Applied(got) \ {key}
  <2> DEFINE m == Registries!Require(got, key \in keys)
  <2>1. /\ m \in RegRequest /\ Registries!Applied(m) = Registries!Applied(got)
        /\ m.cache = got.cache /\ m.hidden = got.hidden
    BY <1>3, Required
  <2>2. held = Registries!Delete(m, key)
    OBVIOUS
  <2> HIDE DEF m, held
  <2> QED BY <1>1, <2>1, <2>2, WriteKey
<1> HIDE DEF held
<1>5. /\ last1 \in RegRequest /\ last1.cache = held.cache /\ last1.hidden = held.hidden
      /\ Registries!Applied(last1) = Registries!Applied(held)
  BY <1>4, Required
<1>6. Registries!RemoveRegistry(st, r) = Registries!Delete(last1, Registries!Entry(r))
  BY DEF Registries!RemoveRegistry, cleared, got, held, key
<1> HIDE DEF last1
<1>7. LET n == Registries!RemoveRegistry(st, r) IN
      /\ n \in RegRequest /\ n.cache = last1.cache /\ n.hidden = last1.hidden
      /\ Registries!Applied(n) = Registries!Applied(last1) \ {Registries!Entry(r)}
  BY <1>1, <1>5, <1>6, WriteKey
<1>8. Gone(r) = {Registries!Collection(r)} \union DocsOf(r, Held(r)) \union {key}
                \union {Registries!Entry(r)}
  BY DEF Gone, RegKeys, key
<1> QED BY <1>2, <1>3, <1>4, <1>5, <1>7, <1>8

\* A reset removes what can be read, type by type.
GoneOf(rs) == UNION {Gone(r) : r \in rs}
OfType(type, hidden) ==
    {r \in Registries!NetworkRegistry : TypeOf[r] = type /\ RegThere(r) /\ r \notin hidden}

LEMMA GoneTogether ==
    ASSUME NEW A, NEW B
    PROVE  GoneOf(A \union B) = GoneOf(A) \union GoneOf(B)
BY DEF GoneOf

LEMMA GoneOfOne ==
    ASSUME NEW r
    PROVE  GoneOf({r}) = Gone(r) /\ GoneOf({}) = {}
BY DEF GoneOf

LEMMA ResetOfType ==
    ASSUME Registries!RegistryAssumption, NEW st \in RegRequest, st.cache = {}, NEW type
    PROVE  LET n == Registries!ResetRegistries(st, type) IN
           /\ n \in RegRequest
           /\ n.cache = {} /\ n.hidden = st.hidden
           /\ Registries!Applied(n) = Registries!Applied(st) \ GoneOf(OfType(type, st.hidden))
<1> DEFINE S == OfType(type, st.hidden)
           V == RegRequest
           F == [p \in V \X S |-> Registries!RemoveRegistry(p[1], p[2])]
           It == CHOOSE g : g = [s \in SUBSET S |->
                    IF s = {} THEN st
                    ELSE Registries!RemoveRegistry(g[s \ {CHOOSE x \in s : TRUE}],
                                                   CHOOSE x \in s : TRUE)]
           Left(s) == GoneOf(s)
           Done(s, n) == /\ n \in RegRequest
                         /\ n.cache = {} /\ n.hidden = st.hidden
                         /\ Registries!Applied(n) = Registries!Applied(st) \ Left(s)
<1>1. Registries!ResetRegistries(st, type) = It[S]
  <2>1. S = {r \in Registries!NetworkRegistry :
               /\ TypeOf[r] = type
               /\ Registries!Entry(r) \in keys
               /\ Registries!CanGet(st, r)}
    BY DEF OfType, RegThere, Registries!CanGet
  <2> HIDE DEF S
  <2> QED BY <2>1 DEF Registries!ResetRegistries, Registries!ForEach, Registries!FoldSet,
                      Registries!MapThenFoldSet
<1>2. /\ \A s \in SUBSET S : s # {} => Some(s) \in s /\ Some(s) \in S
      /\ S \subseteq Registries!NetworkRegistry
  BY DEF Some, OfType
<1>3. IsFiniteSet(S)
  <2>1. IsFiniteSet(Registries!NetworkRegistry)
    BY DEF Registries!RegistryAssumption, Registries!IsFiniteSet, IsFiniteSet
  <2> QED BY <1>2, <2>1, FS_Subset
<1> HIDE DEF S
<1>5. Done({}, st)
  BY GoneOfOne
<1>6. ASSUME NEW s \in SUBSET S, s # {}, NEW b, Done(s \ {Some(s)}, b)
      PROVE  Done(s, Registries!RemoveRegistry(b, Some(s)))
  <2> DEFINE r == Some(s)
             n == Registries!RemoveRegistry(b, r)
  <2>1. r \in s /\ r \in S /\ r \in Registries!NetworkRegistry
    BY <1>2, <1>6
  <2>2. /\ b \in RegRequest /\ b.cache = {} /\ b.hidden = st.hidden
        /\ Registries!Applied(b) = Registries!Applied(st) \ Left(s \ {r})
    BY <1>6
  <2> HIDE DEF r
  <2>3. /\ n \in RegRequest /\ n.cache = {} /\ n.hidden = b.hidden
        /\ Registries!Applied(n) = Registries!Applied(b) \ Gone(r)
    BY <2>1, <2>2, RemovedRegistry
  <2>4. Left(s) = Left(s \ {r}) \union Gone(r)
    <3>1. s = (s \ {r}) \union {r}
      BY <2>1
    <3>2. GoneOf((s \ {r}) \union {r}) = GoneOf(s \ {r}) \union GoneOf({r})
      BY GoneTogether
    <3> QED BY <3>1, <3>2, GoneOfOne
  <2> HIDE DEF n, Left
  <2>5. Done(s, n)
    BY <2>2, <2>3, <2>4
  <2> QED BY <2>5 DEF n, r
<1>7. F \in [V \X S -> V]
  <2>1. ASSUME NEW b \in V, NEW r \in S PROVE Registries!RemoveRegistry(b, r) \in V
    BY <1>2, <2>1, RemovedRegistry
  <2> QED BY <2>1
<1>8. PICK g : Folded(g, S, V, st, F)
  <2> HIDE DEF F, It, Done, V
  <2>1. st \in V
    BY DEF V
  <2> QED BY <1>3, <1>7, <2>1, FoldExists
<1>9. g = [s \in SUBSET S |->
              IF s = {} THEN st
              ELSE Registries!RemoveRegistry(g[s \ {CHOOSE x \in s : TRUE}],
                                             CHOOSE x \in s : TRUE)]
  <2>1. g \in [SUBSET S -> V] /\ g[{}] = st
    BY <1>8 DEF Folded
  <2>2. ASSUME NEW s \in SUBSET S, s # {}
        PROVE  g[s] = Registries!RemoveRegistry(g[s \ {Some(s)}], Some(s))
    <3> HIDE DEF V
    <3>1. g[s] = F[<<g[s \ {Some(s)}], Some(s)>>] /\ g[s \ {Some(s)}] \in V
      BY <1>8, <2>2 DEF Folded
    <3> QED BY <1>2, <2>2, <3>1
  <2>3. g = [s \in SUBSET S |-> g[s]]
    BY <2>1
  <2> HIDE DEF F, V
  <2> QED BY <2>1, <2>2, <2>3 DEF Some
<1>10. It = [s \in SUBSET S |->
              IF s = {} THEN st
              ELSE Registries!RemoveRegistry(It[s \ {CHOOSE x \in s : TRUE}],
                                             CHOOSE x \in s : TRUE)]
  BY <1>9
<1> HIDE DEF It, F
<1> DEFINE Q == {s \in SUBSET S : Done(s, It[s])}
<1> HIDE DEF Done
<1>11. \A s \in SUBSET S : s \in Q
  <2>1. {} \in Q
    BY <1>5, <1>10
  <2>2. ASSUME NEW s \in SUBSET S, s # {}, s \ {Some(s)} \in Q PROVE s \in Q
    <3>1. It[s] = Registries!RemoveRegistry(It[s \ {Some(s)}], Some(s))
      BY <1>10, <2>2 DEF Some
    <3>2. Done(s, Registries!RemoveRegistry(It[s \ {Some(s)}], Some(s)))
      BY <1>6, <2>2
    <3> QED BY <3>1, <3>2
  <2> HIDE DEF Q
  <2> QED BY <1>3, <2>1, <2>2, SubsetInduction
<1>12. Done(S, It[S])
  BY <1>11
<1> QED BY <1>1, <1>12 DEF Done, S

\* The registries that are there and that the participant can read.
CanRead(hidden) == {r \in Registries!NetworkRegistry : RegThere(r) /\ r \notin hidden}

LEMMA ResetOfAll ==
    ASSUME Registries!RegistryAssumption, NEW st \in RegRequest, st.cache = {}
    PROVE  LET n == Registries!ForEach(Registries!ResetRegistries, st, Type) IN
           /\ n \in RegRequest
           /\ n.cache = {} /\ n.hidden = st.hidden
           /\ Registries!Applied(n) = Registries!Applied(st) \ GoneOf(CanRead(st.hidden))
<1> DEFINE S == Type
           V == {b \in RegRequest : b.cache = {}}
           F == [p \in V \X S |-> Registries!ResetRegistries(p[1], p[2])]
           It == CHOOSE g : g = [s \in SUBSET S |->
                    IF s = {} THEN st
                    ELSE Registries!ResetRegistries(g[s \ {CHOOSE x \in s : TRUE}],
                                                    CHOOSE x \in s : TRUE)]
           Left(s) == GoneOf({q \in CanRead(st.hidden) : TypeOf[q] \in s})
           Done(s, n) == /\ n \in RegRequest
                         /\ n.cache = {} /\ n.hidden = st.hidden
                         /\ Registries!Applied(n) = Registries!Applied(st) \ Left(s)
<1>1. Registries!ForEach(Registries!ResetRegistries, st, Type) = It[S]
  BY DEF Registries!ForEach, Registries!FoldSet, Registries!MapThenFoldSet
<1>2. \A s \in SUBSET S : s # {} => Some(s) \in s /\ Some(s) \in S
  BY DEF Some
<1>3. IsFiniteSet(S)
  BY DEF Registries!RegistryAssumption, Registries!IsFiniteSet, IsFiniteSet
<1>4. Left(S) = GoneOf(CanRead(st.hidden))
  <2>1. {q \in CanRead(st.hidden) : TypeOf[q] \in S} = CanRead(st.hidden)
    BY RegistryKeys DEF CanRead
  <2> QED BY <2>1
<1> HIDE DEF S
<1>5. Done({}, st)
  <2>1. {q \in CanRead(st.hidden) : TypeOf[q] \in {}} = {}
    OBVIOUS
  <2> QED BY <2>1, GoneOfOne
<1>6. ASSUME NEW s \in SUBSET S, s # {}, NEW b, Done(s \ {Some(s)}, b)
      PROVE  Done(s, Registries!ResetRegistries(b, Some(s)))
  <2> DEFINE r == Some(s)
             n == Registries!ResetRegistries(b, r)
  <2>1. r \in s /\ r \in S /\ r \in S
    BY <1>2, <1>6
  <2>2. /\ b \in RegRequest /\ b.cache = {} /\ b.hidden = st.hidden
        /\ Registries!Applied(b) = Registries!Applied(st) \ Left(s \ {r})
    BY <1>6
  <2> HIDE DEF r
  <2>3. /\ n \in RegRequest /\ n.cache = {} /\ n.hidden = b.hidden
        /\ Registries!Applied(n) = Registries!Applied(b) \ GoneOf(OfType(r, st.hidden))
    BY <2>1, <2>2, ResetOfType
  <2>4. Left(s) = Left(s \ {r}) \union GoneOf(OfType(r, st.hidden))
    <3>1. {q \in CanRead(st.hidden) : TypeOf[q] \in s} =
            {q \in CanRead(st.hidden) : TypeOf[q] \in s \ {r}} \union OfType(r, st.hidden)
      BY <2>1 DEF CanRead, OfType
    <3> QED BY <3>1, GoneTogether
  <2> HIDE DEF n, Left
  <2>5. Done(s, n)
    BY <2>2, <2>3, <2>4
  <2> QED BY <2>5 DEF n, r
<1>7. F \in [V \X S -> V]
  <2>1. ASSUME NEW b \in V, NEW r \in S PROVE Registries!ResetRegistries(b, r) \in V
    BY <1>2, <2>1, ResetOfType
  <2> QED BY <2>1
<1>8. PICK g : Folded(g, S, V, st, F)
  <2> HIDE DEF F, It, Done, V
  <2>1. st \in V
    BY DEF V
  <2> QED BY <1>3, <1>7, <2>1, FoldExists
<1>9. g = [s \in SUBSET S |->
              IF s = {} THEN st
              ELSE Registries!ResetRegistries(g[s \ {CHOOSE x \in s : TRUE}],
                                             CHOOSE x \in s : TRUE)]
  <2>1. g \in [SUBSET S -> V] /\ g[{}] = st
    BY <1>8 DEF Folded
  <2>2. ASSUME NEW s \in SUBSET S, s # {}
        PROVE  g[s] = Registries!ResetRegistries(g[s \ {Some(s)}], Some(s))
    <3> HIDE DEF V
    <3>1. g[s] = F[<<g[s \ {Some(s)}], Some(s)>>] /\ g[s \ {Some(s)}] \in V
      BY <1>8, <2>2 DEF Folded
    <3> QED BY <1>2, <2>2, <3>1
  <2>3. g = [s \in SUBSET S |-> g[s]]
    BY <2>1
  <2> HIDE DEF F, V
  <2> QED BY <2>1, <2>2, <2>3 DEF Some
<1>10. It = [s \in SUBSET S |->
              IF s = {} THEN st
              ELSE Registries!ResetRegistries(It[s \ {CHOOSE x \in s : TRUE}],
                                             CHOOSE x \in s : TRUE)]
  BY <1>9
<1> HIDE DEF It, F
<1> DEFINE Q == {s \in SUBSET S : Done(s, It[s])}
<1> HIDE DEF Done
<1>11. \A s \in SUBSET S : s \in Q
  <2>1. {} \in Q
    BY <1>5, <1>10
  <2>2. ASSUME NEW s \in SUBSET S, s # {}, s \ {Some(s)} \in Q PROVE s \in Q
    <3>1. It[s] = Registries!ResetRegistries(It[s \ {Some(s)}], Some(s))
      BY <1>10, <2>2 DEF Some
    <3>2. Done(s, Registries!ResetRegistries(It[s \ {Some(s)}], Some(s)))
      BY <1>6, <2>2
    <3> QED BY <3>1, <3>2
  <2> HIDE DEF Q
  <2> QED BY <1>3, <2>1, <2>2, SubsetInduction
<1>12. Done(S, It[S])
  BY <1>11
<1> QED BY <1>1, <1>4, <1>12 DEF Done, S

\* What the registries are like between two requests.
RegGood(X) ==
    /\ X \subseteq Registries!Key
    /\ \A r \in Registries!Registered : Registries!Entry(r) \in X <=> Registries!Collection(r) \in X
    /\ \A r \in Registries!NetworkRegistry :
          Registries!Entry(r) \in X
             <=> Registries!Document(Registries!RegistryOf(TypeOf[r]), r) \in X
    /\ \A r \in Registries!Registered : \A d \in Registries!DocumentsOf(r) :
          Registries!Document(r, d) \in X => Registries!Collection(r) \in X

LEMMA KeysOfAre ==
    ASSUME Registries!RegistryAssumption, NEW M \in SUBSET Registries!Registered
    PROVE  /\ KeysOf(M) \subseteq Registries!Key
           /\ \A q : /\ Registries!Entry(q) \in KeysOf(M) <=> q \in M
                     /\ Registries!Collection(q) \in KeysOf(M) <=> q \in M
           /\ \A q, d : Registries!Document(q, d) \in KeysOf(M) <=>
                 d \in M /\ d \in Registries!NetworkRegistry /\ q = Registries!RegistryOf(TypeOf[d])
<1>1. \A k : k \in KeysOf(M) <=> \E r \in M : k \in RegKeys(r)
  BY DEF KeysOf
<1>2. \A r \in M : RegKeys(r) \subseteq Registries!Key
  BY RegKeysAre
<1>3. \A r \in M : \A q : /\ Registries!Entry(q) \in RegKeys(r) <=> q = r
                          /\ Registries!Collection(q) \in RegKeys(r) <=> q = r
  BY RegKeysAre
<1>4. \A r \in M : \A q, d : Registries!Document(q, d) \in RegKeys(r) <=>
         r \in Registries!NetworkRegistry /\ q = Registries!RegistryOf(TypeOf[r]) /\ d = r
  BY RegKeysAre
<1> QED BY <1>1, <1>2, <1>3, <1>4

LEMMA GoodAdd ==
    ASSUME Registries!RegistryAssumption, NEW X, RegGood(X),
           NEW M \in SUBSET Registries!Registered,
           \A r \in M : r \in Registries!NetworkRegistry
              => Registries!Collection(Registries!RegistryOf(TypeOf[r])) \in X
    PROVE  RegGood(X \union KeysOf(M))
<1> DEFINE Y == X \union KeysOf(M)
<1>1. \A q : /\ Registries!Entry(q) \in Y <=> Registries!Entry(q) \in X \/ q \in M
             /\ Registries!Collection(q) \in Y <=> Registries!Collection(q) \in X \/ q \in M
  BY KeysOfAre
<1>2. \A q, d : Registries!Document(q, d) \in Y <=>
         \/ Registries!Document(q, d) \in X
         \/ d \in M /\ d \in Registries!NetworkRegistry /\ q = Registries!RegistryOf(TypeOf[d])
  BY KeysOfAre
<1>3. Y \subseteq Registries!Key
  BY KeysOfAre DEF RegGood
<1> HIDE DEF Y
<1>4. ASSUME NEW r \in Registries!Registered
      PROVE  Registries!Entry(r) \in Y <=> Registries!Collection(r) \in Y
  BY <1>1 DEF RegGood
<1>5. ASSUME NEW r \in Registries!NetworkRegistry
      PROVE  Registries!Entry(r) \in Y
               <=> Registries!Document(Registries!RegistryOf(TypeOf[r]), r) \in Y
  BY <1>1, <1>2 DEF RegGood
<1>6. ASSUME NEW r \in Registries!Registered, NEW d \in Registries!DocumentsOf(r),
             Registries!Document(r, d) \in Y
      PROVE  Registries!Collection(r) \in Y
  <2>1. CASE Registries!Document(r, d) \in X
    BY <1>1, <2>1 DEF RegGood
  <2>2. CASE d \in M /\ d \in Registries!NetworkRegistry /\ r = Registries!RegistryOf(TypeOf[d])
    BY <1>1, <2>2
  <2> QED BY <1>2, <1>6, <2>1, <2>2
<1>7. RegGood(Y)
  BY <1>3, <1>4, <1>5, <1>6 DEF RegGood
<1> QED BY <1>7 DEF Y

LEMMA GoneOfAre ==
    ASSUME Registries!RegistryAssumption, NEW M \in SUBSET Registries!NetworkRegistry
    PROVE  /\ \A q : /\ Registries!Entry(q) \in GoneOf(M) <=> q \in M
                     /\ Registries!Collection(q) \in GoneOf(M) <=> q \in M
           /\ \A q, d : Registries!Document(q, d) \in GoneOf(M) <=>
                 \/ d \in M /\ q = Registries!RegistryOf(TypeOf[d])
                 \/ q \in M /\ d \in Held(q)
<1>1. \A k : k \in GoneOf(M) <=> \E r \in M : k \in RegKeys(r) \/ k \in DocsOf(r, Held(r))
  BY DEF GoneOf, Gone
<1>2. M \subseteq Registries!Registered
  BY RegistryKeys
<1>3. \A r \in M : \A q : /\ Registries!Entry(q) \in RegKeys(r) <=> q = r
                          /\ Registries!Collection(q) \in RegKeys(r) <=> q = r
  BY <1>2, RegKeysAre
<1>4. \A r \in M : \A q, d : Registries!Document(q, d) \in RegKeys(r) <=>
         q = Registries!RegistryOf(TypeOf[r]) /\ d = r
  BY <1>2, RegKeysAre
<1>5. \A r, q, ds : /\ Registries!Entry(q) \notin DocsOf(r, ds)
                    /\ Registries!Collection(q) \notin DocsOf(r, ds)
  BY RegistryKeys DEF DocsOf
<1>6. \A r, q, d, ds : Registries!Document(q, d) \in DocsOf(r, ds) <=> q = r /\ d \in ds
  BY RegistryKeys DEF DocsOf
<1>7. \A q : /\ Registries!Entry(q) \in GoneOf(M) <=> q \in M
             /\ Registries!Collection(q) \in GoneOf(M) <=> q \in M
  BY <1>1, <1>3, <1>5
<1>8. \A q, d : Registries!Document(q, d) \in GoneOf(M) <=>
         \/ d \in M /\ q = Registries!RegistryOf(TypeOf[d])
         \/ q \in M /\ d \in Held(q)
  BY <1>1, <1>4, <1>6
<1> QED BY <1>7, <1>8

LEMMA GoodRemove ==
    ASSUME Registries!RegistryAssumption, RegGood(keys),
           NEW M \in SUBSET Registries!NetworkRegistry
    PROVE  RegGood(keys \ GoneOf(M))
<1> DEFINE Y == keys \ GoneOf(M)
<1>1. \A q : /\ Registries!Entry(q) \in Y <=> Registries!Entry(q) \in keys /\ q \notin M
             /\ Registries!Collection(q) \in Y <=> Registries!Collection(q) \in keys /\ q \notin M
  BY GoneOfAre
<1>2. \A q, d : Registries!Document(q, d) \in Y <=>
         /\ Registries!Document(q, d) \in keys
         /\ ~(d \in M /\ q = Registries!RegistryOf(TypeOf[d]))
         /\ ~(q \in M /\ d \in Held(q))
  BY GoneOfAre
<1>3. Y \subseteq Registries!Key
  BY DEF RegGood
<1> HIDE DEF Y
<1>4. ASSUME NEW r \in Registries!Registered
      PROVE  Registries!Entry(r) \in Y <=> Registries!Collection(r) \in Y
  BY <1>1 DEF RegGood
<1>5. ASSUME NEW r \in Registries!NetworkRegistry
      PROVE  Registries!Entry(r) \in Y
               <=> Registries!Document(Registries!RegistryOf(TypeOf[r]), r) \in Y
  <2>1. Registries!RegistryOf(TypeOf[r]) \notin M
    BY RegistryKeys
  <2>2. Registries!Entry(r) \in keys
          <=> Registries!Document(Registries!RegistryOf(TypeOf[r]), r) \in keys
    BY DEF RegGood
  <2> QED BY <1>1, <1>2, <2>1, <2>2
<1>6. ASSUME NEW r \in Registries!Registered, NEW d \in Registries!DocumentsOf(r),
             Registries!Document(r, d) \in Y
      PROVE  Registries!Collection(r) \in Y
  <2>1. Registries!Document(r, d) \in keys
    BY <1>2, <1>6
  <2>2. Registries!Collection(r) \in keys /\ d \in Held(r)
    BY <2>1 DEF RegGood, Held
  <2> QED BY <1>1, <1>2, <1>6, <2>2
<1>7. RegGood(Y)
  BY <1>3, <1>4, <1>5, <1>6 DEF RegGood
<1> QED BY <1>7 DEF Y

LEMMA CreatedDefaults ==
    ASSUME Registries!RegistryAssumption, NEW st \in RegRequest, st.cache = {},
           NEW force \in BOOLEAN, NEW m \in Model,
           RegGood(Registries!Applied(st)), force \/ keys \subseteq Registries!Applied(st)
    PROVE  LET n == Registries!CreateDefaults(st, m, force) IN
           /\ n \in RegRequest /\ n.hidden = st.hidden
           /\ Registries!Applied(st) \subseteq Registries!Applied(n)
           /\ RegGood(Registries!Applied(n))
           /\ \A r \in Registries!SystemRegistry \union Class[m] :
                 Registries!Entry(r) \in Registries!Applied(n)
           /\ \A r, d : r \in Registries!NetworkRegistry \/ r = Historian =>
                 (Registries!Document(r, d) \in Registries!Applied(n)
                     <=> Registries!Document(r, d) \in Registries!Applied(st))
<1> DEFINE S == Registries!SystemRegistry
           C == Class[m]
           one == Defaulted(st, S, force)
           two == Defaulted(one, C, force)
           A == {q \in S : DefaultAdds(st, q, force)}
           B == {q \in C : DefaultAdds(one, q, force)}
           X == Registries!Applied(st)
           Y == Registries!Applied(one)
           Z == Registries!Applied(two)
<1>1. Registries!CreateDefaults(st, m, force) = two
  BY DEF Registries!CreateDefaults, Defaulted
<1>2. /\ S \subseteq Registries!Registered /\ C \subseteq Registries!Registered
      /\ C \subseteq Registries!NetworkRegistry /\ S \intersect C = {}
      /\ S \intersect Registries!NetworkRegistry = {}
  BY RegistryKeys DEF Registries!NetworkRegistry, Registries!RegistryAssumption
<1>3. IsFiniteSet(S) /\ IsFiniteSet(C)
  <2>1. IsFiniteSet(Type) /\ IsFiniteSet(Registries!NetworkRegistry)
    BY DEF Registries!RegistryAssumption, Registries!IsFiniteSet, IsFiniteSet
  <2>2. IsFiniteSet({Registries!RegistryOf(type) : type \in Type})
    <3> DEFINE T == {Registries!RegistryOf(type) : type \in Type}
               f == [type \in Type |-> Registries!RegistryOf(type)]
    <3>1. f \in Surjection(Type, T)
      BY DEF Surjection
    <3> HIDE DEF f
    <3> QED BY <2>1, <3>1, FS_Surjection
  <2>3. IsFiniteSet(S)
    BY <2>2, FS_AddElement DEF Registries!SystemRegistry
  <2> QED BY <1>2, <2>1, <2>3, FS_Subset
<1> HIDE DEF S, C
<1>4. /\ one \in RegRequest /\ one.cache = S /\ one.hidden = st.hidden
      /\ Y = X \union KeysOf(A)
  <2>1. S \in SUBSET Registries!Registered /\ S \intersect st.cache = {}
    BY <1>2
  <2> HIDE DEF A, X, Y, one
  <2>2. ASSUME NEW b \in RegRequest, S \intersect b.cache = {}
        PROVE  LET n == Defaulted(b, S, force) IN
               /\ n \in RegRequest
               /\ n.cache = b.cache \union S /\ n.hidden = b.hidden
               /\ Registries!Applied(n) = Registries!Applied(b) \union
                     KeysOf({q \in S : DefaultAdds(b, q, force)})
    BY <1>3, <2>1, <2>2, DefaultedAll
  <2> QED BY <2>1, <2>2 DEF A, X, Y, one
<1> HIDE DEF one
<1>5. /\ two \in RegRequest /\ two.hidden = st.hidden
      /\ Z = Y \union KeysOf(B)
  <2>1. C \in SUBSET Registries!Registered /\ C \intersect one.cache = {} /\ one \in RegRequest
    BY <1>2, <1>4
  <2> HIDE DEF B, Y, Z, two
  <2>2. LET n == Defaulted(one, C, force) IN
        /\ n \in RegRequest
        /\ n.cache = one.cache \union C /\ n.hidden = one.hidden
        /\ Registries!Applied(n) = Registries!Applied(one) \union
              KeysOf({q \in C : DefaultAdds(one, q, force)})
    BY <1>3, <2>1, DefaultedAll
  <2> QED BY <1>4, <2>2 DEF B, Y, Z, two
<1> HIDE DEF two, X, Y, Z
<1>6. A \in SUBSET Registries!Registered /\ B \in SUBSET Registries!Registered
  BY <1>2
<1>7. RegGood(Y)
  BY <1>2, <1>4, <1>6, GoodAdd DEF X
<1>8. \A r \in S : Registries!Entry(r) \in Y
  <2> SUFFICES ASSUME NEW r \in S, r \notin A PROVE Registries!Entry(r) \in Y
    BY <1>4, <1>6, KeysOfAre
  <2>1. ~force /\ RegThere(r)
    BY DEF DefaultAdds
  <2> QED BY <1>4, <2>1 DEF RegThere, X
<1>9. RegGood(Z)
  <2>1. \A r \in B : Registries!Collection(Registries!RegistryOf(TypeOf[r])) \in Y
    BY <1>2, <1>7, <1>8, RegistryKeys DEF RegGood, S
  <2> QED BY <1>5, <1>6, <1>7, <2>1, GoodAdd
<1>10. \A r \in C : Registries!Entry(r) \in Z
  <2> SUFFICES ASSUME NEW r \in C, r \notin B PROVE Registries!Entry(r) \in Z
    BY <1>5, <1>6, KeysOfAre
  <2>1. ~force /\ RegThere(r)
    BY DEF DefaultAdds
  <2> QED BY <1>4, <1>5, <2>1 DEF RegThere, X
<1>11. \A r, d : r \in Registries!NetworkRegistry \/ r = Historian =>
          (Registries!Document(r, d) \in Z <=> Registries!Document(r, d) \in X)
  <2> SUFFICES ASSUME NEW r, NEW d, r \in Registries!NetworkRegistry \/ r = Historian
               PROVE  Registries!Document(r, d) \notin KeysOf(A)
                      /\ Registries!Document(r, d) \notin KeysOf(B)
    BY <1>4, <1>5
  <2> HIDE DEF A, B
  <2>1. ASSUME d \in Registries!NetworkRegistry PROVE r # Registries!RegistryOf(TypeOf[d])
    BY <2>1, RegistryKeys
  <2> QED BY <1>6, <2>1, KeysOfAre
<1>12. X \subseteq Z
  BY <1>4, <1>5
<1> QED BY <1>1, <1>5, <1>8, <1>9, <1>10, <1>11, <1>12, <1>4 DEF X, Z, S, C

\* A request begins with nothing to write, and reads what is committed.
LEMMA FreshRequest ==
    ASSUME NEW hidden \in SUBSET Registries!NetworkRegistry
    PROVE  LET n == Registries!RequestOf(hidden) IN
           /\ n \in RegRequest /\ n.cache = {} /\ n.hidden = hidden
           /\ Registries!Applied(n) = keys
<1> DEFINE w == <<>>
           n == [ok |-> TRUE, writes |-> w, cache |-> {}, hidden |-> hidden]
<1>1. w \in [{} -> BOOLEAN] /\ DOMAIN w = {}
  OBVIOUS
<1>2. Registries!RequestOf(hidden) = n
  BY DEF Registries!RequestOf
<1>3. w \in RegWrites
  <2>1. {} \in SUBSET Registries!Key
    OBVIOUS
  <2> HIDE DEF w
  <2> QED BY <1>1, <2>1 DEF RegWrites
<1> HIDE DEF w
<1>4. n \in RegRequest /\ n.cache = {} /\ n.hidden = hidden /\ n.writes = w
  BY <1>3 DEF RegRequest
<1> HIDE DEF n
<1>5. Registries!Applied(n) = keys
  BY <1>1, <1>4 DEF Registries!Applied
<1> QED BY <1>2, <1>4, <1>5

\* The end of a transaction.
LEMMA Recorded ==
    ASSUME Registries!RegistryAssumption, NEW st \in RegRequest, NEW t \in Tx
    PROVE  LET n == Registries!RecordTransaction(st, t) IN
           Registries!Applied(n) = Registries!Applied(st) \union {Registries!Document(Historian, t)}
<1> DEFINE got == Registries!GetRegistry(st, Historian)
           key == Registries!Document(Historian, t)
<1>1. key \in Registries!Key
  BY RegistryKeys
<1>2. got \in RegRequest /\ Registries!Applied(got) = Registries!Applied(st)
  BY Required DEF Registries!GetRegistry
<1>3. Registries!RecordTransaction(st, t) = Registries!AddKey(got, key, FALSE)
  BY DEF Registries!RecordTransaction
<1> HIDE DEF got, key
<1>4. Registries!Applied(Registries!AddKey(got, key, FALSE)) = Registries!Applied(got) \union {key}
  BY <1>1, <1>2, AddedKey
<1> QED BY <1>2, <1>3, <1>4 DEF key

\* A cache that is lost changes nothing of what is written.
LEMMA CacheLost ==
    ASSUME NEW st \in RegRequest
    PROVE  LET n == [st EXCEPT !.cache = {}] IN
           n \in RegRequest /\ Registries!Applied(n) = Registries!Applied(st)
<1> DEFINE n == [st EXCEPT !.cache = {}]
<1>1. n \in RegRequest /\ n.writes = st.writes
  BY DEF RegRequest
<1> HIDE DEF n
<1>2. Registries!Applied(n) = Registries!Applied(st)
  BY <1>1 DEF Registries!Applied
<1> QED BY <1>1, <1>2 DEF n

\* A document that is added to a registry that is there, or removed.
LEMMA GoodDocument ==
    ASSUME Registries!RegistryAssumption, NEW X, RegGood(X), NEW r \in Registries!Registered,
           r \in Registries!NetworkRegistry \/ r = Historian,
           NEW d \in Registries!DocumentsOf(r)
    PROVE  /\ Registries!Collection(r) \in X => RegGood(X \union {Registries!Document(r, d)})
           /\ RegGood(X \ {Registries!Document(r, d)})
<1>1. /\ \A q \in Registries!NetworkRegistry : r # Registries!RegistryOf(TypeOf[q])
      /\ Registries!Document(r, d) \in Registries!Key
  BY RegistryKeys
<1>2. \A q, c : /\ Registries!Document(r, d) # Registries!Entry(q)
                /\ Registries!Document(r, d) # Registries!Collection(q)
                /\ Registries!Document(q, c) = Registries!Document(r, d) <=> q = r /\ c = d
  BY RegistryKeys
<1>3. ASSUME Registries!Collection(r) \in X
      PROVE  RegGood(X \union {Registries!Document(r, d)})
  BY <1>1, <1>2, <1>3 DEF RegGood
<1>4. RegGood(X \ {Registries!Document(r, d)})
  <2> DEFINE Y == X \ {Registries!Document(r, d)}
  <2>1. \A q : /\ Registries!Entry(q) \in Y <=> Registries!Entry(q) \in X
               /\ Registries!Collection(q) \in Y <=> Registries!Collection(q) \in X
    BY <1>2
  <2>2. \A q, c : Registries!Document(q, c) \in Y
                     <=> Registries!Document(q, c) \in X /\ ~(q = r /\ c = d)
    BY <1>2
  <2>3. Y \subseteq Registries!Key
    BY DEF RegGood
  <2> HIDE DEF Y
  <2>4. RegGood(Y)
    BY <1>1, <2>1, <2>2, <2>3 DEF RegGood
  <2> QED BY <2>4 DEF Y
<1> QED BY <1>3, <1>4

-----------------------------------------------------------------------------
\* What holds between two requests, and in terms of what is committed: the system
\* registries and those of the classes are there, and the historian is complete.
Complete(X, m, executed) ==
    /\ RegGood(X)
    /\ m # None => \A r \in Registries!SystemRegistry \union Class[m] : Registries!Entry(r) \in X
    /\ \A t \in Tx : Registries!Document(Historian, t) \in X <=> t \in executed
RegInv ==
    /\ model \in Model \union {None} /\ done \subseteq Tx
    /\ lastRequest[2] \in Registries!Hidden
    /\ Complete(keys, model, done)

LEMMA HiddenSet ==
    ASSUME NEW h \in Registries!Hidden
    PROVE  h \in SUBSET Registries!NetworkRegistry
<1>1. h = {} \/ \E r \in Registries!NetworkRegistry : h = {r}
  BY DEF Registries!Hidden
<1> QED BY <1>1

\* A transaction that makes the default registries and is recorded.
LEMMA RecordedDefaults ==
    ASSUME Registries!RegistryAssumption, NEW st \in RegRequest, st.cache = {},
           NEW force \in BOOLEAN, NEW m \in Model, NEW t \in Tx,
           RegGood(Registries!Applied(st)), force \/ keys \subseteq Registries!Applied(st),
           \A s \in Tx : Registries!Document(Historian, s) \in Registries!Applied(st) <=> s \in done
    PROVE  /\ \A n : n = Registries!CreateDefaults(st, m, force) =>
                /\ n \in RegRequest
                /\ Complete(Registries!Applied(Registries!RecordTransaction(n, t)), m, done \union {t})
                /\ Registries!Applied(st) \subseteq
                      Registries!Applied(Registries!RecordTransaction(n, t))
                /\ \A r \in Registries!NetworkRegistry : \A d :
                      Registries!Document(r, d) \in
                            Registries!Applied(Registries!RecordTransaction(n, t))
                         <=> Registries!Document(r, d) \in Registries!Applied(st)
           /\ \A n : n = [Registries!CreateDefaults(st, m, force) EXCEPT !.cache = {}] =>
                /\ Complete(Registries!Applied(Registries!RecordTransaction(n, t)), m, done \union {t})
                /\ Registries!Applied(st) \subseteq
                      Registries!Applied(Registries!RecordTransaction(n, t))
<1> DEFINE n == Registries!CreateDefaults(st, m, force)
           X == Registries!Applied(n)
           Y == X \union {Registries!Document(Historian, t)}
<1>1. /\ n \in RegRequest
      /\ Registries!Applied(st) \subseteq X
      /\ RegGood(X)
      /\ \A r \in Registries!SystemRegistry \union Class[m] : Registries!Entry(r) \in X
      /\ \A r, d : r \in Registries!NetworkRegistry \/ r = Historian =>
            (Registries!Document(r, d) \in X
                <=> Registries!Document(r, d) \in Registries!Applied(st))
  <2> HIDE DEF n
  <2> QED BY CreatedDefaults DEF n
<1> HIDE DEF n
<1>2. n \in RegRequest /\ [n EXCEPT !.cache = {}] \in RegRequest
      /\ Registries!Applied([n EXCEPT !.cache = {}]) = X
  BY <1>1, CacheLost
<1> HIDE DEF X
<1>3. /\ Registries!Applied(Registries!RecordTransaction(n, t)) = Y
      /\ Registries!Applied(Registries!RecordTransaction([n EXCEPT !.cache = {}], t)) = Y
  <2>1. Registries!Applied(Registries!RecordTransaction(n, t)) = Y
    BY <1>2, Recorded DEF X
  <2> DEFINE l == [n EXCEPT !.cache = {}]
  <2>2. l \in RegRequest /\ Registries!Applied(l) = X
    BY <1>2
  <2> HIDE DEF l
  <2>3. Registries!Applied(Registries!RecordTransaction(l, t)) = Y
    BY <2>2, Recorded
  <2> QED BY <2>1, <2>3 DEF l
<1>4. RegGood(Y)
  <2>1. Historian \in Registries!Registered /\ Historian \in Registries!SystemRegistry
        /\ Registries!DocumentsOf(Historian) = Tx
    BY RegistryKeys
  <2>2. Registries!Collection(Historian) \in X
    BY <1>1, <2>1 DEF RegGood
  <2> QED BY <1>1, <2>1, <2>2, GoodDocument
<1>5. Complete(Y, m, done \union {t})
  <2>1. \A r \in Registries!SystemRegistry \union Class[m] : Registries!Entry(r) \in Y
    BY <1>1
  <2>2. \A s \in Tx : Registries!Document(Historian, s) \in Y <=> s \in done \union {t}
    BY <1>1, RegistryKeys
  <2> HIDE DEF Y
  <2> QED BY <1>4, <2>1, <2>2 DEF Complete
<1>6. Registries!Applied(st) \subseteq Y
  BY <1>1
<1>7. \A r \in Registries!NetworkRegistry : \A d :
         Registries!Document(r, d) \in Y <=> Registries!Document(r, d) \in Registries!Applied(st)
  <2>1. \A r \in Registries!NetworkRegistry : r # Historian
    BY RegistryKeys
  <2> QED BY <1>1, <2>1, RegistryKeys
<1> HIDE DEF Y
<1> QED BY <1>2, <1>3, <1>5, <1>6, <1>7 DEF n

LEMMA RegistriesStarted ==
    ASSUME Registries!Init
    PROVE  RegInv
<1>1. keys = {} /\ model = None /\ done = {} /\ lastRequest[2] = {}
  BY DEF Registries!Init
<1>2. RegGood({})
  BY DEF RegGood
<1>3. {} \in Registries!Hidden
  BY DEF Registries!Hidden
<1> QED BY <1>1, <1>2, <1>3 DEF RegInv, Complete

\* What a recorded request makes of the registries.
LEMMA RegistriesRun ==
    ASSUME Registries!RegistryAssumption, RegInv,
           NEW st \in RegRequest, st.cache = {}, NEW force \in BOOLEAN,
           NEW m \in Model, NEW t \in Tx, t \notin done, NEW n,
           \/ n = Registries!CreateDefaults(st, m, force)
           \/ n = [Registries!CreateDefaults(st, m, force) EXCEPT !.cache = {}],
           RegGood(Registries!Applied(st)), force \/ keys \subseteq Registries!Applied(st),
           \A s \in Tx : Registries!Document(Historian, s) \in Registries!Applied(st)
                            <=> Registries!Document(Historian, s) \in keys,
           Registries!Commit(Registries!RecordTransaction(n, t)),
           model' = m, done' = done \union {t}, lastRequest'[2] \in Registries!Hidden
    PROVE  RegInv' /\ Registries!Applied(st) \subseteq keys'
<1>1. keys' = Registries!Applied(Registries!RecordTransaction(n, t))
  BY DEF Registries!Commit
<1>2. \A s \in Tx : Registries!Document(Historian, s) \in Registries!Applied(st) <=> s \in done
  BY DEF RegInv, Complete
<1>3. /\ Complete(Registries!Applied(Registries!RecordTransaction(n, t)), m, done \union {t})
      /\ Registries!Applied(st) \subseteq
            Registries!Applied(Registries!RecordTransaction(n, t))
  BY <1>2, RecordedDefaults
<1>4. Complete(keys', model', done')
  BY <1>1, <1>3
<1>5. model' \in Model \union {None} /\ done' \subseteq Tx
  BY DEF RegInv
<1>6. Complete(keys, model, done)' <=> Complete(keys', model', done')
  BY DEF Complete, RegGood
<1> QED BY <1>1, <1>3, <1>4, <1>5, <1>6 DEF RegInv

LEMMA RegistriesNext ==
    ASSUME Registries!RegistryAssumption, RegInv, [Registries!Next]_(Registries!vars)
    PROVE  RegInv'
<1>0. /\ RegGood(keys)
      /\ \A h \in Registries!Hidden : h \in SUBSET Registries!NetworkRegistry
      /\ {} \in Registries!Hidden
  BY HiddenSet DEF RegInv, Complete, Registries!Hidden
<1>1. CASE UNCHANGED Registries!vars
  BY <1>1 DEF Registries!vars, RegInv, Complete, RegGood
<1>2. ASSUME NEW m \in Model, NEW t \in Tx, Registries!Start(m, t)
      PROVE  RegInv'
  <2> DEFINE st == Registries!RequestOf({})
             n == Registries!CreateDefaults(st, m, FALSE)
  <2>1. st \in RegRequest /\ st.cache = {} /\ Registries!Applied(st) = keys
    BY FreshRequest
  <2>2. /\ t \notin done /\ Registries!Commit(Registries!RecordTransaction(n, t))
        /\ model' = m /\ done' = done \union {t} /\ lastRequest'[2] \in Registries!Hidden
    BY <1>0, <1>2 DEF Registries!Start
  <2> HIDE DEF st
  <2>3. n = Registries!CreateDefaults(st, m, FALSE)
    OBVIOUS
  <2> HIDE DEF n
  <2> QED BY <1>0, <2>1, <2>2, <2>3, RegistriesRun
<1>3. ASSUME NEW m \in Model, NEW t \in Tx, NEW h \in Registries!Hidden,
             Registries!Update(m, t, h)
      PROVE  RegInv' /\ keys \subseteq keys'
  <2> DEFINE st == Registries!RequestOf(h)
             n == [Registries!CreateDefaults(st, m, FALSE) EXCEPT !.cache = {}]
  <2>1. st \in RegRequest /\ st.cache = {} /\ Registries!Applied(st) = keys
    BY <1>0, FreshRequest
  <2>2. /\ t \notin done /\ Registries!Commit(Registries!RecordTransaction(n, t))
        /\ model' = m /\ done' = done \union {t} /\ lastRequest'[2] \in Registries!Hidden
    BY <1>3 DEF Registries!Update
  <2> HIDE DEF st
  <2>3. n = [Registries!CreateDefaults(st, m, FALSE) EXCEPT !.cache = {}]
    OBVIOUS
  <2> HIDE DEF n
  <2> QED BY <1>0, <2>1, <2>2, <2>3, RegistriesRun
<1>4. ASSUME NEW t \in Tx, NEW h \in Registries!Hidden, Registries!Reset(t, h)
      PROVE  RegInv'
  <2> DEFINE base == Registries!RequestOf(h)
             st == Registries!ForEach(Registries!ResetRegistries, base, Type)
             n == Registries!CreateDefaults(st, model, TRUE)
  <2>1. base \in RegRequest /\ base.cache = {} /\ base.hidden = h
        /\ Registries!Applied(base) = keys
    BY <1>0, FreshRequest
  <2> HIDE DEF base
  <2>2. /\ st \in RegRequest /\ st.cache = {}
        /\ Registries!Applied(st) = keys \ GoneOf(CanRead(h))
    BY <2>1, ResetOfAll
  <2>3. /\ t \notin done /\ Registries!Commit(Registries!RecordTransaction(n, t))
        /\ model \in Model /\ model' = model /\ done' = done \union {t}
        /\ lastRequest'[2] \in Registries!Hidden
    BY <1>4 DEF Registries!Reset, RegInv, base
  <2> HIDE DEF st
  <2>4. n = Registries!CreateDefaults(st, model, TRUE)
    OBVIOUS
  <2> HIDE DEF n
  <2>5. CanRead(h) \in SUBSET Registries!NetworkRegistry
    BY DEF CanRead
  <2>6. RegGood(Registries!Applied(st))
    BY <1>0, <2>2, <2>5, GoodRemove
  <2>7. \A s \in Tx : Registries!Document(Historian, s) \in Registries!Applied(st)
                         <=> Registries!Document(Historian, s) \in keys
    <3>1. \A q \in Registries!NetworkRegistry : Historian # Registries!RegistryOf(TypeOf[q])
      BY RegistryKeys
    <3>2. Historian \notin Registries!NetworkRegistry
      BY RegistryKeys
    <3> QED BY <2>2, <2>5, <3>1, <3>2, GoneOfAre
  <2> QED BY <1>0, <2>2, <2>3, <2>4, <2>6, <2>7, RegistriesRun
<1>5. ASSUME NEW r \in Custom, NEW h \in Registries!Hidden, Registries!AddCustom(r, h)
      PROVE  RegInv'
  <2> DEFINE st == Registries!RequestOf(h)
  <2>1. st \in RegRequest /\ Registries!Applied(st) = keys
    BY <1>0, FreshRequest
  <2>2. /\ keys' = Registries!Applied(Registries!AddRegistry(st, r, FALSE))
        /\ model # None /\ model' = model /\ done' = done
        /\ lastRequest'[2] \in Registries!Hidden
    BY <1>5 DEF Registries!AddCustom, Registries!Commit
  <2> HIDE DEF st
  <2>3. r \in Registries!NetworkRegistry /\ r \in Registries!Registered
    BY DEF Registries!NetworkRegistry, Registries!Registered
  <2>4. keys' = keys \union KeysOf({r})
    BY <2>1, <2>2, <2>3, AddedRegistry, KeysOfOne
  <2>5. Registries!Collection(Registries!RegistryOf(TypeOf[r])) \in keys
    BY <2>2, <2>3, RegistryKeys DEF RegInv, Complete, RegGood
  <2>6. RegGood(keys')
    BY <1>0, <2>3, <2>4, <2>5, GoodAdd
  <2>7. \A s \in Tx : Registries!Document(Historian, s) \in keys'
                         <=> Registries!Document(Historian, s) \in keys
    BY <2>3, <2>4, KeysOfAre, RegistryKeys
  <2>8. keys \subseteq keys'
    BY <2>4
  <2>9. Complete(keys', model', done')
    BY <2>2, <2>6, <2>7, <2>8 DEF RegInv, Complete
  <2> QED BY <2>2, <2>9 DEF RegInv, Complete, RegGood
<1>6. ASSUME NEW r \in Registries!NetworkRegistry, NEW d \in Doc, NEW h \in Registries!Hidden,
             Registries!AddDocument(r, d, h)
      PROVE  RegInv'
  <2> DEFINE st == Registries!RequestOf(h)
             key == Registries!Document(r, d)
             got == Registries!GetRegistry(st, r)
             n == Registries!AddKey(got, key, FALSE)
  <2>1. st \in RegRequest /\ st.cache = {} /\ Registries!Applied(st) = keys
    BY <1>0, FreshRequest
  <2>2. /\ n.ok /\ keys' = Registries!Applied(n)
        /\ model' = model /\ done' = done /\ lastRequest'[2] \in Registries!Hidden
    BY <1>6 DEF Registries!AddDocument, Registries!Commit
  <2> HIDE DEF st
  <2>3. /\ r \in Registries!Registered /\ d \in Registries!DocumentsOf(r) /\ r # Historian
        /\ key \in Registries!Key
    BY RegistryKeys
  <2>4. /\ got \in RegRequest /\ Registries!Applied(got) = keys
        /\ got.ok => Registries!CanGet(st, r)
    BY <2>1, Required DEF Registries!GetRegistry
  <2> HIDE DEF got, key
  <2>5. keys' = keys \union {key} /\ got.ok
    BY <2>2, <2>3, <2>4, AddedKey
  <2>6. Registries!Collection(r) \in keys
    BY <2>1, <2>4, <2>5 DEF Registries!CanGet
  <2>7. RegGood(keys')
    BY <1>0, <2>3, <2>5, <2>6, GoodDocument DEF key
  <2>8. \A s \in Tx : Registries!Document(Historian, s) # key
    BY <2>3, RegistryKeys DEF key
  <2>9. Complete(keys', model', done')
    BY <2>2, <2>5, <2>7, <2>8 DEF RegInv, Complete
  <2> QED BY <2>2, <2>9 DEF RegInv, Complete, RegGood
<1>7. ASSUME NEW r \in Registries!NetworkRegistry, NEW d \in Doc, NEW h \in Registries!Hidden,
             Registries!RemoveDocument(r, d, h)
      PROVE  RegInv'
  <2> DEFINE st == Registries!RequestOf(h)
             key == Registries!Document(r, d)
             got == Registries!GetRegistry(st, r)
  <2>1. st \in RegRequest /\ Registries!Applied(st) = keys
    BY <1>0, FreshRequest
  <2>2. /\ keys' = Registries!Applied(Registries!Delete(got, key))
        /\ model' = model /\ done' = done /\ lastRequest'[2] \in Registries!Hidden
    BY <1>7 DEF Registries!RemoveDocument, Registries!Commit
  <2> HIDE DEF st
  <2>3. /\ r \in Registries!Registered /\ d \in Registries!DocumentsOf(r) /\ r # Historian
        /\ key \in Registries!Key
    BY RegistryKeys
  <2>4. got \in RegRequest /\ Registries!Applied(got) = keys
    BY <2>1, Required DEF Registries!GetRegistry
  <2> HIDE DEF got, key
  <2>5. keys' = keys \ {key}
    BY <2>2, <2>3, <2>4, WriteKey
  <2>6. RegGood(keys')
    BY <1>0, <2>3, <2>5, GoodDocument DEF key
  <2>7. /\ \A s \in Tx : Registries!Document(Historian, s) # key
        /\ \A q : Registries!Entry(q) # key
    BY <2>3, RegistryKeys DEF key
  <2>8. Complete(keys', model', done')
    BY <2>2, <2>5, <2>6, <2>7 DEF RegInv, Complete
  <2> QED BY <2>2, <2>8 DEF RegInv, Complete, RegGood
<1> QED BY <1>1, <1>2, <1>3, <1>4, <1>5, <1>6, <1>7 DEF Registries!Next

RegistriesSound ==
    /\ Registries!TypeOK /\ Registries!RegistriesAgree /\ Registries!NoOrphans
    /\ Registries!DefaultsThere /\ Registries!HistorianComplete

\* Theorem (RegistriesKept): through any number of starts, updates, resets and other requests, of
\* participants who cannot read everything, the entry, the collection and the resource of every
\* registry agree, no document is outside of a registry, the default registries of the model are
\* there and the historian has every transaction (registrymanager.js; networkmanager.js, start,
\* update and reset).
THEOREM RegistriesKept ==
    Registries!RegistryAssumption /\ Registries!Spec => []RegistriesSound
<1> SUFFICES ASSUME Registries!RegistryAssumption
             PROVE  Registries!Spec => []RegistriesSound
  OBVIOUS
<1>1. Registries!Init => RegInv
  BY RegistriesStarted
<1>2. RegInv /\ [Registries!Next]_(Registries!vars) => RegInv'
  BY RegistriesNext
<1>3. RegInv => RegistriesSound
  <2> SUFFICES ASSUME RegInv PROVE RegistriesSound
    OBVIOUS
  <2>1. RegGood(keys)
    BY DEF RegInv, Complete
  <2>2. Registries!TypeOK
    BY <2>1 DEF RegInv, RegGood, Registries!TypeOK
  <2>3. Registries!RegistriesAgree
    BY <2>1, RegistryKeys DEF RegGood, Registries!RegistriesAgree
  <2>4. Registries!NoOrphans
    BY <2>1 DEF RegGood, Registries!NoOrphans, Registries!DataOf
  <2>5. Registries!DefaultsThere
    BY DEF RegInv, Complete, Registries!DefaultsThere
  <2>6. Registries!HistorianComplete
    BY RegistryKeys DEF RegInv, Complete, Registries!HistorianComplete, Registries!DataOf
  <2> QED BY <2>2, <2>3, <2>4, <2>5, <2>6 DEF RegistriesSound
<1> QED BY <1>1, <1>2, <1>3, PTL DEF Registries!Spec

\* What an update and a reset do with the data.
LEMMA RegistriesStep ==
    ASSUME Registries!RegistryAssumption, RegInv, [Registries!Next]_(Registries!vars), done' # done
    PROVE  /\ lastRequest'[1] = "update" => keys \subseteq keys'
           /\ lastRequest'[1] = "reset" =>
                 \A r \in Registries!NetworkRegistry :
                    Registries!DataOf(r)' =
                       IF r \in lastRequest'[2] THEN Registries!DataOf(r) ELSE {}
<1>0. /\ RegGood(keys)
      /\ \A h \in Registries!Hidden : h \in SUBSET Registries!NetworkRegistry
      /\ \A s \in Tx : Registries!Document(Historian, s) \in keys <=> s \in done
  BY HiddenSet DEF RegInv, Complete
<1>1. Registries!Next
  BY DEF Registries!vars
<1>2. ASSUME NEW m \in Model, NEW t \in Tx, Registries!Start(m, t)
      PROVE  lastRequest'[1] = "start"
  BY <1>2 DEF Registries!Start
<1>3. ASSUME NEW m \in Model, NEW t \in Tx, NEW h \in Registries!Hidden,
             Registries!Update(m, t, h)
      PROVE  lastRequest'[1] = "update" /\ keys \subseteq keys'
  <2> DEFINE st == Registries!RequestOf(h)
             n == [Registries!CreateDefaults(st, m, FALSE) EXCEPT !.cache = {}]
  <2>1. st \in RegRequest /\ st.cache = {} /\ Registries!Applied(st) = keys
    BY <1>0, FreshRequest
  <2>2. /\ t \notin done /\ Registries!Commit(Registries!RecordTransaction(n, t))
        /\ model' = m /\ done' = done \union {t} /\ lastRequest' = <<"update", h>>
    BY <1>3 DEF Registries!Update
  <2> HIDE DEF st
  <2>3. n = [Registries!CreateDefaults(st, m, FALSE) EXCEPT !.cache = {}]
    OBVIOUS
  <2> HIDE DEF n
  <2>4. lastRequest'[1] = "update" /\ lastRequest'[2] \in Registries!Hidden
    BY <2>2
  <2> QED BY <1>0, <2>1, <2>2, <2>3, <2>4, RegistriesRun
<1>4. ASSUME NEW t \in Tx, NEW h \in Registries!Hidden, Registries!Reset(t, h)
      PROVE  /\ lastRequest'[1] = "reset"
             /\ \A r \in Registries!NetworkRegistry :
                   Registries!DataOf(r)' =
                      IF r \in lastRequest'[2] THEN Registries!DataOf(r) ELSE {}
  <2> DEFINE base == Registries!RequestOf(h)
             st == Registries!ForEach(Registries!ResetRegistries, base, Type)
             n == Registries!CreateDefaults(st, model, TRUE)
             M == CanRead(h)
  <2>1. base \in RegRequest /\ base.cache = {} /\ base.hidden = h
        /\ Registries!Applied(base) = keys
    BY <1>0, FreshRequest
  <2> HIDE DEF base
  <2>2. st \in RegRequest /\ st.cache = {} /\ Registries!Applied(st) = keys \ GoneOf(M)
    BY <2>1, ResetOfAll
  <2>3. /\ Registries!Commit(Registries!RecordTransaction(n, t))
        /\ model \in Model /\ lastRequest' = <<"reset", h>>
    BY <1>4 DEF Registries!Reset, RegInv, base
  <2> HIDE DEF st
  <2>4. M \in SUBSET Registries!NetworkRegistry
    BY DEF CanRead
  <2>5. RegGood(Registries!Applied(st))
    BY <1>0, <2>2, <2>4, GoodRemove
  <2>6. \A s \in Tx : Registries!Document(Historian, s) \in Registries!Applied(st) <=> s \in done
    <3>1. \A q \in Registries!NetworkRegistry : Historian # Registries!RegistryOf(TypeOf[q])
      BY RegistryKeys
    <3>2. Historian \notin Registries!NetworkRegistry
      BY RegistryKeys
    <3> QED BY <1>0, <2>2, <2>4, <3>1, <3>2, GoneOfAre
  <2>7. n = Registries!CreateDefaults(st, model, TRUE)
    OBVIOUS
  <2> HIDE DEF n, M
  <2>8. keys' = Registries!Applied(Registries!RecordTransaction(n, t))
    BY <2>3 DEF Registries!Commit
  <2>9. \A r \in Registries!NetworkRegistry : \A d :
           Registries!Document(r, d) \in keys'
              <=> Registries!Document(r, d) \in Registries!Applied(st)
    BY <2>2, <2>3, <2>5, <2>6, <2>7, <2>8, RecordedDefaults
  <2>10. ASSUME NEW r \in Registries!NetworkRegistry
         PROVE  Registries!DataOf(r)' = IF r \in h THEN Registries!DataOf(r) ELSE {}
    <3>1. /\ r \in Registries!Registered
          /\ \A q \in Registries!NetworkRegistry : r # Registries!RegistryOf(TypeOf[q])
      BY RegistryKeys
    <3>2. \A d : Registries!Document(r, d) \in keys'
                    <=> Registries!Document(r, d) \in keys /\ ~(r \in M /\ d \in Held(r))
      BY <2>2, <2>4, <2>9, <3>1, GoneOfAre
    <3>3. Registries!DataOf(r)' = {d \in Registries!DocumentsOf(r) : Registries!Document(r, d) \in keys'}
      BY DEF Registries!DataOf, Registries!Document, Registries!DocumentsOf
    <3>4. Registries!DataOf(r) = {d \in Registries!DocumentsOf(r) : Registries!Document(r, d) \in keys}
          /\ Held(r) = Registries!DataOf(r)
      BY DEF Registries!DataOf, Held
    <3>5. CASE r \in h
      <4>1. r \notin M
        BY <3>5 DEF M, CanRead
      <4> QED BY <3>2, <3>3, <3>4, <3>5, <4>1
    <3>6. CASE r \notin h /\ r \in M
      <4>1. Registries!DataOf(r)' = {}
        BY <3>2, <3>3, <3>4, <3>6
      <4> QED BY <3>6, <4>1
    <3>7. CASE r \notin h /\ r \notin M
      <4>1. ~RegThere(r)
        BY <3>7 DEF M, CanRead
      <4>2. Registries!Collection(r) \notin keys
        BY <1>0, <3>1, <4>1 DEF RegThere, RegGood
      <4>3. Registries!DataOf(r) = {}
        BY <1>0, <3>1, <3>4, <4>2 DEF RegGood
      <4>4. Registries!DataOf(r)' = {}
        BY <3>2, <3>3, <3>4, <4>3
      <4> QED BY <3>7, <4>4
    <3> QED BY <3>5, <3>6, <3>7
  <2> QED BY <2>3, <2>10
<1>5. ASSUME NEW r, NEW d, NEW h,
             \/ Registries!AddCustom(r, h) \/ Registries!AddDocument(r, d, h)
             \/ Registries!RemoveDocument(r, d, h)
      PROVE  FALSE
  BY <1>5 DEF Registries!AddCustom, Registries!AddDocument, Registries!RemoveDocument
<1> QED BY <1>1, <1>2, <1>3, <1>4, <1>5 DEF Registries!Next

\* Theorem (UpdateKeeps): an update keeps all data, of the classes that the new model has dropped
\* too; a reset empties exactly the registries that the participant can read (networkmanager.js,
\* update and reset).
THEOREM UpdateKeeps ==
    ASSUME Registries!RegistryAssumption
    PROVE  Registries!Spec => Registries!UpdateKeepsData /\ Registries!ResetEmptiesReadable
<1>1. RegInv /\ [Registries!Next]_(Registries!vars) =>
        /\ [done' # done /\ lastRequest'[1] = "update" => keys \subseteq keys']_(Registries!vars)
        /\ [done' # done /\ lastRequest'[1] = "reset" =>
              \A r \in Registries!NetworkRegistry :
                 Registries!DataOf(r)' =
                    IF r \in lastRequest'[2] THEN Registries!DataOf(r) ELSE {}]_(Registries!vars)
  BY RegistriesStep
<1>2. Registries!Init => RegInv
  BY RegistriesStarted
<1>3. RegInv /\ [Registries!Next]_(Registries!vars) => RegInv'
  BY RegistriesNext
<1> QED BY <1>1, <1>2, <1>3, PTL
        DEF Registries!Spec, Registries!UpdateKeepsData, Registries!ResetEmptiesReadable
-----------------------------------------------------------------------------
(***************************************************************************)
(* The model manager.  What a declaration extends is found file by file; a *)
(* declaration that resolves has never looked for a namespace that is not  *)
(* registered, so that further namespaces change nothing of it.            *)
(***************************************************************************)
MaybeFile == Adding!File \union {None}
FileMap(fs) ==
    /\ fs \in [AddedNamespace -> MaybeFile]
    /\ \A n \in AddedNamespace : fs[n] # None => fs[n].ns = n

\* What comes after f in a chain.
Further(fs, f) == IF Adding!More(f) THEN Adding!Super(fs, f) ELSE f
Follows(fs, f, c) ==
    /\ c \in [0 .. Adding!Far -> MaybeFile]
    /\ c[0] = f
    /\ \A k \in 1 .. Adding!Far : c[k] = Further(fs, c[k - 1])

LEMMA FileFields ==
    ASSUME Adding!ManagerAssumption, NEW f \in Adding!File
    PROVE  /\ f # None /\ f.ns \in AddedNamespace
           /\ f.super \in AddedNamespace \union {None}
           /\ f.type \in BOOLEAN /\ ~f.type => f.super = None
           /\ System \in AddedNamespace /\ None \notin AddedNamespace
BY DEF Adding!File, Adding!ManagerAssumption

LEMMA FarNatural ==
    ASSUME Adding!ManagerAssumption
    PROVE  Adding!Far \in Nat
<1>1. IsFiniteSet(AddedNamespace)
  BY DEF Adding!ManagerAssumption, Adding!IsFiniteSet, IsFiniteSet
<1>2. Cardinality(AddedNamespace) \in Nat
  BY <1>1, FS_CardinalityType
<1>3. Adding!Cardinality(AddedNamespace) = Cardinality(AddedNamespace)
  BY DEF Adding!Cardinality, Cardinality
<1> QED BY <1>2, <1>3 DEF Adding!Far

LEMMA FurtherFile ==
    ASSUME Adding!ManagerAssumption, NEW fs, FileMap(fs), NEW f \in MaybeFile
    PROVE  Further(fs, f) \in MaybeFile
<1>1. CASE ~Adding!More(f)
  BY <1>1 DEF Further
<1>2. CASE Adding!More(f)
  <2>1. f \in Adding!File /\ f.super # None
    BY <1>2 DEF Adding!More, MaybeFile
  <2>2. f.super \in AddedNamespace
    BY <2>1, FileFields
  <2>3. fs[f.super] \in MaybeFile
    BY <2>2 DEF FileMap
  <2> QED BY <1>2, <2>3 DEF Further, Adding!Super
<1> QED BY <1>1, <1>2

LEMMA ChainFollows ==
    ASSUME Adding!ManagerAssumption, NEW fs, FileMap(fs), NEW f \in MaybeFile
    PROVE  Follows(fs, f, Adding!Chain(fs, f))
<1> DEFINE N == Adding!Far
           stride == [x \in MaybeFile |-> Further(fs, x)]
           c == CHOOSE g : g = [k \in 0 .. Adding!Far |->
                   IF k = 0 THEN f
                   ELSE IF Adding!More(g[k - 1]) THEN Adding!Super(fs, g[k - 1]) ELSE g[k - 1]]
<1>1. Adding!Chain(fs, f) = c
  BY DEF Adding!Chain
<1>2. N \in Nat
  BY FarNatural
<1>3. stride \in [MaybeFile -> MaybeFile]
  BY FurtherFile
<1> HIDE DEF N
<1>4. PICK g : Recursion(N, MaybeFile, f, stride, g)
  <2> HIDE DEF stride, c
  <2> QED BY <1>2, <1>3, RecursionExists
<1>5. /\ g \in [0 .. N -> MaybeFile] /\ g[0] = f
      /\ \A k \in 1 .. N : g[k] = Further(fs, g[k - 1])
  <2>1. \A k \in 1 .. N : k - 1 \in 0 .. N
    BY <1>2
  <2> QED BY <1>4, <2>1 DEF Recursion
<1>6. g = [k \in 0 .. N |->
              IF k = 0 THEN f
              ELSE IF Adding!More(g[k - 1]) THEN Adding!Super(fs, g[k - 1]) ELSE g[k - 1]]
  <2>1. \A k \in 0 .. N : k # 0 => k \in 1 .. N
    BY <1>2
  <2>2. g = [k \in 0 .. N |-> g[k]]
    BY <1>5
  <2> QED BY <1>5, <2>1, <2>2 DEF Further
<1>7. c = [k \in 0 .. N |->
              IF k = 0 THEN f
              ELSE IF Adding!More(c[k - 1]) THEN Adding!Super(fs, c[k - 1]) ELSE c[k - 1]]
  BY <1>6 DEF N
<1> HIDE DEF c, stride
<1>8. c[0] = f /\ \A k \in 1 .. N : c[k] = Further(fs, c[k - 1])
  BY <1>2, <1>7 DEF Further
<1>9. c \in [0 .. N -> MaybeFile]
  <2> DEFINE S == {k \in Nat : k \in 0 .. N => c[k] \in MaybeFile}
  <2>1. 0 \in S
    BY <1>8
  <2>2. ASSUME NEW k \in Nat, k \in S PROVE k + 1 \in S
    <3> SUFFICES ASSUME k + 1 \in 0 .. N PROVE c[k + 1] \in MaybeFile
      OBVIOUS
    <3>1. k + 1 \in 1 .. N /\ k \in 0 .. N /\ (k + 1) - 1 = k
      BY <1>2
    <3>2. c[k + 1] = Further(fs, c[k]) /\ c[k] \in MaybeFile
      BY <1>8, <2>2, <3>1
    <3> QED BY <3>2, FurtherFile
  <2>3. Nat \subseteq S
    <3> HIDE DEF S
    <3> QED BY <2>1, <2>2, NaturalSet
  <2>4. \A k \in 0 .. N : k \in Nat /\ c[k] \in MaybeFile
    BY <1>2, <2>3
  <2>5. c = [k \in 0 .. N |-> c[k]]
    BY <1>7
  <2> QED BY <2>4, <2>5
<1> QED BY <1>1, <1>8, <1>9 DEF Follows, N

\* Further namespaces are registered; those that were there are as they were.
Extends(fs, gs) == \A n \in AddedNamespace : fs[n] # None => gs[n] = fs[n]

\* Once a chain has ended in a namespace that is not registered, it stays there.
LEMMA LostStays ==
    ASSUME Adding!ManagerAssumption, NEW fs, FileMap(fs), NEW f \in MaybeFile,
           NEW c, Follows(fs, f, c), c[Adding!Far] # None
    PROVE  \A k \in 0 .. Adding!Far : c[k] # None
<1> DEFINE N == Adding!Far
<1>1. N \in Nat
  BY FarNatural
<1> HIDE DEF N
<1>2. ~Adding!More(None)
  BY DEF Adding!More
<1> SUFFICES ASSUME NEW k \in 0 .. N, c[k] = None PROVE FALSE
  BY DEF N
<1> DEFINE S == {i \in Nat : k + i \in 0 .. N => c[k + i] = None}
<1>3. 0 \in S
  BY <1>1
<1>4. ASSUME NEW i \in Nat, i \in S PROVE i + 1 \in S
  <2> SUFFICES ASSUME k + (i + 1) \in 0 .. N PROVE c[k + (i + 1)] = None
    OBVIOUS
  <2>1. k + (i + 1) \in 1 .. N /\ k + i \in 0 .. N /\ (k + (i + 1)) - 1 = k + i
    BY <1>1
  <2>2. c[k + (i + 1)] = Further(fs, c[k + i]) /\ c[k + i] = None
    BY <1>4, <2>1 DEF Follows, N
  <2> QED BY <1>2, <2>2 DEF Further
<1>5. Nat \subseteq S
  <2> HIDE DEF S
  <2> QED BY <1>3, <1>4, NaturalSet
<1>6. N - k \in Nat /\ k + (N - k) = N /\ N \in 0 .. N
  BY <1>1
<1>7. c[N] = None
  <2>1. N - k \in S
    BY <1>5, <1>6
  <2> QED BY <1>6, <2>1
<1> QED BY <1>7 DEF N

\* A declaration that resolves, resolves in the same way when more is registered.
LEMMA SameChain ==
    ASSUME Adding!ManagerAssumption, NEW fs, FileMap(fs), NEW gs, FileMap(gs), Extends(fs, gs),
           NEW f \in Adding!File, Adding!Valid(fs, f)
    PROVE  \A k \in 0 .. Adding!Far : Adding!Chain(gs, f)[k] = Adding!Chain(fs, f)[k]
<1> DEFINE N == Adding!Far
           c == Adding!Chain(fs, f)
           d == Adding!Chain(gs, f)
<1>1. N \in Nat
  BY FarNatural
<1>2. f \in MaybeFile
  BY DEF MaybeFile
<1>3. Follows(fs, f, c) /\ Follows(gs, f, d)
  BY <1>2, ChainFollows
<1>4. f.type => c[N] # None
  BY DEF Adding!Valid, Adding!Resolves
<1> HIDE DEF N, c, d
<1>5. ASSUME NEW e \in MaybeFile, Further(fs, e) # None
      PROVE  Further(gs, e) = Further(fs, e)
  <2>1. CASE ~Adding!More(e)
    BY <2>1 DEF Further
  <2>2. CASE Adding!More(e)
    <3>1. e \in Adding!File /\ e.super # None
      BY <2>2 DEF Adding!More, MaybeFile
    <3>2. e.super \in AddedNamespace
      BY <3>1, FileFields
    <3> QED BY <1>5, <2>2, <3>2 DEF Further, Adding!Super, Extends
  <2> QED BY <2>1, <2>2
<1> DEFINE S == {k \in Nat : k \in 0 .. N => d[k] = c[k]}
<1>6. 0 \in S
  BY <1>3 DEF Follows
<1>7. ASSUME NEW k \in Nat, k \in S PROVE k + 1 \in S
  <2> SUFFICES ASSUME k + 1 \in 0 .. N PROVE d[k + 1] = c[k + 1]
    OBVIOUS
  <2>1. k + 1 \in 1 .. N /\ k \in 0 .. N /\ (k + 1) - 1 = k
    BY <1>1
  <2>2. /\ c[k + 1] = Further(fs, c[k]) /\ d[k + 1] = Further(gs, d[k])
        /\ d[k] = c[k] /\ c[k] \in MaybeFile
    BY <1>3, <1>7, <2>1 DEF Follows, N
  <2>3. CASE f.type
    <3>1. c[k + 1] # None
      BY <1>2, <1>3, <1>4, <2>1, <2>3, LostStays DEF N
    <3> QED BY <1>5, <2>2, <3>1
  <2>4. CASE ~f.type
    <3> DEFINE R == {i \in Nat : i \in 0 .. N => c[i] = f}
    <3>1. 0 \in R
      BY <1>3 DEF Follows
    <3>2. ASSUME NEW i \in Nat, i \in R PROVE i + 1 \in R
      <4> SUFFICES ASSUME i + 1 \in 0 .. N PROVE c[i + 1] = f
        OBVIOUS
      <4>1. i + 1 \in 1 .. N /\ i \in 0 .. N /\ (i + 1) - 1 = i
        BY <1>1
      <4>2. c[i + 1] = Further(fs, c[i]) /\ c[i] = f
        BY <1>3, <3>2, <4>1 DEF Follows, N
      <4> QED BY <2>4, <4>2 DEF Further, Adding!More
    <3>3. Nat \subseteq R
      <4> HIDE DEF R
      <4> QED BY <3>1, <3>2, NaturalSet
    <3>4. c[k] = f
      BY <2>1, <3>3
    <3> QED BY <2>2, <2>4, <3>4 DEF Further, Adding!More
  <2> QED BY <2>3, <2>4, FileFields
<1>8. Nat \subseteq S
  <2> HIDE DEF S
  <2> QED BY <1>6, <1>7, NaturalSet
<1>9. \A k \in 0 .. N : k \in Nat /\ d[k] = c[k]
  BY <1>1, <1>8
<1> QED BY <1>9 DEF N, c, d

LEMMA StaysValid ==
    ASSUME Adding!ManagerAssumption, NEW fs, FileMap(fs), NEW gs, FileMap(gs), Extends(fs, gs),
           NEW f \in Adding!File, Adding!Valid(fs, f)
    PROVE  Adding!Valid(gs, f)
<1> DEFINE N == Adding!Far
           c == Adding!Chain(fs, f)
           d == Adding!Chain(gs, f)
<1>1. N \in Nat
  BY FarNatural
<1>2. \A k \in 0 .. N : d[k] = c[k]
  BY SameChain
<1>3. Adding!Resolves(fs, f) /\ Adding!NoDuplicates(fs, f)
  BY DEF Adding!Valid
<1>4. Adding!Resolves(gs, f)
  <2>1. d[N] = c[N]
    BY <1>1, <1>2
  <2> HIDE DEF c, d
  <2> QED BY <1>3, <2>1 DEF Adding!Resolves, N, c, d
<1>5. Adding!NoDuplicates(gs, f)
  <2> HIDE DEF N
  <2>1. \A k \in 1 .. N : k \in 0 .. N /\ k - 1 \in 0 .. N /\ \A i \in 0 .. k - 1 : i \in 0 .. N
    BY <1>1
  <2>2. \A k \in 1 .. N : Adding!More(c[k - 1])
           => \A i \in 0 .. k - 1 : c[i].fields \intersect c[k].fields = {}
    BY <1>3 DEF Adding!NoDuplicates, N
  <2> HIDE DEF c, d
  <2>3. \A k \in 1 .. N : Adding!More(d[k - 1])
           => \A i \in 0 .. k - 1 : d[i].fields \intersect d[k].fields = {}
    BY <1>2, <2>1, <2>2
  <2> QED BY <2>3 DEF Adding!NoDuplicates, N, d
<1> QED BY <1>4, <1>5 DEF Adding!Valid

\* What holds between two calls.
ModelInv ==
    /\ FileMap(files)
    /\ files[System] = Adding!SystemFile
    /\ Adding!AllValid(files)

LEMMA SystemFileIs ==
    ASSUME Adding!ManagerAssumption
    PROVE  /\ Adding!SystemFile \in Adding!File /\ Adding!SystemFile.ns = System
           /\ Adding!SystemFile # None
<1>1. System \in AddedNamespace /\ None \notin Adding!File
  BY DEF Adding!ManagerAssumption
<1>2. Adding!SystemFile \in [ns : AddedNamespace, super : AddedNamespace \union {None},
                             fields : SUBSET Field, type : {TRUE}]
  BY <1>1 DEF Adding!SystemFile
<1>3. Adding!SystemFile \in Adding!File
  BY <1>2 DEF Adding!File
<1>4. Adding!SystemFile.ns = System
  BY DEF Adding!SystemFile
<1> QED BY <1>1, <1>3, <1>4

\* One more file, of a namespace that is not registered.
LEMMA OneMoreFile ==
    ASSUME Adding!ManagerAssumption, NEW fs, FileMap(fs), NEW f \in Adding!File, fs[f.ns] = None
    PROVE  LET gs == [fs EXCEPT ![f.ns] = f] IN
           /\ FileMap(gs) /\ Extends(fs, gs) /\ gs[f.ns] = f
           /\ \A n \in AddedNamespace : n # f.ns => gs[n] = fs[n]
           /\ Adding!AllValid(fs) /\ Adding!Valid(fs, f) => Adding!AllValid(gs)
<1> DEFINE gs == [fs EXCEPT ![f.ns] = f]
<1>1. f.ns \in AddedNamespace /\ f # None /\ f \in MaybeFile
  BY FileFields DEF MaybeFile
<1>2. /\ gs \in [AddedNamespace -> MaybeFile] /\ gs[f.ns] = f
      /\ \A n \in AddedNamespace : n # f.ns => gs[n] = fs[n]
  BY <1>1 DEF FileMap
<1> HIDE DEF gs
<1>3. FileMap(gs) /\ Extends(fs, gs)
  BY <1>1, <1>2 DEF FileMap, Extends
<1>4. ASSUME Adding!AllValid(fs), Adding!Valid(fs, f), NEW n \in AddedNamespace, gs[n] # None
      PROVE  Adding!Valid(gs, gs[n])
  <2>1. CASE n = f.ns
    BY <1>2, <1>3, <1>4, <2>1, StaysValid
  <2>2. CASE n # f.ns
    <3>1. gs[n] = fs[n] /\ fs[n] \in Adding!File
      BY <1>2, <1>4, <2>2 DEF FileMap, MaybeFile
    <3>2. Adding!Valid(fs, fs[n])
      BY <1>4, <3>1 DEF Adding!AllValid
    <3> QED BY <1>3, <3>1, <3>2, StaysValid
  <2> QED BY <2>1, <2>2
<1>5. Adding!AllValid(fs) /\ Adding!Valid(fs, f) => Adding!AllValid(gs)
  BY <1>4 DEF Adding!AllValid
<1> QED BY <1>2, <1>3, <1>5 DEF gs

LEMMA OnlyValid ==
    ASSUME Adding!ManagerAssumption
    PROVE  /\ FileMap(Adding!Only) /\ Adding!Only[System] = Adding!SystemFile
           /\ Adding!AllValid(Adding!Only)
<1> DEFINE fs == Adding!Only
           s == Adding!SystemFile
           c == Adding!Chain(fs, s)
           N == Adding!Far
<1>1. s \in Adding!File /\ s.ns = System /\ s # None /\ System \in AddedNamespace
  BY SystemFileIs DEF Adding!ManagerAssumption
<1>2. s.type /\ s.super = None /\ ~Adding!More(s)
  BY DEF Adding!SystemFile, Adding!More
<1> HIDE DEF s
<1>3. /\ fs[System] = s
      /\ \A n \in AddedNamespace : fs[n] # None => n = System
      /\ fs \in [AddedNamespace -> MaybeFile]
  BY <1>1 DEF Adding!Only, s, MaybeFile
<1> HIDE DEF fs
<1>4. FileMap(fs)
  BY <1>1, <1>3 DEF FileMap
<1>5. Follows(fs, s, c)
  BY <1>1, <1>4, ChainFollows DEF MaybeFile
<1>6. N \in Nat
  BY FarNatural
<1> HIDE DEF c, N
<1> DEFINE S == {k \in Nat : k \in 0 .. N => c[k] = s}
<1>7. 0 \in S
  BY <1>5 DEF Follows
<1>8. ASSUME NEW k \in Nat, k \in S PROVE k + 1 \in S
  <2> SUFFICES ASSUME k + 1 \in 0 .. N PROVE c[k + 1] = s
    OBVIOUS
  <2>1. k + 1 \in 1 .. N /\ k \in 0 .. N /\ (k + 1) - 1 = k
    BY <1>6
  <2>2. c[k + 1] = Further(fs, c[k]) /\ c[k] = s
    BY <1>5, <1>8, <2>1 DEF Follows, N
  <2> QED BY <1>2, <2>2 DEF Further
<1>9. Nat \subseteq S
  <2> HIDE DEF S
  <2> QED BY <1>7, <1>8, NaturalSet
<1>10. /\ \A k \in 0 .. N : c[k] = s
       /\ N \in 0 .. N /\ \A k \in 1 .. N : k - 1 \in 0 .. N
  BY <1>6, <1>9
<1>11. Adding!Resolves(fs, s)
  <2>1. c[N] = s
    BY <1>10
  <2> QED BY <1>1, <1>2, <2>1 DEF Adding!Resolves, c, N
<1>12. Adding!NoDuplicates(fs, s)
  <2>1. \A k \in 1 .. N : ~Adding!More(c[k - 1])
    BY <1>2, <1>10
  <2> QED BY <2>1 DEF Adding!NoDuplicates, c, N
<1>13. Adding!AllValid(fs)
  BY <1>1, <1>3, <1>11, <1>12 DEF Adding!AllValid, Adding!Valid
<1> QED BY <1>3, <1>4, <1>13 DEF fs, s

\* What the results of the calls say.
LEMMA AddedAlone ==
    ASSUME NEW fs, NEW f
    PROVE  Adding!AddResult(fs, f) = "done"
             <=> f.ns # System /\ fs[f.ns] = None /\ Adding!Valid(fs, f)
BY DEF Adding!AddResult

LEMMA AddedTogether ==
    ASSUME NEW fs, NEW f, NEW g
    PROVE  Adding!AddAllResult(fs, f, g) = "done"
             <=> /\ f.ns # System /\ g.ns # System
                 /\ fs[f.ns] = None /\ [fs EXCEPT ![f.ns] = f][g.ns] = None
                 /\ Adding!AllValid([[fs EXCEPT ![f.ns] = f] EXCEPT ![g.ns] = g])
BY DEF Adding!AddAllResult

LEMMA ModelNext ==
    ASSUME Adding!ManagerAssumption, ModelInv, [Adding!Next]_(Adding!vars)
    PROVE  ModelInv'
<1>1. CASE UNCHANGED Adding!vars
  <2>1. files' = files
    BY <1>1 DEF Adding!vars
  <2> QED BY <2>1 DEF ModelInv, FileMap, Adding!AllValid
<1>2. ASSUME files' = files PROVE ModelInv'
  BY <1>2 DEF ModelInv, FileMap, Adding!AllValid
<1>3. ASSUME NEW f \in Adding!File, Adding!Add(f) PROVE ModelInv'
  <2>1. CASE Adding!AddResult(files, f) # "done"
    BY <1>2, <1>3, <2>1 DEF Adding!Add, Adding!Refused
  <2>2. CASE Adding!AddResult(files, f) = "done"
    <3> DEFINE gs == [files EXCEPT ![f.ns] = f]
    <3>1. f.ns # System /\ files[f.ns] = None /\ Adding!Valid(files, f)
      BY <2>2, AddedAlone
    <3>2. /\ FileMap(gs) /\ Adding!AllValid(gs)
          /\ \A n \in AddedNamespace : n # f.ns => gs[n] = files[n]
      BY <3>1, OneMoreFile DEF ModelInv
    <3>3. files' = gs
      BY <1>3, <2>2 DEF Adding!Add, Adding!Put
    <3> HIDE DEF gs
    <3>4. gs[System] = Adding!SystemFile
      BY <3>1, <3>2 DEF ModelInv, Adding!ManagerAssumption
    <3> QED BY <3>2, <3>3, <3>4 DEF ModelInv, FileMap, Adding!AllValid
  <2> QED BY <2>1, <2>2
<1>4. ASSUME NEW f \in Adding!File, NEW g \in Adding!File, Adding!AddAll(f, g) PROVE ModelInv'
  <2>1. CASE Adding!AddAllResult(files, f, g) # "done"
    BY <1>2, <1>4, <2>1 DEF Adding!AddAll, Adding!Refused
  <2>2. CASE Adding!AddAllResult(files, f, g) = "done"
    <3> DEFINE one == [files EXCEPT ![f.ns] = f]
               gs == [one EXCEPT ![g.ns] = g]
    <3>1. /\ f.ns # System /\ g.ns # System /\ files[f.ns] = None /\ one[g.ns] = None
          /\ Adding!AllValid(gs)
      BY <2>2 DEF Adding!AddAllResult
    <3>2. /\ FileMap(one) /\ \A n \in AddedNamespace : n # f.ns => one[n] = files[n]
      BY <3>1, OneMoreFile DEF ModelInv
    <3>3. files' = gs
      <4>1. files' = [files EXCEPT ![f.ns] = f, ![g.ns] = g]
        BY <1>4, <2>2 DEF Adding!AddAll
      <4>2. [files EXCEPT ![f.ns] = f, ![g.ns] = g] = gs
        OBVIOUS
      <4> QED BY <4>1, <4>2
    <3> HIDE DEF one
    <3>4. /\ FileMap(gs) /\ \A n \in AddedNamespace : n # g.ns => gs[n] = one[n]
      BY <3>1, <3>2, OneMoreFile
    <3> HIDE DEF gs
    <3>5. gs[System] = Adding!SystemFile
      BY <3>1, <3>2, <3>4 DEF ModelInv, Adding!ManagerAssumption
    <3> QED BY <3>1, <3>3, <3>4, <3>5 DEF ModelInv, FileMap, Adding!AllValid
  <2> QED BY <2>1, <2>2
<1>5. CASE Adding!Clear
  <2>1. files' = Adding!Only
    BY <1>5 DEF Adding!Clear
  <2> DEFINE gs == Adding!Only
  <2>3. FileMap(gs) /\ gs[System] = Adding!SystemFile /\ Adding!AllValid(gs)
    BY OnlyValid
  <2> HIDE DEF gs
  <2> QED BY <2>1, <2>3 DEF ModelInv, FileMap, Adding!AllValid, gs
<1>6. "update" \notin {"add", "addAll"} /\ "delete" \notin {"add", "addAll"}
  OBVIOUS
<1> QED BY <1>1, <1>3, <1>4, <1>5, <1>6 DEF Adding!Next

AddedSound == Adding!TypeOK /\ Adding!Available /\ Adding!OrderFree

\* Theorem (ModelsResolve): whatever is added in whatever order, all declarations resolve, and
\* what can be added file by file can be added at once, in the other order too
\* (modelmanager.js, addModelFile and addModelFiles).
THEOREM ModelsResolve ==
    Adding!ManagerAssumption /\ Adding!Spec => []AddedSound
<1> SUFFICES ASSUME Adding!ManagerAssumption
             PROVE  Adding!Spec => []AddedSound
  OBVIOUS
<1>1. Adding!Init => ModelInv
  <2> DEFINE gs == Adding!Only
  <2>1. FileMap(gs) /\ gs[System] = Adding!SystemFile /\ Adding!AllValid(gs)
    BY OnlyValid
  <2>2. Adding!Init => files = gs
    BY DEF Adding!Init
  <2> HIDE DEF gs
  <2> QED BY <2>1, <2>2 DEF ModelInv
<1>2. ModelInv /\ [Adding!Next]_(Adding!vars) => ModelInv'
  BY ModelNext
<1>3. ASSUME ModelInv, NEW f \in Adding!File, NEW g \in Adding!File,
             Adding!AddResult(files, f) = "done", Adding!AddResult(Adding!Put(f), g) = "done"
      PROVE  /\ Adding!AddAllResult(files, f, g) = "done"
             /\ Adding!AddAllResult(files, g, f) = "done"
  <2> DEFINE one == [files EXCEPT ![f.ns] = f]
             both == [one EXCEPT ![g.ns] = g]
             other == [files EXCEPT ![g.ns] = g]
             last2 == [other EXCEPT ![f.ns] = f]
  <2>1. f.ns # System /\ files[f.ns] = None /\ Adding!Valid(files, f)
    BY <1>3, AddedAlone
  <2>2. g.ns # System /\ one[g.ns] = None /\ Adding!Valid(one, g)
    BY <1>3, AddedAlone DEF Adding!Put
  <2>3. /\ FileMap(one) /\ Adding!AllValid(one) /\ one[f.ns] = f
        /\ \A n \in AddedNamespace : n # f.ns => one[n] = files[n]
    BY <1>3, <2>1, OneMoreFile DEF ModelInv
  <2>4. f.ns \in AddedNamespace /\ g.ns \in AddedNamespace /\ f # None
    BY FileFields
  <2>5. f.ns # g.ns /\ files[g.ns] = None
    BY <2>2, <2>3, <2>4
  <2>6. both = last2
    BY <2>4, <2>5 DEF ModelInv, FileMap
  <2> HIDE DEF one
  <2>7. Adding!AllValid(both)
    BY <2>2, <2>3, OneMoreFile
  <2>8. Adding!AddAllResult(files, f, g) = "done"
    <3> HIDE DEF both
    <3>1. Adding!AddAllResult(files, f, g) =
            IF System \in {f.ns, g.ns} THEN "system"
            ELSE IF files[f.ns] # None \/ one[g.ns] # None THEN "exists"
            ELSE IF Adding!AllValid(both) THEN "done" ELSE "invalid"
      BY DEF Adding!AddAllResult, one, both
    <3> QED BY <2>1, <2>2, <2>7, <3>1
  <2>9. Adding!AddAllResult(files, g, f) = "done"
    <3>1. other[f.ns] = None
      BY <1>3, <2>1, <2>4, <2>5 DEF ModelInv, FileMap
    <3> HIDE DEF both, last2, other
    <3>2. Adding!AddAllResult(files, g, f) =
            IF System \in {g.ns, f.ns} THEN "system"
            ELSE IF files[g.ns] # None \/ other[f.ns] # None THEN "exists"
            ELSE IF Adding!AllValid(last2) THEN "done" ELSE "invalid"
      BY DEF Adding!AddAllResult, last2, other
    <3> QED BY <2>1, <2>2, <2>5, <2>6, <2>7, <3>1, <3>2
  <2> QED BY <2>8, <2>9
<1>4. ModelInv => AddedSound
  <2>1. ModelInv => Adding!TypeOK
    BY DEF ModelInv, FileMap, MaybeFile, Adding!TypeOK
  <2>2. ModelInv => Adding!Available
    BY DEF ModelInv, Adding!Available
  <2>3. ModelInv => Adding!OrderFree
    BY <1>3 DEF Adding!OrderFree
  <2> QED BY <2>1, <2>2, <2>3 DEF AddedSound
<1> QED BY <1>1, <1>2, <1>4, PTL DEF Adding!Spec

\* A call that throws changes nothing; files that are added at once are valid together.
LEMMA CallsWhole ==
    ASSUME Adding!Next \/ Changing!Next
    PROVE  last'.result # "done" => files' = files
<1>1. ASSUME Adding!Next PROVE last'.result # "done" => files' = files
  <2>1. ASSUME NEW f, Adding!Add(f) PROVE last'.result # "done" => files' = files
    BY <2>1 DEF Adding!Add, Adding!Refused, Adding!Ends
  <2>2. ASSUME NEW f, NEW g, Adding!AddAll(f, g) PROVE last'.result # "done" => files' = files
    BY <2>2 DEF Adding!AddAll, Adding!Refused, Adding!Ends
  <2>3. ASSUME NEW f, Adding!Update(f) PROVE last'.result # "done" => files' = files
    BY <2>3 DEF Adding!Update, Adding!Refused, Adding!Ends
  <2>4. ASSUME NEW n, Adding!Delete(n) PROVE last'.result # "done" => files' = files
    BY <2>4 DEF Adding!Delete, Adding!Refused, Adding!Ends
  <2>5. ASSUME Adding!Clear PROVE last'.result # "done" => files' = files
    BY <2>5 DEF Adding!Clear, Adding!Ends
  <2> QED BY <1>1, <2>1, <2>2, <2>3, <2>4, <2>5 DEF Adding!Next
<1>2. ASSUME Changing!Next PROVE last'.result # "done" => files' = files
  <2>1. ASSUME NEW f, Changing!Add(f) PROVE last'.result # "done" => files' = files
    BY <2>1 DEF Changing!Add, Changing!Refused, Changing!Ends
  <2>2. ASSUME NEW f, NEW g, Changing!AddAll(f, g) PROVE last'.result # "done" => files' = files
    BY <2>2 DEF Changing!AddAll, Changing!Refused, Changing!Ends
  <2>3. ASSUME NEW f, Changing!Update(f) PROVE last'.result # "done" => files' = files
    BY <2>3 DEF Changing!Update, Changing!Refused, Changing!Ends
  <2>4. ASSUME NEW n, Changing!Delete(n) PROVE last'.result # "done" => files' = files
    BY <2>4 DEF Changing!Delete, Changing!Refused, Changing!Ends
  <2>5. ASSUME Changing!Clear PROVE last'.result # "done" => files' = files
    BY <2>5 DEF Changing!Clear, Changing!Ends
  <2> QED BY <1>2, <2>1, <2>2, <2>3, <2>4, <2>5 DEF Changing!Next
<1> QED BY <1>1, <1>2

LEMMA AddedAtOnce ==
    ASSUME Changing!Next, last'.call = "addAll", last'.result = "done"
    PROVE  Changing!AllValid(files')
<1>1. PICK f \in Changing!File, g \in Changing!File : Changing!AddAll(f, g)
  <2>1. ASSUME NEW f, Changing!Add(f) PROVE FALSE
    BY <2>1 DEF Changing!Add, Changing!Refused, Changing!Ends
  <2>2. ASSUME NEW f, Changing!Update(f) PROVE FALSE
    BY <2>2 DEF Changing!Update, Changing!Refused, Changing!Ends
  <2>3. ASSUME NEW n, Changing!Delete(n) PROVE FALSE
    BY <2>3 DEF Changing!Delete, Changing!Refused, Changing!Ends
  <2>4. ASSUME Changing!Clear PROVE FALSE
    BY <2>4 DEF Changing!Clear, Changing!Ends
  <2> QED BY <2>1, <2>2, <2>3, <2>4 DEF Changing!Next
<1>2. Changing!AddAllResult(files, f, g) = "done"
  BY <1>1 DEF Changing!AddAll, Changing!Refused, Changing!Ends
<1>3. Changing!AllValid([[files EXCEPT ![f.ns] = f] EXCEPT ![g.ns] = g])
  BY <1>2 DEF Changing!AddAllResult
<1>4. files' = [files EXCEPT ![f.ns] = f, ![g.ns] = g]
  BY <1>1, <1>2 DEF Changing!AddAll
<1>5. [files EXCEPT ![f.ns] = f, ![g.ns] = g] = [[files EXCEPT ![f.ns] = f] EXCEPT ![g.ns] = g]
  OBVIOUS
<1> QED BY <1>3, <1>4, <1>5
-----------------------------------------------------------------------------
(***************************************************************************)
(* The parts together.  Each part takes its own steps and stays as it is   *)
(* in those of the others.                                                 *)
(***************************************************************************)
LEMMA PartsTaken ==
    ASSUME [PartsNext]_everything
    PROVE  /\ [Boot!Next]_(Boot!vars) /\ [Registries!Next]_(Registries!vars)
           /\ [Contexts!Next]_(Contexts!vars) /\ [Access!Next]_(Access!vars)
           /\ [Resolution!Next]_(Resolution!vars) /\ [Next]_vars
           /\ part' = part
           /\ part = "models" => [Adding!Next]_(Adding!vars)
           /\ part = "changed models" => [Changing!Next]_(Changing!vars)
           /\ part \notin {"models", "changed models"} => UNCHANGED modelVars
<1> USE DEF everything, bootVars, registryVars, contextVars, accessVars, resolverVars,
            Boot!vars, Registries!vars, Contexts!vars, Access!vars, Resolution!vars,
            modelVars, Adding!vars, Changing!vars
<1>1. CASE UNCHANGED everything
  BY <1>1 DEF vars
<1>2. CASE PartsNext
  BY <1>2 DEF PartsNext
<1> QED BY <1>1, <1>2

\* In the run of all parts: a start is there with all that it has asked for, in the order
\* of the historian, or it has left nothing (engine.js, Engine.init).
THEOREM StartsWhole == PartsSpec => []StartedWhole
<1>1. PartsInit => Boot!Init
  BY DEF PartsInit
<1>2. [PartsNext]_everything => [Boot!Next]_(Boot!vars)
  BY PartsTaken
<1>3. PartsSpec => Boot!Spec
  BY <1>1, <1>2, PTL DEF PartsSpec, Boot!Spec
<1>4. Boot!StartedWhole => StartedWhole
  BY DEF StartedWhole
<1> QED BY <1>3, <1>4, StartedAsAsked, EngineAssumption, PTL

\* In the run of all parts: a request runs the one version of the network that it has
\* read, which compiles (context.js, initialize).
THEOREM OneVersionAtATime == PartsSpec => []OneVersionRuns
<1>1. PartsInit => Contexts!Init
  BY DEF PartsInit
<1>2. [PartsNext]_everything => [Contexts!Next]_(Contexts!vars)
  BY PartsTaken
<1>3. PartsSpec => Contexts!Spec
  BY <1>1, <1>2, PTL DEF PartsSpec, Contexts!Spec
<1>4. Contexts!OneVersionRuns => OneVersionRuns
  BY DEF OneVersionRuns
<1> QED BY <1>3, <1>4, RequestsRunOneVersionWholly, EngineAssumption, PTL

\* In the run of all parts: a resource that the engine has resolved is whole, and circles
\* of relationships end (resolver.js, resolveRelationship).
THEOREM ResolvesWhole == PartsSpec => []ResolvedWhole
<1> DEFINE Elsewhere == part # "resolver"
<1>1. PartsInit => Elsewhere \/ Resolution!Init
  BY DEF PartsInit
<1>2. [PartsNext]_everything => [Resolution!Next]_(Resolution!vars)
  BY PartsTaken
<1>3. Elsewhere /\ [PartsNext]_everything => Elsewhere'
  BY PartsTaken
<1>4. Elsewhere \/ Resolution!ResolvedWhole => ResolvedWhole
  BY DEF ResolvedWhole
<1> QED BY <1>1, <1>2, <1>3, <1>4, ResolverResolves, EngineAssumption, PTL
        DEF PartsSpec, Resolution!Spec

\* In the run of all parts: the access controller keeps to the rules, and no check waits
\* for what waits for it (accesscontroller.js, check).
THEOREM AccessRulesDecide ==
    ASSUME Access!ChecksEnd
    PROVE  PartsSpec => []RulesDecide
<1> DEFINE Elsewhere == part # "access"
<1>1. PartsInit => Elsewhere \/ Access!Init
  BY DEF PartsInit
<1>2. [PartsNext]_everything => [Access!Next]_(Access!vars)
  BY PartsTaken
<1>3. Elsewhere /\ [PartsNext]_everything => Elsewhere'
  BY PartsTaken
<1>4. Elsewhere \/ Access!RulesDecide => RulesDecide
  BY DEF RulesDecide
<1> QED BY <1>1, <1>2, <1>3, <1>4, AccessDecided, EngineAssumption, PTL
        DEF PartsSpec, Access!Spec

\* In the run of all parts: the places where registries are kept agree through starts, updates
\* and resets, and the historian is complete (registrymanager.js; networkmanager.js).
THEOREM RegistriesAgreeAlways == PartsSpec => []RegistriesConsistent
<1>1. PartsInit => Registries!Init
  BY DEF PartsInit
<1>2. [PartsNext]_everything => [Registries!Next]_(Registries!vars)
  BY PartsTaken
<1>3. PartsSpec => Registries!Spec
  BY <1>1, <1>2, PTL DEF PartsSpec, Registries!Spec
<1>4. RegistriesSound => RegistriesConsistent
  BY DEF RegistriesSound, RegistriesConsistent
<1> QED BY <1>3, <1>4, RegistriesKept, EngineAssumption, PTL

\* In the run of all parts: all that was added resolves, and can be added at once in any order
\* (modelmanager.js).
THEOREM ModelsStaySound == PartsSpec => []ModelsSound
<1> DEFINE Elsewhere == part # "models"
<1>1. PartsInit => Elsewhere \/ Adding!Init
  BY DEF PartsInit
<1>2. ~Elsewhere /\ [PartsNext]_everything => [Adding!Next]_(Adding!vars)
  BY PartsTaken
<1>3. [PartsNext]_everything => (Elsewhere <=> Elsewhere')
  BY PartsTaken
<1>4. Elsewhere \/ AddedSound => ModelsSound
  BY DEF AddedSound, ModelsSound
<1> QED BY <1>1, <1>2, <1>3, <1>4, ModelsResolve, EngineAssumption, PTL
        DEF PartsSpec, Adding!Spec

\* In the run of all parts, with read sets that are validated: no step starts a started network
\* again, loses data in an update, empties in a reset what the participant cannot read or keeps
\* what it can, brings back an undeployed network, or adds files that do not resolve (engine.js;
\* networkmanager.js; modelmanager.js).
THEOREM EngineStepsHold ==
    ASSUME Validated
    PROVE  PartsSpec => EngineSteps
<1>1. PartsInit => Boot!Init /\ Registries!Init /\ Contexts!Init
  BY DEF PartsInit
<1>2. [PartsNext]_everything =>
        /\ [Boot!Next]_(Boot!vars) /\ [Registries!Next]_(Registries!vars)
        /\ [Contexts!Next]_(Contexts!vars)
  BY PartsTaken
<1>3. PartsSpec => Boot!Spec /\ Registries!Spec /\ Contexts!Spec
  BY <1>1, <1>2, PTL DEF PartsSpec, Boot!Spec, Registries!Spec, Contexts!Spec
<1>4. PartsSpec => /\ Boot!StartedOnce /\ Contexts!UndeployedFinal
                   /\ Registries!UpdateKeepsData /\ Registries!ResetEmptiesReadable
  BY <1>3, StartFinal, UndeployedIsFinal, UpdateKeeps, EngineAssumption, PTL
<1>5. ASSUME [PartsNext]_everything
      PROVE  [part = "changed models" /\ last'.call = "addAll" /\ last'.result = "done"
                => Changing!AllValid(files')]_<<part, modelVars>>
  <2> SUFFICES ASSUME part = "changed models", last'.call = "addAll", last'.result = "done",
                      ~UNCHANGED <<part, modelVars>>
               PROVE  Changing!AllValid(files')
    OBVIOUS
  <2>1. [Changing!Next]_(Changing!vars) /\ part' = part
    BY <1>5, PartsTaken
  <2>2. Changing!Next
    BY <2>1 DEF Changing!vars, modelVars
  <2> QED BY <2>2, AddedAtOnce
<1>6. ASSUME [PartsNext]_everything
      PROVE  [last'.result # "done" => files' = files]_(Changing!vars)
  <2>1. CASE part = "models"
    BY <1>6, <2>1, PartsTaken, CallsWhole DEF Adding!vars, Changing!vars
  <2>2. CASE part = "changed models"
    BY <1>6, <2>2, PartsTaken, CallsWhole DEF Changing!vars
  <2>3. CASE part \notin {"models", "changed models"}
    BY <1>6, <2>3, PartsTaken DEF modelVars, Changing!vars
  <2> QED BY <2>1, <2>2, <2>3
<1> QED BY <1>4, <1>5, <1>6, PTL DEF PartsSpec, EngineSteps, Changing!AllOrNothing
=============================================================================
