--------------------------- MODULE ClientsProofs ---------------------------
(***************************************************************************)
(* Proofs about what applications and users work with, for every value of  *)
(* the constants.                                                          *)
(*                                                                         *)
(* The resources of the REST server (RestResources): each request takes    *)
(* effect at once when no PATCH comes, or when the requests for one        *)
(* resource come one at a time; and a resource that was deleted comes back *)
(* by a POST only, however requests overlap.  The connection of            *)
(* composer-client (ClientConnection), business network cards (Cards),     *)
(* business networks in a browser (WebConnection) and the runtime on a     *)
(* channel (Deployment).                                                   *)
(***************************************************************************)
EXTENDS Clients, Sequences, FiniteSets, FiniteSetTheorems, TLAPS

Words == {"ok", "error", "404", "empty"}

Types ==
    /\ store \in [Id -> Api!Resource \union {None}]
    /\ call \in [Request -> Api!ApiCall \union {None}]
    /\ copy \in [Request -> Api!Resource \union {None}]
    /\ answer \in [Request -> Words \union {None}]

Working(r) == call[r] # None /\ answer[r] = None

\* Only PATCH and DELETE have copies, a call is one of those that may come, and of a
\* request that was not called there is nothing yet.
Calls ==
    \A r \in Request :
        /\ call[r] # None => call[r].op \in Ops
        /\ copy[r] # None => call[r] # None /\ call[r].op \in {"patch", "destroy"}
        /\ answer[r] # None => call[r] # None

\* One at a time: at most one request works on a resource, and its copy is current.
Alone ==
    Serial =>
        /\ \A q, r \in Request : Working(q) /\ Working(r) /\ call[q].id = call[r].id => q = r
        /\ \A r \in Request : Working(r) /\ copy[r] # None => copy[r] = store[call[r].id]

IInv == Types /\ Calls /\ Alone

-----------------------------------------------------------------------------
LEMMA CallFields ==
    ASSUME NEW c \in Api!ApiCall
    PROVE  /\ c.id \in Id
           /\ c.op \in {"create", "replace", "patch", "destroy", "retrieve", "all"}
           /\ c.op \in {"create", "replace"} => c.data \in Api!Resource
           /\ c.op = "patch" => c.data \in UNION {[S -> Value] : S \in SUBSET Attr}
BY DEF Api!ApiCall

LEMMA MergedType ==
    ASSUME NEW x \in Api!Resource, NEW d \in UNION {[S -> Value] : S \in SUBSET Attr}
    PROVE  Api!Merged(x, d) \in Api!Resource
<1>1. PICK S \in SUBSET Attr : d \in [S -> Value]  OBVIOUS
<1>2. ASSUME NEW a \in Attr PROVE (IF a \in DOMAIN d THEN d[a] ELSE x[a]) \in Value
  BY <1>1 DEF Api!Resource
<1> QED BY <1>2 DEF Api!Merged, Api!Resource

LEMMA MergedAll ==
    ASSUME NEW x \in Api!Resource, NEW d \in Api!Resource
    PROVE  Api!Merged(x, d) = d
BY DEF Api!Merged, Api!Resource

LEMMA NoneApart == /\ None \notin Api!Resource /\ None \notin Api!ApiCall
                   /\ "ok" # None /\ "error" # None /\ "404" # None /\ "empty" # None
BY ResourcesAssumption

-----------------------------------------------------------------------------
\* What a step of a request does: it gets a copy that is current, or it is answered as
\* the API answers.
Gets(r) ==
    /\ Working(r) /\ copy[r] = None
    /\ call[r].op \in {"patch", "destroy"}
    /\ store[call[r].id] # None
    /\ copy' = [copy EXCEPT ![r] = store[call[r].id]]
    /\ UNCHANGED <<store, call, answer>>

Answers(r) ==
    /\ Working(r)
    /\ answer' \in [Request -> Words \union {None}]
    /\ answer'[r] # None /\ \A q \in Request \ {r} : answer'[q] = answer[q]
    /\ store' \in [Id -> Api!Resource \union {None}]
    /\ \A i \in Id : i # call[r].id => store'[i] = store[i]
    /\ store[call[r].id] = None /\ store'[call[r].id] # None =>
          call[r].op = "create" /\ answer'[r] = "ok"
    /\ UNCHANGED <<call, copy>>

LEMMA UpdateAnswers ==
    ASSUME IInv, NEW r \in Request, NEW x \in Api!Resource \union {None}, NEW a \in Words,
           Working(r), Update(r, x, a)
    PROVE  Answers(r)
<1>1. call[r] \in Api!ApiCall /\ call[r].id \in Id
  BY CallFields DEF IInv, Types, Working
<1> QED BY <1>1, NoneApart DEF Update, Ends, Answers, IInv, Types, Words, Working

LEMMA Steps ==
    ASSUME IInv, NEW r \in Request,
           Create(r) \/ Replace(r) \/ Get(r) \/ Patch(r) \/ Destroy(r) \/ Read(r)
    PROVE  Gets(r) \/ Answers(r)
<1>0. Working(r) /\ call[r] \in Api!ApiCall /\ call[r].id \in Id
  BY CallFields DEF IInv, Types, Calls, Create, Replace, Get, Patch, Destroy, Read, Awaits,
                    HasGot, Working
<1>1. CASE Create(r)
  <2>1. call[r].data \in Api!Resource /\ call[r].op = "create"
    BY <1>0, <1>1, CallFields DEF Create, Awaits
  <2> QED BY <1>0, <1>1, <2>1, NoneApart
          DEF Create, Awaits, Ends, Answers, IInv, Types, Words, Working
<1>2. CASE Replace(r)
  BY <1>0, <1>2, CallFields, UpdateAnswers DEF Replace, Awaits, Words
<1>3. CASE Get(r)
  BY <1>0, <1>3, NoneApart DEF Get, Awaits, Ends, Gets, Answers, IInv, Types, Words, Working
<1>4. CASE Patch(r)
  <2>1. copy[r] \in Api!Resource /\ call[r].op = "patch"
    BY <1>4 DEF Patch, HasGot, IInv, Types
  <2> QED BY <1>0, <1>4, <2>1, CallFields, MergedType, UpdateAnswers DEF Patch, Words
<1>5. CASE Destroy(r)
  BY <1>0, <1>5, UpdateAnswers DEF Destroy, Words
<1>6. CASE Read(r)
  BY <1>0, <1>6, NoneApart DEF Read, Awaits, Ends, Answers, IInv, Types, Words, Working
<1> QED BY <1>1, <1>2, <1>3, <1>4, <1>5, <1>6

LEMMA InitInv == Init => IInv
BY NoneApart DEF Init, Api!Init, IInv, Types, Calls, Alone, Working

LEMMA BeginInv ==
    ASSUME IInv, NEW r \in Request, Begin(r)
    PROVE  IInv'
<1>1. PICK c \in Api!ApiCall :
          /\ c.op \in Ops
          /\ Serial => \A q \in Request : call[q] # None /\ call[q].id = c.id => answer[q] # None
          /\ call' = [call EXCEPT ![r] = c]
  BY DEF Begin
<1>2. Types' /\ Calls'
  BY <1>1, NoneApart DEF IInv, Types, Calls, Begin
<1>3. Alone'
  BY <1>1, NoneApart DEF IInv, Types, Calls, Begin, Alone, Working
<1> QED BY <1>2, <1>3 DEF IInv

LEMMA GetsInv ==
    ASSUME IInv, NEW r \in Request, Gets(r)
    PROVE  IInv'
<1>1. call[r] \in Api!ApiCall /\ call[r].id \in Id
  BY CallFields DEF IInv, Types, Gets, Working
<1> QED BY <1>1 DEF Gets, IInv, Types, Calls, Alone, Working

LEMMA AnswersInv ==
    ASSUME IInv, NEW r \in Request, Answers(r)
    PROVE  IInv'
<1>1. \A q \in Request : Working(q) => call[q].id \in Id
  BY CallFields DEF IInv, Types, Working
<1>2. Types' /\ Calls'
  BY DEF Answers, IInv, Types, Calls, Working
<1>3. Alone'
  BY <1>1 DEF Answers, IInv, Types, Alone, Working
<1> QED BY <1>2, <1>3 DEF IInv

LEMMA NextInv == IInv /\ [Next]_vars => IInv'
<1> SUFFICES ASSUME IInv, [Next]_vars PROVE IInv'  OBVIOUS
<1>1. CASE UNCHANGED vars
  BY <1>1 DEF vars, IInv, Types, Calls, Alone, Working
<1>2. ASSUME NEW r \in Request, Begin(r) PROVE IInv'
  BY <1>2, BeginInv
<1>3. ASSUME NEW r \in Request,
             Create(r) \/ Replace(r) \/ Get(r) \/ Patch(r) \/ Destroy(r) \/ Read(r)
      PROVE  IInv'
  BY <1>3, Steps, GetsInv, AnswersInv
<1> QED BY <1>1, <1>2, <1>3 DEF Next

LEMMA Invariant == Spec => []IInv
BY InitInv, NextInv, PTL DEF Spec

-----------------------------------------------------------------------------
\* However requests overlap, a resource that was deleted comes back by a POST only.
THEOREM DeletedStays == Spec => NoResurrection
<1> DEFINE Back == \A i \in Id : store[i] = None /\ store'[i] # None =>
                     \E r \in Request : /\ call[r] # None /\ call[r].op = "create" /\ call[r].id = i
                                        /\ answer[r] = None /\ answer'[r] = "ok"
<1>1. IInv /\ [Next]_vars => [Back]_vars
  <2> SUFFICES ASSUME IInv, [Next]_vars, NEW i \in Id, store[i] = None, store'[i] # None
               PROVE  \E r \in Request : /\ call[r] # None /\ call[r].op = "create"
                                         /\ call[r].id = i
                                         /\ answer[r] = None /\ answer'[r] = "ok"
    OBVIOUS
  <2>1. PICK r \in Request :
            Begin(r) \/ Create(r) \/ Replace(r) \/ Get(r) \/ Patch(r) \/ Destroy(r) \/ Read(r)
    BY DEF Next, vars
  <2>2. ~ Begin(r)
    BY DEF Begin
  <2>3. Answers(r)
    BY <2>1, <2>2, Steps DEF Gets
  <2> QED BY <2>3 DEF Answers, Working
<1> QED BY <1>1, Invariant, PTL DEF Spec, NoResurrection

-----------------------------------------------------------------------------
\* A step of a request is a step of the API, unless it is the Patch of a copy that is
\* not current.
LEMMA StepServes ==
    ASSUME IInv, NEW r \in Request,
           Create(r) \/ Replace(r) \/ Get(r) \/ Patch(r) \/ Destroy(r) \/ Read(r),
           Patch(r) => Serial
    PROVE  Api!Serve(r) \/ UNCHANGED <<store, call, answer>>
<1> DEFINE c == call[r]
           found == store[c.id]
<1>0. /\ Working(r) /\ c \in Api!ApiCall /\ c.id \in Id
      /\ found \in Api!Resource \union {None}
  BY CallFields DEF IInv, Types, Calls, Create, Replace, Get, Patch, Destroy, Read, Awaits,
                    HasGot, Working
<1>1. SUFFICES ASSUME ~ UNCHANGED <<store, call, answer>>
               PROVE  /\ store' = [store EXCEPT ![c.id] = Api!Result(c, found)]
                      /\ answer' = [answer EXCEPT ![r] = Api!Answer(c, found)]
                      /\ call' = call
  BY <1>0 DEF Api!Serve, Working
<1>2. CASE Create(r)
  BY <1>0, <1>2 DEF Create, Awaits, Ends, Api!Result, Api!Answer, IInv, Types
<1>3. CASE Replace(r)
  <2>1. c.op = "replace" /\ c.data \in Api!Resource
    BY <1>0, <1>3, CallFields DEF Replace, Awaits
  <2>2. found # None => Api!Result(c, found) = c.data
    BY <1>0, <2>1, MergedAll DEF Api!Result
  <2>3. found = None => Api!Result(c, found) = None
    BY <2>1 DEF Api!Result
  <2>4. Api!Answer(c, found) = IF found = None THEN "404" ELSE "ok"
    BY <2>1 DEF Api!Answer
  <2> QED BY <1>0, <1>3, <2>2, <2>3, <2>4 DEF Replace, Update, Ends, IInv, Types
<1>4. CASE Get(r)
  <2>1. found = None /\ UNCHANGED <<store, call>>
    BY <1>1, <1>4 DEF Get
  <2>2. Api!Result(c, found) = None
    BY <1>4, <2>1 DEF Get, Awaits, Api!Result
  <2>3. Api!Answer(c, found) = IF c.op = "patch" THEN "error" ELSE "404"
    BY <1>4, <2>1 DEF Get, Awaits, Api!Answer
  <2> QED BY <1>0, <1>4, <2>1, <2>2, <2>3 DEF Get, Ends, IInv, Types
<1>5. CASE Patch(r)
  <2>1. c.op = "patch" /\ copy[r] = found /\ found # None
    BY <1>0, <1>5 DEF Patch, HasGot, IInv, Alone, Working
  <2>2. Api!Result(c, found) = Api!Merged(copy[r], c.data)
    BY <2>1 DEF Api!Result
  <2>3. Api!Answer(c, found) = "ok"
    BY <2>1 DEF Api!Answer
  <2> QED BY <1>0, <1>5, <2>1, <2>2, <2>3 DEF Patch, Update, Ends, IInv, Types
<1>6. CASE Destroy(r)
  <2>1. c.op = "destroy"
    BY <1>6 DEF Destroy, HasGot
  <2>2. Api!Result(c, found) = None
    BY <2>1 DEF Api!Result
  <2>3. Api!Answer(c, found) = IF found = None THEN "404" ELSE "ok"
    BY <2>1 DEF Api!Answer
  <2> QED BY <1>0, <1>6, <2>2, <2>3 DEF Destroy, Update, Ends, IInv, Types
<1>7. CASE Read(r)
  <2>1. c.op \in {"retrieve", "all"}
    BY <1>7 DEF Read, Awaits
  <2>2. Api!Result(c, found) = found
    BY <2>1 DEF Api!Result
  <2>3. Api!Answer(c, found) = IF found # None THEN "ok"
                               ELSE IF c.op = "all" THEN "empty" ELSE "error"
    BY <2>1 DEF Api!Answer
  <2> QED BY <1>0, <1>7, <2>2, <2>3 DEF Read, Ends, IInv, Types
<1> QED BY <1>2, <1>3, <1>4, <1>5, <1>6, <1>7

\* Without PATCH, and with requests for one resource that come one at a time, each
\* request takes effect at once.
THEOREM RequestsAtomic ==
    ASSUME Serial \/ "patch" \notin Ops
    PROVE  Spec => Atomic
<1>1. Init => Api!Init
  BY DEF Init
<1>2. IInv /\ [Next]_vars => [Api!Next]_<<store, call, answer>>
  <2> SUFFICES ASSUME IInv, [Next]_vars PROVE [Api!Next]_<<store, call, answer>>  OBVIOUS
  <2>1. CASE UNCHANGED vars
    BY <2>1 DEF vars
  <2>2. ASSUME NEW r \in Request, Begin(r) PROVE Api!Next
    BY <2>2 DEF Begin, Api!Begin, Api!Next
  <2>3. ASSUME NEW r \in Request,
               Create(r) \/ Replace(r) \/ Get(r) \/ Patch(r) \/ Destroy(r) \/ Read(r)
        PROVE  [Api!Next]_<<store, call, answer>>
    <3>1. Patch(r) => Serial
      BY DEF Patch, HasGot, IInv, Calls
    <3> QED BY <2>3, <3>1, StepServes DEF Api!Next
  <2> QED BY <2>1, <2>2, <2>3 DEF Next
<1> QED BY <1>1, <1>2, Invariant, PTL DEF Spec, Atomic, Api!Spec

-----------------------------------------------------------------------------
\* The connection of an application, with calls of its own and the networks that
\* they connect to.
ConnStep == {"new", "done", "failed", "connecting", "login", "ping", "fetch", "disconnecting", "id"}

ConnTypes ==
    /\ connection \in ClientCall \union {None} /\ context \in ClientCall \union {None}
    /\ network \in Network \union {None}
    /\ to \in [ClientCall -> Network \union {None}]
    /\ progress \in [ClientCall -> ConnStep]
    /\ at \in [ClientCall -> ClientCall \union {None}]
    /\ alive \subseteq ClientCall
    /\ sent \subseteq [made : ClientCall, context : ClientCall, by : Network]

\* What the fields say of each other, also while a call is at work.
FieldsAgree ==
    /\ context \in {connection, None}
    /\ network # None => context # None /\ network = to[context]
    /\ alive \subseteq {connection}
    /\ connection # None => progress[connection] # "new"

\* One call is at work at a time, and the fields are where it has left them.
ConnAtWork ==
    /\ \A c, d \in ClientCall : progress[c] \notin Client!Ended /\ progress[d] \notin Client!Ended => c = d
    /\ \A c \in ClientCall :
        /\ progress[c] = "connecting" => connection = None
        /\ progress[c] = "login" => connection = c /\ context = None /\ alive = {}
        /\ progress[c] \in {"ping", "fetch"} => connection = c /\ context = c /\ network = None
        /\ progress[c] = "fetch" => at[c] = c
        /\ progress[c] = "disconnecting" => at[c] = connection /\ connection # None
        /\ progress[c] = "id" => at[c] = context /\ context # None

ConnSent == \A s \in sent : s.made = s.context /\ s.by = to[s.made] /\ progress[s.made] # "new"

ConnInv == ConnTypes /\ FieldsAgree /\ ConnAtWork /\ ConnSent

LEMMA ConnNone ==
    ASSUME Client!ClientAssumption
    PROVE  None \notin ClientCall /\ None \notin Network
BY DEF Client!ClientAssumption

LEMMA ConnInit ==
    ASSUME Client!ClientAssumption
    PROVE  Client!Init => ConnInv
BY ConnNone
   DEF Client!Init, ConnInv, ConnTypes, FieldsAgree, ConnAtWork, ConnSent, ConnStep,
       Client!Ended

\* A call that is at work, or begins to, is the only one.
LEMMA OneCallAtWork ==
    ASSUME Client!ClientAssumption, Disciplined, ConnInv, NEW c \in ClientCall,
           Client!Begin(c) \/ progress[c] \notin Client!Ended
    PROVE  \A d \in ClientCall \ {c} : progress[d] \in Client!Ended
BY DEF Client!Begin, Client!Idle, ConnInv, ConnAtWork

LEMMA ConnectInv ==
    ASSUME Client!ClientAssumption, Disciplined, ConnInv, NEW c \in ClientCall,
           NEW n \in Network, Client!Connect(c, n)
    PROVE  ConnInv'
<1>1. \A d \in ClientCall \ {c} : progress[d] \in Client!Ended
  BY OneCallAtWork DEF Client!Connect
<1>2. connection = None /\ context = None /\ network = None /\ progress[c] = "new"
  BY DEF Client!Connect, Client!Begin, ConnInv, FieldsAgree
<1>3. ConnTypes' /\ FieldsAgree'
  BY <1>2, ConnNone
     DEF Client!Connect, Client!Goto, ConnInv, ConnTypes, FieldsAgree, ConnStep,
         Client!fields, Client!observed
<1>4. ConnAtWork'
  BY <1>1, <1>2
     DEF Client!Connect, Client!Goto, ConnInv, ConnTypes, ConnAtWork, Client!Ended,
         Client!fields
<1>5. ConnSent'
  BY <1>2 DEF Client!Connect, Client!Goto, ConnInv, ConnTypes, ConnSent, Client!observed
<1> QED BY <1>3, <1>4, <1>5 DEF ConnInv

LEMMA ConnectStepInv ==
    ASSUME Client!ClientAssumption, Disciplined, ConnInv, NEW c \in ClientCall,
           Client!Connected(c) \/ Client!LoggedIn(c) \/ Client!Pinged(c) \/ Client!Fetched(c)
    PROVE  ConnInv'
<1>1. progress[c] \notin Client!Ended
  BY DEF Client!Connected, Client!LoggedIn, Client!Pinged, Client!Fetched, Client!Ended
<1>2. \A d \in ClientCall \ {c} : progress[d] \in Client!Ended
  BY <1>1, OneCallAtWork
<1>3. CASE Client!Connected(c)
  <2>1. connection = None /\ context = None /\ network = None /\ alive = {}
    BY <1>3, ConnNone DEF Client!Connected, ConnInv, ConnTypes, FieldsAgree, ConnAtWork
  <2> QED BY <1>2, <1>3, <2>1, ConnNone
          DEF Client!Connected, Client!Goto, ConnInv, ConnTypes, FieldsAgree,
              ConnAtWork, ConnSent, ConnStep, Client!Ended, Client!observed
<1>4. CASE Client!LoggedIn(c)
  <2>1. connection = c /\ context = None /\ network = None /\ alive = {}
    BY <1>4, ConnNone DEF Client!LoggedIn, ConnInv, FieldsAgree, ConnAtWork
  <2> QED BY <1>2, <1>4, <2>1, ConnNone
          DEF Client!LoggedIn, Client!Goto, ConnInv, ConnTypes, FieldsAgree,
              ConnAtWork, ConnSent, ConnStep, Client!Ended, Client!observed
<1>5. CASE Client!Pinged(c)
  <2>1. connection = c /\ context = c /\ network = None
    BY <1>5 DEF Client!Pinged, ConnInv, ConnAtWork
  <2> QED BY <1>2, <1>5, <2>1, ConnNone
          DEF Client!Pinged, Client!Goto, ConnInv, ConnTypes, FieldsAgree, ConnAtWork,
              ConnSent, ConnStep, Client!Ended, Client!fields, Client!observed
<1>6. CASE Client!Fetched(c)
  <2>1. connection = c /\ context = c /\ at[c] = c
    BY <1>6 DEF Client!Fetched, ConnInv, ConnAtWork
  <2> QED BY <1>2, <1>6, <2>1, ConnNone
          DEF Client!Fetched, Client!Goto, ConnInv, ConnTypes, FieldsAgree, ConnAtWork,
              ConnSent, ConnStep, Client!Ended, Client!observed
<1> QED BY <1>3, <1>4, <1>5, <1>6

LEMMA FailsInv ==
    ASSUME Client!ClientAssumption, Disciplined, ConnInv, NEW c \in ClientCall, Client!Fails(c)
    PROVE  ConnInv'
<1>1. progress[c] \notin Client!Ended
  BY DEF Client!Fails, Client!Ended
<1>2. \A d \in ClientCall \ {c} : progress[d] \in Client!Ended
  BY <1>1, OneCallAtWork
<1> QED BY <1>1, <1>2, ConnNone
        DEF Client!Fails, Client!Goto, ConnInv, ConnTypes, FieldsAgree, ConnAtWork,
            ConnSent, ConnStep, Client!Ended, Client!fields, Client!observed

LEMMA DisconnectInv ==
    ASSUME Client!ClientAssumption, Disciplined, ConnInv, NEW c \in ClientCall,
           Client!Disconnect(c) \/ Client!Disconnected(c)
    PROVE  ConnInv'
<1>1. CASE Client!Disconnect(c)
  <2>1. \A d \in ClientCall \ {c} : progress[d] \in Client!Ended
    BY <1>1, OneCallAtWork DEF Client!Disconnect
  <2> QED BY <1>1, <2>1, ConnNone
          DEF Client!Disconnect, Client!Goto, ConnInv, ConnTypes, FieldsAgree,
              ConnAtWork, ConnSent, ConnStep, Client!Ended, Client!fields, Client!observed
<1>2. CASE Client!Disconnected(c)
  <2>1. progress[c] \notin Client!Ended
    BY <1>2 DEF Client!Disconnected, Client!Ended
  <2>2. \A d \in ClientCall \ {c} : progress[d] \in Client!Ended
    BY <2>1, OneCallAtWork
  <2>3. at[c] = connection /\ connection # None
    BY <1>2 DEF Client!Disconnected, ConnInv, ConnAtWork
  <2> QED BY <1>2, <2>2, <2>3, ConnNone
          DEF Client!Disconnected, Client!Goto, ConnInv, ConnTypes, FieldsAgree,
              ConnAtWork, ConnSent, ConnStep, Client!Ended, Client!fields, Client!observed
<1> QED BY <1>1, <1>2

LEMMA SubmitInv ==
    ASSUME Client!ClientAssumption, Disciplined, ConnInv, NEW c \in ClientCall,
           Client!Submit(c) \/ Client!Send(c)
    PROVE  ConnInv'
<1>1. CASE Client!Submit(c)
  <2>1. \A d \in ClientCall \ {c} : progress[d] \in Client!Ended
    BY <1>1, OneCallAtWork DEF Client!Submit
  <2> QED BY <1>1, <2>1, ConnNone
          DEF Client!Submit, Client!Goto, ConnInv, ConnTypes, FieldsAgree, ConnAtWork,
              ConnSent, ConnStep, Client!Ended, Client!fields, Client!observed
<1>2. CASE Client!Send(c)
  <2>1. progress[c] \notin Client!Ended
    BY <1>2 DEF Client!Send, Client!Ended
  <2>2. \A d \in ClientCall \ {c} : progress[d] \in Client!Ended
    BY <2>1, OneCallAtWork
  <2>3. at[c] = context /\ context # None /\ context \in ClientCall /\ progress[context] # "new"
    BY <1>2, ConnNone DEF Client!Send, ConnInv, ConnTypes, FieldsAgree, ConnAtWork
  <2>4. ConnTypes' /\ FieldsAgree' /\ ConnAtWork'
    BY <1>2, <2>2, <2>3, ConnNone
       DEF Client!Send, Client!Goto, ConnInv, ConnTypes, FieldsAgree, ConnAtWork,
           ConnStep, Client!Ended, Client!fields
  <2>5. ConnSent'
    <3>1. \A s \in sent' : s \in sent \/ (s.made = context /\ s.context = context /\ s.by = to[context])
      BY <1>2, <2>3 DEF Client!Send, ConnInv, FieldsAgree
    <3>2. to' = to /\ progress' = [progress EXCEPT ![c] = progress'[c]] /\ progress'[c] # "new"
      BY <1>2 DEF Client!Send, Client!Goto, ConnInv, ConnTypes
    <3>3. \A s \in sent : s.made \in ClientCall
      BY DEF ConnInv, ConnTypes
    <3> QED BY <2>3, <3>1, <3>2, <3>3 DEF ConnInv, ConnTypes, ConnSent
  <2> QED BY <2>4, <2>5 DEF ConnInv
<1> QED BY <1>1, <1>2

LEMMA EventInv ==
    ASSUME Client!ClientAssumption, ConnInv, NEW c \in ClientCall, Client!Event(c)
    PROVE  ConnInv'
BY DEF Client!Event, ConnInv, ConnTypes, FieldsAgree, ConnAtWork, ConnSent, Client!fields

LEMMA ConnNext ==
    ASSUME Client!ClientAssumption, Disciplined, ConnInv, [Client!Next]_Client!vars
    PROVE  ConnInv'
<1>1. CASE UNCHANGED Client!vars
  BY <1>1
     DEF Client!vars, ConnInv, ConnTypes, FieldsAgree, ConnAtWork, ConnSent,
         Client!fields, Client!observed
<1> QED BY <1>1, ConnectInv, ConnectStepInv, FailsInv, DisconnectInv, SubmitInv, EventInv
           DEF Client!Next

LEMMA ConnInvariant ==
    ASSUME Client!ClientAssumption, Disciplined
    PROVE  Client!Spec => []ConnInv
BY ConnInit, ConnNext, PTL DEF Client!Spec

\* The variables have their types when the calls are awaited.
THEOREM ClientTypes ==
    ASSUME Client!ClientAssumption, Disciplined
    PROVE  Client!Spec => []Client!TypeOK
<1>1. ConnInv => Client!TypeOK
  BY DEF ConnInv, ConnTypes, Client!TypeOK
<1> QED BY <1>1, ConnInvariant, PTL

\* What an application submits goes to the network it was connected to, in its terms.
THEOREM SubmittedThere ==
    ASSUME Client!ClientAssumption, Disciplined
    PROVE  Client!Spec => []Client!SubmittedWhereMade
<1>1. ConnInv => Client!SubmittedWhereMade
  BY DEF ConnInv, ConnSent, Client!SubmittedWhereMade
<1> QED BY <1>1, ConnInvariant, PTL

\* Through all failures the fields belong together, and no connection is left behind.
THEOREM FieldsTogether ==
    ASSUME Client!ClientAssumption, Disciplined
    PROVE  Client!Spec => []Client!OneConnection
<1>1. ConnInv => Client!OneConnection
  BY DEF ConnInv, FieldsAgree, Client!OneConnection
<1> QED BY <1>1, ConnInvariant, PTL

\* All of it, for an application that awaits its calls (businessnetworkconnection.js).
THEOREM ClientAsPromised ==
    ASSUME Client!ClientAssumption
    PROVE  Client!Spec => []Client!ClientSound
<1>1. CASE Disciplined
  BY <1>1, ClientTypes, SubmittedThere, FieldsTogether, PTL DEF Client!ClientSound
<1>2. CASE ~ Disciplined
  BY <1>2, PTL DEF Client!ClientSound
<1> QED BY <1>1, <1>2

-----------------------------------------------------------------------------
(***************************************************************************)
(* Business network cards (Cards): with any number of processes that       *)
(* overlap and die, a connection acts for nobody but those whose cards     *)
(* were imported by its name; one call at a time, cards are whole, and a   *)
(* connection acts for the holder of its card.                             *)
(***************************************************************************)
Holder == {c.cert : c \in Card} \union {c.secret : c \in Card} \union {None}
CardOf == [cert : Holder, secret : Holder]
File == [dir : BOOLEAN, meta : CardOf \union {None}, creds : CardOf \union {None}]
CardCall == [kind : Store!Kind, name : Name, card : CardOf \union {None}]
CardStep == {"new", "import", "export", "connect", "list", "delete", "mkdir", "meta", "creds",
             "identity", "extract", "putback", "login", "connected", "deployed", "done",
             "rejected", "dead"}

\* How the cards are used: one of the ways that are allowed for.
Used == use \in Uses

CardTypes ==
    /\ files \in [Name -> File]
    /\ keys \in [Name -> Holder]
    /\ cardOp \in [Call -> CardCall \union {None}]
    /\ cardStep \in [Call -> CardStep]
    /\ got \in [Call -> File]
    /\ acts \in [Call -> Holder]
    /\ bound \in [Call -> Holder]

\* What a call was made with, by its step.
Importing == {"import", "mkdir", "meta", "creds", "identity"}
KindOf(p) ==
    LET kind == cardOp[p].kind
    IN  /\ cardStep[p] = "new" => /\ cardOp[p] = None
                                  /\ got[p] = Store!Nothing /\ acts[p] = None
        /\ cardStep[p] # "new" => /\ cardOp[p] \in CardCall
                                  /\ kind = "import" => cardOp[p].card \in Card
        /\ cardStep[p] \in {"import", "identity"} => kind = "import"
        /\ cardStep[p] \in {"mkdir", "meta", "creds"} =>
              kind \in {"import", "export"} /\ cardOp[p].card \in CardOf
        /\ cardStep[p] \in {"export", "extract", "putback"} => kind = "export"
        /\ cardStep[p] = "putback" => cardOp[p].card \in CardOf
        /\ cardStep[p] \in {"extract", "login", "putback"} => got[p].meta # None
        /\ cardStep[p] \in {"connect", "login"} => kind = "connect"
        /\ cardStep[p] = "list" => kind = "list"
        /\ cardStep[p] = "delete" => kind = "delete"

\* Those whose cards were imported by a name.
Ours(n) == {c.cert : c \in Store!Imported(n)} \union {c.secret : c \in Store!Imported(n)}
           \union {None}
Known(n, c) == c # None => c.cert \in Ours(n) /\ c.secret \in Ours(n)

OwnName(n) == keys[n] \in Ours(n) /\ Known(n, files[n].meta) /\ Known(n, files[n].creds)
OwnCall(p) ==
    LET n == Store!NameOf(p)
    IN  cardStep[p] # "new" => /\ Known(n, cardOp[p].card)
                               /\ Known(n, got[p].meta) /\ Known(n, got[p].creds)
                               /\ acts[p] \in Ours(n)

CardInv ==
    /\ CardTypes /\ \A p \in Call : KindOf(p)
    /\ \A n \in Name : OwnName(n)
    /\ \A p \in Call : OwnCall(p)

LEMMA CardHolders ==
    ASSUME Store!CardAssumption
    PROVE  /\ Card \subseteq CardOf /\ None \in Holder /\ Store!Nothing \in File
           /\ None \notin Card /\ None \notin CardCall
           /\ \A c \in CardOf : c.cert \in Holder /\ c.secret \in Holder
<1>1. \A c \in Card : c = [cert |-> c.cert, secret |-> c.secret]
  BY DEF Store!CardAssumption
<1>2. \A c \in Card : c.cert \in Holder /\ c.secret \in Holder
  BY DEF Holder
<1>3. Card \subseteq CardOf
  BY <1>1, <1>2 DEF CardOf
<1>4. None \in Holder /\ Store!Nothing \in File
  BY DEF Holder, File, Store!Nothing
<1>5. None \notin CardCall
  BY DEF CardCall, CardOf, Holder, Store!Certificate, Store!CardAssumption
<1>6. None \notin Card
  BY DEF Store!CardAssumption
<1> QED BY <1>3, <1>4, <1>5, <1>6 DEF CardOf

LEMMA KindsUsed ==
    ASSUME Store!CardAssumption, Used
    PROVE  use.kinds \subseteq Store!Kind
BY DEF Used, Store!CardAssumption

LEMMA UseKept ==
    ASSUME [Store!Next]_(Store!vars)
    PROVE  use' = use
BY DEF Store!Next, Store!vars

LEMMA CardInit ==
    ASSUME Store!CardAssumption
    PROVE  Store!Init => CardInv
<1> SUFFICES ASSUME Store!Init PROVE CardInv  OBVIOUS
<1>1. CardTypes
  BY CardHolders DEF Store!Init, CardTypes, CardStep
<1>2. \A p \in Call : KindOf(p) /\ OwnCall(p)
  BY DEF Store!Init, KindOf, OwnCall
<1>3. \A n \in Name : OwnName(n)
  BY DEF Store!Init, OwnName, Known, Ours, Store!Nothing
<1> QED BY <1>1, <1>2, <1>3 DEF CardInv

\* The cards that were imported by a name stay those, and so do their holders.
Lasting ==
    \A q \in Call : cardOp[q] # None /\ cardOp[q].kind = "import" => cardOp'[q] = cardOp[q]

LEMMA HoldersStay ==
    ASSUME Lasting, NEW n
    PROVE  /\ Store!Imported(n) \subseteq Store!Imported(n)'
           /\ Ours(n) \subseteq Ours(n)' /\ \A c : Known(n, c) => Known(n, c)'
<1>1. Store!Imported(n) \subseteq Store!Imported(n)'
  BY DEF Lasting, Store!Imported, Store!NameOf
<1>2. Ours(n) \subseteq Ours(n)'
  BY <1>1 DEF Ours
<1> QED BY <1>1, <1>2 DEF Known

\* A step of p changes what is p's and what has the name that it was called with.
LEMMA OwnFrame ==
    ASSUME CardInv, Lasting, CardTypes', NEW p \in Call, cardStep'[p] # "new",
           \A q \in Call \ {p} : /\ cardOp'[q] = cardOp[q] /\ cardStep'[q] = cardStep[q]
                                 /\ got'[q] = got[q] /\ acts'[q] = acts[q],
           \A n \in Name : OwnName(n)',
           KindOf(p)', OwnCall(p)'
    PROVE  CardInv'
<1>1. ASSUME NEW q \in Call \ {p} PROVE KindOf(q)' /\ OwnCall(q)'
  <2>1. KindOf(q) /\ OwnCall(q)
    BY DEF CardInv
  <2>2. KindOf(q)'
    BY <2>1 DEF KindOf
  <2>3. Store!NameOf(q)' = Store!NameOf(q)
    BY DEF Store!NameOf
  <2>4. PICK n : n = Store!NameOf(q)
    OBVIOUS
  <2>5. OwnCall(q)'
    BY <2>1, <2>3, <2>4, HoldersStay DEF OwnCall
  <2> QED BY <2>2, <2>5
<1> QED BY <1>1 DEF CardInv

\* Files and keys that are there stay known.
LEMMA OwnNames ==
    ASSUME CardInv, Lasting, UNCHANGED <<files, keys>>
    PROVE  \A n \in Name : OwnName(n)'
<1> SUFFICES ASSUME NEW n \in Name PROVE OwnName(n)'  OBVIOUS
<1> QED BY HoldersStay DEF CardInv, OwnName

LEMMA CardBegin ==
    ASSUME Store!CardAssumption, CardInv, NEW p \in Call, NEW n \in Name, NEW k \in Store!Kind,
           NEW c \in Card \union {None}, k = "import" => c \in Card, k # "import" => c = None,
           Store!Begin(p, k, n, c)
    PROVE  CardInv'
<1> DEFINE made == [kind |-> k, name |-> n, card |-> c]
<1>1. /\ cardStep[p] = "new" /\ cardOp[p] = None /\ got[p] = Store!Nothing /\ acts[p] = None
  BY DEF CardInv, KindOf, Store!Begin
<1>2. made \in CardCall /\ k \in CardStep
  BY CardHolders DEF CardCall, CardStep, Store!Kind
<1>3. /\ cardOp' = [cardOp EXCEPT ![p] = made] /\ cardStep' = [cardStep EXCEPT ![p] = k]
      /\ UNCHANGED <<files, keys, got, acts, bound>>
  BY DEF Store!Begin, Store!Goto
<1>4. CardTypes' /\ cardOp'[p] = made /\ cardStep'[p] = k
  BY <1>2, <1>3 DEF CardInv, CardTypes
<1>5. Lasting
  BY <1>1, <1>3 DEF CardInv, CardTypes, Lasting
<1>6. k \in {"import", "delete", "export", "connect", "list"}
  BY DEF Store!Kind
<1>7. KindOf(p)'
  <2> HIDE DEF made
  <2>1. made.kind = k /\ made.card = c
    BY DEF made
  <2> QED BY <1>2, <1>4, <1>6, <2>1 DEF KindOf
<1>8. OwnCall(p)'
  <2>1. made.kind = k /\ made.card = c /\ made.name = n
    OBVIOUS
  <2>2. made # None
    BY <1>2, CardHolders
  <2> HIDE DEF made
  <2>3. k = "import" => c \in Store!Imported(n)'
    BY <1>4, <2>1, <2>2 DEF Store!Imported, Store!NameOf
  <2>4. Known(n, c)'
    BY <2>3 DEF Known, Ours
  <2>5. Store!NameOf(p)' = n
    BY <1>4, <2>1 DEF Store!NameOf
  <2>6. got'[p] = Store!Nothing /\ acts'[p] = None
    BY <1>1, <1>3
  <2>7. None \in Ours(n)'
    BY DEF Ours
  <2> QED BY <1>4, <2>1, <2>4, <2>5, <2>6, <2>7 DEF OwnCall, Known, Store!Nothing
<1>9. cardStep'[p] # "new"
  BY <1>4, <1>6
<1>10. \A q \in Call \ {p} : /\ cardOp'[q] = cardOp[q] /\ cardStep'[q] = cardStep[q]
                             /\ got'[q] = got[q] /\ acts'[q] = acts[q]
  BY <1>3 DEF CardInv, CardTypes
<1>11. \A m \in Name : OwnName(m)'
  BY <1>3, <1>5, OwnNames
<1> QED BY <1>4, <1>5, <1>7, <1>8, <1>9, <1>10, <1>11, OwnFrame

\* A step that moves p, and leaves what it was called with.
LEMMA CardMove ==
    ASSUME CardInv, NEW p \in Call, cardStep[p] # "new", NEW s \in CardStep \ {"new"},
           Store!Goto(p, s), cardOp' = cardOp, got' = got, acts' = acts, CardTypes',
           \A n \in Name : OwnName(n)', KindOf(p)'
    PROVE  CardInv'
<1>1. cardStep' = [cardStep EXCEPT ![p] = s]
  BY DEF Store!Goto
<1>2. cardStep'[p] = s /\ \A q \in Call \ {p} : cardStep'[q] = cardStep[q]
  BY <1>1 DEF CardInv, CardTypes
<1>3. Lasting
  BY DEF Lasting
<1>4. OwnCall(p)'
  <2>1. PICK n : n = Store!NameOf(p)
    OBVIOUS
  <2>2. Store!NameOf(p)' = n
    BY <2>1 DEF Store!NameOf
  <2>3. OwnCall(p)
    BY DEF CardInv
  <2> QED BY <1>3, <2>1, <2>2, <2>3, HoldersStay DEF OwnCall
<1> QED BY <1>2, <1>3, <1>4, OwnFrame

\* Steps that leave the files and the keys, too.
LEMMA CardLook ==
    ASSUME Store!CardAssumption, CardInv, NEW p \in Call,
           Store!Put(p) \/ Store!List(p) \/ Store!Deploy(p) \/ Store!Die(p)
    PROVE  CardInv'
<1>1. KindOf(p) /\ cardStep[p] \in CardStep
  BY DEF CardInv, CardTypes
<1>2. PICK s : /\ s \in CardStep \ {"new"} /\ Store!Goto(p, s) /\ cardStep[p] # "new"
               /\ s = "mkdir" => cardStep[p] \in {"import", "putback"}
               /\ s \in {"mkdir", "rejected", "done", "deployed", "dead"}
  BY DEF Store!Put, Store!List, Store!Deploy, Store!Die, CardStep, Store!Over
<1>3. cardOp' = cardOp /\ got' = got /\ acts' = acts /\ UNCHANGED <<files, keys>>
  BY DEF Store!Put, Store!List, Store!Deploy, Store!Die
<1>4. bound' \in [Call -> Holder]
  <2>1. bound \in [Call -> Holder] /\ got[p] \in File
    BY DEF CardInv, CardTypes
  <2>2. Store!CertOf(got[p]) \in Holder
    BY <2>1, CardHolders DEF Store!CertOf, File
  <2> QED BY <2>1, <2>2 DEF Store!Put, Store!List, Store!Deploy, Store!Die
<1>5. CardTypes' /\ cardStep'[p] = s
  BY <1>2, <1>3, <1>4 DEF CardInv, CardTypes, Store!Goto
<1>6. \A n \in Name : OwnName(n)'
  BY <1>3, OwnNames DEF Lasting
<1>7. KindOf(p)'
  BY <1>1, <1>2, <1>3, <1>5, CardHolders DEF KindOf
<1> QED BY <1>2, <1>3, <1>5, <1>6, <1>7, CardMove

\* What the name of a call and its card are.
LEMMA CardCalled ==
    ASSUME CardInv, NEW p \in Call, cardStep[p] # "new", NEW n, n = Store!NameOf(p)
    PROVE  /\ n \in Name /\ Known(n, cardOp[p].card) /\ acts[p] \in Ours(n)
           /\ Known(n, got[p].meta) /\ Known(n, got[p].creds)
           /\ OwnName(n) /\ files[n] \in File /\ keys[n] \in Holder
<1>1. cardOp[p] \in CardCall /\ OwnCall(p)
  BY DEF CardInv, KindOf
<1>2. n \in Name
  BY <1>1 DEF CardCall, Store!NameOf
<1> QED BY <1>1, <1>2 DEF CardInv, CardTypes, OwnCall

\* A write to the files or the keys of a name by one of its own calls.
LEMMA CardWrite ==
    ASSUME CardInv, NEW p \in Call, cardStep[p] # "new", NEW s \in CardStep \ {"new"},
           Store!Goto(p, s), UNCHANGED <<cardOp, got, acts, bound>>,
           NEW n, n = Store!NameOf(p),
           NEW f \in File, files' = [files EXCEPT ![n] = f],
           NEW h \in Holder, keys' = [keys EXCEPT ![n] = h],
           Known(n, f.meta), Known(n, f.creds), h \in Ours(n), KindOf(p)'
    PROVE  CardInv'
<1>1. n \in Name
  BY CardCalled
<1>2. CardTypes' /\ files'[n] = f /\ keys'[n] = h
      /\ \A m \in Name \ {n} : files'[m] = files[m] /\ keys'[m] = keys[m]
  BY <1>1 DEF CardInv, CardTypes, Store!Goto
<1>3. Lasting
  BY DEF Lasting
<1>4. ASSUME NEW m \in Name PROVE OwnName(m)'
  <2>1. CASE m = n
    BY <1>2, <1>3, <2>1, HoldersStay DEF OwnName
  <2>2. CASE m # n
    <3>1. OwnName(m) /\ files'[m] = files[m] /\ keys'[m] = keys[m]
      BY <1>2, <2>2 DEF CardInv
    <3> QED BY <1>3, <3>1, HoldersStay DEF OwnName
  <2> QED BY <2>1, <2>2
<1> QED BY <1>2, <1>4, CardMove

LEMMA CardFiles ==
    ASSUME Store!CardAssumption, CardInv, NEW p \in Call,
           Store!MakeDirectory(p) \/ Store!WriteMetadata(p) \/ Store!WriteCredentials(p)
           \/ Store!Delete(p)
    PROVE  CardInv'
<1>1. KindOf(p) /\ cardStep[p] \in CardStep
  BY DEF CardInv, CardTypes
<1>2. PICK s : /\ s \in CardStep \ {"new"} /\ Store!Goto(p, s) /\ cardStep[p] # "new"
               /\ s = "meta" => cardStep[p] = "mkdir"
               /\ s = "creds" => cardStep[p] = "meta"
               /\ s = "identity" => cardOp[p].kind = "import"
               /\ s \in {"meta", "creds", "identity", "done", "rejected"}
  BY <1>1
     DEF Store!MakeDirectory, Store!WriteMetadata, Store!WriteCredentials, Store!Delete,
              CardStep, KindOf
<1>3. UNCHANGED <<keys, cardOp, got, acts, bound>>
  BY DEF Store!MakeDirectory, Store!WriteMetadata, Store!WriteCredentials, Store!Delete
<1>4. PICK n : n = Store!NameOf(p)
  OBVIOUS
<1>5. /\ n \in Name /\ Known(n, cardOp[p].card) /\ OwnName(n)
      /\ files[n] \in File /\ keys[n] \in Holder
  BY <1>2, <1>4, CardCalled
<1>6. cardStep[p] \in {"mkdir", "meta", "creds"} => cardOp[p].card \in CardOf
  BY <1>1 DEF KindOf
<1>7. PICK f : /\ f \in File /\ files' = [files EXCEPT ![n] = f]
               /\ Known(n, f.meta) /\ Known(n, f.creds)
  <2>1. CASE files' = files
    BY <1>5, <2>1 DEF CardInv, CardTypes, OwnName
  <2>2. CASE Store!MakeDirectory(p)
    <3> DEFINE f == [files[n] EXCEPT !.dir = TRUE]
    <3>1. f \in File /\ f.meta = files[n].meta /\ f.creds = files[n].creds
      BY <1>5 DEF File
    <3>2. files' = [files EXCEPT ![n] = f]
      BY <1>4, <2>2 DEF Store!MakeDirectory
    <3> QED BY <1>5, <3>1, <3>2 DEF OwnName
  <2>3. CASE Store!WriteMetadata(p) /\ files' # files
    <3> DEFINE f == [files[n] EXCEPT !.meta = cardOp[p].card]
    <3>1. f \in File /\ f.meta = cardOp[p].card /\ f.creds = files[n].creds
      BY <1>5, <1>6, <2>3 DEF File, Store!WriteMetadata
    <3>2. files' = [files EXCEPT ![n] = f]
      BY <1>4, <2>3 DEF Store!WriteMetadata
    <3> QED BY <1>5, <3>1, <3>2 DEF OwnName
  <2>4. CASE Store!WriteCredentials(p)
    <3>1. PICK c : c = IF cardOp[p].card.cert = None /\ files[n].creds # None
                       THEN files[n].creds ELSE cardOp[p].card
      OBVIOUS
    <3>2. c \in CardOf \union {None} /\ Known(n, c)
      BY <1>5, <1>6, <2>4, <3>1 DEF File, OwnName, Store!WriteCredentials
    <3> DEFINE f == [files[n] EXCEPT !.dir = TRUE, !.creds = c]
    <3>3. f \in File /\ f.meta = files[n].meta /\ f.creds = c
      BY <1>5, <3>2 DEF File
    <3>4. files' = [files EXCEPT ![n] = f]
      BY <1>4, <1>5, <2>4, <3>1 DEF Store!WriteCredentials, CardInv, CardTypes, File
    <3> QED BY <1>5, <3>2, <3>3, <3>4 DEF OwnName
  <2>5. CASE Store!Delete(p) /\ files' # files
    <3>1. files' = [files EXCEPT ![n] = Store!Nothing]
      BY <1>4, <2>5 DEF Store!Delete
    <3>2. Known(n, Store!Nothing.meta) /\ Known(n, Store!Nothing.creds)
      BY DEF Store!Nothing, Known
    <3> QED BY <3>1, <3>2, CardHolders
  <2> QED BY <2>1, <2>2, <2>3, <2>4, <2>5
<1>8. keys' = [keys EXCEPT ![n] = keys[n]] /\ keys[n] \in Ours(n)
  BY <1>3, <1>5 DEF CardInv, CardTypes, OwnName
<1>9. cardStep'[p] = s
  BY <1>2 DEF CardInv, CardTypes, Store!Goto
<1>10. KindOf(p)'
  BY <1>1, <1>2, <1>3, <1>9 DEF KindOf
<1> QED BY <1>2, <1>3, <1>4, <1>5, <1>7, <1>8, <1>10, CardWrite

LEMMA CardImport ==
    ASSUME Store!CardAssumption, CardInv, NEW p \in Call, Store!ImportIdentity(p)
    PROVE  CardInv'
<1>1. KindOf(p) /\ cardStep[p] = "identity"
  BY DEF CardInv, Store!ImportIdentity
<1>2. PICK s : s \in {"done", "rejected"} /\ Store!Goto(p, s)
  BY DEF Store!ImportIdentity
<1>3. UNCHANGED <<files, cardOp, got, acts, bound>>
  BY DEF Store!ImportIdentity
<1>4. PICK n : n = Store!NameOf(p)
  OBVIOUS
<1>5. /\ n \in Name /\ Known(n, cardOp[p].card) /\ OwnName(n)
      /\ files[n] \in File /\ keys[n] \in Holder
  BY <1>1, <1>4, CardCalled
<1>6. cardOp[p].card \in Card /\ cardOp[p].card # None
  BY <1>1, CardHolders DEF KindOf
<1>7. PICK h : h \in Holder /\ keys' = [keys EXCEPT ![n] = h] /\ h \in Ours(n)
  <2>1. CASE keys' = keys
    <3>1. keys' = [keys EXCEPT ![n] = keys[n]]
      BY <2>1 DEF CardInv, CardTypes
    <3> QED BY <1>5, <3>1 DEF OwnName
  <2>2. CASE keys' # keys
    <3>1. keys' = [keys EXCEPT ![n] = cardOp[p].card.cert]
      BY <1>4, <1>5, <2>2 DEF Store!ImportIdentity, CardInv, CardTypes
    <3>2. cardOp[p].card.cert \in Holder /\ cardOp[p].card.cert \in Ours(n)
      BY <1>5, <1>6, CardHolders DEF Known
    <3> QED BY <3>1, <3>2
  <2> QED BY <2>1, <2>2
<1>8. files' = [files EXCEPT ![n] = files[n]] /\ Known(n, files[n].meta)
      /\ Known(n, files[n].creds)
  BY <1>3, <1>5 DEF CardInv, CardTypes, OwnName
<1>9. cardStep'[p] = s
  BY <1>2 DEF CardInv, CardTypes, Store!Goto
<1>10. KindOf(p)'
  BY <1>1, <1>2, <1>3, <1>9 DEF KindOf
<1>11. s \in CardStep \ {"new"} /\ cardStep[p] # "new"
  BY <1>1, <1>2 DEF CardStep
<1> QED BY <1>2, <1>3, <1>4, <1>5, <1>7, <1>8, <1>10, <1>11, CardWrite

\* A step that reads, or acts on what was read.
LEMMA CardRead ==
    ASSUME Store!CardAssumption, CardInv, NEW p \in Call,
           Store!Get(p) \/ Store!Extract(p) \/ Store!Login(p)
    PROVE  CardInv'
<1>1. KindOf(p) /\ OwnCall(p) /\ cardStep[p] \in CardStep /\ got[p] \in File
      /\ acts[p] \in Holder
  BY DEF CardInv, CardTypes
<1>2. PICK s : /\ s \in CardStep \ {"new"} /\ Store!Goto(p, s) /\ cardStep[p] # "new"
               /\ s = "extract" => cardStep[p] = "export"
               /\ s = "login" => cardStep[p] = "connect"
               /\ s = "putback" => Store!Extract(p)
               /\ s \in {"extract", "login", "putback", "done", "rejected", "connected"}
  BY <1>1 DEF Store!Get, Store!Extract, Store!Login, CardStep
<1>3. UNCHANGED <<files, bound>>
  BY DEF Store!Get, Store!Extract, Store!Login
<1>4. PICK n : n = Store!NameOf(p)
  OBVIOUS
<1>5. /\ n \in Name /\ Known(n, cardOp[p].card) /\ acts[p] \in Ours(n)
      /\ Known(n, got[p].meta) /\ Known(n, got[p].creds)
      /\ OwnName(n) /\ files[n] \in File /\ keys[n] \in Holder
  BY <1>2, <1>4, CardCalled
<1>6. None \in Ours(n)
  BY DEF Ours
\* The secret of what was read.
<1>7. got[p].meta # None =>
         Store!SecretOf(got[p]) \in Holder /\ Store!SecretOf(got[p]) \in Ours(n)
  BY <1>1, <1>5, CardHolders DEF Store!SecretOf, File, Known
<1> DEFINE Reads(made, f, a, h) ==
         /\ made \in CardCall /\ f \in File /\ a \in Holder /\ h \in Holder
         /\ cardOp' = [cardOp EXCEPT ![p] = made] /\ got' = [got EXCEPT ![p] = f]
         /\ acts' = [acts EXCEPT ![p] = a] /\ keys' = [keys EXCEPT ![n] = h]
         /\ Known(n, made.card) /\ Known(n, f.meta) /\ Known(n, f.creds)
         /\ a \in Ours(n) /\ h \in Ours(n)
         /\ made.kind = cardOp[p].kind /\ made.name = n
         /\ cardOp[p].kind = "import" => made = cardOp[p]
         /\ s \in {"extract", "login", "putback"} => f.meta # None
         /\ s = "putback" => made.card \in CardOf
<1>8. \E made, f, a, h : Reads(made, f, a, h)
  <2>0. /\ cardOp[p] \in CardCall /\ cardOp[p].name = n
        /\ cardOp = [cardOp EXCEPT ![p] = cardOp[p]] /\ got = [got EXCEPT ![p] = got[p]]
        /\ acts = [acts EXCEPT ![p] = acts[p]] /\ keys = [keys EXCEPT ![n] = keys[n]]
        /\ keys[n] \in Ours(n)
    BY <1>1, <1>2, <1>4, <1>5 DEF CardInv, CardTypes, KindOf, Store!NameOf, OwnName
  <2>1. CASE Store!Get(p)
    <3>1. PICK f : f = IF files[n].meta = None THEN got[p] ELSE files[n]
      OBVIOUS
    <3>2. f \in File /\ Known(n, f.meta) /\ Known(n, f.creds)
      BY <1>1, <1>5, <3>1 DEF OwnName
    <3>3. /\ cardOp' = cardOp /\ acts' = acts /\ keys' = keys
          /\ got' = [got EXCEPT ![p] = f] /\ s # "putback"
          /\ s \in {"extract", "login"} => f.meta # None
      BY <1>2, <1>4, <2>0, <2>1, <3>1 DEF Store!Get, Store!Goto, CardInv, CardTypes
    <3>4. Reads(cardOp[p], f, acts[p], keys[n])
      BY <1>1, <1>5, <2>0, <3>2, <3>3
    <3> QED BY <3>4
  <2>2. CASE Store!Extract(p) /\ (Store!CertOf(got[p]) # None \/ keys[n] = None)
    <3>1. /\ cardStep[p] = "extract" /\ acts' = acts /\ keys' = keys
          /\ cardOp' = cardOp /\ got' = got /\ s # "putback"
      BY <1>2, <1>4, <2>0, <2>2 DEF Store!Extract, Store!Goto, CardInv, CardTypes
    <3>2. got[p].meta # None
      BY <1>1, <3>1 DEF KindOf
    <3>3. Reads(cardOp[p], got[p], acts[p], keys[n])
      BY <1>1, <1>5, <2>0, <3>1, <3>2
    <3> QED BY <3>3
  <2>3. CASE Store!Extract(p) /\ ~(Store!CertOf(got[p]) # None \/ keys[n] = None)
    <3> DEFINE full == [cert |-> keys[n], secret |-> Store!SecretOf(got[p])]
               f == [got[p] EXCEPT !.creds = full]
               made == [cardOp[p] EXCEPT !.card = full]
    <3>1. /\ cardStep[p] = "extract" /\ acts' = acts /\ keys' = keys
          /\ got' = [got EXCEPT ![p] = f] /\ cardOp' = [cardOp EXCEPT ![p] = made]
      BY <1>4, <2>3 DEF Store!Extract
    <3>2. got[p].meta # None /\ cardOp[p].kind = "export"
      BY <1>1, <3>1 DEF KindOf
    <3>3. full \in CardOf /\ Known(n, full)
      BY <1>5, <1>7, <2>0, <3>2 DEF CardOf, Known
    <3>4. f \in File /\ f.meta = got[p].meta /\ f.creds = full
      BY <1>1, <3>3 DEF File
    <3>5. made \in CardCall /\ made.card = full /\ made.kind = "export" /\ made.name = n
      BY <2>0, <3>2, <3>3 DEF CardCall
    <3> HIDE DEF full, f, made
    <3>6. Reads(made, f, acts[p], keys[n])
      BY <1>1, <1>5, <2>0, <3>1, <3>2, <3>3, <3>4, <3>5
    <3> QED BY <3>6
  <2>4. CASE Store!Login(p)
    <3>1. cardStep[p] = "login" /\ cardOp' = cardOp /\ got' = got
      BY <2>4 DEF Store!Login
    <3>2. got[p].meta # None
      BY <1>1, <3>1 DEF KindOf
    <3>3. PICK h : h = IF keys[n] # None THEN keys[n] ELSE Store!SecretOf(got[p])
      OBVIOUS
    <3>4. h \in Holder /\ h \in Ours(n)
      BY <1>5, <1>7, <2>0, <3>2, <3>3
    <3>5. \/ acts' = acts /\ keys' = keys
          \/ acts' = [acts EXCEPT ![p] = h] /\ keys' = [keys EXCEPT ![n] = h]
      BY <1>4, <2>4, <3>3 DEF Store!Login
    <3>6. s # "putback"
      BY <1>2, <2>4, <2>0 DEF Store!Login, Store!Goto, CardInv, CardTypes
    <3>7. CASE acts' = acts /\ keys' = keys
      <4>1. Reads(cardOp[p], got[p], acts[p], keys[n])
        BY <1>1, <1>5, <2>0, <3>1, <3>2, <3>6, <3>7
      <4> QED BY <4>1
    <3>8. CASE acts' = [acts EXCEPT ![p] = h] /\ keys' = [keys EXCEPT ![n] = h]
      <4>1. Reads(cardOp[p], got[p], h, h)
        BY <1>1, <1>5, <2>0, <3>1, <3>2, <3>4, <3>6, <3>8
      <4> QED BY <4>1
    <3> QED BY <3>5, <3>7, <3>8
  <2> QED BY <2>1, <2>2, <2>3, <2>4
<1>9. PICK made, f, a, h : Reads(made, f, a, h)
  BY <1>8
<1>10. cardStep' = [cardStep EXCEPT ![p] = s]
  BY <1>2 DEF Store!Goto
<1>11. /\ CardTypes' /\ cardOp'[p] = made /\ got'[p] = f /\ acts'[p] = a /\ cardStep'[p] = s
       /\ keys'[n] = h /\ \A m \in Name \ {n} : keys'[m] = keys[m]
  BY <1>2, <1>3, <1>5, <1>9, <1>10 DEF CardInv, CardTypes
<1>12. \A q \in Call \ {p} : /\ cardOp'[q] = cardOp[q] /\ cardStep'[q] = cardStep[q]
                             /\ got'[q] = got[q] /\ acts'[q] = acts[q]
  BY <1>9, <1>10 DEF CardInv, CardTypes
<1>13. Lasting
  BY <1>9, <1>11, <1>12 DEF Lasting
<1>14. ASSUME NEW m \in Name PROVE OwnName(m)'
  <2>1. OwnName(m) /\ files'[m] = files[m]
    BY <1>3 DEF CardInv
  <2>2. (m = n /\ keys'[m] = h) \/ keys'[m] = keys[m]
    BY <1>11
  <2> QED BY <1>9, <1>13, <2>1, <2>2, HoldersStay DEF OwnName
<1>15. Store!NameOf(p)' = n
  BY <1>9, <1>11 DEF Store!NameOf
<1>16. OwnCall(p)'
  BY <1>9, <1>11, <1>13, <1>15, HoldersStay DEF OwnCall
<1>17. KindOf(p)'
  <2>1. made.kind = "import" => made.card \in Card
    BY <1>1, <1>2, <1>9 DEF KindOf
  <2>2. s = "putback" => cardOp[p].kind = "export"
    BY <1>1, <1>2 DEF KindOf, Store!Extract
  <2> QED BY <1>1, <1>2, <1>9, <1>11, <2>1, <2>2 DEF KindOf
<1> QED BY <1>2, <1>11, <1>12, <1>13, <1>14, <1>16, <1>17, OwnFrame

LEMMA CardNext ==
    ASSUME Store!CardAssumption, Used
    PROVE  CardInv /\ [Store!Next]_(Store!vars) => CardInv'
<1> SUFFICES ASSUME CardInv, [Store!Next]_(Store!vars) PROVE CardInv'  OBVIOUS
<1>1. CASE UNCHANGED Store!vars
  <2>1. UNCHANGED <<files, keys, cardOp, cardStep, got, acts, bound>>
    BY <1>1 DEF Store!vars
  <2>2. CardTypes' /\ Lasting
    BY <2>1 DEF CardInv, CardTypes, Lasting
  <2>3. ASSUME NEW p \in Call PROVE KindOf(p)' /\ OwnCall(p)'
    <3>1. KindOf(p) /\ OwnCall(p)
      BY DEF CardInv
    <3>2. Store!NameOf(p)' = Store!NameOf(p)
      BY <2>1 DEF Store!NameOf
    <3>3. PICK n : n = Store!NameOf(p)
      OBVIOUS
    <3> QED BY <2>1, <2>2, <3>1, <3>2, <3>3, HoldersStay DEF KindOf, OwnCall
  <2> QED BY <2>1, <2>2, <2>3, OwnNames DEF CardInv
<1>2. CASE Store!Next
  <2>1. PICK p \in Call :
           \/ \E n \in Name :
                 \/ \E k \in Store!Kind \ {"import"} : Store!Begin(p, k, n, None)
                 \/ \E c \in Card : Store!Begin(p, "import", n, c)
           \/ Store!Put(p) \/ Store!MakeDirectory(p) \/ Store!WriteMetadata(p)
           \/ Store!WriteCredentials(p) \/ Store!ImportIdentity(p) \/ Store!Delete(p)
           \/ Store!Get(p) \/ Store!List(p) \/ Store!Extract(p) \/ Store!Login(p)
           \/ Store!Deploy(p) \/ Store!Die(p)
    BY <1>2, KindsUsed DEF Store!Next, Store!Step
  <2>2. ASSUME NEW n \in Name, NEW k \in Store!Kind \ {"import"}, Store!Begin(p, k, n, None)
        PROVE  CardInv'
    BY <2>2, CardBegin
  <2>3. ASSUME NEW n \in Name, NEW c \in Card,
               Store!Begin(p, "import", n, c)
        PROVE  CardInv'
    <3>1. "import" \in Store!Kind
      BY DEF Store!Kind
    <3> QED BY <2>3, <3>1, CardBegin
  <2> QED BY <2>1, <2>2, <2>3, CardLook, CardFiles, CardImport, CardRead
<1> QED BY <1>1, <1>2

\* Theorem (CardInvariant): whatever is in the store, the key store and the connections of a
\* card name comes from cards that were imported by that name, with calls that
\* interleave at every file and processes that die (filesystemcardstore.js, put, get,
\* delete; adminconnection.js, importCard, exportCard, connect).
THEOREM CardInvariant == Store!CardAssumption /\ Store!Spec => [](CardInv /\ Used)
<1> SUFFICES ASSUME Store!CardAssumption PROVE Store!Spec => [](CardInv /\ Used)  OBVIOUS
<1>1. Store!Init => CardInv /\ Used
  BY CardInit DEF Store!Init, Used
<1>2. CardInv /\ Used /\ [Store!Next]_(Store!vars) => CardInv' /\ Used'
  BY CardNext, UseKept DEF Used
<1> QED BY <1>1, <1>2, PTL DEF Store!Spec

LEMMA CardOwn == CardInv => Store!OwnIdentity
<1> SUFFICES ASSUME CardInv, NEW p \in Call, acts[p] # None
             PROVE  \E c \in Store!Imported(Store!NameOf(p)) : acts[p] \in {c.cert, c.secret}
  BY DEF Store!OwnIdentity
<1>1. PICK n : n = Store!NameOf(p)
  OBVIOUS
<1>2. cardStep[p] # "new"
  BY DEF CardInv, KindOf
<1>3. acts[p] \in Ours(n)
  BY <1>1, <1>2, CardCalled
<1> QED BY <1>1, <1>3 DEF Ours

\* Theorem (OwnCards): a connection acts for nobody but those whose cards were imported by
\* its name, though the key store of a name outlives its card and mixed or half-written
\* cards are read (adminconnection.js, connect; hlfconnectionmanager.js, importIdentity).
THEOREM OwnCards == Store!CardAssumption /\ Store!Spec => []Store!OwnIdentity
BY CardInvariant, CardOwn, PTL

-----------------------------------------------------------------------------
(* One call at a time, in processes that do not die *)

Active(p) == cardStep[p] \notin Store!Over
One == \A p, q \in Call : Active(p) /\ Active(q) => p = q

\* A card in the store is one that was imported, whole.
Whole(n) == /\ files[n].dir /\ files[n].meta = files[n].creds
            /\ files[n].meta \in Store!Imported(n)
Settled(n) == files[n] = Store!Nothing \/ Whole(n)
Writing(n) == \E p \in Call : cardStep[p] \in {"meta", "creds"} /\ Store!NameOf(p) = n

Half(f, m, c) == f.dir /\ f.meta = m /\ f.creds = c

\* What a call has read and written of its card, by its step.
Halfway(p) ==
    LET f == files[Store!NameOf(p)]
        c == cardOp[p].card
    IN  /\ cardStep[p] \in {"mkdir", "meta", "creds", "identity"} => cardOp[p].kind = "import"
        /\ cardStep[p] = "mkdir" => f = Store!Nothing
        /\ cardStep[p] = "meta" => Half(f, None, None)
        /\ cardStep[p] = "creds" => Half(f, c, None)
        /\ cardStep[p] = "identity" => Half(f, c, c)
        /\ cardStep[p] = "putback" => f.dir
        /\ cardStep[p] \in {"extract", "login"} => got[p] = f

\* What was rejected is no listing, and what was exported can be connected with.
Outcome(p) ==
    /\ cardStep[p] \in {"connected", "deployed"} => cardOp[p].kind = "connect"
    /\ cardStep[p] = "rejected" => cardOp[p].kind # "list"
    /\ cardStep[p] = "done" /\ cardOp[p].kind = "export" => Store!HolderOf(got[p]) # None

\* The certificate in the key store is the holder of the card, if none is deleted.
Importer(n) == \E p \in Call : /\ cardStep[p] \in {"mkdir", "meta", "creds", "identity"}
                               /\ Store!NameOf(p) = n
KeyOf(n) ==
    /\ files[n] = Store!Nothing \/ Importer(n) => keys[n] = None
    /\ ~Importer(n) /\ files[n] # Store!Nothing =>
          /\ keys[n] \in {None, Store!HolderOf(files[n])}
          /\ Store!CertOf(files[n]) # None => keys[n] = Store!CertOf(files[n])
ServedBy(p) ==
    /\ cardStep[p] \in {"connected", "deployed"} => acts[p] = Store!HolderOf(got[p])
    /\ cardStep[p] = "deployed" => bound[p] = acts[p]
    /\ cardStep[p] # "delete"
KeptInv == "delete" \notin use.kinds => (\A n \in Name : KeyOf(n)) /\ (\A p \in Call : ServedBy(p))

SerialCardInv ==
    /\ CardInv /\ One
    /\ \A n \in Name : Settled(n) \/ Writing(n)
    /\ \A p \in Call : Halfway(p) /\ Outcome(p)

OneByOne == Store!CardAssumption /\ Used /\ use.serial /\ ~use.faults

LEMMA SerialCardInit ==
    ASSUME OneByOne
    PROVE  Store!Init => SerialCardInv /\ KeptInv
<1> SUFFICES ASSUME Store!Init PROVE SerialCardInv /\ KeptInv  OBVIOUS
<1>1. CardInv
  BY CardInit DEF OneByOne
<1>2. \A p \in Call : cardStep[p] = "new"
  BY DEF Store!Init
<1>3. \A n \in Name : Settled(n) /\ ~Importer(n) /\ keys[n] = None /\ files[n] = Store!Nothing
  BY <1>2 DEF Store!Init, Settled, Importer
<1>4. One
  BY <1>2 DEF One, Active, Store!Over
<1>5. \A p \in Call : Halfway(p) /\ Outcome(p) /\ ServedBy(p)
  BY <1>2 DEF Halfway, Outcome, ServedBy
<1>6. \A n \in Name : KeyOf(n)
  BY <1>3 DEF KeyOf
<1> QED BY <1>1, <1>3, <1>4, <1>5, <1>6 DEF SerialCardInv, KeptInv

\* While a call is active no other is, and what has another name is whole.
LEMMA ActsAlone ==
    ASSUME SerialCardInv, NEW p \in Call, Active(p)
    PROVE  /\ \A q \in Call \ {p} : ~Active(q)
           /\ \A m \in Name : m # Store!NameOf(p) => Settled(m) /\ ~Importer(m)
           /\ cardStep[p] \notin {"meta", "creds"} => \A m \in Name : Settled(m)
<1>1. \A q \in Call \ {p} : cardStep[q] \in Store!Over
  BY DEF SerialCardInv, One, Active
<1>2. \A m : Writing(m) => Store!NameOf(p) = m /\ cardStep[p] \in {"meta", "creds"}
  BY <1>1 DEF Writing, Store!Over
<1>3. \A m : Importer(m) => Store!NameOf(p) = m
  BY <1>1 DEF Importer, Store!Over
<1> QED BY <1>1, <1>2, <1>3 DEF SerialCardInv, Active

\* A whole card has a holder.
LEMMA WholeHolder ==
    ASSUME Store!CardAssumption, CardInv, NEW n \in Name, Whole(n)
    PROVE  /\ files[n].meta \in Card /\ files[n].meta # None
           /\ Store!HolderOf(files[n]) # None
           /\ Store!CertOf(files[n]) # None \/ Store!SecretOf(files[n]) = Store!HolderOf(files[n])
<1>1. PICK q \in Call : /\ cardOp[q] # None /\ cardOp[q].kind = "import"
                        /\ files[n].meta = cardOp[q].card
  BY DEF Whole, Store!Imported
<1>2. files[n].meta \in Card
  BY <1>1 DEF CardInv, KindOf
<1>3. files[n].meta # None
  BY <1>2, CardHolders
<1>4. files[n].meta.cert # None \/ files[n].meta.secret # None
  BY <1>2 DEF Store!CardAssumption
<1> QED BY <1>2, <1>3, <1>4 DEF Whole, Store!HolderOf, Store!CertOf, Store!SecretOf

\* A step of an active call keeps what has another name, and the other calls.
LEMMA SerialFrame ==
    ASSUME SerialCardInv, CardInv', NEW p \in Call, \A q \in Call \ {p} : ~Active(q),
           \A q \in Call \ {p} : /\ cardOp'[q] = cardOp[q] /\ cardStep'[q] = cardStep[q]
                                 /\ got'[q] = got[q],
           Lasting, NEW n, n = Store!NameOf(p)',
           \A m \in Name \ {n} : Settled(m) /\ files'[m] = files[m],
           Settled(n)' \/ cardStep'[p] \in {"meta", "creds"},
           Halfway(p)', Outcome(p)'
    PROVE  SerialCardInv'
<1>1. \A q \in Call \ {p} : cardStep[q] \in Store!Over /\ cardStep'[q] \in Store!Over
  BY DEF Active
<1>2. One'
  BY <1>1 DEF One, Active, Store!Over
<1>3. ASSUME NEW m \in Name PROVE Settled(m)' \/ Writing(m)'
  <2>1. CASE m = n
    <3>1. cardStep'[p] \in {"meta", "creds"} => Writing(m)'
      BY <2>1 DEF Writing
    <3> QED BY <2>1, <3>1
  <2>2. CASE m # n
    <3>1. Settled(m) /\ files'[m] = files[m]
      BY <2>2
    <3> QED BY <3>1, HoldersStay DEF Settled, Whole, Store!Nothing
  <2> QED BY <2>1, <2>2
<1>4. ASSUME NEW q \in Call PROVE Halfway(q)' /\ Outcome(q)'
  <2>1. CASE q = p
    BY <2>1
  <2>2. CASE q # p
    <3>1. Halfway(q)'
      BY <1>1, <2>2 DEF Halfway, Store!Over
    <3>2. Outcome(q)
      BY DEF SerialCardInv
    <3> QED BY <2>2, <3>1, <3>2 DEF Outcome
  <2> QED BY <2>1, <2>2
<1> QED BY <1>2, <1>3, <1>4 DEF SerialCardInv

LEMMA SerialBegin ==
    ASSUME OneByOne, SerialCardInv, CardInv', NEW p \in Call, NEW n \in Name,
           NEW k \in Store!Kind,
           NEW c, Store!Begin(p, k, n, c)
    PROVE  SerialCardInv'
<1>1. /\ cardStep[p] = "new" /\ \A q \in Call : ~Active(q)
      /\ cardOp' = [cardOp EXCEPT ![p] = [kind |-> k, name |-> n, card |-> c]]
      /\ cardStep' = [cardStep EXCEPT ![p] = k] /\ UNCHANGED <<files, got>>
  BY DEF Store!Begin, Store!Goto, Store!Idle, OneByOne, Active
<1>2. cardOp[p] = None /\ CardTypes
  BY <1>1 DEF SerialCardInv, CardInv, KindOf
<1>3. /\ cardOp'[p] = [kind |-> k, name |-> n, card |-> c] /\ cardStep'[p] = k
      /\ \A q \in Call \ {p} : cardOp'[q] = cardOp[q] /\ cardStep'[q] = cardStep[q]
  BY <1>1, <1>2 DEF CardTypes
<1>4. Lasting
  BY <1>2, <1>3 DEF Lasting
<1>5. \A m \in Name : Settled(m)
  BY <1>1 DEF SerialCardInv, Writing, Active, Store!Over
<1>6. Settled(n)'
  BY <1>1, <1>4, <1>5, HoldersStay DEF Settled, Whole, Store!Nothing
<1>7. Store!NameOf(p)' = n
  BY <1>3 DEF Store!NameOf
<1>8. k \in {"import", "delete", "export", "connect", "list"}
  BY DEF Store!Kind
<1>9. Halfway(p)' /\ Outcome(p)'
  BY <1>3, <1>8 DEF Halfway, Outcome
<1> QED BY <1>1, <1>3, <1>4, <1>5, <1>6, <1>7, <1>9, SerialFrame

\* What is known of an active call, and what SerialFrame needs when it keeps its call.
LEMMA SerialCalled ==
    ASSUME OneByOne, SerialCardInv, NEW p \in Call, Active(p), NEW n, n = Store!NameOf(p)
    PROVE  /\ n \in Name /\ files[n] \in File /\ KindOf(p) /\ Halfway(p) /\ CardTypes
           /\ cardStep[p] \notin {"meta", "creds"} => Settled(n)
           /\ Whole(n) => files[n].meta # None
<1>1. cardStep[p] # "new"
  BY DEF Active, Store!Over
<1>2. n \in Name /\ files[n] \in File
  BY <1>1, CardCalled DEF SerialCardInv
<1>3. KindOf(p) /\ Halfway(p) /\ CardTypes
  BY DEF SerialCardInv, CardInv
<1> QED BY <1>2, <1>3, ActsAlone, WholeHolder DEF SerialCardInv, OneByOne

LEMMA SerialStep ==
    ASSUME OneByOne, SerialCardInv, CardInv', NEW p \in Call, Active(p), NEW s,
           Store!Goto(p, s), UNCHANGED <<cardOp, got>>, NEW n, n = Store!NameOf(p),
           \A m \in Name \ {n} : files'[m] = files[m],
           Settled(n)' \/ s \in {"meta", "creds"}, Halfway(p)', Outcome(p)'
    PROVE  SerialCardInv'
<1>1. CardTypes
  BY SerialCalled
<1>2. cardStep'[p] = s /\ \A q \in Call \ {p} : cardStep'[q] = cardStep[q]
  BY <1>1 DEF CardTypes, Store!Goto
<1>3. Lasting /\ n = Store!NameOf(p)'
  BY DEF Lasting, Store!NameOf
<1> QED BY <1>2, <1>3, ActsAlone, SerialFrame

\* Steps that leave the files and what was read.
LEMMA SerialLook ==
    ASSUME OneByOne, SerialCardInv, CardInv', NEW p \in Call,
           Store!Put(p) \/ Store!List(p) \/ Store!ImportIdentity(p) \/ Store!Login(p)
    PROVE  SerialCardInv'
<1>1. Active(p) /\ UNCHANGED <<files, cardOp, got>>
  BY DEF Store!Put, Store!List, Store!ImportIdentity, Store!Login, Active, Store!Over
<1>2. PICK n : n = Store!NameOf(p)
  OBVIOUS
<1>3. n \in Name /\ files[n] \in File /\ KindOf(p) /\ Halfway(p) /\ CardTypes
  BY <1>1, <1>2, SerialCalled
<1>4. \A m \in Name : Settled(m)
  BY <1>1, ActsAlone DEF Store!Put, Store!List, Store!ImportIdentity, Store!Login
<1>5. \A m \in Name : files[m].dir => files[m].meta # None
  BY <1>4, WholeHolder DEF SerialCardInv, OneByOne, Settled, Store!Nothing
<1>6. PICK s : /\ Store!Goto(p, s) /\ s \in {"mkdir", "rejected", "done", "connected"}
               /\ s = "mkdir" => cardStep[p] \in {"import", "putback"} /\ ~files[n].dir
               /\ s = "rejected" => cardStep[p] \in {"import", "putback", "login"}
               /\ s = "done" => cardStep[p] \in {"list", "identity"}
               /\ s = "connected" => cardStep[p] = "login"
  BY <1>2, <1>5 DEF Store!Put, Store!List, Store!ImportIdentity, Store!Login, OneByOne
<1>7. cardStep'[p] = s
  BY <1>3, <1>6 DEF CardTypes, Store!Goto
<1>8. cardOp'[p] = cardOp[p] /\ Store!NameOf(p)' = n /\ files'[n] = files[n]
  BY <1>1, <1>2 DEF Store!NameOf
<1>9. s = "mkdir" => cardOp[p].kind = "import" /\ files[n] = Store!Nothing
  <2>1. s = "mkdir" => cardStep[p] = "import"
    BY <1>2, <1>3, <1>6 DEF Halfway
  <2> QED BY <1>3, <1>4, <1>6, <2>1 DEF KindOf, Settled, Whole
<1>10. Halfway(p)'
  BY <1>6, <1>7, <1>8, <1>9 DEF Halfway, Store!Nothing
<1>11. Outcome(p)'
  BY <1>3, <1>6, <1>7, <1>8 DEF Outcome, KindOf, Halfway
<1>12. Settled(n)'
  BY <1>1, <1>3, <1>4, HoldersStay DEF Settled, Whole, Store!Nothing, Lasting
<1> QED BY <1>1, <1>2, <1>6, <1>10, <1>11, <1>12, SerialStep

LEMMA SerialFiles ==
    ASSUME OneByOne, SerialCardInv, CardInv', NEW p \in Call,
           Store!MakeDirectory(p) \/ Store!WriteMetadata(p) \/ Store!WriteCredentials(p)
           \/ Store!Delete(p)
    PROVE  SerialCardInv'
<1>1. Active(p) /\ UNCHANGED <<cardOp, got>>
  BY DEF Store!MakeDirectory, Store!WriteMetadata, Store!WriteCredentials, Store!Delete,
         Active, Store!Over
<1>2. PICK n : n = Store!NameOf(p)
  OBVIOUS
<1>3. n \in Name /\ files[n] \in File /\ KindOf(p) /\ Halfway(p) /\ CardTypes
  BY <1>1, <1>2, SerialCalled
<1>4. cardOp'[p] = cardOp[p] /\ Store!NameOf(p)' = n
  BY <1>1, <1>2 DEF Store!NameOf
<1>5. \A m \in Name \ {n} : files'[m] = files[m]
  BY <1>2, <1>3 DEF Store!MakeDirectory, Store!WriteMetadata, Store!WriteCredentials,
                    Store!Delete, CardTypes
<1>6. ASSUME NEW s, Store!Goto(p, s) PROVE cardStep'[p] = s
  BY <1>3, <1>6 DEF CardTypes, Store!Goto
<1>7. PICK c : c = cardOp[p].card
  OBVIOUS
<1>8. CASE Store!MakeDirectory(p)
  <2>1. cardStep[p] = "mkdir" /\ Store!Goto(p, "meta")
    BY <1>8 DEF Store!MakeDirectory
  <2>2. files[n] = Store!Nothing /\ cardOp[p].kind = "import"
    BY <1>2, <1>3, <2>1 DEF Halfway
  <2>3. Half(files'[n], None, None)
    <3>1. files'[n] = [files[n] EXCEPT !.dir = TRUE]
      BY <1>2, <1>3, <1>8 DEF Store!MakeDirectory, CardTypes
    <3> QED BY <1>3, <2>2, <3>1 DEF Store!Nothing, File, Half
  <2>4. Halfway(p)' /\ Outcome(p)'
    BY <1>4, <1>6, <2>1, <2>2, <2>3 DEF Halfway, Outcome
  <2> QED BY <1>1, <1>2, <1>5, <2>1, <2>4, SerialStep
<1>9. CASE Store!WriteMetadata(p)
  <2>1. cardStep[p] = "meta"
    BY <1>9 DEF Store!WriteMetadata
  <2>2. Half(files[n], None, None) /\ cardOp[p].kind = "import"
    BY <1>2, <1>3, <2>1 DEF Halfway
  <2>3. Store!Goto(p, "creds") /\ files' = [files EXCEPT ![n].meta = c]
    <3>1. files[n].dir
      BY <2>2 DEF Half
    <3> QED BY <1>2, <1>7, <1>9, <3>1 DEF Store!WriteMetadata
  <2>4. Half(files'[n], c, None)
    <3>1. files'[n] = [files[n] EXCEPT !.meta = c]
      BY <1>3, <2>3 DEF CardTypes
    <3> QED BY <1>3, <2>2, <3>1 DEF File, Half
  <2>5. Halfway(p)' /\ Outcome(p)'
    BY <1>4, <1>6, <1>7, <2>2, <2>3, <2>4 DEF Halfway, Outcome
  <2> QED BY <1>1, <1>2, <1>5, <2>3, <2>5, SerialStep
<1>10. CASE Store!WriteCredentials(p)
  <2>1. cardStep[p] = "creds"
    BY <1>10 DEF Store!WriteCredentials
  <2>2. Half(files[n], c, None) /\ cardOp[p].kind = "import"
    BY <1>2, <1>3, <1>7, <2>1 DEF Halfway
  <2>3. Store!Goto(p, "identity")
    BY <1>10, <2>2 DEF Store!WriteCredentials
  <2>4. Half(files'[n], c, c)
    <3>1. files[n].creds = None
      BY <2>2 DEF Half
    <3>2. files' = [files EXCEPT ![n].dir = TRUE, ![n].creds = c]
      BY <1>2, <1>7, <1>10, <3>1 DEF Store!WriteCredentials
    <3>3. files'[n] = [files[n] EXCEPT !.dir = TRUE, !.creds = c]
      BY <1>3, <3>2 DEF CardTypes
    <3> QED BY <1>3, <2>2, <3>3 DEF File, Half
  <2>5. Halfway(p)' /\ Outcome(p)'
    BY <1>4, <1>6, <1>7, <2>2, <2>3, <2>4 DEF Halfway, Outcome
  <2>6. c \in Store!Imported(n)'
    <3>1. cardOp[p] \in CardCall /\ c \in Card
      BY <1>3, <1>7, <2>1, <2>2 DEF KindOf
    <3>2. cardOp[p] # None
      BY <3>1, CardHolders DEF OneByOne
    <3> QED BY <1>4, <1>7, <2>2, <3>2 DEF Store!Imported
  <2>7. Settled(n)'
    BY <2>4, <2>6 DEF Settled, Whole, Half
  <2> QED BY <1>1, <1>2, <1>5, <2>3, <2>5, <2>7, SerialStep
<1>11. CASE Store!Delete(p)
  <2>1. cardStep[p] = "delete"
    BY <1>11 DEF Store!Delete
  <2>2. cardOp[p].kind = "delete" /\ Settled(n)
    BY <1>1, <1>2, <1>3, <2>1, SerialCalled DEF KindOf
  <2>3. PICK s : s \in {"done", "rejected"} /\ Store!Goto(p, s)
    BY <1>11 DEF Store!Delete
  <2>4. files'[n] = Store!Nothing
    BY <1>2, <1>3, <1>11, <2>2 DEF Store!Delete, CardTypes, Settled, Whole
  <2>5. Halfway(p)' /\ Outcome(p)'
    BY <1>4, <1>6, <2>2, <2>3 DEF Halfway, Outcome
  <2>6. Settled(n)'
    BY <2>4 DEF Settled, Store!Nothing
  <2> QED BY <1>1, <1>2, <1>5, <2>3, <2>5, <2>6, SerialStep
<1> QED BY <1>8, <1>9, <1>10, <1>11

LEMMA SerialGet ==
    ASSUME OneByOne, SerialCardInv, CardInv', NEW p \in Call, Store!Get(p)
    PROVE  SerialCardInv'
<1>1. Active(p) /\ cardStep[p] \in {"export", "connect"} /\ UNCHANGED <<files, cardOp>>
  BY DEF Store!Get, Active, Store!Over
<1>2. PICK n : n = Store!NameOf(p)
  OBVIOUS
<1>3. n \in Name /\ KindOf(p) /\ CardTypes /\ Settled(n)
  BY <1>1, <1>2, SerialCalled
<1>4. PICK s : /\ cardStep' = [cardStep EXCEPT ![p] = s]
               /\ s \in {"extract", "login", "rejected"}
               /\ s = "rejected" => got' = got
               /\ s # "rejected" => got' = [got EXCEPT ![p] = files[n]]
  BY <1>2 DEF Store!Get, Store!Goto
<1>5. /\ cardStep'[p] = s /\ cardOp'[p] = cardOp[p] /\ Store!NameOf(p)' = n
      /\ files'[n] = files[n]
      /\ \A q \in Call \ {p} : cardOp'[q] = cardOp[q] /\ cardStep'[q] = cardStep[q]
  BY <1>1, <1>2, <1>3, <1>4 DEF CardTypes, Store!NameOf
<1>6. s # "rejected" => got'[p] = files[n]
  BY <1>3, <1>4 DEF CardTypes
<1>7. \A q \in Call \ {p} : got'[q] = got[q]
  BY <1>3, <1>4 DEF CardTypes
<1>8. cardOp[p].kind \in {"export", "connect"}
  BY <1>1, <1>3 DEF KindOf
<1>9. Halfway(p)' /\ Outcome(p)'
  BY <1>4, <1>5, <1>6, <1>8 DEF Halfway, Outcome
<1>10. Lasting /\ \A q \in Call \ {p} : ~Active(q)
  BY <1>1, ActsAlone DEF Lasting
<1>11. \A m \in Name \ {n} : Settled(m) /\ files'[m] = files[m]
  BY <1>1, ActsAlone
<1>12. Settled(n)'
  BY <1>3, <1>5, <1>10, HoldersStay DEF Settled, Whole, Store!Nothing
<1> QED BY <1>5, <1>7, <1>9, <1>10, <1>11, <1>12, SerialFrame

\* What is exported is put back only where a card is already, and refused.
LEMMA SerialExtract ==
    ASSUME OneByOne, SerialCardInv, CardInv', NEW p \in Call, Store!Extract(p)
    PROVE  SerialCardInv'
<1>1. Active(p) /\ cardStep[p] = "extract" /\ UNCHANGED files
  BY DEF Store!Extract, Active, Store!Over
<1>2. PICK n : n = Store!NameOf(p)
  OBVIOUS
<1>3. n \in Name /\ KindOf(p) /\ Halfway(p) /\ CardTypes /\ Settled(n)
  BY <1>1, <1>2, SerialCalled
<1>4. cardOp[p].kind = "export" /\ got[p].meta # None /\ got[p] = files[n]
  BY <1>1, <1>2, <1>3 DEF KindOf, Halfway
<1>5. files[n].dir
  BY <1>3, <1>4 DEF Settled, Whole, Store!Nothing
<1>6. PICK s : /\ cardStep' = [cardStep EXCEPT ![p] = s]
               /\ s \in {"done", "rejected", "putback"}
               /\ s = "done" => got' = got /\ Store!HolderOf(got[p]) # None
  BY DEF Store!Extract, Store!Goto
<1>7. PICK full, f :
        /\ cardOp' = cardOp \/ cardOp' = [cardOp EXCEPT ![p].card = full]
        /\ got' = got \/ got' = [got EXCEPT ![p] = f]
  BY DEF Store!Extract
<1>8. /\ cardStep'[p] = s /\ files'[n] = files[n]
      /\ \A q \in Call \ {p} : /\ cardOp'[q] = cardOp[q] /\ cardStep'[q] = cardStep[q]
                               /\ got'[q] = got[q]
  BY <1>1, <1>3, <1>6, <1>7 DEF CardTypes
<1>9. cardOp'[p].kind = "export" /\ Store!NameOf(p)' = n
  <2>1. cardOp[p] \in CardCall
    BY <1>1, <1>3 DEF KindOf
  <2>2. cardOp'[p] = cardOp[p] \/ cardOp'[p] = [cardOp[p] EXCEPT !.card = full]
    BY <1>3, <1>7 DEF CardTypes
  <2> QED BY <1>2, <1>4, <2>1, <2>2 DEF CardCall, Store!NameOf
<1>10. Halfway(p)' /\ Outcome(p)'
  BY <1>5, <1>6, <1>8, <1>9
     DEF Halfway, Outcome, Store!HolderOf, Store!CertOf, Store!SecretOf
<1>11. Lasting
  BY <1>4, <1>8 DEF Lasting
<1>12. \A q \in Call \ {p} : ~Active(q)
  BY <1>1, ActsAlone
<1>13. \A m \in Name \ {n} : Settled(m) /\ files'[m] = files[m]
  BY <1>1, <1>2, ActsAlone
<1>14. Settled(n)'
  BY <1>3, <1>8, <1>11, HoldersStay DEF Settled, Whole, Store!Nothing
<1> QED BY <1>8, <1>9, <1>10, <1>11, <1>12, <1>13, <1>14, SerialFrame

\* Deploying goes on while another call is under way.
LEMMA SerialDeploy ==
    ASSUME OneByOne, SerialCardInv, CardInv', NEW p \in Call, Store!Deploy(p)
    PROVE  SerialCardInv'
<1>1. CardTypes /\ Outcome(p) /\ cardStep[p] = "connected"
      /\ UNCHANGED <<files, cardOp, got>>
  BY DEF SerialCardInv, CardInv, Store!Deploy
<1>2. PICK s : s \in {"rejected", "deployed"} /\ cardStep' = [cardStep EXCEPT ![p] = s]
  BY DEF Store!Deploy, Store!Goto
<1>3. cardStep'[p] = s /\ \A q \in Call \ {p} : cardStep'[q] = cardStep[q]
  BY <1>1, <1>2 DEF CardTypes
<1>4. \A q \in Call : Active(q)' <=> Active(q)
  BY <1>1, <1>2, <1>3 DEF Active, Store!Over
<1>5. One'
  BY <1>4 DEF SerialCardInv, One
<1>6. \A q : Store!NameOf(q)' = Store!NameOf(q)
  BY <1>1 DEF Store!NameOf
<1>7. ASSUME NEW m \in Name PROVE Settled(m)' \/ Writing(m)'
  <2>1. Writing(m) => Writing(m)'
    <3>1. SUFFICES ASSUME NEW q \in Call, cardStep[q] \in {"meta", "creds"},
                          Store!NameOf(q) = m
                   PROVE  Writing(m)'
      BY DEF Writing
    <3>2. cardStep'[q] = cardStep[q] /\ Store!NameOf(q)' = m
      BY <1>1, <1>3, <1>6, <3>1
    <3> QED BY <3>1, <3>2 DEF Writing
  <2>2. Settled(m) => Settled(m)'
    BY <1>1, HoldersStay DEF Settled, Whole, Store!Nothing, Lasting
  <2> QED BY <2>1, <2>2 DEF SerialCardInv
<1>8. ASSUME NEW q \in Call PROVE Halfway(q)' /\ Outcome(q)'
  <2>1. Halfway(q) /\ Outcome(q)
    BY DEF SerialCardInv
  <2>2. CASE q = p
    BY <1>1, <1>2, <1>3, <2>2 DEF Halfway, Outcome
  <2>3. CASE q # p
    BY <1>1, <1>3, <1>6, <2>1, <2>3 DEF Halfway, Outcome, Store!HolderOf, Store!CertOf,
                                        Store!SecretOf
  <2> QED BY <2>2, <2>3
<1> QED BY <1>5, <1>7, <1>8 DEF SerialCardInv

LEMMA SerialNext ==
    ASSUME OneByOne, SerialCardInv, [Store!Next]_(Store!vars)
    PROVE  SerialCardInv'
<1>1. CardInv'
  BY CardNext DEF SerialCardInv, OneByOne
<1>2. CASE UNCHANGED Store!vars
  <2>1. UNCHANGED <<files, keys, cardOp, cardStep, got, acts, bound>>
    BY <1>2 DEF Store!vars
  <2>2. \A q : Store!NameOf(q)' = Store!NameOf(q)
    BY <2>1 DEF Store!NameOf
  <2>3. ASSUME NEW m \in Name PROVE Settled(m)' \/ Writing(m)'
    <3>1. Settled(m) => Settled(m)'
      BY <2>1, HoldersStay DEF Settled, Whole, Store!Nothing, Lasting
    <3>2. Writing(m) => Writing(m)'
      BY <2>1, <2>2 DEF Writing
    <3> QED BY <3>1, <3>2 DEF SerialCardInv
  <2>4. ASSUME NEW q \in Call PROVE Halfway(q)' /\ Outcome(q)'
    <3>1. Halfway(q) /\ Outcome(q)
      BY DEF SerialCardInv
    <3>2. files[Store!NameOf(q)]' = files[Store!NameOf(q)]
      BY <2>1, <2>2
    <3>3. Halfway(q)'
      BY <2>1, <3>1, <3>2 DEF Halfway, Half
    <3>4. Outcome(q)'
      BY <2>1, <3>1 DEF Outcome, Store!HolderOf, Store!CertOf, Store!SecretOf
    <3> QED BY <3>3, <3>4
  <2>5. One'
    BY <2>1 DEF SerialCardInv, One, Active
  <2> QED BY <1>1, <2>3, <2>4, <2>5 DEF SerialCardInv
<1>3. CASE Store!Next
  <2>1. PICK p \in Call :
           \/ \E n \in Name, k \in Store!Kind : \E c : Store!Begin(p, k, n, c)
           \/ Store!Put(p) \/ Store!MakeDirectory(p) \/ Store!WriteMetadata(p)
           \/ Store!WriteCredentials(p) \/ Store!ImportIdentity(p) \/ Store!Delete(p)
           \/ Store!Get(p) \/ Store!List(p) \/ Store!Extract(p) \/ Store!Login(p)
           \/ Store!Deploy(p)
    BY <1>3, KindsUsed DEF Store!Next, Store!Step, Store!Die, OneByOne
  <2>2. ASSUME NEW n \in Name, NEW k \in Store!Kind, NEW c, Store!Begin(p, k, n, c)
        PROVE  SerialCardInv'
    BY <1>1, <2>2, SerialBegin
  <2> QED BY <1>1, <2>1, <2>2, SerialLook, SerialFiles, SerialGet, SerialExtract, SerialDeploy
<1> QED BY <1>2, <1>3

\* A step of p changes the key of its name, and whom it acts for.
LEMMA KeptFrame ==
    ASSUME KeptInv, "delete" \notin use.kinds, NEW p \in Call,
           \A q \in Call \ {p} : ~Active(q),
           \A q \in Call \ {p} : /\ cardStep'[q] = cardStep[q] /\ got'[q] = got[q]
                                 /\ acts'[q] = acts[q] /\ bound'[q] = bound[q],
           NEW n, n = Store!NameOf(p)',
           \A m \in Name \ {n} : /\ files'[m] = files[m] /\ keys'[m] = keys[m]
                                 /\ ~Importer(m),
           (Importer(n)' <=> cardStep'[p] \in {"mkdir", "meta", "creds", "identity"})
              => KeyOf(n)',
           ServedBy(p)'
    PROVE  KeptInv'
<1>1. \A q \in Call \ {p} : cardStep'[q] \in Store!Over
  BY DEF Active
<1>2. \A m : Importer(m)' <=> /\ cardStep'[p] \in {"mkdir", "meta", "creds", "identity"}
                              /\ m = n
  BY <1>1 DEF Importer, Store!Over
<1>3. ASSUME NEW m \in Name PROVE KeyOf(m)'
  <2>1. CASE m = n
    BY <1>2, <2>1
  <2>2. CASE m # n
    <3>1. KeyOf(m) /\ ~Importer(m) /\ ~Importer(m)' /\ files'[m] = files[m]
          /\ keys'[m] = keys[m]
      BY <1>2, <2>2 DEF KeptInv
    <3> QED BY <3>1 DEF KeyOf, Store!Nothing, Store!HolderOf, Store!CertOf, Store!SecretOf
  <2> QED BY <2>1, <2>2
<1>4. ASSUME NEW q \in Call, q # p PROVE ServedBy(q)'
  <2>1. ServedBy(q)
    BY DEF KeptInv
  <2> QED BY <1>4, <2>1 DEF ServedBy, Store!HolderOf, Store!CertOf, Store!SecretOf
<1> QED BY <1>3, <1>4 DEF KeptInv

LEMMA KeptBegin ==
    ASSUME OneByOne, SerialCardInv, KeptInv, "delete" \notin use.kinds, NEW p \in Call,
           NEW n \in Name, NEW k \in Store!Kind \ {"delete"}, NEW c, Store!Begin(p, k, n, c)
    PROVE  KeptInv'
<1>1. /\ \A q \in Call : ~Active(q)
      /\ cardOp' = [cardOp EXCEPT ![p] = [kind |-> k, name |-> n, card |-> c]]
      /\ cardStep' = [cardStep EXCEPT ![p] = k] /\ UNCHANGED <<files, keys, got, acts, bound>>
  BY DEF Store!Begin, Store!Goto, Store!Idle, OneByOne, Active
<1>2. CardTypes
  BY DEF SerialCardInv, CardInv
<1>3. cardStep'[p] = k /\ Store!NameOf(p)' = n
      /\ \A q \in Call \ {p} : cardStep'[q] = cardStep[q]
  BY <1>1, <1>2 DEF CardTypes, Store!NameOf
<1>4. \A m : ~Importer(m)
  BY <1>1 DEF Importer, Active, Store!Over
<1>5. k \in {"import", "delete", "export", "connect", "list"}
  BY DEF Store!Kind
<1>6. ServedBy(p)'
  BY <1>3, <1>5 DEF ServedBy
<1>7. ASSUME ~Importer(n)' PROVE KeyOf(n)'
  BY <1>1, <1>4, <1>7
     DEF KeptInv, KeyOf, Store!Nothing, Store!HolderOf, Store!CertOf, Store!SecretOf
<1> QED BY <1>1, <1>3, <1>4, <1>5, <1>6, <1>7, KeptFrame

\* A step of an active call that is no login connects nobody.
LEMMA KeptActive ==
    ASSUME OneByOne, SerialCardInv, KeptInv, "delete" \notin use.kinds, NEW p \in Call,
           Active(p),
           NEW n, n = Store!NameOf(p), UNCHANGED <<cardOp, acts, bound>>,
           \A q \in Call \ {p} : cardStep'[q] = cardStep[q] /\ got'[q] = got[q],
           \A m \in Name \ {n} : files'[m] = files[m] /\ keys'[m] = keys[m],
           cardStep'[p] \notin {"connected", "deployed", "delete"},
           (Importer(n)' <=> cardStep'[p] \in {"mkdir", "meta", "creds", "identity"})
              => KeyOf(n)'
    PROVE  KeptInv'
<1>1. ServedBy(p)'
  BY DEF ServedBy
<1>2. Store!NameOf(p)' = n
  BY DEF Store!NameOf
<1> QED BY <1>1, <1>2, ActsAlone, KeptFrame

LEMMA KeptLook ==
    ASSUME OneByOne, SerialCardInv, KeptInv, "delete" \notin use.kinds, NEW p \in Call,
           Store!Put(p) \/ Store!Get(p) \/ Store!List(p) \/ Store!Extract(p)
    PROVE  KeptInv'
<1>1. /\ Active(p) /\ UNCHANGED <<files, keys, acts, bound>>
      /\ cardStep[p] \notin {"mkdir", "meta", "creds", "identity"}
  BY DEF Store!Put, Store!Get, Store!List, Store!Extract, Active, Store!Over
<1>2. PICK n : n = Store!NameOf(p)
  OBVIOUS
<1>3. n \in Name /\ KindOf(p) /\ Halfway(p) /\ CardTypes /\ Settled(n)
  BY <1>1, <1>2, SerialCalled
<1>4. PICK s : /\ cardStep' = [cardStep EXCEPT ![p] = s]
               /\ s \in {"mkdir", "extract", "login", "putback", "done", "rejected"}
               /\ s = "mkdir" => cardStep[p] = "import" /\ ~files[n].dir
  BY <1>2, <1>3 DEF Store!Put, Store!Get, Store!List, Store!Extract, Store!Goto, Halfway
<1>5. cardStep'[p] = s /\ \A q \in Call \ {p} : cardStep'[q] = cardStep[q]
  BY <1>3, <1>4 DEF CardTypes
<1>6. ~Importer(n) /\ KeyOf(n)
  BY <1>1, <1>3, ActsAlone DEF Importer, Active, Store!Over, KeptInv
<1>7. ASSUME Importer(n)' <=> s = "mkdir" PROVE KeyOf(n)'
  <2>1. CASE s = "mkdir"
    <3>1. files[n] = Store!Nothing
      BY <1>3, <1>4, <2>1 DEF Settled, Whole
    <3>2. keys'[n] = None /\ Importer(n)'
      BY <1>1, <1>6, <1>7, <2>1, <3>1 DEF KeyOf
    <3> QED BY <3>2 DEF KeyOf
  <2>2. CASE s # "mkdir"
    BY <1>1, <1>6, <1>7, <2>2
       DEF KeyOf, Store!Nothing, Store!HolderOf, Store!CertOf, Store!SecretOf
  <2> QED BY <2>1, <2>2
<1>8. ServedBy(p)'
  BY <1>4, <1>5 DEF ServedBy
<1>9. Store!NameOf(p)' = n
  BY <1>2, <1>3
     DEF Store!Put, Store!Get, Store!List, Store!Extract, Store!NameOf, CardTypes,
                    KindOf, CardCall
<1>10. \A q \in Call \ {p} : got'[q] = got[q]
  BY <1>3 DEF Store!Put, Store!Get, Store!List, Store!Extract, CardTypes
<1>11. \A q \in Call \ {p} : ~Active(q)
  BY <1>1, ActsAlone
<1>12. \A m \in Name \ {n} : ~Importer(m)
  BY <1>1, <1>2, ActsAlone
<1> QED BY <1>1, <1>4, <1>5, <1>7, <1>8, <1>9, <1>10, <1>11, <1>12, KeptFrame

LEMMA KeptFiles ==
    ASSUME OneByOne, SerialCardInv, KeptInv, "delete" \notin use.kinds, NEW p \in Call,
           Store!MakeDirectory(p) \/ Store!WriteMetadata(p) \/ Store!WriteCredentials(p)
           \/ Store!Delete(p)
    PROVE  KeptInv'
<1>1. Active(p) /\ UNCHANGED <<keys, cardOp, got, acts, bound>>
  BY DEF Store!MakeDirectory, Store!WriteMetadata, Store!WriteCredentials, Store!Delete,
         Active, Store!Over
<1>2. PICK n : n = Store!NameOf(p)
  OBVIOUS
<1>3. n \in Name /\ KindOf(p) /\ Halfway(p) /\ CardTypes
  BY <1>1, <1>2, SerialCalled
<1>4. ~Store!Delete(p)
  BY DEF Store!Delete, KeptInv, ServedBy
<1>5. cardStep[p] \in {"mkdir", "meta", "creds"}
  BY <1>4 DEF Store!MakeDirectory, Store!WriteMetadata, Store!WriteCredentials
<1>6. PICK s : s \in {"meta", "creds", "identity"} /\ cardStep' = [cardStep EXCEPT ![p] = s]
  BY <1>2, <1>3, <1>4
     DEF Store!MakeDirectory, Store!WriteMetadata, Store!WriteCredentials,
                          Store!Goto, Halfway, Half
<1>7. cardStep'[p] = s /\ \A q \in Call \ {p} : cardStep'[q] = cardStep[q]
  BY <1>3, <1>6 DEF CardTypes
<1>8. \A m \in Name \ {n} : files'[m] = files[m]
  BY <1>2, <1>3, <1>4
     DEF Store!MakeDirectory, Store!WriteMetadata, Store!WriteCredentials,
                          CardTypes
<1>9. keys[n] = None
  BY <1>2, <1>3, <1>5 DEF KeptInv, KeyOf, Importer
<1>10. ASSUME Importer(n)' PROVE KeyOf(n)'
  BY <1>1, <1>9, <1>10 DEF KeyOf
<1> QED BY <1>1, <1>2, <1>6, <1>7, <1>8, <1>10, KeptActive

LEMMA KeptImport ==
    ASSUME OneByOne, SerialCardInv, KeptInv, "delete" \notin use.kinds, NEW p \in Call,
           Store!ImportIdentity(p)
    PROVE  KeptInv'
<1>1. Active(p) /\ cardStep[p] = "identity" /\ UNCHANGED <<files, cardOp, got, acts, bound>>
  BY DEF Store!ImportIdentity, Active, Store!Over
<1>2. PICK n : n = Store!NameOf(p)
  OBVIOUS
<1>3. n \in Name /\ KindOf(p) /\ Halfway(p) /\ CardTypes
  BY <1>1, <1>2, SerialCalled
<1>4. PICK c : c = cardOp[p].card
  OBVIOUS
<1>5. c \in Card /\ Half(files[n], c, c) /\ keys[n] = None
  BY <1>1, <1>2, <1>3, <1>4 DEF KindOf, Halfway, KeptInv, KeyOf, Importer
<1>6. /\ cardStep' = [cardStep EXCEPT ![p] = "done"]
      /\ keys' = [keys EXCEPT ![n] = IF c.cert # None THEN c.cert ELSE @]
  BY <1>2, <1>4 DEF Store!ImportIdentity, Store!Goto, OneByOne
<1>7. /\ cardStep'[p] = "done" /\ keys'[n] = c.cert
      /\ \A q \in Call \ {p} : cardStep'[q] = cardStep[q]
      /\ \A m \in Name \ {n} : keys'[m] = keys[m]
  BY <1>3, <1>5, <1>6 DEF CardTypes
<1>8. c # None
  BY <1>5, CardHolders DEF OneByOne
<1>9. files'[n].dir /\ files'[n].creds = c
  BY <1>1, <1>5 DEF Half
<1>10. ASSUME ~Importer(n)' PROVE KeyOf(n)'
  BY <1>7, <1>8, <1>9, <1>10
     DEF KeyOf, Store!Nothing, Store!HolderOf, Store!CertOf, Store!SecretOf
<1> QED BY <1>1, <1>2, <1>7, <1>10, KeptActive

LEMMA KeptLogin ==
    ASSUME OneByOne, SerialCardInv, KeptInv, "delete" \notin use.kinds, NEW p \in Call,
           Store!Login(p)
    PROVE  KeptInv'
<1>1. Active(p) /\ cardStep[p] = "login" /\ UNCHANGED <<files, cardOp, got, bound>>
  BY DEF Store!Login, Active, Store!Over
<1>2. PICK n : n = Store!NameOf(p)
  OBVIOUS
<1>3. n \in Name /\ KindOf(p) /\ Halfway(p) /\ CardTypes /\ Settled(n)
  BY <1>1, <1>2, SerialCalled
<1>4. got[p] = files[n] /\ got[p].meta # None
  BY <1>1, <1>2, <1>3 DEF Halfway, KindOf
<1>5. Whole(n)
  BY <1>3, <1>4 DEF Settled, Store!Nothing
<1>6. /\ Store!HolderOf(files[n]) # None
      /\ Store!CertOf(files[n]) # None \/ Store!SecretOf(files[n]) = Store!HolderOf(files[n])
  BY <1>3, <1>5, WholeHolder DEF OneByOne, SerialCardInv
<1>7. ~Importer(n) /\ KeyOf(n) /\ files[n] # Store!Nothing
  BY <1>1, <1>3, <1>5, ActsAlone
     DEF Importer, Active, Store!Over, KeptInv, Whole, Store!Nothing
<1>8. PICK h : h = Store!HolderOf(files[n])
  OBVIOUS
<1>9. (IF keys[n] # None THEN keys[n] ELSE Store!SecretOf(got[p])) = h
  BY <1>4, <1>6, <1>7, <1>8 DEF KeyOf
<1>10. /\ acts' = [acts EXCEPT ![p] = h] /\ keys' = [keys EXCEPT ![n] = h]
       /\ cardStep' = [cardStep EXCEPT ![p] = "connected"]
  BY <1>2, <1>6, <1>8, <1>9 DEF Store!Login, Store!Goto
<1>11. /\ cardStep'[p] = "connected" /\ acts'[p] = h /\ keys'[n] = h
       /\ \A q \in Call \ {p} : cardStep'[q] = cardStep[q] /\ acts'[q] = acts[q]
       /\ \A m \in Name \ {n} : keys'[m] = keys[m]
  BY <1>3, <1>10 DEF CardTypes
<1>12. Store!HolderOf(files[n])' = h /\ Store!HolderOf(got[p])' = h
  BY <1>1, <1>4, <1>8 DEF Store!HolderOf, Store!CertOf, Store!SecretOf
<1>13. ServedBy(p)'
  BY <1>11, <1>12 DEF ServedBy
<1>14. Store!CertOf(files[n])' # None => Store!HolderOf(files[n])' = Store!CertOf(files[n])'
  BY DEF Store!HolderOf
<1>15. KeyOf(n)' \/ Importer(n)'
  BY <1>1, <1>7, <1>11, <1>12, <1>14 DEF KeyOf, Store!Nothing
<1>16. Store!NameOf(p)' = n
  BY <1>1, <1>2 DEF Store!NameOf
<1>17. \A q \in Call \ {p} : ~Active(q)
  BY <1>1, ActsAlone
<1>18. \A m \in Name \ {n} : ~Importer(m)
  BY <1>1, <1>2, ActsAlone
<1> QED BY <1>1, <1>11, <1>13, <1>15, <1>16, <1>17, <1>18, KeptFrame

LEMMA KeptDeploy ==
    ASSUME OneByOne, SerialCardInv, KeptInv, "delete" \notin use.kinds, NEW p \in Call,
           Store!Deploy(p)
    PROVE  KeptInv'
<1>1. /\ CardTypes /\ ServedBy(p) /\ cardStep[p] = "connected"
      /\ UNCHANGED <<files, keys, cardOp, got, acts>>
  BY DEF SerialCardInv, CardInv, KeptInv, Store!Deploy
<1>2. PICK s : /\ s \in {"rejected", "deployed"}
               /\ cardStep' = [cardStep EXCEPT ![p] = s]
               /\ s = "deployed" => /\ bound' = [bound EXCEPT ![p] = Store!CertOf(got[p])]
                                    /\ Store!CertOf(got[p]) # None
               /\ s = "rejected" => bound' = bound
  BY DEF Store!Deploy, Store!Goto
<1>3. /\ cardStep'[p] = s
      /\ s = "deployed" => bound'[p] = Store!CertOf(got[p])
      /\ \A q \in Call \ {p} : cardStep'[q] = cardStep[q] /\ bound'[q] = bound[q]
  BY <1>1, <1>2 DEF CardTypes
<1>4. \A q : Store!NameOf(q)' = Store!NameOf(q)
  BY <1>1 DEF Store!NameOf
<1>5. \A m : Importer(m)' <=> Importer(m)
  BY <1>1, <1>2, <1>3, <1>4 DEF Importer
<1>6. \A q : Store!HolderOf(got[q])' = Store!HolderOf(got[q])
  BY <1>1 DEF Store!HolderOf, Store!CertOf, Store!SecretOf
<1>7. ASSUME NEW m \in Name PROVE KeyOf(m)'
  <2>1. KeyOf(m)
    BY DEF KeptInv
  <2> QED BY <1>1, <1>5, <2>1
          DEF KeyOf, Store!Nothing, Store!HolderOf, Store!CertOf, Store!SecretOf
<1>8. ASSUME NEW q \in Call PROVE ServedBy(q)'
  <2>1. CASE q = p
    <3>1. Store!HolderOf(got[p]) = acts[p]
      BY <1>1 DEF ServedBy
    <3>2. s = "deployed" => bound'[p] = acts'[p]
      BY <1>1, <1>2, <1>3, <3>1 DEF Store!HolderOf
    <3> QED BY <1>1, <1>2, <1>3, <1>6, <2>1, <3>1, <3>2 DEF ServedBy
  <2>2. CASE q # p
    <3>1. ServedBy(q)
      BY DEF KeptInv
    <3> QED BY <1>1, <1>3, <1>6, <2>2, <3>1 DEF ServedBy
  <2> QED BY <2>1, <2>2
<1> QED BY <1>7, <1>8 DEF KeptInv

LEMMA KeptNext ==
    ASSUME OneByOne, SerialCardInv, KeptInv, [Store!Next]_(Store!vars)
    PROVE  KeptInv'
<1> SUFFICES ASSUME "delete" \notin use.kinds PROVE KeptInv'
  BY UseKept DEF KeptInv
<1>1. CASE UNCHANGED Store!vars
  <2>1. UNCHANGED <<files, keys, cardOp, cardStep, got, acts, bound>>
    BY <1>1 DEF Store!vars
  <2>2. \A m : Importer(m)' <=> Importer(m)
    BY <2>1 DEF Importer, Store!NameOf
  <2>3. ASSUME NEW m \in Name PROVE KeyOf(m)'
    <3>1. KeyOf(m)
      BY DEF KeptInv
    <3> QED BY <2>1, <2>2, <3>1
            DEF KeyOf, Store!Nothing, Store!HolderOf, Store!CertOf, Store!SecretOf
  <2>4. ASSUME NEW q \in Call PROVE ServedBy(q)'
    <3>1. ServedBy(q)
      BY DEF KeptInv
    <3> QED BY <2>1, <3>1 DEF ServedBy, Store!HolderOf, Store!CertOf, Store!SecretOf
  <2> QED BY <2>3, <2>4 DEF KeptInv
<1>2. CASE Store!Next
  <2>1. PICK p \in Call :
           \/ \E n \in Name, k \in Store!Kind \ {"delete"} : \E c : Store!Begin(p, k, n, c)
           \/ Store!Put(p) \/ Store!MakeDirectory(p) \/ Store!WriteMetadata(p)
           \/ Store!WriteCredentials(p) \/ Store!ImportIdentity(p) \/ Store!Delete(p)
           \/ Store!Get(p) \/ Store!List(p) \/ Store!Extract(p) \/ Store!Login(p)
           \/ Store!Deploy(p)
    BY <1>2, KindsUsed DEF Store!Next, Store!Step, Store!Die, OneByOne
  <2>2. ASSUME NEW n \in Name, NEW k \in Store!Kind \ {"delete"}, NEW c, Store!Begin(p, k, n, c)
        PROVE  KeptInv'
    BY <2>2, KeptBegin
  <2> QED BY <2>1, <2>2, KeptLook, KeptFiles, KeptImport, KeptLogin, KeptDeploy
<1> QED BY <1>1, <1>2

\* While the cards are used one call at a time.
WhileOneByOne == OneByOne => SerialCardInv /\ KeptInv

LEMMA SerialCards == Store!CardAssumption /\ Store!Spec => []WhileOneByOne
<1> SUFFICES ASSUME Store!CardAssumption PROVE Store!Spec => []WhileOneByOne  OBVIOUS
<1>1. Store!Init => WhileOneByOne
  BY SerialCardInit DEF WhileOneByOne
<1>2. WhileOneByOne /\ [Store!Next]_(Store!vars) => WhileOneByOne'
  <2> SUFFICES ASSUME WhileOneByOne, [Store!Next]_(Store!vars), OneByOne'
               PROVE  SerialCardInv' /\ KeptInv'
    BY DEF WhileOneByOne
  <2>1. OneByOne
    BY UseKept DEF OneByOne, Used
  <2> QED BY <2>1, SerialNext, KeptNext DEF WhileOneByOne
<1> QED BY <1>1, <1>2, PTL DEF Store!Spec

LEMMA SerialWhole ==
    ASSUME OneByOne, SerialCardInv
    PROVE  Store!Intact /\ Store!ListWorks /\ Store!ExportUsable
<1>1. Store!Intact
  <2> SUFFICES ASSUME Store!Idle, NEW n \in Name, files[n].dir PROVE Whole(n)
    BY DEF Store!Intact, Whole
  <2>1. ~Writing(n)
    BY DEF Store!Idle, Writing, Store!Over
  <2> QED BY <2>1 DEF SerialCardInv, Settled, Store!Nothing
<1> QED BY <1>1 DEF SerialCardInv, Outcome, Store!ListWorks, Store!ExportUsable

LEMMA KeptHolder ==
    ASSUME KeptInv, "delete" \notin use.kinds
    PROVE  Store!ConnectsAsCard /\ Store!AdminServed
BY DEF KeptInv, ServedBy, Store!ConnectsAsCard, Store!AdminServed

\* Theorem (CardsWhole): one call at a time, what is in the store is a card that was
\* imported, neither half nor a mixture, no listing is rejected, and a card that is exported
\* can be connected with (filesystemcardstore.js; adminconnection.js, exportCard).
THEOREM CardsWhole ==
    Store!CardAssumption /\ Store!Spec =>
       [](use.serial /\ ~use.faults => Store!Intact /\ Store!ListWorks /\ Store!ExportUsable)
<1> SUFFICES ASSUME Store!CardAssumption
             PROVE  Store!Spec => [](use.serial /\ ~use.faults
                       => Store!Intact /\ Store!ListWorks /\ Store!ExportUsable)
  OBVIOUS
<1>1. WhileOneByOne /\ Used =>
         (use.serial /\ ~use.faults => Store!Intact /\ Store!ListWorks /\ Store!ExportUsable)
  BY SerialWhole DEF WhileOneByOne, OneByOne
<1> QED BY <1>1, SerialCards, CardInvariant, PTL

\* Theorem (CardServes): one call at a time, and where no card is deleted, a connection acts
\* for the holder of its card, and the administrator of a business network that is deployed
\* is the identity that has deployed it.  A card that is deleted leaves its key store
\* behind, and the next card of that name is connected with the certificate in it
\* (adminconnection.js, connect, deploy; hlfconnectionmanager.js, login).
THEOREM CardServes ==
    Store!CardAssumption /\ Store!Spec =>
       [](use.serial /\ ~use.faults /\ "delete" \notin use.kinds
            => Store!ConnectsAsCard /\ Store!AdminServed)
<1> SUFFICES ASSUME Store!CardAssumption
             PROVE  Store!Spec => [](use.serial /\ ~use.faults /\ "delete" \notin use.kinds
                       => Store!ConnectsAsCard /\ Store!AdminServed)
  OBVIOUS
<1>1. WhileOneByOne /\ Used =>
         (use.serial /\ ~use.faults /\ "delete" \notin use.kinds
            => Store!ConnectsAsCard /\ Store!AdminServed)
  BY KeptHolder DEF WhileOneByOne, OneByOne
<1> QED BY <1>1, SerialCards, CardInvariant, PTL

\* A card that has metadata has a directory, and who is connected has a certificate.
Placed ==
    /\ \A n \in Name : files[n].meta # None => files[n].dir
    /\ \A p \in Call : cardStep[p] = "connected" => acts[p] # None

LEMMA PlacedNext ==
    ASSUME Store!CardAssumption, Used, CardInv, Placed, [Store!Next]_(Store!vars)
    PROVE  Placed'
<1>1. CardTypes
  BY DEF CardInv
\* Whatever is written is written to the files of one name.
<1>2. ASSUME NEW n, NEW f, files' = files \/ files' = [files EXCEPT ![n] = f],
             n \in Name => (f.meta # None => f.dir)
      PROVE  \A m \in Name : files'[m].meta # None => files'[m].dir
  <2> SUFFICES ASSUME NEW m \in Name PROVE files'[m].meta # None => files'[m].dir
    OBVIOUS
  <2>1. files'[m] = files[m] \/ (m = n /\ files'[m] = f)
    BY <1>1, <1>2 DEF CardTypes
  <2> QED BY <1>2, <2>1 DEF Placed
\* Whoever moves is connected by a login only.
<1>3. ASSUME NEW p \in Call, NEW s \in CardStep, Store!Goto(p, s),
             s = "connected" => acts'[p] # None,
             \A q \in Call \ {p} : acts'[q] = acts[q]
      PROVE  \A q \in Call : cardStep'[q] = "connected" => acts'[q] # None
  <2>1. cardStep'[p] = s /\ \A q \in Call \ {p} : cardStep'[q] = cardStep[q]
    BY <1>1, <1>3 DEF CardTypes, Store!Goto
  <2> QED BY <1>3, <2>1 DEF Placed
<1>4. CASE UNCHANGED Store!vars
  BY <1>4 DEF Store!vars, Placed
<1>5. ASSUME NEW p \in Call, NEW n \in Name, NEW k \in Store!Kind, NEW c, Store!Begin(p, k, n, c)
      PROVE  Placed'
  <2>1. k \in CardStep /\ k # "connected" /\ Store!Goto(p, k) /\ files' = files /\ acts' = acts
    BY <1>5 DEF Store!Kind, CardStep, Store!Begin
  <2> QED BY <1>3, <2>1 DEF Placed
<1>6. ASSUME NEW p \in Call,
             \/ Store!Put(p) \/ Store!ImportIdentity(p) \/ Store!Get(p) \/ Store!List(p)
             \/ Store!Extract(p) \/ Store!Deploy(p) \/ Store!Die(p)
      PROVE  Placed'
  <2>1. files' = files /\ acts' = acts
    BY <1>6 DEF Store!Put, Store!ImportIdentity, Store!Get, Store!List, Store!Extract,
                Store!Deploy, Store!Die
  <2>2. PICK s \in CardStep : Store!Goto(p, s) /\ s # "connected"
    BY <1>6 DEF Store!Put, Store!ImportIdentity, Store!Get, Store!List, Store!Extract,
                Store!Deploy, Store!Die, CardStep
  <2> QED BY <1>3, <2>1, <2>2 DEF Placed
<1>7. ASSUME NEW p \in Call, Store!Login(p) PROVE Placed'
  <2>1. files' = files
    BY <1>7 DEF Store!Login
  <2>2. PICK s \in CardStep : /\ Store!Goto(p, s)
                              /\ s = "connected" => acts'[p] # None
                              /\ \A q \in Call \ {p} : acts'[q] = acts[q]
    <3>1. PICK new : IF new = None THEN Store!Goto(p, "rejected") /\ acts' = acts
                     ELSE acts' = [acts EXCEPT ![p] = new] /\ Store!Goto(p, "connected")
      BY <1>7 DEF Store!Login
    <3> QED BY <1>1, <3>1 DEF CardTypes, CardStep
  <2> QED BY <1>3, <2>1, <2>2 DEF Placed
<1>8. ASSUME NEW p \in Call,
             \/ Store!MakeDirectory(p) \/ Store!WriteMetadata(p)
             \/ Store!WriteCredentials(p) \/ Store!Delete(p)
      PROVE  Placed'
  <2>1. acts' = acts
    BY <1>8 DEF Store!MakeDirectory, Store!WriteMetadata, Store!WriteCredentials, Store!Delete
  <2>2. PICK s \in CardStep : Store!Goto(p, s) /\ s # "connected"
    BY <1>8 DEF Store!MakeDirectory, Store!WriteMetadata, Store!WriteCredentials,
                Store!Delete, CardStep
  <2>3. PICK n : n = Store!NameOf(p)
    OBVIOUS
  <2>4. n \in Name => files[n] \in File
    BY <1>1 DEF CardTypes
  <2>5. \E f : /\ files' = files \/ files' = [files EXCEPT ![n] = f]
               /\ n \in Name => (f.meta # None => f.dir)
    <3>1. CASE Store!MakeDirectory(p)
      <4>1. files' = [files EXCEPT ![n] = [files[n] EXCEPT !.dir = TRUE]]
        BY <2>3, <3>1 DEF Store!MakeDirectory
      <4>2. n \in Name => [files[n] EXCEPT !.dir = TRUE].dir
        BY <2>4 DEF File
      <4> QED BY <4>1, <4>2
    <3>2. CASE Store!WriteMetadata(p)
      <4>1. CASE files' = files
        <5>1. PICK f : f = Store!Nothing
          OBVIOUS
        <5> QED BY <4>1, <5>1 DEF Store!Nothing
      <4>2. CASE files' # files
        <5>1. /\ files[n].dir
              /\ files' = [files EXCEPT ![n] = [files[n] EXCEPT !.meta = cardOp[p].card]]
          BY <2>3, <3>2, <4>2 DEF Store!WriteMetadata
        <5>2. n \in Name => [files[n] EXCEPT !.meta = cardOp[p].card].dir
          BY <2>4, <5>1 DEF File
        <5> QED BY <5>1, <5>2
      <4> QED BY <4>1, <4>2
    <3>3. CASE Store!WriteCredentials(p)
      <4>1. PICK c : files' = [files EXCEPT ![n].dir = TRUE, ![n].creds = c]
        BY <2>3, <3>3 DEF Store!WriteCredentials
      <4>2. PICK f : f = [files[n] EXCEPT !.dir = TRUE, !.creds = c]
        OBVIOUS
      <4>3. n \in Name => files' = [files EXCEPT ![n] = f] /\ f.dir
        BY <1>1, <2>4, <4>1, <4>2 DEF CardTypes, File
      <4>4. n \notin Name => files' = files
        BY <1>1, <4>1 DEF CardTypes
      <4> QED BY <4>3, <4>4
    <3>4. CASE Store!Delete(p)
      <4>1. files' = files \/ files' = [files EXCEPT ![n] = Store!Nothing]
        BY <2>3, <3>4 DEF Store!Delete
      <4>2. Store!Nothing.meta = None
        BY DEF Store!Nothing
      <4> QED BY <4>1, <4>2
    <3> QED BY <1>8, <3>1, <3>2, <3>3, <3>4
  <2>6. \A m \in Name : files'[m].meta # None => files'[m].dir
    BY <1>2, <2>5
  <2> QED BY <1>3, <2>1, <2>2, <2>6 DEF Placed
<1>9. "import" \in Store!Kind
  BY DEF Store!Kind
<1> QED BY <1>4, <1>5, <1>6, <1>7, <1>8, <1>9, KindsUsed DEF Store!Next, Store!Step

\* Theorem (CardsAsPromised): the card store keeps all its promises, each under the
\* condition that it is made on: whole cards and usable exports for one call at a time,
\* connections that act as their card says if besides no card was deleted.
THEOREM CardsAsPromised == Store!CardAssumption /\ Store!Spec => []Store!CardsSound
<1> SUFFICES ASSUME Store!CardAssumption PROVE Store!Spec => []Store!CardsSound
  OBVIOUS
<1>1. Store!Init => Placed
  BY DEF Store!Init, Store!Nothing, Placed
<1>2. CardInv /\ Used /\ Placed /\ [Store!Next]_(Store!vars) => Placed'
  BY PlacedNext
<1>3. CardInv /\ Placed => Store!TypeOK
  BY CardHolders DEF CardInv, KindOf, Placed, Store!TypeOK
<1> DEFINE SerialPart == use.serial /\ ~use.faults =>
                            Store!Intact /\ Store!ListWorks /\ Store!ExportUsable
           KeptPart == use.serial /\ ~use.faults /\ "delete" \notin use.kinds =>
                            Store!ConnectsAsCard /\ Store!AdminServed
<1>4. Store!Spec => []SerialPart
  BY CardsWhole
<1>5. Store!Spec => []KeptPart
  BY CardServes
<1>6. Store!TypeOK /\ Store!OwnIdentity /\ SerialPart /\ KeptPart => Store!CardsSound
  BY DEF Store!CardsSound
<1> HIDE DEF SerialPart, KeptPart
<1> QED BY <1>1, <1>2, <1>3, <1>4, <1>5, <1>6, CardInvariant, OwnCards, PTL DEF Store!Spec

-----------------------------------------------------------------------------
(***************************************************************************)
(* Business networks in a browser (WebConnection): a session is on a       *)
(* network that was started to the end, through failures and reloads; it   *)
(* is served while the page is not reloaded; what is deployed is listed    *)
(* when calls do not overlap.                                              *)
(***************************************************************************)
Entries == [Network -> Call \union {None}]

WebTypes ==
    /\ profile \in Entries \union {None}
    /\ started \subseteq Call
    /\ businessNetworks \in Entries
    /\ chaincodes \subseteq Call
    /\ webCall \in [Call -> {"none", "start", "undeploy", "login"} \X Network
                         \X {"new", "init", "load", "loaded", "save", "done", "failed"}]
    /\ loaded \in [Call -> Entries \union {None}]
    /\ session \in [Call -> Call \union {None}]
    /\ deployed \subseteq Network
    /\ undeployed \subseteq Call
    /\ reloads \in Nat

Starting(c, steps) == webCall[c][1] = "start" /\ webCall[c][3] \in steps

\* Whatever names a chaincode, names one that is started ...
StartedInv ==
    /\ \A n \in Network : Web!Networks(profile)[n] \in started \union {None}
    /\ \A c \in Call, n \in Network : Web!Networks(loaded[c])[n] \in started \union {None}
    /\ \A c \in Call : session[c] \in started \union {None}
    /\ \A c \in Call : Starting(c, {"load", "save"}) => c \in started

\* ... and, before the page is reloaded, one that is in memory or was undeployed.
There == chaincodes \union undeployed
ThereInv ==
    reloads = 0 =>
       /\ \A n \in Network : Web!Networks(profile)[n] \in There \union {None}
       /\ \A c \in Call, n \in Network : Web!Networks(loaded[c])[n] \in There \union {None}
       /\ \A c \in Call : session[c] \in There \union {None}
       /\ \A c \in Call : Starting(c, {"init", "load", "save"}) => c \in There

WebInv == WebTypes /\ StartedInv /\ ThereInv

LEMMA NetworksEntries ==
    ASSUME Web!NoneAssumption, NEW N \in Entries \union {None}
    PROVE  /\ Web!Networks(N) \in Entries
           /\ N \in Entries => Web!Networks(N) = N
BY DEF Web!NoneAssumption, Web!Networks, Web!NoNetworks, Entries

LEMMA WebInit ==
    ASSUME Web!NoneAssumption
    PROVE  Web!Init => WebInv
<1> SUFFICES ASSUME Web!Init PROVE WebInv  OBVIOUS
<1>1. (CHOOSE n \in Network : TRUE) \in Network
  BY DEF Web!NoneAssumption
<1>2. WebTypes
  BY <1>1 DEF Web!Init, WebTypes, Web!NoNetworks, Entries
<1>3. \A n \in Network : Web!Networks(None)[n] = None
  BY DEF Web!Networks, Web!NoNetworks
<1>4. \A c \in Call : ~ Starting(c, {"init", "load", "save"}) /\ ~ Starting(c, {"load", "save"})
  BY DEF Web!Init, Starting
<1> QED BY <1>2, <1>3, <1>4 DEF Web!Init, WebInv, StartedInv, ThereInv

\* What a step puts into the profile, the copies of it, and the sessions.
Names ==
    /\ \A n \in Network :
          \/ Web!Networks(profile')[n] \in {Web!Networks(profile)[n], None}
          \/ \E c \in Call : Web!Networks(profile')[n] = Web!Networks(loaded[c])[n]
          \/ \E c \in Call : Starting(c, {"save"}) /\ Web!Networks(profile')[n] = c
    /\ \A c \in Call, n \in Network :
          Web!Networks(loaded'[c])[n] \in {Web!Networks(loaded[c])[n], Web!Networks(profile)[n]}
    /\ \A c \in Call :
          \/ session'[c] \in {session[c], None}
          \/ \E n \in Network : session'[c] = Web!Networks(loaded[c])[n]

\* What it does to the chaincodes.
Makes ==
    /\ started \subseteq started'
    /\ \A c \in Call : Starting(c, {"load", "save"})' =>
          c \in started' \/ Starting(c, {"load", "save"})
    /\ reloads' = 0 =>
          /\ reloads = 0
          /\ There \subseteq There'
          /\ \A c \in Call : Starting(c, {"init", "load", "save"})' =>
                c \in There' \/ Starting(c, {"init", "load", "save"})

LEMMA NamesMade ==
    ASSUME WebInv, WebTypes', Names, Makes
    PROVE  WebInv'
<1>1. StartedInv'
  <2>1. \A c \in Call : Starting(c, {"save"}) => c \in started
    BY DEF WebInv, StartedInv, Starting
  <2>2. \A n \in Network : Web!Networks(profile')[n] \in started' \union {None}
    BY <2>1 DEF WebInv, StartedInv, Names, Makes
  <2>3. \A c \in Call, n \in Network : Web!Networks(loaded'[c])[n] \in started' \union {None}
    BY DEF WebInv, StartedInv, Names, Makes
  <2>4. \A c \in Call : session'[c] \in started' \union {None}
    BY DEF WebInv, StartedInv, Names, Makes
  <2>5. \A c \in Call : Starting(c, {"load", "save"})' => c \in started'
    BY DEF WebInv, StartedInv, Makes
  <2> QED BY <2>2, <2>3, <2>4, <2>5 DEF StartedInv
<1>2. ThereInv'
  <2> SUFFICES ASSUME reloads' = 0
               PROVE  /\ \A n \in Network : Web!Networks(profile')[n] \in There' \union {None}
                      /\ \A c \in Call, n \in Network :
                            Web!Networks(loaded'[c])[n] \in There' \union {None}
                      /\ \A c \in Call : session'[c] \in There' \union {None}
                      /\ \A c \in Call : Starting(c, {"init", "load", "save"})' => c \in There'
    BY DEF ThereInv
  <2> HIDE DEF There
  <2>1. There \subseteq There' /\ reloads = 0
    BY DEF Makes
  <2>2. \A c \in Call : Starting(c, {"save"}) => c \in There
    BY <2>1 DEF WebInv, ThereInv, Starting
  <2>3. \A n \in Network : Web!Networks(profile')[n] \in There' \union {None}
    BY <2>1, <2>2 DEF WebInv, ThereInv, Names
  <2>4. \A c \in Call, n \in Network : Web!Networks(loaded'[c])[n] \in There' \union {None}
    BY <2>1 DEF WebInv, ThereInv, Names
  <2>5. \A c \in Call : session'[c] \in There' \union {None}
    BY <2>1 DEF WebInv, ThereInv, Names
  <2>6. \A c \in Call : Starting(c, {"init", "load", "save"})' => c \in There'
    BY <2>1 DEF WebInv, ThereInv, Makes
  <2> QED BY <2>3, <2>4, <2>5, <2>6
<1> QED BY <1>1, <1>2 DEF WebInv

\* Steps that leave the profile and its copies.
LEMMA QuietStep ==
    ASSUME Web!NoneAssumption, WebInv,
           \/ \E c \in Call, n \in Network :
                 Web!Start(c, n) \/ Web!Undeploy(c, n) \/ Web!Login(c, n)
           \/ \E c \in Call : \/ Web!Initialized(c) \/ Web!NotInitialized(c)
                              \/ Web!SaveFails(c) \/ Web!NoSuchNetwork(c)
           \/ Web!Reload
    PROVE  WebInv'
<1> USE DEF WebInv
<1>1. UNCHANGED <<profile, loaded>> /\ (session' = session \/ session' = [c \in Call |-> None])
  BY DEF Web!Start, Web!Undeploy, Web!Login, Web!Initialized, Web!NotInitialized,
         Web!SaveFails, Web!NoSuchNetwork, Web!Reload
<1>2. Names
  BY <1>1 DEF Names
<1>3. ASSUME NEW c \in Call, NEW n \in Network,
             Web!Start(c, n) \/ Web!Undeploy(c, n) \/ Web!Login(c, n)
      PROVE  WebTypes' /\ Makes
  <2>1. \E k \in {"start", "undeploy", "login"}, s \in {"init", "load"} :
           /\ webCall' = [webCall EXCEPT ![c] = <<k, n, s>>]
           /\ k = "start" => c \in chaincodes'
    BY <1>3 DEF Web!Start, Web!Undeploy, Web!Login
  <2>2. businessNetworks[n] \in Call \union {None}
        /\ Web!Networks(profile)[n] \in Call \union {None}
    BY NetworksEntries DEF WebTypes, Entries
  <2>3. /\ UNCHANGED <<started, session, reloads>>
        /\ businessNetworks' \in Entries /\ chaincodes' \subseteq Call
        /\ deployed' \subseteq Network /\ undeployed' \subseteq Call
        /\ There \subseteq There'
    <3>1. CASE Web!Start(c, n)
      BY <3>1 DEF Web!Start, WebTypes, Entries, There
    <3>2. CASE Web!Undeploy(c, n)
      <4>1. /\ chaincodes' = chaincodes \ {businessNetworks[n]}
            /\ undeployed' = undeployed \union
                  ({businessNetworks[n], Web!Networks(profile)[n]} \ {None})
            /\ businessNetworks' = [businessNetworks EXCEPT ![n] = None]
            /\ deployed' = deployed \ {n}
            /\ UNCHANGED <<started, session, reloads>>
        BY <3>2 DEF Web!Undeploy
      <4>2. chaincodes' \subseteq Call /\ undeployed' \subseteq Call
        BY <2>2, <4>1 DEF WebTypes
      <4>3. businessNetworks' \in Entries /\ deployed' \subseteq Network
        BY <4>1 DEF WebTypes, Entries
      <4>4. None \notin chaincodes
        BY DEF WebTypes, Web!NoneAssumption
      <4>5. There \subseteq There'
        BY <4>1, <4>4 DEF There
      <4> QED BY <4>1, <4>2, <4>3, <4>5
    <3>3. CASE Web!Login(c, n)
      BY <3>3 DEF Web!Login, WebTypes, There
    <3> QED BY <1>3, <3>1, <3>2, <3>3
  <2>4. WebTypes'
    BY <1>1, <2>1, <2>3 DEF WebTypes
  <2>5. \A d \in Call : \/ Starting(d, {"init", "load", "save"})' =>
                              d \in There' \/ Starting(d, {"init", "load", "save"})
    BY <2>1 DEF Starting, WebTypes, There
  <2>6. \A d \in Call : Starting(d, {"load", "save"})' => Starting(d, {"load", "save"})
    <3>1. Web!Start(c, n) => webCall' = [webCall EXCEPT ![c] = <<"start", n, "init">>]
      BY DEF Web!Start
    <3>2. Web!Undeploy(c, n) => webCall' = [webCall EXCEPT ![c] = <<"undeploy", n, "load">>]
      BY DEF Web!Undeploy
    <3>3. Web!Login(c, n) => webCall' = [webCall EXCEPT ![c] = <<"login", n, "load">>]
      BY DEF Web!Login
    <3> QED BY <1>3, <3>1, <3>2, <3>3 DEF Starting, WebTypes
  <2> QED BY <2>3, <2>4, <2>5, <2>6 DEF Makes
<1>4. ASSUME NEW c \in Call, \/ Web!Initialized(c) \/ Web!NotInitialized(c)
                             \/ Web!SaveFails(c) \/ Web!NoSuchNetwork(c)
      PROVE  WebTypes' /\ Makes
  <2>1. /\ UNCHANGED <<businessNetworks, chaincodes, session, deployed, undeployed, reloads>>
        /\ \/ /\ webCall' = [webCall EXCEPT ![c][3] = "load"] /\ started' = started \union {c}
              /\ Starting(c, {"init"})
           \/ webCall' = [webCall EXCEPT ![c][3] = "failed"] /\ started' = started
    BY <1>4 DEF Web!Initialized, Web!NotInitialized, Web!SaveFails, Web!NoSuchNetwork,
                Web!Goto, Web!At, Starting
  <2>2. WebTypes'
    BY <1>1, <2>1 DEF WebTypes
  <2>3. /\ \A d \in Call : Starting(d, {"load", "save"})' =>
              d \in started' \/ Starting(d, {"load", "save"})
        /\ \A d \in Call : Starting(d, {"init", "load", "save"})' =>
              Starting(d, {"init", "load", "save"})
    BY <2>1 DEF Starting, WebTypes
  <2> QED BY <2>1, <2>2, <2>3 DEF Makes, There
<1>5. ASSUME Web!Reload PROVE WebTypes' /\ Makes
  <2>1. /\ UNCHANGED <<started, deployed, undeployed>>
        /\ reloads' = reloads + 1 /\ reloads \in Nat
        /\ businessNetworks' = [n \in Network |-> None] /\ chaincodes' = {}
        /\ session' = [c \in Call |-> None]
        /\ webCall' = [c \in Call |-> IF webCall[c][3] \in {"new", "done", "failed"} THEN webCall[c]
                                   ELSE <<webCall[c][1], webCall[c][2], "failed">>]
    BY <1>5 DEF Web!Reload, Web!NoNetworks, Web!Over, WebTypes
  <2>2. WebTypes'
    BY <1>1, <2>1 DEF WebTypes, Entries
  <2>3. \A d \in Call : ~ Starting(d, {"load", "save"})'
    BY <2>1 DEF Starting
  <2> QED BY <2>1, <2>2, <2>3 DEF Makes
<1> QED BY <1>2, <1>3, <1>4, <1>5, NamesMade

LEMMA LoadStep ==
    ASSUME Web!NoneAssumption, WebInv, NEW c \in Call, Web!Load(c)
    PROVE  WebInv'
<1> USE DEF WebInv
<1>1. /\ loaded' = [loaded EXCEPT ![c] = profile]
      /\ \E s \in {"loaded", "save"} : webCall' = [webCall EXCEPT ![c][3] = s]
      /\ webCall[c][3] = "load"
      /\ UNCHANGED <<profile, started, businessNetworks, chaincodes, session, deployed,
                     undeployed, reloads>>
  BY DEF Web!Load, Web!Goto
<1>2. WebTypes'
  BY <1>1 DEF WebTypes
<1>3. Names
  BY <1>1 DEF Names, WebTypes
<1>4. Makes
  BY <1>1 DEF Makes, Starting, WebTypes, There
<1> QED BY <1>2, <1>3, <1>4, NamesMade

\* A save puts the copy of the call in place of the profile, with one entry of its own.
LEMMA SavedEntries ==
    ASSUME Web!NoneAssumption, WebTypes, NEW c \in Call, Web!Save(c)
    PROVE  /\ profile' \in Entries /\ Web!NetworkOf(c) \in Network
           /\ \A n \in Network : Web!Networks(profile')[n] =
                 IF n # Web!NetworkOf(c) THEN Web!Networks(loaded[c])[n]
                 ELSE IF webCall[c][1] = "start" THEN c ELSE None
           /\ webCall' = [webCall EXCEPT ![c][3] = "done"] /\ webCall[c][3] = "save"
<1>1. Web!Networks(loaded[c]) \in Entries /\ Web!NetworkOf(c) \in Network
  BY NetworksEntries DEF WebTypes, Web!NetworkOf
<1>2. profile' = [Web!Networks(loaded[c]) EXCEPT
                     ![Web!NetworkOf(c)] = IF webCall[c][1] = "start" THEN c ELSE None]
  BY DEF Web!Save, Web!Saved
<1>3. profile' \in Entries
  BY <1>1, <1>2 DEF Entries
<1>4. Web!Networks(profile') = profile'
  BY <1>3, NetworksEntries
<1>5. webCall' = [webCall EXCEPT ![c][3] = "done"] /\ webCall[c][3] = "save"
  BY DEF Web!Save, Web!Goto
<1> QED BY <1>1, <1>2, <1>3, <1>4, <1>5 DEF Entries

LEMMA SaveStep ==
    ASSUME Web!NoneAssumption, WebInv, NEW c \in Call, Web!Save(c)
    PROVE  WebInv'
<1> USE DEF WebInv
<1>1. UNCHANGED <<started, businessNetworks, chaincodes, loaded, session, undeployed, reloads>>
  BY DEF Web!Save
<1>2. WebTypes'
  <2>1. deployed' \subseteq Network
    <3>1. Web!NetworkOf(c) \in Network /\ deployed \subseteq Network
      BY SavedEntries DEF WebTypes
    <3>2. deployed' \subseteq deployed \union {Web!NetworkOf(c)}
      BY DEF Web!Save
    <3> QED BY <3>1, <3>2
  <2> QED BY <1>1, <2>1, SavedEntries DEF WebTypes
<1>3. Names
  <2>1. webCall[c][1] = "start" => Starting(c, {"save"})
    BY SavedEntries DEF Starting
  <2> QED BY <1>1, <2>1, SavedEntries DEF Names
<1>4. Makes
  BY <1>1, SavedEntries DEF Makes, Starting, WebTypes, There
<1> QED BY <1>2, <1>3, <1>4, NamesMade

LEMMA LoggedInStep ==
    ASSUME Web!NoneAssumption, WebInv, NEW c \in Call, Web!LoggedIn(c)
    PROVE  WebInv'
<1> USE DEF WebInv
<1> DEFINE n == Web!NetworkOf(c)
           id == Web!Networks(loaded[c])[n]
<1>1. /\ session' = [session EXCEPT ![c] = id] /\ id # None
      /\ webCall' = [webCall EXCEPT ![c][3] = "done"]
      /\ \/ /\ businessNetworks' = [businessNetworks EXCEPT ![n] = id]
            /\ chaincodes' = chaincodes \union {id}
         \/ UNCHANGED <<businessNetworks, chaincodes>>
      /\ UNCHANGED <<profile, started, loaded, deployed, undeployed, reloads>>
  BY DEF Web!LoggedIn, Web!Goto
<1>2. n \in Network /\ id \in Call
  <2>1. n \in Network /\ loaded[c] \in Entries \union {None}
    BY DEF WebTypes, Web!NetworkOf
  <2> QED BY <1>1, <2>1, NetworksEntries DEF Entries
<1>3. Names
  BY <1>1, <1>2 DEF Names, WebTypes
<1> HIDE DEF id, n
<1>4. WebTypes'
  <2>1. businessNetworks' \in Entries /\ chaincodes' \subseteq Call
    BY <1>1, <1>2 DEF WebTypes, Entries
  <2>2. session' \in [Call -> Call \union {None}]
    BY <1>1, <1>2 DEF WebTypes
  <2> QED BY <1>1, <2>1, <2>2 DEF WebTypes
<1>5. Makes
  BY <1>1 DEF Makes, Starting, WebTypes, There
<1> QED BY <1>3, <1>4, <1>5, NamesMade

THEOREM WebInvariant ==
    ASSUME Web!NoneAssumption
    PROVE  Web!Spec => []WebInv
<1>1. WebInv /\ [Web!Next]_(Web!vars) => WebInv'
  <2> SUFFICES ASSUME WebInv, [Web!Next]_(Web!vars) PROVE WebInv'  OBVIOUS
  <2>1. CASE UNCHANGED Web!vars
    BY <2>1 DEF Web!vars, WebInv, WebTypes, StartedInv, ThereInv, Starting, There
  <2>2. ASSUME NEW c \in Call, Web!Load(c) PROVE WebInv'
    BY <2>2, LoadStep
  <2>3. ASSUME NEW c \in Call, Web!Save(c) PROVE WebInv'
    BY <2>3, SaveStep
  <2>4. ASSUME NEW c \in Call, Web!LoggedIn(c) PROVE WebInv'
    BY <2>4, LoggedInStep
  <2>5. ASSUME \/ \E c \in Call, n \in Network :
                     Web!Start(c, n) \/ Web!Undeploy(c, n) \/ Web!Login(c, n)
               \/ \E c \in Call : \/ Web!Initialized(c) \/ Web!NotInitialized(c)
                                  \/ Web!SaveFails(c) \/ Web!NoSuchNetwork(c)
               \/ Web!Reload
        PROVE  WebInv'
    BY <2>5, QuietStep
  <2> QED BY <2>1, <2>2, <2>3, <2>4, <2>5 DEF Web!Next
<1> QED BY <1>1, WebInit, PTL DEF Web!Spec

\* A client that logs in gets a network that was started to the end, whatever failed,
\* overlapped or was reloaded, although start publishes the chaincode in the maps before
\* it is initialized (webconnection.js:307).
THEOREM WebSessionStarted ==
    ASSUME Web!NoneAssumption
    PROVE  Web!Spec => []Web!SessionStarted
<1>1. WebInv => Web!SessionStarted
  BY DEF WebInv, StartedInv, Web!SessionStarted
<1> QED BY <1>1, WebInvariant, PTL

\* Until the page is reloaded, the chaincode of a session is in memory as long as its
\* network is not undeployed, however calls overlap (webconnection.js:173).
THEOREM WebSessionServed ==
    ASSUME Web!NoneAssumption
    PROVE  Web!Spec => [](reloads = 0 => Web!SessionServed)
<1>1. WebInv => (reloads = 0 => Web!SessionServed)
  BY DEF WebInv, ThereInv, There, Web!SessionServed
<1> QED BY <1>1, WebInvariant, PTL

\* Without overlap a call saves what the others have saved, with a change of its own.
AloneInv ==
    /\ \A c, d \in Call : webCall[c][3] \notin Web!Over /\ webCall[d][3] \notin Web!Over => c = d
    /\ \A c \in Call : webCall[c][3] = "save" => loaded[c] = profile
    /\ Web!DeployedListed

LEMMA AloneStep ==
    ASSUME Web!NoneAssumption, ~ overlap, WebInv, WebInv', AloneInv, Web!Next
    PROVE  AloneInv'
<1> USE DEF WebInv, Web!Over
<1>1. ASSUME NEW c \in Call, NEW n \in Network,
             Web!Start(c, n) \/ Web!Undeploy(c, n) \/ Web!Login(c, n)
      PROVE  AloneInv'
  <2>1. \A d \in Call : webCall[d][3] \in {"new", "done", "failed"}
    BY <1>1 DEF Web!Start, Web!Undeploy, Web!Login, Web!MayBegin
  <2>2. /\ \E k \in {"start", "undeploy", "login"}, s \in {"init", "load"} :
              webCall' = [webCall EXCEPT ![c] = <<k, n, s>>]
        /\ UNCHANGED <<profile, loaded>> /\ deployed' \subseteq deployed
    BY <1>1 DEF Web!Start, Web!Undeploy, Web!Login
  <2>3. \A d \in Call \ {c} : webCall'[d] = webCall[d]
    BY <2>2 DEF WebTypes
  <2>4. webCall'[c][3] \in {"init", "load"}
    BY <2>2 DEF WebTypes
  <2>5. Web!DeployedListed'
    BY <2>2 DEF AloneInv, Web!DeployedListed
  <2> QED BY <2>1, <2>3, <2>4, <2>5 DEF AloneInv
<1>2. ASSUME NEW c \in Call,
             \/ Web!Initialized(c) \/ Web!NotInitialized(c) \/ Web!SaveFails(c)
             \/ Web!NoSuchNetwork(c) \/ Web!LoggedIn(c) \/ Web!Load(c)
      PROVE  AloneInv'
  <2>1. /\ webCall[c][3] \notin Web!Over
        /\ \E s \in {"load", "loaded", "save", "done", "failed"} :
              /\ webCall' = [webCall EXCEPT ![c][3] = s]
              /\ s = "save" => loaded' = [loaded EXCEPT ![c] = profile]
        /\ loaded' = loaded \/ loaded' = [loaded EXCEPT ![c] = profile]
        /\ UNCHANGED <<profile, deployed>>
    BY <1>2 DEF Web!Initialized, Web!NotInitialized, Web!SaveFails, Web!NoSuchNetwork,
                Web!LoggedIn, Web!Load, Web!At, Web!Goto
  <2>2. \A d \in Call \ {c} : webCall'[d] = webCall[d] /\ webCall[d][3] \in Web!Over
    BY <2>1 DEF AloneInv, WebTypes
  <2>3. webCall'[c][3] = "save" => loaded'[c] = profile'
    BY <2>1 DEF WebTypes
  <2>4. Web!DeployedListed'
    BY <2>1 DEF AloneInv, Web!DeployedListed
  <2> QED BY <2>2, <2>3, <2>4 DEF AloneInv
<1>3. ASSUME NEW c \in Call, Web!Save(c) PROVE AloneInv'
  <2>1. loaded[c] = profile /\ webCall[c][3] \notin Web!Over
    BY <1>3, SavedEntries DEF AloneInv
  <2>2. \A d \in Call \ {c} : webCall'[d] = webCall[d] /\ webCall[d][3] \in Web!Over
    BY <1>3, <2>1, SavedEntries DEF AloneInv, WebTypes
  <2>3. webCall'[c][3] = "done"
    BY <1>3, SavedEntries DEF WebTypes
  <2>4. deployed' = IF webCall[c][1] = "start" THEN deployed \union {Web!NetworkOf(c)}
                    ELSE deployed \ {Web!NetworkOf(c)}
    BY <1>3 DEF Web!Save
  <2>5. ASSUME NEW n \in deployed' PROVE Web!Networks(profile')[n] # None
    <3>1. n \in Network
      BY DEF WebTypes
    <3>2. CASE n = Web!NetworkOf(c)
      BY <1>3, <2>4, <3>1, <3>2, SavedEntries DEF Web!NoneAssumption
    <3>3. CASE n # Web!NetworkOf(c)
      BY <1>3, <2>1, <2>4, <3>1, <3>3, SavedEntries DEF AloneInv, Web!DeployedListed
    <3> QED BY <3>2, <3>3
  <2> QED BY <2>2, <2>3, <2>5 DEF AloneInv, Web!DeployedListed
<1>4. ASSUME Web!Reload PROVE AloneInv'
  <2>1. \A d \in Call : webCall'[d][3] \in {"new", "done", "failed"}
    BY <1>4 DEF Web!Reload
  <2>2. Web!DeployedListed'
    BY <1>4 DEF Web!Reload, AloneInv, Web!DeployedListed
  <2> QED BY <2>1, <2>2 DEF AloneInv
<1> QED BY <1>1, <1>2, <1>3, <1>4 DEF Web!Next

\* One call at a time, a network that was started and not undeployed is listed, through
\* failures and reloads at every step (webconnection.js:495).
THEOREM WebDeployedListed ==
    ASSUME Web!NoneAssumption
    PROVE  Web!Spec => [](~overlap => Web!DeployedListed)
<1> DEFINE WhileAlone == overlap \/ AloneInv
<1>1. Web!Init => WhileAlone
  BY DEF Web!Init, AloneInv, Web!DeployedListed, Web!Over
<1>2. WebInv /\ WebInv' /\ WhileAlone /\ [Web!Next]_(Web!vars) => WhileAlone'
  <2> SUFFICES ASSUME WebInv, WebInv', WhileAlone, [Web!Next]_(Web!vars) PROVE WhileAlone'
    OBVIOUS
  <2>1. overlap' = overlap
    BY DEF Web!Next, Web!vars
  <2>2. CASE UNCHANGED Web!vars
    BY <2>2 DEF Web!vars, AloneInv, Web!DeployedListed
  <2>3. CASE overlap
    BY <2>1, <2>3
  <2>4. CASE Web!Next /\ ~overlap
    BY <2>4, AloneStep
  <2> QED BY <2>2, <2>3, <2>4
<1>3. WhileAlone => (~overlap => Web!DeployedListed)
  BY DEF AloneInv
<1> HIDE DEF WhileAlone
<1> QED BY <1>1, <1>2, <1>3, WebInvariant, PTL DEF Web!Spec

ReloadsBounded == reloads \in 0 .. MaxReloads

\* Networks in a browser: every session is on a network that was started to the end, is
\* served as long as the page is not reloaded, and, one call at a time, what is deployed is
\* listed (webconnection.js, start, undeploy, login, list).
THEOREM WebAsPromised ==
    ASSUME Web!NoneAssumption
    PROVE  Web!Spec => []Web!WebSound
<1>1. Web!Spec => []ReloadsBounded
  <2>1. Web!Init => ReloadsBounded
    BY DEF Web!Init, Web!NoneAssumption, ReloadsBounded
  <2>2. ReloadsBounded /\ [Web!Next]_(Web!vars) => ReloadsBounded'
    <3> SUFFICES ASSUME ReloadsBounded, [Web!Next]_(Web!vars) PROVE ReloadsBounded'
      OBVIOUS
    <3>1. CASE Web!Reload
      BY <3>1 DEF Web!Reload, Web!NoneAssumption, ReloadsBounded
    <3>2. CASE ~ Web!Reload
      BY <3>2 DEF ReloadsBounded, Web!Next, Web!vars, Web!Start, Web!Undeploy, Web!Login, Web!Initialized,
              Web!NotInitialized, Web!SaveFails, Web!NoSuchNetwork, Web!Load, Web!Save,
              Web!LoggedIn
    <3> QED BY <3>1, <3>2
  <2> QED BY <2>1, <2>2, PTL DEF Web!Spec
<1>2. WebInv /\ ReloadsBounded => Web!TypeOK
  BY DEF ReloadsBounded, WebInv, WebTypes, Entries, Web!TypeOK, Web!Chaincode
<1>3. Web!Spec => [](Web!TypeOK /\ Web!SessionStarted)
  BY <1>1, <1>2, WebInvariant, WebSessionStarted, PTL
<1> DEFINE Listed == ~overlap => Web!DeployedListed
           Serves == reloads = 0 => Web!SessionServed
<1>4. Web!Spec => []Listed
  BY WebDeployedListed
<1>5. Web!Spec => []Serves
  BY WebSessionServed
<1>6. Web!TypeOK /\ Web!SessionStarted /\ Listed /\ Serves => Web!WebSound
  BY DEF Web!WebSound
<1> HIDE DEF Listed, Serves
<1> QED BY <1>3, <1>4, <1>5, <1>6, PTL

-----------------------------------------------------------------------------
(***************************************************************************)
(* Install, start, deploy and upgrade: what runs on the channel is         *)
(* installed everywhere, one start takes effect, upgrades stay within a    *)
(* minor version, and answers are true.                                    *)
(***************************************************************************)
RuntimeTypes ==
    /\ installed \in [Peer -> SUBSET (Before \union (Nat \X Nat))]
    /\ channel \in [version : (Nat \X Nat) \union {None}, changes : Nat]
    /\ ordering \subseteq Admin
    /\ outcome \in [Admin -> {"VALID", "INVALID", None}]
    /\ op \in [Admin -> AdminCall]
    /\ step \in [Admin -> {"install", "check", "query", "propose", "send", "wait",
                           "done", "refused", "failed"}]
    /\ answers \in [Admin -> [Peer -> {"exists", "installed", "failed", None}]]
    /\ existed \in [Admin -> BOOLEAN]
    /\ read \in [Admin -> Nat \union {None}]

\* A version of the network that is there, all within one minor.
OfTheMinor(v) == Runtime!Instantiated /\ v[1] = channel.version[1]

\* What was endorsed can run everywhere when it is committed, however late that is, and
\* an upgrade is to the minor version of what runs then.
Endorsement(c) ==
    /\ read[c] \in Nat
    /\ Runtime!Everywhere(Runtime!VersionOf(c))
    /\ IF op[c].kind = "upgrade" THEN OfTheMinor(Runtime!VersionOf(c)) ELSE read[c] = 0

\* Where a call is says what it has found and done so far.
CallAnswers(c) ==
    \A p \in Peer : answers[c][p] \in {"exists", "installed"} =>
        Runtime!VersionOf(c) \in installed[p]
CallEarly(c) ==
    /\ step[c] \in {"install", "check", "query", "propose", "send"} =>
          outcome[c] = None /\ c \notin ordering
    /\ step[c] = "install" => op[c].kind \in {"install", "deploy"}
    /\ step[c] = "query" =>
          op[c].kind = "deploy" /\ Runtime!Everywhere(Runtime!VersionOf(c))
    /\ step[c] = "check" => op[c].kind = "upgrade"
CallLate(c) ==
    /\ step[c] \in {"propose", "send", "wait"} => op[c].kind # "install"
    /\ step[c] = "propose" /\ op[c].kind = "upgrade" => OfTheMinor(Runtime!VersionOf(c))
    /\ step[c] = "send" \/ c \in ordering => Endorsement(c)
    /\ c \in ordering => outcome[c] = None
CallEnded(c) ==
    /\ step[c] = "done" =>
          /\ Runtime!Everywhere(Runtime!VersionOf(c))
          /\ op[c].kind # "install" => Runtime!Instantiated
          /\ op[c].kind \in {"start", "upgrade"} => outcome[c] = "VALID"
    /\ step[c] = "refused" => Runtime!Instantiated
CallInv(c) == CallAnswers(c) /\ CallEarly(c) /\ CallLate(c) /\ CallEnded(c)

\* The channel is what valid transactions have made of it.
ChannelInv ==
    /\ Runtime!Instantiated <=> channel.changes > 0
    /\ Runtime!RunsInstalled
    /\ \A c \in Runtime!Valid :
          OfTheMinor(Runtime!VersionOf(c)) /\ Runtime!Everywhere(Runtime!VersionOf(c))
    /\ Runtime!StartedOnce

RuntimeInv == RuntimeTypes /\ ChannelInv /\ \A c \in Admin : CallInv(c)

LEMMA CallOp ==
    ASSUME Runtime!DeploymentAssumption, RuntimeTypes, NEW c \in Admin
    PROVE  /\ op[c].kind \in {"install", "start", "deploy", "upgrade"}
           /\ Runtime!VersionOf(c) \in Nat \X Nat
           /\ Runtime!VersionOf(c) # None
BY DEF Runtime!DeploymentAssumption, RuntimeTypes, Runtime!VersionOf

\* No peer forgets what it has installed, and a network that is there stays there, in
\* its minor version.
Grows ==
    /\ \A p \in Peer : installed[p] \subseteq installed'[p]
    /\ Runtime!Instantiated =>
          Runtime!Instantiated' /\ channel'.version[1] = channel.version[1]

\* A call that does not take the step keeps what it has.
LEMMA CallFrame ==
    ASSUME Grows, NEW c \in Admin, CallInv(c), op' = op, step'[c] = step[c],
           outcome'[c] = outcome[c], answers'[c] = answers[c], read'[c] = read[c],
           c \in ordering' <=> c \in ordering
    PROVE  CallInv(c)'
<1>1. Runtime!VersionOf(c)' = Runtime!VersionOf(c)
  BY DEF Runtime!VersionOf
<1>2. \A v : Runtime!Everywhere(v) => Runtime!Everywhere(v)'
  BY DEF Grows, Runtime!Everywhere
<1>3. Runtime!Instantiated => Runtime!Instantiated'
  BY DEF Grows
<1>4. OfTheMinor(Runtime!VersionOf(c)) => OfTheMinor(Runtime!VersionOf(c))'
  BY <1>1 DEF Grows, OfTheMinor
<1>5. CallAnswers(c)'
  BY <1>1 DEF Grows, CallInv, CallAnswers
<1>6. CallEarly(c)'
  BY <1>1, <1>2 DEF CallInv, CallEarly
<1>7. Endorsement(c) => Endorsement(c)'
  BY <1>1, <1>2, <1>4 DEF Endorsement
<1>8. CallLate(c)'
  BY <1>1, <1>4, <1>7 DEF CallInv, CallLate
<1>9. CallEnded(c)'
  BY <1>1, <1>2, <1>3 DEF CallInv, CallEnded
<1> QED BY <1>5, <1>6, <1>8, <1>9 DEF CallInv

\* While the channel and the outcomes stay, so does what is said of them.
LEMMA ChannelFrame ==
    ASSUME ChannelInv, Grows, UNCHANGED <<channel, outcome, op>>
    PROVE  ChannelInv'
<1>1. Runtime!Valid' = Runtime!Valid /\ Runtime!Instantiated' = Runtime!Instantiated
  BY DEF Runtime!Valid, Runtime!Instantiated
<1>2. \A v : Runtime!Everywhere(v) => Runtime!Everywhere(v)'
  BY DEF Grows, Runtime!Everywhere
<1>3. \A c : Runtime!VersionOf(c)' = Runtime!VersionOf(c)
  BY DEF Runtime!VersionOf
<1>4. Runtime!RunsInstalled'
  BY <1>1, <1>2 DEF ChannelInv, Runtime!RunsInstalled
<1>5. Runtime!StartedOnce'
  BY <1>1 DEF ChannelInv, Runtime!StartedOnce
<1>6. ASSUME NEW c \in Runtime!Valid'
      PROVE  (OfTheMinor(Runtime!VersionOf(c)) /\ Runtime!Everywhere(Runtime!VersionOf(c)))'
  BY <1>1, <1>2, <1>3 DEF ChannelInv, OfTheMinor
<1> QED BY <1>1, <1>4, <1>5, <1>6 DEF ChannelInv

LEMMA RuntimeInit ==
    ASSUME Runtime!DeploymentAssumption
    PROVE  Runtime!Init => RuntimeInv
<1> SUFFICES ASSUME Runtime!Init PROVE RuntimeInv  OBVIOUS
<1>1. RuntimeTypes
  BY DEF Runtime!Init, Runtime!First, RuntimeTypes, Runtime!DeploymentAssumption
<1>2. ChannelInv
  BY DEF Runtime!Init, ChannelInv, Runtime!Instantiated, Runtime!RunsInstalled, Runtime!Valid,
         Runtime!StartedOnce, Runtime!DeploymentAssumption
<1>3. ASSUME NEW c \in Admin PROVE CallInv(c)
  <2>1. op[c].kind \in {"install", "start", "deploy", "upgrade"}
    BY <1>1, CallOp
  <2>2. step[c] = Runtime!First(op[c].kind)
    BY DEF Runtime!Init
  <2> QED BY <2>1, <2>2
          DEF Runtime!Init, Runtime!First, CallInv, CallAnswers, CallEarly, CallLate, CallEnded,
              Runtime!DeploymentAssumption
<1> QED BY <1>1, <1>2, <1>3 DEF RuntimeInv

\* A step of one call changes nothing of the others: they keep their part when
\* installations and the channel grow.
LEMMA OtherCalls ==
    ASSUME RuntimeInv, Grows, NEW c \in Admin, op' = op,
           \A d \in Admin \ {c} :
              /\ step'[d] = step[d] /\ outcome'[d] = outcome[d] /\ answers'[d] = answers[d]
              /\ read'[d] = read[d] /\ (d \in ordering' <=> d \in ordering)
    PROVE  \A d \in Admin \ {c} : CallInv(d)'
BY CallFrame DEF RuntimeInv

LEMMA InstallStep ==
    ASSUME Runtime!DeploymentAssumption, RuntimeInv, NEW c \in Admin, NEW p \in Peer,
           Runtime!Install(c, p) \/ Runtime!InstallFails(c, p)
    PROVE  RuntimeInv'
<1> USE DEF RuntimeInv
<1>1. /\ UNCHANGED <<channel, ordering, outcome, op, step, existed, read>>
      /\ step[c] = "install" /\ answers[c][p] = None
      /\ \E a \in {"exists", "installed", "failed"} :
            /\ answers' = [answers EXCEPT ![c][p] = a]
            /\ a # "failed" => Runtime!VersionOf(c) \in installed'[p]
      /\ \/ installed' = [installed EXCEPT ![p] = @ \union {Runtime!VersionOf(c)}]
         \/ UNCHANGED installed
  BY DEF Runtime!Install, Runtime!InstallFails, RuntimeTypes
<1>2. Runtime!VersionOf(c) \in Nat \X Nat /\ Runtime!VersionOf(c)' = Runtime!VersionOf(c)
  BY <1>1, CallOp DEF Runtime!VersionOf
<1>3. RuntimeTypes'
  BY <1>1, <1>2 DEF RuntimeTypes
<1>4. Grows
  BY <1>1 DEF Grows, RuntimeTypes, Runtime!Instantiated
<1>5. ChannelInv'
  BY <1>1, <1>4, ChannelFrame
<1>6. \A d \in Admin \ {c} : CallInv(d)'
  BY <1>1, <1>4, OtherCalls DEF RuntimeTypes
<1>7. CallInv(c)'
  <2>1. CallAnswers(c)'
    BY <1>1, <1>2, <1>4 DEF CallInv, CallAnswers, RuntimeTypes, Grows
  <2>2. CallEarly(c)' /\ CallEnded(c)'
    BY <1>1 DEF CallInv, CallEarly, CallEnded
  <2>3. CallLate(c)'
    BY <1>1 DEF CallInv, CallEarly, CallLate
  <2> QED BY <2>1, <2>2, <2>3 DEF CallInv
<1> QED BY <1>3, <1>5, <1>6, <1>7

LEMMA InstalledStep ==
    ASSUME Runtime!DeploymentAssumption, RuntimeInv, NEW c \in Admin, Runtime!Installed(c)
    PROVE  RuntimeInv'
<1> USE DEF RuntimeInv
<1>1. RuntimeTypes'
  BY DEF Runtime!Installed, Runtime!Goto, RuntimeTypes
<1>2. Grows /\ UNCHANGED <<installed, channel, ordering, outcome, op, read>>
  BY DEF Runtime!Installed, Grows, Runtime!Instantiated
<1>3. ChannelInv'
  BY <1>2, ChannelFrame
<1>4. \A d \in Admin \ {c} : CallInv(d)'
  BY <1>2, OtherCalls DEF Runtime!Installed, Runtime!Goto, RuntimeTypes
<1>5. step[c] = "install" /\ op[c].kind \in {"install", "deploy"}
  BY DEF Runtime!Installed, CallInv, CallEarly
<1>6. Runtime!VersionOf(c)' = Runtime!VersionOf(c)
  BY <1>2 DEF Runtime!VersionOf
<1>7. ASSUME ~ Runtime!Answered(c, "failed") PROVE Runtime!Everywhere(Runtime!VersionOf(c))'
  <2> SUFFICES ASSUME NEW p \in Peer PROVE Runtime!VersionOf(c) \in installed[p]
    BY <1>2, <1>6 DEF Runtime!Everywhere
  <2>1. answers[c][p] \in {"exists", "installed"}
    BY <1>7 DEF Runtime!Installed, Runtime!Answered, RuntimeTypes
  <2> QED BY <2>1 DEF CallInv, CallAnswers
<1>8. step'[c] \in {"failed", "query", "done"}
      /\ (step'[c] # "failed" => ~ Runtime!Answered(c, "failed"))
      /\ (step'[c] = "query" => op[c].kind = "deploy")
      /\ (step'[c] = "done" => op[c].kind = "install")
  BY <1>5 DEF Runtime!Installed, Runtime!Goto, RuntimeTypes
<1>9. CallInv(c)'
  <2>1. CallAnswers(c)'
    BY DEF Runtime!Installed, CallAnswers, RuntimeTypes, Runtime!DeploymentAssumption
  <2>2. CallEarly(c)' /\ CallLate(c)' /\ CallEnded(c)'
    BY <1>2, <1>5, <1>6, <1>7, <1>8 DEF CallInv, CallEarly, CallLate, CallEnded
  <2> QED BY <2>1, <2>2 DEF CallInv
<1> QED BY <1>1, <1>3, <1>4, <1>9

\* Steps of a call that only look: what it goes on to is true of what it has found.
LEMMA LookStep ==
    ASSUME Runtime!DeploymentAssumption, RuntimeInv, NEW c \in Admin,
           Runtime!Query(c) \/ Runtime!Check(c)
    PROVE  RuntimeInv'
<1> USE DEF RuntimeInv
<1>1. RuntimeTypes'
  BY DEF Runtime!Query, Runtime!Check, Runtime!Goto, RuntimeTypes
<1>2. Grows /\ UNCHANGED <<installed, channel, ordering, outcome, op, answers, read>>
  BY DEF Runtime!Query, Runtime!Check, Grows, Runtime!Instantiated
<1>3. ChannelInv'
  BY <1>2, ChannelFrame
<1>4. \A d \in Admin \ {c} : CallInv(d)'
  BY <1>2, OtherCalls DEF Runtime!Query, Runtime!Check, Runtime!Goto, RuntimeTypes
<1>5. /\ Runtime!VersionOf(c)' = Runtime!VersionOf(c)
      /\ Runtime!Everywhere(Runtime!VersionOf(c))' <=> Runtime!Everywhere(Runtime!VersionOf(c))
      /\ Runtime!Instantiated' <=> Runtime!Instantiated
      /\ OfTheMinor(Runtime!VersionOf(c))' <=> OfTheMinor(Runtime!VersionOf(c))
  BY <1>2 DEF Runtime!VersionOf, Runtime!Everywhere, Runtime!Instantiated, OfTheMinor
<1>6. CASE Runtime!Query(c)
  <2>1. /\ step[c] = "query"
        /\ \/ step'[c] = "propose"
           \/ step'[c] \in {"refused", "done"} /\ Runtime!Instantiated
    BY <1>6 DEF Runtime!Query, Runtime!Goto, RuntimeTypes
  <2>2. CallAnswers(c)' /\ CallEarly(c)' /\ CallLate(c)' /\ CallEnded(c)'
    BY <1>2, <1>5, <2>1 DEF CallInv, CallAnswers, CallEarly, CallLate, CallEnded
  <2> QED BY <1>1, <1>3, <1>4, <2>2 DEF CallInv
<1>7. CASE Runtime!Check(c)
  <2>1. /\ step[c] = "check"
        /\ \/ step'[c] = "propose" /\ OfTheMinor(Runtime!VersionOf(c))
           \/ step'[c] = "failed"
    BY <1>7 DEF Runtime!Check, Runtime!Goto, Runtime!Compatible, OfTheMinor, RuntimeTypes
  <2>2. CallAnswers(c)' /\ CallEarly(c)' /\ CallLate(c)' /\ CallEnded(c)'
    BY <1>2, <1>5, <2>1 DEF CallInv, CallAnswers, CallEarly, CallLate, CallEnded
  <2> QED BY <1>1, <1>3, <1>4, <2>2 DEF CallInv
<1> QED BY <1>6, <1>7

LEMMA ProposeStep ==
    ASSUME Runtime!DeploymentAssumption, RuntimeInv, NEW c \in Admin, Runtime!Propose(c)
    PROVE  RuntimeInv'
<1> USE DEF RuntimeInv
<1>1. RuntimeTypes'
  BY DEF Runtime!Propose, Runtime!Goto, RuntimeTypes
<1>2. Grows /\ UNCHANGED <<installed, channel, ordering, outcome, op, answers>>
  BY DEF Runtime!Propose, Grows, Runtime!Instantiated
<1>3. ChannelInv'
  BY <1>2, ChannelFrame
<1>4. \A d \in Admin \ {c} : CallInv(d)'
  BY <1>2, OtherCalls DEF Runtime!Propose, Runtime!Goto, RuntimeTypes
<1>5. /\ Runtime!VersionOf(c)' = Runtime!VersionOf(c)
      /\ Runtime!Everywhere(Runtime!VersionOf(c))' <=> Runtime!Everywhere(Runtime!VersionOf(c))
      /\ OfTheMinor(Runtime!VersionOf(c))' <=> OfTheMinor(Runtime!VersionOf(c))
  BY <1>2 DEF Runtime!VersionOf, Runtime!Everywhere, Runtime!Instantiated, OfTheMinor
<1>6. step[c] = "propose" /\ op[c].kind # "install"
  BY DEF Runtime!Propose, CallInv, CallLate
<1>7. \/ step'[c] = "failed" /\ read' = read
      \/ step'[c] = "send" /\ Endorsement(c)'
  <2>1. CASE ~ Runtime!Endorsed(c)
    BY <2>1 DEF Runtime!Propose, Runtime!Goto, RuntimeTypes
  <2>2. CASE Runtime!Endorsed(c)
    <3>1. step'[c] = "send" /\ read'[c] = channel.changes /\ channel.changes \in Nat
      BY <2>2 DEF Runtime!Propose, Runtime!Goto, RuntimeTypes
    <3>2. op[c].kind # "upgrade" => channel.changes = 0
      BY <2>2, <3>1 DEF Runtime!Endorsed, ChannelInv
    <3>3. op[c].kind = "upgrade" => OfTheMinor(Runtime!VersionOf(c))
      BY <1>6 DEF CallInv, CallLate
    <3> QED BY <1>2, <1>5, <2>2, <3>1, <3>2, <3>3 DEF Endorsement, Runtime!Endorsed
  <2> QED BY <2>1, <2>2
<1>8. CallInv(c)'
  <2>1. CallAnswers(c)' /\ CallEarly(c)' /\ CallEnded(c)'
    BY <1>2, <1>5, <1>6, <1>7 DEF CallInv, CallAnswers, CallEarly, CallEnded
  <2>2. CallLate(c)'
    BY <1>2, <1>5, <1>6, <1>7 DEF CallInv, CallEarly, CallLate
  <2> QED BY <2>1, <2>2 DEF CallInv
<1> QED BY <1>1, <1>3, <1>4, <1>8

\* The end of a call, and the request before it.
LEMMA SendStep ==
    ASSUME Runtime!DeploymentAssumption, RuntimeInv, NEW c \in Admin,
           Runtime!Send(c) \/ Runtime!Notified(c) \/ Runtime!Fail(c)
    PROVE  RuntimeInv'
<1> USE DEF RuntimeInv
<1>1. RuntimeTypes'
  BY DEF Runtime!Send, Runtime!Notified, Runtime!Fail, Runtime!Goto, RuntimeTypes
<1>2. Grows /\ UNCHANGED <<installed, channel, outcome, op, answers>>
  BY DEF Runtime!Send, Runtime!Notified, Runtime!Fail, Grows, Runtime!Instantiated
<1>3. ChannelInv'
  BY <1>2, ChannelFrame
<1>4. \A d \in Admin \ {c} : CallInv(d)'
  BY <1>2, OtherCalls DEF Runtime!Send, Runtime!Notified, Runtime!Fail, Runtime!Goto, RuntimeTypes
<1>5. /\ Runtime!VersionOf(c)' = Runtime!VersionOf(c)
      /\ Runtime!Everywhere(Runtime!VersionOf(c))' <=> Runtime!Everywhere(Runtime!VersionOf(c))
      /\ Runtime!Instantiated' <=> Runtime!Instantiated
      /\ OfTheMinor(Runtime!VersionOf(c))' <=> OfTheMinor(Runtime!VersionOf(c))
  BY <1>2 DEF Runtime!VersionOf, Runtime!Everywhere, Runtime!Instantiated, OfTheMinor
<1>6. read'[c] = read[c] => Endorsement(c)' <=> Endorsement(c)
  BY <1>2, <1>5 DEF Endorsement
<1>7. CallAnswers(c)'
  BY <1>2, <1>5 DEF CallInv, CallAnswers
<1>8. CASE Runtime!Send(c)
  <2>1. /\ step[c] = "send" /\ step'[c] = "wait" /\ c \in ordering'
        /\ UNCHANGED read
    BY <1>8 DEF Runtime!Send, Runtime!Goto, RuntimeTypes
  <2>2. CallEarly(c)' /\ CallLate(c)' /\ CallEnded(c)'
    BY <1>2, <1>5, <1>6, <2>1 DEF CallInv, CallEarly, CallLate, CallEnded
  <2> QED BY <1>1, <1>3, <1>4, <1>7, <2>2 DEF CallInv
<1>9. CASE Runtime!Notified(c)
  <2>1. /\ step[c] = "wait" /\ outcome[c] # None
        /\ step'[c] = (IF outcome[c] = "VALID" THEN "done" ELSE "failed")
        /\ UNCHANGED <<read, ordering>>
    BY <1>9 DEF Runtime!Notified, Runtime!Goto, RuntimeTypes
  <2>2. outcome[c] = "VALID" =>
           Runtime!Instantiated /\ Runtime!Everywhere(Runtime!VersionOf(c))
    BY DEF ChannelInv, Runtime!Valid, OfTheMinor
  <2>3. CallEarly(c)' /\ CallLate(c)' /\ CallEnded(c)'
    BY <1>2, <1>5, <1>6, <2>1, <2>2 DEF CallInv, CallEarly, CallLate, CallEnded
  <2> QED BY <1>1, <1>3, <1>4, <1>7, <2>3 DEF CallInv
<1>10. CASE Runtime!Fail(c)
  <2>1. /\ step'[c] = "failed" /\ UNCHANGED ordering
        /\ c \in ordering => read' = read
    BY <1>10 DEF Runtime!Fail, Runtime!Goto, RuntimeTypes
  <2>2. CallEarly(c)' /\ CallLate(c)' /\ CallEnded(c)'
    BY <1>2, <1>5, <1>6, <2>1 DEF CallInv, CallEarly, CallLate, CallEnded
  <2> QED BY <1>1, <1>3, <1>4, <1>7, <2>2 DEF CallInv
<1> QED BY <1>8, <1>9, <1>10

\* A transaction takes effect: a start on a channel that has never changed, so that no
\* other was valid, an upgrade within the minor version that is there.
LEMMA ValidStep ==
    ASSUME Runtime!DeploymentAssumption, RuntimeInv, NEW c \in Admin, Runtime!Commit(c),
           read[c] = channel.changes
    PROVE  Grows /\ ChannelInv'
<1> USE DEF RuntimeInv
<1> DEFINE new == Runtime!VersionOf(c)
<1>1. /\ UNCHANGED <<installed, op>>
      /\ channel' = [version |-> new, changes |-> channel.changes + 1]
      /\ outcome' = [outcome EXCEPT ![c] = "VALID"]
      /\ c \in ordering
  BY DEF Runtime!Commit
<1>2. new # None /\ channel.changes \in Nat
  BY CallOp DEF RuntimeTypes
<1>3. Endorsement(c)
  BY <1>1 DEF CallInv, CallLate
<1>4. Runtime!Instantiated' /\ channel'.version = new /\ channel'.changes > 0
  BY <1>1, <1>2 DEF Runtime!Instantiated
<1>5. Runtime!Instantiated => op[c].kind = "upgrade" /\ OfTheMinor(new)
  BY <1>2, <1>3 DEF Endorsement, ChannelInv
<1>6. Grows
  BY <1>1, <1>4, <1>5 DEF Grows, OfTheMinor
<1>7. \A v : Runtime!Everywhere(v)' <=> Runtime!Everywhere(v)
  BY <1>1 DEF Runtime!Everywhere
<1>8. \A d : Runtime!VersionOf(d)' = Runtime!VersionOf(d)
  BY <1>1 DEF Runtime!VersionOf
<1>9. Runtime!RunsInstalled'
  BY <1>3, <1>4, <1>7 DEF Endorsement, Runtime!RunsInstalled
<1>10. Runtime!Valid' = Runtime!Valid \union {c}
  BY <1>1 DEF Runtime!Valid, RuntimeTypes
<1>11. ASSUME NEW d \in Runtime!Valid'
       PROVE  (OfTheMinor(Runtime!VersionOf(d)) /\ Runtime!Everywhere(Runtime!VersionOf(d)))'
  <2>1. CASE d = c
    BY <1>3, <1>4, <1>7, <1>8, <2>1 DEF Endorsement, OfTheMinor
  <2>2. CASE d # c
    <3>1. OfTheMinor(Runtime!VersionOf(d)) /\ Runtime!Everywhere(Runtime!VersionOf(d))
      BY <1>10, <1>11, <2>2 DEF ChannelInv
    <3> QED BY <1>4, <1>5, <1>7, <1>8, <3>1 DEF OfTheMinor
  <2> QED BY <2>1, <2>2
<1>12. Runtime!StartedOnce'
  <2>1. Runtime!Valid # {} => op[c].kind = "upgrade"
    BY <1>5 DEF ChannelInv, OfTheMinor
  <2> QED BY <1>1, <1>10, <2>1 DEF ChannelInv, Runtime!StartedOnce
<1> QED BY <1>4, <1>6, <1>9, <1>11, <1>12 DEF ChannelInv

LEMMA CommitStep ==
    ASSUME Runtime!DeploymentAssumption, RuntimeInv, NEW c \in Admin, Runtime!Commit(c)
    PROVE  RuntimeInv'
<1> USE DEF RuntimeInv
<1>1. /\ UNCHANGED <<installed, op, step, answers, existed>>
      /\ c \in ordering /\ c \notin ordering'
      /\ \A d \in Admin \ {c} : /\ d \in ordering' <=> d \in ordering
                                /\ read'[d] = read[d] /\ outcome'[d] = outcome[d]
      /\ outcome'[c] \in {"VALID", "INVALID"}
  BY DEF Runtime!Commit, RuntimeTypes
<1>2. RuntimeTypes'
  <2>1. Runtime!VersionOf(c) \in Nat \X Nat
    BY CallOp
  <2>2. channel' \in [version : (Nat \X Nat) \union {None}, changes : Nat]
    BY <2>1 DEF Runtime!Commit, RuntimeTypes
  <2>3. outcome' \in [Admin -> {"VALID", "INVALID", None}]
    BY DEF Runtime!Commit, RuntimeTypes
  <2> QED BY <1>1, <2>2, <2>3 DEF Runtime!Commit, RuntimeTypes
<1>3. Grows /\ ChannelInv'
  <2>1. CASE read[c] = channel.changes
    BY <2>1, ValidStep
  <2>2. CASE read[c] # channel.changes
    <3>1. UNCHANGED channel /\ outcome' = [outcome EXCEPT ![c] = "INVALID"]
      BY <2>2 DEF Runtime!Commit
    <3>2. Grows
      BY <1>1, <3>1 DEF Grows, Runtime!Instantiated
    <3>3. outcome[c] = None
      BY <1>1 DEF CallInv, CallLate
    <3>4. Runtime!Valid' = Runtime!Valid
      BY <3>1, <3>3 DEF Runtime!Valid, RuntimeTypes, Runtime!DeploymentAssumption
    <3>5. ChannelInv'
      BY <1>1, <3>1, <3>4
         DEF ChannelInv, Runtime!Instantiated, Runtime!RunsInstalled, Runtime!Everywhere,
             Runtime!StartedOnce, OfTheMinor, Runtime!VersionOf
    <3> QED BY <3>2, <3>5
  <2> QED BY <2>1, <2>2
<1>4. \A d \in Admin \ {c} : CallInv(d)'
  BY <1>1, <1>3, OtherCalls
<1>5. CallInv(c)'
  <2>1. /\ outcome[c] = None /\ step[c] \notin {"install", "check", "query", "propose", "send"}
    BY <1>1 DEF CallInv, CallEarly, CallLate
  <2>2. Runtime!VersionOf(c)' = Runtime!VersionOf(c)
        /\ Runtime!Everywhere(Runtime!VersionOf(c))' = Runtime!Everywhere(Runtime!VersionOf(c))
    BY <1>1 DEF Runtime!VersionOf, Runtime!Everywhere
  <2>3. CallAnswers(c)' /\ CallEarly(c)'
    BY <1>1, <2>1, <2>2 DEF CallInv, CallAnswers, CallEarly
  <2>4. CallLate(c)'
    BY <1>1, <2>1 DEF CallInv, CallLate
  <2>5. CallEnded(c)'
    BY <1>1, <1>3, <2>1, <2>2
       DEF CallInv, CallEnded, Grows, Runtime!DeploymentAssumption
  <2> QED BY <2>3, <2>4, <2>5 DEF CallInv
<1> QED BY <1>2, <1>3, <1>4, <1>5

THEOREM RuntimeInvariant ==
    ASSUME Runtime!DeploymentAssumption
    PROVE  Runtime!Spec => []RuntimeInv
<1>1. Runtime!Init => RuntimeInv
  BY RuntimeInit
<1>2. RuntimeInv /\ [Runtime!Next]_(Runtime!vars) => RuntimeInv'
  <2> SUFFICES ASSUME RuntimeInv, [Runtime!Next]_(Runtime!vars) PROVE RuntimeInv'  OBVIOUS
  <2>1. CASE UNCHANGED Runtime!vars
    <3>1. Grows /\ UNCHANGED <<installed, channel, ordering, outcome, op, step, answers,
                               existed, read>>
      BY <2>1 DEF Runtime!vars, Grows, Runtime!Instantiated
    <3>2. \A c \in Admin : CallInv(c)'
      BY <3>1, CallFrame DEF RuntimeInv
    <3>3. ChannelInv'
      BY <3>1, ChannelFrame DEF RuntimeInv
    <3> QED BY <3>1, <3>2, <3>3 DEF RuntimeInv, RuntimeTypes
  <2>2. ASSUME NEW c \in Admin, Runtime!Installed(c) PROVE RuntimeInv'
    BY <2>2, InstalledStep
  <2>3. ASSUME NEW c \in Admin, Runtime!Query(c) \/ Runtime!Check(c) PROVE RuntimeInv'
    BY <2>3, LookStep
  <2>4. ASSUME NEW c \in Admin, Runtime!Propose(c) PROVE RuntimeInv'
    BY <2>4, ProposeStep
  <2>5. ASSUME NEW c \in Admin, Runtime!Send(c) \/ Runtime!Notified(c) \/ Runtime!Fail(c)
        PROVE  RuntimeInv'
    BY <2>5, SendStep
  <2>6. ASSUME NEW c \in Admin, Runtime!Commit(c) PROVE RuntimeInv'
    BY <2>6, CommitStep
  <2>7. ASSUME NEW c \in Admin, NEW p \in Peer,
               Runtime!Install(c, p) \/ Runtime!InstallFails(c, p)
        PROVE  RuntimeInv'
    BY <2>7, InstallStep
  <2> QED BY <2>1, <2>2, <2>3, <2>4, <2>5, <2>6, <2>7 DEF Runtime!Next
<1> QED BY <1>1, <1>2, PTL DEF Runtime!Spec

\* What runs on the channel is installed on every peer, however installations failed and
\* whatever other administrators install, start and upgrade (hlfconnection.js:345).
THEOREM DeployedRuns ==
    ASSUME Runtime!DeploymentAssumption
    PROVE  Runtime!Spec => []Runtime!RunsInstalled
<1>1. RuntimeInv => Runtime!RunsInstalled
  BY DEF RuntimeInv, ChannelInv
<1> QED BY <1>1, RuntimeInvariant, PTL

\* Of all calls of start and deploy one takes effect, and upgrades that pass each other
\* stay within its minor version (_checkRuntimeVersions, hlfconnection.js:697).
THEOREM DeployedOnceWithinMinor ==
    ASSUME Runtime!DeploymentAssumption
    PROVE  Runtime!Spec => [](Runtime!StartedOnce /\ Runtime!SameMinor)
<1>1. RuntimeInv => Runtime!StartedOnce /\ Runtime!SameMinor
  BY DEF RuntimeInv, ChannelInv, Runtime!SameMinor, OfTheMinor
<1> QED BY <1>1, RuntimeInvariant, PTL

\* A call that is resolved has done, or found done, what it is for, on every peer, and
\* "already been deployed" is only answered of a network that is (hlfconnection.js:556).
THEOREM DeployAnswersTrue ==
    ASSUME Runtime!DeploymentAssumption
    PROVE  Runtime!Spec => [](Runtime!DoneThere /\ Runtime!RefusedForCause)
<1>1. RuntimeInv => Runtime!DoneThere /\ Runtime!RefusedForCause
  BY DEF RuntimeInv, CallInv, CallEnded, Runtime!DoneThere, Runtime!RefusedForCause,
         Runtime!Valid
<1> QED BY <1>1, RuntimeInvariant, PTL

\* What is installed, and what runs, are versions that somebody was to install and run.
Named ==
    /\ \A p \in Peer : installed[p] \subseteq Before \union {k.version : k \in AdminCall}
    /\ channel.version \in {k.version : k \in AdminCall} \union {None}

\* Install, start, deploy and upgrade keep their promises to every administrator, whatever
\* the others do meanwhile.
THEOREM DeploymentAsPromised ==
    ASSUME Runtime!DeploymentAssumption
    PROVE  Runtime!Spec => []Runtime!DeploymentSound
<1>1. Runtime!Init => Named
  BY DEF Runtime!Init, Named
<1>2. RuntimeInv /\ Named /\ [Runtime!Next]_(Runtime!vars) => Named'
  <2> SUFFICES ASSUME RuntimeInv, Named, [Runtime!Next]_(Runtime!vars) PROVE Named'
    OBVIOUS
  <2>1. RuntimeTypes
    BY DEF RuntimeInv
  <2>2. \A c \in Admin : Runtime!VersionOf(c) \in {k.version : k \in AdminCall}
    BY <2>1 DEF RuntimeTypes, Runtime!VersionOf
  <2>3. ASSUME NEW c \in Admin, NEW p \in Peer,
               Runtime!Install(c, p) \/ Runtime!InstallFails(c, p)
        PROVE  Named'
    <3>1. UNCHANGED channel
      BY <2>3 DEF Runtime!Install, Runtime!InstallFails
    <3>2. \/ UNCHANGED installed
          \/ installed' = [installed EXCEPT ![p] = @ \union {Runtime!VersionOf(c)}]
      BY <2>3 DEF Runtime!Install, Runtime!InstallFails
    <3>3. ASSUME NEW q \in Peer
          PROVE  installed'[q] \subseteq installed[q] \union {Runtime!VersionOf(c)}
      BY <2>1, <3>2 DEF RuntimeTypes
    <3> QED BY <2>2, <3>1, <3>3 DEF Named
  <2>4. ASSUME NEW c \in Admin, Runtime!Commit(c) PROVE Named'
    <3>1. UNCHANGED installed
      BY <2>4 DEF Runtime!Commit
    <3>2. channel'.version \in {channel.version, Runtime!VersionOf(c)}
      BY <2>4 DEF Runtime!Commit
    <3> QED BY <2>2, <3>1, <3>2 DEF Named
  <2>5. ASSUME NEW c \in Admin,
               \/ Runtime!Installed(c) \/ Runtime!Query(c) \/ Runtime!Check(c)
               \/ Runtime!Propose(c) \/ Runtime!Send(c) \/ Runtime!Notified(c)
               \/ Runtime!Fail(c)
        PROVE  Named'
    <3>1. UNCHANGED <<installed, channel>>
      BY <2>5 DEF Runtime!Installed, Runtime!Query, Runtime!Check, Runtime!Propose,
                  Runtime!Send, Runtime!Notified, Runtime!Fail
    <3> QED BY <3>1 DEF Named
  <2>6. CASE UNCHANGED Runtime!vars
    BY <2>6 DEF Runtime!vars, Named
  <2> QED BY <2>3, <2>4, <2>5, <2>6 DEF Runtime!Next
<1>3. RuntimeInv /\ Named => Runtime!TypeOK
  BY DEF RuntimeInv, RuntimeTypes, Named, Runtime!TypeOK
<1> QED BY <1>1, <1>2, <1>3, RuntimeInvariant, DeployedRuns, DeployedOnceWithinMinor,
           DeployAnswersTrue, PTL
       DEF Runtime!Spec, Runtime!DeploymentSound

-----------------------------------------------------------------------------
(***************************************************************************)
(* The parts together.  Each part takes its own steps and stays as it is   *)
(* in those of the others.                                                 *)
(***************************************************************************)
LEMMA PartsTaken ==
    ASSUME [PartsNext]_everything
    PROVE  /\ [Client!Next]_(Client!vars) /\ [Store!Next]_(Store!vars)
           /\ [Web!Next]_(Web!vars) /\ [Runtime!Next]_(Runtime!vars)
<1> USE DEF everything, clientVars, cardVars, webVars, deploymentVars,
            Client!vars, Store!vars, Web!vars, Runtime!vars
<1>1. CASE UNCHANGED everything
  BY <1>1
<1>2. CASE PartsNext
  BY <1>2 DEF PartsNext
<1> QED BY <1>1, <1>2

\* In the run of all clients: a transaction goes to the network it was submitted for
\* (businessnetworkconnection.js, submitTransaction).
THEOREM ClientsServed == PartsSpec => []ClientSound
<1>1. PartsInit => Client!Init
  BY DEF PartsInit
<1>2. [PartsNext]_everything => [Client!Next]_(Client!vars)
  BY PartsTaken
<1>3. PartsSpec => Client!Spec
  BY <1>1, <1>2, PTL DEF PartsSpec, Client!Spec
<1>4. Client!ClientSound => ClientSound
  BY DEF ClientSound
<1> QED BY <1>3, <1>4, ClientAsPromised, ClientsAssumption, PTL

\* In the run of all clients: what the card store promises of a card, and of the
\* connections that are made with it (filesystemcardstore.js, adminconnection.js).
THEOREM CardsKept == PartsSpec => []CardsSound
<1>1. PartsInit => Store!Init
  BY DEF PartsInit
<1>2. [PartsNext]_everything => [Store!Next]_(Store!vars)
  BY PartsTaken
<1>3. PartsSpec => Store!Spec
  BY <1>1, <1>2, PTL DEF PartsSpec, Store!Spec
<1>4. Store!CardsSound => CardsSound
  BY DEF CardsSound
<1> QED BY <1>3, <1>4, CardsAsPromised, ClientsAssumption, PTL

\* In the run of all clients: sessions in a browser are on networks that were started to
\* the end (webconnection.js, start, login).
THEOREM WebKept == PartsSpec => []WebSound
<1>1. PartsInit => Web!Init
  BY DEF PartsInit
<1>2. [PartsNext]_everything => [Web!Next]_(Web!vars)
  BY PartsTaken
<1>3. PartsSpec => Web!Spec
  BY <1>1, <1>2, PTL DEF PartsSpec, Web!Spec
<1>4. Web!WebSound => WebSound
  BY DEF WebSound
<1> QED BY <1>3, <1>4, WebAsPromised, ClientsAssumption, PTL

\* In the run of all clients: what runs on the channel is installed everywhere and was
\* started once (hlfconnection.js, install, start, upgrade).
THEOREM DeploymentsKept == PartsSpec => []DeploymentSound
<1>1. PartsInit => Runtime!Init
  BY DEF PartsInit
<1>2. [PartsNext]_everything => [Runtime!Next]_(Runtime!vars)
  BY PartsTaken
<1>3. PartsSpec => Runtime!Spec
  BY <1>1, <1>2, PTL DEF PartsSpec, Runtime!Spec
<1>4. Runtime!DeploymentSound => DeploymentSound
  BY DEF DeploymentSound
<1> QED BY <1>3, <1>4, DeploymentAsPromised, ClientsAssumption, PTL
=============================================================================
