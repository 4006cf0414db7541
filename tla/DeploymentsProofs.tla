------------------------- MODULE DeploymentsProofs -------------------------
(***************************************************************************)
(* What the subscriber and the deployment calls promise, for any numbers   *)
(* of calls, deployments and requests.                                     *)
(***************************************************************************)
EXTENDS Deployments, TLAPS

-----------------------------------------------------------------------------
(***************************************************************************)
(* The inductive invariants behind AnnouncedIsStored and the order of the  *)
(* jobs, by parts.                                                         *)
(***************************************************************************)

\* A Deploy that is past its save has stored something; one that announces exposures has
\* announced its deployment.
CallInv(x) ==
    /\ call[x].pc \in {"emit", "expose"} /\ Call[x].op = "deploy" => kv[Call[x].id] # NoState
    /\ call[x].pc = "expose" =>
          \E n \in AnnouncedBy(x) : events[n].kind = "created"

StoreInv == TypeOK /\ AnnouncedIsStored /\ \A x \in Calls : CallInv(x)

\* What is in the stream is in the order of the events, and later than all that got a job.
PendingInv ==
    /\ \A m \in DOMAIN pending : pending[m] \in DOMAIN events
    /\ \A m, n \in DOMAIN pending : m < n => pending[m] < pending[n]
    /\ \A m \in DOMAIN jobs : jobs[m] \in DOMAIN events
    /\ \A m \in DOMAIN jobs, n \in DOMAIN pending : jobs[m] < pending[n]

StreamInv == TypeOK /\ PendingInv

USE EventSubscriberAssumption, DeploymentsAssumption

-----------------------------------------------------------------------------
(***************************************************************************)
(* Types.                                                                  *)
(***************************************************************************)

\* What publishing an event does to the log and to the stream.
LEMMA PublishedTypes ==
    ASSUME TypeOK, NEW e \in Events, Published(e)
    PROVE  /\ events' \in Seq(Events)
           /\ pending' \in Seq(Nat)
<1>1. events \in Seq(Events) /\ pending \in Seq(Nat)
  BY DEF TypeOK, SubscriberTypeOK
<1>2. events' \in Seq(Events)
  BY <1>1 DEF Published
<1>3. Append(pending, Len(events) + 1) \in Seq(Nat)
  BY <1>1
<1> QED
  BY <1>1, <1>2, <1>3 DEF Published

LEMMA SubscriberTypes ==
    ASSUME TypeOK, SubscriberNext, UNCHANGED <<kv, call>>
    PROVE  TypeOK'
<1> USE DEF TypeOK, SubscriberTypeOK
<1>1. CASE Subscribe
  <2>1. << >> \in Seq(Nat)
    OBVIOUS
  <2> QED
    BY <1>1, <2>1 DEF Subscribe
<1>2. CASE RecvEvent
  <2>1. pending \in Seq(Nat) /\ pending # << >> /\ jobs \in Seq(Nat)
    BY <1>2 DEF RecvEvent
  <2>2. Tail(pending) \in Seq(Nat) /\ Append(jobs, Head(pending)) \in Seq(Nat)
    BY <2>1
  <2> QED
    BY <1>2, <2>2 DEF RecvEvent
<1>3. CASE ServerRequest
  <2>1. PICK kind \in Requests : Published([kind |-> kind, by |-> Server])
    BY <1>3 DEF ServerRequest
  <2>2. [kind |-> kind, by |-> Server] \in Events
    BY DEF Events, Kinds
  <2>3. events' \in Seq(Events) /\ pending' \in Seq(Nat)
    BY <2>1, <2>2, PublishedTypes
  <2> QED
    BY <1>3, <2>3 DEF ServerRequest
<1>4. CASE Retry \/ CheckStop \/ RecvError \/ BreakInner
  <2>1. << >> \in Seq(Nat)
    OBVIOUS
  <2> QED
    BY <1>4, <2>1 DEF Retry, CheckStop, RecvError, BreakInner
<1>5. CASE KernelDown \/ KernelUp \/ Stop
  BY <1>5 DEF KernelDown, KernelUp, Stop
<1> QED
  BY <1>1, <1>2, <1>3, <1>4, <1>5 DEF SubscriberNext, Subscriber

\* The events of the calls are events.
LEMMA CallEvents ==
    ASSUME NEW x \in Calls
    PROVE  Announcement(x) \in Events /\ [kind |-> "exposed", by |-> x] \in Events
BY DEF Announcement, Events, Kinds

LEMMA CallTypes ==
    ASSUME TypeOK, NEW x \in Calls, CallStep(x)
    PROVE  TypeOK'
<1> USE DEF TypeOK, Goto
<1>0. /\ call \in [Calls -> CallRecords]
      /\ kv \in [Ids -> Calls \cup {NoState}]
      /\ Call[x].id \in Ids /\ Call[x].exposes \in SUBSET Exposed
  OBVIOUS
<1>1. \A next \in CallPcs : [call EXCEPT ![x].pc = next] \in [Calls -> CallRecords]
  BY <1>0 DEF CallRecords
<1>2. [kv EXCEPT ![Call[x].id] = x] \in [Ids -> Calls \cup {NoState}]
  BY <1>0
<1>3. /\ "save" \in CallPcs /\ "emit" \in CallPcs /\ "read" \in CallPcs
      /\ "ok" \in CallPcs /\ "failed" \in CallPcs /\ "expose" \in CallPcs
  BY DEF CallPcs
<1>4. CASE Begin(x)
  <2>1. FirstStep(Call[x].op) \in CallPcs
    BY <1>3 DEF FirstStep
  <2> QED
    BY <1>1, <1>3, <1>4, <2>1 DEF Begin, subVars, SubscriberTypeOK
<1>5. CASE Save(x) \/ SaveFails(x)
  <2>1. kv' \in [Ids -> Calls \cup {NoState}]
    BY <1>0, <1>2, <1>5 DEF Save, SaveFails
  <2>2. call' \in [Calls -> CallRecords]
    BY <1>1, <1>3, <1>5 DEF Save, SaveFails
  <2>3. UNCHANGED subVars
    BY <1>5 DEF Save, SaveFails
  <2> QED
    BY <2>1, <2>2, <2>3 DEF subVars, SubscriberTypeOK
<1>6. CASE Emit(x)
  <2>1. events' \in Seq(Events) /\ pending' \in Seq(Nat)
    BY <1>6, CallEvents, PublishedTypes DEF Emit
  <2>2. call' \in [Calls -> CallRecords]
    <3> DEFINE r == IF Call[x].op = "deploy"
                    THEN [call[x] EXCEPT !.pc = "expose", !.todo = Call[x].exposes]
                    ELSE [call[x] EXCEPT !.pc = "ok"]
    <3>1. call[x] \in CallRecords
      BY <1>0
    <3>2. r \in CallRecords
      BY <1>0, <1>3, <3>1 DEF CallRecords
    <3>3. call' = [call EXCEPT ![x] = r]
      BY <1>6 DEF Emit
    <3> HIDE DEF r
    <3> QED
      BY <1>0, <3>2, <3>3
  <2> QED
    BY <1>6, <2>1, <2>2 DEF Emit, SubscriberTypeOK
<1>7. CASE EmitFails(x)
  <2>1. events' \in Seq(Events) /\ pending' \in Seq(Nat)
    BY <1>7, CallEvents, PublishedTypes DEF EmitFails, SubscriberTypeOK
  <2>2. /\ call' \in [Calls -> CallRecords]
        /\ UNCHANGED <<pc, stream, stop, kernel, jobs, kv>>
    BY <1>1, <1>3, <1>7 DEF EmitFails
  <2> QED
    BY <1>0, <2>1, <2>2 DEF SubscriberTypeOK
<1>8. CASE Expose(x)
  <2>1. events' \in Seq(Events) /\ pending' \in Seq(Nat)
    BY <1>8, CallEvents, PublishedTypes DEF Expose, SubscriberTypeOK
  <2>2. call' \in [Calls -> CallRecords]
    <3>1. PICK v \in call[x].todo :
             call' = [call EXCEPT ![x] = [@ EXCEPT !.todo = call[x].todo \ {v}]]
      BY <1>8 DEF Expose
    <3>2. [call[x] EXCEPT !.todo = call[x].todo \ {v}] \in CallRecords
      BY <1>0 DEF CallRecords
    <3> QED
      BY <1>0, <3>1, <3>2
  <2> QED
    BY <1>8, <2>1, <2>2 DEF Expose, SubscriberTypeOK
<1>9. CASE Deployed(x) \/ Read(x) \/ ReadFails(x)
  <2>1. /\ call' \in [Calls -> CallRecords]
        /\ UNCHANGED <<subVars, kv>>
    BY <1>1, <1>3, <1>9 DEF Deployed, Read, ReadFails
  <2> QED
    BY <1>0, <2>1 DEF subVars, SubscriberTypeOK
<1> QED
  BY <1>4, <1>5, <1>6, <1>7, <1>8, <1>9 DEF CallStep

\* The log, the stream, the store and the calls stay well typed, whatever is called and
\* whichever calls to the kernel fail (handler.go 99-190, main.go 287-364).
THEOREM TypeCorrect == Spec => []TypeOK
<1>1. Init => TypeOK
  <2> SUFFICES ASSUME Init PROVE TypeOK
    OBVIOUS
  <2>1. SubscriberTypeOK
    <3>1. << >> \in Seq(Events) /\ << >> \in Seq(Nat)
      OBVIOUS
    <3> QED
      BY <3>1 DEF Init, SubscriberInit, SubscriberTypeOK
  <2> QED
    BY <2>1 DEF Init, TypeOK, CallRecords, CallPcs
<1>2. TypeOK /\ [Next]_vars => TypeOK'
  <2> SUFFICES ASSUME TypeOK, [Next]_vars PROVE TypeOK'
    OBVIOUS
  <2>1. CASE UNCHANGED vars
    BY <2>1 DEF vars, subVars, TypeOK, SubscriberTypeOK
  <2> QED
    BY <2>1, SubscriberTypes, CallTypes DEF Next
<1> QED
  BY <1>1, <1>2, PTL DEF Spec

-----------------------------------------------------------------------------
(***************************************************************************)
(* Announced deployments are stored.                                       *)
(***************************************************************************)

\* The log only grows, by the event published.
LEMMA LogGrows ==
    ASSUME TypeOK, NEW e \in Events, Published(e)
    PROVE  /\ DOMAIN events' = DOMAIN events \cup {Len(events) + 1}
           /\ \A k \in DOMAIN events : events'[k] = events[k]
           /\ \A k \in DOMAIN events : k \in Nat /\ k < Len(events) + 1
           /\ events'[Len(events) + 1] = e
<1>1. events \in Seq(Events) /\ events' = Append(events, e)
  BY DEF TypeOK, SubscriberTypeOK, Published
<1>2. Len(events) \in Nat /\ DOMAIN events = 1 .. Len(events)
  BY <1>1
<1>3. Len(events') = Len(events) + 1 /\ DOMAIN events' = 1 .. (Len(events) + 1)
  BY <1>1
<1>4. \A k \in 1 .. Len(events) : events'[k] = events[k]
  BY <1>1
<1>5. events'[Len(events) + 1] = e
  BY <1>1
<1> QED
  BY <1>2, <1>3, <1>4, <1>5

\* Which announcements there are after an event of e.by.
LEMMA AnnouncedGrows ==
    ASSUME TypeOK, NEW e \in Events, Published(e), NEW y \in Calls
    PROVE  /\ y # e.by => AnnouncedBy(y)' = AnnouncedBy(y)
           /\ y = e.by => AnnouncedBy(y)' = AnnouncedBy(y) \cup {Len(events) + 1}
BY LogGrows DEF AnnouncedBy

\* A step that publishes nothing and forgets nothing stored keeps what was announced.
LEMMA SilentKeeps ==
    ASSUME StoreInv, TypeOK', UNCHANGED events,
           \A d \in Ids : kv[d] # NoState => kv'[d] # NoState,
           \A x \in Calls : CallInv(x)'
    PROVE  StoreInv'
<1>1. \A x \in Calls : AnnouncedBy(x)' = AnnouncedBy(x)
  BY DEF AnnouncedBy
<1>2. \A x \in Calls : Call[x].id \in Ids
  OBVIOUS
<1> QED
  BY <1>1, <1>2 DEF StoreInv, AnnouncedIsStored

\* A publication keeps it if it is in order.
LEMMA PublicationKeeps ==
    ASSUME StoreInv, TypeOK', UNCHANGED kv, NEW e \in Events, Published(e),
           e.by \in Calls /\ Call[e.by].op = "deploy" => kv[Call[e.by].id] # NoState,
           e.by \in Calls /\ e.kind = "exposed" =>
              \E n \in AnnouncedBy(e.by) : events[n].kind = "created"
    PROVE  /\ AnnouncedIsStored'
           /\ \A y \in Calls : (\E n \in AnnouncedBy(y) : events[n].kind = "created")
                 => \E n \in AnnouncedBy(y)' : events'[n].kind = "created"
<1> USE DEF StoreInv
<1>1. \A y \in Calls : \A k \in AnnouncedBy(y) :
          k \in AnnouncedBy(y)' /\ events'[k] = events[k] /\ k \in Nat /\ k < Len(events) + 1
  BY AnnouncedGrows, LogGrows DEF AnnouncedBy
<1>2. \A y \in Calls : \A k \in AnnouncedBy(y)' :
          k \in AnnouncedBy(y) \/ (k = Len(events) + 1 /\ y = e.by /\ events'[k] = e)
  BY AnnouncedGrows, LogGrows DEF AnnouncedBy
<1>3. AnnouncedIsStored'
  <2> SUFFICES ASSUME NEW y \in Calls, NEW k \in AnnouncedBy(y)'
               PROVE  /\ Call[y].op = "deploy" => kv'[Call[y].id] # NoState
                      /\ events'[k].kind = "exposed" =>
                            \E n \in AnnouncedBy(y)' : n < k /\ events'[n].kind = "created"
    BY DEF AnnouncedIsStored
  <2>1. CASE k \in AnnouncedBy(y)
    <3>1. events'[k] = events[k]
      BY <1>1, <2>1
    <3>2. events[k].kind = "exposed" =>
             \E n \in AnnouncedBy(y) : n < k /\ events[n].kind = "created"
      BY <2>1 DEF AnnouncedIsStored
    <3>3. Call[y].op = "deploy" => kv[Call[y].id] # NoState
      BY <2>1 DEF AnnouncedIsStored
    <3> QED
      BY <1>1, <3>1, <3>2, <3>3
  <2>2. CASE k = Len(events) + 1 /\ y = e.by /\ events'[k] = e
    BY <1>1, <2>2
  <2> QED
    BY <1>2, <2>1, <2>2
<1> QED
  BY <1>1, <1>3

LEMMA SubscriberStores ==
    ASSUME StoreInv, SubscriberNext, UNCHANGED <<kv, call>>
    PROVE  StoreInv'
<1>0. TypeOK /\ TypeOK'
  BY SubscriberTypes DEF StoreInv
<1>1. CASE ServerRequest
  <2>1. PICK kind \in Requests : Published([kind |-> kind, by |-> Server])
    BY <1>1 DEF ServerRequest
  <2> DEFINE e == [kind |-> kind, by |-> Server]
  <2>2. e \in Events /\ e.by \notin Calls
    BY DEF Events, Kinds
  <2> HIDE DEF e
  <2>3. AnnouncedIsStored'
    BY <1>0, <2>1, <2>2, PublicationKeeps DEF e
  <2>4. \A y \in Calls : CallInv(y)'
    <3>1. \A y \in Calls : (\E n \in AnnouncedBy(y) : events[n].kind = "created")
                 => \E n \in AnnouncedBy(y)' : events'[n].kind = "created"
      BY <1>0, <2>1, <2>2, PublicationKeeps DEF e
    <3> QED
      BY <3>1 DEF StoreInv, CallInv
  <2> QED
    BY <1>0, <2>3, <2>4 DEF StoreInv
<1>2. CASE UNCHANGED events
  <2>1. \A y \in Calls : CallInv(y)'
    BY <1>2 DEF StoreInv, CallInv, AnnouncedBy
  <2> QED
    BY <1>0, <1>2, <2>1, SilentKeeps
<1>3. ServerRequest \/ UNCHANGED events
  BY DEF SubscriberNext, Subscriber, Subscribe, Retry, CheckStop, RecvEvent, RecvError,
         BreakInner, KernelDown, KernelUp, Stop
<1> QED
  BY <1>1, <1>2, <1>3

\* A step of x leaves the invariant of the other calls alone.
LEMMA OtherCalls ==
    ASSUME StoreInv, NEW x \in Calls, NEW y \in Calls, y # x, CallStep(x),
           \A d \in Ids : kv[d] # NoState => kv'[d] # NoState,
           (\E n \in AnnouncedBy(y) : events[n].kind = "created")
              => \E n \in AnnouncedBy(y)' : events'[n].kind = "created"
    PROVE  CallInv(y)'
<1>1. call'[y] = call[y]
  BY DEF StoreInv, TypeOK, CallStep, Begin, Save, SaveFails, Emit, EmitFails, Expose, Deployed,
         Read, ReadFails, Goto
<1> QED
  BY <1>1 DEF StoreInv, CallInv

LEMMA GotoPc ==
    ASSUME TypeOK, NEW x \in Calls
    PROVE  \A next : Goto(x, next) => call'[x].pc = next
BY DEF TypeOK, CallRecords, Goto

LEMMA CallStores ==
    ASSUME StoreInv, NEW x \in Calls, CallStep(x)
    PROVE  StoreInv'
<1>0. TypeOK /\ TypeOK' /\ call \in [Calls -> CallRecords] /\ Call[x].id \in Ids
      /\ kv \in [Ids -> Calls \cup {NoState}]
  BY CallTypes DEF StoreInv, TypeOK
<1>1. \A d \in Ids : kv[d] # NoState => kv'[d] # NoState
  BY <1>0 DEF CallStep, Begin, Save, SaveFails, Emit, EmitFails, Expose, Deployed,
         Read, ReadFails, subVars
<1>2. CASE UNCHANGED events
  <2>1. CallInv(x)'
    <3>1. CASE Begin(x)
      <4>1. call'[x].pc \in {"save", "emit", "read", "failed"}
        BY <1>0, <3>1, GotoPc DEF Begin, FirstStep
      <4>2. call'[x].pc = "emit" => Call[x].op # "deploy"
        BY <1>0, <3>1, GotoPc DEF Begin, FirstStep
      <4> QED
        BY <4>1, <4>2 DEF CallInv
    <3>2. CASE Save(x)
      BY <1>0, <3>2, GotoPc DEF Save, CallInv, DeploymentsAssumption
    <3>3. CASE SaveFails(x) \/ EmitFails(x) \/ ReadFails(x) \/ Deployed(x) \/ Read(x)
      <4>1. call'[x].pc \in {"ok", "failed"}
        BY <1>0, <3>3, GotoPc DEF SaveFails, EmitFails, ReadFails, Deployed, Read
      <4> QED
        BY <4>1 DEF CallInv
    <3>4. CASE Emit(x)
      <4>1. Announcement(x) \in Events /\ Published(Announcement(x))
        BY <3>4, CallEvents DEF Emit
      <4>2. /\ Len(events) + 1 \in DOMAIN events'
            /\ \A k \in DOMAIN events : k \in Nat /\ k < Len(events) + 1
        BY <1>0, <4>1, LogGrows
      <4>3. Len(events) + 1 \notin DOMAIN events
        BY <4>2
      <4> QED
        BY <1>2, <4>2, <4>3
    <3>5. CASE Expose(x)
      <4>1. call'[x].pc = "expose" /\ call[x].pc = "expose" /\ UNCHANGED kv
        BY <1>0, <3>5 DEF Expose
      <4> QED
        BY <1>2, <4>1 DEF StoreInv, CallInv, AnnouncedBy
    <3> QED
      BY <3>1, <3>2, <3>3, <3>4, <3>5 DEF CallStep
  <2>2. \A y \in Calls : CallInv(y)'
    BY <1>1, <1>2, <2>1, OtherCalls DEF AnnouncedBy
  <2> QED
    BY <1>0, <1>1, <1>2, <2>2, SilentKeeps
<1>3. CASE (Emit(x) \/ EmitFails(x)) /\ Published(Announcement(x))
  <2> DEFINE e == Announcement(x)
  <2>1. e \in Events /\ e.by = x /\ e.kind # "exposed"
    BY CallEvents DEF Announcement
  <2>2. UNCHANGED kv /\ (Call[x].op = "deploy" => kv[Call[x].id] # NoState)
    BY <1>3 DEF Emit, EmitFails, StoreInv, CallInv
  <2>3. Call[x].op = "deploy" => e.kind = "created"
    BY DEF Announcement
  <2>4. e.kind = "created" => \E n \in AnnouncedBy(x)' : events'[n].kind = "created"
    <3>1. Len(events) + 1 \in AnnouncedBy(x)' /\ events'[Len(events) + 1] = e
      BY <1>0, <1>3, <2>1, AnnouncedGrows, LogGrows
    <3> QED
      BY <3>1
  <2>5. Published(e)
    BY <1>3
  <2> HIDE DEF e
  <2>6. /\ AnnouncedIsStored'
        /\ \A y \in Calls : (\E n \in AnnouncedBy(y) : events[n].kind = "created")
                 => \E n \in AnnouncedBy(y)' : events'[n].kind = "created"
    BY <1>0, <2>1, <2>2, <2>5, PublicationKeeps
  <2>7. CallInv(x)'
    <3>1. call'[x].pc \in {"ok", "failed"} \/ (call'[x].pc = "expose" /\ Call[x].op = "deploy")
      <4>1. CASE EmitFails(x)
        BY <1>0, <4>1, GotoPc DEF EmitFails
      <4>2. CASE Emit(x)
        BY <1>0, <4>2 DEF Emit, CallRecords
      <4> QED
        BY <1>3, <4>1, <4>2
    <3> QED
      BY <2>2, <2>3, <2>4, <3>1 DEF CallInv
  <2>8. \A y \in Calls : CallInv(y)'
    BY <1>1, <2>6, <2>7, OtherCalls
  <2> QED
    BY <1>0, <2>6, <2>8 DEF StoreInv
<1>4. CASE Expose(x) /\ Published([kind |-> "exposed", by |-> x])
  <2> DEFINE e == [kind |-> "exposed", by |-> x]
  <2>1. e \in Events /\ e.by = x
    BY CallEvents
  <2>2. /\ call[x].pc = "expose" /\ call'[x].pc = "expose" /\ UNCHANGED kv
        /\ \E n \in AnnouncedBy(x) : events[n].kind = "created"
    BY <1>0, <1>4 DEF Expose, StoreInv, CallInv
  <2>3. Call[x].op = "deploy" => kv[Call[x].id] # NoState
    BY <2>2 DEF StoreInv, AnnouncedIsStored
  <2>4. Published(e)
    BY <1>4
  <2> HIDE DEF e
  <2>5. /\ AnnouncedIsStored'
        /\ \A y \in Calls : (\E n \in AnnouncedBy(y) : events[n].kind = "created")
                 => \E n \in AnnouncedBy(y)' : events'[n].kind = "created"
    BY <1>0, <2>1, <2>2, <2>3, <2>4, PublicationKeeps
  <2>6. CallInv(x)'
    BY <2>2, <2>3, <2>5 DEF CallInv
  <2>7. \A y \in Calls : CallInv(y)'
    BY <1>1, <2>5, <2>6, OtherCalls
  <2> QED
    BY <1>0, <2>5, <2>7 DEF StoreInv
<1> QED
  BY <1>2, <1>3, <1>4 DEF CallStep, Begin, Save, SaveFails, Emit, EmitFails, Expose, Deployed,
         Read, ReadFails, subVars

\* The inductive invariant of the store holds in every reachable state.
THEOREM StoreInvariance == Spec => []StoreInv
<1>1. Init /\ TypeOK => StoreInv
  BY DEF Init, SubscriberInit, StoreInv, AnnouncedIsStored, AnnouncedBy, CallInv
<1>2. StoreInv /\ [Next]_vars => StoreInv'
  <2> SUFFICES ASSUME StoreInv, [Next]_vars PROVE StoreInv'
    OBVIOUS
  <2>1. CASE UNCHANGED vars
    BY <2>1 DEF vars, subVars, StoreInv, TypeOK, SubscriberTypeOK, AnnouncedIsStored,
                AnnouncedBy, CallInv
  <2> QED
    BY <2>1, SubscriberStores, CallStores DEF Next
<1> QED
  BY <1>1, <1>2, TypeCorrect, PTL DEF Spec

\* Whoever is told of a deployment by Deploy finds its specification stored, and is told of
\* its exposures afterwards, whatever fails and whoever calls what (handler.go 108-134).
THEOREM Announcements == Spec => []AnnouncedIsStored
BY StoreInvariance, PTL DEF StoreInv

-----------------------------------------------------------------------------
(***************************************************************************)
(* At most one job for a request: the subscriber implements Dispatch.      *)
(***************************************************************************)

\* A step on the stream that neither publishes, nor receives, nor subscribes keeps it.
LEMMA StreamStays ==
    ASSUME PendingInv, UNCHANGED <<events, pending, jobs>>
    PROVE  PendingInv'
BY DEF PendingInv

\* A publication puts an event at the end of the log and, maybe, of the stream.
LEMMA PublishedInOrder ==
    ASSUME StreamInv, NEW e \in Events, Published(e), UNCHANGED jobs
    PROVE  PendingInv' /\ Dispatcher!Emit
<1> DEFINE new == Len(events) + 1
<1>0. TypeOK /\ PendingInv
  BY DEF StreamInv
<1>1. /\ DOMAIN events' = DOMAIN events \cup {new}
      /\ \A k \in DOMAIN events : k \in Nat /\ k < new
  BY <1>0, LogGrows
<1>2. pending \in Seq(Nat) /\ new \in Nat
  BY <1>0 DEF TypeOK, SubscriberTypeOK
<1> HIDE DEF new
<1>3. Dispatcher!Emit
  BY DEF Published, Dispatcher!Emit
<1>4. CASE pending' = pending
  <2>1. \A m \in DOMAIN pending : pending[m] \in DOMAIN events'
    BY <1>0, <1>1 DEF PendingInv
  <2>2. \A m \in DOMAIN jobs : jobs[m] \in DOMAIN events'
    BY <1>0, <1>1 DEF PendingInv
  <2> QED
    BY <1>0, <1>4, <1>3, <2>1, <2>2 DEF PendingInv
<1>5. CASE pending' = Append(pending, new)
  <2>1. /\ DOMAIN pending = 1 .. Len(pending) /\ Len(pending) \in Nat
        /\ DOMAIN pending' = 1 .. (Len(pending) + 1)
        /\ pending'[Len(pending) + 1] = new
        /\ \A m \in 1 .. Len(pending) : pending'[m] = pending[m]
    BY <1>2, <1>5
  <2>2. \A m \in DOMAIN pending' : pending'[m] \in DOMAIN events'
    BY <1>0, <1>1, <2>1 DEF PendingInv
  <2>3. \A m, n \in DOMAIN pending' : m < n => pending'[m] < pending'[n]
    BY <1>0, <1>1, <2>1 DEF PendingInv
  <2>4. \A m \in DOMAIN jobs, n \in DOMAIN pending' : jobs[m] < pending'[n]
    BY <1>0, <1>1, <2>1 DEF PendingInv
  <2>5. \A m \in DOMAIN jobs : jobs[m] \in DOMAIN events'
    BY <1>0, <1>1 DEF PendingInv
  <2> QED
    BY <1>3, <2>2, <2>3, <2>4, <2>5 DEF PendingInv
<1> QED
  BY <1>4, <1>5 DEF Published, new

\* A reception takes the first event off the stream, and may start a job for it.
LEMMA ReceivedInOrder ==
    ASSUME StreamInv, RecvEvent
    PROVE  PendingInv' /\ (Dispatcher!StartJob \/ UNCHANGED <<events, jobs>>)
<1>0. TypeOK /\ PendingInv /\ pending # << >> /\ pending' = Tail(pending) /\ UNCHANGED events
  BY DEF StreamInv, RecvEvent
<1>1. pending \in Seq(Nat) /\ jobs \in Seq(Nat)
  BY <1>0 DEF TypeOK, SubscriberTypeOK
<1>2. /\ Len(pending) \in Nat \ {0} /\ DOMAIN pending = 1 .. Len(pending)
      /\ Head(pending) = pending[1]
  BY <1>0, <1>1
<1>3. /\ DOMAIN pending' = 1 .. (Len(pending) - 1)
      /\ \A m \in 1 .. (Len(pending) - 1) : pending'[m] = pending[m + 1]
  BY <1>0, <1>1, <1>2
<1>4. \A m \in DOMAIN pending' : m + 1 \in DOMAIN pending /\ 1 < m + 1 /\ m \in Nat
  BY <1>2, <1>3
<1>5. /\ \A m \in DOMAIN pending' : pending'[m] \in DOMAIN events'
      /\ \A m, n \in DOMAIN pending' : m < n => pending'[m] < pending'[n]
      /\ \A m \in DOMAIN pending' : pending[1] < pending'[m]
      /\ \A m \in DOMAIN jobs, n \in DOMAIN pending' : jobs[m] < pending'[n]
  <2>1. \A m \in DOMAIN pending' : pending'[m] = pending[m + 1]
    BY <1>3
  <2>2. \A m \in DOMAIN pending' : pending'[m] \in DOMAIN events'
    BY <1>0, <1>4, <2>1 DEF PendingInv
  <2>3. \A m, n \in DOMAIN pending' : m < n => pending'[m] < pending'[n]
    <3> SUFFICES ASSUME NEW m \in DOMAIN pending', NEW n \in DOMAIN pending', m < n
                 PROVE  pending[m + 1] < pending[n + 1]
      BY <2>1
    <3> m + 1 \in DOMAIN pending /\ n + 1 \in DOMAIN pending /\ m + 1 < n + 1
      BY <1>4
    <3> QED
      BY <1>0 DEF PendingInv
  <2>4. \A m \in DOMAIN pending' : pending[1] < pending'[m]
    <3>1. 1 \in DOMAIN pending
      BY <1>2
    <3> QED
      BY <1>0, <1>4, <2>1, <3>1 DEF PendingInv
  <2>5. \A m \in DOMAIN jobs, n \in DOMAIN pending' : jobs[m] < pending'[n]
    BY <1>0, <1>4, <2>1 DEF PendingInv
  <2> QED
    BY <2>2, <2>3, <2>4, <2>5
<1>6. CASE UNCHANGED jobs
  BY <1>0, <1>5, <1>6 DEF PendingInv
<1>7. CASE IsRequest(events[Head(pending)]) /\ jobs' = Append(jobs, Head(pending))
  <2> DEFINE k == pending[1]
  <2>1. k \in DOMAIN events /\ \A n \in DOMAIN jobs : jobs[n] < k
    BY <1>0, <1>2 DEF PendingInv
  <2>2. Dispatcher!StartJob
    <3>1. events[k].kind \in Requests /\ jobs' = Append(jobs, k)
      BY <1>2, <1>7 DEF IsRequest
    <3> HIDE DEF k
    <3> QED
      BY <1>0, <2>1, <3>1 DEF Dispatcher!StartJob
  <2>3. /\ DOMAIN jobs = 1 .. Len(jobs) /\ Len(jobs) \in Nat
        /\ DOMAIN jobs' = 1 .. (Len(jobs) + 1)
        /\ jobs'[Len(jobs) + 1] = pending[1]
        /\ \A m \in 1 .. Len(jobs) : jobs'[m] = jobs[m]
    BY <1>1, <1>2, <1>7
  <2>4. \A m \in DOMAIN jobs' : jobs'[m] \in DOMAIN events'
    BY <1>0, <2>1, <2>3 DEF PendingInv
  <2>5. \A m \in DOMAIN jobs', n \in DOMAIN pending' : jobs'[m] < pending'[n]
    BY <1>5, <2>3
  <2> QED
    BY <1>5, <2>2, <2>4, <2>5 DEF PendingInv
<1> QED
  BY <1>0, <1>6, <1>7 DEF RecvEvent

\* Every step of the subscriber, of the kernel and of a call is one of the dispatcher.
LEMMA StepsDispatch ==
    ASSUME StreamInv, TypeOK', [Next]_vars
    PROVE  StreamInv' /\ (Dispatcher!Next \/ UNCHANGED <<events, jobs>>)
<1>0. TypeOK /\ PendingInv
  BY DEF StreamInv
<1>1. CASE RecvEvent
  BY <1>1, ReceivedInOrder DEF StreamInv, Dispatcher!Next
<1>2. CASE Subscribe \/ RecvError
  <2>1. pending' = pending \/ pending' = << >>
    BY <1>2 DEF Subscribe, RecvError
  <2>2. UNCHANGED <<events, jobs>>
    BY <1>2 DEF Subscribe, RecvError
  <2>3. DOMAIN << >> = {}
    OBVIOUS
  <2>4. PendingInv'
    BY <1>0, <2>1, <2>2, <2>3 DEF PendingInv
  <2> QED
    BY <2>2, <2>4 DEF StreamInv
<1>3. CASE \E e \in Events : Published(e) /\ UNCHANGED jobs
  BY <1>3, PublishedInOrder DEF StreamInv, Dispatcher!Next
<1>4. CASE UNCHANGED <<events, pending, jobs>>
  BY <1>0, <1>4, StreamStays DEF StreamInv
<1>5. CASE SubscriberNext
  <2>1. CASE ServerRequest
    <3>1. PICK kind \in Requests : Published([kind |-> kind, by |-> Server])
      BY <2>1 DEF ServerRequest
    <3>2. [kind |-> kind, by |-> Server] \in Events
      BY DEF Events, Kinds
    <3> QED
      BY <1>3, <2>1, <3>1, <3>2 DEF ServerRequest
  <2> QED
    BY <1>1, <1>2, <1>4, <1>5, <2>1 DEF SubscriberNext, Subscriber, Retry, CheckStop, BreakInner,
       KernelDown, KernelUp, Stop
<1>6. ASSUME NEW x \in Calls, CallStep(x)
      PROVE  (\E e \in Events : Published(e) /\ UNCHANGED jobs) \/ UNCHANGED <<events, pending, jobs>>
  BY <1>6, CallEvents DEF CallStep, Begin, Save, SaveFails, Emit, EmitFails, Expose, Deployed,
     Read, ReadFails, subVars
<1>7. CASE UNCHANGED vars
  BY <1>4, <1>7 DEF vars, subVars
<1> QED
  BY <1>3, <1>4, <1>5, <1>6, <1>7 DEF Next

\* The subscriber implements the dispatcher: jobs for requests only, in their order, none
\* twice, whenever the kernel goes down, the stream breaks or the engine subscribes again,
\* and whatever events the engine emits itself (main.go 292-361).
THEOREM SubscriberDispatches == Spec => AtMostOnce
<1>1. Init => Dispatcher!Init
  BY DEF Init, SubscriberInit, Dispatcher!Init
<1>2. Init /\ TypeOK => StreamInv
  <2>1. DOMAIN << >> = {}
    OBVIOUS
  <2> QED
    BY <2>1 DEF Init, SubscriberInit, StreamInv, PendingInv
<1>3. StreamInv /\ TypeOK' /\ [Next]_vars =>
         StreamInv' /\ [Dispatcher!Next]_<<events, jobs>>
  BY StepsDispatch
<1> QED
  BY <1>1, <1>2, <1>3, TypeCorrect, PTL DEF Spec, AtMostOnce, Dispatcher!Spec

\* One step of the dispatcher keeps the jobs in the order of their requests.
LEMMA DispatchInOrder ==
    ASSUME TypeOK, TypeOK', Dispatcher!InOrder, [Dispatcher!Next]_<<events, jobs>>
    PROVE  Dispatcher!InOrder'
<1>1. /\ events \in Seq(Events) /\ jobs \in Seq(Nat)
      /\ events' \in Seq(Events) /\ jobs' \in Seq(Nat)
  BY DEF TypeOK, SubscriberTypeOK
<1>2. CASE Dispatcher!Emit
  <2>1. PICK e \in Events : events' = Append(events, e)
    BY <1>2 DEF Dispatcher!Emit
  <2>2. jobs' = jobs
    BY <1>2 DEF Dispatcher!Emit
  <2>3. \A k \in DOMAIN events : k \in DOMAIN events' /\ events'[k] = events[k]
    BY <1>1, <2>1
  <2> QED
    BY <2>2, <2>3 DEF Dispatcher!InOrder
<1>3. CASE Dispatcher!StartJob
  <2>1. PICK k \in DOMAIN events : /\ events[k].kind \in Requests
                                   /\ \A n \in DOMAIN jobs : jobs[n] < k
                                   /\ jobs' = Append(jobs, k)
    BY <1>3 DEF Dispatcher!StartJob
  <2>2. events' = events
    BY <1>3 DEF Dispatcher!StartJob
  <2>3. k \in Nat
    BY <1>1
  <2>4. /\ DOMAIN jobs = 1 .. Len(jobs) /\ Len(jobs) \in Nat
        /\ DOMAIN jobs' = 1 .. (Len(jobs) + 1)
        /\ jobs'[Len(jobs) + 1] = k
        /\ \A m \in 1 .. Len(jobs) : jobs'[m] = jobs[m]
    BY <1>1, <2>1, <2>3
  <2>5. ASSUME NEW n \in DOMAIN jobs'
        PROVE  \/ n \in DOMAIN jobs /\ jobs'[n] = jobs[n] /\ jobs[n] < k
               \/ jobs'[n] = k /\ \A m \in DOMAIN jobs' : m < n => m \in DOMAIN jobs
    <3>1. CASE n \in 1 .. Len(jobs)
      BY <2>1, <2>4, <3>1
    <3>2. CASE n = Len(jobs) + 1
      <4>1. \A m \in 1 .. (Len(jobs) + 1) : m < Len(jobs) + 1 => m \in 1 .. Len(jobs)
        BY <2>4
      <4> QED
        BY <2>4, <3>2, <4>1
    <3> QED
      BY <2>4, <3>1, <3>2
  <2>6. \A n \in DOMAIN jobs : jobs[n] \in DOMAIN events /\ events[jobs[n]].kind \in Requests
    BY DEF Dispatcher!InOrder
  <2>7. \A n \in DOMAIN jobs' : jobs'[n] \in DOMAIN events /\ events[jobs'[n]].kind \in Requests
    BY <2>1, <2>5, <2>6
  <2>8. ASSUME NEW m \in DOMAIN jobs', NEW n \in DOMAIN jobs', m < n
        PROVE  jobs'[m] < jobs'[n]
    <3>1. CASE n \in DOMAIN jobs
      <4>1. m \in DOMAIN jobs
        BY <2>4, <2>8, <3>1
      <4>2. jobs[m] < jobs[n]
        BY <2>8, <3>1, <4>1 DEF Dispatcher!InOrder
      <4> QED
        BY <2>4, <3>1, <4>1, <4>2
    <3>2. CASE n \notin DOMAIN jobs
      <4>1. jobs'[n] = k /\ m \in DOMAIN jobs
        BY <2>5, <2>8, <3>2
      <4>2. jobs'[m] = jobs[m] /\ jobs[m] < k
        BY <2>1, <2>4, <4>1
      <4> QED
        BY <4>1, <4>2
    <3> QED
      BY <3>1, <3>2
  <2> QED
    BY <2>2, <2>7, <2>8 DEF Dispatcher!InOrder
<1> QED
  BY <1>2, <1>3 DEF Dispatcher!Next, Dispatcher!InOrder

\* What AtMostOnce comes to in every state: the jobs are those of requests, in the order in
\* which these were emitted, and no request has two, however often the engine subscribes.
THEOREM JobsInOrder == Spec => []Dispatcher!InOrder
<1>1. Init => Dispatcher!InOrder
  <2>1. DOMAIN << >> = {}
    OBVIOUS
  <2> QED
    BY <2>1 DEF Init, SubscriberInit, Dispatcher!InOrder
<1>2. Init /\ TypeOK => StreamInv
  <2>1. DOMAIN << >> = {}
    OBVIOUS
  <2> QED
    BY <2>1 DEF Init, SubscriberInit, StreamInv, PendingInv
<1>3. StreamInv /\ TypeOK' /\ [Next]_vars =>
         StreamInv' /\ [Dispatcher!Next]_<<events, jobs>>
  BY StepsDispatch
<1>4. TypeOK /\ TypeOK' /\ Dispatcher!InOrder /\ [Dispatcher!Next]_<<events, jobs>>
         => Dispatcher!InOrder'
  BY DispatchInOrder
<1> QED
  BY <1>1, <1>2, <1>3, <1>4, TypeCorrect, PTL DEF Spec

=============================================================================
