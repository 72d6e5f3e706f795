----------------------------- MODULE LaneProofs -----------------------------
(* Proofs about Lane for every set of lanes, kinds of request and bounds.  *)
EXTENDS Lane, FiniteSetTheorems, TLAPS

\* The empty reply slot is a request record, and what a record's fields are.
LEMMA NoReqType == NoReq \in Request
BY DEF NoReq, Request, AllKinds

LEMMA RequestFields ==
  ASSUME NEW r \in Request
  PROVE  r.id \in Nat /\ r.kind \in AllKinds /\ r.ses \in Nat
BY DEF Request

\* The request at the head of the endpoint's queue, and where it is sent.
LEMMA HeadRequest ==
  ASSUME TypeOK, NEW l \in Lanes, out[l] # <<>>
  PROVE  /\ Head(out[l]) \in Request /\ Tail(out[l]) \in Seq(Request)
         /\ Head(out[l]).kind # "empty" =>
              Dispatch(Head(out[l]).kind) \in {"writing", "vendor", "sendReq"}
<1>1. Head(out[l]) \in Request /\ Tail(out[l]) \in Seq(Request)
  BY DEF TypeOK
<1> QED
  BY <1>1, RequestFields DEF Dispatch, Engine, AllKinds

\* Every variable keeps its type (ACTIVE_LANES as an integer: that it never
\* goes below zero is ActiveLanesExact).
THEOREM Typing == Spec => []TypeOK
<1>1. Init => TypeOK
  BY NoReqType DEF Init, TypeOK, IoState, WorkerState
<1>2. TypeOK /\ [Next]_vars => TypeOK'
  <2> SUFFICES ASSUME TypeOK, [Next]_vars PROVE TypeOK'
    OBVIOUS
  <2> USE DEF TypeOK, IoState, WorkerState, bus, engine, IoGoto
  <2>1. CASE BusUp
    BY <2>1 DEF BusUp
  <2>2. CASE BusDown
    BY <2>2, NoReqType DEF BusDown
  <2>3. ASSUME NEW l \in Lanes, HostSend(l) PROVE TypeOK'
    <3>1. PICK k \in Kinds :
            out' = [out EXCEPT ![l] =
                      Append(out[l], [id |-> sent[l] + 1, kind |-> k, ses |-> session])]
      BY <2>3 DEF HostSend
    <3>2. [id |-> sent[l] + 1, kind |-> k, ses |-> session] \in Request
      BY LaneAssumption DEF Request
    <3>3. out' \in [Lanes -> Seq(Request)]
      BY <3>1, <3>2
    <3> QED BY <2>3, <3>3 DEF HostSend
  <2>4. ASSUME NEW l \in Lanes, HostCollect(l) PROVE TypeOK'
    BY <2>4, NoReqType DEF HostCollect
  <2>5. ASSUME NEW l \in Lanes, Io(l) PROVE TypeOK'
    <3>1. CASE ReadRequest(l)
      <4>1. out[l] # <<>>
        BY <3>1 DEF ReadRequest
      <4>2. /\ Head(out[l]) \in Request /\ Tail(out[l]) \in Seq(Request)
            /\ Head(out[l]).kind # "empty" => Dispatch(Head(out[l]).kind) \in IoState
        BY <4>1, HeadRequest
      <4> QED BY <3>1, <4>2 DEF ReadRequest
    <3>2. CASE WaitEnabled(l)
      BY <3>2 DEF WaitEnabled
    <3>3. CASE ReadDown(l)
      BY <3>3 DEF ReadDown
    <3>4. CASE VendorDone(l)
      BY <3>4 DEF VendorDone
    <3>5. CASE SendProcess(l)
      BY <3>5 DEF SendProcess
    <3>6. CASE ReceiveReply(l)
      BY <3>6 DEF ReceiveReply
    <3>7. CASE WriteResponse(l)
      BY <3>7, RequestFields DEF WriteResponse
    <3>8. CASE WriteDown(l)
      BY <3>8 DEF WriteDown
    <3>9. CASE SendSuspend(l)
      BY <3>9 DEF SendSuspend
    <3>10. CASE Reset(l)
      BY <3>10, NoReqType DEF Reset
    <3> QED BY <2>5, <3>1, <3>2, <3>3, <3>4, <3>5, <3>6, <3>7, <3>8, <3>9, <3>10 DEF Io
  <2>6. ASSUME NEW l \in Lanes, Worker(l) PROVE TypeOK'
    <3>1. CASE WorkerSuspend(l)
      BY <3>1 DEF WorkerSuspend
    <3>2. CASE WorkerParked(l)
      BY <3>2 DEF WorkerParked
    <3>3. CASE WorkerStart(l)
      BY <3>3, RequestFields DEF WorkerStart
    <3>4. CASE WorkerFinish(l)
      BY <3>4, RequestFields DEF WorkerFinish
    <3>5. CASE WorkerReply(l)
      BY <3>5 DEF WorkerReply
    <3> QED BY <2>6, <3>1, <3>2, <3>3, <3>4, <3>5 DEF Worker
  <2>7. CASE UNCHANGED vars
    BY <2>7 DEF vars
  <2> QED
    BY <2>1, <2>2, <2>3, <2>4, <2>5, <2>6, <2>7 DEF Next, Host
<1> QED
  BY <1>1, <1>2, PTL DEF Spec

-----------------------------------------------------------------------------
\* The I/O task waits for the worker exactly while its one Process is in the
\* channel, in the worker or answered: the channels never go out of step.
THEOREM InStep == Spec => [](ChannelsInStep /\ OneHolder)
<1>1. Init => ChannelsInStep /\ OneHolder
  BY DEF Init, ChannelsInStep, OneHolder
<1>2. TypeOK /\ ChannelsInStep /\ OneHolder /\ [Next]_vars
        => (ChannelsInStep /\ OneHolder)'
  <2> SUFFICES ASSUME TypeOK, ChannelsInStep, OneHolder, [Next]_vars
               PROVE  (ChannelsInStep /\ OneHolder)'
    OBVIOUS
  <2> USE DEF TypeOK, ChannelsInStep, OneHolder, bus, engine, IoGoto, IoState,
              WorkerState
  <2>1. CASE BusUp \/ BusDown
    BY <2>1 DEF BusUp, BusDown
  <2>2. ASSUME NEW l \in Lanes, HostSend(l) PROVE (ChannelsInStep /\ OneHolder)'
    BY <2>2 DEF HostSend
  <2>3. ASSUME NEW l \in Lanes, HostCollect(l) PROVE (ChannelsInStep /\ OneHolder)'
    BY <2>3 DEF HostCollect
  <2>4. ASSUME NEW l \in Lanes, WaitEnabled(l) PROVE (ChannelsInStep /\ OneHolder)'
    BY <2>4 DEF WaitEnabled
  <2>5. ASSUME NEW l \in Lanes, ReadRequest(l) PROVE (ChannelsInStep /\ OneHolder)'
    <3>1. out[l] # <<>>
      BY <2>5 DEF ReadRequest
    <3>2. Head(out[l]).kind # "empty" =>
            Dispatch(Head(out[l]).kind) \in {"writing", "vendor", "sendReq"}
      BY <3>1, HeadRequest
    <3> QED BY <2>5, <3>2 DEF ReadRequest
  <2>6. ASSUME NEW l \in Lanes, ReadDown(l) PROVE (ChannelsInStep /\ OneHolder)'
    BY <2>6 DEF ReadDown
  <2>7. ASSUME NEW l \in Lanes, VendorDone(l) PROVE (ChannelsInStep /\ OneHolder)'
    BY <2>7 DEF VendorDone
  <2>8. ASSUME NEW l \in Lanes, SendProcess(l) PROVE (ChannelsInStep /\ OneHolder)'
    BY <2>8 DEF SendProcess
  <2>9. ASSUME NEW l \in Lanes, ReceiveReply(l) PROVE (ChannelsInStep /\ OneHolder)'
    BY <2>9 DEF ReceiveReply
  <2>10. ASSUME NEW l \in Lanes, WriteResponse(l) PROVE (ChannelsInStep /\ OneHolder)'
    BY <2>10 DEF WriteResponse
  <2>11. ASSUME NEW l \in Lanes, WriteDown(l) PROVE (ChannelsInStep /\ OneHolder)'
    BY <2>11 DEF WriteDown
  <2>12. ASSUME NEW l \in Lanes, SendSuspend(l) PROVE (ChannelsInStep /\ OneHolder)'
    BY <2>12 DEF SendSuspend
  <2>13. ASSUME NEW l \in Lanes, Reset(l) PROVE (ChannelsInStep /\ OneHolder)'
    BY <2>13 DEF Reset
  <2>14. ASSUME NEW l \in Lanes, WorkerSuspend(l) PROVE (ChannelsInStep /\ OneHolder)'
    BY <2>14 DEF WorkerSuspend
  <2>15. ASSUME NEW l \in Lanes, WorkerParked(l) PROVE (ChannelsInStep /\ OneHolder)'
    BY <2>15 DEF WorkerParked
  <2>16. ASSUME NEW l \in Lanes, WorkerStart(l) PROVE (ChannelsInStep /\ OneHolder)'
    BY <2>16 DEF WorkerStart
  <2>17. ASSUME NEW l \in Lanes, WorkerFinish(l) PROVE (ChannelsInStep /\ OneHolder)'
    BY <2>17 DEF WorkerFinish
  <2>18. ASSUME NEW l \in Lanes, WorkerReply(l) PROVE (ChannelsInStep /\ OneHolder)'
    BY <2>18 DEF WorkerReply
  <2>19. CASE UNCHANGED vars
    BY <2>19 DEF vars
  <2> QED
    BY <2>1, <2>2, <2>3, <2>4, <2>5, <2>6, <2>7, <2>8, <2>9, <2>10,
       <2>11, <2>12, <2>13, <2>14, <2>15, <2>16, <2>17, <2>18, <2>19
    DEF Next, Host, Io, Worker
<1> QED
  BY <1>1, <1>2, Typing, PTL DEF Spec

\* The two cores never hold a lane's buffers at once.
THEOREM Exclusive == Spec => []BufferExclusive
<1>1. ChannelsInStep => BufferExclusive
  BY DEF ChannelsInStep, BufferExclusive, IoHolds
<1> QED
  BY <1>1, InStep, PTL

-----------------------------------------------------------------------------
\* Order is kept when the host queues its next request ...
LEMMA OrderedAppend ==
  ASSUME NEW b \in Request, NEW q \in Seq(Request), NEW n \in Nat, Ordered(b, q, n),
         NEW r \in Request, r.id = n + 1
  PROVE  Ordered(b, Append(q, r), n + 1)
<1> DEFINE a == Append(q, r)
<1>1. /\ Len(a) = Len(q) + 1 /\ Len(q) \in Nat
      /\ \A i \in 1 .. Len(q) : a[i] = q[i] /\ q[i].id \in Nat
      /\ a[Len(q) + 1] = r
      /\ b.id \in Nat
  BY RequestFields
<1>2. \A i \in 1 .. Len(a) : i \in 1 .. Len(q) \/ i = Len(q) + 1
  BY <1>1
<1>3. b.id <= n /\ \A i \in 1 .. Len(q) : b.id < q[i].id /\ q[i].id <= n
  BY DEF Ordered
<1>4. \A i, j \in 1 .. Len(q) : i < j => q[i].id < q[j].id
  BY DEF Ordered
<1> HIDE DEF a
<1>5. \A i \in 1 .. Len(a) : b.id < a[i].id /\ a[i].id <= n + 1
  <2> TAKE i \in 1 .. Len(a)
  <2>1. CASE i \in 1 .. Len(q)
    BY <1>1, <1>3, <2>1
  <2>2. CASE i = Len(q) + 1
    BY <1>1, <1>3, <2>2
  <2> QED BY <1>2, <2>1, <2>2
<1>6. \A i, j \in 1 .. Len(a) : i < j => a[i].id < a[j].id
  <2> TAKE i, j \in 1 .. Len(a)
  <2>1. CASE j \in 1 .. Len(q)
    BY <1>1, <1>2, <1>4, <2>1
  <2>2. CASE j = Len(q) + 1
    BY <1>1, <1>2, <1>3, <2>2
  <2> QED BY <1>2, <2>1, <2>2
<1>7. b.id <= n + 1
  BY <1>1, <1>3
<1>8. Ordered(b, a, n + 1)
  BY <1>5, <1>6, <1>7 DEF Ordered
<1> QED
  BY <1>8 DEF a

\* ... and when the device takes the first one.
LEMMA OrderedTail ==
  ASSUME NEW b \in Request, NEW q \in Seq(Request), NEW n \in Nat, Ordered(b, q, n),
         q # <<>>
  PROVE  /\ Ordered(b, Tail(q), n) /\ Ordered(Head(q), Tail(q), n)
         /\ b.id < Head(q).id /\ Head(q).id <= n
<1> DEFINE t == Tail(q)
<1>1. /\ Len(t) = Len(q) - 1 /\ Len(q) \in Nat /\ Head(q) = q[1]
      /\ \A i \in 1 .. Len(t) : t[i] = q[i + 1]
      /\ 1 \in 1 .. Len(q)
  OBVIOUS
<1>2. \A i \in 1 .. Len(t) : i + 1 \in 1 .. Len(q) /\ 1 < i + 1
  BY <1>1
<1>3. b.id <= n /\ \A i \in 1 .. Len(q) : b.id < q[i].id /\ q[i].id <= n
  BY DEF Ordered
<1>4. \A i, j \in 1 .. Len(q) : i < j => q[i].id < q[j].id
  BY DEF Ordered
<1>5. b.id < q[1].id /\ q[1].id <= n
  BY <1>1, <1>3
<1> HIDE DEF t
<1>6. \A i \in 1 .. Len(t) : /\ b.id < t[i].id /\ t[i].id <= n
                             /\ q[1].id < t[i].id
  <2> TAKE i \in 1 .. Len(t)
  <2>1. i + 1 \in 1 .. Len(q) /\ 1 < i + 1 /\ t[i] = q[i + 1]
    BY <1>1, <1>2
  <2>2. b.id < q[i + 1].id /\ q[i + 1].id <= n /\ q[1].id < q[i + 1].id
    BY <1>1, <1>3, <1>4, <2>1
  <2> QED BY <2>1, <2>2
<1>7. \A i, j \in 1 .. Len(t) : i < j => t[i].id < t[j].id
  <2> SUFFICES ASSUME NEW i \in 1 .. Len(t), NEW j \in 1 .. Len(t), i < j
               PROVE  t[i].id < t[j].id
    OBVIOUS
  <2>1. i + 1 < j + 1
    BY <1>1
  <2> QED BY <1>1, <1>2, <1>4, <2>1
<1> QED
  BY <1>1, <1>3, <1>5, <1>6, <1>7 DEF Ordered, t

\* Requests come out of an endpoint in the order the host sent them, each one
\* later than the request in the buffer.
THEOREM InOrder == Spec => []RequestsInOrder
<1>1. Init => RequestsInOrder
  BY DEF Init, RequestsInOrder, Ordered, NoReq
<1>2. TypeOK /\ RequestsInOrder /\ [Next]_vars => RequestsInOrder'
  <2> SUFFICES ASSUME TypeOK, RequestsInOrder, [Next]_vars
               PROVE  RequestsInOrder'
    OBVIOUS
  <2> USE DEF RequestsInOrder
  <2>1. CASE UNCHANGED <<out, sent, reqBuf>>
    BY <2>1 DEF Ordered
  <2>2. ASSUME out' = [l \in Lanes |-> <<>>], UNCHANGED <<sent, reqBuf>>
        PROVE  RequestsInOrder'
    BY <2>2 DEF Ordered
  <2>3. ASSUME NEW l \in Lanes, HostSend(l) PROVE RequestsInOrder'
    <3>1. PICK k \in Kinds :
            out' = [out EXCEPT ![l] =
                      Append(out[l], [id |-> sent[l] + 1, kind |-> k, ses |-> session])]
      BY <2>3 DEF HostSend
    <3> DEFINE r == [id |-> sent[l] + 1, kind |-> k, ses |-> session]
    <3>2. r \in Request /\ r.id = sent[l] + 1
      BY LaneAssumption DEF TypeOK, Request
    <3> HIDE DEF r
    <3>3. Ordered(reqBuf[l], Append(out[l], r), sent[l] + 1)
      BY <3>2, OrderedAppend DEF TypeOK
    <3> QED BY <2>3, <3>1, <3>3 DEF HostSend, TypeOK, r
  <2>4. ASSUME NEW l \in Lanes, ReadRequest(l) PROVE RequestsInOrder'
    <3>1. out[l] # <<>>
      BY <2>4 DEF ReadRequest
    <3>2. /\ Ordered(reqBuf[l], Tail(out[l]), sent[l])
          /\ Ordered(Head(out[l]), Tail(out[l]), sent[l])
      BY <3>1, OrderedTail DEF TypeOK
    <3> QED BY <2>4, <3>2 DEF ReadRequest, TypeOK
  <2>5. CASE BusUp \/ BusDown
    BY <2>1, <2>2, <2>5 DEF BusUp, BusDown
  <2>6. ASSUME NEW l \in Lanes, Io(l) \/ Worker(l) \/ HostCollect(l), ~ReadRequest(l)
        PROVE  RequestsInOrder'
    BY <2>1, <2>2, <2>6
       DEF Io, Worker, HostCollect, bus, WaitEnabled, ReadDown, VendorDone,
           SendProcess, ReceiveReply, WriteResponse, WriteDown, SendSuspend, Reset,
           WorkerSuspend, WorkerParked, WorkerStart, WorkerFinish, WorkerReply
  <2>7. CASE UNCHANGED vars
    BY <2>1, <2>7 DEF vars
  <2> QED
    BY <2>3, <2>4, <2>5, <2>6, <2>7 DEF Next, Host
<1> QED
  BY <1>1, <1>2, Typing, PTL DEF Spec

-----------------------------------------------------------------------------
\* Where serve_request sends each kind of request.
LEMMA DispatchKind ==
  ASSUME NEW k \in AllKinds, k # "empty"
  PROVE  /\ Dispatch(k) \in {"writing", "vendor", "sendReq"}
         /\ Dispatch(k) = "vendor" => k \in {"vendor", "reboot"}
         /\ Dispatch(k) = "sendReq" => k \in Engine
         /\ Dispatch(k) = "writing" => k = "info"
BY DEF AllKinds, Dispatch, Engine

\* Whatever is about to be sent to the host is the reply to the request being
\* served, which was not answered before, and was executed if it is for the
\* engine.
Service == Dispatched /\ Progress /\ ReplyAnswersRequest

THEOREM Answers == Spec => []Service
<1>1. Init => Service
  BY DEF Init, Service, Dispatched, Progress, ReplyAnswersRequest, NoReq, Serving
<1>2. TypeOK /\ ChannelsInStep /\ OneHolder /\ RequestsInOrder /\ Service /\ [Next]_vars
        => Service'
  <2> SUFFICES ASSUME TypeOK, ChannelsInStep, OneHolder, RequestsInOrder, Service,
                      [Next]_vars
               PROVE  Service'
    OBVIOUS
  <2>0. \A l \in Lanes : reqBuf[l].id \in Nat
    BY RequestFields DEF TypeOK
  <2> USE <2>0 DEF Service, Dispatched, Progress, ReplyAnswersRequest, ChannelsInStep,
             OneHolder, Serving, TypeOK, bus, engine, IoGoto, IoState, WorkerState
  <2>1. CASE BusUp \/ BusDown
    <3>1. UNCHANGED <<io, w, reqBuf, respBuf, reqCh, respCh, ran, replied>>
      BY <2>1 DEF BusUp, BusDown
    <3> QED BY <3>1
  <2>2. ASSUME NEW l \in Lanes, HostSend(l) PROVE Service'
    BY <2>2 DEF HostSend
  <2>3. ASSUME NEW l \in Lanes, HostCollect(l) PROVE Service'
    BY <2>3 DEF HostCollect
  <2>4. ASSUME NEW l \in Lanes, WaitEnabled(l) PROVE Service'
    BY <2>4 DEF WaitEnabled
  <2>5. ASSUME NEW l \in Lanes, ReadRequest(l) PROVE Service'
    <3>1. out[l] # <<>> /\ Ordered(reqBuf[l], out[l], sent[l])
      BY <2>5 DEF ReadRequest, RequestsInOrder
    <3>2. Head(out[l]) \in Request /\ reqBuf[l].id < Head(out[l]).id
      BY <3>1, HeadRequest, OrderedTail
    <3> DEFINE k == Head(out[l]).kind
    <3>4. /\ k # "empty" => Dispatch(k) \in {"writing", "vendor", "sendReq"}
          /\ k # "empty" /\ Dispatch(k) = "vendor" => k \in {"vendor", "reboot"}
          /\ k # "empty" /\ Dispatch(k) = "sendReq" => k \in Engine
          /\ k # "empty" /\ Dispatch(k) = "writing" => k = "info"
      BY <3>2, RequestFields, DispatchKind
    <3>3. reqBuf[l].id \in Nat /\ Head(out[l]).id \in Nat
      BY <3>2, RequestFields
    <3>5. CASE k = "empty"
      BY <2>5, <3>5 DEF ReadRequest
    <3>6. CASE k # "empty"
      <4>1. /\ io' = [io EXCEPT ![l] = Dispatch(k)]
            /\ reqBuf' = [reqBuf EXCEPT ![l] = Head(out[l])]
            /\ respBuf' = IF k = "info" THEN [respBuf EXCEPT ![l] = Head(out[l])]
                                        ELSE respBuf
            /\ UNCHANGED <<w, reqCh, respCh, ran, replied>>
            /\ io[l] = "reading"
        BY <2>5, <3>6 DEF ReadRequest
      <4> HIDE DEF k
      <4>2. Head(out[l]).kind = k
        BY DEF k
      <4>3. CASE k = "info"
        BY <3>2, <3>3, <4>1, <4>2, <4>3 DEF Dispatch, Engine
      <4>4. CASE k # "info"
        BY <3>2, <3>3, <3>4, <3>6, <4>1, <4>2, <4>4
      <4> QED BY <4>3, <4>4
    <3> QED BY <3>5, <3>6
  <2>6. ASSUME NEW l \in Lanes, ReadDown(l) PROVE Service'
    BY <2>6 DEF ReadDown
  <2>7. ASSUME NEW l \in Lanes, VendorDone(l) PROVE Service'
    <3>1. reqBuf[l].kind \notin Engine /\ reqBuf' = reqBuf
      BY <2>7 DEF VendorDone, Engine
    <3>2. Dispatched'
      BY <2>7 DEF VendorDone
    <3>3. Progress'
      BY <2>7 DEF VendorDone
    <3>4. ReplyAnswersRequest'
      BY <2>7, <3>1 DEF VendorDone
    <3> QED BY <3>2, <3>3, <3>4
  <2>8. ASSUME NEW l \in Lanes, SendProcess(l) PROVE Service'
    BY <2>8 DEF SendProcess
  <2>9. ASSUME NEW l \in Lanes, ReceiveReply(l) PROVE Service'
    BY <2>9 DEF ReceiveReply
  <2>10. ASSUME NEW l \in Lanes, WriteResponse(l) PROVE Service'
    BY <2>10 DEF WriteResponse
  <2>11. ASSUME NEW l \in Lanes, WriteDown(l) PROVE Service'
    BY <2>11 DEF WriteDown
  <2>12. ASSUME NEW l \in Lanes, SendSuspend(l) PROVE Service'
    BY <2>12 DEF SendSuspend
  <2>13. ASSUME NEW l \in Lanes, Reset(l) PROVE Service'
    BY <2>13 DEF Reset
  <2>14. ASSUME NEW l \in Lanes, WorkerSuspend(l) PROVE Service'
    BY <2>14 DEF WorkerSuspend
  <2>15. ASSUME NEW l \in Lanes, WorkerParked(l) PROVE Service'
    BY <2>15 DEF WorkerParked
  <2>16. ASSUME NEW l \in Lanes, WorkerStart(l) PROVE Service'
    BY <2>16 DEF WorkerStart
  <2>17. ASSUME NEW l \in Lanes, WorkerFinish(l) PROVE Service'
    BY <2>17 DEF WorkerFinish
  <2>18. ASSUME NEW l \in Lanes, WorkerReply(l) PROVE Service'
    BY <2>18 DEF WorkerReply
  <2>19. CASE UNCHANGED vars
    BY <2>19 DEF vars
  <2> QED
    BY <2>1, <2>2, <2>3, <2>4, <2>5, <2>6, <2>7, <2>8, <2>9, <2>10,
       <2>11, <2>12, <2>13, <2>14, <2>15, <2>16, <2>17, <2>18, <2>19
    DEF Next, Host, Io, Worker
<1> QED
  BY <1>1, <1>2, Typing, InStep, InOrder, PTL DEF Spec

\* Whatever write_response sends answers the request being served, once.
THEOREM AnswersRequest == Spec => []ReplyAnswersRequest
<1>1. Service => ReplyAnswersRequest
  BY DEF Service
<1> QED
  BY <1>1, Answers, PTL

\* The inductive invariant that the model checker checks too.
THEOREM Strengthening == Spec => []IInv
<1>1. TypeOK /\ ChannelsInStep /\ OneHolder /\ RequestsInOrder /\ Service
        => IInv
  BY DEF Service, IInv
<1> QED
  BY <1>1, Typing, InStep, InOrder, Answers, PTL

-----------------------------------------------------------------------------
\* The tasks, the channels and the shared buffers implement the abstract
\* interface: in-order service, exactly-once execution on the engine, at most
\* one answer per request, and the target released before it is used again.
Safe == TypeOK /\ ChannelsInStep /\ OneHolder /\ RequestsInOrder /\ Service

AbsVars == <<Open, Current, OnEngine, ran, replied, OwedLanes>>

THEOREM Implementation == Spec => ImplementsLaneAbs
<1>1. Spec => []Safe
  BY Typing, InStep, InOrder, Answers, PTL DEF Safe
<1>2. Init => Abs!Init
  BY DEF Init, Abs!Init, Open, Current, OnEngine, OwedLanes, Owed, NoReq, Serving,
         Engine
<1>3. Safe /\ [Next]_vars => [Abs!Next]_AbsVars
  <2> SUFFICES ASSUME Safe, [Next]_vars, ~UNCHANGED AbsVars PROVE Abs!Next
    BY DEF AbsVars
  <2> USE DEF Open, Current, OnEngine, OwedLanes, Owed, Serving, IoGoto, AbsVars
  <2>0. TypeOK
    BY DEF Safe
  <2>1. ASSUME NEW l \in Lanes, ReadRequest(l) PROVE Abs!Accept(l)
    <3>1. out[l] # <<>> /\ Ordered(reqBuf[l], out[l], sent[l]) /\ io[l] = "reading"
      BY <2>1 DEF ReadRequest, Safe, RequestsInOrder
    <3>2. Head(out[l]) \in Request /\ reqBuf[l].id < Head(out[l]).id
      BY <2>0, <3>1, HeadRequest, OrderedTail DEF TypeOK
    <3>3. Head(out[l]).kind # "empty"
      BY <2>1 DEF ReadRequest, bus, engine
    <3>4. Dispatch(Head(out[l]).kind) \in Serving
      BY <3>2, <3>3, RequestFields, DispatchKind
    <3>5. /\ io' = [io EXCEPT ![l] = Dispatch(Head(out[l]).kind)]
          /\ reqBuf' = [reqBuf EXCEPT ![l] = Head(out[l])]
          /\ UNCHANGED <<w, reqCh, ran, replied>>
      BY <2>1, <3>3 DEF ReadRequest, engine
    <3>6. l \notin Open /\ Open' = Open \cup {l}
      BY <2>0, <3>1, <3>4, <3>5 DEF TypeOK
    <3>7. /\ Current'[l] > Current[l]
          /\ Current' = [Current EXCEPT ![l] = Current'[l]]
      BY <2>0, <3>2, <3>5, RequestFields DEF TypeOK
    <3>8. OnEngine' \in {OnEngine \cup {l}, OnEngine \ {l}}
      BY <2>0, <3>5 DEF TypeOK
    <3>9. OwedLanes' = OwedLanes
      BY <2>0, <3>1, <3>4, <3>5 DEF TypeOK
    <3> QED BY <3>5, <3>6, <3>7, <3>8, <3>9 DEF Abs!Accept
  <2>2. ASSUME NEW l \in Lanes, WorkerFinish(l) PROVE Abs!Execute(l)
    <3>1. io[l] = "awaitReply" /\ reqCh[l] = "none" /\ reqBuf[l].kind \in Engine
      BY <2>0, <2>2 DEF WorkerFinish, Safe, ChannelsInStep, OneHolder, Service,
                        Dispatched, TypeOK
    <3>2. ran[l] < Current[l] /\ ran' = [ran EXCEPT ![l] = Current[l]]
      BY <2>2 DEF WorkerFinish, Safe, Service, Progress
    <3>3. l \in Open \cap OnEngine /\ l \notin OwedLanes
      BY <2>2, <3>1 DEF WorkerFinish
    <3>4. UNCHANGED <<Open, Current, OnEngine, replied, OwedLanes>>
      BY <2>0, <2>2 DEF WorkerFinish, TypeOK, engine
    <3> QED BY <3>2, <3>3, <3>4 DEF Abs!Execute
  <2>3. ASSUME NEW l \in Lanes, WriteResponse(l) PROVE Abs!Answer(l)
    <3>1. io[l] = "writing" /\ respBuf[l] = reqBuf[l]
          /\ (reqBuf[l].kind \in Engine => ran[l] = reqBuf[l].id)
      BY <2>3 DEF WriteResponse, Safe, Service, ReplyAnswersRequest
    <3>2. Abs!Finished(l)
      BY <3>1 DEF Abs!Finished
    <3>3. Open' = Open \ {l} /\ replied' = [replied EXCEPT ![l] = Current[l]]
      BY <2>0, <2>3, <3>1 DEF WriteResponse, TypeOK
    <3>4. UNCHANGED <<Current, OnEngine, ran, OwedLanes>>
      BY <2>0, <2>3, <3>1 DEF WriteResponse, TypeOK, engine
    <3> QED BY <3>2, <3>3, <3>4 DEF Abs!Answer
  <2>4. ASSUME NEW l \in Lanes, WriteDown(l) PROVE Abs!Drop(l)
    <3>1. io[l] = "writing" /\ (reqBuf[l].kind \in Engine => ran[l] = reqBuf[l].id)
      BY <2>4 DEF WriteDown, Safe, Service, ReplyAnswersRequest
    <3>2. Abs!Finished(l)
      BY <3>1 DEF Abs!Finished
    <3>3. Open' = Open \ {l} /\ OwedLanes' = OwedLanes \cup {l}
      BY <2>0, <2>4, <3>1 DEF WriteDown, TypeOK
    <3>4. UNCHANGED <<Current, OnEngine, ran, replied>>
      BY <2>4 DEF WriteDown, engine
    <3> QED BY <3>2, <3>3, <3>4 DEF Abs!Drop
  <2>5. ASSUME NEW l \in Lanes, ReceiveReply(l) PROVE Abs!Drop(l)
    <3>1. io[l] = "awaitReply" /\ ran[l] = reqBuf[l].id
      BY <2>5 DEF ReceiveReply, Safe, Service, Progress
    <3>2. CASE respCh[l] = "silent"
      <4>1. Open' = Open \ {l}
        BY <2>0, <2>5, <3>1, <3>2 DEF ReceiveReply, TypeOK
      <4>2. UNCHANGED <<Current, OnEngine, ran, replied, OwedLanes>>
        BY <2>0, <2>5, <3>1, <3>2 DEF ReceiveReply, TypeOK, engine
      <4>3. Abs!Finished(l)
        BY <3>1 DEF Abs!Finished
      <4> QED BY <4>1, <4>2, <4>3 DEF Abs!Drop
    <3>3. CASE respCh[l] # "silent"
      BY <2>0, <2>5, <3>1, <3>3 DEF ReceiveReply, TypeOK, engine
    <3> QED BY <3>2, <3>3
  <2>6. ASSUME NEW l \in Lanes, ReadDown(l) PROVE Abs!GoDown(l)
    <3>1. l \notin Open /\ OwedLanes' = OwedLanes \cup {l}
      BY <2>0, <2>6 DEF ReadDown, TypeOK
    <3>2. UNCHANGED <<Open, Current, OnEngine, ran, replied>>
      BY <2>0, <2>6 DEF ReadDown, TypeOK, engine
    <3> QED BY <3>1, <3>2 DEF Abs!GoDown
  <2>7. ASSUME NEW l \in Lanes, WorkerParked(l) PROVE Abs!Release(l)
    <3>1. UNCHANGED <<Open, Current, OnEngine, ran, replied>>
      BY <2>7 DEF WorkerParked
    <3>2. OwedLanes' \in {OwedLanes, OwedLanes \ {l}}
      BY <2>0, <2>7 DEF WorkerParked, TypeOK
    <3> QED BY <3>1, <3>2 DEF Abs!Release
  <2>8. ASSUME NEW l \in Lanes, Reset(l) PROVE Abs!Reset
    BY <2>8 DEF Reset, Abs!Reset
  <2>9. ASSUME NEW l \in Lanes, HostCollect(l) PROVE FALSE
    BY <2>0, <2>9 DEF HostCollect, TypeOK, engine
  <2>10. ASSUME NEW l \in Lanes, HostSend(l) PROVE FALSE
    BY <2>0, <2>10 DEF HostSend, TypeOK, engine
  <2>11. ASSUME NEW l \in Lanes, WaitEnabled(l) PROVE FALSE
    BY <2>0, <2>11 DEF WaitEnabled, TypeOK, engine
  <2>12. ASSUME NEW l \in Lanes, VendorDone(l) PROVE FALSE
    BY <2>0, <2>12 DEF VendorDone, TypeOK, engine
  <2>13. ASSUME NEW l \in Lanes, SendProcess(l) PROVE FALSE
    BY <2>0, <2>13 DEF SendProcess, TypeOK, engine
  <2>14. ASSUME NEW l \in Lanes, SendSuspend(l) PROVE FALSE
    BY <2>0, <2>14 DEF SendSuspend, TypeOK, engine
  <2>15. ASSUME NEW l \in Lanes, WorkerSuspend(l) PROVE FALSE
    BY <2>0, <2>15 DEF WorkerSuspend, TypeOK, engine
  <2>16. ASSUME NEW l \in Lanes, WorkerStart(l) PROVE FALSE
    BY <2>0, <2>16 DEF WorkerStart, TypeOK, engine
  <2>17. ASSUME NEW l \in Lanes, WorkerReply(l) PROVE FALSE
    BY <2>0, <2>17 DEF WorkerReply, TypeOK, engine
  <2>18. ~(BusUp \/ BusDown \/ UNCHANGED vars)
    BY DEF BusUp, BusDown, vars
  <2> QED
    BY <2>1, <2>2, <2>3, <2>4, <2>5, <2>6, <2>7, <2>8, <2>9, <2>10, <2>11, <2>12, <2>13, <2>14, <2>15, <2>16, <2>17,
       <2>18 DEF Next, Host, Io, Worker, Abs!Next
<1> QED
  BY <1>1, <1>2, <1>3, PTL DEF Spec, ImplementsLaneAbs, Abs!Spec, Abs!vars, AbsVars

-----------------------------------------------------------------------------
\* ACTIVE_LANES always equals the number of workers inside process_command, so
\* it never wraps below zero and never keeps a lane counted that is gone.
Busy == {l \in Lanes : w[l] = "process"}

THEOREM ActiveExact == Spec => []ActiveLanesExact
<1> USE DEF Busy
<1>1. ActiveLanesExact <=> active = Cardinality(Busy)
  BY DEF ActiveLanesExact
<1>2. IsFiniteSet(Busy) /\ Cardinality(Busy) \in Nat
  <2>1. IsFiniteSet(Busy)
    BY LaneAssumption, FS_Subset
  <2> QED BY <2>1, FS_CardinalityType
<1>3. Init => active = Cardinality(Busy)
  <2>1. Init => Busy = {}
    BY DEF Init
  <2> QED BY <2>1, FS_EmptySet DEF Init
<1>4. TypeOK /\ active = Cardinality(Busy) /\ [Next]_vars
        => active' = Cardinality(Busy')
  <2> SUFFICES ASSUME TypeOK, active = Cardinality(Busy), [Next]_vars
               PROVE  active' = Cardinality(Busy')
    OBVIOUS
  <2>1. CASE UNCHANGED <<active, w>>
    BY <2>1
  <2>2. ASSUME NEW l \in Lanes, WorkerStart(l) PROVE active' = Cardinality(Busy')
    <3>1. l \notin Busy /\ Busy' = Busy \cup {l} /\ active' = active + 1
      BY <2>2 DEF WorkerStart, TypeOK
    <3> QED BY <3>1, <1>2, FS_AddElement
  <2>3. ASSUME NEW l \in Lanes, WorkerFinish(l) PROVE active' = Cardinality(Busy')
    <3>1. l \in Busy /\ Busy' = Busy \ {l} /\ active' = active - 1
      BY <2>3 DEF WorkerFinish, TypeOK
    <3> QED BY <3>1, <1>2, FS_RemoveElement
  <2>4. ASSUME NEW l \in Lanes, Reset(l) PROVE active' = Cardinality(Busy')
    <3>1. Busy' = {} /\ active' = 0
      BY <2>4 DEF Reset
    <3> QED BY <3>1, FS_EmptySet
  <2>5. ASSUME NEW l \in Lanes,
               WorkerSuspend(l) \/ WorkerParked(l) \/ WorkerReply(l)
        PROVE  active' = Cardinality(Busy')
    <3>1. Busy' = Busy /\ active' = active
      BY <2>5 DEF WorkerSuspend, WorkerParked, WorkerReply, TypeOK, engine
    <3> QED BY <3>1
  <2>6. ASSUME NEW l \in Lanes, Io(l) \/ Host(l), ~Reset(l)
        PROVE  UNCHANGED <<active, w>>
    BY <2>6
       DEF Io, Host, HostSend, HostCollect, WaitEnabled, ReadRequest, ReadDown,
           VendorDone, SendProcess, ReceiveReply, WriteResponse, WriteDown,
           SendSuspend, engine
  <2>7. CASE BusUp \/ BusDown \/ UNCHANGED vars
    BY <2>1, <2>7 DEF BusUp, BusDown, vars
  <2> QED
    BY <2>1, <2>2, <2>3, <2>4, <2>5, <2>6, <2>7 DEF Next, Worker
<1> HIDE DEF Busy
<1>5. ActiveLanesExact' <=> active' = Cardinality(Busy')
  BY DEF ActiveLanesExact, Busy
<1> QED
  BY <1>1, <1>3, <1>4, <1>5, Typing, PTL DEF Spec
=============================================================================
