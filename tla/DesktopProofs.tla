---------------------------- MODULE DesktopProofs ----------------------------
(***************************************************************************)
(* Proofs about DesktopBackend, under every front end, and about           *)
(* DesktopApp, for every number of calls, files and ids.                   *)
(*                                                                         *)
(* JobSlotIsTheJob counts the places a job can be at.  What carries it     *)
(* from one place to the next is that the slot has one holder: the call    *)
(* that claimed it, until it has sent the job to the worker, and the task  *)
(* that waits for the job from then on (Slot); and that this job is in one *)
(* message at most (Single).                                               *)
(*                                                                         *)
(* The window is one front end of the back end (FrontEnd), so this holds   *)
(* of the application too.  That the end the window shows is the job's     *)
(* rests on the way of an outcome: it is set once, before the event that   *)
(* carries it is sent (Ends), and agrees with what was written.            *)
(***************************************************************************)
EXTENDS DesktopApp, TLAPS

StartingCall(c) == call[c].op = "start" /\ call[c].at = "send"

Slot ==
  /\ \A c \in Calls : StartingCall(c) =>
       /\ job \in Ids /\ call[c].id = job /\ relay[job] = "none"
       /\ \A d \in Calls : StartingCall(d) => d = c
  /\ \A j \in Ids : relay[j] = "waiting" => j = job
  /\ job # Null => relay[job] = "waiting" \/ \E c \in Calls : StartingCall(c)

\* Ids are new, and outcomes come before the relay task lets go.
Order ==
  /\ job # Null => job < nextId
  /\ \A j \in Ids : /\ j >= nextId => relay[j] = "none"
                    /\ relay[j] = "none" => outcome[j] = Null
                    /\ relay[j] \in {"released", "told"} => outcome[j] # Null

IsJob(m) == m.op \in {"process", "persist"}
Pending(m) == m.job \in Ids /\ relay[m.job] = "waiting" /\ outcome[m.job] = Null

Single ==
  /\ \A i \in 1 .. Len(queue) : IsJob(queue[i]) =>
       /\ queue[i].op = "process" /\ Pending(queue[i])
       /\ \A k \in 1 .. Len(queue) : IsJob(queue[k]) => k = i
  /\ working # Null /\ IsJob(working) =>
       /\ Pending(working)
       /\ \A i \in 1 .. Len(queue) : ~IsJob(queue[i])

IInv == BackendTypeOK /\ Slot /\ Order /\ Single

\* Whose document the worker is asked for awaits it, and asked once.
Awaits(c) == call[c].op \in Opens /\ call[c].at = "wait"
Reply ==
  /\ \A i \in 1 .. Len(queue) : queue[i].op = "open" =>
       /\ Awaits(queue[i].call)
       /\ \A k \in 1 .. Len(queue) :
            queue[k].op = "open" /\ queue[k].call = queue[i].call => k = i
  /\ Doing("open") =>
       /\ Awaits(working.call)
       /\ \A i \in 1 .. Len(queue) : queue[i].op = "open" => queue[i].call # working.call

-----------------------------------------------------------------------------
LEMMA SlotMeansJob == IInv => JobSlotIsTheJob
<1> SUFFICES ASSUME IInv PROVE JobSlotIsTheJob
  OBVIOUS
<1>1. Starting \subseteq {job} \ {Null}
  BY NullAssumption DEF Starting, At, IInv, Slot, StartingCall
<1>2. Waiting \subseteq {job} \ {Null}
  BY NullAssumption DEF Waiting, IInv, Slot
<1>3. job # Null => job \in Starting \cup Waiting
  BY DEF Starting, Waiting, At, IInv, Slot, StartingCall, BackendTypeOK
<1>4. ASSUME NEW j \in Ids, OnItsWay(j) \/ AtWork(j)
      PROVE  j \in Waiting /\ outcome[j] = Null
  BY <1>4 DEF IInv, Single, IsJob, Pending, OnItsWay, AtWork, Waiting, BackendTypeOK
<1>5. QED
  BY <1>1, <1>2, <1>3, <1>4 DEF JobSlotIsTheJob

LEMMA InitIInv == BackendInit => IInv
<1> SUFFICES ASSUME BackendInit PROVE IInv
  OBVIOUS
<1>1. BackendTypeOK
  BY IdBoundAssumption DEF BackendInit, BackendTypeOK, Idle, CallRecords, Ids, Places
<1>2. Slot /\ Order /\ Single
  BY DEF BackendInit, Idle, Slot, Order, Single, StartingCall
<1>3. QED
  BY <1>1, <1>2 DEF IInv

-----------------------------------------------------------------------------
(* Steps that change no job.                                               *)

LEMMA CallStep ==
  ASSUME IInv, NEW c \in Calls,
         call' \in [Calls -> CallRecords], ~StartingCall(c), ~StartingCall(c)',
         \A d \in Calls \ {c} : call'[d] = call[d],
         UNCHANGED <<job, relay, outcome>>
  PROVE  Slot'
BY DEF IInv, Slot, StartingCall
LEMMA AnswerStep ==
  ASSUME BackendTypeOK, NEW c \in Calls, NEW r \in Results, NEW id \in Ids \cup {Null},
         Answer(c, r, id)
  PROVE  /\ call' \in [Calls -> CallRecords] /\ call'[c].at = "answered"
         /\ call'[c].op = call[c].op
         /\ \A d \in Calls \ {c} : call'[d] = call[d]
<1>1. call[c] \in CallRecords /\ call \in [Calls -> CallRecords]
  BY DEF BackendTypeOK
<1> DEFINE answered == [call[c] EXCEPT !.at = "answered", !.result = r, !.id = id]
<1>2. answered \in CallRecords /\ answered.at = "answered" /\ answered.op = call[c].op
  BY <1>1 DEF CallRecords, Places
<1>3. call' = [call EXCEPT ![c] = answered]
  BY DEF Answer
<1> HIDE DEF answered
<1>4. QED
  BY <1>1, <1>2, <1>3

LEMMA GoStep ==
  ASSUME BackendTypeOK, NEW c \in Calls, NEW place \in Places, Go(c, place)
  PROVE  /\ call' \in [Calls -> CallRecords] /\ call'[c].at = place
         /\ call'[c].op = call[c].op
         /\ \A d \in Calls \ {c} : call'[d] = call[d]
BY DEF BackendTypeOK, Go, CallRecords

LEMMA CallSteps ==
  ASSUME IInv, NEW c \in Calls,
         OpenCheck(c) \/ CloseCheck(c) \/ CloseForget(c) \/ StartCheck(c)
           \/ CancelRun(c) \/ IssueAny(c) \/ CollectAny(c)
  PROVE  IInv'
<1>1. /\ UNCHANGED <<job, nextId, relay, outcome, queue, working>>
      /\ UNCHANGED <<session, alive, events, asked, written>> /\ document' \in {document, Null}
  BY DEF OpenCheck, CloseCheck, CloseForget, StartCheck, CancelRun, IssueAny, CollectAny,
         stateVars, workerVars, jobVars
<1>2. cancelled' \subseteq Ids
  BY NullAssumption DEF IInv, BackendTypeOK, OpenCheck, CloseCheck, CloseForget, StartCheck,
         CancelRun,
         IssueAny, CollectAny, At, CallRecords, stateVars
<1>3. /\ call' \in [Calls -> CallRecords] /\ ~StartingCall(c) /\ ~StartingCall(c)'
      /\ \A d \in Calls \ {c} : call'[d] = call[d]
  <2>1. CASE OpenCheck(c) \/ CloseCheck(c) \/ CloseForget(c) \/ CancelRun(c)
    <3>1. ~StartingCall(c)
      BY <2>1 DEF OpenCheck, CloseCheck, CloseForget, CancelRun, At, Opens, StartingCall
    <3>2. call[c].op # "start"
      BY <2>1 DEF OpenCheck, CloseCheck, CloseForget, CancelRun, At, Opens
    <3>3. Go(c, "send") \/ \E r \in Results : Answer(c, r, Null)
      BY <2>1 DEF OpenCheck, CloseCheck, CloseForget, CancelRun, Results
    <3>4. QED
      BY <3>1, <3>2, <3>3, AnswerStep, GoStep DEF IInv, Places, StartingCall
  <2>2. CASE StartCheck(c)
    <3>1. ~StartingCall(c)
      BY <2>2 DEF StartCheck, At, StartingCall
    <3>2. CASE Answer(c, "refused", Null)
      BY <3>1, <3>2, AnswerStep DEF IInv, Results, StartingCall
    <3>3. CASE /\ document # Null
               /\ call' = [call EXCEPT ![c] = [@ EXCEPT !.at = "claim", !.file = document.file]]
      <4> DEFINE claiming == [call[c] EXCEPT !.at = "claim", !.file = document.file]
      <4>1. call[c] \in CallRecords /\ call \in [Calls -> CallRecords]
        BY DEF IInv, BackendTypeOK
      <4>2. document.file \in Files \cup {Null}
        BY <3>3 DEF IInv, BackendTypeOK
      <4>3. claiming \in CallRecords /\ claiming.at = "claim"
        BY <4>1, <4>2 DEF CallRecords, Places
      <4>4. call' = [call EXCEPT ![c] = claiming]
        BY <3>3
      <4> HIDE DEF claiming
      <4>5. QED
        BY <3>1, <4>1, <4>3, <4>4 DEF StartingCall
    <3>4. QED
      BY <2>2, <3>2, <3>3 DEF StartCheck
  <2>3. CASE IssueAny(c)
    BY <2>3 DEF IInv, BackendTypeOK, IssueAny, Issue, Idle, CallRecords, Places, StartingCall
  <2>4. CASE CollectAny(c)
    BY <2>4 DEF IInv, BackendTypeOK, CollectAny, Collect, Idle, CallRecords, Places,
           StartingCall
  <2>5. QED
    BY <2>1, <2>2, <2>3, <2>4
<1>4. Slot'
  BY <1>1, <1>3, CallStep
<1>5. Order' /\ Single'
  BY <1>1 DEF IInv, Order, Single, Pending
<1>6. BackendTypeOK'
  BY <1>1, <1>2, <1>3 DEF IInv, BackendTypeOK
<1>7. QED
  BY <1>4, <1>5, <1>6 DEF IInv

LEMMA OpenStoreStep ==
  ASSUME IInv, NEW c \in Calls, OpenStore(c)
  PROVE  IInv'
<1>1. /\ UNCHANGED <<job, cancelled, relay, outcome, queue, working>>
      /\ UNCHANGED <<session, alive, events, asked, written>>
      /\ nextId \in Ids /\ nextId' = nextId + 1
  BY DEF OpenStore, workerVars, jobVars
<1>2. document' \in [id : Ids, file : Files \cup {Null}] /\ nextId' \in 1 .. IdBound + 1
  BY IdBoundAssumption DEF IInv, BackendTypeOK, OpenStore, CallRecords, Ids
<1>3. /\ call' \in [Calls -> CallRecords] /\ ~StartingCall(c) /\ ~StartingCall(c)'
      /\ \A d \in Calls \ {c} : call'[d] = call[d]
  BY AnswerStep DEF IInv, OpenStore, At, Opens, Results, StartingCall
<1>4. Slot'
  BY <1>1, <1>3, CallStep
<1>5. Order' /\ Single'
  BY <1>1, IdBoundAssumption DEF IInv, BackendTypeOK, Order, Single, Pending, Ids
<1>6. BackendTypeOK'
  BY <1>1, <1>2, <1>3 DEF IInv, BackendTypeOK
<1>7. QED
  BY <1>4, <1>5, <1>6 DEF IInv

-----------------------------------------------------------------------------
(* Messages to the worker.                                                 *)

LEMMA AppendSingle ==
  ASSUME queue \in Seq(Messages), Single, NEW m \in Messages, ~IsJob(m),
         queue' = Append(queue, m), UNCHANGED <<working, relay, outcome>>
  PROVE  Single'
<1>1. /\ Len(queue') = Len(queue) + 1 /\ Len(queue) \in Nat
      /\ \A i \in 1 .. Len(queue) : queue'[i] = queue[i]
      /\ queue'[Len(queue) + 1] = m
  OBVIOUS
<1>2. \A i \in 1 .. Len(queue') : IsJob(queue'[i]) => i \in 1 .. Len(queue)
  BY <1>1
<1>3. QED
  BY <1>1, <1>2 DEF Single, Pending

LEMMA SendSteps ==
  ASSUME IInv, NEW c \in Calls, OpenSend(c) \/ CloseSend(c)
  PROVE  IInv'
<1>1. /\ UNCHANGED <<job, cancelled, nextId, relay, outcome, working>>
      /\ UNCHANGED <<session, alive, events, asked, written>>
      /\ UNCHANGED document
  BY DEF OpenSend, CloseSend, stateVars, jobVars
<1>2. /\ call' \in [Calls -> CallRecords] /\ ~StartingCall(c) /\ ~StartingCall(c)'
      /\ \A d \in Calls \ {c} : call'[d] = call[d]
  <2>1. Go(c, "wait") \/ Go(c, "forget")
    BY DEF OpenSend, CloseSend
  <2>2. call[c].op # "start"
    BY DEF OpenSend, CloseSend, At, Opens
  <2>3. QED
    BY <2>1, <2>2, GoStep DEF IInv, Places, StartingCall
<1>3. PICK m \in Messages : ~IsJob(m) /\ queue' = Append(queue, m)
  BY DEF OpenSend, CloseSend, Send, Message, Messages, IsJob
<1>4. Slot'
  BY <1>1, <1>2, CallStep
<1>5. Single'
  BY <1>1, <1>3, AppendSingle DEF IInv, BackendTypeOK
<1>6. Order' /\ BackendTypeOK'
  BY <1>1, <1>2, <1>3 DEF IInv, Order, BackendTypeOK
<1>7. QED
  BY <1>4, <1>5, <1>6 DEF IInv

-----------------------------------------------------------------------------
(* Claiming the slot, giving it back, handing it to the relay task.        *)

LEMMA ClaimStep ==
  ASSUME IInv, NEW c \in Calls, StartClaim(c)
  PROVE  IInv'
<1>1. /\ UNCHANGED <<document, cancelled, relay, outcome, events, written>>
      /\ UNCHANGED <<queue, working, session, alive>>
      /\ nextId \in Ids /\ ~StartingCall(c)
  BY DEF StartClaim, At, StartingCall, workerVars
<1>2. CASE /\ job # Null /\ Answer(c, "refused", Null) /\ UNCHANGED <<job, nextId, asked>>
  <2>1. /\ call' \in [Calls -> CallRecords] /\ ~StartingCall(c)'
        /\ \A d \in Calls \ {c} : call'[d] = call[d]
    BY <1>2, AnswerStep DEF IInv, Results, StartingCall
  <2>2. Slot'
    BY <1>1, <1>2, <2>1, CallStep
  <2>3. BackendTypeOK' /\ Order' /\ Single'
    BY <1>1, <1>2, <2>1 DEF IInv, BackendTypeOK, Order, Single, Pending
  <2>4. QED
    BY <2>2, <2>3 DEF IInv
<1>3. CASE /\ job = Null /\ job' = nextId /\ nextId' = nextId + 1
           /\ asked' = [asked EXCEPT ![nextId] = call[c].file]
           /\ call' = [call EXCEPT ![c] = [@ EXCEPT !.at = "send", !.id = nextId]]
  <2> DEFINE claimed == [call[c] EXCEPT !.at = "send", !.id = nextId]
  <2>1. call[c] \in CallRecords /\ call \in [Calls -> CallRecords]
    BY DEF IInv, BackendTypeOK
  <2>2. claimed \in CallRecords /\ claimed.id = nextId
    BY <1>1, <2>1 DEF CallRecords, Places
  <2>3. call' = [call EXCEPT ![c] = claimed]
    BY <1>3
  <2> HIDE DEF claimed
  <2>4. /\ call' \in [Calls -> CallRecords] /\ call'[c].id = nextId
        /\ \A d \in Calls \ {c} : call'[d] = call[d]
    BY <2>1, <2>2, <2>3
  <2>5. relay[nextId] = "none"
    BY <1>1 DEF IInv, Order, Ids
  <2>6. \A d \in Calls : ~StartingCall(d)
    BY <1>3, NullAssumption DEF IInv, Slot
  <2>7. \A j \in Ids : relay[j] # "waiting"
    BY <1>3, NullAssumption DEF IInv, Slot
  <2>8. StartingCall(c)'
    <3>1. claimed.op = "start" /\ claimed.at = "send"
      BY <2>1 DEF StartClaim, At, CallRecords, claimed
    <3>2. QED
      BY <2>1, <2>3, <3>1 DEF StartingCall
  <2>9. Slot'
    BY <1>1, <1>3, <2>4, <2>5, <2>6, <2>7, <2>8 DEF Slot, StartingCall
  <2>10. asked' \in [Ids -> Files \cup {Null}]
    BY <1>1, <1>3, <2>1 DEF IInv, BackendTypeOK, CallRecords
  <2>11. nextId' \in 1 .. IdBound + 1
    BY <1>1, <1>3, IdBoundAssumption DEF Ids
  <2>12. BackendTypeOK'
    BY <1>1, <1>3, <2>4, <2>10, <2>11 DEF IInv, BackendTypeOK
  <2>13. Order' /\ Single'
    BY <1>1, <1>3, IdBoundAssumption DEF IInv, Order, Single, Pending, Ids
  <2>14. QED
    BY <2>9, <2>12, <2>13 DEF IInv
<1>4. QED
  BY <1>2, <1>3 DEF StartClaim

LEMMA InvalidStep ==
  ASSUME IInv, NEW c \in Calls, StartInvalid(c)
  PROVE  IInv'
<1>1. /\ UNCHANGED <<document, cancelled, nextId, relay, outcome, events, asked, written>>
      /\ UNCHANGED <<queue, working, session, alive>>
      /\ job' = Null /\ StartingCall(c)
  BY DEF StartInvalid, At, StartingCall, workerVars, jobVars
<1>2. /\ call' \in [Calls -> CallRecords] /\ ~StartingCall(c)'
      /\ \A d \in Calls \ {c} : call'[d] = call[d]
  BY AnswerStep DEF StartInvalid, IInv, Results, StartingCall
<1>3. \A d \in Calls : ~StartingCall(d)'
  BY <1>1, <1>2 DEF IInv, Slot, StartingCall
<1>4. \A j \in Ids : relay[j] # "waiting"
  BY <1>1 DEF IInv, Slot
<1>5. Slot'
  BY <1>1, <1>3, <1>4 DEF Slot
<1>6. BackendTypeOK' /\ Order' /\ Single'
  BY <1>1, <1>2 DEF IInv, BackendTypeOK, Order, Single, Pending
<1>7. QED
  BY <1>5, <1>6 DEF IInv

LEMMA StartSendStep ==
  ASSUME IInv, NEW c \in Calls, StartSend(c)
  PROVE  IInv'
<1>1. /\ UNCHANGED <<document, job, cancelled, nextId, outcome, events, asked, written>>
      /\ UNCHANGED <<working, session, alive>>
      /\ StartingCall(c)
  BY DEF StartSend, At, StartingCall, stateVars
<1>2. job \in Ids /\ call[c].id = job /\ relay[job] = "none" /\ outcome[job] = Null
  BY <1>1 DEF IInv, Slot, Order
<1>3. /\ call' \in [Calls -> CallRecords] /\ ~StartingCall(c)'
      /\ \A d \in Calls \ {c} : call'[d] = call[d]
  BY <1>2, AnswerStep DEF StartSend, IInv, Results, StartingCall
<1>4. /\ relay' = [relay EXCEPT ![job] = "waiting"]
      /\ queue' = Append(queue, Message("process", Null, job))
  BY <1>2 DEF StartSend, Send
<1>5. \A d \in Calls : ~StartingCall(d)'
  BY <1>1, <1>3 DEF IInv, Slot, StartingCall
<1>6. Slot'
  BY <1>1, <1>2, <1>4, <1>5 DEF IInv, Slot, BackendTypeOK
<1>7. \A m \in Messages : IsJob(m) => ~Pending(m)
  BY <1>1, <1>2 DEF IInv, Slot, Pending
<1>8. Single'
  <2> DEFINE m == Message("process", Null, job)
  <2>1. m \in Messages /\ m.op = "process" /\ m.job = job
    BY <1>2 DEF Message, Messages
  <2>2. Pending(m)'
    BY <1>1, <1>2, <1>4, <2>1 DEF Pending, IInv, BackendTypeOK
  <2>3. \A i \in 1 .. Len(queue) : queue[i] \in Messages /\ ~IsJob(queue[i])
    BY <1>7 DEF IInv, BackendTypeOK, Single
  <2>4. working # Null => ~IsJob(working)
    BY <1>7 DEF IInv, BackendTypeOK, Single
  <2>5. /\ Len(queue') = Len(queue) + 1 /\ Len(queue) \in Nat
        /\ \A i \in 1 .. Len(queue) : queue'[i] = queue[i]
        /\ queue'[Len(queue) + 1] = m
    BY <1>4, <2>1 DEF IInv, BackendTypeOK
  <2> HIDE DEF m
  <2>6. \A i \in 1 .. Len(queue') : IsJob(queue'[i]) => i = Len(queue) + 1
    BY <2>3, <2>5
  <2>7. m' = m
    BY <1>1 DEF m, Message
  <2>8. ASSUME NEW i \in 1 .. Len(queue'), IsJob(queue'[i])
        PROVE  /\ queue'[i].op = "process" /\ Pending(queue[i])'
               /\ \A k \in 1 .. Len(queue') : IsJob(queue'[k]) => k = i
    <3>1. i = Len(queue) + 1 /\ queue'[i] = m
      BY <2>5, <2>6, <2>8
    <3>2. QED
      BY <2>1, <2>2, <2>6, <2>7, <3>1 DEF Pending
  <2>9. working' # Null => ~IsJob(working')
    BY <1>1, <2>4
  <2>10. QED
    BY <2>8, <2>9 DEF Single
<1>9. BackendTypeOK'
  <2>1. queue' \in Seq(Messages)
    BY <1>2, <1>4 DEF IInv, BackendTypeOK, Message, Messages
  <2>2. relay' \in [Ids -> {"none", "waiting", "released", "told"}]
    BY <1>4 DEF IInv, BackendTypeOK
  <2>3. QED
    BY <1>1, <1>3, <2>1, <2>2 DEF IInv, BackendTypeOK
<1>10. Order'
  <2>1. \A j \in Ids \ {job} : relay'[j] = relay[j]
    BY <1>4 DEF IInv, BackendTypeOK
  <2>2. relay'[job] = "waiting" /\ job < nextId
    BY <1>2, <1>4, NullAssumption DEF IInv, Order, BackendTypeOK
  <2>3. nextId \in Nat /\ job \in Nat
    BY <1>2 DEF IInv, BackendTypeOK, Ids
  <2>4. QED
    BY <1>1, <2>1, <2>2, <2>3 DEF IInv, Order
<1>11. QED
  BY <1>6, <1>8, <1>9, <1>10 DEF IInv

-----------------------------------------------------------------------------
(* The worker.                                                             *)

LEMMA TakeStep ==
  ASSUME IInv, Take
  PROVE  IInv'
<1>1. /\ UNCHANGED <<document, job, cancelled, nextId, call, relay, outcome, session>>
      /\ UNCHANGED <<alive, events, asked, written>>
      /\ working = Null /\ working' = Head(queue)
      /\ queue # <<>> /\ queue' = Tail(queue) /\ queue \in Seq(Messages)
  BY DEF Take, stateVars, jobVars, IInv, BackendTypeOK
<1>2. /\ Len(queue) \in Nat \ {0} /\ Len(queue') = Len(queue) - 1
      /\ working' = queue[1] /\ queue[1] \in Messages
      /\ \A i \in 1 .. Len(queue') : queue'[i] = queue[i + 1]
      /\ queue' \in Seq(Messages)
  BY <1>1
<1>3. BackendTypeOK'
  BY <1>1, <1>2 DEF IInv, BackendTypeOK
<1>4. ASSUME NEW i \in 1 .. Len(queue'), IsJob(queue'[i])
      PROVE  /\ queue'[i].op = "process" /\ Pending(queue'[i])
             /\ \A k \in 1 .. Len(queue') : IsJob(queue'[k]) => k = i
             /\ ~IsJob(queue[1])
  <2>1. i + 1 \in 1 .. Len(queue) /\ IsJob(queue[i + 1]) /\ i + 1 # 1
    BY <1>2, <1>4
  <2>2. \A k \in 1 .. Len(queue) : IsJob(queue[k]) => k = i + 1
    BY <2>1 DEF IInv, Single
  <2>3. queue[i + 1].op = "process" /\ Pending(queue[i + 1])
    BY <2>1 DEF IInv, Single
  <2>4. ~IsJob(queue[1])
    BY <1>2, <2>1, <2>2
  <2>5. queue'[i].op = "process" /\ Pending(queue'[i])
    BY <1>2, <2>3
  <2>6. ASSUME NEW k \in 1 .. Len(queue'), IsJob(queue'[k]) PROVE k = i
    <3>1. k + 1 \in 1 .. Len(queue) /\ IsJob(queue[k + 1])
      BY <1>2, <2>6
    <3>2. k + 1 = i + 1
      BY <2>2, <3>1
    <3>3. QED
      BY <3>2
  <2>7. QED
    BY <2>4, <2>5, <2>6
<1>5. IsJob(queue[1]) => Pending(queue[1])
  BY <1>2 DEF IInv, Single
<1>6. Single'
  BY <1>1, <1>2, <1>4, <1>5 DEF Single, Pending
<1>7. Slot' /\ Order'
  BY <1>1 DEF IInv, Slot, Order, StartingCall
<1>8. QED
  BY <1>3, <1>6, <1>7 DEF IInv

LEMMA WorkStep ==
  ASSUME IInv, Reply, WorkOpen \/ WorkClose
  PROVE  IInv'
<1>1. /\ UNCHANGED <<document, job, cancelled, nextId, relay, outcome, queue>>
      /\ UNCHANGED <<alive, events, asked, written>>
      /\ working' = Null
  BY DEF WorkOpen, WorkClose, stateVars, jobVars
<1>2. CASE WorkClose
  <2>1. UNCHANGED call /\ session' = Null
    BY <1>2 DEF WorkClose
  <2>2. QED
    BY <1>1, <2>1 DEF IInv, BackendTypeOK, Slot, Order, Single, Pending, StartingCall
<1>3. CASE WorkOpen
  <2> DEFINE c == working.call
  <2>1. c \in Calls
    BY <1>3 DEF WorkOpen, Doing, IInv, BackendTypeOK, Messages
  <2> HIDE DEF c
  <2>2. session' \in Files \cup {Null}
    BY <1>3, <2>1 DEF c, WorkOpen, IInv, BackendTypeOK, CallRecords
  <2>3. Go(c, "opened") \/ \E r \in {"password", "failed"} : Answer(c, r, Null)
    BY <1>3 DEF c, WorkOpen, Results
  <2>4. /\ call' \in [Calls -> CallRecords] /\ call'[c].at # "send"
        /\ \A d \in Calls \ {c} : call'[d] = call[d]
    BY <2>1, <2>3, AnswerStep, GoStep DEF IInv, Places, Results
  <2>5. ~StartingCall(c)
    BY <1>3 DEF c, WorkOpen, Reply, Awaits, StartingCall, Opens
  <2>6. Slot'
    BY <1>1, <2>1, <2>4, <2>5, CallStep DEF StartingCall
  <2>7. BackendTypeOK' /\ Order' /\ Single'
    BY <1>1, <2>2, <2>4 DEF IInv, BackendTypeOK, Order, Single, Pending
  <2>8. QED
    BY <2>6, <2>7 DEF IInv
<1>4. QED
  BY <1>2, <1>3

LEMMA EndStep ==
  ASSUME IInv, NEW r \in Outcomes, working # Null, IsJob(working), EndsWith(working.job, r),
         written' \in [Ids -> Files \cup {Null}]
  PROVE  IInv'
<1> DEFINE j == working.job
<1>1. /\ UNCHANGED <<document, job, cancelled, nextId, call, queue, session>>
      /\ UNCHANGED <<alive, relay, events, asked>>
      /\ working' = Null /\ outcome' = [outcome EXCEPT ![j] = r]
  BY DEF EndsWith, stateVars
<1>2. j \in Ids /\ relay[j] = "waiting" /\ \A i \in 1 .. Len(queue) : ~IsJob(queue[i])
  BY DEF IInv, Single, Pending
<1>3. /\ outcome' \in [Ids -> Outcomes \cup {Null}]
      /\ \A i \in Ids \ {j} : outcome'[i] = outcome[i]
  BY <1>1, <1>2 DEF IInv, BackendTypeOK
<1>4. BackendTypeOK'
  BY <1>1, <1>3 DEF IInv, BackendTypeOK
<1>5. Slot' /\ Order'
  BY <1>1, <1>2, <1>3 DEF IInv, Slot, Order, StartingCall
<1>6. Single'
  BY <1>1, <1>2 DEF Single
<1>7. QED
  BY <1>4, <1>5, <1>6 DEF IInv

LEMMA ConversionStep ==
  ASSUME IInv, Convert \/ Persist
  PROVE  IInv'
<1>1. working # Null /\ IsJob(working) /\ working \in Messages
  BY DEF Convert, Persist, Doing, IsJob, IInv, BackendTypeOK
<1>2. CASE \E r \in Outcomes : /\ EndsWith(working.job, r)
                               /\ written' \in [Ids -> Files \cup {Null}]
  BY <1>1, <1>2, EndStep
<1>3. CASE /\ working' = [working EXCEPT !.op = "persist"]
           /\ UNCHANGED <<stateVars, call, queue, session, alive, jobVars>>
  <2>1. working \in [op : {"process", "persist"}, call : {Null}, job : Ids]
    BY <1>1 DEF Messages, IsJob
  <2>2. /\ working' \in [op : {"process", "persist"}, call : {Null}, job : Ids]
        /\ working'.job = working.job
    BY <1>3, <2>1
  <2>3. working' \in Messages
    BY <2>2 DEF Messages
  <2>4. QED
    BY <1>1, <1>3, <2>2, <2>3 DEF IInv, BackendTypeOK, Slot, Order, Single, Pending,
      StartingCall, stateVars, jobVars
<1>4. QED
  <2>1. UNCHANGED written => written' \in [Ids -> Files \cup {Null}]
    BY DEF IInv, BackendTypeOK
  <2>2. [written EXCEPT ![working.job] = session] \in [Ids -> Files \cup {Null}]
    BY DEF IInv, BackendTypeOK
  <2>3. CASE Convert
    BY <1>2, <1>3, <2>1, <2>3 DEF Convert, Outcomes
  <2>4. CASE Persist
    BY <1>2, <2>1, <2>2, <2>4 DEF Persist, Outcomes
  <2>5. QED
    BY <2>3, <2>4

LEMMA PanicStep ==
  ASSUME IInv, WorkerPanics
  PROVE  IInv'
<1>1. /\ UNCHANGED <<document, job, cancelled, nextId, call, relay, outcome, queue, working>>
      /\ UNCHANGED <<events, asked, written>>
      /\ alive' = FALSE /\ session' = Null
  BY DEF WorkerPanics, stateVars, jobVars
<1>2. QED
  BY <1>1 DEF IInv, BackendTypeOK, Slot, Order, Single, Pending, StartingCall

-----------------------------------------------------------------------------
(* The relay task and the events.                                          *)

LEMMA RelayStep ==
  ASSUME IInv, NEW j \in Ids, Relay(j)
  PROVE  IInv'
<1>1. CASE RelayRelease(j)
  <2>1. /\ UNCHANGED <<document, cancelled, nextId, call, queue, working, session, outcome>>
        /\ UNCHANGED <<alive, events, asked, written>>
        /\ job' = Null /\ relay' = [relay EXCEPT ![j] = "released"]
        /\ relay[j] = "waiting" /\ outcome[j] # Null
    BY <1>1 DEF RelayRelease, workerVars
  <2>2. /\ relay' \in [Ids -> {"none", "waiting", "released", "told"}]
        /\ relay'[j] = "released" /\ \A i \in Ids \ {j} : relay'[i] = relay[i]
    BY <2>1 DEF IInv, BackendTypeOK
  <2>3. job = j /\ \A i \in Ids \ {j} : relay[i] # "waiting"
    BY <2>1 DEF IInv, Slot
  <2>4. \A c \in Calls : ~StartingCall(c)
    BY <2>1, <2>3 DEF IInv, Slot
  <2>5. Slot'
    BY <2>1, <2>2, <2>3, <2>4 DEF Slot, StartingCall
  <2>6. Order'
    BY <2>1, <2>2 DEF IInv, Order
  <2>7. \A m \in Messages : Pending(m) => m.job \in Ids \ {j}
    BY <2>1 DEF Pending
  <2>8. Single'
    BY <2>1, <2>2, <2>3, <2>7 DEF IInv, BackendTypeOK, Single, Pending
  <2>9. BackendTypeOK'
    BY <2>1, <2>2 DEF IInv, BackendTypeOK
  <2>10. QED
    BY <2>5, <2>6, <2>8, <2>9 DEF IInv
<1>2. CASE RelayTell(j)
  <2>1. /\ UNCHANGED <<document, job, cancelled, nextId, call, queue, working, session>>
        /\ UNCHANGED <<alive, outcome, asked, written>>
        /\ relay[j] = "released" /\ relay' = [relay EXCEPT ![j] = "told"]
        /\ events' = Append(events, [job |-> j, end |-> outcome[j]])
    BY <1>2 DEF RelayTell, stateVars, workerVars
  <2>2. /\ relay' \in [Ids -> {"none", "waiting", "released", "told"}]
        /\ relay'[j] = "told" /\ \A i \in Ids \ {j} : relay'[i] = relay[i]
    BY <2>1 DEF IInv, BackendTypeOK
  <2>3. outcome[j] \in Outcomes
    BY <2>1 DEF IInv, BackendTypeOK, Order
  <2>4. events' \in Seq([job : Ids, end : Outcomes])
    BY <2>1, <2>3 DEF IInv, BackendTypeOK
  <2>5. Slot' /\ Order'
    BY <2>1, <2>2 DEF IInv, Slot, Order, StartingCall, BackendTypeOK
  <2>6. Single'
    BY <2>1, <2>2 DEF IInv, Single, Pending
  <2>7. BackendTypeOK'
    BY <2>1, <2>2, <2>4 DEF IInv, BackendTypeOK
  <2>8. QED
    BY <2>5, <2>6, <2>7 DEF IInv
<1>3. QED
  BY <1>1, <1>2 DEF Relay

LEMMA TakeEventStep ==
  ASSUME IInv, TakeEvent
  PROVE  IInv'
<1>1. UNCHANGED <<document, job, cancelled, nextId, call, queue, working, session, alive,
                  relay, outcome, asked, written>>
  BY DEF TakeEvent, stateVars, workerVars
<1>2. events' \in Seq([job : Ids, end : Outcomes])
  BY DEF TakeEvent, IInv, BackendTypeOK
<1>3. QED
  BY <1>1, <1>2 DEF IInv, BackendTypeOK, Slot, Order, Single, Pending, StartingCall

-----------------------------------------------------------------------------
(* Replies.                                                                *)

LEMMA InitReply == BackendInit => Reply
BY DEF BackendInit, Reply, Doing

LEMMA OwnReply ==
  ASSUME Reply, NEW c \in Calls, ~Awaits(c), \A d \in Calls \ {c} : call'[d] = call[d],
         BackendTypeOK, UNCHANGED <<queue, working>>
  PROVE  Reply'
<1>1. \A i \in 1 .. Len(queue) : queue[i] \in Messages
  BY DEF BackendTypeOK
<1>2. \A m \in Messages : m.op = "open" => m.call \in Calls
  BY DEF Messages
<1>3. \A d \in Calls : Awaits(d) => Awaits(d)'
  BY DEF Awaits
<1>4. QED
  BY <1>1, <1>2, <1>3 DEF Reply, Doing, Awaits, BackendTypeOK

LEMMA OtherSend ==
  ASSUME Reply, BackendTypeOK, NEW c \in Calls, ~Awaits(c),
         \A d \in Calls \ {c} : call'[d] = call[d], UNCHANGED working,
         NEW m, queue' = Append(queue, m),
         m.op = "open" => m.call = c /\ Awaits(c)'
  PROVE  Reply'
<1>1. /\ Len(queue') = Len(queue) + 1 /\ Len(queue) \in Nat
      /\ \A i \in 1 .. Len(queue) : queue'[i] = queue[i] /\ queue[i] \in Messages
      /\ queue'[Len(queue) + 1] = m
  BY DEF BackendTypeOK
<1>2. \A n \in Messages : n.op = "open" => n.call \in Calls
  BY DEF Messages
<1>3. \A d \in Calls : Awaits(d) => Awaits(d)' /\ d # c
  BY DEF Awaits
<1>4. ASSUME NEW i \in 1 .. Len(queue), queue[i].op = "open"
      PROVE  Awaits(queue[i].call)' /\ queue[i].call # c
  <2>1. queue'[i] = queue[i] /\ queue[i].call \in Calls
    BY <1>1, <1>2, <1>4
  <2>2. queue[i].call # c /\ Awaits(queue[i].call)
    BY <1>4 DEF Reply
  <2>3. QED
    BY <2>1, <2>2 DEF Awaits
<1>5. Doing("open") => Awaits(working.call)' /\ working.call # c
  BY <1>2, <1>3 DEF Reply, BackendTypeOK, Doing
<1>6. ASSUME NEW i \in 1 .. Len(queue'), queue'[i].op = "open"
      PROVE  /\ Awaits(queue[i].call)'
             /\ \A k \in 1 .. Len(queue') :
                  queue'[k].op = "open" /\ queue'[k].call = queue'[i].call => k = i
  <2>1. CASE i = Len(queue) + 1
    <3>1. m.op = "open" /\ m.call = c /\ Awaits(c)' /\ queue'[i] = m
      BY <1>1, <1>6, <2>1
    <3>2. \A k \in 1 .. Len(queue) : queue'[k].op = "open" => queue'[k].call # c
      BY <1>1, <1>4
    <3>3. QED
      BY <1>1, <2>1, <3>1, <3>2 DEF Awaits
  <2>2. CASE i \in 1 .. Len(queue)
    <3>1. queue'[i] = queue[i] /\ queue[i].op = "open" /\ queue[i].call # c
      BY <1>1, <1>4, <1>6, <2>2
    <3>2. Awaits(queue[i].call)'
      BY <1>4, <2>2, <3>1 DEF Awaits
    <3>3. \A k \in 1 .. Len(queue) :
            queue[k].op = "open" /\ queue[k].call = queue[i].call => k = i
      BY <2>2, <3>1 DEF Reply
    <3>4. queue'[Len(queue) + 1].op = "open" => queue'[Len(queue) + 1].call = c
      BY <1>1
    <3>5. QED
      BY <1>1, <3>1, <3>2, <3>3, <3>4
  <2>3. QED
    BY <1>1, <2>1, <2>2
<1>7. ASSUME Doing("open"), NEW i \in 1 .. Len(queue'), queue'[i].op = "open"
      PROVE  queue'[i].call # working.call
  BY <1>1, <1>5, <1>7 DEF Reply
<1>8. QED
  BY <1>5, <1>6, <1>7 DEF Reply, Doing

LEMMA ServeReply ==
  ASSUME BackendTypeOK, Reply, NEW c \in Calls,
         Serve(c) \/ IssueAny(c) \/ CollectAny(c)
  PROVE  Reply'
<1>1. ~Awaits(c)
  BY DEF Serve, OpenCheck, OpenSend, OpenStore, CloseCheck, CloseSend, CloseForget,
    StartCheck, StartClaim, StartInvalid, StartSend, CancelRun, IssueAny, CollectAny, Issue,
    Collect, Idle, At, Awaits
<1>2. \A d \in Calls \ {c} : call'[d] = call[d]
  BY DEF Serve, OpenCheck, OpenSend, OpenStore, CloseCheck, CloseSend, CloseForget,
    StartCheck, StartClaim, StartInvalid, StartSend, CancelRun, IssueAny, CollectAny, Issue,
    Collect, Answer, Go,
    BackendTypeOK
<1>3. CASE OpenSend(c)
  <2>1. PICK m : queue' = Append(queue, m) /\ m.call = c /\ UNCHANGED working
    BY <1>3 DEF OpenSend, Send, Message
  <2>2. Awaits(c)'
    BY <1>3, GoStep DEF OpenSend, Places, At, Awaits, Opens
  <2>3. QED
    BY <1>1, <1>2, <2>1, <2>2, OtherSend
<1>4. CASE CloseSend(c) \/ StartSend(c)
  <2>1. PICK m : queue' = Append(queue, m) /\ m.op # "open"
    BY <1>4 DEF CloseSend, StartSend, Send, Message
  <2>2. UNCHANGED working
    BY <1>4 DEF CloseSend, StartSend
  <2>3. m.op = "open" => m.call = c /\ Awaits(c)'
    BY <2>1
  <2>4. QED
    BY <1>1, <1>2, <2>1, <2>2, <2>3, OtherSend
<1>5. CASE UNCHANGED <<queue, working>>
  BY <1>1, <1>2, <1>5, OwnReply
<1>6. QED
  BY <1>3, <1>4, <1>5 DEF Serve, OpenCheck, OpenStore, CloseCheck, CloseForget, StartCheck,
    StartClaim, StartInvalid, CancelRun, IssueAny, CollectAny, workerVars

LEMMA WorkerReply ==
  ASSUME BackendTypeOK, Reply, Worker
  PROVE  Reply'
<1>1. CASE Take
  <2>1. /\ UNCHANGED call /\ working' = queue[1] /\ Len(queue) \in Nat
        /\ Len(queue') = Len(queue) - 1
        /\ \A i \in 1 .. Len(queue') : queue'[i] = queue[i + 1] /\ i + 1 \in 1 .. Len(queue)
        /\ 1 \in 1 .. Len(queue)
    BY <1>1 DEF Take, BackendTypeOK
  <2>2. ASSUME NEW i \in 1 .. Len(queue'), queue'[i].op = "open"
        PROVE  /\ Awaits(queue[i].call)'
               /\ \A k \in 1 .. Len(queue') :
                    queue'[k].op = "open" /\ queue'[k].call = queue'[i].call => k = i
               /\ queue[1].op = "open" => queue'[i].call # queue[1].call
    <3>1. /\ i + 1 \in 1 .. Len(queue) /\ queue[i + 1].op = "open" /\ i + 1 # 1
          /\ queue'[i] = queue[i + 1]
      BY <2>1, <2>2
    <3>2. /\ Awaits(queue[i + 1].call)
          /\ \A k \in 1 .. Len(queue) :
               queue[k].op = "open" /\ queue[k].call = queue[i + 1].call => k = i + 1
      BY <3>1 DEF Reply
    <3>3. ASSUME NEW k \in 1 .. Len(queue'), queue'[k].op = "open",
                 queue'[k].call = queue'[i].call
          PROVE  k = i
      <4>1. k + 1 \in 1 .. Len(queue) /\ queue'[k] = queue[k + 1]
        BY <2>1
      <4>2. k + 1 = i + 1
        BY <3>1, <3>2, <3>3, <4>1
      <4>3. QED
        BY <4>2
    <3>4. QED
      BY <2>1, <3>1, <3>2, <3>3 DEF Awaits
  <2>3. queue[1].op = "open" => Awaits(queue[1].call)
    BY <2>1 DEF Reply
  <2>4. QED
    BY <2>1, <2>2, <2>3 DEF Reply, Doing, Awaits
<1>2. CASE WorkOpen
  <2> DEFINE c == working.call
  <2>1. /\ c \in Calls /\ UNCHANGED queue /\ working' = Null
        /\ \A i \in 1 .. Len(queue) : queue[i].op = "open" => queue[i].call \in Calls \ {c}
    BY <1>2 DEF WorkOpen, Doing, Reply, BackendTypeOK, Messages
  <2>2. \A d \in Calls \ {c} : call'[d] = call[d]
    BY <1>2 DEF WorkOpen, Answer, Go, BackendTypeOK
  <2>3. QED
    BY <2>1, <2>2 DEF Reply, Doing, Awaits
<1>3. CASE WorkClose \/ Convert \/ Persist
  <2>1. UNCHANGED <<call, queue>>
    BY <1>3 DEF WorkClose, Convert, Persist, EndsWith, stateVars, jobVars
  <2>2. working' = Null \/ working' = [working EXCEPT !.op = "persist"]
    BY <1>3 DEF WorkClose, Convert, Persist, EndsWith
  <2>3. working' # Null => working'.op # "open"
    BY <1>3, <2>2 DEF WorkClose, Convert, Persist, Doing, BackendTypeOK, Messages
  <2>4. QED
    BY <2>1, <2>3 DEF Reply, Doing, Awaits
<1>4. QED
  BY <1>1, <1>2, <1>3 DEF Worker

LEMMA RelayReply ==
  ASSUME Reply, (\E j \in Ids : Relay(j)) \/ TakeEvent \/ WorkerPanics \/ UNCHANGED backendVars
  PROVE  Reply'
<1>1. UNCHANGED <<call, queue, working>>
  BY DEF Relay, RelayRelease, RelayTell, TakeEvent, WorkerPanics, workerVars, backendVars
<1>2. QED
  BY <1>1 DEF Reply, Doing, Awaits

-----------------------------------------------------------------------------
LEMMA IInvStep == IInv /\ Reply /\ [BackendNext]_backendVars => IInv' /\ Reply'
<1> SUFFICES ASSUME IInv, Reply, [BackendNext]_backendVars PROVE IInv' /\ Reply'
  OBVIOUS
<1>1. CASE UNCHANGED backendVars
  BY <1>1, RelayReply DEF backendVars, stateVars, workerVars, jobVars, IInv, BackendTypeOK,
     Slot, Order, Single, Pending, StartingCall
<1>2. ASSUME NEW c \in Calls, Serve(c) PROVE IInv'
  BY <1>2, CallSteps, OpenStoreStep, SendSteps, ClaimStep, InvalidStep, StartSendStep DEF Serve
<1>3. CASE Worker
  <2>1. IInv'
    BY <1>3, TakeStep, WorkStep, ConversionStep DEF Worker
  <2>2. QED
    BY <1>3, <2>1, WorkerReply DEF IInv
<1>4. ASSUME NEW c \in Calls, Serve(c) \/ IssueAny(c) \/ CollectAny(c) PROVE IInv' /\ Reply'
  BY <1>2, <1>4, CallSteps, ServeReply DEF IInv
<1>5. CASE (\E j \in Ids : Relay(j)) \/ TakeEvent \/ WorkerPanics
  BY <1>5, RelayStep, TakeEventStep, PanicStep, RelayReply
<1>6. QED
  BY <1>1, <1>3, <1>4, <1>5 DEF BackendNext

\* The state of the back end is what its declarations say.
THEOREM BackendTypeCorrect == BackendSpec => []BackendTypeOK
<1>1. IInv => BackendTypeOK
  BY DEF IInv
<1>2. QED
  BY <1>1, InitIInv, InitReply, IInvStep, PTL DEF BackendSpec

\* Whatever the front end asks for, in whatever order, the job slot is taken
\* exactly while there is a job.
THEOREM JobSlotCorrect == BackendSpec => []JobSlotIsTheJob
BY SlotMeansJob, InitIInv, InitReply, IInvStep, PTL DEF BackendSpec

-----------------------------------------------------------------------------
(* The window.                                                             *)

Ends ==
  /\ \A j \in Ids : outcome[j] = "completed" <=> written[j] # Null
  /\ \A i \in 1 .. Len(events) : events[i].end = outcome[events[i].job]

\* An open that succeeded has a document to show.
OpenedHasId ==
  \A c \in Calls : call[c].op \in Opens /\ call[c].at = "answered" /\ call[c].result = "ok"
                     => call[c].id # Null

Window ==
  /\ kind \in Kinds /\ shownDoc \in Ids \cup {Null} /\ shownJob \in Ids \cup {Null}
  /\ cancelling \in BOOLEAN /\ picking \in BOOLEAN /\ pendingPath \in Files \cup {Null}
  /\ kind \in {"ready", "processing", "completed", "cancelled"} => shownDoc # Null
  /\ kind \in {"completed", "cancelled"} => shownJob \in Ids /\ outcome[shownJob] = kind

AppInv == IInv /\ Reply /\ Ends /\ OpenedHasId /\ Window

-----------------------------------------------------------------------------
LEMMA InitAppInv == Init => AppInv
<1> SUFFICES ASSUME Init PROVE AppInv
  OBVIOUS
<1>1. IInv /\ Reply
  BY InitIInv, InitReply DEF Init
<1>2. Ends /\ OpenedHasId
  BY NullAssumption DEF Init, BackendInit, Idle, Ends, OpenedHasId, Outcomes
<1>3. Window
  BY DEF Init, Window, Kinds
<1>4. QED
  BY <1>1, <1>2, <1>3 DEF AppInv

-----------------------------------------------------------------------------
(* The window is a front end.                                              *)

UserAction(c) ==
  \/ \E f \in Files : Drop(c, f) \/ Choose(c, f)
  \/ SubmitPassword(c) \/ ClickConvert(c) \/ ClickCancel(c) \/ Dismiss(c)

LEMMA AskIsIssue ==
  ASSUME NEW c \in Calls, NEW op \in Ops, NEW f \in Files \cup {Null},
         NEW id \in Ids \cup {Null}, op \in Opens \cup {"start"} => IdLeft,
         Ask(c, op, f, id)
  PROVE  IssueAny(c)
BY DEF Ask, IssueAny

LEMMA UserIssues ==
  ASSUME Window, NEW c \in Calls, UserAction(c)
  PROVE  IssueAny(c)
<1>1. ASSUME NEW f \in Files, Drop(c, f) \/ Choose(c, f) PROVE IssueAny(c)
  BY <1>1, AskIsIssue DEF Drop, Choose, OpenPath, Ops
<1>2. CASE SubmitPassword(c)
  BY <1>2, AskIsIssue DEF SubmitPassword, Ops, Window
<1>3. CASE ClickConvert(c)
  BY <1>3, AskIsIssue DEF ClickConvert, Ops, Window
<1>4. CASE ClickCancel(c)
  BY <1>4, AskIsIssue DEF ClickCancel, Ops, Opens, Window
<1>5. CASE Dismiss(c)
  BY <1>5, AskIsIssue DEF Dismiss, Ops, Opens
<1>6. QED
  BY <1>1, <1>2, <1>3, <1>4, <1>5 DEF UserAction

LEMMA FrontEnd == Window /\ [Next]_vars => [BackendNext]_backendVars
<1> SUFFICES ASSUME Window, [Next]_vars PROVE [BackendNext]_backendVars
  OBVIOUS
<1>1. CASE User
  <2>1. CASE \E c \in Calls : UserAction(c)
    BY <2>1, UserIssues DEF BackendNext
  <2>2. CASE ShowDialog \/ CloseDialog \/ CancelPassword \/ StartOver
    BY <2>2 DEF ShowDialog, CloseDialog, CancelPassword, StartOver
  <2>3. QED
    BY <1>1, <2>1, <2>2 DEF User, UserAction
<1>2. CASE \E c \in Calls : Backend(Serve(c)) \/ Answered(c)
  BY <1>2 DEF Backend, Answered, BackendNext
<1>3. CASE Backend(Worker) \/ Backend(WorkerPanics) \/ \E j \in Ids : Backend(Relay(j))
  BY <1>3 DEF Backend, BackendNext
<1>4. CASE HearEnd
  BY <1>4 DEF HearEnd, BackendNext
<1>5. QED
  BY <1>1, <1>2, <1>3, <1>4 DEF Next, vars
-----------------------------------------------------------------------------
(* An outcome is set once, and what has been written agrees with it.       *)

LEMMA ElementOfSeq ==
  ASSUME NEW S, NEW s \in Seq(S), NEW i \in 1 .. Len(s)
  PROVE  s[i] \in S
OBVIOUS

LEMMA OutcomeStep ==
  ASSUME IInv, Ends, NEW r \in Outcomes, working # Null, IsJob(working),
         EndsWith(working.job, r),
         \/ r # "completed" /\ UNCHANGED written
         \/ r = "completed" /\ session # Null
              /\ written' = [written EXCEPT ![working.job] = session]
  PROVE  Ends' /\ \A j \in Ids : outcome[j] # Null => outcome'[j] = outcome[j]
<1> DEFINE w == working.job
<1>1. w \in Ids /\ outcome[w] = Null
  BY DEF IInv, Single, Pending
<1>2. /\ outcome' = [outcome EXCEPT ![w] = r] /\ UNCHANGED events
      /\ outcome \in [Ids -> Outcomes \cup {Null}] /\ written \in [Ids -> Files \cup {Null}]
      /\ \/ r # "completed" /\ UNCHANGED written
         \/ r = "completed" /\ session # Null /\ written' = [written EXCEPT ![w] = session]
  BY DEF EndsWith, IInv, BackendTypeOK
<1> HIDE DEF w
<1>3. /\ outcome'[w] = r /\ \A j \in Ids \ {w} : outcome'[j] = outcome[j]
      /\ \A j \in Ids \ {w} : written'[j] = written[j]
  BY <1>1, <1>2
<1>4. r = "completed" <=> written'[w] # Null
  <2>1. written[w] = Null
    BY <1>1, NullAssumption DEF Ends, Outcomes
  <2>2. CASE r # "completed" /\ UNCHANGED written
    BY <2>1, <2>2
  <2>3. CASE /\ r = "completed" /\ session # Null
             /\ written' = [written EXCEPT ![w] = session]
    BY <1>1, <1>2, <2>3
  <2>4. QED
    BY <1>2, <2>2, <2>3
<1>5. ASSUME NEW i \in 1 .. Len(events)
      PROVE  events[i].job \in Ids /\ events[i].end \in Outcomes
  <2>1. events \in Seq([job : Ids, end : Outcomes])
    BY DEF IInv, BackendTypeOK
  <2>2. events[i] \in [job : Ids, end : Outcomes]
    BY <2>1, ElementOfSeq
  <2>3. QED
    BY <2>2
<1>6. \A i \in 1 .. Len(events) : events[i].job # w
  BY <1>1, <1>5, NullAssumption DEF Ends
<1>7. Ends'
  BY <1>1, <1>2, <1>3, <1>4, <1>5, <1>6 DEF Ends
<1>8. QED
  BY <1>1, <1>3, <1>7

LEMMA EndsStep ==
  ASSUME IInv, Ends, [BackendNext]_backendVars
  PROVE  Ends' /\ \A j \in Ids : outcome[j] # Null => outcome'[j] = outcome[j]
<1>1. CASE UNCHANGED <<outcome, written, events>>
  BY <1>1 DEF Ends
<1>2. CASE Convert \/ Persist
  <2>1. working # Null /\ IsJob(working)
    BY <1>2 DEF Convert, Persist, Doing, IsJob
  <2>2. CASE \E r \in Outcomes : /\ EndsWith(working.job, r)
                                 /\ \/ r # "completed" /\ UNCHANGED written
                                    \/ /\ r = "completed" /\ session # Null
                                       /\ written' = [written EXCEPT ![working.job] = session]
    BY <2>1, <2>2, OutcomeStep
  <2>3. CASE Convert
    BY <1>1, <2>2, <2>3 DEF Convert, Outcomes, jobVars
  <2>4. CASE Persist
    BY <2>2, <2>4 DEF Persist, Outcomes
  <2>5. QED
    BY <1>2, <2>3, <2>4
<1>3. ASSUME NEW j \in Ids, RelayTell(j)
      PROVE  Ends' /\ UNCHANGED outcome
  <2>1. /\ events' = Append(events, [job |-> j, end |-> outcome[j]])
        /\ UNCHANGED <<outcome, written>> /\ events \in Seq([job : Ids, end : Outcomes])
    BY <1>3 DEF RelayTell, IInv, BackendTypeOK
  <2>2. /\ Len(events') = Len(events) + 1 /\ Len(events) \in Nat
        /\ events'[Len(events) + 1] = [job |-> j, end |-> outcome[j]]
        /\ \A i \in 1 .. Len(events) : events'[i] = events[i]
    BY <2>1
  <2>3. QED
    BY <2>1, <2>2 DEF Ends
<1>4. CASE TakeEvent
  <2>1. /\ events' = Tail(events) /\ events # <<>>
        /\ UNCHANGED <<outcome, written>> /\ events \in Seq([job : Ids, end : Outcomes])
    BY <1>4 DEF TakeEvent, IInv, BackendTypeOK
  <2>2. /\ Len(events) \in Nat /\ Len(events') = Len(events) - 1
        /\ \A i \in 1 .. Len(events') : events'[i] = events[i + 1]
    BY <2>1
  <2>3. QED
    BY <2>1, <2>2 DEF Ends
<1>5. ASSUME NEW c \in Calls, Serve(c) \/ IssueAny(c) \/ CollectAny(c)
      PROVE  UNCHANGED <<outcome, written, events>>
  BY <1>5 DEF Serve, OpenCheck, OpenSend, OpenStore, CloseCheck, CloseSend, CloseForget,
    StartCheck, StartClaim, StartInvalid, StartSend, CancelRun, IssueAny, CollectAny, jobVars
<1>6. CASE Take \/ WorkOpen \/ WorkClose \/ WorkerPanics \/ UNCHANGED backendVars
  BY <1>1, <1>6 DEF Take, WorkOpen, WorkClose, WorkerPanics, backendVars, jobVars
<1>7. ASSUME NEW j \in Ids, RelayRelease(j) PROVE UNCHANGED <<outcome, written, events>>
  BY <1>7 DEF RelayRelease
<1>8. QED
  BY <1>1, <1>2, <1>3, <1>4, <1>5, <1>6, <1>7 DEF BackendNext, Worker, Relay

LEMMA OpenedStep ==
  ASSUME IInv, OpenedHasId, [BackendNext]_backendVars
  PROVE  OpenedHasId'
<1>1. CASE UNCHANGED call
  BY <1>1 DEF OpenedHasId
<1>2. ASSUME NEW c \in Calls, \A d \in Calls \ {c} : call'[d] = call[d],
             \/ call'[c].op \notin Opens \/ call'[c].at # "answered"
             \/ call'[c].result # "ok" \/ call'[c].id # Null
      PROVE  OpenedHasId'
  BY <1>2 DEF OpenedHasId
<1>3. ASSUME NEW c \in Calls, NEW r \in Results, NEW id \in Ids \cup {Null}, Answer(c, r, id),
             call[c].op \notin Opens \/ r # "ok" \/ id # Null
      PROVE  OpenedHasId'
  <2> DEFINE answered == [call[c] EXCEPT !.at = "answered", !.result = r, !.id = id]
  <2>1. call[c] \in CallRecords /\ call \in [Calls -> CallRecords]
    BY DEF IInv, BackendTypeOK
  <2>2. answered.op = call[c].op /\ answered.result = r /\ answered.id = id
    BY <2>1 DEF CallRecords
  <2>3. call' = [call EXCEPT ![c] = answered]
    BY <1>3 DEF Answer
  <2> HIDE DEF answered
  <2>4. call'[c] = answered /\ \A d \in Calls \ {c} : call'[d] = call[d]
    BY <2>1, <2>3
  <2>5. QED
    BY <1>2, <1>3, <2>2, <2>4
<1>4. ASSUME NEW c \in Calls, NEW place \in Places \ {"answered"}, Go(c, place)
      PROVE  OpenedHasId'
  BY <1>2, <1>4, GoStep DEF IInv
<1>5. ASSUME NEW c \in Calls, Serve(c) PROVE OpenedHasId'
  <2>1. CASE OpenCheck(c) \/ OpenSend(c) \/ CloseCheck(c) \/ CloseSend(c)
    BY <1>3, <1>4, <2>1 DEF OpenCheck, OpenSend, CloseCheck, CloseSend, Results, Places
  <2>2. CASE OpenStore(c)
    BY <1>3, <2>2, NullAssumption DEF OpenStore, Results
  <2>3. CASE CloseForget(c) \/ StartInvalid(c) \/ CancelRun(c)
    BY <1>3, <2>3 DEF CloseForget, StartInvalid, CancelRun, At, Results, Opens
  <2>4. CASE StartCheck(c) \/ StartClaim(c)
    <3>1. call[c].op = "start" /\ call \in [Calls -> CallRecords]
      BY <2>4 DEF StartCheck, StartClaim, At, IInv, BackendTypeOK
    <3>2. CASE Answer(c, "refused", Null)
      BY <1>3, <3>2 DEF Results
    <3>3. CASE \E claimed : call' = [call EXCEPT ![c] = claimed] /\ claimed.op = "start"
      BY <1>2, <3>1, <3>3 DEF Opens
    <3>4. ASSUME NEW f, NEW i
          PROVE  /\ [call[c] EXCEPT !.at = "claim", !.file = f].op = "start"
                 /\ [call[c] EXCEPT !.at = "send", !.id = i].op = "start"
      BY <3>1 DEF CallRecords
    <3>5. QED
      BY <2>4, <3>2, <3>3, <3>4 DEF StartCheck, StartClaim
  <2>5. CASE StartSend(c)
    <3>1. call[c].op \notin Opens /\ call[c].id \in Ids \cup {Null}
      BY <2>5 DEF StartSend, At, Opens, IInv, BackendTypeOK, CallRecords
    <3>2. QED
      BY <1>3, <2>5, <3>1 DEF StartSend, Results
  <2>6. QED
    BY <1>5, <2>1, <2>2, <2>3, <2>4, <2>5 DEF Serve
<1>6. ASSUME NEW c \in Calls, IssueAny(c) \/ CollectAny(c) PROVE OpenedHasId'
  <2>1. /\ \A d \in Calls \ {c} : call'[d] = call[d]
        /\ call'[c].at # "answered"
    BY <1>6 DEF IInv, BackendTypeOK, IssueAny, Issue, CollectAny, Collect, Idle
  <2>2. QED
    BY <1>2, <2>1
<1>7. CASE WorkOpen
  <2>1. working.call \in Calls
    BY <1>7 DEF WorkOpen, Doing, IInv, BackendTypeOK, Messages
  <2>2. Go(working.call, "opened") \/ \E r \in {"password", "failed"} :
          Answer(working.call, r, Null)
    BY <1>7 DEF WorkOpen
  <2>3. QED
    BY <1>3, <1>4, <2>1, <2>2 DEF Results, Places
<1>8. CASE Take \/ WorkClose \/ Convert \/ Persist \/ WorkerPanics \/ TakeEvent
             \/ UNCHANGED backendVars \/ \E j \in Ids : Relay(j)
  BY <1>1, <1>8 DEF Take, WorkClose, Convert, Persist, EndsWith, WorkerPanics, TakeEvent,
    backendVars, Relay, RelayRelease, RelayTell
<1>9. QED
  BY <1>5, <1>6, <1>7, <1>8 DEF BackendNext, Worker

-----------------------------------------------------------------------------
(* What the window shows.                                                  *)

LEMMA WindowStep ==
  ASSUME AppInv, Next, \A j \in Ids : outcome[j] # Null => outcome'[j] = outcome[j]
  PROVE  Window'
<1> USE DEF AppInv
<1>1. kind \in {"completed", "cancelled"} =>
        shownJob \in Ids /\ outcome[shownJob] = kind /\ outcome'[shownJob] = kind
  BY NullAssumption DEF Window, Outcomes
<1>2. CASE UNCHANGED uiVars
  BY <1>1, <1>2 DEF uiVars, Window
<1>3. ASSUME Keep, pendingPath' \in Files \cup {Null}, picking' \in BOOLEAN
      PROVE  Window'
  BY <1>1, <1>3 DEF Keep, Window
<1>4. ASSUME NEW k \in {"idle", "opening", "passwordRequired", "failed"},
             NEW d \in Ids \cup {Null}, NEW j \in Ids \cup {Null}, Show(k, d, j),
             pendingPath' \in Files \cup {Null}, picking' \in BOOLEAN
      PROVE  Window'
  BY <1>4 DEF Show, Window, Kinds
<1>5. ASSUME NEW d \in Ids, Show("ready", d, Null),
             pendingPath' \in Files \cup {Null}, picking' \in BOOLEAN
      PROVE  Window'
  BY <1>5, NullAssumption DEF Show, Window, Kinds
<1>6. ASSUME NEW c \in Calls, UserAction(c) PROVE Window'
  <2>1. ASSUME NEW f \in Files, Drop(c, f) \/ Choose(c, f) PROVE Window'
    BY <1>4, <2>1 DEF Drop, Choose, OpenPath, Window
  <2>2. CASE SubmitPassword(c) \/ ClickConvert(c)
    BY <1>3, <2>2 DEF SubmitPassword, ClickConvert, Window
  <2>3. CASE ClickCancel(c)
    BY <2>3 DEF ClickCancel, Window
  <2>4. CASE Dismiss(c)
    <3>1. CASE shownDoc = Null
      BY <1>4, <2>4, <3>1 DEF Dismiss, Window
    <3>2. CASE shownDoc \in Ids
      BY <1>5, <2>4, <3>2, NullAssumption DEF Dismiss, Window
    <3>3. QED
      BY <3>1, <3>2 DEF Window
  <2>5. QED
    BY <1>6, <2>1, <2>2, <2>3, <2>4 DEF UserAction
<1>7. CASE ShowDialog \/ CloseDialog \/ CancelPassword
  BY <1>3, <1>7 DEF ShowDialog, CloseDialog, CancelPassword, Window
<1>8. CASE StartOver
  <2>1. shownDoc \in Ids
    BY <1>8 DEF StartOver, Window
  <2>2. QED
    BY <1>5, <1>8, <2>1 DEF StartOver, Window
<1>9. ASSUME NEW c \in Calls, Answered(c) PROVE Window'
  <2>1. /\ call[c].at = "answered" /\ call[c].id \in Ids \cup {Null}
        /\ call[c].file \in Files \cup {Null} /\ picking' = picking
    BY <1>9 DEF Answered, CollectAny, Collect, IInv, BackendTypeOK, CallRecords
  <2>2. CASE OpenAnswered(c)
    <3>1. call[c].result = "ok" => call[c].id \in Ids
      BY <2>1, <2>2 DEF OpenAnswered, OpenedHasId, Opens
    <3>2. QED
      BY <1>4, <1>5, <2>1, <2>2, <3>1 DEF OpenAnswered, Window
  <2>3. CASE UnlockAnswered(c)
    <3>1. call[c].result = "ok" => call[c].id \in Ids
      BY <2>1, <2>3 DEF UnlockAnswered, OpenedHasId, Opens
    <3>2. QED
      BY <1>3, <1>5, <2>1, <2>3, <3>1 DEF UnlockAnswered, Window
  <2>4. CASE StartAnswered(c)
    <3>1. CASE call[c].result = "ok" /\ kind = "ready" /\ Show("processing", shownDoc, call[c].id)
      BY <2>1, <2>4, <3>1 DEF StartAnswered, Show, Window, Kinds
    <3>2. CASE Keep
      BY <1>3, <2>1, <2>4, <3>2 DEF StartAnswered, Window
    <3>3. CASE Show("failed", Null, Null)
      BY <1>4, <2>1, <2>4, <3>3 DEF StartAnswered, Window
    <3>4. QED
      BY <2>4, <3>1, <3>2, <3>3 DEF StartAnswered
  <2>5. CASE Ignored(c)
    BY <1>3, <2>1, <2>5 DEF Ignored, Window
  <2>6. QED
    BY <1>9, <2>2, <2>3, <2>4, <2>5 DEF Answered
<1>10. CASE HearEnd
  <2> DEFINE e == Head(events)
  <2>1. /\ events # <<>> /\ UNCHANGED <<outcome, pendingPath, picking>>
        /\ events \in Seq([job : Ids, end : Outcomes])
    BY <1>10 DEF HearEnd, TakeEvent, IInv, BackendTypeOK
  <2>2. e = events[1] /\ 1 \in 1 .. Len(events) /\ e \in [job : Ids, end : Outcomes]
    <3>1. Len(events) \in Nat \ {0}
      BY <2>1
    <3>2. 1 \in 1 .. Len(events) /\ e = events[1]
      BY <3>1
    <3>3. events[1] \in [job : Ids, end : Outcomes]
      BY <2>1, <3>2, ElementOfSeq
    <3>4. QED
      BY <3>2, <3>3
  <2>3. e.end = outcome[e.job] /\ e.job \in Ids /\ e.end \in Outcomes
    BY <2>2 DEF Ends
  <2> HIDE DEF e
  <2>4. CASE Keep
    BY <1>3, <2>1, <2>4 DEF Window
  <2>5. CASE kind = "processing" /\ shownJob = e.job /\ Show(e.end, shownDoc, shownJob)
    BY <2>1, <2>3, <2>5 DEF Show, Window, Kinds, Outcomes
  <2>6. QED
    BY <1>10, <2>4, <2>5 DEF HearEnd, e
<1>11. QED
  BY <1>2, <1>6, <1>7, <1>8, <1>9, <1>10 DEF Next, User, UserAction, Backend

LEMMA AppInvStep == AppInv /\ [Next]_vars => AppInv'
<1> SUFFICES ASSUME AppInv, [Next]_vars PROVE AppInv'
  OBVIOUS
<1>1. [BackendNext]_backendVars
  BY FrontEnd DEF AppInv
<1>2. IInv' /\ Reply'
  BY <1>1, IInvStep DEF AppInv
<1>3. Ends' /\ \A j \in Ids : outcome[j] # Null => outcome'[j] = outcome[j]
  BY <1>1, EndsStep DEF AppInv
<1>4. OpenedHasId'
  BY <1>1, OpenedStep DEF AppInv
<1>5. CASE Next
  BY <1>2, <1>3, <1>4, <1>5, WindowStep DEF AppInv
<1>6. CASE UNCHANGED vars
  BY <1>2, <1>3, <1>4, <1>6 DEF AppInv, Window, vars, uiVars, backendVars, jobVars
<1>7. QED
  BY <1>5, <1>6

-----------------------------------------------------------------------------
\* The variables of back end and window are what their declarations say, and
\* every state that shows a document has one.
THEOREM AppTypeCorrect == Spec => []TypeOK
<1>1. AppInv => TypeOK
  BY DEF AppInv, IInv, Window, TypeOK
<1>2. QED
  BY <1>1, InitAppInv, AppInvStep, PTL DEF Spec

\* The window is one of the front ends its back end is proved correct for.
THEOREM AppIsFrontEnd == Spec => BackendSpec
<1>1. Init => BackendInit
  BY DEF Init
<1>2. AppInv /\ [Next]_vars => [BackendNext]_backendVars
  BY FrontEnd DEF AppInv
<1>3. QED
  BY <1>1, <1>2, InitAppInv, AppInvStep, PTL DEF Spec, BackendSpec

\* The job slot is taken exactly while there is a job, whatever the user does.
THEOREM AppJobSlotCorrect == Spec => []JobSlotIsTheJob
BY AppIsFrontEnd, JobSlotCorrect, PTL

\* The window never says of a job that nothing was written, or that it was
\* completed, when this is not so.
THEOREM ShownEndCorrect == Spec => []ShownEndIsTrue
<1>1. AppInv => ShownEndIsTrue
  BY NullAssumption DEF AppInv, Window, Ends, ShownEndIsTrue
<1>2. QED
  BY <1>1, InitAppInv, AppInvStep, PTL DEF Spec
=============================================================================
