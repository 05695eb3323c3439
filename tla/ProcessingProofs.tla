-------------------------- MODULE ProcessingProofs --------------------------
(***************************************************************************)
(* Proofs about Processing, for any number of operations, streams, imports *)
(* and failures.                                                           *)
(***************************************************************************)
EXTENDS Processing, FiniteSetTheorems, TLAPS

----------------------------------------------------------------------------
(* Types                                                                   *)

USE DEF births, files, saved

\* What statuses there are.
LEMMA TheStatuses ==
  /\ "none" \in Statuses /\ "queued" \in Statuses /\ "running" \in Statuses
  /\ "succeeded" \in Statuses /\ "failed" \in Statuses /\ "stale" \in Statuses
  BY DEF Statuses, ActiveStatuses, TerminalStatuses

\* Every variable begins with its type.
LEMMA InitType == Init => TypeOK
<1> SUFFICES ASSUME Init PROVE TypeOK
  OBVIOUS
<1>1. NoRow \in [status : Statuses, gen : Nat] /\ NoRun \in Runs
  BY TheStatuses DEF NoRow, NoRun, Runs
<1>2. NoFin \in Finalizations /\ NoReq \in Streams
  BY TheStatuses DEF NoFin, NoReq, Finalizations, Streams
<1>3. IsFiniteSet({})
  BY FS_EmptySet
<1> QED
  BY <1>1, <1>2, <1>3 DEF Init, TypeOK

\* What Run changes.
LEMMA RunEffect ==
  ASSUME wf \in [Ops -> Runs], NEW o \in Ops,
         NEW a \in {"none", "mark", "load", "emit", "guard", "saving",
           "error", "finish", "except", "fail", "done", "dead"},
         Run(o, a)
  PROVE  /\ wf' \in [Ops -> Runs]
         /\ wf'[o].at = a
         /\ a \notin {"done", "dead"} => wf'[o].error = wf[o].error /\ wf'[o].base = wf[o].base
         /\ a \in {"done", "dead"} => wf'[o].error = FALSE
         /\ \A q \in Ops : q # o => wf'[q] = wf[q]
<1>1. wf[o] \in Runs
  OBVIOUS
<1>2. wf' = [wf EXCEPT ![o] = IF a \in {"done", "dead"} THEN [NoRun EXCEPT !.at = a]
                              ELSE [wf[o] EXCEPT !.at = a]]
  BY DEF Run
<1>3. [wf[o] EXCEPT !.at = a] \in Runs /\ [wf[o] EXCEPT !.at = a].at = a
      /\ [wf[o] EXCEPT !.at = a].error = wf[o].error
      /\ [wf[o] EXCEPT !.at = a].base = wf[o].base
  BY <1>1 DEF Runs
<1>4. [NoRun EXCEPT !.at = a] \in Runs /\ [NoRun EXCEPT !.at = a].at = a
      /\ [NoRun EXCEPT !.at = a].error = FALSE
  BY DEF Runs, NoRun
<1> QED
  BY <1>2, <1>3, <1>4

Rows == [status : Statuses, gen : Nat]

LEMMA StartedType ==
  ASSUME wf \in [Ops -> Runs], NEW o \in Ops
  PROVE  Started(o) \in [Ops -> Runs]
<1>1. wf[o] \in Runs
  OBVIOUS
<1>2. [wf[o] EXCEPT !.at = "mark"] \in Runs
  BY <1>1 DEF Runs
<1> QED
  BY <1>2 DEF Started

LEMMA FinType ==
  ASSUME TypeOK, Finalization
  PROVE  TypeOK'
<1>0. fin \in Finalizations /\ op \in [Ops -> Rows] /\ wf \in [Ops -> Runs]
  BY DEF TypeOK, Rows
<1>1. ASSUME NEW profile \in BOOLEAN, FinMark(profile) PROVE TypeOK'
  <2>1. {o \in Created : op[o].status # "stale"} \in SUBSET Ops /\ profile \in BOOLEAN
    BY ProcessingAssumption DEF Created
  <2>2. fin' \in Finalizations
    BY <1>1, <2>1 DEF FinMark, NoFin, Finalizations
  <2> QED
    BY <1>1, <2>2 DEF FinMark, TypeOK
<1>2. ASSUME NEW o \in Ops, FinRead(o) PROVE TypeOK'
  <2>1. \A g \in GenerationsAnd0 : g + 1 \in Nat
    BY <1>0 DEF GenerationsAnd0, Created, Rows
  <2>2. fin' \in Finalizations
    BY <1>0, <1>2, <2>1 DEF FinRead, Finalizations
  <2>3. clock' \in Nat /\ born' \in [Ops -> Nat]
    BY <1>2 DEF FinRead, Bear, TypeOK
  <2> QED
    BY <1>2, <2>2, <2>3 DEF FinRead, TypeOK
<1>3. CASE FinCommit
  <2>1. fin' \in Finalizations
    BY <1>0, <1>3 DEF FinCommit, Finalizations
  <2>2. fin.gen \in Nat
    BY <1>0 DEF Finalizations
  <2>3. \A o \in Ops : [op[o] EXCEPT !.status = "stale"] \in Rows
    BY <1>0, TheStatuses DEF Rows
  <2>4. [status |-> "queued", gen |-> fin.gen] \in Rows
    BY <2>2, TheStatuses DEF Rows
  <2>5. op' \in [Ops -> Rows]
    BY <1>0, <1>3, <2>3, <2>4 DEF FinCommit
  <2>6. missed' \in SUBSET Ops
    BY <1>0, <1>3 DEF FinCommit, Finalizations
  <2> QED
    BY <1>3, <2>1, <2>5, <2>6 DEF FinCommit, TypeOK, Rows
<1>4. CASE FinReplace
  <2>1. fin' \in Finalizations
    BY <1>0, <1>4 DEF FinReplace, Finalizations
  <2> QED
    BY <1>4, <2>1 DEF FinReplace, TypeOK
<1>5. CASE FinStart
  <2>1. fin' \in Finalizations
    BY <1>5 DEF FinStart, NoFin, Finalizations
  <2>2. wf' \in [Ops -> Runs]
    <3>1. CASE fin.op \in Ops
      BY <1>0, <1>5, <3>1, StartedType DEF FinStart
    <3>2. CASE fin.op \notin Ops
      BY <1>0, <1>5, <3>2 DEF FinStart, Started
    <3> QED
      BY <3>1, <3>2
  <2> QED
    BY <1>5, <2>1, <2>2 DEF FinStart, TypeOK
<1> QED
  BY <1>1, <1>2, <1>3, <1>4, <1>5 DEF Finalization

\* What a stream has read.
LEMMA PassOnType ==
  ASSUME TypeOK, NEW c \in Clients, PassOn(c, "status") \/ PassOn(c, "ended"),
         req[c].op \in Ops
  PROVE  req' \in [Clients -> Streams]
<1>0. req[c] \in Streams /\ req \in [Clients -> Streams]
  BY DEF TypeOK
<1>1. Unread(c) \in SUBSET events[req[c].op] /\ IsFiniteSet(events[req[c].op])
      /\ events[req[c].op] \in SUBSET Event
  BY DEF Unread, TypeOK
<1>2. Cardinality(Unread(c)) \in Nat
  BY <1>1, FS_Subset, FS_CardinalityType
<1>3. ASSUME NEW a \in {"status", "ended"}, PassOn(c, a)
      PROVE  req' \in [Clients -> Streams]
  <2>1. req[c].after + Cardinality(Unread(c)) \in Int
    BY <1>0, <1>2 DEF Streams
  <2>2. req[c].got \cup Unread(c) \in SUBSET Event
    BY <1>0, <1>1 DEF Streams
  <2>3. [req[c] EXCEPT !.at = a, !.got = req[c].got \cup Unread(c),
                       !.after = req[c].after + Cardinality(Unread(c))] \in Streams
    BY <1>0, <2>1, <2>2 DEF Streams
  <2> QED
    BY <1>0, <1>3, <2>3 DEF PassOn
<1> QED
  BY <1>3

\* A stream that has got as far as an operation refers to one.
StreamRefers ==
  \A c \in Clients :
    req[c].seen # "none" \/ req[c].at \in {"start", "poll", "status", "last", "ended"}
      => req[c].op \in Ops

\* A request that creates an operation while a finalization is marking changes
\* nothing of the finalization but what it has missed.
LEMMA CreateMisses ==
  ASSUME TypeOK, NEW c \in Clients, NEW o \in Ops, ReqCreate(c, o)
  PROVE  /\ fin' \in Finalizations
         /\ fin'.at = fin.at /\ fin'.profile = fin.profile /\ fin'.found = fin.found
         /\ fin'.op = fin.op
         /\ fin'.missed = IF Marking THEN fin.missed \cup {o} ELSE fin.missed
<1>1. fin \in Finalizations
  BY DEF TypeOK
<1>2. fin.missed \cup {o} \in SUBSET Ops
  BY <1>1 DEF Finalizations
<1>3. [fin EXCEPT !.missed = fin.missed \cup {o}] \in Finalizations
  BY <1>1, <1>2 DEF Finalizations
<1> QED
  BY <1>1, <1>3 DEF ReqCreate, Finalizations

LEMMA StreamType ==
  ASSUME TypeOK, StreamRefers, NEW c \in Clients, ReqLock(c) \/ Stream(c) \/ Disconnect(c)
  PROVE  TypeOK' /\ StreamRefers'
<1>0. req \in [Clients -> Streams] /\ req[c] \in Streams /\ op \in [Ops -> Rows]
      /\ wf \in [Ops -> Runs]
  BY DEF TypeOK, Rows
<1>1. CASE ReqLock(c)
  <2>1. CASE req' = [req EXCEPT ![c] = [NoReq EXCEPT !.at = "create"]]
    <3>1. req' \in [Clients -> Streams]
      BY <1>0, <2>1, TheStatuses DEF NoReq, Streams
    <3>2. req'[c].seen = "none" /\ req'[c].at = "create"
          /\ \A d \in Clients : d # c => req'[d] = req[d]
      BY <1>0, <2>1 DEF NoReq, Streams
    <3> QED
      BY <1>1, <3>1, <3>2 DEF ReqLock, TypeOK, StreamRefers
  <2>2. ASSUME NEW o \in Ops,
               req' = [req EXCEPT ![c] =
                         [NoReq EXCEPT !.at = "create", !.op = o, !.seen = op[o].status]]
        PROVE  TypeOK' /\ StreamRefers'
    <3>0. op[o].status \in Statuses
      BY <1>0 DEF Rows
    <3>4. NoReq \in Streams
      BY TheStatuses DEF NoReq, Streams
    <3>3. [NoReq EXCEPT !.at = "create", !.op = o, !.seen = op[o].status] \in Streams
      BY <3>0, <3>4 DEF Streams
    <3>1. req' \in [Clients -> Streams]
      BY <1>0, <2>2, <3>3
    <3>2. req'[c].op = o /\ \A d \in Clients : d # c => req'[d] = req[d]
      BY <1>0, <2>2 DEF NoReq, Streams
    <3> QED
      BY <1>1, <3>1, <3>2 DEF ReqLock, TypeOK, StreamRefers
  <2> QED
    BY <1>1, <2>1, <2>2 DEF ReqLock
<1>2. ASSUME NEW o \in Ops, ReqCreate(c, o) PROVE TypeOK' /\ StreamRefers'
  <2>0. Bear(o)
    BY <1>2 DEF ReqCreate
  <2>1. clock' \in Nat /\ born' \in [Ops -> Nat]
    BY <2>0 DEF Bear, TypeOK
  <2>2. (IF req[c].op = NoOp THEN 1 ELSE op[req[c].op].gen + 1) \in Nat
    BY <1>0 DEF Rows, Streams
  <2>3. op' \in [Ops -> Rows]
    BY <1>0, <1>2, <2>2, TheStatuses DEF ReqCreate, Rows
  <2>4. req' \in [Clients -> Streams] /\ req'[c].op = o
        /\ \A d \in Clients : d # c => req'[d] = req[d]
    BY <1>0, <1>2, TheStatuses DEF ReqCreate, Streams
  <2>5. fin' \in Finalizations
    BY <1>2, CreateMisses
  <2> QED
    BY <1>2, <2>1, <2>3, <2>4, <2>5 DEF ReqCreate, TypeOK, StreamRefers, Rows
<1>3. CASE ReqReuse(c)
  <2>1. req[c].op \in Ops
    BY <1>3 DEF ReqReuse, StreamRefers
  <2>2. req' \in [Clients -> Streams] /\ req'[c].op = req[c].op
        /\ \A d \in Clients : d # c => req'[d] = req[d]
    BY <1>0, <1>3 DEF ReqReuse, Streams
  <2> QED
    BY <1>3, <2>1, <2>2 DEF ReqReuse, TypeOK, StreamRefers
<1>4. CASE ReqStart(c)
  <2>1. req[c].op \in Ops
    BY <1>4 DEF ReqStart, StreamRefers
  <2>2. req' \in [Clients -> Streams] /\ req'[c].op = req[c].op
        /\ \A d \in Clients : d # c => req'[d] = req[d]
    BY <1>0, <1>4 DEF ReqStart, Streams
  <2>3. wf' \in [Ops -> Runs]
    BY <1>0, <1>4, <2>1, StartedType DEF ReqStart
  <2> QED
    BY <1>4, <2>1, <2>2, <2>3 DEF ReqStart, TypeOK, StreamRefers
<1>5. CASE PollRead(c) \/ PollLast(c)
  <2>1. req[c].op \in Ops
    BY <1>5 DEF PollRead, PollLast, StreamRefers
  <2>2. req' \in [Clients -> Streams]
    BY <1>5, <2>1, PassOnType DEF PollRead, PollLast
  <2>3. req'[c].op = req[c].op /\ \A d \in Clients : d # c => req'[d] = req[d]
    BY <1>0, <1>5 DEF PollRead, PollLast, PassOn, Streams
  <2> QED
    BY <1>5, <2>1, <2>2, <2>3 DEF PollRead, PollLast, TypeOK, StreamRefers
<1>6. CASE PollStatus(c)
  <2>1. req[c].op \in Ops
    BY <1>6 DEF PollStatus, StreamRefers
  <2>2. req' \in [Clients -> Streams] /\ req'[c].op = req[c].op
        /\ \A d \in Clients : d # c => req'[d] = req[d]
    BY <1>0, <1>6 DEF PollStatus, Streams
  <2> QED
    BY <1>6, <2>1, <2>2 DEF PollStatus, TypeOK, StreamRefers
<1>7. CASE Disconnect(c)
  <2>1. req' \in [Clients -> Streams] /\ req'[c].at = "idle" /\ req'[c].seen = "none"
        /\ \A d \in Clients : d # c => req'[d] = req[d]
    BY <1>0, <1>7, TheStatuses DEF Disconnect, NoReq, Streams
  <2> QED
    BY <1>7, <2>1 DEF Disconnect, TypeOK, StreamRefers
<1> QED
  BY <1>1, <1>2, <1>3, <1>4, <1>5, <1>6, <1>7 DEF Stream

\* Another event of an operation.
LEMMA EventType ==
  ASSUME TypeOK, NEW o \in Ops, NEW e \in Event,
         events' = [events EXCEPT ![o] = @ \cup {e}]
  PROVE  events' \in [Ops -> SUBSET Event] /\ \A q \in Ops : IsFiniteSet(events'[q])
<1>1. events \in [Ops -> SUBSET Event] /\ \A q \in Ops : IsFiniteSet(events[q])
  BY DEF TypeOK
<1>2. IsFiniteSet(events[o] \cup {e})
  BY <1>1, FS_AddElement
<1> QED
  BY <1>1, <1>2

LEMMA AppendType ==
  ASSUME TypeOK, NEW o \in Ops, NEW kind \in {"progress", "error"}, Append(o, kind)
  PROVE  events' \in [Ops -> SUBSET Event] /\ \A q \in Ops : IsFiniteSet(events'[q])
<1>1. [seq |-> wf[o].n, kind |-> kind] \in Event
  BY DEF TypeOK, Runs, Event
<1>2. CASE events' = events
  BY <1>2 DEF TypeOK
<1>3. CASE events' = [events EXCEPT ![o] = @ \cup {[seq |-> wf[o].n, kind |-> kind]}]
  BY <1>1, <1>3, EventType
<1> QED
  BY <1>2, <1>3 DEF Append

\* A status set by a workflow.
LEMMA StatusType ==
  ASSUME TypeOK, NEW o \in Ops, NEW s \in Statuses, op' = [op EXCEPT ![o].status = s]
  PROVE  op' \in [Ops -> Rows] /\ op'[o].status = s /\ op'[o].gen = op[o].gen
         /\ \A q \in Ops : q # o => op'[q] = op[q]
  BY DEF TypeOK, Rows

LEMMA WorkflowType ==
  ASSUME TypeOK, NEW o \in Ops, Workflow(o)
  PROVE  TypeOK'
<1>0. op \in [Ops -> Rows] /\ wf \in [Ops -> Runs] /\ wf[o] \in Runs
  BY DEF TypeOK, Rows
<1>1. CASE RunMark(o)
  <2>1. op' \in [Ops -> Rows]
    BY <1>0, <1>1, StatusType, TheStatuses DEF RunMark
  <2>2. wf' \in [Ops -> Runs]
    <3>0. [NoRun EXCEPT !.at = "load"] \in Runs
      BY DEF NoRun, Runs
    <3>1. CASE Active(o)
      BY <1>0, <1>1, <3>0, <3>1 DEF RunMark
    <3>2. CASE ~Active(o)
      BY <1>0, <1>1, <3>2, RunEffect DEF RunMark
    <3> QED
      BY <3>1, <3>2
  <2> QED
    BY <1>1, <2>1, <2>2 DEF RunMark, TypeOK, Rows
<1>2. CASE RunLoad(o)
  <2>1. wf' \in [Ops -> Runs]
    BY <1>0, <1>2 DEF RunLoad, Runs, TypeOK
  <2> QED
    BY <1>2, <2>1 DEF RunLoad, TypeOK
<1>3. CASE RunEmit(o)
  <2>1. wf' \in [Ops -> Runs]
    BY <1>0, <1>3 DEF RunEmit, Runs
  <2>2. events' \in [Ops -> SUBSET Event] /\ \A q \in Ops : IsFiniteSet(events'[q])
    BY <1>3, AppendType DEF RunEmit
  <2> QED
    BY <1>3, <2>1, <2>2 DEF RunEmit, TypeOK
<1>4. CASE RunCheck(o) \/ RunGuard(o) \/ RunFailRead(o)
  <2>1. wf' \in [Ops -> Runs]
    BY <1>0, <1>4, RunEffect DEF RunCheck, RunGuard, RunFailRead
  <2> QED
    BY <1>4, <2>1 DEF RunCheck, RunGuard, RunFailRead, TypeOK
<1>5. CASE RunSave(o)
  <2>1. wf' \in [Ops -> Runs] /\ op' \in [Ops -> Rows]
    BY <1>0, <1>5, RunEffect, StatusType, TheStatuses DEF RunSave
  <2>2. album' \in [by : Ops \cup {NoOp}, files : Nat] /\ saves' \in [Ops -> Nat]
    BY <1>0, <1>5 DEF RunSave, TypeOK, Runs
  <2> QED
    BY <1>5, <2>1, <2>2 DEF RunSave, TypeOK, Rows
<1>6. CASE RunError(o)
  <2>1. wf' \in [Ops -> Runs]
    BY <1>0, <1>6 DEF RunError, Runs
  <2>2. events' \in [Ops -> SUBSET Event] /\ \A q \in Ops : IsFiniteSet(events'[q])
    BY <1>6, AppendType DEF RunError
  <2> QED
    BY <1>6, <2>1, <2>2 DEF RunError, TypeOK
<1>7. CASE RunFinish(o)
  <2>1. wf' \in [Ops -> Runs]
    BY <1>0, <1>7, RunEffect DEF RunFinish, CompleteOperation
  <2>2. op' \in [Ops -> Rows]
    BY <1>0, <1>7, StatusType, TheStatuses DEF RunFinish, CompleteOperation
  <2> QED
    BY <1>7, <2>1, <2>2 DEF RunFinish, CompleteOperation, TypeOK, Rows
<1>8. CASE RunFail(o)
  <2>1. wf' \in [Ops -> Runs]
    BY <1>0, <1>8, RunEffect DEF RunFail, CompleteOperation, AppendNext
  <2>2. op' \in [Ops -> Rows]
    BY <1>0, <1>8, StatusType, TheStatuses DEF RunFail, CompleteOperation, AppendNext
  <2>3. events' \in [Ops -> SUBSET Event] /\ \A q \in Ops : IsFiniteSet(events'[q])
    <3>1. CASE events' = events
      BY <3>1 DEF TypeOK
    <3>2. ASSUME NEW n \in {-1} \cup {e.seq : e \in events[o]},
                 events' = [events EXCEPT ![o] = @ \cup {[seq |-> n + 1, kind |-> "error"]}]
          PROVE  events' \in [Ops -> SUBSET Event] /\ \A q \in Ops : IsFiniteSet(events'[q])
      <4>1. events[o] \in SUBSET Event
        BY DEF TypeOK
      <4>2. [seq |-> n + 1, kind |-> "error"] \in Event
        BY <4>1 DEF Event
      <4> QED
        BY <3>2, <4>2, EventType
    <3> QED
      BY <1>8, <3>1, <3>2 DEF RunFail, CompleteOperation, AppendNext
  <2> QED
    BY <1>8, <2>1, <2>2, <2>3 DEF RunFail, CompleteOperation, AppendNext, TypeOK, Rows
<1> QED
  BY <1>1, <1>2, <1>3, <1>4, <1>5, <1>6, <1>7, <1>8 DEF Workflow

LEMMA FailureType ==
  ASSUME TypeOK, StreamRefers,
         Crash \/ \E o \in Ops : RunRaises(o) \/ SaveFails(o) \/ WorkflowDies(o)
  PROVE  TypeOK' /\ StreamRefers'
<1>0. wf \in [Ops -> Runs] /\ faults \in Nat
  BY DEF TypeOK
<1>1. ASSUME NEW o \in Ops, RunRaises(o) \/ SaveFails(o) \/ WorkflowDies(o)
      PROVE  TypeOK' /\ StreamRefers'
  <2>1. wf' \in [Ops -> Runs]
    BY <1>0, <1>1, RunEffect DEF RunRaises, SaveFails, WorkflowDies
  <2>2. faults' \in Nat
    BY <1>0, <1>1 DEF RunRaises, SaveFails, WorkflowDies, Fault
  <2> QED
    BY <1>1, <2>1, <2>2 DEF RunRaises, SaveFails, WorkflowDies, TypeOK, StreamRefers
<1>2. CASE Crash
  <2>1. [NoRun EXCEPT !.at = "mark"] \in Runs
    BY DEF NoRun, Runs
  <2>2. wf' \in [Ops -> Runs]
    BY <1>0, <1>2, <2>1 DEF Crash
  <2>3. NoReq \in Streams /\ NoReq.at = "idle" /\ NoReq.seen = "none"
    BY TheStatuses DEF NoReq, Streams
  <2>4. req' \in [Clients -> Streams]
        /\ \A c \in Clients : req'[c].at = "idle" /\ req'[c].seen = "none"
    BY <1>2, <2>3 DEF Crash
  <2>5. NoFin \in Finalizations
    BY DEF NoFin, Finalizations
  <2>6. fin' \in Finalizations
    BY <1>2, <2>5 DEF Crash, TypeOK
  <2>7. born' \in [Ops -> Nat]
    BY <1>2 DEF Crash, TypeOK
  <2>8. faults' \in Nat
    BY <1>0, <1>2 DEF Crash, Fault
  <2>9. TypeOK'
    BY <1>2, <2>2, <2>4, <2>6, <2>7, <2>8 DEF Crash, TypeOK
  <2>10. StreamRefers'
    BY <2>4 DEF StreamRefers
  <2> QED
    BY <2>9, <2>10
<1> QED
  BY <1>1, <1>2

\* The invariant of the types: they hold, and streams refer to operations.
TypeInv == TypeOK /\ StreamRefers

LEMMA TypeStep == TypeInv /\ [Next]_vars => TypeInv'
<1> SUFFICES ASSUME TypeInv, [Next]_vars PROVE TypeInv'
  OBVIOUS
<1> USE DEF TypeInv
<1>1. CASE UNCHANGED vars
  BY <1>1 DEF vars, TypeOK, StreamRefers
<1>2. CASE Finalization
  <2>1. req' = req
    BY <1>2 DEF Finalization, FinMark, FinRead, FinCommit, FinReplace, FinStart
  <2> QED
    BY <1>2, <2>1, FinType DEF StreamRefers
<1>3. CASE \E o \in Ops : Workflow(o)
  <2>1. req' = req
    BY <1>3 DEF Workflow, RunMark, RunLoad, RunEmit, RunCheck, RunGuard, RunSave, RunError,
                RunFinish, CompleteOperation, RunFailRead, RunFail, AppendNext
  <2> QED
    BY <1>3, <2>1, WorkflowType DEF StreamRefers
<1>4. CASE \E c \in Clients : ReqLock(c) \/ Stream(c) \/ Disconnect(c)
  BY <1>4, StreamType
<1>5. CASE Crash \/ \E o \in Ops : RunRaises(o) \/ SaveFails(o) \/ WorkflowDies(o)
  BY <1>5, FailureType
<1> QED
  BY <1>1, <1>2, <1>3, <1>4, <1>5 DEF Next

LEMMA InitRefers == Init => StreamRefers
  BY DEF Init, NoReq, StreamRefers

\* Every variable keeps its type.
THEOREM TypeCorrect == Spec => []TypeOK
<1>1. Init => TypeInv
  BY InitType, InitRefers DEF TypeInv
<1>2. TypeInv => TypeOK
  BY DEF TypeInv
<1> QED
  BY <1>1, <1>2, TypeStep, PTL DEF Spec

----------------------------------------------------------------------------
(* An operation saves once                                                 *)

\* A row's status, its workflow and what it has saved go together.  The
\* workflow of an operation that is not there yet does not get past its first
\* question, and one that has told no error has left no active row behind.
Life(o) ==
  /\ op[o].status # "none" => born[o] # 0
  /\ op[o].status = "none" => wf[o].at \in {"none", "mark", "done", "dead"}
  /\ op[o].status \in {"none", "queued", "running"} => saves[o] = 0
  /\ op[o].status = "succeeded" => saves[o] = 1
  /\ saves[o] \in {0, 1}
  /\ wf[o].at = "saving" => Active(o)
  /\ wf[o].at = "finish" /\ ~wf[o].error => ~Active(o)

\* A finalization has locked no row of a save, and its own row is not there
\* before it commits.
FinLocks ==
  /\ \A o \in fin.found : op[o].status # "none" /\ wf[o].at # "saving"
  /\ fin.at = "commit" => /\ fin.op \in Ops
                          /\ op[fin.op].status = "none"
                          /\ born[fin.op] # 0

SaveInv == TypeInv /\ (\A o \in Ops : Life(o)) /\ FinLocks

LEMMA InitSave == Init => SaveInv
<1> SUFFICES ASSUME Init PROVE SaveInv
  OBVIOUS
<1>1. TypeInv
  BY InitType, InitRefers DEF TypeInv
<1>2. ASSUME NEW o \in Ops PROVE Life(o)
  BY DEF Init, Life, NoRow, NoRun, Active, ActiveStatuses
<1>3. FinLocks
  BY DEF Init, FinLocks, NoFin
<1> QED
  BY <1>1, <1>2, <1>3 DEF SaveInv

\* A workflow changes its own operation only.
LEMMA WorkflowFrame ==
  ASSUME TypeOK, NEW o \in Ops, Workflow(o) \/ RunRaises(o) \/ SaveFails(o) \/ WorkflowDies(o)
  PROVE  /\ born' = born /\ fin' = fin /\ req' = req
         /\ \A q \in Ops : q # o => op'[q] = op[q] /\ wf'[q] = wf[q] /\ saves'[q] = saves[q]
<1>0. op \in [Ops -> Rows] /\ wf \in [Ops -> Runs] /\ saves \in [Ops -> Nat]
  BY DEF TypeOK, Rows
<1>1. born' = born /\ fin' = fin /\ req' = req
  BY DEF Workflow, RunMark, RunLoad, RunEmit, RunCheck, RunGuard, RunSave, RunError,
         RunFinish, CompleteOperation, RunFailRead, RunFail, AppendNext, RunRaises, SaveFails, WorkflowDies
<1>2. \A q \in Ops : q # o => op'[q] = op[q]
  BY <1>0 DEF Workflow, RunMark, RunLoad, RunEmit, RunCheck, RunGuard, RunSave, RunError,
         RunFinish, CompleteOperation, RunFailRead, RunFail, AppendNext, RunRaises, SaveFails, WorkflowDies
<1>3. \A q \in Ops : q # o => saves'[q] = saves[q]
  BY <1>0 DEF Workflow, RunMark, RunLoad, RunEmit, RunCheck, RunGuard, RunSave, RunError,
         RunFinish, CompleteOperation, RunFailRead, RunFail, AppendNext, RunRaises, SaveFails, WorkflowDies
<1>4. \A q \in Ops : q # o => wf'[q] = wf[q]
  BY <1>0 DEF Workflow, RunMark, RunLoad, RunEmit, RunCheck, RunGuard, RunSave, RunError,
         RunFinish, CompleteOperation, RunFailRead, RunFail, AppendNext, RunRaises, SaveFails, WorkflowDies, Run
<1> QED
  BY <1>1, <1>2, <1>3, <1>4

\* What a workflow does to its operation: an ended one, or one that is not
\* there, is left as it is, and a save begins only on a row nobody has locked.
Outcome(o) ==
  /\ Life(o)'
  /\ op[o].status \in {"none"} \cup TerminalStatuses => op'[o].status = op[o].status
  /\ op[o].status # "none" => op'[o].status # "none"
  /\ wf'[o].at = "saving" => o \notin fin.found

LEMMA WorkflowOutcome ==
  ASSUME SaveInv, NEW o \in Ops, Workflow(o) \/ RunRaises(o) \/ SaveFails(o) \/ WorkflowDies(o)
  PROVE  Outcome(o)
<1>0. op \in [Ops -> Rows] /\ wf \in [Ops -> Runs] /\ wf[o] \in Runs /\ saves \in [Ops -> Nat]
      /\ TypeOK
  BY DEF SaveInv, TypeInv, TypeOK, Rows
<1>1. Life(o) /\ born' = born
  BY <1>0, WorkflowFrame DEF SaveInv
<1>2. op[o] \in Rows /\ op[o].status \in Statuses
  BY <1>0 DEF Rows
<1> USE DEF Active, ActiveStatuses, TerminalStatuses
<1>3. CASE RunMark(o)
  <2>1. CASE Active(o)
    <3>1. op'[o].status = "running"
      BY <1>3, <2>1, <1>0, StatusType, TheStatuses DEF RunMark
    <3>2. wf'[o].at = "load"
      BY <1>3, <2>1, <1>0 DEF RunMark, NoRun
    <3> QED
      BY <1>1, <1>3, <2>1, <3>1, <3>2 DEF RunMark, Outcome, Life
  <2>2. CASE ~Active(o)
    <3>1. wf'[o].at = "done"
      BY <1>3, <2>2, <1>0, RunEffect DEF RunMark
    <3> QED
      BY <1>1, <1>3, <2>2, <3>1 DEF RunMark, Outcome, Life
  <2> QED
    BY <2>1, <2>2
<1>4. CASE RunLoad(o)
  <2>1. wf'[o].at = "emit"
    BY <1>0, <1>4 DEF RunLoad
  <2> QED
    BY <1>1, <1>4, <2>1 DEF RunLoad, Outcome, Life
<1>5. CASE RunEmit(o)
  <2>1. wf'[o].at = "emit"
    BY <1>0, <1>5 DEF RunEmit, Runs
  <2> QED
    BY <1>1, <1>5, <2>1 DEF RunEmit, Outcome, Life
<1>6. CASE RunCheck(o)
  <2>1. wf'[o].at \in {"guard", "error"}
    BY <1>0, <1>6, RunEffect DEF RunCheck
  <2> QED
    BY <1>1, <1>6, <2>1 DEF RunCheck, Outcome, Life
<1>7. CASE RunGuard(o)
  <2>1. wf'[o].at = IF Active(o) THEN "saving" ELSE "error"
    BY <1>0, <1>7, RunEffect DEF RunGuard
  <2> QED
    BY <1>1, <1>7, <2>1 DEF RunGuard, Outcome, Life, Unlocked
<1>8. CASE RunSave(o)
  <2>1. op'[o].status = "succeeded"
    BY <1>0, <1>8, StatusType, TheStatuses DEF RunSave
  <2>2. wf'[o].at = "finish"
    BY <1>0, <1>8, RunEffect DEF RunSave
  <2>3. saves'[o] = saves[o] + 1
    BY <1>0, <1>8 DEF RunSave
  <2> QED
    BY <1>1, <1>8, <2>1, <2>2, <2>3 DEF RunSave, Outcome, Life
<1>9. CASE RunError(o)
  <2>1. wf'[o].at = "finish" /\ wf'[o].error
    BY <1>0, <1>9 DEF RunError, Runs
  <2> QED
    BY <1>1, <1>9, <2>1 DEF RunError, Outcome, Life
<1>10. CASE RunFinish(o)
  <2>1. wf'[o].at = "done"
    BY <1>0, <1>10, RunEffect DEF RunFinish, CompleteOperation
  <2>2. IF Active(o) THEN op'[o].status = "failed" ELSE op'[o] = op[o]
    BY <1>0, <1>1, <1>10, StatusType, TheStatuses DEF RunFinish, CompleteOperation, Life, Runs
  <2> QED
    BY <1>1, <1>10, <2>1, <2>2 DEF RunFinish, CompleteOperation, Outcome, Life
<1>11. CASE RunFailRead(o)
  <2>1. wf'[o].at \in {"fail", "done"}
    BY <1>0, <1>11, RunEffect DEF RunFailRead
  <2> QED
    BY <1>1, <1>11, <2>1 DEF RunFailRead, Outcome, Life
<1>12. CASE RunFail(o)
  <2>1. wf'[o].at = "done"
    BY <1>0, <1>12, RunEffect DEF RunFail, CompleteOperation, AppendNext
  <2>2. IF Active(o) THEN op'[o].status = "failed" ELSE op'[o] = op[o]
    BY <1>0, <1>12, StatusType, TheStatuses DEF RunFail, CompleteOperation, AppendNext
  <2> QED
    BY <1>1, <1>12, <2>1, <2>2 DEF RunFail, CompleteOperation, AppendNext, Outcome, Life
<1>13. CASE RunRaises(o) \/ SaveFails(o)
  <2>1. wf'[o].at \in {"error", "except"} /\ wf[o].at \notin {"none", "mark", "done", "dead"}
    BY <1>0, <1>13, RunEffect DEF RunRaises, SaveFails
  <2> QED
    BY <1>1, <1>13, <2>1 DEF RunRaises, SaveFails, Outcome, Life
<1>14. CASE WorkflowDies(o)
  <2>1. wf'[o].at = "dead"
    BY <1>0, <1>14, RunEffect DEF WorkflowDies
  <2> QED
    BY <1>1, <1>14, <2>1 DEF WorkflowDies, Outcome, Life
<1> QED
  BY <1>3, <1>4, <1>5, <1>6, <1>7, <1>8, <1>9, <1>10, <1>11, <1>12, <1>13, <1>14 DEF Workflow

\* No step brings an ended operation back, or takes a row away.
Ended(o) ==
  /\ op[o].status \in TerminalStatuses => op'[o].status \in {op[o].status, "stale"}
  /\ op[o].status # "none" => op'[o].status # "none"

\* Starting a workflow leaves a started one as it is.
LEMMA StartedSave ==
  ASSUME TypeOK, NEW s \in Ops \cup {NoOp}, wf' = Started(s)
  PROVE  \A o \in Ops : wf'[o] = wf[o] \/ (wf[o].at = "none" /\ wf'[o].at = "mark")
<1>1. wf \in [Ops -> Runs]
  BY DEF TypeOK
<1>2. CASE wf' = wf
  BY <1>2
<1>3. CASE wf[s].at = "none" /\ wf' = [wf EXCEPT ![s].at = "mark"]
  <2>1. ASSUME NEW o \in Ops, o = s PROVE wf[o].at = "none" /\ wf'[o].at = "mark"
    BY <1>1, <1>3, <2>1 DEF Runs
  <2>2. ASSUME NEW o \in Ops, o # s PROVE wf'[o] = wf[o]
    BY <1>1, <1>3, <2>2
  <2> QED
    BY <2>1, <2>2
<1> QED
  BY <1>2, <1>3 DEF Started

LEMMA FinSave ==
  ASSUME SaveInv, Finalization
  PROVE  (\A o \in Ops : Life(o)' /\ Ended(o)) /\ FinLocks'
<1>0. op \in [Ops -> Rows] /\ wf \in [Ops -> Runs] /\ fin \in Finalizations
      /\ born \in [Ops -> Nat] /\ TypeOK /\ clock \in Nat
  BY DEF SaveInv, TypeInv, TypeOK, Rows
<1>1. \A o \in Ops : Life(o)
  BY DEF SaveInv
<1> USE DEF Active, ActiveStatuses, TerminalStatuses
<1>2. ASSUME NEW profile \in BOOLEAN, FinMark(profile)
      PROVE  (\A o \in Ops : Life(o)' /\ Ended(o)) /\ FinLocks'
  <2>1. fin'.at = "read" /\ fin'.found = {o \in Created : op[o].status # "stale"}
    BY <1>2 DEF FinMark, NoFin
  <2>2. FinLocks'
    BY <1>2, <2>1 DEF FinMark, FinLocks, Unlocked, Created
  <2> QED
    BY <1>1, <1>2, <2>2 DEF FinMark, Life, Ended
<1>3. ASSUME NEW n \in Ops, FinRead(n)
      PROVE  (\A o \in Ops : Life(o)' /\ Ended(o)) /\ FinLocks'
  <2>1. fin'.at = "commit" /\ fin'.op = n /\ fin'.found = fin.found
    BY <1>0, <1>3 DEF FinRead, Finalizations
  <2>2. born'[n] # 0 /\ op[n].status = "none"
    BY <1>0, <1>1, <1>3 DEF FinRead, Bear, Life
  <2>3. \A o \in Ops : o # n => born'[o] = born[o]
    BY <1>0, <1>3 DEF FinRead, Bear
  <2>4. FinLocks'
    BY <1>3, <2>1, <2>2 DEF FinRead, FinLocks, SaveInv
  <2>5. \A o \in Ops : Life(o)' /\ Ended(o)
    BY <1>1, <1>3, <2>2, <2>3 DEF FinRead, Life, Ended
  <2> QED
    BY <2>4, <2>5
<1>4. CASE FinCommit
  <2>1. fin'.at = "replace" /\ fin'.found = {}
    BY <1>0, <1>4 DEF FinCommit, Finalizations
  <2>2. op[fin.op].status = "none" /\ born[fin.op] # 0 /\ fin.op \in Ops
    BY <1>4 DEF FinCommit, SaveInv, FinLocks
  <2>3. op'[fin.op].status = "queued"
    BY <1>0, <1>4, <2>2 DEF FinCommit
  <2>4. ASSUME NEW o \in Ops, o # fin.op
        PROVE  IF o \in fin.found THEN op'[o].status = "stale" /\ wf[o].at # "saving"
               ELSE op'[o] = op[o]
    BY <1>0, <1>4, <2>4 DEF FinCommit, SaveInv, FinLocks, Rows
  <2>5. FinLocks'
    BY <2>1 DEF FinLocks
  <2>6. ASSUME NEW o \in Ops PROVE Life(o)' /\ Ended(o)
    <3>1. CASE o = fin.op
      BY <1>1, <1>4, <2>2, <2>3, <3>1 DEF FinCommit, Life, Ended
    <3>2. CASE o # fin.op /\ o \in fin.found
      <4>2. op'[o].status = "stale" /\ wf[o].at # "saving"
        BY <2>4, <3>2
      <4>3. op[o].status # "none"
        BY <3>2 DEF SaveInv, FinLocks
      <4>4. born' = born /\ wf' = wf /\ saves' = saves
        BY <1>4 DEF FinCommit
      <4> QED
        BY <1>1, <4>2, <4>3, <4>4 DEF Life, Ended
    <3>3. CASE o # fin.op /\ o \notin fin.found
      BY <1>1, <1>4, <2>4, <3>3 DEF FinCommit, Life, Ended
    <3> QED
      BY <3>1, <3>2, <3>3
  <2> QED
    BY <2>5, <2>6
<1>5. CASE FinReplace
  <2>1. fin'.at = "start" /\ fin'.found = fin.found
    BY <1>0, <1>5 DEF FinReplace, Finalizations
  <2> QED
    BY <1>1, <1>5, <2>1 DEF FinReplace, Life, Ended, FinLocks, SaveInv
<1>6. CASE FinStart
  <2>1. fin'.at = "idle" /\ fin'.found = {}
    BY <1>6 DEF FinStart, NoFin
  <2>2. \A o \in Ops : wf'[o] = wf[o] \/ (wf[o].at = "none" /\ wf'[o].at = "mark")
    BY <1>0, <1>6, StartedSave DEF FinStart, Finalizations
  <2> QED
    BY <1>1, <1>6, <2>1, <2>2 DEF FinStart, Life, Ended, FinLocks
<1> QED
  BY <1>2, <1>3, <1>4, <1>5, <1>6 DEF Finalization

LEMMA StreamSave ==
  ASSUME SaveInv, NEW c \in Clients, ReqLock(c) \/ Stream(c) \/ Disconnect(c)
  PROVE  (\A o \in Ops : Life(o)' /\ Ended(o)) /\ FinLocks'
<1>0. op \in [Ops -> Rows] /\ wf \in [Ops -> Runs] /\ req \in [Clients -> Streams]
      /\ born \in [Ops -> Nat] /\ TypeOK /\ clock \in Nat
  BY DEF SaveInv, TypeInv, TypeOK, Rows
<1>1. (\A o \in Ops : Life(o)) /\ FinLocks
  BY DEF SaveInv
<1> USE DEF Active, ActiveStatuses, TerminalStatuses
<1>2. ASSUME NEW n \in Ops, ReqCreate(c, n)
      PROVE  (\A o \in Ops : Life(o)' /\ Ended(o)) /\ FinLocks'
  <2>0. Bear(n)
    BY <1>2 DEF ReqCreate
  <2>1. born[n] = 0 /\ born'[n] # 0 /\ op[n].status = "none"
    BY <1>0, <1>1, <2>0 DEF Bear, Life
  <2>2. op'[n].status = "queued"
    BY <1>0, <1>2 DEF ReqCreate
  <2>3. \A o \in Ops : o # n => op'[o] = op[o] /\ born'[o] = born[o]
    BY <1>0, <1>2 DEF ReqCreate, Bear
  <2>4. FinLocks'
    <3>1. fin'.at = fin.at /\ fin'.found = fin.found /\ fin'.op = fin.op
          /\ fin.found \subseteq Ops
      BY <1>0, <1>2, CreateMisses DEF TypeOK, Finalizations
    <3>2. wf' = wf
      BY <1>2 DEF ReqCreate
    <3> QED
      BY <1>1, <2>1, <2>2, <2>3, <3>1, <3>2 DEF FinLocks
  <2>5. ASSUME NEW o \in Ops PROVE Life(o)' /\ Ended(o)
    <3>1. CASE o = n
      BY <1>1, <1>2, <2>1, <2>2, <3>1 DEF ReqCreate, Life, Ended
    <3>2. CASE o # n
      BY <1>1, <1>2, <2>3, <3>2 DEF ReqCreate, Life, Ended
    <3> QED
      BY <3>1, <3>2
  <2> QED
    BY <2>4, <2>5
<1>3. CASE ReqStart(c)
  <2>1. \A o \in Ops : wf'[o] = wf[o] \/ (wf[o].at = "none" /\ wf'[o].at = "mark")
    BY <1>0, <1>3, StartedSave DEF ReqStart, Streams
  <2>2. UNCHANGED <<op, born, fin, saves>>
    BY <1>3 DEF ReqStart
  <2>3. FinLocks'
    BY <1>0, <1>1, <2>1, <2>2 DEF FinLocks, TypeOK, Finalizations
  <2> QED
    BY <1>1, <2>1, <2>2, <2>3 DEF Life, Ended
<1>4. CASE ReqLock(c) \/ ReqReuse(c) \/ PollRead(c) \/ PollStatus(c) \/ PollLast(c)
           \/ Disconnect(c)
  <2>1. UNCHANGED <<op, wf, born, fin, saves>>
    BY <1>4 DEF ReqLock, ReqReuse, PollRead, PollStatus, PollLast, Disconnect
  <2> QED
    BY <1>1, <2>1 DEF Life, Ended, FinLocks
<1> QED
  BY <1>2, <1>3, <1>4 DEF Stream

LEMMA CrashSave ==
  ASSUME SaveInv, Crash
  PROVE  (\A o \in Ops : Life(o)' /\ Ended(o)) /\ FinLocks'
<1>0. wf \in [Ops -> Runs] /\ fin \in Finalizations /\ born \in [Ops -> Nat]
  BY DEF SaveInv, TypeInv, TypeOK
<1>1. (\A o \in Ops : Life(o)) /\ FinLocks
  BY DEF SaveInv
<1> USE DEF Active, ActiveStatuses, TerminalStatuses
<1>2. \A o \in Ops : (wf'[o] = wf[o] /\ wf[o].at \in {"none", "done", "dead"}) \/ wf'[o].at = "mark"
  BY <1>0 DEF Crash, NoRun
<1>3. \A o \in Ops : op[o].status # "none" => born'[o] = born[o]
  BY <1>0 DEF Crash
<1>4. fin'.at \in {"idle", "replace", "start"}
  BY <1>0 DEF Crash, NoFin, Finalizations
<1>5. fin'.found \subseteq fin.found
  BY <1>0 DEF Crash, NoFin, Finalizations
<1>6. FinLocks'
  BY <1>1, <1>0, <1>2, <1>4, <1>5 DEF Crash, FinLocks, Finalizations
<1>7. \A o \in Ops : Life(o)' /\ Ended(o)
  BY <1>1, <1>2, <1>3 DEF Crash, Life, Ended
<1> QED
  BY <1>6, <1>7

LEMMA SaveStep ==
  ASSUME SaveInv, [Next]_vars
  PROVE  SaveInv' /\ \A o \in Ops : Ended(o)
<1>1. TypeInv'
  BY TypeStep DEF SaveInv
<1>2. CASE UNCHANGED vars
  <2>1. (\A o \in Ops : Life(o)') /\ FinLocks'
    BY <1>2 DEF vars, SaveInv, Life, FinLocks, Active
  <2>2. \A o \in Ops : Ended(o)
    BY <1>2 DEF vars, Ended
  <2> QED
    BY <1>1, <2>1, <2>2 DEF SaveInv
<1>3. CASE Finalization
  BY <1>1, <1>3, FinSave DEF SaveInv
<1>4. ASSUME NEW c \in Clients, ReqLock(c) \/ Stream(c) \/ Disconnect(c)
      PROVE  SaveInv' /\ \A o \in Ops : Ended(o)
  BY <1>1, <1>4, StreamSave DEF SaveInv
<1>5. CASE Crash
  BY <1>1, <1>5, CrashSave DEF SaveInv
<1>6. ASSUME NEW o \in Ops, Workflow(o) \/ RunRaises(o) \/ SaveFails(o) \/ WorkflowDies(o)
      PROVE  SaveInv' /\ \A q \in Ops : Ended(q)
  <2>0. TypeOK /\ (\A q \in Ops : Life(q)) /\ FinLocks
    BY DEF SaveInv, TypeInv
  <2>1. born' = born /\ fin' = fin
        /\ \A q \in Ops : q # o => op'[q] = op[q] /\ wf'[q] = wf[q] /\ saves'[q] = saves[q]
    BY <1>6, <2>0, WorkflowFrame
  <2>2. Outcome(o)
    BY <1>6, WorkflowOutcome
  <2>3. \A q \in Ops : q # o => Life(q)' /\ Ended(q)
    BY <2>0, <2>1 DEF Life, Ended, Active
  <2>4. Life(o)'
    BY <2>2 DEF Outcome
  <2>5. Ended(o)
    BY <2>0, <2>2, <2>4 DEF Outcome, Ended, Life, TerminalStatuses
  <2>6. FinLocks'
    <3>1. fin.found \subseteq Ops
      BY <2>0 DEF TypeOK, Finalizations
    <3>2. \A q \in fin.found : op'[q].status # "none" /\ wf'[q].at # "saving"
      BY <2>0, <2>1, <2>2, <3>1 DEF Outcome, FinLocks
    <3>3. fin.at = "commit" => op'[fin.op].status = "none"
      BY <2>0, <2>1, <2>2 DEF Outcome, FinLocks
    <3> QED
      BY <2>0, <2>1, <3>2, <3>3 DEF FinLocks
  <2> QED
    BY <1>1, <2>3, <2>4, <2>5, <2>6 DEF SaveInv
<1> QED
  BY <1>2, <1>3, <1>4, <1>5, <1>6 DEF Next

\* However often its workflow is executed, an operation saves at most once.
THEOREM SavesOnce == Spec => []SavedOnce
<1>1. SaveInv => SavedOnce
  BY DEF SaveInv, Life, SavedOnce
<1> QED
  BY <1>1, InitSave, SaveStep, PTL DEF Spec

\* An operation that is reported as succeeded has saved its album.
THEOREM SuccessIsSaved == Spec => []SucceededIsSaved
<1>1. SaveInv => SucceededIsSaved
  BY DEF SaveInv, Life, SucceededIsSaved
<1> QED
  BY <1>1, InitSave, SaveStep, PTL DEF Spec

\* No order of imports, streams, workflows and failures brings an operation
\* back that has ended.
THEOREM EndedIsFinal == Spec => EndedStays
<1>1. ASSUME SaveInv, [Next]_vars
      PROVE  [\A o \in Ops : op[o].status \in TerminalStatuses =>
                op'[o].status \in {op[o].status, "stale"}]_vars
  BY <1>1, SaveStep DEF Ended
<1> QED
  BY <1>1, InitSave, SaveStep, PTL DEF Spec, EndedStays

----------------------------------------------------------------------------
(* The events are numbered without a gap, and a stream passes all of them on *)

Seqs(o) == {e.seq : e \in events[o]}

\* The numbers stored are an initial segment, and the workflow's own counter,
\* which a repeated run begins anew, does not skip one.
Numbered(o) ==
  /\ Seqs(o) = 0 .. (Cardinality(events[o]) - 1)
  /\ wf[o].n <= Cardinality(events[o])

\* The workflow of an operation that has succeeded or failed stores nothing
\* more: only its first question and its last steps are still to come.
Quiet(o) ==
  op[o].status \in {"succeeded", "failed"} =>
    wf[o].at \in {"none", "mark", "finish", "except", "fail", "done", "dead"}

EventInv == SaveInv /\ \A o \in Ops : Numbered(o) /\ Quiet(o)

LEMMA CountType ==
  ASSUME TypeOK, NEW o \in Ops
  PROVE  /\ IsFiniteSet(events[o]) /\ Cardinality(events[o]) \in Nat
         /\ events[o] \in SUBSET Event
         /\ \A e \in events[o] : e \in Event /\ e.seq \in Nat
<1>1. IsFiniteSet(events[o]) /\ events[o] \in SUBSET Event
  BY DEF TypeOK
<1>2. Cardinality(events[o]) \in Nat
  BY <1>1, FS_CardinalityType
<1> QED
  BY <1>1, <1>2 DEF Event

\* The event with the next number keeps the numbers without a gap.
LEMMA NextEvent ==
  ASSUME TypeOK, NEW o \in Ops, NEW kind,
         Seqs(o) = 0 .. (Cardinality(events[o]) - 1),
         events' = [events EXCEPT ![o] =
                      @ \cup {[seq |-> Cardinality(events[o]), kind |-> kind]}]
  PROVE  /\ events'[o] = events[o] \cup {[seq |-> Cardinality(events[o]), kind |-> kind]}
         /\ Cardinality(events'[o]) = Cardinality(events[o]) + 1
         /\ Seqs(o)' = 0 .. (Cardinality(events'[o]) - 1)
<1> DEFINE n == Cardinality(events[o])
<1> DEFINE e == [seq |-> n, kind |-> kind]
<1>0. n \in Nat /\ IsFiniteSet(events[o])
  BY CountType
<1>1. events'[o] = events[o] \cup {e}
  BY DEF TypeOK
<1>2. e \notin events[o]
  <2>1. SUFFICES ASSUME e \in events[o] PROVE FALSE
    OBVIOUS
  <2>2. n \in Seqs(o)
    BY <2>1 DEF Seqs
  <2>3. n \in 0 .. (n - 1)
    BY <2>2
  <2> QED
    BY <1>0, <2>3
<1>3. Cardinality(events'[o]) = n + 1
  BY <1>0, <1>1, <1>2, FS_AddElement
<1>4. Seqs(o)' = Seqs(o) \cup {n}
  <2>1. e.seq = n
    OBVIOUS
  <2> HIDE DEF e, n
  <2>2. Seqs(o)' = {x.seq : x \in events[o] \cup {e}}
    BY <1>1 DEF Seqs
  <2> QED
    BY <2>1, <2>2 DEF Seqs
<1>5. Seqs(o)' = 0 .. (Cardinality(events'[o]) - 1)
  <2>1. (0 .. (n - 1)) \cup {n} = 0 .. n
    BY <1>0
  <2>2. (n + 1) - 1 = n
    BY <1>0
  <2> QED
    BY <1>3, <1>4, <2>1, <2>2
<1> QED
  BY <1>1, <1>3, <1>5

\* What storing an event does: nothing, or the next event.
Grown(o) ==
  \/ events' = events
  \/ /\ Cardinality(events'[o]) = Cardinality(events[o]) + 1
     /\ events[o] \subseteq events'[o]
     /\ \A e \in events'[o] \ events[o] : e.seq = Cardinality(events[o])
     /\ \A q \in Ops : q # o => events'[q] = events[q]

LEMMA AppendGrows ==
  ASSUME TypeOK, NEW o \in Ops, Numbered(o), NEW kind, Append(o, kind)
  PROVE  /\ Grown(o)
         /\ Seqs(o)' = 0 .. (Cardinality(events'[o]) - 1)
         /\ wf[o].n + 1 <= Cardinality(events'[o])
<1>0. Cardinality(events[o]) \in Nat /\ wf[o].n \in Nat
  BY CountType DEF TypeOK, Runs
<1>1. CASE \E e \in events[o] : e.seq = wf[o].n
  <2>1. events' = events
    BY <1>1 DEF Append
  <2>2. wf[o].n \in Seqs(o)
    BY <1>1 DEF Seqs
  <2>3. wf[o].n + 1 <= Cardinality(events[o])
    BY <1>0, <2>2 DEF Numbered
  <2>4. Seqs(o)' = Seqs(o)
    BY <2>1 DEF Seqs
  <2> QED
    BY <2>1, <2>3, <2>4 DEF Grown, Numbered
<1>2. CASE ~\E e \in events[o] : e.seq = wf[o].n
  <2>1. wf[o].n \notin Seqs(o)
    BY <1>2 DEF Seqs
  <2>2. wf[o].n = Cardinality(events[o])
    BY <1>0, <2>1 DEF Numbered
  <2>3. events' = [events EXCEPT ![o] =
                     @ \cup {[seq |-> Cardinality(events[o]), kind |-> kind]}]
    BY <1>2, <2>2 DEF Append
  <2>4. /\ events'[o] = events[o] \cup {[seq |-> Cardinality(events[o]), kind |-> kind]}
        /\ Cardinality(events'[o]) = Cardinality(events[o]) + 1
        /\ Seqs(o)' = 0 .. (Cardinality(events'[o]) - 1)
    BY <2>3, NextEvent DEF Numbered
  <2>5. \A q \in Ops : q # o => events'[q] = events[q]
    BY <2>3 DEF TypeOK
  <2> QED
    BY <1>0, <2>2, <2>4, <2>5 DEF Grown
<1> QED
  BY <1>1, <1>2

\* The greatest number stored is the count less one, so the next is the count.
LEMMA AppendNextGrows ==
  ASSUME TypeOK, NEW o \in Ops, Numbered(o), NEW kind, AppendNext(o, kind)
  PROVE  /\ Grown(o)
         /\ Seqs(o)' = 0 .. (Cardinality(events'[o]) - 1)
<1>0. Cardinality(events[o]) \in Nat /\ \A e \in events[o] : e.seq \in Nat
  BY CountType
<1>1. PICK n \in {-1} \cup {e.seq : e \in events[o]} :
        /\ IsLastSeq(o, n)
        /\ events' = [events EXCEPT ![o] = @ \cup {[seq |-> n + 1, kind |-> kind]}]
  BY DEF AppendNext
<1>2. n + 1 = Cardinality(events[o])
  <2>1. n \in {-1} \cup Seqs(o) /\ \A s \in Seqs(o) : s <= n
    BY <1>1 DEF Seqs, IsLastSeq
  <2> HIDE DEF Seqs
  <2>2. n \in {-1} \cup 0 .. (Cardinality(events[o]) - 1)
        /\ \A s \in 0 .. (Cardinality(events[o]) - 1) : s <= n
    BY <2>1 DEF Numbered
  <2>3. n \in Int /\ n <= Cardinality(events[o]) - 1
    BY <1>0, <2>2
  <2>4. CASE Cardinality(events[o]) = 0
    BY <2>2, <2>4
  <2>5. CASE Cardinality(events[o]) > 0
    <3>1. Cardinality(events[o]) - 1 <= n
      BY <1>0, <2>2, <2>5
    <3> QED
      BY <1>0, <2>3, <3>1
  <2> QED
    BY <1>0, <2>4, <2>5
<1>3. events' = [events EXCEPT ![o] =
                   @ \cup {[seq |-> Cardinality(events[o]), kind |-> kind]}]
  BY <1>1, <1>2
<1>4. /\ events'[o] = events[o] \cup {[seq |-> Cardinality(events[o]), kind |-> kind]}
      /\ Cardinality(events'[o]) = Cardinality(events[o]) + 1
      /\ Seqs(o)' = 0 .. (Cardinality(events'[o]) - 1)
  BY <1>3, NextEvent DEF Numbered
<1>5. \A q \in Ops : q # o => events'[q] = events[q]
  BY <1>3 DEF TypeOK
<1> QED
  BY <1>4, <1>5 DEF Grown

\* Run leaves the counter, or sets it back.
LEMMA RunCounter ==
  ASSUME TypeOK, NEW o \in Ops, NEW a, Run(o, a)
  PROVE  wf'[o].n \in {0, wf[o].n}
<1>1. wf[o] \in Runs /\ wf \in [Ops -> Runs]
  BY DEF TypeOK
<1>2. CASE a \in {"done", "dead"}
  BY <1>1, <1>2 DEF Run, NoRun
<1>3. CASE a \notin {"done", "dead"}
  BY <1>1, <1>3 DEF Run, Runs
<1> QED
  BY <1>2, <1>3

\* What a workflow's step does to the events of its operation: one that has
\* succeeded or failed gets no more.
Telling(o) ==
  /\ Grown(o)
  /\ Numbered(o)' /\ Quiet(o)'
  /\ op[o].status \in {"succeeded", "failed"} => events' = events

LEMMA WorkflowTells ==
  ASSUME EventInv, NEW o \in Ops, Workflow(o) \/ RunRaises(o) \/ SaveFails(o) \/ WorkflowDies(o)
  PROVE  Telling(o)
<1>0. op \in [Ops -> Rows] /\ wf \in [Ops -> Runs] /\ wf[o] \in Runs /\ TypeOK
      /\ op[o].status \in Statuses
      /\ Cardinality(events[o]) \in Nat /\ wf[o].n \in Nat
  BY CountType DEF EventInv, SaveInv, TypeInv, TypeOK, Rows, Runs
<1>1. Numbered(o) /\ Quiet(o) /\ Life(o)
  BY DEF EventInv, SaveInv
<1>2. ASSUME events' = events, wf'[o].n \in {0, wf[o].n}
      PROVE  Grown(o) /\ Numbered(o)'
  BY <1>0, <1>1, <1>2 DEF Grown, Numbered, Seqs
<1> USE DEF Active, ActiveStatuses, TerminalStatuses
<1>3. CASE RunMark(o)
  <2>1. CASE Active(o)
    <3>1. op'[o].status = "running"
      BY <1>3, <2>1, <1>0, StatusType, TheStatuses DEF RunMark
    <3>2. wf'[o].n = 0 /\ events' = events
      BY <1>3, <2>1, <1>0 DEF RunMark, NoRun
    <3> QED
      BY <1>2, <3>1, <3>2 DEF Telling, Quiet
  <2>2. CASE ~Active(o)
    <3>1. wf'[o].at = "done" /\ events' = events /\ wf'[o].n \in {0, wf[o].n}
      BY <1>3, <2>2, <1>0, RunEffect, RunCounter DEF RunMark
    <3> QED
      BY <1>2, <3>1 DEF Telling, Quiet
  <2> QED
    BY <2>1, <2>2
<1>4. CASE RunLoad(o)
  <2>1. wf'[o].n = wf[o].n /\ wf[o].at = "load" /\ UNCHANGED <<op, events>>
    BY <1>0, <1>4 DEF RunLoad, Runs
  <2> QED
    BY <1>1, <1>2, <2>1 DEF Telling, Quiet
<1>5. CASE RunEmit(o)
  <2>1. wf'[o].n = wf[o].n + 1 /\ wf[o].at = "emit" /\ op' = op
    BY <1>0, <1>5 DEF RunEmit, Runs
  <2>2. /\ Grown(o)
        /\ Seqs(o)' = 0 .. (Cardinality(events'[o]) - 1)
        /\ wf[o].n + 1 <= Cardinality(events'[o])
    BY <1>0, <1>1, <1>5, AppendGrows DEF RunEmit
  <2> QED
    BY <1>1, <2>1, <2>2 DEF Telling, Quiet, Numbered
<1>6. CASE RunCheck(o) \/ RunGuard(o)
  <2>1. events' = events /\ wf[o].at \in {"emit", "guard"} /\ op' = op
        /\ wf'[o].n \in {0, wf[o].n}
    BY <1>0, <1>6, RunCounter DEF RunCheck, RunGuard
  <2> QED
    BY <1>1, <1>2, <2>1 DEF Telling, Quiet
<1>7. CASE RunSave(o)
  <2>1. events' = events /\ wf'[o].at = "finish" /\ wf'[o].n \in {0, wf[o].n}
    BY <1>0, <1>7, RunEffect, RunCounter DEF RunSave
  <2> QED
    BY <1>2, <2>1 DEF Telling, Quiet
<1>8. CASE RunError(o)
  <2>1. wf'[o].n = wf[o].n + 1 /\ wf[o].at = "error" /\ op' = op
    BY <1>0, <1>8 DEF RunError, Runs
  <2>2. /\ Grown(o)
        /\ Seqs(o)' = 0 .. (Cardinality(events'[o]) - 1)
        /\ wf[o].n + 1 <= Cardinality(events'[o])
    BY <1>0, <1>1, <1>8, AppendGrows DEF RunError
  <2> QED
    BY <1>1, <2>1, <2>2 DEF Telling, Quiet, Numbered
<1>9. CASE RunFinish(o)
  <2>1. events' = events /\ wf'[o].at = "done" /\ wf'[o].n \in {0, wf[o].n}
    BY <1>0, <1>9, RunEffect, RunCounter DEF RunFinish, CompleteOperation
  <2> QED
    BY <1>2, <2>1 DEF Telling, Quiet
<1>10. CASE RunFailRead(o)
  <2>1. events' = events /\ wf'[o].at \in {"fail", "done"} /\ wf'[o].n \in {0, wf[o].n}
    BY <1>0, <1>10, RunEffect, RunCounter DEF RunFailRead
  <2> QED
    BY <1>2, <2>1 DEF Telling, Quiet
<1>11. CASE RunFail(o)
  <2>1. wf'[o].at = "done" /\ wf'[o].n = 0
    BY <1>0, <1>11 DEF RunFail, CompleteOperation, AppendNext, Run, NoRun
  <2>2. CASE events' = events
    BY <1>2, <2>1, <2>2 DEF Telling, Quiet
  <2>3. CASE Active(o) /\ AppendNext(o, "error")
    <3>1. Grown(o) /\ Seqs(o)' = 0 .. (Cardinality(events'[o]) - 1)
      BY <1>0, <1>1, <2>3, AppendNextGrows
    <3>2. 0 <= Cardinality(events'[o])
      BY <1>0, <3>1 DEF Grown
    <3> QED
      BY <2>1, <2>3, <3>1, <3>2 DEF Telling, Quiet, Numbered
  <2> QED
    BY <1>11, <2>2, <2>3 DEF RunFail, CompleteOperation, AppendNext
<1>12. CASE RunRaises(o) \/ SaveFails(o)
  <2>1. events' = events /\ op' = op /\ wf'[o].n \in {0, wf[o].n}
    BY <1>0, <1>12, RunCounter DEF RunRaises, SaveFails
  <2>2. wf'[o].at \in {"error", "except"}
        /\ (wf[o].at = "finish" => wf'[o].at = "except")
        /\ wf[o].at \in {"load", "emit", "guard", "saving", "error", "finish"}
    BY <1>0, <1>12, RunEffect DEF RunRaises, SaveFails
  <2> QED
    BY <1>1, <1>2, <2>1, <2>2 DEF Telling, Quiet
<1>13. CASE WorkflowDies(o)
  <2>1. events' = events /\ op' = op /\ wf'[o].n \in {0, wf[o].n} /\ wf'[o].at = "dead"
    BY <1>0, <1>13, RunEffect, RunCounter DEF WorkflowDies
  <2> QED
    BY <1>1, <1>2, <2>1 DEF Telling, Quiet
<1> QED
  BY <1>3, <1>4, <1>5, <1>6, <1>7, <1>8, <1>9, <1>10, <1>11, <1>12, <1>13 DEF Workflow

LEMMA InitEvents == Init => EventInv
<1> SUFFICES ASSUME Init, NEW o \in Ops PROVE Numbered(o) /\ Quiet(o)
  BY InitSave DEF EventInv
<1>1. events[o] = {} /\ wf[o] = NoRun /\ op[o] = NoRow
  BY DEF Init
<1>2. Cardinality(events[o]) = 0
  BY <1>1, FS_EmptySet
<1>3. Seqs(o) = {}
  BY <1>1 DEF Seqs
<1> QED
  BY <1>1, <1>2, <1>3 DEF Numbered, Quiet, NoRun, NoRow

\* What the others do: no event, no counter, and no success or failure.
Elsewhere(o) ==
  /\ events'[o] = events[o]
  /\ wf'[o].n \in {0, wf[o].n}
  /\ wf'[o].at = wf[o].at \/ wf'[o].at = "mark"
  /\ op'[o].status = op[o].status \/ op'[o].status \in {"queued", "stale"}

LEMMA ElsewhereTells ==
  ASSUME EventInv, NEW o \in Ops, Elsewhere(o)
  PROVE  Numbered(o)' /\ Quiet(o)'
<1>1. TypeOK
  BY DEF EventInv, SaveInv, TypeInv
<1>2. Numbered(o) /\ Quiet(o) /\ Cardinality(events[o]) \in Nat
  BY <1>1, CountType DEF EventInv
<1>3. Numbered(o)'
  BY <1>2 DEF Elsewhere, Numbered, Seqs
<1>4. Quiet(o)'
  BY <1>2 DEF Elsewhere, Quiet
<1> QED
  BY <1>3, <1>4

\* Starting a workflow does not count.
LEMMA StartedElsewhere ==
  ASSUME TypeOK, NEW s \in Ops \cup {NoOp}, wf' = Started(s)
  PROVE  \A o \in Ops : wf'[o].n = wf[o].n /\ (wf'[o].at = wf[o].at \/ wf'[o].at = "mark")
<1>1. wf \in [Ops -> Runs]
  BY DEF TypeOK
<1>2. CASE wf' = wf
  BY <1>2
<1>3. CASE wf' = [wf EXCEPT ![s].at = "mark"]
  <2>1. ASSUME NEW o \in Ops, o = s PROVE wf'[o].n = wf[o].n /\ wf'[o].at = "mark"
    BY <1>1, <1>3, <2>1 DEF Runs
  <2>2. ASSUME NEW o \in Ops, o # s PROVE wf'[o] = wf[o]
    BY <1>1, <1>3, <2>2
  <2> QED
    BY <2>1, <2>2
<1> QED
  BY <1>2, <1>3 DEF Started

LEMMA OthersElsewhere ==
  ASSUME SaveInv,
         Finalization \/ Crash \/ \E c \in Clients : ReqLock(c) \/ Stream(c) \/ Disconnect(c)
  PROVE  events' = events /\ \A o \in Ops : Elsewhere(o)
<1>0. op \in [Ops -> Rows] /\ wf \in [Ops -> Runs] /\ fin \in Finalizations
      /\ req \in [Clients -> Streams] /\ TypeOK
  BY DEF SaveInv, TypeInv, TypeOK, Rows
<1>1. CASE FinCommit
  <2>1. ASSUME NEW o \in Ops
        PROVE  op'[o].status = op[o].status \/ op'[o].status \in {"queued", "stale"}
    <3>1. [op[o] EXCEPT !.status = "stale"].status = "stale"
      BY <1>0 DEF Rows
    <3> QED
      BY <1>1, <3>1 DEF FinCommit
  <2>2. UNCHANGED <<events, wf>>
    BY <1>1 DEF FinCommit
  <2> QED
    BY <2>1, <2>2 DEF Elsewhere
<1>2. CASE FinStart
  <2>1. \A o \in Ops : wf'[o].n = wf[o].n /\ (wf'[o].at = wf[o].at \/ wf'[o].at = "mark")
    BY <1>0, <1>2, StartedElsewhere DEF FinStart, Finalizations
  <2> QED
    BY <1>2, <2>1 DEF FinStart, Elsewhere
<1>3. CASE \E c \in Clients : ReqStart(c)
  <2>1. \A o \in Ops : wf'[o].n = wf[o].n /\ (wf'[o].at = wf[o].at \/ wf'[o].at = "mark")
    BY <1>0, <1>3, StartedElsewhere DEF ReqStart, Streams
  <2> QED
    BY <1>3, <2>1 DEF ReqStart, Elsewhere
<1>4. ASSUME NEW c \in Clients, NEW n \in Ops, ReqCreate(c, n)
      PROVE  events' = events /\ \A o \in Ops : Elsewhere(o)
  <2>1. \A o \in Ops : op'[o].status = op[o].status \/ op'[o].status = "queued"
    BY <1>0, <1>4 DEF ReqCreate
  <2> QED
    BY <1>4, <2>1 DEF ReqCreate, Elsewhere
<1>5. CASE Crash
  <2>1. \A o \in Ops : wf'[o] = wf[o] \/ (wf'[o].at = "mark" /\ wf'[o].n = 0)
    BY <1>0, <1>5 DEF Crash, NoRun
  <2> QED
    BY <1>5, <2>1 DEF Crash, Elsewhere
<1>6. CASE UNCHANGED <<op, wf, events>>
  BY <1>6 DEF Elsewhere
<1> QED
  BY <1>1, <1>2, <1>3, <1>4, <1>5, <1>6
  DEF Finalization, FinMark, FinRead, FinReplace, Stream, ReqLock, ReqReuse, PollRead,
      PollStatus, PollLast, Disconnect

LEMMA EventStep ==
  ASSUME EventInv, [Next]_vars
  PROVE  EventInv'
<1>1. SaveInv'
  BY SaveStep DEF EventInv
<1>2. CASE UNCHANGED vars
  BY <1>1, <1>2 DEF vars, EventInv, Numbered, Seqs, Quiet
<1>3. CASE Finalization \/ Crash \/ \E c \in Clients : ReqLock(c) \/ Stream(c) \/ Disconnect(c)
  BY <1>1, <1>3, OthersElsewhere, ElsewhereTells DEF EventInv
<1>4. ASSUME NEW o \in Ops, Workflow(o) \/ RunRaises(o) \/ SaveFails(o) \/ WorkflowDies(o)
      PROVE  EventInv'
  <2>1. Telling(o)
    BY <1>4, WorkflowTells
  <2>2. \A q \in Ops : q # o => op'[q] = op[q] /\ wf'[q] = wf[q]
    BY <1>4, WorkflowFrame DEF EventInv, SaveInv, TypeInv
  <2>3. \A q \in Ops : q # o => events'[q] = events[q]
    BY <2>1 DEF Telling, Grown
  <2>4. \A q \in Ops : q # o => Numbered(q)' /\ Quiet(q)'
    BY <2>2, <2>3 DEF EventInv, Numbered, Seqs, Quiet
  <2> QED
    BY <1>1, <2>1, <2>4 DEF EventInv, Telling
<1> QED
  BY <1>2, <1>3, <1>4 DEF Next

\* However often a run is interrupted and repeated, the events of an operation
\* are numbered from 0 without a gap.
THEOREM NumbersWithoutGap == Spec => []EventsGapFree
<1>1. EventInv => EventsGapFree
  BY DEF EventInv, Numbered, Seqs, EventsGapFree
<1> QED
  BY <1>1, InitEvents, EventStep, PTL DEF Spec

----------------------------------------------------------------------------
(* A stream that ends with the outcome has passed on all events            *)

\* What a stream has passed on is what is stored up to its counter.
Passed(c) ==
  /\ req[c].got \subseteq events[req[c].op]
  /\ req[c].after = Cardinality(req[c].got) - 1
  /\ \A e \in events[req[c].op] : e.seq <= req[c].after <=> e \in req[c].got

\* Where a stream is says what it has passed on and that its operation is
\* there or has ended.
Position(c) ==
  /\ req[c].at \in {"idle", "create", "start"} => req[c].got = {} /\ req[c].after = -1
  /\ req[c].at \in {"poll", "status", "last", "ended"} => Passed(c)
  /\ req[c].seen # "none" => op[req[c].op].status # "none"
  /\ req[c].seen = "succeeded" => op[req[c].op].status \in TerminalStatuses
  /\ req[c].at = "start" => op[req[c].op].status # "none"
  /\ req[c].at \in {"poll", "status"} => op[req[c].op].status # "none"
  /\ req[c].at \in {"last", "ended"} => op[req[c].op].status \in TerminalStatuses
  /\ req[c].at = "ended" /\ op[req[c].op].status \in {"succeeded", "failed"} =>
       req[c].got = events[req[c].op]

StreamInv == EventInv /\ \A c \in Clients : Position(c)

\* The next events of an operation come after the stored ones, and none comes
\* after a success or a failure.
Later(o) ==
  /\ events[o] \subseteq events'[o]
  /\ \A e \in events'[o] \ events[o] : e.seq = Cardinality(events[o])
  /\ op[o].status \in {"succeeded", "failed"} => events'[o] = events[o]

LEMMA AllLater ==
  ASSUME EventInv, [Next]_vars
  PROVE  \A o \in Ops : Later(o) /\ Ended(o)
<1>1. \A o \in Ops : Ended(o)
  BY SaveStep DEF EventInv
<1>2. ASSUME events' = events PROVE \A o \in Ops : Later(o)
  BY <1>2 DEF Later
<1>3. CASE UNCHANGED vars
  BY <1>1, <1>2, <1>3 DEF vars
<1>4. CASE Finalization \/ Crash \/ \E c \in Clients : ReqLock(c) \/ Stream(c) \/ Disconnect(c)
  BY <1>1, <1>2, <1>4, OthersElsewhere DEF EventInv
<1>5. ASSUME NEW o \in Ops, Workflow(o) \/ RunRaises(o) \/ SaveFails(o) \/ WorkflowDies(o)
      PROVE  \A q \in Ops : Later(q)
  <2>1. Telling(o)
    BY <1>5, WorkflowTells
  <2> QED
    BY <2>1 DEF Telling, Grown, Later
<1> QED
  BY <1>1, <1>3, <1>4, <1>5 DEF Next

\* A stream that does nothing keeps its position.
LEMMA PositionKept ==
  ASSUME StreamInv, \A o \in Ops : Later(o) /\ Ended(o),
         NEW c \in Clients, req'[c] = req[c]
  PROVE  Position(c)'
<1>0. TypeOK /\ StreamRefers /\ Position(c)
  BY DEF StreamInv, EventInv, SaveInv, TypeInv
<1>1. CASE req[c].op \in Ops
  <2> DEFINE o == req[c].op
  <2>0. IsFiniteSet(events[o]) /\ Cardinality(events[o]) \in Nat
        /\ \A e \in events[o] : e.seq \in Nat
    BY <1>0, <1>1, CountType
  <2>1. Later(o) /\ Ended(o) /\ req'[c].op = o
    BY <1>1
  <2>2. Passed(c) => Passed(c)'
    <3> SUFFICES ASSUME Passed(c) PROVE Passed(c)'
      OBVIOUS
    <3>1. Cardinality(req[c].got) \in Nat /\ Cardinality(req[c].got) <= Cardinality(events[o])
      BY <2>0, FS_Subset, FS_CardinalityType DEF Passed
    <3>2. req[c].after < Cardinality(events[o])
      BY <2>0, <3>1 DEF Passed
    <3>3. \A e \in events'[o] \ events[o] : ~(e.seq <= req[c].after) /\ e \notin req[c].got
      BY <2>0, <2>1, <3>1, <3>2 DEF Later, Passed
    <3> QED
      BY <2>1, <3>3 DEF Passed, Later
  <2>3. op[o].status # "none" => op'[o].status # "none"
    BY <2>1 DEF Ended
  <2>4. op[o].status \in TerminalStatuses => op'[o].status \in {op[o].status, "stale"}
    BY <2>1 DEF Ended
  <2>5. "stale" \in TerminalStatuses
    BY DEF TerminalStatuses
  <2>6. op[o].status \in TerminalStatuses => op'[o].status \in TerminalStatuses
    BY <2>4, <2>5
  <2>7. req[c].at = "ended" /\ op'[o].status \in {"succeeded", "failed"} =>
          req[c].got = events'[o]
    <3> SUFFICES ASSUME req[c].at = "ended", op'[o].status \in {"succeeded", "failed"}
                 PROVE  req[c].got = events'[o]
      OBVIOUS
    <3>1. op[o].status \in {"succeeded", "failed"}
      BY <1>0, <2>4 DEF Position
    <3>2. req[c].got = events[o]
      BY <1>0, <3>1 DEF Position
    <3> QED
      BY <2>1, <3>1, <3>2 DEF Later
  <2> HIDE DEF o
  <2>8. Position(c) /\ req[c].op = o
    BY <1>0 DEF o
  <2> QED
    BY <2>1, <2>2, <2>3, <2>6, <2>7, <2>8 DEF Position
<1>2. CASE req[c].op \notin Ops
  BY <1>0, <1>2 DEF Position, StreamRefers
<1> QED
  BY <1>1, <1>2

\* Reading passes on everything stored, and counts it.
LEMMA PassOnAll ==
  ASSUME TypeOK, NEW c \in Clients, req[c].op \in Ops, Numbered(req[c].op), Passed(c),
         events' = events, NEW a \in {"status", "ended"}, PassOn(c, a)
  PROVE  /\ req'[c].got = events[req[c].op] /\ req'[c].op = req[c].op
         /\ req'[c].at = a /\ req'[c].seen = req[c].seen
         /\ Passed(c)'
<1> DEFINE o == req[c].op
<1> DEFINE all == events[o]
<1> DEFINE got == req[c].got
<1>0. req[c] \in Streams /\ req \in [Clients -> Streams]
  BY DEF TypeOK
<1>1. IsFiniteSet(all) /\ Cardinality(all) \in Nat /\ \A e \in all : e.seq \in Nat
  BY CountType
<1>2. Unread(c) = all \ got
  <2>1. req[c].after \in Int
    BY <1>0 DEF Streams
  <2> QED
    BY <1>1, <2>1 DEF Unread, Passed
<1>3. IsFiniteSet(got) /\ Cardinality(got) \in Nat /\ got \subseteq all
  BY <1>1, FS_Subset, FS_CardinalityType DEF Passed
<1>4. IsFiniteSet(all \ got) /\ Cardinality(all \ got) \in Nat
  BY <1>1, FS_Subset, FS_CardinalityType
<1>5. Cardinality(all) = Cardinality(got) + Cardinality(all \ got)
  <2>1. got \cup (all \ got) = all /\ got \cap (all \ got) = {}
    BY <1>3
  <2>2. Cardinality(got \cup (all \ got)) =
          Cardinality(got) + Cardinality(all \ got) - Cardinality(got \cap (all \ got))
    BY <1>3, <1>4, FS_Union
  <2>3. Cardinality(got \cap (all \ got)) = 0
    BY <2>1, FS_EmptySet
  <2>4. Cardinality(got \cup (all \ got)) = Cardinality(all)
    BY <2>1
  <2> HIDE DEF got, all
  <2> QED
    BY <1>3, <1>4, <2>2, <2>3, <2>4
<1>6. /\ req'[c].got = got \cup Unread(c)
      /\ req'[c].after = req[c].after + Cardinality(Unread(c))
      /\ req'[c].op = o /\ req'[c].at = a /\ req'[c].seen = req[c].seen
  BY <1>0 DEF PassOn, Streams
<1>7. req'[c].got = all
  BY <1>2, <1>3, <1>6
<1>8. req'[c].after = Cardinality(all) - 1
  BY <1>2, <1>3, <1>4, <1>5, <1>6 DEF Passed
<1>9. \A e \in all : e.seq <= Cardinality(all) - 1
  <2>1. \A e \in all : e.seq \in 0 .. (Cardinality(all) - 1)
    BY DEF Numbered, Seqs
  <2> QED
    BY <1>1, <2>1
<1> QED
  BY <1>6, <1>7, <1>8, <1>9 DEF Passed

LEMMA StreamPosition ==
  ASSUME StreamInv, NEW c \in Clients, ReqLock(c) \/ Stream(c) \/ Disconnect(c)
  PROVE  Position(c)'
<1>0. /\ req \in [Clients -> Streams] /\ req[c] \in Streams /\ op \in [Ops -> Rows]
      /\ TypeOK /\ StreamRefers /\ Position(c)
      /\ \A o \in Ops : Numbered(o)
  BY DEF StreamInv, EventInv, SaveInv, TypeInv, TypeOK, Rows
<1>1. Cardinality({}) = 0
  BY FS_EmptySet
<1>2. CASE ReqLock(c)
  <2>1. CASE req' = [req EXCEPT ![c] = [NoReq EXCEPT !.at = "create"]]
    <3>1. req'[c].at = "create" /\ req'[c].seen = "none" /\ req'[c].got = {}
          /\ req'[c].after = -1
      BY <1>0, <2>1 DEF NoReq
    <3> QED
      BY <3>1 DEF Position
  <2>2. ASSUME NEW o \in Ops, IsLatest(o),
               req' = [req EXCEPT ![c] =
                         [NoReq EXCEPT !.at = "create", !.op = o, !.seen = op[o].status]]
        PROVE  Position(c)'
    <3>1. req'[c].at = "create" /\ req'[c].seen = op[o].status /\ req'[c].got = {}
          /\ req'[c].after = -1 /\ req'[c].op = o
      BY <1>0, <2>2 DEF NoReq
    <3>2. op' = op /\ op[o].status # "none"
      BY <1>2, <2>2 DEF ReqLock, IsLatest, Created
    <3> QED
      BY <3>1, <3>2 DEF Position, TerminalStatuses
  <2> QED
    BY <1>2, <2>1, <2>2 DEF ReqLock
<1>3. ASSUME NEW o \in Ops, ReqCreate(c, o) PROVE Position(c)'
  <2>1. /\ req'[c].at = "start" /\ req'[c].op = o /\ req'[c].seen = "none"
        /\ req'[c].got = req[c].got /\ req'[c].after = req[c].after
    BY <1>0, <1>3 DEF ReqCreate, Streams
  <2>2. op'[o].status = "queued"
    BY <1>0, <1>3 DEF ReqCreate
  <2>3. req[c].got = {} /\ req[c].after = -1
    BY <1>0, <1>3 DEF ReqCreate, Position
  <2> QED
    BY <2>1, <2>2, <2>3 DEF Position
<1>4. CASE ReqReuse(c)
  <2>1. /\ req'[c].seen = "none" /\ req'[c].op = req[c].op
        /\ req'[c].got = req[c].got /\ req'[c].after = req[c].after
        /\ req'[c].at \in {"start", "poll", "last"}
        /\ req'[c].at = "last" => req[c].seen = "succeeded"
    BY <1>0, <1>4 DEF ReqReuse, Streams
  <2>2. req[c].got = {} /\ req[c].after = -1 /\ req[c].op \in Ops /\ UNCHANGED <<op, events>>
    BY <1>0, <1>4 DEF ReqReuse, Position, StreamRefers
  <2>3. \A e \in events[req[c].op] : ~(e.seq <= -1)
    BY <1>0, <2>2, CountType
  <2>4. Passed(c)'
    BY <1>1, <2>1, <2>2, <2>3 DEF Passed
  <2>5. op[req[c].op].status # "none"
        /\ (req[c].seen = "succeeded" => op[req[c].op].status \in TerminalStatuses)
    BY <1>0, <1>4 DEF ReqReuse, Position
  <2> QED
    BY <2>1, <2>2, <2>4, <2>5 DEF Position
<1>5. CASE ReqStart(c)
  <2>1. /\ req'[c].seen = req[c].seen /\ req'[c].op = req[c].op /\ req'[c].at = "poll"
        /\ req'[c].got = req[c].got /\ req'[c].after = req[c].after
    BY <1>0, <1>5 DEF ReqStart, Streams
  <2>2. req[c].got = {} /\ req[c].after = -1 /\ req[c].op \in Ops /\ UNCHANGED <<op, events>>
    BY <1>0, <1>5 DEF ReqStart, Position, StreamRefers
  <2>3. \A e \in events[req[c].op] : ~(e.seq <= -1)
    BY <1>0, <2>2, CountType
  <2>4. Passed(c)'
    BY <1>1, <2>1, <2>2, <2>3 DEF Passed
  <2> QED
    BY <1>0, <1>5, <2>1, <2>2, <2>4 DEF ReqStart, Position
<1>6. CASE PollRead(c)
  <2>1. req[c].at = "poll" /\ PassOn(c, "status") /\ UNCHANGED <<op, events>>
    BY <1>6 DEF PollRead
  <2>2. req[c].op \in Ops /\ Passed(c)
    BY <1>0, <2>1 DEF StreamRefers, Position
  <2>3. /\ req'[c].op = req[c].op /\ req'[c].at = "status" /\ req'[c].seen = req[c].seen
        /\ Passed(c)'
    BY <1>0, <2>1, <2>2, PassOnAll
  <2> QED
    BY <1>0, <2>1, <2>3 DEF Position
<1>7. CASE PollLast(c)
  <2>1. req[c].at = "last" /\ PassOn(c, "ended") /\ UNCHANGED <<op, events>>
    BY <1>7 DEF PollLast
  <2>2. req[c].op \in Ops /\ Passed(c)
    BY <1>0, <2>1 DEF StreamRefers, Position
  <2>3. /\ req'[c].op = req[c].op /\ req'[c].at = "ended" /\ req'[c].seen = req[c].seen
        /\ req'[c].got = events[req[c].op] /\ Passed(c)'
    BY <1>0, <2>1, <2>2, PassOnAll
  <2> QED
    BY <1>0, <2>1, <2>3 DEF Position
<1>8. CASE PollStatus(c)
  <2>1. /\ req'[c].op = req[c].op /\ req'[c].seen = req[c].seen
        /\ req'[c].got = req[c].got /\ req'[c].after = req[c].after
        /\ req'[c].at = (IF Active(req[c].op) THEN "poll" ELSE "last")
        /\ req[c].at = "status" /\ UNCHANGED <<op, events>>
    BY <1>0, <1>8 DEF PollStatus, Streams
  <2>2. req[c].op \in Ops
    BY <1>0, <2>1 DEF StreamRefers
  <2>3. op[req[c].op].status \in Statuses /\ op[req[c].op].status # "none"
    BY <1>0, <2>1, <2>2 DEF Rows, Position
  <2>4. ~Active(req[c].op) => op[req[c].op].status \in TerminalStatuses
    BY <2>3 DEF Active, Statuses
  <2>5. Passed(c)'
    BY <1>0, <2>1 DEF Passed, Position
  <2> QED
    BY <1>0, <2>1, <2>3, <2>4, <2>5 DEF Position
<1>9. CASE Disconnect(c)
  <2>1. /\ req'[c].at = "idle" /\ req'[c].seen = "none" /\ req'[c].got = {}
        /\ req'[c].after = -1
    BY <1>0, <1>9 DEF Disconnect, NoReq
  <2> QED
    BY <2>1 DEF Position
<1> QED
  BY <1>2, <1>3, <1>4, <1>5, <1>6, <1>7, <1>8, <1>9 DEF Stream

\* Only its own steps, and a crash, move a stream.
LEMMA StreamFrame ==
  ASSUME TypeOK, [Next]_vars, ~Crash, NEW c \in Clients,
         ~(ReqLock(c) \/ Stream(c) \/ Disconnect(c))
  PROVE  req'[c] = req[c]
<1>0. req \in [Clients -> Streams]
  BY DEF TypeOK
<1>1. ASSUME NEW d \in Clients, d # c, ReqLock(d) \/ Stream(d) \/ Disconnect(d)
      PROVE  req'[c] = req[c]
  BY <1>0, <1>1 DEF ReqLock, Stream, ReqCreate, ReqReuse, ReqStart, PollRead, PollStatus,
                    PollLast, PassOn, Disconnect
<1>2. ASSUME NEW o \in Ops, Workflow(o) \/ RunRaises(o) \/ SaveFails(o) \/ WorkflowDies(o)
      PROVE  req'[c] = req[c]
  BY <1>2, WorkflowFrame
<1>3. CASE Finalization
  BY <1>3 DEF Finalization, FinMark, FinRead, FinCommit, FinReplace, FinStart
<1>4. CASE UNCHANGED vars
  BY <1>4 DEF vars
<1> QED
  BY <1>1, <1>2, <1>3, <1>4 DEF Next

LEMMA StreamStep ==
  ASSUME StreamInv, [Next]_vars
  PROVE  StreamInv'
<1>0. EventInv /\ TypeOK
  BY DEF StreamInv, EventInv, SaveInv, TypeInv
<1>1. EventInv'
  BY <1>0, EventStep
<1>2. \A o \in Ops : Later(o) /\ Ended(o)
  BY <1>0, AllLater
<1>3. ASSUME NEW c \in Clients PROVE Position(c)'
  <2>1. CASE Crash
    <3>1. /\ req'[c].at = "idle" /\ req'[c].seen = "none" /\ req'[c].got = {}
          /\ req'[c].after = -1
      BY <2>1 DEF Crash, NoReq
    <3> QED
      BY <3>1 DEF Position
  <2>2. CASE ReqLock(c) \/ Stream(c) \/ Disconnect(c)
    BY <2>2, StreamPosition
  <2>3. CASE ~Crash /\ ~(ReqLock(c) \/ Stream(c) \/ Disconnect(c))
    BY <1>0, <1>2, <2>3, StreamFrame, PositionKept
  <2> QED
    BY <2>1, <2>2, <2>3
<1> QED
  BY <1>1, <1>3 DEF StreamInv

LEMMA InitStream == Init => StreamInv
  BY InitEvents DEF Init, StreamInv, Position, NoReq

\* Whatever fails and is repeated meanwhile, a stream that ends with a success
\* or a failure has passed on every event of the operation.
THEOREM DeliversAll == Spec => []AllDelivered
<1>1. StreamInv => AllDelivered
  BY DEF StreamInv, Position, AllDelivered
<1> QED
  BY <1>1, InitStream, StreamStep, PTL DEF Spec

----------------------------------------------------------------------------
(* With one failure at most, the stream's last word is the outcome         *)

\* The operation has told an error.
Erred(o) == \E e \in events[o] : e.kind = "error"

\* With one failure at most, what an operation that can still end well has
\* told goes with where its workflow is: a run that nothing has interrupted
\* counts the stored events, so its error is stored under a new number.
Straight(o) ==
  /\ faults = 0 /\ wf[o].at \in {"none", "mark"} => events[o] = {}
  /\ faults = 0 /\ Active(o) => wf[o].at \notin {"error", "except", "fail", "finish"}
  /\ faults = 0 /\ Active(o) /\ wf[o].at \in {"load", "emit", "guard", "saving"}
       => wf[o].n = Cardinality(events[o])
  /\ Active(o) /\ wf[o].at = "error" => wf[o].n = Cardinality(events[o])
  /\ Active(o) => (Erred(o) <=> wf[o].at = "finish")
  /\ op[o].status \in {"none", "succeeded"} => ~Erred(o)
  /\ op[o].status = "failed" => Erred(o)

StraightInv == EventInv /\ \A o \in Ops : Straight(o)

LEMMA InitStraight == Init => StraightInv
<1> SUFFICES ASSUME Init, NEW o \in Ops PROVE Straight(o)
  BY InitEvents DEF StraightInv
<1>1. events[o] = {} /\ wf[o].at = "none" /\ op[o].status = "none"
  BY DEF Init, NoRun, NoRow
<1> QED
  BY <1>1 DEF Straight, Erred, Active, ActiveStatuses

\* An operation is created, started, replaced, or left alone.
LEMMA StraightKept ==
  ASSUME StraightInv, NEW o \in Ops, events'[o] = events[o],
         faults' = faults \/ faults' # 0,
         wf'[o] = wf[o] \/ (wf[o].at = "none" /\ wf'[o].at = "mark"),
         \/ op'[o].status \in {op[o].status, "stale"}
         \/ op[o].status = "none" /\ op'[o].status = "queued"
  PROVE  Straight(o)'
<1>1. Straight(o) /\ Life(o)
  BY DEF StraightInv, EventInv, SaveInv
<1>2. Erred(o)' <=> Erred(o)
  BY DEF Erred
<1>3. CASE wf'[o] = wf[o]
  BY <1>1, <1>2, <1>3 DEF Straight, Life, Active, ActiveStatuses
<1>4. CASE wf[o].at = "none" /\ wf'[o].at = "mark"
  BY <1>1, <1>2, <1>4 DEF Straight, Life, Active, ActiveStatuses
<1> QED
  BY <1>3, <1>4

\* Storing an event adds at most one, of the kind given; it does add it if the
\* run counts what is stored.
LEMMA AppendKinds ==
  ASSUME TypeOK, NEW o \in Ops, Numbered(o), NEW kind \in {"progress", "error"},
         Append(o, kind)
  PROVE  /\ kind = "progress" => (Erred(o)' <=> Erred(o))
         /\ wf[o].n = Cardinality(events[o]) =>
              /\ Cardinality(events'[o]) = Cardinality(events[o]) + 1
              /\ kind = "error" => Erred(o)'
<1>0. events \in [Ops -> SUBSET Event] /\ Cardinality(events[o]) \in Nat
  BY CountType DEF TypeOK
<1> DEFINE e == [seq |-> wf[o].n, kind |-> kind]
<1>1. events'[o] = events[o] \/ events'[o] = events[o] \cup {e}
  BY <1>0 DEF Append
<1>2. e.kind = kind
  OBVIOUS
<1>3. ASSUME wf[o].n = Cardinality(events[o])
      PROVE  /\ Cardinality(events'[o]) = Cardinality(events[o]) + 1
             /\ events'[o] = events[o] \cup {e}
  <2>1. wf[o].n \notin Seqs(o)
    BY <1>0, <1>3 DEF Numbered
  <2>2. events' = [events EXCEPT ![o] =
                     @ \cup {[seq |-> Cardinality(events[o]), kind |-> kind]}]
    BY <1>3, <2>1 DEF Append, Seqs
  <2> QED
    BY <1>0, <1>3, <2>2, NextEvent DEF Numbered
<1> HIDE DEF e
<1>4. kind = "progress" => (Erred(o)' <=> Erred(o))
  BY <1>1, <1>2 DEF Erred
<1>5. events'[o] = events[o] \cup {e} /\ kind = "error" => Erred(o)'
  BY <1>2 DEF Erred
<1> QED
  BY <1>3, <1>4, <1>5

LEMMA WorkflowStraight ==
  ASSUME StraightInv, faults = 0 \/ faults' = faults,
         NEW o \in Ops, Workflow(o) \/ RunRaises(o) \/ SaveFails(o) \/ WorkflowDies(o)
  PROVE  Straight(o)'
<1>0. op \in [Ops -> Rows] /\ wf \in [Ops -> Runs] /\ wf[o] \in Runs /\ TypeOK
      /\ op[o].status \in Statuses /\ faults \in Nat
      /\ Cardinality(events[o]) \in Nat /\ wf[o].n \in Nat
  BY CountType DEF StraightInv, EventInv, SaveInv, TypeInv, TypeOK, Rows, Runs
<1>1. Straight(o) /\ Life(o) /\ Numbered(o) /\ Quiet(o)
  BY DEF StraightInv, EventInv, SaveInv
<1>2. ASSUME events' = events PROVE Erred(o)' <=> Erred(o)
  BY <1>2 DEF Erred
<1> USE DEF Active, ActiveStatuses
<1>3. CASE RunMark(o)
  <2>1. CASE Active(o)
    <3>1. op'[o].status = "running"
      BY <1>3, <2>1, <1>0, StatusType, TheStatuses DEF RunMark
    <3>2. wf'[o].n = 0 /\ wf'[o].at = "load" /\ events' = events /\ wf[o].at = "mark"
          /\ faults' = faults
      BY <1>3, <2>1, <1>0 DEF RunMark, NoRun
    <3>3. events[o] = {} => Cardinality(events[o]) = 0
      BY FS_EmptySet
    <3> QED
      BY <1>1, <1>2, <2>1, <3>1, <3>2, <3>3 DEF Straight
  <2>2. CASE ~Active(o)
    <3>1. wf'[o].at = "done" /\ events' = events /\ op' = op
      BY <1>3, <2>2, <1>0, RunEffect DEF RunMark
    <3> QED
      BY <1>1, <1>2, <2>2, <3>1 DEF Straight
  <2> QED
    BY <2>1, <2>2
<1>4. CASE RunLoad(o)
  <2>1. wf'[o].n = wf[o].n /\ wf[o].at = "load" /\ wf'[o].at = "emit"
        /\ UNCHANGED <<op, events, faults>>
    BY <1>0, <1>4 DEF RunLoad, Runs
  <2> QED
    BY <1>1, <1>2, <2>1 DEF Straight
<1>5. CASE RunEmit(o)
  <2>1. wf'[o].n = wf[o].n + 1 /\ wf[o].at = "emit" /\ wf'[o].at = "emit" /\ op' = op
        /\ faults' = faults
    BY <1>0, <1>5 DEF RunEmit, Runs
  <2>2. /\ Erred(o)' <=> Erred(o)
        /\ wf[o].n = Cardinality(events[o]) =>
             Cardinality(events'[o]) = Cardinality(events[o]) + 1
    BY <1>0, <1>1, <1>5, AppendKinds DEF RunEmit
  <2> QED
    BY <1>1, <2>1, <2>2 DEF Straight
<1>6. CASE RunCheck(o) \/ RunGuard(o)
  <2>1. events' = events /\ op' = op /\ faults' = faults /\ wf[o].at \in {"emit", "guard"}
    BY <1>6 DEF RunCheck, RunGuard
  <2>2. /\ wf'[o].at \in {"guard", "saving", "error"}
        /\ Active(o) => wf'[o].at # "error"
        /\ wf'[o].n = wf[o].n
    BY <1>0, <1>6 DEF RunCheck, RunGuard, Run, Runs
  <2> QED
    BY <1>1, <1>2, <2>1, <2>2 DEF Straight
<1>7. CASE RunSave(o)
  <2>1. events' = events /\ op'[o].status = "succeeded" /\ wf'[o].at = "finish"
        /\ wf[o].at = "saving" /\ faults' = faults
    BY <1>0, <1>7, RunEffect, StatusType, TheStatuses DEF RunSave
  <2> QED
    BY <1>1, <1>2, <2>1 DEF Straight, Life
<1>8. CASE RunError(o)
  <2>1. wf[o].at = "error" /\ wf'[o].at = "finish" /\ op' = op /\ faults' = faults
    BY <1>0, <1>8 DEF RunError, Runs
  <2>2. wf[o].n = Cardinality(events[o]) => Erred(o)'
    BY <1>0, <1>1, <1>8, AppendKinds DEF RunError
  <2>3. op[o].status \notin {"none", "succeeded", "failed"}
    BY <1>1, <2>1 DEF Quiet, Life
  <2> QED
    BY <1>1, <2>1, <2>2, <2>3 DEF Straight
<1>9. CASE RunFinish(o)
  <2>1. events' = events /\ wf'[o].at = "done" /\ wf[o].at = "finish" /\ faults' = faults
    BY <1>0, <1>9, RunEffect DEF RunFinish, CompleteOperation
  <2>2. IF Active(o) THEN op'[o].status = "failed" ELSE op'[o] = op[o]
    BY <1>0, <1>1, <1>9, StatusType, TheStatuses DEF RunFinish, CompleteOperation, Life, Runs
  <2> QED
    BY <1>1, <1>2, <2>1, <2>2 DEF Straight
<1>10. CASE RunFailRead(o)
  <2>1. events' = events /\ op' = op /\ faults' = faults /\ wf[o].at = "except"
    BY <1>10 DEF RunFailRead
  <2>2. wf'[o].at = (IF Active(o) THEN "fail" ELSE "done")
    BY <1>0, <1>10, RunEffect DEF RunFailRead
  <2> QED
    BY <1>1, <1>2, <2>1, <2>2 DEF Straight
<1>11. CASE RunFail(o)
  <2>1. wf'[o].at = "done" /\ faults' = faults
    BY <1>0, <1>11, RunEffect DEF RunFail, CompleteOperation, AppendNext
  <2>2. CASE ~Active(o)
    <3>1. events' = events /\ op' = op
      BY <1>11, <2>2 DEF RunFail, CompleteOperation
    <3> QED
      BY <1>1, <1>2, <2>1, <2>2, <3>1 DEF Straight
  <2>3. CASE Active(o)
    <3>1. op'[o].status = "failed"
      BY <1>0, <1>11, <2>3, StatusType, TheStatuses DEF RunFail, CompleteOperation
    <3>2. Erred(o)'
      <4>1. CASE LastIsError(o)
        BY <1>11, <2>3, <4>1 DEF RunFail, LastIsError, Erred
      <4>2. CASE ~LastIsError(o)
        <5>1. PICK n \in {-1} \cup {e.seq : e \in events[o]} :
                events' = [events EXCEPT ![o] = @ \cup {[seq |-> n + 1, kind |-> "error"]}]
          BY <1>11, <2>3, <4>2 DEF RunFail, AppendNext
        <5>2. [seq |-> n + 1, kind |-> "error"] \in events'[o]
          BY <1>0, <5>1 DEF TypeOK
        <5> QED
          BY <5>2 DEF Erred
      <4> QED
        BY <4>1, <4>2
    <3> QED
      BY <2>1, <3>1, <3>2 DEF Straight
  <2> QED
    BY <2>2, <2>3
<1>12. CASE RunRaises(o) \/ SaveFails(o)
  <2>1. events' = events /\ op' = op /\ faults' = faults + 1
    BY <1>12 DEF RunRaises, SaveFails, Fault
  <2>2. faults = 0
    BY <1>0, <2>1
  <2>3. wf'[o].n = wf[o].n
    BY <1>0, <1>12 DEF RunRaises, SaveFails, Run, Runs
  <2>4. /\ wf'[o].at \in {"error", "except"}
        /\ wf'[o].at = "error" => wf[o].at \in {"emit", "saving", "load", "guard"}
        /\ wf[o].at \in {"load", "emit", "guard", "saving", "error"}
           \/ (wf[o].at = "finish" /\ ~wf[o].error)
    BY <1>0, <1>12, RunEffect DEF RunRaises, SaveFails
  <2> QED
    BY <1>1, <1>2, <2>1, <2>2, <2>3, <2>4 DEF Straight, Life
<1>13. CASE WorkflowDies(o)
  <2>1. /\ events' = events /\ op' = op /\ faults' = faults + 1 /\ wf'[o].at = "dead"
        /\ wf[o].at \in {"mark", "finish", "except", "fail"}
    BY <1>0, <1>13, RunEffect DEF WorkflowDies, Fault
  <2>2. faults = 0
    BY <1>0, <2>1
  <2> QED
    BY <1>0, <1>1, <1>2, <2>1, <2>2 DEF Straight, Life
<1> QED
  BY <1>3, <1>4, <1>5, <1>6, <1>7, <1>8, <1>9, <1>10, <1>11, <1>12, <1>13 DEF Workflow

LEMMA CrashStraight ==
  ASSUME StraightInv, faults = 0, Crash, NEW o \in Ops
  PROVE  Straight(o)'
<1>1. Straight(o)
  BY DEF StraightInv
<1>2. wf \in [Ops -> Runs]
  BY DEF StraightInv, EventInv, SaveInv, TypeInv, TypeOK
<1>3. (wf'[o] = wf[o] /\ wf[o].at \in {"none", "done", "dead"}) \/ wf'[o].at = "mark"
  BY <1>2 DEF Crash, NoRun
<1>4. events' = events /\ op' = op /\ faults' = 1
  BY DEF Crash, Fault
<1> QED
  BY <1>1, <1>3, <1>4 DEF Straight, Erred, Active

LEMMA StraightStep ==
  ASSUME MaxFaults <= 1, StraightInv, [Next]_vars
  PROVE  StraightInv'
<1>0. EventInv' /\ TypeOK /\ faults \in Nat
  BY EventStep DEF StraightInv, EventInv, SaveInv, TypeInv, TypeOK
<1>1. op \in [Ops -> Rows] /\ wf \in [Ops -> Runs] /\ fin \in Finalizations
      /\ req \in [Clients -> Streams] /\ \A o \in Ops : Life(o)
  BY DEF StraightInv, EventInv, SaveInv, TypeInv, TypeOK, Rows
<1> SUFFICES ASSUME NEW o \in Ops PROVE Straight(o)'
  BY <1>0 DEF StraightInv
<1>2. CASE UNCHANGED vars
  BY <1>2, StraightKept DEF vars
<1>3. CASE Finalization
  <2>1. events' = events /\ faults' = faults
    BY <1>3 DEF Finalization, FinMark, FinRead, FinCommit, FinReplace, FinStart
  <2>2. wf'[o] = wf[o] \/ (wf[o].at = "none" /\ wf'[o].at = "mark")
    BY <1>0, <1>1, <1>3, StartedSave
    DEF Finalization, FinMark, FinRead, FinCommit, FinReplace, FinStart, Finalizations
  <2>3. \/ op'[o].status \in {op[o].status, "stale"}
        \/ op[o].status = "none" /\ op'[o].status = "queued"
    <3>1. CASE FinCommit
      <4>1. op[fin.op].status = "none"
        BY <3>1 DEF FinCommit, StraightInv, EventInv, SaveInv, FinLocks
      <4>2. [op[o] EXCEPT !.status = "stale"].status = "stale"
        BY <1>1 DEF Rows
      <4> QED
        BY <3>1, <4>1, <4>2 DEF FinCommit
    <3>2. CASE op' = op
      BY <3>2
    <3> QED
      BY <1>3, <3>1, <3>2 DEF Finalization, FinMark, FinRead, FinReplace, FinStart
  <2> QED
    BY <2>1, <2>2, <2>3, StraightKept
<1>4. ASSUME NEW c \in Clients, ReqLock(c) \/ Stream(c) \/ Disconnect(c)
      PROVE  Straight(o)'
  <2>1. events' = events /\ faults' = faults
    BY <1>4 DEF ReqLock, Stream, ReqCreate, ReqReuse, ReqStart, PollRead, PollStatus,
                PollLast, Disconnect
  <2>2. wf'[o] = wf[o] \/ (wf[o].at = "none" /\ wf'[o].at = "mark")
    BY <1>0, <1>1, <1>4, StartedSave
    DEF ReqLock, Stream, ReqCreate, ReqReuse, ReqStart, PollRead, PollStatus,
        PollLast, Disconnect, Streams
  <2>3. op'[o].status = op[o].status \/ (op[o].status = "none" /\ op'[o].status = "queued")
    <3>1. ASSUME NEW n \in Ops, ReqCreate(c, n)
          PROVE  op'[o].status = op[o].status \/ (op[o].status = "none" /\ op'[o].status = "queued")
      <4>1. op[n].status = "none"
        BY <1>1, <3>1 DEF ReqCreate, Bear, Life
      <4> QED
        BY <1>1, <3>1, <4>1 DEF ReqCreate
    <3>2. CASE op' = op
      BY <3>2
    <3> QED
      BY <1>4, <3>1, <3>2
      DEF ReqLock, Stream, ReqReuse, ReqStart, PollRead, PollStatus, PollLast, Disconnect
  <2> QED
    BY <2>1, <2>2, <2>3, StraightKept
<1>5. CASE Crash
  <2>1. Fault("crash")
    BY <1>5 DEF Crash
  <2>2. faults = 0
    BY <1>0, <2>1, ProcessingAssumption DEF Fault
  <2> QED
    BY <1>5, <2>2, CrashStraight
<1>6. ASSUME NEW q \in Ops, Workflow(q) \/ RunRaises(q) \/ SaveFails(q) \/ WorkflowDies(q)
      PROVE  Straight(o)'
  <2>1. faults' = faults \/ (faults = 0 /\ faults' # 0)
    <3>1. CASE RunRaises(q) \/ SaveFails(q) \/ WorkflowDies(q)
      <4>1. Fault("run") \/ Fault("save") \/ Fault("workflow")
        BY <3>1 DEF RunRaises, SaveFails, WorkflowDies
      <4> QED
        BY <1>0, <4>1, ProcessingAssumption DEF Fault
    <3>2. CASE Workflow(q)
      BY <3>2 DEF Workflow, RunMark, RunLoad, RunEmit, RunCheck, RunGuard, RunSave, RunError,
                  RunFinish, CompleteOperation, RunFailRead, RunFail, AppendNext
    <3> QED
      BY <1>6, <3>1, <3>2
  <2>2. CASE o = q
    BY <1>6, <2>1, <2>2, WorkflowStraight
  <2>3. CASE o # q
    <3>1. op'[o] = op[o] /\ wf'[o] = wf[o]
      BY <1>0, <1>6, <2>3, WorkflowFrame
    <3>2. events'[o] = events[o]
      BY <1>6, <2>3, WorkflowTells DEF StraightInv, Telling, Grown
    <3> QED
      BY <2>1, <3>1, <3>2, StraightKept
  <2> QED
    BY <2>2, <2>3
<1> QED
  BY <1>2, <1>3, <1>4, <1>5, <1>6 DEF Next

\* As long as not more than one thing fails, a stream that ends has told an
\* error exactly if the operation has failed.
THEOREM TellsOutcome == MaxFaults <= 1 => (Spec => []OutcomeTold)
<1> SUFFICES ASSUME MaxFaults <= 1 PROVE Spec => []OutcomeTold
  OBVIOUS
<1>1. StreamInv /\ StraightInv => OutcomeTold
  <2> SUFFICES ASSUME StreamInv, StraightInv, NEW c \in Clients, req[c].at = "ended"
               PROVE  LET told == \E e \in req[c].got : e.kind = "error" IN
                      /\ op[req[c].op].status = "succeeded" => ~told
                      /\ op[req[c].op].status = "failed" => told
    BY DEF OutcomeTold
  <2>1. req[c].op \in Ops /\ Position(c)
    BY DEF StreamInv, EventInv, SaveInv, TypeInv, StreamRefers
  <2>2. op[req[c].op].status \in {"succeeded", "failed"} => req[c].got = events[req[c].op]
    BY <2>1 DEF Position
  <2> QED
    BY <2>1, <2>2 DEF StraightInv, Straight, Erred
<1>2. StraightInv /\ [Next]_vars => StraightInv'
  BY StraightStep
<1> QED
  BY <1>1, <1>2, InitStream, StreamStep, InitStraight, PTL DEF Spec

----------------------------------------------------------------------------
(* One operation is active                                                 *)

\* The time of creation orders the operations, and the one that is queued or
\* running is the latest, unless the latest import has missed one.
Order ==
  /\ \A o \in Ops : born[o] <= clock
  /\ \A o, q \in Ops : o # q /\ born[o] # 0 => born[o] # born[q]
  /\ missed = {} => \A o, q \in Ops : Active(o) /\ q \in Created => born[q] <= born[o]

\* The user row is held by one request, or by the finalization if it changes the
\* row: then nothing is created beside it.  It has seen every operation that is
\* queued or running, but for those that requests have created since.
UserRow ==
  /\ Marking =>
       /\ fin.profile => ~RequestHoldsUser /\ fin.missed = {}
       /\ \A o \in Ops : Active(o) => o \in fin.found \/ o \in fin.missed
  /\ fin.at = "commit" /\ fin.missed = {} => \A q \in Created : born[q] < born[fin.op]
  /\ \A c, d \in Clients : req[c].at = "create" /\ req[d].at = "create" => c = d

\* A request that decides sees the latest operation, and has seen it ended if
\* it is going to replace it.
Decides(c) ==
  req[c].at = "create" =>
    \/ req[c].seen = "none" /\ Created = {}
    \/ /\ req[c].seen # "none" /\ IsLatest(req[c].op)
       /\ req[c].seen \in TerminalStatuses => ~Active(req[c].op)

UserInv == SaveInv /\ Order /\ UserRow /\ \A c \in Clients : Decides(c)

LEMMA InitUser == Init => UserInv
<1> SUFFICES ASSUME Init PROVE UserInv
  OBVIOUS
<1>1. Order
  BY DEF Init, Order, Active, ActiveStatuses, NoRow
<1>2. UserRow /\ \A c \in Clients : Decides(c)
  BY DEF Init, UserRow, Marking, Decides, NoFin, NoReq
<1> QED
  BY <1>1, <1>2, InitSave DEF UserInv

\* An active operation is there, and was created at some time.
LEMMA ActiveIsThere ==
  ASSUME SaveInv, NEW o \in Ops, Active(o)
  PROVE  o \in Created /\ born[o] # 0
  BY DEF SaveInv, Life, Active, ActiveStatuses, Created

\* When the request that decides has seen an ended operation, or none, no
\* operation is active, unless the latest import has missed one.
LEMMA NoneActive ==
  ASSUME UserInv, missed = {}, NEW c \in Clients, req[c].at = "create",
         req[c].seen \in {"none", "failed", "stale"}, NEW o \in Ops
  PROVE  ~Active(o)
<1> SUFFICES ASSUME Active(o) PROVE FALSE
  OBVIOUS
<1>1. o \in Created /\ born[o] # 0
  BY ActiveIsThere DEF UserInv
<1>2. IsLatest(req[c].op) /\ ~Active(req[c].op)
  BY <1>1 DEF UserInv, Decides, TerminalStatuses
<1> DEFINE r == req[c].op
<1>3. r \in Created /\ r \in Ops /\ r # o
  BY <1>2 DEF IsLatest, Created
<1>4. born[o] <= born[r] /\ born[r] <= born[o]
  BY <1>1, <1>2, <1>3 DEF IsLatest, UserInv, Order
<1>5. born[o] \in Nat /\ born[r] \in Nat
  BY <1>3 DEF UserInv, SaveInv, TypeInv, TypeOK
<1>6. born[o] = born[r]
  BY <1>4, <1>5
<1> QED
  BY <1>1, <1>3, <1>6 DEF UserInv, Order

\* Steps that create no operation and let none become active again.
LEMMA UserKept ==
  ASSUME UserInv, UNCHANGED births,
         \A o \in Ops : /\ op'[o].status = "none" <=> op[o].status = "none"
                        /\ Active(o)' => Active(o),
         fin' = fin \/ ~Marking', missed' = missed,
         \A c \in Clients : req'[c] = req[c] \/ req'[c].at # "create"
  PROVE  Order' /\ UserRow' /\ \A c \in Clients : Decides(c)'
<1>1. Created' = Created
  BY DEF Created
<1>2. Order'
  BY <1>1 DEF UserInv, Order
<1>3. UserRow'
  BY <1>1 DEF UserInv, UserRow, RequestHoldsUser, Marking
<1>4. ASSUME NEW c \in Clients PROVE Decides(c)'
  <2>1. CASE req'[c] = req[c] /\ req[c].at = "create"
    <3>1. IsLatest(req[c].op) => IsLatest(req[c].op)' /\ req[c].op \in Ops
      BY <1>1, <2>1 DEF IsLatest, Created
    <3> QED
      BY <1>1, <2>1, <3>1 DEF UserInv, Decides
  <2>2. CASE req'[c].at # "create"
    BY <2>2 DEF Decides
  <2> QED
    BY <2>1, <2>2 DEF Decides
<1> QED
  BY <1>2, <1>3, <1>4

LEMMA FinUser ==
  ASSUME UserInv, Finalization
  PROVE  Order' /\ UserRow' /\ \A c \in Clients : Decides(c)'
<1>0. op \in [Ops -> Rows] /\ fin \in Finalizations /\ born \in [Ops -> Nat]
      /\ clock \in Nat
  BY DEF UserInv, SaveInv, TypeInv, TypeOK, Rows
<1>1. Order /\ UserRow /\ (\A o \in Ops : Life(o)) /\ FinLocks /\ \A c \in Clients : Decides(c)
  BY DEF UserInv, SaveInv
<1>2. ASSUME NEW profile \in BOOLEAN, FinMark(profile)
      PROVE  Order' /\ UserRow' /\ \A c \in Clients : Decides(c)'
  <2>2. /\ fin'.at = "read" /\ fin'.profile = profile /\ fin'.missed = {}
        /\ fin'.found = {o \in Created : op[o].status # "stale"}
    BY <1>2 DEF FinMark, NoFin
  <2>3. UNCHANGED <<op, births, req, missed>> /\ (profile => ~RequestHoldsUser)
    BY <1>2 DEF FinMark
  <2>4. \A o \in Ops : Active(o) => o \in fin'.found
    BY <2>2 DEF Active, ActiveStatuses, Created
  <2>5. UserRow'
    BY <1>1, <2>2, <2>3, <2>4 DEF UserRow, RequestHoldsUser, Active, Marking
  <2>6. Order' /\ \A c \in Clients : Decides(c)'
    BY <1>1, <2>3 DEF Order, Decides, IsLatest, Created, Active
  <2> QED
    BY <2>5, <2>6
<1>3. ASSUME NEW n \in Ops, FinRead(n)
      PROVE  Order' /\ UserRow' /\ \A c \in Clients : Decides(c)'
  <2>1. /\ fin.at = "read" /\ fin'.at = "commit" /\ fin'.op = n
        /\ fin'.profile = fin.profile /\ fin'.found = fin.found
        /\ fin'.missed = fin.missed
    BY <1>0, <1>3 DEF FinRead, Finalizations
  <2>2. UNCHANGED <<op, req, missed>> /\ Created' = Created
    BY <1>3 DEF FinRead, Created
  <2>3. /\ clock' = clock + 1 /\ born'[n] = clock + 1 /\ n \notin Created
        /\ \A o \in Ops : o # n => born'[o] = born[o]
    BY <1>0, <1>1, <1>3 DEF FinRead, Bear, Life, Created
  <2>4. \A o \in Ops : born[o] <= clock /\ born[o] \in Nat
    BY <1>0, <1>1 DEF Order
  <2>5. \A o \in Ops : born'[o] <= clock'
    BY <1>0, <2>3, <2>4
  <2>6. \A o, q \in Ops : o # q /\ born'[o] # 0 => born'[o] # born'[q]
    <3> SUFFICES ASSUME NEW o \in Ops, NEW q \in Ops, o # q, born'[o] # 0
                 PROVE  born'[o] # born'[q]
      OBVIOUS
    <3>1. CASE o = n
      BY <1>0, <2>3, <2>4, <3>1
    <3>2. CASE q = n
      BY <1>0, <2>3, <2>4, <3>2
    <3>3. CASE o # n /\ q # n
      BY <1>1, <2>3, <3>3 DEF Order
    <3> QED
      BY <3>1, <3>2, <3>3
  <2>7. missed = {} =>
          \A o, q \in Ops : Active(o)' /\ q \in Created' => born'[q] <= born'[o]
    <3>1. \A o \in Ops : Active(o)' => Active(o) /\ o \in Created
      BY <2>2 DEF Active, ActiveStatuses, Created
    <3> QED
      BY <1>1, <2>2, <2>3, <3>1 DEF Order
  <2>8. Order'
    BY <2>2, <2>5, <2>6, <2>7 DEF Order
  <2>10. \A q \in Created : born'[q] < born'[n]
    <3> SUFFICES ASSUME NEW q \in Created PROVE born'[q] < born'[n]
      OBVIOUS
    <3>1. q \in Ops /\ q # n
      BY <2>3 DEF Created
    <3> QED
      BY <1>0, <2>3, <2>4, <3>1
  <2>11. UserRow'
    BY <1>1, <2>1, <2>2, <2>10 DEF UserRow, RequestHoldsUser, Active, Marking
  <2>12. \A c \in Clients : Decides(c)'
    <3>1. \A o \in Ops : IsLatest(o) => IsLatest(o)'
      BY <2>2, <2>3 DEF IsLatest, Created
    <3>2. \A o \in Ops : Active(o)' <=> Active(o)
      BY <2>2 DEF Active
    <3>3. \A o : IsLatest(o) => o \in Ops
      BY DEF IsLatest, Created
    <3> QED
      BY <1>1, <2>2, <3>1, <3>2, <3>3 DEF Decides
  <2> QED
    BY <2>8, <2>11, <2>12
<1>4. CASE FinCommit
  <2>1. /\ fin.at = "commit" /\ fin'.at = "replace" /\ ~RequestHoldsUser
        /\ UNCHANGED <<births, req>> /\ missed' = fin.missed
    BY <1>0, <1>4 DEF FinCommit, Finalizations
  <2>2. fin.op \in Ops /\ op'[fin.op].status = "queued"
    BY <1>0, <1>1, <1>4 DEF FinCommit, FinLocks
  <2>3. \A o \in Ops : o # fin.op =>
          /\ Active(o)' => o \in fin.missed
          /\ op'[o].status = "none" <=> op[o].status = "none"
    <3> SUFFICES ASSUME NEW o \in Ops, o # fin.op
                 PROVE  /\ Active(o)' => o \in fin.missed
                        /\ op'[o].status = "none" <=> op[o].status = "none"
      OBVIOUS
    <3>1. CASE o \in fin.found
      <4>1. op'[o].status = "stale"
        BY <1>0, <1>4, <3>1 DEF FinCommit, Rows
      <4> QED
        BY <1>1, <3>1, <4>1 DEF Active, ActiveStatuses, FinLocks
    <3>2. CASE o \notin fin.found
      <4>1. op'[o] = op[o] /\ (Active(o) => o \in fin.missed)
        BY <1>1, <1>4, <2>1, <3>2 DEF FinCommit, UserRow, Marking
      <4> QED
        BY <4>1 DEF Active
    <3> QED
      BY <3>1, <3>2
  <2>4. Created' = Created \cup {fin.op}
    BY <2>2, <2>3 DEF Created
  <2>5. fin.missed = {} => \A q \in Created' : born[q] <= born[fin.op]
    <3>1. fin.missed = {} => \A q \in Created : born[q] < born[fin.op]
      BY <1>1, <2>1 DEF UserRow
    <3>2. \A q \in Ops : born[q] \in Nat
      BY <1>0
    <3> QED
      BY <2>2, <2>4, <3>1, <3>2 DEF Created
  <2>6. Order'
    BY <1>1, <2>1, <2>3, <2>5 DEF Order
  <2>7. UserRow' /\ \A c \in Clients : Decides(c)'
    BY <2>1 DEF UserRow, Decides, RequestHoldsUser, Marking
  <2> QED
    BY <2>6, <2>7
<1>5. CASE FinReplace \/ FinStart
  <2>1. UNCHANGED <<op, births, req, missed>> /\ ~Marking'
    BY <1>0, <1>5 DEF FinReplace, FinStart, NoFin, Finalizations, Marking
  <2> QED
    BY <2>1, UserKept DEF Active
<1> QED
  BY <1>2, <1>3, <1>4, <1>5 DEF Finalization

LEMMA StreamUser ==
  ASSUME UserInv, NEW c \in Clients, ReqLock(c) \/ Stream(c) \/ Disconnect(c)
  PROVE  Order' /\ UserRow' /\ \A d \in Clients : Decides(d)'
<1>0. op \in [Ops -> Rows] /\ req \in [Clients -> Streams] /\ req[c] \in Streams
      /\ born \in [Ops -> Nat] /\ clock \in Nat
  BY DEF UserInv, SaveInv, TypeInv, TypeOK, Rows
<1>1. Order /\ UserRow /\ (\A o \in Ops : Life(o)) /\ FinLocks /\ \A d \in Clients : Decides(d)
  BY DEF UserInv, SaveInv
<1>2. CASE ReqLock(c)
  <2>1. /\ UNCHANGED <<op, births, fin, missed>> /\ ~RequestHoldsUser /\ ~FinHoldsUser
        /\ \A d \in Clients : d # c => req'[d] = req[d]
    BY <1>0, <1>2 DEF ReqLock
  <2>2. Marking => ~fin.profile
    BY <2>1 DEF FinHoldsUser, Marking
  <2>3. Order'
    BY <1>1, <2>1 DEF Order, Created, Active
  <2>4. UserRow'
    BY <1>1, <2>1, <2>2 DEF UserRow, RequestHoldsUser, Created, Active, Marking
  <2>5. Decides(c)'
    <3>1. CASE Created = {} /\ req' = [req EXCEPT ![c] = [NoReq EXCEPT !.at = "create"]]
      <4>1. req'[c].seen = "none"
        BY <1>0, <3>1 DEF NoReq
      <4> QED
        BY <2>1, <3>1, <4>1 DEF Decides, Created
    <3>2. ASSUME NEW o \in Ops, IsLatest(o),
                 req' = [req EXCEPT ![c] =
                           [NoReq EXCEPT !.at = "create", !.op = o, !.seen = op[o].status]]
          PROVE  Decides(c)'
      <4>1. req'[c].seen = op[o].status /\ req'[c].op = o
        BY <1>0, <3>2 DEF NoReq
      <4>2. op[o].status # "none" /\ (op[o].status \in TerminalStatuses => ~Active(o))
        BY <3>2 DEF IsLatest, Created, TerminalStatuses, Active, ActiveStatuses
      <4>3. IsLatest(o)'
        BY <2>1, <3>2 DEF IsLatest, Created
      <4> QED
        BY <2>1, <4>1, <4>2, <4>3 DEF Decides, Active
    <3> QED
      BY <1>2, <3>1, <3>2 DEF ReqLock
  <2>6. \A d \in Clients : d # c => Decides(d)'
    BY <2>1 DEF Decides, RequestHoldsUser
  <2> QED
    BY <2>3, <2>4, <2>5, <2>6
<1>3. ASSUME NEW n \in Ops, ReqCreate(c, n)
      PROVE  Order' /\ UserRow' /\ \A d \in Clients : Decides(d)'
  <2>1. /\ req[c].at = "create" /\ req'[c].at = "start" /\ missed' = missed
        /\ \A d \in Clients : d # c => req'[d] = req[d]
    BY <1>0, <1>3 DEF ReqCreate, Streams
  <2>2. missed = {} => \A o \in Ops : ~Active(o)
    BY <1>3, NoneActive DEF ReqCreate
  <2>3. /\ clock' = clock + 1 /\ born'[n] = clock + 1
        /\ \A o \in Ops : o # n => born'[o] = born[o] /\ op'[o] = op[o]
    BY <1>0, <1>3 DEF ReqCreate, Bear
  <2>4. \A o \in Ops : born[o] <= clock /\ born[o] \in Nat
    BY <1>0, <1>1 DEF Order
  <2>5. \A o \in Ops : born'[o] <= clock'
    BY <1>0, <2>3, <2>4
  <2>6. \A o, q \in Ops : o # q /\ born'[o] # 0 => born'[o] # born'[q]
    <3> SUFFICES ASSUME NEW o \in Ops, NEW q \in Ops, o # q, born'[o] # 0
                 PROVE  born'[o] # born'[q]
      OBVIOUS
    <3>1. CASE o = n
      BY <1>0, <2>3, <2>4, <3>1
    <3>2. CASE q = n
      BY <1>0, <2>3, <2>4, <3>2
    <3>3. CASE o # n /\ q # n
      BY <1>1, <2>3, <3>3 DEF Order
    <3> QED
      BY <3>1, <3>2, <3>3
  <2>7. missed = {} =>
          \A o, q \in Ops : Active(o)' /\ q \in Created' => born'[q] <= born'[o]
    <3>1. missed = {} => \A o \in Ops : Active(o)' => o = n
      BY <2>2, <2>3 DEF Active
    <3> QED
      BY <2>3, <2>5, <3>1 DEF Created
  <2>8. Order'
    BY <2>1, <2>5, <2>6, <2>7 DEF Order
  <2>9. /\ fin'.at = fin.at /\ fin'.profile = fin.profile /\ fin'.found = fin.found
        /\ fin'.op = fin.op
        /\ fin'.missed = IF Marking THEN fin.missed \cup {n} ELSE fin.missed
    BY <1>3, CreateMisses DEF UserInv, SaveInv, TypeInv
  <2>10. \A d \in Clients : req'[d].at # "create"
    BY <1>1, <2>1 DEF UserRow
  <2>11. Marking => ~fin.profile
    BY <1>1, <2>1 DEF UserRow, RequestHoldsUser
  <2>12. ASSUME NEW o \in Ops, Marking, Active(o)'
         PROVE  o \in fin'.found \/ o \in fin'.missed
    <3>1. CASE o = n
      BY <2>9, <2>12, <3>1
    <3>2. CASE o # n
      BY <1>1, <2>3, <2>9, <2>12, <3>2 DEF UserRow, Active
    <3> QED
      BY <3>1, <3>2
  <2>13. fin'.at = "commit" => fin'.missed # {}
    BY <2>9 DEF Marking
  <2>14. Marking' <=> Marking
    BY <2>9 DEF Marking
  <2>15. UserRow' /\ \A d \in Clients : Decides(d)'
    BY <2>9, <2>10, <2>11, <2>12, <2>13, <2>14 DEF UserRow, Decides
  <2> QED
    BY <2>8, <2>15
<1>4. CASE ReqReuse(c) \/ ReqStart(c) \/ PollRead(c) \/ PollStatus(c) \/ PollLast(c)
           \/ Disconnect(c)
  <2>1. UNCHANGED <<op, births, fin, missed>>
    BY <1>4 DEF ReqReuse, ReqStart, PollRead, PollStatus, PollLast, Disconnect
  <2>2. \A d \in Clients : d # c => req'[d] = req[d]
    BY <1>0, <1>4
    DEF ReqReuse, ReqStart, PollRead, PollStatus, PollLast, PassOn, Disconnect
  <2>3. req'[c].at # "create"
    BY <1>0, <1>4
    DEF ReqReuse, ReqStart, PollRead, PollStatus, PollLast, PassOn, Disconnect, NoReq, Streams
  <2> QED
    BY <2>1, <2>2, <2>3, UserKept DEF Active
<1> QED
  BY <1>2, <1>3, <1>4 DEF Stream

LEMMA CrashUser ==
  ASSUME UserInv, Crash
  PROVE  Order' /\ UserRow' /\ \A c \in Clients : Decides(c)'
<1>0. born \in [Ops -> Nat] /\ clock \in Nat /\ fin \in Finalizations
  BY DEF UserInv, SaveInv, TypeInv, TypeOK
<1>1. Order
  BY DEF UserInv
<1>2. op' = op /\ clock' = clock /\ missed' = missed
  BY DEF Crash
<1>3. /\ fin'.at \notin {"read", "commit"} /\ ~Marking'
      /\ \A c \in Clients : req'[c].at = "idle"
  BY <1>0 DEF Crash, NoFin, NoReq, Finalizations, Marking
<1>4. \A o \in Ops : born'[o] = (IF op[o].status = "none" THEN 0 ELSE born[o])
  BY DEF Crash
<1>5. \A o \in Ops : born'[o] <= clock
  BY <1>0, <1>1, <1>4 DEF Order
<1>6. \A o, q \in Ops : o # q /\ born'[o] # 0 => born'[o] # born'[q]
  BY <1>0, <1>1, <1>4 DEF Order
<1>7. missed = {} =>
        \A o, q \in Ops : Active(o)' /\ q \in Created' => born'[q] <= born'[o]
  BY <1>1, <1>2, <1>4 DEF Order, Active, ActiveStatuses, Created
<1>8. Order'
  BY <1>2, <1>5, <1>6, <1>7 DEF Order
<1>9. UserRow' /\ \A c \in Clients : Decides(c)'
  BY <1>3 DEF UserRow, Decides
<1> QED
  BY <1>8, <1>9

\* A workflow makes no operation active that was not, and takes none away.
LEMMA WorkflowCalms ==
  ASSUME SaveInv, NEW o \in Ops, Workflow(o) \/ RunRaises(o) \/ SaveFails(o) \/ WorkflowDies(o)
  PROVE  \A q \in Ops : /\ op'[q].status = "none" <=> op[q].status = "none"
                        /\ Active(q)' => Active(q)
<1>0. TypeOK /\ op \in [Ops -> Rows]
  BY DEF SaveInv, TypeInv, TypeOK, Rows
<1>1. \A q \in Ops : q # o => op'[q] = op[q]
  BY <1>0, WorkflowFrame
<1>2. Outcome(o)
  BY WorkflowOutcome
<1>3. op[o].status \in Statuses
  BY <1>0 DEF Rows
<1>4. /\ op'[o].status = "none" <=> op[o].status = "none"
      /\ Active(o)' => Active(o)
  BY <1>2, <1>3 DEF Outcome, Statuses, Active, ActiveStatuses, TerminalStatuses
<1> QED
  BY <1>1, <1>4 DEF Active

LEMMA UserStep ==
  ASSUME UserInv, [Next]_vars
  PROVE  UserInv'
<1>1. SaveInv'
  BY SaveStep DEF UserInv
<1>2. CASE UNCHANGED vars
  BY <1>1, <1>2, UserKept DEF vars, UserInv, Active
<1>3. CASE Finalization
  BY <1>1, <1>3, FinUser DEF UserInv
<1>4. ASSUME NEW c \in Clients, ReqLock(c) \/ Stream(c) \/ Disconnect(c)
      PROVE  UserInv'
  BY <1>1, <1>4, StreamUser DEF UserInv
<1>5. CASE Crash
  BY <1>1, <1>5, CrashUser DEF UserInv
<1>6. ASSUME NEW o \in Ops, Workflow(o) \/ RunRaises(o) \/ SaveFails(o) \/ WorkflowDies(o)
      PROVE  UserInv'
  <2>1. UNCHANGED <<births, missed>>
    BY <1>6 DEF Workflow, RunMark, RunLoad, RunEmit, RunCheck, RunGuard, RunSave, RunError,
      RunFinish, CompleteOperation, RunFailRead, RunFail, AppendNext, RunRaises, SaveFails, WorkflowDies
  <2>2. fin' = fin /\ req' = req
    BY <1>6, WorkflowFrame DEF UserInv, SaveInv, TypeInv
  <2> QED
    BY <1>1, <1>6, <2>1, <2>2, WorkflowCalms, UserKept DEF UserInv
<1> QED
  BY <1>2, <1>3, <1>4, <1>5, <1>6 DEF Next

\* Imports and requests wait for each other at the user row when the import
\* changes it, and then a user has one active operation at most; also after any
\* other import beside which no request has created one.
THEOREM OneIsActive == Spec => []OneActive
<1>1. UserInv => OneActive
  <2>0. UserInv /\ Marking /\ fin.profile => fin.missed = {}
    BY DEF UserInv, UserRow
  <2> SUFFICES ASSUME UserInv, missed = {}, NEW o \in Ops, NEW q \in Ops,
                      Active(o), Active(q)
               PROVE  o = q
    BY <2>0 DEF OneActive
  <2>1. o \in Created /\ q \in Created /\ born[o] # 0
    BY ActiveIsThere DEF UserInv
  <2>2. born[o] <= born[q] /\ born[q] <= born[o]
    BY <2>1 DEF UserInv, Order
  <2>3. born[o] \in Nat /\ born[q] \in Nat
    BY DEF UserInv, SaveInv, TypeInv, TypeOK
  <2>4. born[o] = born[q]
    BY <2>2, <2>3
  <2> QED
    BY <2>1, <2>4 DEF UserInv, Order
<1>2. UserInv /\ [Next]_vars => UserInv'
  BY UserStep
<1> QED
  BY <1>1, <1>2, InitUser, PTL DEF Spec

----------------------------------------------------------------------------
(* What is saved was read after the latest import                          *)

\* A stream that is to start its operation refers to one that is there.
Starts(c) == req[c].at = "start" => req[c].op \in Created

\* The operations a save of which may be old.
Late == missed \cup early

\* While an import has committed and not yet moved its folder, nothing active
\* has been started, but for an operation the import has missed or a stream has
\* started early; what the others have read of the folder, and may still save,
\* comes from the latest import.
Read ==
  /\ fin.at # "replace" => folder = imports
  /\ \A o \in Ops : Active(o) /\ o \notin Late /\ wf[o].at # "none" => folder = imports
  /\ \A o \in Ops : Active(o) /\ o \notin Late /\ wf[o].at \in {"emit", "guard", "saving"}
       => wf[o].base = imports
  /\ fin.at \in {"replace", "start"} => fin.op \in Created
  /\ \A o \in Ops : op[o].status = "none" => wf[o].at = "none"

ReadInv == UserInv /\ Read /\ \A c \in Clients : Starts(c)

LEMMA InitRead == Init => ReadInv
<1> SUFFICES ASSUME Init PROVE ReadInv
  OBVIOUS
<1>1. Read /\ \A c \in Clients : Starts(c)
  BY DEF Init, Read, Starts, NoFin, NoReq, NoRun, NoRow, Active, ActiveStatuses
<1> QED
  BY <1>1, InitUser DEF ReadInv

\* After the commit of an import, no operation is active but its own and those
\* that it has missed.
LEMMA CommitReplaces ==
  ASSUME UserInv, FinCommit, NEW o \in Ops
  PROVE  /\ Active(o)' => o = fin.op \/ o \in missed'
         /\ o # fin.op => (op'[o].status = "none" <=> op[o].status = "none")
         /\ op[fin.op].status = "none" /\ op'[fin.op].status # "none" /\ fin.op \in Ops
<1>0. op \in [Ops -> Rows] /\ fin.at = "commit"
  BY DEF UserInv, SaveInv, TypeInv, TypeOK, Rows, FinCommit
<1>1. op[fin.op].status = "none" /\ fin.op \in Ops
  BY <1>0 DEF UserInv, SaveInv, FinLocks
<1>2. op'[fin.op].status = "queued"
  BY <1>1 DEF FinCommit
<1>3. CASE o # fin.op /\ o \in fin.found
  <2>1. op'[o].status = "stale"
    BY <1>0, <1>3 DEF FinCommit, Rows
  <2>2. op[o].status # "none"
    BY <1>3 DEF UserInv, SaveInv, FinLocks
  <2> QED
    BY <1>1, <1>2, <2>1, <2>2 DEF Active, ActiveStatuses
<1>4. CASE o # fin.op /\ o \notin fin.found
  <2>1. op'[o] = op[o] /\ (Active(o) => o \in missed')
    BY <1>0, <1>4 DEF FinCommit, UserInv, UserRow, Marking
  <2> QED
    BY <1>1, <1>2, <2>1 DEF Active
<1> QED
  BY <1>1, <1>2, <1>3, <1>4

LEMMA FinReads ==
  ASSUME ReadInv, Finalization
  PROVE  Read' /\ \A c \in Clients : Starts(c)'
<1>0. fin \in Finalizations /\ wf \in [Ops -> Runs] /\ op \in [Ops -> Rows] /\ TypeOK
  BY DEF ReadInv, UserInv, SaveInv, TypeInv, TypeOK, Rows
<1>1. Read /\ \A c \in Clients : Starts(c)
  BY DEF ReadInv
<1>2. CASE (\E profile \in BOOLEAN : FinMark(profile)) \/ \E n \in Ops : FinRead(n)
  <2>1. /\ UNCHANGED <<op, wf, req, folder, imports, missed, early>>
        /\ fin.at \in {"idle", "read"} /\ fin'.at \in {"read", "commit"}
    BY <1>0, <1>2 DEF FinMark, FinRead, NoFin, Finalizations
  <2> QED
    BY <1>1, <2>1 DEF Read, Late, Starts, Active, Created
<1>3. CASE FinCommit
  <2>1. /\ UNCHANGED <<wf, req>> /\ fin'.at = "replace" /\ fin'.op = fin.op
    BY <1>0, <1>3 DEF FinCommit, Finalizations
  <2>2. \A o \in Ops :
          /\ Active(o)' => o = fin.op \/ o \in missed'
          /\ o # fin.op => (op'[o].status = "none" <=> op[o].status = "none")
    BY <1>3, CommitReplaces DEF ReadInv
  <2>3. fin.op \in Ops /\ op[fin.op].status = "none" /\ op'[fin.op].status # "none"
    BY <1>0, <1>3, CommitReplaces DEF FinCommit, ReadInv, UserInv, SaveInv, FinLocks
  <2>4. wf[fin.op].at = "none"
    BY <1>1, <2>3 DEF Read
  <2>5. \A o \in Ops : Active(o)' /\ o \notin Late' => wf'[o].at = "none"
    BY <2>1, <2>2, <2>4 DEF Late
  <2>6. fin'.op \in Created'
    BY <2>1, <2>3 DEF Created
  <2>7. \A o \in Ops : op'[o].status = "none" => wf'[o].at = "none"
    BY <1>1, <2>1, <2>2, <2>3 DEF Read
  <2>8. Read'
    BY <2>1, <2>5, <2>6, <2>7 DEF Read
  <2>9. \A o \in Created : o \in Created'
    BY <2>2, <2>3 DEF Created
  <2> QED
    BY <1>1, <2>1, <2>8, <2>9 DEF Starts
<1>4. CASE FinReplace
  <2>1. /\ UNCHANGED <<op, wf, req, imports, missed, early>>
        /\ fin'.at = "start" /\ fin'.op = fin.op
        /\ fin.at = "replace" /\ folder' = imports
    BY <1>0, <1>4 DEF FinReplace, Finalizations
  <2> QED
    BY <1>1, <2>1 DEF Read, Late, Starts, Active, Created
<1>5. CASE FinStart
  <2>1. /\ UNCHANGED <<op, req, imports, folder, missed, early>> /\ fin'.at = "idle"
        /\ fin.at = "start" /\ wf' = Started(fin.op)
    BY <1>0, <1>5 DEF FinStart, NoFin
  <2>2. fin.op \in Ops /\ op[fin.op].status # "none" /\ folder = imports
    BY <1>1, <2>1 DEF Read, Created
  <2>3. \A o \in Ops : wf'[o] = wf[o] \/ (wf[o].at = "none" /\ wf'[o].at = "mark")
    BY <1>0, <2>1, <2>2, StartedSave
  <2>4. \A o \in Ops : o # fin.op => wf'[o] = wf[o]
    BY <1>0, <2>1, <2>2 DEF Started
  <2>5. Read'
    BY <1>1, <2>1, <2>2, <2>3, <2>4 DEF Read, Late, Active
  <2> QED
    BY <1>1, <2>1, <2>5 DEF Starts, Created
<1> QED
  BY <1>2, <1>3, <1>4, <1>5 DEF Finalization

LEMMA StreamReads ==
  ASSUME ReadInv, NEW c \in Clients, ReqLock(c) \/ Stream(c) \/ Disconnect(c)
  PROVE  Read' /\ \A d \in Clients : Starts(d)'
<1>0. op \in [Ops -> Rows] /\ req \in [Clients -> Streams] /\ req[c] \in Streams
      /\ wf \in [Ops -> Runs] /\ TypeOK
  BY DEF ReadInv, UserInv, SaveInv, TypeInv, TypeOK, Rows
<1>1. Read /\ (\A d \in Clients : Starts(d)) /\ \A o \in Ops : Life(o)
  BY DEF ReadInv, UserInv, SaveInv
<1>2. \A d \in Clients : d # c => req'[d] = req[d]
  BY <1>0 DEF ReqLock, Stream, ReqCreate, ReqReuse, ReqStart, PollRead, PollStatus, PollLast,
              PassOn, Disconnect
<1>3. UNCHANGED <<folder, imports, missed>>
  BY DEF ReqLock, Stream, ReqCreate, ReqReuse, ReqStart, PollRead, PollStatus, PollLast,
         Disconnect
<1>4. ASSUME NEW n \in Ops, ReqCreate(c, n)
      PROVE  Read' /\ \A d \in Clients : Starts(d)'
  <2>1. wf' = wf /\ early' = early
    BY <1>4 DEF ReqCreate
  <2>2. fin'.at = fin.at /\ fin'.op = fin.op
    BY <1>0, <1>4, CreateMisses
  <2>3. req'[c].op = n /\ op'[n].status = "queued"
    BY <1>0, <1>4 DEF ReqCreate, Streams
  <2>4. op[n].status = "none" /\ \A o \in Ops : o # n => op'[o] = op[o]
    BY <1>0, <1>1, <1>4 DEF ReqCreate, Bear, Life
  <2>5. \A o \in Created : o \in Created'
    BY <2>3, <2>4 DEF Created
  <2>6. wf[n].at = "none"
    BY <1>1, <2>4 DEF Read
  <2>7. Read'
    BY <1>1, <1>3, <2>1, <2>2, <2>4, <2>5, <2>6 DEF Read, Late, Active
  <2>8. n \in Created'
    BY <2>3 DEF Created
  <2> QED
    BY <1>1, <1>2, <2>3, <2>5, <2>7, <2>8 DEF Starts
<1>5. CASE ReqReuse(c)
  <2>1. req[c].at = "create" /\ UNCHANGED <<op, wf, fin, early>> /\ req[c].seen # "none"
    BY <1>5 DEF ReqReuse
  <2>2. req'[c].op = req[c].op
    BY <1>0, <1>5 DEF ReqReuse, Streams
  <2>3. req[c].op \in Created
    BY <2>1 DEF ReadInv, UserInv, Decides, IsLatest
  <2>4. Read'
    BY <1>1, <1>3, <2>1 DEF Read, Late, Active, Created
  <2> QED
    BY <1>1, <1>2, <2>1, <2>2, <2>3, <2>4 DEF Starts, Created
<1>6. CASE ReqStart(c)
  <2>1. /\ UNCHANGED <<op, fin>> /\ wf' = Started(req[c].op) /\ req[c].at = "start"
        /\ req'[c].at = "poll"
        /\ early' = IF folder = imports \/ wf' = wf THEN early ELSE early \cup {req[c].op}
    BY <1>0, <1>6 DEF ReqStart, Streams
  <2>2. req[c].op \in Ops /\ op[req[c].op].status # "none"
    BY <1>1, <2>1 DEF Starts, Created
  <2>3. \A o \in Ops : wf'[o] = wf[o] \/ (wf[o].at = "none" /\ wf'[o].at = "mark")
    BY <1>0, <2>1, <2>2, StartedSave
  <2>4. \A o \in Ops : o # req[c].op => wf'[o] = wf[o]
    BY <1>0, <2>1, <2>2 DEF Started
  <2>5. \A o \in Ops : wf'[o] = wf[o] \/ folder = imports \/ o \in early'
    BY <2>1, <2>4
  <2>6. early \subseteq early'
    BY <2>1
  <2>7. \A o \in Ops : Active(o)' <=> Active(o)
    BY <2>1 DEF Active
  <2>8. Late \subseteq Late' /\ (\A o \in early' : o \in Late')
    BY <1>3, <2>6 DEF Late
  <2>9. \A o \in Ops : Active(o)' /\ o \notin Late' /\ wf'[o].at # "none" => folder = imports
    BY <1>1, <2>5, <2>7, <2>8 DEF Read
  <2>10. \A o \in Ops : Active(o)' /\ o \notin Late' /\ wf'[o].at \in {"emit", "guard", "saving"}
           => wf'[o].base = imports
    BY <1>1, <2>3, <2>7, <2>8 DEF Read
  <2>11. \A o \in Ops : op'[o].status = "none" => wf'[o].at = "none"
    BY <1>1, <2>1, <2>2, <2>4 DEF Read
  <2>12. Read'
    BY <1>1, <1>3, <2>1, <2>9, <2>10, <2>11 DEF Read, Created
  <2> QED
    BY <1>1, <1>2, <2>1, <2>12 DEF Starts, Created
<1>7. CASE ReqLock(c) \/ PollRead(c) \/ PollStatus(c) \/ PollLast(c) \/ Disconnect(c)
  <2>1. UNCHANGED <<op, wf, fin, early>>
    <3>1. CASE ReqLock(c)
      BY <3>1 DEF ReqLock
    <3>2. CASE ~ReqLock(c)
      BY <1>7, <3>2 DEF PollRead, PollStatus, PollLast, Disconnect
    <3> QED
      BY <3>1, <3>2
  <2>2. req'[c].at # "start"
    <3>1. CASE ReqLock(c)
      <4>1. \A o : [NoReq EXCEPT !.at = "create", !.op = o, !.seen = op[o].status].at = "create"
        BY DEF NoReq
      <4>2. [NoReq EXCEPT !.at = "create"].at = "create"
        BY DEF NoReq
      <4> QED
        BY <1>0, <3>1, <4>1, <4>2 DEF ReqLock
    <3>2. CASE PollRead(c) \/ PollStatus(c) \/ PollLast(c) \/ Disconnect(c)
      BY <1>0, <3>2 DEF PollRead, PollStatus, PollLast, PassOn, Disconnect, NoReq, Streams
    <3> QED
      BY <1>7, <3>1, <3>2
  <2>3. Read'
    BY <1>1, <1>3, <2>1 DEF Read, Late, Active, Created
  <2> QED
    BY <1>1, <1>2, <2>1, <2>2, <2>3 DEF Starts, Created
<1> QED
  BY <1>4, <1>5, <1>6, <1>7 DEF Stream

LEMMA WorkflowReads ==
  ASSUME ReadInv, NEW o \in Ops, Workflow(o) \/ RunRaises(o) \/ SaveFails(o) \/ WorkflowDies(o)
  PROVE  /\ Read' /\ \A c \in Clients : Starts(c)'
         /\ album' # album => album'.files = imports \/ album'.by \in Late
<1>0. wf \in [Ops -> Runs] /\ wf[o] \in Runs /\ TypeOK /\ SaveInv /\ Life(o)
  BY DEF ReadInv, UserInv, SaveInv, TypeInv, TypeOK
<1>1. Read /\ \A c \in Clients : Starts(c)
  BY DEF ReadInv
<1>2. /\ fin' = fin /\ req' = req
      /\ \A q \in Ops : q # o => op'[q] = op[q] /\ wf'[q] = wf[q]
  BY <1>0, WorkflowFrame
<1>3. UNCHANGED <<folder, imports, missed, early>>
  BY DEF Workflow, RunMark, RunLoad, RunEmit, RunCheck, RunGuard, RunSave, RunError,
         RunFinish, CompleteOperation, RunFailRead, RunFail, AppendNext, RunRaises, SaveFails, WorkflowDies
<1>4. \A q \in Ops : /\ op'[q].status = "none" <=> op[q].status = "none"
                     /\ Active(q)' => Active(q)
  BY <1>0, WorkflowCalms
<1>5. Created' = Created
  BY <1>4 DEF Created
<1>6. wf[o].at # "none"
  BY DEF Workflow, RunMark, RunLoad, RunEmit, RunCheck, RunGuard, RunSave, RunError,
         RunFinish, RunFailRead, RunFail, RunRaises, SaveFails, WorkflowDies
<1>7. op[o].status # "none"
  BY <1>1, <1>6 DEF Read
<1>8. Active(o) /\ o \notin Late => folder = imports
  BY <1>1, <1>6 DEF Read
<1>9. Active(o) /\ o \notin Late /\ wf'[o].at \in {"emit", "guard", "saving"} => wf'[o].base = imports
  <2>1. CASE RunLoad(o)
    <3>1. wf'[o].base = folder
      BY <1>0, <2>1 DEF RunLoad, Runs
    <3> QED
      BY <1>8, <3>1
  <2>2. CASE RunEmit(o) \/ RunCheck(o) \/ RunGuard(o)
    <3>1. wf[o].at \in {"emit", "guard", "saving"} /\ wf'[o].base = wf[o].base
      BY <1>0, <2>2 DEF RunEmit, RunCheck, RunGuard, Run, Runs
    <3> QED
      BY <1>1, <3>1 DEF Read
  <2>3. CASE RunMark(o)
    <3>1. wf'[o].at \in {"load", "done"}
      BY <1>0, <2>3, RunEffect DEF RunMark, NoRun
    <3> QED
      BY <3>1
  <2>4. CASE \/ RunSave(o) \/ RunError(o) \/ RunFinish(o) \/ RunFailRead(o) \/ RunFail(o)
             \/ RunRaises(o) \/ SaveFails(o) \/ WorkflowDies(o)
    <3>1. wf'[o].at \in {"finish", "done", "dead", "fail", "error", "except"}
      <4>1. CASE RunError(o)
        BY <1>0, <4>1 DEF RunError, Runs
      <4>2. CASE ~RunError(o)
        BY <1>0, <2>4, <4>2, RunEffect
        DEF RunSave, RunFinish, CompleteOperation, RunFailRead, RunFail, AppendNext,
            RunRaises, SaveFails, WorkflowDies
      <4> QED
        BY <4>1, <4>2
    <3> QED
      BY <3>1
  <2> QED
    BY <2>1, <2>2, <2>3, <2>4 DEF Workflow
<1>10. Read'
  <2>1. \A q \in Ops : op'[q].status = "none" => wf'[q].at = "none"
    BY <1>1, <1>2, <1>4, <1>7 DEF Read
  <2>2. \A q \in Ops : Active(q)' /\ q \notin Late /\ wf'[q].at \in {"emit", "guard", "saving"}
          => wf'[q].base = imports
    BY <1>1, <1>2, <1>4, <1>9 DEF Read
  <2>3. \A q \in Ops : Active(q)' /\ q \notin Late /\ wf'[q].at # "none" => folder = imports
    BY <1>1, <1>2, <1>4, <1>8 DEF Read
  <2> QED
    BY <1>1, <1>2, <1>3, <1>5, <2>1, <2>2, <2>3 DEF Read, Late
<1>11. album' # album => album'.files = imports \/ album'.by \in Late
  <2>1. CASE RunSave(o)
    <3>1. wf[o].base = imports \/ o \in Late
      BY <1>0, <1>1, <2>1 DEF RunSave, Life, Read
    <3> QED
      BY <2>1, <3>1 DEF RunSave
  <2>2. CASE ~RunSave(o)
    BY <2>2 DEF Workflow, RunMark, RunLoad, RunEmit, RunCheck, RunGuard, RunError,
      RunFinish, CompleteOperation, RunFailRead, RunFail, AppendNext, RunRaises, SaveFails, WorkflowDies
  <2> QED
    BY <2>1, <2>2
<1> QED
  BY <1>1, <1>2, <1>5, <1>10, <1>11 DEF Starts

LEMMA ReadStep ==
  ASSUME ReadInv, [Next]_vars
  PROVE  /\ ReadInv'
         /\ album' # album => album'.files = imports \/ album'.by \in Late
<1>0. UserInv' /\ fin \in Finalizations /\ wf \in [Ops -> Runs]
  BY UserStep DEF ReadInv, UserInv, SaveInv, TypeInv, TypeOK
<1>1. CASE UNCHANGED vars
  BY <1>0, <1>1 DEF vars, ReadInv, Read, Late, Starts, Active, Created
<1>2. CASE Finalization
  <2>1. album' = album
    BY <1>2 DEF Finalization, FinMark, FinRead, FinCommit, FinReplace, FinStart
  <2> QED
    BY <1>0, <1>2, <2>1, FinReads DEF ReadInv
<1>3. ASSUME NEW c \in Clients, ReqLock(c) \/ Stream(c) \/ Disconnect(c)
      PROVE  /\ ReadInv'
             /\ album' # album => album'.files = imports \/ album'.by \in Late
  <2>1. album' = album
    BY <1>3 DEF ReqLock, Stream, ReqCreate, ReqReuse, ReqStart, PollRead, PollStatus,
                PollLast, Disconnect
  <2> QED
    BY <1>0, <1>3, <2>1, StreamReads DEF ReadInv
<1>4. CASE Crash
  <2>1. UNCHANGED <<op, folder, imports, missed, early, album>>
    BY <1>4 DEF Crash
  <2>2. \A c \in Clients : req'[c].at = "idle"
    BY <1>4 DEF Crash, NoReq
  <2>3. fin' = fin \/ (fin.at \in {"read", "commit"} /\ fin'.at = "idle")
    BY <1>4 DEF Crash, NoFin
  <2>4. \A o \in Ops : wf'[o] = wf[o] \/ (wf[o].at # "none" /\ wf'[o].at = "mark")
    BY <1>0, <1>4 DEF Crash, NoRun
  <2>5. Read' /\ \A c \in Clients : Starts(c)'
    BY <2>1, <2>2, <2>3, <2>4 DEF ReadInv, Read, Late, Starts, Active, Created
  <2> QED
    BY <1>0, <2>1, <2>5 DEF ReadInv
<1>5. ASSUME NEW o \in Ops, Workflow(o) \/ RunRaises(o) \/ SaveFails(o) \/ WorkflowDies(o)
      PROVE  /\ ReadInv'
             /\ album' # album => album'.files = imports \/ album'.by \in Late
  BY <1>0, <1>5, WorkflowReads DEF ReadInv
<1> QED
  BY <1>1, <1>2, <1>3, <1>4, <1>5 DEF Next

\* A run that an import has overtaken never saves over it, and no run saves
\* anything else than the files of the latest import, but for those of operations
\* that the import has missed or a stream has started before its folder was there.
THEOREM SavesLatest == Spec => SavesLatestImport
<1>1. ReadInv /\ [Next]_vars => ReadInv' /\ [album' # album => album'.files = imports \/ album'.by \in Late]_vars
  BY ReadStep
<1> QED
  BY <1>1, InitRead, PTL DEF Spec, SavesLatestImport, Late
=============================================================================
