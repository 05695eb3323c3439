----------------------------- MODULE Processing -----------------------------
(***************************************************************************)
(* Processing operations of one user.  Finalizing an upload marks all the  *)
(* user's operations stale and creates the next one; a client that opens   *)
(* the progress stream reuses the latest operation or, after a failure,    *)
(* creates another; the durable workflow processing.upload runs an         *)
(* operation, stores its events and saves the album.  Finalizations,       *)
(* clients and workflows are separate transactions of a READ COMMITTED     *)
(* database: what one has read can be old when it writes, and a row it has *)
(* updated is locked until it commits.                                     *)
(***************************************************************************)
EXTENDS Integers, FiniteSets

CONSTANTS
  Ops,            \* identifiers of operations; bounds how many are created
  Clients,        \* progress streams open at the same time
  Progress,       \* progress events a run yields
  MaxImports,     \* bound: finalizations in a behaviour
  Failures,       \* the kinds of failures: "crash", "run", "save", "workflow"
  MaxFaults,      \* bound: failures in a behaviour
  NoOp            \* no operation

ASSUME ProcessingAssumption ==
  /\ IsFiniteSet(Ops) /\ NoOp \notin Ops
  /\ Progress \in Nat
  /\ MaxImports \in Nat /\ MaxFaults \in Nat
  /\ Failures \subseteq {"crash", "run", "save", "workflow"}

VARIABLES
  op,       \* op[o]: the processing_operation row
  clock,    \* the time the last operation was created
  born,     \* born[o]: created_at of o, 0 if there is no such object
  events,   \* events[o]: the processing_event rows of o
  wf,       \* wf[o]: the workflow processing:<o> and its local variables
  fin,      \* the finalization of an upload
  req,      \* req[c]: a client's progress stream
  imports,  \* finalizations committed
  folder,   \* the import whose trips are in the user's folder
  missed,   \* history: operations that a request created between the marking
            \* and the commit of the latest import
  early,    \* history: operations that a stream started while an import was
            \* committed and its trips were not yet in the folder
  album,    \* the saved albums: by which operation, from which folder
  saves,    \* saves[o]: how often o has saved
  faults

vars == <<op, clock, born, events, wf, fin, req, imports, folder, missed, early,
          album, saves, faults>>
births == <<clock, born>>
files == <<imports, folder, missed, early>>
saved == <<album, saves>>

\* The code knows "cancelled" too and never writes it.
ActiveStatuses   == {"queued", "running"}
TerminalStatuses == {"succeeded", "failed", "stale"}

NoRow == [status |-> "none", gen |-> 0]
NoRun == [at |-> "none", n |-> 0, error |-> FALSE, base |-> 0]
NoFin == [at |-> "idle", profile |-> FALSE, found |-> {}, missed |-> {},
          op |-> NoOp, gen |-> 0]
NoReq == [at |-> "idle", op |-> NoOp, seen |-> "none", after |-> -1, got |-> {}]

Init ==
  /\ op = [o \in Ops |-> NoRow]
  /\ clock = 0 /\ born = [o \in Ops |-> 0]
  /\ events = [o \in Ops |-> {}]
  /\ wf = [o \in Ops |-> NoRun]
  /\ fin = NoFin
  /\ req = [c \in Clients |-> NoReq]
  /\ imports = 0 /\ folder = 0 /\ missed = {} /\ early = {}
  /\ album = [by |-> NoOp, files |-> 0]
  /\ saves = [o \in Ops |-> 0]
  /\ faults = 0

----------------------------------------------------------------------------
(* Rows and locks                                                          *)

Created   == {o \in Ops : op[o].status # "none"}
Active(o) == op[o].status \in ActiveStatuses

\* latest_processing_operation orders by created_at.
IsLatest(o) == o \in Created /\ \A q \in Created : born[q] <= born[o]

\* The greatest generation there is, or 0.
GenerationsAnd0 == {0} \cup {op[o].gen : o \in Created}
IsLatestGeneration(g) == \A o \in Created : op[o].gen <= g

\* A new row takes the time as its created_at.  Which of the unused identifiers it
\* gets makes no difference, so it is always the same one.
Bear(o) ==
  /\ born[o] = 0 /\ o = CHOOSE q \in Ops : born[q] = 0
  /\ clock' = clock + 1
  /\ born' = [born EXCEPT ![o] = clock + 1]

\* Rows updated by an open transaction: a second UPDATE waits for its end.
Unlocked(o) == o \notin fin.found /\ wf[o].at # "saving"

\* SELECT ... FOR UPDATE of the user row, and the finalization's own UPDATE of
\* it if the archive changes the profile.
RequestHoldsUser == \E c \in Clients : req[c].at = "create"
FinHoldsUser == fin.at \in {"read", "commit"} /\ fin.profile

----------------------------------------------------------------------------
(* The finalization: one transaction, then the folders, then the start     *)

\* mark_user_processing_operations_stale.  An archive that changes the profile
\* or brings a new album changes the user row, which is flushed before it; the
\* same archive once more changes nothing.
FinMark(profile) ==
  /\ fin.at = "idle" /\ imports < MaxImports
  /\ profile => ~RequestHoldsUser
  /\ \A o \in Created : Unlocked(o)
  /\ fin' = [NoFin EXCEPT !.at = "read", !.profile = profile,
               !.found = {o \in Created : op[o].status # "stale"}]
  /\ UNCHANGED <<op, births, events, wf, req, files, saved, faults>>

\* The latest generation is read and the next operation made.
FinRead(o) ==
  /\ fin.at = "read"
  /\ Bear(o)
  /\ \E g \in GenerationsAnd0 :
       /\ IsLatestGeneration(g)
       /\ fin' = [fin EXCEPT !.at = "commit", !.op = o, !.gen = g + 1]
  /\ UNCHANGED <<op, events, wf, req, files, saved, faults>>

\* The INSERT refers to the user row, so it waits for a request holding it.
FinCommit ==
  /\ fin.at = "commit" /\ ~RequestHoldsUser
  /\ op' = [o \in Ops |->
              IF o = fin.op THEN [status |-> "queued", gen |-> fin.gen]
              ELSE IF o \in fin.found THEN [op[o] EXCEPT !.status = "stale"]
              ELSE op[o]]
  /\ imports' = imports + 1
  /\ missed' = fin.missed
  /\ fin' = [fin EXCEPT !.at = "replace", !.found = {}, !.missed = {}]
  /\ UNCHANGED <<births, events, wf, req, folder, early, saved, faults>>

FinReplace ==
  /\ fin.at = "replace"
  /\ folder' = imports
  /\ fin' = [fin EXCEPT !.at = "start"]
  /\ UNCHANGED <<op, births, events, wf, req, imports, missed, early, saved, faults>>

\* A workflow id that was started before is not started again.
Started(o) == IF wf[o].at = "none" THEN [wf EXCEPT ![o].at = "mark"] ELSE wf

FinStart ==
  /\ fin.at = "start"
  /\ wf' = Started(fin.op)
  /\ fin' = NoFin
  /\ UNCHANGED <<op, births, events, req, files, saved, faults>>

Finalization ==
  \/ \E profile \in BOOLEAN : FinMark(profile)
  \/ \E o \in Ops : FinRead(o)
  \/ FinCommit \/ FinReplace \/ FinStart

----------------------------------------------------------------------------
(* A client: process_stream over the persisted operations                  *)

\* lock_user_for_processing_request, then the latest operation.  The upload page
\* opens the stream after the import, but when it is loaded anew at any time.
ReqLock(c) ==
  /\ req[c].at \in {"idle", "ended"}
  /\ ~RequestHoldsUser /\ ~FinHoldsUser
  /\ \/ Created = {} /\ req' = [req EXCEPT ![c] = [NoReq EXCEPT !.at = "create"]]
     \/ \E o \in Ops :
          /\ IsLatest(o)
          /\ req' = [req EXCEPT ![c] =
                       [NoReq EXCEPT !.at = "create", !.op = o, !.seen = op[o].status]]
  /\ UNCHANGED <<op, births, events, wf, fin, files, saved, faults>>

\* Mutant: a running operation is replaced like a failed one.
ReqCreate_Always(c, o) ==
  /\ req[c].at = "create"
  /\ Bear(o)
  /\ op' = [op EXCEPT ![o] = [status |-> "queued",
       gen |-> IF req[c].op = NoOp THEN 1 ELSE op[req[c].op].gen + 1]]
  /\ req' = [req EXCEPT ![c].at = "start", ![c].op = o, ![c].seen = "none"]
  /\ UNCHANGED <<events, wf, fin, files, saved, faults>>

\* Whether the finalization has marked what it found and not committed.
Marking == fin.at \in {"read", "commit"}

\* _operation_for_process_request: no operation to reuse, the next generation.
ReqCreate(c, o) ==
  /\ req[c].at = "create" /\ req[c].seen \in {"none", "failed", "stale"}
  /\ Bear(o)
  /\ op' = [op EXCEPT ![o] = [status |-> "queued",
       gen |-> IF req[c].op = NoOp THEN 1 ELSE op[req[c].op].gen + 1]]
  /\ fin' = IF Marking THEN [fin EXCEPT !.missed = @ \cup {o}] ELSE fin
  /\ req' = [req EXCEPT ![c].at = "start", ![c].op = o, ![c].seen = "none"]
  /\ UNCHANGED <<events, wf, files, saved, faults>>

ReqReuse(c) ==
  /\ req[c].at = "create" /\ req[c].seen \in {"queued", "running", "succeeded"}
  /\ req' = [req EXCEPT ![c].seen = "none",
                        ![c].at = CASE req[c].seen = "queued" -> "start"
                                    [] req[c].seen = "running" -> "poll"
                                    [] req[c].seen = "succeeded" -> "last"]
  /\ UNCHANGED <<op, births, events, wf, fin, files, saved, faults>>

ReqStart(c) ==
  /\ req[c].at = "start"
  /\ wf' = Started(req[c].op)
  /\ early' = IF folder = imports \/ wf' = wf THEN early ELSE early \cup {req[c].op}
  /\ req' = [req EXCEPT ![c].at = "poll"]
  /\ UNCHANGED <<op, births, events, fin, imports, folder, missed, saved, faults>>

\* read_processing_events; the stream counts what it has passed on.
Unread(c) == {e \in events[req[c].op] : e.seq > req[c].after}
PassOn(c, at) ==
  req' = [req EXCEPT ![c].at = at, ![c].got = @ \cup Unread(c),
                     ![c].after = @ + Cardinality(Unread(c))]

PollRead(c) ==
  /\ req[c].at = "poll"
  /\ PassOn(c, "status")
  /\ UNCHANGED <<op, births, events, wf, fin, files, saved, faults>>

\* Mutant: the stream ends as soon as the operation has.
PollStatus_Ends(c) ==
  /\ req[c].at = "status"
  /\ req' = [req EXCEPT ![c].at = IF Active(req[c].op) THEN "poll" ELSE "ended"]
  /\ UNCHANGED <<op, births, events, wf, fin, files, saved, faults>>

PollStatus(c) ==
  /\ req[c].at = "status"
  /\ req' = [req EXCEPT ![c].at = IF Active(req[c].op) THEN "poll" ELSE "last"]
  /\ UNCHANGED <<op, births, events, wf, fin, files, saved, faults>>

\* What was stored between the read and the status; the replay of a success.
PollLast(c) ==
  /\ req[c].at = "last"
  /\ PassOn(c, "ended")
  /\ UNCHANGED <<op, births, events, wf, fin, files, saved, faults>>

\* The client goes away; an open transaction is rolled back.
Disconnect(c) ==
  /\ req[c].at \notin {"idle", "ended"}
  /\ req' = [req EXCEPT ![c] = NoReq]
  /\ UNCHANGED <<op, births, events, wf, fin, files, saved, faults>>

Stream(c) ==
  \/ \E o \in Ops : ReqCreate(c, o)
  \/ ReqReuse(c) \/ ReqStart(c)
  \/ PollRead(c) \/ PollStatus(c) \/ PollLast(c)

----------------------------------------------------------------------------
(* The workflow: run_processing_workflow_payload                           *)

Run(o, at) ==
  wf' = [wf EXCEPT ![o] = IF at \in {"done", "dead"} THEN [NoRun EXCEPT !.at = at]
                          ELSE [@ EXCEPT !.at = at]]

\* mark_processing_operation_running: only an active operation runs.
RunMark(o) ==
  /\ wf[o].at = "mark" /\ Unlocked(o)
  /\ IF Active(o)
       THEN /\ op' = [op EXCEPT ![o].status = "running"]
            /\ wf' = [wf EXCEPT ![o] = [NoRun EXCEPT !.at = "load"]]
       ELSE UNCHANGED op /\ Run(o, "done")
  /\ UNCHANGED <<births, events, fin, req, files, saved, faults>>

\* The existing albums and the trips in the folder are read.
RunLoad(o) ==
  /\ wf[o].at = "load"
  /\ wf' = [wf EXCEPT ![o].at = "emit", ![o].base = folder]
  /\ UNCHANGED <<op, births, events, fin, req, files, saved, faults>>

\* Mutant: a repeated run does not begin at the first sequence number.
Append_Continues(o, kind) ==
  LET n == Cardinality(events[o]) + wf[o].n IN
  events' = [events EXCEPT ![o] = @ \cup {[seq |-> n, kind |-> kind]}]

\* append_processing_event_once: a stored event is not stored again.
Append(o, kind) ==
  events' = IF \E e \in events[o] : e.seq = wf[o].n THEN events
            ELSE [events EXCEPT ![o] = @ \cup {[seq |-> wf[o].n, kind |-> kind]}]

RunEmit(o) ==
  /\ wf[o].at = "emit" /\ wf[o].n < Progress /\ Unlocked(o)
  /\ Append(o, "progress")
  /\ wf' = [wf EXCEPT ![o].n = @ + 1]
  /\ UNCHANGED <<op, births, fin, req, files, saved, faults>>

\* should_continue, before anything is saved.
RunCheck(o) ==
  /\ wf[o].at = "emit" /\ wf[o].n = Progress
  /\ Run(o, IF Active(o) THEN "guard" ELSE "error")
  /\ UNCHANGED <<op, births, events, fin, req, files, saved, faults>>

\* Mutant: nothing is asked of the operation inside the save's transaction.
RunGuard_Skipped(o) ==
  /\ wf[o].at = "guard" /\ Unlocked(o)
  /\ Run(o, "saving")
  /\ UNCHANGED <<op, births, events, fin, req, files, saved, faults>>

\* save_guard: the first statement of the save's transaction sets the status.
RunGuard(o) ==
  /\ wf[o].at = "guard" /\ Unlocked(o)
  /\ Run(o, IF Active(o) THEN "saving" ELSE "error")
  /\ UNCHANGED <<op, births, events, fin, req, files, saved, faults>>

\* Mutant: the album is committed without the status.
RunSave_Alone(o) ==
  /\ wf[o].at = "saving"
  /\ album' = [by |-> o, files |-> wf[o].base]
  /\ saves' = [saves EXCEPT ![o] = @ + 1]
  /\ Run(o, "finish")
  /\ UNCHANGED <<op, births, events, fin, req, files, faults>>

\* The album rows and the status are committed together.
RunSave(o) ==
  /\ wf[o].at = "saving"
  /\ op' = [op EXCEPT ![o].status = "succeeded"]
  /\ album' = [by |-> o, files |-> wf[o].base]
  /\ saves' = [saves EXCEPT ![o] = @ + 1]
  /\ Run(o, "finish")
  /\ UNCHANGED <<births, events, fin, req, files, faults>>

\* run_processing yields its ErrorData and returns.
RunError(o) ==
  /\ wf[o].at = "error" /\ Unlocked(o)
  /\ Append(o, "error")
  /\ wf' = [wf EXCEPT ![o].at = "finish", ![o].error = TRUE, ![o].n = @ + 1]
  /\ UNCHANGED <<op, births, fin, req, files, saved, faults>>

\* complete_processing_operation: an operation that has ended, or that an
\* import has made stale, keeps its status.
CompleteOperation(o, status) ==
  op' = IF Active(o) THEN [op EXCEPT ![o].status = status] ELSE op

\* Mutant: an error that was told is not remembered.
RunFinish_Forgets(o) ==
  /\ wf[o].at = "finish" /\ Unlocked(o)
  /\ CompleteOperation(o, "succeeded")
  /\ Run(o, "done")
  /\ UNCHANGED <<births, events, fin, req, files, saved, faults>>

\* The outcome, unless the operation has one.  The background workflows of a
\* success are modules of their own.
RunFinish(o) ==
  /\ wf[o].at = "finish" /\ Unlocked(o)
  /\ CompleteOperation(o, IF wf[o].error THEN "failed" ELSE "succeeded")
  /\ Run(o, "done")
  /\ UNCHANGED <<births, events, fin, req, files, saved, faults>>

\* Mutant: an exception leaves the operation as it is.
RunFailRead_GivesUp(o) ==
  /\ wf[o].at = "except"
  /\ Run(o, "done")
  /\ UNCHANGED <<op, births, events, fin, req, files, saved, faults>>

\* fail_active_processing_operation: the question first, ...
RunFailRead(o) ==
  /\ wf[o].at = "except"
  /\ Run(o, IF Active(o) THEN "fail" ELSE "done")
  /\ UNCHANGED <<op, births, events, fin, req, files, saved, faults>>

\* ... then the error event, unless it is the last one, and the status.
LastIsError(o) == \E e \in events[o] : e.kind = "error" /\ \A x \in events[o] : x.seq <= e.seq
IsLastSeq(o, n) == \A e \in events[o] : e.seq <= n

\* append_processing_event: under the next sequence number.
AppendNext(o, kind) ==
  \E n \in {-1} \cup {e.seq : e \in events[o]} :
    /\ IsLastSeq(o, n)
    /\ events' = [events EXCEPT ![o] = @ \cup {[seq |-> n + 1, kind |-> kind]}]

\* Mutant: a failure gets the status that nothing else in the code writes.
RunFail_Cancelled(o) ==
  /\ wf[o].at = "fail" /\ Unlocked(o)
  /\ op' = IF Active(o) THEN [op EXCEPT ![o].status = "cancelled"] ELSE op
  /\ Run(o, "done")
  /\ UNCHANGED <<births, events, fin, req, files, saved, faults>>

\* Mutant: the failure is not told.
RunFail_Silent(o) ==
  /\ wf[o].at = "fail" /\ Unlocked(o)
  /\ op' = IF Active(o) THEN [op EXCEPT ![o].status = "failed"] ELSE op
  /\ Run(o, "done")
  /\ UNCHANGED <<births, events, fin, req, files, saved, faults>>

RunFail(o) ==
  /\ wf[o].at = "fail" /\ Unlocked(o)
  /\ CompleteOperation(o, "failed")
  /\ IF Active(o) /\ ~LastIsError(o) THEN AppendNext(o, "error") ELSE UNCHANGED events
  /\ Run(o, "done")
  /\ UNCHANGED <<births, fin, req, files, saved, faults>>

Workflow(o) ==
  \/ RunMark(o) \/ RunLoad(o) \/ RunEmit(o) \/ RunCheck(o) \/ RunGuard(o) \/ RunSave(o)
  \/ RunError(o) \/ RunFinish(o) \/ RunFailRead(o) \/ RunFail(o)

----------------------------------------------------------------------------
(* Failures                                                                *)

Fault(kind) == kind \in Failures /\ faults < MaxFaults /\ faults' = faults + 1

\* A trip cannot be processed: ErrorData.  Or a call outside of the trips
\* raises, before the save (loading, storing an event) or after it (cleaning
\* up the metadata): the exception reaches the workflow.
RunRaises(o) ==
  /\ Fault("run")
  /\ \/ wf[o].at = "emit" /\ Run(o, "error")
     \/ wf[o].at \in {"load", "emit", "guard", "error"} /\ Run(o, "except")
     \/ wf[o].at = "finish" /\ ~wf[o].error /\ Run(o, "except")
  /\ UNCHANGED <<op, births, events, fin, req, files, saved>>

\* SQLAlchemyError: the save is rolled back.
SaveFails(o) ==
  /\ Fault("save")
  /\ wf[o].at = "saving" /\ Run(o, "error")
  /\ UNCHANGED <<op, births, events, fin, req, files, saved>>

\* The transactions around the run, before it and after it, and those of the
\* failure handler: an error there ends the workflow, and DBOS executes one that
\* has ended with an error never again.  The operation stays as it is.
WorkflowDies(o) ==
  /\ Fault("workflow")
  /\ wf[o].at \in {"mark", "finish", "except", "fail"} /\ Run(o, "dead")
  /\ UNCHANGED <<op, births, events, fin, req, files, saved>>

\* Open transactions are rolled back and streams cut; started workflows are
\* executed from the start, the finalization from its commit or anew.
Crash ==
  /\ Fault("crash")
  /\ wf' = [o \in Ops |-> IF wf[o].at \in {"none", "done", "dead"} THEN wf[o]
                          ELSE [NoRun EXCEPT !.at = "mark"]]
  /\ req' = [c \in Clients |-> NoReq]
  /\ fin' = IF fin.at \in {"read", "commit"} THEN NoFin ELSE fin
  /\ born' = [o \in Ops |-> IF op[o].status = "none" THEN 0 ELSE born[o]]
  /\ UNCHANGED <<op, clock, events, files, saved>>

Next ==
  \/ Finalization \/ Crash
  \/ \E c \in Clients : ReqLock(c) \/ Stream(c) \/ Disconnect(c)
  \/ \E o \in Ops : Workflow(o) \/ RunRaises(o) \/ SaveFails(o) \/ WorkflowDies(o)

Spec == Init /\ [][Next]_vars

\* Requests, workflows and the import's workflow run on; nobody has to open a
\* stream or upload again.
Fairness ==
  /\ \A o \in Ops : WF_vars(Workflow(o))
  /\ \A c \in Clients : WF_vars(Stream(c))
  /\ WF_vars(FinCommit \/ FinReplace \/ FinStart)
  /\ WF_vars(\E o \in Ops : FinRead(o))

FairSpec == Spec /\ Fairness

----------------------------------------------------------------------------
(* Properties                                                              *)

Event == [seq : Nat, kind : {"progress", "error"}]
Statuses == {"none"} \cup ActiveStatuses \cup TerminalStatuses
Runs == [at : {"none", "mark", "load", "emit", "guard", "saving", "error", "finish",
               "except", "fail", "done", "dead"},
         n : Nat, error : BOOLEAN, base : Nat]
Finalizations == [at : {"idle", "read", "commit", "replace", "start"}, profile : BOOLEAN,
                  found : SUBSET Ops, missed : SUBSET Ops, op : Ops \cup {NoOp}, gen : Nat]
Streams == [at : {"idle", "create", "start", "poll", "status", "last", "ended"},
            op : Ops \cup {NoOp}, seen : Statuses, after : Int, got : SUBSET Event]

TypeOK ==
  /\ op \in [Ops -> [status : Statuses, gen : Nat]]
  /\ clock \in Nat /\ born \in [Ops -> Nat]
  /\ events \in [Ops -> SUBSET Event] /\ \A o \in Ops : IsFiniteSet(events[o])
  /\ wf \in [Ops -> Runs]
  /\ fin \in Finalizations
  /\ req \in [Clients -> Streams]
  /\ imports \in Nat /\ folder \in Nat /\ missed \subseteq Ops /\ early \subseteq Ops
  /\ album \in [by : Ops \cup {NoOp}, files : Nat]
  /\ saves \in [Ops -> Nat]
  /\ faults \in Nat

\* A user has at most one operation that is queued or running, whatever
\* requests, imports and recovered workflows do at the same time; except after
\* an import that a request has overtaken between its marking and its commit.
\* One that changes the user row is not overtaken.
OneActive ==
  /\ Marking /\ fin.profile => fin.missed = {}
  /\ missed = {} => \A o, q \in Ops : Active(o) /\ Active(q) => o = q

\* An operation saves once, also when its workflow is executed again: the
\* status it sets is committed with what it saves.
SavedOnce == \A o \in Ops : saves[o] <= 1

\* "succeeded" is the outcome of operations that have saved, and of no other.
SucceededIsSaved == \A o \in Ops : op[o].status = "succeeded" => saves[o] = 1

\* What is saved was read after the latest import: a run that an import has
\* overtaken never writes over it, however late it reaches its save.  Only an
\* operation that the latest import has missed, or that a stream started before
\* the import's trips were in place, saves other files.
SavesLatestImport ==
  [][album' # album => album'.files = imports \/ album'.by \in missed \cup early]_vars

\* An operation that has ended does not run again; it only becomes stale.
EndedStays ==
  [][\A o \in Ops : op[o].status \in TerminalStatuses =>
       op'[o].status \in {op[o].status, "stale"}]_vars

\* The stored events are numbered from 0 without a gap, which is what the
\* stream relies on when it counts what it has passed on instead of reading
\* the sequence numbers.
EventsGapFree ==
  \A o \in Ops : {e.seq : e \in events[o]} = 0 .. (Cardinality(events[o]) - 1)

\* A stream that ends with the operation's outcome has passed on all events.
AllDelivered ==
  \A c \in Clients :
    req[c].at = "ended" /\ op[req[c].op].status \in {"succeeded", "failed"}
      => req[c].got = events[req[c].op]

\* The stream has no field for the outcome: a client takes an error event for a
\* failure and the end of the stream without one for a success.  That is right
\* as long as not more than one thing fails.
OutcomeTold ==
  \A c \in Clients : req[c].at = "ended" =>
    LET told == \E e \in req[c].got : e.kind = "error" IN
    /\ op[req[c].op].status = "succeeded" => ~told
    /\ op[req[c].op].status = "failed" => told

\* A stream does not hang: the operation it follows is run to an end, by this
\* workflow, by its recovery, or because another import has replaced it; also
\* when the run raises.  Only if the workflow itself has died on an error around
\* the run and left the operation active, the stream polls until another import.
StreamEnds ==
  \A c \in Clients :
    req[c].at \in {"start", "poll", "status", "last"} ~>
      \/ req[c].at \in {"idle", "ended"}
      \/ \E o \in Ops : req[c].op = o /\ wf[o].at = "dead" /\ Active(o)
=============================================================================
