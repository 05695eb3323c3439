-------------------------- MODULE ArtifactsProofs --------------------------
(***************************************************************************)
(* Proofs about Artifacts: its types, that a token which has been told and *)
(* has not expired has its file, that a download before the expiry serves  *)
(* it, and that a stream which has ended has left nothing behind, however  *)
(* many streams there are and whatever fails.                              *)
(***************************************************************************)
EXTENDS Artifacts, TLAPS

\* A stream that has not stored its token.
Early == {"idle", "queued", "load", "print", "zip", "store", "fail"}

\* Where a render holds its slot.
Busy == {"load", "print", "store", "stored", "told", "close"}

\* Nobody writes the file any more.
Written(s) == thread[s] \notin {"submitted", "writing"}

\* The token and its download, by where the stream is.
TokenOK(s) ==
  /\ pc[s] \in Early => ~row[s] /\ ~told[s] /\ ~owned[s] /\ ~expired[s]
  /\ pc[s] = "stored" => ~told[s] /\ ~owned[s]
  /\ get[s] # "none" => told[s]
  /\ get[s] = "deleting" => row[s]
  /\ get[s] = "serving" => ~row[s] /\ ~expired[s]
  /\ s \in swept => expired[s] /\ file[s] = "none"
  /\ row[s] \/ told[s] \/ expired[s] => Written(s)
  /\ s \in lost => pc[s] = "over"

\* What a client may be given: the file, unless it was a ZIP of chapters and
\* the client has left right after the event.
HasFile(s) == file[s] = "whole" \/ (kind[s] = "chapters" /\ left[s])

FileOK(s) ==
  /\ pc[s] = "store" => file[s] = "whole"
  /\ (told[s] \/ pc[s] = "stored") /\ ~expired[s] /\ (row[s] \/ get[s] = "serving") =>
        HasFile(s)
  /\ get[s] = "missing" => expired[s] \/ (kind[s] = "chapters" /\ left[s])
  /\ told[s] /\ pc[s] = "close" => owned[s]
  /\ told[s] /\ pc[s] = "told" /\ kind[s] = "pdf" => owned[s]

\* An export whose stream has ended by itself, after the event.
EndedWell(s) ==
  kind[s] = "export" /\ pc[s] \in {"end", "over"} /\ ~stop[s] /\ ~left[s]

\* Who takes care of a file that is still there.
CareOK(s) ==
  /\ owned[s] \/ pc[s] \in {"stored", "told"} \/ EndedWell(s) =>
        file[s] = "none" \/ row[s] \/ get[s] = "serving" \/ s \in lost

RenderOK(s) ==
  kind[s] # "export" =>
    /\ pc[s] \notin {"zip", "fail", "end"} /\ thread[s] = "none"
    /\ s \in slot => pc[s] \in Busy
    /\ lease[s] # "none" => pc[s] \notin {"idle", "over"}
    /\ pc[s] \in {"idle", "queued", "closed", "over"} =>
          s \in lost \/ (parts[s] = 0 /\ (owned[s] \/ file[s] = "none"))
    /\ pc[s] = "load" /\ kind[s] = "chapters" => parts[s] < Parts
    /\ kind[s] = "pdf" => parts[s] = 0

ExportOK(s) ==
  kind[s] = "export" =>
    /\ pc[s] \in {"idle", "zip", "store", "stored", "told", "fail", "end", "over"}
    /\ ~owned[s] /\ lease[s] = "none" /\ s \notin slot /\ parts[s] = 0
    /\ pc[s] = "idle" => thread[s] = "none" /\ ~stop[s] /\ file[s] = "none"
    /\ pc[s] = "zip" => /\ ~stop[s]
                        /\ thread[s] = "writing" => file[s] = "partial"
                        /\ thread[s] = "ended" => file[s] = "whole"
    /\ pc[s] \in {"store", "stored", "told"} => thread[s] = "ended"
    /\ EndedWell(s) => Written(s)

BrowserOK ==
  /\ browser # "none" => Leased # {}
  /\ \A s \in Streams : lease[s] = "held" => browser = "up"

StreamOK(s) == TokenOK(s) /\ FileOK(s) /\ CareOK(s) /\ RenderOK(s) /\ ExportOK(s)

IInv == TypeOK /\ BrowserOK /\ \A s \in Streams : StreamOK(s)

\* Nothing of stream v changes.
Same(v) ==
  /\ kind'[v] = kind[v] /\ pc'[v] = pc[v] /\ left'[v] = left[v] /\ lease'[v] = lease[v]
  /\ file'[v] = file[v] /\ parts'[v] = parts[v] /\ thread'[v] = thread[v]
  /\ stop'[v] = stop[v] /\ row'[v] = row[v] /\ expired'[v] = expired[v]
  /\ told'[v] = told[v] /\ owned'[v] = owned[v] /\ get'[v] = get[v]
  /\ (v \in slot' <=> v \in slot) /\ (v \in swept' <=> v \in swept)
  /\ (v \in lost' <=> v \in lost)

LEMMA SameKeeps ==
    ASSUME NEW v \in Streams, StreamOK(v), Same(v) PROVE StreamOK(v)'
<1>1. TokenOK(v)'
  BY DEF Same, StreamOK, TokenOK, Early, Written
<1>2. FileOK(v)'
  BY DEF Same, StreamOK, FileOK, HasFile
<1>3. CareOK(v)'
  BY DEF Same, StreamOK, CareOK, EndedWell
<1>4. RenderOK(v)'
  BY DEF Same, StreamOK, RenderOK, Busy
<1>5. ExportOK(v)'
  BY DEF Same, StreamOK, ExportOK, EndedWell, Written
<1> QED BY <1>1, <1>2, <1>3, <1>4, <1>5 DEF StreamOK

LEMMA InitHolds == Init => IInv
<1> SUFFICES ASSUME Init PROVE IInv
  OBVIOUS
<1> USE ArtifactsAssumption
<1>1. TypeOK
  BY DEF Init, TypeOK
<1>2. BrowserOK
  BY DEF Init, BrowserOK
<1>3. ASSUME NEW s \in Streams PROVE StreamOK(s)
  <2>1. TokenOK(s) /\ FileOK(s) /\ CareOK(s)
    BY DEF Init, TokenOK, FileOK, HasFile, CareOK, EndedWell, Written, Early
  <2>2. RenderOK(s) /\ ExportOK(s)
    BY DEF Init, RenderOK, ExportOK, EndedWell, Written, Busy, Kinds
  <2> QED BY <2>1, <2>2 DEF StreamOK
<1> QED BY <1>1, <1>2, <1>3 DEF IInv

LEMMA StepType ==
    ASSUME NEW s \in Streams, Step(s), TypeOK, \A v \in Streams : StreamOK(v)
    PROVE  TypeOK'
<1>1. CASE Acquire(s)
  BY <1>1 DEF Acquire, Goto, request, client, output, worker, tokens, TypeOK
<1>2. CASE LaunchFails(s)
  BY <1>2, ArtifactsAssumption DEF LaunchFails, Fault, Goto, request, client, output, worker,
         tokens, TypeOK
<1>3. CASE Release(s)
  BY <1>3 DEF Release, Goto, request, client, output, worker, tokens, TypeOK
<1>4. CASE TakeSlot(s)
  BY <1>4 DEF TakeSlot, Goto, At, request, client, worker, tokens, TypeOK
<1>5. CASE QueueTimeout(s)
  BY <1>5 DEF QueueTimeout, Goto, At, request, client, output, worker, tokens, render, TypeOK
<1>6. CASE PrintOpen(s)
  BY <1>6, ArtifactsAssumption DEF PrintOpen, Goto, At, request, client, worker, tokens, render,
         StreamOK, RenderOK, ExportOK, Kinds, TypeOK
<1>7. CASE PrintEnd(s)
  BY <1>7 DEF PrintEnd, Goto, At, request, client, worker, tokens, render, TypeOK
<1>8. CASE RenderFails(s)
  BY <1>8 DEF RenderFails, Goto, request, client, output, worker, tokens, render, TypeOK
<1>9. CASE Store(s)
  BY <1>9 DEF Store, Goto, At, NewToken, request, client, output, worker, render, TypeOK
<1>10. CASE StoreFails(s)
  BY <1>10, ArtifactsAssumption DEF StoreFails, Fault, Goto, At, request, client, output,
         worker, tokens, render, TypeOK
<1>11. CASE Tell(s)
  BY <1>11 DEF Tell, Goto, At, request, worker, tokens, render, TypeOK
<1>12. CASE Finish(s)
  BY <1>12 DEF Finish, Goto, At, request, client, worker, tokens, render, TypeOK
<1>13. CASE Close(s)
  BY <1>13, ArtifactsAssumption DEF Close, Goto, Unlink, request, client, worker, tokens, TypeOK
<1>14. CASE Leave(s)
  BY <1>14 DEF Leave, client, output, worker, tokens, render, TypeOK
<1>15. CASE StartZip(s)
  BY <1>15 DEF StartZip, Goto, request, client, output, tokens, render, TypeOK
<1>16. CASE ThreadOpens(s)
  BY <1>16 DEF ThreadOpens, request, client, tokens, render, TypeOK
<1>17. CASE ThreadEnds(s)
  BY <1>17 DEF ThreadEnds, request, client, tokens, render, TypeOK
<1>18. CASE ThreadFails(s)
  BY <1>18 DEF ThreadFails, request, client, output, tokens, render, TypeOK
<1>19. CASE Drained(s)
  BY <1>19 DEF Drained, Goto, At, request, client, output, worker, tokens, render, TypeOK
<1>20. CASE ZipFails(s)
  BY <1>20 DEF ZipFails, Goto, At, request, client, output, worker, tokens, render, TypeOK
<1>21. CASE ExportFails(s)
  BY <1>21 DEF ExportFails, Goto, Unlink, request, client, tokens, render, TypeOK
<1>22. CASE ExportEnds(s)
  BY <1>22 DEF ExportEnds, Goto, request, client, output, tokens, render, TypeOK
<1>23. CASE Expire(s)
  BY <1>23 DEF Expire, request, client, output, worker, render, TypeOK
<1>24. CASE Pop(s)
  BY <1>24 DEF Pop, request, output, worker, tokens, render, TypeOK
<1>25. CASE PopExpired(s)
  BY <1>25 DEF PopExpired, Unlink, request, worker, render, TypeOK
<1>26. CASE PopCommit(s)
  BY <1>26 DEF PopCommit, request, output, worker, render, TypeOK
<1>27. CASE Serve(s)
  BY <1>27 DEF Serve, Unlink, request, worker, tokens, render, TypeOK
<1> QED
  BY <1>1, <1>2, <1>3, <1>4, <1>5, <1>6, <1>7, <1>8, <1>9, <1>10, <1>11, <1>12, <1>13,
     <1>14, <1>15, <1>16, <1>17, <1>18, <1>19, <1>20, <1>21, <1>22, <1>23, <1>24, <1>25, <1>26,
     <1>27 DEF Step

LEMMA StepOthers ==
    ASSUME NEW s \in Streams, Step(s), TypeOK, NEW v \in Streams \ {s}
    PROVE  Same(v)
<1>1. CASE Acquire(s)
  BY <1>1 DEF Acquire, Goto, request, client, output, worker, tokens, TypeOK, Same
<1>2. CASE LaunchFails(s)
  BY <1>2 DEF LaunchFails, Fault, Goto, request, client, output, worker, tokens, TypeOK, Same
<1>3. CASE Release(s)
  BY <1>3 DEF Release, Goto, request, client, output, worker, tokens, TypeOK, Same
<1>4. CASE TakeSlot(s)
  BY <1>4 DEF TakeSlot, Goto, At, request, client, worker, tokens, TypeOK, Same
<1>5. CASE QueueTimeout(s)
  BY <1>5 DEF QueueTimeout, Goto, At, request, client, output, worker, tokens, render, TypeOK,
         Same
<1>6. CASE PrintOpen(s)
  BY <1>6 DEF PrintOpen, Goto, At, request, client, worker, tokens, render, TypeOK, Same
<1>7. CASE PrintEnd(s)
  BY <1>7 DEF PrintEnd, Goto, At, request, client, worker, tokens, render, TypeOK, Same
<1>8. CASE RenderFails(s)
  BY <1>8 DEF RenderFails, Goto, request, client, output, worker, tokens, render, TypeOK, Same
<1>9. CASE Store(s)
  BY <1>9 DEF Store, Goto, At, NewToken, request, client, output, worker, render, TypeOK, Same
<1>10. CASE StoreFails(s)
  BY <1>10 DEF StoreFails, Fault, Goto, At, request, client, output, worker, tokens, render,
         TypeOK, Same
<1>11. CASE Tell(s)
  BY <1>11 DEF Tell, Goto, At, request, worker, tokens, render, TypeOK, Same
<1>12. CASE Finish(s)
  BY <1>12 DEF Finish, Goto, At, request, client, worker, tokens, render, TypeOK, Same
<1>13. CASE Close(s)
  BY <1>13 DEF Close, Goto, Unlink, request, client, worker, tokens, TypeOK, Same
<1>14. CASE Leave(s)
  BY <1>14 DEF Leave, client, output, worker, tokens, render, TypeOK, Same
<1>15. CASE StartZip(s)
  BY <1>15 DEF StartZip, Goto, request, client, output, tokens, render, TypeOK, Same
<1>16. CASE ThreadOpens(s)
  BY <1>16 DEF ThreadOpens, request, client, tokens, render, TypeOK, Same
<1>17. CASE ThreadEnds(s)
  BY <1>17 DEF ThreadEnds, request, client, tokens, render, TypeOK, Same
<1>18. CASE ThreadFails(s)
  BY <1>18 DEF ThreadFails, request, client, output, tokens, render, TypeOK, Same
<1>19. CASE Drained(s)
  BY <1>19 DEF Drained, Goto, At, request, client, output, worker, tokens, render, TypeOK, Same
<1>20. CASE ZipFails(s)
  BY <1>20 DEF ZipFails, Goto, At, request, client, output, worker, tokens, render, TypeOK, Same
<1>21. CASE ExportFails(s)
  BY <1>21 DEF ExportFails, Goto, Unlink, request, client, tokens, render, TypeOK, Same
<1>22. CASE ExportEnds(s)
  BY <1>22 DEF ExportEnds, Goto, request, client, output, tokens, render, TypeOK, Same
<1>23. CASE Expire(s)
  BY <1>23 DEF Expire, request, client, output, worker, render, TypeOK, Same
<1>24. CASE Pop(s)
  BY <1>24 DEF Pop, request, output, worker, tokens, render, TypeOK, Same
<1>25. CASE PopExpired(s)
  BY <1>25 DEF PopExpired, Unlink, request, worker, render, TypeOK, Same
<1>26. CASE PopCommit(s)
  BY <1>26 DEF PopCommit, request, output, worker, render, TypeOK, Same
<1>27. CASE Serve(s)
  BY <1>27 DEF Serve, Unlink, request, worker, tokens, render, TypeOK, Same
<1> QED
  BY <1>1, <1>2, <1>3, <1>4, <1>5, <1>6, <1>7, <1>8, <1>9, <1>10, <1>11, <1>12, <1>13,
     <1>14, <1>15, <1>16, <1>17, <1>18, <1>19, <1>20, <1>21, <1>22, <1>23, <1>24, <1>25, <1>26,
     <1>27 DEF Step

LEMMA StepToken ==
    ASSUME NEW s \in Streams, Step(s), TypeOK, StreamOK(s)
    PROVE  TokenOK(s)'
<1>1. CASE Acquire(s)
  BY <1>1 DEF Acquire, Goto, request, client, output, worker, tokens, Kinds, Renders, Exports,
         TypeOK, StreamOK, TokenOK, Early, Written, FileOK, RenderOK, ExportOK
<1>2. CASE LaunchFails(s)
  BY <1>2 DEF LaunchFails, Fault, Goto, request, client, output, worker, tokens, Kinds, Renders,
         Exports, TypeOK, StreamOK, TokenOK, Early, Written, FileOK, RenderOK, ExportOK
<1>3. CASE Release(s)
  BY <1>3 DEF Release, Goto, request, client, output, worker, tokens, Kinds, Renders, Exports,
         TypeOK, StreamOK, TokenOK, Early, Written, FileOK, RenderOK, ExportOK
<1>4. CASE TakeSlot(s)
  BY <1>4 DEF TakeSlot, Goto, At, request, client, worker, tokens, Kinds, TypeOK, StreamOK,
         TokenOK, Early, Written, FileOK, RenderOK, ExportOK
<1>5. CASE QueueTimeout(s)
  BY <1>5 DEF QueueTimeout, Goto, At, request, client, output, worker, tokens, render, Kinds,
         TypeOK, StreamOK, TokenOK, Early, Written, FileOK, RenderOK, ExportOK
<1>6. CASE PrintOpen(s)
  BY <1>6 DEF PrintOpen, Goto, At, request, client, worker, tokens, render, Kinds, TypeOK,
         StreamOK, TokenOK, Early, Written, FileOK, RenderOK, ExportOK
<1>7. CASE PrintEnd(s)
  BY <1>7 DEF PrintEnd, Goto, At, request, client, worker, tokens, render, Kinds, TypeOK,
         StreamOK, TokenOK, Early, Written, FileOK, RenderOK, ExportOK
<1>8. CASE RenderFails(s)
  BY <1>8 DEF RenderFails, Goto, request, client, output, worker, tokens, render, Kinds, TypeOK,
         StreamOK, TokenOK, Early, Written, FileOK, RenderOK, ExportOK
<1>9. CASE Store(s)
  BY <1>9 DEF Store, Goto, At, NewToken, request, client, output, worker, render, Kinds, TypeOK,
         StreamOK, TokenOK, Early, Written, FileOK, RenderOK, ExportOK
<1>10. CASE StoreFails(s)
  BY <1>10 DEF StoreFails, Fault, Goto, At, request, client, output, worker, tokens, render,
         Kinds, Exports, TypeOK, StreamOK, TokenOK, Early, Written, FileOK, RenderOK, ExportOK
<1>11. CASE Tell(s)
  BY <1>11 DEF Tell, Goto, At, request, worker, tokens, render, Kinds, TypeOK, StreamOK,
         TokenOK, Early, Written, FileOK, RenderOK, ExportOK
<1>12. CASE Finish(s)
  BY <1>12 DEF Finish, Goto, At, request, client, worker, tokens, render, Kinds, Renders,
         Exports, TypeOK, StreamOK, TokenOK, Early, Written, FileOK, RenderOK, ExportOK
<1>13. CASE Close(s)
  BY <1>13 DEF Close, Goto, Unlink, request, client, worker, tokens, Kinds, Renders, Exports,
         TypeOK, StreamOK, TokenOK, Early, Written, FileOK, RenderOK, ExportOK
<1>14. CASE Leave(s)
  BY <1>14 DEF Leave, client, output, worker, tokens, render, Kinds, TypeOK, StreamOK, TokenOK,
         Early, Written, FileOK, RenderOK, ExportOK
<1>15. CASE StartZip(s)
  BY <1>15 DEF StartZip, Goto, request, client, output, tokens, render, Kinds, Exports, TypeOK,
         StreamOK, TokenOK, Early, Written, FileOK, RenderOK, ExportOK
<1>16. CASE ThreadOpens(s)
  BY <1>16 DEF ThreadOpens, request, client, tokens, render, Kinds, TypeOK, StreamOK, TokenOK,
         Early, Written, FileOK, RenderOK, ExportOK
<1>17. CASE ThreadEnds(s)
  BY <1>17 DEF ThreadEnds, request, client, tokens, render, Kinds, TypeOK, StreamOK, TokenOK,
         Early, Written, FileOK, RenderOK, ExportOK
<1>18. CASE ThreadFails(s)
  BY <1>18 DEF ThreadFails, request, client, output, tokens, render, Kinds, TypeOK, StreamOK,
         TokenOK, Early, Written, FileOK, RenderOK, ExportOK
<1>19. CASE Drained(s)
  BY <1>19 DEF Drained, Goto, At, request, client, output, worker, tokens, render, Kinds,
         TypeOK, StreamOK, TokenOK, Early, Written, FileOK, RenderOK, ExportOK
<1>20. CASE ZipFails(s)
  BY <1>20 DEF ZipFails, Goto, At, request, client, output, worker, tokens, render, Kinds,
         TypeOK, StreamOK, TokenOK, Early, Written, FileOK, RenderOK, ExportOK
<1>21. CASE ExportFails(s)
  BY <1>21 DEF ExportFails, Goto, Unlink, request, client, tokens, render, Kinds, TypeOK,
         StreamOK, TokenOK, Early, Written, FileOK, RenderOK, ExportOK
<1>22. CASE ExportEnds(s)
  BY <1>22 DEF ExportEnds, Goto, request, client, output, tokens, render, Kinds, Exports,
         TypeOK, StreamOK, TokenOK, Early, Written, FileOK, RenderOK, ExportOK
<1>23. CASE Expire(s)
  BY <1>23 DEF Expire, request, client, output, worker, render, Kinds, TypeOK, StreamOK,
         TokenOK, Early, Written, FileOK, RenderOK, ExportOK
<1>24. CASE Pop(s)
  BY <1>24 DEF Pop, request, output, worker, tokens, render, Kinds, TypeOK, StreamOK, TokenOK,
         Early, Written, FileOK, RenderOK, ExportOK
<1>25. CASE PopExpired(s)
  BY <1>25 DEF PopExpired, Unlink, request, worker, render, Kinds, TypeOK, StreamOK, TokenOK,
         Early, Written, FileOK, RenderOK, ExportOK
<1>26. CASE PopCommit(s)
  BY <1>26 DEF PopCommit, request, output, worker, render, Kinds, TypeOK, StreamOK, TokenOK,
         Early, Written, FileOK, RenderOK, ExportOK
<1>27. CASE Serve(s)
  BY <1>27 DEF Serve, Unlink, request, worker, tokens, render, Kinds, TypeOK, StreamOK, TokenOK,
         Early, Written, FileOK, RenderOK, ExportOK
<1> QED
  BY <1>1, <1>2, <1>3, <1>4, <1>5, <1>6, <1>7, <1>8, <1>9, <1>10, <1>11, <1>12, <1>13,
     <1>14, <1>15, <1>16, <1>17, <1>18, <1>19, <1>20, <1>21, <1>22, <1>23, <1>24, <1>25, <1>26,
     <1>27 DEF Step

LEMMA StepFile ==
    ASSUME NEW s \in Streams, Step(s), TypeOK, StreamOK(s)
    PROVE  FileOK(s)'
<1>1. CASE Acquire(s)
  BY <1>1 DEF Acquire, Goto, request, client, output, worker, tokens, Kinds, Renders, Exports,
         TypeOK, StreamOK, TokenOK, Early, Written, FileOK, HasFile, RenderOK, ExportOK,
         EndedWell
<1>2. CASE LaunchFails(s)
  BY <1>2 DEF LaunchFails, Fault, Goto, request, client, output, worker, tokens, Kinds, Renders,
         Exports, TypeOK, StreamOK, TokenOK, Early, Written, FileOK, HasFile, RenderOK,
         ExportOK, EndedWell
<1>3. CASE Release(s)
  BY <1>3 DEF Release, Goto, request, client, output, worker, tokens, Kinds, Renders, Exports,
         TypeOK, StreamOK, TokenOK, Early, Written, FileOK, HasFile, RenderOK, ExportOK,
         EndedWell
<1>4. CASE TakeSlot(s)
  BY <1>4 DEF TakeSlot, Goto, At, request, client, worker, tokens, Kinds, TypeOK, StreamOK,
         TokenOK, Early, Written, FileOK, HasFile, RenderOK, ExportOK, EndedWell
<1>5. CASE QueueTimeout(s)
  BY <1>5 DEF QueueTimeout, Goto, At, request, client, output, worker, tokens, render, Kinds,
         TypeOK, StreamOK, TokenOK, Early, Written, FileOK, HasFile, RenderOK, ExportOK,
         EndedWell
<1>6. CASE PrintOpen(s)
  BY <1>6 DEF PrintOpen, Goto, At, request, client, worker, tokens, render, Kinds, TypeOK,
         StreamOK, TokenOK, Early, Written, FileOK, HasFile, RenderOK, ExportOK, EndedWell
<1>7. CASE PrintEnd(s)
  BY <1>7 DEF PrintEnd, Goto, At, request, client, worker, tokens, render, Kinds, TypeOK,
         StreamOK, TokenOK, Early, Written, FileOK, HasFile, RenderOK, ExportOK, EndedWell
<1>8. CASE RenderFails(s)
  BY <1>8 DEF RenderFails, Goto, request, client, output, worker, tokens, render, Kinds, TypeOK,
         StreamOK, TokenOK, Early, Written, FileOK, HasFile, RenderOK, ExportOK, EndedWell
<1>9. CASE Store(s)
  BY <1>9 DEF Store, Goto, At, NewToken, request, client, output, worker, render, Kinds, TypeOK,
         StreamOK, TokenOK, Early, Written, FileOK, HasFile, RenderOK, ExportOK, EndedWell
<1>10. CASE StoreFails(s)
  BY <1>10 DEF StoreFails, Fault, Goto, At, request, client, output, worker, tokens, render,
         Kinds, Exports, TypeOK, StreamOK, TokenOK, Early, Written, FileOK, HasFile, RenderOK,
         ExportOK, EndedWell
<1>11. CASE Tell(s)
  BY <1>11 DEF Tell, Goto, At, request, worker, tokens, render, Kinds, TypeOK, StreamOK,
         TokenOK, Early, Written, FileOK, HasFile, RenderOK, ExportOK, EndedWell
<1>12. CASE Finish(s)
  BY <1>12 DEF Finish, Goto, At, request, client, worker, tokens, render, Kinds, Renders,
         Exports, TypeOK, StreamOK, TokenOK, Early, Written, FileOK, HasFile, RenderOK,
         ExportOK, EndedWell
<1>13. CASE Close(s)
  BY <1>13 DEF Close, Goto, Unlink, request, client, worker, tokens, Kinds, Renders, Exports,
         TypeOK, StreamOK, TokenOK, Early, Written, FileOK, HasFile, RenderOK, ExportOK,
         EndedWell
<1>14. CASE Leave(s)
  BY <1>14 DEF Leave, client, output, worker, tokens, render, Kinds, TypeOK, StreamOK, TokenOK,
         Early, Written, FileOK, HasFile, RenderOK, ExportOK, EndedWell
<1>15. CASE StartZip(s)
  BY <1>15 DEF StartZip, Goto, request, client, output, tokens, render, Kinds, Exports, TypeOK,
         StreamOK, TokenOK, Early, Written, FileOK, HasFile, RenderOK, ExportOK, EndedWell
<1>16. CASE ThreadOpens(s)
  BY <1>16 DEF ThreadOpens, request, client, tokens, render, Kinds, TypeOK, StreamOK, TokenOK,
         Early, Written, FileOK, HasFile, RenderOK, ExportOK, EndedWell
<1>17. CASE ThreadEnds(s)
  BY <1>17 DEF ThreadEnds, request, client, tokens, render, Kinds, TypeOK, StreamOK, TokenOK,
         Early, Written, FileOK, HasFile, RenderOK, ExportOK, EndedWell
<1>18. CASE ThreadFails(s)
  BY <1>18 DEF ThreadFails, request, client, output, tokens, render, Kinds, TypeOK, StreamOK,
         TokenOK, Early, Written, FileOK, HasFile, RenderOK, ExportOK, EndedWell
<1>19. CASE Drained(s)
  BY <1>19 DEF Drained, Goto, At, request, client, output, worker, tokens, render, Kinds,
         TypeOK, StreamOK, TokenOK, Early, Written, FileOK, HasFile, RenderOK, ExportOK,
         EndedWell
<1>20. CASE ZipFails(s)
  BY <1>20 DEF ZipFails, Goto, At, request, client, output, worker, tokens, render, Kinds,
         TypeOK, StreamOK, TokenOK, Early, Written, FileOK, HasFile, RenderOK, ExportOK,
         EndedWell
<1>21. CASE ExportFails(s)
  BY <1>21 DEF ExportFails, Goto, Unlink, request, client, tokens, render, Kinds, TypeOK,
         StreamOK, TokenOK, Early, Written, FileOK, HasFile, RenderOK, ExportOK, EndedWell
<1>22. CASE ExportEnds(s)
  BY <1>22 DEF ExportEnds, Goto, request, client, output, tokens, render, Kinds, Exports,
         TypeOK, StreamOK, TokenOK, Early, Written, FileOK, HasFile, RenderOK, ExportOK,
         EndedWell
<1>23. CASE Expire(s)
  BY <1>23 DEF Expire, request, client, output, worker, render, Kinds, TypeOK, StreamOK,
         TokenOK, Early, Written, FileOK, HasFile, RenderOK, ExportOK, EndedWell
<1>24. CASE Pop(s)
  BY <1>24 DEF Pop, request, output, worker, tokens, render, Kinds, TypeOK, StreamOK, TokenOK,
         Early, Written, FileOK, HasFile, RenderOK, ExportOK, EndedWell
<1>25. CASE PopExpired(s)
  BY <1>25 DEF PopExpired, Unlink, request, worker, render, Kinds, TypeOK, StreamOK, TokenOK,
         Early, Written, FileOK, HasFile, RenderOK, ExportOK, EndedWell
<1>26. CASE PopCommit(s)
  BY <1>26 DEF PopCommit, request, output, worker, render, Kinds, TypeOK, StreamOK, TokenOK,
         Early, Written, FileOK, HasFile, RenderOK, ExportOK, EndedWell
<1>27. CASE Serve(s)
  BY <1>27 DEF Serve, Unlink, request, worker, tokens, render, Kinds, TypeOK, StreamOK, TokenOK,
         Early, Written, FileOK, HasFile, RenderOK, ExportOK, EndedWell
<1> QED
  BY <1>1, <1>2, <1>3, <1>4, <1>5, <1>6, <1>7, <1>8, <1>9, <1>10, <1>11, <1>12, <1>13,
     <1>14, <1>15, <1>16, <1>17, <1>18, <1>19, <1>20, <1>21, <1>22, <1>23, <1>24, <1>25, <1>26,
     <1>27 DEF Step

LEMMA StepCare ==
    ASSUME NEW s \in Streams, Step(s), TypeOK, StreamOK(s)
    PROVE  CareOK(s)'
<1>1. CASE Acquire(s)
  BY <1>1 DEF Acquire, Goto, request, client, output, worker, tokens, Kinds, Renders, Exports,
         TypeOK, StreamOK, TokenOK, Early, Written, FileOK, CareOK, HasFile, RenderOK, ExportOK,
         EndedWell
<1>2. CASE LaunchFails(s)
  BY <1>2 DEF LaunchFails, Fault, Goto, request, client, output, worker, tokens, Kinds, Renders,
         Exports, TypeOK, StreamOK, TokenOK, Early, Written, FileOK, CareOK, HasFile, RenderOK,
         ExportOK, EndedWell
<1>3. CASE Release(s)
  BY <1>3 DEF Release, Goto, request, client, output, worker, tokens, Kinds, Renders, Exports,
         TypeOK, StreamOK, TokenOK, Early, Written, FileOK, CareOK, HasFile, RenderOK, ExportOK,
         EndedWell
<1>4. CASE TakeSlot(s)
  BY <1>4 DEF TakeSlot, Goto, At, request, client, worker, tokens, Kinds, TypeOK, StreamOK,
         TokenOK, Early, Written, FileOK, CareOK, HasFile, RenderOK, ExportOK, EndedWell
<1>5. CASE QueueTimeout(s)
  BY <1>5 DEF QueueTimeout, Goto, At, request, client, output, worker, tokens, render, Kinds,
         TypeOK, StreamOK, TokenOK, Early, Written, FileOK, CareOK, HasFile, RenderOK, ExportOK,
         EndedWell
<1>6. CASE PrintOpen(s)
  BY <1>6 DEF PrintOpen, Goto, At, request, client, worker, tokens, render, Kinds, TypeOK,
         StreamOK, TokenOK, Early, Written, FileOK, CareOK, HasFile, RenderOK, ExportOK,
         EndedWell
<1>7. CASE PrintEnd(s)
  BY <1>7 DEF PrintEnd, Goto, At, request, client, worker, tokens, render, Kinds, TypeOK,
         StreamOK, TokenOK, Early, Written, FileOK, CareOK, HasFile, RenderOK, ExportOK,
         EndedWell
<1>8. CASE RenderFails(s)
  BY <1>8 DEF RenderFails, Goto, request, client, output, worker, tokens, render, Kinds, TypeOK,
         StreamOK, TokenOK, Early, Written, FileOK, CareOK, HasFile, RenderOK, ExportOK,
         EndedWell
<1>9. CASE Store(s)
  BY <1>9 DEF Store, Goto, At, NewToken, request, client, output, worker, render, Kinds, TypeOK,
         StreamOK, TokenOK, Early, Written, FileOK, CareOK, HasFile, RenderOK, ExportOK,
         EndedWell
<1>10. CASE StoreFails(s)
  BY <1>10 DEF StoreFails, Fault, Goto, At, request, client, output, worker, tokens, render,
         Kinds, Exports, TypeOK, StreamOK, TokenOK, Early, Written, FileOK, CareOK, HasFile,
         RenderOK, ExportOK, EndedWell
<1>11. CASE Tell(s)
  BY <1>11 DEF Tell, Goto, At, request, worker, tokens, render, Kinds, TypeOK, StreamOK,
         TokenOK, Early, Written, FileOK, CareOK, HasFile, RenderOK, ExportOK, EndedWell
<1>12. CASE Finish(s)
  BY <1>12 DEF Finish, Goto, At, request, client, worker, tokens, render, Kinds, Renders,
         Exports, TypeOK, StreamOK, TokenOK, Early, Written, FileOK, CareOK, HasFile, RenderOK,
         ExportOK, EndedWell
<1>13. CASE Close(s)
  BY <1>13 DEF Close, Goto, Unlink, request, client, worker, tokens, Kinds, Renders, Exports,
         TypeOK, StreamOK, TokenOK, Early, Written, FileOK, CareOK, HasFile, RenderOK, ExportOK,
         EndedWell
<1>14. CASE Leave(s)
  BY <1>14 DEF Leave, client, output, worker, tokens, render, Kinds, TypeOK, StreamOK, TokenOK,
         Early, Written, FileOK, CareOK, HasFile, RenderOK, ExportOK, EndedWell
<1>15. CASE StartZip(s)
  BY <1>15 DEF StartZip, Goto, request, client, output, tokens, render, Kinds, Exports, TypeOK,
         StreamOK, TokenOK, Early, Written, FileOK, CareOK, HasFile, RenderOK, ExportOK,
         EndedWell
<1>16. CASE ThreadOpens(s)
  BY <1>16 DEF ThreadOpens, request, client, tokens, render, Kinds, TypeOK, StreamOK, TokenOK,
         Early, Written, FileOK, CareOK, HasFile, RenderOK, ExportOK, EndedWell
<1>17. CASE ThreadEnds(s)
  BY <1>17 DEF ThreadEnds, request, client, tokens, render, Kinds, TypeOK, StreamOK, TokenOK,
         Early, Written, FileOK, CareOK, HasFile, RenderOK, ExportOK, EndedWell
<1>18. CASE ThreadFails(s)
  BY <1>18 DEF ThreadFails, request, client, output, tokens, render, Kinds, TypeOK, StreamOK,
         TokenOK, Early, Written, FileOK, CareOK, HasFile, RenderOK, ExportOK, EndedWell
<1>19. CASE Drained(s)
  BY <1>19 DEF Drained, Goto, At, request, client, output, worker, tokens, render, Kinds,
         TypeOK, StreamOK, TokenOK, Early, Written, FileOK, CareOK, HasFile, RenderOK, ExportOK,
         EndedWell
<1>20. CASE ZipFails(s)
  BY <1>20 DEF ZipFails, Goto, At, request, client, output, worker, tokens, render, Kinds,
         TypeOK, StreamOK, TokenOK, Early, Written, FileOK, CareOK, HasFile, RenderOK, ExportOK,
         EndedWell
<1>21. CASE ExportFails(s)
  BY <1>21 DEF ExportFails, Goto, Unlink, request, client, tokens, render, Kinds, TypeOK,
         StreamOK, TokenOK, Early, Written, FileOK, CareOK, HasFile, RenderOK, ExportOK,
         EndedWell
<1>22. CASE ExportEnds(s)
  BY <1>22 DEF ExportEnds, Goto, request, client, output, tokens, render, Kinds, Exports,
         TypeOK, StreamOK, TokenOK, Early, Written, FileOK, CareOK, HasFile, RenderOK, ExportOK,
         EndedWell
<1>23. CASE Expire(s)
  BY <1>23 DEF Expire, request, client, output, worker, render, Kinds, TypeOK, StreamOK,
         TokenOK, Early, Written, FileOK, CareOK, HasFile, RenderOK, ExportOK, EndedWell
<1>24. CASE Pop(s)
  BY <1>24 DEF Pop, request, output, worker, tokens, render, Kinds, TypeOK, StreamOK, TokenOK,
         Early, Written, FileOK, CareOK, HasFile, RenderOK, ExportOK, EndedWell
<1>25. CASE PopExpired(s)
  BY <1>25 DEF PopExpired, Unlink, request, worker, render, Kinds, TypeOK, StreamOK, TokenOK,
         Early, Written, FileOK, CareOK, HasFile, RenderOK, ExportOK, EndedWell
<1>26. CASE PopCommit(s)
  BY <1>26 DEF PopCommit, request, output, worker, render, Kinds, TypeOK, StreamOK, TokenOK,
         Early, Written, FileOK, CareOK, HasFile, RenderOK, ExportOK, EndedWell
<1>27. CASE Serve(s)
  BY <1>27 DEF Serve, Unlink, request, worker, tokens, render, Kinds, TypeOK, StreamOK, TokenOK,
         Early, Written, FileOK, CareOK, HasFile, RenderOK, ExportOK, EndedWell
<1> QED
  BY <1>1, <1>2, <1>3, <1>4, <1>5, <1>6, <1>7, <1>8, <1>9, <1>10, <1>11, <1>12, <1>13,
     <1>14, <1>15, <1>16, <1>17, <1>18, <1>19, <1>20, <1>21, <1>22, <1>23, <1>24, <1>25, <1>26,
     <1>27 DEF Step

LEMMA StepRender ==
    ASSUME NEW s \in Streams, Step(s), TypeOK, StreamOK(s)
    PROVE  RenderOK(s)'
<1>1. CASE Acquire(s)
  BY <1>1 DEF Acquire, Goto, request, client, output, worker, tokens, Kinds, Renders, Exports,
         TypeOK, StreamOK, TokenOK, Early, RenderOK, ExportOK, Busy
<1>2. CASE LaunchFails(s)
  BY <1>2 DEF LaunchFails, Fault, Goto, request, client, output, worker, tokens, Kinds, Renders,
         Exports, TypeOK, StreamOK, TokenOK, Early, RenderOK, ExportOK, Busy
<1>3. CASE Release(s)
  BY <1>3 DEF Release, Goto, request, client, output, worker, tokens, Kinds, Renders, Exports,
         TypeOK, StreamOK, TokenOK, Early, RenderOK, ExportOK, Busy
<1>4. CASE TakeSlot(s)
  BY <1>4, ArtifactsAssumption DEF TakeSlot, Goto, At, request, client, worker, tokens, Kinds,
         TypeOK, StreamOK, TokenOK, Early, RenderOK, ExportOK, Busy
<1>5. CASE QueueTimeout(s)
  BY <1>5 DEF QueueTimeout, Goto, At, request, client, output, worker, tokens, render, Kinds,
         TypeOK, StreamOK, TokenOK, Early, RenderOK, ExportOK, Busy
<1>6. CASE PrintOpen(s)
  BY <1>6 DEF PrintOpen, Goto, At, request, client, worker, tokens, render, Kinds, TypeOK,
         StreamOK, TokenOK, Early, RenderOK, ExportOK, Busy
<1>7. CASE PrintEnd(s)
  BY <1>7 DEF PrintEnd, Goto, At, request, client, worker, tokens, render, Kinds, TypeOK,
         StreamOK, TokenOK, Early, RenderOK, ExportOK, Busy
<1>8. CASE RenderFails(s)
  BY <1>8 DEF RenderFails, Goto, request, client, output, worker, tokens, render, Kinds, TypeOK,
         StreamOK, TokenOK, Early, RenderOK, ExportOK, Busy
<1>9. CASE Store(s)
  BY <1>9 DEF Store, Goto, At, NewToken, request, client, output, worker, render, Kinds, TypeOK,
         StreamOK, TokenOK, Early, RenderOK, ExportOK, Busy
<1>10. CASE StoreFails(s)
  BY <1>10 DEF StoreFails, Fault, Goto, At, request, client, output, worker, tokens, render,
         Kinds, Exports, TypeOK, StreamOK, TokenOK, Early, RenderOK, ExportOK, Busy
<1>11. CASE Tell(s)
  BY <1>11 DEF Tell, Goto, At, request, worker, tokens, render, Kinds, TypeOK, StreamOK,
         TokenOK, Early, RenderOK, ExportOK, Busy
<1>12. CASE Finish(s)
  BY <1>12 DEF Finish, Goto, At, request, client, worker, tokens, render, Kinds, Renders,
         Exports, TypeOK, StreamOK, TokenOK, Early, RenderOK, ExportOK, Busy
<1>13. CASE Close(s)
  BY <1>13 DEF Close, Goto, Unlink, request, client, worker, tokens, Kinds, Renders, Exports,
         TypeOK, StreamOK, TokenOK, Early, RenderOK, ExportOK, Busy
<1>14. CASE Leave(s)
  BY <1>14 DEF Leave, client, output, worker, tokens, render, Kinds, TypeOK, StreamOK, TokenOK,
         Early, RenderOK, ExportOK, Busy
<1>15. CASE StartZip(s)
  BY <1>15 DEF StartZip, Goto, request, client, output, tokens, render, Kinds, Exports, TypeOK,
         StreamOK, TokenOK, Early, RenderOK, ExportOK, Busy
<1>16. CASE ThreadOpens(s)
  BY <1>16 DEF ThreadOpens, request, client, tokens, render, Kinds, TypeOK, StreamOK, TokenOK,
         Early, RenderOK, ExportOK, Busy
<1>17. CASE ThreadEnds(s)
  BY <1>17 DEF ThreadEnds, request, client, tokens, render, Kinds, TypeOK, StreamOK, TokenOK,
         Early, RenderOK, ExportOK, Busy
<1>18. CASE ThreadFails(s)
  BY <1>18 DEF ThreadFails, request, client, output, tokens, render, Kinds, TypeOK, StreamOK,
         TokenOK, Early, RenderOK, ExportOK, Busy
<1>19. CASE Drained(s)
  BY <1>19 DEF Drained, Goto, At, request, client, output, worker, tokens, render, Kinds,
         TypeOK, StreamOK, TokenOK, Early, RenderOK, ExportOK, Busy
<1>20. CASE ZipFails(s)
  BY <1>20 DEF ZipFails, Goto, At, request, client, output, worker, tokens, render, Kinds,
         TypeOK, StreamOK, TokenOK, Early, RenderOK, ExportOK, Busy
<1>21. CASE ExportFails(s)
  BY <1>21 DEF ExportFails, Goto, Unlink, request, client, tokens, render, Kinds, TypeOK,
         StreamOK, TokenOK, Early, RenderOK, ExportOK, Busy
<1>22. CASE ExportEnds(s)
  BY <1>22 DEF ExportEnds, Goto, request, client, output, tokens, render, Kinds, Exports,
         TypeOK, StreamOK, TokenOK, Early, RenderOK, ExportOK, Busy
<1>23. CASE Expire(s)
  BY <1>23 DEF Expire, request, client, output, worker, render, Kinds, TypeOK, StreamOK,
         TokenOK, Early, RenderOK, ExportOK, Busy
<1>24. CASE Pop(s)
  BY <1>24 DEF Pop, request, output, worker, tokens, render, Kinds, TypeOK, StreamOK, TokenOK,
         Early, RenderOK, ExportOK, Busy
<1>25. CASE PopExpired(s)
  BY <1>25 DEF PopExpired, Unlink, request, worker, render, Kinds, TypeOK, StreamOK, TokenOK,
         Early, RenderOK, ExportOK, Busy
<1>26. CASE PopCommit(s)
  BY <1>26 DEF PopCommit, request, output, worker, render, Kinds, TypeOK, StreamOK, TokenOK,
         Early, RenderOK, ExportOK, Busy
<1>27. CASE Serve(s)
  BY <1>27 DEF Serve, Unlink, request, worker, tokens, render, Kinds, TypeOK, StreamOK, TokenOK,
         Early, RenderOK, ExportOK, Busy
<1> QED
  BY <1>1, <1>2, <1>3, <1>4, <1>5, <1>6, <1>7, <1>8, <1>9, <1>10, <1>11, <1>12, <1>13,
     <1>14, <1>15, <1>16, <1>17, <1>18, <1>19, <1>20, <1>21, <1>22, <1>23, <1>24, <1>25, <1>26,
     <1>27 DEF Step

LEMMA StepExport ==
    ASSUME NEW s \in Streams, Step(s), TypeOK, StreamOK(s)
    PROVE  ExportOK(s)'
<1>1. CASE Acquire(s)
  BY <1>1 DEF Acquire, Goto, request, client, output, worker, tokens, Kinds, Renders, Exports,
         TypeOK, StreamOK, TokenOK, Early, RenderOK, ExportOK, EndedWell, Written
<1>2. CASE LaunchFails(s)
  BY <1>2 DEF LaunchFails, Fault, Goto, request, client, output, worker, tokens, Kinds, Renders,
         Exports, TypeOK, StreamOK, TokenOK, Early, RenderOK, ExportOK, EndedWell, Written
<1>3. CASE Release(s)
  BY <1>3 DEF Release, Goto, request, client, output, worker, tokens, Kinds, Renders, Exports,
         TypeOK, StreamOK, TokenOK, Early, RenderOK, ExportOK, EndedWell, Written
<1>4. CASE TakeSlot(s)
  BY <1>4 DEF TakeSlot, Goto, At, request, client, worker, tokens, Kinds, TypeOK, StreamOK,
         TokenOK, Early, RenderOK, ExportOK, EndedWell, Written
<1>5. CASE QueueTimeout(s)
  BY <1>5 DEF QueueTimeout, Goto, At, request, client, output, worker, tokens, render, Kinds,
         TypeOK, StreamOK, TokenOK, Early, RenderOK, ExportOK, EndedWell, Written
<1>6. CASE PrintOpen(s)
  BY <1>6 DEF PrintOpen, Goto, At, request, client, worker, tokens, render, Kinds, TypeOK,
         StreamOK, TokenOK, Early, RenderOK, ExportOK, EndedWell, Written
<1>7. CASE PrintEnd(s)
  BY <1>7 DEF PrintEnd, Goto, At, request, client, worker, tokens, render, Kinds, TypeOK,
         StreamOK, TokenOK, Early, RenderOK, ExportOK, EndedWell, Written
<1>8. CASE RenderFails(s)
  BY <1>8 DEF RenderFails, Goto, request, client, output, worker, tokens, render, Kinds, TypeOK,
         StreamOK, TokenOK, Early, RenderOK, ExportOK, EndedWell, Written
<1>9. CASE Store(s)
  BY <1>9 DEF Store, Goto, At, NewToken, request, client, output, worker, render, Kinds, TypeOK,
         StreamOK, TokenOK, Early, RenderOK, ExportOK, EndedWell, Written
<1>10. CASE StoreFails(s)
  BY <1>10 DEF StoreFails, Fault, Goto, At, request, client, output, worker, tokens, render,
         Kinds, Exports, TypeOK, StreamOK, TokenOK, Early, RenderOK, ExportOK, EndedWell,
         Written
<1>11. CASE Tell(s)
  BY <1>11 DEF Tell, Goto, At, request, worker, tokens, render, Kinds, TypeOK, StreamOK,
         TokenOK, Early, RenderOK, ExportOK, EndedWell, Written
<1>12. CASE Finish(s)
  BY <1>12 DEF Finish, Goto, At, request, client, worker, tokens, render, Kinds, Renders,
         Exports, TypeOK, StreamOK, TokenOK, Early, RenderOK, ExportOK, EndedWell, Written
<1>13. CASE Close(s)
  BY <1>13 DEF Close, Goto, Unlink, request, client, worker, tokens, Kinds, Renders, Exports,
         TypeOK, StreamOK, TokenOK, Early, RenderOK, ExportOK, EndedWell, Written
<1>14. CASE Leave(s)
  BY <1>14 DEF Leave, client, output, worker, tokens, render, Kinds, TypeOK, StreamOK, TokenOK,
         Early, RenderOK, ExportOK, EndedWell, Written
<1>15. CASE StartZip(s)
  BY <1>15 DEF StartZip, Goto, request, client, output, tokens, render, Kinds, Exports, TypeOK,
         StreamOK, TokenOK, Early, RenderOK, ExportOK, EndedWell, Written
<1>16. CASE ThreadOpens(s)
  BY <1>16 DEF ThreadOpens, request, client, tokens, render, Kinds, TypeOK, StreamOK, TokenOK,
         Early, RenderOK, ExportOK, EndedWell, Written
<1>17. CASE ThreadEnds(s)
  BY <1>17 DEF ThreadEnds, request, client, tokens, render, Kinds, TypeOK, StreamOK, TokenOK,
         Early, RenderOK, ExportOK, EndedWell, Written
<1>18. CASE ThreadFails(s)
  BY <1>18 DEF ThreadFails, request, client, output, tokens, render, Kinds, TypeOK, StreamOK,
         TokenOK, Early, RenderOK, ExportOK, EndedWell, Written
<1>19. CASE Drained(s)
  BY <1>19 DEF Drained, Goto, At, request, client, output, worker, tokens, render, Kinds,
         TypeOK, StreamOK, TokenOK, Early, RenderOK, ExportOK, EndedWell, Written
<1>20. CASE ZipFails(s)
  BY <1>20 DEF ZipFails, Goto, At, request, client, output, worker, tokens, render, Kinds,
         TypeOK, StreamOK, TokenOK, Early, RenderOK, ExportOK, EndedWell, Written
<1>21. CASE ExportFails(s)
  BY <1>21 DEF ExportFails, Goto, Unlink, request, client, tokens, render, Kinds, TypeOK,
         StreamOK, TokenOK, Early, RenderOK, ExportOK, EndedWell, Written
<1>22. CASE ExportEnds(s)
  BY <1>22 DEF ExportEnds, Goto, request, client, output, tokens, render, Kinds, Exports,
         TypeOK, StreamOK, TokenOK, Early, RenderOK, ExportOK, EndedWell, Written
<1>23. CASE Expire(s)
  BY <1>23 DEF Expire, request, client, output, worker, render, Kinds, TypeOK, StreamOK,
         TokenOK, Early, RenderOK, ExportOK, EndedWell, Written
<1>24. CASE Pop(s)
  BY <1>24 DEF Pop, request, output, worker, tokens, render, Kinds, TypeOK, StreamOK, TokenOK,
         Early, RenderOK, ExportOK, EndedWell, Written
<1>25. CASE PopExpired(s)
  BY <1>25 DEF PopExpired, Unlink, request, worker, render, Kinds, TypeOK, StreamOK, TokenOK,
         Early, RenderOK, ExportOK, EndedWell, Written
<1>26. CASE PopCommit(s)
  BY <1>26 DEF PopCommit, request, output, worker, render, Kinds, TypeOK, StreamOK, TokenOK,
         Early, RenderOK, ExportOK, EndedWell, Written
<1>27. CASE Serve(s)
  BY <1>27 DEF Serve, Unlink, request, worker, tokens, render, Kinds, TypeOK, StreamOK, TokenOK,
         Early, RenderOK, ExportOK, EndedWell, Written
<1> QED
  BY <1>1, <1>2, <1>3, <1>4, <1>5, <1>6, <1>7, <1>8, <1>9, <1>10, <1>11, <1>12, <1>13,
     <1>14, <1>15, <1>16, <1>17, <1>18, <1>19, <1>20, <1>21, <1>22, <1>23, <1>24, <1>25, <1>26,
     <1>27 DEF Step

LEMMA StepBrowser ==
    ASSUME NEW s \in Streams, Step(s), TypeOK, BrowserOK, StreamOK(s)
    PROVE  BrowserOK'
<1>1. CASE Acquire(s)
  BY <1>1 DEF Acquire, Goto, request, client, output, worker, tokens, TypeOK, BrowserOK, Leased
<1>2. CASE LaunchFails(s)
  BY <1>2 DEF LaunchFails, Fault, Goto, request, client, output, worker, tokens, TypeOK,
         BrowserOK, Leased
<1>3. CASE Release(s)
  BY <1>3 DEF Release, Goto, request, client, output, worker, tokens, TypeOK, BrowserOK, Leased
<1>4. CASE TakeSlot(s)
  BY <1>4 DEF TakeSlot, Goto, At, request, client, worker, tokens, TypeOK, BrowserOK, Leased
<1>5. CASE QueueTimeout(s)
  BY <1>5 DEF QueueTimeout, Goto, At, request, client, output, worker, tokens, render, TypeOK,
         BrowserOK, Leased
<1>6. CASE PrintOpen(s)
  BY <1>6 DEF PrintOpen, Goto, At, request, client, worker, tokens, render, TypeOK, BrowserOK,
         Leased
<1>7. CASE PrintEnd(s)
  BY <1>7 DEF PrintEnd, Goto, At, request, client, worker, tokens, render, TypeOK, BrowserOK,
         Leased
<1>8. CASE RenderFails(s)
  BY <1>8 DEF RenderFails, Goto, request, client, output, worker, tokens, render, TypeOK,
         BrowserOK, Leased
<1>9. CASE Store(s)
  BY <1>9 DEF Store, Goto, At, NewToken, request, client, output, worker, render, TypeOK,
         BrowserOK, Leased
<1>10. CASE StoreFails(s)
  BY <1>10 DEF StoreFails, Fault, Goto, At, request, client, output, worker, tokens, render,
         TypeOK, BrowserOK, Leased
<1>11. CASE Tell(s)
  BY <1>11 DEF Tell, Goto, At, request, worker, tokens, render, TypeOK, BrowserOK, Leased
<1>12. CASE Finish(s)
  BY <1>12 DEF Finish, Goto, At, request, client, worker, tokens, render, TypeOK, BrowserOK,
         Leased
<1>13. CASE Close(s)
  BY <1>13 DEF Close, Goto, Unlink, request, client, worker, tokens, TypeOK, BrowserOK, Leased
<1>14. CASE Leave(s)
  BY <1>14 DEF Leave, client, output, worker, tokens, render, TypeOK, BrowserOK, Leased
<1>15. CASE StartZip(s)
  BY <1>15 DEF StartZip, Goto, request, client, output, tokens, render, TypeOK, BrowserOK,
         Leased
<1>16. CASE ThreadOpens(s)
  BY <1>16 DEF ThreadOpens, request, client, tokens, render, TypeOK, BrowserOK, Leased
<1>17. CASE ThreadEnds(s)
  BY <1>17 DEF ThreadEnds, request, client, tokens, render, TypeOK, BrowserOK, Leased
<1>18. CASE ThreadFails(s)
  BY <1>18 DEF ThreadFails, request, client, output, tokens, render, TypeOK, BrowserOK, Leased
<1>19. CASE Drained(s)
  BY <1>19 DEF Drained, Goto, At, request, client, output, worker, tokens, render, TypeOK,
         BrowserOK, Leased
<1>20. CASE ZipFails(s)
  BY <1>20 DEF ZipFails, Goto, At, request, client, output, worker, tokens, render, TypeOK,
         BrowserOK, Leased
<1>21. CASE ExportFails(s)
  BY <1>21 DEF ExportFails, Goto, Unlink, request, client, tokens, render, TypeOK, BrowserOK,
         Leased
<1>22. CASE ExportEnds(s)
  BY <1>22 DEF ExportEnds, Goto, request, client, output, tokens, render, TypeOK, BrowserOK,
         Leased
<1>23. CASE Expire(s)
  BY <1>23 DEF Expire, request, client, output, worker, render, TypeOK, BrowserOK, Leased
<1>24. CASE Pop(s)
  BY <1>24 DEF Pop, request, output, worker, tokens, render, TypeOK, BrowserOK, Leased
<1>25. CASE PopExpired(s)
  BY <1>25 DEF PopExpired, Unlink, request, worker, render, TypeOK, BrowserOK, Leased
<1>26. CASE PopCommit(s)
  BY <1>26 DEF PopCommit, request, output, worker, render, TypeOK, BrowserOK, Leased
<1>27. CASE Serve(s)
  BY <1>27 DEF Serve, Unlink, request, worker, tokens, render, TypeOK, BrowserOK, Leased
<1> QED
  BY <1>1, <1>2, <1>3, <1>4, <1>5, <1>6, <1>7, <1>8, <1>9, <1>10, <1>11, <1>12, <1>13,
     <1>14, <1>15, <1>16, <1>17, <1>18, <1>19, <1>20, <1>21, <1>22, <1>23, <1>24, <1>25, <1>26,
     <1>27 DEF Step


LEMMA StepKeeps == ASSUME IInv, NEW s \in Streams, Step(s) PROVE IInv'
<1>1. TypeOK'
  BY StepType DEF IInv
<1>2. BrowserOK'
  BY StepBrowser DEF IInv
<1>3. StreamOK(s)'
  BY StepToken, StepFile, StepCare, StepRender, StepExport DEF IInv, StreamOK
<1>4. \A v \in Streams \ {s} : StreamOK(v)'
  BY StepOthers, SameKeeps DEF IInv
<1> QED BY <1>1, <1>2, <1>3, <1>4 DEF IInv

LEMMA SweepKeeps ==
    ASSUME IInv, NEW kinds \in Namespaces, Sweep(kinds) \/ SweepCommit(kinds) \/ SweepFails(kinds)
    PROVE  IInv'
<1> USE DEF IInv
<1>1. CASE Sweep(kinds)
  <2> USE <1>1 DEF Sweep, Overdue, request, client, output, worker, tokens, render
  <2>1. TypeOK'
    BY DEF TypeOK
  <2>2. BrowserOK'
    BY DEF BrowserOK, Leased
  <2>3. ASSUME NEW v \in Streams PROVE StreamOK(v)'
    <3>1. TokenOK(v)' /\ FileOK(v)'
      BY DEF StreamOK, TokenOK, FileOK, Early, Written, HasFile, TypeOK
    <3>2. CareOK(v)' /\ RenderOK(v)' /\ ExportOK(v)'
      BY DEF StreamOK, TokenOK, CareOK, RenderOK, ExportOK, Early, Written, EndedWell, Busy, TypeOK
    <3> QED BY <3>1, <3>2 DEF StreamOK
  <2> QED BY <2>1, <2>2, <2>3
<1>2. CASE SweepCommit(kinds)
  <2> USE <1>2 DEF SweepCommit, request, client, output, worker, tokens, render
  <2>1. TypeOK'
    BY DEF TypeOK
  <2>2. BrowserOK'
    BY DEF BrowserOK, Leased
  <2>3. ASSUME NEW v \in Streams PROVE StreamOK(v)'
    <3>1. TokenOK(v)' /\ FileOK(v)'
      BY DEF StreamOK, TokenOK, FileOK, Early, Written, HasFile, TypeOK
    <3>2. CareOK(v)' /\ RenderOK(v)' /\ ExportOK(v)'
      BY DEF StreamOK, TokenOK, CareOK, RenderOK, ExportOK, Early, Written, EndedWell, Busy, TypeOK
    <3> QED BY <3>1, <3>2 DEF StreamOK
  <2> QED BY <2>1, <2>2, <2>3
<1>3. CASE SweepFails(kinds)
  <2> USE <1>3, ArtifactsAssumption
      DEF SweepFails, Fault, request, client, output, worker, tokens, render
  <2>1. TypeOK'
    BY DEF TypeOK
  <2>2. BrowserOK'
    BY DEF BrowserOK, Leased
  <2>3. ASSUME NEW v \in Streams PROVE StreamOK(v)'
    <3>1. TokenOK(v)' /\ FileOK(v)'
      BY DEF StreamOK, TokenOK, FileOK, Early, Written, HasFile, TypeOK
    <3>2. CareOK(v)' /\ RenderOK(v)' /\ ExportOK(v)'
      BY DEF StreamOK, CareOK, RenderOK, ExportOK, Written, EndedWell, Busy
    <3> QED BY <3>1, <3>2 DEF StreamOK
  <2> QED BY <2>1, <2>2, <2>3
<1> QED BY <1>1, <1>2, <1>3

LEMMA BrowserDiesKeeps == ASSUME IInv, BrowserDies PROVE IInv'
<1> USE ArtifactsAssumption
    DEF IInv, BrowserDies, Fault, request, client, output, worker, tokens, render
<1>1. TypeOK'
  BY DEF TypeOK
<1>2. BrowserOK'
  BY DEF BrowserOK, Leased, TypeOK
<1>3. ASSUME NEW v \in Streams PROVE StreamOK(v)'
  <2>1. TokenOK(v)' /\ FileOK(v)'
    BY DEF StreamOK, TokenOK, FileOK, Early, Written, HasFile
  <2>2. CareOK(v)' /\ RenderOK(v)' /\ ExportOK(v)'
    BY DEF StreamOK, CareOK, RenderOK, ExportOK, Written, EndedWell, Busy, TypeOK
  <2> QED BY <2>1, <2>2 DEF StreamOK
<1> QED BY <1>1, <1>2, <1>3

LEMMA CrashKeeps == ASSUME IInv, Crash PROVE IInv'
<1> USE ArtifactsAssumption DEF IInv, Crash, Fault, request, client, output, worker, tokens, render
<1>1. TypeOK'
  BY DEF TypeOK
<1>2. BrowserOK'
  BY DEF BrowserOK, Leased
<1>3. ASSUME NEW v \in Streams PROVE StreamOK(v)'
  <2>1. TokenOK(v)'
    BY DEF StreamOK, TokenOK, Early, Written, RenderOK, ExportOK, TypeOK
  <2>2. FileOK(v)'
    BY DEF StreamOK, TokenOK, FileOK, HasFile, TypeOK
  <2>3. CareOK(v)'
    BY DEF StreamOK, TokenOK, CareOK, EndedWell, Early, TypeOK
  <2>4. RenderOK(v)' /\ ExportOK(v)'
    BY DEF StreamOK, RenderOK, ExportOK, Written, EndedWell, Busy, TypeOK, Kinds
  <2> QED BY <2>1, <2>2, <2>3, <2>4 DEF StreamOK
<1> QED BY <1>1, <1>2, <1>3

LEMMA NextKeeps == IInv /\ [Next]_vars => IInv'
<1> SUFFICES ASSUME IInv, [Next]_vars PROVE IInv'
  OBVIOUS
<1>1. CASE Next
  BY <1>1, StepKeeps, SweepKeeps, BrowserDiesKeeps, CrashKeeps DEF Next
<1>2. CASE UNCHANGED vars
  <2>1. TypeOK' /\ BrowserOK'
    BY <1>2 DEF IInv, TypeOK, BrowserOK, Leased,
                vars, request, client, output, worker, tokens, render
  <2>2. \A v \in Streams : Same(v)
    BY <1>2 DEF Same, vars, request, client, output, worker, tokens, render
  <2> QED BY <2>1, <2>2, SameKeeps DEF IInv
<1> QED BY <1>1, <1>2

LEMMA Invariant == Spec => []IInv
<1>1. Init => IInv
  BY InitHolds
<1>2. IInv /\ [Next]_vars => IInv'
  BY NextKeeps
<1> QED BY <1>1, <1>2, PTL DEF Spec

\* Every variable keeps its type, whatever the number of streams, slots and faults.
THEOREM TypeCorrect == Spec => []TypeOK
<1>1. IInv => TypeOK
  BY DEF IInv
<1> QED BY <1>1, Invariant, PTL

\* pdf.py and export.py tell a client a token only of a finished file, and no
\* render, sweep or crash takes it away before the token expires.
THEOREM Delivered == Spec => []DeliveredHasFile
<1>1. IInv => DeliveredHasFile
  BY DEF IInv, StreamOK, FileOK, HasFile, DeliveredHasFile
<1> QED BY <1>1, Invariant, PTL

\* tokens.py's pop hands a token to one download, which finds the file unless
\* the token expires meanwhile.
THEOREM Served == Spec => []DownloadServes
<1>1. IInv => DownloadServes
  BY DEF IInv, StreamOK, FileOK, DownloadServes
<1> QED BY <1>1, Invariant, PTL

\* The finally clauses of the streams, and the leases of BrowserManager: what a
\* stream has used is free or taken care of when it has ended.
THEOREM EndReleases == Spec => []Released
<1>1. ASSUME IInv PROVE Released
  <2>1. ASSUME NEW s \in Streams, pc[s] = "over"
        PROVE  /\ s \notin slot /\ lease[s] = "none"
               /\ \/ s \in lost
                  \/ /\ parts[s] = 0
                     /\ file[s] # "none" =>
                          \/ row[s] \/ get[s] = "serving"
                          \/ s \in Exports /\ (left[s] \/ stop[s])
    <3>1. CASE kind[s] # "export"
      BY <1>1, <2>1, <3>1 DEF IInv, StreamOK, RenderOK, CareOK, Busy
    <3>2. CASE kind[s] = "export"
      BY <1>1, <2>1, <3>2 DEF IInv, StreamOK, ExportOK, CareOK, EndedWell, Exports
    <3> QED BY <3>1, <3>2
  <2> QED BY <1>1, <2>1 DEF IInv, BrowserOK, Released
<1> QED BY <1>1, Invariant, PTL
=============================================================================
