------------------------------ MODULE Artifacts ------------------------------
(***************************************************************************)
(* PDFs, ZIPs of chapter PDFs and exports of a user's data: a stream makes *)
(* a file, stores a token for it and tells the client the token; the       *)
(* client downloads the file once, or a loop deletes it after the token    *)
(* has expired.                                                            *)
(*                                                                         *)
(* PDF streams share one Chromium and a fixed number of render slots       *)
(* (advisory locks); an export is written by a thread that outlives the    *)
(* stream.  A client may leave between any two steps.                      *)
(***************************************************************************)
EXTENDS Naturals, FiniteSets

CONSTANTS
  Streams,    \* the requests for an artifact of a behaviour
  Slots,      \* _max_concurrent: renders at the same time
  Parts,      \* PDFs in a ZIP of chapters
  MaxFaults   \* bound: crashes and failed calls in a behaviour

ASSUME ArtifactsAssumption ==
  /\ IsFiniteSet(Streams)
  /\ Slots \in Nat \ {0} /\ Parts \in Nat \ {0} /\ MaxFaults \in Nat

Kinds == {"pdf", "chapters", "export"}

VARIABLES
  kind,     \* kind[s]: what the request asks for
  pc,       \* pc[s]: where the stream's generator is
  left,     \* left[s]: the client has gone before the stream's end
  lease,    \* lease[s]: on the shared browser; "lost" when that browser died
  browser,  \* BrowserManager._browser
  slot,     \* streams that hold a render slot
  file,     \* file[s]: the artifact on the disk
  parts,    \* parts[s]: PDFs of chapters on the disk, waiting for the ZIP
  thread,   \* thread[s]: the thread that writes an export
  stop,     \* stop[s]: its stop event
  row,      \* row[s]: the token's row
  expired,  \* expired[s]: expires_at has passed
  told,     \* told[s]: the client knows the token
  owned,    \* owned[s]: the stream's local, the file belongs to the token
  get,      \* get[s]: the download of the artifact
  swept,    \* rows the cleanup loop has evicted and not yet deleted
  lost,     \* streams and downloads that a crash has cut off
  faults

request == <<kind, left>>
client == <<told, get>>
output == <<file, parts, owned>>
worker == <<thread, stop>>
tokens == <<row, expired, swept>>
render == <<lease, browser, slot>>
vars == <<pc, request, render, output, worker, tokens, client, lost, faults>>

Exports == {s \in Streams : kind[s] = "export"}
Renders == Streams \ Exports

Init ==
  /\ kind \in [Streams -> Kinds]
  /\ pc = [s \in Streams |-> "idle"]
  /\ left = [s \in Streams |-> FALSE]
  /\ lease = [s \in Streams |-> "none"] /\ browser = "none" /\ slot = {}
  /\ file = [s \in Streams |-> "none"]
  /\ parts = [s \in Streams |-> 0]
  /\ thread = [s \in Streams |-> "none"]
  /\ stop = [s \in Streams |-> FALSE]
  /\ row = [s \in Streams |-> FALSE]
  /\ expired = [s \in Streams |-> FALSE]
  /\ told = [s \in Streams |-> FALSE]
  /\ owned = [s \in Streams |-> FALSE]
  /\ get = [s \in Streams |-> "none"]
  /\ swept = {} /\ lost = {} /\ faults = 0

Fault == faults < MaxFaults /\ faults' = faults + 1
Goto(s, at) == pc' = [pc EXCEPT ![s] = at]
Unlink(s) == file' = [file EXCEPT ![s] = "none"]
At(s, at) == pc[s] = at /\ ~left[s]

----------------------------------------------------------------------------
(* The shared browser                                                      *)

Leased == {s \in Streams : lease[s] # "none"}

\* acquire, a dependency of both render routes: a browser that is not
\* connected is closed and replaced, under the leases that were on it.
Acquire(s) ==
  /\ s \in Renders /\ pc[s] = "idle"
  /\ browser' = "up"
  /\ lease' = [lease EXCEPT ![s] = "held"]
  /\ Goto(s, "queued")
  /\ UNCHANGED <<request, slot, output, worker, tokens, client, lost, faults>>

LaunchFails(s) ==
  /\ s \in Renders /\ pc[s] = "idle" /\ browser # "up"
  /\ Fault
  /\ browser' = "none"
  /\ Goto(s, "over")
  /\ UNCHANGED <<request, lease, slot, output, worker, tokens, client, lost>>

BrowserDies ==
  /\ browser = "up"
  /\ Fault
  /\ browser' = "dead"
  /\ lease' = [s \in Streams |-> IF lease[s] = "held" THEN "lost" ELSE lease[s]]
  /\ UNCHANGED <<pc, request, slot, output, worker, tokens, client, lost>>

\* The end of the request; when the client has left, the generator may be
\* finalized only after it.  The last lease closes the browser.
Release(s) ==
  /\ s \in Renders
  /\ pc[s] = "closed" \/ (left[s] /\ lease[s] # "none")
  /\ lease' = [lease EXCEPT ![s] = "none"]
  /\ browser' = IF Leased \subseteq {s} THEN "none" ELSE browser
  /\ Goto(s, IF pc[s] = "closed" THEN "over" ELSE pc[s])
  /\ UNCHANGED <<request, slot, output, worker, tokens, client, lost, faults>>

----------------------------------------------------------------------------
(* render_album_pdf_stream and render_album_chapters_zip_stream            *)

\* render_pdf_slot: a poll that finds a slot free.  The ZIP is opened at once.
TakeSlot(s) ==
  /\ At(s, "queued") /\ Cardinality(slot) < Slots
  /\ slot' = slot \cup {s}
  /\ file' = [file EXCEPT ![s] = IF kind[s] = "chapters" THEN "partial" ELSE "none"]
  /\ Goto(s, "load")
  /\ UNCHANGED <<request, lease, browser, parts, owned, worker, tokens, client, lost, faults>>

\* Mutant: a render waits for a slot without a deadline.
QueueTimeout_Never(s) ==
  /\ At(s, "queued") /\ kind[s] = "chapters"
  /\ Goto(s, "closed")
  /\ UNCHANGED <<request, render, output, worker, tokens, client, lost, faults>>

\* PDF_QUEUE_TIMEOUT, looked at after a poll that found none: PdfBusy.  Also
\* "No chapters to export."
QueueTimeout(s) ==
  /\ At(s, "queued")
  /\ Cardinality(slot) >= Slots \/ kind[s] = "chapters"
  /\ Goto(s, "closed")
  /\ UNCHANGED <<request, render, output, worker, tokens, client, lost, faults>>

\* _load_print_page until the page is ready; then _stream_pdf_to_file opens
\* its file.
PrintOpen(s) ==
  /\ At(s, "load") /\ lease[s] = "held"
  /\ IF kind[s] = "pdf"
       THEN file' = [file EXCEPT ![s] = "partial"] /\ UNCHANGED parts
       ELSE parts' = [parts EXCEPT ![s] = @ + 1] /\ UNCHANGED file
  /\ Goto(s, "print")
  /\ UNCHANGED <<request, render, owned, worker, tokens, client, lost, faults>>

\* Chromium has sent the last chunk; the chapter's PDF goes into the ZIP, and
\* the ZIP is closed after the last.
PrintEnd(s) ==
  /\ At(s, "print") /\ lease[s] = "held"
  /\ IF kind[s] = "chapters" /\ parts[s] < Parts
       THEN Goto(s, "load") /\ UNCHANGED file
       ELSE Goto(s, "store") /\ file' = [file EXCEPT ![s] = "whole"]
  /\ UNCHANGED <<request, render, parts, owned, worker, tokens, client, lost, faults>>

\* The page reports an error, the load or the whole PDF takes too long, the
\* browser is gone, or the output is empty: an error event.
RenderFails(s) ==
  /\ pc[s] \in {"load", "print"} /\ ~left[s]
  /\ Goto(s, "close")
  /\ UNCHANGED <<request, render, output, worker, tokens, client, lost, faults>>

\* ArtifactTokenStore.store: a new row, with the time of its expiry, committed.
NewToken(s) == row' = [row EXCEPT ![s] = TRUE]

\* The artifact gets its token; the generator is not yet resumed.
Store(s) ==
  /\ At(s, "store")
  /\ NewToken(s)
  /\ Goto(s, "stored")
  /\ UNCHANGED <<request, render, output, worker, expired, swept, client, lost, faults>>

StoreFails(s) ==
  /\ At(s, "store") /\ Fault
  /\ Goto(s, IF s \in Exports THEN "fail" ELSE "close")
  /\ UNCHANGED <<request, render, output, worker, tokens, client, lost>>

\* Mutant: the PDF's stream takes ownership after the done event, too.
Tell_Unowned(s) ==
  /\ At(s, "stored")
  /\ told' = [told EXCEPT ![s] = TRUE]
  /\ UNCHANGED owned
  /\ Goto(s, "told")
  /\ UNCHANGED <<request, render, file, parts, worker, tokens, get, lost, faults>>

\* The done event.  A PDF belongs to its token before it, a ZIP of chapters
\* after it.
Tell(s) ==
  /\ At(s, "stored")
  /\ told' = [told EXCEPT ![s] = TRUE]
  /\ owned' = [owned EXCEPT ![s] = kind[s] = "pdf"]
  /\ Goto(s, "told")
  /\ UNCHANGED <<request, render, file, parts, worker, tokens, get, lost, faults>>

\* The generator is resumed after the done event.
Finish(s) ==
  /\ At(s, "told")
  /\ owned' = [owned EXCEPT ![s] = s \in Renders]
  /\ Goto(s, IF s \in Exports THEN "end" ELSE "close")
  /\ UNCHANGED <<request, render, file, parts, worker, tokens, client, lost, faults>>

\* Mutant: the chapters' PDFs are kept.
Close_KeepsParts(s) ==
  /\ s \in Renders
  /\ pc[s] = "close" \/ (left[s] /\ pc[s] \notin {"closed", "over"})
  /\ IF owned[s] THEN UNCHANGED file ELSE Unlink(s)
  /\ slot' = slot \ {s}
  /\ Goto(s, IF lease[s] = "none" THEN "over" ELSE "closed")
  /\ UNCHANGED <<request, lease, browser, parts, owned, worker, tokens, client, lost, faults>>

\* The finally clause.
Close(s) ==
  /\ s \in Renders
  /\ pc[s] = "close" \/ (left[s] /\ pc[s] \notin {"closed", "over"})
  /\ IF owned[s] THEN UNCHANGED file ELSE Unlink(s)
  /\ parts' = [parts EXCEPT ![s] = 0]
  /\ slot' = slot \ {s}
  /\ Goto(s, IF lease[s] = "none" THEN "over" ELSE "closed")
  /\ UNCHANGED <<request, lease, browser, owned, worker, tokens, client, lost, faults>>

\* The client disconnects: the generator is cancelled, or closed at its yield.
Leave(s) ==
  /\ pc[s] \notin {"idle", "close", "fail", "end", "closed", "over"} /\ ~left[s]
  /\ left' = [left EXCEPT ![s] = TRUE]
  /\ UNCHANGED <<kind, pc, render, output, worker, tokens, client, lost, faults>>

----------------------------------------------------------------------------
(* export_user_data                                                        *)

\* The rows are read, the media listed and the thread submitted.
StartZip(s) ==
  /\ s \in Exports /\ pc[s] = "idle"
  /\ thread' = [thread EXCEPT ![s] = "submitted"]
  /\ Goto(s, "zip")
  /\ UNCHANGED <<request, render, output, stop, tokens, client, lost, faults>>

\* _build_zip creates the file, also after the stream has given up.
ThreadOpens(s) ==
  /\ thread[s] = "submitted"
  /\ thread' = [thread EXCEPT ![s] = "writing"]
  /\ file' = [file EXCEPT ![s] = "partial"]
  /\ UNCHANGED <<pc, request, render, parts, owned, stop, tokens, client, lost, faults>>

\* The last file is in, or the stop event is seen; an unlinked file stays
\* unlinked.
ThreadEnds(s) ==
  /\ thread[s] = "writing"
  /\ thread' = [thread EXCEPT ![s] = "ended"]
  /\ file' = [file EXCEPT ![s] = IF stop[s] \/ @ = "none" THEN @ ELSE "whole"]
  /\ UNCHANGED <<pc, request, render, parts, owned, stop, tokens, client, lost, faults>>

\* A media file that was listed is gone.
ThreadFails(s) ==
  /\ thread[s] = "writing"
  /\ thread' = [thread EXCEPT ![s] = "failed"]
  /\ UNCHANGED <<pc, request, render, output, stop, tokens, client, lost, faults>>

\* _drain_queue returns at the thread's None.
Drained(s) ==
  /\ At(s, "zip") /\ thread[s] = "ended"
  /\ Goto(s, "store")
  /\ UNCHANGED <<request, render, output, worker, tokens, client, lost, faults>>

\* It raises the thread's error, or _EXPORT_TIMEOUT passes.
ZipFails(s) ==
  /\ At(s, "zip")
  /\ Goto(s, "fail")
  /\ UNCHANGED <<request, render, output, worker, tokens, client, lost, faults>>

\* The except clause, up to its error event.
ExportFails(s) ==
  /\ pc[s] = "fail"
  /\ stop' = [stop EXCEPT ![s] = TRUE]
  /\ Unlink(s)
  /\ Goto(s, "end")
  /\ UNCHANGED <<request, render, parts, owned, thread, tokens, client, lost, faults>>

\* The finally clause: a thread that is not finished is told to stop, one that
\* is still in the executor's queue is cancelled.
ExportEnds(s) ==
  /\ s \in Exports
  /\ pc[s] = "end" \/ (left[s] /\ pc[s] # "over")
  /\ stop' = [stop EXCEPT ![s] = @ \/ thread[s] \in {"submitted", "writing"}]
  /\ thread' = [thread EXCEPT ![s] = IF @ = "submitted" THEN "failed" ELSE @]
  /\ Goto(s, "over")
  /\ UNCHANGED <<request, render, output, tokens, client, lost, faults>>

----------------------------------------------------------------------------
(* Tokens: expiry, download, cleanup loop                                  *)

Expire(s) ==
  /\ row[s] /\ ~expired[s]
  /\ expired' = [expired EXCEPT ![s] = TRUE]
  /\ UNCHANGED <<pc, request, render, output, worker, row, swept, client, lost, faults>>

\* pop: DELETE ... RETURNING locks the row, the commit comes later.
Pop(s) ==
  /\ told[s] /\ row[s] /\ get[s] = "none"
  /\ get' = [get EXCEPT ![s] = "deleting"]
  /\ UNCHANGED <<pc, request, render, output, worker, tokens, told, lost, faults>>

\* It is expired: commit, then on_evict.
PopExpired(s) ==
  /\ get[s] = "deleting" /\ expired[s]
  /\ row' = [row EXCEPT ![s] = FALSE]
  /\ get' = [get EXCEPT ![s] = "none"]
  /\ Unlink(s)
  /\ UNCHANGED <<pc, request, render, parts, owned, worker, expired, swept, told, lost, faults>>

\* Mutant: the eviction is no longer under the expiry check.
PopCommit_Evicts(s) ==
  /\ get[s] = "deleting" /\ ~expired[s]
  /\ row' = [row EXCEPT ![s] = FALSE]
  /\ get' = [get EXCEPT ![s] = "serving"]
  /\ Unlink(s)
  /\ UNCHANGED <<pc, request, render, parts, owned, worker, expired, swept, told, lost, faults>>

PopCommit(s) ==
  /\ get[s] = "deleting" /\ ~expired[s]
  /\ row' = [row EXCEPT ![s] = FALSE]
  /\ get' = [get EXCEPT ![s] = "serving"]
  /\ UNCHANGED <<pc, request, render, output, worker, expired, swept, told, lost, faults>>

\* FileResponse, then the background task that unlinks the file.
Serve(s) ==
  /\ get[s] = "serving"
  /\ get' = [get EXCEPT ![s] = IF file[s] = "whole" THEN "served" ELSE "missing"]
  /\ Unlink(s)
  /\ UNCHANGED <<pc, request, render, parts, owned, worker, tokens, told, lost, faults>>

Overdue(kinds) == {s \in Streams : kind[s] \in kinds /\ row[s] /\ expired[s]}
Namespaces == {{"pdf", "chapters"}, {"export"}}

\* cleanup_expired: the files of the expired rows it reads go before the
\* commit.  A row another transaction is deleting is still visible.
Sweep(kinds) ==
  /\ swept \cap Overdue(kinds) = {}
  /\ Overdue(kinds) # {}
  /\ swept' = swept \cup Overdue(kinds)
  /\ file' = [s \in Streams |-> IF s \in Overdue(kinds) THEN "none" ELSE file[s]]
  /\ UNCHANGED <<pc, request, render, parts, owned, worker, row, expired, client, lost, faults>>

\* The commit waits for downloads that hold one of the rows.
SweepCommit(kinds) ==
  LET rows == {s \in swept : kind[s] \in kinds} IN
  /\ rows # {} /\ \A s \in rows : get[s] # "deleting"
  /\ swept' = swept \ rows
  /\ row' = [s \in Streams |-> row[s] /\ s \notin rows]
  /\ UNCHANGED <<pc, request, render, output, worker, expired, client, lost, faults>>

\* The loop logs the error; the rows are found again.
SweepFails(kinds) ==
  LET rows == {s \in swept : kind[s] \in kinds} IN
  /\ rows # {} /\ Fault
  /\ swept' = swept \ rows
  /\ UNCHANGED <<pc, request, render, output, worker, row, expired, client, lost>>

----------------------------------------------------------------------------
\* The process dies: the locks go with its connections, files and rows stay.
Crash ==
  /\ Fault
  /\ lost' = lost \cup {s \in Streams : pc[s] \notin {"idle", "over"} \/ get[s] = "serving"
                                        \/ thread[s] = "writing"}
  /\ pc' = [s \in Streams |-> IF pc[s] = "idle" THEN "idle" ELSE "over"]
  /\ lease' = [s \in Streams |-> "none"] /\ browser' = "none" /\ slot' = {}
  /\ thread' = [s \in Streams |-> IF thread[s] = "none" THEN "none" ELSE "failed"]
  /\ get' = [s \in Streams |-> IF get[s] \in {"deleting", "serving"} THEN "none" ELSE get[s]]
  /\ swept' = {}
  /\ UNCHANGED <<request, output, stop, row, expired, told>>

Step(s) ==
  \/ Acquire(s) \/ LaunchFails(s) \/ Release(s)
  \/ TakeSlot(s) \/ QueueTimeout(s) \/ PrintOpen(s) \/ PrintEnd(s) \/ RenderFails(s)
  \/ Store(s) \/ StoreFails(s) \/ Tell(s) \/ Finish(s) \/ Close(s) \/ Leave(s)
  \/ StartZip(s) \/ ThreadOpens(s) \/ ThreadEnds(s) \/ ThreadFails(s)
  \/ Drained(s) \/ ZipFails(s) \/ ExportFails(s) \/ ExportEnds(s)
  \/ Expire(s) \/ Pop(s) \/ PopExpired(s) \/ PopCommit(s) \/ Serve(s)

Next ==
  \/ \E s \in Streams : Step(s)
  \/ \E kinds \in Namespaces : Sweep(kinds) \/ SweepCommit(kinds) \/ SweepFails(kinds)
  \/ BrowserDies \/ Crash

\* What a stream does by itself.  Nothing bounds the print of a chapter's PDF:
\* there is no timeout around it.
Work(s) ==
  \/ Release(s) \/ Close(s) \/ ExportEnds(s) \/ ExportFails(s)
  \/ TakeSlot(s) \/ QueueTimeout(s) \/ PrintOpen(s)
  \/ ~(kind[s] = "chapters" /\ pc[s] = "print") /\ (PrintEnd(s) \/ RenderFails(s))
  \/ Drained(s) \/ ZipFails(s)
  \/ Store(s) \/ StoreFails(s) \/ Tell(s) \/ Finish(s)

(* Time passes: waits, loads and the print of one PDF are bounded, tokens    *)
(* expire, a download ends, the loop comes round.                            *)
Fairness ==
  /\ \A s \in Streams :
       /\ WF_vars(Work(s))
       /\ WF_vars(Expire(s) \/ PopExpired(s) \/ PopCommit(s))
       /\ WF_vars(Serve(s))
  /\ \A kinds \in Namespaces : WF_vars(Sweep(kinds) \/ SweepCommit(kinds))

Spec == Init /\ [][Next]_vars
FairSpec == Spec /\ Fairness

----------------------------------------------------------------------------
(* Properties                                                              *)

TypeOK ==
  /\ kind \in [Streams -> Kinds]
  /\ pc \in [Streams -> {"idle", "queued", "load", "print", "store", "stored", "told",
                         "close", "closed", "zip", "fail", "end", "over"}]
  /\ left \in [Streams -> BOOLEAN]
  /\ lease \in [Streams -> {"none", "held", "lost"}]
  /\ browser \in {"none", "up", "dead"} /\ slot \subseteq Streams
  /\ file \in [Streams -> {"none", "partial", "whole"}]
  /\ parts \in [Streams -> 0..Parts]
  /\ thread \in [Streams -> {"none", "submitted", "writing", "ended", "failed"}]
  /\ stop \in [Streams -> BOOLEAN]
  /\ row \in [Streams -> BOOLEAN] /\ expired \in [Streams -> BOOLEAN]
  /\ told \in [Streams -> BOOLEAN] /\ owned \in [Streams -> BOOLEAN]
  /\ get \in [Streams -> {"none", "deleting", "serving", "served", "missing"}]
  /\ swept \subseteq Streams /\ lost \subseteq Streams
  /\ faults \in 0..MaxFaults

(* A client that knows a token which has not expired finds the whole file    *)
(* under it, whoever else renders, crashes or is swept: pdf.py takes         *)
(* ownership of the file before the done event.  Except for a ZIP of         *)
(* chapters whose client has left right after the event                      *)
(* (pdf_chapters.py unlinks it), or whose stream a crash cut off.            *)
DeliveredHasFile ==
  \A s \in Streams :
    told[s] /\ row[s] /\ ~expired[s] =>
      \/ file[s] = "whole"
      \/ kind[s] = "chapters" /\ left[s]

(* Two downloads of one token are not served twice, and the one that is      *)
(* served before the expiry gets the file (pop deletes and returns the row   *)
(* in one statement).  A download that straddles the expiry may lose its     *)
(* file to the loop.                                                         *)
DownloadServes ==
  \A s \in Streams :
    get[s] = "missing" => expired[s] \/ (kind[s] = "chapters" /\ left[s])

(* A stream that has ended, well or not, has left nothing behind that nobody *)
(* will ever delete: no slot, no lease, no PDF of a chapter, no file without *)
(* a token.  Not so for an export whose client has left, whose thread was    *)
(* still waiting when it gave up, or what a crash has cut off.               *)
Released ==
  /\ browser # "none" => Leased # {}
  /\ \A s \in Streams : lease[s] = "held" => browser = "up"
  /\ \A s \in Streams : pc[s] = "over" =>
       /\ s \notin slot /\ lease[s] = "none"
       /\ \/ s \in lost
          \/ /\ parts[s] = 0
             /\ file[s] # "none" =>
                  \/ row[s] \/ get[s] = "serving"
                  \/ s \in Exports /\ (left[s] \/ stop[s])

(* A token and its file are gone in the end (the loop, ttl), whatever failed *)
(* in between; and a PDF's stream and an export end, so that their slot and  *)
(* their lease are free again, also when chapters hold every slot for ever.  *)
SettlesDown ==
  \A s \in Streams :
    /\ row[s] ~> (~row[s] /\ (file[s] = "none" \/ s \in lost))
    /\ (kind[s] # "chapters" /\ pc[s] # "idle") ~> pc[s] = "over"
=============================================================================
