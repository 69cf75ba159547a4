------------------------------ MODULE IsoUpload ------------------------------
(***************************************************************************)
(* Uploading ISO files in chunks: the hook of the admin panel that sends   *)
(* them (useContinousFileUpload.tsx) and the API that takes them           *)
(* (file_upload/upload_handler.py and the /iso/upload endpoints).          *)
(*                                                                         *)
(* The client sends start, then one chunk after the other, then complete,  *)
(* and gives up at the first error.  The server keeps a temporary file and *)
(* a timer that deletes it: each chunk cancels the timer when it begins    *)
(* and schedules another when it ends.  All uploads of the model ask for   *)
(* the same name, which only one of them can get.                          *)
(***************************************************************************)
EXTENDS Naturals

CONSTANTS
    Upload,     \* uploads, each with the UUID that start gave it
    Chunks,     \* chunks of a file
    NoFile      \* the file does not exist

ASSUME UploadAssumption == Chunks \in Nat /\ \A file \in SUBSET (1..Chunks) : file # NoFile

Chunk == 1..Chunks
File == (SUBSET Chunk) \cup {NoFile}    \* the chunks a file contains

VARIABLES
    client,     \* the request a client is waiting for; next: its chunk
    server,     \* the request as it came, what is done for it, the response
    entry,      \* the timer in waiting_requests, dead when it was cancelled
    orphans,    \* history: timers overwritten while they ran, counted up to two
    stranded,   \* history: nothing is left that would remove the temporary file
    temp,       \* <uuid>.iso.temp
    final,      \* <uuid>.iso
    record      \* the row in iso_files exists

vars == <<client, server, entry, orphans, stranded, temp, final, record>>

Asked == {"start", "chunk", "complete"}

Client == [pc : Asked \cup {"idle", "done", "failed"}, next : 1..Chunks + 1]

TypeOK ==
    /\ client \in [Upload -> Client]
    /\ server \in [Upload -> Asked \cup {"none", "streaming", "writing", "ok", "error"}]
    /\ entry \in [Upload -> {"none", "armed", "dead"}]
    /\ orphans \in [Upload -> 0..2] /\ stranded \in [Upload -> BOOLEAN]
    /\ temp \in [Upload -> File] /\ final \in [Upload -> File]
    /\ record \in [Upload -> BOOLEAN]

Init ==
    /\ client = [u \in Upload |-> [pc |-> "idle", next |-> 1]]
    /\ server = [u \in Upload |-> "none"]
    /\ entry = [u \in Upload |-> "none"] /\ orphans = [u \in Upload |-> 0]
    /\ stranded = [u \in Upload |-> FALSE]
    /\ temp = [u \in Upload |-> NoFile] /\ final = [u \in Upload |-> NoFile]
    /\ record = [u \in Upload |-> FALSE]

-----------------------------------------------------------------------------
(* The client.                                                              *)

\* The loop of the hook: start before the first chunk, complete after the last.
Request(next) ==
    IF next = 0 THEN "start" ELSE IF next <= Chunks THEN "chunk" ELSE "complete"

Ask(u, next) ==
    /\ client' = [client EXCEPT ![u] = [pc |-> Request(next),
                                       next |-> IF next = 0 THEN 1 ELSE next]]
    /\ server' = [server EXCEPT ![u] = Request(next)]
    /\ UNCHANGED <<entry, orphans, stranded, temp, final, record>>

\* The form of the import modal is submitted.  (It refuses names that were in the library
\* when the modal was mounted; the name here is one that was not.)
Begin(u) ==
    /\ client[u].pc = "idle"
    /\ Ask(u, 0)

\* A response of 200, and the next request if there is one.
Continue(u) ==
    /\ client[u].pc \in Asked /\ server[u] = "ok"
    /\ CASE client[u].pc = "start" -> Ask(u, 1)
         [] client[u].pc = "chunk" -> Ask(u, client[u].next + 1)
         [] OTHER -> /\ client' = [client EXCEPT ![u].pc = "done"]
                     /\ server' = [server EXCEPT ![u] = "none"]
                     /\ UNCHANGED <<entry, orphans, stranded, temp, final, record>>

\* An error, a lost response, or the user who closes the notification.  What the
\* server has begun it goes on with.
GiveUp(u) ==
    /\ client[u].pc \in Asked
    /\ client' = [client EXCEPT ![u].pc = "failed"]
    /\ server' = [server EXCEPT ![u] = IF @ \in {"ok", "error"} THEN "none" ELSE @]
    /\ UNCHANGED <<entry, orphans, stranded, temp, final, record>>

-----------------------------------------------------------------------------
(* The timers.  The disk may refuse any of its operations; what is not      *)
(* removed or renamed then stays where it is.                               *)

\* _schedule_deletion overwrites the entry, whatever it holds.
Schedule(u) ==
    /\ entry' = [entry EXCEPT ![u] = "armed"]
    /\ orphans' = [orphans EXCEPT ![u] = IF entry[u] = "armed" /\ @ < 2 THEN @ + 1 ELSE @]
    /\ stranded' = [stranded EXCEPT ![u] = FALSE]

\* _cancel_deletion cancels the timer of the entry, and leaves it there.
Cancel(u) == entry' = [entry EXCEPT ![u] = IF @ = "armed" THEN "dead" ELSE @]

\* os.remove of the temporary file.
Remove(u) == temp' = [temp EXCEPT ![u] = NoFile] /\ UNCHANGED stranded

\* os.remove or os.rename raises: the file stays, and no timer runs.
Strand(u) == stranded' = [stranded EXCEPT ![u] = TRUE] /\ UNCHANGED temp

\* _delayed_delation wakes up, deletes the file if there is one, and pops the entry; if
\* the file cannot be deleted the entry stays, of a task that is done.
Expire(u) ==
    /\ entry[u] = "armed"
    /\ \/ Remove(u) /\ entry' = [entry EXCEPT ![u] = "none"]
       \/ temp[u] # NoFile /\ Strand(u) /\ entry' = [entry EXCEPT ![u] = "dead"]
    /\ UNCHANGED <<client, server, orphans, final, record>>

-----------------------------------------------------------------------------
(* The server.  A request that nobody waits for any more is served as well. *)

\* The answer; it is lost when the client has given up.
Reply(u, answer) ==
    server' = [server EXCEPT ![u] = IF client[u].pc = "failed" THEN "none" ELSE answer]

\* The timer is scheduled before the file is created, which may fail.
StartUpload(u) ==
    /\ server[u] = "start"
    /\ Schedule(u)
    /\ \/ temp' = [temp EXCEPT ![u] = {}] /\ Reply(u, "ok")
       \/ UNCHANGED temp /\ Reply(u, "error")
    /\ UNCHANGED <<client, final, record>>

\* Authentication, the permission or the headers fail: nothing has happened yet.
Refuse(u) ==
    /\ server[u] \in Asked
    /\ Reply(u, "error")
    /\ UNCHANGED <<client, entry, orphans, stranded, temp, final, record>>

\* append_chunk if it left the timer running.
ChunkBeginsUnguarded(u) ==
    /\ server[u] = "chunk"
    /\ server' = [server EXCEPT ![u] = "streaming"]
    /\ UNCHANGED <<client, entry, orphans, stranded, temp, final, record>>

\* append_chunk up to its first await.
ChunkBegins(u) ==
    /\ server[u] = "chunk"
    /\ Cancel(u)
    /\ server' = [server EXCEPT ![u] = "streaming"]
    /\ UNCHANGED <<client, orphans, stranded, temp, final, record>>

\* on_start of the target finds the file and opens it.
ChunkOpens(u) ==
    /\ server[u] = "streaming" /\ temp[u] # NoFile
    /\ server' = [server EXCEPT ![u] = "writing"]
    /\ UNCHANGED <<client, entry, orphans, stranded, temp, final, record>>

\* The stream has ended: the chunk is in the file, if that still has its name.
ChunkEnds(u) ==
    /\ server[u] = "writing"
    /\ temp' = [temp EXCEPT ![u] = IF @ = NoFile THEN NoFile ELSE @ \cup {client[u].next}]
    /\ Schedule(u)
    /\ Reply(u, "ok")
    /\ UNCHANGED <<client, final, record>>

\* The error handler if it left the temporary file to the timer.
ChunkFailsKeeping(u) ==
    /\ server[u] \in {"streaming", "writing"}
    /\ Reply(u, "error")
    /\ UNCHANGED <<client, entry, orphans, stranded, temp, final, record>>

\* The error handler if it answered as if nothing had happened.
ChunkFailsSilently(u) ==
    /\ server[u] \in {"streaming", "writing"} /\ temp[u] # NoFile
    /\ Schedule(u)
    /\ Reply(u, "ok")
    /\ UNCHANGED <<client, temp, final, record>>

\* No such file, a disconnected client, too much data, a disk error: the handler
\* removes the file if there is one, and schedules nothing.
ChunkFails(u) ==
    /\ server[u] \in {"streaming", "writing"}
    /\ Remove(u) \/ (temp[u] # NoFile /\ Strand(u))
    /\ Reply(u, "error")
    /\ UNCHANGED <<client, entry, orphans, final, record>>

NameTaken == \E u \in Upload : record[u]

\* complete, without an await: the name, the file, the timer, the rename, the row.
Complete(u) ==
    /\ server[u] = "complete"
    /\ ~NameTaken /\ temp[u] # NoFile
    /\ Cancel(u)
    /\ \/ /\ final' = [final EXCEPT ![u] = temp[u]] /\ Remove(u)
          /\ \/ record' = [record EXCEPT ![u] = TRUE] /\ Reply(u, "ok")
             \/ UNCHANGED record /\ Reply(u, "error")
       \/ Strand(u) /\ Reply(u, "error") /\ UNCHANGED <<final, record>>
    /\ UNCHANGED <<client, orphans>>

CompleteFails(u) ==
    /\ server[u] = "complete"
    /\ NameTaken \/ temp[u] = NoFile
    /\ Reply(u, "error")
    /\ UNCHANGED <<client, entry, orphans, stranded, temp, final, record>>

\* DELETE /iso/delete: the file first, then the row, which may fail.
DeleteIso(u) ==
    /\ record[u]
    /\ final' = [final EXCEPT ![u] = NoFile]
    /\ record' \in {record, [record EXCEPT ![u] = FALSE]}
    /\ UNCHANGED <<client, server, entry, orphans, stranded, temp>>

\* The process restarts: requests and timers are gone, the files are not.
Restart ==
    /\ server' = [u \in Upload |-> IF client[u].pc \in Asked THEN "error" ELSE "none"]
    /\ entry' = [u \in Upload |-> "none"] /\ orphans' = [u \in Upload |-> 0]
    /\ stranded' = [u \in Upload |-> temp[u] # NoFile]
    /\ UNCHANGED <<client, temp, final, record>>

-----------------------------------------------------------------------------
Handle(u) ==
    \/ StartUpload(u) \/ Refuse(u) \/ ChunkBegins(u) \/ ChunkOpens(u) \/ ChunkEnds(u)
    \/ ChunkFails(u) \/ Complete(u) \/ CompleteFails(u)

Serve == \E u \in Upload :
    Begin(u) \/ Continue(u) \/ GiveUp(u) \/ Handle(u) \/ Expire(u) \/ DeleteIso(u)

Next == Serve \/ Restart

Spec == Init /\ [][Next]_vars

\* Nothing is asked of the clients.  A timer fires when its time has come, and a
\* stream ends or breaks.
FairSpec == Spec /\ \A u \in Upload : WF_vars(Handle(u)) /\ WF_vars(Expire(u))
-----------------------------------------------------------------------------
(* Properties.                                                              *)

\* The endpoints never look at what a file contains; that a recorded ISO has all
\* of its chunks follows from the client's loop, the timers and the error handler
\* together, also when clients give up, files expire and the server restarts.
RecordedFileIsComplete ==
    \A u \in Upload : record[u] /\ final[u] # NoFile => final[u] = Chunk

\* A timer and a chunk never work on one file: the timer runs only between the requests,
\* it is the one in waiting_requests, and where there is no file for it the upload was
\* answered with an error before its first chunk.  And no file is left to nobody: one for
\* which no timer runs is being written to, unless a restart forgot it or the disk refused
\* to remove or rename it when that was tried.
TimerGuardsIdleFile ==
    \A u \in Upload :
        /\ orphans[u] = 0
        /\ entry[u] = "armed" =>
              /\ server[u] \notin {"streaming", "writing"}
              /\ temp[u] = NoFile =>
                    client[u].pc \in {"start", "failed"} /\ client[u].next = 1 /\ server[u] # "ok"
        /\ temp[u] # NoFile /\ entry[u] # "armed" =>
              server[u] \in {"streaming", "writing"} \/ stranded[u]

\* Wherever its client stops, an upload never leaves a temporary file behind, unless a
\* restart, which forgets waiting_requests and looks for no files, or a disk that refuses
\* to remove or rename it strands it.
TempReclaimed ==
    \A u \in Upload : temp[u] # NoFile ~> temp[u] = NoFile \/ stranded[u]
=============================================================================
