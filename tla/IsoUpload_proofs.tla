---------------------------- MODULE IsoUpload_proofs ----------------------------
(***************************************************************************)
(* Theorems about IsoUpload: its type invariant, that the file of a        *)
(* recorded ISO has all of its chunks, and that a timer and a chunk never  *)
(* work on one file, nor leave it to nobody.  They hold for any uploads,   *)
(* of any number of chunks.                                                *)
(***************************************************************************)
EXTENDS IsoUpload, TLAPS

Writing == {"chunk", "streaming", "writing"}

\* Who waits for what: a request that is served is the one the client waits for, or waited
\* for when it gave up.
Matched(u) ==
    /\ server[u] = "start" => client[u].pc \in {"start", "failed"}
    /\ server[u] \in Writing => client[u].pc \in {"chunk", "failed"}
    /\ server[u] = "complete" => client[u].pc \in {"complete", "failed"}
    /\ server[u] \in {"ok", "error"} => client[u].pc \in Asked
    /\ client[u].pc = "idle" => server[u] = "none" /\ entry[u] # "armed"

\* What the temporary file holds when it is there: the chunks before the one that is
\* sent, all of them when they are complete, and that one too when it was answered.
Held(u) ==
    /\ server[u] = "start" => entry[u] # "armed" /\ client[u].next = 1
    /\ server[u] \in Writing =>
          client[u].next <= Chunks /\ (temp[u] # NoFile => temp[u] = 1 .. client[u].next - 1)
    /\ server[u] = "complete" => (temp[u] # NoFile => temp[u] = Chunk)
    /\ server[u] = "ok" /\ client[u].pc = "start" => (temp[u] # NoFile => temp[u] = {})
    /\ server[u] = "ok" /\ client[u].pc = "chunk" =>
          client[u].next <= Chunks /\ (temp[u] # NoFile => temp[u] = 1 .. client[u].next)
    /\ server[u] = "writing" => temp[u] # NoFile
    /\ final[u] # NoFile => final[u] = Chunk

\* What TimerGuardsIdleFile says of an upload with this request, timer and file.
Cared(u, s, e, x, t) ==
    /\ e = "armed" =>
          /\ s \notin {"streaming", "writing"}
          /\ t = NoFile => client[u].pc \in {"start", "failed"} /\ client[u].next = 1 /\ s # "ok"
    /\ t # NoFile /\ e # "armed" => s \in {"streaming", "writing"} \/ x

Guarded(u) == orphans[u] = 0 /\ Cared(u, server[u], entry[u], stranded[u], temp[u])

UploadInv == TypeOK /\ \A u \in Upload : Matched(u) /\ Held(u) /\ Guarded(u)

\* Of an upload whose variables do not change, nothing does.
LEMMA Untouched ==
    ASSUME NEW v \in Upload, Matched(v), Held(v), Guarded(v),
           client'[v] = client[v], server'[v] = server[v], entry'[v] = entry[v],
           orphans'[v] = orphans[v], stranded'[v] = stranded[v], temp'[v] = temp[v], final'[v] = final[v]
    PROVE  Matched(v)' /\ Held(v)' /\ Guarded(v)'
  BY DEF Matched, Held, Guarded, Cared

\* The shape of what one upload has.
LEMMA Typed ==
    ASSUME TypeOK, NEW u \in Upload
    PROVE  /\ client[u] \in Client /\ client[u].pc \in Asked \cup {"idle", "done", "failed"}
           /\ client[u].next \in 1 .. Chunks + 1 /\ client[u].next \in Nat
           /\ server[u] \in Asked \cup {"none", "streaming", "writing", "ok", "error"}
           /\ entry[u] \in {"none", "armed", "dead"} /\ stranded[u] \in BOOLEAN
           /\ temp[u] \in File /\ final[u] \in File
<1>1. client[u] \in Client
  BY DEF TypeOK
<1>2. client[u].pc \in Asked \cup {"idle", "done", "failed"} /\ client[u].next \in 1 .. Chunks + 1
  BY <1>1, SMT DEF Client
<1>3. QED
  BY <1>1, <1>2 DEF TypeOK

LEMMA UploadInit == Init => UploadInv
<1> SUFFICES ASSUME Init PROVE UploadInv
  OBVIOUS
<1>1. [pc |-> "idle", next |-> 1] \in Client
  BY UploadAssumption DEF Client
<1>2. TypeOK
  BY <1>1 DEF Init, TypeOK, File
<1>3. ASSUME NEW u \in Upload PROVE Matched(u) /\ Held(u) /\ Guarded(u)
  <2>1. /\ client[u].pc = "idle" /\ server[u] = "none" /\ entry[u] = "none" /\ orphans[u] = 0
        /\ temp[u] = NoFile /\ final[u] = NoFile
    BY DEF Init
  <2>2. QED
    BY <2>1 DEF Matched, Held, Guarded, Cared, Writing, Asked
<1>4. QED
  BY <1>2, <1>3 DEF UploadInv

-----------------------------------------------------------------------------
(* The client.                                                              *)

LEMMA AskKeeps ==
    ASSUME UploadInv, NEW u \in Upload, NEW next \in 0 .. Chunks + 1, Ask(u, next),
           next = 0 => entry[u] # "armed",
           next > 0 => (temp[u] # NoFile => temp[u] = 1 .. next - 1),
           next > 0 => ~(entry[u] = "armed" /\ temp[u] = NoFile),
           server[u] \notin {"streaming", "writing"}
    PROVE  UploadInv'
<1> DEFINE n == IF next = 0 THEN 1 ELSE next
           c == [pc |-> Request(next), next |-> n]
<1>1. /\ client' = [client EXCEPT ![u] = c] /\ server' = [server EXCEPT ![u] = Request(next)]
      /\ UNCHANGED <<entry, orphans, stranded, temp, final, record>>
  BY DEF Ask
<1>2. Request(next) \in Asked /\ n \in 1 .. Chunks + 1 /\ c.pc = Request(next) /\ c.next = n
  BY UploadAssumption DEF Request, Asked
<1>3. c \in Client
  BY <1>2, SMT DEF Client
<1> HIDE DEF c
<1>4. client'[u] = c /\ server'[u] = Request(next)
  BY <1>1 DEF UploadInv, TypeOK
<1>5. TypeOK'
  BY <1>1, <1>2, <1>3 DEF UploadInv, TypeOK
<1>6. Matched(u)' /\ Held(u)' /\ Guarded(u)'
  <2>1. CASE next = 0
    <3>1. Request(next) = "start"
      BY <2>1 DEF Request
    <3>2. QED
      BY <1>1, <1>2, <1>4, <2>1, <3>1 DEF UploadInv, Matched, Held, Guarded, Cared, Writing, Asked
  <2>2. CASE next > 0 /\ next <= Chunks
    <3>1. Request(next) = "chunk" /\ n = next
      BY <2>2 DEF Request
    <3>2. QED
      BY <1>1, <1>2, <1>4, <2>2, <3>1 DEF UploadInv, Matched, Held, Guarded, Cared, Writing, Asked
  <2>3. CASE next > Chunks /\ next > 0
    <3>1. Request(next) = "complete" /\ next - 1 = Chunks
      BY <2>3, UploadAssumption DEF Request
    <3>2. QED
      BY <1>1, <1>2, <1>4, <2>3, <3>1 DEF UploadInv, Matched, Held, Guarded, Cared, Writing, Asked, Chunk
  <2>4. QED
    BY <2>1, <2>2, <2>3, UploadAssumption
<1>7. ASSUME NEW v \in Upload, v # u PROVE Matched(v)' /\ Held(v)' /\ Guarded(v)'
  BY <1>1, <1>7, Untouched DEF UploadInv, TypeOK
<1>8. QED
  BY <1>5, <1>6, <1>7 DEF UploadInv

LEMMA ClientKeeps ==
    ASSUME UploadInv, NEW u \in Upload, Begin(u) \/ Continue(u) \/ GiveUp(u)
    PROVE  UploadInv'
<1>1. CASE Begin(u)
  <2>1. Ask(u, 0) /\ client[u].pc = "idle"
    BY <1>1 DEF Begin
  <2>2. server[u] = "none" /\ entry[u] # "armed"
    BY <2>1 DEF UploadInv, Matched
  <2>3. QED
    BY <2>1, <2>2, AskKeeps, UploadAssumption
<1>2. CASE Continue(u)
  <2>1. client[u].pc \in Asked /\ server[u] = "ok"
    BY <1>2 DEF Continue
  <2>0. ~(entry[u] = "armed" /\ temp[u] = NoFile)
    BY <2>1 DEF UploadInv, Guarded, Cared
  <2>2. CASE client[u].pc = "start"
    <3> DEFINE one == 1
    <3>1. Ask(u, one)
      BY <1>2, <2>2 DEF Continue
    <3>2. temp[u] # NoFile => temp[u] = 1 .. one - 1
      BY <2>1, <2>2 DEF UploadInv, Held
    <3>3. one \in 0 .. Chunks + 1 /\ one # 0
      BY UploadAssumption
    <3> HIDE DEF one
    <3>4. QED
      BY <2>0, <2>1, <3>1, <3>2, <3>3, AskKeeps
  <2>3. CASE client[u].pc = "chunk"
    <3>1. Ask(u, client[u].next + 1)
      BY <1>2, <2>3 DEF Continue
    <3>2. client[u].next <= Chunks /\ (temp[u] # NoFile => temp[u] = 1 .. client[u].next)
      BY <2>1, <2>3 DEF UploadInv, Held
    <3>3. client[u].next \in Nat /\ (client[u].next + 1) - 1 = client[u].next
      BY Typed DEF UploadInv
    <3>4. client[u].next + 1 \in 0 .. Chunks + 1 /\ client[u].next + 1 > 0
      BY <3>2, <3>3, UploadAssumption
    <3>5. QED
      BY <2>0, <2>1, <3>1, <3>2, <3>3, <3>4, AskKeeps
  <2>4. CASE client[u].pc = "complete"
    <3>1. /\ client' = [client EXCEPT ![u].pc = "done"] /\ server' = [server EXCEPT ![u] = "none"]
          /\ UNCHANGED <<entry, orphans, stranded, temp, final, record>>
      BY <1>2, <2>4 DEF Continue
    <3>2. TypeOK' /\ client'[u].pc = "done" /\ server'[u] = "none"
      BY <3>1 DEF UploadInv, TypeOK, Client
    <3>3. Matched(u)' /\ Held(u)' /\ Guarded(u)'
      BY <2>0, <2>1, <3>1, <3>2 DEF UploadInv, Matched, Held, Guarded, Cared, Writing, Asked
    <3>4. ASSUME NEW v \in Upload, v # u PROVE Matched(v)' /\ Held(v)' /\ Guarded(v)'
      BY <3>1, <3>4, Untouched DEF UploadInv, TypeOK
    <3>5. QED
      BY <3>2, <3>3, <3>4 DEF UploadInv
  <2>5. QED
    BY <2>1, <2>2, <2>3, <2>4 DEF Asked
<1>3. CASE GiveUp(u)
  <2>1. /\ client' = [client EXCEPT ![u].pc = "failed"]
        /\ server' = [server EXCEPT ![u] = IF @ \in {"ok", "error"} THEN "none" ELSE @]
        /\ UNCHANGED <<entry, orphans, stranded, temp, final, record>>
    BY <1>3 DEF GiveUp
  <2>2. TypeOK' /\ client'[u].pc = "failed" /\ client'[u].next = client[u].next
    BY <2>1 DEF UploadInv, TypeOK, Client
  <2>3. server'[u] = "none" \/ (server'[u] = server[u] /\ server[u] \notin {"ok", "error"})
    BY <2>1 DEF UploadInv, TypeOK
  <2>4. Matched(u)' /\ Held(u)' /\ Guarded(u)'
    BY <2>1, <2>2, <2>3 DEF UploadInv, Matched, Held, Guarded, Cared, Writing, Asked
  <2>5. ASSUME NEW v \in Upload, v # u PROVE Matched(v)' /\ Held(v)' /\ Guarded(v)'
    BY <2>1, <2>5, Untouched DEF UploadInv, TypeOK
  <2>6. QED
    BY <2>2, <2>4, <2>5 DEF UploadInv
<1>4. QED
  BY <1>1, <1>2, <1>3

-----------------------------------------------------------------------------
(* The server.                                                              *)

\* A step of the server about one upload, whose client does not move.
LEMMA StepKeeps ==
    ASSUME UploadInv, NEW u \in Upload,
           NEW s \in Asked \cup {"none", "streaming", "writing", "ok", "error"},
           NEW e \in {"none", "armed", "dead"}, NEW x \in BOOLEAN, NEW t \in File, NEW f \in File,
           UNCHANGED client, record' \in [Upload -> BOOLEAN],
           server' = [server EXCEPT ![u] = s], entry' = [entry EXCEPT ![u] = e],
           orphans' = orphans, stranded' = [stranded EXCEPT ![u] = x], temp' = [temp EXCEPT ![u] = t], final' = [final EXCEPT ![u] = f],
           server'[u] = s /\ entry'[u] = e /\ temp'[u] = t /\ final'[u] = f =>
               Matched(u)' /\ Held(u)' ,
           Cared(u, s, e, x, t)
    PROVE  UploadInv'
<1>1. /\ server'[u] = s /\ entry'[u] = e /\ temp'[u] = t /\ final'[u] = f
      /\ stranded'[u] = x /\ client'[u] = client[u]
  BY DEF UploadInv, TypeOK
<1>2. TypeOK'
  BY DEF UploadInv, TypeOK
<1>3. Guarded(u)'
  BY <1>1 DEF UploadInv, Guarded, Cared
<1>4. ASSUME NEW v \in Upload, v # u PROVE Matched(v)' /\ Held(v)' /\ Guarded(v)'
  BY <1>4, Untouched DEF UploadInv, TypeOK
<1>5. QED
  BY <1>1, <1>2, <1>3, <1>4 DEF UploadInv

\* The answer, unless nobody waits for it.
Answer(u, answer) == IF client[u].pc = "failed" THEN "none" ELSE answer

\* What does not change is what StepKeeps has of it.
LEMMA Same ==
    ASSUME UploadInv, NEW u \in Upload
    PROVE  /\ server = [server EXCEPT ![u] = server[u]] /\ entry = [entry EXCEPT ![u] = entry[u]]
           /\ temp = [temp EXCEPT ![u] = temp[u]] /\ final = [final EXCEPT ![u] = final[u]]
           /\ record \in [Upload -> BOOLEAN]
           /\ orphans[u] = 0 /\ orphans = [orphans EXCEPT ![u] = 0]
           /\ stranded[u] \in BOOLEAN /\ stranded = [stranded EXCEPT ![u] = stranded[u]]
  BY DEF UploadInv, TypeOK, Guarded

\* os.remove, which the disk may refuse: the file is gone, or it is there and stranded.
LEMMA Removed ==
    ASSUME UploadInv, NEW u \in Upload, Remove(u) \/ (temp[u] # NoFile /\ Strand(u))
    PROVE  \E t \in {NoFile, temp[u]}, x \in BOOLEAN :
              /\ temp' = [temp EXCEPT ![u] = t] /\ stranded' = [stranded EXCEPT ![u] = x]
              /\ t # NoFile => x
              /\ Strand(u) => x
<1>1. CASE Strand(u)
  BY <1>1, Same DEF Strand
<1>2. CASE Remove(u) /\ ~Strand(u)
  BY <1>2, Same DEF Remove
<1>3. QED
  BY <1>1, <1>2

LEMMA TimerKeeps ==
    ASSUME UploadInv, NEW u \in Upload, Expire(u)
    PROVE  UploadInv'
<1>1. entry[u] = "armed" /\ UNCHANGED <<client, server, orphans, final, record>>
  BY DEF Expire
<1>2. server[u] \notin {"streaming", "writing"}
  BY <1>1 DEF UploadInv, Guarded, Cared
<1>3. PICK e \in {"none", "dead"} : entry' = [entry EXCEPT ![u] = e]
  BY DEF Expire
<1>4. Remove(u) \/ (temp[u] # NoFile /\ Strand(u))
  BY DEF Expire
<1>5. PICK t \in {NoFile, temp[u]}, x \in BOOLEAN :
          /\ temp' = [temp EXCEPT ![u] = t] /\ stranded' = [stranded EXCEPT ![u] = x]
          /\ t # NoFile => x
  BY <1>4, Removed
<1>6. ASSUME entry'[u] = e, temp'[u] = t PROVE Matched(u)' /\ Held(u)'
  BY <1>1, <1>2, <1>3, <1>5, <1>6 DEF UploadInv, Matched, Held, Writing
<1>7. /\ t \in File /\ server[u] \in Asked \cup {"none", "streaming", "writing", "ok", "error"}
      /\ final[u] \in File
  BY <1>5, Typed DEF UploadInv, File
<1> DEFINE s == server[u]
           f == final[u]
<1>8. /\ server' = [server EXCEPT ![u] = s] /\ final' = [final EXCEPT ![u] = f]
      /\ s \in Asked \cup {"none", "streaming", "writing", "ok", "error"} /\ f \in File
  BY <1>1, <1>7, Same
<1>9. /\ record' \in [Upload -> BOOLEAN] /\ e \in {"none", "armed", "dead"} /\ e # "armed"
      /\ UNCHANGED <<client, orphans>>
  BY <1>1, <1>3, Same
<1>10. Cared(u, s, e, x, t)
  BY <1>5, <1>9 DEF Cared
<1> HIDE DEF s, f
<1>11. QED
  BY <1>3, <1>5, <1>6, <1>7, <1>8, <1>9, <1>10, StepKeeps

\* A request that fails: the temporary file goes when a chunk was being written.
LEMMA FailKeeps ==
    ASSUME UploadInv, NEW u \in Upload, Refuse(u) \/ ChunkFails(u) \/ CompleteFails(u)
    PROVE  UploadInv'
<1> DEFINE s == Answer(u, "error")
<1>1. s \in {"none", "error"} /\ (s = "error" => client[u].pc # "failed")
  BY DEF Answer
<1>2. /\ server[u] \in Asked \cup {"streaming", "writing"} /\ server' = [server EXCEPT ![u] = s]
      /\ UNCHANGED <<client, entry, orphans, final, record>>
  BY DEF Refuse, ChunkFails, CompleteFails, Reply, Answer, Asked
<1> HIDE DEF s
<1>3. s = "error" => client[u].pc \in Asked
  BY <1>1, <1>2 DEF UploadInv, Matched, Writing, Asked
<1>4. client[u].pc # "idle"
  BY <1>2 DEF UploadInv, Matched, Asked
<1>5. /\ NoFile \in File /\ temp[u] \in File /\ final[u] \in File /\ entry[u] \in {"none", "armed", "dead"}
      /\ s \in Asked \cup {"none", "streaming", "writing", "ok", "error"}
  BY <1>1, Typed DEF UploadInv, File
<1>6. PICK t \in {NoFile, temp[u]}, x \in BOOLEAN :
          /\ temp' = [temp EXCEPT ![u] = t] /\ stranded' = [stranded EXCEPT ![u] = x]
          /\ ChunkFails(u) => (t # NoFile => x)
          /\ ~ChunkFails(u) => t = temp[u] /\ x = stranded[u]
  <2>1. CASE ChunkFails(u)
    BY <2>1, Removed DEF ChunkFails
  <2>2. CASE ~ChunkFails(u)
    BY <2>2, Same DEF Refuse, CompleteFails
  <2>3. QED
    BY <2>1, <2>2
<1>7. t \in File
  BY <1>5, <1>6
<1>8. ASSUME server'[u] = s, temp'[u] = t PROVE Matched(u)' /\ Held(u)'
  BY <1>1, <1>2, <1>3, <1>4, <1>6, <1>8 DEF UploadInv, Matched, Held, Writing, Asked
<1> DEFINE e == entry[u]
           f == final[u]
<1>9. /\ final' = [final EXCEPT ![u] = f] /\ entry' = [entry EXCEPT ![u] = e]
      /\ record' \in [Upload -> BOOLEAN] /\ e \in {"none", "armed", "dead"} /\ f \in File
      /\ UNCHANGED <<client, orphans>> /\ server' = [server EXCEPT ![u] = s]
  BY <1>2, <1>5, Same
<1>10. CASE ChunkFails(u)
  <2>1. server[u] \in {"streaming", "writing"}
    BY <1>10 DEF ChunkFails
  <2>2. Cared(u, s, e, x, t)
    BY <1>6, <1>10, <2>1 DEF UploadInv, Guarded, Cared
  <2> HIDE DEF e, f
  <2>3. QED
    BY <1>5, <1>6, <1>7, <1>8, <1>9, <2>2, StepKeeps
<1>11. CASE ~ChunkFails(u)
  <2>1. server[u] \in Asked
    BY <1>11 DEF Refuse, CompleteFails, Asked
  <2>2. Cared(u, s, e, x, t)
    BY <1>1, <1>6, <1>11, <2>1 DEF UploadInv, Guarded, Cared, Asked
  <2> HIDE DEF e, f
  <2>3. QED
    BY <1>5, <1>6, <1>7, <1>8, <1>9, <2>2, StepKeeps
<1>12. QED
  BY <1>10, <1>11

LEMMA StartKeeps ==
    ASSUME UploadInv, NEW u \in Upload, StartUpload(u)
    PROVE  UploadInv'
<1>1. PICK answer \in {"ok", "error"}, t \in {{}, temp[u]} :
          /\ server' = [server EXCEPT ![u] = Answer(u, answer)] /\ temp' = [temp EXCEPT ![u] = t]
          /\ answer = "ok" => t = {}
          /\ answer = "error" => t = temp[u]
  BY Same DEF StartUpload, Reply, Answer
<1> DEFINE s == Answer(u, answer)
<1>2. s \in {"none", "ok", "error"} /\ (s # "none" => client[u].pc # "failed" /\ s = answer)
  BY DEF Answer
<1>3. server[u] = "start" /\ server' = [server EXCEPT ![u] = s] /\ Schedule(u) /\ UNCHANGED <<client, final, record>>
  BY <1>1 DEF StartUpload
<1> HIDE DEF s
<1>4. entry[u] # "armed" /\ client[u].pc \in {"start", "failed"} /\ client[u].next = 1
  BY <1>3 DEF UploadInv, Held, Matched
<1>5. /\ entry' = [entry EXCEPT ![u] = "armed"] /\ orphans' = orphans
      /\ stranded' = [stranded EXCEPT ![u] = FALSE]
  BY <1>3, <1>4, Same DEF Schedule, UploadInv, TypeOK
<1>6. /\ {} \in File /\ {} # NoFile /\ t \in File /\ final[u] \in File
      /\ s \in Asked \cup {"none", "streaming", "writing", "ok", "error"}
  BY <1>1, <1>2, Typed, UploadAssumption DEF UploadInv, File, Chunk
<1>7. ASSUME server'[u] = s, entry'[u] = "armed", temp'[u] = t PROVE Matched(u)' /\ Held(u)'
  BY <1>1, <1>2, <1>3, <1>4, <1>7 DEF UploadInv, Matched, Held, Writing, Asked
<1>8. Cared(u, s, "armed", FALSE, t)
  BY <1>1, <1>2, <1>4, <1>6 DEF Cared
<1> DEFINE f == final[u]
<1>9. /\ final' = [final EXCEPT ![u] = f] /\ f \in File /\ record' \in [Upload -> BOOLEAN]
      /\ UNCHANGED <<client, orphans>> /\ server' = [server EXCEPT ![u] = s]
      /\ temp' = [temp EXCEPT ![u] = t]
  BY <1>1, <1>3, <1>5, <1>6, Same
<1> HIDE DEF f
<1> DEFINE e == "armed"
           x == FALSE
<1>10. e \in {"none", "armed", "dead"} /\ x \in BOOLEAN /\ e = "armed"
  OBVIOUS
<1>11. entry' = [entry EXCEPT ![u] = e] /\ stranded' = [stranded EXCEPT ![u] = x] /\ Cared(u, s, e, x, t)
  BY <1>5, <1>8
<1> HIDE DEF e, x
<1>12. QED
  BY <1>6, <1>7, <1>9, <1>10, <1>11, StepKeeps

LEMMA ChunkKeeps ==
    ASSUME UploadInv, NEW u \in Upload, ChunkBegins(u) \/ ChunkOpens(u) \/ ChunkEnds(u)
    PROVE  UploadInv'
<1>1. CASE ChunkBegins(u)
  <2> DEFINE e == IF entry[u] = "armed" THEN "dead" ELSE entry[u]
  <2>1. /\ server[u] = "chunk" /\ server' = [server EXCEPT ![u] = "streaming"]
        /\ entry' = [entry EXCEPT ![u] = e] /\ UNCHANGED <<client, orphans, stranded, temp, final, record>>
    BY <1>1 DEF ChunkBegins, Cancel
  <2>2. e \in {"none", "armed", "dead"} /\ e # "armed" /\ temp[u] \in File /\ final[u] \in File
    BY Typed DEF UploadInv
  <2> HIDE DEF e
  <2>3. ASSUME server'[u] = "streaming" PROVE Matched(u)' /\ Held(u)'
    BY <2>1, <2>3 DEF UploadInv, Matched, Held, Writing
  <2> DEFINE t == temp[u]
             f == final[u]
             x == stranded[u]
  <2>4. /\ temp' = [temp EXCEPT ![u] = t] /\ final' = [final EXCEPT ![u] = f]
        /\ stranded' = [stranded EXCEPT ![u] = x] /\ record' \in [Upload -> BOOLEAN]
        /\ x \in BOOLEAN /\ t \in File /\ f \in File
        /\ server' = [server EXCEPT ![u] = "streaming"] /\ entry' = [entry EXCEPT ![u] = e]
        /\ UNCHANGED <<client, orphans>>
        /\ "streaming" \in Asked \cup {"none", "streaming", "writing", "ok", "error"}
    BY <2>1, <2>2, Same, Typed DEF UploadInv
  <2>5. Cared(u, "streaming", e, x, t)
    BY <2>2 DEF Cared
  <2> HIDE DEF t, f, x
  <2>6. QED
    BY <2>2, <2>3, <2>4, <2>5, StepKeeps
<1>2. CASE ChunkOpens(u)
  <2>1. /\ server[u] = "streaming" /\ temp[u] # NoFile /\ server' = [server EXCEPT ![u] = "writing"]
        /\ UNCHANGED <<client, entry, orphans, stranded, temp, final, record>>
    BY <1>2 DEF ChunkOpens
  <2> DEFINE e == entry[u]
             t == temp[u]
             f == final[u]
             x == stranded[u]
  <2>2. /\ e \in {"none", "armed", "dead"} /\ e # "armed" /\ x \in BOOLEAN /\ t \in File /\ f \in File
        /\ "writing" \in Asked \cup {"none", "streaming", "writing", "ok", "error"}
    BY <2>1, Typed DEF UploadInv, Guarded, Cared
  <2>3. ASSUME server'[u] = "writing" PROVE Matched(u)' /\ Held(u)'
    BY <2>1, <2>3 DEF UploadInv, Matched, Held, Writing
  <2>4. /\ temp' = [temp EXCEPT ![u] = t] /\ final' = [final EXCEPT ![u] = f]
        /\ entry' = [entry EXCEPT ![u] = e] /\ server' = [server EXCEPT ![u] = "writing"]
        /\ stranded' = [stranded EXCEPT ![u] = x]
        /\ record' \in [Upload -> BOOLEAN] /\ UNCHANGED <<client, orphans>>
    BY <2>1, Same
  <2>5. Cared(u, "writing", e, x, t)
    BY <2>2 DEF Cared
  <2> HIDE DEF e, t, f, x
  <2>6. QED
    BY <2>2, <2>3, <2>4, <2>5, StepKeeps
<1>3. CASE ChunkEnds(u)
  <2> DEFINE s == Answer(u, "ok")
             t == temp[u] \cup {client[u].next}
  <2>1. s \in {"none", "ok"} /\ (s = "ok" => client[u].pc # "failed")
    BY DEF Answer
  <2>2. server[u] = "writing" /\ temp[u] # NoFile /\ entry[u] # "armed"
    BY <1>3 DEF ChunkEnds, UploadInv, Held, Guarded, Cared
  <2>3. /\ server' = [server EXCEPT ![u] = s] /\ temp' = [temp EXCEPT ![u] = t]
        /\ Schedule(u) /\ UNCHANGED <<client, final, record>>
    BY <1>3, <2>2 DEF ChunkEnds, Reply, Answer, UploadInv, TypeOK
  <2>4. /\ entry' = [entry EXCEPT ![u] = "armed"] /\ orphans' = orphans
        /\ stranded' = [stranded EXCEPT ![u] = FALSE]
    BY <2>2, <2>3, Same DEF Schedule, UploadInv, TypeOK
  <2>5. /\ client[u].next \in 1 .. Chunks + 1 /\ client[u].next <= Chunks
        /\ temp[u] = 1 .. client[u].next - 1 /\ client[u].pc \in {"chunk", "failed"}
    BY <2>2, Typed DEF UploadInv, Held, Matched, Writing
  <2>6. t = 1 .. client[u].next /\ t \subseteq Chunk
    BY <2>5, UploadAssumption DEF Chunk
  <2> HIDE DEF s, t
  <2>7. /\ t \in File /\ t # NoFile /\ final[u] \in File
        /\ s \in Asked \cup {"none", "streaming", "writing", "ok", "error"}
    BY <2>1, <2>6, Typed, UploadAssumption DEF UploadInv, File, Chunk
  <2>8. ASSUME server'[u] = s, temp'[u] = t PROVE Matched(u)' /\ Held(u)'
    BY <2>1, <2>3, <2>5, <2>6, <2>8 DEF UploadInv, Matched, Held, Writing, Asked
  <2>9. Cared(u, s, "armed", FALSE, t)
    BY <2>1, <2>7 DEF Cared
  <2>10. QED
    BY <2>1, <2>3, <2>4, <2>7, <2>8, <2>9, Same, StepKeeps
<1>4. QED
  BY <1>1, <1>2, <1>3

LEMMA CompleteKeeps ==
    ASSUME UploadInv, NEW u \in Upload, Complete(u)
    PROVE  UploadInv'
<1> DEFINE e == IF entry[u] = "armed" THEN "dead" ELSE entry[u]
<1>1. PICK answer \in {"ok", "error"} : server' = [server EXCEPT ![u] = Answer(u, answer)]
  BY DEF Complete, Reply, Answer
<1> DEFINE s == Answer(u, answer)
<1>2. s \in {"none", "ok", "error"} /\ (s # "none" => client[u].pc # "failed")
  BY DEF Answer
<1> HIDE DEF s
<1>3. /\ server[u] = "complete" /\ temp[u] # NoFile /\ server' = [server EXCEPT ![u] = s]
      /\ entry' = [entry EXCEPT ![u] = e] /\ UNCHANGED <<client, orphans>>
  BY <1>1 DEF Complete, Cancel, s
<1>4. record' \in [Upload -> BOOLEAN]
  BY DEF Complete, UploadInv, TypeOK
<1>5. e \in {"none", "armed", "dead"} /\ e # "armed" /\ temp[u] \in File /\ NoFile \in File /\ final[u] \in File
  BY Typed DEF UploadInv, File
<1>6. temp[u] = Chunk /\ client[u].pc \in {"complete", "failed"}
  BY <1>3 DEF UploadInv, Held, Matched
<1> HIDE DEF e
<1>7. s \in Asked \cup {"none", "streaming", "writing", "ok", "error"}
  BY <1>2
<1>8. Remove(u) \/ (temp[u] # NoFile /\ Strand(u))
  BY <1>3 DEF Complete
<1>9. PICK t \in {NoFile, temp[u]}, x \in BOOLEAN :
          /\ temp' = [temp EXCEPT ![u] = t] /\ stranded' = [stranded EXCEPT ![u] = x]
          /\ t # NoFile => x
  BY <1>8, Removed
<1>10. PICK f \in {temp[u], final[u]} : final' = [final EXCEPT ![u] = f]
  BY Same DEF Complete
<1>11. t \in File /\ f \in File
  BY <1>5, <1>9, <1>10
<1>12. ASSUME server'[u] = s, temp'[u] = t, final'[u] = f PROVE Matched(u)' /\ Held(u)'
  BY <1>2, <1>3, <1>6, <1>9, <1>10, <1>12 DEF UploadInv, Matched, Held, Writing, Asked
<1>13. Cared(u, s, e, x, t)
  BY <1>5, <1>9 DEF Cared
<1>14. QED
  BY <1>3, <1>4, <1>5, <1>7, <1>9, <1>10, <1>11, <1>12, <1>13, StepKeeps

LEMMA DeleteKeeps ==
    ASSUME UploadInv, NEW u \in Upload, DeleteIso(u)
    PROVE  UploadInv'
<1>1. /\ final' = [final EXCEPT ![u] = NoFile] /\ record' \in [Upload -> BOOLEAN]
      /\ UNCHANGED <<client, server, entry, orphans, stranded, temp>>
  BY DEF DeleteIso, UploadInv, TypeOK
<1>2. /\ NoFile \in File /\ server[u] \in Asked \cup {"none", "streaming", "writing", "ok", "error"}
      /\ entry[u] \in {"none", "armed", "dead"} /\ temp[u] \in File
  BY Typed DEF UploadInv, File
<1>3. ASSUME final'[u] = NoFile PROVE Matched(u)' /\ Held(u)'
  BY <1>1, <1>3 DEF UploadInv, Matched, Held
<1>4. Guarded(u)
  BY DEF UploadInv
<1> DEFINE t == temp[u]
           s == server[u]
           e == entry[u]
           x == stranded[u]
<1>5. /\ temp' = [temp EXCEPT ![u] = t] /\ server' = [server EXCEPT ![u] = s]
      /\ entry' = [entry EXCEPT ![u] = e] /\ stranded' = [stranded EXCEPT ![u] = x]
      /\ s \in Asked \cup {"none", "streaming", "writing", "ok", "error"}
      /\ t \in File /\ e \in {"none", "armed", "dead"} /\ x \in BOOLEAN
      /\ final' = [final EXCEPT ![u] = NoFile] /\ record' \in [Upload -> BOOLEAN]
      /\ UNCHANGED <<client, orphans>>
  BY <1>1, <1>2, Same
<1>6. Cared(u, s, e, x, t)
  BY <1>4 DEF Guarded
<1> HIDE DEF t, s, e, x
<1>7. QED
  BY <1>2, <1>3, <1>5, <1>6, StepKeeps

LEMMA RestartKeeps ==
    ASSUME UploadInv, Restart
    PROVE  UploadInv'
<1>1. /\ server' = [u \in Upload |-> IF client[u].pc \in Asked THEN "error" ELSE "none"]
      /\ entry' = [u \in Upload |-> "none"] /\ orphans' = [u \in Upload |-> 0]
      /\ stranded' = [u \in Upload |-> temp[u] # NoFile]
      /\ UNCHANGED <<client, temp, final, record>>
  BY DEF Restart
<1>2. TypeOK'
  BY <1>1 DEF UploadInv, TypeOK
<1>3. ASSUME NEW u \in Upload PROVE Matched(u)' /\ Held(u)' /\ Guarded(u)'
  <2>1. /\ server'[u] \in {"error", "none"} /\ (server'[u] = "error" => client[u].pc \in Asked)
        /\ entry'[u] = "none" /\ orphans'[u] = 0 /\ stranded'[u] = (temp[u] # NoFile) /\ (client[u].pc = "idle" => server'[u] = "none")
    BY <1>1 DEF Asked
  <2>2. QED
    BY <1>1, <2>1 DEF UploadInv, Matched, Held, Guarded, Cared, Writing, Asked
<1>4. QED
  BY <1>2, <1>3 DEF UploadInv

LEMMA UploadNext == UploadInv /\ [Next]_vars => UploadInv'
<1> SUFFICES ASSUME UploadInv, [Next]_vars PROVE UploadInv'
  OBVIOUS
<1>1. ASSUME NEW u \in Upload,
             \/ Begin(u) \/ Continue(u) \/ GiveUp(u) \/ Handle(u) \/ Expire(u) \/ DeleteIso(u)
      PROVE  UploadInv'
  BY <1>1, ClientKeeps, StartKeeps, ChunkKeeps, FailKeeps, CompleteKeeps, TimerKeeps, DeleteKeeps
     DEF Handle
<1>2. CASE UNCHANGED vars
  BY <1>2 DEF UploadInv, TypeOK, Matched, Held, Guarded, Cared, vars
<1>3. QED
  BY <1>1, <1>2, RestartKeeps DEF Next, Serve

-----------------------------------------------------------------------------
\* The inductive invariant holds whatever clients, timers and restarts do.
THEOREM UploadAlways == Spec => []UploadInv
  BY UploadInit, UploadNext, PTL DEF Spec

\* Every variable keeps its type.
THEOREM UploadTypeCorrect == Spec => []TypeOK
<1>1. UploadInv => TypeOK
  BY DEF UploadInv
<1>2. QED
  BY UploadAlways, <1>1, PTL

\* The endpoints of /iso/upload never look at what a file contains, and yet the file of a
\* recorded ISO has all of its chunks.
THEOREM RecordedFilesAreComplete == Spec => []RecordedFileIsComplete
<1>1. UploadInv => RecordedFileIsComplete
  BY DEF UploadInv, Held, RecordedFileIsComplete
<1>2. QED
  BY UploadAlways, <1>1, PTL

\* waiting_requests has at most the timer that is running; no timer removes a file that a
\* chunk is written to; and no temporary file is left without a timer or a chunk, except by
\* a restart and by a disk that refuses to remove or rename it.
THEOREM TimersGuardIdleFiles == Spec => []TimerGuardsIdleFile
<1>1. UploadInv => TimerGuardsIdleFile
  BY DEF UploadInv, Guarded, Cared, TimerGuardsIdleFile
<1>2. QED
  BY UploadAlways, <1>1, PTL

=================================================================================
