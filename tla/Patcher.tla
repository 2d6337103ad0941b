------------------------------ MODULE Patcher ------------------------------
(***************************************************************************)
(* IcePatch2::Patcher (cpp/src/IcePatch2Lib/ClientUtil.cpp) and the        *)
(* summary and log files of a data directory (Util.cpp): a client brings a *)
(* directory up to date with a server, in sessions of prepare(), patch()   *)
(* and finish(), and uses the summary, corrected by the log that the last  *)
(* session left, instead of looking at the files.  A session can fail, be  *)
(* aborted by the application, or die at any point.  Files are             *)
(* decompressed by a thread of their own.                                  *)
(*                                                                         *)
(* A file is described by its path, its checksum and its executable flag;  *)
(* checksums are numbers.  Lines of the log are buffered, so that a crash  *)
(* leaves a prefix of them, and the last line may be torn.                 *)
(***************************************************************************)
EXTENDS Naturals, Sequences

CONSTANTS
    Paths,        \* numbers, in the order of the sorted lists
    Kind,         \* Kind[p]: "file", "empty" or "dir"
    Chunks,       \* Chunks[p]: the number of chunks that p is downloaded in
    PathPrefixes, \* PathPrefixes[p]: paths that the path of p begins with
    Configs,      \* the servers and clients that are tried, see config
    MaxCrashes, MaxPatches   \* bounds on crashes, and on the patch() calls of a session

VARIABLES
    config,      \* what the server holds, in the order of time: sets of file infos; and
                 \* IcePatch2Client.Remove of the client
    disk,        \* disk[p]: checksum and flag of the file
    summary,     \* IcePatch2.sum
    log,         \* IcePatch2.log
    release,     \* the index of what the server holds
    me,          \* the thread that patches
    dec,         \* the Decompressor
    crashes,     \* (bound)
    torn         \* a crash left a line that is cut off (history)

vars == <<config, disk, summary, log, release, me, dec, crashes, torn>>

Absent == 0      \* "checksums" of no file, of one that is incomplete and of a torn line
Partial == 100
BadSum == 101
NoSum == 102
Nowhere == 0     \* the path of no file

Releases == config.releases
RemoveLevel == config.remove
Server == Releases[release]

\* FileInfoWithoutFlagsLess says when two of them differ.
SameContents(a, b) == a.path = b.path /\ a.c = b.c

\* What a server and a client are: a release has one file of a path, and getFileInfoSeq()
\* says of directories that they are not executable.  That a version of a file which a
\* release has dropped does not come back is assumed: nothing in prepare() would tell it
\* from the one of which an old line of the summary says that it is there.
Info == [path : Nat, c : Nat, x : BOOLEAN]
Fits(c) ==
    /\ c.remove \in Nat /\ c.releases \in Seq(SUBSET Info) /\ c.releases # <<>>
    /\ \A i \in DOMAIN c.releases : \A r \in c.releases[i] :
           /\ r.path \in Paths /\ r.c \in 1 .. Partial - 1
           /\ Kind[r.path] = "dir" => ~r.x
           /\ \A s \in c.releases[i] : r.path = s.path => r = s
    /\ \A i, j, k \in DOMAIN c.releases : i < j /\ j < k =>
           \A r \in c.releases[i] : \A s \in c.releases[k] : SameContents(r, s) =>
               /\ \E t \in c.releases[j] : SameContents(r, t)
               /\ r = s => r \in c.releases[j]
Described(r) == [c |-> r.c, x |-> r.x]

NoFile == [path |-> Nowhere, c |-> Absent, x |-> FALSE]
NoDecompressor == [on |-> FALSE, destroy |-> FALSE, exception |-> FALSE, files |-> <<>>,
                   info |-> NoFile, writing |-> FALSE, filesDone |-> <<>>]
NoSession == [at |-> "idle", then |-> "idle", ended |-> "none", full |-> FALSE, all |-> FALSE,
              patches |-> 0, localFiles |-> {}, removeFiles |-> {}, updateFiles |-> {},
              updateFlags |-> {}, part |-> {}, todo |-> {}, file |-> NoFile, pos |-> 0,
              cur |-> <<>>, nxt |-> <<>>, bz2 |-> <<>>, good |-> TRUE]

Init ==
    /\ config \in Configs
    /\ disk = [p \in Paths |-> [c |-> Absent, x |-> FALSE]]
    /\ summary = [there |-> FALSE, infos |-> {}] /\ log = [there |-> FALSE, lines |-> <<>>]
    /\ release = 1 /\ me = NoSession /\ dec = NoDecompressor
    /\ crashes = 0 /\ torn = FALSE

TypeOK ==
    /\ \A p \in Paths : disk[p].c \in Nat /\ disk[p].x \in BOOLEAN
    /\ summary.there \in BOOLEAN /\ log.there \in BOOLEAN
    /\ release \in DOMAIN Releases /\ crashes \in 0 .. MaxCrashes
    /\ me.at \in {"idle", "save", "saving", "saved", "list", "ready", "remove", "update",
                  "chunk", "join", "abort", "flags"}
    /\ dec.on => me.at \in {"update", "chunk", "join", "abort"}

\* FileInfoLess: lists are sorted by it, so that a loop over one takes the least first.
Less(a, b) ==
    \/ a.path < b.path
    \/ a.path = b.path /\ a.c < b.c
    \/ a.path = b.path /\ a.c = b.c /\ ~a.x /\ b.x
Least(r, S) == r \in S /\ \A s \in S : ~Less(s, r)
Greatest(r, S) == r \in S /\ \A s \in S : ~Less(r, s)

\* What is in S with other contents than in T.
WithoutFlags(S, T) == {a \in S : ~ \E b \in T : SameContents(a, b)}

At(place) == me.at = place
Goes(place) == me' = [me EXCEPT !.at = place]
Logged(ops) == log' = [log EXCEPT !.lines = @ \o ops]
\* A session ends without finish(): the destructor closes the log.
Failed == me' = [NoSession EXCEPT !.ended = "failed"] /\ dec' = NoDecompressor
Added(infos) == [i \in DOMAIN infos |-> [op |-> "+", info |-> infos[i]]]

-----------------------------------------------------------------------------
(* prepare() *)

\* getFileInfoSeq(): the files as they are.
Scan == {[path |-> p, c |-> disk[p].c, x |-> disk[p].x] : p \in {q \in Paths : disk[q].c # Absent}}

\* loadFileInfoSeq(): the summary with what the log removed and added.
Lines(op) == {log.lines[i].info : i \in {j \in DOMAIN log.lines : log.lines[j].op = op}}
Merged == IF log.there THEN (summary.infos \ Lines("-")) \cup Lines("+") ELSE summary.infos

\* A new Patcher; without a summary the application may refuse to have the files scanned.
Prepare(thorough) ==
    /\ At("idle")
    /\ summary.there \/ thorough
    /\ me' = [NoSession EXCEPT !.localFiles = IF thorough THEN Scan ELSE Merged,
                               !.at = IF thorough \/ log.there THEN "save" ELSE "list",
                               !.then = "list"]
    /\ UNCHANGED <<disk, summary, log, release, dec, crashes, torn>>

\* saveFileInfoSeq(): the summary is written anew and then the log removed.
SaveOpen ==
    /\ At("save")
    /\ summary' = [there |-> TRUE, infos |-> {}]
    /\ Goes("saving")
    /\ UNCHANGED <<disk, log, release, dec, crashes, torn>>

SaveClose ==
    /\ At("saving")
    /\ summary' = [summary EXCEPT !.infos = me.localFiles]
    /\ Goes("saved")
    /\ UNCHANGED <<disk, log, release, dec, crashes, torn>>

\* Mutant of SaveEnd: there has to be a log.
SaveEndLogged ==
    /\ At("saved") /\ log.there
    /\ log' = [there |-> FALSE, lines |-> <<>>]
    /\ Goes(me.then)
    /\ UNCHANGED <<disk, summary, release, dec, crashes, torn>>

SaveEnd ==
    /\ At("saved")
    /\ log' = [there |-> FALSE, lines |-> <<>>]
    /\ Goes(me.then)
    /\ UNCHANGED <<disk, summary, release, dec, crashes, torn>>

\* The lists are compared with the server's, and the log is opened.
List ==
    /\ At("list")
    /\ LET updated == Server \ me.localFiles
           contents == WithoutFlags(Server, me.localFiles)
       IN me' = [me EXCEPT !.at = "ready",
                           !.removeFiles = WithoutFlags(me.localFiles, Server),
                           !.updateFiles = contents, !.updateFlags = updated \ contents]
    /\ log' = [there |-> TRUE, lines |-> <<>>]
    /\ UNCHANGED <<disk, summary, release, dec, crashes, torn>>

\* A call of the server fails, or the application's feedback says no.
ListFails ==
    /\ At("list")
    /\ Failed
    /\ UNCHANGED <<disk, summary, log, release, crashes, torn>>

-----------------------------------------------------------------------------
(* patch() of all files or of those in a directory *)

Within(S, dir) == {r \in S : r.path \in dir}

Patch(dir) ==
    /\ At("ready") /\ me.patches < MaxPatches
    /\ me' = [me EXCEPT !.at = "remove", !.part = dir, !.patches = @ + 1, !.all = dir = Paths,
                        !.todo = IF RemoveLevel < 1 THEN {}
                                 ELSE Within(me.removeFiles, dir \cup {Nowhere})]
    /\ UNCHANGED <<disk, summary, log, release, dec, crashes, torn>>

\* removeFiles(): remove() fails if there is no such file, which is ignored at level 2.
RemoveFile ==
    /\ At("remove")
    /\ \E r \in me.todo :
       /\ Greatest(r, me.todo)
       /\ IF r.path = Nowhere \/ (r.path \in Paths /\ disk[r.path].c = Absent)
          THEN /\ \/ RemoveLevel < 2 /\ Failed
                  \/ RemoveLevel >= 2 /\ me' = [me EXCEPT !.todo = @ \ {r}] /\ UNCHANGED dec
               /\ UNCHANGED <<disk, log>>
          ELSE /\ disk' = [disk EXCEPT ![r.path] = [c |-> Absent, x |-> FALSE]]
               /\ Logged(<<[op |-> "-", info |-> r]>>)
               /\ me' = [me EXCEPT !.todo = @ \ {r}] /\ UNCHANGED dec
    /\ UNCHANGED <<summary, release, crashes, torn>>

\* Then updateFiles() starts the Decompressor.
RemoveEnd ==
    /\ At("remove") /\ me.todo = {}
    /\ LET files == Within(me.removeFiles, me.part \cup {Nowhere})
           update == Within(me.updateFiles, me.part)
       IN /\ me' = [me EXCEPT !.at = IF update = {} THEN "flags" ELSE "update",
                              !.localFiles = IF RemoveLevel < 1 THEN @ ELSE @ \ files,
                              !.removeFiles = IF RemoveLevel < 1 THEN @ ELSE @ \ files,
                              !.todo = IF update = {} THEN Within(me.updateFlags, me.part)
                                       ELSE update,
                              !.cur = <<>>, !.nxt = <<>>]
          /\ dec' = IF update = {} THEN dec ELSE [NoDecompressor EXCEPT !.on = TRUE]
    /\ UNCHANGED <<disk, summary, log, release, crashes, torn>>

\* updateFilesInternal(): a directory is created and logged, an empty file is created.
UpdatePlain ==
    /\ At("update")
    /\ \E r \in me.todo :
       /\ Least(r, me.todo) /\ Kind[r.path] # "file"
       /\ disk' = [disk EXCEPT ![r.path].c = r.c]
       /\ IF Kind[r.path] = "dir" THEN Logged(Added(<<r>>)) ELSE UNCHANGED log
       /\ me' = [me EXCEPT !.todo = @ \ {r}]
    /\ UNCHANGED <<summary, release, dec, crashes, torn>>

UpdateFile ==
    /\ At("update")
    /\ \E r \in me.todo :
       /\ Least(r, me.todo) /\ Kind[r.path] = "file"
       /\ me' = [me EXCEPT !.at = "chunk", !.file = r, !.todo = @ \ {r}, !.pos = 0, !.bz2 = <<>>]
    /\ UNCHANGED <<disk, summary, log, release, dec, crashes, torn>>

\* The request for the chunk after this one, which may be of a later file, is made before
\* the answer is waited for.
NextFiles == {r \in me.todo : Kind[r.path] = "file"}
After ==
    IF me.pos + 1 < Chunks[me.file.path] THEN {<<me.file.path, me.pos + 1>>}
    ELSE {<<r.path, 0>> : r \in {f \in NextFiles : Least(f, NextFiles)}}

DownloadChunk ==
    LET current == IF me.cur = <<>> THEN <<me.file.path, me.pos>> ELSE me.nxt
        swapped == IF me.cur = <<>> THEN me.nxt ELSE me.cur
    IN
    /\ At("chunk") /\ me.pos < Chunks[me.file.path]
    /\ \E next \in IF After = {} THEN {swapped} ELSE After :
           me' = [me EXCEPT !.cur = current, !.nxt = next, !.bz2 = Append(@, current),
                            !.pos = @ + 1]
    /\ UNCHANGED <<disk, summary, log, release, dec, crashes, torn>>

\* The file is closed and given to the Decompressor, which may have failed.
DownloadEnd ==
    LET r == me.file IN
    /\ At("chunk") /\ me.pos = Chunks[r.path]
    /\ Logged(Added(dec.filesDone))
    /\ IF dec.exception
       THEN Goes("abort") /\ dec' = [dec EXCEPT !.filesDone = <<>>]
       ELSE /\ dec' = [dec EXCEPT !.filesDone = <<>>, !.files = Append(@, r)]
            /\ me' = [me EXCEPT !.at = "update", !.file = NoFile,
                                !.good = @ /\ me.bz2 = [i \in 1 .. Chunks[r.path] |-> <<r.path, i - 1>>]]
    /\ UNCHANGED <<disk, summary, release, crashes, torn>>

UpdateEnd ==
    /\ At("update") /\ me.todo = {}
    /\ LET files == Within(me.updateFiles, me.part) IN
       me' = [me EXCEPT !.at = "join", !.localFiles = @ \cup files, !.updateFiles = @ \ files]
    /\ UNCHANGED <<disk, summary, log, release, dec, crashes, torn>>

\* A call of the server fails, or the application's feedback says no, or files cannot be
\* written.
UpdateFails ==
    /\ (At("update") /\ me.todo # {}) \/ At("chunk")
    /\ Goes("abort")
    /\ UNCHANGED <<disk, summary, log, release, dec, crashes, torn>>

\* updateFiles(): the Decompressor is told to end, with and without an exception.
Destroy ==
    /\ me.at \in {"join", "abort"} /\ ~dec.destroy
    /\ dec' = [dec EXCEPT !.destroy = TRUE]
    /\ UNCHANGED <<disk, summary, log, release, me, crashes, torn>>

\* The thread has ended.
Join ==
    /\ me.at \in {"join", "abort"} /\ dec.destroy /\ ~dec.on
    /\ Logged(Added(dec.filesDone))
    /\ IF At("abort") \/ dec.exception THEN Failed
       ELSE /\ me' = [me EXCEPT !.at = "flags", !.todo = Within(me.updateFlags, me.part)]
            /\ dec' = NoDecompressor
    /\ UNCHANGED <<disk, summary, release, crashes, torn>>

\* updateFlags()
UpdateFlag ==
    /\ At("flags")
    /\ \E r \in me.todo :
       /\ Least(r, me.todo)
       /\ IF Kind[r.path] = "dir"
          THEN me' = [me EXCEPT !.todo = @ \ {r}] /\ UNCHANGED <<disk, dec>>
          ELSE IF disk[r.path].c = Absent THEN Failed /\ UNCHANGED disk
          ELSE /\ disk' = [disk EXCEPT ![r.path].x = r.x]
               /\ me' = [me EXCEPT !.todo = @ \ {r}] /\ UNCHANGED dec
    /\ UNCHANGED <<summary, log, release, crashes, torn>>

UpdateFlagsEnd ==
    /\ At("flags") /\ me.todo = {}
    /\ LET files == Within(me.updateFlags, me.part) IN
       me' = [me EXCEPT !.at = "ready", !.full = @ \/ me.all,
                        !.localFiles = WithoutFlags(@, files) \cup files,
                        !.updateFlags = @ \ files]
    /\ UNCHANGED <<disk, summary, log, release, dec, crashes, torn>>

\* finish()
Finish ==
    /\ At("ready")
    /\ me' = [NoSession EXCEPT !.at = "save", !.localFiles = me.localFiles, !.good = me.good,
                               !.ended = "finished", !.full = me.full]
    /\ UNCHANGED <<disk, summary, log, release, dec, crashes, torn>>

-----------------------------------------------------------------------------
(* Decompressor::run() *)

\* Mutant of DecompressorTake: a file is done when its decompression begins.
DecompressorTakeDone ==
    /\ dec.on /\ dec.info = NoFile /\ dec.files # <<>>
    /\ dec' = [dec EXCEPT !.info = Head(dec.files), !.files = Tail(@),
                          !.filesDone = Append(@, Head(dec.files))]
    /\ UNCHANGED <<disk, summary, log, release, me, crashes, torn>>

DecompressorTake ==
    /\ dec.on /\ dec.info = NoFile /\ dec.files # <<>>
    /\ dec' = [dec EXCEPT !.info = Head(dec.files), !.files = Tail(@)]
    /\ UNCHANGED <<disk, summary, log, release, me, crashes, torn>>

DecompressorOpen ==
    /\ dec.on /\ dec.info # NoFile /\ ~dec.writing
    /\ disk' = [disk EXCEPT ![dec.info.path].c = Partial]
    /\ dec' = [dec EXCEPT !.writing = TRUE]
    /\ UNCHANGED <<summary, log, release, me, crashes, torn>>

\* decompressFile(), setFileFlags(), and the file is done.
DecompressorDone ==
    /\ dec.on /\ dec.writing
    /\ disk' = [disk EXCEPT ![dec.info.path] = Described(dec.info)]
    /\ dec' = [dec EXCEPT !.filesDone = Append(@, dec.info), !.info = NoFile, !.writing = FALSE]
    /\ UNCHANGED <<summary, log, release, me, crashes, torn>>

DecompressorFails ==
    /\ dec.on /\ dec.writing
    /\ dec' = [dec EXCEPT !.on = FALSE, !.destroy = TRUE, !.exception = TRUE]
    /\ UNCHANGED <<disk, summary, log, release, me, crashes, torn>>

DecompressorExit ==
    /\ dec.on /\ dec.info = NoFile /\ dec.files = <<>> /\ dec.destroy
    /\ dec' = [dec EXCEPT !.on = FALSE]
    /\ UNCHANGED <<disk, summary, log, release, me, crashes, torn>>

-----------------------------------------------------------------------------
(* Crashes, and new releases *)

\* What readFileInfo() makes of a line that is cut off: in the flag, in the checksum or in
\* the path.
Torn(r) ==
    {[r EXCEPT !.x = FALSE], [r EXCEPT !.c = BadSum, !.x = FALSE]}
        \cup {[path |-> q, c |-> NoSum, x |-> FALSE] :
                 q \in {Nowhere} \cup (IF r.path \in Paths THEN PathPrefixes[r.path] ELSE {})}

\* What was written to a file that is open may be lost from some point on.
CrashSaving ==
    /\ At("saving")
    /\ \E saved \in SUBSET me.localFiles :
       /\ \A r \in saved : \A s \in me.localFiles \ saved : Less(r, s)
       /\ \/ summary' = [summary EXCEPT !.infos = saved] /\ UNCHANGED torn
          \/ \E r \in me.localFiles \ saved : \E t \in Torn(r) :
                 /\ Least(r, me.localFiles \ saved)
                 /\ summary' = [summary EXCEPT !.infos = saved \cup {t}] /\ torn' = TRUE
    /\ UNCHANGED log

CrashLogging ==
    /\ me.at \notin {"save", "saving", "saved", "list"}
    /\ \E k \in 0 .. Len(log.lines) :
       \/ log' = [log EXCEPT !.lines = SubSeq(@, 1, k)] /\ UNCHANGED torn
       \/ /\ k < Len(log.lines)
          /\ \E t \in Torn(log.lines[k + 1].info) :
                 log' = [log EXCEPT !.lines =
                             Append(SubSeq(@, 1, k), [op |-> @[k + 1].op, info |-> t])]
          /\ torn' = TRUE
    /\ UNCHANGED summary

Crash ==
    /\ ~At("idle") /\ crashes < MaxCrashes
    /\ crashes' = crashes + 1
    /\ me' = NoSession /\ dec' = NoDecompressor
    /\ \/ CrashSaving \/ CrashLogging
       \/ me.at \in {"save", "saved", "list"} /\ UNCHANGED <<summary, log, torn>>
    /\ UNCHANGED <<disk, release>>

Publish ==
    /\ At("idle") /\ release < Len(Releases)
    /\ release' = release + 1
    /\ me' = NoSession
    /\ UNCHANGED <<disk, summary, log, dec, crashes, torn>>

-----------------------------------------------------------------------------
Work ==
    \/ SaveOpen \/ SaveClose \/ SaveEnd \/ List
    \/ \E dir \in {Paths} \cup {{p} : p \in Paths} : Patch(dir)
    \/ RemoveFile \/ RemoveEnd
    \/ UpdatePlain \/ UpdateFile \/ DownloadChunk \/ DownloadEnd \/ UpdateEnd
    \/ Destroy \/ Join \/ UpdateFlag \/ UpdateFlagsEnd \/ Finish
Decompress ==
    DecompressorTake \/ DecompressorOpen \/ DecompressorDone \/ DecompressorFails \/ DecompressorExit

Next ==
    /\ \/ \E thorough \in BOOLEAN : Prepare(thorough)
       \/ Work \/ ListFails \/ UpdateFails \/ Decompress \/ Crash \/ Publish
    /\ UNCHANGED config

\* Both threads run.
Fairness == WF_vars(Work /\ UNCHANGED config) /\ WF_vars(Decompress /\ UNCHANGED config)

Spec == Init /\ [][Next]_vars /\ Fairness

-----------------------------------------------------------------------------
(* Properties *)

\* When a session in which patch() updated everything is finished, the server's files are
\* on the disk, whatever earlier sessions left behind by failing or dying at any point;
\* updateFiles() does not set the flag of an empty file.  The exception is a line of
\* the summary or the log that a crash cut off: readFileInfo() takes it for another file,
\* or for another version, and removeFiles() then removes a file that is up to date.  And
\* with IcePatch2Client.Remove=2 removeFiles() passes over a file that is already gone,
\* because a crash lost the line about its removal, and writes no line either: if the
\* session then fails, the next one has the file with its old and its new contents in its
\* list, and removes the new file for the old one.
PatchedExactly ==
    (At("idle") /\ me.ended = "finished" /\ me.full /\ ~torn /\ (RemoveLevel > 1 => crashes = 0)) =>
        \A r \in Server :
            /\ disk[r.path].c = r.c
            /\ Kind[r.path] = "file" => disk[r.path].x = r.x

\* The chunks of a file are its own, in their order, though each is requested while the
\* one before is awaited.
ChunksInOrder == me.good

\* If no session died, what the next one will load is on the disk, also after failures.
LogHonest ==
    (At("idle") /\ crashes = 0 /\ RemoveLevel > 0) =>
        \A r \in Merged : disk[r.path].c = r.c

\* A session ends: updateFiles() does not wait for ever for the Decompressor.
PatchEnds == []<>At("idle")
=============================================================================
