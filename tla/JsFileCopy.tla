----------------------------- MODULE JsFileCopy -----------------------------
(***************************************************************************)
(* fs.createReadStream() and fs.createWriteStream() (jsruntime/fs), joined *)
(* by pipeline().  The calls of fs run in goroutines and call back in any  *)
(* order, each in a task of its own.  A chunk is what one fs.read returns; *)
(* the file has Total of them, and position counts chunks.                 *)
(***************************************************************************)
EXTENDS JsPipeline

CONSTANTS
  Faults,     \* the calls of fs that may fail: fs.open, fs.read, fs.write
  PipedLate   \* pipeline() may be called after the files are opened

ASSUME CopyAssumption ==
  /\ Chain = <<src, dst>> /\ src # dst
  /\ CustomDestroy = {src, dst} /\ CustomFinal = {dst}
  /\ Faults \subseteq {"fs.open", "fs.read", "fs.write"}
  /\ PipedLate \in BOOLEAN

VARIABLES
  fd,        \* the closures' fd: is it set
  position,  \* of the read stream
  finished,  \* of the read stream
  pending,   \* of the write stream: the chunk that waits for the file to open
  bounded,   \* the read stream was given the option end
  open,      \* the files that are open
  lost       \* history: the files that opened after destroy(), or whose read
             \* failed

fileVars == <<fd, position, finished, pending, bounded, open, lost>>
copyVars == <<vars, fileVars>>

Files == {src, dst}
\* A call of fs, and for fs.close what its callback calls.
Fs(f, s, c) == [fn |-> f, s |-> s, c |-> c]
FsClose(s, then) == [fn |-> "fs.close", s |-> s, then |-> then]

CopyInit ==
  /\ StreamInit(LAMBDA s, ev : <<>>)
  /\ io = <<Fs("fs.open", src, 0), Fs("fs.open", dst, 0)>>
  /\ settled = "none" /\ fin = [s \in Watched |-> "none"]
  /\ produced = 0 /\ written = <<>> /\ aborted = FALSE
  /\ fd = [s \in Files |-> FALSE]
  /\ position = 0 /\ finished = FALSE /\ pending = <<>>
  /\ bounded \in BOOLEAN
  /\ open = {} /\ lost = {}

---------------------------------------------------------------------------
(* createReadStream *)

\* finish(), the close of the file included; and fail().
FinishRead ==
  /\ Running("finishRead")
  /\ finished' = TRUE
  /\ Continue(Then(~finished, <<CallC("push", src, Eof), Call("autoClose", src)>>))
  /\ UNCHANGED <<io, fd, position, pending>>

AutoClose ==
  /\ Running("autoClose")
  /\ fd' = [fd EXCEPT ![src] = FALSE]
  /\ io' = io \o Then(fd[src], <<FsClose(src, <<>>)>>)
  /\ Continue(<<>>)
  /\ UNCHANGED <<position, finished, pending>>

FailRead ==
  /\ Running("failRead")
  /\ finished' = TRUE
  /\ Continue(Then(~finished, <<CallE("destroy", src, TRUE)>>))
  /\ UNCHANGED <<io, fd, position, pending>>

\* Defect: the next chunk is asked for as well.
ReadAhead ==
  /\ Running("_read") /\ top.s = src
  /\ LET live == fd[src] /\ ~finished
         atEnd == bounded /\ position >= Total
     IN /\ io' = io \o Then(live /\ ~atEnd,
                            <<Fs("fs.read", src, position),
                              Fs("fs.read", src, position + 1)>>)
        /\ Continue(Then(live /\ atEnd, <<Call("finishRead", src)>>))
  /\ UNCHANGED <<fd, position, finished, pending>>

\* The option read and readChunk(), which fs.open calls too.
ReadChunk ==
  /\ Running("_read") /\ top.s = src
  /\ LET live == fd[src] /\ ~finished
         atEnd == bounded /\ position >= Total
     IN /\ io' = io \o Then(live /\ ~atEnd, <<Fs("fs.read", src, position)>>)
        /\ Continue(Then(live /\ atEnd, <<Call("finishRead", src)>>))
  /\ UNCHANGED <<fd, position, finished, pending>>

---------------------------------------------------------------------------
(* createWriteStream *)

WriteChunk ==
  /\ Running("_write") /\ top.s = dst
  /\ IF fd[dst]
     THEN io' = Append(io, Fs("fs.write", dst, top.c)) /\ UNCHANGED pending
     ELSE pending' = Append(pending, top.c) /\ UNCHANGED io
  /\ Continue(<<>>)
  /\ UNCHANGED <<fd, position, finished>>

\* Defect: the stream finishes while the file is being closed.
FinalAtOnce ==
  /\ Running("_final") /\ top.s = dst
  /\ io' = io \o Then(fd[dst], <<FsClose(dst, <<>>)>>)
  /\ Continue(<<CallE("finalDone", dst, FALSE)>>)
  /\ fd' = [fd EXCEPT ![dst] = FALSE]
  /\ UNCHANGED <<position, finished, pending>>

\* The option final: the file is closed before the stream finishes.
FinalWrite ==
  /\ Running("_final") /\ top.s = dst
  /\ LET complete == <<CallE("finalDone", dst, FALSE)>>
     IN /\ io' = io \o Then(fd[dst], <<FsClose(dst, complete)>>)
        /\ Continue(Then(~fd[dst], complete))
  /\ fd' = [fd EXCEPT ![dst] = FALSE]
  /\ UNCHANGED <<position, finished, pending>>

\* destroy(), once the callback of fs.close runs if there is a file to close.
CloseThenDestroyed(s, close) ==
  LET complete == <<CallE("closed", s, top.err)>>
  IN /\ fd' = [fd EXCEPT ![s] = @ /\ ~close]
     /\ io' = io \o Then(close, <<FsClose(s, complete)>>)
     /\ Continue(Then(~close, complete))
     /\ UNCHANGED <<position, finished, pending>>

\* The option destroy of the read stream.
DestroyReader ==
  /\ Running("_destroy") /\ top.s = src
  /\ CloseThenDestroyed(src, fd[src] /\ ~finished)

\* The option destroy of the write stream.
DestroyWriter ==
  /\ Running("_destroy") /\ top.s = dst
  /\ CloseThenDestroyed(dst, fd[dst])

FileStep ==
  /\ \/ FinishRead \/ AutoClose \/ FailRead \/ ReadChunk
     \/ WriteChunk \/ FinalWrite \/ DestroyReader \/ DestroyWriter
  /\ UNCHANGED <<rs, ws, listeners, ticks, ret, emitted, settled, fin,
                 produced, written, aborted, bounded, open, lost>>

---------------------------------------------------------------------------
(* The callbacks of fs *)

Remaining(i) == io' = RemoveAt(io, i)

\* A file opens for a stream that may be destroyed by then: nothing will close
\* it.
OpenedForReading(i) ==
  /\ io[i].fn = "fs.open" /\ io[i].s = src
  /\ Remaining(i)
  /\ \/ /\ fd' = [fd EXCEPT ![src] = TRUE]
        /\ open' = open \cup {src}
        /\ lost' = IF Destroyed(src) THEN lost \cup {src} ELSE lost
        /\ stack' = <<Call("_read", src)>>
     \/ /\ "fs.open" \in Faults
        /\ stack' = <<Call("failRead", src)>>
        /\ UNCHANGED <<fd, open, lost>>
  /\ UNCHANGED <<position, pending, written>>

\* What was written meanwhile is written now, or fails.
OpenedForWriting(i) ==
  /\ io[i].fn = "fs.open" /\ io[i].s = dst
  /\ \/ /\ fd' = [fd EXCEPT ![dst] = TRUE]
        /\ open' = open \cup {dst}
        /\ lost' = IF Destroyed(dst) THEN lost \cup {dst} ELSE lost
        /\ io' = RemoveAt(io, i) \o [k \in DOMAIN pending |->
                                     Fs("fs.write", dst, pending[k])]
        /\ stack' = <<>>
     \/ /\ "fs.open" \in Faults
        /\ Remaining(i)
        /\ stack' = Then(pending # <<>>, <<CallE("onwrite", dst, TRUE)>>)
                    \o <<CallE("destroy", dst, TRUE)>>
        /\ UNCHANGED <<fd, open, lost>>
  /\ pending' = <<>>
  /\ UNCHANGED <<position, written>>

Advanced(bytesRead) == position + bytesRead

\* A read of a file that has been closed meanwhile fails; fail() keeps the
\* option destroy from closing the file.
ReadDone(i) ==
  /\ io[i].fn = "fs.read"
  /\ Remaining(i)
  /\ \/ /\ src \in open
        /\ LET bytesRead == IF io[i].c < Total THEN 1 ELSE 0
           IN /\ position' = Advanced(bytesRead)
              /\ stack' = <<IF bytesRead = 0 THEN Call("finishRead", src)
                            ELSE CallC("push", src, io[i].c + 1)>>
        /\ UNCHANGED lost
     \/ /\ "fs.read" \in Faults \/ src \notin open
        /\ stack' = <<Call("failRead", src)>>
        /\ lost' = lost \cup {src}
        /\ UNCHANGED position
  /\ UNCHANGED <<fd, pending, open, written>>

WriteDone(i) ==
  /\ io[i].fn = "fs.write"
  /\ Remaining(i)
  /\ \E err \in BOOLEAN :
       /\ err => "fs.write" \in Faults \/ dst \notin open
       /\ ~err => dst \in open
       /\ written' = IF err THEN written ELSE Append(written, io[i].c)
       /\ stack' = <<CallE("onwrite", dst, err)>>
  /\ UNCHANGED <<fd, position, pending, open, lost>>

CloseDone(i) ==
  /\ io[i].fn = "fs.close"
  /\ Remaining(i)
  /\ open' = open \ {io[i].s}
  /\ stack' = io[i].then
  /\ UNCHANGED <<fd, position, pending, written, lost>>

FsCallback ==
  /\ Idle
  /\ settled # "none" \/ PipedLate
  /\ \E i \in DOMAIN io : \/ OpenedForReading(i) \/ OpenedForWriting(i)
                        \/ ReadDone(i) \/ WriteDone(i) \/ CloseDone(i)
  /\ UNCHANGED <<rs, ws, listeners, ticks, ret, emitted, settled, fin,
                 produced, aborted, finished, bounded>>

---------------------------------------------------------------------------

CopyProceed ==
  \/ FileStep
  \/ /\ Library \/ WatchDest \/ Fail \/ DestDone \/ DestClosed
     /\ UNCHANGED fileVars

CopyAbort ==
  /\ \E s \in Files, err \in BOOLEAN : Abort(s, err)
  /\ UNCHANGED fileVars

CopyNext ==
  \/ StartPipeline /\ UNCHANGED fileVars
  \/ CopyProceed
  \/ FsCallback
  \/ CopyAbort

CopySpec ==
  /\ CopyInit /\ [][CopyNext]_copyVars
  /\ WF_copyVars(StartPipeline /\ UNCHANGED fileVars)
  /\ WF_copyVars(CopyProceed)
  /\ WF_copyVars(FsCallback)

---------------------------------------------------------------------------
(* Properties *)

Outstanding(f) == SelectSeq(io, LAMBDA x : x.fn = f)

\* The types of the state of the two streams' closures.
CopyTypeOK ==
  /\ fd \in [Files -> BOOLEAN] /\ open \subseteq Files
  /\ position \in 0..Total /\ finished \in BOOLEAN
  /\ pending \in Seq(1..Total) /\ Len(pending) <= 1
  /\ settled \in Outcomes

\* When the copy emits 'finish' it holds the chunks of the file, each once and
\* in order, and is closed already.
FinishedCopyIsExact ==
  /\ CopyTypeOK
  /\ Contains(emitted[dst], "finish") =>
       written = [i \in 1..Total |-> i] /\ dst \notin open

\* One fs.read at a time, at the position: the callback of open and the option
\* read do not both ask for the same chunk.  A descriptor is closed once: what
\* is being closed is open, and no other call closes it too.
FsCallsTakeTurns ==
  LET closing == Outstanding("fs.close")
  IN /\ Len(Outstanding("fs.read")) <= 1
     /\ \A i \in DOMAIN io : io[i].fn = "fs.read" => io[i].c = position
     /\ \A i, j \in DOMAIN closing :
          closing[i].s \in open /\ (closing[i].s = closing[j].s => i = j)

\* pipeline() of the two file streams settles, and both files are closed in
\* the end, after the copy, a failed call of fs or a destroy() in the middle of
\* it; all but what the code gives up: a file that opens after destroy(), one
\* that could not be read, and, when the read stream was destroyed without an
\* error, the promise and the destination.  No file is at its end while the pipe
\* has its stream paused, so that the pipe resumes it each time.
CopyEnds ==
  /\ <>[](settled \in {"ok", "failed"} \/ Silenced)
  /\ <>[](open \subseteq lost \cup {s \in {dst} : Silenced})
=============================================================================
