---------------------------- MODULE LiveReceiver ----------------------------
(***************************************************************************)
(* LiveReceiverActor and its StreamSetupInfo (livereceiveractor.h, .cpp):  *)
(* the connection's thread (owner) writes the client's media as FLV into   *)
(* rb_; a push thread reads it through FFmpeg and writes the output file.  *)
(* Each region under a lock is one step; so is a stretch that touches      *)
(* nothing the other thread can see.  What is undefined in C++ (a null or  *)
(* uninitialised pointer, freed memory) may end the process: alive.        *)
(***************************************************************************)
EXTENDS Integers, Sequences, FiniteSets

CONSTANTS StreamCount,   \* STREAM_COUNT, the length of streamInfos_
          BufSize,       \* INPUT_IO_BUFFER_SIZE, in units
          MaxStreams,    \* bound: createStream commands that succeed
          MaxTags,       \* bound: media messages written
          Faults         \* what may go wrong around the actor:
                         \*   "join"  the push thread outlives timed_join()
                         \*   "data"  no data for the 10 s of feedData()
                         \*   "write" FFmpeg cannot write header or frame

ASSUME LiveReceiverAssumption ==
    /\ StreamCount \in Nat \ {0}
    /\ BufSize \in Nat \ {0}
    /\ MaxStreams \in Nat
    /\ MaxTags \in Nat
    /\ Faults \subseteq {"join", "data", "write"}

VARIABLES
    \* the actor
    owner,             \* where the connection's thread is
    connected,         \* connectInfo_ is set
    streamInfoCount,   \* streamInfoCount_; stream ids are 1, 2, ...
    metaData,          \* whose metadata metaData_ holds; 0 if none
    ctx,               \* ctx_: "none", "open", or "header" once written
    headerWritten,     \* headerWritten_
    isPushThreadDone,  \* isPushThreadDone_
    freed,             \* what ~LiveReceiverActor() has released
    \* streamInfos_[0], the only stream handled
    rb,                \* rb_, in units: header, metadata, tags
    flvHeaderWritten,  \* flvHeaderWritten_
    endOfFile,         \* endOfFile_
    \* the push thread and FFmpeg
    push,              \* where the push thread is; "none" while th_ is NULL
    demux,             \* units given to FFmpeg and not yet parsed
    ended,             \* what feedData() last told it: "no", "eof", "error"
    pkt,               \* the tag in pkt_; 0 if none
    out,               \* the output file
    \* the process, and history
    alive,             \* the process has not been killed
    written,           \* every unit put into rb_
    fed,               \* every unit feedData() returned
    lateTags,          \* tags accepted after the push thread was done
    lost               \* the tag whose frame could not be written; 0 if none

actor == <<connected, streamInfoCount, metaData, headerWritten, isPushThreadDone>>
info == <<rb, flvHeaderWritten, endOfFile>>
ffmpeg == <<demux, ended, pkt, out>>
history == <<written, fed, lateTags, lost>>
vars == <<owner, actor, ctx, freed, info, push, ffmpeg, alive, history>>

Stream == 1..MaxStreams
Unit(kind, n) == [kind |-> kind, n |-> n]
Tags(units) == {i \in DOMAIN units : units[i].kind = "tag"}
TagsWritten == Cardinality(Tags(written))

Init ==
    /\ owner = "serve"
    /\ connected = FALSE
    /\ streamInfoCount = 0
    /\ metaData = 0
    /\ ctx = "none"
    /\ headerWritten = FALSE
    /\ isPushThreadDone = FALSE
    /\ freed = {}
    /\ rb = <<>> /\ flvHeaderWritten = FALSE /\ endOfFile = FALSE
    /\ push = "none"
    /\ demux = <<>> /\ ended = "no" /\ pkt = 0 /\ out = <<>>
    /\ alive = TRUE
    /\ written = <<>> /\ fed = <<>> /\ lateTags = 0 /\ lost = 0

Die ==
    /\ alive' = FALSE
    /\ UNCHANGED <<owner, actor, ctx, freed, info, push, ffmpeg, history>>

Serving == alive /\ owner = "serve"

\* findStreamSetupInfo() finds the stream.
Known(s) == s <= streamInfoCount

-----------------------------------------------------------------------------
(* The end of a connection: recv() fails, or an exception of a handler is  *)
(* caught by handleRead(); both call disconnect(), once, and then destroy  *)
(* the actor.  streamInfos_[0] is uninitialised before createStream.       *)

setEndOfFile == endOfFile' = TRUE

\* Mutant of AfterDisconnect: th_ is joined although it may be NULL.
AlwaysJoin == "join"

AfterDisconnect == IF push = "none" THEN "freePkt" ELSE "join"

onDisconnect ==
    \/ /\ streamInfoCount > 0
       /\ setEndOfFile
       /\ owner' = AfterDisconnect
       /\ UNCHANGED <<alive, rb, flvHeaderWritten>>
    \/ /\ streamInfoCount = 0
       /\ owner' = "freePkt"
       /\ alive' \in BOOLEAN
       /\ UNCHANGED info

hangUp ==
    /\ Serving
    /\ onDisconnect
    /\ UNCHANGED <<actor, ctx, freed, push, ffmpeg, history>>

(* timed_join() returns; interrupt() has no interruption point to act on.  *)

\* Mutant of Joined: the push thread is not waited for.
NotJoined == TRUE

Joined == push = "exited" \/ "join" \in Faults

timedJoin ==
    /\ alive /\ owner = "join"
    /\ Joined
    /\ owner' = "freePkt"
    /\ UNCHANGED <<actor, ctx, freed, info, push, ffmpeg, alive, history>>

-----------------------------------------------------------------------------
(* ~LiveReceiverActor(), called on the connection's thread.                *)

DestroyStep(at, next, what) ==
    /\ alive /\ owner = at
    /\ owner' = next
    /\ freed' = freed \union {what}

freePkt ==
    /\ DestroyStep("freePkt", "freeInfos", "pkt")
    /\ UNCHANGED <<actor, ctx, info, push, ffmpeg, alive, history>>

freeInfos ==
    /\ DestroyStep("freeInfos", "trailer", "infos")
    /\ UNCHANGED <<actor, ctx, info, push, ffmpeg, alive, history>>

\* Mutant of TrailerAppended: the file is closed without its trailer.
NoTrailer == out' = out

TrailerAppended == out' = IF ctx = "header" THEN Append(out, Unit("trailer", 0)) ELSE out

\* av_write_trailer() on a muxer whose header was not written is undefined.
writeTrailer ==
    /\ DestroyStep("trailer", "close", "trailer")
    /\ IF headerWritten
          THEN /\ TrailerAppended
               /\ alive' \in IF ctx = "header" THEN {TRUE} ELSE BOOLEAN
          ELSE UNCHANGED <<out, alive>>
    /\ UNCHANGED <<actor, ctx, info, push, demux, ended, pkt, history>>

closeOutput ==
    /\ DestroyStep("close", "gone", "ctx")
    /\ UNCHANGED <<actor, ctx, info, push, ffmpeg, alive, history>>

-----------------------------------------------------------------------------
(* The events the connection passes on.  An exception disconnects.         *)

onConnect ==
    /\ Serving
    /\ connected' = TRUE
    /\ UNCHANGED <<owner, streamInfoCount, metaData, headerWritten, isPushThreadDone,
                   ctx, freed, info, push, ffmpeg, alive, history>>

TooManyStreams == streamInfoCount > StreamCount

\* The check is one short: the entry after the last overwrites streamMap_.
onCreateStream ==
    /\ Serving
    /\ \/ /\ TooManyStreams
          /\ onDisconnect
          /\ UNCHANGED streamInfoCount
       \/ /\ ~TooManyStreams
          /\ streamInfoCount < MaxStreams
          /\ streamInfoCount' = streamInfoCount + 1
          /\ UNCHANGED <<owner, info, alive>>
    /\ UNCHANGED <<connected, metaData, headerWritten, isPushThreadDone,
                   ctx, freed, push, ffmpeg, history>>

\* A file is opened (again); no stream is added to it here.
onPublish(s) ==
    /\ Serving
    /\ \/ /\ ~Known(s)
          /\ onDisconnect
          /\ UNCHANGED <<ctx, out>>
       \/ /\ Known(s) /\ s = 1 /\ ~connected
          /\ alive' = FALSE
          /\ UNCHANGED <<owner, info, ctx, out>>
       \/ /\ Known(s) /\ s = 1 /\ connected
          /\ ctx' = "open"
          /\ out' = <<>>
          /\ \/ UNCHANGED <<owner, info, alive>>
             \/ "write" \in Faults /\ onDisconnect
    /\ UNCHANGED <<actor, freed, push, demux, ended, pkt, history>>

\* metaData_ is assigned before the stream is looked up.
onMetaData(s) ==
    /\ Serving
    /\ metaData' = s
    /\ \/ ~Known(s) /\ onDisconnect
       \/ Known(s) /\ UNCHANGED <<owner, info, alive>>
    /\ UNCHANGED <<connected, streamInfoCount, headerWritten, isPushThreadDone,
                   ctx, freed, push, ffmpeg, history>>

\* Mutant of CheckDone: media is accepted whatever the push thread does.
NoCheckDone == TRUE

CheckDone == ~isPushThreadDone

\* onReceiveStream(), up to where it has looked at isPushThreadDone_.
onReceiveStream(s) ==
    /\ Serving
    /\ TagsWritten < MaxTags
    /\ \/ /\ CheckDone /\ Known(s)
          /\ owner' = IF s = 1 THEN "prepare" ELSE "serve"
          /\ UNCHANGED <<info, alive>>
       \/ /\ ~CheckDone \/ ~Known(s)
          /\ onDisconnect
    /\ UNCHANGED <<actor, ctx, freed, push, ffmpeg, history>>

\* The first media message: header, metadata (a null metaData_ ends the
\* process), and the push thread.
Preamble == <<Unit("flvHeader", 0), Unit("metaData", metaData)>>

prepareStream ==
    /\ alive /\ owner = "prepare"
    /\ \/ /\ flvHeaderWritten
          /\ UNCHANGED <<rb, flvHeaderWritten, written, alive>>
       \/ /\ ~flvHeaderWritten /\ metaData # 0
          /\ flvHeaderWritten' = TRUE
          /\ rb' = rb \o Preamble
          /\ written' = written \o Preamble
          /\ UNCHANGED alive
       \/ /\ ~flvHeaderWritten /\ metaData = 0
          /\ alive' = FALSE
          /\ UNCHANGED <<rb, flvHeaderWritten, written>>
    /\ owner' = "write"
    /\ push' = IF push = "none" THEN "open" ELSE push
    /\ UNCHANGED <<actor, ctx, freed, endOfFile, ffmpeg, fed, lateTags, lost>>

writeData ==
    /\ alive /\ owner = "write"
    /\ LET tag == Unit("tag", TagsWritten + 1)
       IN  rb' = Append(rb, tag) /\ written' = Append(written, tag)
    /\ lateTags' = lateTags + IF isPushThreadDone THEN 1 ELSE 0
    /\ owner' = "serve"
    /\ UNCHANGED <<actor, ctx, freed, flvHeaderWritten, endOfFile, push, ffmpeg, alive, fed, lost>>

-----------------------------------------------------------------------------
(* The push thread.  feedData() is called back by FFmpeg while it opens,   *)
(* probes or reads its input and has nothing left to parse.                *)

NeedsData ==
    /\ alive
    /\ ended = "no"
    /\ push = "probe" \/ (push \in {"open", "read"} /\ demux = <<>>)

\* How many units one call returns; the last byte read resets rb_.
FedNow == IF Len(rb) < BufSize THEN Len(rb) ELSE BufSize

RbAfterFeed == SubSeq(rb, FedNow + 1, Len(rb))

feedData ==
    /\ NeedsData
    /\ rb # <<>>
    /\ demux' = demux \o SubSeq(rb, 1, FedNow)
    /\ fed' = fed \o SubSeq(rb, 1, FedNow)
    /\ rb' = RbAfterFeed
    /\ UNCHANGED <<owner, actor, ctx, freed, flvHeaderWritten, endOfFile, push,
                   ended, pkt, out, alive, written, lateTags, lost>>

\* Mutants of SawEnd: the end is reported before what is still buffered; the
\* flag is looked at only when there is data.
SawEndEarly == endOfFile
SawEndWithData == endOfFile /\ rb # <<>>

SawEnd == endOfFile /\ rb = <<>>

feedEnd ==
    /\ NeedsData
    /\ \/ SawEnd /\ ended' = "eof"
       \/ rb = <<>> /\ ~endOfFile /\ "data" \in Faults /\ ended' = "error"
    /\ UNCHANGED <<owner, actor, ctx, freed, info, push, demux, pkt, out, alive, history>>

PushStep(at, next) ==
    /\ alive /\ push = at
    /\ push' = next

\* Without a header first, avformat_open_input() fails and leaves NULL.
openInput ==
    /\ demux # <<>> \/ ended # "no"
    /\ PushStep("open", "probe")
    /\ IF demux # <<>> /\ Head(demux).kind = "flvHeader"
          THEN demux' = Tail(demux) /\ UNCHANGED alive
          ELSE alive' = FALSE /\ UNCHANGED demux
    /\ UNCHANGED <<owner, actor, ctx, freed, info, ended, pkt, out, history>>

\* Probing reads ahead as far as it likes.
findStreamInfo ==
    /\ \/ \E i \in DOMAIN demux : demux[i].kind = "tag"
       \/ ended # "no"
    /\ PushStep("probe", "header")
    /\ UNCHANGED <<owner, actor, ctx, freed, info, ffmpeg, alive, history>>

\* Without publish ctx_ is NULL.  A failure is logged and otherwise ignored.
writeHeader ==
    /\ PushStep("header", "read")
    /\ headerWritten' = TRUE
    /\ \/ /\ ctx = "none"
          /\ alive' = FALSE
          /\ UNCHANGED <<ctx, out>>
       \/ /\ ctx # "none"
          /\ ctx' = "header"
          /\ out' = Append(out, Unit("fileHeader", 0))
          /\ UNCHANGED alive
       \/ ctx # "none" /\ "write" \in Faults /\ UNCHANGED <<ctx, out, alive>>
    /\ UNCHANGED <<owner, connected, streamInfoCount, metaData, isPushThreadDone,
                   freed, info, demux, ended, pkt, history>>

\* av_read_frame(): script data is parsed, not returned.
readFrame ==
    /\ demux # <<>>
    /\ PushStep("read", IF Head(demux).kind = "tag" THEN "write" ELSE "read")
    /\ pkt' = IF Head(demux).kind = "tag" THEN Head(demux).n ELSE pkt
    /\ demux' = Tail(demux)
    /\ UNCHANGED <<owner, actor, ctx, freed, info, ended, out, alive, history>>

\* ctx_ replaced by a second publish has no streams (ctx_->streams[...]).
writeFrame ==
    /\ alive /\ push = "write"
    /\ pkt' = 0
    /\ \/ /\ ctx = "header"
          /\ out' = Append(out, Unit("tag", pkt))
          /\ push' = "read"
          /\ UNCHANGED <<alive, lost>>
       \/ /\ ctx = "header" /\ "write" \in Faults
          /\ push' = "notify"
          /\ lost' = pkt
          /\ UNCHANGED <<out, alive>>
       \/ /\ ctx # "header"
          /\ push' = "notify"
          /\ alive' = FALSE
          /\ UNCHANGED <<out, lost>>
    /\ UNCHANGED <<owner, actor, ctx, freed, info, demux, ended, written, fed, lateTags>>

readEnds ==
    /\ demux = <<>> /\ ended # "no"
    /\ PushStep("read", "notify")
    /\ UNCHANGED <<owner, actor, ctx, freed, info, ffmpeg, alive, history>>

\* Mutant of NotifiedDone: the flag is left alone.
NotNotified == isPushThreadDone' = FALSE

NotifiedDone == isPushThreadDone' = TRUE

notifyPushThreadDone ==
    /\ PushStep("notify", "exited")
    /\ NotifiedDone
    /\ UNCHANGED <<owner, connected, streamInfoCount, metaData, headerWritten,
                   ctx, freed, info, ffmpeg, alive, history>>

\* Memory is not what the code takes it for: streamMap_ was overwritten, or
\* the thread that is still running uses what the destructor released.
MemoryCorrupt ==
    \/ streamInfoCount > StreamCount
    \/ freed # {} /\ push \notin {"none", "exited"}

useCorruptMemory == alive /\ MemoryCorrupt /\ Die

\* The connection is over, or the process is: nothing is left to happen.
over ==
    /\ ~alive \/ (owner = "gone" /\ push \in {"none", "exited"})
    /\ UNCHANGED vars

-----------------------------------------------------------------------------
OwnerNext ==
    \/ prepareStream \/ writeData \/ timedJoin
    \/ freePkt \/ freeInfos \/ writeTrailer \/ closeOutput

ClientNext ==
    \/ onConnect \/ onCreateStream \/ hangUp
    \/ \E s \in Stream : onPublish(s) \/ onMetaData(s) \/ onReceiveStream(s)

PushNext ==
    \/ feedData \/ feedEnd \/ openInput \/ findStreamInfo \/ writeHeader
    \/ readFrame \/ writeFrame \/ readEnds \/ notifyPushThreadDone

Next == OwnerNext \/ ClientNext \/ PushNext \/ useCorruptMemory \/ over

\* Both threads are scheduled; the client need not send anything.
Spec == Init /\ [][Next]_vars /\ WF_vars(OwnerNext) /\ WF_vars(PushNext)

-----------------------------------------------------------------------------
Kind == {"flvHeader", "metaData", "tag", "fileHeader", "trailer"}
UnitType == [kind : Kind, n : Nat]

TypeOK ==
    /\ owner \in {"serve", "prepare", "write", "join",
                 "freePkt", "freeInfos", "trailer", "close", "gone"}
    /\ connected \in BOOLEAN
    /\ streamInfoCount \in Nat /\ metaData \in 0..MaxStreams
    /\ ctx \in {"none", "open", "header"}
    /\ headerWritten \in BOOLEAN /\ isPushThreadDone \in BOOLEAN
    /\ freed \subseteq {"pkt", "infos", "trailer", "ctx"}
    /\ rb \in Seq(UnitType) /\ flvHeaderWritten \in BOOLEAN /\ endOfFile \in BOOLEAN
    /\ push \in {"none", "open", "probe", "header", "read", "write", "notify", "exited"}
    /\ demux \in Seq(UnitType) /\ ended \in {"no", "eof", "error"}
    /\ pkt \in Nat /\ out \in Seq(UnitType)
    /\ isPushThreadDone <=> push = "exited"
    /\ alive \in BOOLEAN
    /\ written \in Seq(UnitType) /\ fed \in Seq(UnitType)
    /\ lateTags \in Nat /\ lost \in Nat

(* The hand-over of a stream from the connection's thread to FFmpeg, with  *)
(* its two locks and its polling (livereceiveractor.cpp:99-147), loses,    *)
(* repeats and reorders nothing, and end of file is only reported after    *)
(* everything was read (MediaPipe).                                        *)
MP == INSTANCE MediaPipe WITH read <- fed, closed <- endOfFile
ImplementsMediaPipe == MP!Spec

(* The output file, although two threads write it, is a header, tags of    *)
(* the client in order and without gaps, and a trailer; every tag accepted *)
(* is in it when the stream ends normally.  Only when no data came for ten *)
(* seconds, or a frame could not be written, may tags be missing, and only *)
(* the last ones (livereceiveractor.cpp:212-272, 518-598).                 *)
FileUpTo(k) ==
    <<Unit("fileHeader", 0)>> \o [n \in 1..k |-> Unit("tag", n)] \o <<Unit("trailer", 0)>>
FirstMissing == IF lost = 0 THEN TagsWritten + 1 ELSE lost
NoLossOnCleanClose ==
    alive /\ owner = "gone" /\ ctx = "header" =>
      \E k \in 0..TagsWritten :
          out = FileUpTo(k) /\ (ended = "error" \/ k = FirstMissing - 1)

(* The destructor releases pkt_, the stream and ctx_ only when the push    *)
(* thread is no longer there to use them (livereceiveractor.cpp:212-246).  *)
StoppedBeforeFreed == freed # {} => push \in {"none", "exited"}

(* "write thread is done, we do not need more data. so exit!"              *)
(* (livereceiveractor.cpp:383): the flag is read, unlocked, and the tag    *)
(* written later, so one tag may slip through, but never a second.         *)
AtMostOneLateTag == lateTags <= 1

(* onDisconnect() cannot hang the connection's thread on the push thread   *)
(* (livereceiveractor.cpp:259-272): the connection's resources are freed.  *)
DisconnectCompletes == owner = "join" ~> (owner = "gone" \/ ~alive)

(* Once told that the stream ended, the push thread comes to its end       *)
(* (livereceiveractor.cpp:117-121, 553-597).                               *)
PushThreadEnds == endOfFile ~> (push \in {"none", "exited"} \/ ~alive)
=============================================================================
