------------------------- MODULE LiveReceiverProofs -------------------------
(***************************************************************************)
(* What LiveReceiver keeps, for every number of streams, tags and units    *)
(* read at once, and whatever goes wrong around the actor; and what the    *)
(* output file is in the end.                                              *)
(***************************************************************************)
EXTENDS LiveReceiver, ProofFacts, FiniteSetTheorems

-----------------------------------------------------------------------------
(* Units and their numbers.                                                *)

\* The units the actor makes are units.
LEMMA UnitInType ==
    ASSUME NEW k \in Kind, NEW n \in Nat
    PROVE  Unit(k, n) \in UnitType
BY DEF Unit, UnitType

\* The number of the tags is a number.
LEMMA TagsAreFinite ==
    ASSUME NEW s \in Seq(UnitType)
    PROVE  IsFiniteSet(Tags(s)) /\ Cardinality(Tags(s)) \in Nat
<1>1. IsFiniteSet(1..Len(s)) /\ Tags(s) \subseteq 1..Len(s)
  BY FS_Interval DEF Tags
<1> QED
  BY <1>1, FS_Subset, FS_CardinalityType

-----------------------------------------------------------------------------
(* What an event does to the connection's side: it ends, or it goes on.    *)
Disconnected ==
    \/ onDisconnect
    \/ UNCHANGED <<info>> /\ owner' = "serve"

LEMMA DisconnectedType ==
    ASSUME TypeOK, Disconnected
    PROVE  /\ owner' \in {"serve", "join", "freePkt"}
           /\ rb' = rb /\ flvHeaderWritten' = flvHeaderWritten
           /\ endOfFile' \in BOOLEAN
<1>1. CASE onDisconnect /\ streamInfoCount > 0
  <2>1. /\ setEndOfFile /\ owner' = AfterDisconnect
        /\ UNCHANGED <<rb, flvHeaderWritten>>
    BY <1>1 DEF onDisconnect
  <2>2. endOfFile' \in BOOLEAN
    BY <2>1, Zenon DEF setEndOfFile
  <2> QED
    BY <2>1, <2>2 DEF AfterDisconnect
<1>2. CASE ~(onDisconnect /\ streamInfoCount > 0)
  BY <1>2 DEF Disconnected, onDisconnect, info, TypeOK
<1> QED
  BY <1>1, <1>2

-----------------------------------------------------------------------------
(* Every variable has its type, whatever the two threads do.               *)
THEOREM TypeCorrect == Spec => []TypeOK
<1> USE LiveReceiverAssumption DEF LiveReceiverAssumption
<1>1. Init => TypeOK
  <2> SUFFICES ASSUME Init PROVE TypeOK
    OBVIOUS
  <2>1. /\ connected \in BOOLEAN /\ headerWritten \in BOOLEAN /\ isPushThreadDone \in BOOLEAN
        /\ flvHeaderWritten \in BOOLEAN /\ endOfFile \in BOOLEAN /\ alive \in BOOLEAN
        /\ ~isPushThreadDone
    BY Zenon DEF Init
  <2>2. <<>> \in Seq(UnitType)
    OBVIOUS
  <2>3. /\ owner = "serve" /\ ctx = "none" /\ push = "none" /\ ended = "no"
        /\ streamInfoCount = 0 /\ metaData = 0 /\ pkt = 0 /\ lateTags = 0 /\ lost = 0
        /\ freed = {} /\ rb = <<>> /\ demux = <<>> /\ out = <<>> /\ written = <<>> /\ fed = <<>>
    BY Zenon DEF Init
  <2> QED
    BY <2>1, <2>2, <2>3 DEF TypeOK
<1>2. TypeOK /\ [Next]_vars => TypeOK'
  <2> SUFFICES ASSUME TypeOK, [Next]_vars PROVE TypeOK'
    OBVIOUS
  <2> USE DEF TypeOK
  <2>1. CASE prepareStream
    <3>1. Preamble \in Seq(UnitType)
      BY UnitInType DEF Preamble, Kind
    <3>2. /\ rb' \in Seq(UnitType) /\ written' \in Seq(UnitType)
      <4>1. rb \o Preamble \in Seq(UnitType) /\ written \o Preamble \in Seq(UnitType)
        BY <3>1, ConcatProperties
      <4>2. \/ rb' = rb /\ written' = written
            \/ rb' = rb \o Preamble /\ written' = written \o Preamble
        BY <2>1, Zenon DEF prepareStream
      <4> QED
        BY <4>1, <4>2, Zenon
    <3>3. flvHeaderWritten' \in BOOLEAN /\ alive' \in BOOLEAN
      BY <2>1, Zenon DEF prepareStream
    <3>4. /\ owner' = "write" /\ push' \in {"open", push}
          /\ push # "exited" => push' # "exited"
          /\ push = "exited" => push' = "exited"
          /\ UNCHANGED <<actor, ctx, freed, endOfFile, ffmpeg, fed, lateTags, lost>>
      BY <2>1 DEF prepareStream
    <3> QED
      BY <3>2, <3>3, <3>4 DEF actor, ffmpeg
  <2>2. CASE writeData
    <3>1. TagsWritten + 1 \in Nat
      BY TagsAreFinite DEF TagsWritten
    <3>2. Unit("tag", TagsWritten + 1) \in UnitType
      BY <3>1, UnitInType DEF Kind
    <3>3. rb' \in Seq(UnitType) /\ written' \in Seq(UnitType)
      BY <2>2, <3>2, AppendProperties DEF writeData
    <3>4. lateTags' \in Nat
      BY <2>2 DEF writeData
    <3>5. /\ owner' = "serve"
          /\ UNCHANGED <<actor, ctx, freed, flvHeaderWritten, endOfFile, push, ffmpeg, alive, fed, lost>>
      BY <2>2 DEF writeData
    <3> QED
      BY <3>3, <3>4, <3>5 DEF actor, ffmpeg
  <2>3. CASE timedJoin
    BY <2>3 DEF timedJoin, actor, info, ffmpeg, history
  <2>4. CASE freePkt
    BY <2>4 DEF freePkt, DestroyStep, actor, info, ffmpeg, history
  <2>5. CASE freeInfos
    BY <2>5 DEF freeInfos, DestroyStep, actor, info, ffmpeg, history
  <2>6. CASE writeTrailer
    <3>1. alive' \in BOOLEAN
      BY <2>6 DEF writeTrailer
    <3>2. out' \in Seq(UnitType)
      <4>1. Unit("trailer", 0) \in UnitType
        BY UnitInType DEF Kind
      <4>2. Append(out, Unit("trailer", 0)) \in Seq(UnitType)
        BY <4>1, AppendProperties
      <4>3. out' \in {out, Append(out, Unit("trailer", 0))}
        BY <2>6 DEF writeTrailer, TrailerAppended
      <4> QED
        BY <4>2, <4>3
    <3>3. /\ owner' = "close" /\ freed' = freed \union {"trailer"}
          /\ UNCHANGED <<actor, ctx, info, push, demux, ended, pkt, history>>
      BY <2>6 DEF writeTrailer, DestroyStep
    <3> QED
      BY <3>1, <3>2, <3>3 DEF actor, info, history
  <2>7. CASE closeOutput
    BY <2>7 DEF closeOutput, DestroyStep, actor, info, ffmpeg, history
  <2>8. CASE onConnect
    BY <2>8 DEF onConnect, Serving, info, ffmpeg, history
  <2>9. CASE onCreateStream
    <3>1. alive' \in BOOLEAN
      BY <2>9 DEF onCreateStream, onDisconnect
    <3>2. streamInfoCount' \in Nat
      <4>1. streamInfoCount' = streamInfoCount \/ streamInfoCount' = streamInfoCount + 1
        BY <2>9, Zenon DEF onCreateStream
      <4> QED
        BY <4>1
    <3>3. Disconnected
      BY <2>9 DEF onCreateStream, Disconnected, Serving
    <3>4. UNCHANGED <<connected, metaData, headerWritten, isPushThreadDone,
                   ctx, freed, push, ffmpeg, history>>
      BY <2>9 DEF onCreateStream
    <3>5. owner' \in {"serve", "join", "freePkt"} /\ endOfFile' \in BOOLEAN
          /\ rb' = rb /\ flvHeaderWritten' = flvHeaderWritten
      BY <3>3, DisconnectedType
    <3> QED
      BY <3>1, <3>2, <3>4, <3>5 DEF ffmpeg, history
  <2>10. CASE hangUp
    <3>1. alive' \in BOOLEAN
      BY <2>10 DEF hangUp, onDisconnect
    <3>2. Disconnected /\ UNCHANGED <<actor, ctx, freed, push, ffmpeg, history>>
      BY <2>10, Zenon DEF hangUp, Disconnected
    <3>3. owner' \in {"serve", "join", "freePkt"} /\ endOfFile' \in BOOLEAN
          /\ rb' = rb /\ flvHeaderWritten' = flvHeaderWritten
      BY <3>2, DisconnectedType
    <3> QED
      BY <3>1, <3>2, <3>3 DEF actor, ffmpeg, history
  <2>11. ASSUME NEW s \in Stream, onPublish(s) PROVE TypeOK'
    <3>1. alive' \in BOOLEAN
      BY <2>11 DEF onPublish, onDisconnect, Serving
    <3>2. ctx' \in {"none", "open", "header"} /\ out' \in Seq(UnitType)
      <4>1. <<>> \in Seq(UnitType)
        OBVIOUS
      <4>2. ctx' \in {"open", ctx} /\ (out' = <<>> \/ out' = out)
        BY <2>11 DEF onPublish
      <4> QED
        BY <4>1, <4>2
    <3>3. Disconnected
      BY <2>11 DEF onPublish, Disconnected, Serving
    <3>4. UNCHANGED <<actor, freed, push, demux, ended, pkt, history>>
      BY <2>11 DEF onPublish
    <3>5. owner' \in {"serve", "join", "freePkt"} /\ endOfFile' \in BOOLEAN
          /\ rb' = rb /\ flvHeaderWritten' = flvHeaderWritten
      BY <3>3, DisconnectedType
    <3> QED
      BY <3>1, <3>2, <3>4, <3>5 DEF actor, history
  <2>12. ASSUME NEW s \in Stream, onMetaData(s) PROVE TypeOK'
    <3>1. alive' \in BOOLEAN
      BY <2>12 DEF onMetaData, onDisconnect
    <3>2. metaData' \in 0..MaxStreams
      BY <2>12 DEF onMetaData, Stream
    <3>3. Disconnected
      BY <2>12 DEF onMetaData, Disconnected, Serving
    <3>4. UNCHANGED <<connected, streamInfoCount, headerWritten, isPushThreadDone,
                   ctx, freed, push, ffmpeg, history>>
      BY <2>12 DEF onMetaData
    <3>5. owner' \in {"serve", "join", "freePkt"} /\ endOfFile' \in BOOLEAN
          /\ rb' = rb /\ flvHeaderWritten' = flvHeaderWritten
      BY <3>3, DisconnectedType
    <3> QED
      BY <3>1, <3>2, <3>4, <3>5 DEF ffmpeg, history
  <2>13. ASSUME NEW s \in Stream, onReceiveStream(s) PROVE TypeOK'
    <3>1. UNCHANGED <<actor, ctx, freed, push, ffmpeg, history>>
      BY <2>13, Zenon DEF onReceiveStream
    <3>2. CASE onDisconnect
      <4>1. alive' \in BOOLEAN
        BY <3>2, Zenon DEF onDisconnect, TypeOK
      <4>2. owner' \in {"serve", "join", "freePkt"} /\ endOfFile' \in BOOLEAN
            /\ rb' = rb /\ flvHeaderWritten' = flvHeaderWritten
        BY <3>2, DisconnectedType DEF Disconnected
      <4> QED
        BY <3>1, <4>1, <4>2 DEF actor, ffmpeg, history
    <3>3. CASE ~onDisconnect
      <4>1. owner' \in {"prepare", "serve"} /\ UNCHANGED <<info, alive>>
        BY <2>13, <3>3 DEF onReceiveStream
      <4> QED
        BY <3>1, <4>1 DEF actor, info, ffmpeg, history
    <3> QED
      BY <3>2, <3>3
  <2>14. CASE feedData
    BY <2>14 DEF feedData, RbAfterFeed, FedNow, actor
  <2>15. CASE feedEnd
    BY <2>15 DEF feedEnd, actor, info, history
  <2>16. CASE openInput
    <3>1. alive' \in BOOLEAN
      BY <2>16 DEF openInput, PushStep
    <3>2. demux' \in Seq(UnitType)
      <4>1. demux # <<>> => Tail(demux) \in Seq(UnitType)
        BY HeadTailProperties
      <4>2. demux' = demux \/ (demux # <<>> /\ demux' = Tail(demux))
        BY <2>16 DEF openInput
      <4> QED
        BY <4>1, <4>2
    <3>3. /\ push = "open" /\ push' = "probe"
          /\ UNCHANGED <<owner, actor, ctx, freed, info, ended, pkt, out, history>>
      BY <2>16 DEF openInput, PushStep
    <3> QED
      BY <3>1, <3>2, <3>3 DEF actor, info, history
  <2>17. CASE findStreamInfo
    BY <2>17 DEF findStreamInfo, PushStep, actor, info, ffmpeg, history
  <2>18. CASE writeHeader
    <3>1. alive' \in BOOLEAN /\ headerWritten' \in BOOLEAN
      BY <2>18, Zenon DEF writeHeader, PushStep
    <3>2. out' \in Seq(UnitType)
      <4>1. Unit("fileHeader", 0) \in UnitType
        BY UnitInType DEF Kind
      <4>2. Append(out, Unit("fileHeader", 0)) \in Seq(UnitType)
        BY <4>1, AppendProperties
      <4>3. out' \in {out, Append(out, Unit("fileHeader", 0))}
        BY <2>18 DEF writeHeader
      <4> QED
        BY <4>2, <4>3
    <3>3. /\ push = "header" /\ push' = "read" /\ ctx' \in {ctx, "header"}
          /\ UNCHANGED <<owner, connected, streamInfoCount, metaData, isPushThreadDone,
                   freed, info, demux, ended, pkt, history>>
      BY <2>18 DEF writeHeader, PushStep
    <3> QED
      BY <3>1, <3>2, <3>3 DEF info, history
  <2>19. CASE readFrame
    <3>1. demux' \in Seq(UnitType) /\ Head(demux) \in UnitType
      BY <2>19, HeadTailProperties DEF readFrame
    <3>2. pkt' \in Nat
      BY <2>19, <3>1 DEF readFrame, UnitType
    <3>3. /\ push = "read" /\ push' \in {"read", "write"}
          /\ UNCHANGED <<owner, actor, ctx, freed, info, ended, out, alive, history>>
      BY <2>19 DEF readFrame, PushStep
    <3> QED
      BY <3>1, <3>2, <3>3 DEF actor, info, history
  <2>20. CASE writeFrame
    <3>1. alive' \in BOOLEAN
      BY <2>20 DEF writeFrame
    <3>2. out' \in Seq(UnitType)
      <4>1. Unit("tag", pkt) \in UnitType
        BY UnitInType DEF Kind
      <4>2. Append(out, Unit("tag", pkt)) \in Seq(UnitType)
        BY <4>1, AppendProperties
      <4>3. out' \in {out, Append(out, Unit("tag", pkt))}
        BY <2>20 DEF writeFrame
      <4> QED
        BY <4>2, <4>3
    <3>3. /\ push = "write" /\ push' \in {"read", "notify"} /\ pkt' = 0
          /\ UNCHANGED <<owner, actor, ctx, freed, info, demux, ended, written, fed, lateTags>>
      BY <2>20 DEF writeFrame
    <3>4. lost' \in Nat
      BY <2>20 DEF writeFrame, history
    <3> QED
      BY <3>1, <3>2, <3>3, <3>4 DEF actor, info
  <2>21. CASE readEnds
    BY <2>21 DEF readEnds, PushStep, actor, info, ffmpeg, history
  <2>22. CASE notifyPushThreadDone
    <3>1. isPushThreadDone' \in BOOLEAN /\ isPushThreadDone'
      BY <2>22, Zenon DEF notifyPushThreadDone, NotifiedDone
    <3>2. /\ push' = "exited"
          /\ UNCHANGED <<owner, connected, streamInfoCount, metaData, headerWritten,
                   ctx, freed, info, ffmpeg, alive, history>>
      BY <2>22 DEF notifyPushThreadDone, PushStep
    <3> QED
      BY <3>1, <3>2 DEF info, ffmpeg, history
  <2>23. CASE useCorruptMemory
    <3>1. alive' \in BOOLEAN
      BY <2>23, Zenon DEF useCorruptMemory, Die
    <3>2. UNCHANGED <<owner, actor, ctx, freed, info, push, ffmpeg, history>>
      BY <2>23, Zenon DEF useCorruptMemory, Die
    <3> QED
      BY <3>1, <3>2 DEF actor, info, ffmpeg, history
  <2>24. CASE UNCHANGED vars
    BY <2>24 DEF vars, actor, info, ffmpeg, history
  <2> QED
    BY <2>1, <2>2, <2>3, <2>4, <2>5, <2>6, <2>7, <2>8, <2>9, <2>10, <2>11, <2>12, <2>13,
       <2>14, <2>15, <2>16, <2>17, <2>18, <2>19, <2>20, <2>21, <2>22, <2>23, <2>24
       DEF Next, OwnerNext, ClientNext, PushNext, over
<1> QED
  BY <1>1, <1>2, PTL DEF Spec

-----------------------------------------------------------------------------
(* Nothing is released under the push thread, provided that it does end    *)
(* within the time the destructor's caller waits for it.  What has to be   *)
(* carried along: a push thread exists only once a stream does, so that    *)
(* disconnect() of an actor with no stream need not wait for one.          *)
Freeing == {"freePkt", "freeInfos", "trailer", "close", "gone"}

StopInv ==
    /\ freed # {} => owner \in Freeing
    /\ owner \in Freeing => push \in {"none", "exited"}
    /\ push # "none" \/ owner = "prepare" => streamInfoCount > 0

\* The end of the connection waits for the thread if there is one.
LEMMA DisconnectStops ==
    ASSUME TypeOK, StopInv, onDisconnect, Serving, UNCHANGED <<streamInfoCount, freed, push>>
    PROVE  StopInv'
<1>1. freed = {} /\ freed' = {} /\ push' = push /\ streamInfoCount' = streamInfoCount
  BY DEF StopInv, Freeing, Serving
<1>2. push # "none" => streamInfoCount > 0
  BY DEF StopInv
<1>3. owner' = AfterDisconnect \/ (streamInfoCount = 0 /\ owner' = "freePkt")
  BY DEF onDisconnect
<1>4. CASE push = "none"
  <2>1. owner' = "freePkt"
    BY <1>3, <1>4 DEF AfterDisconnect
  <2> QED
    BY <1>1, <1>4, <2>1 DEF StopInv, Freeing
<1>5. CASE push # "none"
  <2>1. owner' = "join" /\ streamInfoCount > 0
    BY <1>2, <1>3, <1>5 DEF AfterDisconnect, TypeOK
  <2> QED
    BY <1>1, <1>5, <2>1 DEF StopInv, Freeing
<1> QED
  BY <1>4, <1>5

LEMMA StopAlways == "join" \notin Faults => (Spec => []StopInv)
<1> SUFFICES ASSUME "join" \notin Faults PROVE Spec => []StopInv
  OBVIOUS
<1>1. Init => StopInv
  BY DEF Init, StopInv, Freeing
<1>2. TypeOK /\ StopInv /\ [Next]_vars => StopInv'
  <2> SUFFICES ASSUME TypeOK, StopInv, [Next]_vars PROVE StopInv'
    OBVIOUS
  <2>1. CASE prepareStream
    BY <2>1 DEF prepareStream, StopInv, Freeing, actor
  <2>2. CASE writeData
    BY <2>2 DEF writeData, StopInv, Freeing, actor
  <2>3. CASE timedJoin
    BY <2>3 DEF timedJoin, Joined, StopInv, Freeing, actor
  <2>4. CASE freePkt
    BY <2>4 DEF freePkt, DestroyStep, StopInv, Freeing, actor
  <2>5. CASE freeInfos
    BY <2>5 DEF freeInfos, DestroyStep, StopInv, Freeing, actor
  <2>6. CASE writeTrailer
    BY <2>6 DEF writeTrailer, DestroyStep, StopInv, Freeing, actor
  <2>7. CASE closeOutput
    BY <2>7 DEF closeOutput, DestroyStep, StopInv, Freeing, actor
  <2>8. CASE onConnect
    BY <2>8 DEF onConnect, StopInv, Freeing
  <2>9. CASE onCreateStream
    <3>1. CASE onDisconnect /\ UNCHANGED streamInfoCount
      BY <2>9, <3>1, DisconnectStops DEF onCreateStream
    <3>2. CASE ~(onDisconnect /\ UNCHANGED streamInfoCount)
      <4>1. /\ streamInfoCount' = streamInfoCount + 1
            /\ UNCHANGED <<owner, freed, push>>
        BY <2>9, <3>2, Zenon DEF onCreateStream
      <4>3. streamInfoCount' > 0
        BY <4>1 DEF TypeOK
      <4> QED
        BY <4>1, <4>3, Zenon DEF StopInv
    <3> QED
      BY <3>1, <3>2
  <2>10. CASE hangUp
    BY <2>10, DisconnectStops DEF hangUp, actor
  <2>11. ASSUME NEW s \in Stream, onPublish(s) PROVE StopInv'
    <3>1. CASE onDisconnect
      BY <2>11, <3>1, DisconnectStops DEF onPublish, actor
    <3>2. CASE ~onDisconnect
      BY <2>11, <3>2 DEF onPublish, StopInv, Freeing, actor
    <3> QED
      BY <3>1, <3>2
  <2>12. ASSUME NEW s \in Stream, onMetaData(s) PROVE StopInv'
    <3>1. CASE onDisconnect
      BY <2>12, <3>1, DisconnectStops DEF onMetaData
    <3>2. CASE ~onDisconnect
      BY <2>12, <3>2 DEF onMetaData, StopInv, Freeing
    <3> QED
      BY <3>1, <3>2
  <2>13. ASSUME NEW s \in Stream, onReceiveStream(s) PROVE StopInv'
    <3>1. CASE onDisconnect
      BY <2>13, <3>1, DisconnectStops DEF onReceiveStream, actor
    <3>2. CASE ~onDisconnect
      <4>1. /\ owner = "serve" /\ owner' \in {"prepare", "serve"}
            /\ Known(s) /\ UNCHANGED <<streamInfoCount, freed, push>>
        BY <2>13, <3>2 DEF onReceiveStream, Serving, actor
      <4>2. streamInfoCount > 0
        BY <4>1 DEF Known, Stream, TypeOK
      <4> QED
        BY <4>1, <4>2 DEF StopInv, Freeing
    <3> QED
      BY <3>1, <3>2
  <2>14. CASE feedData
    BY <2>14 DEF feedData, StopInv, Freeing, actor
  <2>15. CASE feedEnd
    BY <2>15 DEF feedEnd, StopInv, Freeing, actor
  <2>16. CASE openInput
    BY <2>16 DEF openInput, PushStep, StopInv, Freeing, actor
  <2>17. CASE findStreamInfo
    BY <2>17 DEF findStreamInfo, PushStep, StopInv, Freeing, actor
  <2>18. CASE writeHeader
    BY <2>18 DEF writeHeader, PushStep, StopInv, Freeing
  <2>19. CASE readFrame
    BY <2>19 DEF readFrame, PushStep, StopInv, Freeing, actor
  <2>20. CASE writeFrame
    BY <2>20 DEF writeFrame, StopInv, Freeing, actor
  <2>21. CASE readEnds
    BY <2>21 DEF readEnds, PushStep, StopInv, Freeing, actor
  <2>22. CASE notifyPushThreadDone
    BY <2>22 DEF notifyPushThreadDone, PushStep, StopInv, Freeing
  <2>23. CASE useCorruptMemory
    BY <2>23 DEF useCorruptMemory, Die, StopInv, Freeing, actor
  <2>24. CASE UNCHANGED vars
    BY <2>24 DEF vars, StopInv, Freeing, actor
  <2> QED
    BY <2>1, <2>2, <2>3, <2>4, <2>5, <2>6, <2>7, <2>8, <2>9, <2>10, <2>11, <2>12, <2>13,
       <2>14, <2>15, <2>16, <2>17, <2>18, <2>19, <2>20, <2>21, <2>22, <2>23, <2>24
       DEF Next, OwnerNext, ClientNext, PushNext, over
<1> QED
  BY <1>1, <1>2, TypeCorrect, PTL DEF Spec

\* The destructor releases nothing that the push thread may still use
\* (livereceiveractor.cpp:212-272).
THEOREM StoppedWhenJoined == "join" \notin Faults => (Spec => []StoppedBeforeFreed)
<1> SUFFICES ASSUME "join" \notin Faults PROVE Spec => []StoppedBeforeFreed
  OBVIOUS
<1>1. StopInv => StoppedBeforeFreed
  BY DEF StopInv, StoppedBeforeFreed, Freeing
<1> QED
  BY <1>1, StopAlways, PTL

-----------------------------------------------------------------------------
(* The unlocked look at isPushThreadDone_ lets one tag through at most:    *)
(* after a late tag the flag is set for good, and the connection's thread  *)
(* is not on its way to writing another.                                   *)
LateInv ==
    /\ lateTags <= 1
    /\ lateTags = 1 => isPushThreadDone /\ owner \notin {"prepare", "write"}

THEOREM OneLateTag == Spec => []AtMostOneLateTag
<1>1. Init => LateInv
  BY DEF Init, LateInv
<1>2. TypeOK /\ LateInv /\ [Next]_vars => LateInv'
  <2> SUFFICES ASSUME TypeOK, LateInv, [Next]_vars PROVE LateInv'
    OBVIOUS
  <2>1. CASE writeData
    <3>1. owner = "write" /\ owner' = "serve" /\ isPushThreadDone' = isPushThreadDone
      BY <2>1 DEF writeData, actor
    <3>2. lateTags = 0
      BY <3>1 DEF LateInv, TypeOK
    <3>3. lateTags' = IF isPushThreadDone THEN 1 ELSE 0
      BY <2>1, <3>2 DEF writeData
    <3>4. CASE isPushThreadDone
      BY <3>1, <3>3, <3>4 DEF LateInv
    <3>5. CASE ~isPushThreadDone
      BY <3>1, <3>3, <3>5 DEF LateInv
    <3> QED
      BY <3>4, <3>5
  <2>2. CASE prepareStream
    <3>1. owner = "prepare" /\ UNCHANGED lateTags
      BY <2>2 DEF prepareStream
    <3>2. lateTags' = 0
      BY <3>1 DEF LateInv, TypeOK
    <3> QED
      BY <3>2 DEF LateInv
  <2>3. ASSUME NEW s \in Stream, onReceiveStream(s) PROVE LateInv'
    <3>1. UNCHANGED <<lateTags, isPushThreadDone>>
      BY <2>3 DEF onReceiveStream, actor, history
    <3>2. CASE isPushThreadDone
      <4>1. onDisconnect
        BY <2>3, <3>2, Zenon DEF onReceiveStream, CheckDone
      <4>2. owner' \notin {"prepare", "write"}
        BY <4>1 DEF onDisconnect, AfterDisconnect
      <4> QED
        BY <3>1, <4>2 DEF LateInv
    <3>3. CASE ~isPushThreadDone
      BY <3>1, <3>3 DEF LateInv, TypeOK
    <3> QED
      BY <3>2, <3>3
  <2>4. CASE notifyPushThreadDone
    <3>1. isPushThreadDone' /\ UNCHANGED <<owner, lateTags>>
      BY <2>4, Zenon DEF notifyPushThreadDone, NotifiedDone, history
    <3> QED
      BY <3>1 DEF LateInv
  <2>5. ASSUME UNCHANGED <<lateTags, isPushThreadDone>>,
               owner' = owner \/ owner' \notin {"prepare", "write"}
        PROVE  LateInv'
    BY <2>5 DEF LateInv
  <2>6. CASE timedJoin \/ freePkt \/ freeInfos \/ writeTrailer \/ closeOutput
    BY <2>5, <2>6 DEF timedJoin, freePkt, freeInfos, writeTrailer, closeOutput, DestroyStep,
                      actor, history
  <2>7. CASE onConnect \/ onCreateStream \/ hangUp
    BY <2>5, <2>7 DEF onConnect, onCreateStream, hangUp, onDisconnect, AfterDisconnect,
                      actor, history
  <2>8. ASSUME NEW s \in Stream, onPublish(s) \/ onMetaData(s) PROVE LateInv'
    BY <2>5, <2>8 DEF onPublish, onMetaData, onDisconnect, AfterDisconnect, actor, history
  <2>9. CASE feedData \/ feedEnd \/ openInput \/ findStreamInfo \/ writeHeader
             \/ readFrame \/ writeFrame \/ readEnds
    BY <2>5, <2>9 DEF feedData, feedEnd, openInput, findStreamInfo, writeHeader,
                      readFrame, writeFrame, readEnds, actor, history
  <2>10. CASE useCorruptMemory \/ UNCHANGED vars
    BY <2>5, <2>10 DEF useCorruptMemory, Die, vars, actor, history
  <2> QED
    BY <2>1, <2>2, <2>3, <2>4, <2>6, <2>7, <2>8, <2>9, <2>10
       DEF Next, OwnerNext, ClientNext, PushNext, over
<1>3. LateInv => AtMostOneLateTag
  BY DEF LateInv, AtMostOneLateTag
<1> QED
  BY <1>1, <1>2, <1>3, TypeCorrect, PTL DEF Spec

-----------------------------------------------------------------------------
(* The hand-over of the media.  The invariant: what was put is what was    *)
(* fed followed by what is buffered; a tag's number follows from how much  *)
(* was put; nothing is put once the end of the file is set.                *)
PipeInv ==
    /\ written = fed \o rb
    /\ flvHeaderWritten => Len(written) = TagsWritten + 2
    /\ ~flvHeaderWritten => written = <<>>
    /\ owner = "write" /\ alive => flvHeaderWritten
    /\ owner \in {"serve", "prepare", "write"} => ~endOfFile

\* A tag more is one more tag.
LEMMA TagsOfAppend ==
    ASSUME NEW s \in Seq(UnitType), NEW n \in Nat
    PROVE  Cardinality(Tags(Append(s, Unit("tag", n)))) = Cardinality(Tags(s)) + 1
<1> DEFINE t == Append(s, Unit("tag", n))
<1>1. Unit("tag", n) \in UnitType /\ Unit("tag", n).kind = "tag"
  BY UnitInType DEF Kind, Unit
<1>2. /\ t \in Seq(UnitType) /\ Len(t) = Len(s) + 1
      /\ \A i \in 1..Len(s) : t[i] = s[i]
      /\ t[Len(s) + 1] = Unit("tag", n)
  BY <1>1, AppendProperties
<1> HIDE DEF t
<1>3. Tags(t) = Tags(s) \union {Len(s) + 1}
  BY <1>1, <1>2 DEF Tags
<1>4. Len(s) + 1 \notin Tags(s)
  BY DEF Tags
<1> QED
  BY <1>3, <1>4, TagsAreFinite, FS_AddElement DEF t

\* The preamble holds none.
LEMMA TagsOfPreamble ==
    ASSUME TypeOK
    PROVE  /\ Preamble \in Seq(UnitType) /\ Len(Preamble) = 2
           /\ Cardinality(Tags(Preamble)) = 0
<1>1. Preamble \in Seq(UnitType) /\ Len(Preamble) = 2
  BY UnitInType, LiveReceiverAssumption DEF Preamble, Kind, TypeOK, LiveReceiverAssumption
<1>2. Preamble[1].kind = "flvHeader" /\ Preamble[2].kind = "metaData"
  BY DEF Preamble, Unit
<1>3. Tags(Preamble) = {}
  BY <1>1, <1>2 DEF Tags
<1> QED
  BY <1>1, <1>3, FS_EmptySet

\* The end of the connection closes the pipe or leaves it as it was.
LEMMA DisconnectCloses ==
    ASSUME TypeOK, PipeInv, onDisconnect, UNCHANGED <<history, ended>>
    PROVE  PipeInv' /\ (MP!Close \/ UNCHANGED MP!vars)
<1>1. /\ UNCHANGED <<rb, flvHeaderWritten, written, fed, ended>>
      /\ owner' \notin {"serve", "prepare", "write"}
  BY DEF onDisconnect, AfterDisconnect, info, history
<1>2. PipeInv'
  BY <1>1 DEF PipeInv, TagsWritten
<1>3. endOfFile' = TRUE \/ endOfFile' = endOfFile
  BY Zenon DEF onDisconnect, setEndOfFile, info
<1>4. MP!Close \/ UNCHANGED MP!vars
  BY <1>1, <1>3, Zenon DEF MP!Close, MP!vars
<1> QED
  BY <1>2, <1>4

\* feedData() moves the front of what is buffered.
LEMMA FeedMoves ==
    ASSUME TypeOK, PipeInv, feedData
    PROVE  PipeInv' /\ \E k \in 1..Len(written) : MP!Get(k)
<1>1. /\ FedNow \in Nat /\ FedNow <= Len(rb) /\ FedNow # 0 /\ Len(rb) \in Nat /\ Len(fed) \in Nat
      /\ Len(written) = Len(fed) + Len(rb)
  <2>1. Len(fed \o rb) = Len(fed) + Len(rb)
    BY ConcatProperties DEF TypeOK
  <2>2. Len(rb) # 0
    BY DEF feedData, TypeOK
  <2> QED
    BY <2>1, <2>2, LiveReceiverAssumption DEF FedNow, TypeOK, PipeInv, LiveReceiverAssumption
<1> DEFINE k == FedNow
<1> HIDE DEF k
<1>2. /\ fed' = fed \o SubSeq(rb, 1, k) /\ rb' = SubSeq(rb, k + 1, Len(rb))
      /\ UNCHANGED <<owner, flvHeaderWritten, endOfFile, ended, written, alive>> /\ ended = "no"
  BY DEF feedData, RbAfterFeed, NeedsData, k
<1>3. /\ (fed \o SubSeq(rb, 1, k)) \o SubSeq(rb, k + 1, Len(rb)) = fed \o rb
      /\ fed \o SubSeq(rb, 1, k) = SubSeq(fed \o rb, 1, Len(fed) + k)
  <2>1. rb \in Seq(UnitType) /\ fed \in Seq(UnitType) /\ k \in Nat /\ k <= Len(rb)
    BY <1>1 DEF TypeOK, k
  <2> QED
    BY <2>1, CutMove
<1>4. written' = fed' \o rb'
  BY <1>2, <1>3, Zenon DEF PipeInv
<1>5. PipeInv'
  BY <1>2, <1>4, Zenon DEF PipeInv, TagsWritten
<1>6. k \in 1..Len(written) /\ Len(fed) + k <= Len(written)
  BY <1>1 DEF k
<1>7. fed' = SubSeq(written, 1, Len(fed) + k)
  BY <1>2, <1>3, Zenon DEF PipeInv
<1>8. MP!Get(k)
  BY <1>2, <1>6, <1>7, Zenon DEF MP!Get
<1> QED
  BY <1>5, <1>6, <1>8, Zenon

\* The first media message puts the preamble, with the stream's metadata.
LEMMA PreparePuts ==
    ASSUME TypeOK, PipeInv, prepareStream
    PROVE  PipeInv' /\ (MP!Next \/ UNCHANGED MP!vars)
<1>1. /\ owner = "prepare" /\ owner' = "write" /\ ~endOfFile
      /\ UNCHANGED <<endOfFile, fed, ended>>
  BY DEF prepareStream, PipeInv, ffmpeg
<1>2. CASE UNCHANGED <<rb, flvHeaderWritten, written>> /\ flvHeaderWritten
  BY <1>1, <1>2, Zenon DEF PipeInv, TagsWritten, MP!vars
<1>3. CASE /\ ~flvHeaderWritten /\ metaData # 0
           /\ flvHeaderWritten' = TRUE
           /\ rb' = rb \o Preamble
           /\ written' = written \o Preamble
  <2>1. written = <<>> /\ written = fed \o rb
    BY <1>3, Zenon DEF PipeInv
  <2>2. Preamble \in Seq(UnitType) /\ Len(Preamble) = 2 /\ Cardinality(Tags(Preamble)) = 0
    BY TagsOfPreamble
  <2>3. written' = Preamble
    BY <1>3, <2>1, <2>2, ConcatEmptySeq
  <2>4. written' = fed' \o rb'
    <3>1. (fed \o rb) \o Preamble = fed \o (rb \o Preamble)
      <4>1. fed \in Seq(UnitType) /\ rb \in Seq(UnitType)
        BY DEF TypeOK
      <4> QED
        BY <2>2, <4>1, ConcatAssociative
    <3> QED
      BY <1>1, <1>3, <2>1, <3>1, Zenon
  <2>5. Len(written') = TagsWritten' + 2
    BY <2>2, <2>3 DEF TagsWritten
  <2>6. PipeInv'
    BY <1>1, <1>3, <2>4, <2>5, Zenon DEF PipeInv
  <2>7. metaData \in Stream
    BY <1>3, LiveReceiverAssumption DEF Stream, TypeOK, LiveReceiverAssumption
  <2>8. MP!PutPreamble(metaData)
    BY <1>1, <2>1, <2>3, Zenon DEF MP!PutPreamble, MP!Preamble, MP!Unit, Preamble, Unit
  <2> QED
    BY <2>6, <2>7, <2>8, Zenon DEF MP!Next
<1>4. CASE UNCHANGED <<rb, flvHeaderWritten, written>> /\ ~flvHeaderWritten /\ alive' = FALSE
  BY <1>1, <1>4, Zenon DEF PipeInv, TagsWritten, MP!vars
<1> QED
  BY <1>2, <1>3, <1>4, Zenon DEF prepareStream

\* A later one puts a tag, numbered in the order of arrival.
LEMMA WritePuts ==
    ASSUME TypeOK, PipeInv, writeData
    PROVE  PipeInv' /\ (MP!Next \/ UNCHANGED MP!vars)
<1> DEFINE n == TagsWritten + 1
           tag == Unit("tag", n)
<1>1. /\ owner = "write" /\ owner' = "serve" /\ ~endOfFile /\ flvHeaderWritten
      /\ UNCHANGED <<endOfFile, fed, ended, flvHeaderWritten>>
  BY DEF writeData, PipeInv, ffmpeg
<1>2. TagsWritten \in Nat /\ n \in Nat
  BY TagsAreFinite DEF TagsWritten, TypeOK
<1>3. tag \in UnitType
  BY <1>2, UnitInType DEF Kind
<1>4. rb' = Append(rb, tag) /\ written' = Append(written, tag)
  BY Zenon DEF writeData
<1>5. TagsWritten' = TagsWritten + 1
  BY <1>2, <1>4, TagsOfAppend DEF TypeOK, TagsWritten
<1>6. Len(written') = Len(written) + 1 /\ Len(written) = TagsWritten + 2 /\ Len(written) \in Nat
  BY <1>1, <1>3, <1>4, AppendProperties DEF TypeOK, PipeInv
<1> HIDE DEF tag
<1>7. written' = fed' \o rb'
  <2>1. /\ rb \in Seq(UnitType) /\ fed \in Seq(UnitType) /\ <<tag>> \in Seq(UnitType)
        /\ fed \o rb \in Seq(UnitType)
    BY <1>3, ConcatProperties DEF TypeOK
  <2>2. /\ Append(rb, tag) = rb \o <<tag>>
        /\ Append(fed \o rb, tag) = (fed \o rb) \o <<tag>>
    BY <1>3, <2>1, AppendIsConcat
  <2>3. (fed \o rb) \o <<tag>> = fed \o (rb \o <<tag>>)
    BY <2>1, ConcatAssociative
  <2> QED
    BY <1>1, <1>4, <2>2, <2>3, Zenon DEF PipeInv
<1>8. PipeInv'
  <2>1. Len(written') = TagsWritten' + 2
    BY <1>2, <1>5, <1>6
  <2>2. owner' # "write"
    BY <1>1
  <2> QED
    BY <1>1, <1>7, <2>1, <2>2, Zenon DEF PipeInv
<1>9. n = Len(written) - 1 /\ Len(written) >= 2
  BY <1>2, <1>6
<1>10. tag = MP!Unit("tag", Len(written) - 1)
  BY <1>9, Zenon DEF tag, MP!Unit, Unit
<1>11. MP!PutTag
  BY <1>1, <1>4, <1>9, <1>10, Zenon DEF MP!PutTag
<1> QED
  BY <1>8, <1>11, Zenon DEF MP!Next

\* The end is told when everything was fed.
LEMMA EndTold ==
    ASSUME TypeOK, PipeInv, feedEnd
    PROVE  PipeInv' /\ MP!Next
<1>1. /\ UNCHANGED <<owner, flvHeaderWritten, endOfFile, rb, written, fed, alive>>
      /\ ended = "no" /\ rb = <<>>
  BY DEF feedEnd, NeedsData, SawEnd, info, history
<1>2. PipeInv'
  BY <1>1, Zenon DEF PipeInv, TagsWritten
<1>3. fed = written
  BY <1>1, ConcatEmptySeq DEF PipeInv, TypeOK
<1>4. (endOfFile /\ ended' = "eof") \/ ended' = "error"
  BY Zenon DEF feedEnd, SawEnd
<1>5. MP!End \/ MP!GiveUp
  BY <1>1, <1>3, <1>4, Zenon DEF MP!End, MP!GiveUp
<1> QED
  BY <1>2, <1>5, Zenon DEF MP!Next

LEMMA PipeAlways == Spec => []PipeInv /\ ImplementsMediaPipe
<1>1. Init => PipeInv /\ MP!Init
  <2> SUFFICES ASSUME Init PROVE PipeInv /\ MP!Init
    OBVIOUS
  <2>1. <<>> \o <<>> = <<>>
    BY ConcatEmptySeq
  <2>2. /\ written = <<>> /\ fed = <<>> /\ rb = <<>> /\ owner = "serve" /\ ended = "no"
        /\ ~flvHeaderWritten /\ ~endOfFile /\ endOfFile = FALSE
    BY Zenon DEF Init
  <2>3. owner # "write"
    BY <2>2
  <2> QED
    BY <2>1, <2>2, <2>3, Zenon DEF PipeInv, MP!Init
<1>2. TypeOK /\ PipeInv /\ [Next]_vars => PipeInv' /\ [MP!Next]_(MP!vars)
  <2> SUFFICES ASSUME TypeOK, PipeInv, [Next]_vars
               PROVE  PipeInv' /\ (MP!Next \/ UNCHANGED MP!vars)
    BY Zenon
  <2>a. ASSUME UNCHANGED <<info, written, fed, ended>>,
               owner' = owner \/ owner' \notin {"serve", "prepare", "write"}
                 \/ (owner = "serve" /\ owner' = "prepare"),
               alive
        PROVE  PipeInv' /\ (MP!Next \/ UNCHANGED MP!vars)
    <3>1. UNCHANGED <<rb, flvHeaderWritten, endOfFile, written, fed, ended>>
      BY <2>a, Zenon DEF info
    <3>2. /\ owner' = "write" => owner = "write"
          /\ owner' \in {"serve", "prepare", "write"} => owner \in {"serve", "prepare", "write"}
      BY <2>a
    <3> QED
      BY <2>a, <3>1, <3>2, Zenon DEF PipeInv, TagsWritten, MP!vars
  <2>b. ASSUME onDisconnect, UNCHANGED <<history, ended>>
        PROVE  PipeInv' /\ (MP!Next \/ UNCHANGED MP!vars)
    BY <2>b, DisconnectCloses, Zenon DEF MP!Next
  <2>1. CASE prepareStream
    BY <2>1, PreparePuts, Zenon
  <2>2. CASE writeData
    BY <2>2, WritePuts, Zenon
  <2>3. CASE timedJoin \/ freePkt \/ freeInfos \/ writeTrailer \/ closeOutput
    BY <2>a, <2>3 DEF timedJoin, freePkt, freeInfos, writeTrailer, closeOutput, DestroyStep,
                      ffmpeg, history
  <2>4. CASE onConnect
    BY <2>a, <2>4 DEF onConnect, Serving, ffmpeg, history
  <2>5. CASE onCreateStream \/ hangUp
    <3>1. UNCHANGED <<history, written, fed, ended>> /\ alive
      BY <2>5 DEF onCreateStream, hangUp, Serving, ffmpeg, history
    <3>2. onDisconnect \/ UNCHANGED <<owner, info>>
      BY <2>5, Zenon DEF onCreateStream, hangUp
    <3> QED
      BY <2>a, <2>b, <3>1, <3>2, Zenon
  <2>6. ASSUME NEW s \in Stream, onPublish(s) \/ onMetaData(s) PROVE PipeInv' /\ (MP!Next \/ UNCHANGED MP!vars)
    <3>1. UNCHANGED <<history, written, fed, ended>> /\ alive
      BY <2>6 DEF onPublish, onMetaData, Serving, ffmpeg, history
    <3>2. onDisconnect \/ UNCHANGED <<owner, info>>
      BY <2>6, Zenon DEF onPublish, onMetaData
    <3> QED
      BY <2>a, <2>b, <3>1, <3>2, Zenon
  <2>7. ASSUME NEW s \in Stream, onReceiveStream(s) PROVE PipeInv' /\ (MP!Next \/ UNCHANGED MP!vars)
    <3>1. UNCHANGED <<history, written, fed, ended>> /\ alive
      BY <2>7 DEF onReceiveStream, Serving, ffmpeg, history
    <3>2. CASE onDisconnect
      BY <2>b, <3>1, <3>2, Zenon
    <3>3. CASE ~onDisconnect
      <4>1. owner = "serve" /\ owner' \in {"prepare", "serve"} /\ UNCHANGED info
        BY <2>7, <3>3 DEF onReceiveStream, Serving
      <4> QED
        BY <2>a, <3>1, <4>1
    <3> QED
      BY <3>2, <3>3
  <2>8. CASE feedData
    BY <2>8, FeedMoves, Zenon DEF MP!Next
  <2>9. CASE feedEnd
    BY <2>9, EndTold, Zenon
  <2>10. CASE openInput \/ findStreamInfo \/ writeHeader \/ readFrame \/ writeFrame
              \/ readEnds \/ notifyPushThreadDone
    BY <2>a, <2>10 DEF openInput, findStreamInfo, writeHeader, readFrame, writeFrame,
                       readEnds, notifyPushThreadDone, PushStep, ffmpeg, history
  <2>11. CASE useCorruptMemory
    BY <2>a, <2>11 DEF useCorruptMemory, Die, ffmpeg, history
  <2>12. CASE UNCHANGED vars
    BY <2>12, Zenon DEF vars, info, history, ffmpeg, PipeInv, TagsWritten, MP!vars
  <2> QED
    BY <2>1, <2>2, <2>3, <2>4, <2>5, <2>6, <2>7, <2>8, <2>9, <2>10, <2>11, <2>12
       DEF Next, OwnerNext, ClientNext, PushNext, over
<1> QED
  BY <1>1, <1>2, TypeCorrect, PTL DEF Spec, ImplementsMediaPipe, MP!Spec

(* Between the two threads nothing is lost, repeated or reordered, and the *)
(* end of the file is told last: LiveReceiver implements MediaPipe.        *)
THEOREM ReceiverIsPipe == Spec => ImplementsMediaPipe
  BY PipeAlways, PTL

-----------------------------------------------------------------------------
(* What the output file holds in the end: along the way of a tag, from the *)
(* order in which it is put into rb_ (Numbered), through FFmpeg's buffer   *)
(* (Parsed), into the file that two threads write (FileInv).               *)

\* What was put into rb_ is numbered by its place.
Numbered ==
    \A i \in 1..Len(written) :
        IF i = 1 THEN written[i] = Unit("flvHeader", 0)
        ELSE IF i = 2 THEN written[i].kind = "metaData"
        ELSE written[i] = Unit("tag", i - 2)

\* A tag is put with the number of its place; the two others come first.
LEMMA NumberedStep == TypeOK /\ PipeInv /\ Numbered /\ [Next]_vars => Numbered'
<1> SUFFICES ASSUME TypeOK, PipeInv, Numbered, [Next]_vars PROVE Numbered'
  OBVIOUS
<1>0. written \in Seq(UnitType) /\ Len(written) \in Nat
  BY DEF TypeOK
<1>1. CASE prepareStream
  <2>1. CASE UNCHANGED written
    BY <2>1 DEF Numbered
  <2>2. CASE ~flvHeaderWritten /\ written' = written \o Preamble
    <3>1. Preamble \in Seq(UnitType) /\ Len(Preamble) = 2 /\ written = <<>>
      BY <2>2, TagsOfPreamble DEF PipeInv
    <3>2. written' = Preamble
      BY <2>2, <3>1, ConcatEmptySeq
    <3>3. Preamble[1] = Unit("flvHeader", 0) /\ Preamble[2].kind = "metaData"
      BY DEF Preamble, Unit
    <3>4. Len(written') = 2 /\ written'[1] = Unit("flvHeader", 0) /\ written'[2].kind = "metaData"
      BY <3>1, <3>2, <3>3
    <3>5. \A i \in 1..Len(written') : i = 1 \/ i = 2
      BY <3>4
    <3> QED BY <3>4, <3>5 DEF Numbered
  <2> QED BY <1>1, <2>1, <2>2 DEF prepareStream
<1>2. CASE writeData
  <2> DEFINE tag == Unit("tag", TagsWritten + 1)
  <2>1. Len(written) = TagsWritten + 2 /\ TagsWritten \in Nat
    BY <1>2, TagsAreFinite DEF writeData, PipeInv, TagsWritten, TypeOK
  <2>2. tag \in UnitType
    BY <2>1, UnitInType DEF Kind
  <2>3. written' = Append(written, tag)
    BY <1>2 DEF writeData
  <2>4. tag = Unit("tag", (Len(written) + 1) - 2)
    <3>1. TagsWritten + 1 = (Len(written) + 1) - 2
      BY <2>1
    <3> QED BY <3>1, Zenon
  <2> HIDE DEF tag
  <2>5. /\ Len(written') = Len(written) + 1
        /\ \A i \in 1..Len(written) : written'[i] = written[i]
        /\ written'[Len(written) + 1] = tag
    BY <1>0, <2>2, <2>3, AppendProperties
  <2>6. \A i \in 1..Len(written') : i \in 1..Len(written) \/ (i = Len(written) + 1 /\ i > 2)
    BY <1>0, <2>1, <2>5
  <2> QED BY <2>4, <2>5, <2>6 DEF Numbered
<1>3. CASE ~prepareStream /\ ~writeData
  <2>1. UNCHANGED written
    BY <1>3 DEF Next, OwnerNext, ClientNext, PushNext, over, vars, history, timedJoin, freePkt,
           freeInfos, writeTrailer, closeOutput, onConnect, onCreateStream, hangUp, onPublish,
           onMetaData, onReceiveStream, feedData, feedEnd, openInput, findStreamInfo, writeHeader,
           readFrame, writeFrame, readEnds, notifyPushThreadDone, useCorruptMemory, Die
  <2> QED BY <2>1 DEF Numbered
<1> QED BY <1>1, <1>2, <1>3

-----------------------------------------------------------------------------
(* FFmpeg's buffer is the end of what was fed.                             *)

Consumed == Len(fed) - Len(demux)

Parsed ==
    /\ \A i \in 1..Len(demux) : demux[i] = fed[Consumed + i]
    /\ push \in {"none", "open"} => Consumed = 0
    /\ push \in {"probe", "header"} => Consumed = 1
    /\ push \notin {"none", "open"} => Consumed >= 1
    /\ ended = "eof" => endOfFile /\ rb = <<>>

ParsedIfAlive == alive => Parsed

\* What is parsed is left alone.
LEMMA ParsedIdle ==
    ASSUME Parsed, UNCHANGED <<fed, demux>>,
           \/ push' = push
           \/ push = "none" /\ push' = "open"
           \/ push \notin {"none", "open"} /\ push' \notin {"none", "open", "probe", "header"}
           \/ push = "probe" /\ push' = "header",
           ended' = "eof" => endOfFile' /\ rb' = <<>>
    PROVE  Parsed'
BY DEF Parsed, Consumed

\* The first unit of FFmpeg's buffer is taken.
LEMMA ParsedTake ==
    ASSUME TypeOK, Parsed, demux # <<>>, demux' = Tail(demux), UNCHANGED <<fed, rb, ended, endOfFile>>,
           \/ push = "open" /\ push' = "probe"
           \/ push = "read" /\ push' \in {"read", "write"}
    PROVE  Parsed' /\ Consumed' = Consumed + 1 /\ Head(demux) = fed[Consumed + 1]
           /\ Consumed + 1 \in 1..Len(fed)
<1>0. demux \in Seq(UnitType) /\ Len(demux) \in Nat /\ Len(demux) # 0 /\ Len(fed) \in Nat
  BY DEF TypeOK
<1>1. /\ Tail(demux) \in Seq(UnitType) /\ Len(Tail(demux)) = Len(demux) - 1
      /\ \A i \in 1..Len(Tail(demux)) : Tail(demux)[i] = demux[i + 1]
  BY <1>0, HeadTailProperties
<1>2. Consumed' = Consumed + 1 /\ Consumed \in Int
  BY <1>0, <1>1 DEF Consumed
<1>3. \A i \in 1..Len(demux') : demux'[i] = fed'[Consumed' + i]
  <2> TAKE i \in 1..Len(demux')
  <2>1. i + 1 \in 1..Len(demux) /\ Consumed + (i + 1) = (Consumed + 1) + i
    BY <1>0, <1>1, <1>2
  <2>2. demux[i + 1] = fed[Consumed + (i + 1)]
    BY <2>1 DEF Parsed
  <2> QED BY <1>1, <1>2, <2>1, <2>2
<1>4. 1 \in 1..Len(demux) /\ Head(demux) = demux[1]
  BY <1>0
<1>5. Consumed >= 0
  BY <1>2 DEF Parsed
<1>6. Consumed + 1 <= Len(fed)
  BY <1>0 DEF Consumed
<1>7. Consumed + 1 \in 1..Len(fed)
  BY <1>0, <1>2, <1>5, <1>6
<1>8. Head(demux) = fed[Consumed + 1]
  BY <1>4 DEF Parsed
<1>9. push = "open" => Consumed = 0
  BY DEF Parsed
<1>10. Consumed' >= 1 /\ (push = "open" => Consumed' = 1)
  BY <1>2, <1>5, <1>9
<1>11. ended' = "eof" => endOfFile' /\ rb' = <<>>
  BY DEF Parsed
<1> HIDE DEF Consumed
<1>12. Parsed'
  BY <1>3, <1>10, <1>11 DEF Parsed
<1> QED BY <1>2, <1>7, <1>8, <1>12

\* What is fed goes behind what FFmpeg has.
LEMMA ParsedFeed ==
    ASSUME TypeOK, Parsed, feedData
    PROVE  Parsed'
<1> DEFINE x == SubSeq(rb, 1, FedNow)
<1>1. FedNow \in Nat /\ FedNow <= Len(rb) /\ rb \in Seq(UnitType)
  BY LiveReceiverAssumption DEF FedNow, TypeOK, LiveReceiverAssumption
<1>2. x \in Seq(UnitType)
  <2>1. SubSeq(rb, 0 + 1, FedNow) \in Seq(UnitType)
    BY <1>1, CutProperties
  <2> QED BY <2>1
<1>3. demux' = demux \o x /\ fed' = fed \o x /\ push' = push /\ ended = "no" /\ ended' = "no"
  BY DEF feedData, NeedsData
<1> HIDE DEF x
<1>4. demux \in Seq(UnitType) /\ fed \in Seq(UnitType)
  BY DEF TypeOK
<1>5. /\ Len(demux') = Len(demux) + Len(x) /\ Len(fed') = Len(fed) + Len(x)
      /\ Len(demux) \in Nat /\ Len(x) \in Nat /\ Len(fed) \in Nat
      /\ \A i \in 1..Len(demux) + Len(x) :
            demux'[i] = IF i <= Len(demux) THEN demux[i] ELSE x[i - Len(demux)]
      /\ \A i \in 1..Len(fed) + Len(x) :
            fed'[i] = IF i <= Len(fed) THEN fed[i] ELSE x[i - Len(fed)]
  BY <1>2, <1>3, <1>4, ConcatProperties
<1>6. Consumed' = Consumed /\ Consumed \in Int
  BY <1>5 DEF Consumed
<1>7. Consumed >= 0
  BY <1>6 DEF Parsed, TypeOK
<1>8. \A i \in 1..Len(demux') : demux'[i] = fed'[Consumed' + i]
  <2> TAKE i \in 1..Len(demux')
  <2>1. Consumed + i \in 1..Len(fed) + Len(x) /\ i \in 1..Len(demux) + Len(x)
    BY <1>5, <1>7, <1>6 DEF Consumed
  <2>2. CASE i <= Len(demux)
    <3>1. Consumed + i <= Len(fed) /\ i \in 1..Len(demux)
      BY <1>5, <2>2, <2>1 DEF Consumed
    <3>2. demux[i] = fed[Consumed + i]
      BY <3>1 DEF Parsed
    <3> QED BY <1>5, <1>6, <2>1, <3>1, <3>2
  <2>3. CASE i > Len(demux)
    <3>1. Consumed + i > Len(fed) /\ (Consumed + i) - Len(fed) = i - Len(demux)
      BY <1>5, <2>3, <2>1 DEF Consumed
    <3>2. demux'[i] = x[i - Len(demux)]
      BY <1>5, <2>1, <2>3
    <3>3. fed'[Consumed + i] = x[(Consumed + i) - Len(fed)]
      BY <1>5, <2>1, <3>1
    <3> QED BY <1>6, <3>1, <3>2, <3>3
  <2> QED BY <2>2, <2>3, <2>1
<1> QED BY <1>3, <1>6, <1>8 DEF Parsed

\* Only opening and reading parse a unit; only feeding adds one.
LEMMA ParsedStep == TypeOK /\ PipeInv /\ ParsedIfAlive /\ [Next]_vars => ParsedIfAlive'
<1> SUFFICES ASSUME TypeOK, PipeInv, ParsedIfAlive, [Next]_vars, alive' PROVE Parsed'
  BY DEF ParsedIfAlive
<1>d. onDisconnect /\ ended' = ended => (Parsed => (ended' = "eof" => endOfFile' /\ rb' = rb /\ rb = <<>>))
  <2>1. onDisconnect => rb' = rb /\ (endOfFile' = TRUE \/ endOfFile' = endOfFile)
    BY Zenon DEF onDisconnect, setEndOfFile, info
  <2>2. (endOfFile' = TRUE \/ endOfFile' = endOfFile) => (endOfFile => endOfFile')
    BY Zenon
  <2> QED BY <2>1, <2>2, Zenon DEF Parsed
<1>i. info' = info /\ ended' = ended => (Parsed => (ended' = "eof" => endOfFile' /\ rb' = rb /\ rb = <<>>))
  BY DEF info, Parsed
<1>1. CASE prepareStream
  <2>1. Parsed /\ ended # "eof"
    BY <1>1 DEF prepareStream, ParsedIfAlive, Parsed, PipeInv
  <2>2. UNCHANGED <<fed, demux, ended>> /\ (push' = push \/ (push = "none" /\ push' = "open"))
    <3>1. UNCHANGED <<fed, demux, ended>> /\ push' = IF push = "none" THEN "open" ELSE push
      BY <1>1, Zenon DEF prepareStream, ffmpeg
    <3>2. CASE push = "none"
      BY <3>1, <3>2
    <3>3. CASE push # "none"
      BY <3>1, <3>3
    <3> QED BY <3>2, <3>3
  <2> QED BY <2>1, <2>2, ParsedIdle
<1>2. CASE writeData
  <2>1. Parsed /\ ended # "eof"
    BY <1>2 DEF writeData, ParsedIfAlive, Parsed, PipeInv
  <2>2. UNCHANGED <<fed, demux, ended, push>>
    BY <1>2 DEF writeData, ffmpeg
  <2> QED BY <2>1, <2>2, ParsedIdle
<1>3. CASE timedJoin \/ freePkt \/ freeInfos \/ writeTrailer \/ closeOutput
  <2>1. UNCHANGED <<fed, demux, ended, push, info>> /\ alive
    BY <1>3 DEF timedJoin, freePkt, freeInfos, writeTrailer, closeOutput, DestroyStep, ffmpeg, history
  <2> QED BY <1>i, <2>1, ParsedIdle DEF ParsedIfAlive
<1>4. CASE ClientNext
  <2>1. UNCHANGED <<fed, demux, ended, push>> /\ alive
    BY <1>4 DEF ClientNext, onConnect, onCreateStream, hangUp, onPublish, onMetaData, onReceiveStream,
                Serving, ffmpeg, history
  <2>2. onDisconnect \/ UNCHANGED info
    BY <1>4, Zenon DEF ClientNext, onConnect, onCreateStream, hangUp, onPublish, onMetaData, onReceiveStream
  <2> QED BY <1>d, <1>i, <2>1, <2>2, ParsedIdle DEF ParsedIfAlive
<1>5. CASE feedData
  BY <1>5, ParsedFeed DEF feedData, NeedsData, ParsedIfAlive
<1>6. CASE feedEnd
  <2>1. UNCHANGED <<fed, demux, push, endOfFile, rb>> /\ alive
        /\ (ended' = "eof" => endOfFile /\ rb = <<>>)
    BY <1>6 DEF feedEnd, NeedsData, SawEnd, info, history
  <2> QED BY <2>1, ParsedIdle DEF ParsedIfAlive
<1>7. CASE openInput
  <2>1. demux # <<>> /\ demux' = Tail(demux) /\ push = "open" /\ push' = "probe" /\ alive
        /\ UNCHANGED <<fed, rb, ended, endOfFile>>
    BY <1>7 DEF openInput, PushStep, info, history
  <2> QED BY <2>1, ParsedTake DEF ParsedIfAlive
<1>8. CASE readFrame
  <2>1. demux # <<>> /\ demux' = Tail(demux) /\ push = "read" /\ push' \in {"read", "write"} /\ alive
        /\ UNCHANGED <<fed, rb, ended, endOfFile>>
    BY <1>8 DEF readFrame, PushStep, info, history
  <2> QED BY <2>1, ParsedTake DEF ParsedIfAlive
<1>9. CASE findStreamInfo \/ writeHeader \/ writeFrame \/ readEnds \/ notifyPushThreadDone
  <2>1. UNCHANGED <<fed, demux, ended, info>> /\ alive
    BY <1>9 DEF findStreamInfo, writeHeader, writeFrame, readEnds, notifyPushThreadDone, PushStep,
                ffmpeg, history
  <2>2. \/ push \notin {"none", "open"} /\ push' \notin {"none", "open", "probe", "header"}
        \/ push = "probe" /\ push' = "header"
    BY <1>9 DEF findStreamInfo, writeHeader, writeFrame, readEnds, notifyPushThreadDone, PushStep
  <2> QED BY <1>i, <2>1, <2>2, ParsedIdle DEF ParsedIfAlive
<1>10. CASE useCorruptMemory
  BY <1>10 DEF useCorruptMemory, Die
<1>11. CASE UNCHANGED vars
  <2>1. UNCHANGED <<fed, demux, ended, push, info, alive>>
    BY <1>11 DEF vars, ffmpeg, history
  <2> QED BY <1>i, <2>1, ParsedIdle DEF ParsedIfAlive
<1> QED BY <1>1, <1>2, <1>3, <1>4, <1>5, <1>6, <1>7, <1>8, <1>9, <1>10, <1>11
        DEF Next, OwnerNext, PushNext, over

-----------------------------------------------------------------------------
(* The output file holds the tags that FFmpeg has parsed, up to the one    *)
(* that is being written or that could not be.                             *)

InFile ==
    IF push = "write" THEN Consumed - 3
    ELSE IF lost # 0 THEN lost - 1
    ELSE IF Consumed >= 2 THEN Consumed - 2
    ELSE 0

Finished == owner \in {"close", "gone"}

Holds(k) ==
    /\ Len(out) = k + 1 + (IF Finished THEN 1 ELSE 0)
    /\ out[1] = Unit("fileHeader", 0)
    /\ \A n \in 1..k : out[n + 1] = Unit("tag", n)
    /\ Finished => out[k + 2] = Unit("trailer", 0)

FileInv ==
    /\ ctx # "header" => out = <<>>
    /\ push \notin {"notify", "exited"} => lost = 0
    /\ push = "write" => Consumed >= 3 /\ pkt = Consumed - 2
    /\ lost # 0 => lost <= Consumed - 2
    /\ push \in {"notify", "exited"} => lost # 0 \/ (demux = <<>> /\ ended # "no")
    /\ ctx = "header" =>
         /\ push \in {"read", "write", "notify", "exited"} /\ headerWritten
         /\ Holds(InFile)

FileIfAlive == alive => FileInv

\* Steps that do not move a tag into the file or towards it.
LEMMA FileIdle ==
    ASSUME FileInv, UNCHANGED <<ctx, out, lost, push, pkt>>, Consumed' = Consumed,
           headerWritten => headerWritten', Finished' = Finished,
           UNCHANGED <<demux, ended>> \/ push \notin {"notify", "exited"}
    PROVE  FileInv'
<1>1. InFile' = InFile
  BY DEF InFile
<1>2. Holds(InFile) => Holds(InFile)'
  BY <1>1 DEF Holds
<1> QED BY <1>2 DEF FileInv

\* One more unit at the end of the file.
LEMMA FileGrows ==
    ASSUME TypeOK, NEW k \in Nat, Holds(k), ~Finished, NEW u \in UnitType, out' = Append(out, u)
    PROVE  /\ Len(out') = k + 2 /\ out'[1] = Unit("fileHeader", 0) /\ out'[k + 2] = u
           /\ \A n \in 1..k : out'[n + 1] = Unit("tag", n)
<1>1. out \in Seq(UnitType) /\ Len(out) = k + 1
  BY DEF TypeOK, Holds
<1>2. /\ Len(out') = Len(out) + 1 /\ out'[Len(out) + 1] = u
      /\ \A i \in 1..Len(out) : out'[i] = out[i]
  BY <1>1, AppendProperties
<1>3. 1 \in 1..Len(out) /\ \A n \in 1..k : n + 1 \in 1..Len(out)
  BY <1>1
<1> QED BY <1>1, <1>2, <1>3 DEF Holds

\* FFmpeg has parsed no more than it was fed, nor that than what was put.
LEMMA ConsumedType ==
    ASSUME TypeOK, PipeInv, Parsed
    PROVE  /\ Consumed \in Nat /\ Consumed <= Len(fed) /\ Len(fed) <= Len(written)
           /\ Len(fed) \in Nat /\ Len(written) \in Nat
           /\ \A i \in 1..Len(fed) : written[i] = fed[i]
<1>1. fed \in Seq(UnitType) /\ rb \in Seq(UnitType) /\ demux \in Seq(UnitType)
  BY DEF TypeOK
<1>2. Consumed \in Int /\ Consumed <= Len(fed) /\ Len(fed) \in Nat
  BY <1>1 DEF Consumed
<1>3. Consumed >= 0
  BY <1>2 DEF Parsed
<1>4. written = fed \o rb
  BY DEF PipeInv
<1> QED BY <1>1, <1>2, <1>3, <1>4, ConcatProperties

\* The file begins with its header, before a tag is parsed.
LEMMA WriteHeaderFile ==
    ASSUME TypeOK, PipeInv, StopInv, Parsed, FileInv, writeHeader, alive'
    PROVE  FileInv'
<1>1. push = "header" /\ push' = "read" /\ headerWritten' = TRUE /\ lost = 0
      /\ UNCHANGED <<fed, demux, ended, pkt, lost, owner>> /\ ctx # "header" /\ out = <<>>
      /\ Consumed = 1 /\ Consumed' = 1
  BY DEF writeHeader, PushStep, history, FileInv, Parsed, Consumed
<1>2. ~Finished' /\ InFile' = 0
  BY <1>1 DEF StopInv, Freeing, Finished, InFile
<1>3. CASE UNCHANGED <<ctx, out>>
  BY <1>1, <1>3 DEF FileInv
<1>4. CASE ctx' = "header" /\ out' = Append(out, Unit("fileHeader", 0))
  <2>1. out' = <<Unit("fileHeader", 0)>>
    BY <1>1, <1>4
  <2>2. Holds(0)'
    BY <1>2, <2>1 DEF Holds
  <2> QED BY <1>1, <1>2, <1>4, <2>2 DEF FileInv, Holds
<1> QED BY <1>3, <1>4 DEF writeHeader

\* The unit that is read is the metadata, or the tag after the last one written.
LEMMA ReadFrameFile ==
    ASSUME TypeOK, PipeInv, Numbered, Parsed, FileInv, readFrame
    PROVE  FileInv'
<1>1. push = "read" /\ demux # <<>> /\ demux' = Tail(demux) /\ lost = 0 /\ lost' = 0
      /\ UNCHANGED <<ctx, out, headerWritten, owner, fed, rb, ended, endOfFile>>
  BY DEF readFrame, PushStep, FileInv, history, actor, info
<1>2. Consumed' = Consumed + 1 /\ Head(demux) = fed[Consumed + 1] /\ Consumed + 1 \in 1..Len(fed)
  BY <1>1, ParsedTake DEF readFrame, PushStep
<1>3. Consumed \in Nat /\ Consumed >= 1 /\ Head(demux) = written[Consumed + 1]
      /\ Consumed + 1 \in 1..Len(written)
  BY <1>1, <1>2, ConsumedType DEF Parsed
<1> DEFINE i == Consumed + 1
<1>u. i \in 1..Len(written) /\ i # 1 /\ Head(demux) = written[i] /\ i = Consumed + 1
  BY <1>3
<1> HIDE DEF i
<1>n. /\ i = 2 => Head(demux).kind = "metaData"
      /\ i # 2 => Head(demux) = Unit("tag", i - 2)
  BY <1>u, Zenon DEF Numbered
<1>t. i # 2 => Head(demux).kind = "tag"
  BY <1>n DEF Unit
<1>4. CASE Head(demux).kind = "tag"
  <2>1. push' = "write" /\ pkt' = Head(demux).n
    BY <1>4 DEF readFrame, PushStep
  <2>2. i # 2 /\ Consumed >= 2 /\ Head(demux).n = i - 2
    BY <1>3, <1>4, <1>n, <1>u DEF Unit
  <2>3. pkt' = Consumed' - 2 /\ Consumed' >= 3
    BY <1>2, <1>3, <1>u, <2>1, <2>2
  <2>4. InFile' = InFile
    BY <1>1, <1>2, <1>3, <2>1, <2>2 DEF InFile
  <2>5. Holds(InFile) => Holds(InFile)'
    BY <1>1, <2>4 DEF Holds, Finished
  <2> QED BY <1>1, <2>1, <2>3, <2>5 DEF FileInv
<1>5. CASE Head(demux).kind # "tag"
  <2>1. push' = "read" /\ pkt' = pkt
    BY <1>5 DEF readFrame, PushStep
  <2>2. Consumed = 1
    BY <1>3, <1>5, <1>t, <1>u
  <2>3. InFile' = InFile
    BY <1>1, <1>2, <2>1, <2>2 DEF InFile
  <2>4. Holds(InFile) => Holds(InFile)'
    BY <1>1, <2>3 DEF Holds, Finished
  <2> QED BY <1>1, <2>1, <2>4 DEF FileInv
<1> QED BY <1>4, <1>5

\* The tag in pkt_ is written, or is the first one lost.
LEMMA WriteFrameFile ==
    ASSUME TypeOK, PipeInv, StopInv, Parsed, FileInv, writeFrame, alive'
    PROVE  FileInv'
<1>1. push = "write" /\ lost = 0 /\ Consumed >= 3 /\ pkt = Consumed - 2 /\ Consumed' = Consumed
      /\ UNCHANGED <<ctx, headerWritten, owner, fed, demux, ended>> /\ ctx = "header"
  BY DEF writeFrame, FileInv, Consumed, actor
<1>2. Consumed \in Nat
  BY ConsumedType
<1>3. ~Finished /\ ~Finished'
  BY <1>1 DEF StopInv, Freeing, Finished
<1>4. Holds(InFile) /\ InFile = Consumed - 3 /\ headerWritten
  BY <1>1 DEF FileInv, InFile
<1>5. CASE out' = Append(out, Unit("tag", pkt)) /\ push' = "read" /\ UNCHANGED lost
  <2>1. InFile' = Consumed - 2
    BY <1>1, <1>2, <1>5 DEF InFile
  <2> DEFINE k == Consumed - 3
  <2>2. k \in Nat /\ k + 1 = pkt /\ k + 2 = pkt + 1 /\ pkt \in Nat
    BY <1>1, <1>2
  <2>3. Unit("tag", pkt) \in UnitType
    BY <2>2, UnitInType DEF Kind
  <2>4. Holds(k)
    BY <1>4
  <2> HIDE DEF k
  <2>5. /\ Len(out') = k + 2 /\ out'[1] = Unit("fileHeader", 0) /\ out'[k + 2] = Unit("tag", pkt)
        /\ \A n \in 1..k : out'[n + 1] = Unit("tag", n)
    BY <1>3, <1>5, <2>2, <2>3, <2>4, FileGrows
  <2>6. \A n \in 1..pkt : out'[n + 1] = Unit("tag", n)
    <3> TAKE n \in 1..pkt
    <3>1. n \in 1..k \/ n = pkt
      BY <2>2
    <3>2. out'[pkt + 1] = Unit("tag", pkt)
      BY <2>2, <2>5
    <3> QED BY <2>5, <3>1, <3>2
  <2>8. Holds(InFile)'
    <3>1. InFile' = pkt
      BY <1>1, <2>1
    <3>2. /\ Len(out') = pkt + 1 /\ out'[1] = Unit("fileHeader", 0)
          /\ \A n \in 1..InFile' : out'[n + 1] = Unit("tag", n)
      BY <2>2, <2>5, <2>6, <3>1
    <3> QED BY <1>3, <2>2, <3>1, <3>2 DEF Holds
  <2> QED BY <1>1, <1>4, <1>5, <2>8 DEF FileInv
<1>6. CASE push' = "notify" /\ lost' = pkt /\ UNCHANGED out
  <2>1. InFile' = InFile /\ lost' # 0 /\ lost' <= Consumed' - 2
    BY <1>1, <1>2, <1>6 DEF InFile
  <2>2. Holds(InFile)'
    BY <1>3, <1>4, <1>6, <2>1 DEF Holds
  <2> QED BY <1>1, <1>4, <1>6, <2>1, <2>2 DEF FileInv
<1> QED BY <1>1, <1>5, <1>6 DEF writeFrame

\* The trailer comes when the push thread has written its last tag.
LEMMA TrailerFile ==
    ASSUME TypeOK, PipeInv, Parsed, FileInv, writeTrailer
    PROVE  FileInv'
<1>1. ~Finished /\ Finished' /\ Consumed' = Consumed
      /\ UNCHANGED <<ctx, headerWritten, push, pkt, lost, demux, ended>>
  BY DEF writeTrailer, DestroyStep, Finished, actor, history, Consumed
<1>2. InFile' = InFile
  BY <1>1 DEF InFile
<1>3. CASE ctx # "header"
  <2>1. out' = out
    BY <1>3 DEF writeTrailer, TrailerAppended
  <2> QED BY <1>1, <1>3, <2>1 DEF FileInv
<1>4. CASE ctx = "header"
  <2> DEFINE k == InFile
  <2>1. Holds(k) /\ k \in Nat
    BY <1>4, ConsumedType DEF FileInv, InFile, TypeOK
  <2>2. out' = Append(out, Unit("trailer", 0))
    BY <1>4 DEF writeTrailer, TrailerAppended, FileInv
  <2>3. Unit("trailer", 0) \in UnitType
    BY UnitInType DEF Kind
  <2> HIDE DEF k
  <2>4. /\ Len(out') = k + 2 /\ out'[1] = Unit("fileHeader", 0) /\ out'[k + 2] = Unit("trailer", 0)
        /\ \A n \in 1..k : out'[n + 1] = Unit("tag", n)
    BY <1>1, <2>1, <2>2, <2>3, FileGrows
  <2>5. InFile' = k
    BY <1>2 DEF k
  <2>6. Holds(InFile)'
    BY <1>1, <2>1, <2>4, <2>5 DEF Holds
  <2> QED BY <1>1, <1>4, <2>6 DEF FileInv
<1> QED BY <1>3, <1>4

\* feedData() takes nothing.
LEMMA FeedConsumes ==
    ASSUME TypeOK, feedData
    PROVE  Consumed' = Consumed
<1> DEFINE x == SubSeq(rb, 1, FedNow)
<1>1. FedNow \in Nat /\ FedNow <= Len(rb) /\ rb \in Seq(UnitType)
  BY LiveReceiverAssumption DEF FedNow, TypeOK, LiveReceiverAssumption
<1>2. x \in Seq(UnitType)
  <2>1. SubSeq(rb, 0 + 1, FedNow) \in Seq(UnitType)
    BY <1>1, CutProperties
  <2> QED BY <2>1
<1>3. demux' = demux \o x /\ fed' = fed \o x
  BY DEF feedData
<1> HIDE DEF x
<1>4. demux \in Seq(UnitType) /\ fed \in Seq(UnitType)
  BY DEF TypeOK
<1>5. /\ Len(demux') = Len(demux) + Len(x) /\ Len(fed') = Len(fed) + Len(x)
      /\ Len(demux) \in Nat /\ Len(x) \in Nat /\ Len(fed) \in Nat
  BY <1>2, <1>3, <1>4, ConcatProperties
<1> QED BY <1>5 DEF Consumed

\* Every step keeps the file as FileInv says.
LEMMA FileStep ==
    TypeOK /\ PipeInv /\ StopInv /\ Numbered /\ ParsedIfAlive /\ FileIfAlive /\ [Next]_vars => FileIfAlive'
<1> SUFFICES ASSUME TypeOK, PipeInv, StopInv, Numbered, ParsedIfAlive, FileIfAlive, [Next]_vars, alive'
             PROVE  FileInv'
  BY DEF FileIfAlive
<1>a. CASE alive
  <2>0. Parsed /\ FileInv
    BY <1>a DEF ParsedIfAlive, FileIfAlive
  <2>1. CASE prepareStream
    <3>1. /\ UNCHANGED <<ctx, out, lost, pkt, headerWritten, fed, demux, ended>>
          /\ owner = "prepare" /\ owner' = "write"
      BY <2>1 DEF prepareStream, actor, ffmpeg
    <3>2. Consumed' = Consumed /\ Finished' = Finished
      BY <3>1 DEF Consumed, Finished
    <3>3. CASE push # "none"
      <4>1. push' = push
        BY <2>1, <3>3 DEF prepareStream
      <4> QED BY <2>0, <3>1, <3>2, <4>1, FileIdle
    <3>4. CASE push = "none"
      <4>1. push' = "open" /\ ctx # "header" /\ lost = 0
        BY <2>0, <2>1, <3>4 DEF prepareStream, FileInv
      <4> QED BY <2>0, <3>1, <4>1 DEF FileInv
    <3> QED BY <3>3, <3>4
  <2>2. CASE timedJoin \/ freePkt \/ freeInfos \/ closeOutput \/ writeData
    <3>1. UNCHANGED <<ctx, out, lost, push, pkt, headerWritten, fed, demux, ended>>
      BY <2>2 DEF timedJoin, freePkt, freeInfos, closeOutput, writeData, DestroyStep,
                  actor, ffmpeg, history
    <3>2. \/ owner = "close" /\ owner' = "gone"
          \/ owner \notin {"close", "gone"} /\ owner' \notin {"close", "gone"}
      BY <2>2 DEF timedJoin, freePkt, freeInfos, closeOutput, writeData, DestroyStep
    <3>3. (Finished /\ Finished') \/ (~Finished /\ ~Finished')
      BY <3>2 DEF Finished
    <3>4. Finished' = Finished
      BY <3>3 DEF Finished
    <3> QED BY <2>0, <3>1, <3>4, FileIdle DEF Consumed
  <2>3. CASE writeTrailer
    BY <2>0, <2>3, TrailerFile
  <2>4. CASE onConnect \/ onCreateStream \/ hangUp
            \/ \E s \in Stream : onMetaData(s) \/ onReceiveStream(s)
    <3>1. /\ UNCHANGED <<ctx, out, lost, push, pkt, headerWritten, fed, demux, ended>>
          /\ owner = "serve"
      BY <2>4 DEF onConnect, onCreateStream, hangUp, onMetaData, onReceiveStream, Serving,
                  actor, ffmpeg, history
    <3>2. onDisconnect \/ owner' \in {"serve", "prepare"}
      BY <2>4, <3>1, Zenon DEF onConnect, onCreateStream, hangUp, onMetaData, onReceiveStream
    <3>3. owner' \notin {"close", "gone"}
      BY <3>2 DEF onDisconnect, AfterDisconnect
    <3>f. Finished = FALSE /\ Finished' = FALSE
      BY <3>1, <3>3 DEF Finished
    <3>4. Finished' = Finished
      BY <3>f
    <3> QED BY <2>0, <3>1, <3>4, FileIdle DEF Consumed
  <2>5. ASSUME NEW s \in Stream, onPublish(s) PROVE FileInv'
    <3>1. /\ UNCHANGED <<lost, push, pkt, headerWritten, fed, demux, ended>> /\ owner = "serve"
      BY <2>5 DEF onPublish, Serving, actor, history
    <3>2. onDisconnect \/ owner' = "serve"
      BY <2>5, <3>1, Zenon DEF onPublish
    <3>d. owner' \notin {"close", "gone"}
      BY <3>2 DEF onDisconnect, AfterDisconnect
    <3>f. Finished = FALSE /\ Finished' = FALSE
      BY <3>1, <3>d DEF Finished
    <3>3. Finished' = Finished /\ Consumed' = Consumed
      BY <3>1, <3>f DEF Consumed
    <3>4. UNCHANGED <<ctx, out>> \/ (ctx' = "open" /\ out' = <<>>)
      BY <2>5, Zenon DEF onPublish
    <3>5. CASE UNCHANGED <<ctx, out>>
      BY <2>0, <3>1, <3>3, <3>5, FileIdle
    <3>6. CASE ctx' = "open" /\ out' = <<>>
      BY <2>0, <3>1, <3>3, <3>6 DEF FileInv
    <3> QED BY <3>4, <3>5, <3>6
  <2>6. CASE feedData
    <3>1. /\ UNCHANGED <<ctx, out, lost, push, pkt, headerWritten, owner, alive>>
          /\ push \notin {"notify", "exited"}
      BY <2>6 DEF feedData, NeedsData, actor
    <3>2. Consumed' = Consumed
      BY <2>0, <2>6, FeedConsumes
    <3> QED BY <2>0, <3>1, <3>2, FileIdle DEF Finished
  <2>7. CASE feedEnd
    <3>1. /\ UNCHANGED <<ctx, out, lost, push, pkt, headerWritten, owner, fed, demux>>
          /\ push \notin {"notify", "exited"}
      BY <2>7 DEF feedEnd, NeedsData, actor, history
    <3> QED BY <2>0, <3>1, FileIdle DEF Finished, Consumed
  <2>8. CASE openInput \/ findStreamInfo
    <3>1. /\ UNCHANGED <<ctx, out, lost, pkt, owner>> /\ push \in {"open", "probe"} /\ push' \in {"probe", "header"}
      BY <2>8 DEF openInput, findStreamInfo, PushStep, actor, ffmpeg, history
    <3>2. ctx # "header" /\ lost = 0
      BY <2>0, <3>1 DEF FileInv
    <3> QED BY <2>0, <3>1, <3>2 DEF FileInv
  <2>9. CASE writeHeader
    BY <2>0, <2>9, WriteHeaderFile
  <2>10. CASE readFrame
    BY <2>0, <2>10, ReadFrameFile
  <2>11. CASE writeFrame
    BY <2>0, <2>11, WriteFrameFile
  <2>12. CASE readEnds
    <3>1. /\ UNCHANGED <<ctx, out, lost, pkt, headerWritten, owner, fed, demux, ended>>
          /\ push = "read" /\ push' = "notify" /\ demux = <<>> /\ ended # "no"
      BY <2>12 DEF readEnds, PushStep, actor, ffmpeg, history
    <3>2. lost = 0 /\ InFile' = InFile
      BY <2>0, <3>1 DEF FileInv, InFile, Consumed
    <3>3. Holds(InFile) => Holds(InFile)'
      BY <3>1, <3>2 DEF Holds, Finished
    <3> QED BY <2>0, <3>1, <3>2, <3>3 DEF FileInv
  <2>13. CASE notifyPushThreadDone
    <3>1. /\ UNCHANGED <<ctx, out, lost, pkt, headerWritten, owner, fed, demux, ended>>
          /\ push = "notify" /\ push' = "exited"
      BY <2>13 DEF notifyPushThreadDone, PushStep, ffmpeg, history
    <3>2. InFile' = InFile
      BY <3>1 DEF InFile, Consumed
    <3>3. Holds(InFile) => Holds(InFile)'
      BY <3>1, <3>2 DEF Holds, Finished
    <3>4. Consumed' = Consumed /\ push' = "exited" /\ push = "notify"
      BY <3>1 DEF Consumed
    <3> HIDE DEF Consumed
    <3> QED BY <2>0, <3>1, <3>3, <3>4 DEF FileInv
  <2>14. CASE useCorruptMemory
    BY <2>14 DEF useCorruptMemory, Die
  <2>15. CASE UNCHANGED vars
    <3>1. UNCHANGED <<ctx, out, lost, push, pkt, headerWritten, owner, fed, demux, ended>>
      BY <2>15 DEF vars, actor, ffmpeg, history
    <3> QED BY <2>0, <3>1, FileIdle DEF Finished, Consumed
  <2> QED
    BY <2>1, <2>2, <2>3, <2>4, <2>5, <2>6, <2>7, <2>8, <2>9, <2>10, <2>11, <2>12, <2>13, <2>14, <2>15
       DEF Next, OwnerNext, ClientNext, PushNext, over
<1>b. CASE ~alive
  <2>1. UNCHANGED <<ctx, out, lost, push, pkt, headerWritten, owner, fed, demux, ended>> /\ ~alive'
    BY <1>b DEF Next, OwnerNext, ClientNext, PushNext, over, vars, actor, info, ffmpeg, history, timedJoin,
            freePkt, freeInfos, writeTrailer, closeOutput, DestroyStep, onConnect, onCreateStream, hangUp,
            onPublish, onMetaData, onReceiveStream, Serving, feedData, feedEnd, NeedsData, openInput,
            findStreamInfo, writeHeader, readFrame, writeFrame, readEnds, notifyPushThreadDone, PushStep,
            prepareStream, writeData, useCorruptMemory, Die
  <2> QED BY <2>1
<1> QED BY <1>a, <1>b

\* At first there is no file.
LEMMA FileInit == Init => Numbered /\ ParsedIfAlive /\ FileIfAlive
<1> SUFFICES ASSUME Init PROVE Numbered /\ Parsed /\ FileInv
  BY DEF ParsedIfAlive, FileIfAlive
<1>1. /\ written = <<>> /\ fed = <<>> /\ demux = <<>> /\ out = <<>> /\ push = "none" /\ ended = "no"
      /\ lost = 0 /\ ctx = "none"
  BY Zenon DEF Init
<1>2. Numbered
  BY <1>1 DEF Numbered
<1>3. Parsed
  BY <1>1 DEF Parsed, Consumed
<1>4. FileInv
  BY <1>1 DEF FileInv
<1> QED BY <1>2, <1>3, <1>4

\* A closed file that holds k tags is FileUpTo(k).
LEMMA FileIsWhole ==
    ASSUME TypeOK, NEW k \in Nat, Holds(k), Finished
    PROVE  out = FileUpTo(k)
<1> DEFINE h == <<Unit("fileHeader", 0)>>
           g == [n \in 1..k |-> Unit("tag", n)]
           e == <<Unit("trailer", 0)>>
<1>1. h \in Seq(UnitType) /\ Len(h) = 1 /\ h[1] = Unit("fileHeader", 0)
  BY UnitInType DEF Kind
<1>2. e \in Seq(UnitType) /\ Len(e) = 1 /\ e[1] = Unit("trailer", 0)
  BY UnitInType DEF Kind
<1>3. g \in Seq(UnitType) /\ Len(g) = k /\ \A n \in 1..k : g[n] = Unit("tag", n)
  <2>1. \A n \in 1..k : Unit("tag", n) \in UnitType
    BY UnitInType DEF Kind
  <2>2. g \in [1..k -> UnitType]
    BY <2>1
  <2> QED BY <2>2
<1> HIDE DEF h, g, e
<1>4. /\ h \o g \in Seq(UnitType) /\ Len(h \o g) = k + 1
      /\ \A i \in 1..k + 1 : (h \o g)[i] = IF i <= 1 THEN h[i] ELSE g[i - 1]
  <2>1. /\ h \o g \in Seq(UnitType) /\ Len(h \o g) = Len(h) + Len(g)
        /\ \A i \in 1..Len(h) + Len(g) : (h \o g)[i] = IF i <= Len(h) THEN h[i] ELSE g[i - Len(h)]
    BY <1>1, <1>3, ConcatProperties
  <2>2. Len(h) + Len(g) = k + 1
    BY <1>1, <1>3
  <2> QED BY <1>1, <2>1, <2>2
<1>5. /\ (h \o g) \o e \in Seq(UnitType) /\ Len((h \o g) \o e) = k + 2
      /\ \A i \in 1..k + 2 : ((h \o g) \o e)[i] = IF i <= k + 1 THEN (h \o g)[i] ELSE e[i - (k + 1)]
  <2> DEFINE p == h \o g
  <2>0. p \in Seq(UnitType) /\ Len(p) = k + 1
    BY <1>4
  <2> HIDE DEF p
  <2>1. /\ p \o e \in Seq(UnitType) /\ Len(p \o e) = Len(p) + Len(e)
        /\ \A i \in 1..Len(p) + Len(e) : (p \o e)[i] = IF i <= Len(p) THEN p[i] ELSE e[i - Len(p)]
    BY <1>2, <2>0, ConcatProperties
  <2>2. Len(p) + Len(e) = k + 2
    BY <1>2, <2>0
  <2> QED BY <2>0, <2>1, <2>2 DEF p
<1> DEFINE f == (h \o g) \o e
<1> HIDE DEF f
<1>6. f \in Seq(UnitType) /\ Len(f) = k + 2 /\ out \in Seq(UnitType) /\ Len(out) = k + 2
  BY <1>5 DEF f, Holds, TypeOK
<1>7. \A i \in 1..Len(out) : out[i] = f[i]
  <2> TAKE i \in 1..Len(out)
  <2>0. i \in 1..k + 2 /\ Len(out) = k + 2
    BY <1>6
  <2>1. CASE i = 1
    <3>1. f[1] = (h \o g)[1] /\ (h \o g)[1] = h[1]
      BY <1>4, <1>5 DEF f
    <3> QED BY <1>1, <2>1, <3>1 DEF Holds
  <2>2. CASE i # 1 /\ i # k + 2
    <3>1. i - 1 \in 1..k /\ (i - 1) + 1 = i /\ i \in 1..k + 1
      BY <2>0, <2>2
    <3>2. f[i] = (h \o g)[i] /\ (h \o g)[i] = g[i - 1]
      BY <1>4, <1>5, <2>0, <2>2, <3>1 DEF f
    <3>3. out[(i - 1) + 1] = Unit("tag", i - 1)
      BY <3>1 DEF Holds
    <3> QED BY <1>3, <3>1, <3>2, <3>3
  <2>3. CASE i = k + 2
    <3>1. i - (k + 1) = 1 /\ ~(i <= k + 1)
      BY <2>3
    <3>2. f[i] = e[1]
      BY <1>5, <2>0, <3>1 DEF f
    <3> QED BY <1>2, <2>3, <3>2 DEF Holds
  <2> QED BY <2>1, <2>2, <2>3
<1>8. out = f
  BY <1>6, <1>7, SeqEqual
<1> QED BY <1>8 DEF f, h, g, e, FileUpTo

\* The file of the invariant is the file of the property.
LEMMA FileInvSuffices ==
    TypeOK /\ PipeInv /\ StopInv /\ Numbered /\ ParsedIfAlive /\ FileIfAlive => NoLossOnCleanClose
<1> SUFFICES ASSUME TypeOK, PipeInv, StopInv, Numbered, ParsedIfAlive, FileIfAlive,
                    alive, owner = "gone", ctx = "header"
             PROVE  \E k \in 0..TagsWritten :
                       out = FileUpTo(k) /\ (ended = "error" \/ k = FirstMissing - 1)
  BY DEF NoLossOnCleanClose
<1>1. Parsed /\ FileInv
  BY DEF ParsedIfAlive, FileIfAlive
<1>2. push = "exited" /\ Holds(InFile) /\ Finished
  BY <1>1 DEF FileInv, StopInv, Freeing, Finished
<1> DEFINE c == Consumed
           k == InFile
           w == TagsWritten
<1>3. /\ c \in Nat /\ c >= 1 /\ c <= Len(fed) /\ Len(fed) <= Len(written)
      /\ Len(fed) \in Nat /\ Len(written) \in Nat /\ w \in Nat
  BY <1>1, <1>2, ConsumedType, TagsAreFinite DEF Parsed, TagsWritten, TypeOK
<1>4. Len(written) = w + 2
  <2>1. written # <<>>
    BY <1>3
  <2> QED BY <2>1 DEF PipeInv
<1>5. lost \in Nat /\ (lost # 0 => lost <= c - 2)
  BY <1>1 DEF FileInv, TypeOK
<1>6. k = IF lost # 0 THEN lost - 1 ELSE IF c >= 2 THEN c - 2 ELSE 0
  BY <1>2 DEF InFile
<1>7. lost = 0 => c = Len(fed)
  BY <1>1, <1>2 DEF FileInv, Consumed
<1>8. ended # "error" /\ lost = 0 => Len(fed) = Len(written)
  <2> SUFFICES ASSUME ended # "error", lost = 0 PROVE Len(fed) = Len(written)
    OBVIOUS
  <2>1. ended = "eof"
    BY <1>1, <1>2 DEF FileInv, TypeOK
  <2>2. rb = <<>> /\ written = fed \o rb
    BY <1>1, <2>1 DEF Parsed, PipeInv
  <2> QED BY <2>2, ConcatEmptySeq DEF TypeOK
<1>9. FirstMissing = IF lost = 0 THEN w + 1 ELSE lost
  BY DEF FirstMissing
<1>10. Holds(k)
  BY <1>2
<1> HIDE DEF c, k, w
<1>11. k \in 0..w /\ (ended = "error" \/ k = FirstMissing - 1)
  BY <1>3, <1>4, <1>5, <1>6, <1>7, <1>8, <1>9
<1>12. out = FileUpTo(k)
  BY <1>2, <1>10, <1>11, <1>3, FileIsWhole
<1> QED BY <1>11, <1>12 DEF w

(* The output file of a stream that ends, although two threads write it,   *)
(* is a header, the client's tags in order and without gaps, and a trailer *)
(* (livereceiveractor.cpp:212-272, 518-598): for every length of stream,   *)
(* provided the push thread ends within the time it is waited for.         *)
THEOREM FileIsComplete == "join" \notin Faults => (Spec => []NoLossOnCleanClose)
<1> SUFFICES ASSUME "join" \notin Faults PROVE Spec => []NoLossOnCleanClose
  OBVIOUS
<1>1. Spec => []StopInv
  BY StopAlways
<1>2. TypeOK /\ PipeInv /\ StopInv /\ Numbered /\ ParsedIfAlive /\ FileIfAlive /\ [Next]_vars
        => Numbered' /\ ParsedIfAlive' /\ FileIfAlive'
  BY NumberedStep, ParsedStep, FileStep
<1> QED BY <1>1, <1>2, FileInit, FileInvSuffices, TypeCorrect, PipeAlways, PTL DEF Spec
=============================================================================
