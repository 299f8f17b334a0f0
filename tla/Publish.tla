------------------------------- MODULE Publish -------------------------------
(***************************************************************************)
(* A Writer at one end of a connection and a Reader at the other: the      *)
(* operators of TrackWriter, the actions of TrackReader, and between them  *)
(* a FIFO of messages, which is what the chunk streams provide             *)
(* (MessageChannel).                                                       *)
(*                                                                         *)
(* The publishing application writes frames with a dts that does not go    *)
(* back, starting from any of Starts, and closes.  Either end may close,   *)
(* and the network may fail and lose what is under way.  The application   *)
(* of a Reader that failed closes the connection.                          *)
(***************************************************************************)
EXTENDS TrackReader, TrackWriter

CONSTANTS
  TrackLists,  \* values of Writer.Tracks
  Times,       \* bound: dts of frames
  Starts,      \* dts of the first frame
  Steps,       \* differences between the dts of two frames
  Deltas,      \* differences between pts and dts, where a codec has both
  MaxFrames    \* bound: frames of a behaviour

\* Frames that an application may give to Write, on track i of list l.
Payloads(codec) ==
  CASE codec = "h264" -> {"au", "sei"}
    [] codec = "mp3" -> {"au", "layer2", "odd rate"}
    [] OTHER -> {"au"}
FramesOn(l, i, dts) ==
  {[track |-> i, dts |-> dts, payload |-> payload,
    pts |-> IF l[i].codec \in {"h264", "h265"} THEN dts + delta ELSE dts] :
     delta \in Deltas, payload \in Payloads(l[i].codec)}

\* All that a Writer may send.
MessagesOf(l, i) ==
  Range(Announcement(l, i)) \cup {FrameMessage(l, f) : f \in UNION {FramesOn(l, i, t) : t \in Times}}
WriterMessages ==
  {Metadata} \cup UNION {UNION {MessagesOf(l, i) : i \in DOMAIN l} : l \in TrackLists}

ASSUME PublishAssumption ==
  /\ \A l \in TrackLists : /\ l \in Seq([codec : Codecs, bad : BOOLEAN])
                           /\ \A i \in DOMAIN l : TrackID(l, i) \in TrackIDs
  /\ Times \subseteq Nat /\ Starts \subseteq Times
  /\ Steps \subseteq Nat /\ Deltas \subseteq Nat /\ MaxFrames \in Nat
  /\ WriterMessages \subseteq Messages

VARIABLES
  list,    \* Writer.Tracks
  todo,    \* what writeTracks has still to announce; 0 is the metadata
  writer,  \* "announcing", "writing", or how it ended
  clock,   \* dts of the last frame
  frames,  \* history: how many frames were given to Write
  sent,    \* history: for each message written, its frame or the track it announces
  wire,    \* messages under way
  conn,    \* "open", "closed" by an end, or "lost"
  drain    \* the goroutine started by Writer.Initialize

writerVars == <<list, todo, writer, clock, frames, sent, drain>>
readerVars == vars
publishVars == <<vars, writerVars, wire, conn>>

NoFrame == [track |-> 0, pts |-> 0, dts |-> 0, payload |-> "config"]

PublishInit ==
  /\ Init
  /\ list \in TrackLists
  /\ todo = {0} \cup DOMAIN list
  /\ writer = "announcing"
  /\ clock \in Starts
  /\ frames = 0
  /\ sent = <<>>
  /\ wire = <<>>
  /\ conn = "open"
  /\ drain = "none"

-----------------------------------------------------------------------------
(* The Writer and its application.                                         *)

Put(messages, about) ==
  /\ wire' = wire \o messages
  /\ sent' = sent \o [i \in DOMAIN messages |-> about]

\* One turn of writeTracks; after the last, Initialize starts the goroutine.
AnnounceTurn(i) ==
  LET described == i = 0 \/ ~Indescribable(list, i)
  IN /\ writer = "announcing" /\ conn = "open"
     /\ \A j \in todo \ {i} : Precedes(list, i, j)
     /\ todo' = todo \ {i}
     /\ IF described
        THEN Put(IF i = 0 THEN <<Metadata>> ELSE Announcement(list, i), NoFrame)
        ELSE UNCHANGED <<wire, sent>>
     /\ writer' = CASE ~described -> "failed"
                    [] described /\ todo' = {} -> "writing"
                    [] OTHER -> "announcing"
     /\ drain' = IF writer' = "writing" THEN "draining" ELSE drain
     /\ UNCHANGED <<readerVars, list, clock, frames, conn>>

Announce == \E i \in todo : AnnounceTurn(i)

\* Frames that the application may give to Write now.
Frames == UNION {FramesOn(list, i, clock + step) : i \in DOMAIN list, step \in Steps}

WriteFrame(frame) ==
  /\ writer = "writing" /\ conn = "open"
  /\ frames < MaxFrames /\ frame.dts \in Times
  /\ frames' = frames + 1
  /\ clock' = frame.dts
  /\ IF RefusedFrame(list, frame)
     THEN writer' = "failed" /\ UNCHANGED <<wire, sent>>
     ELSE Put(<<FrameMessage(list, frame)>>, frame) /\ UNCHANGED writer
  /\ UNCHANGED <<readerVars, list, todo, conn, drain>>

\* Conn.Write returns an error.
WriteFails ==
  /\ writer \in {"announcing", "writing"} /\ conn # "open"
  /\ writer' = "failed"
  /\ UNCHANGED <<readerVars, list, todo, clock, frames, sent, wire, conn, drain>>

\* Mutant: the goroutine ends only if the other side closes.
DrainClosed ==
  /\ drain = "draining" /\ conn = "closed"
  /\ drain' = "done"
  /\ UNCHANGED <<readerVars, list, todo, writer, clock, frames, sent, wire, conn>>

\* Conn.Read returns an error to the goroutine: Wait returns.  A message that
\* does not decode would be such an error as well; the end of a Reader sends
\* none, only the acknowledges and ping responses of its connection.
Drain ==
  /\ drain = "draining" /\ conn # "open"
  /\ drain' = "done"
  /\ UNCHANGED <<readerVars, list, todo, writer, clock, frames, sent, wire, conn>>

WriterCloses ==
  /\ writer \in {"writing", "failed"} /\ conn = "open"
  /\ writer' = "closed"
  /\ conn' = "closed"
  /\ UNCHANGED <<readerVars, list, todo, clock, frames, sent, wire, drain>>

-----------------------------------------------------------------------------
(* The connection and the Reader.                                          *)

\* The network fails: the last messages under way, any number of them, are lost.
Lose ==
  /\ conn = "open"
  /\ conn' = "lost"
  /\ \E n \in 0..Len(wire) : wire' = SubSeq(wire, 1, n)
  /\ UNCHANGED <<readerVars, writerVars>>

Deliver ==
  /\ wire # <<>>
  /\ Analyze(Head(wire)) \/ ReadNew(Head(wire))
  /\ wire' = Tail(wire)
  /\ UNCHANGED <<writerVars, conn>>

Replay == ReadRecorded /\ UNCHANGED <<writerVars, wire, conn>>

ReaderEnds ==
  /\ conn # "open" /\ wire = <<>>
  /\ ConnEnds
  /\ UNCHANGED <<writerVars, wire, conn>>

ReaderCloses ==
  /\ phase \notin {"analyzing", "ready"} /\ conn = "open"
  /\ conn' = "closed"
  /\ wire' = <<>>
  /\ UNCHANGED <<readerVars, writerVars>>

Reading == Deliver \/ Replay \/ ReaderEnds

PublishNext ==
  \/ Announce \/ WriteFails \/ WriterCloses \/ Drain
  \/ \E frame \in Frames : WriteFrame(frame)
  \/ Lose \/ Reading \/ ReaderCloses

\* The Reader's application goes on reading, the goroutine of the Writer is in
\* Conn.Read: both run when they can.
PublishSpec ==
  PublishInit /\ [][PublishNext]_publishVars /\ WF_publishVars(Reading) /\ WF_publishVars(Drain)

-----------------------------------------------------------------------------
(* Properties.                                                             *)

StreamOf(i) == <<KindOf(list[i]), TrackID(list, i)>>
FramesOf(i, n) == {k \in 1..n : sent[k].track = i}

\* What the callback of a track is given is what the application wrote to that
\* track: all of it, in order, each with the times it was written with, whatever
\* the other tracks, the order of the first messages and what a SEI waits for;
\* the parameters of the announcement apart.  After a regular close nothing is
\* missing (writer.go:228-943 against reader.go:319-978).
Played ==
  phase \in {"ready", "ended"} =>
    /\ \A i \in DOMAIN list :
         /\ {n \in NumbersIn(UnitsOf(StreamOf(i))) : sent[n].track # 0} = FramesOf(i, Len(taken))
         /\ InOrder(UnitsOf(StreamOf(i)))
         /\ \A k \in DOMAIN tracks[StreamOf(i)].out :
              LET u == tracks[StreamOf(i)].out[k]
              IN \A j \in DOMAIN u.of :
                   sent[u.of[j]].track # 0 => u.time = <<sent[u.of[j]].pts, sent[u.of[j]].dts>>
    /\ phase = "ended" /\ conn = "closed" =>
         Len(taken) = Len(sent) /\ \A s \in Streams : tracks[s].held.of = <<>>

\* What a Reader refuses of what a Writer sent, in its analysis or later, has a
\* cause in what the application gave the Writer, or the record is full:
\*  - an audio track that is found in its frames had none before two seconds of
\*    the stream had passed.  The announcements have time zero: for a stream that
\*    starts late, two seconds are over at the first frame after a legacy config
\*    (reader.go:534-556, 941-976, writer.go:331-585);
\*  - the first AAC track has no configuration (writer.go:517-533, reader.go:488);
\*  - access units of one instant that are only SEI fill the limit of an access
\*    unit, and another unit of that instant follows (reader.go:712-740).
\* No payload is undecodable to it, no config makes its callbacks panic.
FoundInFrames(i) == ~IsVideo(list[i]) /\ ~(list[i].codec = "aac" /\ TrackID(list, i) = 0)
Silent(i) == FoundInFrames(i) /\ FramesOf(i, recorded) = {}
SeiBefore(n) ==
  {k \in FramesOf(sent[n].track, n - 1) :
     sent[k].payload = "sei" /\ sent[k].pts = sent[n].pts /\ sent[k].dts = sent[n].dts}
Crowded(n) == n \in DOMAIN sent /\ sent[n].track # 0 /\ Cardinality(SeiBefore(n)) >= MaxUnits
Refuses ==
  /\ phase' \in {"failed", "notSetUp", "limit", "undecodable", "panic"} /\ phase' # phase
  /\ received' # received \/ taken' # taken
RefusedForCause ==
  [][Refuses =>
       \/ /\ phase' \in {"failed", "notSetUp"}
          /\ \/ \E i \in DOMAIN list : (Silent(i) \/ Unconfigured(list, i))'
             \/ RecordFull(entries)
       \/ phase' = "limit" /\ Crowded(Len(taken))']_publishVars

\* When a connection closes or breaks, both sides learn of it: Read, or Initialize
\* of the Reader, returns, and so does Wait of a Writer that was initialized
\* (writer.go:590-600, reader.go:920-926).
BothLearn ==
  conn # "open" ~> phase \notin {"analyzing", "ready"} /\ drain # "draining"
=============================================================================
