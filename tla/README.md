# gortmplib in TLA+

gortmplib is an RTMP library: a client and a server side of a connection, a
reader that finds the tracks of a stream and hands out their access units, and
a writer. The modules here model the parts of it where order, concurrency and
remembered state decide; TLC checks them on small instances and TLAPS proves
some of their properties for every value of the constants. `PROJECT.json` says
which lines of `src/` each definition stands for.

## The system

| component | state | operations | talks to |
|---|---|---|---|
| chunk headers (`pkg/chunk`) | none | encode and decode the four header formats | raw messages |
| raw writer (`pkg/rawmessage/writer.go`) | per chunk stream: last header, last delta, extended timestamp; chunk size, window, acknowledged value; a mutex | Write, SetChunkSize, SetWindowAckSize, SetAcknowledgeValue | writes chunks |
| raw reader (`pkg/rawmessage/reader.go`) | per chunk stream: header values, fragments, bytes received; chunk size, window, LastAckCount | Read, SetChunkSize, SetWindowAckSize, AbortChunkStream | calls OnAckNeeded from inside Read |
| messages (`pkg/message`) | a second mutex around a message and the setting it announces | Write, Read; ReadWriter answers pings and acknowledges | raw reader and writer |
| message codecs (`pkg/message/msg_*.go`), AMF0 (`pkg/amf0`) | none | marshal and unmarshal of each message type | messages |
| handshake (`pkg/handshake`) | keys, random data | DoClient, DoServer, plain or encrypted | first bytes of a connection |
| client (`client.go`) | step of the authentication, salt and challenge, the connection, a goroutine that closes it | Initialize (with up to three dials), Read, Write, Close | handshake, messages |
| server connection (`server_conn.go`) | app, tcURL, ids of commands | Initialize, AcceptConn, AcceptConnIfCredentialsMatch, AcceptAction, RejectAction | handshake, messages |
| track reader (`reader.go`, `rewindable_conn.go`) | tracks found, recorded messages, callbacks, H264 units held back | Initialize, Tracks, OnData*, Read | a connection |
| track writer (`writer.go`) | ids of the tracks, a goroutine that drains the connection | Initialize, Wait, Write* | a connection |
| byte counters, RC4, codecs, errors, examples | counters, cipher state | - | - |

What is hard in it:

* **State kept on both ends of a wire.** A chunk header leaves out what the
  other end already knows. Writer and reader keep that knowledge separately,
  through deltas, wraps of the timestamp, changes of the chunk size and aborts.
  Correct: what is read is what was written, and at rest both ends agree.
* **Two mutexes and a callback.** The reading goroutine writes (acknowledges,
  ping responses) and takes the mutexes of the writing side. Correct: messages
  stay whole, acknowledges keep up, nobody waits for ever because of a mutex.
* **A retry loop with a goroutine.** Initialize dials, authenticates, dials
  again; a goroutine closes the connection if the context ends. Correct: it
  ends, leaks nothing, and success means the same to both sides.
* **Track analysis.** Messages are read, remembered, replayed, and some of them
  held back. Correct: each unit is given once, in order, at its time.
* **Two views of the same tracks.** Writer and Reader number tracks and choose
  between legacy, extended and multitrack messages by themselves, and the Reader
  knows the tracks only from what the first two seconds bring. Correct: each
  callback gets what was written to its track, whatever the list of tracks, and
  both ends learn when the connection ends.
* **Bodies made by others.** A body may end early, hold other bytes, or come
  from a program that encodes differently. Correct: what is read is what was
  meant or an error, what is passed on is read the same again, and what the
  code above takes for granted of a configuration holds.
* **A layout with pointers in random data**, in the encrypted handshake.
  Correct: the peer finds the digest and the key, both sides derive matching
  keys, nobody waits for ever.

The hazards, each at its line, are listed in `PROJECT.json`.

## Modules

| module | models | on |
|---|---|---|
| `ChunkFormat` | messages, chunk headers, 32-bit arithmetic | |
| `RawWriter` | the header compression of one chunk stream, as operators | `ChunkFormat` |
| `RawReader` | the reading of one chunk, as operators on a reader record | `ChunkFormat` |
| `MessageChannel` | abstract: a FIFO channel of messages | |
| `ChunkStream` | writers with their mutexes, the wire, the reader | `RawWriter`, `RawReader`; implements `MessageChannel` |
| `ForeignSender` | the reader against any sender the format allows | `RawReader` |
| `Duplex` | both directions, draining goroutines, acknowledges, pings, a bounded connection | |
| `Session` | Client.Initialize against ServerConn | |
| `C1S1` | layout of C1 and S1 | |
| `Handshake` | DoClient against DoServer | `C1S1` |
| `TrackReader` | rewindableConn, readTracks, Read, the callbacks | |
| `TrackWriter` | ids of tracks, announcements, the message of each Write call, as operators | |
| `Publish` | a Writer, a connection that may be closed or lost, a Reader, their applications | `TrackWriter`, `TrackReader` |
| `Amf0Values` | the values of AMF0 | |
| `Amf0` | Marshal, Unmarshal of AMF0 values | `Amf0Values` |
| `MessageCodec` | marshal and unmarshal of every message, allocateMessage; the messages there are | `Amf0Values` |
| `MessagePath` | a message written, altered or not, read, passed on and read again | `MessageCodec` |

The theorems are in modules of their own:

| module | theorems and lemmas about | on |
|---|---|---|
| `RawReader_proofs` | counters that wrap; what the operators of the reader return and keep | `RawReader` |
| `ChunkStream_proofs` | `ChunkStream` and how it implements `MessageChannel` | `RawReader_proofs` |
| `ForeignSender_proofs` | `ForeignSender` | `RawReader_proofs` |
| `Duplex_proofs` | `Duplex` | `RawReader_proofs` |
| `Session_proofs` | `Session` | |
| `Handshake_proofs` | the layout of `C1S1`, and `Handshake` | |
| `Publish_proofs` | `TrackReader`, `TrackWriter`, and `Publish` | |
| `MessagePath_proofs` | `MessageCodec`, and `MessagePath` | |

Each `MC` module gives the constants of one of them small values. Operators
preceded by `\* Mutant:` are wrong versions of the definition that follows;
nothing uses them, they are there to show that each property can fail.

### How state and actions correspond to the code

*ChunkStream.* `messageMutex` and `rawMutex` are the mutexes of message.Writer
and rawmessage.Writer. A call of Write is Lock, Begin, WriteFirst,
WriteFollowing for each further chunk, Finish, ApplyChunkSize after a
SetChunkSize message, Unlock. `wstreams` and `reader.streams` are the maps of
chunk streams; their four `last*` pointers are set together and are one field.
Read is one turn of the loop in rawmessage.Reader.Read with whatever
message.Reader.Read does with a complete message. Bodies are model values with
a length, fragments are ranges of them. A reader that would take a number of
bytes other than the chunk has is `lost`, as it would read bodies as headers.

*ForeignSender.* The sender is outside the repository. It may begin a message
on any chunk stream that has none in progress, with any format whose left-out
fields hold, and continue any message in progress. The constant `Inherit` says
whether it relies on header values across an abort.

*Duplex.* `pc` follows each of the four goroutines. Put blocks while the
connection is full; ReadChunk counts the chunk and, past the window, makes the
reading goroutine write an acknowledge before anything else (`readChunk`);
SetAcknowledgeValue needs the raw mutex. Sizes are in units of which a window
holds three; the counters are compared modulo `CountMod`.

*Session.* One record for the goroutine in Initialize, one for ServerConn and
the application around it, two queues. `authState`, the ids of commands, and
which messages are skipped are the code's. Closing a connection with unread
data may destroy what is under way to the peer, as TCP does; what a side has
received before an end it may still read, as each reader has a buffer. The server
application closes on any error, and may stop at any point and leave the client
waiting: no deadline is set (`client.go:263-589`). Messages that neither side acts
upon are `control`.

*Handshake.* Each side writes its packets in the code's order into a queue of
`Capacity` packets. HMAC is injective, Diffie-Hellman ideal, and a byte carries
where it came from, so that the digest is found only where it was put.

*TrackReader.* Analyze is one turn of readTracks; ReadRecorded and ReadNew are
Read from the record and from the connection; ConnEnds is a read error. The
payload of a message is its number in order of arrival. `found` is the maps of
readTracks, where a multitrack message leaves a nil entry; `tracks` holds what
each callback was given and the `pendingAU` of an H264 track. An application
registers all its callbacks before it reads.

*TrackWriter and Publish.* Announce is one turn of the two loops of writeTracks,
the metadata first; WriteFrame is any of the Write calls, on any track, with a
dts that does not go back. What `todo` holds is what Initialize has still to
write. A Reader at the other end takes the actions of `TrackReader` on the
messages of `wire`; the connection between is a FIFO, as `ChunkStream` shows of
the layers below. Close lets what is under way arrive, Lose drops any number of
the last messages. The goroutine that drains ends on a read error; the code also
ends it on a message that does not decode, which an application that only closes
never sends.

*Amf0, MessageCodec and MessagePath.* These work on bytes, because where a field
begins and ends is what can go wrong. An unsigned number of 32 bits is its four
bytes. Configurations belong to other libraries: one byte names a configuration,
and the constants say which parse and which parameter sets they hold. Marshal of
AMF0 fills a buffer of the size that MarshalSize computed, as the code does. A
64-bit float is its bytes, of which the first stands for the integer part.
Timestamps pass through unchanged: `ChunkStream` is about them. The messages that
there are (`Writable`) have the fields of their Go types, within the limits that
the comments of those types and the checks of unmarshal give.

`MessageCodec` takes the codec of AMF0 as two constants, `MarshalAmf0` and
`UnmarshalAmf0`, and `MCMessagePath.cfg` gives it that of `Amf0`. What
`MessagePath` asks of it is `AmfFaithful`: what is marshalled is unmarshalled the
same; a body that lacks its end gives the first values or an error; what is
accepted of any other bytes are values. `MCMessagePath` checks this of the values
of its messages and of their bodies with a byte changed, before each run.

## Runs

| run | shows | size |
|---|---|---|
| `chunk_stream` | two goroutines, four messages out of six: the reader follows every chunk, returns what was written, both ends agree at rest, and the whole implements `MessageChannel` | 413,452 states |
| `foreign_sender` | interleaving, aborts, chunk sizes: nothing misread or refused, only complete messages come out | 1,000,940 |
| `session` | all URLs and configurations, failures, a server that stalls and cancellation at any point: Initialize returns once cancelled, and stops waiting once its connection has ended; it leaks nothing, dials one connection after the other and three at most, success is mutual; with a server that goes on, a welcome client succeeds | 259,628 |
| `duplex` | acknowledges and pongs do not break messages, keep up across the wrap; the system comes to rest; it can only stop when both directions are full | 99,783 |
| `track_reader` | three sorts of peer: what carries something is given once, in order, at its time; SEI joined; the analysis ends; only unannounced tracks are refused | 572,062 |
| `publish` | sixteen lists of tracks with every codec: each callback gets what was written to its track, nothing is refused without a cause, both ends learn of the end | 1,455,815 |
| `codecs` | 79 messages of every type, cut anywhere, with a byte or the type altered: read as written, read again the same after being passed on, refused or shortened at the end when cut, configurations complete | 19,287 |
| `handshake` | all modes and formats: keys match, echoes are checked, nothing unread, no deadlock | 13,024 |

Four runs show a place where the code does not do what a comment says:

| run | where |
|---|---|
| `message_streams` | a delta is remembered after a type 0 chunk (`rawmessage/writer.go:153`): another message stream on the same chunk stream, then an equal difference, and the message is read with the timestamp of the one before |
| `inherited_length` | an abort forgets the message length (`rawmessage/reader.go:43`) that `chunk2.go:8-10` lets a chunk take from the preceding one |
| `session_user` | the response is sent for `myuser` (`client.go:344`), not for the user of the URL |
| `codec_switch_video` | an H264 config on an H265 track makes the callback dereference nil (`reader.go:641`) |

A fifth such place was met and has no run of its own. `reader.go:48-62` promise
the callbacks of MPEG-1 audio, G711 and LPCM, as the others, at least one byte. An
audio message with an AAC configuration and no access unit
(`msg_audio.go:105-112`) on an MP3, G711 or LPCM track makes them give an empty
frame (`reader.go:864-875`, `:887-916`). `Conserved` tells these frames
(`EmptyFrames`) from what carries something: it allows them and asks for none.

`duplex` gives the connection room for the acknowledges that a message provokes,
as TCP has. Without it the two ends may block each other: the application holds
the mutexes in Write, the draining goroutines wait to write or for a mutex.
`BlockedOnlyWhenFull` says that this is the only way to stop.

### Bounds

* Timestamps are modulo 8 and extended from 4 (2^32 and 0xFFFFFF in the code):
  the messages used have growing, equal and shrinking timestamps, extended
  deltas and timestamps past the wrap. Chunk sizes 1, 2 and 3 with bodies of 0
  to 5 bytes give messages of one chunk, of several, of an exact multiple and
  of none. `MaxSent` = 4 is enough for each of the four formats after a change
  of chunk size; `MaxDone` and `MaxAborts` bound ForeignSender.
* `Window` = 3, `CountMod` = 10: three messages of nine bytes wrap the counters
  twice. `MaxWrites` bounds the messages.
* Session needs no bound: the code ends. One user, an empty user, two
  passwords and one key, on either side.
* `TrackReader`: `MaxRecordedSize` = 4 (5000 in the code) with up to six messages,
  so that the limit is met; `MaxUnits` = 2 so that the limit of an access unit is
  met. `Peers` gives each behaviour one of three vocabularies: a camera (H264
  with SEI, AAC), an encoder with several tracks, and a peer that sends what does
  not fit (codecs that change, payloads that do not decode).
* `Publish`: an analysis of two units of time (two seconds in the code), streams
  that start at 0 or later than that, frames that are 0 or 2 apart, so that the
  analysis ends at any of them; three frames on one to three tracks. Of the sixteen
  lists, each codec is the first of its kind in one and secondary in another, but
  for LPCM, which is never secondary: `writeTracks` refuses it as it does G711, of
  which a list has one. Four lists have a track without what its announcement needs.
  `Times` are the dts that these can have.
* `MessagePath`: each field has values at its limits (deltas of -2^23 and
  2^23-1, bytes with the top bit set, empty payloads of configurations), AMF0
  values are nested three deep. A body is cut at every length; the first byte
  may be any that selects another kind of message or value, the others any of the
  packet types, markers, small lengths and numbers of configurations in `Others`;
  every body may be given another message type.
* The layout of C1 has 15 bytes; the random data make either pointer of either
  format differ.

TLC checks for deadlock in `codecs` only: elsewhere behaviours end when their
bounds are used up, when Initialize has returned, when both ends of a connection
are done. That nothing stops earlier is stated as a property: `ComesToRest` and
`BlockedOnlyWhenFull`, `Returns`, `Completes` and `Ends`, `AnalysisEnds`,
`BothLearn`.

### Fairness

Goroutines that can run do run: weak fairness of each goroutine's steps (of all
steps together in `Duplex`, where the writes are finite). In `ChunkStream`,
`Duplex` and `Handshake` a connection delivers what it has taken. Nothing obliges
an application to write, a network to fail, a context to be cancelled or a
connection to end.

In `Session` nothing obliges the server to answer, or the network to deliver. The
client sets no deadline, so a read or a write returns for sure only once the
connection is closed or lost, and a dial once the context is cancelled:
`ClientUnblocked` is what is fair of the client, besides the goroutine that closes.
`Returns` therefore says that Initialize returns once it is cancelled, and that an
attempt whose connection has ended is over (it dials again or returns). That it
returns by itself needs a server and a network that go on, which is a premise
inside the property (`Prompt`), and so it is for `Succeeds`. In
`TrackReader` the peer goes on sending, which is what makes the analysis end.
In `Publish` the Reader's application goes on reading, and the goroutine of the
Writer is in Conn.Read: both run when they can; nobody has to write or close.
Mutexes are taken by anyone who asks while they are free; no property depends
on their order.

## Proofs

`tlapm` checks, with Z3, Zenon and LS4, for every value of the constants that
the named assumptions of the modules allow. A theorem that needs more says so
in its ASSUME. For each module: what is proved, and the inductive invariant that
was needed. TLC checked each invariant on the small instances first.

**`ChunkStream_proofs`**

* `TypeCorrect`: `Spec => []TypeOK`. A goroutine past Lock must have a message
  for the chunks it makes to be typed; `TypeInv` adds that (`AtWork`).
* `MutualExclusion`: `Spec => []Exclusive`, for any number of goroutines.
* `AlwaysInFrame`: the reader never takes a body for a header, whatever the
  messages.
* `DeliveredIntact` and `BothInStep`: what is returned is what was written, in
  order and with its timestamp; at rest both ends hold the same state.
* `ChannelSteps`: every step is a step of `MessageChannel` or none, the safety
  part of `ImplementsChannel`.

The last three ASSUME `OneMessageStream`: a chunk stream carries one message
stream. That is what the library itself writes (`client.go:396`, `:467`,
`:495-496`, `:565-566`), and `message_streams` shows that they are false without.

None of these can be proved from writer and reader alone: what the reader will
make of a chunk depends on all the chunks before it in the wire. `DeliveryInv`
therefore speaks of the readers to come. The chunks in flight carry the reader
through a sequence of readers (`Carried`), each of which has returned the first
of the messages sent and collected part of the next (`Faithful`), and the last
of which agrees with the writer on every chunk stream (`Agrees`): the header
values where a next header may leave them out, the fragments where a message is
unfinished. Read drops the first reader of the sequence, a write adds one at the
end, so each action has one link to examine.

**`ForeignSender_proofs`**: `AlwaysFollows` and `AlwaysReassembled`, under
`~Inherit`: `inherited_length` shows what happens otherwise. `FollowInv` relates
what the preceding chunk said (`last`) to what the reader remembers, per chunk
stream, in progress, complete or aborted.

**`Duplex_proofs`**

* `TypeCorrect`.
* `MessagesContiguous`: between the first and the last chunk of a message there
  is no other. `WholeInv`: who is at Put holds the raw mutex alone; what is left
  of a message ends with its last chunk; while a pipe ends in the middle of a
  message, a goroutine of that end is at Put with the rest (`Resumes`).
* `ReaderKeepsUp`: between two chunks an end owes at most a window. `Keeps` says
  where the reading goroutine is while it owes more, which is two windows at
  most.
* `AcknowledgedInTheEnd`: at rest, neither end has more than a window of bytes
  unacknowledged, though counters wrap. `RestInv` adds that bytes sent
  are bytes received and bytes in the pipe (`Balanced`), and finds the last
  acknowledge of a reader wherever it is: about to be written, in the pipe, read
  or set (`Acked`), never behind by more than is owed (`Lag`). `CountMod` must
  exceed three windows for that; it is 2^32 in the code.
* `OnlyFullBlocks`: the two ends stop before the end only if at each of them a
  goroutine waits to write into a full connection. It is stated with the guards
  of the actions (`Runnable`), which say what ENABLED would. `MutexInv` finds the
  holder of every mutex past the point where it took it; so a goroutine that
  waits for a mutex waits for one that may go on, or that waits for the
  connection (`HoldsElsewhere`). If only one end were full, its peer would read.

**`Session_proofs`**: `TypeCorrect`; `BothAgree`, that success means the same to
both ends; `CredentialsChecked`; `NothingIsLeft`, that no
goroutine outlives Initialize, and no connection one that failed; and two action
properties, `OneDialAtATime` and `CallerOwns`. Types are most of it: what a queue may hold bounds what the other
side may conclude, e.g. the server's status comes only after the application
accepted (`FromServer`). `InTurn` relates the client's place to its dials and to
the goroutine that may close the connection, `Told` what is under way to what
each side has decided.

**`Handshake_proofs`**

* `FilledIsFound`: for every layout, random data and format, the digest and the
  key are where the reader looks. Pointers, digest and key lie in disjoint
  ranges (`Apart`): writing one moves no other.
* `EchoAlwaysChecked`, `AllRead` and `KeysAlwaysMatch`. `Order` says that a
  queue holds exactly the packets written and not yet read, which are known from
  where the two sides are (`ClientWrote`, `ServerRead` and so on); `Known` what a
  side has concluded from what it read.

`KeysAlwaysMatch` ASSUMEs `OneFormat`: a first packet of the second format has
no digest of the first. The code relies on it too (it tries one format, then
the other); it fails with probability 2^-256. TLC finds it true of
`MCHandshake`, where a digest is unlike random bytes.

**`Publish_proofs`**, of `TrackReader`

* `TypeCorrect`.
* `AlwaysConserved`: what the callback of a track was given or holds is, of the
  messages taken, those that carry something for the track and else only those of
  which it makes an empty frame, each once and in the order of arrival. What is read
  is numbered in that order, recorded or not (`Numbered`); the units of each track are `Complete` and increasing; and only
  an H264 track holds anything (`HeldByH264`), which the callbacks of the other
  codecs need, as they give their unit past what is held.
* `AlwaysOneInstant`, that all the messages joined into an access unit have the
  dts and pts it is given with. `Given`: all that was given or is held is of
  messages that came.
* `AlwaysJoined`: a unit that is only SEI was followed by something else than an
  access unit of its instant. What is still held has no such successor (`Lone`);
  what was given has a successor (`Followed`), so that no later message can become
  it.
* `RefusalsJustified`, that Read refuses only a track that was not announced.
  `AnalyzedAll`: the analysis took into account everything that it recorded, so
  that a recorded message finds its track when it is replayed.

`Conserved` and `SeiJoined` are stated with quantifiers over the numbers of
messages: what a filtered sequence becomes when an element is appended could not
be proved. The attempt also made exact what "carries something" means
(`VideoFor`, `AudioFor`): a config of another codec gives an H264 track nothing,
and an AAC config gives the tracks of other legacy audio codecs an empty frame
(`EmptyFrame`).

**`Publish_proofs`**, of `Publish`

* `AlwaysPlayed`: what the callback of a track is given is what the application
  wrote to that track, all of it that arrived, in order and with its times, and
  nothing is missing after a regular close. For any list of tracks, any frames,
  and wherever the connection is closed or lost.
* `RefusalsHaveCause`: what a Reader refuses of what a Writer sent, in its
  Initialize or in a Read, it refuses for one of these causes. A track that is
  found in its frames had none in the messages that were analyzed; the first AAC
  track has no configuration, so that its announcement makes no track; the record
  is full; or an H264 frame comes after as many SEI of its own instant as an
  access unit may have. Nothing is undecodable, no callback panics.

Both ASSUME `IdsFit`: there are at most 256 tracks, as the id of a track is a byte
(`writer.go:230`, `:233`) and the 257th of a kind would be taken for the first.

What was received and what is under way are one sequence (`Flow`), which a
delivery leaves as it is and a write makes longer. `Sourced`: each message of it
is the metadata, the announcement of one track or the message of one frame, and
`sent` says which. The lemmas about `TrackWriter` say what a Reader can see of
these: `AnnouncementFacts`, `FrameFacts`, and `DistinctTracks`, that two tracks
of a kind differ in their ids. From them, whatever the Reader found is a track of
the Writer, with its codec (`FoundRight`); with `AlwaysConserved`, that a message
is given exactly if it carries something for a track, and since Read takes no
message of a track that is not up (`TakenUp`), frames and tracks agree.

`RefusalsHaveCause` adds what the analysis has learned (`Learned`): a track is up
only after its announcement, so that no announcement comes to a track that is up
and nothing fails (`NoFailure`); what is noticed without a codec is a track of
the Writer; and as long as only announcements came (`Silence`), whose time is
zero, no time has passed. The analysis therefore ends after a frame at the
earliest, frames follow all announcements (`FramesLast`), and every track that
has a configuration to announce is up by then (`AllUp`): what is missing is a
track without frames, or one without a configuration. For the limit of an access
unit, `HeldSei` says that what an H264 track holds are only SEI; they are of one
instant (`Given`) and each is numbered once, so that a full hold means as many SEI
before the frame (`Crowding`).

**`MessagePath_proofs`**

* `RoundTripHolds`: every message that may be written is read as it was.
* `RepublishedHolds`: what a Reader accepted of whatever body and type can be
  written, and is read the same.
* `CutShortHolds`: a body cut anywhere is refused, or read as the message without
  the end of its last field.
* `ConfigsAreComplete`: a configuration of H264 or H265 that is read has its
  parameter sets, and keeps them when it is passed on.

The messages are any set of `Writable` ones and the bytes put in their place are
any. The four ASSUME `AmfFaithful`, and not that AMF0 is encoded in some way.

The work is in two lemmas about the operators. `ReadMessage`: of any raw message
whatever, the Reader makes one that may be written, or an error; so reading is
what establishes everything the Writer, or `reader.go`, relies on.
`Delivery`: a message that may be written arrives as it was, and without its end
when cut. Its proof has one lemma per message type and direction; all the extended
messages share `ExParts` and `ExCut`, what a mark, four bytes and a rest become when
they are cut, and the multitrack ones rest on what is proved of the message they
wrap. The signed 24 bits of a delta come back for every value (`DeltaWritten`).

With those, `Inv` says little: a raw message on its way is the one sent, or a part
of it, or any other (`OnItsWay`); what was read is what unmarshal makes of it
(`Taken`); what is passed on can be written (`PassedOn`). `ConfigsAreComplete`
follows from membership: a message of `Writable` holds no other configuration.

**`RawReader_proofs`** holds lemmas: which header values and fragments a Receive
leaves, that other chunk streams are untouched, arithmetic modulo `CountMod` and
`TsMod`.

### What the theorems rest on

The assumptions of the modules: chunk stream ids in 2..63; chunk sizes of at
least 1 and bodies within `maxBodySize`; lengths of the layout that are not zero
and random bytes in 0..255; room for at least one packet or byte; no chunk larger
than the window or than what a connection holds; what the application writes in `Duplex` is data or a ping, its
last chunk marked; in `TrackReader`, codecs that fit the kind of a message, frames
that are access units (no config), and only H264 and AAC configs without parameters; in
`Publish`, that what a Writer sends is among the messages a Reader may be sent;
an analysis period that is not zero (`reader.go:21`); in `MessagePath`, messages that
may be written, and bytes that are bytes.
TLC evaluates them on every run.

### What is only model-checked

* Liveness: `Returns`, `Succeeds`, `Completes`, `Ends`, `ComesToRest`,
  `AnalysisEnds`, `BothLearn`, and the liveness part of `ImplementsChannel`. The
  provers have no rule for fairness.
* `Amf0`: that its Marshal and Unmarshal are faithful. Values are nested to any
  depth, so a proof would be an induction over data, which the installed provers
  cannot do. `AmfFaithful` is therefore a hypothesis of the theorems about
  messages, with `Amf0Data` the values of every depth; TLC samples it.

Every invariant and every action property of the passing runs is a theorem.

## Not modelled

The parsing of payloads (AV1, H264 and H265 units, AC-3 headers, AAC
configurations), which other libraries do: a payload decodes or not. The bytes
of a chunk header. RC4, TLS, the generation of configurations from parameter
sets, the contents of the metadata, URLs and query strings. A window that
changes during a connection. The error path of `CheckAcknowledge`, which no
caller in the repository sets. Corruption or reordering by the network: RTMP
runs over TCP. `Object.Get` and its variants, which look a value up. The
examples, which are programs around the library.

Edges met on the way, with too little around them to model: a chunk size of 0
(`rawmessage/writer.go:67`) and a window above 1.4 GB (`:30`); a result with
command id 0 answers anything (`client.go:121`); a track without a callback
(`reader.go:948`), or given to a Writer that does not have it (`writer.go:619`);
LPCM samples in an odd number of bytes (`writer.go:930`) or of 8 bits (`:938`);
the deprecated `Type`, which prevails over a changed `PacketType`
(`msg_video.go:276`); AMF0 strings of 2^16 bytes and empty keys
(`data.go:366`); a command without arguments (`msg_command_amf0.go:28`) and
frames without payload (`msg_audio_ex_coded_frames.go:20`), which are written
and then refused; undocumented user control messages, which cannot be written.

## Plan

Done: the wire, the session, the handshake, the track reader, the track writer
and the way from one to the other, the message codecs and AMF0; and as theorems
the safety of the wire, of both directions, of the session, of the handshake, of
the track reader, of the way from the Writer's application to the Reader's and of
the message codecs, but for what is listed above.

What is left:

1. `CheckAcknowledge`: an error between two chunks, and what a later Write does
   with the message cut short; a window size that changes while data flows.
2. The FIFO of `Publish` as an instance of `MessageChannel`, so that what is proved
   of the wire is cited there by refinement and not by its description.
