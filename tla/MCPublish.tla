------------------------------ MODULE MCPublish ------------------------------
(* Small instances of Publish.                                             *)
EXTENDS Publish

LOCAL T(codec) == [codec |-> codec, bad |-> FALSE]
LOCAL Bad(codec) == [codec |-> codec, bad |-> TRUE]

\* Every codec as the first of its kind and, but for G711 and LPCM, as a
\* secondary track; tracks that Initialize refuses after it has announced others;
\* AAC without a configuration.
MCTrackLists ==
  { << T("aac"), T("h264") >>,
    << T("h265"), T("opus") >>,
    << T("mp3"), T("aac") >>,
    << T("flac"), T("mp3") >>,
    << T("av1"), T("h264") >>,
    << T("vp9"), T("lpcm"), T("ac3") >>,
    << T("vp9"), T("h265") >>,
    << T("vp9"), T("av1") >>,
    << T("av1"), T("vp9") >>,
    << T("ac3"), T("opus") >>,
    << T("g711"), T("flac") >>,
    << T("opus"), T("g711") >>,
    << T("h264"), Bad("h265") >>,
    << T("opus"), Bad("aac") >>,
    << T("av1"), Bad("aac") >>,
    << Bad("aac") >> }

MCStarts == {0, 3}
MCTimes == 0..(3 + 2 * MaxFrames)
MCMessages == WriterMessages
=============================================================================
