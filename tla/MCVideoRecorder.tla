-------------------------- MODULE MCVideoRecorder --------------------------
(* VideoRecorder for TLC: GIFs, and WebM files with and without sound.     *)
EXTENDS VideoRecorder

OnlyGIF    == {GIF}
AllFormats == {GIF} \cup [webm : {TRUE}, audio_enabled : BOOLEAN]
=============================================================================
