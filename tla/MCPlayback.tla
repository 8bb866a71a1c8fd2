----------------------------- MODULE MCPlayback -----------------------------
(* A package with a video and an audio playlist, and a scrubbing index. *)
EXTENDS Playback, TLC

Line(form, name) == [form |-> form, name |-> name]

MCPackage ==
    ("master.m3u8" :> << Line("plain", ""), Line("uri", "audio.m3u8"),
                         Line("bare", "video.m3u8") >>)
    @@ ("video.m3u8" :> << Line("uri", "init.m4s"), Line("bare", "v1.m4s") >>)
    @@ ("audio.m3u8" :> << Line("bare", "a1.m4s") >>)
    @@ ("sprite.vtt" :> << Line("plain", ""), Line("cue", "sprite.jpg") >>)

MCPlaylists == {"master.m3u8", "video.m3u8", "audio.m3u8"}

MCMedia == {"init.m4s", "v1.m4s", "a1.m4s", "sprite.jpg"}
============================================================================
