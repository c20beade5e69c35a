----------------------------- MODULE MCMetadata -----------------------------
(***************************************************************************)
(* Items and payloads for TLC: every combination of explicit values over a *)
(* few files, and every file under a few items.                            *)
(***************************************************************************)
EXTENDS Metadata

Explicit ==
  [width : {Missing, None, Junk, 0, 640, Half, Inf},
   fps : {Missing, None, 0, 25, Half, NaN, Inf},
   bitrate : {Missing, None, 0, 500, 2500000, Half, NaN, Inf},
   duration : {Missing, None, 0, 10, Half, NaN, Inf}]
Few ==
  [width : {Missing}, fps : {Missing, 25}, bitrate : {Missing}, duration : {Missing, None}]

Probes ==
  [stream : BOOLEAN, codec : {"", "H265"}, width : {None, Junk, -1, 640},
   avg : {<<>>, <<0, 0>>, <<25, 0>>, <<0, 1>>, <<25, 1>>},
   r : {<<>>, <<0, 0>>, <<30, 1>>, <<-30, 1>>}, bitrate : {None, Junk, 0, 900},
   formatBitrate : {None, 0, 5000}, duration : {None, Junk, 0, 12, Half, NaN, Inf}]
Files ==
  [stream : {TRUE}, codec : {"H265"}, width : {640}, avg : {<<25, 1>>, <<0, 0>>},
   r : {<<30, 1>>}, bitrate : {None, 0}, formatBitrate : {5000}, duration : {None, 12}]

MCInputs == (Explicit \X Files) \cup (Few \X Probes)

=============================================================================
