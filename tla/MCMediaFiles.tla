------------------------------ MODULE MCMediaFiles ------------------------------
(* Values for TLC, for the module MediaFiles.                              *)
EXTENDS MediaFiles, TLC

Scene(a, b, fromTg, kind, retry, name) ==
  [work |-> [t \in Tasks |-> IF t = "a" THEN a ELSE b],
   fromTg |-> fromTg, kind |-> kind, retry |-> retry, name |-> name]

(* Two documents of one message; a photo of an event and a retried one;    *)
(* MAX and Telegram; two of an album; an audio, of an event and retried.   *)
MCScenes ==
  LET Docs == [i \in {1, 2} |-> "document"]
      Same == [i \in {1, 2} |-> "name"]
  IN {Scene(<<1, 2>>, <<>>, {}, Docs, {}, Same),
      Scene(<<1>>, <<2>>, {}, 1 :> "photo" @@ 2 :> "photo", {2}, Same),
      Scene(<<1>>, <<2>>, {"b"}, Docs, {}, Same),
      Scene(<<1>>, <<2>>, {"a", "b"}, Docs, {}, Same),
      Scene(<<1>>, <<>>, {}, 1 :> "audio", {}, 1 :> "name"),
      Scene(<<1>>, <<>>, {}, 1 :> "audio", {1}, 1 :> "name")}
===============================================================================
