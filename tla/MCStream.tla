------------------------------ MODULE MCStream ------------------------------
(* An object, an array in two pieces, an empty array and a reply in JSON,  *)
(* prose, and native calls, in chunks of one or two frames.                *)
EXTENDS Stream, TLC

CONSTANTS prose, object, open, close, nothing, say, run

MCTokens == {prose, object, open, close, nothing, say}
MCCalls == {run, say}
MCReplies == {say}
MCSerialized ==
  (<<object>> :> <<run>>) @@ (<<open, close>> :> <<say, run>>) @@ (<<say>> :> <<say>>)
MCEmptyArray == {<<nothing>>}

MCChunks ==
  {<<Ignored>>, <<Done>>, <<Native(run)>>, <<Content(prose), Done>>, <<Content(prose), Ignored>>}
    \cup {<<Content(t)>> : t \in MCTokens \ {prose}}

AllModes == BOOLEAN
JSONOnly == {TRUE}
LogOff == {FALSE}
LogOn == {TRUE}
=============================================================================
