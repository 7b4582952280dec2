-------------------------------- MODULE Speaker --------------------------------
(***************************************************************************)
(* What a speech channel promises its listener: phrases are spoken one at  *)
(* a time in the order in which they joined the line.  The line only loses *)
(* its oldest phrases, when a new one joins, or all of them at once.       *)
(***************************************************************************)
EXTENDS Naturals, Sequences

CONSTANTS Phrases, None

VARIABLES line, voice

speakerVars == <<line, voice>>

SpeakerInit == line = <<>> /\ voice = None

Join(p) ==
  /\ \E lost \in 0..Len(line) : line' = Append(SubSeq(line, lost + 1, Len(line)), p)
  /\ UNCHANGED voice

Speak ==
  /\ voice = None /\ line # <<>>
  /\ voice' = Head(line) /\ line' = Tail(line)

Fall == voice' = None /\ UNCHANGED line

Empty == line' = <<>> /\ UNCHANGED voice

SpeakerSpec == SpeakerInit /\ [][(\E p \in Phrases : Join(p)) \/ Speak \/ Fall \/ Empty]_speakerVars
=============================================================================
