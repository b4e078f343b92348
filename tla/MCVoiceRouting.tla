---------------------------- MODULE MCVoiceRouting ----------------------------
(* The instances of VoiceRouting and VoicePayloads that TLC checks. *)
EXTENDS VoiceRouting, VoicePayloads

CONSTANTS c1, c2, s1

OneMute == {<<c2, c1>>}

\* Texts of every kind: whole, trimmed, empty once trimmed, too long.
SampleTexts == {<<1>>, <<0, 1, 2>>, <<0>>, <<1, 2, 1>>}

\* PayloadsAgree speaks of no state, as the codecs keep none: the initial one is
\* enough to evaluate that what one side encodes the other decodes to the same.
CodecsAgree == Init => PayloadsAgree
==============================================================================
