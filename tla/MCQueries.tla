------------------------------- MODULE MCQueries -------------------------------
(***************************************************************************)
(* getAvailableLanguages: l1 and l2 on the first display, l3 on the        *)
(* second, l4 on none (its displayId is negative).  getStatus: s1 on the   *)
(* first display, s2 on the second, s3 with a payload that is refused.     *)
(* The configurations: the one in files/conf, one display only, an audio   *)
(* engine nobody has, a negative number of displays, none, no file.        *)
(***************************************************************************)
EXTENDS Queries

CONSTANTS l1, l2, l3, l4, s1, s2, s3

MCDisplayIdOf ==
  [c \in LanguageCall \cup StatusCall |->
     CASE c \in {l3, s2} -> 1 [] c = l4 -> -1 [] OTHER -> 0]
MCVoices == {<<>>, <<"en", "ko", "en">>, <<"ko", "fr">>}

Config(isObject, tts, audio, isNumber, displays) ==
  [isObject |-> isObject, tts_engine |-> tts, audio_engine |-> audio,
   isNumber |-> isNumber, displayCount |-> displays]
MCConfigs ==
  {Config(TRUE, "google", "pulse", TRUE, 2), Config(TRUE, "google", "pulse", TRUE, 1),
   Config(TRUE, "google", "alsa", TRUE, 2), Config(TRUE, "google", "pulse", TRUE, -1),
   Config(TRUE, "google", "pulse", FALSE, 0), Config(FALSE, "", "", FALSE, 0)}
===============================================================================
