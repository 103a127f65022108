--------------------------- MODULE MCEepromStore ----------------------------
(* EepromStore with the constants of its TLC runs.                         *)
EXTENDS EepromStore, SequencesExt

OneWord == <<1>>

(* Configurations of two lengths, which share a word.                      *)
SmallConfigs == {<<1>>, <<2, 1>>}

(* A number for each sequence of words.                                    *)
DigitSum ==
  [m \in Messages |-> FoldLeft(LAMBDA crc, word : crc * (MaxWord + 1) + word + 1, 0, m)]
=============================================================================
