---------------------------- MODULE MCConfigStore ----------------------------
(* The configuration alone, from the defaults: no file of an older version.    *)
EXTENDS ConfigStore

MCSlots == <<"translation_1", "translation_2">>
MCLines == {<<Line("translation_1", "en", TRUE)>>}
=============================================================================
