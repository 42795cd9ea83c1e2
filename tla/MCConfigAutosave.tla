-------------------------- MODULE MCConfigAutosave --------------------------
(* The bindings of ConfigAutosave for TLC.                                 *)
EXTENDS ConfigAutosave

MCValues == [content : Texts \cup Foreign, expected : Texts \cup Foreign]
=============================================================================
