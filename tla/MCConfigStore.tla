--------------------------- MODULE MCConfigStore ---------------------------
(* Instances of ConfigStore for TLC.                                       *)
EXTENDS ConfigStore

Doc(b, off) == [body |-> b, off |-> off, masked |-> FALSE]

\* A client saves the document that drops the secret and every override.
MCSaveTexts == {Doc("{}", {})}

\* Other programs leave a document with a secret.
MCOneEdit == {Doc("key", {})}
=============================================================================
