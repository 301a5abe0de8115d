------------------------ MODULE MCTransportManager ------------------------
(* Small instances of TransportManager for TLC. *)
EXTENDS TransportManager

\* Callers that wait for each other, with connections that stay lost or come
\* back, and callers that do not.
MCSettings == {<<TRUE, FALSE>>, <<TRUE, TRUE>>, <<FALSE, TRUE>>}
=============================================================================
