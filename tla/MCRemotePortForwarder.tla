------------------------ MODULE MCRemotePortForwarder ------------------------
(* RemotePortForwarder for TLC. *)
EXTENDS RemotePortForwarder

\* A socket to a local port is read, or reads fail; nothing else happens to it.
OnlyReadable == {<<"readable">>}

\* Both may be reported at once.
ReadableAndException == {<<"readable">>, <<"readable", "exception">>}

\* Workers and local sockets are interchangeable.
Symmetry == Permutations(Workers) \cup Permutations(Locals)
=============================================================================
