-------------------------- MODULE MCSecretScrubber --------------------------
(* One or two credentials of up to four letters, in output of six.         *)
EXTENDS SecretScrubber

TwoCredentials == {{v, w} : v, w \in Strings({"a", "b"}, 1, 4)}
=============================================================================
