---------------------------- MODULE MCOtaSession ----------------------------
(* Small instances of OtaSession for TLC.                                  *)
EXTENDS OtaSession

\* Two-byte chunks: a three-byte image takes a full and a short chunk, a
\* one-byte image a single short one, the empty image none.
MCFiles == {<< >>, <<1>>, <<0, 1, 1>>}

MCFilesTwo == {<<1>>, <<0, 1, 1>>}
=============================================================================
