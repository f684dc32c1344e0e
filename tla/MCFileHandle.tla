---------------------------- MODULE MCFileHandle ----------------------------
(***************************************************************************)
(* FileHandle for TLC: bytes that tell positions apart, in chunks that lie *)
(* in every possible way.                                                  *)
(***************************************************************************)
EXTENDS FileHandle, TLC

MCBytes == 0..4
MCContents == {<<>>, <<1, 2, 3>>}
MCBufs == {<<>>, <<4, 4>>}
MCOffsets == {-1, 0, 3}
=============================================================================
