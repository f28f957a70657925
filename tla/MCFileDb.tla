------------------------------- MODULE MCFileDb -------------------------------
(* A small instance of FileDb for TLC.                                     *)
EXTENDS FileDb

\* A file in the shared directory, one in a directory d there, and one in its d.
Tree == <<"a">> :> "reg" @@ <<"d">> :> "dir"
          @@ <<"d", "a">> :> "reg" @@ <<"d", "d">> :> "dir" @@ <<"d", "d", "a">> :> "reg"
===============================================================================
