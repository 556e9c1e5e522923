--------------------------- MODULE MCFakeShell ---------------------------
(* Instances of FakeShell for TLC: a plain name, one that is a path, and   *)
(* one that is no name of a directory.                                     *)
EXTENDS FakeShell

TestUsers == {[name |-> "u", path |-> <<"u">>],
              [name |-> "a/b", path |-> <<"a", "b">>],
              [name |-> "..", path |-> <<"..">>]}

TestWords == {"", ".", "..", "~", "home", "u", "etc", "passwd", "d"}
=============================================================================
