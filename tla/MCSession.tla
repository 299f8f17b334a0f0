------------------------------ MODULE MCSession ------------------------------
(* Small instances of Session.                                             *)
EXTENDS Session

MCUsers == {EmptyUser, "alice"}
=============================================================================
