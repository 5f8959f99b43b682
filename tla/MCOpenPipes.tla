---------------------------- MODULE MCOpenPipes ----------------------------
(***************************************************************************)
(* Instances of OpenPipes for TLC.                                         *)
(***************************************************************************)
EXTENDS OpenPipes

(* A tunnel, an account of which the name is not ASCII, an error, an error *)
(* in the line of a tunnel, and silence.                                   *)
MCOutputs == {
  <<"hello", "\n", "Forwarding  ", "https://", "host", "\n", "more">>,
  <<"wide", "char", "\n", "Forwarding  ", "https://", "\n">>,
  <<"hello", "ERR_", "NGROK_", "108", "\n">>,
  <<"Forwarding  ", "https://", "ERR_", "108", "\n">>,
  <<>>}
=============================================================================
