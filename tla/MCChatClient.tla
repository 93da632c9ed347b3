----------------------------- MODULE MCChatClient -----------------------------
(* Small instances of ChatClient for TLC.                                    *)
EXTENDS ChatClient

\* Every property ends with the first fault that hits a request or an answer.
InStep == ~upset
=============================================================================
