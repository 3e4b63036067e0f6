------------------------------ MODULE MCIpcResp ------------------------------
(* Model-checking instance of IpcResp: two strings, one of them with a     *)
(* NUL byte, and model values for None, the null pointer and a crash.      *)
EXTENDS IpcResp
=============================================================================
