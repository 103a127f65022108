-------------------------- MODULE MCConfigSession ---------------------------
(* ConfigSession with the constants of its TLC runs.                       *)
EXTENDS ConfigSession

FourGroups == <<"Crypto", "MacGroup1", "MacGroup2", "SecureElement">>
=============================================================================
