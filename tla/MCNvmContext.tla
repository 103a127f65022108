--------------------------- MODULE MCNvmContext -----------------------------
(* NvmContext with the constants of its TLC run.                           *)
EXTENDS NvmContext

ThreeGroups == <<"Crypto", "MacGroup2", "SecureElement">>
=============================================================================
