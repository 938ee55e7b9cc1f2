----------------------------- MODULE MCHandles -----------------------------
(* Handles with the functions libursa really exports.                        *)
EXTENDS Handles, UrsaApi
=============================================================================
