--------------------------- MODULE MCOpenAPIToken ---------------------------
(***************************************************************************)
(* The seconds of the code divided by ten, but for the lifetime of a token,*)
(* which is short enough for several tokens to come and go.                *)
(***************************************************************************)
EXTENDS OpenAPIToken

MCTimeout == 1
MCMargin == 3
MCLifetime == 6
MCMaxTime == 16
=============================================================================
