------------------------------- MODULE MCStartup -------------------------------
(* The links of MCLinkLayout, started.                                        *)
EXTENDS Startup, MCLinkLayout
=============================================================================
