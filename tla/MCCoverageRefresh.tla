------------------------- MODULE MCCoverageRefresh -------------------------
(* CoverageRefresh with an HTTP writer and an AI writer, for TLC.          *)
EXTENDS CoverageRefresh, TLC

CONSTANTS http, ai

MCWriters   == {http, ai}
MCAiWriters == {ai}
=============================================================================
