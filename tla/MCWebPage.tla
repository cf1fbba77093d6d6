----------------------------- MODULE MCWebPage ------------------------------
\* A small instance of WebPage for TLC: two programs, one of them the sample.
EXTENDS WebPage, TLC

CONSTANTS sample, other
MCPrograms == {sample, other}
=============================================================================
