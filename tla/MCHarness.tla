------------------------------- MODULE MCHarness -------------------------------
\* Instances for TLC: the kinds of probe in the order of the table.  The kind
\* "server" is left out: cross starts, and import goes on, as it does.
EXTENDS Harness
MCKinds == <<"cross", "refused", "import", "cluster">>
=============================================================================
