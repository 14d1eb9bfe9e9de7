---------------------------- MODULE MCLifecycle ----------------------------
\* The process that serves, with the migrations of MCStartup.
EXTENDS Lifecycle, MCStartup
=============================================================================
