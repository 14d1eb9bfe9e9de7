----------------------------- MODULE MCStartup -----------------------------
EXTENDS Startup

\* 000006 alters events (000003), 000007 alters bookings (000005).
MCRequires == [v \in 1..7 |-> CASE v = 6 -> {3} [] v = 7 -> {5} [] OTHER -> {}]
=============================================================================
