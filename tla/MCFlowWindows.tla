---------------------------- MODULE MCFlowWindows ----------------------------
EXTENDS FlowWindows

\* Two requests to connect and one to advertise, which checks that the app is not
\* blocked (service-apps.ts).
MCRequests == {"connect", "connectAgain", "advertise"}

MCIntent == [r \in MCRequests |-> IF r = "connectAgain" THEN "connect" ELSE r]
=============================================================================
