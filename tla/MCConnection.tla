--------------------------- MODULE MCConnection ---------------------------
(***************************************************************************)
(* Connection on small instances: each scenario picks one client profile,  *)
(* the broker's mechanisms and limits, and budgets for what may go wrong.  *)
(***************************************************************************)
EXTENDS Connection

NoTrouble == [attach |-> 0, refuse |-> 0, close |-> 1, shutdown |-> 0, slow |-> 0, dark |-> 0]

Base ==
    [profile |-> "SCRAM", mechs |-> {"PLAIN", "SCRAM"}, good |-> TRUE, copen |-> TRUE, bopen |-> TRUE,
     cmax |-> 0, bmax |-> 1, sessions |-> 1, queue |-> 2, late |-> FALSE,
     budget |-> NoTrouble]

\* every profile against every offer, good or bad, on a network that may fail
Handshakes ==
    {[Base EXCEPT !.profile = p, !.mechs = m, !.good = g, !.copen = c, !.bopen = b,
                  !.budget = [NoTrouble EXCEPT !.slow = 1, !.dark = 1]] :
        p \in {"ANONYMOUS", "PLAIN", "SCRAM"},
        m \in {{"PLAIN"}, {"ANONYMOUS", "SCRAM"}},
        g \in BOOLEAN, c \in BOOLEAN, b \in BOOLEAN}

\* one channel, reused by three sessions while attaches are refused
Reusing ==
    [Base EXCEPT !.sessions = 3, !.budget = [NoTrouble EXCEPT !.attach = 3, !.refuse = 2]]

\* two channels, with the two ends' numberings drifting apart
Crossing ==
    [Base EXCEPT !.sessions = 3, !.cmax = 1,
                 !.budget = [NoTrouble EXCEPT !.attach = 2, !.refuse = 1, !.close = 0]]

\* deliveries and dispositions under way while either end stops
Closing ==
    [Base EXCEPT !.cmax = 1, !.sessions = 2,
                 !.budget = [NoTrouble EXCEPT !.attach = 2, !.shutdown = 1]]

Failing ==
    [Base EXCEPT !.sessions = 2,
                 !.budget = [NoTrouble EXCEPT !.attach = 2, !.refuse = 1, !.slow = 1, !.dark = 1]]

\* links used while their session is being ended
Late ==
    [Base EXCEPT !.late = TRUE, !.sessions = 2, !.budget = [NoTrouble EXCEPT !.attach = 2]]

AllScenarios == Handshakes \cup {Reusing, Crossing, Closing, Failing, Late}
===========================================================================
