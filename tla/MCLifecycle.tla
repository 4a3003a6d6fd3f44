----------------------------- MODULE MCLifecycle -----------------------------
EXTENDS Lifecycle

MCLetters == {"A"}
Good == [callsign |-> "good", mods |-> {"A"}, emods |-> {},
         bind |-> [f \in Families |-> "good"], ext |-> [f \in Families |-> "absent"],
         port |-> "absent", required |-> "good"]
\* A complete file; one for IPv4 only whose port is wrong; one without a callsign.
MCFiles == {Good,
            [Good EXCEPT !.bind["IPv6"] = "absent", !.ext["IPv4"] = "good", !.port = "bad"],
            [Good EXCEPT !.callsign = "absent", !.ext["IPv6"] = "bad"]}
MCWebPages == {[f \in Families |-> "good"],
               [f \in Families |-> IF f = "IPv4" THEN "good" ELSE "absent"]}
=============================================================================
