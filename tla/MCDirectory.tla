----------------------------- MODULE MCDirectory -----------------------------
(* Instances of Directory for TLC: two reflectors, r2 with one or two modes   *)
(* and addresses.                                                             *)
EXTENDS Directory

CONSTANTS r1, r2, A, B, a4, a6, b4, b6, unknown

TwoReflectors == {r1, r2}
TwoLetters == {A, B}
AllHosts == {a4, a6, b4, b6}

Addr(v4, v6) == [f \in Families |-> IF f = "IPv4" THEN v4 ELSE v6]
Config(normal, encrypted, v4, v6) ==
  [normal |-> normal, encrypted |-> encrypted, addr |-> Addr(v4, v6), port |-> 17001,
   legacy |-> FALSE]
Dht(q, mods) == [cs |-> q, dht |-> TRUE, mods |-> mods, legacy |-> FALSE,
                 addr |-> Addr(NoHost, NoHost), port |-> DefaultPort]
At(q, mods, v4, v6, port) == [Dht(q, mods) EXCEPT !.dht = FALSE, !.addr = Addr(v4, v6), !.port = port]

SomeNumbers == {17000, 17001, 50000}

\* Modes and, for r2 with them, an address of one family or of both.
ModesAndAddresses ==
  [r \in TwoReflectors |->
     IF r = r1 THEN {Config({A, B}, {}, a4, a6), Config({B}, {A}, a4, a6)}
     ELSE {Config({A, B}, {}, b4, NoHost), Config({B}, {A}, b4, b6)}]
\* Lines of the DHT with two modules; an address with a port out of range; a line for
\* itself and a second line for the same reflector.  r1's file is only touched.
SomeFiles ==
  [r \in TwoReflectors |->
     IF r = r1 THEN {<<Dht(r2, {A, B})>>}
     ELSE {<<At(r1, {A}, a4, NoHost, 50000)>>,
           <<At(r2, {A}, b4, NoHost, unknown), Dht(r1, {A, B}), Dht(r1, {B})>>}]

\* r1's file comes to have a word in the place of a port.
SlipFiles ==
  [r \in TwoReflectors |->
     IF r = r1 THEN {<<Dht(r2, {A})>>, <<At(r2, {A}, b4, NoHost, unknown)>>}
     ELSE {<<Dht(r1, {A})>>}]
Staying ==
  [r \in TwoReflectors |->
     IF r = r1 THEN {Config({A}, {}, a4, NoHost)} ELSE {Config({A}, {}, b4, NoHost)}]
=============================================================================
