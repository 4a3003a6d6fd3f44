------------------------------- MODULE Config -------------------------------
(***************************************************************************)
(* The configuration (CConfigure): what one reading of the file leaves in  *)
(* memory.  A file names some of the keys; of a value only its form counts *)
(* ("good" or "bad").  Reading starts from what an earlier reading left:   *)
(* main reads the file again when the reflector could not be started, and  *)
(* only the port and the modules are set anew each time.                   *)
(***************************************************************************)
CONSTANT Letters   \* module letters

Families == {"IPv4", "IPv6"}
Form == {"absent", "bad", "good"}

\* callsign, Modules, EncryptionAllowed, IPv4/6BindAddr, IPv4/6ExtAddr, Port.
\* required stands for the keys that have no default and no other use in a model:
\* DashboardURL, EmailAddr, Bootstrap and the paths.
ConfigFile == [callsign : Form, mods : SUBSET Letters, emods : SUBSET Letters,
               bind : [Families -> Form], ext : [Families -> Form],
               port : Form, required : Form]

\* What CurlAddresses may bring.
Curl == [Families -> Form]

\* CConfigure::data; refmods is CReflMods, each module with its mode.
Data == [callsign : Form, normal : SUBSET Letters, encrypted : SUBSET Letters,
         bind : [Families -> Form], ext : [Families -> Form],
         port : Form, required : Form]

NoData == [callsign |-> "absent", normal |-> {}, encrypted |-> {},
           bind |-> [f \in Families |-> "absent"], ext |-> [f \in Families |-> "absent"],
           port |-> "absent", required |-> "absent"]

\* A key that the file does not name keeps its value.  A bad Port is a number out of
\* range: at a word that is none std::stoul throws, and the program ends there.
Assign(old, new) == IF new = "absent" THEN old ELSE new

\* CReflMods::Parse: the modules of the file, encrypted if EncryptionAllowed names them.
Encrypted(file) == file.mods \cap file.emods
Normal(file) == file.mods \ file.emods

\* The external address is that of the file, or an earlier one, or what the web
\* page answered; it and the address to bind to are good, or there is none.
External(data, file, curl, f) ==
  LET ext == Assign(data.ext[f], file.ext[f])
  IN  IF ext = "absent" THEN curl[f] ELSE ext
BindOK(data, file, curl, f) == /\ Assign(data.bind[f], file.bind[f]) = "good"
                               /\ External(data, file, curl, f) = "good"

\* Mutant of CheckAddresses: a missing external address does not count.
CheckAddressesLeniently(data, file, curl) ==
  LET bind == [f \in Families |-> IF Assign(data.bind[f], file.bind[f]) = "good"
                                    /\ External(data, file, curl, f) # "bad"
                                  THEN "good" ELSE "absent"]
  IN  [bind |-> bind, ext |-> [f \in Families |->
         IF bind[f] = "good" THEN External(data, file, curl, f) ELSE "absent"]]

CheckAddresses(data, file, curl) ==
  LET form == [f \in Families |-> IF BindOK(data, file, curl, f) THEN "good" ELSE "absent"]
  IN  [bind |-> form, ext |-> form]

\* CConfigure::ReadData, with the web page's answer.  The port has a default.
ReadData(data, file, curl) ==
  LET checked == CheckAddresses(data, file, curl)
  IN  [callsign |-> Assign(data.callsign, file.callsign),
       normal |-> Normal(file), encrypted |-> Encrypted(file),
       bind |-> checked.bind, ext |-> checked.ext,
       port |-> Assign("good", file.port),
       required |-> Assign(data.required, file.required)]

Bound(data) == {f \in Families : data.bind[f] = "good"}

\* What ReadData returns, negated.
Named(data) == data.callsign = "good" /\ data.normal \cup data.encrypted # {}
Usable(data) == /\ Named(data) /\ Bound(data) # {}
                /\ data.required = "good" /\ data.port = "good"

\* CConfigure::IsEncyrptionAllowed.
IsEncryptionAllowed(data, m) == m \in data.encrypted
=============================================================================
