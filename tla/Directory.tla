----------------------------- MODULE Directory -----------------------------
(***************************************************************************)
(* Who a reflector calls, and where: the items of its interlink map        *)
(* (CInterlinks, CInterlink), made from the lines of the interlink file by *)
(* the gatekeeper's thread, and completed by the protocol thread with what *)
(* it finds about the other reflector in the Ham-DHT (GetDHTConfig).       *)
(*                                                                         *)
(* Several reflectors run this program.  Each puts its configuration into  *)
(* the DHT when it starts.  A line without an address is looked up until   *)
(* there is an address, and never again.  Once two reflectors meet (Meet)  *)
(* the packets between them are those of module Interlink.                 *)
(***************************************************************************)
EXTENDS Integers, Sequences

CONSTANTS
  Reflectors,
  Letters,     \* module letters
  Hosts,       \* addresses, without their ports
  NoHost,
  Numbers,     \* port numbers in the files
  NoNumber,    \* a word in the place of the port that is no number
  Configs,     \* what each reflector may be configured with
  Files,       \* what each interlink file may hold
  Nobody       \* no reflector

Families == {"IPv4", "IPv6"}
DefaultPort == 17000
Ports == 1024..49000

\* SMrefdConfig1, which is put together from g_CFG: the modules without and with
\* encryption, an address for each family (one to bind comes with it, or the family
\* is not used: Config's CheckAddresses), the port, and whether the program's
\* version begins with 0.
Document == [normal : SUBSET Letters, encrypted : SUBSET Letters,
             addr : [Families -> Hosts \cup {NoHost}], port : Ports, legacy : BOOLEAN]
NoDocument == [normal |-> {}, encrypted |-> {}, addr |-> [f \in Families |-> NoHost],
               port |-> DefaultPort, legacy |-> FALSE]

\* A line of the file: "M17-QQQ ABC" looks QQQ up in the DHT, "M17-QQQ[L] address
\* [port] ABC" does not.
Line == [cs : Reflectors, dht : BOOLEAN, mods : SUBSET Letters \ {{}}, legacy : BOOLEAN,
         addr : [Families -> Hosts \cup {NoHost}], port : Numbers \cup {NoNumber}]

\* m_Ip, and a CInterlink.  doc is what the item was last made from: m_IPv4, m_IPv6
\* and m_Port, and the modules, which the code only compares.
Address == [family : Families, host : Hosts, port : Ports]
NoAddress == [family |-> "none", host |-> NoHost, port |-> DefaultPort]
Item == [dht : BOOLEAN, mods : SUBSET Letters, legacy : BOOLEAN,
         ip : Address \cup {NoAddress}, doc : Document]
NoItem == [dht |-> FALSE, mods |-> {}, legacy |-> FALSE, ip |-> NoAddress, doc |-> NoDocument]

Modules(doc) == doc.normal \cup doc.encrypted

ASSUME NobodyAssumption == Nobody \notin Reflectors
ASSUME NoHostAssumption == NoHost \notin Hosts
ASSUME NumbersAssumption == Numbers \subseteq Nat /\ NoNumber \notin Numbers
ASSUME ConfigsAssumption ==
  \A r \in Reflectors : Configs[r] \subseteq
    {c \in Document : c.normal \cap c.encrypted = {} /\ ~c.legacy /\ Modules(c) # {}}
ASSUME FilesAssumption == \A r \in Reflectors : Files[r] \subseteq Seq(Line)

Pairs == {p \in Reflectors \X Reflectors : p[1] # p[2]}
Back(p) == <<p[2], p[1]>>

VARIABLES
  config,     \* g_CFG of each reflector
  doc,        \* what the DHT has of each reflector, NoDocument if nothing
  published,  \* reflectors whose document is that of this start
  file,       \* the interlink files
  changed,    \* reflectors whose file is not the one they loaded
  watching,   \* reflectors whose gatekeeper's thread still runs
  items,      \* m_Imap: of <<r, q>>, r's item for q
  asking,     \* whom each reflector's protocol thread is asking the DHT for
  found,      \* cfg in GetDHTConfig, while it asks: the document found so far
  early,      \* reflectors that asked, in this start, before their own document was out
  moved       \* some reflector was started again with another address or port

fileVars == <<file, changed, watching>>
askVars == <<asking, found, early>>
vars == <<config, doc, published, fileVars, items, askVars, moved>>

----------------------------------------------------------------------------
(* CInterlink.                                                             *)

IsSet(item) == item.ip.family # "none"

\* Mutant of IsIn: the modes are not compared.
IsInAnyMode(c, mods, emods, dht) == mods \subseteq Modules(c)

\* CReflMods::IsIn: each module is configured here and, with the DHT, in the mode
\* that it has there.
IsIn(c, mods, emods, dht) ==
  /\ mods \subseteq Modules(c)
  /\ dht => \A m \in mods : m \in emods <=> m \in c.encrypted

\* Mutant of Family: which addresses this reflector has to bind is not looked at.
FamilyPublished(c, d) ==
  IF d.addr["IPv6"] # NoHost THEN "IPv6" ELSE IF d.addr["IPv4"] # NoHost THEN "IPv4" ELSE "none"

\* The family for m_Ip: one that both use, IPv6 if they use both.
Family(c, d) ==
  LET both == {f \in Families : c.addr[f] # NoHost /\ d.addr[f] # NoHost}
  IN  IF "IPv6" \in both THEN "IPv6" ELSE IF "IPv4" \in both THEN "IPv4" ELSE "none"

\* CInterlink::UpdateItem.  If no family fits, m_Ip stays what it was.
Completed(c, item, d) ==
  LET f == Family(c, d)
  IN  [item EXCEPT !.legacy = d.legacy, !.doc = d,
         !.ip = IF f = "none" THEN @ ELSE [family |-> f, host |-> d.addr[f], port |-> d.port]]
UpdateItem(c, item, d) ==
  IF item.mods \subseteq Modules(d) /\ IsIn(c, item.mods, d.encrypted, item.dht)
  THEN Completed(c, item, d)
  ELSE [item EXCEPT !.legacy = d.legacy]

----------------------------------------------------------------------------
(* CInterlinks::LoadFromFile.                                              *)

\* Mutant of ReadPort: only the lower bound.
ReadPortFromBelow(n) ==
  LET port == n % 65536 IN IF port < 1024 THEN DefaultPort ELSE port

\* "uint16_t port = std::stoul(v[2])", and the default if that is out of range.
ReadPort(n) ==
  LET port == n % 65536 IN IF port \in Ports THEN port ELSE DefaultPort

NewItem(c, line) ==
  IF line.dht THEN [NoItem EXCEPT !.dht = TRUE, !.mods = line.mods]
  ELSE UpdateItem(c, [NoItem EXCEPT !.mods = line.mods],
                  [normal |-> line.mods, encrypted |-> {}, addr |-> line.addr,
                   port |-> ReadPort(line.port), legacy |-> line.legacy])

\* std::stoul throws at a word that is no number, and nobody catches that.  A line
\* for the reflector itself is skipped before.
Throws(r, line) == line.cs # r /\ ~line.dht /\ line.port = NoNumber
Readable(r, lines) == \A i \in DOMAIN lines : ~Throws(r, lines[i])

\* The line that counts for q: the first that names it, if it is reached.
LineOf(r, q, lines) ==
  {i \in DOMAIN lines : /\ lines[i].cs = q
                        /\ \A j \in 1..i : ~Throws(r, lines[j])
                        /\ \A j \in 1..i - 1 : lines[j].cs # q}

\* The map after reading: what it held before is gone.
Loaded(r, c, lines) ==
  [q \in Reflectors \ {r} |->
     IF LineOf(r, q, lines) = {} THEN NoItem
     ELSE NewItem(c, lines[CHOOSE i \in LineOf(r, q, lines) : TRUE])]

SetItems(r, map) == items' = [p \in Pairs |-> IF p[1] = r THEN map[p[2]] ELSE items[p]]

Init ==
  /\ config \in [Reflectors -> UNION {Configs[r] : r \in Reflectors}]
  /\ file \in [Reflectors -> UNION {Files[r] : r \in Reflectors}]
  /\ \A r \in Reflectors : config[r] \in Configs[r] /\ file[r] \in Files[r] /\ Readable(r, file[r])
  /\ doc = [r \in Reflectors |-> NoDocument] /\ published = {}
  /\ changed = {} /\ watching = Reflectors /\ moved = FALSE
  /\ items = [p \in Pairs |-> Loaded(p[1], config[p[1]], file[p[1]])[p[2]]]
  /\ asking = [r \in Reflectors |-> Nobody] /\ found = [r \in Reflectors |-> NoDocument]
  /\ early = {}

----------------------------------------------------------------------------
(* The gatekeeper's thread, and who edits the file.                        *)

Edit(r) ==
  /\ \E lines \in Files[r] : file' = [file EXCEPT ![r] = lines]
  /\ changed' = changed \cup {r}
  /\ UNCHANGED <<config, doc, published, watching, items, askVars, moved>>

\* Mutant of Reload: the map is not emptied first.
ReloadOnTop(r) ==
  /\ r \in watching /\ r \in changed
  /\ SetItems(r, [q \in Reflectors \ {r} |->
                   IF items[<<r, q>>] = NoItem THEN Loaded(r, config[r], file[r])[q]
                   ELSE items[<<r, q>>]])
  /\ IF Readable(r, file[r]) THEN changed' = changed \ {r} /\ UNCHANGED watching
                             ELSE watching' = watching \ {r} /\ UNCHANGED changed
  /\ UNCHANGED <<config, doc, published, file, askVars, moved>>

\* CInterlinks::NeedReload and ReloadFromFile (what modification times miss is in
\* GateKeeper).  An exception ends the thread, and with it the watch on all files.
Reload(r) ==
  /\ r \in watching /\ r \in changed
  /\ SetItems(r, Loaded(r, config[r], file[r]))
  /\ IF Readable(r, file[r]) THEN changed' = changed \ {r} /\ UNCHANGED watching
                             ELSE watching' = watching \ {r} /\ UNCHANGED changed
  /\ UNCHANGED <<config, doc, published, file, askVars, moved>>

----------------------------------------------------------------------------
(* The protocol thread.                                                    *)

\* The end of GetDHTConfig, also with the program.
Answered(r) == /\ asking' = [asking EXCEPT ![r] = Nobody]
               /\ found' = [found EXCEPT ![r] = NoDocument]

\* HandlePeerLinks calls GetDHTConfig for an item of the DHT without an address.  The
\* thread waits there.  It does not look whether the reflector's own document is out:
\* the put is not waited for, and that it failed is only logged.
Ask(r, q) ==
  /\ asking[r] = Nobody
  /\ items[<<r, q>>].dht /\ ~IsSet(items[<<r, q>>])
  /\ asking' = [asking EXCEPT ![r] = q] /\ found' = [found EXCEPT ![r] = NoDocument]
  /\ early' = IF r \in published THEN early ELSE early \cup {r}
  /\ UNCHANGED <<config, doc, published, fileVars, items, moved>>

\* The first callback of node.get: a document of q, signed and of this kind.
Hear(r, q) ==
  /\ asking[r] = q /\ doc[q] # NoDocument
  /\ found' = [found EXCEPT ![r] = doc[q]]
  /\ UNCHANGED <<config, doc, published, fileVars, items, asking, early, moved>>

\* The last callback, CInterlinks::Update: the item that is in the map by now.
Update(r, q) ==
  /\ asking[r] = q /\ found[r] # NoDocument /\ Answered(r)
  /\ items' = IF items[<<r, q>>] = NoItem THEN items
              ELSE [items EXCEPT ![<<r, q>>] = UpdateItem(config[r], @, found[r])]
  /\ UNCHANGED <<config, doc, published, fileVars, early, moved>>

\* The get ends without a document, or is unsuccessful.
NotFound(r, q) ==
  /\ asking[r] = q /\ Answered(r)
  /\ UNCHANGED <<config, doc, published, fileVars, items, early, moved>>

----------------------------------------------------------------------------
(* Start and stop.                                                         *)

\* PutDHTConfig, when the DHT has it.  The document before stays there until then.
Publish(r) ==
  /\ r \notin published
  /\ doc' = [doc EXCEPT ![r] = config[r]] /\ published' = published \cup {r}
  /\ UNCHANGED <<config, fileVars, items, askVars, moved>>

\* The program ends and is started again, perhaps with another configuration.
\* With a file that cannot be read it does not start: main does not catch the
\* exception either.
Restart(r) ==
  /\ Readable(r, file[r])
  /\ \E c \in Configs[r] :
       /\ config' = [config EXCEPT ![r] = c]
       /\ SetItems(r, Loaded(r, c, file[r]))
       /\ moved' = (moved \/ c.addr # config[r].addr \/ c.port # config[r].port)
  /\ published' = published \ {r} /\ changed' = changed \ {r} /\ watching' = watching \cup {r}
  /\ early' = early \ {r} /\ Answered(r)
  /\ UNCHANGED <<doc, file>>

Lookup(p) == LET r == p[1] q == p[2]
             IN  Ask(r, q) \/ Hear(r, q) \/ Update(r, q) \/ NotFound(r, q)
Disturb(r) == Edit(r) \/ Restart(r)

Next == \/ \E p \in Pairs : Lookup(p)
        \/ \E r \in Reflectors : Reload(r) \/ Publish(r) \/ Disturb(r)

Spec == Init /\ [][Next]_vars

\* The threads go on and a document reaches the DHT.  Every pass asks for each item
\* that has no address, and a document that is there is found again and again, and a
\* get that has found it is successful again and again.
FairSpec ==
  /\ Spec
  /\ \A r \in Reflectors : WF_vars(Reload(r)) /\ WF_vars(Publish(r))
  /\ \A p \in Pairs : /\ SF_vars(Ask(p[1], p[2])) /\ SF_vars(Hear(p[1], p[2]))
                      /\ SF_vars(Update(p[1], p[2])) /\ WF_vars(NotFound(p[1], p[2]))

----------------------------------------------------------------------------
(* Properties.                                                             *)

TypeOK ==
  /\ config \in [Reflectors -> Document]
  /\ doc \in [Reflectors -> Document]
  /\ published \subseteq Reflectors
  /\ file \in [Reflectors -> Seq(Line)]
  /\ changed \subseteq Reflectors /\ watching \subseteq Reflectors
  /\ items \in [Pairs -> Item]
  /\ asking \in [Reflectors -> Reflectors \cup {Nobody}]
  /\ found \in [Reflectors -> Document]
  /\ early \subseteq Reflectors
  /\ moved \in BOOLEAN

InDHT(p) == items[p].dht /\ IsSet(items[p])
SameMode(c, d, m) == /\ m \in Modules(c) /\ m \in Modules(d)
                     /\ m \in c.encrypted <=> m \in d.encrypted

Knows(p) == InDHT(p) /\ items[p].doc = config[p[2]]

\* "Using the Ham-DHT will prevent you from interlinking a channel where the peer
\* module has encryption enabled and you do not".  Who knows the other as it is now
\* has only modules in the same mode.  Either may know what an earlier start of the
\* other had put instead, even found in the middle of a get; but not both, if neither
\* asked before its own document was out, which nothing but the 10 s before the first
\* pass sees to: then the modules that both have are in the same mode.
ModesAgree ==
  \A p \in Pairs :
    /\ Knows(p) => \A m \in items[p].mods : SameMode(config[p[1]], config[p[2]], m)
    /\ InDHT(p) /\ InDHT(Back(p)) /\ p[1] \notin early /\ p[2] \notin early =>
         \A m \in items[p].mods \cap items[Back(p)].mods : SameMode(config[p[1]], config[p[2]], m)

\* p's packets reach p[2], and come from where p[2] expects them (GetInterlinkPacket
\* compares address and modules, but not the port).
Reaches(p) == LET ip == items[p].ip peer == config[p[2]]
              IN  IsSet(items[p]) /\ ip.host = peer.addr[ip.family] /\ ip.port = peer.port
Expected(p) == /\ IsSet(items[p]) /\ items[p].mods = items[Back(p)].mods
               /\ items[Back(p)].ip.host = config[p[1]].addr[items[p].ip.family]
Meet(p) == Reaches(p) /\ Expected(p)

\* Each side chooses the family for its packets by itself, with one address or two
\* on either side; if both know each other as they are now, they choose the same.
AddressesFit ==
  \A p \in Pairs : Knows(p) /\ Knows(Back(p)) /\ items[p].mods = items[Back(p)].mods => Meet(p)

\* Both files look the other up in the DHT, with the same modules in the same modes,
\* and there is a family that both use.
TheLine(p) == LET lines == file[p[1]]
              IN  lines[CHOOSE i \in LineOf(p[1], p[2], lines) : TRUE]
Wants(p) == /\ p[1] \in watching
            /\ LineOf(p[1], p[2], file[p[1]]) # {} /\ TheLine(p).dht
            /\ \A m \in TheLine(p).mods : SameMode(config[p[1]], config[p[2]], m)
            /\ \E f \in Families : \A i \in 1..2 : config[p[i]].addr[f] # NoHost
Agree(p) == Wants(p) /\ Wants(Back(p)) /\ TheLine(p).mods = TheLine(Back(p)).mods
Disturbed == \E r \in Reflectors : Disturb(r)

\* Two reflectors that agree come to know each other, whatever was edited, started
\* again or not found before, if in the end that stops, and if no address was
\* ever changed.
PeersMeet ==
  \A p \in Pairs : <>[](Agree(p) /\ ~moved) => []<><<Disturbed>>_vars \/ <>[]Meet(p)

----------------------------------------------------------------------------
(* What a document says that the program does not do.                      *)

\* "The mrefd reflector will monitor these file and dynamically update itself
\* whenever anything changes" (README).
EditsLoaded == \A r \in Reflectors : r \in changed ~> r \notin changed
=============================================================================
