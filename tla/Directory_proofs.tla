-------------------------- MODULE Directory_proofs --------------------------
(* Proofs about Directory: types, the modes of interlinked modules, and that  *)
(* two reflectors choose addresses that fit.                                  *)
EXTENDS Directory, TLAPS

(* Two reflectors that hold a document of each other hold at least one that is  *)
(* true now, unless one of them asked early.  Has: p[1] holds d of p[2], in its  *)
(* item or in the get it waits for.                                             *)
Has(p, d) == \/ InDHT(p) /\ d = items[p].doc
             \/ asking[p[1]] = p[2] /\ found[p[1]] # NoDocument /\ d = found[p[1]]
OneIsTrue == \A p \in Pairs : \A d, e \in Document :
               Has(p, d) /\ Has(Back(p), e) =>
                 {p[1], p[2]} \cap early # {} \/ d = config[p[2]] \/ e = config[p[1]]

(* Who holds one, or asks, has put its own, or asked early. *)
AskersPublished ==
  /\ \A r \in published : doc[r] = config[r]
  /\ \A r \in Reflectors : asking[r] # Nobody => r \in published \cup early /\ asking[r] # r
  /\ \A p \in Pairs : InDHT(p) => p[1] \in published \cup early /\ asking[p[1]] # p[2]

(* An item with an address from the DHT was made from its document, by this start. *)
MadeFrom(c, item) ==
  /\ item.mods \subseteq Modules(item.doc)
  /\ IsIn(c, item.mods, item.doc.encrypted, TRUE)
  /\ LET f == Family(c, item.doc)
     IN  item.ip = [family |-> f, host |-> item.doc.addr[f], port |-> item.doc.port]
ItemsFit == \A p \in Pairs : InDHT(p) => MadeFrom(config[p[1]], items[p])

DirectoryInv == OneIsTrue /\ AskersPublished /\ ItemsFit

----------------------------------------------------------------------------
(* The operators.                                                          *)

LEMMA BackIsPair == ASSUME NEW p \in Pairs
                    PROVE  /\ Back(p) \in Pairs /\ Back(Back(p)) = p
                           /\ p = <<p[1], p[2]>> /\ Back(p)[1] = p[2] /\ Back(p)[2] = p[1]
                           /\ p[1] \in Reflectors /\ p[2] \in Reflectors /\ p[1] # p[2]
BY DEF Pairs, Back

LEMMA FamilyFits ==
  ASSUME NEW c \in Document, NEW d \in Document, Family(c, d) # "none"
  PROVE  /\ Family(c, d) \in Families
         /\ c.addr[Family(c, d)] # NoHost /\ d.addr[Family(c, d)] # NoHost
BY DEF Family, Families

LEMMA FamilySame ==
  ASSUME NEW c \in Document, NEW d \in Document
  PROVE  Family(c, d) = Family(d, c)
<1> DEFINE cd == {f \in Families : c.addr[f] # NoHost /\ d.addr[f] # NoHost}
           dc == {f \in Families : d.addr[f] # NoHost /\ c.addr[f] # NoHost}
<1>1. cd = dc
  OBVIOUS
<1> QED BY <1>1 DEF Family

LEMMA UpdatedItem ==
  ASSUME NEW c \in Document, NEW item \in Item, NEW d \in Document
  PROVE  /\ UpdateItem(c, item, d) \in Item
         /\ UpdateItem(c, item, d).dht = item.dht
         /\ UpdateItem(c, item, d).mods = item.mods
         /\ item.dht /\ ~IsSet(item) /\ IsSet(UpdateItem(c, item, d)) =>
              /\ UpdateItem(c, item, d).doc = d
              /\ MadeFrom(c, UpdateItem(c, item, d))
<1> DEFINE f == Family(c, d)
           ip == [family |-> f, host |-> d.addr[f], port |-> d.port]
           new == [item EXCEPT !.legacy = d.legacy]
           full == [item EXCEPT !.legacy = d.legacy, !.doc = d, !.ip = IF f = "none" THEN @ ELSE ip]
<1>1. d.legacy \in BOOLEAN /\ d.port \in Ports /\ \A g \in Families : d.addr[g] \in Hosts \cup {NoHost}
  BY DEF Document
<1>2. f # "none" => ip \in Address
  BY <1>1, FamilyFits DEF Address
<1>3. item.ip \in Address \cup {NoAddress}
  BY DEF Item
<1>4. (IF f = "none" THEN item.ip ELSE ip) \in Address \cup {NoAddress}
  BY <1>2, <1>3
<1>5. /\ full \in Item /\ full.dht = item.dht /\ full.mods = item.mods /\ full.doc = d
      /\ full.ip = IF f = "none" THEN item.ip ELSE ip
  <2> HIDE DEF f, ip
  <2> QED BY <1>1, <1>4 DEF Item
<1>6. new \in Item /\ new.dht = item.dht /\ new.mods = item.mods /\ new.ip = item.ip
  BY <1>1 DEF Item
<1>7. CASE item.mods \subseteq Modules(d) /\ IsIn(c, item.mods, d.encrypted, item.dht)
  <2>1. UpdateItem(c, item, d) = full
    BY <1>7 DEF UpdateItem, Completed
  <2>2. item.dht /\ ~IsSet(item) /\ IsSet(full) => MadeFrom(c, full)
    <3> SUFFICES ASSUME item.dht, ~IsSet(item), IsSet(full) PROVE MadeFrom(c, full)
      OBVIOUS
    <3>1. f # "none"
      BY <1>5 DEF IsSet
    <3>2. full.ip = ip
      BY <1>5, <3>1
    <3>3. item.dht = TRUE
      BY DEF Item
    <3> HIDE DEF full
    <3> QED BY <1>5, <1>7, <3>2, <3>3 DEF MadeFrom
  <2> HIDE DEF full
  <2> QED BY <1>5, <2>1, <2>2
<1>8. CASE ~(item.mods \subseteq Modules(d) /\ IsIn(c, item.mods, d.encrypted, item.dht))
  <2>1. UpdateItem(c, item, d) = new
    BY <1>8 DEF UpdateItem
  <2> HIDE DEF new
  <2> QED BY <1>6, <2>1 DEF IsSet
<1> QED BY <1>7, <1>8

LEMMA PortRead == ASSUME NEW n \in Nat PROVE ReadPort(n) \in Ports
<1>1. DefaultPort \in Ports
  BY DEF DefaultPort, Ports
<1> DEFINE port == n % 65536
<1>2. ReadPort(n) = IF port \in Ports THEN port ELSE DefaultPort
  BY DEF ReadPort, port
<1> HIDE DEF port
<1> QED BY <1>1, <1>2

LEMMA NoItemType == NoItem \in Item /\ ~NoItem.dht /\ ~IsSet(NoItem) /\ NoDocument \in Document
BY DEF NoItem, Item, NoDocument, Document, NoAddress, Ports, DefaultPort, Families, IsSet

LEMMA NewItemType ==
  ASSUME NEW c \in Document, NEW line \in Line, line.dht \/ line.port # NoNumber
  PROVE  NewItem(c, line) \in Item /\ (NewItem(c, line).dht => ~IsSet(NewItem(c, line)))
<1>1. CASE line.dht
  <2>1. NewItem(c, line) = [NoItem EXCEPT !.dht = TRUE, !.mods = line.mods]
    BY <1>1 DEF NewItem
  <2> QED BY <2>1, NoItemType DEF NoItem, Item, Line, IsSet, NoAddress
<1>2. CASE ~line.dht
  <2> DEFINE item == [NoItem EXCEPT !.mods = line.mods]
             d == [normal |-> line.mods, encrypted |-> {}, addr |-> line.addr,
                   port |-> ReadPort(line.port), legacy |-> line.legacy]
  <2>1. NewItem(c, line) = UpdateItem(c, item, d)
    BY <1>2 DEF NewItem
  <2>2. item \in Item /\ ~item.dht
    BY NoItemType DEF NoItem, Item, Line
  <2>3. ReadPort(line.port) \in Ports
    BY <1>2, NumbersAssumption, PortRead DEF Line
  <2>4. d \in Document
    <3> HIDE DEF item
    <3> QED BY <2>3 DEF Document, Line
  <2> HIDE DEF item, d
  <2>5. UpdateItem(c, item, d) \in Item
    BY <2>2, <2>4, UpdatedItem
  <2>6. UpdateItem(c, item, d).dht = item.dht
    BY <2>2, <2>4, UpdatedItem
  <2> QED BY ONLY <2>1, <2>2, <2>5, <2>6, Zenon
<1> QED BY <1>1, <1>2

LEMMA LoadedType ==
  ASSUME NEW r \in Reflectors, NEW c \in Document, NEW lines \in Seq(Line), NEW q \in Reflectors \ {r}
  PROVE  LET item == Loaded(r, c, lines)[q] IN item \in Item /\ (item.dht => ~IsSet(item))
<1>1. CASE LineOf(r, q, lines) = {}
  BY <1>1, NoItemType DEF Loaded
<1>2. CASE LineOf(r, q, lines) # {}
  <2> DEFINE i == CHOOSE i \in LineOf(r, q, lines) : TRUE
  <2>1. i \in LineOf(r, q, lines)
    BY <1>2
  <2> HIDE DEF i
  <2>2. i \in 1..Len(lines) /\ lines[i].cs = q /\ ~Throws(r, lines[i])
    BY <2>1 DEF LineOf
  <2>3. lines[i] \in Line /\ (lines[i].dht \/ lines[i].port # NoNumber)
    BY <2>2 DEF Throws
  <2>4. Loaded(r, c, lines)[q] = NewItem(c, lines[i])
    BY <1>2 DEF Loaded, i
  <2> QED BY <2>3, <2>4, NewItemType
<1> QED BY <1>1, <1>2

(* After reading the file no item has an address from the DHT. *)
LEMMA ItemsLoaded ==
  ASSUME TypeOK, NEW r \in Reflectors, NEW c \in Document, NEW lines \in Seq(Line),
         SetItems(r, Loaded(r, c, lines))
  PROVE  /\ items' \in [Pairs -> Item]
         /\ \A p \in Pairs : IF p[1] = r THEN ~InDHT(p)' ELSE items'[p] = items[p]
<1> SUFFICES ASSUME NEW p \in Pairs
             PROVE  /\ items'[p] \in Item
                    /\ IF p[1] = r THEN ~InDHT(p)' ELSE items'[p] = items[p]
  BY DEF SetItems
<1>1. CASE p[1] = r
  <2>1. p[2] \in Reflectors \ {r}
    BY <1>1, BackIsPair
  <2>2. items'[p] = Loaded(r, c, lines)[p[2]]
    BY <1>1 DEF SetItems
  <2> QED BY <1>1, <2>1, <2>2, LoadedType DEF InDHT
<1>2. CASE p[1] # r
  BY <1>2 DEF SetItems, TypeOK
<1> QED BY <1>1, <1>2

----------------------------------------------------------------------------
(* Types.                                                                  *)

LEMMA ConfigType == ASSUME NEW r \in Reflectors
                    PROVE  /\ \A c \in Configs[r] : c \in Document /\ c # NoDocument
                           /\ Files[r] \subseteq Seq(Line)
BY ConfigsAssumption, FilesAssumption DEF Modules, NoDocument

LEMMA InitType == ASSUME Init PROVE TypeOK
<1>1. config \in [Reflectors -> Document]
  BY ConfigType DEF Init
<1>2. file \in [Reflectors -> Seq(Line)]
  BY ConfigType DEF Init
<1>3. items \in [Pairs -> Item]
  <2> SUFFICES ASSUME NEW p \in Pairs
               PROVE  Loaded(p[1], config[p[1]], file[p[1]])[p[2]] \in Item
    BY DEF Init
  <2>1. /\ p[1] \in Reflectors /\ p[2] \in Reflectors \ {p[1]}
        /\ config[p[1]] \in Document /\ file[p[1]] \in Seq(Line)
    BY <1>1, <1>2, BackIsPair
  <2> QED BY <2>1, LoadedType
<1> QED BY <1>1, <1>2, <1>3, NoItemType DEF Init, TypeOK

LEMMA TypeStep == ASSUME TypeOK, [Next]_vars PROVE TypeOK'
<1> USE DEF TypeOK
<1>1. ASSUME NEW r \in Reflectors, Edit(r) PROVE TypeOK'
  BY <1>1, ConfigType DEF Edit, askVars
<1>2. ASSUME NEW r \in Reflectors, Reload(r) PROVE TypeOK'
  <2>1. items' \in [Pairs -> Item]
    BY <1>2, ItemsLoaded DEF Reload
  <2> QED BY <1>2, <2>1 DEF Reload, askVars
<1>3. ASSUME NEW p \in Pairs, Ask(p[1], p[2]) PROVE TypeOK'
  BY <1>3, BackIsPair, NoItemType DEF Ask, fileVars
<1>4. ASSUME NEW p \in Pairs, Hear(p[1], p[2]) PROVE TypeOK'
  BY <1>4, BackIsPair DEF Hear, fileVars
<1>5. ASSUME NEW p \in Pairs, Update(p[1], p[2]) PROVE TypeOK'
  <2>1. items' \in [Pairs -> Item]
    <3> DEFINE new == UpdateItem(config[p[1]], items[p], found[p[1]])
    <3>1. items' = items \/ items' = [items EXCEPT ![p] = new]
      BY <1>5, BackIsPair DEF Update
    <3>2. new \in Item
      BY BackIsPair, UpdatedItem
    <3> HIDE DEF new
    <3> QED BY <3>1, <3>2
  <2> QED BY <1>5, <2>1, BackIsPair, NoItemType DEF Update, Answered, fileVars
<1>6. ASSUME NEW p \in Pairs, NotFound(p[1], p[2]) PROVE TypeOK'
  BY <1>6, BackIsPair, NoItemType DEF NotFound, Answered, fileVars
<1>7. ASSUME NEW r \in Reflectors, Publish(r) PROVE TypeOK'
  BY <1>7 DEF Publish, fileVars, askVars
<1>8. ASSUME NEW r \in Reflectors, Restart(r) PROVE TypeOK'
  <2>1. PICK c \in Configs[r] : /\ config' = [config EXCEPT ![r] = c]
                                /\ SetItems(r, Loaded(r, c, file[r]))
                                /\ moved' = (moved \/ c.addr # config[r].addr \/ c.port # config[r].port)
    BY <1>8 DEF Restart
  <2>2. c \in Document
    BY ConfigType
  <2>3. items' \in [Pairs -> Item]
    BY <2>1, <2>2, ItemsLoaded
  <2>4. moved' \in BOOLEAN
    BY <2>1, Zenon
  <2>5. config' \in [Reflectors -> Document]
    BY <2>1, <2>2
  <2> QED BY <1>8, <2>3, <2>4, <2>5, NoItemType DEF Restart, Answered
<1>9. CASE UNCHANGED vars
  BY <1>9 DEF vars, fileVars, askVars
<1> QED BY <1>1, <1>2, <1>3, <1>4, <1>5, <1>6, <1>7, <1>8, <1>9 DEF Next, Lookup, Disturb

\* Items, documents and configurations keep their form, and the ports that are
\* called are in 1024..49000 whatever number a file has (CInterlinks::LoadFromFile).
THEOREM TypeCorrect == Spec => []TypeOK
BY InitType, TypeStep, PTL DEF Spec

----------------------------------------------------------------------------
(* What the reflectors know of each other.                                 *)

LEMMA InitInv == ASSUME Init PROVE DirectoryInv
<1>1. \A p \in Pairs : ~InDHT(p)
  <2> SUFFICES ASSUME NEW p \in Pairs PROVE ~InDHT(p)
    OBVIOUS
  <2>1. /\ p[1] \in Reflectors /\ p[2] \in Reflectors \ {p[1]}
        /\ config[p[1]] \in Document /\ file[p[1]] \in Seq(Line)
    BY BackIsPair, InitType DEF TypeOK
  <2>2. items[p] = Loaded(p[1], config[p[1]], file[p[1]])[p[2]]
    BY DEF Init
  <2> QED BY <2>1, <2>2, LoadedType DEF InDHT
<1>2. \A r \in Reflectors : asking[r] = Nobody
  BY DEF Init
<1>3. \A p \in Pairs, d \in Document : ~Has(p, d)
  BY <1>1, <1>2, BackIsPair, NobodyAssumption DEF Has
<1>4. published = {}
  BY DEF Init
<1> QED BY <1>1, <1>2, <1>3, <1>4 DEF DirectoryInv, OneIsTrue, AskersPublished, ItemsFit

(* A step after which nobody holds more than before, under the same configurations. *)
LEMMA HoldLess ==
  ASSUME DirectoryInv, config' = config, early \subseteq early',
         \A p \in Pairs, d \in Document : Has(p, d)' => Has(p, d)
  PROVE  OneIsTrue'
BY BackIsPair DEF DirectoryInv, OneIsTrue

LEMMA EditInv == ASSUME TypeOK, DirectoryInv, NEW r \in Reflectors, Edit(r) PROVE DirectoryInv'
BY DEF Edit, askVars, DirectoryInv, OneIsTrue, AskersPublished, ItemsFit, Has, InDHT

LEMMA ReloadInv == ASSUME TypeOK, DirectoryInv, NEW r \in Reflectors, Reload(r) PROVE DirectoryInv'
<1>1. UNCHANGED <<config, doc, published, asking, found, early>>
  BY DEF Reload, askVars
<1>2. \A p \in Pairs : IF p[1] = r THEN ~InDHT(p)' ELSE items'[p] = items[p]
  <2>1. config[r] \in Document /\ file[r] \in Seq(Line)
    BY DEF TypeOK
  <2> QED BY <2>1, ItemsLoaded DEF Reload
<1>3. \A p \in Pairs : InDHT(p)' => InDHT(p) /\ items'[p] = items[p]
  BY <1>2 DEF InDHT
<1>4. \A p \in Pairs, d \in Document : Has(p, d)' => Has(p, d)
  BY <1>1, <1>3 DEF Has
<1>5. OneIsTrue'
  BY <1>1, <1>4, HoldLess
<1>6. AskersPublished'
  BY <1>1, <1>3 DEF DirectoryInv, AskersPublished
<1>7. ItemsFit'
  BY <1>1, <1>3 DEF DirectoryInv, ItemsFit
<1> QED BY <1>5, <1>6, <1>7 DEF DirectoryInv

LEMMA PublishInv == ASSUME TypeOK, DirectoryInv, NEW r \in Reflectors, Publish(r) PROVE DirectoryInv'
<1>1. UNCHANGED <<config, items, asking, found, early>>
  BY DEF Publish, askVars
<1>2. OneIsTrue' /\ ItemsFit'
  BY <1>1 DEF DirectoryInv, OneIsTrue, ItemsFit, Has, InDHT
<1>3. AskersPublished'
  BY <1>1 DEF Publish, TypeOK, DirectoryInv, AskersPublished, InDHT
<1> QED BY <1>2, <1>3 DEF DirectoryInv

(* Only r's own items and get are new; and nothing is known from before the start. *)
LEMMA RestartInv == ASSUME TypeOK, DirectoryInv, NEW r \in Reflectors, Restart(r) PROVE DirectoryInv'
<1>1. PICK c \in Configs[r] : config' = [config EXCEPT ![r] = c] /\ SetItems(r, Loaded(r, c, file[r]))
  BY DEF Restart
<1>2. c \in Document /\ file[r] \in Seq(Line)
  BY ConfigType DEF TypeOK
<1>3. \A p \in Pairs : IF p[1] = r THEN ~InDHT(p)' ELSE items'[p] = items[p]
  BY <1>1, <1>2, ItemsLoaded
<1>4. /\ published' = published \ {r} /\ doc' = doc
      /\ asking' = [asking EXCEPT ![r] = Nobody] /\ found' = [found EXCEPT ![r] = NoDocument]
      /\ early' = early \ {r}
  BY DEF Restart, Answered
<1>5. \A p \in Pairs : InDHT(p)' => p[1] # r /\ InDHT(p) /\ items'[p] = items[p]
  BY <1>3 DEF InDHT
<1>6. \A q \in Reflectors : q # r => config'[q] = config[q] /\ asking'[q] = asking[q] /\ found'[q] = found[q]
  BY <1>1, <1>4 DEF TypeOK
<1>7. asking'[r] = Nobody
  BY <1>4 DEF TypeOK
<1>8. \A p \in Pairs, d \in Document : Has(p, d)' => p[1] # r /\ Has(p, d)
  BY <1>5, <1>6, <1>7, BackIsPair, NobodyAssumption DEF Has
<1>9. OneIsTrue'
  <2> SUFFICES ASSUME NEW p \in Pairs, NEW d \in Document, NEW e \in Document,
                      Has(p, d)', Has(Back(p), e)'
               PROVE  ({p[1], p[2]} \cap early # {} \/ d = config[p[2]] \/ e = config[p[1]])'
    BY DEF OneIsTrue
  <2>1. p[1] # r /\ p[2] # r /\ Has(p, d) /\ Has(Back(p), e)
    BY <1>8, BackIsPair
  <2> QED BY <1>4, <1>6, <2>1, BackIsPair DEF DirectoryInv, OneIsTrue
<1>10. AskersPublished'
  <2>1. \A q \in published' : doc'[q] = config'[q]
    BY <1>4, <1>6 DEF TypeOK, DirectoryInv, AskersPublished
  <2>2. \A q \in Reflectors : asking'[q] # Nobody => q \in published' \cup early' /\ asking'[q] # q
    BY <1>4, <1>6, <1>7 DEF DirectoryInv, AskersPublished
  <2>3. \A p \in Pairs : InDHT(p)' => p[1] \in published' \cup early' /\ asking'[p[1]] # p[2]
    BY <1>4, <1>5, <1>6, BackIsPair DEF DirectoryInv, AskersPublished
  <2> QED BY <2>1, <2>2, <2>3 DEF AskersPublished
<1>11. ItemsFit'
  BY <1>5, <1>6, BackIsPair DEF DirectoryInv, ItemsFit
<1> QED BY <1>9, <1>10, <1>11 DEF DirectoryInv

LEMMA AskInv == ASSUME TypeOK, DirectoryInv, NEW p \in Pairs, Ask(p[1], p[2]) PROVE DirectoryInv'
<1>1. /\ UNCHANGED <<config, doc, published, items>> /\ ~InDHT(p)
      /\ p[1] \in published \cup early' /\ early \subseteq early'
      /\ asking' = [asking EXCEPT ![p[1]] = p[2]] /\ found' = [found EXCEPT ![p[1]] = NoDocument]
  BY BackIsPair DEF Ask, InDHT
<1>2. \A q \in Pairs : InDHT(q)' <=> InDHT(q)
  BY <1>1 DEF InDHT
<1>3. \A q \in Pairs, d \in Document : Has(q, d)' => Has(q, d)
  <2> SUFFICES ASSUME NEW q \in Pairs, NEW d \in Document, Has(q, d)' PROVE Has(q, d)
    OBVIOUS
  <2>1. CASE q[1] = p[1]
    <3>1. found'[q[1]] = NoDocument
      BY <1>1, <2>1, BackIsPair DEF TypeOK
    <3> QED BY <1>1, <1>2, <3>1 DEF Has
  <2>2. CASE q[1] # p[1]
    <3>1. found'[q[1]] = found[q[1]] /\ asking'[q[1]] = asking[q[1]]
      BY <1>1, <2>2, BackIsPair DEF TypeOK
    <3> QED BY <1>1, <1>2, <3>1 DEF Has
  <2> QED BY <2>1, <2>2
<1>4. AskersPublished'
  <2>1. \A r \in Reflectors : asking'[r] # Nobody => r \in published \cup early' /\ asking'[r] # r
    BY <1>1, BackIsPair DEF TypeOK, DirectoryInv, AskersPublished
  <2>2. ASSUME NEW q \in Pairs, InDHT(q) PROVE q[1] \in published \cup early' /\ asking'[q[1]] # q[2]
    <3>1. CASE q[1] = p[1]
      <4>1. q[2] # p[2]
        BY <1>1, <2>2, <3>1, BackIsPair
      <4> QED BY <1>1, <2>2, <3>1, <4>1, BackIsPair DEF TypeOK, DirectoryInv, AskersPublished
    <3>2. CASE q[1] # p[1]
      BY <1>1, <2>2, <3>2, BackIsPair DEF TypeOK, DirectoryInv, AskersPublished
    <3> QED BY <3>1, <3>2
  <2> QED BY <1>1, <1>2, <2>1, <2>2 DEF DirectoryInv, AskersPublished
<1>5. ItemsFit'
  BY <1>1, <1>2 DEF DirectoryInv, ItemsFit
<1> QED BY <1>1, <1>3, <1>4, <1>5, HoldLess DEF DirectoryInv

(* What is found is true if the other holds anything: then it has put its own. *)
LEMMA HearInv == ASSUME TypeOK, DirectoryInv, NEW p \in Pairs, Hear(p[1], p[2]) PROVE DirectoryInv'
<1>1. /\ UNCHANGED <<config, doc, published, items, asking, early>> /\ asking[p[1]] = p[2]
      /\ found' = [found EXCEPT ![p[1]] = doc[p[2]]]
  BY DEF Hear
<1>2. \A q \in Pairs : InDHT(q)' <=> InDHT(q)
  BY <1>1 DEF InDHT
<1>3. ~InDHT(p)
  BY <1>1 DEF DirectoryInv, AskersPublished
<1>4. \A q \in Pairs, d \in Document :
         Has(q, d)' => IF q = p THEN d = doc[p[2]] ELSE Has(q, d)
  <2> SUFFICES ASSUME NEW q \in Pairs, NEW d \in Document, Has(q, d)'
               PROVE  IF q = p THEN d = doc[p[2]] ELSE Has(q, d)
    OBVIOUS
  <2>1. CASE q = p
    BY <1>1, <1>2, <1>3, <2>1, BackIsPair DEF Has, TypeOK
  <2>2. CASE q # p /\ q[1] = p[1]
    <3>1. asking[q[1]] # q[2]
      BY <1>1, <2>2, BackIsPair
    <3> QED BY <1>1, <1>2, <2>2, <3>1 DEF Has
  <2>3. CASE q[1] # p[1]
    <3>1. found'[q[1]] = found[q[1]]
      BY <1>1, <2>3, BackIsPair DEF TypeOK
    <3> QED BY <1>1, <1>2, <2>3, <3>1 DEF Has
  <2> QED BY <2>1, <2>2, <2>3
<1>5. \A q \in Pairs, d \in Document : Has(q, d) => q[1] \in published \cup early
  BY BackIsPair, NobodyAssumption DEF Has, DirectoryInv, AskersPublished
<1>6. OneIsTrue'
  <2> SUFFICES ASSUME NEW q \in Pairs, NEW d \in Document, NEW e \in Document,
                      Has(q, d)', Has(Back(q), e)'
               PROVE  {q[1], q[2]} \cap early # {} \/ d = config[q[2]] \/ e = config[q[1]]
    BY <1>1 DEF OneIsTrue
  <2>1. CASE q = p
    <3>1. Back(q) # p
      BY <2>1, BackIsPair
    <3>2. Has(Back(q), e) /\ d = doc[q[2]]
      BY <1>4, <2>1, <3>1, BackIsPair
    <3>3. q[2] \in published \cup early
      BY <1>5, <3>2, BackIsPair
    <3> QED BY <3>2, <3>3 DEF DirectoryInv, AskersPublished
  <2>2. CASE Back(q) = p
    <3>1. q # p /\ p[2] = q[1]
      BY <2>2, BackIsPair
    <3>2. Has(q, d) /\ e = doc[q[1]]
      BY <1>4, <2>2, <3>1, BackIsPair
    <3>3. q[1] \in published \cup early
      BY <1>5, <3>2, BackIsPair
    <3> QED BY <3>2, <3>3 DEF DirectoryInv, AskersPublished
  <2>3. CASE q # p /\ Back(q) # p
    BY <1>4, <2>3, BackIsPair DEF DirectoryInv, OneIsTrue
  <2> QED BY <2>1, <2>2, <2>3
<1>7. AskersPublished' /\ ItemsFit'
  BY <1>1, <1>2 DEF DirectoryInv, AskersPublished, ItemsFit
<1> QED BY <1>6, <1>7 DEF DirectoryInv

LEMMA UpdateInv == ASSUME TypeOK, DirectoryInv, NEW p \in Pairs, Update(p[1], p[2]) PROVE DirectoryInv'
<1> DEFINE new == UpdateItem(config[p[1]], items[p], found[p[1]])
<1>1. /\ UNCHANGED <<config, doc, published, early>> /\ asking[p[1]] = p[2]
      /\ found[p[1]] # NoDocument /\ found[p[1]] \in Document
      /\ asking' = [asking EXCEPT ![p[1]] = Nobody] /\ found' = [found EXCEPT ![p[1]] = NoDocument]
      /\ items' = items \/ items' = [items EXCEPT ![p] = new]
  BY BackIsPair DEF Update, Answered, TypeOK
<1>2. ~InDHT(p)
  BY <1>1 DEF DirectoryInv, AskersPublished
<1>3. InDHT(p)' => items'[p].doc = found[p[1]] /\ MadeFrom(config[p[1]], items'[p])
  <2> SUFFICES ASSUME InDHT(p)'
               PROVE  items'[p].doc = found[p[1]] /\ MadeFrom(config[p[1]], items'[p])
    OBVIOUS
  <2>1. items'[p] = items[p] \/ items'[p] = new
    <3> HIDE DEF new
    <3> QED BY <1>1 DEF TypeOK
  <2>2. items'[p].dht /\ IsSet(items'[p])
    BY DEF InDHT
  <2>3. items'[p] = new
    BY <1>2, <2>1, <2>2 DEF InDHT
  <2>4. items[p] \in Item /\ config[p[1]] \in Document
    BY BackIsPair DEF TypeOK
  <2>5. new.dht = items[p].dht
    BY <1>1, <2>4, UpdatedItem
  <2>6. items[p].dht /\ ~IsSet(items[p])
    <3> HIDE DEF new
    <3>1. items[p].dht
      BY <2>2, <2>3, <2>5
    <3> QED BY <1>2, <3>1 DEF InDHT
  <2>7. IsSet(new)
    BY <2>2, <2>3
  <2>8. new.doc = found[p[1]] /\ MadeFrom(config[p[1]], new)
    BY <1>1, <2>4, <2>6, <2>7, UpdatedItem
  <2> HIDE DEF new
  <2> QED BY <2>3, <2>8
<1>4. \A q \in Pairs : q # p => items'[q] = items[q]
  BY <1>1 DEF TypeOK
<1>5. \A q \in Pairs : q # p => (InDHT(q)' <=> InDHT(q))
  BY <1>4 DEF InDHT
<1>6. \A r \in Reflectors : /\ asking'[r] = IF r = p[1] THEN Nobody ELSE asking[r]
                            /\ found'[r] = IF r = p[1] THEN NoDocument ELSE found[r]
  BY <1>1 DEF TypeOK
<1>7. \A q \in Pairs, d \in Document : Has(q, d)' => Has(q, d)
  <2> SUFFICES ASSUME NEW q \in Pairs, NEW d \in Document, Has(q, d)' PROVE Has(q, d)
    OBVIOUS
  <2>1. CASE InDHT(q)' /\ d = items'[q].doc
    <3>1. CASE q = p
      BY <1>1, <1>3, <2>1, <3>1 DEF Has
    <3>2. CASE q # p
      BY <1>4, <1>5, <2>1, <3>2 DEF Has
    <3> QED BY <3>1, <3>2
  <2>2. CASE asking'[q[1]] = q[2] /\ found'[q[1]] # NoDocument /\ d = found'[q[1]]
    BY <1>1, <1>6, <2>2, BackIsPair, NobodyAssumption DEF Has
  <2> QED BY <2>1, <2>2 DEF Has
<1>8. OneIsTrue'
  BY <1>1, <1>7, HoldLess
<1>9. AskersPublished'
  <2>1. \A r \in Reflectors : asking'[r] # Nobody => r \in published \cup early /\ asking'[r] # r
    BY <1>6 DEF DirectoryInv, AskersPublished
  <2>2. p[1] \in published \cup early /\ p[2] # Nobody
    BY <1>1, BackIsPair, NobodyAssumption DEF DirectoryInv, AskersPublished
  <2>3. ASSUME NEW q \in Pairs, InDHT(q)' PROVE q[1] \in published \cup early /\ asking'[q[1]] # q[2]
    <3>1. CASE q = p
      BY <1>6, <2>2, <3>1, BackIsPair
    <3>2. CASE q # p
      <4>1. q[1] \in published \cup early /\ asking[q[1]] # q[2]
        BY <1>5, <2>3, <3>2 DEF DirectoryInv, AskersPublished
      <4> QED BY <1>6, <4>1, BackIsPair, NobodyAssumption
    <3> QED BY <3>1, <3>2
  <2> QED BY <1>1, <2>1, <2>3 DEF DirectoryInv, AskersPublished
<1>10. ItemsFit'
  BY <1>1, <1>3, <1>4, <1>5 DEF DirectoryInv, ItemsFit
<1> QED BY <1>8, <1>9, <1>10 DEF DirectoryInv

LEMMA NotFoundInv == ASSUME TypeOK, DirectoryInv, NEW p \in Pairs, NotFound(p[1], p[2]) PROVE DirectoryInv'
<1>1. /\ UNCHANGED <<config, doc, published, items, early>>
      /\ asking' = [asking EXCEPT ![p[1]] = Nobody] /\ found' = [found EXCEPT ![p[1]] = NoDocument]
  BY DEF NotFound, Answered
<1>2. \A r \in Reflectors : asking'[r] = Nobody \/ (asking'[r] = asking[r] /\ found'[r] = found[r])
  BY <1>1 DEF TypeOK
<1>3. \A q \in Pairs : InDHT(q)' <=> InDHT(q)
  BY <1>1 DEF InDHT
<1>4. \A q \in Pairs, d \in Document : Has(q, d)' => Has(q, d)
  BY <1>1, <1>2, <1>3, BackIsPair, NobodyAssumption DEF Has
<1>5. AskersPublished'
  BY <1>1, <1>2, <1>3, BackIsPair, NobodyAssumption DEF DirectoryInv, AskersPublished
<1>6. ItemsFit'
  BY <1>1, <1>3 DEF DirectoryInv, ItemsFit
<1> QED BY <1>1, <1>4, <1>5, <1>6, HoldLess DEF DirectoryInv

LEMMA InvStep == ASSUME TypeOK, DirectoryInv, [Next]_vars PROVE DirectoryInv'
<1>1. CASE UNCHANGED vars
  BY <1>1 DEF vars, askVars, DirectoryInv, OneIsTrue, AskersPublished, ItemsFit, Has, InDHT
<1>2. CASE Next
  BY <1>2, EditInv, ReloadInv, PublishInv, RestartInv, AskInv, HearInv, UpdateInv, NotFoundInv
  DEF Next, Lookup, Disturb
<1> QED BY <1>1, <1>2

LEMMA DirectoryInvariant == Spec => [](TypeOK /\ DirectoryInv)
BY InitType, InitInv, TypeStep, InvStep, PTL DEF Spec

----------------------------------------------------------------------------
(* The theorems.                                                           *)

LEMMA HeldDocuments ==
  ASSUME TypeOK, DirectoryInv, NEW p \in Pairs, InDHT(p), InDHT(Back(p)),
         p[1] \notin early, p[2] \notin early
  PROVE  items[p].doc = config[p[2]] \/ items[Back(p)].doc = config[p[1]]
<1>1. items[p].doc \in Document /\ items[Back(p)].doc \in Document
  BY BackIsPair DEF TypeOK, Item
<1> QED BY <1>1, BackIsPair DEF DirectoryInv, OneIsTrue, Has

\* Seen from a pair whose first member holds a true document.
LEMMA ModeKnown ==
  ASSUME TypeOK, DirectoryInv, NEW p \in Pairs, Knows(p), NEW m \in items[p].mods
  PROVE  SameMode(config[p[1]], config[p[2]], m)
<1>1. MadeFrom(config[p[1]], items[p]) /\ items[p].doc = config[p[2]]
  BY DEF Knows, DirectoryInv, ItemsFit
<1>2. m \in Modules(config[p[2]])
  BY <1>1 DEF MadeFrom
<1>3. IsIn(config[p[1]], items[p].mods, config[p[2]].encrypted, TRUE)
  BY <1>1 DEF MadeFrom
<1>4. m \in Modules(config[p[1]]) /\ (m \in config[p[2]].encrypted <=> m \in config[p[1]].encrypted)
  BY <1>3 DEF IsIn
<1> QED BY <1>2, <1>4 DEF SameMode

\* A reflector that knows the other as it is now configured has only modules in the
\* same mode (GetDHTConfig, UpdateItem and IsIn).  Two that both have an address from
\* the DHT, of which neither asked before its own document was out, have the modules
\* they share in the same mode, although each may have read what the other had put
\* there before its last start.
THEOREM ModesAgreed == Spec => []ModesAgree
<1>1. ASSUME TypeOK, DirectoryInv PROVE ModesAgree
  <2>1. ASSUME NEW p \in Pairs, Knows(p), NEW m \in items[p].mods
        PROVE  SameMode(config[p[1]], config[p[2]], m)
    BY <1>1, <2>1, ModeKnown
  <2>2. ASSUME NEW p \in Pairs, InDHT(p), InDHT(Back(p)), p[1] \notin early, p[2] \notin early,
               NEW m \in items[p].mods \cap items[Back(p)].mods
        PROVE  SameMode(config[p[1]], config[p[2]], m)
    <3>1. CASE items[p].doc = config[p[2]]
      BY <1>1, <2>2, <3>1, ModeKnown DEF Knows
    <3>2. CASE items[Back(p)].doc = config[p[1]]
      <4>1. Knows(Back(p)) /\ Back(p) \in Pairs
        BY <2>2, <3>2, BackIsPair DEF Knows
      <4>2. SameMode(config[p[2]], config[p[1]], m)
        BY <1>1, <2>2, <4>1, ModeKnown, BackIsPair
      <4> QED BY <4>2, Zenon DEF SameMode
    <3> QED BY <1>1, <2>2, <3>1, <3>2, HeldDocuments
  <2> QED BY <2>1, <2>2 DEF ModesAgree
<1> QED BY <1>1, DirectoryInvariant, PTL

\* Two reflectors that know each other as they are now call each other at
\* addresses of the same family, each at the one the other expects (UpdateItem's
\* choice, and GetInterlinkPacket's comparison).
THEOREM AddressesFitted == Spec => []AddressesFit
<1>1. ASSUME TypeOK, DirectoryInv PROVE AddressesFit
  <2> SUFFICES ASSUME NEW p \in Pairs, Knows(p), Knows(Back(p)), items[p].mods = items[Back(p)].mods
               PROVE  Meet(p)
    BY DEF AddressesFit
  <2> DEFINE c == config[p[1]]
             d == config[p[2]]
             f == Family(c, d)
  <2>1. c \in Document /\ d \in Document
    BY <1>1, BackIsPair DEF TypeOK
  <2>2. items[p].ip = [family |-> f, host |-> d.addr[f], port |-> d.port] /\ IsSet(items[p])
    BY <1>1 DEF Knows, InDHT, DirectoryInv, ItemsFit, MadeFrom
  <2>3. items[Back(p)].ip = [family |-> Family(d, c), host |-> c.addr[Family(d, c)], port |-> c.port]
    <3>1. Back(p) \in Pairs /\ Back(p)[1] = p[2] /\ Back(p)[2] = p[1]
      BY BackIsPair
    <3>2. InDHT(Back(p)) /\ items[Back(p)].doc = c
      BY <3>1 DEF Knows
    <3>3. MadeFrom(d, items[Back(p)])
      BY <1>1, <3>1, <3>2 DEF DirectoryInv, ItemsFit
    <3> QED BY <3>2, <3>3 DEF MadeFrom
  <2>4. items[Back(p)].ip.host = c.addr[f]
    <3>1. Family(d, c) = f
      BY <2>1, FamilySame
    <3> QED BY <2>3, <3>1
  <2>5. items[p].ip.family = f /\ items[p].ip.host = d.addr[f] /\ items[p].ip.port = d.port
    BY <2>2
  <2> HIDE DEF f
  <2> QED BY <2>2, <2>4, <2>5 DEF Meet, Reaches, Expected
<1> QED BY <1>1, DirectoryInvariant, PTL
=============================================================================
