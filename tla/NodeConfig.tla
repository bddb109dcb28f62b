----------------------------- MODULE NodeConfig -----------------------------
(***************************************************************************)
(* A node's configuration file and its two readers: the SDK's codec        *)
(* (proxmox/nodes/nodeconfig.go) and the mock server, which stores the     *)
(* property strings as they come and reads them when a certificate is      *)
(* ordered (proxmox/mockpve/acme.go, nodesadmin.go).                       *)
(*                                                                         *)
(* A property string is a sequence of parts; a part has a key, which is "" *)
(* when the part is a bare token, and a value.  The value of "domains" is a*)
(* set of names.  White space around parts, which both readers trim, is    *)
(* left out, as are the keys of the file that neither reads.               *)
(***************************************************************************)
EXTENDS Integers, FiniteSets, Sequences, SequencesExt

Part(key, value) == [key |-> key, value |-> value]

\* The key acmedomain<n>: its number, and whether it is written with a zero in
\* front ("acmedomain00"), as a file that was edited by hand may have it.
SlotKey(n, padded) == [n |-> n, padded |-> padded]

ACMEDomainMaxIndex == 5
ACMEDomainKey(index) == SlotKey(index, FALSE)

\* A value that may be missing is a sequence of at most one.
None    == << >>
Some(x) == <<x>>

\* The file: the acme string, if there is one, and the slots that are there.
File(acme, slots) == [acme |-> acme, slots |-> slots]

\* What is in g when the keys of f have been set.
Over(f, g) == [x \in DOMAIN f \union DOMAIN g |-> IF x \in DOMAIN f THEN f[x] ELSE g[x]]

-----------------------------------------------------------------------------
(* The SDK reads.                                                          *)

\* parseACMEDomain: a bare token is the domain wherever it stands unless there
\* is one already, a keyed one always is; other keys are dropped.
NoDomain == [domain |-> "", plugin |-> "", alias |-> ""]

TakePart(out, part) ==
  CASE part.key = "" /\ out.domain = "" -> [out EXCEPT !.domain = part.value]
    [] part.key \in DOMAIN out          -> [out EXCEPT ![part.key] = part.value]
    [] OTHER                            -> out

parseACMEDomain(parts) ==
  LET out[i \in 0..Len(parts)] == IF i = 0 THEN NoDomain ELSE TakePart(out[i - 1], parts[i])
  IN  out[Len(parts)]

\* parseNodeACME: the last account counts and the domains add up.
TakeACME(out, part) ==
  CASE part.key = "account" -> [out EXCEPT !.account = part.value]
    [] part.key = "domains" -> [out EXCEPT !.domains = @ \union part.value]
    [] OTHER                -> out

NoACME == [account |-> "", domains |-> {}]

parseNodeACME(parts) ==
  LET out[i \in 0..Len(parts)] == IF i = 0 THEN NoACME ELSE TakeACME(out[i - 1], parts[i])
  IN  out[Len(parts)]

\* acmeDomainSlot: any number, in canonical decimal.
acmeDomainSlotLax(key) == TRUE
acmeDomainSlot(key) == ~key.padded

\* NodeConfig.UnmarshalJSON: a key is typed if it parses, and otherwise stays in
\* Extra as it is.
Claimed(file) == {key \in DOMAIN file.slots :
                  acmeDomainSlot(key) /\ parseACMEDomain(file.slots[key]).domain # ""}

ReadConfig(file) ==
  [acme        |-> [i \in DOMAIN file.acme |-> parseNodeACME(file.acme[i])],
   acmeDomains |-> [key \in Claimed(file) |-> parseACMEDomain(file.slots[key])],
   extra       |-> [key \in DOMAIN file.slots \ Claimed(file) |-> file.slots[key]]]

-----------------------------------------------------------------------------
(* The SDK writes.                                                         *)

OneIf(condition, part) == IF condition THEN <<part>> ELSE << >>

encodeACMEDomain(d) ==
  <<Part("domain", d.domain)>> \o OneIf(d.plugin # "", Part("plugin", d.plugin))
                               \o OneIf(d.alias # "", Part("alias", d.alias))

encodeNodeACME(a) ==
  OneIf(a.account # "", Part("account", a.account))
  \o OneIf(a.domains # {}, Part("domains", a.domains))

\* An update: the acme value, if any, domains in a list (each with its index),
\* slots to delete, whether acme is to be deleted, and Extra.
NodeConfigUpdate(acme, domains, delete, drop, extra) ==
  [acme |-> acme, domains |-> domains, delete |-> delete, drop |-> drop, extra |-> extra]

\* SetNodeConfig refuses an acme that renders empty, an index PVE does not
\* have, a domain without a name, and an index that is given twice.
Refused(u) ==
  \/ \E i \in DOMAIN u.acme : encodeNodeACME(u.acme[i]) = << >>
  \/ \E i \in DOMAIN u.domains :
       \/ u.domains[i].index \notin 0..ACMEDomainMaxIndex
       \/ u.domains[i].domain = ""
       \/ \E j \in 1..(i - 1) : u.domains[j].index = u.domains[i].index

\* ... and otherwise sends this: typed values are set over those of Extra.
ConfigForm(u) ==
  LET at(index) == CHOOSE i \in DOMAIN u.domains : u.domains[i].index = index
      slots == {ACMEDomainKey(u.domains[i].index) : i \in DOMAIN u.domains}
  IN  [acme   |-> [i \in DOMAIN u.acme |-> encodeNodeACME(u.acme[i])],
       slots  |-> Over([key \in slots |-> encodeACMEDomain(u.domains[at(key.n)])], u.extra),
       delete |-> u.delete, drop |-> u.drop]

-----------------------------------------------------------------------------
(* The mock server.                                                        *)

\* handleNodeConfigSet: the deletes, then the keys that are set.
ApplyConfig(file, form) ==
  LET kept == [key \in DOMAIN file.slots \ form.delete |-> file.slots[key]]
  IN  File(CASE form.acme # None               -> form.acme
             [] form.acme = None /\ form.drop  -> None
             [] form.acme = None /\ ~form.drop -> file.acme,
           Over(form.slots, kept))

\* slotDomain: the first keyed domain, or a bare token in front.
slotDomain(parts) ==
  LET names == {i \in DOMAIN parts : parts[i].key = "domain" \/ (i = 1 /\ parts[i].key = "")}
  IN  IF names = {} THEN ""
      ELSE parts[CHOOSE i \in names : \A j \in names : i <= j].value

\* acmeSANsLocked: the names an order certifies.
acmeSANs(file) ==
  ({slotDomain(file.slots[key]) :
      key \in {ACMEDomainKey(i) : i \in 0..ACMEDomainMaxIndex} \intersect DOMAIN file.slots}
   \union UNION {parseNodeACME(file.acme[i]).domains : i \in DOMAIN file.acme})
  \ {""}

-----------------------------------------------------------------------------
\* A client's update that writes back all that it read, its slots in any order.
Indexed(key, d) == [index |-> key.n, domain |-> d.domain, plugin |-> d.plugin, alias |-> d.alias]

WriteBack(c) ==
  LET listed == SetToSeq(DOMAIN c.acmeDomains)
  IN  NodeConfigUpdate(c.acme,
        [i \in DOMAIN listed |-> Indexed(listed[i], c.acmeDomains[listed[i]])],
        {}, FALSE, c.extra)

\* The names the client believes an order certifies.
Believed(c) ==
  {c.acmeDomains[key].domain : key \in {k \in DOMAIN c.acmeDomains : k.n <= ACMEDomainMaxIndex}}
  \union UNION {c.acme[i].domains : i \in DOMAIN c.acme}
=============================================================================
