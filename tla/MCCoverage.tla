----------------------------- MODULE MCCoverage -----------------------------
(***************************************************************************)
(* A small API: one resource under two spellings of its placeholder, one   *)
(* family that no service claims, and a path the dump never has.           *)
(***************************************************************************)
EXTENDS Coverage

Lit(s) == <<"lit", s>>
Ph(s)  == <<"ph", s>>
EP(m, p) == [method |-> m, path |-> p]

QemuNode == <<Lit("qemu"), Ph("node")>>
QemuId   == <<Lit("qemu"), Ph("id")>>
Pools    == <<Lit("pools")>>

SmallDump == {EP("GET", QemuNode), EP("GET", QemuId), EP("GET", Pools),
              EP("OPTIONS", Pools)}

SmallPatterns == {EP("GET", <<APIPrefix>> \o QemuId),
                  EP("GET", <<APIPrefix>> \o Pools),
                  EP("PUT", <<APIPrefix>> \o Pools),
                  EP("", Pools)}

Entry(s, m, p, c) == [section |-> s, method |-> m, path |-> p, complete |-> c]

SmallEntries == {Entry("base", "", << >>, TRUE),
                 Entry("stub", "get", QemuId, TRUE),
                 Entry("allow", "put", <<APIPrefix>> \o Pools, TRUE),
                 Entry("oos", "", <<Lit("qemu")>>, TRUE),
                 Entry("oos", "", QemuNode, TRUE),
                 Entry("oos", "", <<APIPrefix>>, TRUE),
                 Entry("side", "", << >>, TRUE),
                 Entry("allow", "GET", Pools, TRUE),
                 Entry("stub", "GET", Pools, FALSE)}

SmallRules == {[prefix |-> <<Lit("qemu")>>, service |-> "qemu", exact |-> TRUE],
               [prefix |-> <<Lit("qemu"), Ph("")>>, service |-> "guests",
                exact |-> FALSE]}
=============================================================================
